-------------------------- MODULE MCMemoryManager --------------------------
(* Two consolidations and two writers of one process, and contents of       *)
(* different lengths.                                                       *)
EXTENDS MemoryManager, TLC

CONSTANTS a1, a2, g1, g2, p1

OneProcess   == a1 :> p1 @@ a2 :> p1 @@ g1 :> p1 @@ g2 :> p1
SoulContents == {<<0>>, <<1, 1>>, <<2, 2, 2>>}
SoulDefault  == <<0>>
=============================================================================
