----------------------------- MODULE MCSessions -----------------------------
(* Sessions for TLC: the goroutine belongs to the terminal.                  *)
EXTENDS Sessions, TLC

CONSTANTS i1, i2, i3, t1, s1, r1

InTerminal == r1 :> t1
=============================================================================
