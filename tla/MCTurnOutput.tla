---------------------------- MODULE MCTurnOutput ----------------------------
(* TurnOutput for TLC: streams of different lengths, with and without gaps.  *)
EXTENDS TurnOutput

Answers == {<<"text", "other", "text">>, <<"text">>, <<>>}
=============================================================================
