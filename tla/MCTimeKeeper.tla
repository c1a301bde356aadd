---------------------------- MODULE MCTimeKeeper ----------------------------
(* TimeKeeper with words of two values, so that every second alarm carries *)
(* into the high word, from a failed and from a successful synchronisation.*)
EXTENDS TimeKeeper

CONSTANTS c0, c1

MCStartTimes == {[hi |-> 0, lo |-> 0], [hi |-> 1, lo |-> 1]}
=============================================================================
