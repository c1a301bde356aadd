--------------------------- MODULE MCDistanceTask ---------------------------
(* DistanceTask with the delays of the code over a clock of 10 ms.         *)
EXTENDS DistanceTask

MCClock == {10000 * k : k \in 300..350}
MCBootTimes == {3000000}
=============================================================================
