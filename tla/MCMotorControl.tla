--------------------------- MODULE MCMotorControl ---------------------------
(* MotorControl over a clock of quarter seconds: a turn takes 0.25 s and a *)
(* rotation 0.75 s instead of 0.02 s and 0.8 s, so that the stall window   *)
(* of 3 s is twelve turns long.                                            *)
EXTENDS MotorControl

MCClock == {250000 * k : k \in 12..40}
MCBootTimes == {3000000}
=============================================================================
