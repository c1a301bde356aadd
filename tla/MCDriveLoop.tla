---------------------------- MODULE MCDriveLoop -----------------------------
(* DriveLoop with the delays of the code over a clock of 10 ms, from boot  *)
(* through the rotation every boot begins with and the second after it.    *)
EXTENDS DriveLoop

MCClock == {10000 * k : k \in 300..440}

MCBootTimes == {3000000}
=============================================================================
