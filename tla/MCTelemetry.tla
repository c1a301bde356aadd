---------------------------- MODULE MCTelemetry -----------------------------
(* Telemetry with the longest texts the frame has room for and with longer *)
(* ones (uart_task checks no range, so a distance may be 6553.50), besides *)
(* the shortest, with which both tasks begin.                              *)
EXTENDS Telemetry

MCDistanceLens == {6, 7}
MCTimeLens == {14, 19}
MCAngleLens == {51, 52}
MCPercents == {9, 100}
=============================================================================
