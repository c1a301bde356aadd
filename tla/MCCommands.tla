----------------------------- MODULE MCCommands -----------------------------
(* Commands with a queue of two and payloads on both sides of the ranges   *)
(* of an angle and of a speed. The unit of time is one pause of the servo. *)
EXTENDS Commands

CONSTANT no_event

MCPayloads == {-300, 270}
MCClock == 0..5
MCTopics == {"car/logs", "car/motors", "car/servo"}
=============================================================================
