---------------------------- MODULE MCPapertrail ----------------------------
(* Papertrail with two logging tasks, a short buffer and a short queue.    *)
EXTENDS Papertrail

CONSTANTS wifi, motor
=============================================================================
