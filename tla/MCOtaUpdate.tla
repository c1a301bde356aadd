---------------------------- MODULE MCOtaUpdate -----------------------------
(* OtaUpdate with two images that reach the network and one that does not. *)
EXTENDS OtaUpdate

CONSTANTS old, good, mute, torn

MCImages == {old, good, mute}
MCConnecting == {old, good}
=============================================================================
