----------------------------- MODULE SafeUpdate -----------------------------
(***************************************************************************)
(* What the update over the air promises: an image that is not known to    *)
(* reach the network runs on trial only, and while it does, the image that *)
(* asked for it is kept. A trial ends with the network or with the image   *)
(* that was kept.                                                          *)
(***************************************************************************)
CONSTANTS
  Images,      \* the images an update may bring
  Connecting,  \* those that reach the network
  First,       \* the one the car starts with
  Nothing      \* no image

VARIABLES
  runs,        \* the image that runs
  kept,        \* during a trial, the image to fall back on
  trial        \* the running image has not reached the network yet

Init == runs = First /\ kept = Nothing /\ trial = FALSE

Try(i) == ~trial /\ runs' = i /\ kept' = runs /\ trial' = TRUE

Confirm ==
  /\ trial /\ runs \in Connecting
  /\ trial' = FALSE /\ kept' = Nothing /\ runs' = runs

FallBack ==
  /\ trial /\ kept # Nothing
  /\ runs' = kept /\ kept' = Nothing /\ trial' = FALSE

Next == (\E i \in Images : Try(i)) \/ Confirm \/ FallBack

Spec == Init /\ [][Next]_<<runs, kept, trial>>
=============================================================================
