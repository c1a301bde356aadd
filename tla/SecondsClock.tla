---------------------------- MODULE SecondsClock ----------------------------
(***************************************************************************)
(* What the time keeping promises: a clock that counts seconds, and a      *)
(* display that now and then shows the second the clock is at. Reading and *)
(* counting are single steps here. A time is the pair of machine words a   *)
(* 64-bit time_t is stored in on the 32-bit processor.                     *)
(***************************************************************************)
EXTENDS Naturals

CONSTANTS
  Word,        \* the number of values of a machine word, 2^32
  StartTimes   \* the times time() may return at boot

(* The unsigned successor of a two-word time.                              *)
Succ(t) ==
  IF t.lo + 1 = Word THEN [hi |-> t.hi + 1, lo |-> 0]
                     ELSE [hi |-> t.hi, lo |-> t.lo + 1]

Unset == [hi |-> 0, lo |-> 0]

VARIABLES time, shown

Init == time \in StartTimes /\ shown = Unset

Tick == time' = Succ(time) /\ shown' = shown

Show == shown' = time /\ time' = time

Next == Tick \/ Show

Spec == Init /\ [][Next]_<<time, shown>>
=============================================================================
