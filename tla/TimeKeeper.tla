----------------------------- MODULE TimeKeeper -----------------------------
(***************************************************************************)
(* The shared time `now` of Car_project: set by time_sync at boot          *)
(* (tasks/time_synh.c), incremented once a second by the alarm interrupt   *)
(* of a hardware timer (timer.c), copied by write_time of the display task *)
(* (tasks/oled_task.c). `now` is a 64-bit time_t on a 32-bit processor:    *)
(* every access is two accesses, and m_TIME, a spinlock whose critical     *)
(* sections mask the interrupts of their own core, keeps them together.    *)
(*                                                                         *)
(* The interrupt is served on the core that called timer_init. oled_task   *)
(* is not pinned: every critical section may run on another core.          *)
(***************************************************************************)
EXTENDS Naturals

CONSTANTS
  Core,        \* the cores
  BootCore,    \* where app_main runs and the timer interrupt is served
  Word,        \* the number of values of a machine word, 2^32
  StartTimes,  \* what time() may return: network time, or seconds since reset
  MaxAlarms    \* bound of the alarms in one behaviour

ASSUME TimeAssumption ==
  /\ BootCore \in Core
  /\ Word \in Nat \ {0}
  /\ StartTimes \subseteq [hi : Nat, lo : 0..(Word - 1)]
  /\ MaxAlarms \in Nat

VARIABLES
  now,         \* the two words
  boot,        \* "sync", "stored" (low word), "synced", "ticking", "running"
  synced,      \* what time(&now) stores
  m_TIME,      \* the spinlock: "free", "isr" or "oled"
  alarm,       \* the timer's interrupt is pending
  isr,         \* "idle", "spin" for m_TIME, "low", "high" word to store, "leave"
  next,        \* now + 1 in the handler's registers
  oled,        \* "outside", "spin", "low", "high" word to copy, "leave"
  oled_core,   \* where write_time's critical section runs
  local_now,
  shown,       \* the time in oled_full_buffer
  due,         \* history: synced and the alarms so far
  alarms       \* their number

bootVars == <<boot, synced>>
isrVars == <<isr, next>>
oledVars == <<oled, oled_core, local_now, shown>>
historyVars == <<due, alarms>>
vars == <<now, bootVars, m_TIME, alarm, isrVars, oledVars, historyVars>>

Clock == INSTANCE SecondsClock
         WITH time <- IF boot \in {"sync", "stored"} THEN synced
                      ELSE IF isr = "high" THEN next ELSE now

Init ==
  /\ now = Clock!Unset /\ boot = "sync" /\ synced \in StartTimes
  /\ m_TIME = "free" /\ alarm = FALSE
  /\ isr = "idle" /\ next = Clock!Unset
  /\ oled = "outside" /\ oled_core = BootCore
  /\ local_now = Clock!Unset /\ shown = Clock!Unset
  /\ due = synced /\ alarms = 0

-----------------------------------------------------------------------------
(* app_main: time_sync's time(&now), then timer_init, later oled_task      *)

SyncLow ==
  /\ boot = "sync" /\ boot' = "stored"
  /\ now' = [now EXCEPT !.lo = synced.lo]
  /\ UNCHANGED <<synced, m_TIME, alarm, isrVars, oledVars, historyVars>>

SyncHigh ==
  /\ boot = "stored" /\ boot' = "synced"
  /\ now' = [now EXCEPT !.hi = synced.hi]
  /\ UNCHANGED <<synced, m_TIME, alarm, isrVars, oledVars, historyVars>>

timer_init ==
  /\ boot = "synced" /\ boot' = "ticking"
  /\ UNCHANGED <<now, synced, m_TIME, alarm, isrVars, oledVars, historyVars>>

StartOled ==
  /\ boot = "ticking" /\ boot' = "running"
  /\ UNCHANGED <<now, synced, m_TIME, alarm, isrVars, oledVars, historyVars>>

-----------------------------------------------------------------------------
(* The timer and timer_handler, with no task running on BootCore meanwhile *)

(* A second is over. The interrupt of the last one has long been served:   *)
(* the critical sections last microseconds.                                *)
Alarm ==
  /\ boot \in {"ticking", "running"} /\ ~alarm /\ alarms < MaxAlarms
  /\ alarm' = TRUE /\ due' = Clock!Succ(due) /\ alarms' = alarms + 1
  /\ UNCHANGED <<now, bootVars, m_TIME, isrVars, oledVars>>

(* Mutant: write_time locks without masking interrupts.                    *)
NothingMasked == FALSE

(* portENTER_CRITICAL masks the interrupts of its core.                    *)
Masked == oled # "outside" /\ oled_core = BootCore

IsrEnter ==
  /\ alarm /\ isr = "idle" /\ ~Masked
  /\ isr' = "spin"
  /\ UNCHANGED <<now, bootVars, m_TIME, alarm, next, oledVars, historyVars>>

(* Mutant: the increment is of 32 bits, without the carry.                 *)
IsrWithoutCarry ==
  /\ isr = "spin" /\ m_TIME = "free"
  /\ m_TIME' = "isr" /\ isr' = "low" /\ next' = [now EXCEPT !.lo = @ + 1]
  /\ UNCHANGED <<now, bootVars, alarm, oledVars, historyVars>>

IsrLock ==
  /\ isr = "spin" /\ m_TIME = "free"
  /\ m_TIME' = "isr" /\ isr' = "low" /\ next' = Clock!Succ(now)
  /\ UNCHANGED <<now, bootVars, alarm, oledVars, historyVars>>

IsrStoreLow ==
  /\ isr = "low" /\ isr' = "high"
  /\ now' = [now EXCEPT !.lo = next.lo]
  /\ UNCHANGED <<bootVars, m_TIME, alarm, next, oledVars, historyVars>>

(* Mutant: only the low word is stored.                                    *)
IsrForgetsHigh ==
  /\ isr = "high" /\ isr' = "leave"
  /\ UNCHANGED <<now, bootVars, m_TIME, alarm, next, oledVars, historyVars>>

IsrStoreHigh ==
  /\ isr = "high" /\ isr' = "leave"
  /\ now' = [now EXCEPT !.hi = next.hi]
  /\ UNCHANGED <<bootVars, m_TIME, alarm, next, oledVars, historyVars>>

(* Mutant: portEXIT_CRITICAL_ISR is missing.                               *)
IsrKeepsLock ==
  /\ isr = "leave" /\ isr' = "idle"
  /\ alarm' = FALSE
  /\ UNCHANGED <<now, bootVars, m_TIME, next, oledVars, historyVars>>

IsrLeave ==
  /\ isr = "leave" /\ isr' = "idle"
  /\ m_TIME' = "free" /\ alarm' = FALSE
  /\ UNCHANGED <<now, bootVars, next, oledVars, historyVars>>

IsrStep == IsrLock \/ IsrStoreLow \/ IsrStoreHigh \/ IsrLeave

-----------------------------------------------------------------------------
(* write_time; a core that serves the interrupt runs no task               *)

OledRuns == oled_core = BootCore => isr = "idle"

OledEnter ==
  /\ boot = "running" /\ oled = "outside"
  /\ oled' = "spin" /\ oled_core' \in Core
  /\ oled_core' = BootCore => isr = "idle"
  /\ UNCHANGED <<now, bootVars, m_TIME, alarm, isrVars, local_now, shown, historyVars>>

(* Mutant: write_time masks interrupts and takes no lock.                  *)
OledMasksOnly ==
  /\ oled = "spin" /\ OledRuns
  /\ oled' = "low"
  /\ UNCHANGED <<now, bootVars, m_TIME, alarm, isrVars, oled_core, local_now, shown,
                 historyVars>>

OledLock ==
  /\ oled = "spin" /\ OledRuns /\ m_TIME = "free"
  /\ m_TIME' = "oled" /\ oled' = "low"
  /\ UNCHANGED <<now, bootVars, alarm, isrVars, oled_core, local_now, shown, historyVars>>

OledCopyLow ==
  /\ oled = "low" /\ OledRuns
  /\ oled' = "high" /\ local_now' = [local_now EXCEPT !.lo = now.lo]
  /\ UNCHANGED <<now, bootVars, m_TIME, alarm, isrVars, oled_core, shown, historyVars>>

OledCopyHigh ==
  /\ oled = "high" /\ OledRuns
  /\ oled' = "leave" /\ local_now' = [local_now EXCEPT !.hi = now.hi]
  /\ UNCHANGED <<now, bootVars, m_TIME, alarm, isrVars, oled_core, shown, historyVars>>

(* Mutant: portEXIT_CRITICAL is missing.                                   *)
OledKeepsLock ==
  /\ oled = "leave" /\ OledRuns
  /\ oled' = "outside" /\ shown' = local_now
  /\ UNCHANGED <<now, bootVars, m_TIME, alarm, isrVars, oled_core, local_now, historyVars>>

(* The lock is released; localtime_r and write_string show the copy.       *)
OledLeave ==
  /\ oled = "leave" /\ OledRuns
  /\ oled' = "outside" /\ m_TIME' = "free" /\ shown' = local_now
  /\ UNCHANGED <<now, bootVars, alarm, isrVars, oled_core, local_now, historyVars>>

OledStep == OledLock \/ OledCopyLow \/ OledCopyHigh \/ OledLeave

Next ==
  \/ SyncLow \/ SyncHigh \/ timer_init \/ StartOled
  \/ Alarm \/ IsrEnter \/ IsrStep
  \/ OledEnter \/ OledStep

(* A pending interrupt is taken and a running handler or task goes on. The *)
(* lock is free often enough for a spinning core to get it: the handler    *)
(* holds it once a second, write_time once per turn of oled_task, which    *)
(* sleeps 10 ms.                                                           *)
Fairness ==
  /\ SF_vars(IsrEnter) /\ SF_vars(IsrLock) /\ WF_vars(IsrStep)
  /\ SF_vars(OledLock) /\ WF_vars(OledStep)

Spec == Init /\ [][Next]_vars

FairSpec == Spec /\ Fairness

-----------------------------------------------------------------------------
(* Properties                                                              *)

Times == [hi : Nat, lo : 0..(Word - 1)]

TypeOK ==
  /\ now \in Times /\ synced \in Times /\ next \in Times
  /\ local_now \in Times /\ shown \in Times /\ due \in Times
  /\ boot \in {"sync", "stored", "synced", "ticking", "running"}
  /\ m_TIME \in {"free", "isr", "oled"} /\ alarm \in BOOLEAN
  /\ isr \in {"idle", "spin", "low", "high", "leave"}
  /\ oled \in {"outside", "spin", "low", "high", "leave"}
  /\ oled_core \in Core /\ alarms \in Nat

(* What write_time shows is never put together from two values of `now`.   *)
LocalCopyIsExact == oled = "leave" => local_now = now

(* No second is lost or counted twice, and the increment is not lost in a  *)
(* half-finished store: `now` is the synchronised time plus the alarms,    *)
(* the pending one excepted.                                               *)
NoTickLost ==
  (boot \in {"synced", "ticking", "running"} /\ isr = "idle") =>
    due = IF alarm THEN Clock!Succ(now) ELSE now

(* The handler never waits for a lock held by the task it interrupted.     *)
NoSelfDeadlock == ~(isr = "spin" /\ m_TIME = "oled" /\ oled_core = BootCore)

(* The code implements the clock in which counting and copying are atomic. *)
ImplementsClock == Clock!Spec

(* Every alarm is served, and every critical section of write_time ends:   *)
(* the two cores do not block each other for ever.                         *)
AlarmsAreServed == alarm ~> ~alarm
CopiesEnd == oled = "spin" ~> oled = "outside"
=============================================================================
