-------------------------- MODULE TimeKeeperProofs --------------------------
(* Theorems about `now` for every number of cores, every word size, every  *)
(* synchronised time and any number of alarms.                             *)
EXTENDS TimeKeeper, TLAPS

(* The spinlock excludes; interrupts are masked where the task holds it.   *)
Locking ==
  /\ m_TIME = "isr" <=> isr \in {"low", "high", "leave"}
  /\ m_TIME = "oled" <=> oled \in {"low", "high", "leave"}
  /\ isr # "idle" => alarm /\ ~Masked

(* No task or interrupt touches `now` while app_main still sets it.        *)
Booting ==
  /\ boot \notin {"ticking", "running"} => ~alarm /\ due = synced
  /\ boot # "running" => oled = "outside" /\ shown = Clock!Unset
  /\ boot = "stored" => now.lo = synced.lo
  /\ boot = "synced" => now = synced

(* What the handler and the task have done so far inside their sections.   *)
Increment ==
  boot \in {"ticking", "running"} =>
    /\ isr \in {"idle", "spin"} => due = IF alarm THEN Clock!Succ(now) ELSE now
    /\ isr = "low" => next = Clock!Succ(now) /\ due = next
    /\ isr = "high" => next.lo = now.lo /\ due = next
    /\ isr = "leave" => due = now

Copy ==
  /\ oled = "high" => local_now.lo = now.lo
  /\ oled = "leave" => local_now = now

IInv == TypeOK /\ Locking /\ Booting /\ Increment /\ Copy

-----------------------------------------------------------------------------
LEMMA SuccType ==
  ASSUME NEW t \in Times
  PROVE  Clock!Succ(t) \in Times
BY TimeAssumption DEF TimeAssumption, Times, Clock!Succ

(* A time is its two words.                                                *)
LEMMA SameWords ==
  ASSUME NEW s \in Times, NEW t \in Times, s.hi = t.hi, s.lo = t.lo
  PROVE  s = t
BY DEF Times

LEMMA UnsetType == Clock!Unset \in Times
BY TimeAssumption DEF TimeAssumption, Times, Clock!Unset

LEMMA IInvInit == Init => IInv
<1> SUFFICES ASSUME Init PROVE IInv
  OBVIOUS
<1>1. synced \in Times
  BY TimeAssumption DEF TimeAssumption, Init, Times
<1>2. TypeOK
  BY <1>1, UnsetType, TimeAssumption DEF TimeAssumption, Init, TypeOK
<1>3. Locking /\ Booting /\ Increment /\ Copy
  BY DEF Init, Locking, Booting, Increment, Copy, Masked
<1> QED
  BY <1>2, <1>3 DEF IInv

(* app_main's steps: nothing else is under way yet.                        *)
LEMMA BootKeepsIInv ==
  ASSUME IInv, SyncLow \/ SyncHigh \/ timer_init \/ StartOled
  PROVE  IInv'
<1>1. TypeOK /\ Locking /\ Booting /\ Increment /\ Copy
  BY DEF IInv
<1>2. CASE SyncLow
  <2>1. now' \in Times /\ now'.lo = synced.lo
    BY <1>1, <1>2 DEF SyncLow, TypeOK, Times
  <2>2. TypeOK'
    BY <1>1, <1>2, <2>1 DEF SyncLow, TypeOK, isrVars, oledVars, historyVars, Times
  <2> QED
    BY <1>1, <1>2, <2>1, <2>2
    DEF SyncLow, IInv, Locking, Booting, Increment, Copy, Masked,
        isrVars, oledVars, historyVars
<1>3. CASE SyncHigh
  <2>1. now' = synced
    <3>1. now' \in Times /\ synced \in Times
      BY <1>1, <1>3 DEF SyncHigh, TypeOK, Times
    <3>2. now'.hi = synced.hi /\ now'.lo = now.lo
      BY <1>1, <1>3 DEF SyncHigh, TypeOK, Times
    <3>3. now.lo = synced.lo
      BY <1>1, <1>3 DEF SyncHigh, Booting
    <3> QED
      BY <3>1, <3>2, <3>3, SameWords
  <2>2. TypeOK'
    BY <1>1, <1>3, <2>1 DEF SyncHigh, TypeOK, isrVars, oledVars, historyVars, Times
  <2> QED
    BY <1>1, <1>3, <2>1, <2>2
    DEF SyncHigh, IInv, Locking, Booting, Increment, Copy, Masked,
        isrVars, oledVars, historyVars
<1>4. CASE timer_init
  <2>1. due = now /\ ~alarm /\ isr = "idle"
    BY <1>1, <1>4 DEF timer_init, Booting, Locking
  <2> QED
    BY <1>1, <1>4, <2>1
    DEF timer_init, IInv, TypeOK, Locking, Booting, Increment, Copy, Masked,
        isrVars, oledVars, historyVars, Times
<1>5. CASE StartOled
  BY <1>1, <1>5
  DEF StartOled, IInv, TypeOK, Locking, Booting, Increment, Copy, Masked,
      isrVars, oledVars, historyVars, Times
<1> QED
  BY <1>2, <1>3, <1>4, <1>5

LEMMA AlarmKeepsIInv ==
  ASSUME IInv, Alarm
  PROVE  IInv'
<1>1. TypeOK /\ Locking /\ Booting /\ Increment /\ Copy
  BY DEF IInv
<1>2. /\ boot \in {"ticking", "running"} /\ ~alarm /\ alarm' = TRUE
      /\ due' = Clock!Succ(due) /\ alarms' = alarms + 1
      /\ UNCHANGED <<now, boot, synced, m_TIME, isr, next,
                     oled, oled_core, local_now, shown>>
  BY DEF Alarm, bootVars, isrVars, oledVars
<1>3. isr = "idle" /\ due = now
  BY <1>1, <1>2 DEF Locking, Increment
<1>4. TypeOK'
  BY <1>1, <1>2, SuccType DEF TypeOK
<1> QED
  BY <1>1, <1>2, <1>3, <1>4 DEF IInv, Locking, Booting, Increment, Copy, Masked

(* The handler's steps.                                                    *)
LEMMA IsrKeepsIInv ==
  ASSUME IInv, IsrEnter \/ IsrStep
  PROVE  IInv'
<1>1. TypeOK /\ Locking /\ Booting /\ Increment /\ Copy
  BY DEF IInv
<1>2. alarm /\ boot \in {"ticking", "running"}
  BY <1>1
  DEF IsrEnter, IsrStep, IsrLock, IsrStoreLow, IsrStoreHigh, IsrLeave,
      Locking, Booting, TypeOK
<1>3. CASE IsrEnter
  BY <1>1, <1>2, <1>3
  DEF IsrEnter, IInv, TypeOK, Locking, Booting, Increment, Copy, Masked,
      bootVars, oledVars, historyVars
<1>4. CASE IsrLock
  <2>1. next' = Clock!Succ(now) /\ next' \in Times
    BY <1>1, <1>4, SuccType DEF IsrLock, TypeOK
  <2>2. due = Clock!Succ(now)
    BY <1>1, <1>2, <1>4 DEF IsrLock, Increment
  <2>3. oled \notin {"low", "high", "leave"}
    BY <1>1, <1>4 DEF IsrLock, Locking
  <2>4. TypeOK'
    BY <1>1, <1>4, <2>1 DEF IsrLock, TypeOK, bootVars, oledVars, historyVars
  <2> QED
    BY <1>1, <1>2, <1>4, <2>1, <2>2, <2>3, <2>4
    DEF IsrLock, IInv, Locking, Booting, Increment, Copy, Masked,
        bootVars, oledVars, historyVars
<1>5. CASE IsrStoreLow
  <2>1. now' \in Times /\ now'.lo = next.lo
    BY <1>1, <1>5 DEF IsrStoreLow, TypeOK, Times
  <2>2. oled \notin {"low", "high", "leave"} /\ due = next
    BY <1>1, <1>2, <1>5 DEF IsrStoreLow, Locking, Increment
  <2>3. TypeOK'
    BY <1>1, <1>5, <2>1 DEF IsrStoreLow, TypeOK, bootVars, oledVars, historyVars
  <2> QED
    BY <1>1, <1>2, <1>5, <2>1, <2>2, <2>3
    DEF IsrStoreLow, IInv, Locking, Booting, Increment, Copy, Masked,
        bootVars, oledVars, historyVars
<1>6. CASE IsrStoreHigh
  <2>1. now' = next
    <3>1. now' \in Times /\ next \in Times
      BY <1>1, <1>6 DEF IsrStoreHigh, TypeOK, Times
    <3>2. now'.hi = next.hi /\ now'.lo = now.lo
      BY <1>1, <1>6 DEF IsrStoreHigh, TypeOK, Times
    <3>3. now.lo = next.lo
      BY <1>1, <1>2, <1>6 DEF IsrStoreHigh, Increment
    <3> QED
      BY <3>1, <3>2, <3>3, SameWords
  <2>2. oled \notin {"low", "high", "leave"} /\ due = next
    BY <1>1, <1>2, <1>6 DEF IsrStoreHigh, Locking, Increment
  <2>3. TypeOK'
    BY <1>1, <1>6, <2>1 DEF IsrStoreHigh, TypeOK, bootVars, oledVars, historyVars
  <2> QED
    BY <1>1, <1>2, <1>6, <2>1, <2>2, <2>3
    DEF IsrStoreHigh, IInv, Locking, Booting, Increment, Copy, Masked,
        bootVars, oledVars, historyVars
<1>7. CASE IsrLeave
  <2>1. due = now /\ oled \notin {"low", "high", "leave"}
    BY <1>1, <1>2, <1>7 DEF IsrLeave, Increment, Locking
  <2> QED
    BY <1>1, <1>2, <1>7, <2>1
    DEF IsrLeave, IInv, TypeOK, Locking, Booting, Increment, Copy, Masked,
        bootVars, oledVars, historyVars
<1> QED
  BY <1>3, <1>4, <1>5, <1>6, <1>7 DEF IsrStep

(* write_time's steps.                                                     *)
LEMMA OledKeepsIInv ==
  ASSUME IInv, OledEnter \/ OledStep
  PROVE  IInv'
<1>1. TypeOK /\ Locking /\ Booting /\ Increment /\ Copy
  BY DEF IInv
<1>2. boot = "running"
  BY <1>1
  DEF OledEnter, OledStep, OledLock, OledCopyLow, OledCopyHigh, OledLeave, Booting
<1>3. CASE OledEnter
  BY <1>1, <1>2, <1>3
  DEF OledEnter, IInv, TypeOK, Locking, Booting, Increment, Copy, Masked,
      bootVars, isrVars, historyVars
<1>4. CASE OledLock
  BY <1>1, <1>2, <1>4
  DEF OledLock, IInv, TypeOK, Locking, Booting, Increment, Copy, Masked,
      bootVars, isrVars, historyVars
<1>5. CASE OledCopyLow
  <2>1. local_now' \in Times /\ local_now'.lo = now.lo
    BY <1>1, <1>5 DEF OledCopyLow, TypeOK, Times
  <2> QED
    BY <1>1, <1>2, <1>5, <2>1
    DEF OledCopyLow, IInv, TypeOK, Locking, Booting, Increment, Copy, Masked,
        bootVars, isrVars, historyVars
<1>6. CASE OledCopyHigh
  <2>1. local_now' = now
    <3>1. local_now' \in Times /\ now \in Times
      BY <1>1, <1>6 DEF OledCopyHigh, TypeOK, Times
    <3>2. local_now'.hi = now.hi /\ local_now'.lo = local_now.lo
      BY <1>1, <1>6 DEF OledCopyHigh, TypeOK, Times
    <3>3. local_now.lo = now.lo
      BY <1>1, <1>6 DEF OledCopyHigh, Copy
    <3> QED
      BY <3>1, <3>2, <3>3, SameWords
  <2> QED
    BY <1>1, <1>2, <1>6, <2>1
    DEF OledCopyHigh, IInv, TypeOK, Locking, Booting, Increment, Copy, Masked,
        bootVars, isrVars, historyVars
<1>7. CASE OledLeave
  BY <1>1, <1>2, <1>7
  DEF OledLeave, IInv, TypeOK, Locking, Booting, Increment, Copy, Masked,
      bootVars, isrVars, historyVars
<1> QED
  BY <1>3, <1>4, <1>5, <1>6, <1>7 DEF OledStep

(* The invariant is inductive.                                             *)
LEMMA IInvStep == IInv /\ [Next]_vars => IInv'
<1> SUFFICES ASSUME IInv, [Next]_vars PROVE IInv'
  OBVIOUS
<1>1. CASE UNCHANGED vars
  BY <1>1
  DEF vars, bootVars, isrVars, oledVars, historyVars, IInv, TypeOK, Locking,
      Booting, Increment, Copy, Masked
<1> QED
  BY <1>1, BootKeepsIInv, AlarmKeepsIInv, IsrKeepsIInv, OledKeepsIInv DEF Next

LEMMA IInvAlways == Spec => []IInv
BY IInvInit, IInvStep, PTL DEF Spec

-----------------------------------------------------------------------------
(* The variables keep their types; in particular `now` stays a pair of     *)
(* words, whichever of them is carried into.                               *)
THEOREM TypeCorrect == Spec => []TypeOK
BY IInvAlways, PTL DEF IInv

(* write_time never copies the low word of one second and the high word of *)
(* another.                                                                *)
THEOREM CopyIsExact == Spec => []LocalCopyIsExact
<1>1. IInv => LocalCopyIsExact
  BY DEF IInv, Copy, LocalCopyIsExact
<1> QED
  BY <1>1, IInvAlways, PTL

(* Between two runs of the handler `now` is the synchronised time plus the *)
(* alarms it has been called for.                                          *)
THEOREM TicksAreCounted == Spec => []NoTickLost
<1>1. ASSUME IInv PROVE NoTickLost
  <2> SUFFICES ASSUME boot \in {"synced", "ticking", "running"}, isr = "idle"
               PROVE  due = IF alarm THEN Clock!Succ(now) ELSE now
    BY DEF NoTickLost
  <2>1. CASE boot = "synced"
    BY <1>1, <2>1 DEF IInv, Booting
  <2>2. CASE boot \in {"ticking", "running"}
    BY <1>1, <2>2 DEF IInv, Increment
  <2> QED
    BY <2>1, <2>2
<1> QED
  BY <1>1, IInvAlways, PTL

(* The handler never spins on the lock of the task whose core it took.     *)
THEOREM HandlerNeverSelfDeadlocks == Spec => []NoSelfDeadlock
<1>1. IInv => NoSelfDeadlock
  BY DEF IInv, Locking, Masked, NoSelfDeadlock
<1> QED
  BY <1>1, IInvAlways, PTL

(* Word by word, under the spinlock, the code implements the clock that    *)
(* counts and is copied in single steps: the tick happens when the low     *)
(* word is stored, the copy when write_time leaves its critical section.   *)
THEOREM Implementation == Spec => ImplementsClock
<1> DEFINE time == IF boot \in {"sync", "stored"} THEN synced
                   ELSE IF isr = "high" THEN next ELSE now
<1>1. Init => Clock!Init
  BY DEF Init, Clock!Init
<1>2. ASSUME IInv, IInv', [Next]_vars
      PROVE  [Clock!Next]_<<time, shown>>
  <2>1. CASE SyncLow \/ SyncHigh
    <3>1. isr = "idle" /\ isr' = "idle" /\ shown' = shown /\ synced' = synced
      BY <1>2, <2>1
      DEF IInv, Booting, Locking, SyncLow, SyncHigh, isrVars, oledVars
    <3>2. boot \in {"sync", "stored"} /\ (boot' = "stored" \/ now' = synced)
      BY <1>2, <2>1, <3>1 DEF SyncLow, SyncHigh, IInv, Booting
    <3>3. time = synced /\ time' = synced
      BY <2>1, <3>1, <3>2 DEF SyncLow, SyncHigh
    <3> QED
      BY <3>1, <3>3
  <2>2. CASE timer_init \/ StartOled \/ Alarm \/ IsrEnter \/ IsrLock \/ IsrLeave
    BY <2>2
    DEF timer_init, StartOled, Alarm, IsrEnter, IsrLock, IsrLeave, bootVars, isrVars, oledVars
  <2>3. CASE IsrStoreLow
    <3>1. boot \in {"ticking", "running"} /\ boot' = boot /\ shown' = shown
      BY <1>2, <2>3
      DEF IsrStoreLow, IInv, TypeOK, Locking, Booting, bootVars, oledVars
    <3>2. time = now /\ time' = next /\ next = Clock!Succ(now)
      BY <1>2, <2>3, <3>1 DEF IsrStoreLow, IInv, Increment
    <3> QED
      BY <3>1, <3>2 DEF Clock!Next, Clock!Tick
  <2>4. CASE IsrStoreHigh
    <3>1. boot \in {"ticking", "running"} /\ boot' = boot /\ shown' = shown
      BY <1>2, <2>4
      DEF IsrStoreHigh, IInv, TypeOK, Locking, Booting, bootVars, oledVars
    <3>2. next = due /\ now' = due' /\ due' = due
      BY <1>2, <2>4, <3>1 DEF IsrStoreHigh, IInv, Increment, historyVars
    <3>3. time = next /\ time' = now'
      BY <2>4, <3>1 DEF IsrStoreHigh
    <3> QED
      BY <3>1, <3>2, <3>3
  <2>5. CASE OledEnter \/ OledLock \/ OledCopyLow \/ OledCopyHigh
    BY <2>5
    DEF OledEnter, OledLock, OledCopyLow, OledCopyHigh, bootVars, isrVars
  <2>6. CASE OledLeave
    <3>1. boot = "running" /\ isr # "high" /\ shown' = now
      BY <1>2, <2>6 DEF OledLeave, IInv, Booting, Locking, Copy
    <3>2. time = now /\ time' = now
      BY <2>6, <3>1 DEF OledLeave, bootVars, isrVars
    <3> QED
      BY <3>1, <3>2 DEF Clock!Next, Clock!Show
  <2>7. CASE UNCHANGED vars
    BY <2>7 DEF vars, bootVars, isrVars, oledVars
  <2> QED
    BY <1>2, <2>1, <2>2, <2>3, <2>4, <2>5, <2>6, <2>7 DEF Next, IsrStep, OledStep
<1> QED
  BY <1>1, <1>2, IInvAlways, PTL DEF Spec, ImplementsClock, Clock!Spec
=============================================================================
