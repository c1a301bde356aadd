-------------------------- MODULE PapertrailProofs --------------------------
(* Theorems about the log path for any number of tasks that log, any       *)
(* lengths of the early buffer and of q_logs, and both ways of compiling   *)
(* the hook, as far as PapertrailAssumption holds.                         *)
EXTENDS Papertrail, SequenceTheorems, TLAPS

(* A task in the hook has begun a log, and none logs more than it may.     *)
Counted ==
  \A p \in Process :
    /\ logged[p] <= IF p = LogsTask THEN 1 ELSE MaxLogs
    /\ hook[p] # "idle" => logged[p] >= 1

(* The index a process holds is that of a slot, if it is loaded once.      *)
Indexed ==
  \A p \in Process :
    /\ hook[p] \in {"store", "reload"} => Reloads
    /\ hook[p] \in {"claim", "format"} => Reloads \/ reg[p] < EARLY_LOG_BUF_SIZE

Typed ==
  /\ TypeOK /\ Counted /\ Indexed
  /\ accepted \in Seq(Logs) /\ sent \in Seq(Logs \cup {None})

Slots == 0..(EARLY_LOG_BUF_SIZE - 1)

LEMMA Constants ==
  /\ MaxLogs \in Nat /\ QueueLength \in Nat \ {0} /\ EARLY_LOG_BUF_SIZE \in Nat \ {0}
  /\ LogsTask \in Process /\ LogsTask \notin Caller /\ None \notin Logs
<1>1. None \notin Process \X Nat
  BY PapertrailAssumption DEF PapertrailAssumption, Process
<1>2. 1..(MaxLogs + 1) \subseteq Nat
  BY PapertrailAssumption DEF PapertrailAssumption
<1>3. None \notin Logs
  BY <1>1, <1>2 DEF Logs
<1> QED
  BY <1>3, PapertrailAssumption DEF PapertrailAssumption, Process

(* The log a process in the hook is about to deliver.                      *)
LEMMA ThisLogType ==
  ASSUME Typed, NEW p \in Process, hook[p] # "idle"
  PROVE  ThisLog(p) \in Logs
<1>1. logged[p] \in Nat /\ logged[p] >= 1 /\ (logged[p] <= 1 \/ logged[p] <= MaxLogs)
  BY DEF Typed, TypeOK, Counted
<1>2. logged[p] \in 1..(MaxLogs + 1)
  BY <1>1, Constants
<1> QED
  BY <1>2 DEF ThisLog, Logs

LEMMA TypedInit == Init => Typed
<1> SUFFICES ASSUME Init PROVE Typed
  OBVIOUS
<1>1. <<>> \in Seq(Logs) /\ <<>> \in Seq(Logs \cup {None}) /\ Len(<<>>) = 0
  OBVIOUS
<1>2. early_log_buf \in [Slots -> Logs \cup {None}]
  BY DEF Init, Slots
<1>3. /\ got_bits \in [Process -> BOOLEAN] /\ reg \in [Process -> Nat]
      /\ logged \in [Process -> Nat]
      /\ hook \in [Process -> {"idle", "bits", "test", "send", "load", "store",
                               "reload", "claim", "format"}]
  BY DEF Init
<1>4. TypeOK
  BY <1>1, <1>2, <1>3, Constants DEF Init, TypeOK, Slots
<1>5. Counted /\ Indexed
  BY Constants DEF Init, Counted, Indexed
<1> QED
  BY <1>1, <1>4, <1>5 DEF Init, Typed

LEMMA BeginLogKeepsTyped ==
  ASSUME Typed, NEW p \in Process, BeginLog(p)
  PROVE  Typed'
<1>1. /\ logged[p] < IF p = LogsTask THEN 1 ELSE MaxLogs
      /\ logged[p] \in Nat
      /\ hook' = [hook EXCEPT ![p] = "bits"]
      /\ logged' = [logged EXCEPT ![p] = logged[p] + 1]
      /\ got_bits' = [got_bits EXCEPT ![p] = WIFI_BIT_GOT_IP]
  BY Constants DEF BeginLog, At, Typed, TypeOK
<1>2. Counted' /\ Indexed'
  BY <1>1, Constants DEF Typed, TypeOK, Counted, Indexed, BeginLog
<1> QED
  BY <1>1, <1>2
  DEF BeginLog, Typed, TypeOK, linkVars, earlyVars, taskVars

LEMMA HookKeepsTyped ==
  ASSUME Typed, NEW p \in Process, HookStep(p)
  PROVE  Typed'
<1>1. CASE StoreBits(p)
  BY <1>1 DEF StoreBits, At, Typed, TypeOK, Counted, Indexed, linkVars, earlyVars, taskVars
<1>2. CASE Test(p)
  BY <1>2 DEF Test, At, Typed, TypeOK, Counted, Indexed, linkVars, earlyVars, taskVars
<1>3. CASE Send(p)
  <2>1. ThisLog(p) \in Logs
    BY <1>3, ThisLogType DEF Send, At
  <2>2. q_logs \in Seq(Logs) /\ accepted \in Seq(Logs) /\ Len(q_logs) <= QueueLength
    BY DEF Typed, TypeOK
  <2>3. q_logs' \in Seq(Logs) /\ accepted' \in Seq(Logs) /\ Len(q_logs') <= QueueLength
    <3>1. CASE Len(q_logs) < QueueLength
      <4>1. q_logs' = Append(q_logs, ThisLog(p)) /\ accepted' = Append(accepted, ThisLog(p))
        BY <1>3, <3>1 DEF Send
      <4>2. Len(q_logs') = Len(q_logs) + 1 /\ Len(q_logs) \in Nat
        BY <2>1, <2>2, <4>1, AppendProperties
      <4> QED
        BY <2>1, <2>2, <3>1, <4>1, <4>2, AppendProperties, Constants
    <3>2. CASE ~(Len(q_logs) < QueueLength)
      BY <1>3, <2>2, <3>2 DEF Send
    <3> QED
      BY <3>1, <3>2
  <2> QED
    BY <1>3, <2>3 DEF Send, At, Typed, TypeOK, Counted, Indexed, linkVars, earlyVars, taskVars
<1>4. CASE LoadIndex(p)
  BY <1>4, Constants
  DEF LoadIndex, At, Typed, TypeOK, Counted, Indexed, linkVars, earlyVars, taskVars
<1>5. CASE StoreIndex(p)
  BY <1>5 DEF StoreIndex, At, Typed, TypeOK, Counted, Indexed, linkVars, taskVars
<1>6. CASE ReloadIndex(p)
  BY <1>6 DEF ReloadIndex, At, Typed, TypeOK, Counted, Indexed, linkVars, earlyVars, taskVars
<1>7. CASE ClaimSlot(p)
  BY <1>7, Constants
  DEF ClaimSlot, At, Typed, TypeOK, Counted, Indexed, linkVars, taskVars
<1>8. CASE FillSlot(p)
  <2>1. ThisLog(p) \in Logs
    BY <1>8, ThisLogType DEF FillSlot, At
  <2>2. early_log_buf' \in [Slots -> Logs \cup {None}]
    BY <1>8, <2>1 DEF FillSlot, Typed, TypeOK, Slots
  <2> QED
    BY <1>8, <2>2
    DEF FillSlot, At, Typed, TypeOK, Counted, Indexed, Slots, linkVars, taskVars
<1> QED
  BY <1>1, <1>2, <1>3, <1>4, <1>5, <1>6, <1>7, <1>8 DEF HookStep

LEMMA TaskKeepsTyped ==
  ASSUME Typed, TaskStep
  PROVE  Typed'
<1>1. /\ TypeOK /\ Counted /\ Indexed
      /\ accepted \in Seq(Logs) /\ sent \in Seq(Logs \cup {None})
  BY DEF Typed
<1>2. CASE OpenSocket \/ Initialised \/ FlushDone \/ ResetIndex
  BY <1>1, <1>2, Constants
  DEF OpenSocket, Initialised, FlushDone, ResetIndex, Typed, TypeOK, Counted, Indexed,
      linkVars, earlyVars, hookVars, taskVars
<1>3. CASE Receive
  <2>1. /\ q_logs' \in Seq(Logs) /\ Len(q_logs') <= QueueLength
        /\ log_buffer' \in Logs \cup {None}
    <3>1. q_logs \in Seq(Logs) /\ Len(q_logs) <= QueueLength
      BY <1>1 DEF TypeOK
    <3>2. CASE q_logs = <<>>
      BY <1>3, <3>1, <3>2 DEF Receive
    <3>3. CASE q_logs # <<>>
      <4>1. log_buffer' = Head(q_logs) /\ q_logs' = Tail(q_logs)
        BY <1>3, <3>3 DEF Receive
      <4>2. Len(q_logs) \in Nat /\ Len(Tail(q_logs)) = Len(q_logs) - 1
        BY <3>1, <3>3, HeadTailProperties
      <4> QED
        BY <3>1, <3>3, <4>1, <4>2, HeadTailProperties, Constants
    <3> QED
      BY <3>2, <3>3
  <2> QED
    BY <1>1, <1>3, <2>1
    DEF Receive, Typed, TypeOK, Counted, Indexed, linkVars, earlyVars, hookVars
<1>4. CASE FlushOne
  <2>1. sent' \in Seq(Logs \cup {None})
    <3>1. i < EARLY_LOG_BUF_SIZE => early_log_buf[i] \in Logs \cup {None}
      BY <1>1, Constants DEF TypeOK
    <3> QED
      BY <1>1, <1>4, <3>1, AppendProperties DEF FlushOne, SendTo
  <2> QED
    BY <1>1, <1>4, <2>1
    DEF FlushOne, Typed, TypeOK, Counted, Indexed, linkVars, earlyVars, hookVars
<1>5. CASE Redirect
  <2>1. sent' \in Seq(Logs \cup {None})
    <3>1. log_buffer \in Logs \cup {None}
      BY <1>1 DEF TypeOK
    <3>2. sent' \in {sent, Append(sent, log_buffer)}
      BY <1>5 DEF Redirect, SendTo
    <3> QED
      BY <1>1, <3>1, <3>2, AppendProperties
  <2> QED
    BY <1>1, <1>5, <2>1
    DEF Redirect, Typed, TypeOK, Counted, Indexed, linkVars, earlyVars, hookVars
<1> QED
  BY <1>2, <1>3, <1>4, <1>5 DEF TaskStep

LEMMA TypedStep == ASSUME Typed, [Next]_vars PROVE Typed'
<1>1. CASE GotIp \/ Disconnected
  BY <1>1
  DEF GotIp, Disconnected, Typed, TypeOK, Counted, Indexed, earlyVars, hookVars, taskVars
<1>2. CASE UNCHANGED vars
  BY <1>2
  DEF vars, Typed, TypeOK, Counted, Indexed, linkVars, earlyVars, hookVars, taskVars
<1> QED
  BY <1>1, <1>2, BeginLogKeepsTyped, HookKeepsTyped, TaskKeepsTyped DEF Next

LEMMA TypedAlways == Spec => []Typed
BY TypedInit, TypedStep, PTL DEF Spec

(* What the log path keeps: q_logs never holds more than its depth, and a  *)
(* hook that loads the index once leaves it within one past the buffer.    *)
THEOREM TypeCorrect == Spec => []TypeOK
BY TypedAlways, PTL DEF Typed

-----------------------------------------------------------------------------
(* A log whose call of the hook has returned. Only such logs are anywhere; *)
(* so a log that is delivered is not there yet.                            *)
Finished(log) ==
  /\ log[2] <= logged[log[1]]
  /\ hook[log[1]] # "idle" => log[2] # logged[log[1]]

Accepted(log) == \E k \in 1..Len(accepted) : accepted[k] = log
Collected(log) == \E slot \in Slots : early_log_buf[slot] = log
Delivered(log) == \E m \in 1..Len(sent) : sent[m] = log

OnlyFinished ==
  \A log \in Logs : Accepted(log) \/ Collected(log) \/ Delivered(log) => Finished(log)

(* No log is accepted twice, and none both collected early and accepted.   *)
Distinct ==
  /\ \A j, k \in 1..Len(accepted) : accepted[j] = accepted[k] => j = k
  /\ \A slot \in Slots : \A k \in 1..Len(accepted) : early_log_buf[slot] # accepted[k]

(* Of the accepted logs the last ones are in q_logs, the one before them   *)
(* is in log_buffer during a turn that will send it, and only those before *)
(* that have been sent.                                                    *)
Held == IF task \in {"flush", "reset", "redirect"} /\ log_buffer # None THEN 1 ELSE 0
Handed == Len(accepted) - Len(q_logs) - Held

Waiting ==
  /\ Handed >= 0
  /\ \A k \in 1..Len(q_logs) : q_logs[k] = accepted[Handed + Held + k]
  /\ Held = 1 => log_buffer = accepted[Handed + 1]

SentSoFar ==
  \A m \in 1..Len(sent) : \A k \in 1..Len(accepted) :
    sent[m] = accepted[k] => k <= Handed

Places ==
  \A m, n \in 1..Len(sent) : \A j, k \in 1..Len(accepted) :
    m < n /\ sent[m] = accepted[j] /\ sent[n] = accepted[k] => j < k

InOrder == OnlyFinished /\ Distinct /\ Waiting /\ SentSoFar /\ Places

LEMMA FinishedStays ==
  ASSUME Typed, [Next]_vars, NEW log \in Logs, Finished(log)
  PROVE  Finished(log)'
<1>1. PICK p \in Process, n \in 1..(MaxLogs + 1) : log = <<p, n>>
  BY DEF Logs
<1>2. log[1] = p /\ log[2] = n /\ p \in Process /\ n \in Nat
  BY <1>1, Constants
<1>3. /\ logged \in [Process -> Nat] /\ n <= logged[p]
      /\ hook[p] # "idle" => n # logged[p]
      /\ DOMAIN hook = Process
  BY <1>2 DEF Finished, Typed, TypeOK
<1>4. n <= logged'[p] /\ (hook'[p] # "idle" => n # logged'[p])
  <2>1. CASE UNCHANGED <<hook, logged>>
    BY <1>3, <2>1
  <2>2. CASE \E q \in Process : BeginLog(q)
    <3>1. PICK q \in Process : BeginLog(q)
      BY <2>2
    <3>2. logged' = [logged EXCEPT ![q] = logged[q] + 1] /\ hook' = [hook EXCEPT ![q] = "bits"]
      BY <3>1 DEF BeginLog, At
    <3>3. CASE q = p
      <4>1. logged'[p] = logged[p] + 1 /\ logged[p] \in Nat
        BY <1>2, <1>3, <3>2, <3>3
      <4> DEFINE count == logged'[p]
      <4>2. count = logged[p] + 1
        BY <4>1
      <4> HIDE DEF count
      <4>3. n <= count /\ n # count
        BY <1>2, <1>3, <4>1, <4>2
      <4> QED
        BY <4>3 DEF count
    <3>4. CASE q # p
      <4>1. logged'[p] = logged[p] /\ hook'[p] = hook[p]
        BY <1>2, <1>3, <3>2, <3>4
      <4> QED
        BY <1>3, <4>1
    <3> QED
      BY <3>3, <3>4
  <2>3. CASE \E q \in Process : HookStep(q)
    <3>1. PICK q \in Process : HookStep(q)
      BY <2>3
    <3>2. logged' = logged /\ hook[q] # "idle"
          /\ \E there : hook' = [hook EXCEPT ![q] = there]
      BY <3>1
      DEF HookStep, StoreBits, Test, Send, LoadIndex, StoreIndex, ReloadIndex, ClaimSlot,
        FillSlot, At
    <3>3. hook'[p] # "idle" => hook[p] # "idle"
      BY <1>2, <1>3, <3>2
    <3> QED
      BY <1>3, <3>2, <3>3
  <2> QED
    BY <2>1, <2>2, <2>3
    DEF Next, TaskStep, OpenSocket, Initialised, Receive, FlushOne, FlushDone,
      ResetIndex, Redirect, GotIp, Disconnected, hookVars, vars
<1> QED
  BY <1>2, <1>4 DEF Finished

(* The log of a call that is not over is a new one ...                     *)
LEMMA ThisLogIsNew ==
  ASSUME NEW p \in Process, hook[p] # "idle", NEW log, Finished(log)
  PROVE  log # ThisLog(p)
BY DEF Finished, ThisLog

(* ... and finished with the call.                                         *)
LEMMA ThisLogFinishes ==
  ASSUME Typed, NEW p \in Process, Send(p) \/ FillSlot(p)
  PROVE  Finished(ThisLog(p))'
<1>1. /\ hook' = [hook EXCEPT ![p] = "idle"] /\ UNCHANGED logged
      /\ DOMAIN hook = Process /\ logged[p] \in Nat
  BY DEF Send, FillSlot, At, Typed, TypeOK
<1>2. hook'[p] = "idle"
  BY <1>1
<1> QED
  BY <1>1, <1>2 DEF Finished, ThisLog

LEMMA Lengths ==
  ASSUME Typed
  PROVE  /\ Len(accepted) \in Nat /\ Len(q_logs) \in Nat /\ Len(sent) \in Nat
         /\ Held \in {0, 1} /\ Handed \in Int
         /\ \A k \in 1..Len(accepted) : accepted[k] \in Logs
         /\ \A m \in 1..Len(sent) : sent[m] \in Logs \cup {None}
         /\ \A slot \in Slots : early_log_buf[slot] \in Logs \cup {None}
<1>1. /\ accepted \in Seq(Logs) /\ q_logs \in Seq(Logs)
      /\ sent \in Seq(Logs \cup {None}) /\ early_log_buf \in [Slots -> Logs \cup {None}]
  BY DEF Typed, TypeOK, Slots
<1>2. Len(accepted) \in Nat /\ Len(q_logs) \in Nat /\ Len(sent) \in Nat
  BY <1>1
<1>3. Held \in {0, 1}
  BY DEF Held
<1>4. Handed \in Int
  BY <1>2, <1>3 DEF Handed
<1> QED
  BY <1>1, <1>2, <1>3, <1>4, ElementOfSeq

(* How a step moves logs: a call of the hook delivers one to q_logs or to  *)
(* a slot, the task takes one from q_logs, sends a slot or what it holds.  *)
MovesNone ==
  /\ UNCHANGED <<accepted, q_logs, early_log_buf, sent>>
  /\ UNCHANGED Held /\ (Held = 1 => UNCHANGED log_buffer)

Accepts(p) ==
  /\ Send(p) /\ UNCHANGED <<early_log_buf, sent, log_buffer>> /\ UNCHANGED Held
  /\ q_logs' = Append(q_logs, ThisLog(p)) /\ accepted' = Append(accepted, ThisLog(p))

Collects(p) ==
  /\ FillSlot(p) /\ UNCHANGED <<accepted, q_logs, sent, log_buffer>> /\ UNCHANGED Held
  /\ \A slot \in Slots : early_log_buf'[slot] \in {early_log_buf[slot], ThisLog(p)}

Takes ==
  /\ q_logs # <<>> /\ q_logs' = Tail(q_logs) /\ log_buffer' = Head(q_logs) /\ Held = 0
  /\ UNCHANGED <<accepted, early_log_buf, sent>>

SendsEarly ==
  /\ \E slot \in Slots : sent' = Append(sent, early_log_buf[slot])
  /\ UNCHANGED <<accepted, q_logs, early_log_buf, log_buffer>> /\ UNCHANGED Held

SendsHeld ==
  /\ Held = 1 /\ Held' = 0 /\ sent' = Append(sent, log_buffer)
  /\ UNCHANGED <<accepted, q_logs, early_log_buf>>

LEMMA HookMovesLogs ==
  ASSUME Typed, NEW p \in Process, BeginLog(p) \/ HookStep(p)
  PROVE  MovesNone \/ Accepts(p) \/ Collects(p)
<1>1. UNCHANGED <<sent, task, log_buffer>> /\ UNCHANGED Held
  BY DEF BeginLog, HookStep, StoreBits, Test, Send, LoadIndex, StoreIndex, ReloadIndex,
    ClaimSlot, FillSlot, taskVars, Held
<1>2. CASE Send(p)
  <2>1. UNCHANGED early_log_buf
    BY <1>2 DEF Send, earlyVars
  <2>2. CASE Len(q_logs) < QueueLength
    BY <1>1, <1>2, <2>1, <2>2 DEF Send, Accepts
  <2>3. CASE ~(Len(q_logs) < QueueLength)
    BY <1>1, <1>2, <2>1, <2>3 DEF Send, MovesNone
  <2> QED
    BY <2>2, <2>3
<1>3. CASE FillSlot(p)
  <2>1. DOMAIN early_log_buf = Slots
    BY DEF Typed, TypeOK, Slots
  <2> QED
    BY <1>1, <1>3, <2>1 DEF FillSlot, Collects
<1>4. CASE ~Send(p) /\ ~FillSlot(p)
  <2>1. UNCHANGED <<accepted, q_logs, early_log_buf>>
    BY <1>4
    DEF BeginLog, HookStep, StoreBits, Test, LoadIndex, StoreIndex, ReloadIndex,
      ClaimSlot, earlyVars
  <2> QED
    BY <1>1, <2>1 DEF MovesNone
<1> QED
  BY <1>2, <1>3, <1>4

LEMMA LogsMove ==
  ASSUME Typed, [Next]_vars
  PROVE  \/ MovesNone \/ Takes \/ SendsEarly \/ SendsHeld
         \/ \E p \in Process : Accepts(p) \/ Collects(p)
<1>1. CASE OpenSocket \/ Initialised \/ FlushDone \/ ResetIndex
  BY <1>1
  DEF OpenSocket, Initialised, FlushDone, ResetIndex, earlyVars, Held, MovesNone
<1>2. CASE Receive
  <2>1. task = "receive" /\ UNCHANGED <<accepted, early_log_buf, sent>>
    BY <1>2 DEF Receive, earlyVars
  <2>2. CASE q_logs = <<>>
    BY <1>2, <2>1, <2>2 DEF Receive, Held, MovesNone
  <2>3. CASE q_logs # <<>>
    BY <1>2, <2>1, <2>3 DEF Receive, Held, Takes
  <2> QED
    BY <2>2, <2>3
<1>3. CASE FlushOne
  <2>1. UNCHANGED <<accepted, q_logs, early_log_buf, task, log_buffer>> /\ UNCHANGED Held
    BY <1>3 DEF FlushOne, earlyVars, Held
  <2>2. CASE i < EARLY_LOG_BUF_SIZE
    <3>1. i \in Slots
      BY <2>2, Constants DEF Typed, TypeOK, Slots
    <3> QED
      BY <1>3, <2>1, <2>2, <3>1 DEF FlushOne, SendTo, SendsEarly
  <2>3. CASE ~(i < EARLY_LOG_BUF_SIZE)
    BY <1>3, <2>1, <2>3 DEF FlushOne, MovesNone
  <2> QED
    BY <2>2, <2>3
<1>4. CASE Redirect
  <2>1. UNCHANGED <<accepted, q_logs, early_log_buf, log_buffer>>
    BY <1>4 DEF Redirect, earlyVars
  <2>2. CASE log_buffer # None
    BY <1>4, <2>1, <2>2 DEF Redirect, SendTo, Held, SendsHeld
  <2>3. CASE log_buffer = None
    BY <1>4, <2>1, <2>3 DEF Redirect, Held, MovesNone
  <2> QED
    BY <2>2, <2>3
<1>5. CASE GotIp \/ Disconnected
  BY <1>5 DEF GotIp, Disconnected, earlyVars, taskVars, Held, MovesNone
<1>6. CASE UNCHANGED vars
  BY <1>6 DEF vars, earlyVars, taskVars, Held, MovesNone
<1> QED
  BY <1>1, <1>2, <1>3, <1>4, <1>5, <1>6, HookMovesLogs DEF Next, TaskStep

(* A log appended to a history of finished ones.                           *)
LEMMA Appended ==
  ASSUME NEW S, NEW seq \in Seq(S), NEW log \in S
  PROVE  /\ Append(seq, log) \in Seq(S) /\ Len(Append(seq, log)) = Len(seq) + 1
         /\ \A k \in 1..Len(seq) : Append(seq, log)[k] = seq[k]
         /\ Append(seq, log)[Len(seq) + 1] = log
         /\ \A k \in 1..Len(Append(seq, log)) : k \in 1..Len(seq) \/ k = Len(seq) + 1
<1>1. /\ Append(seq, log) \in Seq(S) /\ Len(Append(seq, log)) = Len(seq) + 1
      /\ \A k \in 1..Len(seq) : Append(seq, log)[k] = seq[k]
      /\ Append(seq, log)[Len(seq) + 1] = log
  BY AppendProperties
<1> DEFINE s == Append(seq, log)
<1> HIDE DEF s
<1>2. Len(s) = Len(seq) + 1 /\ Len(seq) \in Nat
  BY <1>1 DEF s
<1>3. \A k \in 1..Len(s) : k \in 1..Len(seq) \/ k = Len(seq) + 1
  BY <1>2
<1> QED
  BY <1>1, <1>3 DEF s

LEMMA OnlyFinishedStep ==
  ASSUME Typed, OnlyFinished, Waiting, [Next]_vars
  PROVE  OnlyFinished'
<1> SUFFICES ASSUME NEW log \in Logs, Accepted(log)' \/ Collected(log)' \/ Delivered(log)'
             PROVE  Finished(log)'
  BY DEF OnlyFinished
<1> DEFINE Somewhere == Accepted(log) \/ Collected(log) \/ Delivered(log)
<1>1. Somewhere => Finished(log)'
  BY FinishedStays DEF OnlyFinished
<1>2. /\ accepted \in Seq(Logs) /\ sent \in Seq(Logs \cup {None})
  BY DEF Typed
<1>3. CASE MovesNone \/ Takes
  BY <1>1, <1>3 DEF MovesNone, Takes, Accepted, Collected, Delivered
<1>4. ASSUME NEW p \in Process, Accepts(p) PROVE Finished(log)'
  <2>1. ThisLog(p) \in Logs
    BY <1>4, ThisLogType DEF Accepts, Send, At
  <2>2. accepted' = Append(accepted, ThisLog(p)) /\ UNCHANGED <<early_log_buf, sent>>
    BY <1>4 DEF Accepts
  <2>3. Accepted(log)' => Accepted(log) \/ log = ThisLog(p)
    BY <1>2, <2>1, <2>2, Appended DEF Accepted
  <2>4. Somewhere \/ log = ThisLog(p)
    BY <2>2, <2>3 DEF Collected, Delivered
  <2>5. CASE log = ThisLog(p)
    <3>1. Finished(ThisLog(p))'
      BY <1>4, ThisLogFinishes DEF Accepts
    <3>2. ThisLog(p)' = ThisLog(p)
      BY <1>4 DEF Accepts, Send, ThisLog
    <3> QED
      BY <2>5, <3>1, <3>2 DEF Finished
  <2> QED
    BY <1>1, <2>4, <2>5
<1>5. ASSUME NEW p \in Process, Collects(p) PROVE Finished(log)'
  <2>1. UNCHANGED <<accepted, sent>>
        /\ \A slot \in Slots : early_log_buf'[slot] \in {early_log_buf[slot], ThisLog(p)}
    BY <1>5 DEF Collects
  <2>2. Somewhere \/ log = ThisLog(p)
    BY <2>1 DEF Accepted, Collected, Delivered
  <2>3. CASE log = ThisLog(p)
    <3>1. Finished(ThisLog(p))'
      BY <1>5, ThisLogFinishes DEF Collects
    <3>2. ThisLog(p)' = ThisLog(p)
      BY <1>5 DEF Collects, FillSlot, ThisLog
    <3> QED
      BY <2>3, <3>1, <3>2 DEF Finished
  <2> QED
    BY <1>1, <2>2, <2>3
<1>6. CASE SendsEarly
  <2>1. PICK slot \in Slots : sent' = Append(sent, early_log_buf[slot])
    BY <1>6 DEF SendsEarly
  <2>2. UNCHANGED <<accepted, early_log_buf>> /\ early_log_buf[slot] \in Logs \cup {None}
    BY <1>6, Lengths DEF SendsEarly
  <2>3. Delivered(log)' => Delivered(log) \/ log = early_log_buf[slot]
    BY <1>2, <2>1, <2>2, Appended DEF Delivered
  <2> QED
    BY <1>1, <2>2, <2>3 DEF Accepted, Collected
<1>7. CASE SendsHeld
  <2>1. sent' = Append(sent, log_buffer) /\ UNCHANGED <<accepted, early_log_buf>>
    BY <1>7 DEF SendsHeld
  <2>2. log_buffer = accepted[Handed + 1] /\ Handed + 1 \in 1..Len(accepted)
    BY <1>7, Lengths DEF SendsHeld, Waiting, Handed
  <2>3. log_buffer \in Logs \cup {None}
    BY <2>2, Lengths
  <2>4. Delivered(log)' => Delivered(log) \/ log = log_buffer
    BY <1>2, <2>1, <2>3, Appended DEF Delivered
  <2> QED
    BY <1>1, <2>1, <2>2, <2>4 DEF Accepted, Collected
<1> QED
  BY <1>3, <1>4, <1>5, <1>6, <1>7, LogsMove

(* A log about to be delivered is nowhere yet.                             *)
LEMMA ThisLogIsNowhere ==
  ASSUME Typed, OnlyFinished, NEW p \in Process, Send(p) \/ FillSlot(p)
  PROVE  /\ ThisLog(p) \in Logs
         /\ ~Accepted(ThisLog(p)) /\ ~Collected(ThisLog(p)) /\ ~Delivered(ThisLog(p))
<1>1. hook[p] # "idle"
  BY DEF Send, FillSlot, At
<1>2. ThisLog(p) \in Logs
  BY <1>1, ThisLogType
<1>3. ~Finished(ThisLog(p))
  BY <1>1, ThisLogIsNew
<1> QED
  BY <1>2, <1>3 DEF OnlyFinished

LEMMA DistinctStep ==
  ASSUME Typed, OnlyFinished, Distinct, [Next]_vars
  PROVE  Distinct'
<1>1. accepted \in Seq(Logs) /\ Len(accepted) \in Nat
  BY Lengths DEF Typed
<1>2. CASE MovesNone \/ Takes \/ SendsEarly \/ SendsHeld
  <2>1. UNCHANGED <<accepted, early_log_buf>>
    BY <1>2 DEF MovesNone, Takes, SendsEarly, SendsHeld
  <2> QED
    BY <2>1 DEF Distinct
<1>3. ASSUME NEW p \in Process, Accepts(p) PROVE Distinct'
  <2>1. /\ accepted' = Append(accepted, ThisLog(p)) /\ UNCHANGED early_log_buf
        /\ Send(p)
    BY <1>3 DEF Accepts
  <2>2. ThisLog(p) \in Logs /\ ~Accepted(ThisLog(p)) /\ ~Collected(ThisLog(p))
    BY <2>1, ThisLogIsNowhere
  <2>3. /\ \A k \in 1..Len(accepted) : accepted'[k] = accepted[k]
        /\ accepted'[Len(accepted) + 1] = ThisLog(p)
        /\ \A k \in 1..Len(accepted') : k \in 1..Len(accepted) \/ k = Len(accepted) + 1
    BY <1>1, <2>1, <2>2, Appended
  <2>4. /\ \A k \in 1..Len(accepted) : accepted[k] # ThisLog(p)
        /\ \A slot \in Slots : early_log_buf[slot] # ThisLog(p)
    BY <2>2 DEF Accepted, Collected
  <2>5. \A j, k \in 1..Len(accepted') : accepted'[j] = accepted'[k] => j = k
    BY <2>3, <2>4 DEF Distinct
  <2>6. \A slot \in Slots : \A k \in 1..Len(accepted') : early_log_buf[slot] # accepted'[k]
    BY <2>3, <2>4 DEF Distinct
  <2> QED
    BY <2>1, <2>5, <2>6 DEF Distinct
<1>4. ASSUME NEW p \in Process, Collects(p) PROVE Distinct'
  <2>1. /\ UNCHANGED accepted /\ FillSlot(p)
        /\ \A slot \in Slots : early_log_buf'[slot] \in {early_log_buf[slot], ThisLog(p)}
    BY <1>4 DEF Collects
  <2>2. \A k \in 1..Len(accepted) : accepted[k] # ThisLog(p)
    BY <2>1, ThisLogIsNowhere DEF Accepted
  <2> QED
    BY <2>1, <2>2 DEF Distinct
<1> QED
  BY <1>2, <1>3, <1>4, LogsMove

(* No step takes back what was handed over.                                *)
LEMMA WaitingStep ==
  ASSUME Typed, OnlyFinished, Waiting, [Next]_vars
  PROVE  /\ Waiting' /\ Handed' >= Handed
         /\ SendsHeld => Handed' = Handed + 1
<1>1. /\ accepted \in Seq(Logs) /\ q_logs \in Seq(Logs)
      /\ Len(accepted) \in Nat /\ Len(q_logs) \in Nat /\ Held \in {0, 1} /\ Handed \in Int
  BY Lengths DEF Typed, TypeOK
<1>2. Handed = Len(accepted) - Len(q_logs) - Held /\ Handed >= 0
  BY DEF Handed, Waiting
<1>3. CASE MovesNone \/ SendsEarly \/ \E p \in Process : Collects(p)
  <2>1. UNCHANGED <<accepted, q_logs>> /\ UNCHANGED Held /\ (Held = 1 => UNCHANGED log_buffer)
    BY <1>3 DEF MovesNone, SendsEarly, Collects
  <2>2. UNCHANGED Handed
    BY <2>1 DEF Handed
  <2>3. Waiting' /\ Handed' >= Handed
    BY <1>1, <2>1, <2>2 DEF Waiting
  <2>4. ~SendsHeld
    BY <2>1 DEF SendsHeld
  <2> QED
    BY <2>3, <2>4
<1>4. ASSUME NEW p \in Process, Accepts(p)
      PROVE  /\ Waiting' /\ Handed' >= Handed
             /\ ~SendsHeld
  <2>1. /\ accepted' = Append(accepted, ThisLog(p)) /\ q_logs' = Append(q_logs, ThisLog(p))
        /\ UNCHANGED log_buffer /\ UNCHANGED Held /\ Send(p)
    BY <1>4 DEF Accepts
  <2>2. ThisLog(p) \in Logs
    BY <2>1, ThisLogIsNowhere
  <2>3. /\ Len(accepted') = Len(accepted) + 1 /\ Len(q_logs') = Len(q_logs) + 1
        /\ \A k \in 1..Len(accepted) : accepted'[k] = accepted[k]
        /\ accepted'[Len(accepted) + 1] = ThisLog(p)
        /\ \A k \in 1..Len(q_logs) : q_logs'[k] = q_logs[k]
        /\ q_logs'[Len(q_logs) + 1] = ThisLog(p)
        /\ \A k \in 1..Len(q_logs') : k \in 1..Len(q_logs) \/ k = Len(q_logs) + 1
    BY <1>1, <2>1, <2>2, Appended
  <2>4. UNCHANGED Handed
    BY <1>1, <2>1, <2>3 DEF Handed
  <2>5. \A k \in 1..Len(q_logs) :
          Handed + Held + k \in 1..Len(accepted) /\ q_logs[k] = accepted[Handed + Held + k]
    BY <1>1, <1>2 DEF Waiting
  <2>6. Handed + Held + (Len(q_logs) + 1) = Len(accepted) + 1
    BY <1>1, <1>2
  <2>7. \A k \in 1..Len(q_logs') : q_logs'[k] = accepted'[Handed + Held + k]
    BY <2>3, <2>5, <2>6
  <2>8. Held = 1 => Handed + 1 \in 1..Len(accepted)
    BY <1>1, <1>2
  <2>9. Held = 1 => log_buffer = accepted'[Handed + 1]
    BY <2>3, <2>8 DEF Waiting
  <2>10. Waiting'
    BY <1>2, <2>1, <2>4, <2>7, <2>9 DEF Waiting
  <2> QED
    BY <1>1, <2>1, <2>4, <2>10 DEF SendsHeld
<1>5. CASE Takes
  <2>1. /\ q_logs # <<>> /\ q_logs' = Tail(q_logs) /\ log_buffer' = Head(q_logs)
        /\ Held = 0 /\ UNCHANGED accepted
    BY <1>5 DEF Takes
  <2>2. /\ Len(q_logs') = Len(q_logs) - 1 /\ Len(q_logs) >= 1
        /\ \A k \in 1..Len(q_logs') : q_logs'[k] = q_logs[k + 1]
        /\ log_buffer' = q_logs[1]
    BY <1>1, <2>1, HeadTailProperties
  <2>3. Held' \in {0, 1}
    BY DEF Held
  <2>4. Handed' = Len(accepted') - Len(q_logs') - Held'
    BY DEF Handed
  <2> DEFINE later == Handed'
             holds == Held'
             left == Len(q_logs')
  <2>5. later + holds = Handed + 1 /\ holds \in {0, 1} /\ later >= Handed
        /\ left \in Nat /\ left = Len(q_logs) - 1 /\ later \in Int
    BY <1>1, <1>2, <2>1, <2>2, <2>3, <2>4
  <2>6. /\ \A k \in 1..left : q_logs'[k] = q_logs[k + 1]
        /\ log_buffer' = q_logs[1]
    BY <2>2
  <2> HIDE DEF later, holds, left
  <2>7. \A k \in 1..left :
          k + 1 \in 1..Len(q_logs) /\ later + holds + k = Handed + Held + (k + 1)
    BY <1>1, <2>1, <2>5
  <2>8. \A k \in 1..left : q_logs'[k] = accepted[later + holds + k]
    BY <2>6, <2>7 DEF Waiting
  <2>9. holds = 1 => later + 1 = Handed + Held + 1
    BY <1>1, <2>1, <2>5
  <2>10. holds = 1 => log_buffer' = accepted[later + 1]
    BY <1>1, <2>2, <2>6, <2>9 DEF Waiting
  <2>11. later >= 0
    BY <1>1, <1>2, <2>5
  <2>12. Waiting'
    BY <2>1, <2>8, <2>10, <2>11 DEF Waiting, later, holds, left
  <2>13. ~SendsHeld
    BY <2>1 DEF SendsHeld
  <2> QED
    BY <2>5, <2>12, <2>13 DEF later
<1>6. CASE SendsHeld
  <2>1. UNCHANGED <<accepted, q_logs>> /\ Held = 1 /\ Held' = 0
    BY <1>6 DEF SendsHeld
  <2>2. Handed' = Handed + 1
    BY <1>1, <2>1 DEF Handed
  <2> DEFINE later == Handed'
  <2>3. later = Handed + 1 /\ later \in Int
    BY <1>1, <2>2
  <2> HIDE DEF later
  <2>4. later >= 0 /\ later >= Handed
    BY <1>1, <1>2, <2>3
  <2>5. \A k \in 1..Len(q_logs) : later + 0 + k = Handed + Held + k
    BY <1>1, <2>1, <2>3
  <2>6. \A k \in 1..Len(q_logs) : q_logs[k] = accepted[later + 0 + k]
    BY <2>5 DEF Waiting
  <2>7. Waiting'
    BY <2>1, <2>4, <2>6 DEF Waiting, later
  <2> QED
    BY <2>2, <2>4, <2>7 DEF later
<1> QED
  BY <1>3, <1>4, <1>5, <1>6, LogsMove

(* What is handed over is accepted, and next to be sent.                   *)
LEMMA SentStep ==
  ASSUME Typed, InOrder, [Next]_vars
  PROVE  SentSoFar' /\ Places'
<1>1. OnlyFinished /\ Distinct /\ Waiting /\ SentSoFar /\ Places
  BY DEF InOrder
<1>2. /\ accepted \in Seq(Logs) /\ sent \in Seq(Logs \cup {None})
      /\ Len(accepted) \in Nat /\ Len(sent) \in Nat /\ Handed \in Int
  BY Lengths DEF Typed
<1>3. Handed' \in Int /\ Handed' >= Handed /\ (SendsHeld => Handed' = Handed + 1)
  <2>1. Handed' >= Handed /\ (SendsHeld => Handed' = Handed + 1)
    BY <1>1, WaitingStep
  <2>2. Len(accepted') \in Nat /\ Len(q_logs') \in Nat /\ Held' \in {0, 1}
    BY TypedStep DEF Typed, TypeOK, Held
  <2>3. Handed' = Len(accepted') - Len(q_logs') - Held'
    BY DEF Handed
  <2>4. Handed' \in Int
    BY <2>2, <2>3
  <2> QED
    BY <2>1, <2>4
<1> DEFINE later == Handed'
<1>4. later \in Int /\ later >= Handed /\ (SendsHeld => later = Handed + 1)
  BY <1>3
<1> HIDE DEF later
<1>5. CASE UNCHANGED <<accepted, sent>>
  <2>1. \A m \in 1..Len(sent) : \A k \in 1..Len(accepted) :
          sent[m] = accepted[k] => k <= later
    BY <1>1, <1>2, <1>4 DEF SentSoFar
  <2> QED
    BY <1>1, <1>5, <2>1 DEF SentSoFar, Places, later
<1>6. ASSUME NEW p \in Process, Accepts(p) PROVE SentSoFar' /\ Places'
  <2>1. accepted' = Append(accepted, ThisLog(p)) /\ UNCHANGED sent /\ Send(p)
    BY <1>6 DEF Accepts
  <2>2. ThisLog(p) \in Logs /\ \A m \in 1..Len(sent) : sent[m] # ThisLog(p)
    BY <1>1, <2>1, ThisLogIsNowhere DEF Delivered
  <2>3. \A k \in 1..Len(accepted') :
          \/ k \in 1..Len(accepted) /\ accepted'[k] = accepted[k]
          \/ \A m \in 1..Len(sent) : sent[m] # accepted'[k]
    BY <1>2, <2>1, <2>2, Appended
  <2>4. \A m \in 1..Len(sent) : \A k \in 1..Len(accepted') :
          sent[m] = accepted'[k] => k \in 1..Len(accepted) /\ sent[m] = accepted[k]
    BY <2>3
  <2>5. \A m \in 1..Len(sent) : \A k \in 1..Len(accepted') :
          sent[m] = accepted'[k] => k <= later
    BY <1>1, <1>2, <1>4, <2>4 DEF SentSoFar
  <2>6. \A m, n \in 1..Len(sent) : \A j, k \in 1..Len(accepted') :
          m < n /\ sent[m] = accepted'[j] /\ sent[n] = accepted'[k] => j < k
    BY <1>1, <2>4 DEF Places
  <2> QED
    BY <2>1, <2>5, <2>6 DEF SentSoFar, Places, later
<1>7. CASE SendsEarly
  <2>1. PICK slot \in Slots : sent' = Append(sent, early_log_buf[slot])
    BY <1>7 DEF SendsEarly
  <2>2. UNCHANGED accepted /\ early_log_buf[slot] \in Logs \cup {None}
    BY <1>7, Lengths DEF SendsEarly
  <2>3. \A k \in 1..Len(accepted) : accepted[k] # early_log_buf[slot]
    BY <1>1 DEF Distinct
  <2>4. \A m \in 1..Len(sent') :
          \/ m \in 1..Len(sent) /\ sent'[m] = sent[m]
          \/ sent'[m] = early_log_buf[slot]
    BY <1>2, <2>1, <2>2, Appended
  <2>5. \A m \in 1..Len(sent') : \A k \in 1..Len(accepted) :
          sent'[m] = accepted[k] => m \in 1..Len(sent) /\ sent[m] = accepted[k]
    BY <2>3, <2>4
  <2>6. \A m \in 1..Len(sent') : \A k \in 1..Len(accepted) :
          sent'[m] = accepted[k] => k <= later
    BY <1>1, <1>2, <1>4, <2>5 DEF SentSoFar
  <2>7. \A m, n \in 1..Len(sent') : \A j, k \in 1..Len(accepted) :
          m < n /\ sent'[m] = accepted[j] /\ sent'[n] = accepted[k] => j < k
    BY <1>1, <2>5 DEF Places
  <2> QED
    BY <2>2, <2>6, <2>7 DEF SentSoFar, Places, later
<1>8. CASE SendsHeld
  <2>1. sent' = Append(sent, log_buffer) /\ UNCHANGED accepted
    BY <1>8 DEF SendsHeld
  <2>2. log_buffer = accepted[Handed + 1] /\ Handed + 1 \in 1..Len(accepted)
    BY <1>1, <1>8, Lengths DEF SendsHeld, Waiting, Handed
  <2>3. log_buffer \in Logs \cup {None}
    BY <2>2, Lengths
  <2>4. /\ \A m \in 1..Len(sent') : m \in 1..Len(sent) \/ m = Len(sent) + 1
        /\ \A m \in 1..Len(sent) : sent'[m] = sent[m]
        /\ sent'[Len(sent) + 1] = log_buffer
    BY <1>2, <2>1, <2>3, Appended
  <2>5. \A k \in 1..Len(accepted) : log_buffer = accepted[k] => k = Handed + 1
    BY <1>1, <2>2 DEF Distinct
  <2>6. \A m \in 1..Len(sent') : \A k \in 1..Len(accepted) :
          sent'[m] = accepted[k] =>
            \/ m \in 1..Len(sent) /\ sent[m] = accepted[k] /\ k <= Handed
            \/ m = Len(sent) + 1 /\ k = Handed + 1
    BY <1>1, <2>4, <2>5 DEF SentSoFar
  <2>7. \A m \in 1..Len(sent') : \A k \in 1..Len(accepted) :
          sent'[m] = accepted[k] => k <= later
    BY <1>2, <1>4, <1>8, <2>6
  <2>8. ASSUME NEW m \in 1..Len(sent'), NEW n \in 1..Len(sent'),
               NEW j \in 1..Len(accepted), NEW k \in 1..Len(accepted),
               m < n, sent'[m] = accepted[j], sent'[n] = accepted[k]
        PROVE  j < k
    <3>1. m \in 1..Len(sent) /\ sent[m] = accepted[j] /\ j <= Handed
      BY <1>2, <2>4, <2>6, <2>8
    <3>2. CASE n = Len(sent) + 1 /\ k = Handed + 1
      BY <1>2, <3>1, <3>2
    <3>3. CASE n \in 1..Len(sent) /\ sent[n] = accepted[k]
      BY <1>1, <2>8, <3>1, <3>3 DEF Places
    <3> QED
      BY <2>6, <2>8, <3>2, <3>3
  <2> QED
    BY <2>1, <2>7, <2>8 DEF SentSoFar, Places, later
<1> QED
  BY <1>5, <1>6, <1>7, <1>8, LogsMove DEF MovesNone, Takes, Collects

LEMMA InOrderAlways == Spec => []InOrder
<1>1. Init => InOrder
  <2> SUFFICES ASSUME Init PROVE InOrder
    OBVIOUS
  <2>1. accepted = <<>> /\ q_logs = <<>> /\ sent = <<>> /\ task = "wait"
    BY DEF Init
  <2>2. Len(<<>>) = 0 /\ 1..0 = {}
    OBVIOUS
  <2>3. \A slot \in Slots : early_log_buf[slot] = None
    BY DEF Init, Slots
  <2>4. OnlyFinished
    BY <2>1, <2>2, <2>3, Constants DEF OnlyFinished, Accepted, Collected, Delivered
  <2>5. Held = 0 /\ Handed = 0
    <3>1. Held = 0
      BY <2>1 DEF Held
    <3>2. Len(accepted) = 0 /\ Len(q_logs) = 0
      BY <2>1, <2>2
    <3> QED
      BY <3>1, <3>2 DEF Handed
  <2>6. Waiting
    BY <2>1, <2>2, <2>5 DEF Waiting
  <2> QED
    BY <2>1, <2>2, <2>4, <2>6 DEF InOrder, Distinct, SentSoFar, Places
<1>2. ASSUME Typed, InOrder, [Next]_vars PROVE InOrder'
  BY <1>2, OnlyFinishedStep, DistinctStep, WaitingStep, SentStep DEF InOrder
<1> QED
  BY <1>1, <1>2, TypedAlways, PTL DEF Spec

(* What q_logs accepted reaches the server in the order it was accepted,   *)
(* no log twice, however many tasks log, whatever the hook collects early, *)
(* and whichever way early_buf_idx is read.                                *)
THEOREM SentInOrder == Spec => []QueuedInOrder
<1>1. Typed /\ InOrder => QueuedInOrder
  <2> SUFFICES ASSUME Typed, InOrder PROVE QueuedInOrder
    OBVIOUS
  <2>1. DOMAIN sent = 1..Len(sent) /\ DOMAIN accepted = 1..Len(accepted)
    BY LenProperties DEF Typed
  <2> QED
    BY <2>1 DEF InOrder, Places, QueuedInOrder
<1> QED
  BY <1>1, TypedAlways, InOrderAlways, PTL
=============================================================================
