----------------------------- MODULE Papertrail -----------------------------
(***************************************************************************)
(* The log path of Car_project/src/tasks/esp_logs_papertrail.c: a hook     *)
(* that every ESP_LOG call runs in the task that logs, and a task that     *)
(* sends what the hook collected to a server over UDP.                     *)
(*                                                                         *)
(* Once the socket is open and Wi-Fi has had an address the hook puts the  *)
(* text in q_logs; until then it writes it to early_log_buf, at an index   *)
(* that nothing protects. A log is a pair <<task, n>>: the n-th log of the *)
(* task. The UART copy every log also gets is left out.                    *)
(***************************************************************************)
EXTENDS Naturals, Sequences, Functions

CONSTANTS
  Caller,               \* tasks that log
  LogsTask,             \* esp_logs_papertrail_task, which logs once itself
  MaxLogs,              \* bound of the logs of one caller
  QueueLength,          \* depth of q_logs
  EARLY_LOG_BUF_SIZE,
  Reloads,              \* the compiled hook stores early_buf_idx after the
                        \* wrap and loads it again for the increment, the two
                        \* reads of the source; else it keeps a register copy
  LinkMayFail,          \* Wi-Fi may be lost after it was connected
  None

ASSUME PapertrailAssumption ==
  /\ LogsTask \notin Caller
  /\ MaxLogs \in Nat /\ QueueLength \in Nat \ {0}
  /\ EARLY_LOG_BUF_SIZE \in Nat \ {0}
  /\ Reloads \in BOOLEAN /\ LinkMayFail \in BOOLEAN
  /\ None \notin (Caller \cup {LogsTask}) \X Nat

Process == Caller \cup {LogsTask}

VARIABLES
  link,           \* Wi-Fi is connected
  WIFI_BIT_GOT_IP,
  sock,           \* the socket is open (sock >= 0)
  bits,           \* static of the hook, shared by its callers
  early_buf_idx,
  early_log_buf,
  q_logs,
  hook,           \* where each process is in the hook, "idle" outside
  got_bits,       \* its copy of the event bits
  reg,            \* its register copy of early_buf_idx
  logged,         \* how many logs it has written
  task,           \* where esp_logs_papertrail_task is
  i,              \* its loop counter
  log_buffer,     \* what it received last
  accepted,       \* history: the logs q_logs accepted
  sent            \* history: what sendto was called with

linkVars == <<link, WIFI_BIT_GOT_IP>>
earlyVars == <<early_buf_idx, early_log_buf>>
hookVars == <<hook, bits, got_bits, reg, logged>>
taskVars == <<task, i, log_buffer>>
vars == <<linkVars, sock, earlyVars, q_logs, hookVars, taskVars, accepted, sent>>

Init ==
  /\ link = FALSE /\ WIFI_BIT_GOT_IP = FALSE /\ sock = FALSE /\ bits = FALSE
  /\ early_buf_idx = 0
  /\ early_log_buf = [slot \in 0..(EARLY_LOG_BUF_SIZE - 1) |-> None]
  /\ q_logs = <<>>
  /\ hook = [p \in Process |-> "idle"]
  /\ got_bits = [p \in Process |-> FALSE]
  /\ reg = [p \in Process |-> 0]
  /\ logged = [p \in Process |-> 0]
  /\ task = "wait" /\ i = 0 /\ log_buffer = None
  /\ accepted = <<>> /\ sent = <<>>

-----------------------------------------------------------------------------
(* new_hook_papertrail_function, run by process p                          *)

At(p, here, there) == hook[p] = here /\ hook' = [hook EXCEPT ![p] = there]

ThisLog(p) == <<p, logged[p]>>

(* The call, up to the return of xEventGroupGetBits.                       *)
BeginLog(p) ==
  /\ IF p = LogsTask THEN task = "init" /\ logged[p] = 0 ELSE logged[p] < MaxLogs
  /\ At(p, "idle", "bits")
  /\ logged' = [logged EXCEPT ![p] = @ + 1]
  /\ got_bits' = [got_bits EXCEPT ![p] = WIFI_BIT_GOT_IP]
  /\ UNCHANGED <<linkVars, sock, earlyVars, q_logs, bits, reg, taskVars, accepted, sent>>

StoreBits(p) ==
  /\ At(p, "bits", "test")
  /\ bits' = got_bits[p]
  /\ UNCHANGED <<linkVars, sock, earlyVars, q_logs, got_bits, reg, logged,
                 taskVars, accepted, sent>>

(* The compiled test uses the value just stored or loads the static again. *)
Test(p) ==
  /\ \E connected \in {got_bits[p], bits} :
       At(p, "test", IF sock /\ connected THEN "send" ELSE "load")
  /\ UNCHANGED <<linkVars, sock, earlyVars, q_logs, bits, got_bits, reg, logged,
                 taskVars, accepted, sent>>

(* Mutants: the queue takes more than its depth; the hook waits for room.  *)
SendUnchecked(p) ==
  /\ At(p, "send", "idle")
  /\ q_logs' = Append(q_logs, ThisLog(p))
  /\ accepted' = Append(accepted, ThisLog(p))
  /\ UNCHANGED <<linkVars, sock, earlyVars, bits, got_bits, reg, logged, taskVars, sent>>

SendBlocks(p) == Len(q_logs) < QueueLength /\ SendUnchecked(p)

(* xQueueSend with timeout 0: a full queue drops the log.                  *)
Send(p) ==
  /\ At(p, "send", "idle")
  /\ IF Len(q_logs) < QueueLength
     THEN /\ q_logs' = Append(q_logs, ThisLog(p))
          /\ accepted' = Append(accepted, ThisLog(p))
     ELSE UNCHANGED <<q_logs, accepted>>
  /\ UNCHANGED <<linkVars, sock, earlyVars, bits, got_bits, reg, logged, taskVars, sent>>

(* early_buf_idx is read for the wrap, ...                                 *)
LoadIndex(p) ==
  /\ At(p, "load", IF Reloads THEN "store" ELSE "claim")
  /\ reg' = [reg EXCEPT ![p] =
               IF early_buf_idx >= EARLY_LOG_BUF_SIZE THEN 0 ELSE early_buf_idx]
  /\ UNCHANGED <<linkVars, sock, earlyVars, q_logs, bits, got_bits, logged,
                 taskVars, accepted, sent>>

StoreIndex(p) ==
  /\ At(p, "store", "reload")
  /\ early_buf_idx' = reg[p]
  /\ UNCHANGED <<linkVars, sock, early_log_buf, q_logs, bits, got_bits, reg, logged,
                 taskVars, accepted, sent>>

(* ... and once more for the slot.                                         *)
ReloadIndex(p) ==
  /\ At(p, "reload", "claim")
  /\ reg' = [reg EXCEPT ![p] = early_buf_idx]
  /\ UNCHANGED <<linkVars, sock, earlyVars, q_logs, bits, got_bits, logged,
                 taskVars, accepted, sent>>

(* early_buf_idx++ comes before vsnprintf fills the slot.                  *)
ClaimSlot(p) ==
  /\ At(p, "claim", "format")
  /\ early_buf_idx' = reg[p] + 1
  /\ UNCHANGED <<linkVars, sock, early_log_buf, q_logs, bits, got_bits, reg, logged,
                 taskVars, accepted, sent>>

FillSlot(p) ==
  /\ At(p, "format", "idle")
  /\ early_log_buf' = [slot \in DOMAIN early_log_buf |->
                         IF slot = reg[p] THEN ThisLog(p) ELSE early_log_buf[slot]]
  /\ UNCHANGED <<linkVars, sock, early_buf_idx, q_logs, bits, got_bits, reg, logged,
                 taskVars, accepted, sent>>

HookStep(p) ==
  \/ StoreBits(p) \/ Test(p) \/ Send(p)
  \/ LoadIndex(p) \/ StoreIndex(p) \/ ReloadIndex(p) \/ ClaimSlot(p) \/ FillSlot(p)

-----------------------------------------------------------------------------
(* esp_logs_papertrail_task                                                *)

(* sendto, whose result is ignored: over a lost link the datagram is lost. *)
SendTo(text) == sent' = Append(sent, text)

(* The first wait and socket(), which may fail.                            *)
OpenSocket ==
  /\ task = "wait" /\ WIFI_BIT_GOT_IP
  /\ sock' \in BOOLEAN
  /\ task' = "init"
  /\ UNCHANGED <<linkVars, earlyVars, q_logs, hookVars, i, log_buffer, accepted, sent>>

(* esp_logs_papertrail_init has logged its own success or failure.         *)
Initialised ==
  /\ task = "init" /\ logged[LogsTask] = 1 /\ hook[LogsTask] = "idle"
  /\ task' = "receive"
  /\ UNCHANGED <<linkVars, sock, earlyVars, q_logs, hookVars, i, log_buffer, accepted, sent>>

(* Mutants: the log is sent before the early logs are; early logs are      *)
(* flushed only when there is a log.                                       *)
ReceiveSends ==
  /\ task = "receive" /\ WIFI_BIT_GOT_IP
  /\ IF q_logs = <<>> \/ ~sock THEN UNCHANGED <<q_logs, sent>>
     ELSE q_logs' = Tail(q_logs) /\ SendTo(Head(q_logs))
  /\ log_buffer' = None
  /\ task' = IF sock THEN "flush" ELSE "receive"
  /\ i' = 0
  /\ UNCHANGED <<linkVars, sock, earlyVars, hookVars, accepted>>

FlushesWithLogs ==
  /\ task = "receive" /\ WIFI_BIT_GOT_IP
  /\ IF q_logs = <<>>
     THEN log_buffer' = None /\ task' = "receive" /\ UNCHANGED q_logs
     ELSE /\ log_buffer' = Head(q_logs) /\ q_logs' = Tail(q_logs)
          /\ task' = IF sock THEN "flush" ELSE "receive"
  /\ i' = 0
  /\ UNCHANGED <<linkVars, sock, earlyVars, hookVars, accepted, sent>>

(* Mutant: the newest log is taken first.                                  *)
ReceivesNewest ==
  /\ task = "receive" /\ WIFI_BIT_GOT_IP
  /\ IF q_logs = <<>>
     THEN log_buffer' = None /\ UNCHANGED q_logs
     ELSE /\ log_buffer' = q_logs[Len(q_logs)]
          /\ q_logs' = SubSeq(q_logs, 1, Len(q_logs) - 1)
  /\ task' = IF sock THEN "flush" ELSE "receive"
  /\ i' = 0
  /\ UNCHANGED <<linkVars, sock, earlyVars, hookVars, accepted, sent>>

(* A turn of the loop: a log or the timeout of xQueueReceive.              *)
Receive ==
  /\ task = "receive" /\ WIFI_BIT_GOT_IP
  /\ IF q_logs = <<>>
     THEN log_buffer' = None /\ UNCHANGED q_logs
     ELSE log_buffer' = Head(q_logs) /\ q_logs' = Tail(q_logs)
  /\ task' = IF sock THEN "flush" ELSE "receive"
  /\ i' = 0
  /\ UNCHANGED <<linkVars, sock, earlyVars, hookVars, accepted, sent>>

(* Mutant: the slot is copied to log_buffer to be sent.                    *)
FlushReusesBuffer ==
  /\ task = "flush" /\ i < early_buf_idx /\ i < EARLY_LOG_BUF_SIZE
  /\ log_buffer' = early_log_buf[i]
  /\ SendTo(log_buffer')
  /\ i' = i + 1
  /\ UNCHANGED <<linkVars, sock, earlyVars, q_logs, hookVars, task, accepted>>

(* for(i = 0; i < early_buf_idx; ++i): a slot is sent whatever it holds.   *)
FlushOne ==
  /\ task = "flush" /\ i < early_buf_idx
  /\ IF i < EARLY_LOG_BUF_SIZE THEN SendTo(early_log_buf[i]) ELSE UNCHANGED sent
  /\ i' = i + 1
  /\ UNCHANGED <<linkVars, sock, earlyVars, q_logs, hookVars, task, log_buffer, accepted>>

FlushDone ==
  /\ task = "flush" /\ i >= early_buf_idx
  /\ task' = "reset"
  /\ UNCHANGED <<linkVars, sock, earlyVars, q_logs, hookVars, i, log_buffer, accepted, sent>>

ResetIndex ==
  /\ task = "reset"
  /\ early_buf_idx' = 0
  /\ task' = "redirect"
  /\ UNCHANGED <<linkVars, sock, early_log_buf, q_logs, hookVars, i, log_buffer,
                 accepted, sent>>

Redirect ==
  /\ task = "redirect"
  /\ IF log_buffer # None THEN SendTo(log_buffer) ELSE UNCHANGED sent
  /\ task' = "receive"
  /\ UNCHANGED <<linkVars, sock, earlyVars, q_logs, hookVars, i, log_buffer, accepted>>

TaskStep ==
  OpenSocket \/ Initialised \/ Receive \/ FlushOne \/ FlushDone \/ ResetIndex \/ Redirect

-----------------------------------------------------------------------------
(* wifi_handler: IP_EVENT_STA_GOT_IP sets the bit; no event clears it.     *)

GotIp ==
  /\ ~link
  /\ link' = TRUE /\ WIFI_BIT_GOT_IP' = TRUE
  /\ UNCHANGED <<sock, earlyVars, q_logs, hookVars, taskVars, accepted, sent>>

Disconnected ==
  /\ LinkMayFail /\ link
  /\ link' = FALSE
  /\ UNCHANGED <<WIFI_BIT_GOT_IP, sock, earlyVars, q_logs, hookVars, taskVars, accepted, sent>>

Next ==
  \/ \E p \in Process : BeginLog(p) \/ HookStep(p)
  \/ TaskStep
  \/ GotIp \/ Disconnected

(* A task in the hook, and the log task, go on; Wi-Fi connects, again if   *)
(* need be.                                                                *)
Fairness ==
  /\ \A p \in Process : WF_vars(HookStep(p))
  /\ WF_vars(BeginLog(LogsTask)) /\ WF_vars(TaskStep)
  /\ WF_vars(GotIp)

Spec == Init /\ [][Next]_vars

FairSpec == Spec /\ Fairness

-----------------------------------------------------------------------------
(* Properties                                                              *)

Logs == Process \X (1..(MaxLogs + 1))

TypeOK ==
  /\ link \in BOOLEAN /\ WIFI_BIT_GOT_IP \in BOOLEAN /\ sock \in BOOLEAN
  /\ bits \in BOOLEAN /\ got_bits \in [Process -> BOOLEAN]
  /\ early_buf_idx \in Nat /\ (Reloads \/ early_buf_idx <= EARLY_LOG_BUF_SIZE)
  /\ early_log_buf \in [0..(EARLY_LOG_BUF_SIZE - 1) -> Logs \cup {None}]
  /\ q_logs \in Seq(Logs) /\ Len(q_logs) <= QueueLength
  /\ hook \in [Process -> {"idle", "bits", "test", "send", "load", "store",
                           "reload", "claim", "format"}]
  /\ reg \in [Process -> Nat] /\ logged \in [Process -> Nat]
  /\ task \in {"wait", "init", "receive", "flush", "reset", "redirect"}
  /\ i \in Nat /\ log_buffer \in Logs \cup {None}

(* The logs that went through q_logs are sent in the order they were       *)
(* accepted, each at most once, whatever early slots are sent in between.  *)
QueuedInOrder ==
  \A m, n \in DOMAIN sent : \A j, k \in DOMAIN accepted :
    m < n /\ sent[m] = accepted[j] /\ sent[n] = accepted[k] => j < k

(* No log of a task overtakes an earlier one of the same task on its way   *)
(* to the server, even where the one was collected early and the other     *)
(* went through the queue: they are first sent in order. With one logging  *)
(* task and no wrap of the buffer: another task may overwrite bits between *)
(* this task's two accesses, and a wrap leaves old logs behind.            *)
FirstArrivalsInOrder ==
  \A p \in Process : \A m, n \in 1..Len(sent) :
    LET first(k) == \A j \in 1..(k - 1) : sent[j] # sent[k]
    IN  (m < n /\ sent[m] # None /\ sent[n] # None /\ first(m) /\ first(n)
           /\ sent[m][1] = p /\ sent[n][1] = p)
        => sent[m][2] < sent[n][2]

(* "cycle buffer" (line 51): while nothing is sent yet and no task is in   *)
(* the hook, what a flush would send are the latest logs, as many as there *)
(* are slots. With one logging task, whose logs are numbered in order.     *)
BufferKeepsLatest ==
  (task = "wait" /\ \A p \in Process : hook[p] = "idle") =>
    \A p \in Caller : \A n \in 1..logged[p] :
      n > logged[p] - EARLY_LOG_BUF_SIZE
        => \E slot \in 0..(early_buf_idx - 1) : early_log_buf[slot] = <<p, n>>

(* "Send all data which went when wi-fi was disconected" (line 102): when   *)
(* the flush sets early_buf_idx back, every log in the slots it gives up    *)
(* has been sent. A slot claimed between the last test of the loop and the  *)
(* reset is given up unsent.                                               *)
EarlyLogsAreSent ==
  [][ResetIndex => \A slot \in 0..(early_buf_idx - 1) :
                     early_log_buf[slot] \in Range(sent) \cup {None}]_vars

(* Logging never blocks the task that logs, not even before Wi-Fi is up or *)
(* when the log task is stuck: every call of the hook returns.             *)
LogCallsReturn == \A p \in Caller : hook[p] # "idle" ~> hook[p] = "idle"

(* A log that lies in the early buffer while no task is in the hook and no  *)
(* flush is going on is sent, unless the socket could not be opened: later  *)
(* calls of the hook, the buffer's turn-over between flushes and the        *)
(* opening of the socket do not lose it. (With no wrap of the buffer. A log *)
(* whose call overlaps a flush, or the claim of another task, has no such   *)
(* promise: see EarlyLogsAreSent.)                                          *)
Settled ==
  /\ \A p \in Process : hook[p] = "idle"
  /\ task \notin {"flush", "reset"}

SettledLogsAreSent ==
  \A log \in Logs :
    (Settled /\ \E slot \in 0..(early_buf_idx - 1) : early_log_buf[slot] = log)
      ~> (log \in Range(sent) \/ (task # "wait" /\ ~sock))

(* What q_logs accepted is sent.                                           *)
AcceptedIsSent == \A log \in Logs : (log \in Range(accepted)) ~> (log \in Range(sent))
=============================================================================
