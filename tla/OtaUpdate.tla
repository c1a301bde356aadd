----------------------------- MODULE OtaUpdate ------------------------------
(***************************************************************************)
(* The update over the air: app_main's order of initialisation (main.c),   *)
(* the confirmation of the running image in wifi_handler (wifi.c), the     *)
(* update request in mqtts_hiveMQ_handler (mqtts_hiveMQ.c), ota_task       *)
(* (tasks/ota_task.c) and write_ota_update (tasks/oled_task.c).            *)
(*                                                                         *)
(* The two slots and otadata survive a restart, everything else does not.  *)
(* A restart may come at any step. The boot loader is environment: with    *)
(* rollback, which the confirmation in wifi_handler is for, it starts a    *)
(* new image once and goes back to the other slot unless the image has     *)
(* been confirmed.                                                         *)
(***************************************************************************)
EXTENDS Integers, Sequences

CONSTANTS
  Images,      \* the images an update may bring
  Connecting,  \* those that get an address when they run
  First,       \* the image flashed by cable, in ota_0
  Torn,        \* the content of a slot that does not verify
  Blocks,      \* the blocks of an image
  UnknownSize, \* (uint32_t)-1, the size of an image of unknown length
  LevelLen     \* the length of q_ota_level

ASSUME UpdateAssumption ==
  /\ First \in Connecting /\ Connecting \subseteq Images
  /\ Torn \notin Images
  /\ Blocks \in Nat \ {0}
  /\ UnknownSize \in Nat /\ UnknownSize > 100 * Blocks
  /\ LevelLen \in Nat \ {0}

VARIABLES
  image,       \* what each slot holds
  state,       \* its state in otadata: "valid", "new", "pending", "aborted"
  boot,        \* the slot otadata selects
  running,     \* the slot that runs
  main,        \* the place of app_main, or "dead": nothing to boot
  e_tasks,     \* the bits of the event group that matter here
  ota,         \* the place of ota_task
  read, update_size,
  q_ota_level, \* percentages, each with the attempt it belongs to
  shown,       \* ota_percent_uint, likewise
  turns        \* history: turns of the display since q_ota_level took the
               \* first percentage of this attempt

flashVars == <<image, state, boot, running>>
downloadVars == <<read, update_size>>
levelVars == <<q_ota_level, shown, turns>>
vars == <<flashVars, main, e_tasks, ota, downloadVars, levelVars>>

Slots == {0, 1}
Other(s) == 1 - s

Init ==
  /\ image = [s \in Slots |-> IF s = 0 THEN First ELSE Torn]
  /\ state = [s \in Slots |-> IF s = 0 THEN "valid" ELSE "aborted"]
  /\ boot = 0 /\ running = 0 /\ main = "time_sync"
  /\ e_tasks = {} /\ ota = "wait" /\ read = 0 /\ update_size = 0
  /\ q_ota_level = <<>> /\ shown = [percent |-> 0, earlier |-> FALSE] /\ turns = 0

-----------------------------------------------------------------------------
(* Restarts, and app_main                                                  *)

(* The boot loader: a new image is tried, one that was tried and not       *)
(* confirmed is given up, and what does not verify is not started.         *)
Restart ==
  LET tried == [state EXCEPT ![boot] = IF @ = "new" THEN "pending"
                                       ELSE IF @ = "pending" THEN "aborted" ELSE @]
      Starts(s) == tried[s] \in {"valid", "pending"} /\ image[s] # Torn
      pick == IF Starts(boot) THEN boot ELSE Other(boot)
  IN  /\ state' = tried /\ running' = pick /\ boot' = pick
      /\ main' = IF Starts(pick) THEN "time_sync" ELSE "dead"
      /\ e_tasks' = {} /\ ota' = "wait" /\ read' = 0 /\ update_size' = 0
      /\ q_ota_level' = <<>> /\ shown' = [percent |-> 0, earlier |-> FALSE] /\ turns' = 0
      /\ UNCHANGED image

(* A panic, a brown-out or the switch.                                     *)
Reset == main # "dead" /\ Restart

(* Mutant: the image is confirmed as soon as it runs.                      *)
ConfirmsAtBoot ==
  /\ main # "dead"
  /\ state' = [state EXCEPT ![running] = "valid"]
  /\ e_tasks' = IF image[running] \in Connecting
                THEN e_tasks \cup {"WIFI_BIT_GOT_IP"} ELSE e_tasks
  /\ UNCHANGED <<image, boot, running, main, ota, downloadVars, levelVars>>

(* IP_EVENT_STA_GOT_IP, the first or a later one: the image is confirmed   *)
(* before anybody learns of the address.                                   *)
GotIp ==
  /\ main # "dead" /\ image[running] \in Connecting
  /\ state' = [state EXCEPT ![running] = "valid"]
  /\ e_tasks' = e_tasks \cup {"WIFI_BIT_GOT_IP"}
  /\ UNCHANGED <<image, boot, running, main, ota, downloadVars, levelVars>>

(* Mutant: the wait for the address clears the bit.                        *)
SyncClearsBit ==
  /\ main = "time_sync" /\ "WIFI_BIT_GOT_IP" \in e_tasks /\ main' = "mqtts_hiveMQ"
  /\ e_tasks' = e_tasks \ {"WIFI_BIT_GOT_IP"}
  /\ UNCHANGED <<flashVars, ota, downloadVars, levelVars>>

(* Both time_sync and mqtts_hiveMQ wait for the address and leave the bit. *)
time_sync ==
  /\ main = "time_sync" /\ "WIFI_BIT_GOT_IP" \in e_tasks /\ main' = "mqtts_hiveMQ"
  /\ UNCHANGED <<flashVars, e_tasks, ota, downloadVars, levelVars>>

mqtts_hiveMQ ==
  /\ main = "mqtts_hiveMQ" /\ "WIFI_BIT_GOT_IP" \in e_tasks /\ main' = "oled_init"
  /\ UNCHANGED <<flashVars, e_tasks, ota, downloadVars, levelVars>>

CreateTasks ==
  /\ main = "oled_init" /\ main' = "running"
  /\ UNCHANGED <<flashVars, e_tasks, ota, downloadVars, levelVars>>

MainStep == time_sync \/ mqtts_hiveMQ \/ CreateTasks

(* "true" on car/ota: the client runs before the tasks do.                 *)
RequestUpdate ==
  /\ main \in {"oled_init", "running"}
  /\ e_tasks' = e_tasks \cup {"MQTT_GOT_UPDATE"}
  /\ UNCHANGED <<flashVars, main, ota, downloadVars, levelVars>>

-----------------------------------------------------------------------------
(* ota_task, created with main = "running"                                 *)

Goes(from, to) == main = "running" /\ ota = from /\ ota' = to

(* xEventGroupWaitBits clears the bit on exit.                             *)
WaitUpdate ==
  /\ Goes("wait", "begin") /\ "MQTT_GOT_UPDATE" \in e_tasks
  /\ e_tasks' = e_tasks \ {"MQTT_GOT_UPDATE"}
  /\ UNCHANGED <<flashVars, main, downloadVars, levelVars>>

BeginFails ==
  /\ Goes("begin", "sleep")
  /\ UNCHANGED <<flashVars, main, e_tasks, downloadVars, levelVars>>

(* What is still in q_ota_level is now of an earlier attempt.              *)
Begin ==
  /\ Goes("begin", "perform")
  /\ e_tasks' = e_tasks \cup {"OTA_BIT_IN_PROGRESS"}
  /\ update_size' \in {Blocks, UnknownSize} /\ read' = 0 /\ turns' = 0
  /\ q_ota_level' = [i \in DOMAIN q_ota_level |->
                       [q_ota_level[i] EXCEPT !.earlier = TRUE]]
  /\ shown' = [shown EXCEPT !.earlier = TRUE]
  /\ UNCHANGED <<flashVars, main>>

(* Mutant: the block is written to the running slot.                       *)
PerformHere ==
  /\ Goes("perform", "send") /\ read < Blocks
  /\ read' = read + 1 /\ image' = [image EXCEPT ![running] = Torn]
  /\ UNCHANGED <<state, boot, running, main, e_tasks, update_size, levelVars>>

(* esp_https_ota_perform in progress: a block goes to the other slot.      *)
PerformBlock ==
  /\ Goes("perform", "send") /\ read < Blocks
  /\ read' = read + 1 /\ image' = [image EXCEPT ![Other(running)] = Torn]
  /\ UNCHANGED <<state, boot, running, main, e_tasks, update_size, levelVars>>

(* Mutant: the percentage of the block that is being read.                 *)
PercentAhead == ((read + 1) * 100) \div update_size

Percent == (read * 100) \div update_size

(* Mutant: the newest percentage overtakes those that wait.                *)
SendsProgressFirst ==
  /\ Goes("send", "perform")
  /\ q_ota_level' = IF Len(q_ota_level) < LevelLen
                    THEN <<[percent |-> Percent, earlier |-> FALSE]>> \o q_ota_level
                    ELSE q_ota_level
  /\ UNCHANGED <<flashVars, main, e_tasks, downloadVars, shown, turns>>

(* When the queue is still full after 10 ms the percentage is dropped.     *)
SendProgress ==
  /\ Goes("send", "perform")
  /\ q_ota_level' = IF Len(q_ota_level) < LevelLen
                    THEN Append(q_ota_level, [percent |-> Percent, earlier |-> FALSE])
                    ELSE q_ota_level
  /\ UNCHANGED <<flashVars, main, e_tasks, downloadVars, shown, turns>>

(* perform ends the loop, with the whole image or with any error: what was *)
(* written verifies or does not.                                           *)
PerformEnds ==
  /\ Goes("perform", "finish") /\ e_tasks' = e_tasks \ {"OTA_BIT_IN_PROGRESS"}
  /\ \/ UNCHANGED image
     \/ /\ read = Blocks
        /\ \E i \in Images : image' = [image EXCEPT ![Other(running)] = i]
  /\ UNCHANGED <<state, boot, running, main, downloadVars, levelVars>>

(* esp_https_ota_finish: a verified image is selected for the next boot.   *)
FinishInstalls ==
  /\ Goes("finish", "restart") /\ read > 0 /\ image[Other(running)] # Torn
  /\ state' = [state EXCEPT ![Other(running)] = "new"] /\ boot' = Other(running)
  /\ UNCHANGED <<image, running, main, e_tasks, downloadVars, levelVars>>

(* It has nothing to complain of either, and selects nothing, when perform *)
(* failed before the first block or after the last one.                    *)
FinishEmpty ==
  /\ Goes("finish", "restart") /\ (read = 0 \/ image[Other(running)] # Torn)
  /\ UNCHANGED <<flashVars, main, e_tasks, downloadVars, levelVars>>

FinishFails ==
  /\ Goes("finish", "sleep")
  /\ UNCHANGED <<flashVars, main, e_tasks, downloadVars, levelVars>>

EspRestart == main = "running" /\ ota = "restart" /\ Restart

(* Mutant: a request that came during the attempt is dropped after it.     *)
ForgetsRequest ==
  /\ Goes("sleep", "wait") /\ e_tasks' = e_tasks \ {"MQTT_GOT_UPDATE"}
  /\ UNCHANGED <<flashVars, main, downloadVars, levelVars>>

(* The thirty seconds after an attempt that failed.                        *)
Wake ==
  /\ Goes("sleep", "wait")
  /\ UNCHANGED <<flashVars, main, e_tasks, downloadVars, levelVars>>

OtaStep ==
  \/ WaitUpdate \/ BeginFails \/ Begin \/ PerformBlock \/ SendProgress \/ PerformEnds
  \/ FinishInstalls \/ FinishEmpty \/ FinishFails \/ EspRestart \/ Wake

-----------------------------------------------------------------------------
(* oled_task: write_ota_update in a turn that has seen OTA_BIT_IN_PROGRESS *)

IsOwn(progress) == ~progress.earlier

(* A percentage of this attempt is shown or in the queue.                  *)
HasOwn == IsOwn(shown) \/ \E k \in DOMAIN q_ota_level : IsOwn(q_ota_level[k])

CountTurn == turns' = IF ~HasOwn THEN 0 ELSE IF turns < LevelLen THEN turns + 1 ELSE turns

(* Mutant: the percentage stays in the queue.                              *)
PeeksLevel ==
  /\ main = "running" /\ "OTA_BIT_IN_PROGRESS" \in e_tasks
  /\ shown' = IF q_ota_level = <<>> THEN shown ELSE Head(q_ota_level)
  /\ CountTurn
  /\ UNCHANGED <<flashVars, main, e_tasks, ota, downloadVars, q_ota_level>>

(* After 10 ms without a percentage the last one is drawn again.           *)
write_ota_update ==
  /\ main = "running" /\ "OTA_BIT_IN_PROGRESS" \in e_tasks
  /\ IF q_ota_level = <<>> THEN UNCHANGED <<q_ota_level, shown>>
     ELSE shown' = Head(q_ota_level) /\ q_ota_level' = Tail(q_ota_level)
  /\ CountTurn
  /\ UNCHANGED <<flashVars, main, e_tasks, ota, downloadVars>>

Next ==
  \/ Reset \/ GotIp \/ MainStep \/ RequestUpdate \/ OtaStep \/ write_ota_update

Spec == Init /\ [][Next]_vars

(* Whoever can go on does, and somebody switches a car off and on that     *)
(* never gets an address.                                                  *)
FairSpec ==
  /\ Spec /\ WF_vars(MainStep) /\ WF_vars(OtaStep)
  /\ WF_vars(image[running] \notin Connecting /\ Reset)

-----------------------------------------------------------------------------

Progress == [percent : 0..100, earlier : BOOLEAN]

TypeOK ==
  /\ image \in [Slots -> Images \cup {Torn}]
  /\ state \in [Slots -> {"valid", "new", "pending", "aborted"}]
  /\ boot \in Slots /\ running \in Slots
  /\ main \in {"time_sync", "mqtts_hiveMQ", "oled_init", "running", "dead"}
  /\ e_tasks \subseteq {"WIFI_BIT_GOT_IP", "MQTT_GOT_UPDATE", "OTA_BIT_IN_PROGRESS"}
  /\ ota \in {"wait", "begin", "perform", "send", "finish", "restart", "sleep"}
  /\ read \in 0..Blocks /\ update_size \in {0, Blocks, UnknownSize}
  /\ q_ota_level \in Seq(Progress) /\ Len(q_ota_level) <= LevelLen
  /\ shown \in Progress /\ turns \in 0..LevelLen

(* A slot that the boot loader may start and that has reached the network. *)
Proven(s) == state[s] = "valid" /\ image[s] \in Connecting

(* However downloads fail and whenever the car restarts, it runs an image  *)
(* that reaches the network or falls back to one at the next restart: it   *)
(* never has to be flashed by cable. An image is confirmed with its first  *)
(* address only (wifi.c:72), and nothing is downloaded before.             *)
StaysUpdatable ==
  /\ main # "dead"
  /\ Proven(running) \/ (state[running] = "pending" /\ Proven(Other(running)))

(* The display never shows more than 100 percent, on which the bar would   *)
(* be drawn past its page. What it shows of an earlier attempt, from       *)
(* q_ota_level, which ota_task never empties, or from the turn before, it  *)
(* shows until the first percentage of this attempt has reached the queue, *)
(* however long the first block takes, and from then on in fewer turns     *)
(* than the queue is long.                                                 *)
ShowsOwnProgress ==
  shown.percent <= 100 /\ (turns >= LevelLen => ~shown.earlier)

(* Once the display shows progress of this attempt it never goes back, to  *)
(* less progress or to an earlier attempt, although percentages are        *)
(* dropped and some of an earlier attempt may have been in the queue.      *)
ProgressNeverFalls ==
  [][write_ota_update /\ ~shown.earlier
       => ~shown'.earlier /\ shown.percent <= shown'.percent]_vars

Update == INSTANCE SafeUpdate
          WITH Nothing <- Torn, runs <- image[running],
               trial <- state[running] = "pending",
               kept <- IF state[running] = "pending" THEN image[Other(running)] ELSE Torn

(* Slots, otadata and restarts implement trial and fallback.               *)
ImplementsUpdate == Update!Spec

(* An image that does not reach the network is replaced by one that does,  *)
(* by the restart somebody gives the car: the code itself never gives up.  *)
UnreachableIsReplaced ==
  image[running] \notin Connecting ~> image[running] \in Connecting

(* An update request is answered by an attempt, also when it arrives while *)
(* ota_task is busy or sleeps after a failure, or before it exists; only a *)
(* restart forgets it.                                                     *)
RequestIsServed == "MQTT_GOT_UPDATE" \in e_tasks ~> (ota = "begin" \/ e_tasks = {})

(* The first address ends the boot, also when no other comes: none of the  *)
(* waits takes WIFI_BIT_GOT_IP from the next one. Only a restart prevents  *)
(* the tasks from being created.                                           *)
BootEnds ==
  /\ (main = "time_sync" /\ "WIFI_BIT_GOT_IP" \in e_tasks)
       ~> (main # "time_sync" \/ e_tasks = {})
  /\ main \in {"mqtts_hiveMQ", "oled_init"} ~> main \in {"running", "time_sync"}
=============================================================================
