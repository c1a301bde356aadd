-------------------------- MODULE OtaUpdateProofs ---------------------------
(* Theorems about the update for every set of images, every size of image  *)
(* and every length of q_ota_level, with a restart at any step.            *)
EXTENDS OtaUpdate, SequenceTheorems, TLAPS

Connected == "WIFI_BIT_GOT_IP" \in e_tasks

Types ==
  /\ image \in [Slots -> Images \cup {Torn}]
  /\ state \in [Slots -> {"valid", "new", "pending", "aborted"}]
  /\ boot \in Slots /\ running \in Slots

(* What runs has an address or the trial of it has just begun.             *)
RunningSlot ==
  /\ main # "dead" /\ (main # "time_sync" => Connected)
  /\ ota # "wait" => main = "running"
  /\ \/ Proven(running)
     \/ /\ state[running] = "pending" /\ image[running] \in Images
        /\ Proven(Other(running)) /\ boot = running
        /\ main = "time_sync" /\ ~Connected

(* The other slot is selected by a finished download only, and until the   *)
(* restart that follows.                                                   *)
OtherSlot ==
  /\ state[Other(running)] \in {"valid", "new", "aborted"}
  /\ state[Other(running)] = "new" => boot = Other(running)
  /\ boot = Other(running) =>
       /\ state[boot] = "new" /\ image[boot] \in Images
       /\ Proven(running) /\ ota = "restart"

Flash == Types /\ RunningSlot /\ OtherSlot

-----------------------------------------------------------------------------
LEMMA SlotFacts ==
  \A s \in Slots : Other(s) \in Slots /\ Other(s) # s /\ Other(Other(s)) = s
                   /\ \A t \in Slots : t = s \/ t = Other(s)
BY DEF Slots, Other

LEMMA FlashInit == Init => Flash
<1> SUFFICES ASSUME Init PROVE Flash
  OBVIOUS
<1>1. Types
  BY UpdateAssumption DEF UpdateAssumption, Init, Types, Slots
<1>2. RunningSlot
  BY UpdateAssumption DEF UpdateAssumption, Init, RunningSlot, Proven, Slots
<1>3. OtherSlot
  BY DEF Init, OtherSlot, Slots, Other
<1> QED
  BY <1>1, <1>2, <1>3 DEF Flash

(* A restart goes on with the slot that runs, tries the one that was       *)
(* downloaded, or falls back from a trial that never got an address.       *)
LEMMA RestartCases ==
  ASSUME Flash, Restart
  PROVE  /\ image' = image /\ running' \in Slots /\ boot' = running'
         /\ main' = "time_sync" /\ e_tasks' = {} /\ ota' = "wait"
         /\ state' \in [Slots -> {"valid", "new", "pending", "aborted"}]
         /\ \/ /\ Proven(running) /\ running' = running /\ state' = state
               /\ state[Other(running)] # "new"
            \/ /\ Proven(running) /\ running' = Other(running)
               /\ image[Other(running)] \in Images
               /\ state'[running'] = "pending" /\ state'[running] = "valid"
            \/ /\ state[running] = "pending" /\ running' = Other(running)
               /\ Proven(Other(running))
               /\ state'[running'] = "valid" /\ state'[running] = "aborted"
<1> DEFINE tried == [state EXCEPT ![boot] = IF @ = "new" THEN "pending"
                                       ELSE IF @ = "pending" THEN "aborted" ELSE @]
           Starts(s) == tried[s] \in {"valid", "pending"} /\ image[s] # Torn
           pick == IF Starts(boot) THEN boot ELSE Other(boot)
<1>1. /\ state' = tried /\ running' = pick /\ boot' = pick
      /\ main' = IF Starts(pick) THEN "time_sync" ELSE "dead"
      /\ e_tasks' = {} /\ ota' = "wait" /\ image' = image
  BY DEF Restart
<1>2. /\ Types /\ RunningSlot /\ OtherSlot
      /\ Other(running) \in Slots /\ Other(running) # running
      /\ Other(Other(running)) = running /\ (boot = running \/ boot = Other(running))
  BY SlotFacts DEF Flash, Types
<1>3. tried \in [Slots -> {"valid", "new", "pending", "aborted"}]
  BY <1>2 DEF Types
<1>4. CASE boot = running /\ Proven(running)
  <2>1. tried = state
    BY <1>2, <1>4 DEF Proven, Types
  <2>2. Starts(boot)
    BY <1>2, <1>4, <2>1, UpdateAssumption DEF Proven, UpdateAssumption
  <2>3. state[Other(running)] # "new"
    BY <1>2, <1>4 DEF OtherSlot
  <2> QED
    BY <1>1, <1>2, <1>3, <1>4, <2>1, <2>2, <2>3 DEF Types
<1>5. CASE boot = Other(running)
  <2>1. state[boot] = "new" /\ image[boot] \in Images /\ Proven(running)
    BY <1>2, <1>5 DEF OtherSlot
  <2>2. tried[boot] = "pending" /\ tried[running] = "valid"
    BY <1>2, <1>5, <2>1 DEF Types, Proven
  <2>3. Starts(boot)
    BY <2>1, <2>2, UpdateAssumption DEF UpdateAssumption
  <2> QED
    BY <1>1, <1>2, <1>3, <1>5, <2>1, <2>2, <2>3
<1>6. CASE boot = running /\ ~Proven(running)
  <2>1. state[running] = "pending" /\ Proven(Other(running))
    BY <1>2, <1>6 DEF RunningSlot
  <2>2. tried[running] = "aborted" /\ tried[Other(running)] = "valid"
    BY <1>2, <1>6, <2>1 DEF Types, Proven
  <2>3. ~Starts(boot) /\ Starts(Other(boot))
    BY <1>6, <2>1, <2>2, UpdateAssumption DEF Proven, UpdateAssumption
  <2> QED
    BY <1>1, <1>2, <1>3, <1>6, <2>1, <2>2, <2>3
<1> QED
  BY <1>2, <1>4, <1>5, <1>6

LEMMA RestartKeepsFlash ==
  ASSUME Flash, Restart
  PROVE  Flash'
<1>1. /\ Types /\ OtherSlot
      /\ Other(running) \in Slots /\ Other(running) # running
      /\ Other(Other(running)) = running
  BY SlotFacts DEF Flash, Types
<1>2. Types'
  BY RestartCases, <1>1 DEF Types
<1>3. ~Connected'
  BY RestartCases DEF Connected
<1>4. RunningSlot'
  BY RestartCases, <1>1, <1>3 DEF RunningSlot, Proven
<1>5. OtherSlot'
  BY RestartCases, <1>1, <1>3 DEF OtherSlot, Proven, Types
<1> QED
  BY <1>2, <1>4, <1>5 DEF Flash

LEMMA FlashNext == Flash /\ [Next]_vars => Flash'
<1> SUFFICES ASSUME Flash, [Next]_vars PROVE Flash'
  OBVIOUS
<1>1. /\ Types /\ RunningSlot /\ OtherSlot
      /\ Other(running) \in Slots /\ Other(running) # running
      /\ Other(Other(running)) = running /\ (boot = running \/ boot = Other(running))
  BY SlotFacts DEF Flash, Types
<1>2. CASE Reset \/ EspRestart
  BY <1>2, RestartKeepsFlash DEF Reset, EspRestart
<1>3. CASE GotIp
  <2>1. Types'
    BY <1>1, <1>3 DEF GotIp, Types
  <2>2. Proven(running)' /\ Connected'
    BY <1>1, <1>3 DEF GotIp, Types, Proven, Connected
  <2>3. RunningSlot'
    BY <1>1, <1>3, <2>2 DEF GotIp, RunningSlot
  <2>4. OtherSlot'
    BY <1>1, <1>3, <2>2 DEF GotIp, OtherSlot, Types
  <2> QED
    BY <2>1, <2>3, <2>4 DEF Flash
<1>4. CASE MainStep \/ RequestUpdate
  <2>1. UNCHANGED flashVars /\ ota' = ota /\ (Connected <=> Connected')
    BY <1>4 DEF MainStep, time_sync, mqtts_hiveMQ, CreateTasks, RequestUpdate, Connected
  <2>2. main # "time_sync" \/ Connected
    BY <1>1, <1>4 DEF MainStep, time_sync, mqtts_hiveMQ, CreateTasks, RequestUpdate,
                      RunningSlot, Connected
  <2>3. Proven(running) /\ Connected /\ main' # "dead" /\ (ota' # "wait" => main' = "running")
    BY <1>1, <1>4, <2>1, <2>2
    DEF MainStep, time_sync, mqtts_hiveMQ, CreateTasks, RequestUpdate, RunningSlot
  <2> QED
    BY <1>1, <2>1, <2>3
    DEF Flash, Types, RunningSlot, OtherSlot, flashVars, Proven
<1>5. CASE WaitUpdate \/ BeginFails \/ Begin \/ SendProgress \/ Wake
  <2>1. /\ UNCHANGED <<flashVars, main>> /\ main = "running"
        /\ (Connected <=> Connected') /\ ota # "restart"
    BY <1>5 DEF WaitUpdate, BeginFails, Begin, SendProgress, Wake, Goes, Connected
  <2> QED
    BY <1>1, <2>1 DEF Flash, Types, RunningSlot, OtherSlot, flashVars, Proven
<1>6. CASE PerformBlock \/ PerformEnds
  <2>1. /\ UNCHANGED <<state, boot, running, main>> /\ main = "running" /\ ota # "restart"
        /\ (Connected <=> Connected')
    BY <1>6 DEF PerformBlock, PerformEnds, Goes, Connected
  <2>2. /\ image' \in [Slots -> Images \cup {Torn}] /\ image'[running] = image[running]
    BY <1>1, <1>6 DEF PerformBlock, PerformEnds, Types
  <2>3. Proven(running) /\ boot = running
    BY <1>1, <2>1 DEF RunningSlot, OtherSlot
  <2> QED
    BY <1>1, <2>1, <2>2, <2>3 DEF Flash, Types, RunningSlot, OtherSlot, Proven
<1>7. CASE FinishInstalls
  <2>1. /\ UNCHANGED <<image, running, main, e_tasks>> /\ main = "running"
        /\ ota = "finish" /\ ota' = "restart" /\ boot' = Other(running)
        /\ image[Other(running)] # Torn
        /\ state' = [state EXCEPT ![Other(running)] = "new"]
    BY <1>7 DEF FinishInstalls, Goes
  <2>2. /\ state' \in [Slots -> {"valid", "new", "pending", "aborted"}]
        /\ state'[running] = state[running] /\ state'[Other(running)] = "new"
        /\ image[Other(running)] \in Images
    BY <1>1, <2>1 DEF Types
  <2>3. Proven(running) /\ Connected /\ Connected'
    BY <1>1, <2>1 DEF RunningSlot, Connected
  <2> QED
    BY <1>1, <2>1, <2>2, <2>3 DEF Flash, Types, RunningSlot, OtherSlot, Proven
<1>8. CASE FinishEmpty \/ FinishFails
  <2>1. /\ UNCHANGED <<flashVars, main, e_tasks>> /\ main = "running" /\ ota # "restart"
    BY <1>8 DEF FinishEmpty, FinishFails, Goes
  <2> QED
    BY <1>1, <2>1 DEF Flash, Types, RunningSlot, OtherSlot, flashVars, Proven, Connected
<1>9. CASE write_ota_update \/ UNCHANGED vars
  <2>1. UNCHANGED <<flashVars, main, e_tasks, ota>>
    BY <1>9 DEF write_ota_update, vars
  <2> QED
    BY <1>1, <2>1 DEF Flash, Types, RunningSlot, OtherSlot, flashVars, Proven, Connected
<1> QED
  BY <1>2, <1>3, <1>4, <1>5, <1>6, <1>7, <1>8, <1>9 DEF Next, OtaStep

LEMMA FlashAlways == Spec => []Flash
  BY FlashInit, FlashNext, PTL DEF Spec

(* However downloads fail and whenever the car restarts, what runs has had *)
(* an address, or is on trial and the other slot holds an image that has:  *)
(* the car never has to be flashed by cable.                               *)
THEOREM UpdateIsSafe == Spec => []StaysUpdatable
<1>1. Flash => StaysUpdatable
  BY DEF Flash, RunningSlot, StaysUpdatable
<1> QED
  BY <1>1, FlashAlways, PTL

(* Slots, otadata, the boot loader and the order of confirmation implement *)
(* trial and fallback: the restart after a download is the trial, the      *)
(* first address its confirmation, a restart before it the fallback.       *)
THEOREM UpdateImplementation == Spec => ImplementsUpdate
<1> DEFINE runs == image[running]
           trial == state[running] = "pending"
           kept == IF state[running] = "pending" THEN image[Other(running)] ELSE Torn
<1>1. Init => Update!Init
  BY DEF Init, Update!Init, Slots
<1>2. ASSUME Flash, Flash', [Next]_vars
      PROVE  [Update!Next]_<<runs, kept, trial>>
  <2>1. /\ Types /\ RunningSlot /\ OtherSlot /\ running \in Slots
        /\ Other(running) \in Slots /\ Other(running) # running
        /\ Other(Other(running)) = running
    BY <1>2, SlotFacts DEF Flash, Types
  <2>2. CASE Reset \/ EspRestart
    <3>1. Restart
      BY <2>2 DEF Reset, EspRestart
    <3>2. CASE Proven(running) /\ running' = running /\ state' = state
      BY <1>2, <3>1, <3>2, RestartCases DEF Proven
    <3>3. CASE /\ Proven(running) /\ running' = Other(running)
               /\ image[Other(running)] \in Images
               /\ state'[running'] = "pending" /\ state'[running] = "valid"
      BY <1>2, <2>1, <3>1, <3>3, RestartCases DEF Update!Next, Update!Try, Proven
    <3>4. CASE /\ state[running] = "pending" /\ running' = Other(running)
               /\ Proven(Other(running))
               /\ state'[running'] = "valid" /\ state'[running] = "aborted"
      BY <1>2, <2>1, <3>1, <3>4, RestartCases, UpdateAssumption
      DEF Update!Next, Update!FallBack, Proven, UpdateAssumption
    <3> QED
      BY <1>2, <3>1, <3>2, <3>3, <3>4, RestartCases
  <2>3. CASE GotIp
    <3>1. /\ image' = image /\ running' = running /\ image[running] \in Connecting
          /\ state'[running] = "valid"
      BY <2>1, <2>3 DEF GotIp, Types
    <3> QED
      BY <2>1, <3>1 DEF Update!Next, Update!Confirm, RunningSlot, Proven
  <2>4. CASE \/ MainStep \/ RequestUpdate \/ WaitUpdate \/ BeginFails \/ Begin \/ SendProgress
             \/ Wake \/ FinishEmpty \/ FinishFails \/ write_ota_update \/ UNCHANGED vars
    <3>1. UNCHANGED flashVars
      BY <2>4
      DEF MainStep, time_sync, mqtts_hiveMQ, CreateTasks, RequestUpdate, WaitUpdate,
          BeginFails, Begin, SendProgress, Wake, FinishEmpty, FinishFails,
          write_ota_update, vars
    <3> QED
      BY <3>1 DEF flashVars
  <2>5. CASE PerformBlock \/ PerformEnds \/ FinishInstalls
    <3>1. main = "running" /\ running' = running
      BY <2>5 DEF PerformBlock, PerformEnds, FinishInstalls, Goes
    <3>2. image'[running] = image[running] /\ state'[running] = state[running]
      BY <2>1, <2>5 DEF PerformBlock, PerformEnds, FinishInstalls, Types
    <3> QED
      BY <2>1, <3>1, <3>2 DEF RunningSlot, Proven
  <2> QED
    BY <1>2, <2>2, <2>3, <2>4, <2>5 DEF Next, OtaStep
<1> QED
  BY <1>1, <1>2, FlashAlways, PTL DEF Spec, ImplementsUpdate, Update!Spec

-----------------------------------------------------------------------------
(* The progress on the display                                             *)

Downloading == ota \in {"perform", "send"} => update_size \in {Blocks, UnknownSize}

(* While the display shows an earlier attempt, the first percentage of     *)
(* this one is not queued yet, or so far in front that as many turns as    *)
(* are left reach it.                                                      *)
OwnSoon ==
  shown.earlier =>
    \/ turns = 0 /\ \A k \in DOMAIN q_ota_level : ~IsOwn(q_ota_level[k])
    \/ \E k \in DOMAIN q_ota_level : IsOwn(q_ota_level[k]) /\ turns + k <= LevelLen

(* The percentages of this attempt are the last in the queue and rise, from *)
(* the one that is shown to the one that would be sent next.               *)
Rising ==
  /\ \A j, k \in DOMAIN q_ota_level : j < k /\ IsOwn(q_ota_level[j]) =>
       IsOwn(q_ota_level[k]) /\ q_ota_level[j].percent <= q_ota_level[k].percent
  /\ IsOwn(shown) => \A k \in DOMAIN q_ota_level :
       IsOwn(q_ota_level[k]) /\ shown.percent <= q_ota_level[k].percent
  /\ ota \in {"perform", "send"} =>
       /\ IsOwn(shown) => shown.percent <= Percent
       /\ \A k \in DOMAIN q_ota_level :
            IsOwn(q_ota_level[k]) => q_ota_level[k].percent <= Percent

Levels == TypeOK /\ Downloading /\ OwnSoon

(* With a size at least as large as what has been read, at most 100.       *)
LEMMA PercentIsOne ==
  ASSUME NEW r \in 0..Blocks, NEW size \in {Blocks, UnknownSize}
  PROVE  (r * 100) \div size \in 0..100
<1>1. /\ size \in Nat /\ size > 0 /\ size >= Blocks /\ r \in Nat /\ r <= Blocks
  BY UpdateAssumption DEF UpdateAssumption
<1> DEFINE q == (r * 100) \div size
<1>2. q \in Int /\ size * q <= r * 100 /\ r * 100 < size * q + size
  BY <1>1, SMT
<1>3. size * q <= size * 100
  BY <1>1, <1>2, SMT
<1>4. q <= 100
  BY <1>1, <1>2, <1>3, SMT
<1>5. q >= 0
  BY <1>1, <1>2, SMT
<1> QED
  BY <1>2, <1>4, <1>5

LEMMA LevelsInit == Init => Levels
<1> SUFFICES ASSUME Init PROVE Levels
  OBVIOUS
<1>1. TypeOK
  BY UpdateAssumption DEF UpdateAssumption, Init, TypeOK, Slots, Progress
<1>2. Downloading /\ OwnSoon
  BY DEF Init, Downloading, OwnSoon
<1> QED
  BY <1>1, <1>2 DEF Levels

LEMMA LevelsNext == Flash /\ Levels /\ Rising /\ [Next]_vars => Levels'
<1> SUFFICES ASSUME Flash, Levels, Rising, [Next]_vars PROVE Levels'
  OBVIOUS
<1>1. /\ TypeOK /\ Downloading /\ OwnSoon /\ Rising
      /\ LevelLen \in Nat \ {0} /\ Blocks \in Nat \ {0} /\ UnknownSize \in Nat
  BY UpdateAssumption DEF Levels, UpdateAssumption
<1>2. Other(running) \in Slots
  BY <1>1, SlotFacts DEF TypeOK
<1>3. CASE Reset \/ EspRestart
  <2>1. Restart
    BY <1>3 DEF Reset, EspRestart
  <2>2. /\ q_ota_level' = <<>> /\ shown' = [percent |-> 0, earlier |-> FALSE]
        /\ turns' = 0 /\ read' = 0 /\ update_size' = 0 /\ ota' = "wait"
    BY <2>1 DEF Restart
  <2>3. TypeOK'
    BY <1>1, <2>1, <2>2, RestartCases DEF TypeOK, Progress
  <2> QED
    BY <1>1, <2>2, <2>3 DEF Levels, Downloading, OwnSoon
<1>4. CASE GotIp \/ MainStep \/ RequestUpdate
  <2>1. UNCHANGED <<ota, downloadVars, levelVars>>
    BY <1>4 DEF GotIp, MainStep, time_sync, mqtts_hiveMQ, CreateTasks, RequestUpdate
  <2>2. TypeOK'
    BY <1>1, <1>4, <2>1
    DEF GotIp, MainStep, time_sync, mqtts_hiveMQ, CreateTasks, RequestUpdate, TypeOK,
        flashVars, downloadVars, levelVars
  <2> QED
    BY <1>1, <2>1, <2>2 DEF Levels, Downloading, OwnSoon, downloadVars, levelVars
<1>5. CASE \/ WaitUpdate \/ BeginFails \/ PerformBlock \/ PerformEnds
           \/ FinishInstalls \/ FinishEmpty \/ FinishFails \/ Wake
  <2>1. UNCHANGED levelVars
    BY <1>5 DEF WaitUpdate, BeginFails, PerformBlock, PerformEnds, FinishInstalls,
                FinishEmpty, FinishFails, Wake
  <2>2. Downloading'
    BY <1>1, <1>5 DEF WaitUpdate, BeginFails, PerformBlock, PerformEnds, FinishInstalls,
                      FinishEmpty, FinishFails, Wake, Goes, Downloading, downloadVars
  <2>3. TypeOK'
    <3>1. CASE WaitUpdate \/ BeginFails \/ FinishEmpty \/ FinishFails \/ Wake
      BY <1>1, <2>1, <3>1 DEF WaitUpdate, BeginFails, FinishEmpty, FinishFails, Wake, Goes,
                              TypeOK, flashVars, downloadVars, levelVars
    <3>2. CASE PerformBlock
      <4>1. read' \in 0..Blocks
        BY <1>1, <3>2 DEF PerformBlock, TypeOK
      <4>2. image' \in [Slots -> Images \cup {Torn}]
        BY <1>1, <3>2 DEF PerformBlock, TypeOK
      <4> QED
        BY <1>1, <2>1, <3>2, <4>1, <4>2 DEF PerformBlock, Goes, TypeOK, levelVars
    <3>3. CASE PerformEnds
      <4>1. image' \in [Slots -> Images \cup {Torn}]
        BY <1>1, <3>3 DEF PerformEnds, TypeOK
      <4> QED
        BY <1>1, <2>1, <3>3, <4>1 DEF PerformEnds, Goes, TypeOK, downloadVars, levelVars
    <3>4. CASE FinishInstalls
      <4>1. state' \in [Slots -> {"valid", "new", "pending", "aborted"}]
        BY <1>1, <3>4 DEF FinishInstalls, TypeOK
      <4> QED
        BY <1>1, <1>2, <2>1, <3>4, <4>1
        DEF FinishInstalls, Goes, TypeOK, downloadVars, levelVars
    <3> QED
      BY <1>5, <3>1, <3>2, <3>3, <3>4
  <2> QED
    BY <1>1, <2>1, <2>2, <2>3 DEF Levels, OwnSoon, levelVars
<1>6. CASE Begin
  <2>1. /\ UNCHANGED <<flashVars, main>> /\ ota' = "perform" /\ read' = 0 /\ turns' = 0
        /\ update_size' \in {Blocks, UnknownSize}
        /\ e_tasks' = e_tasks \cup {"OTA_BIT_IN_PROGRESS"}
        /\ q_ota_level' = [k \in DOMAIN q_ota_level |->
                             [q_ota_level[k] EXCEPT !.earlier = TRUE]]
        /\ shown' = [shown EXCEPT !.earlier = TRUE]
    BY <1>6 DEF Begin, Goes
  <2>2. shown' \in Progress
    BY <1>1, <2>1 DEF TypeOK, Progress
  <2>3. /\ q_ota_level' \in Seq(Progress) /\ Len(q_ota_level') = Len(q_ota_level)
    <3>1. DOMAIN q_ota_level = 1..Len(q_ota_level) /\ Len(q_ota_level) \in Nat
      BY <1>1 DEF TypeOK
    <3>2. \A k \in DOMAIN q_ota_level : [q_ota_level[k] EXCEPT !.earlier = TRUE] \in Progress
      <4> SUFFICES ASSUME NEW k \in DOMAIN q_ota_level
                   PROVE  [q_ota_level[k] EXCEPT !.earlier = TRUE] \in Progress
        OBVIOUS
      <4>1. q_ota_level[k] \in Progress
        BY <1>1, <3>1 DEF TypeOK
      <4> QED
        BY <4>1 DEF Progress
    <3>3. q_ota_level' \in [1..Len(q_ota_level) -> Progress]
      BY <2>1, <3>1, <3>2
    <3> QED
      BY <3>1, <3>3
  <2>4. TypeOK'
    BY <1>1, <2>1, <2>2, <2>3 DEF TypeOK, flashVars
  <2>5. OwnSoon'
    <3>1. \A k \in DOMAIN q_ota_level : q_ota_level[k] \in Progress
      BY <1>1 DEF TypeOK
    <3>2. \A k \in DOMAIN q_ota_level' : ~IsOwn(q_ota_level'[k])
      BY <2>1, <3>1 DEF IsOwn, Progress
    <3> QED
      BY <2>1, <3>2 DEF OwnSoon
  <2> QED
    BY <2>1, <2>4, <2>5 DEF Levels, Downloading
<1>7. CASE SendProgress
  <2>1. /\ UNCHANGED <<flashVars, main, e_tasks, downloadVars, shown, turns>>
        /\ ota = "send" /\ ota' = "perform"
    BY <1>7 DEF SendProgress, Goes
  <2>2. Percent \in 0..100
    BY <1>1, <2>1, PercentIsOne DEF TypeOK, Downloading, Percent
  <2>3. Downloading'
    BY <1>1, <2>1 DEF Downloading, downloadVars
  <2>4. CASE q_ota_level' = q_ota_level
    BY <1>1, <2>1, <2>3, <2>4
    DEF Levels, TypeOK, OwnSoon, flashVars, downloadVars
  <2>5. CASE /\ Len(q_ota_level) < LevelLen
             /\ q_ota_level' = Append(q_ota_level, [percent |-> Percent, earlier |-> FALSE])
    <3> DEFINE item == [percent |-> Percent, earlier |-> FALSE]
    <3>1. item \in Progress /\ item.earlier = FALSE
      BY <2>2 DEF Progress
    <3>2. /\ q_ota_level \in Seq(Progress) /\ q_ota_level' = Append(q_ota_level, item)
      BY <1>1, <2>5 DEF TypeOK
    <3> HIDE DEF item
    <3>3. /\ q_ota_level' \in Seq(Progress) /\ Len(q_ota_level') = Len(q_ota_level) + 1
          /\ \A k \in 1..Len(q_ota_level) : q_ota_level'[k] = q_ota_level[k]
          /\ q_ota_level'[Len(q_ota_level) + 1] = item
      BY <3>1, <3>2, AppendProperties
    <3>4. TypeOK'
      BY <1>1, <2>1, <2>5, <3>3 DEF TypeOK, flashVars, downloadVars
    <3>5. OwnSoon'
      <4>1. Len(q_ota_level) \in Nat /\ DOMAIN q_ota_level = 1..Len(q_ota_level)
        BY <3>2
      <4>2. DOMAIN q_ota_level' = 1..(Len(q_ota_level) + 1)
        BY <3>3, <4>1
      <4>3. shown' = shown /\ turns' = turns /\ turns \in Nat
        BY <1>1, <2>1 DEF TypeOK
      <4>4. SUFFICES ASSUME shown.earlier
                     PROVE  \E k \in DOMAIN q_ota_level' :
                              IsOwn(q_ota_level'[k]) /\ turns + k <= LevelLen
        BY <4>3 DEF OwnSoon
      <4>5. CASE turns = 0
        <5>1. turns + (Len(q_ota_level) + 1) <= LevelLen
          BY <1>1, <2>5, <4>1, <4>5
        <5>2. IsOwn(q_ota_level'[Len(q_ota_level) + 1])
          BY <3>1, <3>3 DEF IsOwn
        <5>3. Len(q_ota_level) + 1 \in DOMAIN q_ota_level'
          BY <4>1, <4>2
        <5> QED
          BY <5>1, <5>2, <5>3
      <4>6. CASE turns # 0
        <5>1. PICK k \in DOMAIN q_ota_level : IsOwn(q_ota_level[k]) /\ turns + k <= LevelLen
          BY <1>1, <4>4, <4>6 DEF OwnSoon
        <5>2. k \in DOMAIN q_ota_level' /\ q_ota_level'[k] = q_ota_level[k]
          BY <3>3, <4>1, <4>2
        <5> QED
          BY <5>1, <5>2
      <4> QED
        BY <4>5, <4>6
    <3> QED
      BY <2>3, <3>4, <3>5 DEF Levels
  <2> QED
    BY <1>7, <2>4, <2>5 DEF SendProgress
<1>8. CASE write_ota_update
  <2>1. /\ UNCHANGED <<flashVars, main, e_tasks, ota, downloadVars>> /\ CountTurn
    BY <1>8 DEF write_ota_update
  <2>2. /\ q_ota_level \in Seq(Progress) /\ turns \in 0..LevelLen
        /\ Len(q_ota_level) \in Nat /\ DOMAIN q_ota_level = 1..Len(q_ota_level)
        /\ Len(q_ota_level) <= LevelLen
    BY <1>1 DEF TypeOK
  <2>3. /\ turns' \in 0..LevelLen /\ turns' <= turns + 1
        /\ ~HasOwn => turns' = 0
    BY <1>1, <2>1, <2>2 DEF CountTurn
  <2>4. CASE q_ota_level = <<>>
    <3>1. UNCHANGED <<q_ota_level, shown>>
      BY <1>8, <2>4 DEF write_ota_update
    <3>2. TypeOK'
      BY <1>1, <2>1, <2>3, <3>1 DEF TypeOK, flashVars, downloadVars
    <3>3. OwnSoon'
      <4>1. \A k \in DOMAIN q_ota_level : ~IsOwn(q_ota_level[k])
        BY <2>4
      <4>2. shown.earlier => turns' = 0
        BY <2>3, <4>1 DEF HasOwn, IsOwn
      <4> QED
        BY <3>1, <4>1, <4>2 DEF OwnSoon
    <3> QED
      BY <1>1, <2>1, <3>2, <3>3 DEF Levels, Downloading, downloadVars
  <2>5. CASE q_ota_level # <<>>
    <3>1. shown' = Head(q_ota_level) /\ q_ota_level' = Tail(q_ota_level)
      BY <1>8, <2>5 DEF write_ota_update
    <3>2. /\ Len(q_ota_level) \in Nat \ {0} /\ Head(q_ota_level) = q_ota_level[1]
          /\ Head(q_ota_level) \in Progress
          /\ Tail(q_ota_level) \in Seq(Progress)
          /\ Len(Tail(q_ota_level)) = Len(q_ota_level) - 1
          /\ \A k \in 1..(Len(q_ota_level) - 1) : Tail(q_ota_level)[k] = q_ota_level[k + 1]
      BY <2>2, <2>5, HeadTailProperties
    <3>3. TypeOK'
      BY <1>1, <2>1, <2>2, <2>3, <3>1, <3>2 DEF TypeOK, flashVars, downloadVars
    <3>4. OwnSoon'
      <4>1. DOMAIN q_ota_level' = 1..(Len(q_ota_level) - 1)
        BY <3>1, <3>2
      <4>2. SUFFICES ASSUME ~IsOwn(q_ota_level[1])
                     PROVE  \/ /\ turns' = 0
                               /\ \A k \in DOMAIN q_ota_level' : ~IsOwn(q_ota_level'[k])
                            \/ \E k \in DOMAIN q_ota_level' :
                                 IsOwn(q_ota_level'[k]) /\ turns' + k <= LevelLen
        BY <3>1, <3>2 DEF OwnSoon, IsOwn
      <4>3. CASE ~HasOwn
        <5>1. \A k \in DOMAIN q_ota_level' : ~IsOwn(q_ota_level'[k])
          BY <2>2, <3>1, <3>2, <4>1, <4>3 DEF HasOwn
        <5> QED
          BY <2>3, <4>3, <5>1
      <4>4. CASE IsOwn(shown)
        BY <2>2, <3>2, <4>2, <4>4, <1>1 DEF Rising
      <4>5. CASE HasOwn /\ ~IsOwn(shown)
        <5>1. PICK k \in DOMAIN q_ota_level : IsOwn(q_ota_level[k]) /\ turns + k <= LevelLen
          BY <1>1, <4>5 DEF OwnSoon, HasOwn, IsOwn
        <5>2. k \in 2..Len(q_ota_level)
          BY <2>2, <4>2, <5>1
        <5> DEFINE j == k - 1
        <5>3. j \in DOMAIN q_ota_level' /\ q_ota_level'[j] = q_ota_level[k]
          BY <2>2, <3>1, <3>2, <4>1, <5>2
        <5>4. turns' + j <= LevelLen
          BY <1>1, <2>2, <2>3, <5>1, <5>2
        <5> QED
          BY <5>1, <5>3, <5>4
      <4> QED
        BY <4>3, <4>4, <4>5
    <3> QED
      BY <1>1, <2>1, <3>3, <3>4 DEF Levels, Downloading, downloadVars
  <2> QED
    BY <2>4, <2>5
<1>9. CASE UNCHANGED vars
  BY <1>1, <1>9
  DEF Levels, TypeOK, Downloading, OwnSoon, vars, flashVars, downloadVars, levelVars
<1> QED
  BY <1>3, <1>4, <1>5, <1>6, <1>7, <1>8, <1>9 DEF Next, OtaStep

LEMMA PercentGrows ==
  ASSUME NEW r \in 0..Blocks, r + 1 <= Blocks, NEW size \in {Blocks, UnknownSize}
  PROVE  (r * 100) \div size <= ((r + 1) * 100) \div size
<1>1. /\ size \in Nat /\ size > 0 /\ r \in Nat /\ r + 1 \in 0..Blocks
  BY UpdateAssumption DEF UpdateAssumption
<1> DEFINE q == (r * 100) \div size
           next == ((r + 1) * 100) \div size
<1>2. /\ q \in Int /\ size * q <= r * 100
      /\ next \in Int /\ (r + 1) * 100 < size * next + size
  BY <1>1, SMT
<1> HIDE DEF q, next
<1>3. size * q < size * (next + 1)
  BY <1>1, <1>2, SMT
<1>4. q < next + 1
  BY <1>1, <1>2, <1>3, SMT
<1> QED
  BY <1>2, <1>4 DEF q, next

LEMMA RisingInit == Init => Rising
  BY DEF Init, Rising

LEMMA RisingNext == Levels /\ Rising /\ [Next]_vars => Rising'
<1> SUFFICES ASSUME Levels, Rising, [Next]_vars PROVE Rising'
  OBVIOUS
<1>1. /\ q_ota_level \in Seq(Progress) /\ shown \in Progress
      /\ Len(q_ota_level) \in Nat /\ DOMAIN q_ota_level = 1..Len(q_ota_level)
      /\ read \in 0..Blocks /\ Downloading
  BY DEF Levels, TypeOK
<1>2. /\ shown.percent \in 0..100
      /\ \A k \in DOMAIN q_ota_level : q_ota_level[k].percent \in 0..100
  <2>1. \A k \in DOMAIN q_ota_level : q_ota_level[k] \in Progress
    BY <1>1
  <2> QED
    BY <1>1, <2>1 DEF Progress
<1>3. CASE Reset \/ EspRestart
  BY <1>3 DEF Reset, EspRestart, Restart, Rising
<1>4. CASE GotIp \/ MainStep \/ RequestUpdate \/ UNCHANGED vars
  <2>1. UNCHANGED <<ota, downloadVars, levelVars>>
    BY <1>4 DEF GotIp, MainStep, time_sync, mqtts_hiveMQ, CreateTasks, RequestUpdate, vars
  <2> QED
    BY <2>1 DEF Rising, Percent, downloadVars, levelVars
<1>5. CASE WaitUpdate \/ BeginFails \/ PerformEnds \/ FinishInstalls \/ FinishEmpty
           \/ FinishFails \/ Wake
  <2>1. UNCHANGED levelVars /\ ota' \notin {"perform", "send"}
    BY <1>5 DEF WaitUpdate, BeginFails, PerformEnds, FinishInstalls, FinishEmpty,
                FinishFails, Wake, Goes
  <2> QED
    BY <2>1 DEF Rising, levelVars
<1>6. CASE PerformBlock
  <2>1. /\ UNCHANGED levelVars /\ ota = "perform" /\ ota' = "send"
        /\ read' = read + 1 /\ read < Blocks /\ update_size' = update_size
    BY <1>6 DEF PerformBlock, Goes
  <2>2. update_size \in {Blocks, UnknownSize} /\ read + 1 <= Blocks
    BY <1>1, <2>1, UpdateAssumption DEF Downloading, UpdateAssumption
  <2>3. /\ Percent \in 0..100 /\ Percent <= Percent'
        /\ Percent' \in 0..100
    <3>1. read + 1 \in 0..Blocks
      BY <1>1, <2>2, UpdateAssumption DEF UpdateAssumption
    <3> QED
      BY <1>1, <2>1, <2>2, <3>1, PercentIsOne, PercentGrows DEF Percent
  <2>4. /\ IsOwn(shown) => shown.percent <= Percent'
        /\ \A k \in DOMAIN q_ota_level :
             IsOwn(q_ota_level[k]) => q_ota_level[k].percent <= Percent'
    BY <1>2, <2>1, <2>3 DEF Rising
  <2> QED
    BY <2>1, <2>4 DEF Rising, levelVars
<1>7. CASE Begin
  <2>1. /\ q_ota_level' = [k \in DOMAIN q_ota_level |->
                             [q_ota_level[k] EXCEPT !.earlier = TRUE]]
        /\ shown' = [shown EXCEPT !.earlier = TRUE]
    BY <1>7 DEF Begin
  <2>2. \A k \in DOMAIN q_ota_level : q_ota_level[k] \in Progress
    BY <1>1
  <2>3. ~IsOwn(shown') /\ \A k \in DOMAIN q_ota_level' : ~IsOwn(q_ota_level'[k])
    BY <1>1, <2>1, <2>2 DEF IsOwn, Progress
  <2> QED
    BY <2>3 DEF Rising
<1>8. CASE SendProgress
  <2>1. /\ UNCHANGED <<downloadVars, shown>> /\ ota = "send"
    BY <1>8 DEF SendProgress, Goes
  <2>2. Percent \in 0..100 /\ Percent' = Percent
    BY <1>1, <2>1, PercentIsOne DEF Downloading, Percent, downloadVars
  <2>3. CASE q_ota_level' = q_ota_level
    BY <2>1, <2>2, <2>3 DEF Rising
  <2>4. CASE q_ota_level' = Append(q_ota_level, [percent |-> Percent, earlier |-> FALSE])
    <3> DEFINE item == [percent |-> Percent, earlier |-> FALSE]
               last == Len(q_ota_level) + 1
    <3>1. item \in Progress /\ IsOwn(item) /\ item.percent = Percent
      BY <2>2 DEF Progress, IsOwn
    <3> HIDE DEF item
    <3>2. /\ DOMAIN q_ota_level' = 1..last
          /\ \A k \in DOMAIN q_ota_level : q_ota_level'[k] = q_ota_level[k]
          /\ q_ota_level'[last] = item
      BY <1>1, <2>4, <3>1, AppendProperties DEF item
    <3>3. ASSUME NEW j \in DOMAIN q_ota_level', NEW k \in DOMAIN q_ota_level',
                 j < k, IsOwn(q_ota_level'[j])
          PROVE  IsOwn(q_ota_level'[k])
                   /\ q_ota_level'[j].percent <= q_ota_level'[k].percent
      <4>1. j \in DOMAIN q_ota_level
        BY <1>1, <3>2, <3>3
      <4>2. CASE k \in DOMAIN q_ota_level
        BY <3>2, <3>3, <4>1, <4>2 DEF Rising
      <4>3. CASE k = last
        BY <2>1, <3>1, <3>2, <3>3, <4>1, <4>3 DEF Rising
      <4> QED
        BY <1>1, <3>2, <4>2, <4>3
    <3>4. ASSUME IsOwn(shown), NEW k \in DOMAIN q_ota_level'
          PROVE  IsOwn(q_ota_level'[k]) /\ shown.percent <= q_ota_level'[k].percent
      <4>1. CASE k \in DOMAIN q_ota_level
        BY <3>2, <3>4, <4>1 DEF Rising
      <4>2. CASE k = last
        BY <2>1, <3>1, <3>2, <3>4, <4>2 DEF Rising
      <4> QED
        BY <1>1, <3>2, <4>1, <4>2
    <3>5. /\ IsOwn(shown) => shown.percent <= Percent
          /\ \A k \in DOMAIN q_ota_level' :
               IsOwn(q_ota_level'[k]) => q_ota_level'[k].percent <= Percent
      <4>1. ASSUME NEW k \in DOMAIN q_ota_level', IsOwn(q_ota_level'[k])
            PROVE  q_ota_level'[k].percent <= Percent
        <5>1. CASE k \in DOMAIN q_ota_level
          BY <2>1, <3>2, <4>1, <5>1 DEF Rising
        <5>2. CASE k = last
          BY <2>2, <3>1, <3>2, <5>2
        <5> QED
          BY <1>1, <3>2, <5>1, <5>2
      <4> QED
        BY <2>1, <4>1 DEF Rising
    <3> QED
      BY <2>1, <2>2, <3>3, <3>4, <3>5 DEF Rising
  <2> QED
    BY <1>8, <2>3, <2>4 DEF SendProgress
<1>9. CASE write_ota_update
  <2>1. UNCHANGED <<ota, downloadVars>>
    BY <1>9 DEF write_ota_update
  <2>2. Percent' = Percent
    BY <2>1 DEF Percent, downloadVars
  <2>3. CASE q_ota_level = <<>>
    <3>1. UNCHANGED <<q_ota_level, shown>>
      BY <1>9, <2>3 DEF write_ota_update
    <3> QED
      BY <2>1, <2>2, <3>1 DEF Rising
  <2>4. CASE q_ota_level # <<>>
    <3>1. shown' = Head(q_ota_level) /\ q_ota_level' = Tail(q_ota_level)
      BY <1>9, <2>4 DEF write_ota_update
    <3>2. /\ Len(q_ota_level) \in Nat \ {0} /\ shown' = q_ota_level[1]
          /\ DOMAIN q_ota_level' = 1..(Len(q_ota_level) - 1)
          /\ \A k \in 1..(Len(q_ota_level) - 1) : q_ota_level'[k] = q_ota_level[k + 1]
      BY <1>1, <2>4, <3>1, HeadTailProperties
    <3>3. \A k \in DOMAIN q_ota_level' :
            /\ k \in Nat /\ k + 1 \in DOMAIN q_ota_level /\ 1 < k + 1
            /\ q_ota_level'[k] = q_ota_level[k + 1]
      BY <1>1, <3>2
    <3>4. 1 \in DOMAIN q_ota_level
      BY <1>1, <3>2
    <3>5. \A j, k \in DOMAIN q_ota_level' : j < k /\ IsOwn(q_ota_level'[j]) =>
            IsOwn(q_ota_level'[k]) /\ q_ota_level'[j].percent <= q_ota_level'[k].percent
      <4> SUFFICES ASSUME NEW j \in DOMAIN q_ota_level', NEW k \in DOMAIN q_ota_level',
                          j < k, IsOwn(q_ota_level'[j])
                   PROVE  IsOwn(q_ota_level'[k])
                            /\ q_ota_level'[j].percent <= q_ota_level'[k].percent
        OBVIOUS
      <4>1. j + 1 < k + 1 /\ j + 1 \in DOMAIN q_ota_level /\ k + 1 \in DOMAIN q_ota_level
        BY <3>3
      <4> QED
        BY <3>3, <4>1 DEF Rising
    <3>6. IsOwn(shown') => \A k \in DOMAIN q_ota_level' :
            IsOwn(q_ota_level'[k]) /\ shown'.percent <= q_ota_level'[k].percent
      BY <3>2, <3>3, <3>4 DEF Rising
    <3>7. ota' \in {"perform", "send"} =>
            /\ IsOwn(shown') => shown'.percent <= Percent
            /\ \A k \in DOMAIN q_ota_level' :
                 IsOwn(q_ota_level'[k]) => q_ota_level'[k].percent <= Percent
      BY <2>1, <3>2, <3>3, <3>4 DEF Rising
    <3> QED
      BY <2>2, <3>5, <3>6, <3>7 DEF Rising
  <2> QED
    BY <2>3, <2>4
<1> QED
  BY <1>3, <1>4, <1>5, <1>6, <1>7, <1>8, <1>9 DEF Next, OtaStep

LEMMA LevelsAlways == Spec => [](Levels /\ Rising)
  BY LevelsInit, LevelsNext, RisingInit, RisingNext, FlashAlways, PTL DEF Spec

(* The state of the update is well typed; a percentage is at most 100.     *)
THEOREM TypeCorrect == Spec => []TypeOK
<1>1. Levels => TypeOK
  BY DEF Levels
<1> QED
  BY <1>1, LevelsAlways, PTL

(* The bar never leaves its page; what is left of an earlier attempt is    *)
(* gone from the display LevelLen turns after the first percentage of this *)
(* one has reached the queue.                                              *)
THEOREM ProgressIsOwn == Spec => []ShowsOwnProgress
<1>1. Levels => ShowsOwnProgress
  <2> SUFFICES ASSUME Levels PROVE ShowsOwnProgress
    OBVIOUS
  <2>1. /\ shown \in Progress /\ turns \in 0..LevelLen /\ LevelLen \in Nat \ {0}
        /\ DOMAIN q_ota_level = 1..Len(q_ota_level) /\ Len(q_ota_level) \in Nat
    BY UpdateAssumption DEF Levels, TypeOK, UpdateAssumption
  <2>2. shown.percent \in 0..100
    BY <2>1 DEF Progress
  <2>3. shown.percent <= 100
    BY <2>2
  <2>4. shown.earlier => turns < LevelLen
    <3> SUFFICES ASSUME shown.earlier PROVE turns < LevelLen
      OBVIOUS
    <3>1. turns = 0 \/ \E k \in DOMAIN q_ota_level : turns + k <= LevelLen
      BY DEF Levels, OwnSoon
    <3> QED
      BY <2>1, <3>1
  <2> QED
    BY <2>1, <2>3, <2>4 DEF ShowsOwnProgress
<1> QED
  BY <1>1, LevelsAlways, PTL

(* Progress of this attempt is never followed by less or by that of an     *)
(* earlier attempt, for every length of the queue and every number of      *)
(* blocks.                                                                 *)
THEOREM ProgressRises == Spec => ProgressNeverFalls
<1>1. ASSUME Levels, Rising, write_ota_update, ~shown.earlier
      PROVE  ~shown'.earlier /\ shown.percent <= shown'.percent
  <2>1. /\ q_ota_level \in Seq(Progress) /\ shown \in Progress
        /\ shown.percent \in 0..100
    BY <1>1 DEF Levels, TypeOK, Progress
  <2>2. CASE q_ota_level = <<>>
    <3>1. shown' = shown
      BY <1>1, <2>2 DEF write_ota_update
    <3>2. \A percent \in 0..100 : percent <= percent
      OBVIOUS
    <3> QED
      BY <1>1, <2>1, <3>1, <3>2
  <2>3. CASE q_ota_level # <<>>
    <3>1. shown' = q_ota_level[1] /\ 1 \in DOMAIN q_ota_level
      BY <1>1, <2>1, <2>3, HeadTailProperties DEF write_ota_update
    <3> QED
      BY <1>1, <3>1 DEF Rising, IsOwn
  <2> QED
    BY <2>2, <2>3
<1> QED
  BY <1>1, LevelsAlways, PTL DEF Spec, ProgressNeverFalls
=============================================================================
