-------------------------- MODULE DriveLoopProofs --------------------------
(* Theorems about uart_task and motor_task together, for every clock and   *)
(* all delays that satisfy DriveAssumption. Each task is shown to be the   *)
(* environment the other's module describes, so that what is proved of     *)
(* each alone holds of both together; how far the readings in              *)
(* q_distance_pid lag behind is then proved from what both do in time.     *)
EXTENDS DriveLoop, SequenceTheorems, TLAPS

MotorP == INSTANCE MotorControlProofs
DistanceP == INSTANCE DistanceTaskProofs

LEMMA MotorAssumed == MotorP!MotorAssumption
BY DriveAssumption
DEF DriveAssumption, Motor!MotorAssumption, MotorP!MotorAssumption,
    Motor!StallWindow, MotorP!StallWindow, Motor!Second, MotorP!Second

LEMMA DistanceAssumed == DistanceP!DistanceAssumption
BY DriveAssumption
DEF DriveAssumption, Distance!DistanceAssumption, DistanceP!DistanceAssumption,
    Distance!uint16_t, DistanceP!uint16_t

(* The modules the proofs are about are the modules composed here.         *)
LEMMA SameHelpers ==
  /\ Motor!Second = MotorP!Second
  /\ \A state, percent : Motor!PinsFor(state, percent) = MotorP!PinsFor(state, percent)
  /\ \A percent : Motor!percent_into_ticks(percent) = MotorP!percent_into_ticks(percent)
  /\ \A mm : Motor!pid_controler_update(mm) = MotorP!pid_controler_update(mm)
  /\ \A prev, curr : Motor!MovedOutcomes(prev, curr) = MotorP!MovedOutcomes(prev, curr)
<1>1. Motor!Second = MotorP!Second
  BY DEF Motor!Second, MotorP!Second
<1>2. ASSUME NEW state, NEW percent
      PROVE  Motor!PinsFor(state, percent) = MotorP!PinsFor(state, percent)
  BY DEF Motor!PinsFor, MotorP!PinsFor, Motor!Pins, MotorP!Pins,
    Motor!Stopped, MotorP!Stopped, Motor!Forward, MotorP!Forward,
    Motor!Backward, MotorP!Backward, Motor!TurnLeft, MotorP!TurnLeft,
    Motor!TurnRight, MotorP!TurnRight
<1>3. ASSUME NEW x, NEW low, NEW high
      PROVE  Motor!Abs(x) = MotorP!Abs(x) /\ Motor!Clamp(x, low, high) = MotorP!Clamp(x, low, high)
  BY DEF Motor!Abs, MotorP!Abs, Motor!Clamp, MotorP!Clamp
<1>4. ASSUME NEW x, NEW d PROVE Motor!Truncate(x, d) = MotorP!Truncate(x, d)
  BY DEF Motor!Truncate, MotorP!Truncate
<1>5. ASSUME NEW percent PROVE Motor!percent_into_ticks(percent) = MotorP!percent_into_ticks(percent)
  BY <1>3 DEF Motor!percent_into_ticks, MotorP!percent_into_ticks, Motor!MOTOR_POWERS, MotorP!MOTOR_POWERS
<1>6. ASSUME NEW mm PROVE Motor!pid_controler_update(mm) = MotorP!pid_controler_update(mm)
  BY <1>3, <1>4 DEF Motor!pid_controler_update, MotorP!pid_controler_update
<1>7. ASSUME NEW prev, NEW curr PROVE Motor!MovedOutcomes(prev, curr) = MotorP!MovedOutcomes(prev, curr)
  BY <1>3 DEF Motor!MovedOutcomes, MotorP!MovedOutcomes
<1> QED
  BY <1>1, <1>2, <1>5, <1>6, <1>7, Zenon

LEMMA SameMotorStep == Motor!MotorStep = MotorP!MotorStep
<1>1. Motor!Stuck = MotorP!Stuck
  BY SameHelpers, Zenon DEF Motor!Stuck, MotorP!Stuck
<1>2. \A moved : Motor!check_distance(moved) = MotorP!check_distance(moved)
  BY <1>1, Zenon DEF Motor!check_distance, MotorP!check_distance
<1>3. \A state, percent : Motor!motors_control(state, percent) = MotorP!motors_control(state, percent)
  BY SameHelpers, Zenon DEF Motor!motors_control, MotorP!motors_control
<1>4. Motor!ReceiveDistance = MotorP!ReceiveDistance
  BY Zenon DEF Motor!ReceiveDistance, MotorP!ReceiveDistance
<1>5. \A d : Motor!Sleep(d) = MotorP!Sleep(d)
  BY Zenon DEF Motor!Sleep, MotorP!Sleep
<1>6. Motor!DriveTurn = MotorP!DriveTurn
  BY SameHelpers, <1>1, <1>2, <1>3, <1>4, <1>5, Zenon DEF Motor!DriveTurn, MotorP!DriveTurn
<1>7. Motor!RotateBegin = MotorP!RotateBegin
  BY SameHelpers, <1>1, <1>2, <1>3, <1>4, <1>5, Zenon DEF Motor!RotateBegin, MotorP!RotateBegin
<1>8. Motor!RotateEnd = MotorP!RotateEnd
  BY SameHelpers, <1>1, <1>2, <1>3, <1>4, <1>5, Zenon DEF Motor!RotateEnd, MotorP!RotateEnd
<1> QED
  BY <1>6, <1>7, <1>8, Zenon DEF Motor!MotorStep, MotorP!MotorStep

LEMMA SameMotor == Motor!Spec => MotorP!Spec
<1>1. Motor!Init => MotorP!Init
  BY DEF Motor!Init, MotorP!Init, Motor!Released, MotorP!Released, Motor!Pins, MotorP!Pins
<1>2. [Motor!Next]_(Motor!vars) => [MotorP!Next]_(MotorP!vars)
  BY SameMotorStep, Zenon
  DEF Motor!Next, MotorP!Next, Motor!NewReading, MotorP!NewReading,
      Motor!Advance, MotorP!Advance, Motor!ClockEnds, MotorP!ClockEnds,
      Motor!vars, MotorP!vars, Motor!motorVars, MotorP!motorVars
<1> QED
  BY <1>1, <1>2, PTL DEF Motor!Spec, MotorP!Spec

LEMMA SameReadOk == Distance!ReadOk = DistanceP!ReadOk
<1>1. \A queue, item : Distance!SendOrDrop(queue, item) = DistanceP!SendOrDrop(queue, item)
  BY DEF Distance!SendOrDrop, DistanceP!SendOrDrop
<1> QED
  BY <1>1 DEF Distance!ReadOk, DistanceP!ReadOk, Distance!sensorVars, DistanceP!sensorVars

LEMMA SameDistance == Distance!Spec => DistanceP!Spec
<1>1. Distance!Init => DistanceP!Init
  BY DEF Distance!Init, DistanceP!Init
<1>2. /\ Distance!Ask = DistanceP!Ask /\ Distance!BeginRead = DistanceP!BeginRead
      /\ Distance!ReadFailed = DistanceP!ReadFailed /\ Distance!NextTurn = DistanceP!NextTurn
  BY Zenon
  DEF Distance!Ask, DistanceP!Ask, Distance!BeginRead, DistanceP!BeginRead,
      Distance!ReadFailed, DistanceP!ReadFailed, Distance!NextTurn, DistanceP!NextTurn,
      Distance!sensorVars, DistanceP!sensorVars, Distance!queueVars, DistanceP!queueVars
<1>3. Distance!SensorByte = DistanceP!SensorByte
  BY Zenon
  DEF Distance!SensorByte, DistanceP!SensorByte, Distance!High, DistanceP!High,
      Distance!Low, DistanceP!Low, Distance!queueVars, DistanceP!queueVars
<1>4. /\ Distance!MotorTakes = DistanceP!MotorTakes /\ Distance!OledTakes = DistanceP!OledTakes
      /\ Distance!Advance = DistanceP!Advance
  BY Zenon
  DEF Distance!MotorTakes, DistanceP!MotorTakes, Distance!OledTakes, DistanceP!OledTakes,
      Distance!Advance, DistanceP!Advance, Distance!MayAdvanceTo, DistanceP!MayAdvanceTo,
      Distance!distanceVars, DistanceP!distanceVars, Distance!sensorVars, DistanceP!sensorVars,
      Distance!queueVars, DistanceP!queueVars
<1>5. [Distance!Next]_(Distance!vars) => [DistanceP!Next]_(DistanceP!vars)
  BY SameReadOk, <1>2, <1>3, <1>4, Zenon
  DEF Distance!Next, DistanceP!Next, Distance!DistanceStep, DistanceP!DistanceStep,
      Distance!ClockEnds, DistanceP!ClockEnds, Distance!vars, DistanceP!vars,
      Distance!distanceVars, DistanceP!distanceVars, Distance!sensorVars, DistanceP!sensorVars,
      Distance!queueVars, DistanceP!queueVars
<1> QED
  BY <1>1, <1>5, PTL DEF Distance!Spec, DistanceP!Spec

-----------------------------------------------------------------------------
(* To uart_task, motor_task is what its own module describes: something    *)
(* that takes readings from the front of q_distance_pid.                   *)
THEOREM DistanceImplementation == Spec => DistanceSpec
<1>1. Init => Distance!Init
  BY DEF Init
<1>2. ASSUME [Next]_vars PROVE [Distance!Next]_(Distance!vars)
  <2>1. CASE MotorStep
    <3>1. UNCHANGED <<now, distanceVars, q_distance>>
      BY <2>1
      DEF MotorStep, Motor!MotorStep, Motor!DriveTurn, Motor!RotateBegin, Motor!RotateEnd
    <3>2. \/ q_distance_pid # <<>> /\ q_distance_pid' = Tail(q_distance_pid)
          \/ UNCHANGED q_distance_pid
      BY <2>1
      DEF MotorStep, Motor!MotorStep, Motor!DriveTurn, Motor!RotateBegin,
        Motor!RotateEnd, Motor!ReceiveDistance
    <3> QED
      BY <3>1, <3>2
      DEF distanceVars, Distance!Next, Distance!MotorTakes, Distance!vars,
        Distance!distanceVars, Distance!sensorVars, Distance!queueVars
  <2>2. CASE DistanceStep
    BY <2>2 DEF DistanceStep, Distance!Next
  <2>3. CASE Advance
    BY <2>3
    DEF Advance, Distance!Next, Distance!Advance, distanceVars,
      Distance!distanceVars, Distance!sensorVars, Distance!queueVars
  <2>4. CASE UNCHANGED vars
    BY <2>4
    DEF vars, distanceVars, Distance!vars, Distance!distanceVars, Distance!sensorVars,
      Distance!queueVars
  <2> QED
    BY <1>2, <2>1, <2>2, <2>3, <2>4 DEF Next, ClockEnds
<1> QED
  BY <1>1, <1>2, PTL DEF Spec, DistanceSpec, Distance!Spec

(* To motor_task, uart_task is something that appends distances the sensor *)
(* can report while there is room: that no other value reaches it is what  *)
(* is proved of uart_task alone.                                           *)
THEOREM MotorImplementation == Spec => MotorSpec
<1>1. Init => Motor!Init
  BY DEF Init
<1>2. Spec => [][DistanceP!ReadOk => distance_mm' \in Readings]_(DistanceP!vars)
  BY DistanceImplementation, SameDistance, DistanceP!SendsReadings, DistanceAssumed, PTL
  DEF DistanceSpec
<1>3. ASSUME [Next]_vars, [DistanceP!ReadOk => distance_mm' \in Readings]_(DistanceP!vars)
      PROVE  [Motor!Next]_(Motor!vars)
  <2>1. CASE MotorStep
    BY <2>1 DEF MotorStep, Motor!Next
  <2>2. CASE DistanceStep
    <3>1. UNCHANGED <<now, motorVars>>
      BY <2>2
      DEF DistanceStep, Distance!DistanceStep, Distance!Ask, Distance!BeginRead,
        Distance!ReadOk, Distance!ReadFailed, Distance!NextTurn, Distance!SensorByte,
        Distance!OledTakes
    <3>2. CASE Distance!ReadOk
      <4>1. distance_mm' \in Readings
        <5>1. upc' # upc
          BY <3>2 DEF Distance!ReadOk
        <5>2. ~UNCHANGED DistanceP!vars
          BY <5>1 DEF DistanceP!vars, DistanceP!distanceVars
        <5> QED
          BY <1>3, <3>2, <5>2, SameReadOk
      <4>2. CASE Len(q_distance_pid) < QueueLength
        <5>1. Motor!NewReading(distance_mm')
          BY <3>1, <3>2, <4>2
          DEF Distance!ReadOk, Distance!SendOrDrop, Motor!NewReading, motorVars,
            Motor!motorVars
        <5> QED
          BY <4>1, <5>1 DEF Motor!Next
      <4>3. CASE ~(Len(q_distance_pid) < QueueLength)
        <5>1. UNCHANGED q_distance_pid
          BY <3>2, <4>3 DEF Distance!ReadOk, Distance!SendOrDrop
        <5> QED
          BY <3>1, <5>1 DEF motorVars, Motor!vars, Motor!motorVars
      <4> QED
        BY <4>2, <4>3
    <3>3. CASE ~Distance!ReadOk
      <4>1. UNCHANGED q_distance_pid
        BY <2>2, <3>3
        DEF DistanceStep, Distance!DistanceStep, Distance!Ask, Distance!BeginRead,
          Distance!ReadFailed, Distance!NextTurn, Distance!SensorByte,
          Distance!OledTakes, Distance!queueVars
      <4> QED
        BY <3>1, <4>1 DEF motorVars, Motor!vars, Motor!motorVars
    <3> QED
      BY <3>2, <3>3
  <2>3. CASE Advance
    BY <2>3 DEF Advance, Motor!Next, Motor!Advance, motorVars, Motor!motorVars
  <2>4. CASE UNCHANGED vars
    BY <2>4 DEF vars, motorVars, Motor!vars, Motor!motorVars
  <2> QED
    BY <1>3, <2>1, <2>2, <2>3, <2>4 DEF Next, ClockEnds
<1> QED
  BY <1>1, <1>2, <1>3, PTL DEF Spec, MotorSpec, Motor!Spec

-----------------------------------------------------------------------------
(* What the proofs of each task alone say of its clocks.                   *)
Clocks ==
  /\ now \in Nat /\ wake \in Nat /\ uwake \in Nat
  /\ prev_time \in Nat /\ curr_time \in Nat
  /\ q_distance_pid \in Seq(Readings)
  /\ now <= wake + Lateness /\ prev_time <= now /\ curr_time <= now
  /\ pc \in {"loop", "rotating"}
  /\ Main_motors_state \in {"FORWARD_BACKWARD", "ROTATE"}
  /\ pc = "rotating" =>
       /\ Main_motors_state = "ROTATE" /\ curr_time <= prev_time
       /\ wake <= prev_time + LoopDelay + Lateness + RotateDelay

LEMMA Delays ==
  /\ LoopDelay \in Nat \ {0} /\ RotateDelay \in Nat /\ Lateness \in Nat
  /\ ReadDelay \in Nat /\ PauseDelay \in Nat /\ QueueLength \in Nat
  /\ SendGap \in Nat /\ LongestTurn \in Nat \ {0} /\ LongestGap \in Nat
  /\ Clock \subseteq Nat /\ BootTimes \subseteq Clock
BY DriveAssumption
DEF DriveAssumption, Motor!MotorAssumption, Distance!DistanceAssumption,
    SendGap, LongestTurn, LongestGap

LEMMA ClocksAlways == Spec => []Clocks
<1>1. ASSUME MotorP!IInv, DistanceP!IInv PROVE Clocks
  <2>1. /\ MotorP!TypeOK /\ MotorP!Clocks /\ MotorP!Rotating
    BY <1>1 DEF MotorP!IInv
  <2>2. uwake \in Nat
    BY <1>1 DEF DistanceP!IInv, DistanceP!Types
  <2>3. now \in Nat
    BY <2>1, Delays DEF MotorP!TypeOK
  <2> QED
    BY <2>1, <2>2, <2>3 DEF MotorP!TypeOK, MotorP!Clocks, MotorP!Rotating, Clocks
<1>2. Spec => []MotorP!IInv
  BY MotorImplementation, SameMotor, MotorP!IInvAlways, MotorAssumed, PTL DEF MotorSpec
<1>3. Spec => []DistanceP!IInv
  BY DistanceImplementation, SameDistance, DistanceP!IInvAlways, DistanceAssumed, PTL
  DEF DistanceSpec
<1> QED
  BY <1>1, <1>2, <1>3, PTL

-----------------------------------------------------------------------------
(* The instants of the readings in the queue, each at least SendGap after  *)
(* the one before it, and when the next can follow in each place of        *)
(* uart_task's turn.                                                       *)
Sendings ==
  /\ sentAt \in Seq(Nat) /\ Len(sentAt) = Len(q_distance_pid)
  /\ \A i \in 1..Len(sentAt) : sentAt[i] <= now
  /\ \A i, j \in 1..Len(sentAt) : i <= j => sentAt[j] >= sentAt[i] + (j - i) * SendGap

NextSending ==
  \A i \in 1..Len(sentAt) :
    /\ upc = "pause" => uwake >= sentAt[i] + PauseDelay
    /\ upc = "ask" => now >= sentAt[i] + PauseDelay
    /\ upc = "wait" => uwake >= sentAt[i] + SendGap
    /\ upc = "read" => now >= sentAt[i] + SendGap

(* How a step changes the history: it stays, its first instant is taken,   *)
(* or the present one is appended.                                         *)
Kept == sentAt' = sentAt /\ Len(q_distance_pid') = Len(q_distance_pid)

Taken ==
  /\ q_distance_pid # <<>> /\ q_distance_pid' = Tail(q_distance_pid)
  /\ sentAt' = Tail(sentAt)

Sent ==
  /\ Len(q_distance_pid) < QueueLength
  /\ q_distance_pid' = Append(q_distance_pid, distance_mm')
  /\ Len(q_distance_pid') = Len(q_distance_pid) + 1
  /\ sentAt' = Append(sentAt, now)

LEMMA TakenOrKept ==
  ASSUME Clocks, RecordSending, Motor!ReceiveDistance
  PROVE  Taken \/ (Kept /\ q_distance_pid = <<>>)
<1>1. q_distance_pid \in Seq(Readings)
  BY DEF Clocks
<1>2. CASE q_distance_pid # <<>> /\ q_distance_pid' = Tail(q_distance_pid)
  <2>1. Len(q_distance_pid') = Len(q_distance_pid) - 1 /\ Len(q_distance_pid) \in Nat
    BY <1>1, <1>2, HeadTailProperties, LenProperties
  <2> QED
    BY <1>2, <2>1 DEF RecordSending, Taken
<1>3. CASE q_distance_pid = <<>> /\ q_distance_pid' = q_distance_pid
  BY <1>1, <1>3 DEF RecordSending, Kept
<1> QED
  BY <1>2, <1>3 DEF Motor!ReceiveDistance

LEMMA SentOrKept ==
  ASSUME Clocks, RecordSending, Distance!ReadOk
  PROVE  Sent \/ (Kept /\ ~(Len(q_distance_pid) < QueueLength))
<1>1. Len(q_distance_pid) \in Nat
  BY DEF Clocks
<1>2. CASE Len(q_distance_pid) < QueueLength
  <2>1. q_distance_pid' = Append(q_distance_pid, distance_mm')
    BY <1>2 DEF Distance!ReadOk, Distance!SendOrDrop
  <2>2. Len(q_distance_pid') = Len(q_distance_pid) + 1
    <3>1. q_distance_pid \in Seq(Readings \cup {distance_mm'})
      BY DEF Clocks
    <3> QED
      BY <2>1, <3>1, AppendProperties
  <2> QED
    BY <1>1, <1>2, <2>1, <2>2 DEF RecordSending, Sent
<1>3. CASE ~(Len(q_distance_pid) < QueueLength)
  <2>1. q_distance_pid' = q_distance_pid
    BY <1>3 DEF Distance!ReadOk, Distance!SendOrDrop
  <2> QED
    BY <1>1, <1>3, <2>1 DEF RecordSending, Kept
<1> QED
  BY <1>2, <1>3

LEMMA SameQueue ==
  ASSUME Clocks, RecordSending, UNCHANGED q_distance_pid
  PROVE  Kept
<1>1. Len(q_distance_pid) \in Nat /\ q_distance_pid' = q_distance_pid
  BY DEF Clocks
<1> QED
  BY <1>1 DEF RecordSending, Kept

LEMMA DistanceHistory ==
  ASSUME Clocks, RecordSending, DistanceStep
  PROVE  Kept \/ (Sent /\ Distance!ReadOk)
<1>1. CASE Distance!ReadOk
  BY <1>1, SentOrKept
<1>2. CASE ~Distance!ReadOk
  BY <1>2, SameQueue
  DEF DistanceStep, Distance!DistanceStep, Distance!Ask, Distance!BeginRead,
    Distance!ReadFailed, Distance!NextTurn, Distance!SensorByte,
    Distance!OledTakes, Distance!queueVars
<1> QED
  BY <1>1, <1>2

LEMMA HistoryStep ==
  ASSUME Clocks, [Next]_vars
  PROVE  Kept \/ Taken \/ (Sent /\ Distance!ReadOk)
<1>1. CASE MotorStep /\ RecordSending
  BY <1>1, SameQueue, TakenOrKept
  DEF MotorStep, Motor!MotorStep, Motor!DriveTurn, Motor!RotateBegin, Motor!RotateEnd
<1>2. CASE Advance /\ RecordSending
  BY <1>2, SameQueue DEF Advance
<1>3. CASE UNCHANGED vars
  BY <1>3 DEF vars, Kept
<1> QED
  BY <1>1, <1>2, <1>3, DistanceHistory DEF Next, ClockEnds

(* The first instant taken: the others move up by one place.               *)
LEMMA TakenMovesUp ==
  ASSUME Clocks, Sendings, Taken
  PROVE  /\ sentAt' \in Seq(Nat) /\ sentAt # <<>>
         /\ Len(sentAt') = Len(sentAt) - 1 /\ Len(sentAt') = Len(q_distance_pid')
         /\ \A i \in 1..Len(sentAt') : sentAt'[i] = sentAt[i + 1]
<1>1. q_distance_pid \in Seq(Readings) /\ sentAt \in Seq(Nat)
      /\ Len(sentAt) = Len(q_distance_pid)
  BY DEF Clocks, Sendings
<1>2. sentAt # <<>>
  <2>1. Len(q_distance_pid) # 0
    BY <1>1, EmptySeq DEF Taken
  <2> QED
    BY <1>1, <2>1, EmptySeq
<1>3. Len(Tail(q_distance_pid)) = Len(q_distance_pid) - 1
  BY <1>1, HeadTailProperties DEF Taken
<1> QED
  BY <1>1, <1>2, <1>3, HeadTailProperties DEF Taken

(* The present instant appended.                                           *)
LEMMA SentIsLast ==
  ASSUME Clocks, Sendings, Sent
  PROVE  /\ sentAt' \in Seq(Nat)
         /\ Len(sentAt') = Len(sentAt) + 1 /\ Len(sentAt') = Len(q_distance_pid')
         /\ \A i \in 1..Len(sentAt) : sentAt'[i] = sentAt[i]
         /\ sentAt'[Len(sentAt) + 1] = now
<1>1. now \in Nat /\ sentAt \in Seq(Nat) /\ Len(sentAt) = Len(q_distance_pid)
  BY DEF Clocks, Sendings
<1> QED
  BY <1>1, AppendProperties DEF Sent

LEMMA SendingsStep ==
  ASSUME Clocks, Clocks', Sendings, NextSending, [Next]_vars
  PROVE  Sendings'
<1>1. /\ now \in Nat /\ now' \in Nat /\ now <= now' /\ SendGap \in Nat
      /\ sentAt \in Seq(Nat) /\ Len(sentAt) \in Nat
      /\ \A i \in 1..Len(sentAt) : sentAt[i] \in Nat /\ sentAt[i] <= now'
  <2>1. now <= now'
    BY Delays
    DEF Clocks, Next, ClockEnds, vars, MotorStep, Motor!MotorStep, Motor!DriveTurn,
      Motor!RotateBegin, Motor!RotateEnd, DistanceStep, Distance!DistanceStep,
      Distance!Ask, Distance!BeginRead, Distance!ReadOk, Distance!ReadFailed,
      Distance!NextTurn, Distance!SensorByte, Distance!OledTakes, Advance
  <2>2. \A i \in 1..Len(sentAt) : sentAt[i] \in Nat
    BY ElementOfSeq DEF Sendings
  <2> QED
    BY <2>1, <2>2, Delays DEF Clocks, Sendings
<1>2. CASE Kept
  <2>1. sentAt' = sentAt /\ Len(sentAt') = Len(q_distance_pid')
    BY <1>2 DEF Kept, Sendings
  <2>2. \A i \in 1..Len(sentAt') : sentAt'[i] <= now'
    BY <1>1, <2>1
  <2> QED
    BY <2>1, <2>2, Zenon DEF Sendings
<1>3. CASE Taken
  <2>1. \A i \in 1..Len(sentAt') : i + 1 \in 1..Len(sentAt) /\ sentAt'[i] = sentAt[i + 1]
    BY <1>1, <1>3, TakenMovesUp
  <2>2. \A i \in 1..Len(sentAt') : sentAt'[i] <= now'
    BY <1>1, <2>1
  <2>3. \A i, j \in 1..Len(sentAt') :
          i <= j => sentAt'[j] >= sentAt'[i] + (j - i) * SendGap
    <3> SUFFICES ASSUME NEW i \in 1..Len(sentAt'), NEW j \in 1..Len(sentAt'), i <= j
                 PROVE  sentAt'[j] >= sentAt'[i] + (j - i) * SendGap
      OBVIOUS
    <3>1. /\ i + 1 \in 1..Len(sentAt) /\ j + 1 \in 1..Len(sentAt) /\ i + 1 <= j + 1
          /\ sentAt'[i] = sentAt[i + 1] /\ sentAt'[j] = sentAt[j + 1]
      BY <2>1
    <3>2. (j + 1) - (i + 1) = j - i
      OBVIOUS
    <3> QED
      BY <3>1, <3>2 DEF Sendings
  <2> QED
    BY <1>3, <2>2, <2>3, TakenMovesUp DEF Sendings
<1>4. CASE Sent /\ Distance!ReadOk
  <2> DEFINE n == Len(sentAt) + 1
  <2>1. Len(sentAt') = n /\ sentAt'[n] = now /\ \A i \in 1..Len(sentAt) : sentAt'[i] = sentAt[i]
    BY <1>4, SentIsLast
  <2>2. \A i \in 1..Len(sentAt) : sentAt[i] \in Nat /\ sentAt[i] + SendGap <= now
    BY <1>1, <1>4 DEF NextSending, Distance!ReadOk
  <2>3. \A i \in 1..Len(sentAt) : now >= sentAt[i] + (n - i) * SendGap
    <3> SUFFICES ASSUME NEW i \in 1..Len(sentAt)
                 PROVE  now >= sentAt[i] + (n - i) * SendGap
      OBVIOUS
    <3>1. /\ Len(sentAt) \in 1..Len(sentAt) /\ i <= Len(sentAt)
          /\ sentAt[i] \in Nat /\ sentAt[Len(sentAt)] \in Nat
      BY <1>1, <2>2
    <3>2. sentAt[Len(sentAt)] >= sentAt[i] + (Len(sentAt) - i) * SendGap
      BY <3>1 DEF Sendings
    <3>3. now >= sentAt[Len(sentAt)] + SendGap
      BY <2>2, <3>1
    <3>4. (n - i) * SendGap = (Len(sentAt) - i) * SendGap + SendGap
      BY <1>1
    <3> QED
      BY <1>1, <3>1, <3>2, <3>3, <3>4
  <2>4. ASSUME NEW i \in 1..n, NEW j \in 1..n, i <= j
        PROVE  sentAt'[j] >= sentAt'[i] + (j - i) * SendGap
    <3>1. CASE j = n /\ i = n
      <4>1. (j - i) * SendGap = 0
        BY <1>1, <3>1
      <4> QED
        BY <1>1, <2>1, <3>1, <4>1
    <3>2. CASE j = n /\ i # n
      <4>1. i \in 1..Len(sentAt)
        BY <1>1, <3>2
      <4> QED
        BY <2>1, <2>3, <3>2, <4>1
    <3>3. CASE j # n
      <4>1. i \in 1..Len(sentAt) /\ j \in 1..Len(sentAt)
        BY <1>1, <2>4, <3>3
      <4> QED
        BY <2>1, <2>4, <4>1 DEF Sendings
    <3> QED
      BY <3>1, <3>2, <3>3
  <2>5. \A i \in 1..n : sentAt'[i] <= now'
    BY <1>1, <2>1
  <2> HIDE DEF n
  <2> QED
    BY <1>4, <2>1, <2>4, <2>5, SentIsLast DEF Sendings
<1> QED
  BY <1>2, <1>3, <1>4, HistoryStep

LEMMA NextSendingStep ==
  ASSUME Clocks, Clocks', Sendings, NextSending, [Next]_vars
  PROVE  NextSending'
<1>1. \A i \in 1..Len(sentAt') :
        \/ \E k \in 1..Len(sentAt) : sentAt'[i] = sentAt[k]
        \/ Distance!ReadOk /\ sentAt'[i] = now
  <2>1. Len(sentAt) \in Nat
    BY DEF Sendings
  <2>2. CASE Kept
    BY <2>2 DEF Kept
  <2>3. CASE Taken
    <3>1. \A i \in 1..Len(sentAt') : i + 1 \in 1..Len(sentAt) /\ sentAt'[i] = sentAt[i + 1]
      BY <2>1, <2>3, TakenMovesUp
    <3> QED
      BY <3>1
  <2>4. CASE Sent /\ Distance!ReadOk
    BY <2>1, <2>4, SentIsLast
  <2> QED
    BY <2>2, <2>3, <2>4, HistoryStep
<1> SUFFICES ASSUME NEW i \in 1..Len(sentAt')
             PROVE  /\ upc' = "pause" => uwake' >= sentAt'[i] + PauseDelay
                    /\ upc' = "ask" => now' >= sentAt'[i] + PauseDelay
                    /\ upc' = "wait" => uwake' >= sentAt'[i] + SendGap
                    /\ upc' = "read" => now' >= sentAt'[i] + SendGap
  BY DEF NextSending
<1> DEFINE t == sentAt'[i]
<1>2. /\ now \in Nat /\ now' \in Nat /\ uwake \in Nat /\ uwake' \in Nat
      /\ ReadDelay \in Nat /\ PauseDelay \in Nat /\ SendGap = ReadDelay + PauseDelay
  BY Delays DEF Clocks, SendGap
<1>3. /\ t \in Nat /\ t <= now
      /\ \/ Distance!ReadOk /\ t = now
         \/ /\ upc = "pause" => uwake >= t + PauseDelay
            /\ upc = "ask" => now >= t + PauseDelay
            /\ upc = "wait" => uwake >= t + SendGap
            /\ upc = "read" => now >= t + SendGap
  <2>1. \A k \in 1..Len(sentAt) : sentAt[k] \in Nat /\ sentAt[k] <= now
    BY ElementOfSeq DEF Sendings
  <2>2. CASE Distance!ReadOk /\ t = now
    BY <1>2, <2>2
  <2>3. CASE \E k \in 1..Len(sentAt) : t = sentAt[k]
    <3>1. PICK k \in 1..Len(sentAt) : t = sentAt[k]
      BY <2>3
    <3> HIDE DEF t
    <3> QED
      BY <2>1, <3>1 DEF NextSending
  <2> QED
    BY <1>1, <2>2, <2>3
<1> HIDE DEF t
<1> SUFFICES /\ upc' = "pause" => uwake' >= t + PauseDelay
             /\ upc' = "ask" => now' >= t + PauseDelay
             /\ upc' = "wait" => uwake' >= t + SendGap
             /\ upc' = "read" => now' >= t + SendGap
  BY DEF t
<1>4. CASE Distance!ReadOk
  BY <1>2, <1>3, <1>4 DEF Distance!ReadOk
<1>5. CASE MotorStep \/ UNCHANGED vars \/ Distance!OledTakes
  <2>1. UNCHANGED <<now, upc, uwake>>
    BY <1>5
    DEF vars, distanceVars, MotorStep, Motor!MotorStep, Motor!DriveTurn,
      Motor!RotateBegin, Motor!RotateEnd, Distance!OledTakes, Distance!distanceVars
  <2>2. ~Distance!ReadOk
    BY <2>1 DEF Distance!ReadOk
  <2> QED
    BY <1>3, <2>1, <2>2
<1>6. CASE Distance!Ask \/ Distance!BeginRead \/ Distance!ReadFailed \/ Distance!NextTurn
  BY <1>2, <1>3, <1>6
  DEF Distance!Ask, Distance!BeginRead, Distance!ReadFailed, Distance!NextTurn, Distance!ReadOk
<1>7. CASE Distance!SensorByte
  BY <1>2, <1>3, <1>7 DEF Distance!SensorByte, Distance!ReadOk
<1>8. CASE Advance
  <2>1. now < now' /\ UNCHANGED <<upc, uwake>>
    BY <1>8, Delays DEF Advance, distanceVars
  <2>2. ~Distance!ReadOk
    BY <2>1 DEF Distance!ReadOk
  <2> QED
    BY <1>2, <1>3, <2>1, <2>2
<1> QED
  BY <1>4, <1>5, <1>6, <1>7, <1>8
  DEF Next, ClockEnds, DistanceStep, Distance!DistanceStep

LEMMA SendingsAlways == Spec => [](Sendings /\ NextSending)
<1>1. Init => Sendings /\ NextSending
  <2> SUFFICES ASSUME Init PROVE Sendings /\ NextSending
    OBVIOUS
  <2>1. sentAt = <<>> /\ q_distance_pid = <<>>
    BY DEF Init, Motor!Init
  <2> QED
    BY <2>1 DEF Sendings, NextSending
<1> QED
  BY <1>1, ClocksAlways, SendingsStep, NextSendingStep, PTL DEF Spec

-----------------------------------------------------------------------------
(* How old the first reading of the queue can be at the next turn.         *)
Age == wake + Lateness - sentAt[1]

(* Driving as always: at most one reading waits, sent since the last turn. *)
Quiet == Len(sentAt) <= 1 /\ (sentAt # <<>> => Age <= LongestTurn)

(* The turn number k after a rotation, when its backlog is still there:    *)
(* each turn has made the first reading younger by the difference of the   *)
(* two periods, and prev_time is at most as old as those turns allow, so   *)
(* that the car can be found stuck again only when there is no backlog.    *)
WorkingOff(k) ==
  /\ sentAt # <<>>
  /\ Main_motors_state = "FORWARD_BACKWARD"
  /\ Age + k * (SendGap - LongestTurn) <= LongestGap
  /\ wake <= prev_time + LongestGap + LoopDelay + k * LongestTurn
  /\ curr_time + LoopDelay <= wake

Backlog ==
  /\ pc = "loop" =>
       /\ wake <= now + LoopDelay
       /\ Quiet \/ \E k \in Nat : WorkingOff(k)
  /\ pc = "rotating" =>
       /\ wake <= now + RotateDelay
       /\ \A i \in 1..Len(sentAt) : wake <= sentAt[i] + RotateDelay

-----------------------------------------------------------------------------
(* A turn later the product has grown by one factor.                       *)
LEMMA OneMore ==
  ASSUME NEW k \in Nat, NEW d \in Int
  PROVE  (k + 1) * d = k * d + d
OBVIOUS

(* With what fits between two stalls the backlog is gone.                  *)
LEMMA EnoughTurns ==
  ASSUME NEW k \in Nat, Motor!StallWindow <= LongestGap + k * LongestTurn
  PROVE  LongestGap - SendGap < k * (SendGap - LongestTurn)
<1> DEFINE window == Motor!StallWindow - LongestGap
           rate == SendGap - LongestTurn
           turns == window \div LongestTurn
<1>1. /\ LongestGap \in Nat /\ SendGap \in Nat /\ LongestTurn \in Nat \ {0}
      /\ Motor!StallWindow \in Nat
  BY Delays DEF Motor!StallWindow, Motor!Second
<1>2. rate \in Nat /\ window \in Nat /\ LongestGap - SendGap < rate * turns
  BY <1>1, DriveAssumption
  DEF DriveAssumption, Motor!MotorAssumption, LongestGap
<1>3. turns <= k /\ turns \in Nat
  <2>1. window <= k * LongestTurn
    BY <1>1
  <2> HIDE DEF window
  <2> DEFINE t == LongestTurn
  <2>2. t \in Nat \ {0} /\ window \in Nat /\ window <= k * t
    BY <1>1, <1>2, <2>1
  <2> HIDE DEF t
  <2>3. window \div t <= k /\ window \div t \in Nat
    BY <2>2, SMT
  <2> QED
    BY <2>3 DEF t
<1> HIDE DEF turns, rate
<1>4. rate * turns <= k * rate
  BY <1>2, <1>3
<1>5. LongestGap - SendGap < k * rate
  BY <1>1, <1>2, <1>3, <1>4
<1> QED
  BY <1>5 DEF rate

LEMMA Instants ==
  ASSUME Clocks, Sendings
  PROVE  /\ now \in Nat /\ wake \in Nat /\ prev_time \in Nat /\ curr_time \in Nat
         /\ Len(sentAt) \in Nat
         /\ \A i \in 1..Len(sentAt) : sentAt[i] \in Nat /\ sentAt[i] <= now
         /\ sentAt = <<>> <=> Len(sentAt) = 0
         /\ sentAt = <<>> <=> q_distance_pid = <<>>
<1>1. sentAt \in Seq(Nat) /\ q_distance_pid \in Seq(Readings)
      /\ Len(sentAt) = Len(q_distance_pid)
  BY DEF Clocks, Sendings
<1>2. \A i \in 1..Len(sentAt) : sentAt[i] \in Nat
  BY <1>1, ElementOfSeq
<1>3. (sentAt = <<>> <=> Len(sentAt) = 0) /\ (q_distance_pid = <<>> <=> Len(q_distance_pid) = 0)
  BY <1>1, EmptySeq
<1> QED
  BY <1>1, <1>2, <1>3 DEF Clocks, Sendings

(* A step that leaves the history and motor_task alone.                    *)
LEMMA KeptKeepsBacklog ==
  ASSUME Clocks, Clocks', Sendings, Backlog, Kept,
         now <= now',
         UNCHANGED <<wake, pc, Main_motors_state, prev_time, curr_time>>
  PROVE  Backlog'
<1>1. now \in Nat /\ now' \in Nat /\ wake \in Nat /\ wake' \in Nat /\ wake' = wake
  BY DEF Clocks
<1> DEFINE later == now'
<1>7. later \in Nat /\ now <= later
  BY <1>1
<1>2. sentAt' = sentAt
  BY DEF Kept
<1>3. Quiet' <=> Quiet
  BY <1>2 DEF Quiet, Age
<1>4. \A k \in Nat : WorkingOff(k)' <=> WorkingOff(k)
  BY <1>2 DEF WorkingOff, Age
<1>5. CASE pc = "loop"
  <2>1. wake' <= now' + LoopDelay
    <3>1. wake <= now + LoopDelay
      BY <1>5 DEF Backlog
    <3>2. LoopDelay \in Nat
      BY Delays
    <3> HIDE DEF later
    <3>3. wake <= later + LoopDelay
      BY <1>7, <1>1, <3>1, <3>2
    <3> QED
      BY <1>1, <3>3, Zenon DEF later
  <2>2. Quiet' \/ \E k \in Nat : WorkingOff(k)'
    BY <1>3, <1>4, <1>5 DEF Backlog
  <2> QED
    BY <1>5, <2>1, <2>2 DEF Backlog
<1>6. CASE pc = "rotating"
  <2>1. wake' <= now' + RotateDelay
    <3>1. wake <= now + RotateDelay
      BY <1>6 DEF Backlog
    <3>2. RotateDelay \in Nat
      BY Delays
    <3> HIDE DEF later
    <3>3. wake <= later + RotateDelay
      BY <1>7, <1>1, <3>1, <3>2
    <3> QED
      BY <1>1, <3>3, Zenon DEF later
  <2> QED
    BY <1>2, <1>6, <2>1 DEF Backlog
<1> QED
  BY <1>5, <1>6 DEF Clocks

(* A reading is sent: to a queue that is empty, or with a backlog.         *)
LEMMA SendKeepsBacklog ==
  ASSUME Clocks, Clocks', Sendings, NextSending, Backlog, Sent, Distance!ReadOk,
         UNCHANGED motorVars
  PROVE  Backlog'
<1>1. /\ UNCHANGED <<now, wake, pc, Main_motors_state, prev_time, curr_time>>
      /\ now \in Nat /\ wake \in Nat /\ now <= wake + Lateness
      /\ Lateness \in Nat /\ LoopDelay \in Nat /\ RotateDelay \in Nat
      /\ SendGap \in Nat /\ LongestTurn = LoopDelay + Lateness /\ LongestTurn < SendGap
  BY Delays, DriveAssumption DEF Distance!ReadOk, motorVars, Clocks, DriveAssumption, LongestTurn
<1>2. /\ Len(sentAt') = Len(sentAt) + 1 /\ sentAt'[Len(sentAt) + 1] = now
      /\ \A i \in 1..Len(sentAt) : sentAt'[i] = sentAt[i]
      /\ sentAt' # <<>>
  BY SentIsLast, EmptySeq, Instants
<1>3. CASE pc = "rotating"
  <2>1. wake <= now + RotateDelay /\ \A i \in 1..Len(sentAt) : wake <= sentAt[i] + RotateDelay
    BY <1>3 DEF Backlog
  <2>2. \A i \in 1..Len(sentAt') : wake' <= sentAt'[i] + RotateDelay
    BY <1>1, <1>2, <2>1, Instants
  <2> QED
    BY <1>1, <1>3, <2>1, <2>2 DEF Backlog
<1>4. CASE pc = "loop" /\ sentAt = <<>>
  <2>1. Len(sentAt') = 1 /\ sentAt'[1] = now
    BY <1>2, <1>4, Instants
  <2>2. wake <= now + LoopDelay
    BY <1>4 DEF Backlog
  <2>3. Age' <= LongestTurn
    BY <1>1, <2>1, <2>2 DEF Age
  <2> QED
    BY <1>1, <1>4, <2>1, <2>2, <2>3 DEF Backlog, Quiet
<1>5. CASE pc = "loop" /\ sentAt # <<>>
  <2>1. 1 \in 1..Len(sentAt) /\ sentAt[1] \in Nat
    BY <1>5, Instants
  <2>2. sentAt[1] + SendGap <= now
    BY <2>1 DEF NextSending, Distance!ReadOk
  <2>3. ~Quiet
    BY <1>1, <1>5, <2>1, <2>2 DEF Quiet, Age
  <2>4. PICK k \in Nat : WorkingOff(k)
    BY <1>5, <2>3 DEF Backlog
  <2>5. WorkingOff(k)'
    BY <1>1, <1>2, <2>1, <2>4 DEF WorkingOff, Age
  <2> QED
    BY <1>1, <1>5, <2>5 DEF Backlog
<1> QED
  BY <1>3, <1>4, <1>5 DEF Clocks

(* A turn takes the only reading there is.                                 *)
LEMMA LastIsTaken ==
  ASSUME Clocks, Sendings, RecordSending, Motor!ReceiveDistance, Len(sentAt) <= 1
  PROVE  sentAt' = <<>> /\ Len(sentAt') = 0
<1>1. CASE Taken
  <2>1. sentAt' \in Seq(Nat) /\ Len(sentAt') = Len(sentAt) - 1 /\ sentAt # <<>>
    BY <1>1, TakenMovesUp
  <2>2. Len(sentAt') = 0
    BY <2>1, Instants
  <2> QED
    BY <2>1, <2>2, EmptySeq
<1>2. CASE Kept /\ sentAt = <<>>
  BY <1>2, Instants DEF Kept
<1> QED
  BY <1>1, <1>2, TakenOrKept, Instants

(* A turn of driving. It takes the first reading of a backlog, and cannot  *)
(* find the car stuck as long as a second one waits.                       *)
LEMMA DriveTurnKeepsBacklog ==
  ASSUME Clocks, Clocks', Sendings, Backlog, RecordSending, Motor!DriveTurn
  PROVE  Backlog'
<1>1. /\ now \in Nat /\ wake \in Nat /\ wake' \in Nat /\ now <= wake + Lateness
      /\ now' = now /\ now >= wake /\ wake' = now + LoopDelay
      /\ pc = "loop" /\ pc' = "loop"
      /\ Lateness \in Nat /\ LoopDelay \in Nat /\ SendGap \in Nat
      /\ LongestTurn = LoopDelay + Lateness /\ LongestTurn \in Nat /\ LongestGap \in Nat
  BY Delays DEF Motor!DriveTurn, Motor!Sleep, Clocks, LongestTurn
<1>2. Taken \/ (Kept /\ sentAt = <<>>)
  BY TakenOrKept, Instants DEF Motor!DriveTurn
<1>3. CASE Len(sentAt) <= 1
  <2>1. sentAt' = <<>> /\ Len(sentAt') = 0
    BY <1>3, LastIsTaken DEF Motor!DriveTurn
  <2>2. Quiet'
    BY <2>1 DEF Quiet
  <2> QED
    BY <1>1, <2>2 DEF Backlog
<1>4. CASE ~(Len(sentAt) <= 1)
  <2>1. Taken /\ Len(sentAt) >= 2
    BY <1>2, <1>4, Instants
  <2>2. /\ sentAt' # <<>> /\ sentAt'[1] = sentAt[2] /\ sentAt'[1] \in Nat
        /\ sentAt[1] \in Nat /\ sentAt[2] \in Nat
        /\ sentAt[2] >= sentAt[1] + SendGap
        /\ sentAt[2] <= now
    <3>1. 1 \in 1..Len(sentAt) /\ 2 \in 1..Len(sentAt)
      BY <2>1, Instants
    <3>2. sentAt[2] >= sentAt[1] + (2 - 1) * SendGap
      BY <3>1 DEF Sendings
    <3>3. (2 - 1) * SendGap = SendGap
      BY <1>1
    <3>4. /\ Len(sentAt') = Len(sentAt) - 1 /\ sentAt' \in Seq(Nat)
          /\ \A i \in 1..Len(sentAt') : sentAt'[i] = sentAt[i + 1]
      BY <2>1, TakenMovesUp
    <3>5. 1 \in 1..Len(sentAt') /\ Len(sentAt') # 0
      BY <2>1, <3>4, Instants
    <3>6. sentAt'[1] = sentAt[1 + 1]
      BY <3>4, <3>5
    <3> QED
      BY <3>1, <3>2, <3>3, <3>4, <3>5, <3>6, Instants, EmptySeq
  <2>3. PICK k \in Nat : WorkingOff(k)
    BY <1>1, <1>4 DEF Backlog, Quiet
  <2> DEFINE younger == k * (SendGap - LongestTurn)
             turns == k * LongestTurn
  <2>4. /\ Age + younger <= LongestGap
        /\ wake <= prev_time + LongestGap + LoopDelay + turns
        /\ curr_time + LoopDelay <= wake
        /\ younger \in Int /\ turns \in Nat
        /\ prev_time \in Nat /\ curr_time \in Nat
    BY <1>1, <2>3, Instants DEF WorkingOff
  <2>5. Age \in Int /\ Age >= SendGap
    BY <1>1, <2>2 DEF Age
  <2>6. ~Motor!Stuck
    <3> SUFFICES ASSUME Motor!Stuck PROVE FALSE
      OBVIOUS
    <3>1. curr_time - prev_time >= Motor!StallWindow
      BY <2>4 DEF Motor!Stuck, Motor!StallWindow, Motor!Second
    <3>2. Motor!StallWindow \in Nat
      BY DEF Motor!StallWindow, Motor!Second
    <3> HIDE DEF turns
    <3>3. Motor!StallWindow <= LongestGap + turns
      BY <1>1, <2>4, <3>1, <3>2
    <3>4. LongestGap - SendGap < younger
      BY <3>3, EnoughTurns DEF turns
    <3> HIDE DEF younger
    <3> QED
      BY <1>1, <2>4, <2>5, <3>4
  <2>7. /\ Main_motors_state' = "FORWARD_BACKWARD"
        /\ curr_time' = now /\ prev_time' \in {now, prev_time}
    BY <2>3, <2>6 DEF Motor!DriveTurn, Motor!check_distance, WorkingOff
  <2>8. /\ (k + 1) * (SendGap - LongestTurn) = younger + (SendGap - LongestTurn)
        /\ (k + 1) * LongestTurn = turns + LongestTurn
    BY <1>1, OneMore
  <2> HIDE DEF younger, turns
  <2> DEFINE age == Age'
             moved == prev_time'
  <2>9. Age' + (younger + (SendGap - LongestTurn)) <= LongestGap
    <3>1. age = now + LoopDelay + Lateness - sentAt[2]
      BY <1>1, <2>2, Zenon DEF Age
    <3> HIDE DEF age
    <3>2. age + SendGap - LongestTurn <= Age /\ age \in Int
      <4> DEFINE first == sentAt[1]
                 second == sentAt[2]
      <4>1. first \in Nat /\ second \in Nat /\ second >= first + SendGap
        BY <2>2
      <4>2. Age = wake + Lateness - first /\ age = now + LoopDelay + Lateness - second
        BY <3>1 DEF Age
      <4>3. now <= wake + Lateness
        BY <1>1
      <4> HIDE DEF first, second
      <4> QED
        BY <1>1, <4>1, <4>2, <4>3
    <3>3. age + (younger + (SendGap - LongestTurn)) <= LongestGap
      BY <1>1, <2>4, <2>5, <3>2
    <3> QED
      BY <3>3, Zenon DEF age
  <2>10. wake' <= prev_time' + LongestGap + LoopDelay + (turns + LongestTurn)
    <3>1. moved \in Nat /\ prev_time <= moved
      BY <1>1, <2>4, <2>7 DEF Clocks
    <3> HIDE DEF moved
    <3>2. now + LoopDelay <= moved + LongestGap + LoopDelay + (turns + LongestTurn)
      BY <1>1, <2>4, <3>1
    <3> QED
      BY <1>1, <3>2, Zenon DEF moved
  <2>11. curr_time' + LoopDelay <= wake'
    BY <1>1, <2>7
  <2>12. WorkingOff(k + 1)'
    BY <2>2, <2>7, <2>8, <2>9, <2>10, <2>11, Zenon DEF WorkingOff
  <2> QED
    BY <1>1, <2>12 DEF Backlog
<1> QED
  BY <1>3, <1>4

(* A rotation begins with an empty queue: the turn before it found the car *)
(* stuck when there was no backlog.                                        *)
LEMMA RotateBeginKeepsBacklog ==
  ASSUME Clocks, Sendings, Backlog, RecordSending, Motor!RotateBegin
  PROVE  Backlog'
<1>1. pc = "loop" /\ Main_motors_state = "ROTATE" /\ pc' = "rotating"
      /\ now' = now /\ wake' = now + RotateDelay
  BY DEF Motor!RotateBegin, Motor!Sleep
<1>2. Quiet
  BY <1>1 DEF Backlog, WorkingOff
<1>3. sentAt' = <<>> /\ Len(sentAt') = 0
  BY <1>2, LastIsTaken DEF Motor!RotateBegin, Quiet
<1>4. wake' <= now' + RotateDelay
  BY <1>1, Delays DEF Clocks
<1> QED
  BY <1>1, <1>3, <1>4 DEF Backlog

(* After it everything in the queue has been sent since it began.          *)
LEMMA RotateEndKeepsBacklog ==
  ASSUME Clocks, Clocks', Sendings, Backlog, Kept, Motor!RotateEnd
  PROVE  Backlog'
<1>1. /\ now \in Nat /\ wake \in Nat /\ wake' \in Nat
      /\ prev_time \in Nat /\ curr_time \in Nat
      /\ LoopDelay \in Nat /\ RotateDelay \in Nat /\ Lateness \in Nat
      /\ LongestTurn \in Nat /\ SendGap \in Nat
      /\ LongestGap = RotateDelay + LoopDelay + 2 * Lateness
      /\ pc = "rotating" /\ pc' = "loop" /\ Main_motors_state' = "FORWARD_BACKWARD"
      /\ now' = now /\ wake' = now + LoopDelay
      /\ now <= wake + Lateness /\ curr_time <= prev_time
      /\ wake <= prev_time + LoopDelay + Lateness + RotateDelay
  BY Delays DEF Clocks, Motor!RotateEnd, Motor!Sleep, LongestGap
<1>2. ~Motor!Stuck
  BY <1>1 DEF Motor!Stuck, Motor!Second
<1>3. curr_time' = now /\ prev_time' \in {now, prev_time}
  BY <1>2 DEF Motor!RotateEnd, Motor!check_distance
<1>4. sentAt' = sentAt
  BY DEF Kept
<1>5. wake' <= now' + LoopDelay
  BY <1>1
<1>6. CASE sentAt = <<>>
  BY <1>1, <1>4, <1>5, <1>6, Instants DEF Backlog, Quiet
<1>7. CASE sentAt # <<>>
  <2> DEFINE first == sentAt[1]
             moved == prev_time'
             age == Age'
  <2>1. first \in Nat /\ wake <= first + RotateDelay
    BY <1>1, <1>7, Instants DEF Backlog
  <2>2. moved \in Nat /\ (prev_time <= moved \/ moved = now)
    BY <1>1, <1>3
  <2>3. age = now + LoopDelay + Lateness - first
    BY <1>1, <1>4, Zenon DEF Age
  <2>4. 0 * (SendGap - LongestTurn) = 0 /\ 0 * LongestTurn = 0
    BY <1>1
  <2>5. curr_time' + LoopDelay <= wake'
    BY <1>1, <1>3
  <2> HIDE DEF first, moved, age
  <2>6. age + 0 <= LongestGap
    BY <1>1, <2>1, <2>3
  <2>7. now + LoopDelay <= moved + LongestGap + LoopDelay + 0
    BY <1>1, <2>2
  <2>8. WorkingOff(0)'
    BY <1>1, <1>4, <1>7, <2>4, <2>5, <2>6, <2>7, Zenon DEF WorkingOff, age, moved
  <2> QED
    BY <1>1, <1>5, <2>8 DEF Backlog
<1> QED
  BY <1>6, <1>7

LEMMA BacklogStep ==
  ASSUME Clocks, Clocks', Sendings, NextSending, Backlog, [Next]_vars
  PROVE  Backlog'
<1>1. now \in Nat /\ now' \in Nat
  BY DEF Clocks
<1>2. CASE MotorStep /\ RecordSending
  <2>1. CASE Motor!RotateEnd
    <3>1. Kept
      BY <1>2, <2>1, SameQueue DEF Motor!RotateEnd
    <3> QED
      BY <2>1, <3>1, RotateEndKeepsBacklog
  <2> QED
    BY <1>2, <2>1, DriveTurnKeepsBacklog, RotateBeginKeepsBacklog
    DEF MotorStep, Motor!MotorStep
<1>3. CASE DistanceStep /\ RecordSending
  <2>1. UNCHANGED motorVars /\ now' = now
    BY <1>3
    DEF DistanceStep, Distance!DistanceStep, Distance!Ask, Distance!BeginRead,
      Distance!ReadOk, Distance!ReadFailed, Distance!NextTurn, Distance!SensorByte,
      Distance!OledTakes
  <2>2. CASE Sent /\ Distance!ReadOk
    BY <2>1, <2>2, SendKeepsBacklog
  <2>3. CASE Kept
    BY <1>1, <2>1, <2>3, KeptKeepsBacklog DEF motorVars
  <2> QED
    BY <1>3, <2>2, <2>3, DistanceHistory
<1>4. CASE Advance /\ RecordSending
  <2>1. Kept /\ UNCHANGED motorVars
    BY <1>4, SameQueue DEF Advance
  <2>2. now < now'
    BY <1>4 DEF Advance
  <2>3. now <= now'
    BY <1>1, <2>2
  <2> QED
    BY <2>1, <2>3, KeptKeepsBacklog DEF motorVars
<1>5. CASE UNCHANGED vars
  <2>1. Kept /\ UNCHANGED motorVars /\ now <= now'
    BY <1>1, <1>5 DEF vars, Kept
  <2> QED
    BY <2>1, KeptKeepsBacklog DEF motorVars
<1> QED
  BY <1>2, <1>3, <1>4, <1>5 DEF Next, ClockEnds

Timing == Clocks /\ Sendings /\ NextSending /\ Backlog

LEMMA TimingAlways == Spec => []Timing
<1>1. ASSUME Init, Clocks PROVE Backlog
  <2>1. sentAt = <<>> /\ pc = "loop" /\ wake = now /\ now \in Nat
    BY <1>1 DEF Init, Motor!Init, Clocks
  <2>2. wake <= now + LoopDelay
    BY <2>1, Delays
  <2> QED
    BY <2>1, <2>2 DEF Backlog, Quiet
<1> QED
  BY <1>1, ClocksAlways, SendingsAlways, BacklogStep, PTL DEF Spec, Timing

(* The first reading of the queue is never older than the longest time     *)
(* without a turn, so no reading is.                                       *)
LEMMA FirstIsFresh ==
  ASSUME Timing, sentAt # <<>>
  PROVE  now - sentAt[1] <= LongestGap
<1>1. /\ now \in Nat /\ wake \in Nat /\ now <= wake + Lateness
      /\ 1 \in 1..Len(sentAt) /\ sentAt[1] \in Nat /\ Lateness \in Nat
      /\ LoopDelay \in Nat /\ RotateDelay \in Nat
      /\ LongestGap = RotateDelay + LoopDelay + 2 * Lateness
      /\ LongestTurn = LoopDelay + Lateness
  BY Instants, Delays DEF Timing, Clocks, LongestGap, LongestTurn
<1>2. CASE pc = "rotating"
  <2>1. wake <= sentAt[1] + RotateDelay
    BY <1>1, <1>2 DEF Timing, Backlog
  <2> QED
    BY <1>1, <2>1
<1>3. CASE pc = "loop" /\ Quiet
  BY <1>1, <1>3 DEF Quiet, Age
<1>4. CASE pc = "loop" /\ \E k \in Nat : WorkingOff(k)
  <2>1. PICK k \in Nat : Age + k * (SendGap - LongestTurn) <= LongestGap
    BY <1>4 DEF WorkingOff
  <2>2. SendGap - LongestTurn \in Nat
    BY Delays, DriveAssumption DEF DriveAssumption
  <2> DEFINE younger == k * (SendGap - LongestTurn)
  <2>3. younger \in Nat
    BY <2>2
  <2> HIDE DEF younger
  <2>4. Age + younger <= LongestGap
    BY <2>1 DEF younger
  <2> QED
    BY <1>1, <2>3, <2>4 DEF Age
<1> QED
  BY <1>2, <1>3, <1>4 DEF Timing, Clocks, Backlog

(* The queue has room for every reading: it would take a queue's length of *)
(* sendings to fill it, and its first is never that old.                   *)
LEMMA RoomToSend ==
  ASSUME Timing, Distance!ReadOk
  PROVE  Len(q_distance_pid) < QueueLength
<1> DEFINE n == Len(sentAt)
<1>1. n = Len(q_distance_pid) /\ n \in Nat /\ QueueLength \in Nat
  BY Instants, Delays DEF Timing, Sendings
<1>2. CASE n = 0
  BY <1>1, <1>2, Delays, DriveAssumption DEF DriveAssumption
<1>3. CASE n # 0
  <2>1. 1 \in 1..n /\ n \in 1..n /\ 1 <= n /\ sentAt # <<>>
    BY <1>1, <1>3, Instants DEF Timing
  <2>2. sentAt[n] >= sentAt[1] + (n - 1) * SendGap
    BY <2>1 DEF Timing, Sendings
  <2>3. now >= sentAt[n] + SendGap
    BY <2>1 DEF Timing, NextSending, Distance!ReadOk
  <2>4. now - sentAt[1] <= LongestGap
    BY <2>1, FirstIsFresh
  <2>5. now \in Nat /\ sentAt[1] \in Nat /\ sentAt[n] \in Nat
    BY <2>1, Instants DEF Timing
  <2>6. (n - 1) * SendGap = n * SendGap - SendGap /\ n * SendGap \in Nat
        /\ SendGap \in Nat /\ LongestGap \in Nat
        /\ QueueLength * SendGap \in Nat /\ LongestGap < QueueLength * SendGap
    BY <1>1, Delays, DriveAssumption DEF DriveAssumption
  <2>7. n * SendGap < QueueLength * SendGap
    BY <2>2, <2>3, <2>4, <2>5, <2>6
  <2>8. ASSUME QueueLength <= n PROVE FALSE
    <3>1. QueueLength * SendGap <= n * SendGap
      BY <1>1, <2>6, <2>8
    <3> QED
      BY <2>6, <2>7, <3>1
  <2> QED
    BY <1>1, <2>8
<1> QED
  BY <1>2, <1>3

-----------------------------------------------------------------------------
(* With nothing in the queue motor_task has the newest reading there is;   *)
(* otherwise the newest is the last of the queue.                          *)
Newest ==
  /\ sentAt = <<>> => actedAt = lastSent
  /\ sentAt # <<>> => sentAt[Len(sentAt)] = lastSent

LEMMA TakingKeepsNewest ==
  ASSUME Timing, Newest, Taken, actedAt' = Head(sentAt), UNCHANGED lastSent
  PROVE  Newest'
<1>1. /\ sentAt \in Seq(Nat) /\ sentAt' \in Seq(Nat) /\ sentAt # <<>>
      /\ Len(sentAt) \in Nat \ {0} /\ Len(sentAt') = Len(sentAt) - 1
      /\ \A i \in 1..Len(sentAt') : sentAt'[i] = sentAt[i + 1]
  BY TakenMovesUp, Instants DEF Timing, Sendings
<1>2. Head(sentAt) = sentAt[1] /\ sentAt[Len(sentAt)] = lastSent
  BY <1>1 DEF Newest
<1>3. CASE Len(sentAt) = 1
  <2>1. sentAt' = <<>>
    BY <1>1, <1>3, EmptySeq
  <2> QED
    BY <1>2, <1>3, <2>1 DEF Newest
<1>4. CASE Len(sentAt) # 1
  <2>1. Len(sentAt') \in 1..Len(sentAt') /\ Len(sentAt') + 1 = Len(sentAt)
    BY <1>1, <1>4
  <2>2. sentAt'[Len(sentAt')] = sentAt[Len(sentAt)]
    BY <1>1, <2>1
  <2>3. sentAt' # <<>>
    BY <1>1, <2>1, EmptySeq
  <2> QED
    BY <1>2, <2>2, <2>3 DEF Newest
<1> QED
  BY <1>3, <1>4

LEMMA NewestStep ==
  ASSUME Timing, Newest, [Next]_vars
  PROVE  Newest'
<1>1. Clocks /\ Sendings /\ (sentAt = <<>> <=> q_distance_pid = <<>>)
  BY Instants DEF Timing
<1>2. ASSUME Kept, UNCHANGED <<actedAt, lastSent>> PROVE Newest'
  BY <1>2 DEF Kept, Newest
<1>3. CASE MotorStep /\ RecordSending
  <2>1. CASE Motor!DriveTurn \/ Motor!RotateBegin
    <3>1. pc = "loop" /\ Motor!ReceiveDistance
      BY <2>1 DEF Motor!DriveTurn, Motor!RotateBegin
    <3>2. CASE Taken
      <4>1. actedAt' = Head(sentAt) /\ lastSent' = lastSent
        BY <1>1, <1>3, <3>1, <3>2 DEF MotorStep, Taken
      <4> QED
        BY <3>2, <4>1, TakingKeepsNewest
    <3>3. CASE Kept /\ q_distance_pid = <<>>
      BY <1>1, <1>2, <1>3, <3>3 DEF MotorStep
    <3> QED
      BY <1>1, <1>3, <3>1, <3>2, <3>3, TakenOrKept
  <2>2. CASE Motor!RotateEnd
    <3>1. Kept
      BY <1>1, <1>3, <2>2, SameQueue DEF Motor!RotateEnd
    <3> QED
      BY <1>2, <1>3, <2>2, <3>1 DEF MotorStep, Motor!RotateEnd
  <2> QED
    BY <1>3, <2>1, <2>2 DEF MotorStep, Motor!MotorStep
<1>4. CASE DistanceStep /\ RecordSending
  <2>1. CASE Distance!ReadOk
    <3>1. Sent
      BY <1>1, <1>4, <2>1, RoomToSend, SentOrKept
    <3>2. sentAt'[Len(sentAt')] = now /\ Len(sentAt') # 0
      BY <1>1, <3>1, SentIsLast, Instants
    <3>3. sentAt' # <<>>
      BY <1>1, <3>1, <3>2, SentIsLast, EmptySeq
    <3> QED
      BY <1>4, <2>1, <3>2, <3>3 DEF DistanceStep, Newest
  <2>2. CASE ~Distance!ReadOk
    <3>1. Kept
      BY <1>1, <1>4, <2>2, DistanceHistory
    <3> QED
      BY <1>2, <1>4, <2>2, <3>1 DEF DistanceStep
  <2> QED
    BY <2>1, <2>2
<1>5. CASE Advance /\ RecordSending
  <2>1. Kept
    BY <1>1, <1>5, SameQueue DEF Advance
  <2> QED
    BY <1>2, <1>5, <2>1 DEF Advance
<1>6. CASE UNCHANGED vars
  BY <1>6 DEF vars, Newest
<1> QED
  BY <1>3, <1>4, <1>5, <1>6 DEF Next, ClockEnds

LEMMA NewestAlways == Spec => []Newest
<1>1. Init => Newest
  BY DEF Init, Newest
<1> QED
  BY <1>1, TimingAlways, NewestStep, PTL DEF Spec

(* A turn of driving acts on the newest reading there is, or on one sent   *)
(* at most a rotation and a turn ago, on a clock of any length and over    *)
(* any number of stalls.                                                   *)
THEOREM ReadingsAreFresh == Spec => ActsOnFreshReadings
<1>1. ASSUME Timing, Newest, [Next]_vars, Motor!DriveTurn
      PROVE  actedAt' = lastSent \/ now - actedAt' <= LongestGap
  <2>1. pc = "loop" /\ MotorStep
    <3>1. wake' = now + LoopDelay /\ now >= wake /\ pc = "loop"
      BY <1>1 DEF Motor!DriveTurn, Motor!Sleep
    <3>2. now \in Nat /\ wake \in Nat /\ LoopDelay \in Nat \ {0}
      BY <1>1, Delays DEF Timing, Clocks
    <3>3. wake' # wake
      BY <3>1, <3>2
    <3>4. wake' # wake => MotorStep
      BY <1>1 DEF Next, ClockEnds, vars, motorVars, DistanceStep, Advance
    <3> QED
      BY <3>1, <3>3, <3>4
  <2>2. actedAt' = IF sentAt # <<>> THEN Head(sentAt) ELSE actedAt
    BY <2>1, Zenon DEF MotorStep
  <2>3. CASE sentAt = <<>>
    BY <1>1, <2>2, <2>3 DEF Newest
  <2>4. CASE sentAt # <<>>
    BY <1>1, <2>2, <2>4, FirstIsFresh
  <2> QED
    BY <2>3, <2>4
<1> QED
  BY <1>1, TimingAlways, NewestAlways, PTL DEF Spec, ActsOnFreshReadings

(* The queue of ten is never full when uart_task sends to it, also while a *)
(* rotation keeps motor_task from taking anything.                         *)
THEOREM NothingDropped == Spec => NoReadingDropped
<1>1. ASSUME Timing, Distance!ReadOk PROVE Len(q_distance_pid) < QueueLength
  BY <1>1, RoomToSend
<1> QED
  BY <1>1, TimingAlways, PTL DEF NoReadingDropped
=============================================================================
