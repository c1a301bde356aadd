----------------------------- MODULE DriveLoop ------------------------------
(***************************************************************************)
(* uart_task and motor_task together: the readings of the one, through     *)
(* q_distance_pid, are the input of the other, and both run by the same    *)
(* clock. Each step is a step of one of the two modules.                   *)
(***************************************************************************)
EXTENDS Integers, Sequences

CONSTANTS
  Readings, Derivatives, QueueLength,
  LoopDelay, RotateDelay,                            \* of motor_task
  ReadDelay, ReadTimeout, PauseDelay, SensorMax,     \* of uart_task
  Lateness, Clock, BootTimes

VARIABLES
  now, q_distance_pid,
  pc, wake, Main_motors_state, prev_time, curr_time, distance,
  prev_measurement, pins, duty,                      \* of motor_task
  upc, uwake, rx, distance_mm, measured, unsent, asked, q_distance,
                                                     \* of uart_task
  sentAt,      \* history: when each reading of q_distance_pid was sent,
  lastSent,    \* when the newest of all readings was (0 before the first),
  actedAt      \* and the one motor_task has in distance_cm (0: none yet)

Motor == INSTANCE MotorControl
Distance == INSTANCE DistanceTask

(* Two readings are sent at least this far apart, and this is the longest  *)
(* turn of driving and the longest time without one.                       *)
SendGap == ReadDelay + PauseDelay
LongestTurn == LoopDelay + Lateness
LongestGap == RotateDelay + LoopDelay + 2 * Lateness

(* Driving takes readings faster than the sensor sends them, the queue     *)
(* holds those of a rotation, and the turns between two stalls are enough  *)
(* to work them off. The delays of the code leave a wide margin.           *)
ASSUME DriveAssumption ==
  /\ Motor!MotorAssumption /\ Distance!DistanceAssumption
  /\ LongestTurn < SendGap
  /\ LongestGap < QueueLength * SendGap
  /\ LongestGap - SendGap
       < (SendGap - LongestTurn) * ((Motor!StallWindow - LongestGap) \div LongestTurn)

motorVars == <<pc, wake, Main_motors_state, prev_time, curr_time, distance,
               prev_measurement, pins, duty>>
distanceVars == <<upc, uwake, rx, distance_mm, measured, unsent, asked>>
vars == <<now, motorVars, distanceVars, q_distance_pid, q_distance,
          sentAt, lastSent, actedAt>>

Init ==
  /\ Motor!Init
  /\ Distance!Init
  /\ sentAt = <<>> /\ lastSent = 0 /\ actedAt = 0

(* Readings are only appended and only taken from the front.               *)
RecordSending ==
  LET sent == Len(q_distance_pid')
      had  == Len(q_distance_pid)
  IN  sentAt' = IF sent > had THEN Append(sentAt, now)
                ELSE IF sent < had THEN Tail(sentAt) ELSE sentAt

MotorStep ==
  /\ Motor!MotorStep
  /\ actedAt' = IF pc = "loop" /\ sentAt # <<>> THEN Head(sentAt) ELSE actedAt
  /\ UNCHANGED <<distanceVars, q_distance, lastSent>>

DistanceStep ==
  /\ Distance!DistanceStep \/ Distance!SensorByte \/ Distance!OledTakes
  /\ lastSent' = IF Distance!ReadOk THEN now ELSE lastSent
  /\ UNCHANGED <<motorVars, actedAt>>

(* Time moves only as far as both tasks let it.                            *)
Advance ==
  /\ \E t \in Clock :
       /\ now < t /\ t <= wake + Lateness /\ Distance!MayAdvanceTo(t)
       /\ now' = t
  /\ UNCHANGED <<motorVars, distanceVars, q_distance_pid, q_distance, lastSent, actedAt>>

ClockEnds ==
  /\ \A t \in Clock : t <= now
  /\ UNCHANGED vars

Next ==
  \/ (MotorStep \/ DistanceStep \/ Advance) /\ RecordSending
  \/ ClockEnds

Spec == Init /\ [][Next]_vars

-----------------------------------------------------------------------------
(* Properties                                                              *)

(* Neither task does to the other anything its own module does not expect: *)
(* every reading that reaches motor_task is one the sensor measured, and   *)
(* taking it is all motor_task does to uart_task.                          *)
MotorSpec == Motor!Spec
DistanceSpec == Distance!Spec

(* Even while a rotation keeps motor_task from its queue, xQueueSend with  *)
(* timeout 0 never finds q_distance_pid full: no reading is lost.          *)
NoReadingDropped == [][Distance!ReadOk => Len(q_distance_pid) < QueueLength]_vars

(* A turn of driving acts on the newest reading there is, or on one that   *)
(* was sent at most a rotation and a turn ago: the backlog of a rotation is *)
(* worked off faster than it grows, and motor_task never goes by a reading *)
(* that a later one has outdated for longer. A sensor that falls silent is *)
(* another matter: no newer reading comes, and the last one in distance_cm *)
(* is acted on for as long as the silence lasts.                           *)
ActsOnFreshReadings ==
  [][Motor!DriveTurn => actedAt' = lastSent \/ now - actedAt' <= LongestGap]_vars
=============================================================================
