---------------------------- MODULE DistanceTask ----------------------------
(***************************************************************************)
(* uart_task (Car_project/src/tasks/distance_task.c) and the ultrasonic    *)
(* sensor it questions over UART: 'U' asks for a measurement, the answer   *)
(* is the distance in millimetres, high byte first.                        *)
(*                                                                         *)
(* Both bytes of an answer leave the sensor within SensorMax of the        *)
(* question, unless there is no echo and the sensor stays silent.          *)
(* m_UART1 is taken by uart_task alone, so taking it never blocks.         *)
(***************************************************************************)
EXTENDS Integers, Sequences

CONSTANTS
  Readings,       \* distances the sensor can measure, in mm
  QueueLength,    \* depth of q_distance_pid and of q_distance
  ReadDelay,      \* the vTaskDelay between question and read
  ReadTimeout,    \* how long uart_read_bytes waits for two bytes
  PauseDelay,     \* the vTaskDelay at the end of a turn
  SensorMax,      \* the latest instant of an answer's last byte
  Lateness,       \* how long after its delay a task may be scheduled
  Clock,          \* the instants at which time is observed
  BootTimes       \* instants at which uart_task may be created

uint16_t == 0..(256 * 256 - 1)

(* The sensor is done with a question before the next one can be asked.    *)
ASSUME DistanceAssumption ==
  /\ Readings \subseteq uint16_t
  /\ QueueLength \in Nat \ {0} /\ Lateness \in Nat
  /\ ReadDelay \in Nat /\ ReadTimeout \in Nat /\ PauseDelay \in Nat
  /\ SensorMax \in Nat /\ SensorMax < ReadDelay + ReadTimeout + PauseDelay
  /\ Clock \subseteq Nat /\ BootTimes \subseteq Clock

VARIABLES
  now,              \* the time
  upc,              \* "ask", "wait" before reading, "read", "pause"
  uwake,            \* the instant the task is to be woken
  rx,               \* the bytes in the receive buffer of the UART driver
  distance_mm,      \* static of uart_task
  measured,         \* what the sensor measured for the last question
  unsent,           \* bytes of that measurement it has not sent yet
  asked,            \* when it was asked
  q_distance_pid,
  q_distance

sensorVars == <<measured, unsent, asked>>
queueVars == <<q_distance_pid, q_distance>>
distanceVars == <<upc, uwake, rx, distance_mm, sensorVars>>
vars == <<now, distanceVars, queueVars>>

Init ==
  /\ now \in BootTimes /\ uwake = now /\ upc = "ask"
  /\ rx = <<>> /\ distance_mm = 0
  /\ measured = 0 /\ unsent = 0 /\ asked = 0
  /\ q_distance_pid = <<>> /\ q_distance = <<>>

High(mm) == mm \div 256
Low(mm) == mm % 256

(* xQueueSend with timeout 0: a full queue drops the new item.             *)
SendOrDrop(queue, item) ==
  IF Len(queue) < QueueLength THEN Append(queue, item) ELSE queue

-----------------------------------------------------------------------------
(* uart_task                                                               *)

(* Mutant: no uart_flush before the question.                              *)
AskUnflushed ==
  /\ upc = "ask" /\ now >= uwake
  /\ upc' = "wait" /\ uwake' = now + ReadDelay
  /\ asked' = now
  /\ \/ unsent' = 2 /\ measured' \in Readings
     \/ unsent' = 0 /\ measured' = measured
  /\ UNCHANGED <<now, rx, distance_mm, queueVars>>

(* uart_flush throws away what has arrived, then "U" is written. The       *)
(* sensor measures, or hears no echo.                                      *)
Ask ==
  /\ upc = "ask" /\ now >= uwake
  /\ rx' = <<>>
  /\ upc' = "wait" /\ uwake' = now + ReadDelay
  /\ asked' = now
  /\ \/ unsent' = 2 /\ measured' \in Readings
     \/ unsent' = 0 /\ measured' = measured
  /\ UNCHANGED <<now, distance_mm, queueVars>>

BeginRead ==
  /\ upc = "wait" /\ now >= uwake
  /\ upc' = "read" /\ uwake' = IF Len(rx) >= 2 THEN now ELSE now + ReadTimeout
  /\ UNCHANGED <<now, rx, distance_mm, sensorVars, queueVars>>

(* Mutants: the bytes are taken low byte first; no delay before the next   *)
(* question.                                                               *)
ReadSwapped ==
  /\ upc = "read" /\ Len(rx) >= 2
  /\ distance_mm' = rx[2] * 256 + rx[1]
  /\ rx' = SubSeq(rx, 3, Len(rx))
  /\ q_distance_pid' = SendOrDrop(q_distance_pid, distance_mm')
  /\ q_distance' = SendOrDrop(q_distance, distance_mm')
  /\ upc' = "pause" /\ uwake' = now + PauseDelay
  /\ UNCHANGED <<now, sensorVars>>

ReadUnpaused ==
  /\ upc = "read" /\ Len(rx) >= 2
  /\ distance_mm' = rx[1] * 256 + rx[2]
  /\ rx' = SubSeq(rx, 3, Len(rx))
  /\ q_distance_pid' = SendOrDrop(q_distance_pid, distance_mm')
  /\ q_distance' = SendOrDrop(q_distance, distance_mm')
  /\ upc' = "pause" /\ uwake' = now
  /\ UNCHANGED <<now, sensorVars>>

(* uart_read_bytes returns 2: the reading goes to both queues.             *)
ReadOk ==
  /\ upc = "read" /\ Len(rx) >= 2
  /\ distance_mm' = rx[1] * 256 + rx[2]
  /\ rx' = SubSeq(rx, 3, Len(rx))
  /\ q_distance_pid' = SendOrDrop(q_distance_pid, distance_mm')
  /\ q_distance' = SendOrDrop(q_distance, distance_mm')
  /\ upc' = "pause" /\ uwake' = now + PauseDelay
  /\ UNCHANGED <<now, sensorVars>>

(* Mutants: a failed read is followed by the next question at once; or it  *)
(* is tried again until there is an answer.                                *)
FailsUnpaused ==
  /\ upc = "read" /\ now >= uwake /\ Len(rx) < 2
  /\ rx' = <<>>
  /\ upc' = "pause" /\ uwake' = now
  /\ UNCHANGED <<now, distance_mm, sensorVars, queueVars>>

ReadsAgain ==
  /\ upc = "read" /\ now >= uwake /\ Len(rx) < 2
  /\ uwake' = now + ReadTimeout
  /\ UNCHANGED <<now, upc, rx, distance_mm, sensorVars, queueVars>>

(* It returns fewer at its timeout, having consumed what there is.         *)
ReadFailed ==
  /\ upc = "read" /\ now >= uwake /\ Len(rx) < 2
  /\ rx' = <<>>
  /\ upc' = "pause" /\ uwake' = now + PauseDelay
  /\ UNCHANGED <<now, distance_mm, sensorVars, queueVars>>

(* The delay at the end of the loop is over.                               *)
NextTurn ==
  /\ upc = "pause" /\ now >= uwake
  /\ upc' = "ask"
  /\ UNCHANGED <<now, uwake, rx, distance_mm, sensorVars, queueVars>>

DistanceStep == Ask \/ BeginRead \/ ReadOk \/ ReadFailed \/ NextTurn

-----------------------------------------------------------------------------
(* The sensor, the readers of the queues, and time                         *)

(* A byte arrives; the second one wakes a task that is waiting for two.    *)
SensorByte ==
  /\ unsent > 0
  /\ unsent' = unsent - 1
  /\ rx' = Append(rx, IF unsent = 2 THEN High(measured) ELSE Low(measured))
  /\ uwake' = IF upc = "read" /\ Len(rx') = 2 THEN now ELSE uwake
  /\ UNCHANGED <<now, upc, distance_mm, measured, asked, queueVars>>

(* xQueueReceive(q_distance_pid, .., 0) of motor_task, and                 *)
(* xQueueReceive(q_distance, .., 0) of write_distance in oled_task.        *)
MotorTakes ==
  /\ q_distance_pid # <<>> /\ q_distance_pid' = Tail(q_distance_pid)
  /\ UNCHANGED <<now, distanceVars, q_distance>>

OledTakes ==
  /\ q_distance # <<>> /\ q_distance' = Tail(q_distance)
  /\ UNCHANGED <<now, distanceVars, q_distance_pid>>

(* Time may move to t: no task is more than Lateness late for it and the   *)
(* sensor has sent what it owes.                                           *)
MayAdvanceTo(t) ==
  /\ t <= uwake + Lateness
  /\ unsent > 0 => t <= asked + SensorMax

Advance ==
  /\ \E t \in Clock : now < t /\ MayAdvanceTo(t) /\ now' = t
  /\ UNCHANGED <<distanceVars, queueVars>>

(* The bounded clock of a model-checking run has come to its last instant. *)
ClockEnds ==
  /\ \A t \in Clock : t <= now
  /\ UNCHANGED vars

Next ==
  \/ DistanceStep
  \/ SensorByte \/ MotorTakes \/ OledTakes
  \/ Advance \/ ClockEnds

Spec == Init /\ [][Next]_vars

-----------------------------------------------------------------------------
(* Properties                                                              *)

TypeOK ==
  /\ now \in Clock /\ uwake \in Nat
  /\ upc \in {"ask", "wait", "read", "pause"}
  /\ rx \in Seq(0..255) /\ Len(rx) <= 2
  /\ distance_mm \in uint16_t
  /\ measured \in uint16_t /\ unsent \in 0..2 /\ asked \in Nat
  /\ q_distance_pid \in Seq(uint16_t) /\ q_distance \in Seq(uint16_t)

(* No reading is put together from two answers, and none is the answer to  *)
(* an earlier question: what is sent is what the sensor measured for the   *)
(* question of this turn. An answer later than the read timeout is flushed *)
(* before the next question instead of being taken for its answer.         *)
ReadingAnswersQuestion ==
  [][ReadOk => distance_mm' = measured /\ unsent = 0]_vars

(* The sensor is never asked while it still owes bytes of an answer.       *)
NeverAsksTwice == [][Ask => unsent = 0]_vars

(* The car does not drive blind for long: a sensor that stays silent, or   *)
(* is slow, is asked again within one read timeout and the two delays.     *)
AsksRegularly ==
  now <= asked + ReadDelay + ReadTimeout + PauseDelay + 4 * Lateness \/ asked = 0
=============================================================================
