------------------------------ MODULE Commands ------------------------------
(***************************************************************************)
(* Commands over MQTT: mqtts_hiveMQ_handler (mqtts_hiveMQ.c), the queues   *)
(* it fills and servo_motor_task (tasks/servo_motor_task.c). The client    *)
(* hands its events to the handler one at a time; the broker, which        *)
(* forgets the subscriptions of a lost connection, is environment. The     *)
(* branch car/ota of the handler is in the module OtaUpdate.               *)
(***************************************************************************)
EXTENDS Integers, Sequences

CONSTANTS
  Topics,      \* what the handler subscribes to
  Payloads,    \* the numbers atoi makes of a command, 0 of no number
  QueueLen,    \* the length of q_servo_angle and of q_speed
  ServoDelay,  \* the pause of the servo task after an angle
  Lateness,    \* how late a task may run
  Clock,       \* the instants of a bounded run
  None         \* no event

ASSUME CommandsAssumption ==
  /\ {"car/motors", "car/servo"} \subseteq Topics
  /\ Payloads \subseteq Int /\ QueueLen \in Nat \ {0}
  /\ ServoDelay \in Nat /\ Lateness \in Nat
  /\ Clock \subseteq Nat /\ 0 \in Clock

VARIABLES
  now,
  connected,      \* the client, to the broker
  subscribed,     \* the subscriptions in force
  event,          \* the event the client has for the handler, or None
  MQTT_SUBSCRIBE, \* the bit, shown by the display
  q_speed,        \* the number of speeds in it
  q_servo_angle,  \* the angles in it, with the time each was queued
  wake,           \* when the servo task is or was ready to take an angle
  duty_us,        \* the pulse of the servo
  last            \* history: the last angle that was queued

clientVars == <<connected, subscribed, event>>
servoVars == <<q_servo_angle, wake, duty_us, last>>
vars == <<now, clientVars, MQTT_SUBSCRIBE, q_speed, servoVars>>

Clamp(x, low, high) == IF x > high THEN high ELSE IF x < low THEN low ELSE x

(* Division truncates, but no command leaves a negative angle.             *)
set_angle(angle) == 500 + (2000 * angle) \div 180

Center == 1500

period_ticks == 20000

Init ==
  /\ now = 0 /\ connected = FALSE /\ subscribed = {} /\ event = None
  /\ MQTT_SUBSCRIBE = FALSE /\ q_speed = 0 /\ q_servo_angle = <<>>
  /\ wake = 0 /\ duty_us = Center /\ last = 90

-----------------------------------------------------------------------------
(* The client and the broker                                               *)

Connect ==
  /\ event = None /\ ~connected
  /\ connected' = TRUE /\ event' = [id |-> "CONNECTED"]
  /\ UNCHANGED <<now, subscribed, MQTT_SUBSCRIBE, q_speed, servoVars>>

(* The broker acknowledges a subscription.                                 *)
Acknowledge(t) ==
  /\ event = None /\ connected /\ t \in subscribed
  /\ event' = [id |-> "SUBSCRIBED"]
  /\ UNCHANGED <<now, connected, subscribed, MQTT_SUBSCRIBE, q_speed, servoVars>>

(* Losing the broker is an error only when the transport reports it.       *)
Disconnect ==
  /\ event = None /\ connected
  /\ connected' = FALSE /\ subscribed' = {}
  /\ \E id \in {"DISCONNECTED", "ERROR"} : event' = [id |-> id]
  /\ UNCHANGED <<now, MQTT_SUBSCRIBE, q_speed, servoVars>>

Publish(t, payload) ==
  /\ event = None /\ connected /\ t \in subscribed
  /\ event' = [id |-> "DATA", topic |-> t, data |-> payload]
  /\ UNCHANGED <<now, connected, subscribed, MQTT_SUBSCRIBE, q_speed, servoVars>>

-----------------------------------------------------------------------------
(* mqtts_hiveMQ_handler, one action per branch                             *)

Handles(id) == event # None /\ event.id = id /\ event' = None

(* A subscription whose call fails is not tried again. The reset reason    *)
(* that is published to car/logs comes back like any message there.        *)
Subscribe ==
  /\ Handles("CONNECTED")
  /\ subscribed' \in SUBSET Topics
  /\ UNCHANGED <<now, connected, MQTT_SUBSCRIBE, q_speed, servoVars>>

MarkSubscribed ==
  /\ Handles("SUBSCRIBED") /\ MQTT_SUBSCRIBE' = TRUE
  /\ UNCHANGED <<now, connected, subscribed, q_speed, servoVars>>

MarkError ==
  /\ Handles("ERROR") /\ MQTT_SUBSCRIBE' = FALSE
  /\ UNCHANGED <<now, connected, subscribed, q_speed, servoVars>>

IgnoreEvent ==
  /\ \/ Handles("DISCONNECTED")
     \/ Handles("DATA") /\ event.topic \notin {"car/motors", "car/servo"}
  /\ UNCHANGED <<now, connected, subscribed, MQTT_SUBSCRIBE, q_speed, servoVars>>

(* Mutant: the send waits for room.                                        *)
SpeedBlocks ==
  /\ Handles("DATA") /\ event.topic = "car/motors" /\ q_speed < QueueLen
  /\ q_speed' = q_speed + 1
  /\ UNCHANGED <<now, connected, subscribed, MQTT_SUBSCRIBE, servoVars>>

(* Nobody receives from q_speed: it fills, and what comes then is dropped. *)
(* The speeds themselves, clamped to -255..255, are left out.              *)
CommandMotors ==
  /\ Handles("DATA") /\ event.topic = "car/motors"
  /\ q_speed' = IF q_speed < QueueLen THEN q_speed + 1 ELSE q_speed
  /\ UNCHANGED <<now, connected, subscribed, MQTT_SUBSCRIBE, servoVars>>

(* Mutant: the angle goes to the front of the queue.                       *)
SendsToFront(item) == <<item>> \o q_servo_angle

Sends(item) == Append(q_servo_angle, item)

(* A send to a waiting servo task makes it ready.                          *)
CommandServo ==
  /\ Handles("DATA") /\ event.topic = "car/servo"
  /\ LET servo_angle == Clamp(event.data, 0, 180)
     IN  IF Len(q_servo_angle) < QueueLen
         THEN /\ q_servo_angle' = Sends([angle |-> servo_angle, at |-> now])
              /\ last' = servo_angle
              /\ wake' = IF q_servo_angle = <<>> /\ wake < now THEN now ELSE wake
         ELSE UNCHANGED <<q_servo_angle, last, wake>>
  /\ UNCHANGED <<now, connected, subscribed, MQTT_SUBSCRIBE, q_speed, duty_us>>

HandlerStep ==
  \/ Subscribe \/ MarkSubscribed \/ MarkError \/ IgnoreEvent \/ CommandMotors \/ CommandServo

-----------------------------------------------------------------------------

(* Mutant: the angle stays in the queue.                                   *)
PeeksAngle ==
  /\ q_servo_angle # <<>> /\ wake <= now
  /\ duty_us' = set_angle(Head(q_servo_angle).angle)
  /\ wake' = now + ServoDelay
  /\ UNCHANGED <<now, clientVars, MQTT_SUBSCRIBE, q_speed, q_servo_angle, last>>

(* servo_motor_task: receive, set, and the delay after it.                 *)
ServoTurn ==
  /\ q_servo_angle # <<>> /\ wake <= now
  /\ duty_us' = set_angle(Head(q_servo_angle).angle)
  /\ q_servo_angle' = Tail(q_servo_angle) /\ wake' = now + ServoDelay
  /\ UNCHANGED <<now, clientVars, MQTT_SUBSCRIBE, q_speed, last>>

(* Time passes, but not beyond the lateness of a ready servo task.         *)
Advance ==
  /\ now' \in {t \in Clock : t > now /\ (q_servo_angle # <<>> => t <= wake + Lateness)}
  /\ UNCHANGED <<clientVars, MQTT_SUBSCRIBE, q_speed, servoVars>>

(* A bounded clock stops at its last instant.                              *)
ClockEnds == (\A t \in Clock : t <= now) /\ UNCHANGED vars

Next ==
  \/ Connect \/ Disconnect
  \/ \E t \in Topics : Acknowledge(t) \/ (\E p \in Payloads : Publish(t, p))
  \/ HandlerStep \/ ServoTurn \/ Advance \/ ClockEnds

Spec == Init /\ [][Next]_vars

FairSpec == Spec /\ WF_vars(HandlerStep) /\ WF_vars(ServoTurn)

-----------------------------------------------------------------------------

Angles == [angle : 0..180, at : Nat]

Events ==
  [id : {"CONNECTED", "DISCONNECTED", "SUBSCRIBED", "ERROR"}]
    \cup [id : {"DATA"}, topic : Topics, data : Payloads]

(* The pulse stays below the period: the comparator refuses no angle, and  *)
(* the ESP_ERROR_CHECK around it never restarts the car.                   *)
TypeOK ==
  /\ now \in Nat /\ connected \in BOOLEAN /\ subscribed \subseteq Topics
  /\ event \in Events \cup {None} /\ MQTT_SUBSCRIBE \in BOOLEAN
  /\ q_speed \in 0..QueueLen
  /\ q_servo_angle \in Seq(Angles) /\ Len(q_servo_angle) <= QueueLen
  /\ wake \in Nat /\ duty_us \in 500..period_ticks /\ last \in 0..180

(* An angle waits at most one pause of the servo task for each place of    *)
(* the queue. So one is dropped only when more came within that time, and  *)
(* a command that is taken moves the servo within it.                      *)
AnglesAreTimely ==
  \A i \in DOMAIN q_servo_angle :
    now <= q_servo_angle[i].at + QueueLen * (ServoDelay + Lateness)

(* Angles keep their order: when none is waiting the servo stands at the   *)
(* last one that was queued.                                               *)
LastAngleWins ==
  q_servo_angle = <<>> => duty_us = set_angle(last)

(* Every event is handled, however many commands nobody receives: the      *)
(* client is never stopped by a full queue.                                *)
EventsAreHandled == event # None ~> event = None
=============================================================================
