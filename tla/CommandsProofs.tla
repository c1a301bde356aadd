--------------------------- MODULE CommandsProofs ---------------------------
(* Theorems about the path of an angle from MQTT to the servo, for every   *)
(* length of the queue, every pause and lateness, and all payloads.        *)
EXTENDS Commands, SequenceTheorems, TLAPS

(* The type of the client's side, and of the servo's.                      *)
ClientTypes ==
  /\ connected \in BOOLEAN /\ subscribed \subseteq Topics
  /\ event \in Events \cup {None} /\ MQTT_SUBSCRIBE \in BOOLEAN

ServoTypes ==
  /\ now \in Nat /\ q_speed \in 0..QueueLen
  /\ q_servo_angle \in Seq(Angles) /\ Len(q_servo_angle) <= QueueLen
  /\ wake \in Nat /\ duty_us \in 500..period_ticks /\ last \in 0..180

(* The longest that n turns of the servo task take.                        *)
Turns(n) == n * (ServoDelay + Lateness)

(* The servo task is ready at most one pause from now, and not later than  *)
(* Lateness when something waits. So each angle that waits is taken in     *)
(* time, those before it first.                                            *)
Pace ==
  /\ wake <= now + ServoDelay
  /\ q_servo_angle # <<>> => now <= wake + Lateness
  /\ \A i \in 1..Len(q_servo_angle) :
       wake + Lateness + Turns(i - 1) <= q_servo_angle[i].at + Turns(QueueLen)

(* The last angle queued is at the end of the queue, or has been set.      *)
LastIsLast ==
  /\ q_servo_angle = <<>> => duty_us = set_angle(last)
  /\ q_servo_angle # <<>> => q_servo_angle[Len(q_servo_angle)].angle = last

IInv == ClientTypes /\ ServoTypes /\ Pace /\ LastIsLast

-----------------------------------------------------------------------------
LEMMA ConstantTypes ==
  /\ QueueLen \in Nat /\ QueueLen >= 1 /\ ServoDelay \in Nat /\ Lateness \in Nat
  /\ Payloads \subseteq Int /\ Clock \subseteq Nat
BY CommandsAssumption DEF CommandsAssumption

LEMMA TurnsAdd ==
  /\ Turns(0) = 0
  /\ \A n \in Nat : Turns(n) \in Nat /\ Turns(n + 1) = Turns(n) + ServoDelay + Lateness
<1>1. \A p, n \in Nat : n * p \in Nat /\ (n + 1) * p = n * p + p /\ 0 * p = 0
  BY SMT
<1>2. ServoDelay + Lateness \in Nat
  BY ConstantTypes
<1> QED
  BY <1>1, <1>2, ConstantTypes DEF Turns

LEMMA TurnsGrow ==
  ASSUME NEW m \in Nat, NEW n \in Nat, m <= n
  PROVE  Turns(m) <= Turns(n)
<1>1. \A p \in Nat : m * p <= n * p
  BY SMT
<1>2. ServoDelay + Lateness \in Nat
  BY ConstantTypes
<1> QED
  BY <1>1, <1>2 DEF Turns

(* An angle of 0 to 180 degrees makes a pulse the comparator takes.        *)
LEMMA PulseFits ==
  ASSUME NEW angle \in 0..180
  PROVE  set_angle(angle) \in 500..period_ticks
BY SMT DEF set_angle, period_ticks

LEMMA ClampFits ==
  ASSUME NEW x \in Int
  PROVE  Clamp(x, 0, 180) \in 0..180
BY DEF Clamp

LEMMA IInvInit == Init => IInv
<1> SUFFICES ASSUME Init PROVE IInv
  OBVIOUS
<1>1. Center = set_angle(90) /\ Center \in 500..period_ticks
  BY SMT DEF Center, set_angle, period_ticks
<1>2. ClientTypes
  BY DEF Init, ClientTypes
<1>4. ServoTypes
  BY <1>1, ConstantTypes DEF Init, ServoTypes
<1>3. Pace /\ LastIsLast
  BY <1>1, ConstantTypes DEF Init, Pace, LastIsLast
<1> QED
  BY <1>2, <1>3, <1>4 DEF IInv

(* Whatever leaves the servo and the time alone.                           *)
LEMMA ClientKeeps ==
  ASSUME IInv, UNCHANGED <<now, servoVars>>, ClientTypes', q_speed' \in 0..QueueLen
  PROVE  IInv'
<1>1. ServoTypes'
  BY DEF IInv, ServoTypes, servoVars
<1>2. Pace' /\ LastIsLast'
  BY DEF IInv, Pace, LastIsLast, servoVars
<1> QED
  BY <1>1, <1>2 DEF IInv

(* The angle of a command is queued behind the others or dropped.          *)
LEMMA CommandServoKeeps ==
  ASSUME IInv, CommandServo
  PROVE  IInv'
<1> DEFINE servo_angle == Clamp(event.data, 0, 180)
           item == [angle |-> servo_angle, at |-> now]
<1>1. /\ event' = None
      /\ UNCHANGED <<now, connected, subscribed, MQTT_SUBSCRIBE, q_speed, duty_us>>
      /\ \/ UNCHANGED <<q_servo_angle, last, wake>>
         \/ /\ Len(q_servo_angle) < QueueLen
            /\ q_servo_angle' = Append(q_servo_angle, item) /\ last' = servo_angle
            /\ wake' = IF q_servo_angle = <<>> /\ wake < now THEN now ELSE wake
  BY DEF CommandServo, Handles, Sends
<1>2. ClientTypes /\ ServoTypes /\ Pace /\ LastIsLast
  BY DEF IInv
<1>7. ClientTypes'
  BY <1>1, <1>2 DEF ClientTypes
<1>3. event.data \in Int
  <2>1. event \in Events /\ event.id = "DATA"
    BY <1>2 DEF CommandServo, Handles, ClientTypes
  <2> QED
    BY <2>1, ConstantTypes DEF Events
<1>4. servo_angle \in 0..180
  BY <1>3, ClampFits
<1>5. CASE UNCHANGED <<q_servo_angle, last, wake>>
  BY <1>1, <1>2, <1>5, <1>7, ClientKeeps DEF ServoTypes, servoVars
<1>6. CASE /\ Len(q_servo_angle) < QueueLen
           /\ q_servo_angle' = Append(q_servo_angle, item) /\ last' = servo_angle
           /\ wake' = IF q_servo_angle = <<>> /\ wake < now THEN now ELSE wake
  <2>1. /\ item \in Angles /\ item.angle = servo_angle /\ item.at = now
        /\ now \in Nat /\ wake \in Nat /\ q_servo_angle \in Seq(Angles)
    BY <1>2, <1>4 DEF ServoTypes, Angles
  <2> HIDE DEF item, servo_angle
  <2>2. /\ q_servo_angle' \in Seq(Angles) /\ Len(q_servo_angle) \in Nat
        /\ Len(q_servo_angle') = Len(q_servo_angle) + 1 /\ q_servo_angle' # <<>>
        /\ \A i \in 1..Len(q_servo_angle) : q_servo_angle'[i] = q_servo_angle[i]
        /\ q_servo_angle'[Len(q_servo_angle) + 1] = item
    BY <1>6, <2>1, AppendProperties
  <2>3. ServoTypes'
    BY <1>1, <1>2, <1>4, <1>6, <2>1, <2>2, ConstantTypes DEF ServoTypes, servo_angle
  <2>4. wake' <= now' + ServoDelay /\ now' <= wake' + Lateness
    BY <1>1, <1>2, <1>6, <2>1, ConstantTypes DEF Pace
  <2>5. \A i \in 1..Len(q_servo_angle') :
          wake' + Lateness + Turns(i - 1) <= q_servo_angle'[i].at + Turns(QueueLen)
    <3>1. wake + Lateness + Turns(Len(q_servo_angle)) <= now + Turns(QueueLen)
          /\ wake' + Lateness + Turns(Len(q_servo_angle)) <= now + Turns(QueueLen)
      <4>1. Turns(Len(q_servo_angle) + 1) <= Turns(QueueLen)
        BY <1>6, <2>2, ConstantTypes, TurnsGrow
      <4>2. /\ Turns(Len(q_servo_angle) + 1)
                 = Turns(Len(q_servo_angle)) + ServoDelay + Lateness
            /\ Turns(Len(q_servo_angle)) \in Nat /\ Turns(QueueLen) \in Nat
        BY <2>2, ConstantTypes, TurnsAdd
      <4> QED
        BY <1>1, <1>2, <2>1, <2>4, <4>1, <4>2, <1>6, ConstantTypes DEF Pace
    <3>2. CASE q_servo_angle = <<>>
      BY <1>1, <2>1, <2>2, <3>1, <3>2
    <3>3. CASE q_servo_angle # <<>>
      BY <1>1, <1>2, <1>6, <2>1, <2>2, <3>1, <3>3 DEF Pace
    <3> QED
      BY <3>2, <3>3
  <2>6. LastIsLast'
    BY <1>6, <2>1, <2>2 DEF LastIsLast
  <2> QED
    BY <1>7, <2>3, <2>4, <2>5, <2>6 DEF IInv, Pace
<1> QED
  BY <1>1, <1>5, <1>6

LEMMA ServoTurnKeeps ==
  ASSUME IInv, ServoTurn
  PROVE  IInv'
<1>1. /\ q_servo_angle # <<>> /\ wake <= now
      /\ duty_us' = set_angle(Head(q_servo_angle).angle)
      /\ q_servo_angle' = Tail(q_servo_angle) /\ wake' = now + ServoDelay
      /\ UNCHANGED <<now, clientVars, MQTT_SUBSCRIBE, q_speed, last>>
  BY DEF ServoTurn
<1>2. /\ ClientTypes /\ ServoTypes /\ Pace /\ LastIsLast
      /\ q_servo_angle \in Seq(Angles) /\ now \in Nat /\ wake \in Nat
  BY DEF IInv, ServoTypes
<1>3. /\ Len(q_servo_angle) \in Nat \ {0} /\ Head(q_servo_angle) = q_servo_angle[1]
      /\ Head(q_servo_angle) \in Angles
      /\ q_servo_angle' \in Seq(Angles)
      /\ Len(q_servo_angle') = Len(q_servo_angle) - 1
      /\ \A i \in 1..(Len(q_servo_angle) - 1) : q_servo_angle'[i] = q_servo_angle[i + 1]
  BY <1>1, <1>2, HeadTailProperties
<1>4. duty_us' \in 500..period_ticks
  BY <1>1, <1>3, PulseFits DEF Angles
<1>5. ClientTypes' /\ ServoTypes'
  <2>1. ClientTypes'
    BY <1>1, <1>2 DEF ClientTypes, clientVars
  <2>2. ServoTypes'
    BY <1>1, <1>2, <1>3, <1>4, ConstantTypes DEF ServoTypes
  <2> QED
    BY <2>1, <2>2
<1>6. Pace'
  <2>1. wake' <= now' + ServoDelay /\ now' <= wake' + Lateness
    BY <1>1, <1>2, ConstantTypes
  <2>2. ASSUME NEW i \in 1..Len(q_servo_angle')
        PROVE  wake' + Lateness + Turns(i - 1) <= q_servo_angle'[i].at + Turns(QueueLen)
    <3>1. i \in 1..(Len(q_servo_angle) - 1) /\ i + 1 \in 1..Len(q_servo_angle)
      BY <1>3, <2>2
    <3>2. /\ q_servo_angle'[i] = q_servo_angle[i + 1] /\ q_servo_angle[i + 1].at \in Nat
      <4>1. q_servo_angle[i + 1] \in Angles
        BY <1>2, <3>1
      <4> QED
        BY <1>3, <3>1, <4>1 DEF Angles
    <3>3. wake + Lateness + Turns(i) <= q_servo_angle[i + 1].at + Turns(QueueLen)
      <4>1. \A j \in 1..Len(q_servo_angle) :
              wake + Lateness + Turns(j - 1) <= q_servo_angle[j].at + Turns(QueueLen)
        BY <1>2 DEF Pace
      <4>2. (i + 1) - 1 = i
        BY <3>1
      <4> QED
        BY <3>1, <4>1, <4>2
    <3>4. /\ Turns(i) = Turns(i - 1) + ServoDelay + Lateness
          /\ Turns(i - 1) \in Nat /\ Turns(QueueLen) \in Nat
      <4>1. i - 1 \in Nat /\ (i - 1) + 1 = i
        BY <3>1
      <4> QED
        BY <4>1, ConstantTypes, TurnsAdd
    <3>5. now <= wake + Lateness
      BY <1>1, <1>2 DEF Pace
    <3>6. now + ServoDelay + Lateness + Turns(i - 1) <= wake + Lateness + Turns(i)
      BY <1>2, <3>4, <3>5, ConstantTypes
    <3>7. now + ServoDelay + Lateness + Turns(i - 1)
            <= q_servo_angle[i + 1].at + Turns(QueueLen)
      <4> DEFINE a == now + ServoDelay + Lateness + Turns(i - 1)
                 b == wake + Lateness + Turns(i)
                 c == q_servo_angle[i + 1].at + Turns(QueueLen)
      <4>1. a \in Int /\ b \in Int /\ c \in Int
        <5>1. \A k, m, n, d \in Nat : k + m + n + d \in Int /\ k + m + n \in Int /\ k + m \in Int
          OBVIOUS
        <5>2. Turns(i) \in Nat
          BY <3>4, ConstantTypes
        <5> QED
          BY <1>2, <3>2, <3>4, <5>1, <5>2, ConstantTypes
      <4>2. a <= b /\ b <= c
        BY <3>3, <3>6
      <4> HIDE DEF a, b, c
      <4>3. a <= c
        BY <4>1, <4>2
      <4> QED
        BY <4>3 DEF a, c
    <3> QED
      BY <1>1, <3>2, <3>7
  <2> QED
    BY <2>1, <2>2 DEF Pace
<1>7. LastIsLast'
  <2>1. q_servo_angle[Len(q_servo_angle)].angle = last
    BY <1>1, <1>2 DEF LastIsLast
  <2>2. CASE Len(q_servo_angle) = 1
    BY <1>1, <1>3, <2>1, <2>2 DEF LastIsLast
  <2>3. CASE Len(q_servo_angle) # 1
    <3>1. /\ Len(q_servo_angle') \in 1..(Len(q_servo_angle) - 1)
          /\ Len(q_servo_angle') + 1 = Len(q_servo_angle)
      BY <1>3, <2>3
    <3>2. q_servo_angle' # <<>> /\ last' = last
      BY <1>1, <1>3, <3>1
    <3>3. q_servo_angle'[Len(q_servo_angle')] = q_servo_angle[Len(q_servo_angle)]
      BY <1>3, <3>1
    <3> QED
      BY <2>1, <3>2, <3>3 DEF LastIsLast
  <2> QED
    BY <2>2, <2>3
<1> QED
  BY <1>5, <1>6, <1>7 DEF IInv

LEMMA AdvanceKeeps ==
  ASSUME IInv, Advance
  PROVE  IInv'
<1>1. /\ now' \in Clock /\ now' > now
      /\ q_servo_angle # <<>> => now' <= wake + Lateness
      /\ UNCHANGED <<clientVars, MQTT_SUBSCRIBE, q_speed, servoVars>>
  BY DEF Advance
<1>2. ClientTypes'
  BY <1>1 DEF IInv, ClientTypes, clientVars
<1>3. ServoTypes'
  BY <1>1, ConstantTypes DEF IInv, ServoTypes, servoVars
<1>4. Pace'
  <2>1. wake' <= now' + ServoDelay
    <3>1. wake \in Nat /\ now \in Nat /\ now' \in Nat /\ wake <= now + ServoDelay
      BY <1>1, ConstantTypes DEF IInv, ServoTypes, Pace
    <3>2. wake' = wake
      BY <1>1 DEF servoVars
    <3>3. now < now' /\ ServoDelay \in Nat
      BY <1>1, ConstantTypes
    <3>4. \A w, n, m, d \in Nat : w <= n + d /\ n < m => w <= m + d
      OBVIOUS
    <3> QED
      BY <3>1, <3>2, <3>3, <3>4
  <2> QED
    BY <1>1, <2>1 DEF IInv, Pace, servoVars
<1>5. LastIsLast'
  BY <1>1 DEF IInv, LastIsLast, servoVars
<1> QED
  BY <1>2, <1>3, <1>4, <1>5 DEF IInv

LEMMA IInvNext == IInv /\ [Next]_vars => IInv'
<1> SUFFICES ASSUME IInv, [Next]_vars PROVE IInv'
  OBVIOUS
<1>1. ClientTypes /\ q_speed \in 0..QueueLen
  BY DEF IInv, ServoTypes
<1>2. CASE Connect
  <2>1. ClientTypes'
    BY <1>1, <1>2 DEF Connect, ClientTypes, Events
  <2> QED
    BY <1>1, <1>2, <2>1, ClientKeeps DEF Connect
<1>3. CASE Disconnect
  <2>1. ClientTypes'
    <3>1. PICK id \in {"DISCONNECTED", "ERROR"} : event' = [id |-> id]
      BY <1>3 DEF Disconnect
    <3>2. event' \in Events
      BY <3>1 DEF Events
    <3> QED
      BY <1>1, <1>3, <3>2 DEF Disconnect, ClientTypes
  <2> QED
    BY <1>1, <1>3, <2>1, ClientKeeps DEF Disconnect
<1>4. ASSUME NEW t \in Topics, Acknowledge(t)
      PROVE  IInv'
  <2>1. ClientTypes'
    BY <1>1, <1>4 DEF Acknowledge, ClientTypes, Events
  <2> QED
    BY <1>1, <1>4, <2>1, ClientKeeps DEF Acknowledge
<1>5. ASSUME NEW t \in Topics, NEW p \in Payloads, Publish(t, p)
      PROVE  IInv'
  <2>1. ClientTypes'
    BY <1>1, <1>5 DEF Publish, ClientTypes, Events
  <2> QED
    BY <1>1, <1>5, <2>1, ClientKeeps DEF Publish
<1>6. CASE Subscribe \/ MarkSubscribed \/ MarkError \/ IgnoreEvent
  <2>1. UNCHANGED <<now, q_speed, servoVars>> /\ event' = None /\ connected' = connected
    BY <1>6 DEF Subscribe, MarkSubscribed, MarkError, IgnoreEvent, Handles
  <2>2. subscribed' \subseteq Topics /\ MQTT_SUBSCRIBE' \in BOOLEAN
    BY <1>1, <1>6 DEF Subscribe, MarkSubscribed, MarkError, IgnoreEvent, ClientTypes
  <2>3. ClientTypes'
    BY <1>1, <2>1, <2>2 DEF ClientTypes
  <2> QED
    BY <1>1, <2>1, <2>3, ClientKeeps
<1>7. CASE CommandMotors
  <2>1. /\ UNCHANGED <<now, connected, subscribed, MQTT_SUBSCRIBE, servoVars>> /\ event' = None
        /\ q_speed' \in 0..QueueLen
    BY <1>1, <1>7, ConstantTypes DEF CommandMotors, Handles
  <2>2. ClientTypes'
    BY <1>1, <2>1 DEF ClientTypes
  <2> QED
    BY <2>1, <2>2, ClientKeeps
<1>8. CASE ClockEnds \/ UNCHANGED vars
  <2>1. UNCHANGED vars
    BY <1>8 DEF ClockEnds
  <2>2. ClientTypes'
    BY <1>1, <2>1 DEF ClientTypes, vars, clientVars
  <2> QED
    BY <1>1, <2>1, <2>2, ClientKeeps DEF vars
<1> QED
  BY <1>2, <1>3, <1>4, <1>5, <1>6, <1>7, <1>8, CommandServoKeeps, ServoTurnKeeps, AdvanceKeeps
  DEF Next, HandlerStep

LEMMA IInvAlways == Spec => []IInv
  BY IInvInit, IInvNext, PTL DEF Spec

(* The queues keep their bounds and the pulse is one the comparator takes. *)
THEOREM TypeCorrect == Spec => []TypeOK
<1>1. IInv => TypeOK
  BY DEF IInv, ClientTypes, ServoTypes, TypeOK
<1> QED
  BY <1>1, IInvAlways, PTL

(* No angle that was queued waits longer than the servo task takes for a   *)
(* full queue.                                                             *)
THEOREM CommandsAreTimely == Spec => []AnglesAreTimely
<1>1. IInv => AnglesAreTimely
  <2> SUFFICES ASSUME IInv, NEW i \in DOMAIN q_servo_angle
               PROVE  now <= q_servo_angle[i].at + QueueLen * (ServoDelay + Lateness)
    BY DEF AnglesAreTimely
  <2>1. /\ q_servo_angle \in Seq(Angles) /\ now \in Nat /\ wake \in Nat
        /\ i \in 1..Len(q_servo_angle) /\ q_servo_angle # <<>>
    BY DEF IInv, ServoTypes
  <2>2. /\ now <= wake + Lateness
        /\ wake + Lateness + Turns(i - 1) <= q_servo_angle[i].at + Turns(QueueLen)
    BY <2>1 DEF IInv, Pace
  <2>3. q_servo_angle[i].at \in Nat /\ Turns(i - 1) \in Nat /\ Turns(QueueLen) \in Nat
    <3>1. i - 1 \in Nat /\ q_servo_angle[i] \in Angles
      BY <2>1
    <3> QED
      BY <3>1, TurnsAdd, ConstantTypes DEF Angles
  <2>4. now <= q_servo_angle[i].at + Turns(QueueLen)
    BY <2>1, <2>2, <2>3, ConstantTypes
  <2> QED
    BY <2>4 DEF Turns
<1> QED
  BY <1>1, IInvAlways, PTL

(* With an empty queue the servo stands at the last angle that was queued. *)
THEOREM ServoFollows == Spec => []LastAngleWins
<1>1. IInv => LastAngleWins
  BY DEF IInv, LastIsLast, LastAngleWins
<1> QED
  BY <1>1, IInvAlways, PTL
=============================================================================
