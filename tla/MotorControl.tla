---------------------------- MODULE MotorControl ----------------------------
(***************************************************************************)
(* motor_task (Car_project/src/tasks/motor_control_task.c): the loop that  *)
(* takes one distance reading per turn, decides whether the car is stuck,  *)
(* runs the PID controller and sets the H-bridge.                          *)
(*                                                                         *)
(* Times are microseconds of esp_timer_get_time(), distances the           *)
(* millimetres the ultrasonic sensor reports (the code divides by 10.0f).  *)
(* The clock moves over the instants of Clock; a sleeping task is woken at *)
(* the first instant Clock offers after its delay, at most Lateness late.  *)
(***************************************************************************)
EXTENDS Integers, Sequences

CONSTANTS
  Readings,       \* distances the sensor can report, in mm
  Derivatives,    \* values of the PID's derivative term, in twentieths
  QueueLength,    \* depth of q_distance_pid
  LoopDelay,      \* xFrequency, the vTaskDelay at the end of a turn
  RotateDelay,    \* the vTaskDelay of a rotation
  Lateness,       \* how long after its delay a task may be scheduled
  Clock,          \* the instants at which time is observed
  BootTimes       \* instants at which motor_task may be created

Second == 1000000
StallWindow == 3 * Second     \* the least that check_distance takes for a stall

(* time_sync sleeps 3 s before app_main creates the task; the rotation and *)
(* the turn after it fit in the stall window of three whole seconds.       *)
ASSUME MotorAssumption ==
  /\ Readings \subseteq Nat /\ Derivatives \subseteq Int
  /\ QueueLength \in Nat /\ Lateness \in Nat
  /\ LoopDelay \in Nat \ {0} /\ RotateDelay \in Nat \ {0}
  /\ Clock \subseteq Nat /\ BootTimes \subseteq Clock \ {0}
  /\ LoopDelay + RotateDelay + 2 * Lateness < StallWindow

VARIABLES
  now,                \* esp_timer_get_time()
  pc,                 \* "loop": before a turn, "rotating": inside the 800 ms delay
  wake,               \* the instant the pending vTaskDelay expires
  Main_motors_state,
  prev_time,          \* static of check_distance: last movement seen
  curr_time,          \* static of check_distance: its last call
  distance,           \* static distance_cm of motor_task
  prev_measurement,   \* PID_controler.prev_measurement
  pins,               \* the force level of each generator, "pwm" when released
  duty,               \* the compare value both comparators hold
  q_distance_pid

motorVars == <<pc, wake, Main_motors_state, prev_time, curr_time, distance,
               prev_measurement, pins, duty>>
vars == <<now, motorVars, q_distance_pid>>

-----------------------------------------------------------------------------
(* Pure parts of the controller                                            *)

Abs(x) == IF x < 0 THEN -x ELSE x
Clamp(x, low, high) == IF x < low THEN low ELSE IF x > high THEN high ELSE x
Truncate(x, d) == IF x < 0 THEN -((-x) \div d) ELSE x \div d  \* C's integer cast

MOTOR_POWERS == 200

(* Mutant: the PWM level is not scaled to the ticks of a period.           *)
UnscaledTicks(percent) ==
  IF percent = 0 THEN 0 ELSE Clamp(190 + (Abs(percent) * 65) \div 255, 0, 235)

percent_into_ticks(percent) ==
  IF percent = 0 THEN 0
  ELSE (Clamp(190 + (Abs(percent) * 65) \div 255, 0, 235) * MOTOR_POWERS) \div 255

(* |prev - curr| > 2.0f in centimetres; at exactly 20 mm the rounding of   *)
(* the two floats decides.                                                 *)
MovedOutcomes(prev, curr) ==
  IF Abs(prev - curr) = 20 THEN BOOLEAN ELSE {Abs(prev - curr) > 20}

(* Kp = 0.5, Ki = 0, setpoint 10 cm: the proportional term is one          *)
(* twentieth of the error in mm, the integrator stays 0; the derivative is *)
(* some member of Derivatives. The sum is limited to +-235 and cut to an   *)
(* integer.                                                                *)
pid_controler_update(measurement) ==
  {Clamp(Truncate(measurement - 100 + d, 20), -235, 235) : d \in Derivatives}

Pins(in1, in2, in3, in4) == [IN1 |-> in1, IN2 |-> in2, IN3 |-> in3, IN4 |-> in4]

(* What dc_motor_init leaves: every generator follows the PWM.             *)
Released  == Pins("pwm", "pwm", "pwm", "pwm")
Stopped   == Pins("low", "low", "low", "low")
Forward   == Pins("pwm", "low", "pwm", "low")
Backward  == Pins("low", "pwm", "low", "pwm")
TurnLeft  == Pins("low", "pwm", "pwm", "low")
TurnRight == Pins("pwm", "low", "low", "pwm")

(* Mutant: a speed of zero stops the motors before the state is looked at. *)
StopsFirst(state, percent) ==
  IF percent = 0 THEN Stopped
  ELSE IF state = "ROTATE" THEN IF percent > 0 THEN TurnLeft ELSE TurnRight
  ELSE IF percent > 0 THEN Forward ELSE Backward

PinsFor(state, percent) ==
  IF state = "ROTATE"
  THEN IF percent > 0 THEN TurnLeft ELSE TurnRight
  ELSE IF percent = 0 THEN Stopped ELSE IF percent > 0 THEN Forward ELSE Backward

-----------------------------------------------------------------------------
(* The steps of the task                                                   *)

motors_control(state, percent) ==
  /\ duty' = percent_into_ticks(percent)
  /\ pins' = PinsFor(state, percent)

(* Mutants: other limits for the seconds without movement.                 *)
StuckAfterFour == (curr_time - prev_time) \div Second > 3
StuckAfterOne == (curr_time - prev_time) \div Second > 0

(* The return value of check_distance, from the times of earlier calls     *)
(* (C's division and \div agree on being above 2).                         *)
Stuck == (curr_time - prev_time) \div Second > 2

(* Mutant: finding the car stuck does not restart the window.              *)
WindowGoesOn(moved) ==
  /\ prev_time' = IF moved THEN now ELSE prev_time
  /\ curr_time' = IF Stuck THEN curr_time ELSE now

check_distance(moved) ==
  /\ prev_time' = IF Stuck \/ moved THEN now ELSE prev_time
  /\ curr_time' = IF Stuck THEN curr_time ELSE now

(* Mutants: all that is in the queue is taken and the last reading used;   *)
(* the reading stays in the queue (xQueuePeek).                            *)
PeekQueue ==
  /\ distance' = IF q_distance_pid = <<>> THEN distance ELSE Head(q_distance_pid)
  /\ UNCHANGED q_distance_pid

DrainQueue ==
  /\ q_distance_pid' = <<>>
  /\ distance' = IF q_distance_pid = <<>> THEN distance
                 ELSE q_distance_pid[Len(q_distance_pid)]

(* xQueueReceive(q_distance_pid, &distance_cm, 0): an empty queue leaves   *)
(* the old distance.                                                       *)
ReceiveDistance ==
  \/ /\ q_distance_pid # <<>>
     /\ distance' = Head(q_distance_pid)
     /\ q_distance_pid' = Tail(q_distance_pid)
  \/ /\ q_distance_pid = <<>>
     /\ UNCHANGED <<distance, q_distance_pid>>

Sleep(delay) == wake' = now + delay

Init ==
  /\ now \in BootTimes /\ wake = now /\ pc = "loop"
  /\ Main_motors_state = "FORWARD_BACKWARD"
  /\ prev_time = 0 /\ curr_time = 0
  /\ distance = 0 /\ prev_measurement = 0
  /\ pins = Released /\ duty = 0
  /\ q_distance_pid = <<>>

(* One turn in MOTORS_FORWARD_BACKWARD. The state a stall sets is the one  *)
(* motors_control sees in the same turn.                                   *)
DriveTurn ==
  /\ pc = "loop" /\ now >= wake
  /\ Main_motors_state = "FORWARD_BACKWARD"
  /\ ReceiveDistance
  /\ \E moved \in MovedOutcomes(prev_measurement, distance') : check_distance(moved)
  /\ Main_motors_state' = IF Stuck THEN "ROTATE" ELSE Main_motors_state
  /\ \E speed \in pid_controler_update(distance') :
       motors_control(Main_motors_state', speed)
  /\ prev_measurement' = distance'
  /\ Sleep(LoopDelay)
  /\ UNCHANGED <<now, pc>>

(* A turn in MOTORS_ROTATE up to its long delay.                           *)
RotateBegin ==
  /\ pc = "loop" /\ now >= wake
  /\ Main_motors_state = "ROTATE"
  /\ ReceiveDistance
  /\ motors_control("ROTATE", 80)
  /\ pc' = "rotating"
  /\ Sleep(RotateDelay)
  /\ UNCHANGED <<now, Main_motors_state, prev_time, curr_time, prev_measurement>>

(* Mutant: the state stays MOTORS_ROTATE.                                  *)
RotatesAgain ==
  /\ pc = "rotating" /\ now >= wake
  /\ \E moved \in MovedOutcomes(10, 15) : check_distance(moved)
  /\ pc' = "loop"
  /\ Sleep(LoopDelay)
  /\ UNCHANGED <<now, Main_motors_state, distance, prev_measurement, pins, duty,
                 q_distance_pid>>

(* After the delay: check_distance(1.0f, 1.5f), whose result is ignored.   *)
RotateEnd ==
  /\ pc = "rotating" /\ now >= wake
  /\ \E moved \in MovedOutcomes(10, 15) : check_distance(moved)
  /\ Main_motors_state' = "FORWARD_BACKWARD"
  /\ pc' = "loop"
  /\ Sleep(LoopDelay)
  /\ UNCHANGED <<now, distance, prev_measurement, pins, duty, q_distance_pid>>

MotorStep == DriveTurn \/ RotateBegin \/ RotateEnd

(* The environment: uart_task sends a reading, which is dropped when the   *)
(* queue is full (timeout 0); time passes.                                 *)
NewReading(mm) ==
  /\ Len(q_distance_pid) < QueueLength
  /\ q_distance_pid' = Append(q_distance_pid, mm)
  /\ UNCHANGED <<now, motorVars>>

Advance ==
  /\ \E t \in Clock : now < t /\ t <= wake + Lateness /\ now' = t
  /\ UNCHANGED <<motorVars, q_distance_pid>>

(* The bounded clock of a model-checking run has come to its last instant. *)
ClockEnds ==
  /\ \A t \in Clock : t <= now
  /\ UNCHANGED vars

Next ==
  \/ MotorStep
  \/ \E mm \in Readings : NewReading(mm)
  \/ Advance
  \/ ClockEnds

Spec == Init /\ [][Next]_vars

-----------------------------------------------------------------------------
(* Properties                                                              *)

AllPins == {Released, Stopped, Forward, Backward, TurnLeft, TurnRight}
Spinning == pins \in {TurnLeft, TurnRight}

(* The values the task's state ranges over; in particular the compare      *)
(* value never exceeds the PWM period, which mcpwm_comparator_set_compare_ *)
(* value would reject and ESP_ERROR_CHECK turn into a reboot.              *)
TypeOK ==
  /\ now \in Clock /\ wake \in Nat
  /\ pc \in {"loop", "rotating"}
  /\ Main_motors_state \in {"FORWARD_BACKWARD", "ROTATE"}
  /\ prev_time \in Nat /\ curr_time \in Nat
  /\ distance \in Nat /\ prev_measurement \in Nat
  /\ pins \in AllPins /\ duty \in 0..(MOTOR_POWERS - 1)
  /\ q_distance_pid \in Seq(Readings)

(* The car never spins for longer than one rotation, the two turns around  *)
(* it and their scheduling delays, counted from the turn that found it     *)
(* stuck: the rotation always hands back to driving.                       *)
SpinIsBounded ==
  Spinning => now <= prev_time + RotateDelay + 2 * LoopDelay + 3 * Lateness

(* Once the task has seen a movement (or finished a rotation), a car that  *)
(* stands still in driving mode is found stuck within three seconds and    *)
(* two turns: check_distance's use of the time of its previous call delays *)
(* the verdict by no more than that.                                       *)
StallIsNoticed ==
  (Main_motors_state = "FORWARD_BACKWARD" /\ prev_time # 0)
    => now - prev_time <= StallWindow + 2 * (LoopDelay + Lateness)

(* While the state is MOTORS_ROTATE the wheels turn against each other,    *)
(* from the very turn that found the car stuck: it is never driven at the  *)
(* obstacle again before the rotation.                                     *)
NeverStraightWhileRotating ==
  Main_motors_state = "ROTATE" => Spinning

(* The check_distance call that ends a rotation and ignores the result     *)
(* never swallows a stall: it would have to return true.                   *)
NoStallSwallowed == pc = "rotating" => ~Stuck

(* Two rotations are always separated by at least one turn of straight     *)
(* driving (or stopping): the car does not spin on the spot for ever.      *)
NoSpinAfterSpin ==
  [][Main_motors_state = "FORWARD_BACKWARD" /\ Main_motors_state' = "ROTATE"
       => ~Spinning]_vars

-----------------------------------------------------------------------------
(* What a comment of the code says and the code does not do                *)

(* "if stand in one place more than 2 second" (line 247): the task has     *)
(* been running for more than two seconds when it first finds the car      *)
(* stuck. prev_time starts at 0, which is the reset and not the creation   *)
(* of the task.                                                            *)
StuckNeedsWatching ==
  [][Main_motors_state = "FORWARD_BACKWARD" /\ Main_motors_state' = "ROTATE"
       => \E boot \in BootTimes : now - boot > 2 * Second]_vars
=============================================================================
