------------------------- MODULE MotorControlProofs -------------------------
(* Theorems about motor_task for every clock, every set of readings and    *)
(* all delays that satisfy MotorAssumption, those of the code (20 ms and   *)
(* 800 ms) among them.                                                     *)
EXTENDS MotorControl, SequenceTheorems, TLAPS

(* Where the task is in its cycle of driving, finding itself stuck and     *)
(* rotating, and what its clocks say there. The stall sets prev_time but   *)
(* not curr_time, so curr_time <= prev_time until the rotation ends.       *)
FoundStuck ==
  Main_motors_state = "ROTATE" /\ pc = "loop"
    => /\ Spinning
       /\ curr_time <= prev_time
       /\ wake <= prev_time + LoopDelay

Rotating ==
  pc = "rotating"
    => /\ Main_motors_state = "ROTATE"
       /\ Spinning
       /\ curr_time <= prev_time
       /\ wake <= prev_time + LoopDelay + Lateness + RotateDelay

Driving ==
  Main_motors_state = "FORWARD_BACKWARD" /\ prev_time # 0
    => /\ wake = curr_time + LoopDelay
       /\ curr_time - prev_time < StallWindow + LoopDelay + Lateness
       /\ Spinning =>
            curr_time <= prev_time + LoopDelay + RotateDelay + 2 * Lateness

NotYetMoved == prev_time = 0 => ~Spinning

Clocks ==
  /\ prev_time <= now /\ curr_time <= now
  /\ now <= wake + Lateness

IInv == TypeOK /\ Clocks /\ FoundStuck /\ Rotating /\ Driving /\ NotYetMoved

-----------------------------------------------------------------------------
(* The compare value stays inside the PWM period for every speed.          *)
LEMMA TicksInPeriod ==
  ASSUME NEW percent \in -255..255
  PROVE  percent_into_ticks(percent) \in 0..(MOTOR_POWERS - 1)
BY DEF percent_into_ticks, Clamp, Abs, MOTOR_POWERS

(* Every speed the PID controller returns is within +-235.                 *)
LEMMA SpeedBounded ==
  ASSUME NEW mm \in Nat, NEW speed \in pid_controler_update(mm)
  PROVE  speed \in -235..235
<1>1. PICK d \in Derivatives :
        speed = Clamp(Truncate(mm - 100 + d, 20), -235, 235)
  BY DEF pid_controler_update
<1>2. d \in Int
  BY MotorAssumption DEF MotorAssumption
<1>3. Truncate(mm - 100 + d, 20) \in Int
  BY <1>2 DEF Truncate
<1> QED
  BY <1>1, <1>3 DEF Clamp

(* The invariant holds when motor_task is created.                         *)
LEMMA IInvInit == Init => IInv
<1> SUFFICES ASSUME Init PROVE IInv
  OBVIOUS
<1>1. now \in Clock /\ now \in Nat /\ now # 0
  BY MotorAssumption DEF Init, MotorAssumption
<1>2. ~Spinning
  BY DEF Init, Spinning, Released, TurnLeft, TurnRight, Pins
<1> QED
  BY <1>1, <1>2, MotorAssumption
  DEF MotorAssumption, Init, IInv, TypeOK, Clocks, FoundStuck, Rotating, Driving, NotYetMoved,
      AllPins, MOTOR_POWERS

(* What motors_control sets is a legal pin pattern and a legal compare     *)
(* value, and in MOTORS_ROTATE the wheels turn against each other.         *)
LEMMA MotorsControlled ==
  ASSUME NEW state \in {"FORWARD_BACKWARD", "ROTATE"},
         NEW speed \in -255..255,
         motors_control(state, speed)
  PROVE  /\ pins' \in AllPins
         /\ duty' \in 0..(MOTOR_POWERS - 1)
         /\ state = "ROTATE" => Spinning'
         /\ state = "FORWARD_BACKWARD" => ~Spinning'
<1>1. duty' \in 0..(MOTOR_POWERS - 1)
  <2>1. duty' = percent_into_ticks(speed)
    BY DEF motors_control
  <2> QED
    BY <2>1, TicksInPeriod
<1>2. pins' = PinsFor(state, speed)
  BY DEF motors_control
<1>3. PinsFor(state, speed) \in
        IF state = "ROTATE" THEN {TurnLeft, TurnRight}
        ELSE {Forward, Backward, Stopped}
  BY DEF PinsFor
<1>4. {Forward, Backward, Stopped} \cap {TurnLeft, TurnRight} = {}
  BY DEF Forward, Backward, Stopped, TurnLeft, TurnRight, Pins
<1> QED
  BY <1>1, <1>2, <1>3, <1>4 DEF AllPins, Spinning

(* A reading taken from the queue leaves both well typed.                  *)
LEMMA Received ==
  ASSUME TypeOK, ReceiveDistance
  PROVE  distance' \in Nat /\ q_distance_pid' \in Seq(Readings)
<1>1. distance \in Nat /\ q_distance_pid \in Seq(Readings)
  BY DEF TypeOK
<1>2. CASE q_distance_pid # <<>>
  <2>1. Head(q_distance_pid) \in Readings /\ Tail(q_distance_pid) \in Seq(Readings)
    BY <1>1, <1>2, HeadTailProperties
  <2>2. distance' = Head(q_distance_pid) /\ q_distance_pid' = Tail(q_distance_pid)
    BY <1>2 DEF ReceiveDistance
  <2> QED
    BY <2>1, <2>2, MotorAssumption DEF MotorAssumption
<1>3. CASE q_distance_pid = <<>>
  BY <1>1, <1>3 DEF ReceiveDistance
<1> QED
  BY <1>2, <1>3

(* The comparison of two readings is a truth value.                        *)
LEMMA MovedIsBoolean ==
  ASSUME NEW prev, NEW curr, NEW moved \in MovedOutcomes(prev, curr)
  PROVE  moved \in BOOLEAN
<1>1. CASE Abs(prev - curr) = 20
  BY <1>1 DEF MovedOutcomes
<1>2. CASE Abs(prev - curr) # 20
  <2>1. moved = (Abs(prev - curr) > 20)
    BY <1>2, Zenon DEF MovedOutcomes
  <2>2. (Abs(prev - curr) > 20) \in BOOLEAN
    OBVIOUS
  <2> QED
    BY <2>1, <2>2, Zenon
<1> QED
  BY <1>1, <1>2

(* check_distance moves prev_time and curr_time to now or leaves them.     *)
LEMMA Checked ==
  ASSUME TypeOK, NEW moved \in BOOLEAN, check_distance(moved)
  PROVE  /\ prev_time' \in {prev_time, now} /\ curr_time' \in {curr_time, now}
         /\ Stuck => prev_time' = now /\ curr_time' = curr_time
         /\ ~Stuck => curr_time' = now
BY DEF check_distance

(* A stall means three whole seconds between the task's clocks.            *)
LEMMA StuckMeansThreeSeconds ==
  ASSUME TypeOK
  PROVE  Stuck <=> curr_time - prev_time >= StallWindow
BY SMT DEF TypeOK, Stuck, StallWindow, Second

LEMMA StallWindowIsNat == StallWindow \in Nat \ {0}
BY SMT DEF StallWindow, Second

LEMMA DriveTurnKeepsIInv ==
  ASSUME IInv, DriveTurn
  PROVE  IInv'
<1>1. TypeOK /\ Clocks /\ Driving /\ NotYetMoved
  BY DEF IInv
<1>2. /\ pc = "loop" /\ now >= wake /\ Main_motors_state = "FORWARD_BACKWARD"
      /\ wake' = now + LoopDelay /\ now' = now /\ pc' = pc
      /\ prev_measurement' = distance'
      /\ Main_motors_state' = IF Stuck THEN "ROTATE" ELSE Main_motors_state
  BY DEF DriveTurn, Sleep
<1>3. distance' \in Nat /\ q_distance_pid' \in Seq(Readings)
  BY <1>1, Received DEF DriveTurn
<1>4. /\ prev_time' \in {prev_time, now} /\ curr_time' \in {curr_time, now}
      /\ Stuck => prev_time' = now /\ curr_time' = curr_time
      /\ ~Stuck => curr_time' = now
  <2>1. PICK moved \in MovedOutcomes(prev_measurement, distance') :
          check_distance(moved)
    BY DEF DriveTurn
  <2>2. moved \in BOOLEAN
    BY <2>1, MovedIsBoolean
  <2> QED
    BY <1>1, <2>1, <2>2, Checked
<1>5. /\ pins' \in AllPins /\ duty' \in 0..(MOTOR_POWERS - 1)
      /\ Main_motors_state' = "ROTATE" => Spinning'
      /\ Main_motors_state' = "FORWARD_BACKWARD" => ~Spinning'
  <2>1. PICK speed \in pid_controler_update(distance') :
          motors_control(Main_motors_state', speed)
    BY DEF DriveTurn
  <2>2. speed \in -255..255
    <3>1. speed \in -235..235
      BY <2>1, <1>3, SpeedBounded
    <3> QED
      BY <3>1
  <2>3. Main_motors_state' \in {"FORWARD_BACKWARD", "ROTATE"}
    BY <1>2
  <2> QED
    BY <2>1, <2>2, <2>3, MotorsControlled
<1>6. /\ now \in Nat /\ prev_time \in Nat /\ curr_time \in Nat /\ wake \in Nat
      /\ LoopDelay \in Nat \ {0} /\ Lateness \in Nat /\ StallWindow \in Nat \ {0}
  BY <1>1, StallWindowIsNat, MotorAssumption DEF TypeOK, MotorAssumption
<1>7. TypeOK'
  BY <1>1, <1>2, <1>3, <1>4, <1>5, <1>6 DEF TypeOK
<1>8. Clocks'
  BY <1>1, <1>2, <1>4, <1>6 DEF Clocks
<1>9. FoundStuck'
  <2>1. CASE Stuck
    BY <1>1, <1>2, <1>4, <1>5, <1>6, <2>1 DEF FoundStuck, Clocks
  <2>2. CASE ~Stuck
    BY <1>2, <2>2 DEF FoundStuck
  <2> QED
    BY <2>1, <2>2
<1>10. Rotating'
  BY <1>2 DEF Rotating
<1>11. Driving'
  <2>1. CASE Stuck
    BY <1>2, <2>1 DEF Driving
  <2>2. CASE ~Stuck
    <3>1. curr_time' = now /\ ~Spinning' /\ wake' = curr_time' + LoopDelay
      BY <1>2, <1>4, <1>5, <2>2
    <3>2. prev_time' # 0 => curr_time' - prev_time' < StallWindow + LoopDelay + Lateness
      <4>1. CASE prev_time' = now
        BY <1>6, <3>1, <4>1
      <4>2. CASE prev_time' = prev_time /\ prev_time # 0
        <5>1. curr_time - prev_time < StallWindow
          BY <1>1, <1>6, <2>2, StuckMeansThreeSeconds
        <5>2. now <= curr_time + LoopDelay + Lateness
          BY <1>1, <1>2, <1>6, <4>2 DEF Driving, Clocks
        <5> QED
          BY <1>6, <3>1, <4>2, <5>1, <5>2
      <4> QED
        BY <1>4, <4>1, <4>2
    <3> QED
      BY <3>1, <3>2 DEF Driving
  <2> QED
    BY <2>1, <2>2
<1>12. NotYetMoved'
  BY <1>1, <1>2, <1>4, <1>5, <1>6, StuckMeansThreeSeconds DEF NotYetMoved, Clocks, TypeOK
<1> QED
  BY <1>7, <1>8, <1>9, <1>10, <1>11, <1>12 DEF IInv

LEMMA RotateBeginKeepsIInv ==
  ASSUME IInv, RotateBegin
  PROVE  IInv'
<1>1. TypeOK /\ Clocks /\ FoundStuck /\ NotYetMoved
  BY DEF IInv
<1>2. /\ pc = "loop" /\ now >= wake /\ Main_motors_state = "ROTATE"
      /\ wake' = now + RotateDelay /\ pc' = "rotating"
      /\ UNCHANGED <<now, Main_motors_state, prev_time, curr_time, prev_measurement>>
  BY DEF RotateBegin, Sleep
<1>3. distance' \in Nat /\ q_distance_pid' \in Seq(Readings)
  BY <1>1, Received DEF RotateBegin
<1>4. pins' \in AllPins /\ duty' \in 0..(MOTOR_POWERS - 1) /\ Spinning'
  <2>1. motors_control("ROTATE", 80)
    BY DEF RotateBegin
  <2>2. 80 \in -255..255
    OBVIOUS
  <2> QED
    BY <2>1, <2>2, MotorsControlled
<1>5. /\ now \in Nat /\ prev_time \in Nat /\ curr_time \in Nat /\ wake \in Nat
      /\ LoopDelay \in Nat /\ RotateDelay \in Nat /\ Lateness \in Nat
  BY <1>1, MotorAssumption DEF TypeOK, MotorAssumption
<1>6. TypeOK'
  BY <1>1, <1>2, <1>3, <1>4, <1>5 DEF TypeOK
<1>7. Clocks'
  BY <1>1, <1>2, <1>5 DEF Clocks
<1>8. FoundStuck' /\ Driving'
  BY <1>2 DEF FoundStuck, Driving
<1>9. Rotating'
  BY <1>1, <1>2, <1>4, <1>5 DEF Rotating, FoundStuck, Clocks
<1>10. NotYetMoved'
  BY <1>1, <1>2 DEF NotYetMoved, FoundStuck
<1> QED
  BY <1>6, <1>7, <1>8, <1>9, <1>10 DEF IInv

LEMMA RotateEndKeepsIInv ==
  ASSUME IInv, RotateEnd
  PROVE  IInv'
<1>1. TypeOK /\ Clocks /\ Rotating /\ NotYetMoved
  BY DEF IInv
<1>2. /\ pc = "rotating" /\ now >= wake
      /\ Main_motors_state' = "FORWARD_BACKWARD" /\ pc' = "loop"
      /\ wake' = now + LoopDelay
      /\ UNCHANGED <<now, distance, prev_measurement, pins, duty, q_distance_pid>>
  BY DEF RotateEnd, Sleep
<1>3. /\ now \in Nat /\ prev_time \in Nat /\ curr_time \in Nat /\ wake \in Nat
      /\ LoopDelay \in Nat \ {0} /\ RotateDelay \in Nat /\ Lateness \in Nat
      /\ StallWindow \in Nat \ {0}
      /\ LoopDelay + RotateDelay + 2 * Lateness < StallWindow
  BY <1>1, StallWindowIsNat, MotorAssumption DEF TypeOK, MotorAssumption
<1>4. Spinning /\ Spinning'
  BY <1>1, <1>2 DEF Rotating, Spinning
<1>5. /\ curr_time <= prev_time
      /\ now <= prev_time + LoopDelay + RotateDelay + 2 * Lateness
  BY <1>1, <1>2, <1>3 DEF Rotating, Clocks
<1>6. prev_time' \in {prev_time, now} /\ curr_time' = now
  <2>1. ~Stuck
    BY <1>1, <1>3, <1>5, StuckMeansThreeSeconds
  <2>2. PICK moved \in MovedOutcomes(10, 15) : check_distance(moved)
    BY DEF RotateEnd
  <2> QED
    BY <1>1, <2>1, <2>2, MovedIsBoolean, Checked
<1>7. TypeOK'
  BY <1>1, <1>2, <1>3, <1>6 DEF TypeOK
<1>8. Clocks'
  BY <1>1, <1>2, <1>3, <1>6 DEF Clocks
<1>9. FoundStuck' /\ Rotating'
  BY <1>2 DEF FoundStuck, Rotating
<1>10. Driving'
  <2>1. /\ curr_time' <= prev_time' + LoopDelay + RotateDelay + 2 * Lateness
        /\ curr_time' - prev_time' < StallWindow + LoopDelay + Lateness
    <3>1. CASE prev_time' = prev_time
      BY <1>3, <1>5, <1>6, <3>1
    <3>2. CASE prev_time' = now
      BY <1>3, <1>6, <3>2
    <3> QED
      BY <1>6, <3>1, <3>2
  <2>2. wake' = curr_time' + LoopDelay
    BY <1>2, <1>6
  <2> QED
    BY <2>1, <2>2 DEF Driving
<1>11. NotYetMoved'
  <2>1. prev_time # 0 /\ prev_time <= now
    BY <1>1, <1>4 DEF NotYetMoved, Clocks
  <2>2. prev_time' # 0
    BY <1>3, <1>6, <2>1
  <2> QED
    BY <2>2 DEF NotYetMoved
<1> QED
  BY <1>7, <1>8, <1>9, <1>10, <1>11 DEF IInv

LEMMA NewReadingKeepsIInv ==
  ASSUME IInv, NEW mm \in Readings, NewReading(mm)
  PROVE  IInv'
<1>1. /\ q_distance_pid' = Append(q_distance_pid, mm)
      /\ UNCHANGED <<now, motorVars>>
  BY DEF NewReading
<1>2. q_distance_pid' \in Seq(Readings)
  BY <1>1, AppendProperties DEF IInv, TypeOK
<1> QED
  BY <1>1, <1>2
  DEF motorVars, IInv, TypeOK, Clocks, FoundStuck, Rotating, Driving, NotYetMoved,
      Spinning

LEMMA AdvanceKeepsIInv ==
  ASSUME IInv, Advance
  PROVE  IInv'
<1>1. PICK t \in Clock : now < t /\ t <= wake + Lateness /\ now' = t
  BY DEF Advance
<1>2. UNCHANGED <<motorVars, q_distance_pid>>
  BY DEF Advance
<1>3. t \in Nat /\ now \in Nat
  BY MotorAssumption DEF MotorAssumption, IInv, TypeOK
<1>4. TypeOK'
  BY <1>1, <1>2 DEF IInv, TypeOK, motorVars
<1>5. Clocks'
  BY <1>1, <1>2, <1>3 DEF IInv, TypeOK, Clocks, motorVars
<1> QED
  BY <1>1, <1>2, <1>4, <1>5
  DEF motorVars, IInv, FoundStuck, Rotating, Driving, NotYetMoved, Spinning

(* The invariant is inductive.                                             *)
LEMMA IInvStep == IInv /\ [Next]_vars => IInv'
<1> SUFFICES ASSUME IInv, [Next]_vars PROVE IInv'
  OBVIOUS
<1>1. CASE DriveTurn
  BY <1>1, DriveTurnKeepsIInv
<1>2. CASE RotateBegin
  BY <1>2, RotateBeginKeepsIInv
<1>3. CASE RotateEnd
  BY <1>3, RotateEndKeepsIInv
<1>4. CASE \E mm \in Readings : NewReading(mm)
  BY <1>4, NewReadingKeepsIInv
<1>5. CASE Advance
  BY <1>5, AdvanceKeepsIInv
<1>6. CASE UNCHANGED vars
  BY <1>6
  DEF vars, motorVars, IInv, TypeOK, Clocks, FoundStuck, Rotating, Driving,
      NotYetMoved, Spinning
<1> QED
  BY <1>1, <1>2, <1>3, <1>4, <1>5, <1>6 DEF Next, MotorStep, ClockEnds

LEMMA IInvAlways == Spec => []IInv
BY IInvInit, IInvStep, PTL DEF Spec

-----------------------------------------------------------------------------
(* The state of motor_task keeps its types; the compare value stays within *)
(* the PWM period, so the ESP_ERROR_CHECKs of motors_control never reboot  *)
(* the car.                                                                *)
THEOREM TypeCorrect == Spec => []TypeOK
BY IInvAlways, PTL DEF IInv

(* A rotation ends: the wheels turn against each other for no longer than  *)
(* the rotation, two turns and three scheduling delays.                    *)
THEOREM SpinBounded == Spec => []SpinIsBounded
<1>1. ASSUME IInv PROVE SpinIsBounded
  <2> SUFFICES ASSUME Spinning
               PROVE  now <= prev_time + RotateDelay + 2 * LoopDelay + 3 * Lateness
    BY DEF SpinIsBounded
  <2>1. /\ now \in Nat /\ prev_time \in Nat /\ curr_time \in Nat /\ wake \in Nat
        /\ LoopDelay \in Nat /\ RotateDelay \in Nat /\ Lateness \in Nat
        /\ now <= wake + Lateness
    BY <1>1, MotorAssumption DEF IInv, TypeOK, Clocks, MotorAssumption
  <2>2. CASE pc = "rotating"
    BY <1>1, <2>1, <2>2 DEF IInv, Rotating
  <2>3. CASE pc = "loop" /\ Main_motors_state = "ROTATE"
    BY <1>1, <2>1, <2>3 DEF IInv, FoundStuck
  <2>4. CASE Main_motors_state = "FORWARD_BACKWARD"
    <3>1. prev_time # 0
      BY <1>1 DEF IInv, NotYetMoved
    <3> QED
      BY <1>1, <2>1, <2>4, <3>1 DEF IInv, Driving
  <2> QED
    BY <1>1, <2>2, <2>3, <2>4 DEF IInv, TypeOK
<1> QED
  BY <1>1, IInvAlways, PTL

(* A standing car is found stuck within three seconds and two turns.       *)
THEOREM StallNoticed == Spec => []StallIsNoticed
<1>1. ASSUME IInv PROVE StallIsNoticed
  <2> SUFFICES ASSUME Main_motors_state = "FORWARD_BACKWARD", prev_time # 0
               PROVE  now - prev_time <= StallWindow + 2 * (LoopDelay + Lateness)
    BY DEF StallIsNoticed
  <2>1. /\ now \in Nat /\ prev_time \in Nat /\ curr_time \in Nat /\ wake \in Nat
        /\ LoopDelay \in Nat /\ Lateness \in Nat /\ StallWindow \in Nat
        /\ now <= wake + Lateness
    BY <1>1, MotorAssumption, StallWindowIsNat
    DEF IInv, TypeOK, Clocks, MotorAssumption
  <2> QED
    BY <1>1, <2>1 DEF IInv, Driving
<1> QED
  BY <1>1, IInvAlways, PTL

(* From the turn that found the car stuck until the rotation is over, the  *)
(* wheels turn against each other.                                         *)
THEOREM NeverStraight == Spec => []NeverStraightWhileRotating
<1>1. IInv => NeverStraightWhileRotating
  BY DEF IInv, TypeOK, FoundStuck, Rotating, NeverStraightWhileRotating
<1> QED
  BY <1>1, IInvAlways, PTL

(* The ignored result of the check_distance call after a rotation is FALSE.*)
THEOREM StallNotSwallowed == Spec => []NoStallSwallowed
<1>1. ASSUME IInv PROVE NoStallSwallowed
  <2> SUFFICES ASSUME pc = "rotating" PROVE ~Stuck
    BY DEF NoStallSwallowed
  <2>1. prev_time \in Nat /\ curr_time \in Nat /\ curr_time <= prev_time
    BY <1>1 DEF IInv, TypeOK, Rotating
  <2> QED
    BY <1>1, <2>1, StuckMeansThreeSeconds, StallWindowIsNat DEF IInv
<1> QED
  BY <1>1, IInvAlways, PTL

(* Between two rotations the car drives straight or stops at least once.   *)
THEOREM SpinsAreSeparated == Spec => NoSpinAfterSpin
<1>1. ASSUME IInv, [Next]_vars,
             Main_motors_state = "FORWARD_BACKWARD", Main_motors_state' = "ROTATE"
      PROVE  ~Spinning
  <2>1. DriveTurn
    BY <1>1
    DEF Next, MotorStep, RotateBegin, RotateEnd, NewReading, Advance, ClockEnds,
        vars, motorVars
  <2>2. Stuck
    BY <1>1, <2>1 DEF DriveTurn
  <2>3. curr_time - prev_time >= StallWindow
    BY <1>1, <2>2, StuckMeansThreeSeconds DEF IInv
  <2>4. /\ prev_time \in Nat /\ curr_time \in Nat
        /\ LoopDelay \in Nat /\ RotateDelay \in Nat /\ Lateness \in Nat
        /\ StallWindow \in Nat
        /\ LoopDelay + RotateDelay + 2 * Lateness < StallWindow
    BY <1>1, MotorAssumption, StallWindowIsNat DEF IInv, TypeOK, MotorAssumption
  <2>5. prev_time = 0 => ~Spinning
    BY <1>1 DEF IInv, NotYetMoved
  <2>6. CASE prev_time # 0
    BY <1>1, <2>3, <2>4, <2>6 DEF IInv, Driving
  <2> QED
    BY <2>5, <2>6
<1> QED
  BY <1>1, IInvAlways, PTL DEF Spec, NoSpinAfterSpin
=============================================================================
