----------------------------- MODULE Gyroscope ------------------------------
(***************************************************************************)
(* gyroscope_accelerometer_task (tasks/angles_task.c): calibration and     *)
(* sampling over the bus I2C1, and the queue to the display. The filter    *)
(* that makes angles of a sample is left out: what is sent is a text of    *)
(* any of its lengths. The sensor answers or not as long as it likes.      *)
(***************************************************************************)
EXTENDS Integers, Sequences

CONSTANTS
  CALIBRATION_SAMPLES,
  AngleLens,   \* the lengths of the three angles
  AngleLen     \* the length of q_angle

GyroAssumption ==
  CALIBRATION_SAMPLES \in Nat \ {0} /\ AngleLen \in Nat \ {0}

VARIABLES
  sensor_ok,   \* the sensor answers
  m_I2C1,      \* the mutex is taken
  gyro,        \* the place of the task
  i,           \* the samples of the calibration so far, failed ones included
  q_angle

gyroVars == <<m_I2C1, gyro, i>>

Init ==
  /\ sensor_ok \in BOOLEAN /\ m_I2C1 = FALSE /\ gyro = "calibrate" /\ i = 0
  /\ q_angle = <<>>

SensorChanges == sensor_ok' = ~sensor_ok /\ UNCHANGED <<gyroVars, q_angle>>

Take ==
  /\ ~m_I2C1 /\ m_I2C1' = TRUE
  /\ \/ gyro = "calibrate" /\ gyro' = "calibrating"
     \/ gyro = "sample" /\ gyro' = "sampling"
  /\ UNCHANGED <<sensor_ok, i, q_angle>>

(* One of the readings of the calibration, successful or not: both count.  *)
Calibrate ==
  /\ gyro = "calibrating" /\ m_I2C1' = FALSE
  /\ i' = i + 1 /\ gyro' = IF i' = CALIBRATION_SAMPLES THEN "sample" ELSE "calibrate"
  /\ UNCHANGED <<sensor_ok, q_angle>>

Read ==
  /\ gyro = "sampling" /\ sensor_ok
  /\ m_I2C1' = FALSE /\ gyro' = "send"
  /\ UNCHANGED <<sensor_ok, i, q_angle>>

(* Mutant: the error leaves the loop before the mutex is given back.       *)
ErrorKeepsMutex ==
  /\ gyro = "sampling" /\ ~sensor_ok /\ gyro' = "sample"
  /\ UNCHANGED <<sensor_ok, m_I2C1, i, q_angle>>

(* The loop goes on without a sample and without a pause.                  *)
ReadError ==
  /\ gyro = "sampling" /\ ~sensor_ok
  /\ m_I2C1' = FALSE /\ gyro' = "sample"
  /\ UNCHANGED <<sensor_ok, i, q_angle>>

(* The angles are dropped when the queue is still full after 10 ms.        *)
SendAngles ==
  /\ gyro = "send" /\ gyro' = "sample"
  /\ IF Len(q_angle) < AngleLen
     THEN \E len \in AngleLens : q_angle' = Append(q_angle, len)
     ELSE UNCHANGED q_angle
  /\ UNCHANGED <<sensor_ok, m_I2C1, i>>

GyroStep == Take \/ Calibrate \/ Read \/ ReadError \/ SendAngles
=============================================================================
