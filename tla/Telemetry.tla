----------------------------- MODULE Telemetry ------------------------------
(***************************************************************************)
(* gyroscope_accelerometer_task and oled_task together, through q_angle:   *)
(* the one samples as fast as it can, the other takes one text a turn.     *)
(***************************************************************************)
EXTENDS Integers, Sequences

CONSTANTS
  VersionLen, DistanceLens, TimeLens, Percents,  \* of oled_task
  CALIBRATION_SAMPLES, AngleLen,                 \* of the gyroscope
  AngleLens

VARIABLES
  oled, bits, drawn, distance_len, angle_len, ota_percent_uint,  \* of oled_task
  sensor_ok, m_I2C1, gyro, i,                                    \* of the gyroscope
  q_angle

Oled == INSTANCE OledTask
Gyro == INSTANCE Gyroscope

oledVars == <<oled, bits, drawn, distance_len, angle_len, ota_percent_uint>>
gyroVars == <<sensor_ok, m_I2C1, gyro, i>>
vars == <<oledVars, gyroVars, q_angle>>

ASSUME TelemetryAssumption == Oled!OledAssumption /\ Gyro!GyroAssumption

Init == Oled!Init /\ Gyro!Init

OledStep == Oled!OledStep /\ UNCHANGED gyroVars

GyroStep == (Gyro!GyroStep \/ Gyro!SensorChanges) /\ UNCHANGED oledVars

Next == OledStep \/ GyroStep

Spec == Init /\ [][Next]_vars

(* Neither task ever waits for the other, and each transfer ends.          *)
FairSpec ==
  /\ Spec /\ WF_vars(OledStep)
  /\ WF_vars(Gyro!GyroStep /\ UNCHANGED oledVars)

-----------------------------------------------------------------------------

FrameIsClean == Oled!FrameIsClean

(* The display goes on whatever becomes of the sensor.                     *)
FramesGoOn == []<>(oled = "send")

(* A sensor that answers again after any number of failures, in the        *)
(* calibration or later, is seen: new angles reach the display for ever.   *)
AnglesArrive ==
  <>[]sensor_ok => []<><<Oled!write_cord /\ q_angle # <<>>>>_vars
=============================================================================
