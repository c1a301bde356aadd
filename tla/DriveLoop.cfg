SPECIFICATION Spec
CONSTANTS
  Readings = {300}
  Derivatives = {0}
  QueueLength = 10
  LoopDelay = 20000
  RotateDelay = 800000
  ReadDelay = 30000
  ReadTimeout = 100000
  PauseDelay = 100000
  SensorMax = 30000
  Lateness = 0
  Clock <- MCClock
  BootTimes <- MCBootTimes
PROPERTIES
  ActsOnFreshReadings
  NoReadingDropped
  MotorSpec
  DistanceSpec
