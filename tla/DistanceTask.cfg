SPECIFICATION Spec
CONSTANTS
  Readings = {60, 300}
  QueueLength = 2
  ReadDelay = 30000
  ReadTimeout = 100000
  PauseDelay = 100000
  SensorMax = 220000
  Lateness = 10000
  Clock <- MCClock
  BootTimes <- MCBootTimes
INVARIANTS
  TypeOK
  AsksRegularly
PROPERTIES
  ReadingAnswersQuestion
  NeverAsksTwice
