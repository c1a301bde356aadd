SPECIFICATION Spec
CONSTANTS
  Readings = {60, 80, 105, 300}
  Derivatives = {0, 30}
  QueueLength = 2
  LoopDelay = 250000
  RotateDelay = 750000
  Lateness = 250000
  Clock <- MCClock
  BootTimes <- MCBootTimes
INVARIANTS
  TypeOK
  SpinIsBounded
  StallIsNoticed
  NeverStraightWhileRotating
  NoStallSwallowed
PROPERTY
  NoSpinAfterSpin
