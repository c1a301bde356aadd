SPECIFICATION FairSpec
CONSTANTS
  c0 = c0
  c1 = c1
  Core = {c0, c1}
  BootCore = c0
  Word = 2
  StartTimes <- MCStartTimes
  MaxAlarms = 4
INVARIANTS
  TypeOK
  LocalCopyIsExact
  NoTickLost
  NoSelfDeadlock
PROPERTIES
  ImplementsClock
  AlarmsAreServed
  CopiesEnd
