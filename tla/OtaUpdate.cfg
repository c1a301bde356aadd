SPECIFICATION FairSpec
CONSTANTS
  old = old
  good = good
  mute = mute
  torn = torn
  Images <- MCImages
  Connecting <- MCConnecting
  First = old
  Torn = torn
  Blocks = 2
  UnknownSize = 4000
  LevelLen = 2
INVARIANTS
  StaysUpdatable
  ShowsOwnProgress
PROPERTIES
  ImplementsUpdate
  UnreachableIsReplaced
  RequestIsServed
  ProgressNeverFalls
  BootEnds
