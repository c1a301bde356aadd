SPECIFICATION FairSpec
CONSTANTS
  no_event = no_event
  None = no_event
  Topics <- MCTopics
  Payloads <- MCPayloads
  QueueLen = 2
  ServoDelay = 1
  Lateness = 1
  Clock <- MCClock
INVARIANTS
  AnglesAreTimely
  LastAngleWins
PROPERTY
  EventsAreHandled
