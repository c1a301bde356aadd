SPECIFICATION FairSpec
CONSTANTS
  wifi = wifi
  motor = motor
  LogsTask = logs_task
  None = none
  Caller = {wifi, motor}
  MaxLogs = 1
  QueueLength = 1
  EARLY_LOG_BUF_SIZE = 3
  Reloads = FALSE
  LinkMayFail = FALSE
INVARIANTS
  TypeOK
PROPERTIES
  LogCallsReturn
  SettledLogsAreSent
  AcceptedIsSent
