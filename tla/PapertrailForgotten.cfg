SPECIFICATION Spec
CONSTANTS
  wifi = wifi
  motor = motor
  LogsTask = logs_task
  None = none
  Caller = {wifi}
  MaxLogs = 1
  QueueLength = 2
  EARLY_LOG_BUF_SIZE = 3
  Reloads = FALSE
  LinkMayFail = TRUE
PROPERTIES
  EarlyLogsAreSent
