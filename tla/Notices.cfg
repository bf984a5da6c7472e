SPECIFICATION NoticesFairSpec
CONSTANTS
  Checked = {h}
  Watched = {f}
  Bills = {b}
  Job = Job
  Chats = 2
  Retries = 1
  MaxHistory = 4
  MaxInputs = 2
  MaxFaults = 2
  MaxCrashes = 1
INVARIANTS  ReminderOnce ConfirmedOnce
PROPERTIES NoticesSettle
CHECK_DEADLOCK FALSE
