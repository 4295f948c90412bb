CONSTANTS
  cron = cron
  j1 = j1
  Accounts = 1
  Guarded = {1}
  SeesItself = TRUE
  CronJob = cron
  OtherJob = {j1}
  Initially = {{}, {1}}
  Records = {0, 1}
  MaxChanges = 2
SPECIFICATION FairSpec
INVARIANTS TypeOK
PROPERTIES StaysStopped  DisabledStops KillsEnd
CHECK_DEADLOCK FALSE
