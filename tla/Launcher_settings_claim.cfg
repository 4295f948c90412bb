CONSTANTS
  cron = cron
  j1 = j1
  Accounts = 2
  Guarded = {1}
  SeesItself = TRUE
  CronJob = cron
  OtherJob = {j1}
  Initially = {{1, 2}}
  Records = {}
  MaxChanges = 0
SPECIFICATION Spec
INVARIANTS OwnSettings
CHECK_DEADLOCK FALSE
