SPECIFICATION Spec
CONSTANTS
  TaskIds <- MCTaskIds
  Triggers <- MCTriggers
  TaskOf <- MCTaskOf
  Schedule <- MCSchedule
  BadEndpoint <- MCBadEndpoint
  Configs <- MCBadConfigs
  MaxEntries = 2
  MaxTime = 1
  MaxEvents = 1
  MaxRestarts = 0
INVARIANT EarlyReturnsReschedule
CHECK_DEADLOCK FALSE
