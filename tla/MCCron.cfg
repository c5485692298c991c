SPECIFICATION TimerSpec
CONSTANTS
  TaskIds <- MCTaskIds
  Triggers <- MCTriggers
  TaskOf <- MCTaskOf
  Schedule <- MCSchedule
  BadEndpoint <- MCBadEndpoint
  Configs <- MCConfigs
  MaxEntries = 3
  MaxTime = 2
  MaxEvents = 1
  MaxRestarts = 1
INVARIANTS TypeOK OneRunPerTask RunningTasksProgress ShownRunning
PROPERTIES ImplementsAtomicCron SchedulesGoOn
CHECK_DEADLOCK FALSE
