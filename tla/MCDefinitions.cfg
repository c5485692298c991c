SPECIFICATION FairSpec
CONSTANTS
  Functions = {"f", "g"}
  Configs = {"good", "inline", "cron", "env"}
  Codes = {"wasm", "bad"}
  Broken = {"bad"}
  Inline = {"inline"}
  ByPath = {"env"}
  InlineCode <- MCInlineCode
  EnvFile = {"env"}
  BadSchedule = {"cron"}
  Start <- MCStart
  Written <- MCWritten
  Rebuilt <- MCRebuilt
  Asked <- MCAsked
  Deploys = {"d"}
  MaxEdits = 2
  Nothing = Nothing
  Unparsable = Unparsable
  Missing = Missing
  Removed = Removed
  NoJob = NoJob
INVARIANTS TypeOK QuietMeansApplied CronFollowsWorkers RecordedIsRunning
PROPERTIES EditsAreApplied DeploysAreAnswered
CHECK_DEADLOCK FALSE
