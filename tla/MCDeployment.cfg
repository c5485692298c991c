SPECIFICATION DeploymentFairSpec
CONSTANTS
  w1 = w1
  w2 = w2
  fnA = fnA
  fnB = fnB
  hostA = hostA
  Workers <- MCWorkers
  Functions <- MCFunctions
  Hosts <- MCHosts
  Listeners <- MCListeners
  AnyHost = AnyHost
  NoFunction = NoFunction
  MaxMessages = 3
  Configs = {"host", "any", "both", "cron"}
  ListenersOf <- MCListenersOf
  MayHang = {w2}
  Codes = {"wasm"}
  Broken = {}
  Inline = {}
  ByPath = {}
  InlineCode <- MCInlineCode
  EnvFile = {}
  BadSchedule = {"cron"}
  Start <- MCStart
  Written <- MCWritten
  Rebuilt <- MCRebuilt
  Asked <- MCAsked
  Deploys = {"d"}
  MaxEdits = 1
  Nothing = Nothing
  Unparsable = Unparsable
  Missing = Missing
  Removed = Removed
  NoJob = NoJob
INVARIANTS TypeOK RoutesResolve RemovedMeansGone TablesFollowMessages EditsAreServed
PROPERTIES HostsStayServed RemovalCompletes
CHECK_DEADLOCK FALSE
