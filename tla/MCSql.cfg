SPECIFICATION FairSpec
CONSTANTS
  t1 = t1
  t2 = t2
  m1 = m1
  m2 = m2
  b1 = b1
  b2 = b2
  e1 = e1
  e2 = e2
  e3 = e3
  e4 = e4
  Threads = {t1, t2}
  Calls = {m1, m2, b1, b2, e1, e2, e3, e4}
  Connections = {"id"}
  Shard <- MCShard
  Request <- MCRequest
  Casts <- MCCasts
  MaxCrashes = 1
  NoCall = NoCall
  NoAnswer = NoAnswer
  Nobody = Nobody
INVARIANTS TypeOK MigrationsRunOnce
PROPERTIES ImplementsAtomicSql EveryCallEnds
CHECK_DEADLOCK FALSE
