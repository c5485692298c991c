SPECIFICATION FairSpec
CONSTANTS
  c1 = c1
  c2 = c2
  c3 = c3
  s1 = s1
  s2 = s2
  p1 = p1
  lock = lock
  data = data
  chan = chan
  side = side
  Clients <- MCClients
  Keys <- MCKeys
  Channels <- MCChannels
  Values <- MCClients
  Requests <- MCRequests
  Casts <- MCCasts
  LockKeys = {lock}
  TicksPerMs = 2
  MaxTime = 3
  MaxPublished = 2
  Forever = 9
  Absent = Absent
  NoCall = NoCall
  NoChannel = NoChannel
INVARIANTS TypeOK HolderKeepsLock SubscribersMissNothing
PROPERTIES ImplementsAtomicKv CallsAreAnswered
CHECK_DEADLOCK FALSE
