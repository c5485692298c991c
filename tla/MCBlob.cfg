CONSTANTS
  a = a  b = b  v1 = v1  v2 = v2
  p1 = p1  p2 = p2  g1 = g1  d1 = d1  g2 = g2
  Calls = {p1, p2, g1, d1, g2}
  Objects = {a, b}
  Values = {v1, v2}
  Request <- MCRequest
  Absent = Absent  Unsure = Unsure  NoAnswer = NoAnswer  NoCall = NoCall
  Missing = Missing  Torn = Torn
  MaxCrashes = 1
SPECIFICATION FairSpec
INVARIANTS TypeOK SettledIsStored
PROPERTIES AtomicSpec EveryCallEnds
CHECK_DEADLOCK FALSE
