SPECIFICATION FairSpec
CONSTANTS
  c1 = c1
  g1 = g1
  g2 = g2
  Clients = {c1}
  Guests = {g1, g2}
  Frames <- MCFrames
  Casts <- MCCasts
  MaxVisits = 1
  Loop = Loop
  Other = Other
  Nobody = Nobody
  NoFrame = NoFrame
INVARIANTS TypeOK FramesAreWhole
PROPERTIES MessagesAreServed
CHECK_DEADLOCK FALSE
