SPECIFICATION FairSpec
CONSTANTS
  e1 = e1  e2 = e2  s1 = s1  s2 = s2
  None = None
  Events <- TwoEvents
  Slots <- TwoSlots
  Attempts = 2
  MaxRows = 2
INVARIANTS TypeOK ChainIntact Accounted
PROPERTIES JobsSettle TrailKept
