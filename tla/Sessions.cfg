SPECIFICATION FairSpec
CONSTANTS
  None = None
  Devices = {d1}
  Workers = {w1, w2}
  Requests = {r1, r2}
  MaxVersion = 1
  MaxRows = 2
INVARIANTS ChainsEnd
PROPERTIES StaleContextGoes EndedStayEnded
CHECK_DEADLOCK FALSE
