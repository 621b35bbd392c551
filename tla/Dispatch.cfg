SPECIFICATION Spec
CONSTANTS
  t1 = t1  t2 = t2  v1 = v1  v2 = v2
  a1 = a1  a2 = a2  r1 = r1  r2 = r2
  None = None  Office = Office
  Tasks <- TwoTasks
  Types <- OneType
  Agents <- OneAgent
  Requests <- TwoRequests
  Commissioned <- OneAgent
  Endpoints <- Dispatch
  MaxRevocations = 2
SYMMETRY Symmetry
INVARIANTS RevokedIsSettled StartStamp CaseInSync
PROPERTIES SupersededNotFiled VisitsFollowed
CHECK_DEADLOCK FALSE
