SPECIFICATION Spec
CONSTANTS
  t1 = t1  t2 = t2  v1 = v1  v2 = v2
  a1 = a1  a2 = a2  r1 = r1  r2 = r2
  None = None  Office = Office
  Tasks <- TwoTasks
  Types <- TwoTypes
  Agents <- OneAgent
  Requests <- OneRequest
  Commissioned <- OneAgent
  Endpoints <- Edits
  MaxRevocations = 1
SYMMETRY Symmetry
INVARIANTS TypeOK CaseInSync
CHECK_DEADLOCK FALSE
