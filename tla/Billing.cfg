SPECIFICATION FairSpec
CONSTANTS
  t1 = t1  t2 = t2  v1 = v1  v2 = v2
  a1 = a1  a2 = a2  r1 = r1  r2 = r2
  None = None  Office = Office
  Tasks <- OneTask
  Types <- OneType
  Agents <- TwoAgents
  Requests <- TwoRequests
  Commissioned <- TwoAgents
  Endpoints <- Billing
  MaxRevocations = 2
INVARIANTS AmountOnFinish CommissionBacked
PROPERTIES AmountFrozen ReviewMandatory VisitsFollowed
           CaseCatchesUp CommissionArrives
CHECK_DEADLOCK FALSE
