SPECIFICATION KycSpec
CONSTANTS
  t1 = t1  t2 = t2  r1 = r1  r2 = r2
  None = None
  Tasks <- TwoDocuments
  Verifiers = {v1}
  Outcomes = {positive}
  Requests <- TwoRequests
  Endpoints = {"assign", "bulkAssign", "update", "start", "syncStart", "submit",
               "complete", "finalize", "editCase", "syncCase"}
  CaseChanges = {"IN_PROGRESS", "COMPLETED"}
  MaxCycles = 2
INVARIANTS KycTypeOK DecisionRecorded CaseFollowsDocuments
PROPERTIES HistoryKept DecisionsFollowed
SYMMETRY Symmetry
VIEW Seen
CHECK_DEADLOCK FALSE
