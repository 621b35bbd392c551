SPECIFICATION FairSpec
CONSTANTS
  a = a  b = b  d = d  case1 = case1  case2 = case2  r1 = r1  r2 = r2  r3 = r3
  None = None
  Requests <- MCRequests
  Tasks <- MCTasks
  Cases <- MCCases
  CaseOf <- MCCaseOf
  Jobs <- MCJobs
  PoolSize = 2
  MaxAttempts = 2
INVARIANTS NothingLeaks CountersHeal CompletionsExclusive
PROPERTIES RequestsEnd
CHECK_DEADLOCK FALSE
