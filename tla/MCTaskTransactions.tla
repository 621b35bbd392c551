-------------------------- MODULE MCTaskTransactions --------------------------
(* Two tasks of one case and one of another, written by three requests over a *)
(* pool of two connections.                                                  *)
EXTENDS TaskTransactions

CONSTANTS a, b, d, case1, case2, r1, r2, r3

MCTasks == {a, b, d}
MCCases == {case1, case2}
MCCaseOf == [t \in MCTasks |-> IF t = d THEN case2 ELSE case1]
MCRequests == {r1, r2, r3}

\* A bulk assignment, and the completion on the web and on the phone.
Bulk(tasks) ==
  [tasks |-> tasks, completes |-> FALSE, guarded |-> TRUE, retried |-> FALSE, recount |-> "inside"]
WebComplete(t) ==
  [tasks |-> <<t>>, completes |-> TRUE, guarded |-> FALSE, retried |-> FALSE, recount |-> "after"]
PhoneComplete(t) ==
  [tasks |-> <<t>>, completes |-> TRUE, guarded |-> TRUE, retried |-> TRUE, recount |-> "inside"]

MCJobs == {Bulk(<<a, b, d>>), Bulk(<<d, b>>), WebComplete(a), PhoneComplete(b)}
=============================================================================
