----------------------------- MODULE TaskStatus -----------------------------
(***************************************************************************)
(* The status vocabulary that verification tasks and cases share, and the  *)
(* pure functions over it: the transition table the database trigger       *)
(* enforces, the classes of statuses the handlers test, and the rollup of  *)
(* the statuses of a case's tasks into the status of the case.             *)
(***************************************************************************)

Statuses == {"PENDING", "ASSIGNED", "IN_PROGRESS", "SUBMITTED_FOR_REVIEW",
             "COMPLETED", "REVOKED"}

\* The rows of task_status_transitions.
Transitions ==
  {<<"PENDING", "ASSIGNED">>, <<"PENDING", "REVOKED">>,
   <<"ASSIGNED", "IN_PROGRESS">>, <<"ASSIGNED", "REVOKED">>,
   <<"IN_PROGRESS", "ASSIGNED">>, <<"IN_PROGRESS", "COMPLETED">>,
   <<"IN_PROGRESS", "REVOKED">>, <<"IN_PROGRESS", "SUBMITTED_FOR_REVIEW">>,
   <<"SUBMITTED_FOR_REVIEW", "COMPLETED">>,
   <<"SUBMITTED_FOR_REVIEW", "REVOKED">>,
   <<"SUBMITTED_FOR_REVIEW", "IN_PROGRESS">>,
   <<"REVOKED", "ASSIGNED">>, <<"COMPLETED", "ASSIGNED">>}

\* enforce_verification_task_status_transition: a no-op update always passes.
GuardAllows(from, to) == from = to \/ <<from, to>> \in Transitions

\* The predicate of the partial unique index on (case, verification type).
ActiveStatuses == {"PENDING", "ASSIGNED", "IN_PROGRESS"}

\* The office edit lock lets only work that has not begun be edited.
LockedStatuses == {"IN_PROGRESS", "SUBMITTED_FOR_REVIEW", "COMPLETED",
                   "REVOKED"}
IsEditable(s) == s \notin LockedStatuses

\* TaskCompletionValidator.canTransition(s, "IN_PROGRESS")
CanStart(s) == s = "ASSIGNED"

\* recalculateCaseStatus, over the set of statuses a case's tasks have.
Rollup(S) ==
  IF S \subseteq {"REVOKED"} THEN "REVOKED"
  ELSE IF S \subseteq {"COMPLETED", "REVOKED"} THEN "COMPLETED"
  ELSE IF "IN_PROGRESS" \in S THEN "IN_PROGRESS"
  ELSE IF "ASSIGNED" \in S THEN "ASSIGNED"
  ELSE IF "PENDING" \in S THEN "PENDING"
  ELSE "SUBMITTED_FOR_REVIEW"
=============================================================================
