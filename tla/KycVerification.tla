-------------------------- MODULE KycVerification --------------------------
(***************************************************************************)
(* The KYC documents of one case.  Each document has a verification task   *)
(* of its own (the code never inserts a second document for a task), a     *)
(* working row in kyc_document_verifications, and an append-only list of   *)
(* verification cycles, the source of truth for history and billing.       *)
(*                                                                         *)
(* A step is one transaction, which locks the document row, or one auto-   *)
(* committed statement: an assignment is three of them, and a recheck by   *)
(* clone looks for an active task before its transaction.  `req' holds the *)
(* requests that are between two steps.  All tasks of the case have the    *)
(* verification type KYC, so the unique index lets one at most be active.  *)
(*                                                                         *)
(* The endpoints of the field tasks do not look at the type of a task: they *)
(* move the tasks of the documents too, and the case, and know nothing of   *)
(* documents and cycles.  `Endpoints' names those an instance enables.     *)
(***************************************************************************)
EXTENDS TaskStatus, Naturals, Sequences

CONSTANTS Tasks, Verifiers, Outcomes, Requests, None,
          Endpoints,     \* the field endpoints this instance enables
          CaseChanges,   \* the statuses the phones upload for the case
          MaxCycles      \* cap on the cycles of a task

ASSUME KycAssumptions ==
  /\ None \notin Tasks \cup Verifiers \cup Outcomes
  /\ CaseChanges \subseteq Statuses
  /\ MaxCycles \in Nat \ {0}

VARIABLES
  doc,         \* kyc_document_verifications, by the task of the document
  task,        \* the statuses of the parent rows of verification_tasks
  cycles,      \* kyc_verification_cycles of each task, in order
  caseStatus,  \* cases.status
  req,         \* the requests in flight
  moved,       \* history: tasks a field endpoint moved since the KYC handlers
               \* last moved them
  drift        \* history: a change was committed whose recount never came

kycVars == <<doc, task, cycles, caseStatus, req, moved, drift>>

DocStatuses == {"PENDING", "ASSIGNED", "IN_PROGRESS", "COMPLETED", "REVOKED"}

\* Who holds a document or its task decides nothing here; the verifier of a
\* cycle is part of the history.
Doc == [status : DocStatuses \cup {"ABSENT"}, outcome : Outcomes \cup {None}]
Task == Statuses \cup {"ABSENT"}
Cycle == [status : {"KYC_ASSIGNED", "KYC_REASSIGNED", "KYC_COMPLETED"},
          verifier : Verifiers \cup {None}, outcome : Outcomes \cup {None}]

Idle == [step |-> "idle", task |-> None, who |-> None]
Request == [step : {"idle", "assignTask", "assignCycle", "clone", "recount"},
            task : Tasks \cup {None}, who : Verifiers \cup {None}]

Rows(tk) == {t \in Tasks : tk[t] # "ABSENT"}
Active(tk) == {t \in Tasks : tk[t] \in ActiveStatuses}

\* verification_tasks_active_unique_idx
OneActive(tk) == \A t1, t2 \in Active(tk) : t1 = t2

CommitUnchecked(tk) == task' = tk                           \* a mutant
\* A statement that the transition trigger or the index refuses rolls back.
CommitTasks(tk) ==
  /\ \A t \in Rows(task) : GuardAllows(task[t], tk[t])
  /\ OneActive(tk)
  /\ task' = tk

CaseKept == caseStatus' = caseStatus /\ drift' = FALSE      \* a mutant
Recount == caseStatus' = Rollup({task'[t] : t \in Rows(task')}) /\ drift' = FALSE
NoRecount == UNCHANGED <<caseStatus, drift>>

\* KYC_VALID_TRANSITIONS
NextDocStatuses(s) ==
  CASE s = "PENDING" -> {"ASSIGNED", "IN_PROGRESS", "REVOKED"}
    [] s = "ASSIGNED" -> {"IN_PROGRESS", "REVOKED"}
    [] s = "IN_PROGRESS" -> {"COMPLETED", "REVOKED"}
    [] s \in {"COMPLETED", "REVOKED"} -> {"PENDING"}
    [] s = "ABSENT" -> {}

NewDocOfCycle == [status |-> "KYC_ASSIGNED", outcome |-> None]  \* a mutant
NewDoc == [status |-> "PENDING", outcome |-> None]
NewCycle(status, v) == [status |-> status, verifier |-> v, outcome |-> None]
Last(s) == s[Len(s)]
-----------------------------------------------------------------------------
(* The decision. *)

Verifiable(s) == s # "ABSENT" /\ IsEditable(s)

\* The parent row is stepped to IN_PROGRESS on its way to COMPLETED.
Hopped(s) == IF s \in {"PENDING", "ASSIGNED"} THEN "IN_PROGRESS" ELSE s

\* The latest cycle takes the outcome.
Verify(t, outcome) ==
  /\ Verifiable(doc[t].status)
  /\ GuardAllows(Hopped(task[t]), "COMPLETED")
  /\ doc' = [doc EXCEPT ![t].status = "COMPLETED", ![t].outcome = outcome]
  /\ task' = [task EXCEPT ![t] = "COMPLETED"]
  /\ cycles' = [cycles EXCEPT ![t][Len(cycles[t])].status = "KYC_COMPLETED",
                              ![t][Len(cycles[t])].outcome = outcome]
  /\ Recount
  /\ moved' = moved \ {t}
  /\ UNCHANGED req

Start(t) ==
  /\ "IN_PROGRESS" \in NextDocStatuses(doc[t].status)
  /\ doc' = [doc EXCEPT ![t].status = "IN_PROGRESS"]
  /\ CommitTasks([task EXCEPT ![t] = Hopped(@)])
  /\ Recount
  /\ UNCHANGED <<cycles, req, moved>>

\* The parent is left as it is.
Revoke(t) ==
  /\ "REVOKED" \in NextDocStatuses(doc[t].status)
  /\ doc' = [doc EXCEPT ![t].status = "REVOKED"]
  /\ UNCHANGED task
  /\ Recount
  /\ UNCHANGED <<cycles, req, moved>>

ParentKept(s) == s                                          \* a mutant
Reopened(s) == IF s = "COMPLETED" THEN "ASSIGNED" ELSE s

\* UPDATE verification_tasks ... WHERE status = 'COMPLETED'
ReopenTask(t) ==
  /\ CommitTasks([task EXCEPT ![t] = Reopened(@)])
  /\ moved' = IF task[t] = "COMPLETED" THEN moved \ {t} ELSE moved

\* The document loses its findings; its cycle stays as it is.
Recheck(t) ==
  /\ "PENDING" \in NextDocStatuses(doc[t].status)
  /\ doc' = [doc EXCEPT ![t] = NewDoc]
  /\ ReopenTask(t)
  /\ Recount
  /\ UNCHANGED <<cycles, req>>

AnyRevisable(s) == s \in {"COMPLETED", "REVOKED"}             \* a mutant
Reverifiable(s) == s = "COMPLETED"

Overwritten(cs, v) == [cs EXCEPT ![Len(cs)] = NewCycle("KYC_REASSIGNED", v)]  \* a mutant
Extended(cs, v) == Append(cs, NewCycle("KYC_REASSIGNED", v))

\* A new billable cycle for the verifier of the request or, without one, for
\* the holder of the document, if any; the earlier cycles keep the history.
Reverify(t, v) ==
  /\ Reverifiable(doc[t].status)
  /\ Len(cycles[t]) < MaxCycles
  /\ cycles' = [cycles EXCEPT ![t] = Extended(@, v)]
  /\ ReopenTask(t)
  /\ doc' = [doc EXCEPT ![t] = [status |-> "ASSIGNED", outcome |-> None]]
  /\ Recount
  /\ UNCHANGED req
-----------------------------------------------------------------------------
(* Assignment: the document, its task and its open cycle, one statement each, *)
(* and no recount.                                                           *)

Begin(r, step, t, who) ==
  /\ req[r] = Idle
  /\ req' = [req EXCEPT ![r] = [step |-> step, task |-> t, who |-> who]]
Done(r) == req' = [req EXCEPT ![r] = Idle]

AssignDoc(r, t, v) ==
  /\ doc[t].status # "ABSENT"
  /\ doc' = [doc EXCEPT ![t].status = IF @ \in {"PENDING", "REVOKED"} THEN "ASSIGNED" ELSE @]
  /\ Begin(r, "assignTask", t, v)
  /\ NoRecount
  /\ UNCHANGED <<task, cycles, moved>>

ParentOpen(s) == s \notin {"COMPLETED", "REVOKED"}

AssignTask(r) ==
  LET t == req[r].task IN
  /\ req[r].step = "assignTask"
  /\ CommitTasks([task EXCEPT ![t] = IF ParentOpen(@) THEN "ASSIGNED" ELSE @])
  /\ req' = [req EXCEPT ![r].step = "assignCycle"]
  /\ NoRecount
  /\ UNCHANGED <<doc, cycles, moved>>

AssignCycle(r) ==
  LET t == req[r].task
      n == Len(cycles[t]) IN
  /\ req[r].step = "assignCycle"
  /\ cycles' = IF cycles[t][n].status # "KYC_COMPLETED"
               THEN [cycles EXCEPT ![t][n].verifier = req[r].who]
               ELSE cycles
  /\ Done(r)
  /\ NoRecount
  /\ UNCHANGED <<doc, task, moved>>
-----------------------------------------------------------------------------
(* Recheck by clone: a new task with a document of its own. *)

CloneRead(r, t, v) ==
  /\ doc[t].status = "COMPLETED"
  /\ Active(task) = {}
  /\ Begin(r, "clone", t, v)
  /\ NoRecount
  /\ UNCHANGED <<doc, task, cycles, moved>>

CloneTx(r, new) ==
  LET v == req[r].who IN
  /\ req[r].step = "clone"
  /\ task[new] = "ABSENT"
  /\ CommitTasks([task EXCEPT ![new] = "ASSIGNED"])
  /\ doc' = [doc EXCEPT ![new] = NewDoc]
  /\ cycles' = [cycles EXCEPT ![new] = <<NewCycle("KYC_ASSIGNED", v)>>]
  /\ Recount
  /\ Done(r)
  /\ UNCHANGED moved

\* A clone the unique index refuses, an assignment the trigger refuses or that
\* dies between two of its statements, a recount that fails or dies.
GiveUp(r) ==
  /\ req[r] # Idle
  /\ Done(r)
  /\ drift' = (drift \/ req[r].step = "recount")
  /\ UNCHANGED <<doc, task, cycles, caseStatus, moved>>
-----------------------------------------------------------------------------
(* The field endpoints, as far as a KYC task goes.  None of them tests the  *)
(* type of the task; the ones that do (revisit and the revocations), and    *)
(* those that need the pincode and area that a KYC task does not have (the  *)
(* replacement of a revoked task), never reach one.  The agents a task goes *)
(* to are left out, and with them started_at, which refuses only edits and  *)
(* reassignments that leave the status of the task as it is.                *)

MovedTo(t, s) == [task EXCEPT ![t] = s]

FieldCommit(tk) ==
  /\ CommitTasks(tk)
  /\ moved' = moved \cup {t \in Tasks : tk[t] # task[t]}
  /\ UNCHANGED <<doc, cycles>>

\* The transaction or statement commits, and the case is recounted after it.
OwingRecount(r) == Begin(r, "recount", None, None) /\ NoRecount

RecountOwed(r) ==
  /\ req[r].step = "recount"
  /\ UNCHANGED <<doc, task, cycles, moved>>
  /\ Recount
  /\ Done(r)

\* A change that no recount follows.
Bypassing == drift' = (drift \/ <<task', caseStatus'>> # <<task, caseStatus>>)

\* A COMPLETED task is reopened; its document is not.
FieldAssign(r, t) ==
  /\ "assign" \in Endpoints
  /\ task[t] \in {"PENDING", "ASSIGNED", "COMPLETED"}
  /\ FieldCommit(MovedTo(t, "ASSIGNED"))
  /\ OwingRecount(r)

BulkAssign(chosen) ==
  LET hit == {t \in chosen : task[t] \in {"PENDING", "ASSIGNED"}} IN
  /\ "bulkAssign" \in Endpoints
  /\ hit # {}
  /\ FieldCommit([t \in Tasks |-> IF t \in hit THEN "ASSIGNED" ELSE task[t]])
  /\ Recount
  /\ UNCHANGED req

\* The edit lock was read while the task was ASSIGNED, as every task once was,
\* and the statement names the row by its id.  The start from the web and a
\* completion whose task has moved since it was read do the same.
FieldUpdate(r, t, s) ==
  /\ "update" \in Endpoints
  /\ t \in Rows(task)
  /\ s = "SUBMITTED_FOR_REVIEW" => task[t] = s
  /\ FieldCommit(MovedTo(t, s))
  /\ OwingRecount(r)

FieldStart(t) ==
  /\ "start" \in Endpoints
  /\ task[t] = "ASSIGNED"
  /\ FieldCommit(MovedTo(t, "IN_PROGRESS"))
  /\ Recount
  /\ UNCHANGED req

\* A start from the phone's queue recounts whatever it finds.
SyncStart(t) ==
  /\ "syncStart" \in Endpoints
  /\ t \in Rows(task)
  /\ FieldCommit(IF task[t] = "ASSIGNED" THEN MovedTo(t, "IN_PROGRESS") ELSE task)
  /\ Recount
  /\ UNCHANGED req

\* Where a submission or a completion leads, as the review flag stands.  The
\* first needs a task without a report and the second one with a report; the
\* reports are left out, and a started task may meet either.
Submitted == {"COMPLETED", "SUBMITTED_FOR_REVIEW"}

Submit(t, s) ==
  /\ "submit" \in Endpoints
  /\ task[t] = "IN_PROGRESS"
  /\ FieldCommit(MovedTo(t, s))
  /\ Recount
  /\ UNCHANGED req

Complete(r, t, s) ==
  /\ "complete" \in Endpoints
  /\ task[t] = "IN_PROGRESS"
  /\ FieldCommit(MovedTo(t, s))
  /\ OwingRecount(r)

FinalizeReview(r, t) ==
  /\ "finalize" \in Endpoints
  /\ task[t] = "SUBMITTED_FOR_REVIEW"
  /\ FieldCommit(MovedTo(t, "COMPLETED"))
  /\ OwingRecount(r)

\* PUT /cases with an assignee: one task of the case, or all of them.
EditCaseAssign(chosen) ==
  /\ "editCase" \in Endpoints
  /\ chosen \subseteq Rows(task) /\ chosen # {}
  /\ FieldCommit([t \in Tasks |-> IF t \in chosen THEN "ASSIGNED" ELSE task[t]])
  /\ UNCHANGED caseStatus
  /\ Bypassing
  /\ UNCHANGED req

\* A case change a phone uploads writes cases.status as it comes.
SyncCaseChange(s) ==
  /\ "syncCase" \in Endpoints
  /\ caseStatus' = s
  /\ UNCHANGED <<doc, task, cycles, req, moved>>
  /\ Bypassing
-----------------------------------------------------------------------------
NoDoc == [status |-> "ABSENT", outcome |-> None]

\* createCase inserts a document with its task and its first cycle, and does
\* not recount the case it inserts as PENDING.
KycInit ==
  /\ \E t \in Tasks, v \in Verifiers :
       /\ doc = [u \in Tasks |-> IF u = t THEN NewDoc ELSE NoDoc]
       /\ task = [u \in Tasks |-> IF u = t THEN "ASSIGNED" ELSE "ABSENT"]
       /\ cycles = [u \in Tasks |-> IF u = t THEN <<NewCycle("KYC_ASSIGNED", v)>> ELSE <<>>]
  /\ caseStatus = "PENDING"
  /\ req = [r \in Requests |-> Idle]
  /\ moved = {} /\ drift = FALSE

Decide ==
  \E t \in Tasks :
    \/ \E outcome \in Outcomes : Verify(t, outcome)
    \/ Start(t) \/ Revoke(t) \/ Recheck(t)
    \/ \E v \in Verifiers \cup {None} : Reverify(t, v)

Step(r) ==
  \/ \E t \in Tasks, v \in Verifiers : AssignDoc(r, t, v) \/ CloneRead(r, t, v)
  \/ AssignTask(r) \/ AssignCycle(r)
  \/ \E new \in Tasks : CloneTx(r, new)
  \/ GiveUp(r)

\* The writers that know nothing of documents.
FieldStep ==
  \/ \E t \in Tasks :
       \/ FieldStart(t) \/ SyncStart(t)
       \/ \E s \in Submitted : Submit(t, s)
       \/ \E r \in Requests :
            \/ FieldAssign(r, t) \/ FinalizeReview(r, t)
            \/ \E s \in Submitted : Complete(r, t, s)
            \/ \E s \in Statuses : FieldUpdate(r, t, s)
  \/ \E chosen \in SUBSET Tasks : BulkAssign(chosen) \/ EditCaseAssign(chosen)
  \/ \E s \in CaseChanges : SyncCaseChange(s)

KycNext == Decide \/ FieldStep \/ \E r \in Requests : Step(r) \/ RecountOwed(r)

KycSpec == KycInit /\ [][KycNext]_kycVars
-----------------------------------------------------------------------------
KycTypeOK ==
  /\ doc \in [Tasks -> Doc]
  /\ task \in [Tasks -> Task]
  /\ cycles \in [Tasks -> Seq(Cycle)]
  /\ caseStatus \in Statuses
  /\ req \in [Requests -> Request]
  /\ moved \subseteq Tasks
  /\ drift \in BOOLEAN

\* The three tables of a document agree, whatever assignments, rechecks and
\* clones are half done.  Whoever moves its task, a completed document has its
\* outcome in its latest cycle, which is completed; and its task is COMPLETED
\* exactly when the document is, unless a field endpoint moved the task since.
DecisionRecorded ==
  \A t \in Rows(task) :
    /\ doc[t].status = "COMPLETED" =>
         Last(cycles[t]).status = "KYC_COMPLETED" /\ Last(cycles[t]).outcome = doc[t].outcome
    /\ t \notin moved => (task[t] = "COMPLETED" <=> doc[t].status = "COMPLETED")

\* A reverification never buries an open cycle: every cycle before the latest
\* is completed and stays as it was completed.
HistoryKept ==
  [][\A t \in Tasks : \A i \in 1..(Len(cycles'[t]) - 1) :
       cycles'[t][i] = cycles[t][i] /\ cycles'[t][i].status = "KYC_COMPLETED"]_cycles

\* A document is settled when it is decided or, if a field endpoint moved its
\* task, when that task is done with.
Settled(t) ==
  IF t \in moved THEN task[t] \in {"COMPLETED", "REVOKED"} ELSE doc[t].status = "COMPLETED"

\* Unless a recount is owed or lost, or cases.status was written past it, an
\* open document keeps its case open, and a case is completed when all its
\* documents are settled, unless all their tasks were revoked.
CaseFollowsDocuments ==
  \/ drift \/ \E r \in Requests : req[r].step = "recount"
  \/ caseStatus = "COMPLETED" <=>
       /\ \A t \in Rows(task) : Settled(t)
       /\ \E t \in Rows(task) : task[t] = "COMPLETED"
-----------------------------------------------------------------------------
(* What the three tables say of the decisions. *)

Decision == [t \in Tasks |-> doc[t].outcome]

\* The outcomes of the cycles before the latest.
History == [t \in Tasks |-> [i \in 1..(Len(cycles[t]) - 1) |-> cycles[t][i].outcome]]

Decisions == INSTANCE KycDecisions WITH
  Documents <- Tasks, known <- Rows(task), decision <- Decision, history <- History,
  disturbed <- moved

\* The handlers implement the decisions of KycDecisions, among whatever the
\* field endpoints do: no decision is replaced unless it was taken up again, a
\* reverification loses none, and of the documents whose tasks the field
\* endpoints left alone one at most waits for its decision.
DecisionsFollowed == Decisions!Spec
=============================================================================
