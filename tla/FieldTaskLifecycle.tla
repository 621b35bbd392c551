------------------------- MODULE FieldTaskLifecycle -------------------------
(***************************************************************************)
(* The life of the verification tasks of one case, under concurrent HTTP   *)
(* requests of the office, of the field agents' phones and of the phones'  *)
(* background sync.                                                        *)
(*                                                                         *)
(* One step is one database transaction, or one auto-committed statement.  *)
(* That grain is the code's: a transaction that writes a task holds its    *)
(* row lock and, through the trigger update_case_completion, the row lock  *)
(* of the case until it commits, so the transactions of a case take effect *)
(* one after the other.  What a handler reads before its transaction, or   *)
(* does after it, is a step of its own, and any other request may run in   *)
(* between: `req' holds the requests that are between two steps.           *)
(*                                                                         *)
(* `Endpoints' names the operations an instance enables.                   *)
(***************************************************************************)
EXTENDS TaskStatus, Naturals

CONSTANTS Tasks, Types, Agents, Requests, None, Office,
          Commissioned,    \* agents with an active commission assignment
          Endpoints,       \* the operations this instance enables
          MaxRevocations   \* cap on the revocation rows of one task

ASSUME Assumptions ==
  /\ None \notin Tasks \cup Types \cup Agents \cup {Office, "estimated", "given"}
  /\ Office \notin Agents
  /\ Commissioned \subseteq Agents
  /\ MaxRevocations \in Nat

VARIABLES
  task,         \* the rows of verification_tasks, "ABSENT" before insertion
  caseStatus,   \* cases.status
  reviewOn,     \* the mandatory-backend-review flag
  report,       \* verification_reports: who submitted the form of the task
  reviewed,     \* tasks with a current row of backend review
  revocations,  \* number of task_revocations rows of the task
  paid,         \* commission_calculations: the payee of the task
  req,          \* the requests in flight
  drift,        \* history: a change was committed whose recount never came
  completers    \* history: the agents a task was completed under

vars == <<task, caseStatus, reviewOn, report, reviewed, revocations, paid,
          req, drift, completers>>

Callers == Agents \cup {Office}

Row == [status : Statuses \cup {"ABSENT"}, type : Types \cup {None},
        parent : Tasks \cup {None}, assignee : Agents \cup {None},
        started : BOOLEAN, amount : {None, "estimated", "given"}]

NoRow == [status |-> "ABSENT", type |-> None, parent |-> None,
          assignee |-> None, started |-> FALSE, amount |-> None]

\* Where a request in flight stands.  The first group has read a task and not
\* yet written; the second has committed and still owes work.
ReadSteps == {"start", "syncStart", "webStart", "webStartWrite", "submit",
              "complete", "mobileRevoke", "revisit", "update", "unassign"}
OwingSteps == {"recount", "recountThenHook", "hook", "pay"}

Idle == [step |-> "idle", task |-> None, who |-> None]
Request == [step : ReadSteps \cup OwingSteps \cup {"idle"},
            task : Tasks \cup {None}, who : Callers \cup {None}]
-----------------------------------------------------------------------------
(* The rows of the case and what the database checks when they change. *)

Rows(tk) == {t \in Tasks : tk[t].status # "ABSENT"}
Active(tk) == {t \in Tasks : tk[t].status \in ActiveStatuses}

\* verification_tasks_active_unique_idx
OneActivePerType(tk) ==
  \A t1, t2 \in Active(tk) : tk[t1].type = tk[t2].type => t1 = t2

\* The transition trigger and the unique index: any statement they refuse
\* rolls its transaction back.
Commit(tk) ==
  /\ \A t \in Rows(task) : GuardAllows(task[t].status, tk[t].status)
  /\ OneActivePerType(tk)
  /\ task' = tk

\* What a recount writes; a case without tasks is left alone.
Recounted(tk) ==
  IF Rows(tk) = {} THEN caseStatus ELSE Rollup({tk[t].status : t \in Rows(tk)})

NoRecount == UNCHANGED <<caseStatus, drift>>
RecountInTx == caseStatus' = Recounted(task') /\ drift' = FALSE
Unsynced == caseStatus' = caseStatus /\ drift' = TRUE

NewRow(type, parent, agent) ==
  [status |-> IF agent = None THEN "PENDING" ELSE "ASSIGNED",
   type |-> type, parent |-> parent, assignee |-> agent,
   started |-> FALSE, amount |-> None]

\* isFieldExecutionActor: an agent acts on its own tasks, the office on all.
MayAct(who, t) == who \in Agents => task[t].assignee = who

Children(t) == {c \in Rows(task) : task[c].parent = t}

\* The status a submission or completion leads to under the review flag, and
\* the financial snapshot that goes with it: an amount already set stays.
TargetIgnoringFlag == "COMPLETED"                           \* a mutant
TargetStatus == IF reviewOn THEN "SUBMITTED_FOR_REVIEW" ELSE "COMPLETED"
Overwrite(current, given) == given                          \* a mutant
Snapshot(current, given) == IF current # None THEN current ELSE given
FinishedUnbilled(row, status, given) == [row EXCEPT !.status = status]  \* a mutant
Finished(row, status, given) ==
  [row EXCEPT !.status = status, !.amount = Snapshot(row.amount, given)]
NoteCompletion(t, status) ==
  completers' = IF status = "COMPLETED"
                THEN [completers EXCEPT ![t] = @ \cup {task[t].assignee}]
                ELSE completers

(* The steps of a request. *)
Begin(r, step, t, who) ==
  /\ req[r] = Idle
  /\ req' = [req EXCEPT ![r] = [step |-> step, task |-> t, who |-> who]]
At(r, step) == req[r].step = step
Proceed(r, step) == req' = [req EXCEPT ![r].step = step]
Done(r) == req' = [req EXCEPT ![r] = Idle]

Evidence == <<report, reviewed, revocations, paid>>
-----------------------------------------------------------------------------
(* Creation. *)

\* The tasks of one request are inserted together, each with its assignee.
InsertTasks ==
  \E new \in SUBSET (Tasks \ Rows(task)) \ {{}} :
    \E type \in [new -> Types], agent \in [new -> Agents] :
      Commit([t \in Tasks |->
                IF t \in new THEN NewRow(type[t], None, agent[t]) ELSE task[t]])

\* A case created with field tasks keeps the status it was inserted with;
\* Init is the case created with documents only.
CreateCase ==
  /\ "createCase" \in Endpoints
  /\ Rows(task) = {} /\ caseStatus = "PENDING"
  /\ \A r \in Requests : req[r] = Idle
  /\ InsertTasks
  /\ Unsynced
  /\ UNCHANGED <<reviewOn, Evidence, req, completers>>

\* Tasks added to the case later: it is recounted after the commit.
CreateTasks(r) ==
  /\ "create" \in Endpoints
  /\ InsertTasks
  /\ Begin(r, "recount", None, None)
  /\ NoRecount
  /\ UNCHANGED <<reviewOn, Evidence, completers>>
-----------------------------------------------------------------------------
(* Starting a visit: from the phone, from the phone's sync queue, and from  *)
(* the web route, which goes through the general update.                    *)

StartRead(r, t, who) ==
  /\ "start" \in Endpoints
  /\ t \in Rows(task)
  /\ MayAct(who, t)
  /\ task[t].status \notin {"IN_PROGRESS", "COMPLETED", "REVOKED"}
  /\ Begin(r, "start", t, who)
  /\ UNCHANGED <<task, caseStatus, reviewOn, Evidence, drift, completers>>

Started(row) == [row EXCEPT !.status = "IN_PROGRESS", !.started = TRUE]

StartTx(r) ==
  LET t == req[r].task IN
  /\ At(r, "start")
  /\ task[t].status = "ASSIGNED"
  /\ Commit([task EXCEPT ![t] = Started(@)])
  /\ RecountInTx
  /\ Done(r)
  /\ UNCHANGED <<reviewOn, Evidence, completers>>

SyncStartRead(r, t, who) ==
  /\ "syncStart" \in Endpoints
  /\ t \in Rows(task)
  /\ MayAct(who, t)
  /\ task[t].status # "REVOKED"
  /\ Begin(r, "syncStart", t, who)
  /\ UNCHANGED <<task, caseStatus, reviewOn, Evidence, drift, completers>>

\* The case is recounted whether or not the guarded update found the row.
SyncStartTx(r) ==
  LET t == req[r].task IN
  /\ At(r, "syncStart")
  /\ IF task[t].status \in {"ASSIGNED", "IN_PROGRESS"}
     THEN Commit([task EXCEPT ![t] = Started(@)])
     ELSE UNCHANGED task
  /\ RecountInTx
  /\ Done(r)
  /\ UNCHANGED <<reviewOn, Evidence, completers>>

WebStartRead(r, t, who) ==
  /\ "webStart" \in Endpoints
  /\ t \in Rows(task)
  /\ MayAct(who, t)
  /\ CanStart(task[t].status)
  /\ Begin(r, "webStart", t, who)
  /\ UNCHANGED <<task, caseStatus, reviewOn, Evidence, drift, completers>>

\* The read of updateTask: the edit lock.
EditUnlocked(t) == IsEditable(task[t].status) /\ ~task[t].started

WebStartLockCheck(r) ==
  /\ At(r, "webStart")
  /\ EditUnlocked(req[r].task)
  /\ Proceed(r, "webStartWrite")
  /\ UNCHANGED <<task, caseStatus, reviewOn, Evidence, drift, completers>>

WebStartWrite(r) ==
  LET t == req[r].task IN
  /\ At(r, "webStartWrite")
  /\ Commit([task EXCEPT ![t] = Started(@)])
  /\ NoRecount
  /\ Proceed(r, "recount")
  /\ UNCHANGED <<reviewOn, Evidence, completers>>
-----------------------------------------------------------------------------
(* Submission of the visit form from the phone, completion from the web,    *)
(* and the backend review.                                                  *)

SubmitRead(r, t, who) ==
  /\ "submit" \in Endpoints
  /\ t \in Rows(task)
  /\ task[t].status # "REVOKED"
  /\ Children(t) = {}
  /\ MayAct(who, t)
  /\ Begin(r, "submit", t, who)
  /\ UNCHANGED <<task, caseStatus, reviewOn, Evidence, drift, completers>>

\* A task has at most one verification_reports row: a second insert fails.
FiledAgain(t) == TRUE                                       \* a mutant
NotYetFiled(t) == report[t] = None

SubmitTx(r) ==
  LET t == req[r].task IN
  /\ At(r, "submit")
  /\ task[t].status = "IN_PROGRESS"
  /\ NotYetFiled(t)
  /\ Commit([task EXCEPT ![t] = Finished(@, TargetStatus, "estimated")])
  /\ NoteCompletion(t, TargetStatus)
  /\ report' = [report EXCEPT ![t] = req[r].who]
  /\ RecountInTx
  /\ Proceed(r, "hook")
  /\ UNCHANGED <<reviewOn, reviewed, revocations, paid>>

\* The web completion needs a submitted form as evidence, so it applies to a
\* task that was submitted, reopened and started again.
CompleteRead(r, t) ==
  /\ "complete" \in Endpoints
  /\ t \in Rows(task)
  /\ task[t].status = "IN_PROGRESS"
  /\ report[t] # None
  /\ task[t].assignee # None
  /\ Begin(r, "complete", t, task[t].assignee)
  /\ UNCHANGED <<task, caseStatus, reviewOn, Evidence, drift, completers>>

\* The update names the row by id only; the trigger is all that guards it.
CompleteTx(r) ==
  LET t == req[r].task
      Paying == ~reviewOn /\ task[t].assignee # None IN
  /\ At(r, "complete")
  /\ \E given \in {"estimated", "given"} :
       Commit([task EXCEPT ![t] = Finished(@, TargetStatus, given)])
  /\ NoteCompletion(t, TargetStatus)
  /\ NoRecount
  /\ Proceed(r, IF Paying THEN "recountThenHook" ELSE "recount")
  /\ UNCHANGED <<reviewOn, Evidence>>

FinalizeReview(r, t) ==
  /\ "finalize" \in Endpoints
  /\ task[t].status = "SUBMITTED_FOR_REVIEW"
  /\ Commit([task EXCEPT ![t] = Finished(@, "COMPLETED", "estimated")])
  /\ NoteCompletion(t, "COMPLETED")
  /\ reviewed' = reviewed \cup {t}
  /\ NoRecount
  /\ Begin(r, IF task[t].assignee # None THEN "recountThenHook" ELSE "recount", t, None)
  /\ UNCHANGED <<reviewOn, report, revocations, paid>>
-----------------------------------------------------------------------------
(* Revocation, from the web and from the phone. *)

Revocable(row) == row.status \notin {"COMPLETED", "REVOKED"}

RevokedButHeld(row) == [row EXCEPT !.status = "REVOKED"]      \* a mutant
Revoked(row) == [row EXCEPT !.status = "REVOKED", !.assignee = None]

RevokeTx(t) ==
  /\ revocations[t] < MaxRevocations
  /\ Commit([task EXCEPT ![t] = Revoked(@)])
  /\ revocations' = [revocations EXCEPT ![t] = @ + 1]
  /\ RecountInTx
  /\ UNCHANGED <<reviewOn, report, reviewed, paid, completers>>

Revoke(t) ==
  /\ "revoke" \in Endpoints
  /\ t \in Rows(task)
  /\ Revocable(task[t])
  /\ RevokeTx(t)
  /\ UNCHANGED req

MobileRevokeRead(r, t, who) ==
  /\ "mobileRevoke" \in Endpoints
  /\ t \in Rows(task)
  /\ Revocable(task[t])
  /\ who \in Agents => task[t].assignee \in {who, None}
  /\ Begin(r, "mobileRevoke", t, who)
  /\ UNCHANGED <<task, caseStatus, reviewOn, Evidence, drift, completers>>

\* The status is read again under the row lock; the assignee is not.
NotRechecked(row) == TRUE                                   \* a mutant
StillRevocable(row) == Revocable(row)

MobileRevokeTx(r) ==
  /\ At(r, "mobileRevoke")
  /\ StillRevocable(task[req[r].task])
  /\ RevokeTx(req[r].task)
  /\ Done(r)
-----------------------------------------------------------------------------
(* Assignment. *)

NeverRevokeFirst(row) == FALSE                              \* a mutant
MustRevokeFirst(row) ==
  \/ row.status = "IN_PROGRESS"
  \/ row.started /\ row.status # "COMPLETED"

\* The reassignment clears started_at; the bulk assignment and the edit of the
\* case do not.
HandedTo(row, agent) == [row EXCEPT !.assignee = agent, !.status = "ASSIGNED"]
Reassigned(row, agent) == [HandedTo(row, agent) EXCEPT !.started = FALSE]

\* Mode A: the task itself changes hands.  A completed task is reopened.
Reassign(r, t, agent) ==
  /\ "assign" \in Endpoints
  /\ t \in Rows(task)
  /\ task[t].status # "REVOKED"
  /\ ~MustRevokeFirst(task[t])
  /\ Commit([task EXCEPT ![t] = Reassigned(@, agent)])
  /\ NoRecount
  /\ Begin(r, "recount", None, None)
  /\ UNCHANGED <<reviewOn, Evidence, completers>>

\* A revoked task gets a replacement, unless it has a live one.
Replace(r, t, child, agent) ==
  /\ "assign" \in Endpoints
  /\ task[t].status = "REVOKED"
  /\ \A c \in Children(t) : task[c].status \in {"REVOKED", "COMPLETED"}
  /\ child \notin Rows(task)
  /\ Commit([task EXCEPT ![child] = NewRow(task[t].type, t, agent)])
  /\ NoRecount
  /\ Begin(r, "recount", None, None)
  /\ UNCHANGED <<reviewOn, Evidence, completers>>

AnyUnfinished(row) == row.status \in ActiveStatuses          \* a mutant
BulkAssignable(row) == row.status \in {"PENDING", "ASSIGNED"}

BulkAssign(chosen, agent) ==
  LET hit == {t \in chosen : BulkAssignable(task[t])} IN
  /\ "bulkAssign" \in Endpoints
  /\ hit # {}
  /\ Commit([t \in Tasks |->
               IF t \in hit THEN HandedTo(task[t], agent) ELSE task[t]])
  /\ RecountInTx
  /\ UNCHANGED <<reviewOn, Evidence, req, completers>>
-----------------------------------------------------------------------------
(* Revisit of a completed task. *)

RevisitRead(r, t) ==
  /\ "revisit" \in Endpoints
  /\ task[t].status = "COMPLETED"
  /\ \A a \in Active(task) : task[a].type # task[t].type
  /\ Begin(r, "revisit", t, None)
  /\ UNCHANGED <<task, caseStatus, reviewOn, Evidence, drift, completers>>

RevisitTx(r, child, agent) ==
  LET t == req[r].task IN
  /\ At(r, "revisit")
  /\ child \notin Rows(task)
  /\ Commit([task EXCEPT ![child] = NewRow(task[t].type, t, agent)])
  /\ RecountInTx
  /\ Done(r)
  /\ UNCHANGED <<reviewOn, Evidence, completers>>
-----------------------------------------------------------------------------
(* The general edits: PUT /verification-tasks, PUT /cases and the case      *)
(* changes the phones upload.                                               *)

UpdateRead(r, t) ==
  /\ "update" \in Endpoints
  /\ t \in Rows(task)
  /\ EditUnlocked(t)
  /\ Begin(r, "update", t, None)
  /\ UNCHANGED <<task, caseStatus, reviewOn, Evidence, drift, completers>>

\* The statement of updateTask: a status or an assignee (or none), with or
\* without an amount.
Edited(row) ==
  LET Restated == {[row EXCEPT !.status = s] :
                     s \in Statuses \ {"SUBMITTED_FOR_REVIEW"}}
      Handed == {[row EXCEPT !.assignee = a,
                             !.status = IF @ = "PENDING" THEN "ASSIGNED" ELSE @] :
                   a \in Agents}
      Unbilled == Restated \cup Handed \cup {row, [row EXCEPT !.assignee = None]}
  IN Unbilled \cup {[new EXCEPT !.amount = "given"] : new \in Unbilled}

UpdateWrite(r) ==
  LET t == req[r].task IN
  /\ "update" \in Endpoints
  /\ At(r, "update")
  /\ \E row \in Edited(task[t]) :
       /\ Commit([task EXCEPT ![t] = row])
       /\ NoteCompletion(t, row.status)
  /\ NoRecount
  /\ Proceed(r, "recount")
  /\ UNCHANGED <<reviewOn, Evidence>>

\* PUT /cases with an assignee: one task of the case, or all of them.
EditCaseAssign(chosen, agent) ==
  /\ "editCase" \in Endpoints
  /\ chosen # {}
  /\ Commit([t \in Tasks |->
               IF t \in chosen THEN HandedTo(task[t], agent) ELSE task[t]])
  /\ Unsynced
  /\ UNCHANGED <<reviewOn, Evidence, req, completers>>

\* PUT /cases with an empty assignee needs another field, hence the edit lock
\* of the case.
UnassignRead(r) ==
  /\ "editCase" \in Endpoints
  /\ IsEditable(caseStatus)
  /\ Begin(r, "unassign", None, None)
  /\ UNCHANGED <<task, caseStatus, reviewOn, Evidence, drift, completers>>

BlankAssignee(row) == [row EXCEPT !.assignee = ""]            \* a mutant
Unassigned(row) == [row EXCEPT !.assignee = None]

UnassignWrite(r, chosen) ==
  /\ "editCase" \in Endpoints
  /\ At(r, "unassign")
  /\ chosen # {}
  /\ Commit([t \in Tasks |->
               IF t \in chosen THEN Unassigned(task[t]) ELSE task[t]])
  /\ NoRecount
  /\ Done(r)
  /\ UNCHANGED <<reviewOn, Evidence, completers>>

EditTargets == {{t} : t \in Rows(task)} \cup {Rows(task)}

\* A phone of an agent with a task in the case writes any column its
\* allowlist names, the status among them.
SyncCaseChange(who, status) ==
  /\ "syncCase" \in Endpoints
  /\ who \in Agents => \E t \in Rows(task) : task[t].assignee = who
  /\ caseStatus' = status
  /\ drift' = TRUE
  /\ UNCHANGED <<task, reviewOn, Evidence, req, completers>>
-----------------------------------------------------------------------------
(* What a request still owes after its commit. *)

RecountOnly(r) ==                                           \* a mutant
  /\ req[r].step \in {"recount", "recountThenHook"}
  /\ caseStatus' = Recounted(task)
  /\ drift' = FALSE
  /\ Done(r)
  /\ UNCHANGED <<task, reviewOn, Evidence, completers>>

Recount(r) ==
  /\ req[r].step \in {"recount", "recountThenHook"}
  /\ caseStatus' = Recounted(task)
  /\ drift' = FALSE
  /\ IF At(r, "recount") THEN Done(r) ELSE Proceed(r, "hook")
  /\ UNCHANGED <<task, reviewOn, Evidence, completers>>

\* autoCalculateCommissionForTask reads the task, then inserts.
AnyAssignee(row) == row.assignee \in Commissioned             \* a mutant
Payable(row) == row.status = "COMPLETED" /\ row.assignee \in Commissioned

HookRead(r) ==
  LET row == task[req[r].task] IN
  /\ At(r, "hook")
  /\ IF Payable(row)
     THEN req' = [req EXCEPT ![r].step = "pay", ![r].who = row.assignee]
     ELSE Done(r)
  /\ UNCHANGED <<task, caseStatus, reviewOn, Evidence, drift, completers>>

HookPay(r) ==
  LET t == req[r].task IN
  /\ At(r, "pay")
  /\ paid' = [paid EXCEPT ![t] = IF @ = None THEN req[r].who ELSE @]
  /\ Done(r)
  /\ UNCHANGED <<task, caseStatus, reviewOn, report, reviewed, revocations,
                 drift, completers>>

\* A request that has only read ends without effect: its guarded statement
\* found no row, the trigger or a unique index refused it, or it failed.
GiveUp(r) ==
  /\ req[r].step \in ReadSteps
  /\ Done(r)
  /\ UNCHANGED <<task, caseStatus, reviewOn, Evidence, drift, completers>>

\* The process dies, or the call throws, after the commit: what is owed is
\* never done.
Die(r) ==
  /\ "die" \in Endpoints
  /\ req[r].step \in OwingSteps
  /\ Done(r)
  /\ drift' = (drift \/ req[r].step \in {"recount", "recountThenHook"})
  /\ UNCHANGED <<task, caseStatus, reviewOn, Evidence, completers>>

ToggleReview ==
  /\ "toggleReview" \in Endpoints
  /\ reviewOn' = ~reviewOn
  /\ UNCHANGED <<task, caseStatus, Evidence, req, drift, completers>>
-----------------------------------------------------------------------------
Init ==
  /\ task = [t \in Tasks |-> NoRow]
  /\ caseStatus = "PENDING"
  /\ reviewOn \in BOOLEAN
  /\ report = [t \in Tasks |-> None]
  /\ reviewed = {}
  /\ revocations = [t \in Tasks |-> 0]
  /\ paid = [t \in Tasks |-> None]
  /\ req = [r \in Requests |-> Idle]
  /\ drift = FALSE
  /\ completers = [t \in Tasks |-> {}]

Reads(r) ==
  \/ \E t \in Tasks, who \in Callers :
       \/ StartRead(r, t, who)
       \/ SyncStartRead(r, t, who)
       \/ WebStartRead(r, t, who)
       \/ SubmitRead(r, t, who)
       \/ MobileRevokeRead(r, t, who)
  \/ \E t \in Tasks : CompleteRead(r, t) \/ RevisitRead(r, t) \/ UpdateRead(r, t)
  \/ WebStartLockCheck(r)
  \/ UnassignRead(r)

Writes(r) ==
  \/ CreateTasks(r)
  \/ StartTx(r)
  \/ SyncStartTx(r)
  \/ WebStartWrite(r)
  \/ SubmitTx(r)
  \/ CompleteTx(r)
  \/ MobileRevokeTx(r)
  \/ UpdateWrite(r)
  \/ \E t \in Tasks : FinalizeReview(r, t)
  \/ \E t \in Tasks, agent \in Agents : Reassign(r, t, agent)
  \/ \E t, child \in Tasks, agent \in Agents : Replace(r, t, child, agent)
  \/ \E child \in Tasks, agent \in Agents \cup {None} : RevisitTx(r, child, agent)
  \/ \E chosen \in EditTargets : UnassignWrite(r, chosen)

Owed(r) == Recount(r) \/ HookRead(r) \/ HookPay(r)

SingleStep ==
  \/ CreateCase
  \/ \E t \in Tasks : Revoke(t)
  \/ \E chosen \in SUBSET Rows(task), agent \in Agents : BulkAssign(chosen, agent)
  \/ \E chosen \in EditTargets, agent \in Agents : EditCaseAssign(chosen, agent)
  \/ \E who \in Callers, status \in Statuses : SyncCaseChange(who, status)
  \/ ToggleReview

Next ==
  \/ \E r \in Requests : Reads(r) \/ Writes(r) \/ Owed(r) \/ GiveUp(r) \/ Die(r)
  \/ SingleStep

Spec == Init /\ [][Next]_vars

\* A request that has committed runs on to its end; nothing obliges anyone to
\* issue another.
FairSpec == Spec /\ \A r \in Requests : WF_vars(Owed(r))
-----------------------------------------------------------------------------
(* What should hold. *)

\* Every variable has the shape of its table or of the request records.
TypeOK ==
  /\ task \in [Tasks -> Row]
  /\ caseStatus \in Statuses
  /\ reviewOn \in BOOLEAN
  /\ report \in [Tasks -> Callers \cup {None}]
  /\ reviewed \in SUBSET Tasks
  /\ revocations \in [Tasks -> 0..MaxRevocations]
  /\ paid \in [Tasks -> Agents \cup {None}]
  /\ req \in [Requests -> Request]
  /\ drift \in BOOLEAN
  /\ completers \in [Tasks -> SUBSET (Agents \cup {None})]

OwesRecount == \E r \in Requests : req[r].step \in {"recount", "recountThenHook"}

\* The case status is the rollup of its tasks, except while a request still
\* owes the recount of what it committed, or after one was lost.
CaseInSync == drift \/ OwesRecount \/ caseStatus = Recounted(task)

\* A task reaches review or completion with its billing amount snapshotted.
AmountOnFinish ==
  \A t \in Tasks : task[t].status \in {"SUBMITTED_FOR_REVIEW", "COMPLETED"} =>
                     task[t].amount # None

\* Whatever reopens, resubmits or completes a task again, the amount first
\* snapshotted is the amount billed.
AmountFrozen ==
  [][\A t \in Tasks : task[t].amount # None =>
                        task'[t].amount = task[t].amount]_vars

\* While backend review is mandatory, a task becomes COMPLETED only from
\* SUBMITTED_FOR_REVIEW and with a recorded review.
ReviewMandatory ==
  [][\A t \in Tasks :
       reviewOn /\ task[t].status # "COMPLETED" /\ task'[t].status = "COMPLETED"
         => task[t].status = "SUBMITTED_FOR_REVIEW" /\ t \in reviewed']_vars

\* Racing revocations from the office and the phone leave exactly one ledger
\* row, the task revoked for good and nobody holding it.
RevokedIsSettled ==
  \A t \in Tasks :
    IF task[t].status = "REVOKED"
    THEN revocations[t] = 1 /\ task[t].assignee = None
    ELSE revocations[t] = 0

\* started_at marks work under way: never a task that waits to be started,
\* always a task in progress, and that one is in somebody's hands.
StartStamp ==
  \A t \in Tasks :
    /\ task[t].status \in {"PENDING", "ASSIGNED"} => ~task[t].started
    /\ task[t].status = "IN_PROGRESS" => task[t].started /\ task[t].assignee # None

\* The one commission of a task goes to an agent who held it at a completion,
\* however late the hook runs and whoever holds the task by then.
CommissionBacked ==
  \A t \in Tasks : paid[t] # None => paid[t] \in completers[t]

\* A task that was replaced or revisited is superseded: no form is filed for
\* it any more, although the children are only looked at before the
\* transaction.
SupersededNotFiled ==
  [][\A t \in Tasks : report'[t] # report[t] => Children(t) = {}]_vars

\* With every owed recount done in the end, the case status is the rollup of
\* its tasks again and again, whatever keeps changing them.
CaseCatchesUp == []<>(caseStatus = Recounted(task))

\* A completed task is paid for in the end, unless it is reopened.
CommissionArrives ==
  \A t \in Tasks :
    task[t].status = "COMPLETED" /\ task[t].assignee \in Commissioned
      ~> paid[t] # None \/ task[t].status # "COMPLETED"
-----------------------------------------------------------------------------
(* The promise these handlers implement. *)

Phase(row) ==
  CASE row.status = "ABSENT" -> "absent"
    [] row.status \in {"PENDING", "ASSIGNED"} -> "waiting"
    [] row.status = "IN_PROGRESS" -> "visit"
    [] row.status = "SUBMITTED_FOR_REVIEW" -> "review"
    [] row.status = "COMPLETED" -> "done"
    [] row.status = "REVOKED" -> "revoked"

Visit == INSTANCE TaskVisit WITH
           Amounts <- {"estimated", "given"},
           phase <- [t \in Tasks |-> Phase(task[t])],
           holder <- [t \in Tasks |-> task[t].assignee],
           bill <- [t \in Tasks |-> task[t].amount]

\* However the requests of the workflow interleave, each task lives the life of
\* TaskVisit: visited only in somebody's hands, handed over only while it waits
\* or once it is done, billed once, and gone when revoked.
VisitsFollowed == Visit!Spec
=============================================================================
