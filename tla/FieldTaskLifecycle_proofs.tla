---------------------- MODULE FieldTaskLifecycle_proofs ----------------------
(***************************************************************************)
(* What FieldTaskLifecycle guarantees for every set of tasks, agents and   *)
(* requests.                                                               *)
(***************************************************************************)
EXTENDS FieldTaskLifecycle, TLAPS

-----------------------------------------------------------------------------
(* The operators the actions are built from. *)

\* The status recalculateCaseStatus writes is always a case status.
LEMMA RollupType == ASSUME NEW S PROVE Rollup(S) \in Statuses
  BY DEF Rollup, Statuses

LEMMA RecountedType ==
  ASSUME caseStatus \in Statuses, NEW tk PROVE Recounted(tk) \in Statuses
  BY RollupType DEF Recounted

\* What a handler writes into a row is a row.
LEMMA RowEdits ==
  ASSUME NEW row \in Row
  PROVE  /\ Started(row) \in Row
         /\ Revoked(row) \in Row
         /\ Unassigned(row) \in Row
         /\ \A agent \in Agents :
              HandedTo(row, agent) \in Row /\ Reassigned(row, agent) \in Row
         /\ \A status \in Statuses, given \in {"estimated", "given"} :
              Finished(row, status, given) \in Row
         /\ Edited(row) \subseteq Row
<1>1. Started(row) \in Row /\ Revoked(row) \in Row /\ Unassigned(row) \in Row
  BY DEF Row, Statuses, Started, Revoked, Unassigned
<1>2. ASSUME NEW status \in Statuses, NEW given \in {"estimated", "given"}
      PROVE  Finished(row, status, given) \in Row
  BY DEF Row, Finished, Snapshot
<1>3. ASSUME NEW new \in Edited(row) PROVE new \in Row
  <2> DEFINE Unbilled ==
               {[row EXCEPT !.status = s] : s \in Statuses \ {"SUBMITTED_FOR_REVIEW"}}
                 \cup {[row EXCEPT !.assignee = a,
                                   !.status = IF @ = "PENDING" THEN "ASSIGNED" ELSE @] :
                         a \in Agents}
                 \cup {row, [row EXCEPT !.assignee = None]}
  <2>1. ASSUME NEW old \in Unbilled PROVE old \in Row
    <3>1. CASE \E s \in Statuses \ {"SUBMITTED_FOR_REVIEW"} :
                 old = [row EXCEPT !.status = s]
      BY <3>1 DEF Row
    <3>2. CASE \E a \in Agents :
                 old = [row EXCEPT !.assignee = a,
                                   !.status = IF @ = "PENDING" THEN "ASSIGNED" ELSE @]
      BY <3>2 DEF Row, Statuses
    <3>3. CASE old \in {row, [row EXCEPT !.assignee = None]}
      BY <3>3 DEF Row
    <3> QED BY <2>1, <3>1, <3>2, <3>3
  <2>2. new \in Unbilled \/ \E old \in Unbilled : new = [old EXCEPT !.amount = "given"]
    BY <1>3 DEF Edited
  <2>3. ASSUME NEW old \in Row PROVE [old EXCEPT !.amount = "given"] \in Row
    BY DEF Row
  <2> HIDE DEF Unbilled
  <2> QED BY <2>1, <2>2, <2>3
<1>4. ASSUME NEW agent \in Agents
      PROVE  HandedTo(row, agent) \in Row /\ Reassigned(row, agent) \in Row
  BY DEF Row, Statuses, HandedTo, Reassigned
<1> QED BY <1>1, <1>2, <1>3, <1>4

LEMMA NewRowType ==
  ASSUME NEW type \in Types \cup {None}, NEW parent \in Tasks \cup {None},
         NEW agent \in Agents \cup {None}
  PROVE  NewRow(type, parent, agent) \in Row
  BY DEF NewRow, Row, Statuses

\* Writing rows into the table leaves a table.
LEMMA TableWrite ==
  ASSUME NEW tk \in [Tasks -> Row], NEW t \in Tasks, NEW row \in Row
  PROVE  [tk EXCEPT ![t] = row] \in [Tasks -> Row]
  OBVIOUS

\* No statement takes a row out of the table.
LEMMA CommitKeepsRows ==
  ASSUME NEW tk, Commit(tk) PROVE Rows(task) \subseteq Rows(task')
  BY DEF Commit, Rows, GuardAllows, Transitions
-----------------------------------------------------------------------------
(* Type correctness. *)

\* A request past its first step knows the row it is about, and the caller
\* or payee it will write.
RequestsNamed ==
  \A r \in Requests :
    /\ req[r].step \notin {"idle", "recount", "unassign"} => req[r].task \in Rows(task)
    /\ req[r].step = "submit" => req[r].who \in Callers
    /\ req[r].step = "pay" => req[r].who \in Agents

TypeInv == TypeOK /\ RequestsNamed

\* The ways a step moves a request keep the requests well formed.
LEMMA RequestMoves ==
  ASSUME TypeInv, NEW r \in Requests, Rows(task) \subseteq Rows(task'),
         \/ Done(r)
         \/ \E s \in OwingSteps \cup {"webStartWrite"} :
              /\ req[r].step \notin {"idle", "recount", "unassign"}
              /\ s # "pay"
              /\ Proceed(r, s)
         \/ Proceed(r, "recount")
         \/ \E s \in ReadSteps \cup OwingSteps, t \in Tasks \cup {None},
               who \in Callers \cup {None} :
              /\ Begin(r, s, t, who)
              /\ s \notin {"recount", "unassign"} => t \in Rows(task)
              /\ s = "submit" => who \in Callers
              /\ s # "pay"
  PROVE  req' \in [Requests -> Request] /\ RequestsNamed'
<1> USE DEF TypeInv, TypeOK
<1>1. CASE Done(r)
  BY <1>1 DEF Done, Idle, Request, RequestsNamed
<1>2. CASE \E s \in OwingSteps \cup {"webStartWrite"} :
              /\ req[r].step \notin {"idle", "recount", "unassign"}
              /\ s # "pay"
              /\ Proceed(r, s)
  BY <1>2 DEF Proceed, Request, RequestsNamed, OwingSteps, ReadSteps
<1>3. CASE Proceed(r, "recount")
  BY <1>3 DEF Proceed, Request, RequestsNamed, OwingSteps
<1>4. CASE \E s \in ReadSteps \cup OwingSteps, t \in Tasks \cup {None},
               who \in Callers \cup {None} :
              /\ Begin(r, s, t, who)
              /\ s \notin {"recount", "unassign"} => t \in Rows(task)
              /\ s = "submit" => who \in Callers
              /\ s # "pay"
  BY <1>4 DEF Begin, Idle, Request, RequestsNamed
<1> QED BY <1>1, <1>2, <1>3, <1>4

\* A request that reads leaves the tables alone.
LEMMA ReadsType ==
  ASSUME TypeInv, NEW r \in Requests, Reads(r) PROVE TypeInv'
<1>1. ASSUME NEW t \in Tasks, NEW who \in Callers,
             \/ StartRead(r, t, who)
             \/ SyncStartRead(r, t, who)
             \/ WebStartRead(r, t, who)
             \/ SubmitRead(r, t, who)
             \/ MobileRevokeRead(r, t, who)
      PROVE  TypeInv'
  <2>1. UNCHANGED <<task, caseStatus, reviewOn, Evidence, drift, completers>>
    BY <1>1 DEF StartRead, SyncStartRead, WebStartRead, SubmitRead, MobileRevokeRead
  <2>2. \E s \in ReadSteps : Begin(r, s, t, who) /\ t \in Rows(task)
    BY <1>1 DEF StartRead, SyncStartRead, WebStartRead, SubmitRead,
                MobileRevokeRead, ReadSteps
  <2>3. req' \in [Requests -> Request] /\ RequestsNamed'
    BY <2>1, <2>2, RequestMoves DEF Rows, ReadSteps
  <2> QED BY <2>1, <2>3 DEF TypeInv, TypeOK, Evidence
<1>2. ASSUME NEW t \in Tasks, CompleteRead(r, t) \/ RevisitRead(r, t) \/ UpdateRead(r, t)
      PROVE  TypeInv'
  <2>1. UNCHANGED <<task, caseStatus, reviewOn, Evidence, drift, completers>>
    BY <1>2 DEF CompleteRead, RevisitRead, UpdateRead
  <2>2. task[t].assignee \in Agents \cup {None}
    BY DEF TypeInv, TypeOK, Row
  <2>3. \E s \in {"complete", "revisit", "update"}, who \in Callers \cup {None} :
           Begin(r, s, t, who) /\ t \in Rows(task)
    BY <1>2, <2>2 DEF CompleteRead, RevisitRead, UpdateRead, Callers, Rows
  <2>4. req' \in [Requests -> Request] /\ RequestsNamed'
    BY <2>1, <2>3, RequestMoves DEF Rows, ReadSteps
  <2> QED BY <2>1, <2>4 DEF TypeInv, TypeOK, Evidence
<1>3. CASE WebStartLockCheck(r)
  <2>1. req' \in [Requests -> Request] /\ RequestsNamed'
    BY <1>3, RequestMoves DEF WebStartLockCheck, At, Rows
  <2> QED BY <1>3, <2>1 DEF WebStartLockCheck, TypeInv, TypeOK, Evidence
<1>4. CASE UnassignRead(r)
  <2>1. req' \in [Requests -> Request] /\ RequestsNamed'
    BY <1>4, RequestMoves DEF UnassignRead, Rows, ReadSteps
  <2> QED BY <1>4, <2>1 DEF UnassignRead, TypeInv, TypeOK, Evidence
<1> QED BY <1>1, <1>2, <1>3, <1>4 DEF Reads

\* What is left to a request after its commit, its early end and its death.
LEMMA OwedType ==
  ASSUME TypeInv, NEW r \in Requests, Owed(r) \/ GiveUp(r) \/ Die(r)
  PROVE  TypeInv'
<1>1. CASE Recount(r)
  <2>1. req' \in [Requests -> Request] /\ RequestsNamed'
    BY <1>1, RequestMoves DEF Recount, At, Rows, OwingSteps
  <2>2. caseStatus' \in Statuses
    BY <1>1, RecountedType DEF Recount, TypeInv, TypeOK
  <2> QED BY <1>1, <2>1, <2>2 DEF Recount, TypeInv, TypeOK, Evidence
<1>2. CASE HookRead(r)
  <2>1. CASE Payable(task[req[r].task])
    <3>1. task[req[r].task].assignee \in Agents
      BY <2>1, Assumptions DEF Payable
    <3> QED BY <1>2, <2>1, <3>1
            DEF HookRead, At, TypeInv, TypeOK, Request, RequestsNamed, Evidence,
                OwingSteps, Callers, Rows
  <2>2. CASE ~Payable(task[req[r].task])
    <3>1. req' \in [Requests -> Request] /\ RequestsNamed'
      BY <1>2, <2>2, RequestMoves DEF HookRead, Rows
    <3> QED BY <1>2, <3>1 DEF HookRead, TypeInv, TypeOK, Evidence
  <2> QED BY <2>1, <2>2
<1>3. CASE HookPay(r)
  <2>1. req' \in [Requests -> Request] /\ RequestsNamed'
    BY <1>3, RequestMoves DEF HookPay, Rows
  <2>2. paid' \in [Tasks -> Agents \cup {None}]
    BY <1>3 DEF HookPay, At, TypeInv, TypeOK, RequestsNamed
  <2> QED BY <1>3, <2>1, <2>2 DEF HookPay, TypeInv, TypeOK
<1>4. CASE GiveUp(r)
  <2>1. req' \in [Requests -> Request] /\ RequestsNamed'
    BY <1>4, RequestMoves DEF GiveUp, Rows
  <2> QED BY <1>4, <2>1 DEF GiveUp, TypeInv, TypeOK, Evidence
<1>5. CASE Die(r)
  <2>1. req' \in [Requests -> Request] /\ RequestsNamed'
    BY <1>5, RequestMoves DEF Die, Rows
  <2> QED BY <1>5, <2>1 DEF Die, TypeInv, TypeOK, Evidence
<1> QED BY <1>1, <1>2, <1>3, <1>4, <1>5 DEF Owed

\* Writing one row leaves a table of rows.
LEMMA RowWritten ==
  ASSUME TypeInv, NEW t \in Tasks, NEW row \in Row,
         Commit([task EXCEPT ![t] = row])
  PROVE  task' \in [Tasks -> Row]
  BY DEF Commit, TypeInv, TypeOK

\* The history of completions keeps its type.
LEMMA CompletionNoted ==
  ASSUME TypeInv, NEW t \in Tasks, NEW status, NoteCompletion(t, status)
  PROVE  completers' \in [Tasks -> SUBSET (Agents \cup {None})]
<1>1. task[t].assignee \in Agents \cup {None}
  BY DEF TypeInv, TypeOK, Row
<1> QED BY <1>1 DEF NoteCompletion, TypeInv, TypeOK

LEMMA TargetType == TargetStatus \in Statuses
  BY DEF TargetStatus, Statuses

\* Submission, completion and review.
LEMMA FinishingType ==
  ASSUME TypeInv, NEW r \in Requests,
         SubmitTx(r) \/ CompleteTx(r) \/ \E t \in Tasks : FinalizeReview(r, t)
  PROVE  TypeInv'
<1>1. CASE SubmitTx(r)
  <2> DEFINE t == req[r].task
  <2>1. t \in Tasks /\ t \in Rows(task) /\ req[r].who \in Callers
    BY <1>1 DEF SubmitTx, At, TypeInv, RequestsNamed, Rows
  <2>2. task[t] \in Row
    BY <2>1 DEF TypeInv, TypeOK
  <2>3. Finished(task[t], TargetStatus, "estimated") \in Row
    BY <2>2, RowEdits, TargetType
  <2>4. Commit([task EXCEPT ![t] = Finished(task[t], TargetStatus, "estimated")])
    BY <1>1 DEF SubmitTx
  <2>5. task' \in [Tasks -> Row]
    BY <2>1, <2>3, <2>4, RowWritten
  <2>6. Rows(task) \subseteq Rows(task')
    BY <2>4, CommitKeepsRows
  <2>7. req' \in [Requests -> Request] /\ RequestsNamed'
    BY <1>1, <2>6, RequestMoves DEF SubmitTx, At, OwingSteps
  <2>8. caseStatus' \in Statuses /\ drift' \in BOOLEAN
    BY <1>1, RecountedType DEF SubmitTx, RecountInTx, TypeInv, TypeOK
  <2>9. report' \in [Tasks -> Callers \cup {None}]
    BY <1>1, <2>1 DEF SubmitTx, TypeInv, TypeOK
  <2>10. completers' \in [Tasks -> SUBSET (Agents \cup {None})]
    BY <1>1, <2>1, CompletionNoted DEF SubmitTx
  <2> QED BY <1>1, <2>5, <2>7, <2>8, <2>9, <2>10 DEF SubmitTx, TypeInv, TypeOK
<1>2. CASE CompleteTx(r)
  <2> DEFINE t == req[r].task
  <2>1. t \in Tasks /\ t \in Rows(task)
    BY <1>2 DEF CompleteTx, At, TypeInv, RequestsNamed, Rows
  <2>2. task[t] \in Row
    BY <2>1 DEF TypeInv, TypeOK
  <2>3. PICK given \in {"estimated", "given"} :
          Commit([task EXCEPT ![t] = Finished(task[t], TargetStatus, given)])
    BY <1>2 DEF CompleteTx
  <2>4. Finished(task[t], TargetStatus, given) \in Row
    BY <2>2, <2>3, RowEdits, TargetType
  <2>5. task' \in [Tasks -> Row]
    BY <2>1, <2>3, <2>4, RowWritten
  <2>6. Rows(task) \subseteq Rows(task')
    BY <2>3, CommitKeepsRows
  <2>7. req' \in [Requests -> Request] /\ RequestsNamed'
    BY <1>2, <2>6, RequestMoves DEF CompleteTx, At, OwingSteps
  <2>8. completers' \in [Tasks -> SUBSET (Agents \cup {None})]
    BY <1>2, <2>1, CompletionNoted DEF CompleteTx
  <2> QED BY <1>2, <2>5, <2>7, <2>8 DEF CompleteTx, NoRecount, Evidence, TypeInv, TypeOK
<1>3. ASSUME NEW t \in Tasks, FinalizeReview(r, t) PROVE TypeInv'
  <2>1. Finished(task[t], "COMPLETED", "estimated") \in Row
    BY RowEdits DEF TypeInv, TypeOK, Statuses
  <2>2. Commit([task EXCEPT ![t] = Finished(task[t], "COMPLETED", "estimated")])
    BY <1>3 DEF FinalizeReview
  <2>3. task' \in [Tasks -> Row]
    BY <2>1, <2>2, RowWritten
  <2>4. Rows(task) \subseteq Rows(task') /\ t \in Rows(task)
    BY <1>3, <2>2, CommitKeepsRows DEF FinalizeReview, Rows
  <2>5. req' \in [Requests -> Request] /\ RequestsNamed'
    BY <1>3, <2>4, RequestMoves DEF FinalizeReview, OwingSteps
  <2>6. completers' \in [Tasks -> SUBSET (Agents \cup {None})]
    BY <1>3, CompletionNoted DEF FinalizeReview
  <2> QED BY <1>3, <2>3, <2>5, <2>6 DEF FinalizeReview, NoRecount, TypeInv, TypeOK
<1> QED BY <1>1, <1>2, <1>3

\* A revocation keeps the tables typed; it moves no request by itself.
LEMMA RevokeTxType ==
  ASSUME TypeInv, NEW t \in Tasks, RevokeTx(t), req' \in [Requests -> Request]
  PROVE  TypeOK'
<1>1. Revoked(task[t]) \in Row
  BY RowEdits DEF TypeInv, TypeOK
<1>2. task' \in [Tasks -> Row]
  BY <1>1, RowWritten DEF RevokeTx
<1>3. revocations' \in [Tasks -> 0..MaxRevocations]
  <2>1. revocations[t] \in 0..MaxRevocations /\ revocations[t] < MaxRevocations
    BY DEF RevokeTx, TypeInv, TypeOK
  <2>2. revocations[t] + 1 \in 0..MaxRevocations
    BY <2>1, Assumptions
  <2> QED BY <2>2 DEF RevokeTx, TypeInv, TypeOK
<1>4. caseStatus' \in Statuses /\ drift' \in BOOLEAN
  BY RecountedType DEF RevokeTx, RecountInTx, TypeInv, TypeOK
<1> QED BY <1>2, <1>3, <1>4 DEF RevokeTx, TypeInv, TypeOK

\* The insertion of tasks keeps the table typed and its rows.
LEMMA InsertionType ==
  ASSUME TypeInv, InsertTasks
  PROVE  task' \in [Tasks -> Row] /\ Rows(task) \subseteq Rows(task')
<1>1. PICK new \in SUBSET (Tasks \ Rows(task)) :
        \E type \in [new -> Types], agent \in [new -> Agents] :
          Commit([t \in Tasks |-> IF t \in new THEN NewRow(type[t], None, agent[t])
                                  ELSE task[t]])
  BY DEF InsertTasks
<1>2. PICK type \in [new -> Types], agent \in [new -> Agents] :
        Commit([t \in Tasks |-> IF t \in new THEN NewRow(type[t], None, agent[t])
                                ELSE task[t]])
  BY <1>1
<1>3. ASSUME NEW t \in new PROVE NewRow(type[t], None, agent[t]) \in Row
  <2>1. type[t] \in Types /\ agent[t] \in Agents
    BY <1>3
  <2> QED BY <2>1, NewRowType
<1>4. task' \in [Tasks -> Row]
  BY <1>2, <1>3 DEF Commit, TypeInv, TypeOK
<1> QED BY <1>2, <1>4, CommitKeepsRows

\* Creation, starting, the general update and revocation.
LEMMA WorkingType ==
  ASSUME TypeInv, NEW r \in Requests,
         \/ CreateTasks(r) \/ StartTx(r) \/ SyncStartTx(r) \/ WebStartWrite(r)
         \/ MobileRevokeTx(r) \/ UpdateWrite(r)
  PROVE  TypeInv'
<1>1. CASE CreateTasks(r)
  <2>1. task' \in [Tasks -> Row] /\ Rows(task) \subseteq Rows(task')
    BY <1>1, InsertionType DEF CreateTasks
  <2>2. req' \in [Requests -> Request] /\ RequestsNamed'
    BY <1>1, <2>1, RequestMoves DEF CreateTasks, OwingSteps
  <2> QED BY <1>1, <2>1, <2>2 DEF CreateTasks, NoRecount, Evidence, TypeInv, TypeOK
<1>2. ASSUME StartTx(r) \/ SyncStartTx(r) \/ WebStartWrite(r) PROVE TypeInv'
  <2> DEFINE t == req[r].task
  <2>1. t \in Tasks
    BY <1>2 DEF StartTx, SyncStartTx, WebStartWrite, At, TypeInv, RequestsNamed, Rows
  <2>2. Started(task[t]) \in Row
    BY <2>1, RowEdits DEF TypeInv, TypeOK
  <2>3. UNCHANGED task \/ Commit([task EXCEPT ![t] = Started(task[t])])
    BY <1>2 DEF StartTx, SyncStartTx, WebStartWrite
  <2>4. task' \in [Tasks -> Row]
    BY <2>1, <2>2, <2>3, RowWritten DEF TypeInv, TypeOK
  <2>5. Rows(task) \subseteq Rows(task')
    BY <2>3, CommitKeepsRows DEF Rows
  <2>6. req' \in [Requests -> Request] /\ RequestsNamed'
    BY <1>2, <2>5, RequestMoves DEF StartTx, SyncStartTx, WebStartWrite
  <2>7. caseStatus' \in Statuses /\ drift' \in BOOLEAN
    BY <1>2, RecountedType
       DEF StartTx, SyncStartTx, WebStartWrite, RecountInTx, NoRecount, TypeInv, TypeOK
  <2> QED BY <1>2, <2>4, <2>6, <2>7
          DEF StartTx, SyncStartTx, WebStartWrite, Evidence, TypeInv, TypeOK
<1>3. CASE UpdateWrite(r)
  <2> DEFINE t == req[r].task
  <2>1. t \in Tasks
    BY <1>3 DEF UpdateWrite, At, TypeInv, RequestsNamed, Rows
  <2>2. PICK row \in Edited(task[t]) :
          Commit([task EXCEPT ![t] = row]) /\ NoteCompletion(t, row.status)
    BY <1>3 DEF UpdateWrite
  <2>3. row \in Row
    <3>1. task[t] \in Row
      BY <2>1 DEF TypeInv, TypeOK
    <3> QED BY <2>2, <3>1, RowEdits
  <2>4. task' \in [Tasks -> Row]
    BY <2>1, <2>2, <2>3, RowWritten
  <2>5. Rows(task) \subseteq Rows(task')
    BY <2>2, CommitKeepsRows
  <2>6. req' \in [Requests -> Request] /\ RequestsNamed'
    BY <1>3, <2>5, RequestMoves DEF UpdateWrite
  <2>7. completers' \in [Tasks -> SUBSET (Agents \cup {None})]
    BY <2>1, <2>2, CompletionNoted
  <2> QED BY <1>3, <2>4, <2>6, <2>7 DEF UpdateWrite, NoRecount, Evidence, TypeInv, TypeOK
<1>4. CASE MobileRevokeTx(r)
  <2>1. req[r].task \in Tasks /\ RevokeTx(req[r].task)
    BY <1>4 DEF MobileRevokeTx, At, TypeInv, RequestsNamed, Rows
  <2>2. Rows(task) \subseteq Rows(task')
    BY <2>1, CommitKeepsRows DEF RevokeTx
  <2>3. req' \in [Requests -> Request] /\ RequestsNamed'
    BY <1>4, <2>2, RequestMoves DEF MobileRevokeTx
  <2> QED BY <2>1, <2>3, RevokeTxType DEF TypeInv, TypeOK
<1> QED BY <1>1, <1>2, <1>3, <1>4

\* Assignment, replacement, revisit and the unassigning edit of a case.
LEMMA AssigningType ==
  ASSUME TypeInv, NEW r \in Requests,
         \/ \E t \in Tasks, agent \in Agents : Reassign(r, t, agent)
         \/ \E t, child \in Tasks, agent \in Agents : Replace(r, t, child, agent)
         \/ \E child \in Tasks, agent \in Agents \cup {None} : RevisitTx(r, child, agent)
         \/ \E chosen \in EditTargets : UnassignWrite(r, chosen)
  PROVE  TypeInv'
<1>1. ASSUME NEW t \in Tasks, NEW agent \in Agents, Reassign(r, t, agent)
      PROVE  TypeInv'
  <2>1. task' \in [Tasks -> Row]
    BY <1>1, RowEdits, RowWritten DEF Reassign, TypeInv, TypeOK
  <2>2. Rows(task) \subseteq Rows(task')
    BY <1>1, CommitKeepsRows DEF Reassign
  <2>3. req' \in [Requests -> Request] /\ RequestsNamed'
    BY <1>1, <2>2, RequestMoves DEF Reassign, OwingSteps
  <2> QED BY <1>1, <2>1, <2>3 DEF Reassign, NoRecount, Evidence, TypeInv, TypeOK
<1>2. ASSUME NEW t \in Tasks, NEW child \in Tasks, NEW agent \in Agents,
             Replace(r, t, child, agent)
      PROVE  TypeInv'
  <2>1. NewRow(task[t].type, t, agent) \in Row
    <3>1. task[t].type \in Types \cup {None}
      BY DEF TypeInv, TypeOK, Row
    <3> QED BY <3>1 DEF NewRow, Row, Statuses
  <2>2. Commit([task EXCEPT ![child] = NewRow(task[t].type, t, agent)])
    BY <1>2 DEF Replace
  <2>3. task' \in [Tasks -> Row] /\ Rows(task) \subseteq Rows(task')
    BY <2>1, <2>2, RowWritten, CommitKeepsRows
  <2>4. req' \in [Requests -> Request] /\ RequestsNamed'
    BY <1>2, <2>3, RequestMoves DEF Replace, OwingSteps
  <2> QED BY <1>2, <2>3, <2>4 DEF Replace, NoRecount, Evidence, TypeInv, TypeOK
<1>3. ASSUME NEW child \in Tasks, NEW agent \in Agents \cup {None},
             RevisitTx(r, child, agent)
      PROVE  TypeInv'
  <2> DEFINE t == req[r].task
  <2>1. t \in Tasks
    BY <1>3 DEF RevisitTx, At, TypeInv, RequestsNamed, Rows
  <2>2. NewRow(task[t].type, t, agent) \in Row
    <3>1. task[t].type \in Types \cup {None}
      BY <2>1 DEF TypeInv, TypeOK, Row
    <3> QED BY <2>1, <3>1 DEF NewRow, Row, Statuses
  <2>3. Commit([task EXCEPT ![child] = NewRow(task[t].type, t, agent)])
    BY <1>3 DEF RevisitTx
  <2>4. task' \in [Tasks -> Row] /\ Rows(task) \subseteq Rows(task')
    BY <2>2, <2>3, RowWritten, CommitKeepsRows
  <2>5. req' \in [Requests -> Request] /\ RequestsNamed'
    BY <1>3, <2>4, RequestMoves DEF RevisitTx
  <2>6. caseStatus' \in Statuses /\ drift' \in BOOLEAN
    BY <1>3, RecountedType DEF RevisitTx, RecountInTx, TypeInv, TypeOK
  <2> QED BY <1>3, <2>4, <2>5, <2>6 DEF RevisitTx, Evidence, TypeInv, TypeOK
<1>4. ASSUME NEW chosen \in EditTargets, UnassignWrite(r, chosen) PROVE TypeInv'
  <2>1. \A t \in Tasks : Unassigned(task[t]) \in Row
    BY RowEdits DEF TypeInv, TypeOK
  <2>2. task' \in [Tasks -> Row]
    BY <1>4, <2>1 DEF UnassignWrite, Commit, TypeInv, TypeOK
  <2>3. Rows(task) \subseteq Rows(task')
    BY <1>4, CommitKeepsRows DEF UnassignWrite
  <2>4. req' \in [Requests -> Request] /\ RequestsNamed'
    BY <1>4, <2>3, RequestMoves DEF UnassignWrite
  <2> QED BY <1>4, <2>2, <2>4 DEF UnassignWrite, NoRecount, Evidence, TypeInv, TypeOK
<1> QED BY <1>1, <1>2, <1>3, <1>4

\* The operations that take one step.
LEMMA SingleStepType == ASSUME TypeInv, SingleStep PROVE TypeInv'
<1>1. ASSUME NEW t \in Tasks, Revoke(t) PROVE TypeInv'
  <2>1. RevokeTx(t) /\ UNCHANGED req
    BY <1>1 DEF Revoke
  <2>2. Rows(task) \subseteq Rows(task')
    BY <2>1, CommitKeepsRows DEF RevokeTx
  <2>3. req' \in [Requests -> Request] /\ RequestsNamed'
    BY <2>1, <2>2 DEF TypeInv, TypeOK, RequestsNamed
  <2> QED BY <2>1, <2>3, RevokeTxType DEF TypeInv, TypeOK
<1>2. ASSUME NEW chosen, NEW agent \in Agents,
             BulkAssign(chosen, agent) \/ EditCaseAssign(chosen, agent)
      PROVE  TypeInv'
  <2>1. PICK hit :
          Commit([t \in Tasks |->
                    IF t \in hit THEN HandedTo(task[t], agent) ELSE task[t]])
    BY <1>2 DEF BulkAssign, EditCaseAssign
  <2>2. \A t \in Tasks : HandedTo(task[t], agent) \in Row
    BY RowEdits DEF TypeInv, TypeOK
  <2>3. task' \in [Tasks -> Row]
    BY <2>1, <2>2 DEF Commit, TypeInv, TypeOK
  <2>4. Rows(task) \subseteq Rows(task')
    BY <2>1, CommitKeepsRows
  <2>5. caseStatus' \in Statuses /\ drift' \in BOOLEAN /\ UNCHANGED req
    BY <1>2, RecountedType
       DEF BulkAssign, EditCaseAssign, RecountInTx, Unsynced, TypeInv, TypeOK
  <2>6. req' \in [Requests -> Request] /\ RequestsNamed'
    BY <2>4, <2>5 DEF TypeInv, TypeOK, RequestsNamed
  <2> QED BY <1>2, <2>3, <2>5, <2>6
          DEF BulkAssign, EditCaseAssign, Evidence, TypeInv, TypeOK
<1>3. ASSUME NEW who \in Callers, NEW status \in Statuses, SyncCaseChange(who, status)
      PROVE  TypeInv'
  BY <1>3 DEF SyncCaseChange, Evidence, TypeInv, TypeOK, RequestsNamed, Rows
<1>4. CASE ToggleReview
  BY <1>4 DEF ToggleReview, Evidence, TypeInv, TypeOK, RequestsNamed, Rows
<1>5. CASE CreateCase
  <2>1. task' \in [Tasks -> Row] /\ Rows(task) \subseteq Rows(task')
    BY <1>5, InsertionType DEF CreateCase
  <2>2. req' \in [Requests -> Request] /\ RequestsNamed'
    BY <1>5, <2>1 DEF CreateCase, TypeInv, TypeOK, RequestsNamed
  <2> QED BY <1>5, <2>1, <2>2 DEF CreateCase, Unsynced, Evidence, TypeInv, TypeOK
<1> QED BY <1>1, <1>2, <1>3, <1>4, <1>5 DEF SingleStep

LEMMA TypeInvInit == Init => TypeInv
<1> SUFFICES ASSUME Init PROVE TypeInv
  OBVIOUS
<1>1. NoRow \in Row /\ Idle \in Request /\ 0 \in 0..MaxRevocations
  BY Assumptions DEF NoRow, Row, Idle, Request
<1>2. TypeOK
  BY <1>1 DEF Init, TypeOK, Statuses
<1>3. RequestsNamed
  BY DEF Init, RequestsNamed, Idle
<1> QED BY <1>2, <1>3 DEF TypeInv

LEMMA TypeInvStep == TypeInv /\ [Next]_vars => TypeInv'
<1> SUFFICES ASSUME TypeInv, [Next]_vars PROVE TypeInv'
  OBVIOUS
<1>1. ASSUME NEW r \in Requests, Writes(r) PROVE TypeInv'
  BY <1>1, FinishingType, WorkingType, AssigningType DEF Writes
<1>2. ASSUME NEW r \in Requests, Reads(r) \/ Writes(r) \/ Owed(r) \/ GiveUp(r) \/ Die(r)
      PROVE  TypeInv'
  BY <1>1, <1>2, ReadsType, OwedType
<1>3. CASE UNCHANGED vars
  BY <1>3 DEF vars, TypeInv, TypeOK, RequestsNamed, Rows
<1> QED BY <1>2, <1>3, SingleStepType DEF Next

\* Whatever the endpoints do, and however their steps interleave, every table
\* and every request record keeps its shape.
THEOREM TypeCorrect == Spec => []TypeOK
<1>1. TypeInv => TypeOK
  BY DEF TypeInv
<1> QED BY <1>1, TypeInvInit, TypeInvStep, PTL DEF Spec
-----------------------------------------------------------------------------
(* The case status. *)

RecountSteps == {"recount", "recountThenHook"}

\* A request that owes no recount may move without settling anyone's debt.
LEMMA DebtsStay ==
  ASSUME TypeInv, NEW r \in Requests, req[r].step \notin RecountSteps,
         NEW q, req' = [req EXCEPT ![r] = q], OwesRecount
  PROVE  OwesRecount'
  BY DEF OwesRecount, RecountSteps, TypeInv, TypeOK

\* The four ways a step may keep the case in sync: it recounts, it leaves a
\* request that owes the recount, it is noted as drift, or it changes neither
\* the statuses nor the debts.
LEMMA SyncWays ==
  ASSUME TypeInv, CaseInSync,
         \/ caseStatus' = Recounted(task')
         \/ OwesRecount'
         \/ drift'
         \/ /\ UNCHANGED <<task, caseStatus, drift>>
            /\ OwesRecount => OwesRecount'
  PROVE  CaseInSync'
<1>1. CASE caseStatus' = Recounted(task')
  BY <1>1 DEF CaseInSync, Recounted, Rows
<1>2. CASE OwesRecount' \/ drift'
  BY <1>2 DEF CaseInSync
<1>3. CASE UNCHANGED <<task, caseStatus, drift>> /\ (OwesRecount => OwesRecount')
  BY <1>3 DEF CaseInSync, Recounted, Rows
<1> QED BY <1>1, <1>2, <1>3

\* A request that has only read owes nothing yet.
LEMMA ReadsSync ==
  ASSUME TypeInv, CaseInSync, NEW r \in Requests, Reads(r) \/ GiveUp(r)
  PROVE  CaseInSync'
<1>1. UNCHANGED <<task, caseStatus, drift>>
  BY DEF Reads, StartRead, SyncStartRead, WebStartRead, SubmitRead, MobileRevokeRead,
         CompleteRead, RevisitRead, UpdateRead, WebStartLockCheck, UnassignRead, GiveUp
<1>2. req[r].step \notin RecountSteps /\ \E q : req' = [req EXCEPT ![r] = q]
  <2>1. CASE \E s, t, who : Begin(r, s, t, who)
    <3>1. PICK s, t, who : Begin(r, s, t, who)
      BY <2>1
    <3>2. req[r].step \notin RecountSteps
      BY <3>1 DEF Begin, Idle, RecountSteps
    <3>3. req' = [req EXCEPT ![r] = [step |-> s, task |-> t, who |-> who]]
      BY <3>1 DEF Begin
    <3> QED BY <3>2, <3>3
  <2>2. CASE GiveUp(r)
    BY <2>2 DEF GiveUp, Done, ReadSteps, RecountSteps
  <2>3. CASE WebStartLockCheck(r)
    <3>1. req' = [req EXCEPT ![r] = [req[r] EXCEPT !.step = "webStartWrite"]]
      BY <2>3 DEF WebStartLockCheck, Proceed, TypeInv, TypeOK
    <3> QED BY <2>3, <3>1 DEF WebStartLockCheck, At, RecountSteps
  <2>4. \/ \E s, t, who : Begin(r, s, t, who)
        \/ GiveUp(r)
        \/ WebStartLockCheck(r)
    BY DEF Reads, StartRead, SyncStartRead, WebStartRead, SubmitRead,
           MobileRevokeRead, CompleteRead, RevisitRead, UpdateRead, UnassignRead
  <2> QED BY <2>1, <2>2, <2>3, <2>4
<1>3. OwesRecount => OwesRecount'
  BY <1>2, DebtsStay
<1> QED BY <1>1, <1>3, SyncWays

LEMMA WritesSync ==
  ASSUME TypeInv, CaseInSync, NEW r \in Requests, Writes(r)
  PROVE  CaseInSync'
<1>1. CASE \/ StartTx(r) \/ SyncStartTx(r) \/ SubmitTx(r) \/ MobileRevokeTx(r)
           \/ \E child \in Tasks, agent \in Agents \cup {None} : RevisitTx(r, child, agent)
  <2>1. caseStatus' = Recounted(task')
    BY <1>1 DEF StartTx, SyncStartTx, SubmitTx, MobileRevokeTx, RevokeTx, RevisitTx,
                RecountInTx
  <2> QED BY <2>1, SyncWays
<1>2. CASE \/ CreateTasks(r)
           \/ \E t \in Tasks : FinalizeReview(r, t)
           \/ \E t \in Tasks, agent \in Agents : Reassign(r, t, agent)
           \/ \E t, child \in Tasks, agent \in Agents : Replace(r, t, child, agent)
  <2>1. \E t, who : \E s \in RecountSteps : Begin(r, s, t, who)
    BY <1>2 DEF CreateTasks, FinalizeReview, Reassign, Replace, RecountSteps
  <2>2. OwesRecount'
    BY <2>1 DEF Begin, OwesRecount, RecountSteps, TypeInv, TypeOK
  <2> QED BY <2>2, SyncWays
<1>3. CASE WebStartWrite(r) \/ CompleteTx(r) \/ UpdateWrite(r)
  <2>1. \E s \in RecountSteps : Proceed(r, s)
    BY <1>3 DEF WebStartWrite, CompleteTx, UpdateWrite, RecountSteps
  <2>2. OwesRecount'
    BY <2>1 DEF Proceed, OwesRecount, RecountSteps, TypeInv, TypeOK, Request
  <2> QED BY <2>2, SyncWays
<1>4. ASSUME NEW chosen \in EditTargets, UnassignWrite(r, chosen) PROVE CaseInSync'
  <2>1. \A t \in Tasks : task'[t].status = task[t].status
    <3>1. \A t \in Tasks : Unassigned(task[t]).status = task[t].status
      BY DEF Unassigned, TypeInv, TypeOK, Row
    <3> QED BY <1>4, <3>1 DEF UnassignWrite, Commit
  <2>2. Rows(task') = Rows(task)
    BY <2>1 DEF Rows
  <2>3. {task'[t].status : t \in Rows(task')} = {task[t].status : t \in Rows(task)}
    BY <2>1, <2>2 DEF Rows
  <2>4. UNCHANGED <<caseStatus, drift>>
    BY <1>4 DEF UnassignWrite, NoRecount
  <2>5. OwesRecount => OwesRecount'
    BY <1>4, DebtsStay DEF UnassignWrite, At, Done, RecountSteps
  <2>6. caseStatus = Recounted(task) => caseStatus' = Recounted(task')
    BY <2>2, <2>3, <2>4 DEF Recounted
  <2>7. CASE drift \/ OwesRecount
    BY <2>4, <2>5, <2>7 DEF CaseInSync
  <2>8. CASE caseStatus = Recounted(task)
    BY <2>6, <2>8, SyncWays
  <2> QED BY <2>7, <2>8 DEF CaseInSync
<1> QED BY <1>1, <1>2, <1>3, <1>4 DEF Writes

LEMMA OwedSync ==
  ASSUME TypeInv, CaseInSync, NEW r \in Requests, Owed(r) \/ Die(r)
  PROVE  CaseInSync'
<1>1. CASE Recount(r)
  <2>1. caseStatus' = Recounted(task')
    BY <1>1 DEF Recount, Recounted, Rows
  <2> QED BY <2>1, SyncWays
<1>2. CASE HookRead(r) \/ HookPay(r)
  <2>1. req[r].step \notin RecountSteps /\ \E q : req' = [req EXCEPT ![r] = q]
    <3>1. req[r].step \notin RecountSteps
      BY <1>2 DEF HookRead, HookPay, At, RecountSteps
    <3>2. req' = [req EXCEPT ![r] = req'[r]]
      BY <1>2 DEF HookRead, HookPay, Done, TypeInv, TypeOK
    <3> QED BY <3>1, <3>2
  <2>2. OwesRecount => OwesRecount'
    BY <2>1, DebtsStay
  <2>3. UNCHANGED <<task, caseStatus, drift>>
    BY <1>2 DEF HookRead, HookPay
  <2> QED BY <2>2, <2>3, SyncWays
<1>3. CASE Die(r)
  <2>1. CASE req[r].step \in RecountSteps
    BY <1>3, <2>1, SyncWays DEF Die, RecountSteps
  <2>2. CASE req[r].step \notin RecountSteps
    <3>1. OwesRecount => OwesRecount'
      BY <1>3, <2>2, DebtsStay DEF Die, Done
    <3>2. UNCHANGED <<task, caseStatus, drift>>
      BY <1>3, <2>2 DEF Die, RecountSteps, TypeInv, TypeOK
    <3> QED BY <3>1, <3>2, SyncWays
  <2> QED BY <2>1, <2>2
<1> QED BY <1>1, <1>2, <1>3 DEF Owed

LEMMA SingleStepSync ==
  ASSUME TypeInv, CaseInSync, SingleStep PROVE CaseInSync'
<1>1. CASE \/ \E t \in Tasks : Revoke(t)
           \/ \E chosen \in SUBSET Rows(task), agent \in Agents : BulkAssign(chosen, agent)
  <2>1. caseStatus' = Recounted(task')
    BY <1>1 DEF Revoke, RevokeTx, BulkAssign, RecountInTx
  <2> QED BY <2>1, SyncWays
<1>2. CASE \/ \E chosen \in EditTargets, agent \in Agents : EditCaseAssign(chosen, agent)
           \/ \E who \in Callers, status \in Statuses : SyncCaseChange(who, status)
           \/ CreateCase
  <2>1. drift'
    BY <1>2 DEF EditCaseAssign, CreateCase, Unsynced, SyncCaseChange
  <2> QED BY <2>1, SyncWays
<1>3. CASE ToggleReview
  <2>1. UNCHANGED <<task, caseStatus, drift>> /\ (OwesRecount => OwesRecount')
    BY <1>3 DEF ToggleReview, OwesRecount
  <2> QED BY <2>1, SyncWays
<1> QED BY <1>1, <1>2, <1>3 DEF SingleStep

\* The status of the case is the rollup of its tasks, except while a request
\* owes the recount of what it committed, or after a recount was lost or
\* bypassed: every other handler recounts in its own transaction.
THEOREM CaseStatusFollows == Spec => []CaseInSync
<1>1. Init => CaseInSync
  BY DEF Init, CaseInSync, Recounted, Rows, NoRow
<1>2. TypeInv /\ CaseInSync /\ [Next]_vars => CaseInSync'
  <2> SUFFICES ASSUME TypeInv, CaseInSync, [Next]_vars PROVE CaseInSync'
    OBVIOUS
  <2>1. CASE UNCHANGED vars
    BY <2>1, SyncWays DEF vars, OwesRecount
  <2>2. ASSUME NEW r \in Requests,
               Reads(r) \/ Writes(r) \/ Owed(r) \/ GiveUp(r) \/ Die(r)
        PROVE  CaseInSync'
    BY <2>2, ReadsSync, WritesSync, OwedSync
  <2> QED BY <2>1, <2>2, SingleStepSync DEF Next
<1> QED BY <1>1, <1>2, TypeInvInit, TypeInvStep, PTL DEF Spec
-----------------------------------------------------------------------------
(* The life of one row, when the general edits are not used.  All that the *)
(* workflow can do to a task in one step is one of these.                  *)

WorkflowOnly == "update" \notin Endpoints /\ "editCase" \notin Endpoints

Kept(t) == task'[t] = task[t] /\ revocations'[t] = revocations[t]
           /\ completers'[t] = completers[t]

Born(t) ==
  /\ task[t].status = "ABSENT"
  /\ \E type \in Types \cup {None}, parent \in Tasks \cup {None},
        agent \in Agents \cup {None} : task'[t] = NewRow(type, parent, agent)
  /\ UNCHANGED <<revocations[t], completers[t]>>

BeginsVisit(t) ==
  /\ task[t].status \in {"ASSIGNED", "IN_PROGRESS", "SUBMITTED_FOR_REVIEW"}
  /\ task'[t] = Started(task[t])
  /\ UNCHANGED <<revocations[t], completers[t]>>

FinishedByRequest(t) ==
  \E r \in Requests : (SubmitTx(r) \/ CompleteTx(r)) /\ req[r].task = t

Finishes(t) ==
  \E status \in {"SUBMITTED_FOR_REVIEW", "COMPLETED"}, given \in {"estimated", "given"} :
    /\ task[t].status \in {"IN_PROGRESS", "SUBMITTED_FOR_REVIEW", "COMPLETED"}
    /\ GuardAllows(task[t].status, status)
    /\ task'[t] = Finished(task[t], status, given)
    /\ reviewOn /\ status = "COMPLETED" /\ task[t].status # "COMPLETED"
         => task[t].status = "SUBMITTED_FOR_REVIEW" /\ t \in reviewed'
    /\ completers'[t] = IF status = "COMPLETED"
                        THEN completers[t] \cup {task[t].assignee}
                        ELSE completers[t]
    /\ revocations'[t] = revocations[t]
    /\ task[t].status = "SUBMITTED_FOR_REVIEW" \/ FinishedByRequest(t)

GetsRevoked(t) ==
  /\ task[t].status \notin {"ABSENT", "COMPLETED", "REVOKED"}
  /\ task'[t] = Revoked(task[t])
  /\ revocations'[t] = revocations[t] + 1
  /\ completers'[t] = completers[t]

ChangesHands(t) ==
  /\ \E agent \in Agents :
       \/ /\ ~MustRevokeFirst(task[t])
          /\ task[t].status \in {"PENDING", "ASSIGNED", "COMPLETED"}
          /\ task'[t] = Reassigned(task[t], agent)
       \/ /\ task[t].status \in {"PENDING", "ASSIGNED"}
          /\ task'[t] = HandedTo(task[t], agent)
  /\ UNCHANGED <<revocations[t], completers[t]>>

RowStep(t) == \/ Kept(t) \/ Born(t) \/ BeginsVisit(t) \/ Finishes(t)
              \/ GetsRevoked(t) \/ ChangesHands(t)

\* The status each change of a row leads to, but for its finish.
LEMMA StatusReached ==
  ASSUME NEW t \in Tasks, task[t] \in Row
  PROVE  /\ Born(t) => task'[t].status \in {"PENDING", "ASSIGNED"}
         /\ BeginsVisit(t) => task'[t].status = "IN_PROGRESS"
         /\ GetsRevoked(t) => task'[t].status = "REVOKED"
         /\ ChangesHands(t) => task'[t].status = "ASSIGNED"
<1>1. Born(t) => task'[t].status \in {"PENDING", "ASSIGNED"}
  <2>1. ASSUME NEW type, NEW parent, NEW agent
        PROVE  NewRow(type, parent, agent).status \in {"PENDING", "ASSIGNED"}
    BY DEF NewRow
  <2> QED BY <2>1 DEF Born
<1>2. BeginsVisit(t) => task'[t].status = "IN_PROGRESS"
  BY DEF BeginsVisit, Started, Row
<1>3. GetsRevoked(t) => task'[t].status = "REVOKED"
  BY DEF GetsRevoked, Revoked, Row
<1>4. ChangesHands(t) => task'[t].status = "ASSIGNED"
  BY DEF ChangesHands, Reassigned, HandedTo, Row
<1> QED BY <1>1, <1>2, <1>3, <1>4

\* Writing one row keeps the others.
LEMMA OneRowWritten ==
  ASSUME TypeInv, NEW t \in Tasks, NEW row, Commit([task EXCEPT ![t] = row])
  PROVE  /\ task'[t] = row
         /\ \A u \in Tasks : u # t => task'[u] = task[u]
         /\ t \in Rows(task) => GuardAllows(task[t].status, row.status)
  BY DEF Commit, TypeInv, TypeOK, Rows

LEMMA StartRowStep ==
  ASSUME TypeInv, NEW r \in Requests,
         StartTx(r) \/ SyncStartTx(r) \/ WebStartWrite(r), NEW u \in Tasks
  PROVE  RowStep(u)
<1> DEFINE t == req[r].task
<1>1. t \in Rows(task) /\ t \in Tasks
  BY DEF StartTx, SyncStartTx, WebStartWrite, At, TypeInv, RequestsNamed, Rows
<1>2. UNCHANGED <<revocations, completers>>
  BY DEF StartTx, SyncStartTx, WebStartWrite, Evidence
<1>3. CASE Commit([task EXCEPT ![t] = Started(task[t])])
  <2>1. Started(task[t]).status = "IN_PROGRESS"
    BY <1>1 DEF Started, TypeInv, TypeOK, Row
  <2>2. task[t].status \in {"ASSIGNED", "IN_PROGRESS", "SUBMITTED_FOR_REVIEW"}
    BY <1>1, <1>3, <2>1, OneRowWritten DEF GuardAllows, Transitions
  <2> QED BY <1>1, <1>2, <1>3, <2>2, OneRowWritten DEF RowStep, Kept, BeginsVisit
<1>4. CASE UNCHANGED task
  BY <1>2, <1>4 DEF RowStep, Kept
<1> QED BY <1>3, <1>4 DEF StartTx, SyncStartTx, WebStartWrite

LEMMA FinishRowStep ==
  ASSUME TypeInv, NEW r \in Requests,
         SubmitTx(r) \/ CompleteTx(r) \/ \E t \in Tasks : FinalizeReview(r, t),
         NEW u \in Tasks
  PROVE  RowStep(u)
<1>1. PICK t \in Tasks, status \in {"SUBMITTED_FOR_REVIEW", "COMPLETED"},
           given \in {"estimated", "given"} :
        /\ t \in Rows(task)
        /\ Commit([task EXCEPT ![t] = Finished(task[t], status, given)])
        /\ NoteCompletion(t, status)
        /\ UNCHANGED revocations
        /\ reviewOn /\ status = "COMPLETED"
             => task[t].status = "SUBMITTED_FOR_REVIEW" /\ t \in reviewed'
        /\ task[t].status = "SUBMITTED_FOR_REVIEW" \/ FinishedByRequest(t)
  <2>1. CASE SubmitTx(r) \/ CompleteTx(r)
    <3>1. req[r].task \in Rows(task) /\ req[r].task \in Tasks
      BY <2>1 DEF SubmitTx, CompleteTx, At, TypeInv, RequestsNamed, Rows
    <3>2. TargetStatus \in {"SUBMITTED_FOR_REVIEW", "COMPLETED"}
          /\ (reviewOn => TargetStatus # "COMPLETED")
      BY DEF TargetStatus
    <3>3. FinishedByRequest(req[r].task)
      BY <2>1 DEF FinishedByRequest
    <3> QED BY <2>1, <3>1, <3>2, <3>3 DEF SubmitTx, CompleteTx, Evidence
  <2>2. CASE \E t \in Tasks : FinalizeReview(r, t)
    BY <2>2 DEF FinalizeReview, Rows
  <2> QED BY <2>1, <2>2
<1>2. Finished(task[t], status, given).status = status
  BY DEF Finished, TypeInv, TypeOK, Row
<1>3. GuardAllows(task[t].status, status)
  BY <1>1, <1>2, OneRowWritten
<1>4. task[t].status \in {"IN_PROGRESS", "SUBMITTED_FOR_REVIEW", "COMPLETED"}
  BY <1>3 DEF GuardAllows, Transitions
<1>5. /\ completers'[t] = IF status = "COMPLETED"
                          THEN completers[t] \cup {task[t].assignee}
                          ELSE completers[t]
      /\ \A v \in Tasks : v # t => completers'[v] = completers[v]
  BY <1>1 DEF NoteCompletion, TypeInv, TypeOK
<1>6. task'[t] = Finished(task[t], status, given) /\ \A v \in Tasks : v # t => task'[v] = task[v]
  BY <1>1, OneRowWritten
<1>7. CASE u = t
  BY <1>1, <1>3, <1>4, <1>5, <1>6, <1>7 DEF RowStep, Finishes
<1>8. CASE u # t
  BY <1>1, <1>5, <1>6, <1>8 DEF RowStep, Kept
<1> QED BY <1>7, <1>8

LEMMA RevokeRowStep ==
  ASSUME TypeInv, NEW t \in Tasks, t \in Rows(task), Revocable(task[t]), RevokeTx(t),
         NEW u \in Tasks
  PROVE  RowStep(u)
<1>1. task'[t] = Revoked(task[t]) /\ \A v \in Tasks : v # t => task'[v] = task[v]
  BY OneRowWritten DEF RevokeTx
<1>2. /\ revocations'[t] = revocations[t] + 1
      /\ \A v \in Tasks : v # t => revocations'[v] = revocations[v]
      /\ UNCHANGED completers
  BY DEF RevokeTx, TypeInv, TypeOK
<1> QED BY <1>1, <1>2 DEF RowStep, Kept, GetsRevoked, Revocable, Rows

LEMMA AssignRowStep ==
  ASSUME TypeInv, NEW r, NEW t \in Tasks, NEW agent \in Agents,
         \/ Reassign(r, t, agent)
         \/ \E child \in Tasks : Replace(r, t, child, agent),
         NEW u \in Tasks
  PROVE  RowStep(u)
<1>1. UNCHANGED <<revocations, completers>>
  BY DEF Reassign, Replace, Evidence
<1>2. CASE Reassign(r, t, agent)
  <2>1. Reassigned(task[t], agent).status = "ASSIGNED"
    BY DEF Reassigned, HandedTo, TypeInv, TypeOK, Row
  <2>2. GuardAllows(task[t].status, "ASSIGNED") /\ ~MustRevokeFirst(task[t])
        /\ task[t].status \notin {"ABSENT", "REVOKED"}
    BY <1>2, <2>1, OneRowWritten DEF Reassign, Rows
  <2>3. task[t].status \in {"PENDING", "ASSIGNED", "COMPLETED"}
    BY <2>2 DEF GuardAllows, Transitions, MustRevokeFirst
  <2> QED BY <1>1, <1>2, <2>2, <2>3, OneRowWritten DEF Reassign, RowStep, Kept, ChangesHands
<1>3. ASSUME NEW child \in Tasks, Replace(r, t, child, agent) PROVE RowStep(u)
  <2>1. task[t].type \in Types \cup {None}
    BY DEF TypeInv, TypeOK, Row
  <2> QED BY <1>1, <1>3, <2>1, OneRowWritten DEF Replace, RowStep, Kept, Born, Rows
<1> QED BY <1>2, <1>3

LEMMA InsertRowStep ==
  ASSUME TypeInv, InsertTasks, UNCHANGED <<revocations, completers>>, NEW u \in Tasks
  PROVE  RowStep(u)
<1>1. PICK new \in SUBSET (Tasks \ Rows(task)) :
        \E type \in [new -> Types], agent \in [new -> Agents] :
          Commit([t \in Tasks |-> IF t \in new THEN NewRow(type[t], None, agent[t])
                                  ELSE task[t]])
  BY DEF InsertTasks
<1>2. PICK type \in [new -> Types], agent \in [new -> Agents] :
        task' = [t \in Tasks |-> IF t \in new THEN NewRow(type[t], None, agent[t])
                                 ELSE task[t]]
  BY <1>1 DEF Commit
<1>3. CASE u \in new
  <2>1. type[u] \in Types /\ agent[u] \in Agents /\ task[u].status = "ABSENT"
    BY <1>1, <1>2, <1>3 DEF Rows
  <2> QED BY <1>2, <1>3, <2>1 DEF RowStep, Born
<1>4. CASE u \notin new
  BY <1>2, <1>4 DEF RowStep, Kept
<1> QED BY <1>3, <1>4

LEMMA RevisitRowStep ==
  ASSUME TypeInv, NEW r \in Requests, NEW child \in Tasks, NEW agent \in Agents \cup {None},
         RevisitTx(r, child, agent), NEW u \in Tasks
  PROVE  RowStep(u)
<1> DEFINE t == req[r].task
<1>1. UNCHANGED <<revocations, completers>>
  BY DEF RevisitTx, Evidence
<1>2. t \in Tasks
  BY DEF RevisitTx, At, TypeInv, RequestsNamed, Rows
<1>3. task[t].type \in Types \cup {None}
  BY <1>2 DEF TypeInv, TypeOK, Row
<1> QED BY <1>1, <1>2, <1>3, OneRowWritten DEF RevisitTx, RowStep, Kept, Born, Rows

LEMMA BulkRowStep ==
  ASSUME TypeInv, NEW chosen, NEW agent \in Agents, BulkAssign(chosen, agent),
         NEW u \in Tasks
  PROVE  RowStep(u)
<1> DEFINE hit == {t \in chosen : BulkAssignable(task[t])}
<1>1. task' = [t \in Tasks |-> IF t \in hit THEN HandedTo(task[t], agent) ELSE task[t]]
  BY DEF BulkAssign, Commit
<1>2. UNCHANGED <<revocations, completers>>
  BY DEF BulkAssign, Evidence
<1>3. CASE u \in hit
  BY <1>1, <1>2, <1>3 DEF RowStep, ChangesHands, BulkAssignable
<1>4. CASE u \notin hit
  BY <1>1, <1>2, <1>4 DEF RowStep, Kept
<1> QED BY <1>3, <1>4

\* Steps that write no task.
LEMMA QuietRowStep ==
  ASSUME TypeInv, NEW u \in Tasks,
         \/ \E r \in Requests : Reads(r) \/ Owed(r) \/ GiveUp(r) \/ Die(r)
         \/ \E who \in Callers, status \in Statuses : SyncCaseChange(who, status)
         \/ ToggleReview
         \/ UNCHANGED vars
  PROVE  RowStep(u)
<1>1. UNCHANGED <<task, revocations, completers>>
  <2>1. CASE \E r \in Requests : Reads(r)
    BY <2>1 DEF Reads, StartRead, SyncStartRead, WebStartRead, SubmitRead,
                MobileRevokeRead, CompleteRead, RevisitRead, UpdateRead,
                WebStartLockCheck, UnassignRead, Evidence
  <2>2. CASE \E r \in Requests : Owed(r) \/ GiveUp(r) \/ Die(r)
    BY <2>2 DEF Owed, Recount, HookRead, HookPay, GiveUp, Die, Evidence
  <2>3. CASE \E who \in Callers, status \in Statuses : SyncCaseChange(who, status)
    BY <2>3 DEF SyncCaseChange, Evidence
  <2>4. CASE ToggleReview \/ UNCHANGED vars
    BY <2>4 DEF ToggleReview, vars, Evidence
  <2> QED BY <2>1, <2>2, <2>3, <2>4
<1> QED BY <1>1 DEF RowStep, Kept

LEMMA RowSteps ==
  ASSUME TypeInv, WorkflowOnly, [Next]_vars PROVE \A u \in Tasks : RowStep(u)
<1> SUFFICES ASSUME NEW u \in Tasks PROVE RowStep(u)
  OBVIOUS
<1>1. ASSUME NEW r \in Requests, Writes(r) PROVE RowStep(u)
  <2>1. CASE StartTx(r) \/ SyncStartTx(r) \/ WebStartWrite(r)
    BY <2>1, StartRowStep
  <2>2. CASE SubmitTx(r) \/ CompleteTx(r) \/ \E t \in Tasks : FinalizeReview(r, t)
    BY <2>2, FinishRowStep
  <2>3. CASE MobileRevokeTx(r)
    <3>1. /\ req[r].task \in Tasks /\ req[r].task \in Rows(task)
          /\ RevokeTx(req[r].task) /\ Revocable(task[req[r].task])
      BY <2>3 DEF MobileRevokeTx, StillRevocable, At, TypeInv, RequestsNamed, Rows
    <3> QED BY <3>1, RevokeRowStep
  <2>4. CASE \/ CreateTasks(r)
             \/ \E child \in Tasks, agent \in Agents \cup {None} : RevisitTx(r, child, agent)
    BY <2>4, InsertRowStep, RevisitRowStep DEF CreateTasks, Evidence
  <2>5. CASE \/ \E t \in Tasks, agent \in Agents : Reassign(r, t, agent)
             \/ \E t, child \in Tasks, agent \in Agents : Replace(r, t, child, agent)
    BY <2>5, AssignRowStep
  <2>6. ~UpdateWrite(r) /\ \A chosen \in EditTargets : ~UnassignWrite(r, chosen)
    BY DEF WorkflowOnly, UpdateWrite, UnassignWrite
  <2> QED BY <1>1, <2>1, <2>2, <2>3, <2>4, <2>5, <2>6 DEF Writes
<1>2. ASSUME NEW t \in Tasks, Revoke(t) PROVE RowStep(u)
  BY <1>2, RevokeRowStep DEF Revoke
<1>3. \A chosen \in EditTargets, agent \in Agents : ~EditCaseAssign(chosen, agent)
  BY DEF WorkflowOnly, EditCaseAssign
<1>4. CASE CreateCase
  BY <1>4, InsertRowStep DEF CreateCase, Evidence
<1> QED BY <1>1, <1>2, <1>3, <1>4, BulkRowStep, QuietRowStep DEF Next, SingleStep

-----------------------------------------------------------------------------
(* The safety of the workflow. *)

\* With the general edits unused, however many revocations race, from the
\* office and from phones that read the task before: one ledger row, the task
\* revoked for good, and nobody holding it.
THEOREM RevocationsSettle ==
  ASSUME WorkflowOnly PROVE Spec => []RevokedIsSettled
<1>1. Init => RevokedIsSettled
  BY DEF Init, RevokedIsSettled, NoRow
<1>2. ASSUME TypeInv, RevokedIsSettled, [Next]_vars PROVE RevokedIsSettled'
  <2> SUFFICES ASSUME NEW t \in Tasks
               PROVE  IF task'[t].status = "REVOKED"
                      THEN revocations'[t] = 1 /\ task'[t].assignee = None
                      ELSE revocations'[t] = 0
    BY DEF RevokedIsSettled
  <2>1. RowStep(t) /\ task[t] \in Row
    BY <1>2, RowSteps DEF TypeInv, TypeOK
  <2>2. IF task[t].status = "REVOKED"
        THEN revocations[t] = 1 /\ task[t].assignee = None
        ELSE revocations[t] = 0
    BY <1>2 DEF RevokedIsSettled
  <2>3. CASE Kept(t)
    BY <2>2, <2>3 DEF Kept
  <2>4. CASE Born(t)
    BY <2>2, <2>4 DEF Born, NewRow
  <2>5. CASE BeginsVisit(t)
    BY <2>1, <2>2, <2>5 DEF BeginsVisit, Started, Row
  <2>6. CASE Finishes(t)
    BY <2>1, <2>2, <2>6 DEF Finishes, Finished, Row
  <2>7. CASE GetsRevoked(t)
    BY <2>1, <2>2, <2>7 DEF GetsRevoked, Revoked, Row
  <2>8. CASE ChangesHands(t)
    BY <2>1, <2>2, <2>8 DEF ChangesHands, Reassigned, HandedTo, Row
  <2> QED BY <2>1, <2>3, <2>4, <2>5, <2>6, <2>7, <2>8 DEF RowStep
<1> QED BY <1>1, <1>2, TypeInvInit, TypeInvStep, PTL DEF Spec

\* started_at and the assignee follow the status; the inductive form also
\* says who holds a task that waits for the agent or for its review.
StampInv ==
  \A t \in Tasks :
    /\ task[t].status \in {"ABSENT", "PENDING", "ASSIGNED"} => ~task[t].started
    /\ task[t].status = "IN_PROGRESS" => task[t].started
    /\ task[t].status \in {"ASSIGNED", "IN_PROGRESS", "SUBMITTED_FOR_REVIEW"}
         => task[t].assignee # None

LEMMA StampInit == Init => StampInv
  BY DEF Init, StampInv, NoRow

LEMMA StampStep ==
  ASSUME WorkflowOnly, TypeInv, StampInv, [Next]_vars PROVE StampInv'
<1> SUFFICES ASSUME NEW t \in Tasks
             PROVE  /\ task'[t].status \in {"ABSENT", "PENDING", "ASSIGNED"}
                         => ~task'[t].started
                    /\ task'[t].status = "IN_PROGRESS" => task'[t].started
                    /\ task'[t].status \in {"ASSIGNED", "IN_PROGRESS", "SUBMITTED_FOR_REVIEW"}
                         => task'[t].assignee # None
  BY DEF StampInv
<1>1. RowStep(t) /\ task[t] \in Row
  BY RowSteps DEF TypeInv, TypeOK
<1>2. /\ task[t].status \in {"ABSENT", "PENDING", "ASSIGNED"} => ~task[t].started
      /\ task[t].status = "IN_PROGRESS" => task[t].started
      /\ task[t].status \in {"ASSIGNED", "IN_PROGRESS", "SUBMITTED_FOR_REVIEW"}
           => task[t].assignee # None
  BY DEF StampInv
<1>3. None \notin Agents
  BY Assumptions
<1>4. CASE Kept(t)
  BY <1>2, <1>4 DEF Kept
<1>5. CASE Born(t)
  BY <1>3, <1>5 DEF Born, NewRow
<1>6. CASE BeginsVisit(t)
  BY <1>1, <1>2, <1>6 DEF BeginsVisit, Started, Row
<1>7. CASE Finishes(t)
  <2>1. PICK status \in {"SUBMITTED_FOR_REVIEW", "COMPLETED"},
             given \in {"estimated", "given"} :
          GuardAllows(task[t].status, status) /\ task'[t] = Finished(task[t], status, given)
    BY <1>7 DEF Finishes
  <2>2. task'[t].status = status /\ task'[t].assignee = task[t].assignee
    BY <1>1, <2>1 DEF Finished, Row
  <2>3. status = "SUBMITTED_FOR_REVIEW" =>
          task[t].status \in {"IN_PROGRESS", "SUBMITTED_FOR_REVIEW"}
    BY <2>1 DEF GuardAllows, Transitions
  <2> QED BY <1>2, <2>2, <2>3
<1>8. CASE GetsRevoked(t)
  BY <1>1, <1>8 DEF GetsRevoked, Revoked, Row
<1>9. CASE ChangesHands(t)
  BY <1>1, <1>2, <1>3, <1>9 DEF ChangesHands, Reassigned, HandedTo, Row
<1> QED BY <1>1, <1>4, <1>5, <1>6, <1>7, <1>8, <1>9 DEF RowStep

\* With the general edits unused, no reassignment leaves a started task to
\* be started again, and every task in progress is stamped and held: the
\* bulk assignment, which keeps started_at, never meets one that is set.
THEOREM StampsFollow == ASSUME WorkflowOnly PROVE Spec => []StartStamp
<1>1. StampInv => StartStamp
  BY DEF StampInv, StartStamp
<1> QED BY <1>1, StampInit, StampStep, TypeInvInit, TypeInvStep, PTL DEF Spec

\* The amount of a row that finishes: set by then, kept if it was set before.
AmountInv ==
  \A t \in Tasks :
    /\ task[t].status = "ABSENT" => task[t].amount = None
    /\ task[t].status \in {"SUBMITTED_FOR_REVIEW", "COMPLETED"} => task[t].amount # None

LEMMA AmountStep ==
  ASSUME WorkflowOnly, TypeInv, AmountInv, [Next]_vars, NEW t \in Tasks
  PROVE  /\ task'[t].status = "ABSENT" => task'[t].amount = None
         /\ task'[t].status \in {"SUBMITTED_FOR_REVIEW", "COMPLETED"}
              => task'[t].amount # None
         /\ task[t].amount # None => task'[t].amount = task[t].amount
<1>1. RowStep(t) /\ task[t] \in Row
  BY RowSteps DEF TypeInv, TypeOK
<1>2. /\ task[t].status = "ABSENT" => task[t].amount = None
      /\ task[t].status \in {"SUBMITTED_FOR_REVIEW", "COMPLETED"} => task[t].amount # None
  BY DEF AmountInv
<1>3. CASE Kept(t)
  BY <1>2, <1>3 DEF Kept
<1>4. CASE Born(t)
  BY <1>2, <1>4 DEF Born, NewRow
<1>5. CASE BeginsVisit(t)
  BY <1>1, <1>5 DEF BeginsVisit, Started, Row
<1>6. CASE Finishes(t)
  <2>1. PICK status \in {"SUBMITTED_FOR_REVIEW", "COMPLETED"},
             given \in {"estimated", "given"} : task'[t] = Finished(task[t], status, given)
    BY <1>6 DEF Finishes
  <2>2. task'[t].status = status /\ task'[t].amount = Snapshot(task[t].amount, given)
    BY <1>1, <2>1 DEF Finished, Row
  <2> QED BY <2>2, Assumptions DEF Snapshot
<1>7. CASE GetsRevoked(t)
  BY <1>1, <1>7 DEF GetsRevoked, Revoked, Row
<1>8. CASE ChangesHands(t)
  BY <1>1, <1>8 DEF ChangesHands, Reassigned, HandedTo, Row
<1> QED BY <1>1, <1>3, <1>4, <1>5, <1>6, <1>7, <1>8 DEF RowStep

\* With the general edits unused, no completion path, first or repeated,
\* leaves a task in review or completed without its billing amount.
THEOREM FinishedAreBilled ==
  ASSUME WorkflowOnly PROVE Spec => []AmountOnFinish
<1>1. Init => AmountInv
  BY DEF Init, AmountInv, NoRow
<1>2. ASSUME TypeInv, AmountInv, [Next]_vars PROVE AmountInv'
  BY <1>2, AmountStep DEF AmountInv
<1>3. AmountInv => AmountOnFinish
  BY DEF AmountInv, AmountOnFinish
<1> QED BY <1>1, <1>2, <1>3, TypeInvInit, TypeInvStep, PTL DEF Spec

\* Reopening, resubmitting and completing a task again never changes the
\* amount that was snapshotted first.
THEOREM AmountsAreFrozen ==
  ASSUME WorkflowOnly PROVE Spec => AmountFrozen
<1>1. Init => AmountInv
  BY DEF Init, AmountInv, NoRow
<1>2. ASSUME TypeInv, AmountInv, [Next]_vars PROVE AmountInv'
  BY <1>2, AmountStep DEF AmountInv
<1>3. ASSUME TypeInv, AmountInv, [Next]_vars
      PROVE  [\A t \in Tasks : task[t].amount # None =>
                                 task'[t].amount = task[t].amount]_vars
  BY <1>3, AmountStep
<1> QED BY <1>1, <1>2, <1>3, TypeInvInit, TypeInvStep, PTL DEF Spec, AmountFrozen

\* While the review flag is on, COMPLETED is reached only from review and
\* with a recorded review, whichever request gets there and whenever the flag
\* was switched.
THEOREM ReviewIsMandatory == ASSUME WorkflowOnly PROVE Spec => ReviewMandatory
<1>1. ASSUME TypeInv, [Next]_vars
      PROVE  [\A t \in Tasks :
                reviewOn /\ task[t].status # "COMPLETED" /\ task'[t].status = "COMPLETED"
                  => task[t].status = "SUBMITTED_FOR_REVIEW" /\ t \in reviewed']_vars
  <2> SUFFICES ASSUME NEW t \in Tasks, reviewOn, task[t].status # "COMPLETED",
                      task'[t].status = "COMPLETED"
               PROVE  task[t].status = "SUBMITTED_FOR_REVIEW" /\ t \in reviewed'
    OBVIOUS
  <2>1. RowStep(t) /\ task[t] \in Row
    BY <1>1, RowSteps DEF TypeInv, TypeOK
  <2>2. Finishes(t)
    <3>1. ~Kept(t)
      BY DEF Kept
    <3>2. ~Born(t) /\ ~BeginsVisit(t) /\ ~GetsRevoked(t) /\ ~ChangesHands(t)
      BY <2>1, StatusReached
    <3> QED BY <2>1, <3>1, <3>2 DEF RowStep
  <2>3. PICK status \in {"SUBMITTED_FOR_REVIEW", "COMPLETED"},
             given \in {"estimated", "given"} :
          /\ task'[t] = Finished(task[t], status, given)
          /\ reviewOn /\ status = "COMPLETED" /\ task[t].status # "COMPLETED"
               => task[t].status = "SUBMITTED_FOR_REVIEW" /\ t \in reviewed'
    BY <2>2 DEF Finishes
  <2>4. task'[t].status = status
    BY <2>1, <2>3 DEF Finished, Row
  <2> QED BY <2>3, <2>4
<1> QED BY <1>1, TypeInvInit, TypeInvStep, PTL DEF Spec, ReviewMandatory

-----------------------------------------------------------------------------
(* Commissions. *)

\* A request comes to owe a payment only by reading a completed task, and a
\* commission is recorded only by such a request.
LEMMA PaySteps ==
  ASSUME TypeInv, [Next]_vars
  PROVE  /\ \A q \in Requests : req'[q].step = "pay" =>
              \/ req'[q] = req[q]
              \/ /\ UNCHANGED completers
                 /\ req'[q].task \in Tasks
                 /\ Payable(task[req'[q].task])
                 /\ req'[q].who = task[req'[q].task].assignee
         /\ \/ UNCHANGED paid
            \/ \E q \in Requests : HookPay(q)
<1>1. ASSUME NEW r \in Requests,
             \/ Done(r)
             \/ \E s, t, who : s # "pay" /\ Begin(r, s, t, who)
             \/ \E s : s # "pay" /\ Proceed(r, s),
             NEW q \in Requests, req'[q].step = "pay"
      PROVE  req'[q] = req[q]
  BY <1>1 DEF Done, Begin, Proceed, Idle, TypeInv, TypeOK, Request
<1>2. ASSUME NEW r \in Requests, HookRead(r), NEW q \in Requests, req'[q].step = "pay"
      PROVE  \/ req'[q] = req[q]
             \/ /\ UNCHANGED completers
                /\ req'[q].task \in Tasks
                /\ Payable(task[req'[q].task])
                /\ req'[q].who = task[req'[q].task].assignee
  <2>1. CASE Payable(task[req[r].task])
    <3>1. req[r].task \in Tasks
      BY <1>2 DEF HookRead, At, TypeInv, RequestsNamed, Rows
    <3>2. req' = [req EXCEPT ![r].step = "pay", ![r].who = task[req[r].task].assignee]
          /\ UNCHANGED completers
      BY <1>2, <2>1 DEF HookRead
    <3>3. CASE q = r
      BY <2>1, <3>1, <3>2, <3>3 DEF TypeInv, TypeOK, Request
    <3>4. CASE q # r
      BY <3>2, <3>4 DEF TypeInv, TypeOK
    <3> QED BY <3>3, <3>4
  <2>2. CASE ~Payable(task[req[r].task])
    BY <1>1, <1>2, <2>2 DEF HookRead
  <2> QED BY <2>1, <2>2
<1>3. ASSUME NEW r \in Requests, Reads(r) \/ GiveUp(r) \/ Die(r) \/ Recount(r) \/ HookPay(r)
      PROVE  /\ \/ Done(r)
                \/ \E s, t, who : s # "pay" /\ Begin(r, s, t, who)
                \/ \E s : s # "pay" /\ Proceed(r, s)
             /\ UNCHANGED paid \/ HookPay(r)
  <2>1. CASE Reads(r)
    <3>1. UNCHANGED paid
      BY <2>1 DEF Reads, StartRead, SyncStartRead, WebStartRead, SubmitRead,
                  MobileRevokeRead, CompleteRead, RevisitRead, UpdateRead,
                  WebStartLockCheck, UnassignRead, Evidence
    <3>2. \/ \E s, t, who : s # "pay" /\ Begin(r, s, t, who)
          \/ Proceed(r, "webStartWrite")
      BY <2>1 DEF Reads, StartRead, SyncStartRead, WebStartRead, SubmitRead,
                  MobileRevokeRead, CompleteRead, RevisitRead, UpdateRead,
                  WebStartLockCheck, UnassignRead
    <3> QED BY <3>1, <3>2
  <2>2. CASE GiveUp(r) \/ Die(r) \/ Recount(r) \/ HookPay(r)
    BY <2>2 DEF GiveUp, Die, Recount, HookPay, Evidence
  <2> QED BY <1>3, <2>1, <2>2
<1>4. ASSUME NEW r \in Requests, Writes(r)
      PROVE  /\ \/ Done(r)
                \/ \E s, t, who : s # "pay" /\ Begin(r, s, t, who)
                \/ \E s : s # "pay" /\ Proceed(r, s)
             /\ UNCHANGED paid
  <2>1. UNCHANGED paid
    BY <1>4 DEF Writes, CreateTasks, StartTx, SyncStartTx, WebStartWrite, SubmitTx,
                CompleteTx, MobileRevokeTx, RevokeTx, UpdateWrite, FinalizeReview,
                Reassign, Replace, RevisitTx, UnassignWrite, Evidence
  <2>2. \/ Done(r)
        \/ \E s, t, who : s # "pay" /\ Begin(r, s, t, who)
        \/ \E s : s # "pay" /\ Proceed(r, s)
    <3>1. CASE \/ StartTx(r) \/ SyncStartTx(r) \/ MobileRevokeTx(r)
               \/ \E child \in Tasks, agent \in Agents \cup {None} : RevisitTx(r, child, agent)
               \/ \E chosen \in EditTargets : UnassignWrite(r, chosen)
      BY <3>1 DEF StartTx, SyncStartTx, MobileRevokeTx, RevisitTx, UnassignWrite
    <3>2. CASE WebStartWrite(r) \/ SubmitTx(r) \/ CompleteTx(r) \/ UpdateWrite(r)
      BY <3>2 DEF WebStartWrite, SubmitTx, CompleteTx, UpdateWrite
    <3>3. CASE \/ CreateTasks(r)
               \/ \E t \in Tasks : FinalizeReview(r, t)
               \/ \E t \in Tasks, agent \in Agents : Reassign(r, t, agent)
               \/ \E t, child \in Tasks, agent \in Agents : Replace(r, t, child, agent)
      BY <3>3 DEF CreateTasks, FinalizeReview, Reassign, Replace
    <3> QED BY <1>4, <3>1, <3>2, <3>3 DEF Writes
  <2> QED BY <2>1, <2>2
<1>5. CASE SingleStep
  BY <1>5 DEF SingleStep, CreateCase, Revoke, RevokeTx, BulkAssign, EditCaseAssign,
              SyncCaseChange, ToggleReview, Evidence
<1>6. CASE UNCHANGED vars
  BY <1>6 DEF vars
<1>7. ASSUME NEW r \in Requests, HookRead(r) PROVE UNCHANGED paid
  BY <1>7 DEF HookRead, Evidence
<1>8. ASSUME NEW r \in Requests, Reads(r) \/ Writes(r) \/ Owed(r) \/ GiveUp(r) \/ Die(r)
      PROVE  /\ \A q \in Requests : req'[q].step = "pay" =>
                  \/ req'[q] = req[q]
                  \/ /\ UNCHANGED completers
                     /\ req'[q].task \in Tasks
                     /\ Payable(task[req'[q].task])
                     /\ req'[q].who = task[req'[q].task].assignee
             /\ UNCHANGED paid \/ HookPay(r)
  <2>1. CASE HookRead(r)
    BY <2>1, <1>2, <1>7
  <2>2. CASE ~HookRead(r)
    <3>1. /\ \/ Done(r)
             \/ \E s, t, who : s # "pay" /\ Begin(r, s, t, who)
             \/ \E s : s # "pay" /\ Proceed(r, s)
          /\ UNCHANGED paid \/ HookPay(r)
      BY <1>8, <2>2, <1>3, <1>4 DEF Owed
    <3>2. \A q \in Requests : req'[q].step = "pay" => req'[q] = req[q]
      BY <3>1, <1>1
    <3> QED BY <3>1, <3>2
  <2> QED BY <2>1, <2>2
<1> QED BY <1>5, <1>6, <1>8 DEF Next

\* The completers of a task who matter to its commission: its holder while
\* it is completed, the payee a request is about to record, the payee.
CommissionInv ==
  /\ \A t \in Tasks : task[t].status = "COMPLETED" => task[t].assignee \in completers[t]
  /\ \A r \in Requests : req[r].step = "pay" => req[r].who \in completers[req[r].task]
  /\ CommissionBacked

\* With the general edits unused, a commission is recorded only for an agent
\* who held the task at one of its completions: the hook's read and insert
\* may be apart, the task reopened in between and the agent replaced.
THEOREM CommissionsAreBacked ==
  ASSUME WorkflowOnly PROVE Spec => []CommissionBacked
<1>1. Init => CommissionInv
  BY DEF Init, CommissionInv, CommissionBacked, NoRow, Idle
<1>2. ASSUME TypeInv, CommissionInv, [Next]_vars PROVE CommissionInv'
  <2>1. \A t \in Tasks : RowStep(t) /\ task[t] \in Row
    BY <1>2, RowSteps DEF TypeInv, TypeOK
  <2>2. \A t \in Tasks : completers[t] \subseteq completers'[t]
    <3> SUFFICES ASSUME NEW t \in Tasks PROVE completers[t] \subseteq completers'[t]
      OBVIOUS
    <3> QED BY <2>1 DEF RowStep, Kept, Born, BeginsVisit, Finishes, GetsRevoked, ChangesHands
  <2>3. ASSUME NEW t \in Tasks, task'[t].status = "COMPLETED"
        PROVE  task'[t].assignee \in completers'[t]
    <3>1. RowStep(t) /\ task[t] \in Row
      BY <2>1
    <3>2. CASE Kept(t)
      BY <1>2, <2>3, <3>2 DEF Kept, CommissionInv
    <3>3. ~Born(t) /\ ~BeginsVisit(t) /\ ~GetsRevoked(t) /\ ~ChangesHands(t)
      BY <2>3, <3>1, StatusReached
    <3>4. CASE Finishes(t)
      <4>1. PICK status \in {"SUBMITTED_FOR_REVIEW", "COMPLETED"},
                 given \in {"estimated", "given"} :
              /\ task'[t] = Finished(task[t], status, given)
              /\ completers'[t] = IF status = "COMPLETED"
                                  THEN completers[t] \cup {task[t].assignee}
                                  ELSE completers[t]
        BY <3>4 DEF Finishes
      <4>2. task'[t].status = status /\ task'[t].assignee = task[t].assignee
        BY <3>1, <4>1 DEF Finished, Row
      <4> QED BY <2>3, <4>1, <4>2
    <3> QED BY <3>1, <3>2, <3>3, <3>4 DEF RowStep
  <2>4. ASSUME NEW r \in Requests, req'[r].step = "pay"
        PROVE  req'[r].who \in completers'[req'[r].task]
    <3>1. CASE req'[r] = req[r]
      <4>1. req[r].task \in Tasks /\ req[r].who \in completers[req[r].task]
        BY <1>2, <2>4, <3>1 DEF CommissionInv, TypeInv, RequestsNamed, Rows
      <4> QED BY <2>2, <3>1, <4>1
    <3>2. CASE /\ UNCHANGED completers
               /\ req'[r].task \in Tasks
               /\ Payable(task[req'[r].task])
               /\ req'[r].who = task[req'[r].task].assignee
      BY <1>2, <3>2 DEF CommissionInv, Payable
    <3> QED BY <1>2, <2>4, <3>1, <3>2, PaySteps
  <2>5. ASSUME NEW t \in Tasks, paid'[t] # None PROVE paid'[t] \in completers'[t]
    <3>1. CASE UNCHANGED paid
      BY <1>2, <2>2, <2>5, <3>1 DEF CommissionInv, CommissionBacked
    <3>2. ASSUME NEW q \in Requests, HookPay(q) PROVE paid'[t] \in completers[t]
      BY <1>2, <2>5, <3>2
         DEF HookPay, At, CommissionInv, CommissionBacked, TypeInv, TypeOK
    <3> QED BY <1>2, <2>2, <3>1, <3>2, PaySteps
  <2> QED BY <2>3, <2>4, <2>5 DEF CommissionInv, CommissionBacked
<1>3. CommissionInv => CommissionBacked
  BY DEF CommissionInv
<1> QED BY <1>1, <1>2, <1>3, TypeInvInit, TypeInvStep, PTL DEF Spec
-----------------------------------------------------------------------------
(* Superseded tasks. *)

\* What a task that is finished, or about to be finished or revisited, leaves
\* behind is its report; and the parent of a task has a report or is revoked.
SupersededInv ==
  /\ \A t \in Tasks :
       task[t].status \in {"SUBMITTED_FOR_REVIEW", "COMPLETED"} => report[t] # None
  /\ \A r \in Requests :
       req[r].step \in {"complete", "revisit"} => report[req[r].task] # None
  /\ \A c \in Rows(task) :
       task[c].parent # None =>
         \/ report[task[c].parent] # None
         \/ task[task[c].parent].status = "REVOKED"

LEMMA SupersededInit == Init => SupersededInv
  BY DEF Init, SupersededInv, NoRow, Idle, Rows

\* A report is filed by a submission, for a task in progress that has none.
Files(r) ==
  /\ SubmitTx(r)
  /\ req[r].task \in Tasks
  /\ task[req[r].task].status = "IN_PROGRESS"
  /\ report[req[r].task] = None
  /\ report' = [report EXCEPT ![req[r].task] = req[r].who]
  /\ report'[req[r].task] # None

LEMMA SubmissionFiles ==
  ASSUME TypeInv, NEW r \in Requests, SubmitTx(r) PROVE Files(r)
<1>1. req[r].task \in Tasks /\ req[r].who \in Callers
  BY DEF SubmitTx, At, TypeInv, RequestsNamed, Rows
<1>2. None \notin Callers
  BY Assumptions DEF Callers
<1> QED BY <1>1, <1>2 DEF Files, SubmitTx, NotYetFiled, TypeInv, TypeOK

LEMMA ReportWays ==
  ASSUME TypeInv, [Next]_vars
  PROVE  UNCHANGED report \/ \E r \in Requests : Files(r)
<1>1. ASSUME NEW r \in Requests, Reads(r) PROVE UNCHANGED report
  BY <1>1 DEF Reads, StartRead, SyncStartRead, WebStartRead, SubmitRead,
              MobileRevokeRead, CompleteRead, RevisitRead, UpdateRead,
              WebStartLockCheck, UnassignRead, Evidence
<1>2. ASSUME NEW r \in Requests, Owed(r) \/ GiveUp(r) \/ Die(r) PROVE UNCHANGED report
  BY <1>2 DEF Owed, Recount, HookRead, HookPay, GiveUp, Die, Evidence
<1>3. ASSUME NEW r \in Requests, Writes(r), ~SubmitTx(r) PROVE UNCHANGED report
  BY <1>3 DEF Writes, CreateTasks, StartTx, SyncStartTx, WebStartWrite,
              CompleteTx, MobileRevokeTx, RevokeTx, UpdateWrite, FinalizeReview,
              Reassign, Replace, RevisitTx, UnassignWrite, Evidence
<1>4. CASE SingleStep
  BY <1>4 DEF SingleStep, CreateCase, Revoke, RevokeTx, BulkAssign, EditCaseAssign,
              SyncCaseChange, ToggleReview, Evidence
<1>5. CASE UNCHANGED vars
  BY <1>5 DEF vars
<1> QED BY <1>1, <1>2, <1>3, <1>4, <1>5, SubmissionFiles DEF Next

\* No statement takes a report back, and a task that is finished has one.
LEMMA ReportsStay ==
  ASSUME TypeInv, [Next]_vars, NEW t \in Tasks, report[t] # None
  PROVE  report'[t] # None
  BY ReportWays DEF TypeInv, TypeOK, Files

LEMMA FinishedReported ==
  ASSUME WorkflowOnly, TypeInv, SupersededInv, [Next]_vars, NEW t \in Tasks,
         task'[t].status \in {"SUBMITTED_FOR_REVIEW", "COMPLETED"}
  PROVE  report'[t] # None
<1>1. RowStep(t) /\ task[t] \in Row
  BY RowSteps DEF TypeInv, TypeOK
<1>2. CASE task[t].status \in {"SUBMITTED_FOR_REVIEW", "COMPLETED"}
  BY <1>2, ReportsStay DEF SupersededInv
<1>3. CASE task[t].status \notin {"SUBMITTED_FOR_REVIEW", "COMPLETED"}
  <2>1. ~Kept(t)
    BY <1>3 DEF Kept
  <2>2. ~Born(t) /\ ~BeginsVisit(t) /\ ~GetsRevoked(t) /\ ~ChangesHands(t)
    BY <1>1, StatusReached
  <2>3. PICK r \in Requests : (SubmitTx(r) \/ CompleteTx(r)) /\ req[r].task = t
    BY <1>1, <1>3, <2>1, <2>2 DEF RowStep, Finishes, FinishedByRequest
  <2>4. CASE SubmitTx(r)
    BY <2>3, <2>4, SubmissionFiles DEF Files
  <2>5. CASE CompleteTx(r)
    BY <2>3, <2>5, ReportsStay DEF CompleteTx, At, SupersededInv
  <2> QED BY <2>3, <2>4, <2>5
<1> QED BY <1>2, <1>3

\* A revoked task stays revoked, and the parent of a row never changes.
LEMMA RowsLineage ==
  ASSUME WorkflowOnly, TypeInv, [Next]_vars, NEW t \in Tasks
  PROVE  /\ task[t].status = "REVOKED" => task'[t].status = "REVOKED"
         /\ t \in Rows(task) => task'[t].parent = task[t].parent
<1>1. RowStep(t) /\ task[t] \in Row
  BY RowSteps DEF TypeInv, TypeOK
<1>2. CASE Kept(t)
  BY <1>2 DEF Kept
<1>3. CASE Born(t)
  BY <1>3 DEF Born, Rows
<1>4. CASE BeginsVisit(t)
  BY <1>1, <1>4 DEF BeginsVisit, Started, Row
<1>5. CASE Finishes(t)
  BY <1>1, <1>5 DEF Finishes, Finished, Row
<1>6. CASE GetsRevoked(t)
  BY <1>1, <1>6 DEF GetsRevoked, Revoked, Row
<1>7. CASE ChangesHands(t)
  BY <1>1, <1>7 DEF ChangesHands, Reassigned, HandedTo, Row
<1> QED BY <1>1, <1>2, <1>3, <1>4, <1>5, <1>6, <1>7 DEF RowStep

\* A request comes to complete or to revisit a task only by reading one that
\* has a report or is completed.
LEMMA ReportReaders ==
  ASSUME TypeInv, [Next]_vars, NEW q \in Requests,
         req'[q].step \in {"complete", "revisit"}
  PROVE  \/ req'[q] = req[q]
         \/ \E t \in Tasks :
              /\ req'[q].task = t
              /\ report[t] # None \/ task[t].status = "COMPLETED"
<1> DEFINE Claim ==
             \/ req'[q] = req[q]
             \/ \E t \in Tasks :
                  /\ req'[q].task = t
                  /\ report[t] # None \/ task[t].status = "COMPLETED"
<1>1. ASSUME NEW r \in Requests,
             \/ Done(r)
             \/ \E s, t, who : s \notin {"complete", "revisit"} /\ Begin(r, s, t, who)
             \/ \E s : s \notin {"complete", "revisit"} /\ Proceed(r, s)
      PROVE  req'[q] = req[q]
  BY <1>1 DEF Done, Begin, Proceed, Idle, TypeInv, TypeOK, Request
<1>2. ASSUME NEW r \in Requests, NEW t \in Tasks, CompleteRead(r, t) \/ RevisitRead(r, t)
      PROVE  Claim
  <2>1. report[t] # None \/ task[t].status = "COMPLETED"
    BY <1>2 DEF CompleteRead, RevisitRead
  <2>2. \E s, who : Begin(r, s, t, who)
    BY <1>2 DEF CompleteRead, RevisitRead
  <2>3. req'[q] = req[q] \/ req'[q].task = t
    BY <2>2 DEF Begin, TypeInv, TypeOK
  <2> QED BY <2>1, <2>3
<1>3. ASSUME NEW r \in Requests, Reads(r),
             \A t \in Tasks : ~CompleteRead(r, t) /\ ~RevisitRead(r, t)
      PROVE  \/ \E s, t, who : s \notin {"complete", "revisit"} /\ Begin(r, s, t, who)
             \/ Proceed(r, "webStartWrite")
  BY <1>3 DEF Reads, StartRead, SyncStartRead, WebStartRead, SubmitRead,
              MobileRevokeRead, UpdateRead, WebStartLockCheck, UnassignRead
<1>4. ASSUME NEW r \in Requests, Writes(r)
      PROVE  \/ Done(r)
             \/ \E s, t, who : s \notin {"complete", "revisit"} /\ Begin(r, s, t, who)
             \/ \E s : s \notin {"complete", "revisit"} /\ Proceed(r, s)
  <2>1. CASE \/ StartTx(r) \/ SyncStartTx(r) \/ MobileRevokeTx(r)
             \/ \E child \in Tasks, agent \in Agents \cup {None} : RevisitTx(r, child, agent)
             \/ \E chosen \in EditTargets : UnassignWrite(r, chosen)
    BY <2>1 DEF StartTx, SyncStartTx, MobileRevokeTx, RevisitTx, UnassignWrite
  <2>2. CASE WebStartWrite(r) \/ SubmitTx(r) \/ CompleteTx(r) \/ UpdateWrite(r)
    BY <2>2 DEF WebStartWrite, SubmitTx, CompleteTx, UpdateWrite
  <2>3. CASE \/ CreateTasks(r)
             \/ \E t \in Tasks : FinalizeReview(r, t)
             \/ \E t \in Tasks, agent \in Agents : Reassign(r, t, agent)
             \/ \E t, child \in Tasks, agent \in Agents : Replace(r, t, child, agent)
    BY <2>3 DEF CreateTasks, FinalizeReview, Reassign, Replace
  <2> QED BY <1>4, <2>1, <2>2, <2>3 DEF Writes
<1>5. ASSUME NEW r \in Requests, Owed(r) \/ GiveUp(r) \/ Die(r)
      PROVE  req'[q] = req[q]
  <2>1. CASE Recount(r) \/ HookPay(r) \/ GiveUp(r) \/ Die(r)
    BY <1>1, <2>1 DEF Recount, HookPay, GiveUp, Die
  <2>2. CASE HookRead(r)
    <3>1. Done(r) \/ \E who : req' = [req EXCEPT ![r].step = "pay", ![r].who = who]
      BY <2>2 DEF HookRead
    <3> QED BY <1>1, <3>1 DEF TypeInv, TypeOK, Request
  <2> QED BY <1>5, <2>1, <2>2 DEF Owed
<1>6. CASE SingleStep
  BY <1>6 DEF SingleStep, CreateCase, Revoke, BulkAssign, EditCaseAssign,
              SyncCaseChange, ToggleReview
<1>7. CASE UNCHANGED vars
  BY <1>7 DEF vars
<1>8. ASSUME NEW r \in Requests, Reads(r) \/ Writes(r) \/ Owed(r) \/ GiveUp(r) \/ Die(r)
      PROVE  Claim
  BY <1>1, <1>2, <1>3, <1>4, <1>5, <1>8
<1> QED BY <1>6, <1>7, <1>8 DEF Next

\* The parent of a row that is inserted is a revoked task, or the completed
\* task a revisit has read.
LEMMA ParentBorn ==
  ASSUME WorkflowOnly, TypeInv, SupersededInv, [Next]_vars, NEW c \in Tasks,
         c \notin Rows(task), c \in Rows(task'), task'[c].parent # None
  PROVE  \/ report[task'[c].parent] # None
         \/ task[task'[c].parent].status = "REVOKED"
<1>1. task' # task
  OBVIOUS
<1>2. ASSUME NEW t \in Tasks, NEW row, Commit([task EXCEPT ![t] = row]), t \in Rows(task)
      PROVE  FALSE
  BY <1>2, OneRowWritten DEF Rows
<1>3. ASSUME InsertTasks PROVE FALSE
  <2>1. PICK new \in SUBSET (Tasks \ Rows(task)) :
          \E type \in [new -> Types], agent \in [new -> Agents] :
            task' = [t \in Tasks |-> IF t \in new THEN NewRow(type[t], None, agent[t])
                                     ELSE task[t]]
    BY <1>3 DEF InsertTasks, Commit
  <2> QED BY <2>1 DEF NewRow, Rows
<1>4. ASSUME NEW t \in Tasks, NEW child \in Tasks, NEW agent,
             Commit([task EXCEPT ![child] = NewRow(task[t].type, t, agent)])
      PROVE  task'[c].parent = t
  BY <1>4, OneRowWritten DEF NewRow, Rows
<1>5. ASSUME NEW r \in Requests, Writes(r)
      PROVE  \/ report[task'[c].parent] # None
             \/ task[task'[c].parent].status = "REVOKED"
  <2>1. ASSUME SubmitTx(r) \/ CompleteTx(r) \/ MobileRevokeTx(r)
        PROVE  FALSE
    <3>1. req[r].task \in Tasks /\ req[r].task \in Rows(task)
      BY <2>1 DEF SubmitTx, CompleteTx, MobileRevokeTx, At, TypeInv, RequestsNamed, Rows
    <3> QED BY <1>2, <2>1, <3>1 DEF SubmitTx, CompleteTx, MobileRevokeTx, RevokeTx
  <2>2. ASSUME StartTx(r) \/ SyncStartTx(r) \/ WebStartWrite(r)
        PROVE  FALSE
    <3>1. req[r].task \in Tasks /\ req[r].task \in Rows(task)
      BY <2>2 DEF StartTx, SyncStartTx, WebStartWrite, At, TypeInv, RequestsNamed, Rows
    <3>2. Commit([task EXCEPT ![req[r].task] = Started(task[req[r].task])])
      BY <1>1, <2>2 DEF StartTx, SyncStartTx, WebStartWrite
    <3> QED BY <1>2, <3>1, <3>2
  <2>3. ASSUME NEW t \in Tasks,
               FinalizeReview(r, t) \/ \E agent \in Agents : Reassign(r, t, agent)
        PROVE  FALSE
    BY <1>2, <2>3 DEF FinalizeReview, Reassign, Rows
  <2>4. ASSUME NEW t \in Tasks, NEW child \in Tasks, NEW agent \in Agents,
               Replace(r, t, child, agent)
        PROVE  task[task'[c].parent].status = "REVOKED"
    BY <1>4, <2>4 DEF Replace
  <2>5. ASSUME NEW child \in Tasks, NEW agent \in Agents \cup {None},
               RevisitTx(r, child, agent)
        PROVE  report[task'[c].parent] # None
    <3>1. req[r].task \in Tasks /\ report[req[r].task] # None
      BY <2>5 DEF RevisitTx, At, TypeInv, RequestsNamed, Rows, SupersededInv
    <3> QED BY <1>4, <2>5, <3>1 DEF RevisitTx
  <2>6. ~UpdateWrite(r) /\ \A chosen \in EditTargets : ~UnassignWrite(r, chosen)
    BY DEF WorkflowOnly, UpdateWrite, UnassignWrite
  <2> QED BY <1>3, <1>5, <2>1, <2>2, <2>3, <2>4, <2>5, <2>6 DEF Writes, CreateTasks
<1>6. ASSUME NEW r \in Requests, Reads(r) \/ Owed(r) \/ GiveUp(r) \/ Die(r) PROVE FALSE
  <2>1. CASE Reads(r)
    BY <1>1, <2>1 DEF Reads, StartRead, SyncStartRead, WebStartRead, SubmitRead,
                      MobileRevokeRead, CompleteRead, RevisitRead, UpdateRead,
                      WebStartLockCheck, UnassignRead
  <2>2. CASE Owed(r) \/ GiveUp(r) \/ Die(r)
    BY <1>1, <2>2 DEF Owed, Recount, HookRead, HookPay, GiveUp, Die
  <2> QED BY <1>6, <2>1, <2>2
<1>7. CASE SingleStep
  <2>1. ASSUME NEW t \in Tasks, Revoke(t) PROVE FALSE
    BY <1>2, <2>1 DEF Revoke, RevokeTx
  <2>2. ASSUME NEW chosen \in SUBSET Rows(task), NEW agent, BulkAssign(chosen, agent)
        PROVE  FALSE
    <3>1. task'[c] = task[c]
      BY <2>2 DEF BulkAssign, Commit, Rows
    <3> QED BY <3>1 DEF Rows
  <2>3. \A chosen \in EditTargets, agent \in Agents : ~EditCaseAssign(chosen, agent)
    BY DEF WorkflowOnly, EditCaseAssign
  <2>4. ASSUME ToggleReview \/ \E who \in Callers, status \in Statuses :
                                 SyncCaseChange(who, status)
        PROVE  FALSE
    BY <1>1, <2>4 DEF ToggleReview, SyncCaseChange
  <2> QED BY <1>3, <1>7, <2>1, <2>2, <2>3, <2>4 DEF SingleStep, CreateCase
<1> QED BY <1>1, <1>5, <1>6, <1>7 DEF Next, vars

LEMMA SupersededStep ==
  ASSUME WorkflowOnly, TypeInv, SupersededInv, [Next]_vars PROVE SupersededInv'
<1>1. \A t \in Tasks :
        task'[t].status \in {"SUBMITTED_FOR_REVIEW", "COMPLETED"} => report'[t] # None
  BY FinishedReported
<1>2. ASSUME NEW q \in Requests, req'[q].step \in {"complete", "revisit"}
      PROVE  report'[req'[q].task] # None
  <2>1. CASE req'[q] = req[q]
    <3>1. req[q].task \in Tasks /\ report[req[q].task] # None
      BY <1>2, <2>1 DEF SupersededInv, TypeInv, RequestsNamed, Rows
    <3> QED BY <2>1, <3>1, ReportsStay
  <2>2. CASE req'[q] # req[q]
    <3>1. PICK t \in Tasks : /\ req'[q].task = t
                             /\ report[t] # None \/ task[t].status = "COMPLETED"
      BY <1>2, <2>2, ReportReaders
    <3> QED BY <3>1, ReportsStay DEF SupersededInv
  <2> QED BY <2>1, <2>2
<1>3. ASSUME NEW c \in Rows(task'), task'[c].parent # None
      PROVE  \/ report'[task'[c].parent] # None
             \/ task'[task'[c].parent].status = "REVOKED"
  <2> DEFINE p == task'[c].parent
  <2>1. c \in Tasks /\ p \in Tasks
    BY <1>3, TypeInvStep DEF Rows, TypeInv, TypeOK, Row
  <2>2. report[p] # None \/ task[p].status = "REVOKED"
    <3>1. CASE c \in Rows(task)
      <4>1. task[c].parent = p
        BY <2>1, <3>1, RowsLineage
      <4> QED BY <1>3, <3>1, <4>1 DEF SupersededInv
    <3>2. CASE c \notin Rows(task)
      BY <1>3, <2>1, <3>2, ParentBorn
    <3> QED BY <3>1, <3>2
  <2> QED BY <2>1, <2>2, ReportsStay, RowsLineage
<1> QED BY <1>1, <1>2, <1>3 DEF SupersededInv

\* With the general edits unused, no form is filed for a task that has been
\* replaced or revisited: the children are looked at before the submission's
\* transaction, but by the time a task has one it is revoked for good or has
\* had its form filed.
THEOREM SupersededAreNotFiled ==
  ASSUME WorkflowOnly PROVE Spec => SupersededNotFiled
<1>1. ASSUME TypeInv, SupersededInv, [Next]_vars
      PROVE  [\A t \in Tasks : report'[t] # report[t] => Children(t) = {}]_vars
  <2> SUFFICES ASSUME NEW t \in Tasks, report'[t] # report[t],
                      NEW c \in Rows(task), task[c].parent = t
               PROVE  FALSE
    BY DEF Children
  <2>1. PICK r \in Requests : Files(r)
    BY <1>1, ReportWays
  <2>2. t = req[r].task
    BY <1>1, <2>1 DEF Files, TypeInv, TypeOK
  <2>3. report[t] = None /\ task[t].status = "IN_PROGRESS"
    BY <2>1, <2>2 DEF Files
  <2>4. t # None
    BY Assumptions
  <2> QED BY <1>1, <2>3, <2>4 DEF SupersededInv
<1> QED BY <1>1, SupersededInit, SupersededStep, TypeInvInit, TypeInvStep, PTL
        DEF Spec, SupersededNotFiled
-----------------------------------------------------------------------------
(* The workflow implements TaskVisit. *)

\* What a row step does to the three components TaskVisit speaks of.
LEMMA RowMoves ==
  ASSUME WorkflowOnly, TypeInv, StampInv, AmountInv, [Next]_vars, NEW t \in Tasks
  PROVE  Visit!Move(t)
<1> DEFINE Old == task[t]
           New == task'[t]
<1>1. RowStep(t) /\ Old \in Row /\ task \in [Tasks -> Row] /\ task' \in [Tasks -> Row]
  BY RowSteps, TypeInvStep DEF TypeInv, TypeOK
<1>2. /\ Old.status \in {"ASSIGNED", "IN_PROGRESS", "SUBMITTED_FOR_REVIEW"}
           => Old.assignee # None
      /\ Old.status = "ABSENT" => Old.amount = None
      /\ Old.status = "COMPLETED" => Old.amount # None
  BY DEF StampInv, AmountInv
<1>3. /\ [u \in Tasks |-> Phase(task[u])][t] = Phase(Old)
      /\ [u \in Tasks |-> task[u].assignee][t] = Old.assignee
      /\ [u \in Tasks |-> task[u].amount][t] = Old.amount
      /\ [u \in Tasks |-> Phase(task[u])]'[t] = Phase(New)
      /\ [u \in Tasks |-> task[u].assignee]'[t] = New.assignee
      /\ [u \in Tasks |-> task[u].amount]'[t] = New.amount
  OBVIOUS
<1> HIDE DEF Old, New
<1>4. CASE Kept(t)
  BY <1>3, <1>4 DEF Kept, Old, New, Visit!Move, Visit!Keep
<1>5. CASE Born(t)
  <2>1. PICK type \in Types \cup {None}, parent \in Tasks \cup {None},
             agent \in Agents \cup {None} :
          Old.status = "ABSENT" /\ New = NewRow(type, parent, agent)
    BY <1>5 DEF Born, Old, New
  <2>2. /\ New.status \in {"PENDING", "ASSIGNED"}
        /\ New.assignee = agent /\ New.amount = None
    BY <2>1 DEF NewRow
  <2>3. Phase(Old) = "absent" /\ Phase(New) = "waiting"
    BY <2>1, <2>2 DEF Phase
  <2>4. Visit!Create(t)
    BY <1>2, <1>3, <2>1, <2>2, <2>3 DEF Visit!Create
  <2> QED BY <2>4 DEF Visit!Move
<1>6. CASE BeginsVisit(t)
  <2>1. /\ Old.status \in {"ASSIGNED", "IN_PROGRESS", "SUBMITTED_FOR_REVIEW"}
        /\ New.status = "IN_PROGRESS"
        /\ New.assignee = Old.assignee /\ New.amount = Old.amount
    BY <1>1, <1>6 DEF BeginsVisit, Started, Row, Old, New
  <2>2. Phase(Old) \in {"waiting", "visit", "review"} /\ Phase(New) = "visit"
    BY <2>1 DEF Phase
  <2>3. Visit!Keep(t) \/ Visit!BeginVisit(t)
    BY <1>2, <1>3, <2>1, <2>2 DEF Visit!Keep, Visit!BeginVisit
  <2> QED BY <2>3 DEF Visit!Move
<1>7. CASE Finishes(t)
  <2>1. PICK status \in {"SUBMITTED_FOR_REVIEW", "COMPLETED"},
             given \in {"estimated", "given"} :
          /\ Old.status \in {"IN_PROGRESS", "SUBMITTED_FOR_REVIEW", "COMPLETED"}
          /\ GuardAllows(Old.status, status)
          /\ New = Finished(Old, status, given)
    BY <1>7 DEF Finishes, Old, New
  <2>2. /\ New.status = status /\ New.assignee = Old.assignee
        /\ New.amount = IF Old.amount # None THEN Old.amount ELSE given
    BY <1>1, <2>1 DEF Finished, Snapshot, Row
  <2>3. \/ Old.status = "IN_PROGRESS"
        \/ Old.status = "SUBMITTED_FOR_REVIEW"
        \/ Old.status = "COMPLETED" /\ status = "COMPLETED"
    BY <2>1 DEF GuardAllows, Transitions
  <2>4. CASE Old.status = "COMPLETED"
    <3>1. Phase(Old) = "done" /\ Phase(New) = "done" /\ New.amount = Old.amount
      BY <1>2, <2>2, <2>3, <2>4 DEF Phase
    <3>2. Visit!Keep(t)
      BY <1>3, <2>2, <3>1 DEF Visit!Keep
    <3> QED BY <3>2 DEF Visit!Move
  <2>5. CASE Old.status # "COMPLETED"
    <3>1. \/ Phase(Old) = "visit" /\ Phase(New) \in {"review", "done"}
          \/ Phase(Old) = "review" /\ Phase(New) \in {"review", "done"}
      BY <2>1, <2>2, <2>3, <2>5 DEF Phase
    <3>2. Visit!Bill(t)
      BY <1>3, <2>2 DEF Visit!Bill
    <3>3. CASE ~(Phase(Old) = "review" /\ Phase(New) = "review")
      <4>1. Visit!EndVisit(t)
        BY <1>3, <2>2, <3>1, <3>2, <3>3 DEF Visit!EndVisit
      <4> QED BY <4>1 DEF Visit!Move
    <3>4. CASE Phase(Old) = "review" /\ Phase(New) = "review"
      <4>1. Old.status = "SUBMITTED_FOR_REVIEW" /\ Old.amount # None
        BY <2>1, <3>4 DEF Phase, AmountInv, Old
      <4>2. Visit!Keep(t)
        BY <1>3, <2>2, <3>4, <4>1 DEF Visit!Keep
      <4> QED BY <4>2 DEF Visit!Move
    <3> QED BY <3>3, <3>4
  <2> QED BY <2>4, <2>5
<1>8. CASE GetsRevoked(t)
  <2>1. /\ Old.status \in {"PENDING", "ASSIGNED", "IN_PROGRESS", "SUBMITTED_FOR_REVIEW"}
        /\ New.status = "REVOKED" /\ New.assignee = None /\ New.amount = Old.amount
    BY <1>1, <1>8 DEF GetsRevoked, Revoked, Row, Statuses, Old, New
  <2>2. Phase(Old) \in {"waiting", "visit", "review"} /\ Phase(New) = "revoked"
    BY <2>1 DEF Phase
  <2>3. Visit!Revoke(t)
    BY <1>3, <2>1, <2>2 DEF Visit!Revoke
  <2> QED BY <2>3 DEF Visit!Move
<1>9. CASE ChangesHands(t)
  <2>1. /\ Old.status \in {"PENDING", "ASSIGNED", "COMPLETED"}
        /\ New.status = "ASSIGNED" /\ New.assignee \in Agents /\ New.amount = Old.amount
    BY <1>1, <1>9 DEF ChangesHands, Reassigned, HandedTo, Row, Old, New
  <2>2. Phase(Old) \in {"waiting", "done"} /\ Phase(New) = "waiting"
    BY <2>1 DEF Phase
  <2>3. Visit!HandOver(t)
    BY <1>3, <2>1, <2>2 DEF Visit!HandOver
  <2> QED BY <2>3 DEF Visit!Move
<1> QED BY <1>1, <1>4, <1>5, <1>6, <1>7, <1>8, <1>9 DEF RowStep

\* With the general edits unused, every step of every interleaving of requests
\* is, for each task, a move of TaskVisit or nothing: the workflow implements
\* the life of a task that its handlers promise.
THEOREM WorkflowImplementsVisits ==
  ASSUME WorkflowOnly PROVE Spec => VisitsFollowed
<1>1. Init => Visit!Init
  BY DEF Init, Visit!Init, NoRow, Phase
<1>2. Init => StampInv /\ AmountInv
  BY DEF Init, StampInv, AmountInv, NoRow
<1>3. ASSUME TypeInv, AmountInv, [Next]_vars PROVE AmountInv'
  BY <1>3, AmountStep DEF AmountInv
<1>4. ASSUME TypeInv, StampInv, AmountInv, [Next]_vars
      PROVE  [Visit!Next]_(Visit!vars)
  BY <1>4, RowMoves DEF Visit!Next
<1> QED
  BY <1>1, <1>2, <1>3, <1>4, StampStep, TypeInvInit, TypeInvStep, PTL
     DEF Spec, VisitsFollowed, Visit!Spec
=============================================================================
