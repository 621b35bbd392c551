------------------------ MODULE KycVerification_proofs ------------------------
(***************************************************************************)
(* The tables of the KYC documents of a case, for any number of tasks,     *)
(* verifiers, requests and cycles, among any field endpoints.              *)
(*                                                                         *)
(* A step of the KYC handlers changes the rows of one task; a step of a    *)
(* field endpoint changes statuses of tasks, and notes them in `moved'.    *)
(* The inductive invariant says how the three rows of a document agree     *)
(* (Agree), that a task nobody else moved follows its document (InStep),   *)
(* what the unique index guards (OneActive), that an assignment half done  *)
(* names a task that exists, and when the case status is the rollup        *)
(* (CaseInStep); Follows says what a step may do to the cycles of a task.  *)
(***************************************************************************)
EXTENDS KycVerification, SequenceTheorems, TLAPS

Agree(d, s, cs) ==
  /\ d.status = "ABSENT" <=> s = "ABSENT"
  /\ d.status = "COMPLETED" <=> d.outcome # None
  /\ d.status = "ABSENT" => cs = <<>>
  /\ d.status # "ABSENT" => Len(cs) > 0
  /\ \A i \in 1..(Len(cs) - 1) : cs[i].status = "KYC_COMPLETED"
  /\ d.status = "COMPLETED" =>
       Last(cs).status = "KYC_COMPLETED" /\ Last(cs).outcome = d.outcome

Agreement == \A t \in Tasks : Agree(doc[t], task[t], cycles[t])

\* The task of a document that only the KYC handlers move.
Mirrors(s, d) ==
  /\ s \in {"ABSENT", "ASSIGNED", "IN_PROGRESS", "COMPLETED"}
  /\ s = "COMPLETED" <=> d.status = "COMPLETED"

InStep == \A t \in Tasks : t \notin moved => Mirrors(task[t], doc[t])

RequestsNamed ==
  \A r \in Requests : req[r].step \in {"assignTask", "assignCycle"} =>
    req[r].task \in Tasks /\ task[req[r].task] # "ABSENT"

Owed == \E r \in Requests : req[r].step = "recount"

AllClosed(tk) ==
  /\ \A t \in Rows(tk) : tk[t] \in {"COMPLETED", "REVOKED"}
  /\ \E t \in Rows(tk) : tk[t] = "COMPLETED"

CaseInStep == drift \/ Owed \/ (caseStatus = "COMPLETED" <=> AllClosed(task))

KycInv ==
  /\ KycTypeOK /\ Agreement /\ InStep /\ OneActive(task)
  /\ RequestsNamed /\ CaseInStep

\* The cycles cs of a task become new ones: no cycle but the latest is new or
\* changed, and a completed one stays completed.
Follows(cs, new) ==
  /\ \A i \in 1..(Len(new) - 1) : new[i] = cs[i] /\ new[i].status = "KYC_COMPLETED"
  /\ \A i \in 1..Len(cs) : cs[i].status = "KYC_COMPLETED" =>
       i <= Len(new) /\ new[i].status = "KYC_COMPLETED"

HistoryFollows == \A t \in Tasks : Follows(cycles[t], cycles'[t])

\* What a step may do to the case, and to the requests.
CaseMoves ==
  \/ Recount
  \/ /\ NoRecount
     /\ Owed' \/ ((Owed => Owed') /\ (AllClosed(task') <=> AllClosed(task)))
  \/ drift' = TRUE /\ caseStatus' \in Statuses

RequestsMove ==
  /\ req' \in [Requests -> Request]
  /\ \A r \in Requests :
       \/ req'[r] = req[r]
       \/ req'[r].step \in {"idle", "clone", "recount"}
       \/ req'[r].task \in Tasks /\ task'[req'[r].task] # "ABSENT"
-----------------------------------------------------------------------------
(* What a recount finds. *)

\* A case rolls up to COMPLETED exactly when its tasks are completed or
\* revoked, and one is completed.
LEMMA RollupCompleted ==
  ASSUME NEW S
  PROVE  Rollup(S) = "COMPLETED" <=> S \subseteq {"COMPLETED", "REVOKED"} /\ "COMPLETED" \in S
<1>1. CASE S \subseteq {"REVOKED"}
  BY <1>1 DEF Rollup
<1>2. CASE ~(S \subseteq {"REVOKED"}) /\ S \subseteq {"COMPLETED", "REVOKED"}
  BY <1>2 DEF Rollup
<1>3. CASE ~(S \subseteq {"COMPLETED", "REVOKED"})
  <2>1. ~(S \subseteq {"REVOKED"})
    BY <1>3
  <2> QED BY <1>3, <2>1 DEF Rollup
<1> QED BY <1>1, <1>2, <1>3

LEMMA RollupIsStatus == ASSUME NEW S PROVE Rollup(S) \in Statuses
BY DEF Rollup, Statuses

LEMMA RecountFollows ==
  ASSUME Recount
  PROVE  /\ caseStatus' \in Statuses /\ drift' = FALSE
         /\ caseStatus' = "COMPLETED" <=> AllClosed(task')
<1> DEFINE S == {task'[t] : t \in Rows(task')}
<1>1. /\ S \subseteq {"COMPLETED", "REVOKED"} <=>
           \A t \in Rows(task') : task'[t] \in {"COMPLETED", "REVOKED"}
      /\ "COMPLETED" \in S <=> \E t \in Rows(task') : task'[t] = "COMPLETED"
  OBVIOUS
<1>2. caseStatus' = Rollup(S) /\ drift' = FALSE
  BY DEF Recount
<1> HIDE DEF S
<1> QED BY <1>1, <1>2, RollupCompleted, RollupIsStatus DEF AllClosed

LEMMA CaseStays ==
  ASSUME KycInv, CaseMoves
  PROVE  CaseInStep' /\ caseStatus' \in Statuses /\ drift' \in BOOLEAN
<1>1. caseStatus \in Statuses /\ drift \in BOOLEAN /\ CaseInStep
  BY DEF KycInv, KycTypeOK
<1>2. CASE Recount
  BY <1>2, RecountFollows DEF CaseInStep
<1>3. CASE /\ NoRecount
           /\ Owed' \/ ((Owed => Owed') /\ (AllClosed(task') <=> AllClosed(task)))
  BY <1>1, <1>3 DEF CaseInStep, NoRecount
<1>4. CASE drift' = TRUE /\ caseStatus' \in Statuses
  BY <1>4 DEF CaseInStep
<1> QED BY <1>2, <1>3, <1>4 DEF CaseMoves
-----------------------------------------------------------------------------
(* The two kinds of steps. *)

LEMMA NamesStay ==
  ASSUME KycInv, RequestsMove, \A u \in Tasks : task[u] # "ABSENT" => task'[u] # "ABSENT"
  PROVE  RequestsNamed'
BY DEF KycInv, RequestsNamed, RequestsMove

\* A step of the KYC handlers writes the rows of one task, and keeps the
\* invariant if it leaves the three agreeing.
LEMMA OneTask ==
  ASSUME KycInv, NEW t \in Tasks, NEW d \in Doc, NEW s \in Task, NEW cs \in Seq(Cycle),
         doc' = [doc EXCEPT ![t] = d],
         task' = [task EXCEPT ![t] = s],
         cycles' = [cycles EXCEPT ![t] = cs],
         Agree(d, s, cs), Follows(cycles[t], cs),
         task[t] # "ABSENT" => s # "ABSENT",
         OneActive(task'),
         moved' = moved \/ moved' = moved \ {t},
         t \notin moved' => Mirrors(s, d),
         CaseMoves, RequestsMove
  PROVE  KycInv' /\ HistoryFollows
<1> USE DEF KycInv
<1>1. doc' \in [Tasks -> Doc] /\ task' \in [Tasks -> Task] /\ cycles' \in [Tasks -> Seq(Cycle)]
  BY DEF KycTypeOK
<1>2. \A u \in Tasks : u # t => doc'[u] = doc[u] /\ task'[u] = task[u] /\ cycles'[u] = cycles[u]
  BY DEF KycTypeOK
<1>3. doc'[t] = d /\ task'[t] = s /\ cycles'[t] = cs
  BY DEF KycTypeOK
<1>4. Agreement'
  BY <1>2, <1>3 DEF Agreement
<1>5. InStep'
  BY <1>2, <1>3 DEF InStep
<1>6. RequestsNamed'
  BY <1>2, <1>3, NamesStay
<1>7. CaseInStep' /\ caseStatus' \in Statuses /\ drift' \in BOOLEAN
  BY CaseStays
<1>8. HistoryFollows
  <2>1. \A u \in Tasks : Follows(cycles[u], cycles[u])
    BY DEF Follows, Agreement, Agree, KycTypeOK
  <2> QED BY <1>2, <1>3, <2>1 DEF HistoryFollows
<1>9. KycTypeOK'
  BY <1>1, <1>7 DEF KycTypeOK, RequestsMove
<1>10. OneActive(task)'
  BY DEF OneActive
<1> QED BY <1>4, <1>5, <1>6, <1>7, <1>8, <1>9, <1>10

\* A field endpoint writes statuses of tasks that exist.
LEMMA FieldKeeps ==
  ASSUME KycInv, NEW tk \in [Tasks -> Task], FieldCommit(tk),
         \A u \in Tasks : tk[u] = "ABSENT" <=> task[u] = "ABSENT",
         CaseMoves, RequestsMove
  PROVE  KycInv' /\ HistoryFollows
<1> USE DEF KycInv
<1>1. /\ task' = tk /\ OneActive(tk) /\ doc' = doc /\ cycles' = cycles
      /\ moved' = moved \cup {t \in Tasks : tk[t] # task[t]}
  BY DEF FieldCommit, CommitTasks
<1>2. Agreement'
  BY <1>1 DEF Agreement, Agree
<1>3. InStep'
  BY <1>1 DEF InStep
<1>4. RequestsNamed'
  BY <1>1, NamesStay
<1>5. CaseInStep' /\ caseStatus' \in Statuses /\ drift' \in BOOLEAN
  BY CaseStays
<1>6. HistoryFollows
  BY <1>1 DEF HistoryFollows, Follows, Agreement, Agree, KycTypeOK
<1>7. KycTypeOK'
  BY <1>1, <1>5 DEF KycTypeOK, RequestsMove
<1>8. OneActive(task)'
  BY <1>1 DEF OneActive
<1> QED BY <1>2, <1>3, <1>4, <1>5, <1>6, <1>7, <1>8

\* The rows of one task, before a step.
LEMMA RowsOf ==
  ASSUME KycInv, NEW t \in Tasks
  PROVE  /\ doc[t] \in Doc /\ task[t] \in Task /\ cycles[t] \in Seq(Cycle)
         /\ Len(cycles[t]) \in Nat
         /\ Agree(doc[t], task[t], cycles[t])
         /\ t \notin moved => Mirrors(task[t], doc[t])
         /\ Follows(cycles[t], cycles[t])
         /\ doc = [doc EXCEPT ![t] = doc[t]]
         /\ task = [task EXCEPT ![t] = task[t]]
         /\ cycles = [cycles EXCEPT ![t] = cycles[t]]
BY LenProperties DEF KycInv, KycTypeOK, Agreement, Agree, Follows, InStep

\* A status that is not active leaves the index alone, and so does one that
\* replaces an active one.
LEMMA IndexKept ==
  ASSUME KycInv, NEW t \in Tasks, NEW s, s \in ActiveStatuses => task[t] \in ActiveStatuses
  PROVE  OneActive([task EXCEPT ![t] = s])
BY DEF KycInv, KycTypeOK, OneActive, Active

LEMMA RequestsIdle ==
  ASSUME KycInv
  PROVE  /\ req \in [Requests -> Request]
         /\ \A r \in Requests : [req EXCEPT ![r] = Idle] \in [Requests -> Request]
BY DEF KycInv, KycTypeOK, Idle, Request

LEMMA RequestsStay == ASSUME KycInv, req' = req PROVE RequestsMove /\ (Owed => Owed')
BY RequestsIdle DEF RequestsMove, Owed

LEMMA RequestEnds ==
  ASSUME KycInv, NEW r \in Requests, Done(r)
  PROVE  RequestsMove /\ (req[r].step # "recount" => (Owed => Owed'))
<1>1. req' = [req EXCEPT ![r] = Idle]
  BY DEF Done
<1>2. \A q \in Requests : q # r => req'[q] = req[q]
  BY <1>1, RequestsIdle
<1>3. req'[r].step = "idle"
  BY <1>1, RequestsIdle DEF Idle
<1> QED BY <1>1, <1>2, <1>3, RequestsIdle DEF RequestsMove, Owed
-----------------------------------------------------------------------------
(* The decision. *)

LEMMA VerifyKeeps ==
  ASSUME KycInv, NEW t \in Tasks, NEW outcome \in Outcomes, Verify(t, outcome)
  PROVE  KycInv' /\ HistoryFollows
<1> DEFINE n == Len(cycles[t])
           d == [doc[t] EXCEPT !.status = "COMPLETED", !.outcome = outcome]
           c == [cycles[t][n] EXCEPT !.status = "KYC_COMPLETED", !.outcome = outcome]
           cs == [cycles[t] EXCEPT ![n] = c]
<1>1. doc[t].status # "ABSENT" /\ task[t] # "ABSENT" /\ n \in 1..n
  BY RowsOf DEF Verify, Verifiable, Agree
<1>2. d \in Doc /\ "COMPLETED" \in Task
  BY RowsOf DEF Doc, Task, Statuses, DocStatuses
<1>3. cycles[t][n] \in Cycle
  BY <1>1, RowsOf, ElementOfSeq
<1>4. c \in Cycle
  BY <1>3 DEF Cycle
<1>5. /\ cs \in Seq(Cycle) /\ Len(cs) = n
      /\ \A j \in 1..n : cs[j] = IF j = n THEN c ELSE cycles[t][j]
  BY <1>1, <1>4, RowsOf, ExceptSeq
<1>6. c.status = "KYC_COMPLETED" /\ c.outcome = outcome
  BY <1>3 DEF Cycle
<1>7. d.status = "COMPLETED" /\ d.outcome = outcome
  BY RowsOf DEF Doc
<1>8. /\ doc' = [doc EXCEPT ![t] = d] /\ task' = [task EXCEPT ![t] = "COMPLETED"]
      /\ cycles' = [cycles EXCEPT ![t] = cs] /\ Recount /\ req' = req /\ moved' = moved \ {t}
  BY DEF Verify
<1> HIDE DEF d, c, cs
<1>9. outcome # None
  BY KycAssumptions
<1>10. Agree(d, "COMPLETED", cs)
  <2>1. d.status # "ABSENT" /\ d.outcome # None /\ Len(cs) > 0
    BY <1>1, <1>5, <1>7, <1>9
  <2>2. Last(cs).status = "KYC_COMPLETED" /\ Last(cs).outcome = d.outcome
    BY <1>1, <1>5, <1>6, <1>7 DEF Last
  <2>3. \A i \in 1..(Len(cs) - 1) : cs[i].status = "KYC_COMPLETED"
    BY <1>1, <1>5, RowsOf DEF Agree
  <2> QED BY <1>7, <2>1, <2>2, <2>3 DEF Agree
<1>11. Follows(cycles[t], cs)
  BY <1>1, <1>5, <1>6, RowsOf DEF Follows, Agree
<1>12. OneActive(task') /\ Mirrors("COMPLETED", d)
  BY <1>7, <1>8, IndexKept DEF ActiveStatuses, Mirrors
<1> QED
  BY <1>2, <1>5, <1>8, <1>10, <1>11, <1>12, OneTask, RequestsStay DEF CaseMoves

LEMMA HoppedStatus ==
  ASSUME NEW s \in Task
  PROVE  /\ Hopped(s) \in Task
         /\ Hopped(s) = "ABSENT" <=> s = "ABSENT"
         /\ Hopped(s) = "COMPLETED" <=> s = "COMPLETED"
         /\ s \in {"ASSIGNED", "IN_PROGRESS"} => Hopped(s) = "IN_PROGRESS"
BY DEF Hopped, Task, Statuses

LEMMA StartKeeps ==
  ASSUME KycInv, NEW t \in Tasks, Start(t)
  PROVE  KycInv' /\ HistoryFollows
<1> DEFINE d == [doc[t] EXCEPT !.status = "IN_PROGRESS"]
           s == Hopped(task[t])
<1>1. doc[t].status \in {"PENDING", "ASSIGNED"}
  BY RowsOf DEF Start, NextDocStatuses, Doc, DocStatuses
<1>2. d \in Doc /\ d.status = "IN_PROGRESS" /\ d.outcome = doc[t].outcome
  BY RowsOf DEF Doc, DocStatuses
<1>3. /\ doc' = [doc EXCEPT ![t] = d] /\ task' = [task EXCEPT ![t] = s] /\ OneActive(task')
      /\ cycles' = [cycles EXCEPT ![t] = cycles[t]] /\ Recount /\ req' = req /\ moved' = moved
  BY RowsOf DEF Start, CommitTasks
<1> HIDE DEF d
<1>4. s \in Task /\ (s = "ABSENT" <=> task[t] = "ABSENT")
  BY HoppedStatus, RowsOf
<1>5. Agree(d, s, cycles[t])
  BY <1>1, <1>2, <1>4, RowsOf DEF Agree
<1>6. t \notin moved => Mirrors(s, d)
  BY <1>1, <1>2, HoppedStatus, RowsOf DEF Mirrors
<1> HIDE DEF s
<1> QED
  BY <1>2, <1>3, <1>4, <1>5, <1>6, OneTask, RequestsStay, RowsOf DEF CaseMoves

LEMMA RevokeKeeps ==
  ASSUME KycInv, NEW t \in Tasks, Revoke(t)
  PROVE  KycInv' /\ HistoryFollows
<1> DEFINE d == [doc[t] EXCEPT !.status = "REVOKED"]
<1>1. doc[t].status \in {"PENDING", "ASSIGNED", "IN_PROGRESS"}
  BY RowsOf DEF Revoke, NextDocStatuses, Doc, DocStatuses
<1>2. d \in Doc /\ d.status = "REVOKED" /\ d.outcome = doc[t].outcome
  BY RowsOf DEF Doc, DocStatuses
<1>3. /\ doc' = [doc EXCEPT ![t] = d] /\ task' = [task EXCEPT ![t] = task[t]] /\ task' = task
      /\ cycles' = [cycles EXCEPT ![t] = cycles[t]] /\ Recount /\ req' = req /\ moved' = moved
  BY RowsOf DEF Revoke
<1> HIDE DEF d
<1>4. Agree(d, task[t], cycles[t]) /\ (t \notin moved => Mirrors(task[t], d))
  BY <1>1, <1>2, RowsOf DEF Agree, Mirrors
<1>5. OneActive(task')
  BY <1>3 DEF KycInv
<1> QED
  BY <1>2, <1>3, <1>4, <1>5, OneTask, RequestsStay, RowsOf DEF CaseMoves

LEMMA ReopenedStatus ==
  ASSUME NEW s \in Task
  PROVE  /\ Reopened(s) \in Task
         /\ Reopened(s) = "ABSENT" <=> s = "ABSENT"
         /\ s = "COMPLETED" => Reopened(s) = "ASSIGNED"
         /\ s # "COMPLETED" => Reopened(s) = s
BY DEF Reopened, Task, Statuses

LEMMA RecheckKeeps ==
  ASSUME KycInv, NEW t \in Tasks, Recheck(t)
  PROVE  KycInv' /\ HistoryFollows
<1> DEFINE s == Reopened(task[t])
<1>1. doc[t].status \in {"COMPLETED", "REVOKED"}
  BY RowsOf DEF Recheck, NextDocStatuses, Doc, DocStatuses
<1>2. NewDoc \in Doc /\ NewDoc.status = "PENDING" /\ NewDoc.outcome = None
  BY DEF Doc, DocStatuses, NewDoc
<1>3. /\ doc' = [doc EXCEPT ![t] = NewDoc] /\ task' = [task EXCEPT ![t] = s] /\ OneActive(task')
      /\ cycles' = [cycles EXCEPT ![t] = cycles[t]] /\ Recount /\ req' = req
      /\ moved' = IF task[t] = "COMPLETED" THEN moved \ {t} ELSE moved
  BY RowsOf DEF Recheck, ReopenTask, CommitTasks
<1>4. s \in Task /\ (s = "ABSENT" <=> task[t] = "ABSENT")
  BY ReopenedStatus, RowsOf
<1>5. Agree(NewDoc, s, cycles[t])
  BY <1>1, <1>2, <1>4, RowsOf DEF Agree
<1>6. t \notin moved' => Mirrors(s, NewDoc)
  <2>1. CASE task[t] = "COMPLETED"
    BY <1>2, <2>1, ReopenedStatus, RowsOf DEF Mirrors
  <2>2. CASE task[t] # "COMPLETED"
    BY <1>2, <1>3, <2>2, ReopenedStatus, RowsOf DEF Mirrors
  <2> QED BY <2>1, <2>2
<1> HIDE DEF s
<1> QED
  BY <1>2, <1>3, <1>4, <1>5, <1>6, OneTask, RequestsStay, RowsOf DEF CaseMoves

\* The cycle the append buries is completed, as the document is.
LEMMA ReverifyKeeps ==
  ASSUME KycInv, NEW t \in Tasks, NEW v \in Verifiers \cup {None}, Reverify(t, v)
  PROVE  KycInv' /\ HistoryFollows
<1> DEFINE n == Len(cycles[t])
           d == [status |-> "ASSIGNED", outcome |-> None]
           s == Reopened(task[t])
           c == NewCycle("KYC_REASSIGNED", v)
           cs == Append(cycles[t], c)
<1>1. doc[t].status = "COMPLETED" /\ n \in Nat \ {0} /\ cycles[t][n].status = "KYC_COMPLETED"
  BY RowsOf DEF Reverify, Reverifiable, Agree, Last
<1>2. d \in Doc /\ c \in Cycle /\ d.status = "ASSIGNED" /\ d.outcome = None
  BY DEF Doc, Cycle, DocStatuses, NewCycle
<1>3. /\ cs \in Seq(Cycle) /\ Len(cs) = n + 1
      /\ \A i \in 1..n : cs[i] = cycles[t][i]
  BY <1>2, RowsOf, AppendProperties
<1>4. /\ doc' = [doc EXCEPT ![t] = d] /\ task' = [task EXCEPT ![t] = s] /\ OneActive(task')
      /\ cycles' = [cycles EXCEPT ![t] = cs] /\ Recount /\ req' = req
      /\ moved' = IF task[t] = "COMPLETED" THEN moved \ {t} ELSE moved
  BY DEF Reverify, ReopenTask, CommitTasks, Extended
<1> HIDE DEF c, cs, d
<1>5. s \in Task /\ (s = "ABSENT" <=> task[t] = "ABSENT")
  BY ReopenedStatus, RowsOf
<1>6. \A i \in 1..n : cycles[t][i].status = "KYC_COMPLETED"
  BY <1>1, RowsOf DEF Agree
<1>7. Agree(d, s, cs)
  BY <1>1, <1>2, <1>3, <1>5, <1>6, RowsOf DEF Agree
<1>8. Follows(cycles[t], cs)
  BY <1>1, <1>3, <1>6 DEF Follows
<1>9. t \notin moved' => Mirrors(s, d)
  <2>1. CASE task[t] = "COMPLETED"
    BY <1>2, <2>1, ReopenedStatus, RowsOf DEF Mirrors
  <2>2. CASE task[t] # "COMPLETED"
    BY <1>1, <1>4, <2>2, RowsOf DEF Mirrors
  <2> QED BY <2>1, <2>2
<1> HIDE DEF s
<1> QED
  BY <1>2, <1>3, <1>4, <1>5, <1>7, <1>8, <1>9, OneTask, RequestsStay DEF CaseMoves
-----------------------------------------------------------------------------
(* Assignment and clones. *)

\* A request begins, at a step that needs a task that exists or none.
LEMMA RequestBegins ==
  ASSUME KycInv, NEW r \in Requests, NEW step, NEW t \in Tasks \cup {None},
         NEW who \in Verifiers \cup {None}, Begin(r, step, t, who),
         step \in {"assignTask", "clone", "recount"},
         step = "assignTask" => t \in Tasks /\ task'[t] # "ABSENT"
  PROVE  /\ RequestsMove /\ (Owed => Owed')
         /\ step = "recount" => Owed'
<1>1. req' = [req EXCEPT ![r] = [step |-> step, task |-> t, who |-> who]] /\ req[r] = Idle
  BY DEF Begin
<1>2. [step |-> step, task |-> t, who |-> who] \in Request
  BY DEF Request
<1>3. req' \in [Requests -> Request]
  BY <1>1, <1>2, RequestsIdle
<1>4. /\ \A q \in Requests : q # r => req'[q] = req[q]
      /\ req'[r] = [step |-> step, task |-> t, who |-> who]
  BY <1>1, RequestsIdle
<1>5. req[r].step # "recount"
  BY <1>1 DEF Idle
<1>6. req'[r].step = step /\ req'[r].task = t
  BY <1>4
<1>7. RequestsMove
  BY <1>3, <1>4, <1>6 DEF RequestsMove
<1>8. (Owed => Owed') /\ (step = "recount" => Owed')
  BY <1>4, <1>5, <1>6 DEF Owed
<1> QED BY <1>7, <1>8

LEMMA AssignDocKeeps ==
  ASSUME KycInv, NEW r \in Requests, NEW t \in Tasks, NEW v \in Verifiers, AssignDoc(r, t, v)
  PROVE  KycInv' /\ HistoryFollows
<1> DEFINE d == [doc[t] EXCEPT !.status = IF @ \in {"PENDING", "REVOKED"} THEN "ASSIGNED" ELSE @]
<1>1. doc[t].status # "ABSENT" /\ task[t] # "ABSENT"
  BY RowsOf DEF AssignDoc, Agree
<1>2. d \in Doc /\ d.outcome = doc[t].outcome
      /\ d.status = (IF doc[t].status \in {"PENDING", "REVOKED"} THEN "ASSIGNED" ELSE doc[t].status)
  BY RowsOf DEF Doc, DocStatuses
<1>3. /\ doc' = [doc EXCEPT ![t] = d] /\ task' = [task EXCEPT ![t] = task[t]] /\ task' = task
      /\ cycles' = [cycles EXCEPT ![t] = cycles[t]] /\ NoRecount /\ moved' = moved
  BY RowsOf DEF AssignDoc
<1> HIDE DEF d
<1>4. Agree(d, task[t], cycles[t]) /\ (t \notin moved => Mirrors(task[t], d))
  BY <1>1, <1>2, RowsOf DEF Agree, Mirrors
<1>5. RequestsMove /\ (Owed => Owed')
  BY <1>1, <1>3, RequestBegins DEF AssignDoc
<1>6. OneActive(task') /\ CaseMoves
  BY <1>3, <1>5 DEF KycInv, CaseMoves
<1> QED BY <1>2, <1>3, <1>4, <1>5, <1>6, OneTask, RowsOf

LEMMA AssignTaskKeeps ==
  ASSUME KycInv, NEW r \in Requests, AssignTask(r)
  PROVE  KycInv' /\ HistoryFollows
<1> DEFINE t == req[r].task
           s == IF ParentOpen(task[t]) THEN "ASSIGNED" ELSE task[t]
<1>1. t \in Tasks /\ task[t] # "ABSENT"
  BY DEF AssignTask, KycInv, RequestsNamed
<1>2. /\ s \in Task /\ s # "ABSENT"
      /\ s # task[t] => s = "ASSIGNED" /\ task[t] \notin {"COMPLETED", "REVOKED"}
  BY <1>1, RowsOf DEF Task, Statuses, ParentOpen
<1>3. /\ doc' = [doc EXCEPT ![t] = doc[t]] /\ task' = [task EXCEPT ![t] = s] /\ OneActive(task')
      /\ cycles' = [cycles EXCEPT ![t] = cycles[t]] /\ NoRecount /\ moved' = moved
  BY <1>1, RowsOf DEF AssignTask, CommitTasks
<1>4. req' = [req EXCEPT ![r].step = "assignCycle"] /\ req[r].step = "assignTask"
  BY DEF AssignTask
<1>5. task'[t] = s /\ \A u \in Tasks : u # t => task'[u] = task[u]
  BY <1>1, <1>3 DEF KycInv, KycTypeOK
<1>6. req' \in [Requests -> Request] /\ req'[r].task = t /\ req'[r].step = "assignCycle"
  BY <1>4, RequestsIdle DEF Request
<1>7. \A q \in Requests : q # r => req'[q] = req[q]
  BY <1>4, RequestsIdle
<1> HIDE DEF t, s
<1>8. RequestsMove /\ (Owed => Owed')
  BY <1>1, <1>2, <1>4, <1>5, <1>6, <1>7 DEF RequestsMove, Owed
<1>9. AllClosed(task') <=> AllClosed(task)
  BY <1>1, <1>2, <1>5 DEF AllClosed, Rows
<1>10. CaseMoves
  BY <1>3, <1>8, <1>9 DEF CaseMoves
<1>11. Agree(doc[t], s, cycles[t]) /\ (t \notin moved => Mirrors(s, doc[t]))
  BY <1>1, <1>2, RowsOf DEF Agree, Mirrors
<1>12. doc[t] \in Doc /\ cycles[t] \in Seq(Cycle) /\ Follows(cycles[t], cycles[t])
  BY <1>1, RowsOf
<1> QED
  BY <1>1, <1>2, <1>3, <1>8, <1>10, <1>11, <1>12, OneTask

LEMMA AssignCycleKeeps ==
  ASSUME KycInv, NEW r \in Requests, AssignCycle(r)
  PROVE  KycInv' /\ HistoryFollows
<1> DEFINE t == req[r].task
           n == Len(cycles[t])
           c == [cycles[t][n] EXCEPT !.verifier = req[r].who]
           cs == IF cycles[t][n].status # "KYC_COMPLETED"
                 THEN [cycles[t] EXCEPT ![n] = c] ELSE cycles[t]
<1>1. t \in Tasks /\ task[t] # "ABSENT" /\ req[r].who \in Verifiers \cup {None}
  BY DEF AssignCycle, KycInv, KycTypeOK, RequestsNamed, Request
<1>2. n \in Nat /\ n \in 1..n
  BY <1>1, RowsOf DEF Agree
<1>3. cycles[t][n] \in Cycle
  BY <1>1, <1>2, RowsOf, ElementOfSeq
<1>4. c \in Cycle /\ c.status = cycles[t][n].status
  BY <1>1, <1>3 DEF Cycle
<1>5. /\ cs \in Seq(Cycle) /\ Len(cs) = n
      /\ \A j \in 1..n : cs[j] = cycles[t][j]
           \/ (j = n /\ cycles[t][n].status # "KYC_COMPLETED" /\ cs[j] = c)
  BY <1>1, <1>2, <1>4, RowsOf, ExceptSeq
<1>6. /\ doc' = [doc EXCEPT ![t] = doc[t]] /\ task' = [task EXCEPT ![t] = task[t]] /\ task' = task
      /\ cycles' = [cycles EXCEPT ![t] = cs] /\ NoRecount /\ moved' = moved
  BY <1>1, RowsOf DEF AssignCycle
<1>7. RequestsMove /\ (Owed => Owed')
  BY RequestEnds DEF AssignCycle
<1> HIDE DEF t, c, cs
<1>8. Agree(doc[t], task[t], cs)
  BY <1>1, <1>2, <1>5, RowsOf DEF Agree, Last
<1>9. Follows(cycles[t], cs)
  BY <1>1, <1>2, <1>5, RowsOf DEF Follows, Agree
<1>10. OneActive(task') /\ CaseMoves
  BY <1>6, <1>7 DEF KycInv, CaseMoves
<1> QED
  BY <1>1, <1>5, <1>6, <1>7, <1>8, <1>9, <1>10, OneTask, RowsOf

LEMMA CloneTxKeeps ==
  ASSUME KycInv, NEW r \in Requests, NEW new \in Tasks, CloneTx(r, new)
  PROVE  KycInv' /\ HistoryFollows
<1> DEFINE v == req[r].who
           c == NewCycle("KYC_ASSIGNED", v)
           cs == <<c>>
<1>1. v \in Verifiers \cup {None}
  BY DEF KycInv, KycTypeOK, Request
<1>2. /\ NewDoc \in Doc /\ c \in Cycle /\ "ASSIGNED" \in Task
      /\ NewDoc.status = "PENDING" /\ NewDoc.outcome = None
  BY <1>1 DEF Doc, Task, Statuses, Cycle, DocStatuses, NewDoc, NewCycle
<1>3. cs \in Seq(Cycle) /\ Len(cs) = 1
  BY <1>2
<1>4. /\ doc' = [doc EXCEPT ![new] = NewDoc] /\ task' = [task EXCEPT ![new] = "ASSIGNED"]
      /\ OneActive(task') /\ cycles' = [cycles EXCEPT ![new] = cs] /\ Recount /\ Done(r)
      /\ moved' = moved
  BY DEF CloneTx, CommitTasks
<1>5. Len(cycles[new]) = 0
  BY RowsOf, EmptySeq DEF CloneTx, Agree
<1> HIDE DEF v, c, cs
<1>6. Agree(NewDoc, "ASSIGNED", cs) /\ Follows(cycles[new], cs) /\ Mirrors("ASSIGNED", NewDoc)
  BY <1>2, <1>3, <1>5 DEF Agree, Follows, Mirrors
<1> QED
  BY <1>2, <1>3, <1>4, <1>6, OneTask, RequestEnds DEF CaseMoves

\* A step that leaves the rows alone.
LEMMA RowsKept ==
  ASSUME KycInv, UNCHANGED <<doc, task, cycles, moved>>, CaseMoves, RequestsMove
  PROVE  KycInv' /\ HistoryFollows
<1>1. CaseInStep' /\ caseStatus' \in Statuses /\ drift' \in BOOLEAN
  BY CaseStays
<1>2. KycTypeOK' /\ Agreement' /\ InStep' /\ OneActive(task)'
  BY <1>1 DEF KycInv, KycTypeOK, Agreement, InStep, RequestsMove
<1>3. RequestsNamed'
  BY NamesStay
<1>4. HistoryFollows
  BY RowsOf DEF HistoryFollows
<1> QED BY <1>1, <1>2, <1>3, <1>4 DEF KycInv

LEMMA CloneReadKeeps ==
  ASSUME KycInv, NEW r \in Requests, NEW t \in Tasks, NEW v \in Verifiers, CloneRead(r, t, v)
  PROVE  KycInv' /\ HistoryFollows
<1>1. RequestsMove /\ (Owed => Owed')
  BY RequestBegins DEF CloneRead
<1> QED BY <1>1, RowsKept DEF CloneRead, CaseMoves

LEMMA GiveUpKeeps ==
  ASSUME KycInv, NEW r \in Requests, GiveUp(r)
  PROVE  KycInv' /\ HistoryFollows
<1>1. RequestsMove /\ (req[r].step # "recount" => (Owed => Owed'))
  BY RequestEnds DEF GiveUp
<1>2. caseStatus \in Statuses /\ drift \in BOOLEAN
  BY DEF KycInv, KycTypeOK
<1>3. CASE req[r].step = "recount"
  BY <1>1, <1>2, <1>3, RowsKept DEF GiveUp, CaseMoves
<1>4. CASE req[r].step # "recount"
  <2>1. drift' = drift
    BY <1>2, <1>4, Zenon DEF GiveUp
  <2> QED BY <1>1, <1>4, <2>1, RowsKept DEF GiveUp, CaseMoves, NoRecount
<1> QED BY <1>3, <1>4

LEMMA RecountOwedKeeps ==
  ASSUME KycInv, NEW r \in Requests, RecountOwed(r)
  PROVE  KycInv' /\ HistoryFollows
BY RequestEnds, RowsKept DEF RecountOwed, CaseMoves
-----------------------------------------------------------------------------
(* The field endpoints. *)

\* The statuses they write.
LEMMA MovedRows ==
  ASSUME KycInv, NEW t \in Tasks, task[t] # "ABSENT", NEW s \in Statuses
  PROVE  /\ MovedTo(t, s) \in [Tasks -> Task]
         /\ \A u \in Tasks : MovedTo(t, s)[u] = "ABSENT" <=> task[u] = "ABSENT"
BY DEF MovedTo, KycInv, KycTypeOK, Task, Statuses

LEMMA AssignedRows ==
  ASSUME KycInv, NEW chosen \in SUBSET Rows(task),
         NEW tk, tk = [t \in Tasks |-> IF t \in chosen THEN "ASSIGNED" ELSE task[t]]
  PROVE  /\ tk \in [Tasks -> Task]
         /\ \A u \in Tasks : tk[u] = "ABSENT" <=> task[u] = "ABSENT"
BY DEF Rows, KycInv, KycTypeOK, Task, Statuses

LEMMA Owing ==
  ASSUME KycInv, NEW r \in Requests, OwingRecount(r)
  PROVE  CaseMoves /\ RequestsMove
BY RequestBegins DEF OwingRecount, CaseMoves

\* Those that recount, in their transaction or after it.
LEMMA MovingKeeps ==
  ASSUME KycInv, NEW t \in Tasks, task[t] # "ABSENT", NEW s \in Statuses,
         FieldCommit(MovedTo(t, s)),
         (Recount /\ req' = req) \/ \E r \in Requests : OwingRecount(r)
  PROVE  KycInv' /\ HistoryFollows
<1>1. CaseMoves /\ RequestsMove
  BY Owing, RequestsStay DEF CaseMoves
<1> QED BY <1>1, MovedRows, FieldKeeps

LEMMA BulkAssignKeeps ==
  ASSUME KycInv, NEW chosen \in SUBSET Tasks, BulkAssign(chosen)
  PROVE  KycInv' /\ HistoryFollows
<1> DEFINE hit == {t \in chosen : task[t] \in {"PENDING", "ASSIGNED"}}
           tk == [t \in Tasks |-> IF t \in hit THEN "ASSIGNED" ELSE task[t]]
<1>1. FieldCommit(tk) /\ Recount /\ req' = req
  BY DEF BulkAssign
<1>2. hit \in SUBSET Rows(task)
  BY DEF Rows
<1> HIDE DEF hit
<1>3. tk \in [Tasks -> Task] /\ \A u \in Tasks : tk[u] = "ABSENT" <=> task[u] = "ABSENT"
  BY <1>2, AssignedRows
<1> HIDE DEF tk
<1> QED BY <1>1, <1>3, FieldKeeps, RequestsStay DEF CaseMoves

\* A status that is written past the recount, or a task, makes a drift.
LEMMA BypassingMoves ==
  ASSUME KycInv, Bypassing, caseStatus' \in Statuses, req' = req
  PROVE  CaseMoves
<1>1. drift \in BOOLEAN
  BY DEF KycInv, KycTypeOK
<1>2. CASE <<task', caseStatus'>> # <<task, caseStatus>>
  <2>1. drift' = TRUE
    BY <1>2 DEF Bypassing
  <2> QED BY <2>1 DEF CaseMoves
<1>3. CASE <<task', caseStatus'>> = <<task, caseStatus>>
  <2>1. drift' = drift
    BY <1>1, <1>3, Zenon DEF Bypassing
  <2> QED BY <1>3, <2>1, RequestsStay DEF CaseMoves, NoRecount
<1> QED BY <1>2, <1>3

LEMMA EditCaseAssignKeeps ==
  ASSUME KycInv, NEW chosen \in SUBSET Tasks, EditCaseAssign(chosen)
  PROVE  KycInv' /\ HistoryFollows
<1> DEFINE tk == [t \in Tasks |-> IF t \in chosen THEN "ASSIGNED" ELSE task[t]]
<1>1. FieldCommit(tk) /\ Bypassing /\ caseStatus' = caseStatus /\ req' = req
  BY DEF EditCaseAssign
<1>2. tk \in [Tasks -> Task] /\ \A u \in Tasks : tk[u] = "ABSENT" <=> task[u] = "ABSENT"
  BY AssignedRows DEF EditCaseAssign
<1> HIDE DEF tk
<1>3. CaseMoves
  BY <1>1, BypassingMoves DEF KycInv, KycTypeOK
<1> QED BY <1>1, <1>2, <1>3, FieldKeeps, RequestsStay

LEMMA SyncCaseChangeKeeps ==
  ASSUME KycInv, NEW s \in CaseChanges, SyncCaseChange(s)
  PROVE  KycInv' /\ HistoryFollows
<1>1. caseStatus' \in Statuses /\ req' = req /\ UNCHANGED <<doc, task, cycles, moved>> /\ Bypassing
  BY KycAssumptions DEF SyncCaseChange
<1>2. CaseMoves /\ RequestsMove
  BY <1>1, BypassingMoves, RequestsStay
<1> QED BY <1>1, <1>2, RowsKept

\* A field step is one of these, and writes no document and no cycle.
LEMMA FieldStepKinds ==
  ASSUME KycInv, FieldStep
  PROVE  \/ \E t \in Tasks, s \in Statuses :
              /\ task[t] # "ABSENT" /\ FieldCommit(MovedTo(t, s))
              /\ (Recount /\ req' = req) \/ \E r \in Requests : OwingRecount(r)
         \/ \E chosen \in SUBSET Tasks : BulkAssign(chosen) \/ EditCaseAssign(chosen)
         \/ \E s \in CaseChanges : SyncCaseChange(s)
<1>1. CASE \E t \in Tasks : FieldStart(t)
  BY <1>1 DEF FieldStart, Statuses
<1>2. ASSUME NEW t \in Tasks, SyncStart(t)
      PROVE  \E s \in Statuses :
               /\ task[t] # "ABSENT" /\ FieldCommit(MovedTo(t, s)) /\ Recount /\ req' = req
  <2>1. task[t] \in Statuses /\ task[t] # "ABSENT"
    BY <1>2, RowsOf DEF SyncStart, Rows, Task
  <2>2. CASE task[t] = "ASSIGNED"
    BY <1>2, <2>1, <2>2 DEF SyncStart, Statuses
  <2>3. CASE task[t] # "ASSIGNED"
    <3>1. task = MovedTo(t, task[t])
      BY RowsOf DEF MovedTo
    <3> QED BY <1>2, <2>1, <2>3, <3>1 DEF SyncStart
  <2> QED BY <2>2, <2>3
<1>3. CASE \E t \in Tasks : \E s \in Submitted : Submit(t, s)
  BY <1>3 DEF Submit, Submitted, Statuses
<1>4. ASSUME NEW t \in Tasks, NEW r \in Requests,
             \/ FieldAssign(r, t) \/ FinalizeReview(r, t)
             \/ \E s \in Submitted : Complete(r, t, s)
             \/ \E s \in Statuses : FieldUpdate(r, t, s)
      PROVE  \E s \in Statuses :
               task[t] # "ABSENT" /\ FieldCommit(MovedTo(t, s)) /\ OwingRecount(r)
  BY <1>4 DEF FieldAssign, FinalizeReview, Complete, FieldUpdate, Submitted, Statuses, Rows
<1> QED BY <1>1, <1>2, <1>3, <1>4 DEF FieldStep

LEMMA FieldStepKeeps ==
  ASSUME KycInv, FieldStep
  PROVE  KycInv' /\ HistoryFollows
BY FieldStepKinds, MovingKeeps, BulkAssignKeeps, EditCaseAssignKeeps, SyncCaseChangeKeeps
-----------------------------------------------------------------------------
LEMMA KycStep ==
  ASSUME KycInv, [KycNext]_kycVars
  PROVE  KycInv' /\ HistoryFollows
<1>1. CASE Decide
  BY <1>1, VerifyKeeps, StartKeeps, RevokeKeeps, RecheckKeeps, ReverifyKeeps DEF Decide
<1>2. ASSUME NEW r \in Requests, Step(r) PROVE KycInv' /\ HistoryFollows
  BY <1>2, AssignDocKeeps, AssignTaskKeeps, AssignCycleKeeps, CloneReadKeeps, CloneTxKeeps,
     GiveUpKeeps DEF Step
<1>3. CASE UNCHANGED kycVars
  <2>1. UNCHANGED <<doc, task, cycles, moved>> /\ NoRecount /\ req' = req
    BY <1>3 DEF kycVars, NoRecount
  <2>2. CaseMoves /\ RequestsMove
    BY <2>1, RequestsStay DEF CaseMoves
  <2> QED BY <2>1, <2>2, RowsKept
<1> QED BY <1>1, <1>2, <1>3, FieldStepKeeps, RecountOwedKeeps DEF KycNext

LEMMA KycInitial == KycInit => KycInv
<1> SUFFICES ASSUME KycInit PROVE KycInv
  OBVIOUS
<1>1. PICK t \in Tasks, v \in Verifiers :
        /\ doc = [u \in Tasks |-> IF u = t THEN NewDoc ELSE NoDoc]
        /\ task = [u \in Tasks |-> IF u = t THEN "ASSIGNED" ELSE "ABSENT"]
        /\ cycles = [u \in Tasks |-> IF u = t THEN <<NewCycle("KYC_ASSIGNED", v)>> ELSE <<>>]
  BY DEF KycInit
<1>2. NewDoc \in Doc /\ NoDoc \in Doc /\ {"ASSIGNED", "ABSENT"} \subseteq Task
      /\ NewCycle("KYC_ASSIGNED", v) \in Cycle
  BY DEF Doc, Task, Statuses, Cycle, DocStatuses, NewDoc, NewCycle, NoDoc
<1>3. <<NewCycle("KYC_ASSIGNED", v)>> \in Seq(Cycle) /\ <<>> \in Seq(Cycle)
  BY <1>2
<1>4. KycTypeOK
  BY <1>1, <1>2, <1>3 DEF KycTypeOK, KycInit, Idle, Request, Statuses
<1>5. Agreement
  <2>1. Agree(NewDoc, "ASSIGNED", <<NewCycle("KYC_ASSIGNED", v)>>)
    BY DEF Agree, NewDoc
  <2>2. Agree(NoDoc, "ABSENT", <<>>)
    BY DEF Agree, NoDoc
  <2> QED BY <1>1, <2>1, <2>2 DEF Agreement
<1>6. InStep /\ OneActive(task)
  BY <1>1 DEF InStep, Mirrors, NewDoc, NoDoc, OneActive, Active, ActiveStatuses
<1>7. RequestsNamed
  BY DEF KycInit, RequestsNamed, Idle
<1>8. CaseInStep
  BY <1>1 DEF CaseInStep, AllClosed, Rows, KycInit
<1> QED BY <1>4, <1>5, <1>6, <1>7, <1>8 DEF KycInv

\* The inductive invariant holds in every state of the documents.
THEOREM KycInvHolds == KycSpec => []KycInv
<1>1. KycInv /\ [KycNext]_kycVars => KycInv'
  BY KycStep
<1> QED BY <1>1, KycInitial, PTL DEF KycSpec

\* The rows of the documents, tasks and cycles keep their shape.
THEOREM KycTyped == KycSpec => []KycTypeOK
<1>1. KycInv => KycTypeOK
  BY DEF KycInv
<1> QED BY <1>1, KycInvHolds, PTL

\* The latest cycle of a completed document is completed with its outcome,
\* whoever moves its task, and its task is completed exactly when it is unless
\* a field endpoint moved it.
THEOREM DecisionsAreRecorded == KycSpec => []DecisionRecorded
<1>1. KycInv => DecisionRecorded
  BY DEF KycInv, Agreement, Agree, InStep, Mirrors, DecisionRecorded, Rows
<1> QED BY <1>1, KycInvHolds, PTL

LEMMA SettledIsClosed ==
  ASSUME KycInv, NEW t \in Rows(task)
  PROVE  Settled(t) <=> task[t] \in {"COMPLETED", "REVOKED"}
BY DEF KycInv, InStep, Mirrors, Settled, Rows

\* Unless a recount is owed or lost, or the case was written past it, a case
\* is completed exactly when its documents are settled and not all revoked.
THEOREM CasesFollowDocuments == KycSpec => []CaseFollowsDocuments
<1>1. KycInv => CaseFollowsDocuments
  BY SettledIsClosed DEF KycInv, CaseInStep, Owed, AllClosed, CaseFollowsDocuments
<1> QED BY <1>1, KycInvHolds, PTL

\* No step buries an open cycle, or changes a cycle but the latest.
THEOREM HistoryIsKept == KycSpec => HistoryKept
<1>1. KycInv /\ [KycNext]_kycVars =>
        [\A t \in Tasks : \A i \in 1..(Len(cycles'[t]) - 1) :
           cycles'[t][i] = cycles[t][i] /\ cycles'[t][i].status = "KYC_COMPLETED"]_cycles
  BY KycStep DEF HistoryFollows, Follows
<1> QED BY <1>1, KycInvHolds, PTL DEF KycSpec, HistoryKept
-----------------------------------------------------------------------------
(* The decisions of KycDecisions.  A step either leaves what the tables say *)
(* of the decisions alone, and disturbs documents at most, or is one of its *)
(* four other actions.  That one undisturbed document at most waits is what *)
(* the unique index makes of InStep.                                        *)

LEMMA OneWaitsHolds == KycInv => Decisions!OneWaits
<1> SUFFICES ASSUME KycInv PROVE Decisions!OneWaits
  OBVIOUS
<1>1. \A t \in Decisions!Waiting : t \in Active(task)
  <2> SUFFICES ASSUME NEW t \in Decisions!Waiting PROVE t \in Active(task)
    OBVIOUS
  <2>1. t \in Tasks /\ task[t] # "ABSENT" /\ t \notin moved /\ doc[t].outcome = None
    BY DEF Decisions!Waiting, Rows, Decision
  <2>2. doc[t].status # "COMPLETED" /\ Mirrors(task[t], doc[t])
    BY <2>1, RowsOf DEF Agree
  <2>3. task[t] \in {"ASSIGNED", "IN_PROGRESS"}
    BY <2>1, <2>2 DEF Mirrors
  <2> QED BY <2>1, <2>3 DEF Active, ActiveStatuses
<1> QED BY <1>1 DEF Decisions!OneWaits, OneActive, KycInv

LEMMA OneWaitsNext == KycInv' => Decisions!OneWaits'
BY OneWaitsHolds, PTL

\* Only a longer list of cycles has more history.
LEMMA HistoryStays ==
  ASSUME KycInv, HistoryFollows, \A t \in Tasks : 1..(Len(cycles'[t]) - 1) = 1..(Len(cycles[t]) - 1)
  PROVE  History' = History
BY DEF History, HistoryFollows, Follows

LEMMA Disturbs ==
  ASSUME KycInv, HistoryFollows, Rows(task') = Rows(task), moved \subseteq moved',
         \A t \in Tasks : doc'[t].outcome = doc[t].outcome,
         \A t \in Tasks : Len(cycles'[t]) = Len(cycles[t])
  PROVE  Decisions!Disturb
<1>1. Decision' = Decision
  BY DEF Decision
<1>2. History' = History
  BY HistoryStays
<1> QED BY <1>1, <1>2 DEF Decisions!Disturb

\* The documents of the case stay the same where a task keeps its row.
LEMMA RowsStay ==
  ASSUME KycInv, NEW t \in Tasks, NEW s, task' = [task EXCEPT ![t] = s],
         s = "ABSENT" <=> task[t] = "ABSENT"
  PROVE  Rows(task') = Rows(task)
BY DEF Rows, KycInv, KycTypeOK

LEMMA VerifyDecides ==
  ASSUME KycInv, HistoryFollows, NEW t \in Tasks, NEW outcome \in Outcomes,
         Verify(t, outcome)
  PROVE  Decisions!Decide(t, outcome)
<1> DEFINE n == Len(cycles[t])
           d == [doc[t] EXCEPT !.status = "COMPLETED", !.outcome = outcome]
           c == [cycles[t][n] EXCEPT !.status = "KYC_COMPLETED", !.outcome = outcome]
           cs == [cycles[t] EXCEPT ![n] = c]
<1>1. doc[t].status # "ABSENT" /\ task[t] # "ABSENT" /\ doc[t].outcome = None
  <2>1. doc[t].status # "ABSENT" /\ doc[t].status # "COMPLETED"
    BY DEF Verify, Verifiable, IsEditable, LockedStatuses
  <2> QED BY <2>1, RowsOf DEF Agree
<1>2. d.outcome = outcome /\ Len(cs) = n
  BY RowsOf DEF Doc
<1>3. /\ doc' = [doc EXCEPT ![t] = d] /\ task' = [task EXCEPT ![t] = "COMPLETED"]
      /\ cycles' = [cycles EXCEPT ![t] = cs] /\ moved' = moved \ {t}
  BY DEF Verify
<1> HIDE DEF d, cs
<1>4. Rows(task') = Rows(task) /\ t \in Rows(task)
  BY <1>1, <1>3, RowsStay DEF Rows
<1>5. Decision[t] = None /\ Decision' = [Decision EXCEPT ![t] = outcome]
  BY <1>1, <1>2, <1>3 DEF Decision, KycInv, KycTypeOK
<1>6. \A u \in Tasks : Len(cycles'[u]) = Len(cycles[u])
  BY <1>2, <1>3 DEF KycInv, KycTypeOK
<1>7. History' = History
  BY <1>6, HistoryStays
<1> QED BY <1>3, <1>4, <1>5, <1>7 DEF Decisions!Decide

LEMMA StartDisturbs ==
  ASSUME KycInv, HistoryFollows, NEW t \in Tasks, Start(t) \/ Revoke(t)
  PROVE  Decisions!Disturb
<1>1. \A u \in Tasks : doc'[u].outcome = doc[u].outcome
  <2>1. CASE Start(t)
    BY <2>1, RowsOf DEF Start, KycInv, KycTypeOK, Doc
  <2>2. CASE Revoke(t)
    BY <2>2, RowsOf DEF Revoke, KycInv, KycTypeOK, Doc
  <2> QED BY <2>1, <2>2
<1>2. cycles' = cycles /\ moved' = moved
  BY DEF Start, Revoke
<1>3. Rows(task') = Rows(task)
  <2>1. CASE Revoke(t)
    BY <2>1 DEF Revoke
  <2>2. CASE Start(t)
    BY <2>2, RowsStay, HoppedStatus, RowsOf DEF Start, CommitTasks
  <2> QED BY <2>1, <2>2
<1> QED BY <1>1, <1>2, <1>3, Disturbs

\* What a recheck and a reverification make of the task.
LEMMA ReopenTakesUp ==
  ASSUME KycInv, NEW t \in Tasks, doc[t].status # "ABSENT", ReopenTask(t)
  PROVE  Rows(task') = Rows(task) /\ t \in Rows(task) /\ Decisions!TakenUp(t)
<1>1. task[t] # "ABSENT"
  BY RowsOf DEF Agree
<1>2. Rows(task') = Rows(task)
  BY ReopenedStatus, RowsOf, RowsStay DEF ReopenTask, CommitTasks
<1>3. Decisions!TakenUp(t)
  BY DEF ReopenTask, Decisions!TakenUp
<1> QED BY <1>1, <1>2, <1>3 DEF Rows

LEMMA RecheckWithdraws ==
  ASSUME KycInv, NEW t \in Tasks, Recheck(t)
  PROVE  Decisions!Withdraw(t)
<1>1. doc[t].status # "ABSENT"
  BY RowsOf DEF Recheck, NextDocStatuses, Doc, DocStatuses
<1>2. doc' = [doc EXCEPT ![t] = NewDoc] /\ ReopenTask(t) /\ cycles' = cycles
  BY DEF Recheck
<1>3. Decision' = [Decision EXCEPT ![t] = None]
  BY <1>2 DEF Decision, NewDoc, KycInv, KycTypeOK
<1>4. History' = History
  BY <1>2 DEF History
<1> QED BY <1>1, <1>2, <1>3, <1>4, ReopenTakesUp DEF Decisions!Withdraw

LEMMA AppendedIs ==
  ASSUME NEW S, NEW old \in Seq(S), NEW new \in Seq(S), NEW e \in S,
         Len(new) = Len(old) + 1,
         \A i \in 1..Len(old) : new[i] = old[i], new[Len(old) + 1] = e
  PROVE  new = Append(old, e)
<1> DEFINE app == Append(old, e)
<1>1. /\ app \in Seq(S) /\ Len(app) = Len(old) + 1
      /\ \A i \in 1..Len(old) : app[i] = old[i]
      /\ app[Len(old) + 1] = e
  BY AppendProperties
<1>2. Len(old) \in Nat
  BY LenProperties
<1> HIDE DEF app
<1>3. \A i \in 1..Len(new) : new[i] = app[i]
  BY <1>1, <1>2
<1>4. new = app
  BY <1>1, <1>3, SeqEqual
<1> QED BY <1>4 DEF app

\* The history of a task after an append is the old one and the outcome of the
\* cycle that was the latest.
LEMMA HistoryAppended ==
  ASSUME NEW cs \in Seq(Cycle), NEW c \in Cycle, Len(cs) \in Nat \ {0},
         NEW old, old = [i \in 1..(Len(cs) - 1) |-> cs[i].outcome],
         NEW new, new = [i \in 1..(Len(Append(cs, c)) - 1) |-> Append(cs, c)[i].outcome]
  PROVE  new = Append(old, Last(cs).outcome)
<1> DEFINE n == Len(cs)
           S == Outcomes \cup {None}
<1>1. \A i \in 1..n : cs[i] \in Cycle /\ cs[i].outcome \in S
  <2>1. \A i \in 1..n : cs[i] \in Cycle
    BY ElementOfSeq
  <2> QED BY <2>1 DEF Cycle
<1>2. Len(Append(cs, c)) = n + 1 /\ \A i \in 1..n : Append(cs, c)[i] = cs[i]
  BY AppendProperties
<1>3. new = [i \in 1..n |-> cs[i].outcome]
  BY <1>2
<1>4. old \in Seq(S) /\ new \in Seq(S) /\ Len(old) = n - 1 /\ Len(new) = n
  BY <1>1, <1>3
<1>5. Last(cs).outcome \in S /\ Last(cs) = cs[n]
  BY <1>1 DEF Last
<1>6. /\ Len(new) = Len(old) + 1
      /\ \A i \in 1..Len(old) : new[i] = old[i]
      /\ new[Len(old) + 1] = Last(cs).outcome
  BY <1>3, <1>4, <1>5
<1> QED BY <1>4, <1>5, <1>6, AppendedIs

LEMMA ReverifyRenews ==
  ASSUME KycInv, NEW t \in Tasks, NEW v \in Verifiers \cup {None}, Reverify(t, v)
  PROVE  Decisions!Renew(t)
<1> DEFINE d == [status |-> "ASSIGNED", outcome |-> None]
           c == NewCycle("KYC_REASSIGNED", v)
<1>1. /\ doc[t].status = "COMPLETED" /\ doc[t].outcome # None
      /\ Len(cycles[t]) \in Nat \ {0} /\ Last(cycles[t]).outcome = doc[t].outcome
  BY RowsOf DEF Reverify, Reverifiable, Agree
<1>2. /\ doc' = [doc EXCEPT ![t] = d] /\ ReopenTask(t)
      /\ cycles' = [cycles EXCEPT ![t] = Append(@, c)]
  BY DEF Reverify, Extended
<1>3. Rows(task') = Rows(task) /\ t \in Rows(task) /\ Decisions!TakenUp(t)
  BY <1>1, <1>2, ReopenTakesUp
<1>4. Decision' = [Decision EXCEPT ![t] = None] /\ Decision[t] = doc[t].outcome
  BY <1>2 DEF Decision, KycInv, KycTypeOK
<1>5. History' = [History EXCEPT ![t] = Append(@, Decision[t])]
  <2>1. c \in Cycle
    BY DEF Cycle, NewCycle
  <2> HIDE DEF c
  <2>2. cycles'[t] = Append(cycles[t], c) /\ \A u \in Tasks : u # t => cycles'[u] = cycles[u]
    BY <1>2 DEF KycInv, KycTypeOK
  <2>3. History'[t] = Append(History[t], Last(cycles[t]).outcome)
    <3> DEFINE old == History[t]
               new == History'[t]
    <3>1. old = [i \in 1..(Len(cycles[t]) - 1) |-> cycles[t][i].outcome]
      BY DEF History
    <3>2. new = [i \in 1..(Len(Append(cycles[t], c)) - 1) |-> Append(cycles[t], c)[i].outcome]
      BY <2>2 DEF History
    <3> HIDE DEF old, new
    <3>3. cycles[t] \in Seq(Cycle) /\ Len(cycles[t]) \in Nat \ {0}
      BY <1>1, RowsOf
    <3>4. new = Append(old, Last(cycles[t]).outcome)
      BY <2>1, <3>1, <3>2, <3>3, HistoryAppended
    <3> QED BY <3>4 DEF old, new
  <2>4. \A u \in Tasks : u # t => History'[u] = History[u]
    BY <2>2 DEF History
  <2> QED BY <1>1, <1>4, <2>3, <2>4 DEF History
<1> QED BY <1>1, <1>3, <1>4, <1>5 DEF Decisions!Renew

LEMMA AssignDisturbs ==
  ASSUME KycInv, HistoryFollows, NEW r \in Requests,
         \/ \E t \in Tasks, v \in Verifiers : AssignDoc(r, t, v)
         \/ AssignTask(r) \/ AssignCycle(r)
  PROVE  Decisions!Disturb
<1>1. CASE \E t \in Tasks, v \in Verifiers : AssignDoc(r, t, v)
  <2>1. \A u \in Tasks : doc'[u].outcome = doc[u].outcome
    BY <1>1 DEF AssignDoc, KycInv, KycTypeOK, Doc
  <2>2. task' = task /\ cycles' = cycles /\ moved' = moved
    BY <1>1 DEF AssignDoc
  <2> QED BY <2>1, <2>2, Disturbs
<1>2. CASE AssignTask(r)
  <2> DEFINE t == req[r].task
             s == IF ParentOpen(task[t]) THEN "ASSIGNED" ELSE task[t]
  <2>1. t \in Tasks /\ task[t] # "ABSENT"
    BY <1>2 DEF AssignTask, KycInv, RequestsNamed
  <2>2. task' = [task EXCEPT ![t] = s] /\ doc' = doc /\ cycles' = cycles /\ moved' = moved
    BY <1>2 DEF AssignTask, CommitTasks
  <2>3. s # "ABSENT"
    BY <2>1
  <2> HIDE DEF s, t
  <2>4. Rows(task') = Rows(task)
    BY <2>1, <2>2, <2>3, RowsStay
  <2> QED BY <2>2, <2>4, Disturbs
<1>3. CASE AssignCycle(r)
  <2>1. doc' = doc /\ task' = task /\ moved' = moved
    BY <1>3 DEF AssignCycle
  <2>2. \A u \in Tasks : Len(cycles'[u]) = Len(cycles[u])
    <3>1. req[r].task \in Tasks
      BY <1>3 DEF AssignCycle, KycInv, RequestsNamed
    <3> DEFINE t == req[r].task
               n == Len(cycles[t])
               named == [cycles[t] EXCEPT ![n].verifier = req[r].who]
    <3>2. Len(named) = n
      BY <3>1, RowsOf
    <3>3. cycles' = [cycles EXCEPT ![t] = named] \/ cycles' = cycles
      BY <1>3, <3>1, RowsOf DEF AssignCycle
    <3> HIDE DEF named
    <3> QED BY <3>1, <3>2, <3>3 DEF KycInv, KycTypeOK
  <2> QED BY <2>1, <2>2, Disturbs
<1> QED BY <1>1, <1>2, <1>3

LEMMA CloneAdds ==
  ASSUME KycInv, HistoryFollows, NEW r \in Requests, NEW new \in Tasks, CloneTx(r, new)
  PROVE  Decisions!Add(new)
<1> DEFINE v == req[r].who
           cs == <<NewCycle("KYC_ASSIGNED", v)>>
<1>1. /\ doc' = [doc EXCEPT ![new] = NewDoc] /\ task' = [task EXCEPT ![new] = "ASSIGNED"]
      /\ cycles' = [cycles EXCEPT ![new] = cs] /\ task[new] = "ABSENT" /\ moved' = moved
  BY DEF CloneTx, CommitTasks
<1>2. new \notin Rows(task) /\ Rows(task') = Rows(task) \cup {new}
  BY <1>1 DEF Rows, KycInv, KycTypeOK
<1>3. doc[new].outcome = None /\ Len(cycles[new]) = 0
  BY <1>1, RowsOf, EmptySeq DEF Agree
<1>4. Decision' = Decision
  BY <1>1, <1>3 DEF Decision, NewDoc, KycInv, KycTypeOK
<1>5. Len(cs) = 1
  OBVIOUS
<1> HIDE DEF cs
<1>6. \A u \in Tasks : 1..(Len(cycles'[u]) - 1) = 1..(Len(cycles[u]) - 1)
  <2>1. cycles'[new] = cs /\ \A u \in Tasks : u # new => cycles'[u] = cycles[u]
    BY <1>1 DEF KycInv, KycTypeOK
  <2>2. Len(cycles'[new]) = 1
    BY <1>5, <2>1
  <2>3. 1..(Len(cycles'[new]) - 1) = {} /\ 1..(Len(cycles[new]) - 1) = {}
    BY <1>3, <2>2
  <2> QED BY <2>1, <2>3
<1>7. History' = History
  BY <1>6, HistoryStays
<1> QED BY <1>1, <1>2, <1>4, <1>7 DEF Decisions!Add

\* Whatever the field endpoints do to tasks and case, they decide nothing.
LEMMA FieldDisturbs ==
  ASSUME KycInv, HistoryFollows, FieldStep
  PROVE  Decisions!Disturb
<1>1. \A tk : FieldCommit(tk) =>
        task' = tk /\ doc' = doc /\ cycles' = cycles /\ moved \subseteq moved'
  BY DEF FieldCommit, CommitTasks
<1>2. ASSUME NEW t \in Tasks, NEW s \in Statuses, task[t] # "ABSENT",
             FieldCommit(MovedTo(t, s))
      PROVE  Decisions!Disturb
  <2>1. s # "ABSENT" /\ task' = [task EXCEPT ![t] = s]
    BY <1>1, <1>2 DEF Statuses, MovedTo
  <2> QED BY <1>1, <1>2, <2>1, RowsStay, Disturbs
<1>3. ASSUME NEW chosen \in SUBSET Tasks, BulkAssign(chosen) \/ EditCaseAssign(chosen)
      PROVE  Decisions!Disturb
  <2>1. PICK hit \in SUBSET Rows(task) :
          FieldCommit([u \in Tasks |-> IF u \in hit THEN "ASSIGNED" ELSE task[u]])
    <3>1. CASE BulkAssign(chosen)
      <4> DEFINE hit == {t \in chosen : task[t] \in {"PENDING", "ASSIGNED"}}
      <4>1. hit \in SUBSET Rows(task)
        BY DEF Rows
      <4>2. FieldCommit([u \in Tasks |-> IF u \in hit THEN "ASSIGNED" ELSE task[u]])
        BY <3>1 DEF BulkAssign
      <4> QED BY <4>1, <4>2
    <3>2. CASE EditCaseAssign(chosen)
      BY <3>2 DEF EditCaseAssign
    <3> QED BY <1>3, <3>1, <3>2
  <2>2. task' = [u \in Tasks |-> IF u \in hit THEN "ASSIGNED" ELSE task[u]]
    BY <1>1, <2>1
  <2>3. Rows(task') = Rows(task)
    BY <2>2 DEF Rows
  <2> QED BY <1>1, <2>1, <2>3, Disturbs
<1>4. CASE \E s \in CaseChanges : SyncCaseChange(s)
  BY <1>4, Disturbs DEF SyncCaseChange
<1> QED BY <1>2, <1>3, <1>4, FieldStepKinds

LEMMA DecisionsStep ==
  ASSUME KycInv, [KycNext]_kycVars
  PROVE  [Decisions!Next]_(Decisions!vars)
<1>1. HistoryFollows /\ Decisions!OneWaits'
  BY KycStep, OneWaitsNext
<1>2. ASSUME Decisions!Disturb \/ \E t \in Tasks :
               \/ \E outcome \in Outcomes : Decisions!Decide(t, outcome)
               \/ Decisions!Withdraw(t) \/ Decisions!Renew(t) \/ Decisions!Add(t)
      PROVE  Decisions!Next
  BY <1>1, <1>2 DEF Decisions!Next
<1>3. CASE Decide
  BY <1>1, <1>2, <1>3, VerifyDecides, StartDisturbs, RecheckWithdraws, ReverifyRenews DEF Decide
<1>4. ASSUME NEW r \in Requests, Step(r) \/ RecountOwed(r) PROVE Decisions!Next
  <2>1. CASE RecountOwed(r) \/ GiveUp(r) \/ \E t \in Tasks, v \in Verifiers : CloneRead(r, t, v)
    BY <1>1, <1>2, <2>1, Disturbs DEF RecountOwed, GiveUp, CloneRead
  <2>2. CASE \E new \in Tasks : CloneTx(r, new)
    BY <1>1, <1>2, <2>2, CloneAdds
  <2> QED BY <1>1, <1>2, <1>4, <2>1, <2>2, AssignDisturbs DEF Step
<1>5. CASE FieldStep
  BY <1>1, <1>2, <1>5, FieldDisturbs
<1>6. CASE UNCHANGED kycVars
  <2>1. Decision' = Decision /\ History' = History /\ Rows(task') = Rows(task) /\ moved' = moved
    BY <1>6 DEF kycVars, Decision, History
  <2> QED BY <2>1 DEF Decisions!vars
<1> QED BY <1>3, <1>4, <1>5, <1>6 DEF KycNext

LEMMA DecisionsInitial == KycInit => Decisions!Init
<1> SUFFICES ASSUME KycInit PROVE Decisions!Init
  OBVIOUS
<1>1. PICK t \in Tasks, v \in Verifiers :
        /\ doc = [u \in Tasks |-> IF u = t THEN NewDoc ELSE NoDoc]
        /\ task = [u \in Tasks |-> IF u = t THEN "ASSIGNED" ELSE "ABSENT"]
        /\ cycles = [u \in Tasks |-> IF u = t THEN <<NewCycle("KYC_ASSIGNED", v)>> ELSE <<>>]
  BY DEF KycInit
<1>2. Rows(task) = {t}
  BY <1>1 DEF Rows
<1>3. Decision = [u \in Tasks |-> None]
  BY <1>1 DEF Decision, NewDoc, NoDoc
<1>4. History = [u \in Tasks |-> <<>>]
  <2> SUFFICES ASSUME NEW u \in Tasks
               PROVE  [i \in 1..(Len(cycles[u]) - 1) |-> cycles[u][i].outcome] = <<>>
    BY DEF History
  <2>1. Len(cycles[u]) = 0 \/ Len(cycles[u]) = 1
    BY <1>1
  <2> DEFINE n == Len(cycles[u])
  <2>2. 1..(n - 1) = {}
    <3> HIDE DEF n
    <3>1. n = 0 \/ n = 1
      BY <2>1 DEF n
    <3> QED BY <3>1
  <2>3. [i \in 1..(n - 1) |-> cycles[u][i].outcome] = [i \in {} |-> cycles[u][i].outcome]
    BY <2>2
  <2>4. [i \in {} |-> cycles[u][i].outcome] = <<>>
    OBVIOUS
  <2> QED BY <2>3, <2>4
<1>5. moved = {}
  BY DEF KycInit
<1> QED BY <1>2, <1>3, <1>4, <1>5 DEF Decisions!Init

\* The three tables implement the decisions, among whatever the field endpoints
\* do to tasks and case: no decision is replaced unless it was taken up again,
\* a reverification files the one it replaces, and of the documents nobody else
\* disturbed one at most waits for its decision.
THEOREM HandlersFollowDecisions == KycSpec => DecisionsFollowed
<1>1. KycInv /\ [KycNext]_kycVars => [Decisions!Next]_(Decisions!vars)
  BY DecisionsStep
<1> QED
  BY <1>1, DecisionsInitial, KycInvHolds, PTL DEF KycSpec, DecisionsFollowed, Decisions!Spec
=============================================================================
