--------------------------- MODULE TaskTransactions ---------------------------
(***************************************************************************)
(* The transactions under the task handlers: the pool of connections they  *)
(* wait for, the row locks they take in the order they write, the trigger  *)
(* that counts the tasks of a case, deadlocks, timeouts and retries.       *)
(*                                                                         *)
(* A job writes its tasks in order.  Each write takes the row of the task, *)
(* and its trigger counts the tasks of the case and then waits for the row *)
(* of the case.  A job of withTransaction is retried after a deadlock; the *)
(* others hold a connection of their own until their `finally', some of    *)
(* them through a recount that takes a second connection after the commit. *)
(***************************************************************************)
EXTENDS Naturals, Sequences, FiniteSets

CONSTANTS Requests, Tasks, Cases, None,
          CaseOf,       \* the case of each task
          Jobs,         \* what a request may do: see Job
          PoolSize,     \* max of the pool
          MaxAttempts   \* DEFAULT_TRANSACTION_MAX_RETRIES

Job == [tasks : Seq(Tasks),
        completes : BOOLEAN,              \* it writes COMPLETED
        guarded : BOOLEAN,                \* its update tests the status, or else
                                          \* it read the status before
        retried : BOOLEAN,                \* it runs in withTransaction
        recount : {"inside", "after"}]    \* the commit

ASSUME TransactionAssumptions ==
  /\ IsFiniteSet(Tasks) /\ IsFiniteSet(Requests)
  /\ CaseOf \in [Tasks -> Cases] /\ Tasks \cap Cases = {}
  /\ \A j \in Jobs : j \in Job
  /\ None \notin Requests \cup Jobs \cup Nat
  /\ PoolSize \in Nat \ {0} /\ MaxAttempts \in Nat \ {0}

VARIABLES
  done,     \* the tasks whose committed status is COMPLETED
  count,    \* cases.completed_tasks_count
  lock,     \* the holder of the row lock of each task and case
  req,      \* the requests
  mixed     \* history: the cases last written by transactions that overlapped

vars == <<done, count, lock, req, mixed>>

Idle == [step |-> "idle", job |-> None, at |-> 1, conns |-> 0, attempt |-> 0,
         own |-> {}, counted |-> [c \in Cases |-> None], lone |-> {}]

Rows == Tasks \cup Cases
TasksOf(c) == {t \in Tasks : CaseOf[t] = c}

Connections == {u \in Requests \X {1, 2} : u[2] <= req[u[1]].conns}
Free == PoolSize - Cardinality(Connections)

Available(r, row) == lock[row] \in {None, r}
Take(r, row) == lock' = [lock EXCEPT ![row] = r]
Released(r) == [row \in Rows |-> IF lock[row] = r THEN None ELSE lock[row]]

\* The task a request is at.
Current(r) == req[r].job.tasks[req[r].at]
CaseAt(r) == CaseOf[Current(r)]
Left(r) == req[r].at <= Len(req[r].job.tasks)

Set(r, new) == req' = [req EXCEPT ![r] = new]

Unreleased(r) == [Idle EXCEPT !.conns = req[r].conns]       \* a mutant
\* The connections go back in `finally'.
Ended(r) == Idle

RollBack(r, next) ==
  /\ lock' = Released(r)
  /\ Set(r, next)
  /\ UNCHANGED <<done, count, mixed>>
-----------------------------------------------------------------------------
(* The pool. *)

Begin(r, j) ==
  /\ req[r] = Idle
  /\ Set(r, [Idle EXCEPT !.step = "connect", !.job = j, !.attempt = 1])
  /\ UNCHANGED <<done, count, lock, mixed>>

Connect(r) ==
  /\ req[r].step = "connect"
  /\ Free > 0
  /\ Set(r, [req[r] EXCEPT !.step = IF req[r].job.guarded THEN "write" ELSE "read",
                           !.conns = 1])
  /\ UNCHANGED <<done, count, lock, mixed>>

WaitsForever(r) == FALSE                                    \* a mutant
\* connectionTimeoutMillis
ConnectionTimesOut(r) == Free = 0
-----------------------------------------------------------------------------
(* The writes. *)

OthersOnly(r, t) == done                                    \* a mutant
\* A transaction sees what is committed and what it wrote itself.
Seen(r, t) == done \cup req[r].own \cup (IF req[r].job.completes THEN {t} ELSE {})

WritersOf(c) == {r \in Requests : \E t \in TasksOf(c) : lock[t] = r}

\* The completion on the web reads the status without a lock.
ReadStatus(r) ==
  /\ req[r].step = "read" /\ Left(r)
  /\ Current(r) \notin done
  /\ Set(r, [req[r] EXCEPT !.step = "write"])
  /\ UNCHANGED <<done, count, lock, mixed>>

AlwaysOpen(r) == TRUE                                       \* a mutant
\* What it read, an update that is guarded finds for itself,
Open(r) == req[r].job.guarded => Current(r) \notin done

\* and passes over a completed task in a bulk assignment.
Skip(r) ==
  /\ req[r].step = "write" /\ Left(r)
  /\ ~Open(r) /\ ~req[r].job.completes
  /\ Set(r, [req[r] EXCEPT !.at = @ + 1])
  /\ UNCHANGED <<done, count, lock, mixed>>

\* A completion is refused.
Refuse(r) ==
  /\ req[r].step \in {"read", "write"} /\ Left(r)
  /\ Current(r) \in done /\ req[r].job.completes
  /\ req[r].step = "write" => req[r].job.guarded
  /\ RollBack(r, Ended(r))

\* The trigger counts before it waits for the case.
Write(r) ==
  /\ req[r].step = "write" /\ Left(r) /\ Open(r)
  /\ LET t == Current(r)
         c == CaseOf[t]
         alone == WritersOf(c) \subseteq {r} IN
     /\ Available(r, t)
     /\ Take(r, t)
     /\ req' = [q \in Requests |->
          IF q = r
          THEN [req[r] EXCEPT !.step = "case",
                  !.own = IF req[r].job.completes THEN @ \cup {t} ELSE @,
                  !.counted[c] = Cardinality(Seen(r, t) \cap TasksOf(c)),
                  !.lone = IF alone THEN @ \cup {c} ELSE @ \ {c}]
          ELSE [req[q] EXCEPT !.lone = IF alone THEN @ ELSE @ \ {c}]]
     /\ mixed' = IF alone THEN mixed ELSE mixed \cup {c}
  /\ UNCHANGED <<done, count>>

TakeCase(r) ==
  /\ req[r].step = "case"
  /\ Available(r, CaseAt(r))
  /\ Take(r, CaseAt(r))
  /\ Set(r, [req[r] EXCEPT !.step = "write", !.at = @ + 1])
  /\ UNCHANGED <<done, count, mixed>>

\* The recount inside a transaction finds the case locked by its own trigger.
Commit(r) ==
  /\ req[r].step = "write" /\ ~Left(r)
  /\ done' = done \cup req[r].own
  /\ count' = [c \in Cases |-> IF req[r].counted[c] = None THEN count[c] ELSE req[r].counted[c]]
  /\ lock' = Released(r)
  /\ mixed' = mixed \ req[r].lone
  /\ Set(r, IF req[r].job.recount = "inside" THEN Idle
            ELSE [Idle EXCEPT !.step = "second", !.job = req[r].job, !.conns = 1])

\* The recount after the commit keeps the first connection.
ConnectSecond(r) ==
  /\ req[r].step = "second"
  /\ Free > 0
  /\ Set(r, [req[r] EXCEPT !.step = "recount", !.conns = 2])
  /\ UNCHANGED <<done, count, lock, mixed>>

\* Its lock, reading and update of the case, and then both releases.
Recount(r) ==
  /\ req[r].step = "recount"
  /\ lock[CaseAt(r)] = None
  /\ Set(r, Idle)
  /\ UNCHANGED <<done, count, lock, mixed>>
-----------------------------------------------------------------------------
(* Failures. *)

WaitsFor(r) ==
  CASE req[r].step = "write" /\ Left(r) /\ Open(r) -> lock[Current(r)]
    [] req[r].step \in {"case", "recount"} -> lock[CaseAt(r)]
    [] OTHER -> None

\* The request is on a cycle of requests that wait for each other's locks.
Deadlocked(r) ==
  \E S \in SUBSET Requests : r \in S /\ \A q \in S : WaitsFor(q) \in S \ {q}

\* withTransaction tries again on 40P01. Its `finally' is left for after the
\* backoff, so that the connection sleeps with it,
DeadlockAbort(r) ==
  /\ Deadlocked(r)
  /\ RollBack(r, IF req[r].job.retried /\ req[r].attempt < MaxAttempts
                 THEN [Idle EXCEPT !.step = "backoff", !.job = req[r].job, !.conns = 1,
                                   !.attempt = req[r].attempt]
                 ELSE Ended(r))

\* and the next attempt needs another one.
Retry(r) ==
  /\ req[r].step = "backoff"
  /\ Set(r, [Idle EXCEPT !.step = "connect", !.job = req[r].job,
                         !.attempt = req[r].attempt + 1])
  /\ UNCHANGED <<done, count, lock, mixed>>

\* statement_timeout
LockTimeout(r) ==
  /\ WaitsFor(r) \notin {None, r}
  /\ RollBack(r, Ended(r))

ConnectionTimeout(r) ==
  /\ req[r].step \in {"connect", "second"}
  /\ ConnectionTimesOut(r)
  /\ RollBack(r, Ended(r))

\* A statement fails, or the connection is lost.
Fail(r) ==
  /\ req[r].conns > 0 /\ req[r].step # "backoff"
  /\ RollBack(r, Ended(r))
-----------------------------------------------------------------------------
Init ==
  /\ done = {}
  /\ count = [c \in Cases |-> 0]
  /\ lock = [row \in Rows |-> None]
  /\ req = [r \in Requests |-> Idle]
  /\ mixed = {}

Advance(r) ==
  \/ Connect(r) \/ ReadStatus(r) \/ Skip(r) \/ Refuse(r) \/ Write(r) \/ TakeCase(r) \/ Commit(r)
  \/ ConnectSecond(r) \/ Recount(r)
  \/ DeadlockAbort(r) \/ Retry(r) \/ LockTimeout(r) \/ ConnectionTimeout(r)

Next == \E r \in Requests : Advance(r) \/ Fail(r) \/ \E j \in Jobs : Begin(r, j)

Spec == Init /\ [][Next]_vars

FairSpec == Spec /\ \A r \in Requests : WF_vars(Advance(r))
-----------------------------------------------------------------------------
\* Locks and connections come back: a request at rest holds nothing, a lock is
\* held only by a request with a connection, and the pool is never overdrawn.
NothingLeaks ==
  /\ \A r \in Requests : req[r].step = "idle" => req[r] = Idle
  /\ \A row \in Rows : lock[row] # None => req[lock[row]].conns > 0
  /\ Free \in 0..PoolSize

\* The counter of a case is exact unless the last transactions to write its
\* tasks overlapped; a write that overlaps none makes it exact again.
CountersHeal ==
  \A c \in Cases : c \notin mixed => count[c] = Cardinality(done \cap TasksOf(c))

\* Whatever it waited for, a request about to commit completions holds the rows
\* of its tasks and of their cases, so that no other transaction of these cases
\* commits in between; and where its update tests the status, nobody has
\* completed the tasks since.
CompletionsExclusive ==
  \A r \in Requests : req[r].step = "write" /\ ~Left(r) =>
    \A t \in req[r].own : /\ lock[t] = r /\ lock[CaseOf[t]] = r
                          /\ req[r].job.guarded => t \notin done

\* Every request ends, whatever the others hold: no deadlock of rows, and no
\* pool whose connections all wait for another one, lasts.
RequestsEnd == \A r \in Requests : req[r] # Idle ~> req[r] = Idle
=============================================================================
