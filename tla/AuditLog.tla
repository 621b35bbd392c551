------------------------------ MODULE AuditLog ------------------------------
(***************************************************************************)
(* The audit log: enqueueAuditLog puts an event on a bullmq queue, ten     *)
(* worker slots insert queued events into the hash-chained table, a caller *)
(* that cannot reach the queue inserts directly, and what can be neither   *)
(* queued nor inserted is parked in a file that the next start sweeps.     *)
(*                                                                         *)
(* A slot is one running insertion, of the worker, of a request or of the  *)
(* sweep.  The rows are in the order of their ids; the hash of a row is    *)
(* named by its position, and 0 is the null hash before the first.         *)
(*                                                                         *)
(* `dropped' is a history variable: events given up at a place where the   *)
(* code accepts it.                                                        *)
(***************************************************************************)
EXTENDS Naturals, Sequences, FiniteSets

CONSTANTS Events, Slots, None,
          Attempts,   \* of a job; 5 in the code
          MaxRows     \* bound: rows, counting those still to be written

ASSUME NoneIsNoSlot == None \notin Slots
ASSUME AttemptsPositive == Attempts \in Nat \ {0}
ASSUME MaxRowsIsNat == MaxRows \in Nat

VARIABLES
  rows,       \* audit_logs
  chainLock,  \* the holder of the advisory lock
  slot,       \* the running insertions
  job,        \* the queue
  file,       \* audit-dlq.jsonl
  lines,      \* of the .replay file, those the sweep has still to read
  sweepDue,   \* the process has started and not swept yet
  orphaned,   \* events in the .replay files of earlier processes
  emitted,
  dropped

vars == <<rows, chainLock, slot, job, file, lines, sweepDue, orphaned, emitted, dropped>>

Jobs == 1 .. MaxRows

IdleSlot == [at |-> "idle", origin |-> "none", event |-> None, prev |-> 0]
FreeJob == [state |-> "free", event |-> None, made |-> 0, stalls |-> 0, holder |-> None]

Lines(seq) == {seq[i] : i \in DOMAIN seq}
Logged == {rows[i].event : i \in DOMAIN rows}
Queued == {job[j].event : j \in {i \in Jobs : job[i].state # "free"}}
InHand == {slot[s].event : s \in {i \in Slots : slot[i].at # "idle"}}
Parked == Lines(file) \cup Lines(lines) \cup orphaned
-----------------------------------------------------------------------------
(* The bound: every copy of an event that is not in a row yet may become   *)
(* one.                                                                    *)
Busy == {s \in Slots : slot[s].at \notin {"idle", "inserted"}}
Unfinished(j) == job[j].holder # None /\ slot[job[j].holder].at = "inserted"
Occupied == {j \in Jobs : job[j].state # "free"}
Late == {s \in Busy : slot[s].origin # "job" \/ \A j \in Jobs : job[j].holder # s}
Copies ==
  Len(rows) + Len(file) + Len(lines) + Cardinality(Events \ emitted)
    + Cardinality(Late) + Cardinality({j \in Occupied : ~Unfinished(j)})
MayDuplicate == Copies < MaxRows
MayCrash == Copies + Cardinality({j \in Occupied : Unfinished(j)}) <= MaxRows
-----------------------------------------------------------------------------
(* Enqueueing. *)

FirstFree(j) == job[j].state = "free" /\ \A i \in Jobs : i < j => job[i].state # "free"

Add(event) ==
  \E j \in Jobs :
    /\ FirstFree(j)
    /\ job' = [job EXCEPT ![j] = [FreeJob EXCEPT !.state = "waiting", !.event = event]]

Begin(s, origin, event) ==
  /\ slot[s].at = "idle"
  /\ slot' = [slot EXCEPT ![s] =
       [at |-> "lock", origin |-> origin, event |-> event, prev |-> 0]]

\* The queue takes the event; or it does not, and the caller inserts it
\* itself; or it does and the answer is lost.
Enqueue(event, origin) ==
  \/ Add(event) /\ UNCHANGED slot
  \/ \E s \in Slots : Begin(s, origin, event) /\ UNCHANGED job
  \/ MayDuplicate /\ Add(event) /\ \E s \in Slots : Begin(s, origin, event)

Emit(event) ==
  /\ event \notin emitted
  /\ emitted' = emitted \cup {event}
  /\ Enqueue(event, "request")
  /\ UNCHANGED <<rows, chainLock, file, lines, sweepDue, orphaned, dropped>>
-----------------------------------------------------------------------------
(* One insertion: a transaction under the advisory lock. *)

Take(s, j) ==
  /\ job[j].state = "waiting"
  /\ Begin(s, "job", job[j].event)
  /\ job' = [job EXCEPT ![j].state = "active", ![j].holder = s]
  /\ UNCHANGED <<rows, chainLock, file, lines, sweepDue, orphaned, emitted, dropped>>

LockFree == TRUE                                            \* a mutant
Unlocked == chainLock = None

\* The lock, then the newest hash, then the computation of the row's own.
Read(s) ==
  /\ slot[s].at = "lock"
  /\ Unlocked
  /\ chainLock' = s
  /\ slot' = [slot EXCEPT ![s].at = "write", ![s].prev = Len(rows)]
  /\ UNCHANGED <<rows, job, file, lines, sweepDue, orphaned, emitted, dropped>>

Insert(s) == rows' = Append(rows, [event |-> slot[s].event, prev |-> slot[s].prev])

\* COMMIT releases the lock.
Commit(s) ==
  /\ slot[s].at = "write"
  /\ Insert(s)
  /\ chainLock' = None
  /\ slot' = [slot EXCEPT ![s].at = "inserted"]
  /\ UNCHANGED <<job, file, lines, sweepDue, orphaned, emitted, dropped>>

\* The transaction fails, or its COMMIT succeeds and the answer is lost.
Fail(s) ==
  /\ slot[s].at \in {"lock", "write"}
  /\ \/ UNCHANGED rows
     \/ slot[s].at = "write" /\ MayDuplicate /\ Insert(s)
  /\ chainLock' = IF chainLock = s THEN None ELSE chainLock
  /\ slot' = [slot EXCEPT ![s].at = "failed"]
  /\ UNCHANGED <<job, file, lines, sweepDue, orphaned, emitted, dropped>>
-----------------------------------------------------------------------------
(* What follows an insertion. *)

HoldsAny(s, j) == job[j].state = "active"                   \* a mutant
\* A slot whose job was taken from it may not finish it.
Holds(s, j) == job[j].state = "active" /\ job[j].holder = s
Evicted(s) == slot[s].origin = "job" /\ \A j \in Jobs : ~Holds(s, j)
Release(s) == slot' = [slot EXCEPT ![s] = IdleSlot]

\* The job is completed, or the caller returns.
Complete(s) ==
  /\ slot[s].at = "inserted"
  /\ \/ \E j \in Jobs : Holds(s, j) /\ job' = [job EXCEPT ![j] = FreeJob]
     \/ (slot[s].origin # "job" \/ Evicted(s)) /\ UNCHANGED job
  /\ Release(s)
  /\ UNCHANGED <<rows, chainLock, file, lines, sweepDue, orphaned, emitted, dropped>>

ExhaustedLate(made) == made > Attempts                       \* a mutant
Exhausted(made) == made >= Attempts

AttemptUncounted(j) == job[j].made                           \* a mutant
Attempted(j) == job[j].made + 1

\* A failed job waits for its next attempt, or leaves the queue and is
\* parked by the failed handler; a failed direct insertion is parked.
GiveUp(s) ==
  /\ slot[s].at = "failed"
  /\ \/ \E j \in Jobs :
          /\ Holds(s, j)
          /\ IF Attempted(j) < Attempts
             THEN job' = [job EXCEPT ![j].state = "waiting", ![j].holder = None,
                                     ![j].made = Attempted(j)]
             ELSE job' = [job EXCEPT ![j] = FreeJob]
          /\ IF Exhausted(Attempted(j))
             THEN slot' = [slot EXCEPT ![s].at = "park"]
             ELSE Release(s)
     \/ Evicted(s) /\ Release(s) /\ UNCHANGED job
     \/ slot[s].origin # "job" /\ slot' = [slot EXCEPT ![s].at = "park"] /\ UNCHANGED job
  /\ UNCHANGED <<rows, chainLock, file, lines, sweepDue, orphaned, emitted, dropped>>

\* writeAuditDeadLetter; an unwritable file is only logged.
Park(s) ==
  /\ slot[s].at = "park"
  /\ \/ file' = Append(file, slot[s].event) /\ UNCHANGED dropped
     \/ dropped' = dropped \cup {slot[s].event} /\ UNCHANGED file
  /\ Release(s)
  /\ UNCHANGED <<rows, chainLock, job, lines, sweepDue, orphaned, emitted>>

\* bullmq returns an active job whose slot is dead or late, once; the second
\* time it fails the job, and the failed handler, which counts attempts and
\* not stalls, does not park it.
ToleratedTwice(j) == job[j].stalls <= 1                      \* a mutant
Tolerated(j) == job[j].stalls = 0

Stall(j) ==
  /\ job[j].state = "active"
  /\ job[j].holder # None => MayDuplicate
  /\ IF Tolerated(j)
     THEN /\ job' = [job EXCEPT ![j].state = "waiting", ![j].holder = None, ![j].stalls = @ + 1]
          /\ UNCHANGED dropped
     ELSE /\ job' = [job EXCEPT ![j] = FreeJob]
          /\ dropped' = dropped \cup {job[j].event}
  /\ UNCHANGED <<rows, chainLock, slot, file, lines, sweepDue, orphaned, emitted>>
-----------------------------------------------------------------------------
(* The sweep of a starting process, and its death. *)

\* The file is renamed, so that later parking starts a new one.
SweepStart ==
  /\ sweepDue
  /\ sweepDue' = FALSE
  /\ lines' = file
  /\ file' = <<>>
  /\ UNCHANGED <<rows, chainLock, slot, job, orphaned, emitted, dropped>>

\* One line at a time: an insertion of the sweep's own is awaited.
SweepLine ==
  /\ lines # <<>>
  /\ \A s \in Slots : slot[s].origin # "sweep"
  /\ Enqueue(Head(lines), "sweep")
  /\ lines' = Tail(lines)
  /\ UNCHANGED <<rows, chainLock, file, sweepDue, orphaned, emitted, dropped>>

\* The lines of an interrupted sweep stay in a file nobody looks for.
Crash ==
  /\ MayCrash
  /\ slot' = [s \in Slots |-> IdleSlot]
  /\ chainLock' = None
  /\ job' = [j \in Jobs |-> [job[j] EXCEPT !.holder = None]]
  /\ dropped' = dropped \cup {slot[s].event : s \in
                   {i \in Slots : slot[i].at # "idle" /\
                      (slot[i].origin # "job" \/ slot[i].at = "park")}}
  /\ orphaned' = orphaned \cup Lines(lines)
  /\ lines' = <<>>
  /\ sweepDue' = TRUE
  /\ UNCHANGED <<rows, file, emitted>>
-----------------------------------------------------------------------------
Init ==
  /\ rows = <<>> /\ chainLock = None
  /\ slot = [s \in Slots |-> IdleSlot]
  /\ job = [j \in Jobs |-> FreeJob]
  /\ file = <<>> /\ lines = <<>> /\ sweepDue = TRUE
  /\ orphaned = {} /\ emitted = {} /\ dropped = {}

Insertion(s) ==
  Read(s) \/ Commit(s) \/ Fail(s) \/ Complete(s) \/ GiveUp(s) \/ Park(s)
Abandoned(j) == job[j].holder = None /\ Stall(j)

Next ==
  \/ \E e \in Events : Emit(e)
  \/ \E s \in Slots : Insertion(s) \/ \E j \in Jobs : Take(s, j)
  \/ \E j \in Jobs : Stall(j)
  \/ SweepStart \/ SweepLine \/ Crash

Spec == Init /\ [][Next]_vars

\* The queue hands jobs out in their order, an insertion is awaited, bullmq
\* looks for stalled jobs on a timer.
FairSpec ==
  /\ Spec
  /\ \A s \in Slots : WF_vars(Insertion(s))
  /\ \A j \in Jobs : SF_vars(\E s \in Slots : Take(s, j)) /\ WF_vars(Abandoned(j))
-----------------------------------------------------------------------------
(* What should hold. *)

\* Every variable has its shape; a job in the queue has attempts left.
TypeOK ==
  /\ rows \in Seq([event : Events, prev : Nat])
  /\ chainLock \in Slots \cup {None}
  /\ slot \in [Slots ->
       [at : {"idle", "lock", "write", "inserted", "failed", "park"},
        origin : {"none", "request", "job", "sweep"},
        event : Events \cup {None}, prev : Nat]]
  /\ job \in [Jobs ->
       [state : {"free", "waiting", "active"}, event : Events \cup {None},
        made : 0 .. Attempts - 1, stalls : 0 .. 1, holder : Slots \cup {None}]]
  /\ file \in Seq(Events) /\ lines \in Seq(Events) /\ sweepDue \in BOOLEAN
  /\ orphaned \subseteq Events /\ emitted \subseteq Events /\ dropped \subseteq Events

\* Each row carries the hash of the row before it, whoever inserts at the
\* same time, and however transactions fail: verifyAuditChain finds no break.
ChainIntact == \A i \in DOMAIN rows : rows[i].prev = i - 1

\* An event that was emitted is logged, or queued, or being inserted, or
\* parked, except where the code gives it up.
Accounted == emitted \subseteq Logged \cup Queued \cup InHand \cup Parked \cup dropped

\* Every job leaves the queue, however often the process dies under it.
JobsSettle == \A j \in Jobs : job[j].state # "free" ~> job[j].state = "free"
-----------------------------------------------------------------------------
(* What the log owes. *)

Owed == Queued \cup InHand \cup Parked

Trail == INSTANCE AuditTrail WITH
  owed <- Owed, trail <- rows, givenUp <- dropped

\* The log implements AuditTrail: whatever stalls, fails or dies, an event
\* leaves the queue, the slots and the files only when it is in the table or
\* was given up, never comes back, and no row is for an event so settled.
TrailKept == Trail!Spec
=============================================================================
