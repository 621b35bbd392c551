--------------------------- MODULE AuditLog_proofs ---------------------------
(***************************************************************************)
(* Proofs about AuditLog, for any events, worker slots, attempts and       *)
(* bound: the type invariant, the hash chain, and the account of events.   *)
(*                                                                         *)
(* A slot about to write holds the lock and has read the newest row (Held),*)
(* which makes the chain inductive.  The account of events needs to know   *)
(* that a job is held by at most one slot, which inserts its event         *)
(* (Holding), and that an inserted event is in the table (Written) and     *)
(* that a sweep starts with no lines (Waiting); what a slot does with a    *)
(* job it no longer holds does not count (Kept).                           *)
(***************************************************************************)
EXTENDS AuditLog, SequenceTheorems, TLAPS

SlotType == [at : {"idle", "lock", "write", "inserted", "failed", "park"},
             origin : {"none", "request", "job", "sweep"},
             event : Events \cup {None}, prev : Nat]
JobType == [state : {"free", "waiting", "active"}, event : Events \cup {None},
            made : 0 .. Attempts - 1, stalls : 0 .. 1, holder : Slots \cup {None}]

Filled ==
  /\ \A s \in Slots : slot[s].at # "idle" => slot[s].event \in Events
  /\ \A j \in Jobs : job[j].state # "free" => job[j].event \in Events

Held ==
  \A s \in Slots : slot[s].at = "write" =>
    chainLock = s /\ slot[s].prev = Len(rows)

Holding ==
  /\ \A j \in Jobs, s \in Slots : job[j].holder = s =>
       /\ job[j].state = "active"
       /\ slot[s].at \in {"lock", "write", "inserted", "failed"}
       /\ slot[s].origin = "job" /\ slot[s].event = job[j].event
  /\ \A i, j \in Jobs : \A s \in Slots :
       job[i].holder = s /\ job[j].holder = s => i = j

Written == \A s \in Slots : slot[s].at = "inserted" => slot[s].event \in Logged

Waiting == sweepDue => lines = <<>>

Owner(s) == slot[s].at = "park" \/ (slot[s].at # "idle" /\ slot[s].origin # "job")

Kept(e) ==
  \/ \E i \in DOMAIN rows : rows[i].event = e
  \/ \E j \in Jobs : job[j].state # "free" /\ job[j].event = e
  \/ \E s \in Slots : Owner(s) /\ slot[s].event = e
  \/ \E i \in DOMAIN file : file[i] = e
  \/ \E i \in DOMAIN lines : lines[i] = e
  \/ e \in orphaned \cup dropped

ToPark(s) == slot'[s].at = "park" /\ slot'[s].event = slot[s].event

Inv == TypeOK /\ Filled /\ Held /\ ChainIntact /\ Holding /\ Written /\ Waiting
         /\ \A e \in emitted : Kept(e)
-----------------------------------------------------------------------------
(* The helpers of the actions. *)

LEMMA Shapes ==
  ASSUME TypeOK
  PROVE  /\ slot \in [Slots -> SlotType] /\ job \in [Jobs -> JobType]
         /\ Len(rows) \in Nat /\ DOMAIN rows = 1 .. Len(rows)
         /\ IdleSlot \in SlotType /\ FreeJob \in JobType
         /\ IdleSlot.at = "idle" /\ FreeJob.state = "free" /\ FreeJob.holder = None
BY AttemptsPositive DEF TypeOK, SlotType, JobType, IdleSlot, FreeJob

\* Starting an insertion fills an idle slot.
LEMMA BeginSlot ==
  ASSUME TypeOK, NEW s \in Slots, NEW event \in Events,
         NEW origin \in {"request", "job", "sweep"}, Begin(s, origin, event)
  PROVE  /\ slot[s].at = "idle" /\ slot' \in [Slots -> SlotType]
         /\ slot'[s].at = "lock" /\ slot'[s].origin = origin
         /\ slot'[s].event = event
         /\ \A t \in Slots \ {s} : slot'[t] = slot[t]
BY Shapes DEF Begin, SlotType

\* Adding a job fills a free place of the queue.
LEMMA AddJob ==
  ASSUME TypeOK, NEW event \in Events, Add(event)
  PROVE  \E j \in Jobs :
           /\ job[j].state = "free" /\ job' \in [Jobs -> JobType]
           /\ job'[j].state = "waiting" /\ job'[j].event = event
           /\ job'[j].holder = None
           /\ \A i \in Jobs \ {j} : job'[i] = job[i]
<1>1. PICK j \in Jobs :
        /\ FirstFree(j)
        /\ job' = [job EXCEPT ![j] =
             [FreeJob EXCEPT !.state = "waiting", !.event = event]]
  BY DEF Add
<1>2. [FreeJob EXCEPT !.state = "waiting", !.event = event] \in JobType
  BY Shapes DEF FreeJob, JobType
<1> QED BY <1>1, <1>2, Shapes DEF FirstFree, FreeJob

\* Whoever enqueues an event, it is then queued, or a slot of its own has it;
\* the other jobs are as they were, and so are the busy slots.
LEMMA Enqueued ==
  ASSUME TypeOK, NEW event \in Events, NEW origin \in {"request", "sweep"},
         Enqueue(event, origin)
  PROVE  /\ slot' \in [Slots -> SlotType] /\ job' \in [Jobs -> JobType]
         /\ \A s \in Slots : \/ slot'[s] = slot[s]
                            \/ /\ slot[s].at = "idle"
                               /\ slot'[s].at = "lock" /\ slot'[s].origin = origin
                               /\ slot'[s].event = event
         /\ \A j \in Jobs : \/ job'[j] = job[j]
                           \/ /\ job[j].state = "free"
                              /\ job'[j].state = "waiting" /\ job'[j].event = event
                              /\ job'[j].holder = None
         /\ \/ \E s \in Slots : slot'[s].at = "lock" /\ slot'[s].origin = origin
                                 /\ slot'[s].event = event
            \/ \E j \in Jobs : job'[j].state = "waiting" /\ job'[j].event = event
<1>1. CASE Add(event) /\ UNCHANGED slot
  BY <1>1, AddJob, Shapes
<1>2. ASSUME NEW s \in Slots, Begin(s, origin, event), UNCHANGED job
      PROVE  /\ slot' \in [Slots -> SlotType] /\ job' = job
             /\ slot[s].at = "idle"
             /\ slot'[s].at = "lock" /\ slot'[s].origin = origin
             /\ slot'[s].event = event
             /\ \A t \in Slots \ {s} : slot'[t] = slot[t]
  BY <1>2, BeginSlot
<1>3. CASE \E s \in Slots : Begin(s, origin, event) /\ UNCHANGED job
  BY <1>2, <1>3, Shapes
<1>4. CASE Add(event) /\ \E s \in Slots : Begin(s, origin, event)
  <2>1. PICK s \in Slots : Begin(s, origin, event)
    BY <1>4
  <2>2. /\ slot' \in [Slots -> SlotType]
        /\ slot[s].at = "idle"
        /\ slot'[s].at = "lock" /\ slot'[s].origin = origin
        /\ slot'[s].event = event
        /\ \A t \in Slots \ {s} : slot'[t] = slot[t]
    BY <2>1, BeginSlot
  <2> QED BY <1>4, <2>2, AddJob
<1> QED BY <1>1, <1>3, <1>4 DEF Enqueue

\* A row is appended after the others.
LEMMA Inserted ==
  ASSUME TypeOK, NEW s \in Slots, slot[s].event \in Events, Insert(s)
  PROVE  /\ rows' \in Seq([event : Events, prev : Nat])
         /\ Len(rows') = Len(rows) + 1
         /\ DOMAIN rows' = 1 .. Len(rows) + 1
         /\ rows'[Len(rows) + 1] = [event |-> slot[s].event, prev |-> slot[s].prev]
         /\ \A i \in DOMAIN rows : i \in DOMAIN rows' /\ rows'[i] = rows[i]
<1>1. [event |-> slot[s].event, prev |-> slot[s].prev] \in [event : Events, prev : Nat]
  BY Shapes DEF SlotType
<1> QED BY <1>1, Shapes DEF Insert, TypeOK

\* A slot that gives up is idle or about to park its event; a job it held
\* waits again, or has left the queue for the slot to park its event.
LEMMA GivenUp ==
  ASSUME TypeOK, NEW s \in Slots, GiveUp(s)
  PROVE  /\ \A t \in Slots \ {s} : slot'[t] = slot[t]
         /\ slot'[s] = IdleSlot \/ ToPark(s)
         /\ \/ \E j \in Jobs :
                 /\ Holds(s, j) /\ job'[j].holder = None
                 /\ \A i \in Jobs \ {j} : job'[i] = job[i]
                 /\ \/ job'[j].state = "waiting" /\ job'[j].event = job[j].event
                    \/ job'[j] = FreeJob /\ ToPark(s)
            \/ /\ job' = job
               /\ Evicted(s) \/ (slot[s].origin # "job" /\ ToPark(s))
<1>1. ASSUME NEW j \in Jobs, Holds(s, j),
             IF Attempted(j) < Attempts
             THEN job' = [job EXCEPT ![j].state = "waiting", ![j].holder = None,
                                     ![j].made = Attempted(j)]
             ELSE job' = [job EXCEPT ![j] = FreeJob]
      PROVE  /\ \A i \in Jobs \ {j} : job'[i] = job[i]
             /\ job'[j].holder = None
             /\ \/ job'[j].state = "waiting" /\ job'[j].event = job[j].event
                \/ job'[j] = FreeJob /\ Exhausted(Attempted(j))
  BY <1>1, AttemptsPositive, Shapes DEF Attempted, Exhausted, JobType, FreeJob
<1>2. ASSUME NEW j \in Jobs
      PROVE  (IF Exhausted(Attempted(j))
              THEN slot' = [slot EXCEPT ![s].at = "park"] ELSE Release(s)) =>
             /\ \A t \in Slots \ {s} : slot'[t] = slot[t]
             /\ slot'[s] = IdleSlot \/ ToPark(s)
             /\ Exhausted(Attempted(j)) => ToPark(s)
  BY Shapes DEF Release, ToPark, SlotType
<1>3. ASSUME NEW j \in Jobs, Holds(s, j),
             IF Attempted(j) < Attempts
             THEN job' = [job EXCEPT ![j].state = "waiting", ![j].holder = None,
                                     ![j].made = Attempted(j)]
             ELSE job' = [job EXCEPT ![j] = FreeJob],
             IF Exhausted(Attempted(j))
             THEN slot' = [slot EXCEPT ![s].at = "park"] ELSE Release(s)
      PROVE  /\ \A t \in Slots \ {s} : slot'[t] = slot[t]
             /\ slot'[s] = IdleSlot \/ ToPark(s)
             /\ Holds(s, j) /\ job'[j].holder = None
             /\ \A i \in Jobs \ {j} : job'[i] = job[i]
             /\ \/ job'[j].state = "waiting" /\ job'[j].event = job[j].event
                \/ job'[j] = FreeJob /\ ToPark(s)
  BY <1>1, <1>2, <1>3
<1>4. ASSUME \/ slot[s].origin # "job" /\ slot' = [slot EXCEPT ![s].at = "park"]
             \/ Evicted(s) /\ Release(s),
             UNCHANGED job
      PROVE  /\ \A t \in Slots \ {s} : slot'[t] = slot[t]
             /\ slot'[s] = IdleSlot \/ ToPark(s)
             /\ Evicted(s) \/ (slot[s].origin # "job" /\ ToPark(s))
  BY <1>4, Shapes DEF Release, ToPark, SlotType
<1> QED BY <1>3, <1>4, Zenon DEF GiveUp

\* A stalled job waits again, or leaves the queue and its event is dropped.
LEMMA Stalled ==
  ASSUME TypeOK, NEW j \in Jobs, Stall(j)
  PROVE  /\ job[j].state = "active" /\ job'[j].holder = None
         /\ \A i \in Jobs \ {j} : job'[i] = job[i]
         /\ \/ /\ job'[j].state = "waiting" /\ job'[j].event = job[j].event
               /\ dropped' = dropped
            \/ job'[j] = FreeJob /\ dropped' = dropped \cup {job[j].event}
<1>1. CASE Tolerated(j)
  BY <1>1, Shapes DEF Stall, JobType
<1>2. CASE ~Tolerated(j)
  BY <1>2, Shapes DEF Stall, FreeJob
<1> QED BY <1>1, <1>2
-----------------------------------------------------------------------------

\* The shape of the variables is kept, one action at a time.
LEMMA StepType == TypeOK /\ Filled /\ [Next]_vars => TypeOK'
<1> SUFFICES ASSUME TypeOK, Filled, [Next]_vars PROVE TypeOK'
  OBVIOUS
<1>1. CASE UNCHANGED vars
  BY <1>1 DEF vars, TypeOK
<1>2. ASSUME NEW e \in Events, Emit(e) PROVE TypeOK'
  BY <1>2, Enqueued DEF Emit, TypeOK, SlotType, JobType
<1>3. ASSUME NEW s \in Slots, Insertion(s) PROVE TypeOK'
  <2>1. CASE Read(s)
    BY <2>1, Shapes DEF Read, TypeOK, SlotType, JobType
  <2>2. CASE Commit(s)
    <3>1. slot[s].event \in Events
      BY <2>2 DEF Commit, Filled
    <3>2. rows' \in Seq([event : Events, prev : Nat])
      BY <2>2, <3>1, Inserted DEF Commit
    <3> QED BY <2>2, <3>2, Shapes DEF Commit, TypeOK, SlotType, JobType
  <2>3. CASE Fail(s)
    <3>1. rows' \in Seq([event : Events, prev : Nat])
      <4>1. slot[s].event \in Events
        BY <2>3 DEF Fail, Filled
      <4> QED BY <2>3, <4>1, Inserted DEF Fail, TypeOK
    <3> QED BY <2>3, <3>1, Shapes DEF Fail, TypeOK, SlotType, JobType
  <2>4. CASE Complete(s)
    BY <2>4, Shapes DEF Complete, Release, TypeOK, SlotType, JobType
  <2>5. CASE GiveUp(s)
    <3>1. ASSUME NEW i \in Jobs, Holds(s, i)
          PROVE  /\ (IF Attempted(i) < Attempts
                     THEN job' = [job EXCEPT ![i].state = "waiting", ![i].holder = None,
                                             ![i].made = Attempted(i)]
                     ELSE job' = [job EXCEPT ![i] = FreeJob]) => job' \in [Jobs -> JobType]
      BY <3>1, AttemptsPositive, Shapes DEF JobType, Attempted
    <3>2. job' \in [Jobs -> JobType]
      BY <2>5, <3>1, Shapes DEF GiveUp
    <3>3. slot' \in [Slots -> SlotType]
      BY <2>5, Shapes DEF GiveUp, Release, SlotType
    <3> QED BY <2>5, <3>2, <3>3 DEF GiveUp, TypeOK, SlotType, JobType
  <2>6. CASE Park(s)
    <3>1. slot[s].event \in Events
      BY <2>6 DEF Park, Filled
    <3>2. file' \in Seq(Events)
      <4>1. file \in Seq(Events)
        BY DEF TypeOK
      <4>2. file' = Append(file, slot[s].event) \/ file' = file
        BY <2>6, Zenon DEF Park
      <4> QED BY <3>1, <4>1, <4>2
    <3>3. dropped' \subseteq Events
      <4>1. dropped' = dropped \cup {slot[s].event} \/ dropped' = dropped
        BY <2>6, Zenon DEF Park
      <4> QED BY <3>1, <4>1, Zenon DEF TypeOK
    <3> QED BY <2>6, <3>2, <3>3, Shapes DEF Park, Release, TypeOK, SlotType, JobType
  <2> QED BY <1>3, <2>1, <2>2, <2>3, <2>4, <2>5, <2>6 DEF Insertion
<1>4. ASSUME NEW s \in Slots, NEW j \in Jobs, Take(s, j) PROVE TypeOK'
  <3>1. job[j].event \in Events
    BY <1>4 DEF Take, Filled
  <3>2. slot' \in [Slots -> SlotType]
    BY <1>4, <3>1, BeginSlot DEF Take
  <3>3. job' \in [Jobs -> JobType]
    BY <1>4, Shapes DEF Take, JobType
  <3> QED BY <1>4, <3>2, <3>3 DEF Take, TypeOK, SlotType, JobType
<1>5. ASSUME NEW j \in Jobs, Stall(j) PROVE TypeOK'
  <3>1. job[j].event \in Events
    BY <1>5 DEF Stall, Filled
  <3>2. CASE Tolerated(j)
    BY <1>5, <3>2, Shapes DEF Stall, Tolerated, TypeOK, SlotType, JobType
  <3>3. CASE ~Tolerated(j)
    <4>1. job' = [job EXCEPT ![j] = FreeJob] /\ dropped' = dropped \cup {job[j].event}
      BY <1>5, <3>3 DEF Stall
    <4>2. job' \in [Jobs -> JobType] /\ dropped' \subseteq Events
      BY <3>1, <4>1, Shapes DEF TypeOK
    <4> QED BY <1>5, <4>2 DEF Stall, TypeOK, SlotType, JobType
  <3> QED BY <3>2, <3>3
<1>6. CASE SweepStart
  <3>1. file' \in Seq(Events) /\ lines' \in Seq(Events) /\ sweepDue' = FALSE
    BY <1>6 DEF SweepStart, TypeOK
  <3> QED BY <1>6, <3>1, Shapes DEF SweepStart, TypeOK, SlotType, JobType
<1>7. CASE SweepLine
  <3>1. Head(lines) \in Events /\ Tail(lines) \in Seq(Events)
    BY <1>7 DEF SweepLine, TypeOK
  <3> QED BY <1>7, <3>1, Enqueued DEF SweepLine, TypeOK, SlotType, JobType
<1>8. CASE Crash
  <3>1. dropped' \subseteq Events
    BY <1>8 DEF Crash, TypeOK, Filled
  <3>2. orphaned' \subseteq Events /\ lines' \in Seq(Events)
    BY <1>8 DEF Crash, TypeOK, Lines
  <3> QED BY <1>8, <3>1, <3>2, Shapes DEF Crash, TypeOK, SlotType, JobType
<1> QED BY <1>1, <1>2, <1>3, <1>4, <1>5, <1>6, <1>7, <1>8 DEF Next

\* A busy slot and a queued job have an event.
LEMMA StepFilled == TypeOK /\ Filled /\ [Next]_vars => Filled'
<1> SUFFICES ASSUME TypeOK, Filled, [Next]_vars PROVE Filled'
  OBVIOUS
<1>1. CASE UNCHANGED vars
  BY <1>1 DEF vars, Filled
<1>2. ASSUME NEW e \in Events, Emit(e) PROVE Filled'
  BY <1>2, Enqueued DEF Emit, Filled
<1>3. ASSUME NEW s \in Slots, Insertion(s) PROVE Filled'
  <2>1. CASE Read(s)
    BY <2>1, Shapes DEF Read, Filled, IdleSlot, FreeJob
  <2>2. CASE Commit(s)
    BY <2>2, Shapes DEF Commit, Filled, IdleSlot, FreeJob
  <2>3. CASE Fail(s)
    BY <2>3, Shapes DEF Fail, Filled, IdleSlot, FreeJob
  <2>4. CASE Complete(s)
    BY <2>4, Shapes DEF Complete, Release, Filled, IdleSlot, FreeJob
  <2>5. CASE GiveUp(s)
    <3>1. slot[s].event \in Events
      BY <2>5 DEF GiveUp, Filled
    <3> QED BY <2>5, <3>1, GivenUp, Shapes DEF Filled, ToPark, Holds
  <2>6. CASE Park(s)
    BY <2>6, Shapes DEF Park, Release, Filled, IdleSlot, FreeJob
  <2> QED BY <1>3, <2>1, <2>2, <2>3, <2>4, <2>5, <2>6 DEF Insertion
<1>4. ASSUME NEW s \in Slots, NEW j \in Jobs, Take(s, j) PROVE Filled'
  <3>1. job[j].event \in Events
    BY <1>4 DEF Take, Filled
  <3> QED BY <1>4, <3>1, BeginSlot, Shapes DEF Take, Filled
<1>5. ASSUME NEW j \in Jobs, Stall(j) PROVE Filled'
  <3>1. slot' = slot
    BY <1>5 DEF Stall
  <3> QED BY <1>5, <3>1, Stalled, Shapes DEF Filled
<1>6. CASE SweepStart
  BY <1>6, Shapes DEF SweepStart, Filled, IdleSlot, FreeJob
<1>7. CASE SweepLine
  <3>1. Head(lines) \in Events
    BY <1>7 DEF SweepLine, TypeOK
  <3> QED BY <1>7, <3>1, Enqueued DEF SweepLine, Filled
<1>8. CASE Crash
  <3>1. \A s \in Slots : slot'[s].at = "idle"
    BY <1>8 DEF Crash, IdleSlot
  <3>2. \A j \in Jobs : job'[j].state = job[j].state /\ job'[j].event = job[j].event
    BY <1>8, Shapes DEF Crash, JobType
  <3> QED BY <3>1, <3>2 DEF Filled
<1> QED BY <1>1, <1>2, <1>3, <1>4, <1>5, <1>6, <1>7, <1>8 DEF Next

\* A slot about to write holds the lock and has read the newest row.
LEMMA StepHeld == TypeOK /\ Filled /\ Held /\ [Next]_vars => Held'
<1> SUFFICES ASSUME TypeOK, Filled, Held, [Next]_vars PROVE Held'
  OBVIOUS
<1> USE NoneIsNoSlot
<1>1. CASE UNCHANGED vars
  BY <1>1 DEF vars, Held
<1>2. ASSUME NEW e \in Events, Emit(e) PROVE Held'
  BY <1>2, Enqueued DEF Emit, Held
<1>3. ASSUME NEW s \in Slots, Insertion(s) PROVE Held'
  <2>1. CASE Read(s)
    BY <2>1, Shapes DEF Read, Held, Unlocked
  <2>2. CASE Commit(s)
    BY <2>2, Shapes DEF Commit, Held, IdleSlot
  <2>3. CASE Fail(s)
    BY <2>3, Shapes DEF Fail, Held, IdleSlot
  <2>4. CASE Complete(s)
    BY <2>4, Shapes DEF Complete, Release, Held, IdleSlot
  <2>5. CASE GiveUp(s)
    <3>1. rows' = rows /\ chainLock' = chainLock
      BY <2>5 DEF GiveUp
    <3>2. slot'[s].at # "write"
      BY <2>5, GivenUp, Shapes DEF ToPark
    <3> QED BY <2>5, <3>1, <3>2, GivenUp DEF Held
  <2>6. CASE Park(s)
    BY <2>6, Shapes DEF Park, Release, Held, IdleSlot
  <2> QED BY <1>3, <2>1, <2>2, <2>3, <2>4, <2>5, <2>6 DEF Insertion
<1>4. ASSUME NEW s \in Slots, NEW j \in Jobs, Take(s, j) PROVE Held'
  <3>1. job[j].event \in Events
    BY <1>4 DEF Take, Filled
  <3> QED BY <1>4, <3>1, BeginSlot DEF Take, Held
<1>5. ASSUME NEW j \in Jobs, Stall(j) PROVE Held'
  BY <1>5, Shapes DEF Stall, Held, IdleSlot
<1>6. CASE SweepStart
  BY <1>6, Shapes DEF SweepStart, Held, IdleSlot
<1>7. CASE SweepLine
  <3>1. Head(lines) \in Events
    BY <1>7 DEF SweepLine, TypeOK
  <3> QED BY <1>7, <3>1, Enqueued DEF SweepLine, Held
<1>8. CASE Crash
  BY <1>8, Shapes DEF Crash, Held, IdleSlot
<1> QED BY <1>1, <1>2, <1>3, <1>4, <1>5, <1>6, <1>7, <1>8 DEF Next

\* A row is appended under the lock, with the hash of the row before it.
LEMMA StepChain ==
  TypeOK /\ Filled /\ Held /\ ChainIntact /\ [Next]_vars => ChainIntact'
<1> SUFFICES ASSUME TypeOK, Filled, Held, ChainIntact, [Next]_vars PROVE ChainIntact'
  OBVIOUS
<1>1. CASE rows' = rows
  BY <1>1 DEF ChainIntact
<1>2. ASSUME NEW s \in Slots, slot[s].at = "write", Insert(s) PROVE ChainIntact'
  <2>1. slot[s].event \in Events /\ slot[s].prev = Len(rows)
    BY <1>2 DEF Filled, Held
  <2>2. /\ Len(rows) \in Nat /\ DOMAIN rows = 1 .. Len(rows)
        /\ DOMAIN rows' = 1 .. Len(rows) + 1
        /\ rows'[Len(rows) + 1] = [event |-> slot[s].event, prev |-> slot[s].prev]
        /\ \A i \in DOMAIN rows : rows'[i] = rows[i]
    BY <1>2, <2>1, Inserted, Shapes
  <2> SUFFICES ASSUME NEW i \in DOMAIN rows' PROVE rows'[i].prev = i - 1
    BY DEF ChainIntact
  <2>3. CASE i = Len(rows) + 1
    BY <2>1, <2>2, <2>3
  <2>4. CASE i \in DOMAIN rows
    BY <2>2, <2>4 DEF ChainIntact
  <2> QED BY <2>2, <2>3, <2>4
<1>3. \/ rows' = rows
      \/ \E s \in Slots : slot[s].at = "write" /\ Insert(s)
  BY DEF Next, vars, Emit, Insertion, Read, Commit, Fail, Complete, GiveUp, Park,
         Take, Stall, SweepStart, SweepLine, Crash
<1> QED BY <1>1, <1>2, <1>3

\* A job is held by one slot at most, which is inserting its event.
LEMMA StepHolding == TypeOK /\ Filled /\ Holding /\ [Next]_vars => Holding'
<1> SUFFICES ASSUME TypeOK, Filled, Holding, [Next]_vars PROVE Holding'
  OBVIOUS
<1> USE NoneIsNoSlot
<1>1. CASE UNCHANGED vars
  BY <1>1 DEF vars, Holding
<1>2. ASSUME NEW e \in Events, Emit(e) PROVE Holding'
  BY <1>2, Enqueued, Shapes DEF Emit, Holding
<1>3. ASSUME NEW s \in Slots, Insertion(s) PROVE Holding'
  <2>1. CASE Read(s)
    BY <2>1, Shapes DEF Read, Holding, SlotType
  <2>2. CASE Commit(s)
    BY <2>2, Shapes DEF Commit, Holding, SlotType
  <2>3. CASE Fail(s)
    BY <2>3, Shapes DEF Fail, Holding, SlotType
  <2>4. CASE Complete(s)
    <3>1. \A t \in Slots \ {s} : slot'[t] = slot[t]
      BY <2>4, Shapes DEF Complete, Release
    <3>2. /\ \A i \in Jobs : job'[i] = job[i] \/ job'[i] = FreeJob
          /\ \A i \in Jobs : job'[i].holder # s
      BY <2>4, Shapes DEF Complete, Holds, Evicted, Holding
    <3> QED BY <3>1, <3>2, Shapes DEF Holding
  <2>5. CASE GiveUp(s)
    <3>1. \A i \in Jobs : job'[i] = job[i] \/ job'[i].holder = None
      BY <2>5, GivenUp, Shapes
    <3>2. \A i \in Jobs : job'[i].holder # s
      <4>1. CASE \E j \in Jobs : /\ Holds(s, j) /\ job'[j].holder = None
                                 /\ \A i \in Jobs \ {j} : job'[i] = job[i]
        BY <4>1 DEF Holds, Holding
      <4>2. CASE job' = job /\ slot[s].origin # "job"
        BY <4>2, Zenon DEF Holding
      <4>3. CASE job' = job /\ Evicted(s)
        BY <4>3 DEF Evicted, Holds, Holding
      <4> QED BY <2>5, GivenUp, <4>1, <4>2, <4>3
    <3> QED BY <2>5, <3>1, <3>2, GivenUp DEF Holding
  <2>6. CASE Park(s)
    <3>1. \A i \in Jobs : job'[i] = job[i] /\ job[i].holder # s
      BY <2>6 DEF Park, Holding
    <3> QED BY <2>6, <3>1, Shapes DEF Park, Release, Holding
  <2> QED BY <1>3, <2>1, <2>2, <2>3, <2>4, <2>5, <2>6 DEF Insertion
<1>4. ASSUME NEW s \in Slots, NEW j \in Jobs, Take(s, j) PROVE Holding'
  <3>1. job[j].event \in Events
    BY <1>4 DEF Take, Filled
  <3>2. /\ job'[j].holder = s /\ job'[j].state = "active" /\ job'[j].event = job[j].event
        /\ \A i \in Jobs \ {j} : job'[i] = job[i]
    BY <1>4, Shapes DEF Take, JobType
  <3>3. \A i \in Jobs : job[i].holder # s
    BY <1>4, <3>1, BeginSlot DEF Take, Holding
  <3>4. /\ slot'[s].at = "lock" /\ slot'[s].origin = "job" /\ slot'[s].event = job[j].event
        /\ \A t \in Slots \ {s} : slot'[t] = slot[t]
    BY <1>4, <3>1, BeginSlot DEF Take
  <3> SUFFICES ASSUME NEW i \in Jobs, NEW t \in Slots, job'[i].holder = t
               PROVE  /\ job'[i].state = "active"
                      /\ slot'[t].at \in {"lock", "write", "inserted", "failed"}
                      /\ slot'[t].origin = "job" /\ slot'[t].event = job'[i].event
                      /\ \A k \in Jobs : job'[k].holder = t => i = k
    BY DEF Holding
  <3>5. CASE i = j
    BY <3>2, <3>3, <3>4, <3>5
  <3>6. CASE i # j
    BY <3>2, <3>3, <3>4, <3>6 DEF Holding
  <3> QED BY <3>5, <3>6
<1>5. ASSUME NEW j \in Jobs, Stall(j) PROVE Holding'
  <3>1. slot' = slot
    BY <1>5 DEF Stall
  <3> QED BY <3>1, <1>5, Stalled, Shapes DEF Holding
<1>6. CASE SweepStart
  BY <1>6, Shapes DEF SweepStart, Holding, SlotType
<1>7. CASE SweepLine
  <3>1. Head(lines) \in Events
    BY <1>7 DEF SweepLine, TypeOK
  <3> QED BY <1>7, <3>1, Enqueued, Shapes DEF SweepLine, Holding
<1>8. CASE Crash
  <3>1. \A i \in Jobs : job'[i].holder = None
    BY <1>8, Shapes DEF Crash, JobType
  <3> QED BY <3>1 DEF Holding
<1> QED BY <1>1, <1>2, <1>3, <1>4, <1>5, <1>6, <1>7, <1>8 DEF Next

\* What a slot has inserted is in the table.
LEMMA StepWritten == TypeOK /\ Filled /\ Written /\ [Next]_vars => Written'
<1> SUFFICES ASSUME TypeOK, Filled, Written, [Next]_vars PROVE Written'
  OBVIOUS
<1>1. CASE UNCHANGED vars
  BY <1>1 DEF vars, Written, Logged
<1>2. ASSUME NEW e \in Events, Emit(e) PROVE Written'
  BY <1>2, Enqueued DEF Emit, Written, Logged
<1>3. ASSUME NEW s \in Slots, Insertion(s) PROVE Written'
  <2>1. CASE Read(s)
    BY <2>1, Shapes DEF Read, Written, Logged, SlotType
  <2>2. CASE Commit(s)
    <3>1. slot[s].event \in Events
      BY <2>2 DEF Commit, Filled
    <3>2. Logged \subseteq Logged'
      BY <2>2, <3>1, Inserted, Shapes DEF Commit, Logged
    <3>5. slot[s].event \in Logged'
      <4>1. /\ Len(rows) + 1 \in DOMAIN rows'
            /\ rows'[Len(rows) + 1].event = slot[s].event
        <5>1. Insert(s)
          BY <2>2 DEF Commit
        <5>2. DOMAIN rows' = 1 .. Len(rows) + 1 /\ Len(rows) \in Nat
          BY <3>1, <5>1, Inserted, Shapes
        <5>3. rows'[Len(rows) + 1] = [event |-> slot[s].event, prev |-> slot[s].prev]
          BY <3>1, <5>1, Inserted
        <5> QED BY <5>2, <5>3
      <4> QED BY <4>1 DEF Logged
    <3>3. \A t \in Slots \ {s} : slot'[t] = slot[t]
      BY <2>2, Shapes DEF Commit
    <3>4. slot'[s].event = slot[s].event
      BY <2>2, Shapes DEF Commit, SlotType
    <3> QED BY <3>2, <3>3, <3>4, <3>5 DEF Written
  <2>3. CASE Fail(s)
    <3>1. slot[s].event \in Events
      BY <2>3 DEF Fail, Filled
    <3>2. Logged \subseteq Logged'
      BY <2>3, <3>1, Inserted, Shapes DEF Fail, Logged
    <3>3. \A t \in Slots \ {s} : slot'[t] = slot[t]
      BY <2>3, Shapes DEF Fail
    <3>4. slot'[s].at = "failed"
      BY <2>3, Shapes DEF Fail, SlotType
    <3> QED BY <3>2, <3>3, <3>4 DEF Written
  <2>4. CASE Complete(s)
    BY <2>4, Shapes DEF Complete, Release, Written, Logged, SlotType
  <2>5. CASE GiveUp(s)
    <3>1. rows' = rows /\ slot'[s].at # "inserted"
      BY <2>5, GivenUp, Shapes DEF GiveUp, ToPark
    <3> QED BY <2>5, <3>1, GivenUp DEF Written, Logged
  <2>6. CASE Park(s)
    <3>1. rows' = rows /\ slot'[s].at = "idle"
      BY <2>6, Shapes DEF Park, Release
    <3>2. \A t \in Slots \ {s} : slot'[t] = slot[t]
      BY <2>6, Shapes DEF Park, Release
    <3> QED BY <3>1, <3>2 DEF Written, Logged
  <2> QED BY <1>3, <2>1, <2>2, <2>3, <2>4, <2>5, <2>6 DEF Insertion
<1>4. ASSUME NEW s \in Slots, NEW j \in Jobs, Take(s, j) PROVE Written'
  <3>1. job[j].event \in Events
    BY <1>4 DEF Take, Filled
  <3> QED BY <1>4, <3>1, BeginSlot DEF Take, Written, Logged
<1>5. ASSUME NEW j \in Jobs, Stall(j) PROVE Written'
  <3>1. slot' = slot /\ rows' = rows
    BY <1>5 DEF Stall
  <3> QED BY <3>1 DEF Written, Logged
<1>6. CASE SweepStart
  BY <1>6, Shapes DEF SweepStart, Written, Logged, SlotType
<1>7. CASE SweepLine
  <3>1. Head(lines) \in Events
    BY <1>7 DEF SweepLine, TypeOK
  <3> QED BY <1>7, <3>1, Enqueued DEF SweepLine, Written, Logged
<1>8. CASE Crash
  <3>1. \A t \in Slots : slot'[t].at = "idle"
    BY <1>8 DEF Crash, IdleSlot
  <3> QED BY <3>1 DEF Written
<1> QED BY <1>1, <1>2, <1>3, <1>4, <1>5, <1>6, <1>7, <1>8 DEF Next

\* A sweep that has not started has no lines.
LEMMA StepWaiting == Waiting /\ [Next]_vars => Waiting'
BY DEF Next, vars, Emit, Insertion, Read, Commit, Fail, Complete, GiveUp, Park, Take,
   Stall, SweepStart, SweepLine, Crash, Waiting

\* No event that is kept somewhere is lost by a step.
LEMMA StepKept ==
  ASSUME TypeOK, Filled, Holding, Written, Waiting, [Next]_vars, NEW x \in Events, Kept(x)
  PROVE  Kept(x)'
<1>1. CASE UNCHANGED vars
  BY <1>1 DEF vars, Kept, Owner
<1>2. ASSUME NEW e \in Events, Emit(e) PROVE Kept(x)'
  BY <1>2, Enqueued DEF Emit, Kept, Owner
<1>3. ASSUME NEW s \in Slots, Insertion(s) PROVE Kept(x)'
  <2>1. CASE Read(s)
    BY <2>1, Shapes DEF Read, Kept, Owner, SlotType
  <2>2. CASE Commit(s)
    <3>1. slot[s].event \in Events /\ Insert(s)
      BY <2>2 DEF Commit, Filled
    <3>2. \A t \in Slots : Owner(t) => Owner(t)' /\ slot'[t].event = slot[t].event
      BY <2>2, Shapes DEF Commit, SlotType, Owner
    <3> QED BY <2>2, <3>1, <3>2, Inserted DEF Commit, Kept
  <2>3. CASE Fail(s)
    <3>1. \A i \in DOMAIN rows : i \in DOMAIN rows' /\ rows'[i] = rows[i]
      <4>1. slot[s].event \in Events
        BY <2>3 DEF Fail, Filled
      <4> QED BY <2>3, <4>1, Inserted DEF Fail
    <3>2. \A t \in Slots : Owner(t) => Owner(t)' /\ slot'[t].event = slot[t].event
      BY <2>3, Shapes DEF Fail, SlotType, Owner
    <3> QED BY <2>3, <3>1, <3>2 DEF Fail, Kept
  <2>4. CASE Complete(s)
    <3>1. \E i \in DOMAIN rows : rows[i].event = slot[s].event
      BY <2>4 DEF Complete, Written, Logged
    <3>2. \A i \in Jobs : job'[i] = job[i] \/ job[i].event = slot[s].event
      BY <2>4, Shapes DEF Complete, Holds, Holding
    <3>3. \A t \in Slots : t # s => slot'[t] = slot[t]
      BY <2>4, Shapes DEF Complete, Release
    <3> QED BY <2>4, <3>1, <3>2, <3>3 DEF Complete, Kept, Owner
  <2>5. CASE GiveUp(s)
    <3>1. \A t \in Slots : Owner(t) => Owner(t)' /\ slot'[t].event = slot[t].event
      <4>1. \A i \in Jobs : Holds(s, i) => slot[s].origin = "job"
        BY DEF Holds, Holding
      <4>2. slot[s].at = "failed"
        BY <2>5 DEF GiveUp
      <4>3. Owner(s) => ToPark(s)
        BY <2>5, <4>1, <4>2, GivenUp DEF Owner, Evicted
      <4>4. ASSUME NEW t \in Slots, Owner(t), t # s
            PROVE  Owner(t)' /\ slot'[t].event = slot[t].event
        BY <2>5, <4>4, GivenUp DEF Owner
      <4>5. Owner(s) => Owner(s)' /\ slot'[s].event = slot[s].event
        BY <4>3 DEF Owner, ToPark
      <4> QED BY <4>4, <4>5, Zenon
    <3>2. \A i \in Jobs : job[i].state # "free" =>
            \/ job'[i].state # "free" /\ job'[i].event = job[i].event
            \/ slot'[s].at = "park" /\ slot'[s].event = job[i].event
      <4>1. \A i \in Jobs : Holds(s, i) => job[i].event = slot[s].event
        BY DEF Holds, Holding
      <4> QED BY <2>5, <4>1, GivenUp DEF ToPark
    <3>3. /\ rows' = rows /\ file' = file /\ lines' = lines
          /\ orphaned' = orphaned /\ dropped' = dropped
      BY <2>5 DEF GiveUp
    <3> QED BY <3>1, <3>2, <3>3 DEF Kept, Owner
  <2>6. CASE Park(s)
    <3>1. \/ file' = Append(file, slot[s].event) /\ dropped' = dropped
          \/ file' = file /\ dropped' = dropped \cup {slot[s].event}
      BY <2>6 DEF Park
    <3>2. /\ \A i \in DOMAIN file : i \in DOMAIN file' /\ file'[i] = file[i]
          /\ \/ \E i \in DOMAIN file' : file'[i] = slot[s].event
             \/ slot[s].event \in dropped'
      <4>1. file \in Seq(Events) /\ slot[s].event \in Events
        BY <2>6 DEF TypeOK, Park, Filled
      <4> QED BY <3>1, <4>1
    <3>3. \A t \in Slots \ {s} : slot'[t] = slot[t]
      BY <2>6, Shapes DEF Park, Release
    <3>4. dropped \subseteq dropped'
      BY <3>1, Zenon
    <3>5. rows' = rows /\ job' = job /\ lines' = lines /\ orphaned' = orphaned
      BY <2>6 DEF Park
    <3> QED BY <3>2, <3>3, <3>4, <3>5 DEF Kept, Owner
  <2> QED BY <1>3, <2>1, <2>2, <2>3, <2>4, <2>5, <2>6 DEF Insertion
<1>4. ASSUME NEW s \in Slots, NEW j \in Jobs, Take(s, j) PROVE Kept(x)'
  <3>1. job[j].event \in Events
    BY <1>4 DEF Take, Filled
  <3>2. \A i \in Jobs : job[i].state # "free" =>
          job'[i].state # "free" /\ job'[i].event = job[i].event
    BY <1>4, Shapes DEF Take, JobType
  <3>3. \A t \in Slots : slot[t].at # "idle" => slot'[t] = slot[t]
    BY <1>4, <3>1, BeginSlot DEF Take
  <3> QED BY <1>4, <3>2, <3>3 DEF Take, Kept, Owner
<1>5. ASSUME NEW j \in Jobs, Stall(j) PROVE Kept(x)'
  <3>1. /\ rows' = rows /\ slot' = slot /\ file' = file /\ lines' = lines
        /\ orphaned' = orphaned
    BY <1>5 DEF Stall
  <3>2. \A i \in Jobs : job[i].state # "free" =>
          \/ job'[i].state # "free" /\ job'[i].event = job[i].event
          \/ job[i].event \in dropped'
    BY <1>5, Stalled
  <3>3. dropped \subseteq dropped'
    BY <1>5, Stalled
  <3> QED BY <3>1, <3>2, <3>3 DEF Kept, Owner
<1>6. CASE SweepStart
  BY <1>6 DEF SweepStart, Waiting, Kept, Owner
<1>7. CASE SweepLine
  <3>1. Head(lines) \in Events /\ lines # <<>> /\ lines \in Seq(Events)
    BY <1>7 DEF SweepLine, TypeOK
  <3>2. \A i \in DOMAIN lines :
          lines[i] = Head(lines) \/ \E k \in DOMAIN lines' : lines'[k] = lines[i]
    <4>1. ASSUME NEW i \in DOMAIN lines, i # 1
          PROVE  i - 1 \in DOMAIN lines' /\ lines'[i - 1] = lines[i]
      BY <1>7, <3>1, <4>1 DEF SweepLine
    <4> QED BY <3>1, <4>1
  <3>3. ASSUME x = Head(lines) PROVE Kept(x)'
    BY <1>7, <3>1, <3>3, Enqueued DEF SweepLine, Kept, Owner
  <3> QED BY <1>7, <3>1, <3>2, <3>3, Enqueued DEF SweepLine, Kept, Owner
<1>8. CASE Crash
  <3>1. rows' = rows /\ file' = file /\ dropped \subseteq dropped'
    BY <1>8 DEF Crash
  <3>2. \A i \in Jobs : job'[i].state = job[i].state /\ job'[i].event = job[i].event
    BY <1>8, Shapes DEF Crash, JobType
  <3>3. \A t \in Slots : Owner(t) => slot[t].event \in dropped'
    BY <1>8 DEF Crash, Owner
  <3>4. orphaned \subseteq orphaned' /\ \A i \in DOMAIN lines : lines[i] \in orphaned'
    BY <1>8 DEF Crash, Lines
  <3> QED BY <3>1, <3>2, <3>3, <3>4 DEF Kept
<1> QED BY <1>1, <1>2, <1>3, <1>4, <1>5, <1>6, <1>7, <1>8 DEF Next

\* An emitted event is kept somewhere at once.
LEMMA StepEmit ==
  ASSUME TypeOK, NEW e \in Events, Emit(e) PROVE Kept(e)'
BY Enqueued DEF Emit, Kept, Owner
-----------------------------------------------------------------------------
LEMMA InitInv == Init => Inv
<1> SUFFICES ASSUME Init PROVE Inv
  OBVIOUS
<1>1. TypeOK
  BY AttemptsPositive DEF Init, TypeOK, IdleSlot, FreeJob
<1>2. Filled /\ Held /\ Written /\ ChainIntact /\ Waiting
  BY DEF Init, Filled, Held, Written, Waiting, ChainIntact, IdleSlot, FreeJob
<1>3. Holding
  BY NoneIsNoSlot DEF Init, Holding, FreeJob
<1>4. \A e \in emitted : Kept(e)
  BY DEF Init
<1> QED BY <1>1, <1>2, <1>3, <1>4 DEF Inv

LEMMA InvNext == ASSUME Inv, [Next]_vars PROVE Inv'
<1>1. TypeOK' /\ Filled' /\ Held' /\ ChainIntact'
  BY StepType, StepFilled, StepHeld, StepChain DEF Inv
<1>2. Holding' /\ Written' /\ Waiting'
  BY StepHolding, StepWritten, StepWaiting DEF Inv
<1>3. ASSUME NEW x \in emitted' PROVE Kept(x)'
  <2>1. CASE x \in emitted
    BY <2>1, StepKept DEF Inv, TypeOK
  <2>2. CASE x \notin emitted
    <3>1. x \in Events /\ Emit(x)
      BY <2>2 DEF Next, vars, Emit, Insertion, Read, Commit, Fail, Complete, GiveUp,
         Park, Take, Stall, SweepStart, SweepLine, Crash
    <3> QED BY <3>1, StepEmit DEF Inv
  <2> QED BY <2>1, <2>2
<1> QED BY <1>1, <1>2, <1>3 DEF Inv

\* The inductive invariant holds in every state.
THEOREM InvHolds == Spec => []Inv
<1>1. Inv /\ [Next]_vars => Inv'
  BY InvNext
<1> QED BY InitInv, <1>1, PTL DEF Spec

\* Every variable of the audit log keeps its shape.
THEOREM AuditTyped == Spec => []TypeOK
<1>1. Inv => TypeOK
  BY DEF Inv
<1> QED BY InvHolds, <1>1, PTL

\* The hash chain of audit_logs has no break, whatever workers, requests and
\* sweeps insert at the same time and whatever transactions fail.
THEOREM ChainUnbroken == Spec => []ChainIntact
<1>1. Inv => ChainIntact
  BY DEF Inv
<1> QED BY InvHolds, <1>1, PTL

\* No emitted event disappears except where the code gives it up.
THEOREM EventsAccounted == Spec => []Accounted
<1>1. Inv => Accounted
  <2> SUFFICES ASSUME Inv, NEW e \in emitted
               PROVE  e \in Logged \cup Queued \cup InHand \cup Parked \cup dropped
    BY DEF Accounted
  <2>1. Kept(e)
    BY DEF Inv
  <2> QED BY <2>1 DEF Kept, Owner, Logged, Queued, InHand, Parked, Lines
<1> QED BY InvHolds, <1>1, PTL
-----------------------------------------------------------------------------
(* The promise of AuditTrail.  No step but Emit makes an event owed (the   *)
(* lemmas about Owes), so that what is owed was emitted; with the account  *)
(* of events, an event that is no longer owed is logged or dropped.        *)

Owes(e) ==
  \/ \E j \in Jobs : job[j].state # "free" /\ job[j].event = e
  \/ \E s \in Slots : slot[s].at # "idle" /\ slot[s].event = e
  \/ \E i \in DOMAIN file : file[i] = e
  \/ \E i \in DOMAIN lines : lines[i] = e
  \/ e \in orphaned

OwedWasEmitted == Owed \subseteq emitted

TrailInv == Inv /\ OwedWasEmitted

LEMMA OwedIs == \A e : e \in Owed <=> Owes(e)
BY DEF Owed, Owes, Queued, InHand, Parked, Lines

LEMMA OwedNextIs == \A e : e \in Owed' <=> Owes(e)'
BY DEF Owed, Owes, Queued, InHand, Parked, Lines

\* An emission makes its event owed, and no other.
LEMMA EmitOwes ==
  ASSUME TypeOK, NEW e \in Events, Emit(e)
  PROVE  Owed' = Owed \cup {e}
<1>1. ASSUME NEW x PROVE Owes(x)' <=> Owes(x) \/ x = e
  BY Enqueued DEF Emit, Owes
<1> QED BY <1>1, OwedIs, OwedNextIs

\* An insertion that writes its row keeps its event.
LEMMA InsertOwes ==
  ASSUME TypeOK, Filled, NEW s \in Slots, Commit(s) \/ Fail(s)
  PROVE  Owed' = Owed
<1>1. /\ slot'[s].at # "idle" /\ slot[s].at # "idle" /\ slot'[s].event = slot[s].event
      /\ \A t \in Slots \ {s} : slot'[t] = slot[t]
  BY Shapes DEF Commit, Fail, SlotType
<1>2. job' = job /\ file' = file /\ lines' = lines /\ orphaned' = orphaned
  BY DEF Commit, Fail
<1>3. ASSUME NEW x PROVE Owes(x)' <=> Owes(x)
  BY <1>1, <1>2 DEF Owes
<1> QED BY <1>3, OwedIs, OwedNextIs

LEMMA InsertionOwes ==
  ASSUME TypeOK, Filled, NEW s \in Slots, Insertion(s), NEW x, Owes(x)'
  PROVE  Owes(x)
<1>1. CASE Read(s)
  <2>1. /\ slot'[s].event = slot[s].event /\ slot[s].at # "idle"
        /\ \A t \in Slots \ {s} : slot'[t] = slot[t]
    BY <1>1, Shapes DEF Read, SlotType
  <2> QED BY <1>1, <2>1 DEF Read, Owes
<1>2. CASE Commit(s) \/ Fail(s)
  BY <1>2, InsertOwes, OwedIs, OwedNextIs
<1>3. CASE Complete(s)
  <2>1. \A t \in Slots : slot'[t] = slot[t] \/ slot'[t].at = "idle"
    BY <1>3, Shapes DEF Complete, Release
  <2>2. \A j \in Jobs : job'[j] = job[j] \/ job'[j].state = "free"
    BY <1>3, Shapes DEF Complete
  <2> QED BY <1>3, <2>1, <2>2 DEF Complete, Owes
<1>4. CASE GiveUp(s)
  <2>1. /\ slot'[s].at = "idle" \/ slot'[s].event = slot[s].event
        /\ \A t \in Slots \ {s} : slot'[t] = slot[t]
    BY <1>4, GivenUp, Shapes DEF GiveUp, ToPark
  <2>2. \A j \in Jobs : \/ job'[j] = job[j] \/ job'[j].state = "free"
                        \/ job[j].state # "free" /\ job'[j].event = job[j].event
    BY <1>4, GivenUp, Shapes DEF Holds
  <2>3. file' = file /\ lines' = lines /\ orphaned' = orphaned
    BY <1>4 DEF GiveUp
  <2>4. slot[s].at # "idle"
    BY <1>4 DEF GiveUp
  <2> QED BY <2>1, <2>2, <2>3, <2>4 DEF Owes
<1>5. CASE Park(s)
  <2>1. /\ slot[s].at # "idle" /\ slot[s].event \in Events
        /\ \A t \in Slots : slot'[t] = slot[t] \/ slot'[t].at = "idle"
    BY <1>5, Shapes DEF Park, Release, Filled
  <2>2. \A i \in DOMAIN file' : file'[i] = slot[s].event \/ \E k \in DOMAIN file : file[k] = file'[i]
    <3>1. file' = Append(file, slot[s].event) \/ file' = file
      BY <1>5, Zenon DEF Park
    <3>2. CASE file' = file
      BY <3>2
    <3>3. CASE file' = Append(file, slot[s].event)
      <4>1. /\ Len(file) \in Nat /\ DOMAIN file = 1 .. Len(file)
            /\ DOMAIN file' = 1 .. Len(file) + 1
            /\ \A i \in 1 .. Len(file) : file'[i] = file[i]
            /\ file'[Len(file) + 1] = slot[s].event
        BY <2>1, <3>3 DEF TypeOK
      <4>2. \A i \in 1 .. Len(file) + 1 : i \in 1 .. Len(file) \/ i = Len(file) + 1
        BY <4>1
      <4> QED BY <4>1, <4>2, Zenon
    <3> QED BY <3>1, <3>2, <3>3
  <2>3. job' = job /\ lines' = lines /\ orphaned' = orphaned
    BY <1>5 DEF Park
  <2> QED BY <2>1, <2>2, <2>3 DEF Owes
<1> QED BY <1>1, <1>2, <1>3, <1>4, <1>5 DEF Insertion

LEMMA OthersOwe ==
  ASSUME TypeOK, Filled, NEW x, Owes(x)',
         \/ \E s \in Slots, j \in Jobs : Take(s, j)
         \/ \E j \in Jobs : Stall(j)
         \/ SweepStart \/ SweepLine \/ Crash \/ UNCHANGED vars
  PROVE  Owes(x)
<1>1. ASSUME NEW s \in Slots, NEW j \in Jobs, Take(s, j) PROVE Owes(x)
  <2>1. job[j].event \in Events /\ job[j].state # "free"
    BY <1>1 DEF Take, Filled
  <2>2. /\ slot'[s].event = job[j].event
        /\ \A t \in Slots \ {s} : slot'[t] = slot[t]
    BY <1>1, <2>1, BeginSlot DEF Take
  <2>3. \A i \in Jobs : job'[i] = job[i] \/ (i = j /\ job'[i].event = job[j].event)
    BY <1>1, Shapes DEF Take, JobType
  <2> QED BY <1>1, <2>1, <2>2, <2>3 DEF Take, Owes
<1>2. ASSUME NEW j \in Jobs, Stall(j) PROVE Owes(x)
  <2>1. \A i \in Jobs : \/ job'[i] = job[i] \/ job'[i].state = "free"
                        \/ job[i].state # "free" /\ job'[i].event = job[i].event
    BY <1>2, Stalled, Shapes
  <2>2. slot' = slot /\ file' = file /\ lines' = lines /\ orphaned' = orphaned
    BY <1>2 DEF Stall
  <2> QED BY <2>1, <2>2 DEF Owes
<1>3. CASE SweepStart
  BY <1>3 DEF SweepStart, Owes
<1>4. CASE SweepLine
  <2>1. Head(lines) \in Events /\ lines # <<>> /\ lines \in Seq(Events)
    BY <1>4 DEF SweepLine, TypeOK
  <2>2. 1 \in DOMAIN lines /\ lines[1] = Head(lines)
    BY <2>1
  <2>3. \A i \in DOMAIN lines' : i + 1 \in DOMAIN lines /\ lines'[i] = lines[i + 1]
    BY <1>4, <2>1 DEF SweepLine
  <2>4. /\ \A t \in Slots : slot'[t] = slot[t] \/ slot'[t].event = Head(lines)
        /\ \A j \in Jobs : job'[j] = job[j] \/ job'[j].event = Head(lines)
    BY <1>4, <2>1, Enqueued DEF SweepLine
  <2>5. file' = file /\ orphaned' = orphaned
    BY <1>4 DEF SweepLine
  <2> QED BY <2>2, <2>3, <2>4, <2>5 DEF Owes
<1>5. CASE Crash
  <2>1. \A t \in Slots : slot'[t].at = "idle"
    BY <1>5 DEF Crash, IdleSlot
  <2>2. \A j \in Jobs : job'[j].state = job[j].state /\ job'[j].event = job[j].event
    BY <1>5, Shapes DEF Crash, JobType
  <2>3. file' = file /\ DOMAIN lines' = {} /\ orphaned' = orphaned \cup Lines(lines)
    BY <1>5 DEF Crash
  <2> QED BY <2>1, <2>2, <2>3 DEF Owes, Lines
<1>6. CASE UNCHANGED vars
  BY <1>6 DEF vars, Owes
<1> QED BY <1>1, <1>2, <1>3, <1>4, <1>5, <1>6

\* What a step drops was owed.
LEMMA DropsOwed ==
  ASSUME TypeOK, [Next]_vars
  PROVE  dropped \subseteq dropped' /\ dropped' \subseteq dropped \cup Owed
<1>1. ASSUME NEW s \in Slots, Park(s)
      PROVE  dropped \subseteq dropped' /\ dropped' \subseteq dropped \cup Owed
  <2>1. dropped' = dropped \cup {slot[s].event} \/ dropped' = dropped
    BY <1>1, Zenon DEF Park
  <2>2. slot[s].event \in Owed
    BY <1>1, OwedIs DEF Park, Owes
  <2> QED BY <2>1, <2>2
<1>2. ASSUME NEW j \in Jobs, Stall(j)
      PROVE  dropped \subseteq dropped' /\ dropped' \subseteq dropped \cup Owed
  <2>1. dropped' = dropped \cup {job[j].event} \/ dropped' = dropped
    BY <1>2, Stalled
  <2>2. job[j].event \in Owed
    BY <1>2, OwedIs DEF Stall, Owes
  <2> QED BY <2>1, <2>2
<1>3. CASE Crash
  BY <1>3, OwedIs DEF Crash, Owes
<1>4. CASE dropped' = dropped
  BY <1>4
<1>5. \/ dropped' = dropped \/ Crash
      \/ \E s \in Slots : Park(s)
      \/ \E j \in Jobs : Stall(j)
  BY DEF Next, vars, Emit, Insertion, Read, Commit, Fail, Complete, GiveUp, Take,
         SweepStart, SweepLine
<1> QED BY <1>1, <1>2, <1>3, <1>4, <1>5

LEMMA LostIsAccounted ==
  ASSUME TrailInv, Inv', UNCHANGED emitted
  PROVE  Owed \ Owed' \subseteq Logged' \cup dropped'
<1> SUFFICES ASSUME NEW x \in Owed, x \notin Owed' PROVE x \in Logged' \cup dropped'
  OBVIOUS
<1>1. x \in emitted'
  BY DEF TrailInv, OwedWasEmitted
<1>2. Kept(x)'
  BY <1>1 DEF Inv
<1>3. ~Owes(x)'
  BY OwedNextIs
<1> QED BY <1>2, <1>3 DEF Kept, Owes, Owner, Logged

LEMMA TrailStep ==
  ASSUME TrailInv, [Next]_vars
  PROVE  OwedWasEmitted' /\ [Trail!Next]_(Trail!vars)
<1> USE DEF TrailInv
<1>1. Inv'
  BY InvNext
<1>2. ASSUME NEW e \in Events, Emit(e) PROVE OwedWasEmitted' /\ Trail!Emit(e)
  <2>1. /\ e \notin emitted /\ emitted' = emitted \cup {e}
        /\ rows' = rows /\ dropped' = dropped
    BY <1>2 DEF Emit
  <2> QED BY <1>2, <2>1, EmitOwes DEF Inv, OwedWasEmitted, Trail!Emit
<1>3. ASSUME NEW s \in Slots, Commit(s) \/ Fail(s), Insert(s), slot[s].at = "write"
      PROVE  OwedWasEmitted' /\ Trail!Write(slot[s].event) /\ slot[s].event \in Events
  <2>1. /\ slot[s].event \in Events /\ slot[s].prev = Len(rows)
        /\ slot[s].event \in Owed
    BY <1>3, OwedIs DEF Inv, Filled, Held, Owes
  <2>2. Owed' = Owed
    BY <1>3, InsertOwes DEF Inv
  <2>3. emitted' = emitted /\ dropped' = dropped
    BY <1>3 DEF Commit, Fail
  <2> QED BY <1>3, <2>1, <2>2, <2>3 DEF Insert, OwedWasEmitted, Trail!Write
<1>4. ASSUME Owed' \subseteq Owed, UNCHANGED <<emitted, rows>>
      PROVE  OwedWasEmitted' /\ Trail!Settle
  <2>1. dropped \subseteq dropped' /\ dropped' \subseteq dropped \cup Owed
    BY DropsOwed DEF Inv
  <2>2. Owed \ Owed' \subseteq Logged' \cup dropped'
    BY <1>1, <1>4, LostIsAccounted
  <2>3. Trail!Written = Logged'
    BY <1>4 DEF Trail!Written, Logged
  <2> QED BY <1>4, <2>1, <2>2, <2>3 DEF OwedWasEmitted, Trail!Settle
<1>5. ASSUME NEW s \in Slots, Insertion(s)
      PROVE  OwedWasEmitted' /\ [Trail!Next]_(Trail!vars)
  <2>1. Owed' \subseteq Owed
    BY <1>5, InsertionOwes, OwedIs, OwedNextIs DEF Inv
  <2>2. emitted' = emitted
    BY <1>5 DEF Insertion, Read, Commit, Fail, Complete, GiveUp, Park
  <2>3. rows' = rows \/ ((Commit(s) \/ Fail(s)) /\ Insert(s) /\ slot[s].at = "write")
    BY <1>5 DEF Insertion, Read, Commit, Fail, Complete, GiveUp, Park
  <2>4. CASE rows' = rows
    BY <1>4, <2>1, <2>2, <2>4 DEF Trail!Next
  <2>5. CASE (Commit(s) \/ Fail(s)) /\ Insert(s) /\ slot[s].at = "write"
    BY <1>3, <2>5 DEF Trail!Next
  <2> QED BY <2>3, <2>4, <2>5
<1>6. ASSUME \/ \E s \in Slots, j \in Jobs : Take(s, j)
             \/ \E j \in Jobs : Stall(j)
             \/ SweepStart \/ SweepLine \/ Crash \/ UNCHANGED vars
      PROVE  OwedWasEmitted' /\ [Trail!Next]_(Trail!vars)
  <2>1. Owed' \subseteq Owed
    BY <1>6, OthersOwe, OwedIs, OwedNextIs DEF Inv
  <2>2. emitted' = emitted /\ rows' = rows
    BY <1>6 DEF Take, Stall, SweepStart, SweepLine, Crash, vars
  <2> QED BY <1>4, <2>1, <2>2 DEF Trail!Next
<1> QED BY <1>2, <1>5, <1>6 DEF Next, Trail!Next

LEMMA TrailInitial == Init => Trail!Init /\ OwedWasEmitted
<1> SUFFICES ASSUME Init PROVE Owed = {} /\ Trail!Init
  BY DEF OwedWasEmitted
<1>1. \A e : ~Owes(e)
  BY DEF Init, Owes, IdleSlot, FreeJob
<1>2. Owed = {}
  BY <1>1, OwedIs
<1> QED BY <1>2 DEF Init, Trail!Init

\* What the audit log owes is written or given up, and never owed again.
THEOREM LogKeepsTrail == Spec => TrailKept
<1>1. TrailInv /\ [Next]_vars => TrailInv' /\ [Trail!Next]_(Trail!vars)
  BY InvNext, TrailStep DEF TrailInv
<1>2. Init => TrailInv
  BY InitInv, TrailInitial DEF TrailInv
<1> QED BY <1>1, <1>2, TrailInitial, PTL DEF Spec, TrailKept, Trail!Spec
=============================================================================
