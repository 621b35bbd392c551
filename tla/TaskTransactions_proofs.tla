----------------------- MODULE TaskTransactions_proofs -----------------------
(***************************************************************************)
(* Locks, connections and counters of the transactions, for any finite     *)
(* number of requests and tasks, any pool and any jobs.                    *)
(*                                                                         *)
(* A counter is wrong only after writers that overlapped, because a lone   *)
(* writer of a case has counted what its commit will leave (LoneCounts),   *)
(* and a case that is not mixed has no other writers.                      *)
(***************************************************************************)
EXTENDS TaskTransactions, FiniteSetTheorems, TLAPS

Steps == {"idle", "connect", "read", "write", "case", "second", "recount", "backoff"}
Writing == {"write", "case"}

Record == [step : Steps, job : Jobs \cup {None}, at : Nat, conns : 0..2, attempt : Nat,
           own : SUBSET Tasks, counted : [Cases -> Nat \cup {None}], lone : SUBSET Cases]

TxType ==
  /\ done \subseteq Tasks /\ mixed \subseteq Cases
  /\ count \in [Cases -> Nat]
  /\ lock \in [Rows -> Requests \cup {None}]
  /\ req \in [Requests -> Record]

Holds(s) == CASE s \in {"idle", "connect"} -> 0
              [] s \in {"read", "write", "case", "second", "backoff"} -> 1
              [] s = "recount" -> 2

\* What a request holds and remembers at each step.
Shape(x) ==
  /\ x.conns = Holds(x.step)
  /\ x.step = "idle" => x = Idle
  /\ x.step # "idle" => x.job \in Jobs /\ x.at > 0
  /\ x.step = "case" => x.at <= Len(x.job.tasks)
  /\ x.step \notin Writing => x.own = {} /\ x.lone = {} /\ \A c \in Cases : x.counted[c] = None

Shapes == \A r \in Requests : Shape(req[r])

LocksHeld == \A row \in Rows : lock[row] # None => req[lock[row]].step \in Writing

\* A request has the locks of what it wrote, and has counted the cases it writes.
WritesLocked ==
  \A r \in Requests : /\ \A t \in req[r].own : lock[t] = r
                      /\ \A c \in Cases : req[r].counted[c] # None => r \in WritersOf(c)

LoneCounts ==
  \A r \in Requests : \A c \in req[r].lone :
    /\ WritersOf(c) = {r}
    /\ req[r].counted[c] = Cardinality((done \cup req[r].own) \cap TasksOf(c))

Unmixed ==
  \A c \in Cases : c \notin mixed =>
    /\ count[c] = Cardinality(done \cap TasksOf(c))
    /\ \A r \in WritersOf(c) : c \in req[r].lone

Pooled == IsFiniteSet(Connections) /\ Cardinality(Connections) <= PoolSize

TxInv == TxType /\ Shapes /\ LocksHeld /\ WritesLocked /\ LoneCounts /\ Unmixed /\ Pooled
-----------------------------------------------------------------------------
\* What the trigger counts is a number.
LEMMA CountIsNat ==
  ASSUME NEW S, NEW c \in Cases
  PROVE  Cardinality(S \cap TasksOf(c)) \in Nat
<1>1. IsFiniteSet(TasksOf(c))
  BY TransactionAssumptions, FS_Subset DEF TasksOf
<1>2. IsFiniteSet(S \cap TasksOf(c))
  BY <1>1, FS_Subset
<1> QED BY <1>2, FS_CardinalityType

\* A request at rest, and one that waits for its first connection.
LEMMA IdleShape == Idle \in Record /\ Shape(Idle)
BY DEF Idle, Record, Shape, Holds, Steps, Writing

LEMMA ConnectingShape ==
  ASSUME NEW j \in Jobs, NEW n \in Nat
  PROVE  LET x == [Idle EXCEPT !.step = "connect", !.job = j, !.attempt = n]
         IN  x \in Record /\ Shape(x) /\ x.step = "connect" /\ x.conns = 0 /\ x.own = {} /\ x.lone = {}
             /\ \A c \in Cases : x.counted[c] = None
<1> DEFINE x == [Idle EXCEPT !.step = "connect", !.job = j, !.attempt = n]
<1>1. x \in Record
  BY IdleShape DEF Record, Steps
<1>2. x.step = "connect" /\ x.job = j /\ x.at = 1 /\ x.conns = 0
  BY DEF Idle
<1>3. x.own = {} /\ x.lone = {}
  BY DEF Idle
<1>4. x.counted = [c \in Cases |-> None]
  BY DEF Idle
<1> HIDE DEF x
<1>5. Shape(x)
  BY <1>2, <1>3, <1>4 DEF Shape, Holds
<1>6. \A c \in Cases : x.counted[c] = None
  BY <1>4
<1> QED BY <1>1, <1>2, <1>3, <1>5, <1>6 DEF x

LEMMA BackoffShape ==
  ASSUME NEW j \in Jobs, NEW n \in Nat
  PROVE  LET x == [Idle EXCEPT !.step = "backoff", !.job = j, !.conns = 1, !.attempt = n]
         IN  x \in Record /\ Shape(x) /\ x.step = "backoff" /\ x.conns = 1 /\ x.own = {} /\ x.lone = {}
             /\ \A c \in Cases : x.counted[c] = None
<1> DEFINE x == [Idle EXCEPT !.step = "backoff", !.job = j, !.conns = 1, !.attempt = n]
<1>1. x \in Record
  <2>1. "backoff" \in Steps /\ 1 \in 0..2 /\ n \in Nat /\ j \in Jobs \cup {None}
    BY DEF Steps
  <2> QED BY <2>1, IdleShape DEF Record
<1>2. x.step = "backoff" /\ x.job = j /\ x.at = 1 /\ x.conns = 1
  BY DEF Idle
<1>3. x.own = {} /\ x.lone = {}
  BY DEF Idle
<1>4. x.counted = [c \in Cases |-> None]
  BY DEF Idle
<1> HIDE DEF x
<1>5. Shape(x)
  BY <1>2, <1>3, <1>4 DEF Shape, Holds
<1>6. \A c \in Cases : x.counted[c] = None
  BY <1>4
<1> QED BY <1>1, <1>2, <1>3, <1>5, <1>6 DEF x

\* The pool after one request took one more connection, or gave some back.
LEMMA PoolOneMore ==
  ASSUME Pooled, TxType, Free > 0, NEW r \in Requests, NEW x \in Record,
         req' = [req EXCEPT ![r] = x], x.conns = req[r].conns + 1
  PROVE  Pooled'
<1>1. req[r].conns \in 0..2 /\ x.conns \in 0..2
  BY DEF TxType, Record
<1>2. Connections' = Connections \cup {<<r, x.conns>>}
  <2>1. \A q \in Requests : req'[q] = IF q = r THEN x ELSE req[q]
    BY DEF TxType
  <2>2. \A n \in {1, 2} : n <= x.conns <=> (n <= req[r].conns \/ n = x.conns)
    BY <1>1
  <2> QED BY <1>1, <2>1, <2>2 DEF Connections
<1>3. Cardinality(Connections) + 1 <= PoolSize
  <2>1. Cardinality(Connections) \in Nat
    BY FS_CardinalityType DEF Pooled
  <2> QED BY <2>1, TransactionAssumptions DEF Free
<1>4. IsFiniteSet(Connections') /\ Cardinality(Connections') <= Cardinality(Connections) + 1
  <2>1. IsFiniteSet(Connections)
    BY DEF Pooled
  <2> DEFINE new == <<r, x.conns>>
  <2>2. IsFiniteSet(Connections \cup {new})
        /\ Cardinality(Connections \cup {new}) =
             IF new \in Connections THEN Cardinality(Connections) ELSE Cardinality(Connections) + 1
    BY <2>1, FS_AddElement
  <2>3. Cardinality(Connections) \in Nat
    BY <2>1, FS_CardinalityType
  <2> QED BY <1>2, <2>2, <2>3
<1>5. Cardinality(Connections') \in Nat /\ Cardinality(Connections) \in Nat
  BY <1>4, FS_CardinalityType DEF Pooled
<1> QED BY <1>3, <1>4, <1>5, TransactionAssumptions DEF Pooled

LEMMA PoolNoMore ==
  ASSUME Pooled, TxType, TxType', \A q \in Requests : req'[q].conns <= req[q].conns
  PROVE  Pooled'
<1>1. \A q \in Requests : req'[q].conns \in 0..2 /\ req[q].conns \in 0..2
  BY DEF TxType, Record
<1>2. Connections' \subseteq Connections
  BY <1>1 DEF Connections
<1>3. IsFiniteSet(Connections') /\ Cardinality(Connections') <= Cardinality(Connections)
  BY <1>2, FS_Subset DEF Pooled
<1>4. Cardinality(Connections') \in Nat /\ Cardinality(Connections) \in Nat
  BY <1>3, FS_CardinalityType DEF Pooled
<1> QED BY <1>3, <1>4, TransactionAssumptions DEF Pooled
-----------------------------------------------------------------------------
\* A step that moves one request and nothing else.
MovesTo(r, x) ==
  /\ x \in Record /\ Shape(x)
  /\ req' = [req EXCEPT ![r] = x] /\ UNCHANGED <<done, count, lock, mixed>>
  /\ x.own = req[r].own /\ x.lone = req[r].lone
  /\ \A c \in Cases : x.counted[c] = req[r].counted[c]
  /\ req[r].step \in Writing => x.step \in Writing
  /\ x.conns <= req[r].conns \/ (Free > 0 /\ x.conns = req[r].conns + 1)

LEMMA MoveKeeps ==
  ASSUME TxInv, NEW r \in Requests, NEW x, MovesTo(r, x)
  PROVE  TxInv'
<1> USE DEF TxInv, MovesTo
<1>1. TxType'
  BY DEF TxType
<1>2. \A q \in Requests : req'[q] = IF q = r THEN x ELSE req[q]
  BY DEF TxType
<1>3. Shapes'
  BY <1>2 DEF Shapes
<1>4. LocksHeld'
  BY <1>2 DEF LocksHeld, TxType
<1>5. \A c \in Cases : WritersOf(c)' = WritersOf(c)
  BY DEF WritersOf
<1>6. WritesLocked'
  BY <1>2, <1>5 DEF WritesLocked
<1>7. LoneCounts'
  <2> SUFFICES ASSUME NEW q \in Requests, NEW c \in req'[q].lone
               PROVE  /\ WritersOf(c)' = {q}
                      /\ req'[q].counted[c] =
                           Cardinality((done \cup req'[q].own) \cap TasksOf(c))
    BY DEF LoneCounts
  <2>1. c \in req[q].lone /\ req'[q].own = req[q].own /\ c \in Cases
    BY <1>2 DEF TxType, Record
  <2>2. req'[q].counted[c] = req[q].counted[c]
    BY <1>2, <2>1
  <2> QED BY <1>5, <2>1, <2>2 DEF LoneCounts
<1>8. Unmixed'
  BY <1>2, <1>5 DEF Unmixed, WritersOf
<1>9. Pooled'
  <2>1. CASE Free > 0 /\ x.conns = req[r].conns + 1
    BY <2>1, PoolOneMore
  <2>2. CASE x.conns <= req[r].conns
    <3>1. \A q \in Requests : req'[q].conns <= req[q].conns
      BY <1>2, <2>2 DEF TxType, Record
    <3> QED BY <1>1, <3>1, PoolNoMore
  <2> QED BY <2>1, <2>2
<1> QED BY <1>1, <1>3, <1>4, <1>6, <1>7, <1>8, <1>9

LEMMA ReleasedLocks ==
  ASSUME TxType, NEW r \in Requests, lock' = Released(r)
  PROVE  /\ lock' \in [Rows -> Requests \cup {None}]
         /\ \A row \in Rows : lock'[row] = IF lock[row] = r THEN None ELSE lock[row]
         /\ \A c \in Cases : WritersOf(c)' = WritersOf(c) \ {r}
<1>1. \A row \in Rows : lock'[row] = IF lock[row] = r THEN None ELSE lock[row]
  BY DEF Released
<1>2. None \notin Requests
  BY TransactionAssumptions
<1> QED BY <1>1, <1>2 DEF TxType, Released, WritersOf, TasksOf, Rows

\* A request that ends, or will try again, without its locks.
LEMMA EndKeeps ==
  ASSUME TxInv, NEW r \in Requests, NEW x \in Record, RollBack(r, x),
         Shape(x), x.step \in {"idle", "backoff"}, x.conns <= req[r].conns
  PROVE  TxInv'
<1> USE DEF TxInv
<1>1. lock' = Released(r) /\ req' = [req EXCEPT ![r] = x] /\ UNCHANGED <<done, count, mixed>>
  BY DEF RollBack, Set
<1>2. TxType'
  BY <1>1, ReleasedLocks DEF TxType
<1>3. \A q \in Requests : req'[q] = IF q = r THEN x ELSE req[q]
  BY <1>1 DEF TxType
<1>4. x.own = {} /\ x.lone = {} /\ (\A c \in Cases : x.counted[c] = None)
  BY DEF Shape, Writing
<1>5. Shapes'
  BY <1>3 DEF Shapes
<1>6. LocksHeld'
  BY <1>1, <1>3, ReleasedLocks DEF LocksHeld, TxType
<1>7. WritesLocked'
  BY <1>1, <1>3, <1>4, ReleasedLocks DEF WritesLocked, TxType, Record, Rows
<1>8. LoneCounts'
  <2> SUFFICES ASSUME NEW q \in Requests, NEW c \in req'[q].lone
               PROVE  /\ WritersOf(c)' = {q}
                      /\ req'[q].counted[c] =
                           Cardinality((done \cup req'[q].own) \cap TasksOf(c))
    BY <1>1 DEF LoneCounts
  <2>1. q # r /\ req'[q] = req[q] /\ c \in Cases
    BY <1>3, <1>4 DEF TxType, Record
  <2>2. WritersOf(c) = {q} /\ WritersOf(c)' = WritersOf(c) \ {r}
    BY <1>1, <2>1, ReleasedLocks DEF LoneCounts
  <2> QED BY <2>1, <2>2 DEF LoneCounts
<1>9. Unmixed'
  BY <1>1, <1>3, ReleasedLocks DEF Unmixed, WritersOf
<1>10. Pooled'
  <2>1. \A q \in Requests : req'[q].conns <= req[q].conns
    BY <1>3, <1>4 DEF TxType, Record
  <2> QED BY <1>2, <2>1, PoolNoMore
<1> QED BY <1>2, <1>5, <1>6, <1>7, <1>8, <1>9, <1>10

\* The request and its shape.
LEMMA ShapeOf ==
  ASSUME TxInv, NEW r \in Requests
  PROVE  req[r] \in Record /\ Shape(req[r])
BY DEF TxInv, TxType, Shapes
-----------------------------------------------------------------------------
(* The moves. *)

LEMMA BeginKeeps ==
  ASSUME TxInv, NEW r \in Requests, NEW j \in Jobs, Begin(r, j)
  PROVE  TxInv'
<1> DEFINE x == [Idle EXCEPT !.step = "connect", !.job = j, !.attempt = 1]
<1>1. x \in Record /\ Shape(x) /\ x.own = Idle.own /\ x.lone = Idle.lone
      /\ x.counted = Idle.counted /\ x.conns = 0 /\ Idle.conns = 0 /\ Idle.step = "idle"
  <2>1. x \in Record /\ Shape(x) /\ x.step = "connect"
    BY ConnectingShape
  <2> QED BY <2>1 DEF Idle
<1>2. req[r] = Idle /\ req' = [req EXCEPT ![r] = x] /\ UNCHANGED <<done, count, lock, mixed>>
  BY DEF Begin, Set
<1> HIDE DEF x
<1>3. MovesTo(r, x)
  BY <1>1, <1>2 DEF MovesTo, Writing
<1> QED BY <1>3, MoveKeeps

LEMMA ConnectKeeps ==
  ASSUME TxInv, NEW r \in Requests, Connect(r)
  PROVE  TxInv'
<1> DEFINE x == [req[r] EXCEPT !.step = IF req[r].job.guarded THEN "write" ELSE "read",
                               !.conns = 1]
<1>1. req[r].step = "connect" /\ Free > 0
      /\ req' = [req EXCEPT ![r] = x] /\ UNCHANGED <<done, count, lock, mixed>>
  BY DEF Connect, Set
<1>2. x \in Record /\ x.own = req[r].own /\ x.lone = req[r].lone /\ x.counted = req[r].counted
      /\ x.conns = 1 /\ x.step \in {"read", "write"} /\ x.job = req[r].job /\ x.at = req[r].at
  <2> DEFINE s == IF req[r].job.guarded THEN "write" ELSE "read"
  <2>1. s \in Steps /\ s \in {"read", "write"} /\ 1 \in 0..2 /\ req[r] \in Record
    BY ShapeOf DEF Steps
  <2>2. x = [req[r] EXCEPT !.step = s, !.conns = 1]
    OBVIOUS
  <2> HIDE DEF s, x
  <2> QED BY <2>1, <2>2 DEF Record
<1> HIDE DEF x
<1>3. Shape(x) /\ req[r].conns = 0
  BY <1>1, <1>2, ShapeOf DEF Shape, Holds, Writing
<1>4. MovesTo(r, x)
  BY <1>1, <1>2, <1>3 DEF MovesTo, Writing
<1> QED BY <1>4, MoveKeeps

LEMMA ReadStatusKeeps ==
  ASSUME TxInv, NEW r \in Requests, ReadStatus(r)
  PROVE  TxInv'
<1> DEFINE x == [req[r] EXCEPT !.step = "write"]
<1>1. req[r].step = "read" /\ req' = [req EXCEPT ![r] = x]
      /\ UNCHANGED <<done, count, lock, mixed>>
  BY DEF ReadStatus, Set
<1>2. x \in Record /\ x.own = req[r].own /\ x.lone = req[r].lone /\ x.counted = req[r].counted
      /\ x.conns = req[r].conns /\ x.step = "write" /\ x.job = req[r].job /\ x.at = req[r].at
  BY ShapeOf DEF Record, Steps
<1> HIDE DEF x
<1>3. Shape(x) /\ req[r].conns = 1
  BY <1>1, <1>2, ShapeOf DEF Shape, Holds, Writing
<1>4. MovesTo(r, x)
  BY <1>1, <1>2, <1>3 DEF MovesTo, Writing
<1> QED BY <1>4, MoveKeeps

LEMMA SkipKeeps ==
  ASSUME TxInv, NEW r \in Requests, Skip(r)
  PROVE  TxInv'
<1> DEFINE x == [req[r] EXCEPT !.at = @ + 1]
<1>1. req[r].step = "write" /\ req' = [req EXCEPT ![r] = x]
      /\ UNCHANGED <<done, count, lock, mixed>>
  BY DEF Skip, Set
<1>2. x \in Record /\ x.own = req[r].own /\ x.lone = req[r].lone /\ x.counted = req[r].counted
      /\ x.conns = req[r].conns /\ x.step = "write" /\ x.job = req[r].job /\ x.at = req[r].at + 1
      /\ req[r].at \in Nat
  BY <1>1, ShapeOf DEF Record, Steps
<1> HIDE DEF x
<1>3. Shape(x) /\ req[r].conns = 1
  BY <1>1, <1>2, ShapeOf DEF Shape, Holds, Writing
<1>4. MovesTo(r, x)
  BY <1>1, <1>2, <1>3 DEF MovesTo, Writing
<1> QED BY <1>4, MoveKeeps

LEMMA ConnectSecondKeeps ==
  ASSUME TxInv, NEW r \in Requests, ConnectSecond(r)
  PROVE  TxInv'
<1> DEFINE x == [req[r] EXCEPT !.step = "recount", !.conns = 2]
<1>1. req[r].step = "second" /\ Free > 0 /\ req' = [req EXCEPT ![r] = x]
      /\ UNCHANGED <<done, count, lock, mixed>>
  BY DEF ConnectSecond, Set
<1>2. x \in Record /\ x.own = req[r].own /\ x.lone = req[r].lone /\ x.counted = req[r].counted
      /\ x.conns = 2 /\ x.step = "recount" /\ x.job = req[r].job /\ x.at = req[r].at
  <2>1. "recount" \in Steps /\ 2 \in 0..2 /\ req[r] \in Record
    BY ShapeOf DEF Steps
  <2>2. x = [req[r] EXCEPT !.step = "recount", !.conns = 2]
    OBVIOUS
  <2> HIDE DEF x
  <2> QED BY <2>1, <2>2 DEF Record
<1> HIDE DEF x
<1>3. Shape(x) /\ req[r].conns = 1
  BY <1>1, <1>2, ShapeOf DEF Shape, Holds, Writing
<1>4. MovesTo(r, x)
  BY <1>1, <1>2, <1>3 DEF MovesTo, Writing
<1> QED BY <1>4, MoveKeeps

LEMMA RetryKeeps ==
  ASSUME TxInv, NEW r \in Requests, Retry(r)
  PROVE  TxInv'
<1> DEFINE x == [Idle EXCEPT !.step = "connect", !.job = req[r].job,
                             !.attempt = req[r].attempt + 1]
<1>1. req[r].step = "backoff" /\ req' = [req EXCEPT ![r] = x]
      /\ UNCHANGED <<done, count, lock, mixed>>
  BY DEF Retry, Set
<1>2. req[r].own = {} /\ req[r].lone = {} /\ req[r].conns = 1 /\ req[r].job \in Jobs
      /\ req[r].attempt + 1 \in Nat /\ \A c \in Cases : req[r].counted[c] = None
  BY <1>1, ShapeOf DEF Shape, Holds, Writing, Record
<1>3. x \in Record /\ Shape(x) /\ x.conns = 0 /\ x.own = {} /\ x.lone = {}
      /\ \A c \in Cases : x.counted[c] = None
  BY <1>2, ConnectingShape
<1> HIDE DEF x
<1>4. MovesTo(r, x)
  BY <1>1, <1>2, <1>3 DEF MovesTo, Writing
<1> QED BY <1>4, MoveKeeps

LEMMA RecountKeeps ==
  ASSUME TxInv, NEW r \in Requests, Recount(r)
  PROVE  TxInv'
<1>1. req[r].step = "recount" /\ req' = [req EXCEPT ![r] = Idle]
      /\ UNCHANGED <<done, count, lock, mixed>>
  BY DEF Recount, Set
<1>2. req[r].own = {} /\ req[r].lone = {} /\ req[r].conns = 2
      /\ \A c \in Cases : req[r].counted[c] = None
  BY <1>1, ShapeOf DEF Shape, Holds, Writing
<1>3. Idle.own = {} /\ Idle.lone = {} /\ Idle.conns = 0 /\ \A c \in Cases : Idle.counted[c] = None
  BY DEF Idle
<1>4. MovesTo(r, Idle)
  BY <1>1, <1>2, <1>3, IdleShape DEF MovesTo, Writing
<1> QED BY <1>4, MoveKeeps
-----------------------------------------------------------------------------
(* The ends. *)

LEMMA IdleEndKeeps ==
  ASSUME TxInv, NEW r \in Requests, RollBack(r, Idle)
  PROVE  TxInv'
<1>1. Idle.step = "idle" /\ Idle.conns = 0
  BY DEF Idle
<1>2. 0 <= req[r].conns
  BY ShapeOf DEF Record
<1> QED BY <1>1, <1>2, IdleShape, EndKeeps

LEMMA RefuseKeeps ==
  ASSUME TxInv, NEW r \in Requests,
         Refuse(r) \/ LockTimeout(r) \/ ConnectionTimeout(r) \/ Fail(r)
  PROVE  TxInv'
<1>1. RollBack(r, Idle)
  BY DEF Refuse, LockTimeout, ConnectionTimeout, Fail, Ended
<1> QED BY <1>1, IdleEndKeeps

LEMMA DeadlockAbortKeeps ==
  ASSUME TxInv, NEW r \in Requests, DeadlockAbort(r)
  PROVE  TxInv'
<1> DEFINE x == [Idle EXCEPT !.step = "backoff", !.job = req[r].job, !.conns = 1,
                             !.attempt = req[r].attempt]
<1>1. CASE RollBack(r, Idle)
  BY <1>1, IdleEndKeeps
<1>2. CASE RollBack(r, x)
  <2>1. req[r].step \in {"write", "case", "recount"}
    <3>1. WaitsFor(r) \in Requests
      BY DEF DeadlockAbort, Deadlocked
    <3> QED BY <3>1, TransactionAssumptions DEF WaitsFor
  <2>2. req[r].job \in Jobs /\ req[r].attempt \in Nat
    BY <2>1, ShapeOf DEF Shape, Record
  <2>3. 1 <= req[r].conns
    BY <2>1, ShapeOf DEF Shape, Holds
  <2>4. x \in Record /\ Shape(x) /\ x.step = "backoff" /\ x.conns = 1
    BY <2>2, BackoffShape
  <2> HIDE DEF x
  <2> QED BY <1>2, <2>3, <2>4, EndKeeps
<1> QED BY <1>1, <1>2 DEF DeadlockAbort, Ended
-----------------------------------------------------------------------------
(* The writes. *)

\* The task a writing request is at, and its case.
LEMMA CurrentTask ==
  ASSUME TxInv, NEW r \in Requests, req[r].step # "idle", Left(r)
  PROVE  Current(r) \in Tasks /\ CaseAt(r) \in Cases
<1>1. req[r].job \in Jobs /\ req[r].at \in Nat /\ req[r].at > 0
  BY ShapeOf DEF Shape, Record
<1>2. req[r].job.tasks \in Seq(Tasks)
  BY <1>1, TransactionAssumptions DEF Job
<1>3. req[r].at \in 1..Len(req[r].job.tasks)
  BY <1>1, <1>2 DEF Left
<1>4. Current(r) \in Tasks
  BY <1>2, <1>3 DEF Current
<1> QED BY <1>4, TransactionAssumptions DEF CaseAt

\* The others' request records after a write, and the writer's own.
LEMMA WriteKeeps ==
  ASSUME TxInv, NEW r \in Requests, Write(r),
         NEW t, t = Current(r), NEW c, c = CaseOf[t]
  PROVE  TxInv'
<1> USE DEF TxInv
<1> DEFINE alone == WritersOf(c) \subseteq {r}
           own == IF req[r].job.completes THEN req[r].own \cup {t} ELSE req[r].own
           n == Cardinality((done \cup own) \cap TasksOf(c))
           x == [req[r] EXCEPT !.step = "case", !.own = own, !.counted[c] = n,
                               !.lone = IF alone THEN @ \cup {c} ELSE @ \ {c}]
           less(q) == [req[q] EXCEPT !.lone = IF alone THEN @ ELSE @ \ {c}]
<1>1. t \in Tasks /\ c \in Cases /\ t \in TasksOf(c) /\ t \in Rows
  BY CurrentTask DEF Write, CaseAt, TasksOf, Rows
<1>2. req[r].step = "write" /\ lock[t] \in {None, r} /\ lock' = [lock EXCEPT ![t] = r]
      /\ mixed' = (IF alone THEN mixed ELSE mixed \cup {c}) /\ UNCHANGED <<done, count>>
      /\ req[r].at <= Len(req[r].job.tasks)
  BY DEF Write, Available, Take, Left
<1>3. req' = [q \in Requests |-> IF q = r THEN x ELSE less(q)]
  <2>1. Seen(r, t) \cap TasksOf(c) = (done \cup own) \cap TasksOf(c)
    BY DEF Seen
  <2> QED BY <2>1 DEF Write
<1>4. own \in SUBSET Tasks /\ n \in Nat
  BY <1>1, ShapeOf, CountIsNat DEF Record
<1>5. /\ x \in Record /\ x.step = "case" /\ x.own = own /\ x.conns = req[r].conns
      /\ x.job = req[r].job /\ x.at = req[r].at /\ x.counted[c] = n
      /\ \A d \in Cases : d # c => x.counted[d] = req[r].counted[d]
      /\ x.lone = IF alone THEN req[r].lone \cup {c} ELSE req[r].lone \ {c}
  <2> HIDE DEF own, n, alone
  <2> QED BY <1>1, <1>4, ShapeOf DEF Record, Steps
<1>6. \A q \in Requests : /\ less(q) \in Record /\ less(q).step = req[q].step
                          /\ less(q).own = req[q].own /\ less(q).counted = req[q].counted
                          /\ less(q).conns = req[q].conns /\ less(q).job = req[q].job
                          /\ less(q).at = req[q].at
                          /\ req[q].lone = {} => less(q) = req[q]
  <2> HIDE DEF alone
  <2> QED BY ShapeOf DEF Record
<1>lone. \A q \in Requests : /\ less(q).lone \subseteq req[q].lone /\ req[q].lone \subseteq Cases
                             /\ alone => less(q).lone = req[q].lone
                             /\ ~alone => less(q).lone = req[q].lone \ {c}
  <2> HIDE DEF alone
  <2> QED BY ShapeOf DEF Record
<1> HIDE DEF x, less, own, n
<1>7. \A q \in Requests : q # r => req'[q] = less(q)
  BY <1>3
<1>8. req'[r] = x
  BY <1>3
<1>9. TxType'
  BY <1>1, <1>2, <1>3, <1>5, <1>6 DEF TxType
<1>10. Shapes'
  <2>1. Shape(x)
    BY <1>2, <1>5, ShapeOf DEF Shape, Holds, Writing
  <2>2. ASSUME NEW q \in Requests, q # r PROVE Shape(less(q))
    <3>1. CASE req[q].lone = {}
      BY <1>6, <3>1, ShapeOf
    <3>2. CASE req[q].lone # {}
      BY <1>6, <3>2, ShapeOf DEF Shape, Writing, Idle
    <3> QED BY <3>1, <3>2
  <2> QED BY <1>7, <1>8, <2>1, <2>2 DEF Shapes
<1>11. LocksHeld'
  <2>1. \A q \in Requests : req[q].step \in Writing => req'[q].step \in Writing
    BY <1>5, <1>6, <1>7, <1>8 DEF Writing
  <2>2. req'[r].step \in Writing
    BY <1>5, <1>8 DEF Writing
  <2> QED BY <1>1, <1>2, <2>1, <2>2 DEF LocksHeld, TxType
<1>12. /\ WritersOf(c)' = WritersOf(c) \cup {r}
       /\ \A d \in Cases : d # c => WritersOf(d)' = WritersOf(d)
  <2>1. \A u \in Tasks : lock'[u] = IF u = t THEN r ELSE lock[u]
    BY <1>1, <1>2 DEF TxType, Rows
  <2>2. None \notin Requests
    BY TransactionAssumptions
  <2>3. \A d \in Cases : t \in TasksOf(d) => d = c
    BY DEF TasksOf
  <2>4. \A d \in Cases : TasksOf(d) \subseteq Tasks
    BY DEF TasksOf
  <2>5. WritersOf(c)' = WritersOf(c) \cup {r}
    <3>1. \A q \in Requests : (\E u \in TasksOf(c) : lock'[u] = q) <=>
                              (q = r \/ \E u \in TasksOf(c) : lock[u] = q)
      BY <1>1, <1>2, <2>1, <2>2, <2>4
    <3> QED BY <3>1 DEF WritersOf
  <2>6. \A d \in Cases : d # c => WritersOf(d)' = WritersOf(d)
    BY <2>1, <2>3, <2>4 DEF WritersOf
  <2> QED BY <2>5, <2>6
<1>13. WritesLocked'
  <2>1. \A u \in Tasks : lock'[u] = IF u = t THEN r ELSE lock[u]
    BY <1>1, <1>2 DEF TxType, Rows
  <2>2. /\ \A u \in x.own : lock'[u] = r
        /\ \A d \in Cases : x.counted[d] # None => r \in WritersOf(d)'
    <3>1. own \subseteq req[r].own \cup {t} /\ req[r].own \subseteq Tasks
      BY ShapeOf DEF own, Record
    <3> QED BY <1>1, <1>5, <1>12, <2>1, <3>1 DEF WritesLocked
  <2>3. ASSUME NEW q \in Requests, q # r
        PROVE  /\ \A u \in less(q).own : lock'[u] = q
               /\ \A d \in Cases : less(q).counted[d] # None => q \in WritersOf(d)'
    <3>1. req[q].own \subseteq Tasks /\ \A u \in req[q].own : lock[u] = q
      BY ShapeOf DEF WritesLocked, Record
    <3>2. \A u \in req[q].own : u # t
      BY <1>2, <2>3, <3>1, TransactionAssumptions
    <3>3. \A d \in Cases : q \in WritersOf(d) => q \in WritersOf(d)'
      BY <1>12
    <3>4. less(q).own = req[q].own /\ less(q).counted = req[q].counted
      BY <1>6
    <3> QED BY <2>1, <3>1, <3>2, <3>3, <3>4 DEF WritesLocked
  <2> QED BY <1>7, <1>8, <2>2, <2>3 DEF WritesLocked
<1>14. LoneCounts'
  <2>1. ASSUME NEW d \in x.lone
        PROVE  WritersOf(d)' = {r} /\ x.counted[d] = Cardinality((done \cup x.own) \cap TasksOf(d))
    <3>1. d \in Cases
      BY <1>5 DEF Record
    <3>2. CASE d = c
      <4>1. alone
        BY <1>5, <3>2
      <4> QED BY <1>5, <1>12, <3>1, <3>2, <4>1 DEF n
    <3>3. CASE d # c
      <4>1. d \in req[r].lone
        BY <1>5, <3>3
      <4>2. own \cap TasksOf(d) = req[r].own \cap TasksOf(d)
        BY <3>3 DEF own, TasksOf
      <4>3. (done \cup own) \cap TasksOf(d) = (done \cup req[r].own) \cap TasksOf(d)
        BY <4>2
      <4> QED BY <1>5, <1>12, <3>1, <3>3, <4>1, <4>3 DEF LoneCounts
    <3> QED BY <3>2, <3>3
  <2>2. ASSUME NEW q \in Requests, q # r, NEW d \in less(q).lone
        PROVE  /\ WritersOf(d)' = {q}
               /\ less(q).counted[d] = Cardinality((done \cup less(q).own) \cap TasksOf(d))
    <3>1. d \in req[q].lone /\ d \in Cases /\ WritersOf(d) = {q}
      BY <1>lone DEF LoneCounts
    <3>2. d # c
      BY <1>lone, <2>2, <3>1
    <3>3. less(q).own = req[q].own /\ less(q).counted = req[q].counted
      BY <1>6
    <3> QED BY <1>12, <3>1, <3>2, <3>3 DEF LoneCounts
  <2>3. ASSUME NEW q \in Requests, NEW d \in req'[q].lone
        PROVE  /\ WritersOf(d)' = {q}
               /\ req'[q].counted[d] = Cardinality((done \cup req'[q].own) \cap TasksOf(d))
    BY <1>7, <1>8, <2>1, <2>2, <2>3
  <2> QED BY <1>2, <2>3 DEF LoneCounts
<1>15. Unmixed'
  <2> SUFFICES ASSUME NEW d \in Cases, d \notin mixed'
               PROVE  /\ count'[d] = Cardinality(done' \cap TasksOf(d))
                      /\ \A q \in WritersOf(d)' : d \in req'[q].lone
    BY DEF Unmixed
  <2>1. d \notin mixed
    BY <1>2
  <2>2. count'[d] = Cardinality(done' \cap TasksOf(d))
    BY <1>2, <2>1 DEF Unmixed
  <2>3. \A q \in WritersOf(d) : q \in Requests /\ d \in req[q].lone
    BY <2>1 DEF Unmixed, WritersOf
  <2>4. CASE d = c
    <3>1. alone
      BY <1>2, <2>4
    <3> QED BY <1>1, <1>5, <1>8, <1>12, <2>2, <2>4, <3>1
  <2>5. CASE d # c
    <3>1. \A q \in WritersOf(d) : d \in req'[q].lone
      <4> SUFFICES ASSUME NEW q \in WritersOf(d) PROVE d \in req'[q].lone
        OBVIOUS
      <4>1. CASE q = r
        BY <1>5, <1>8, <2>3, <2>5, <4>1
      <4>2. CASE q # r
        BY <1>7, <1>lone, <2>3, <2>5, <4>2
      <4> QED BY <4>1, <4>2
    <3> QED BY <1>12, <2>2, <2>5, <3>1
  <2> QED BY <2>4, <2>5
<1>16. Pooled'
  <2>1. \A q \in Requests : req'[q].conns = req[q].conns
    BY <1>5, <1>6, <1>7, <1>8
  <2>2. \A q \in Requests : req'[q].conns <= req[q].conns
    BY <2>1, ShapeOf DEF Record
  <2> QED BY <1>9, <2>2, PoolNoMore
<1> QED BY <1>9, <1>10, <1>11, <1>13, <1>14, <1>15, <1>16

\* The row of the case does not say who writes its tasks.
LEMMA TakeCaseKeeps ==
  ASSUME TxInv, NEW r \in Requests, TakeCase(r), NEW row, row = CaseAt(r)
  PROVE  TxInv'
<1> USE DEF TxInv
<1> DEFINE x == [req[r] EXCEPT !.step = "write", !.at = @ + 1]
<1>1. req[r].step = "case" /\ req' = [req EXCEPT ![r] = x] /\ lock' = [lock EXCEPT ![row] = r]
      /\ lock[row] \in {None, r} /\ UNCHANGED <<done, count, mixed>>
  BY DEF TakeCase, Take, Set, Available
<1>2. /\ x \in Record /\ x.own = req[r].own /\ x.lone = req[r].lone /\ x.counted = req[r].counted
      /\ x.conns = req[r].conns /\ x.step = "write" /\ x.job = req[r].job
      /\ x.at = req[r].at + 1 /\ req[r].at \in Nat
  <2>1. req[r] \in Record /\ "write" \in Steps /\ req[r].at \in Nat /\ req[r].at + 1 \in Nat
    BY ShapeOf DEF Steps, Record
  <2> QED BY <2>1 DEF Record
<1> HIDE DEF x
<1>3. \A q \in Requests : req'[q] = IF q = r THEN x ELSE req[q]
  BY <1>1 DEF TxType
<1>4. row \in Cases /\ row \in Rows
  <2>1. Left(r)
    BY <1>1, ShapeOf DEF Shape, Left
  <2> QED BY <1>1, <2>1, CurrentTask DEF Rows
<1>5. \A u \in Tasks : lock'[u] = lock[u]
  BY <1>1, <1>4, TransactionAssumptions DEF TxType, Rows
<1>6. \A c \in Cases : WritersOf(c)' = WritersOf(c)
  BY <1>5 DEF WritersOf, TasksOf
<1>7. TxType'
  BY <1>1, <1>2, <1>4 DEF TxType
<1>8. Shapes'
  <2>1. Shape(x)
    BY <1>1, <1>2, ShapeOf DEF Shape, Holds, Writing
  <2> QED BY <1>3, <2>1 DEF Shapes
<1>9. LocksHeld'
  <2>1. \A q \in Requests : req[q].step \in Writing => req'[q].step \in Writing
    BY <1>2, <1>3 DEF Writing
  <2>2. req'[r].step \in Writing
    BY <1>2, <1>3 DEF Writing
  <2> QED BY <1>1, <1>4, <2>1, <2>2 DEF LocksHeld, TxType
<1>10. \A q \in Requests : /\ req'[q].own = req[q].own /\ req'[q].lone = req[q].lone
                           /\ req'[q].counted = req[q].counted /\ req'[q].conns = req[q].conns
  BY <1>2, <1>3
<1>11. WritesLocked'
  <2>1. \A q \in Requests : req[q].own \subseteq Tasks
    BY ShapeOf DEF Record
  <2> QED BY <1>5, <1>6, <1>10, <2>1 DEF WritesLocked
<1>12. LoneCounts'
  <2>1. \A q \in Requests : req[q].lone \subseteq Cases
    BY ShapeOf DEF Record
  <2> QED BY <1>1, <1>6, <1>10, <2>1 DEF LoneCounts
<1>13. Unmixed'
  <2>1. \A c \in Cases : WritersOf(c) \subseteq Requests
    BY DEF WritersOf
  <2> QED BY <1>1, <1>6, <1>10, <2>1 DEF Unmixed
<1>14. Pooled'
  <2>1. \A q \in Requests : req'[q].conns <= req[q].conns
    BY <1>10, ShapeOf DEF Record
  <2> QED BY <1>7, <2>1, PoolNoMore
<1> QED BY <1>7, <1>8, <1>9, <1>11, <1>12, <1>13, <1>14

\* A commit publishes what its request wrote, and its counts.
LEMMA CommitKeeps ==
  ASSUME TxInv, NEW r \in Requests, Commit(r)
  PROVE  TxInv'
<1> USE DEF TxInv
<1> DEFINE x == IF req[r].job.recount = "inside" THEN Idle
                ELSE [Idle EXCEPT !.step = "second", !.job = req[r].job, !.conns = 1]
<1>1. /\ req[r].step = "write" /\ done' = done \cup req[r].own /\ lock' = Released(r)
      /\ count' = [c \in Cases |-> IF req[r].counted[c] = None THEN count[c] ELSE req[r].counted[c]]
      /\ mixed' = mixed \ req[r].lone
      /\ req' = [req EXCEPT ![r] = x]
  BY DEF Commit, Set
<1>2. /\ x \in Record /\ Shape(x) /\ x.step \notin Writing /\ x.conns <= 1
      /\ x.own = {} /\ x.lone = {} /\ \A c \in Cases : x.counted[c] = None
  <2>1. CASE req[r].job.recount = "inside"
    BY <2>1, IdleShape DEF Idle, Writing
  <2>2. CASE req[r].job.recount # "inside"
    <3> DEFINE j == req[r].job
    <3>1. j \in Jobs
      BY <1>1, ShapeOf DEF Shape
    <3>2. x = [step |-> "second", job |-> j, at |-> 1, conns |-> 1, attempt |-> 0,
               own |-> {}, counted |-> [c \in Cases |-> None], lone |-> {}]
      BY <2>2 DEF Idle
    <3> HIDE DEF j, x
    <3>3. x \in Record
      BY <3>1, <3>2 DEF Record, Steps
    <3>4. x.step = "second" /\ x.job = j /\ x.at = 1 /\ x.conns = 1
          /\ x.own = {} /\ x.lone = {} /\ x.counted = [c \in Cases |-> None]
      BY <3>2
    <3>5. Shape(x)
      BY <3>1, <3>4 DEF Shape, Holds
    <3> QED BY <3>3, <3>4, <3>5 DEF Writing
  <2> QED BY <2>1, <2>2
<1>3. req[r].conns = 1 /\ req[r].own \subseteq Tasks /\ req[r].lone \subseteq Cases
      /\ req[r].counted \in [Cases -> Nat \cup {None}]
  BY <1>1, ShapeOf DEF Shape, Holds, Record
<1> HIDE DEF x
<1>4. \A q \in Requests : req'[q] = IF q = r THEN x ELSE req[q]
  BY <1>1 DEF TxType
<1>5. /\ lock' \in [Rows -> Requests \cup {None}]
      /\ \A row \in Rows : lock'[row] = IF lock[row] = r THEN None ELSE lock[row]
      /\ \A c \in Cases : WritersOf(c)' = WritersOf(c) \ {r}
  BY <1>1, ReleasedLocks
<1>6. TxType'
  <2>1. count' \in [Cases -> Nat]
    BY <1>1, <1>3 DEF TxType
  <2> QED BY <1>1, <1>2, <1>3, <1>5, <2>1 DEF TxType
<1>7. Shapes'
  BY <1>2, <1>4 DEF Shapes
<1>8. LocksHeld'
  BY <1>4, <1>5 DEF LocksHeld, TxType
<1>9. WritesLocked'
  <2>1. \A q \in Requests : req[q].own \subseteq Tasks
    BY ShapeOf DEF Record
  <2> QED BY <1>2, <1>4, <1>5, <2>1 DEF WritesLocked, Rows
\* Nobody else's commit adds a task to a case that has a lone writer.
<1>10. \A c \in Cases : r \notin WritersOf(c) => req[r].own \cap TasksOf(c) = {}
  BY <1>3 DEF WritesLocked, WritersOf
<1>11. LoneCounts'
  <2> SUFFICES ASSUME NEW q \in Requests, NEW c \in req'[q].lone
               PROVE  /\ WritersOf(c)' = {q}
                      /\ req'[q].counted[c] =
                           Cardinality((done' \cup req'[q].own) \cap TasksOf(c))
    BY DEF LoneCounts
  <2>1. q # r /\ req'[q] = req[q]
    BY <1>2, <1>4
  <2>2. c \in Cases
    BY <2>1, ShapeOf DEF Record
  <2>3. WritersOf(c) = {q} /\ WritersOf(c)' = {q}
        /\ req[q].counted[c] = Cardinality((done \cup req[q].own) \cap TasksOf(c))
    BY <1>5, <2>1, <2>2 DEF LoneCounts
  <2>4. (done' \cup req[q].own) \cap TasksOf(c) = (done \cup req[q].own) \cap TasksOf(c)
    BY <1>1, <1>10, <2>1, <2>2, <2>3
  <2> QED BY <2>1, <2>3, <2>4
<1>12. Unmixed'
  <2> SUFFICES ASSUME NEW c \in Cases, c \notin mixed'
               PROVE  /\ count'[c] = Cardinality(done' \cap TasksOf(c))
                      /\ \A q \in WritersOf(c)' : c \in req'[q].lone
    BY DEF Unmixed
  <2>1. CASE c \in req[r].lone
    <3>1. WritersOf(c) = {r}
          /\ req[r].counted[c] = Cardinality(done' \cap TasksOf(c))
      BY <1>1, <2>1 DEF LoneCounts
    <3>2. Cardinality(done' \cap TasksOf(c)) # None
      <4>1. Cardinality(done' \cap TasksOf(c)) \in Nat
        BY CountIsNat
      <4> QED BY <4>1, TransactionAssumptions
    <3> QED BY <1>1, <1>5, <3>1, <3>2
  <2>2. CASE c \notin req[r].lone
    <3>1. c \notin mixed
      BY <1>1, <2>2
    <3>2. r \notin WritersOf(c)
      BY <2>2, <3>1 DEF Unmixed
    <3>3. req[r].counted[c] = None
      BY <3>2 DEF WritesLocked
    <3>4. done' \cap TasksOf(c) = done \cap TasksOf(c)
      BY <1>1, <1>10, <3>2
    <3>5. \A q \in WritersOf(c) : q \in Requests /\ q # r
      BY <3>2 DEF WritersOf
    <3> QED BY <1>1, <1>4, <1>5, <3>1, <3>2, <3>3, <3>4, <3>5 DEF Unmixed
  <2> QED BY <2>1, <2>2
<1>13. Pooled'
  <2>1. \A q \in Requests : req'[q].conns <= req[q].conns
    BY <1>2, <1>3, <1>4, ShapeOf DEF Record
  <2> QED BY <1>6, <2>1, PoolNoMore
<1> QED BY <1>6, <1>7, <1>8, <1>9, <1>11, <1>12, <1>13
-----------------------------------------------------------------------------
LEMMA TxStep ==
  ASSUME TxInv, [Next]_vars
  PROVE  TxInv'
<1>1. ASSUME NEW r \in Requests, Advance(r) \/ Fail(r) \/ \E j \in Jobs : Begin(r, j)
      PROVE  TxInv'
  BY <1>1, ConnectKeeps, ReadStatusKeeps, SkipKeeps, RefuseKeeps, WriteKeeps, TakeCaseKeeps,
     CommitKeeps, ConnectSecondKeeps, RecountKeeps, DeadlockAbortKeeps, RetryKeeps, BeginKeeps DEF Advance
<1>2. CASE UNCHANGED vars
  <2>1. UNCHANGED <<done, count, lock, req, mixed>>
    BY <1>2 DEF vars
  <2>2. (\A c \in Cases : WritersOf(c)' = WritersOf(c)) /\ Connections' = Connections
    BY <2>1 DEF WritersOf, Connections
  <2>3. TxType' /\ Shapes' /\ LocksHeld' /\ Pooled'
    BY <2>1, <2>2 DEF TxInv, TxType, Shapes, LocksHeld, Pooled
  <2>4. WritesLocked' /\ Unmixed'
    BY <2>1, <2>2 DEF TxInv, WritesLocked, Unmixed, WritersOf
  <2>5. LoneCounts'
    <3>1. \A r \in Requests : req[r].lone \subseteq Cases
      BY ShapeOf DEF Record
    <3> QED BY <2>1, <2>2, <3>1 DEF TxInv, LoneCounts
  <2> QED BY <2>3, <2>4, <2>5 DEF TxInv
<1> QED BY <1>1, <1>2 DEF Next

LEMMA TxInitial == Init => TxInv
<1> SUFFICES ASSUME Init PROVE TxInv
  OBVIOUS
<1>1. \A r \in Requests : req[r] = Idle
  BY DEF Init
<1>2. Idle.own = {} /\ Idle.lone = {} /\ Idle.conns = 0 /\ \A c \in Cases : Idle.counted[c] = None
  BY DEF Idle
<1>3. TxType
  BY IdleShape DEF Init, TxType
<1>4. Shapes
  BY <1>1, IdleShape DEF Shapes
<1>5. \A c \in Cases : WritersOf(c) = {}
  BY TransactionAssumptions DEF Init, WritersOf, TasksOf, Rows
<1>6. LocksHeld /\ WritesLocked /\ LoneCounts
  BY <1>1, <1>2 DEF Init, LocksHeld, WritesLocked, LoneCounts
<1>7. Unmixed
  <2>1. \A c \in Cases : done \cap TasksOf(c) = {}
    BY DEF Init
  <2> QED BY <1>5, <2>1, FS_EmptySet DEF Init, Unmixed
<1>8. Pooled
  <2>1. Connections = {}
    BY <1>1, <1>2 DEF Connections
  <2> QED BY <2>1, FS_EmptySet, TransactionAssumptions DEF Pooled
<1> QED BY <1>3, <1>4, <1>6, <1>7, <1>8 DEF TxInv

\* The inductive invariant holds in every state of the transactions.
THEOREM TxInvHolds == Spec => []TxInv
<1>1. TxInv /\ [Next]_vars => TxInv'
  BY TxStep
<1> QED BY <1>1, TxInitial, PTL DEF Spec

\* A request at rest holds nothing, a lock is held only by a request with a
\* connection, and the pool is never overdrawn.
THEOREM NothingIsLeaked == Spec => []NothingLeaks
<1>1. TxInv => NothingLeaks
  <2> SUFFICES ASSUME TxInv PROVE NothingLeaks
    OBVIOUS
  <2>1. \A r \in Requests : req[r].step = "idle" => req[r] = Idle
    BY ShapeOf DEF Shape
  <2>2. ASSUME NEW row \in Rows, lock[row] # None PROVE req[lock[row]].conns > 0
    <3>1. lock[row] \in Requests /\ req[lock[row]].step \in Writing
      BY <2>2 DEF TxInv, TxType, LocksHeld
    <3> QED BY <3>1, ShapeOf DEF Shape, Holds, Writing
  <2>3. Free \in 0..PoolSize
    <3>1. Cardinality(Connections) \in Nat /\ Cardinality(Connections) <= PoolSize
      BY FS_CardinalityType DEF TxInv, Pooled
    <3> QED BY <3>1, TransactionAssumptions DEF Free
  <2> QED BY <2>1, <2>2, <2>3 DEF NothingLeaks
<1> QED BY <1>1, TxInvHolds, PTL

\* A counter is exact unless the last writers of its case overlapped.
THEOREM CountersDoHeal == Spec => []CountersHeal
<1>1. TxInv => CountersHeal
  BY DEF TxInv, Unmixed, CountersHeal
<1> QED BY <1>1, TxInvHolds, PTL
-----------------------------------------------------------------------------
(* The rows a completion holds when it commits. *)

\* A request waits for the case of the task it just wrote and has the cases of
\* the others; nobody completed what its guarded update found open.
Exclusive ==
  \A r \in Requests : \A t \in req[r].own :
    /\ \/ lock[CaseOf[t]] = r
       \/ req[r].step = "case" /\ CaseOf[t] = CaseAt(r)
    /\ req[r].job.guarded => t \notin done

Undisturbed(r) ==
  /\ \A q \in Requests \ {r} :
       /\ req'[q].own = req[q].own /\ req'[q].step = req[q].step
       /\ req'[q].job = req[q].job /\ req'[q].at = req[q].at
       /\ \A row \in Rows : lock[row] = q => lock'[row] = q
  /\ done' \subseteq done \cup req[r].own

\* A request writes its own record, takes free rows and publishes its own tasks.
LEMMA OthersUndisturbed ==
  ASSUME TxInv, NEW r \in Requests,
         Advance(r) \/ Fail(r) \/ \E j \in Jobs : Begin(r, j)
  PROVE  Undisturbed(r)
<1> DEFINE Alone(q) == /\ req'[q].own = req[q].own /\ req'[q].step = req[q].step
                       /\ req'[q].job = req[q].job /\ req'[q].at = req[q].at
<1>types. req \in [Requests -> Record] /\ lock \in [Rows -> Requests \cup {None}]
  BY DEF TxInv, TxType
<1>set. ASSUME NEW x, Set(r, x) PROVE \A q \in Requests \ {r} : Alone(q)
  BY <1>set, <1>types DEF Set
<1>back. ASSUME NEW x, RollBack(r, x) PROVE Undisturbed(r)
  <2>1. \A row \in Rows : lock'[row] = IF lock[row] = r THEN None ELSE lock[row]
    BY <1>back DEF RollBack, Released
  <2>2. \A q \in Requests \ {r} : Alone(q)
    BY <1>back, <1>set DEF RollBack
  <2> QED BY <1>back, <2>1, <2>2 DEF RollBack, Undisturbed
<1>take. ASSUME NEW row \in Rows, Available(r, row), Take(r, row)
         PROVE  \A q \in Requests \ {r}, other \in Rows : lock[other] = q => lock'[other] = q
  BY <1>take, <1>types, TransactionAssumptions DEF Available, Take
<1>1. CASE \/ Connect(r) \/ ReadStatus(r) \/ Skip(r) \/ ConnectSecond(r) \/ Recount(r)
           \/ Retry(r) \/ \E j \in Jobs : Begin(r, j)
  <2>1. UNCHANGED <<done, lock>> /\ \E x : Set(r, x)
    BY <1>1 DEF Connect, ReadStatus, Skip, ConnectSecond, Recount, Retry, Begin
  <2> QED BY <2>1, <1>set DEF Undisturbed
<1>2. CASE Refuse(r) \/ DeadlockAbort(r) \/ LockTimeout(r) \/ ConnectionTimeout(r) \/ Fail(r)
  BY <1>2, <1>back DEF Refuse, DeadlockAbort, LockTimeout, ConnectionTimeout, Fail
<1>3. CASE Write(r)
  <2>1. Current(r) \in Rows
    BY <1>3, CurrentTask DEF Write, Rows
  <2>2. Available(r, Current(r)) /\ Take(r, Current(r)) /\ UNCHANGED done
    BY <1>3 DEF Write
  <2>3. \A q \in Requests \ {r} : \E S : req'[q] = [req[q] EXCEPT !.lone = S]
    BY <1>3 DEF Write
  <2>4. \A q \in Requests \ {r} : Alone(q)
    BY <2>3, <1>types DEF Record
  <2> QED BY <2>1, <2>2, <2>4, <1>take DEF Undisturbed
<1>4. CASE TakeCase(r)
  <2>1. req[r].step = "case" /\ Left(r)
    BY <1>4, ShapeOf DEF TakeCase, Shape, Left
  <2>2. CaseAt(r) \in Rows
    BY <2>1, CurrentTask DEF Rows
  <2>3. Available(r, CaseAt(r)) /\ Take(r, CaseAt(r)) /\ UNCHANGED done /\ \E x : Set(r, x)
    BY <1>4 DEF TakeCase
  <2> QED BY <2>2, <2>3, <1>take, <1>set DEF Undisturbed
<1>5. CASE Commit(r)
  <2>1. done' = done \cup req[r].own /\ lock' = Released(r) /\ \E x : Set(r, x)
    BY <1>5 DEF Commit
  <2>2. \A row \in Rows : lock'[row] = IF lock[row] = r THEN None ELSE lock[row]
    BY <2>1 DEF Released
  <2> QED BY <2>1, <2>2, <1>set DEF Undisturbed
<1> QED BY <1>1, <1>2, <1>3, <1>4, <1>5 DEF Advance

\* What others hold stays theirs, since nobody else has their tasks.
LEMMA OthersStayExclusive ==
  ASSUME TxInv, Exclusive, NEW r \in Requests, Undisturbed(r),
         NEW q \in Requests, q # r, NEW t \in req'[q].own
  PROVE  /\ \/ lock'[CaseOf[t]] = q
            \/ req'[q].step = "case" /\ CaseOf[t] = CaseAt(q)'
         /\ req'[q].job.guarded => t \notin done'
<1>1. /\ req'[q].own = req[q].own /\ req'[q].step = req[q].step
      /\ req'[q].job = req[q].job /\ req'[q].at = req[q].at
      /\ \A row \in Rows : lock[row] = q => lock'[row] = q
  BY DEF Undisturbed
<1>2. t \in req[q].own /\ t \in Tasks /\ CaseOf[t] \in Rows
  BY <1>1, ShapeOf, TransactionAssumptions DEF Record, Rows
<1>3. CaseAt(q)' = CaseAt(q)
  BY <1>1 DEF CaseAt, Current
<1>4. t \notin req[r].own
  BY <1>2 DEF TxInv, WritesLocked
<1>5. t \notin done => t \notin done'
  BY <1>4 DEF Undisturbed
<1>6. /\ \/ lock[CaseOf[t]] = q
         \/ req[q].step = "case" /\ CaseOf[t] = CaseAt(q)
      /\ req[q].job.guarded => t \notin done
  BY <1>2 DEF Exclusive
<1> QED BY <1>1, <1>2, <1>3, <1>5, <1>6

\* The request that steps: only a write adds a completion, of a task it found
\* open if it looked, and the row of its case comes next.
LEMMA WriterStaysExclusive ==
  ASSUME TxInv, TxInv', Exclusive, NEW r \in Requests,
         Advance(r) \/ Fail(r) \/ \E j \in Jobs : Begin(r, j),
         NEW t \in req'[r].own
  PROVE  /\ \/ lock'[CaseOf[t]] = r
            \/ req'[r].step = "case" /\ CaseOf[t] = CaseAt(r)'
         /\ req'[r].job.guarded => t \notin done'
<1>types. req \in [Requests -> Record] /\ lock \in [Rows -> Requests \cup {None}]
  BY DEF TxInv, TxType
<1>1. req'[r].step \in Writing
  BY DEF TxInv, Shapes, Shape
<1>2. CASE Skip(r)
  <2>1. req' = [req EXCEPT ![r] = [req[r] EXCEPT !.at = @ + 1]] /\ UNCHANGED <<done, lock>>
        /\ req[r].step = "write"
    BY <1>2 DEF Skip, Set
  <2>2. req'[r].own = req[r].own /\ req'[r].job = req[r].job
    BY <2>1, <1>types DEF Record
  <2> QED BY <2>1, <2>2 DEF Exclusive
<1>3. CASE Write(r)
  <2> DEFINE u == Current(r)
  <2>1. /\ req[r].step = "write" /\ Open(r) /\ lock' = [lock EXCEPT ![u] = r]
        /\ UNCHANGED done
    BY <1>3 DEF Write, Take
  <2>2. u \in Tasks
    BY <1>3, CurrentTask DEF Write
  <2>3. /\ req'[r].step = "case" /\ req'[r].job = req[r].job /\ req'[r].at = req[r].at
        /\ req'[r].own \subseteq req[r].own \cup {u}
    BY <1>3, <1>types DEF Write, Record
  <2>4. CaseAt(r)' = CaseOf[u]
    BY <2>3 DEF CaseAt, Current
  <2>5. CASE t = u
    BY <2>1, <2>3, <2>4, <2>5 DEF Open
  <2>6. CASE t # u
    <3>1. t \in req[r].own /\ t \in Tasks /\ CaseOf[t] \in Cases
      BY <2>3, <2>6, ShapeOf, TransactionAssumptions DEF Record
    <3>2. lock[CaseOf[t]] = r
      BY <2>1, <3>1 DEF Exclusive
    <3>3. lock'[CaseOf[t]] = r
      BY <1>types, <2>1, <2>2, <3>1, <3>2, TransactionAssumptions DEF Rows
    <3> QED BY <2>1, <2>3, <3>1, <3>3 DEF Exclusive
  <2> QED BY <2>5, <2>6
<1>4. CASE TakeCase(r)
  <2>1. /\ req' = [req EXCEPT ![r] = [req[r] EXCEPT !.step = "write", !.at = @ + 1]]
        /\ lock' = [lock EXCEPT ![CaseAt(r)] = r] /\ UNCHANGED done
    BY <1>4 DEF TakeCase, Take, Set
  <2>2. req'[r].own = req[r].own /\ req'[r].job = req[r].job
    BY <2>1, <1>types DEF Record
  <2>3. t \in Tasks /\ CaseOf[t] \in Rows
    BY <2>2, ShapeOf, TransactionAssumptions DEF Record, Rows
  <2>4. lock'[CaseOf[t]] = r
    BY <1>types, <2>1, <2>2, <2>3 DEF Exclusive
  <2> QED BY <2>1, <2>2, <2>4 DEF Exclusive
<1>5. CASE Connect(r) \/ ReadStatus(r)
  <2>1. req[r].own = {}
    BY <1>5, ShapeOf DEF Connect, ReadStatus, Shape, Writing
  <2>2. req'[r].own = req[r].own
    BY <1>5, <1>types DEF Connect, ReadStatus, Set, Record
  <2> QED BY <2>1, <2>2
<1>own. \A x : Set(r, x) => req'[r] = x
  BY <1>types DEF Set
<1>6. CASE \/ ConnectSecond(r) \/ Recount(r) \/ Retry(r) \/ Commit(r)
           \/ \E j \in Jobs : Begin(r, j)
  <2>1. CASE ConnectSecond(r)
    <3>1. req'[r].step = "recount"
      BY <2>1, <1>types DEF ConnectSecond, Set, Record
    <3> QED BY <1>1, <3>1 DEF Writing
  <2>2. CASE Recount(r)
    BY <1>1, <1>own, <2>2 DEF Recount, Idle, Writing
  <2>3. CASE Retry(r) \/ \E j \in Jobs : Begin(r, j)
    <3> DEFINE connecting(j, n) == [Idle EXCEPT !.step = "connect", !.job = j, !.attempt = n]
    <3>1. \A j, n : connecting(j, n).step = "connect"
      BY DEF Idle
    <3>2. \E j, n : Set(r, connecting(j, n))
      BY <2>3 DEF Retry, Begin
    <3> HIDE DEF connecting
    <3> QED BY <1>1, <1>own, <3>1, <3>2 DEF Writing
  <2>4. CASE Commit(r)
    <3> DEFINE owing == [Idle EXCEPT !.step = "second", !.job = req[r].job, !.conns = 1]
    <3>1. owing.step = "second" /\ Idle.step = "idle"
      BY DEF Idle
    <3>2. Set(r, Idle) \/ Set(r, owing)
      BY <2>4 DEF Commit
    <3> HIDE DEF owing
    <3> QED BY <1>1, <1>own, <3>1, <3>2 DEF Writing
  <2> QED BY <1>6, <2>1, <2>2, <2>3, <2>4
<1>7. CASE Refuse(r) \/ DeadlockAbort(r) \/ LockTimeout(r) \/ ConnectionTimeout(r) \/ Fail(r)
  <2> DEFINE again == [Idle EXCEPT !.step = "backoff", !.job = req[r].job, !.conns = 1,
                                   !.attempt = req[r].attempt]
  <2>1. RollBack(r, Idle) \/ RollBack(r, again)
    BY <1>7 DEF Refuse, DeadlockAbort, LockTimeout, ConnectionTimeout, Fail, Ended
  <2>2. Idle.step = "idle" /\ again.step = "backoff"
    BY DEF Idle
  <2> HIDE DEF again
  <2>3. req'[r] = Idle \/ req'[r] = again
    BY <1>own, <2>1 DEF RollBack
  <2> QED BY <1>1, <2>2, <2>3 DEF Writing
<1> QED BY <1>2, <1>3, <1>4, <1>5, <1>6, <1>7 DEF Advance

LEMMA ExclusiveStep ==
  ASSUME TxInv, TxInv', Exclusive, [Next]_vars
  PROVE  Exclusive'
<1>1. CASE UNCHANGED vars
  BY <1>1 DEF vars, Exclusive, CaseAt, Current
<1>2. CASE Next
  <2>1. PICK r \in Requests : Advance(r) \/ Fail(r) \/ \E j \in Jobs : Begin(r, j)
    BY <1>2 DEF Next
  <2>2. Undisturbed(r)
    BY <2>1, OthersUndisturbed
  <2> QED BY <2>1, <2>2, OthersStayExclusive, WriterStaysExclusive DEF Exclusive
<1> QED BY <1>1, <1>2

\* A request about to commit completions has its tasks and their cases to
\* itself, and a guarded update completes nothing twice.
THEOREM CompletionsAreExclusive == Spec => []CompletionsExclusive
<1>1. Init => Exclusive
  BY DEF Init, Exclusive, Idle
<1>2. TxInv /\ TxInv' /\ Exclusive /\ [Next]_vars => Exclusive'
  BY ExclusiveStep
<1>3. TxInv /\ Exclusive => CompletionsExclusive
  BY DEF TxInv, WritesLocked, Exclusive, CompletionsExclusive
<1> QED BY <1>1, <1>2, <1>3, TxInvHolds, PTL DEF Spec
=============================================================================
