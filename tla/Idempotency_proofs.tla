------------------------ MODULE Idempotency_proofs ------------------------
(***************************************************************************)
(* Proofs about Idempotency, for any number of requests and payloads: the  *)
(* type invariant, and the two properties of its run.                      *)
(*                                                                         *)
(* The inductive invariant has three parts.  A request that has not        *)
(* reached the handler has no execution and, before it arrives, no answer  *)
(* (Fresh).  Whatever names a success, in the row, in Redis, in an answer  *)
(* or in a pending finish event, names a committed execution (Backed).     *)
(* While no reservation was lost, the execution that counts is the only    *)
(* one and the row is its reservation (Guarded).                           *)
(***************************************************************************)
EXTENDS Idempotency, TLAPS

Before == {"idle", "reserve", "lookup", "drop", "uncache", "reReserve"}

Fresh ==
  \A r \in Requests :
    /\ pc[r] \in Before => exec[r] = "none"
    /\ pc[r] = "idle" => answer[r] = None

Backed ==
  /\ row.response # None => exec[row.response] = "committed"
  /\ cache # None => exec[cache] = "committed"
  /\ \A r \in Requests :
       /\ after[r] \in {"persist", "cache"} => exec[r] = "committed"
       /\ answer[r] \in Requests => exec[answer[r]] = "committed"

Guarded ==
  ~unguarded =>
    /\ \A q \in Requests : exec[q] \in Counting =>
         row.age \in {"young", "stale"} /\ row.payload = sent[q]
    /\ \A q, r \in Requests :
         exec[q] \in Counting /\ exec[r] \in Counting => q = r
    /\ \A r \in Requests : answer[r] \in Requests => sent[answer[r]] = sent[r]

Inv == TypeOK /\ Fresh /\ Backed /\ Guarded
-----------------------------------------------------------------------------
LEMMA InitInv == Init => Inv
<1> SUFFICES ASSUME Init PROVE Inv
  OBVIOUS
<1>1. TypeOK
  BY DEF Init, TypeOK, Row, NoRow
<1>2. Fresh
  BY DEF Init, Fresh
<1>3. Backed
  BY NoneIsNew DEF Init, Backed, NoRow
<1>4. Guarded
  BY NoneIsNew DEF Init, Guarded, Counting
<1> QED BY <1>1, <1>2, <1>3, <1>4 DEF Inv

\* deleteReservation leaves the row and the history variable well formed.
LEMMA DropType == TypeOK /\ DropRow => row' \in Row /\ unguarded' \in BOOLEAN
<1> SUFFICES ASSUME TypeOK, DropRow
             PROVE  row' \in Row /\ unguarded' \in BOOLEAN
  OBVIOUS
<1>1. row \in Row /\ unguarded \in BOOLEAN
  BY DEF TypeOK
<1>2. NoRow \in Row
  BY DEF NoRow, Row
<1>3. (unguarded \/ Unsettled) \in BOOLEAN
  OBVIOUS
<1>4. CASE row' = NoRow /\ unguarded' = (unguarded \/ Unsettled)
  BY <1>2, <1>3, <1>4, Zenon
<1>5. CASE UNCHANGED <<row, unguarded>>
  BY <1>1, <1>5
<1> QED BY <1>4, <1>5 DEF DropRow

\* The shape of the variables is kept, one action at a time.
LEMMA StepType == TypeOK /\ [Next]_vars => TypeOK'
<1> SUFFICES ASSUME TypeOK, [Next]_vars PROVE TypeOK'
  OBVIOUS
<1> USE DEF TypeOK, Row
<1>1. CASE UNCHANGED vars
  BY <1>1 DEF vars
<1>2. ASSUME NEW r \in Requests, Middleware(r) PROVE TypeOK'
  <2>1. ASSUME NEW payload \in Payloads, Arrive(r, payload) PROVE TypeOK'
    BY <2>1 DEF Arrive, Answer, Move, Failures
  <2>2. CASE Reserve(r)
    BY <2>2 DEF Reserve, Reserved, Execute, Move
  <2>3. CASE Lookup(r)
    BY <2>3 DEF Lookup, Execute, Answer, Move, Failures
  <2>4. CASE Drop(r)
    BY <2>4, DropType DEF Drop, Move
  <2>5. CASE Uncache(r)
    BY <2>5 DEF Uncache, DropCache, Move
  <2>6. CASE ReReserve(r)
    BY <2>6 DEF ReReserve, Reserved, Execute, Answer, Move, Failures
  <2>7. CASE InitFails(r)
    BY <2>7 DEF InitFails, Answer, Move, Failures
  <2> QED BY <1>2, <2>1, <2>2, <2>3, <2>4, <2>5, <2>6, <2>7 DEF Middleware
<1>3. ASSUME NEW r \in Requests, Response(r) PROVE TypeOK'
  <2>1. CASE Handle(r)
    BY <2>1 DEF Handle
  <2>2. CASE Respond(r)
    BY <2>2 DEF Respond, Finish, Answer, Move, Failures
  <2>3. CASE Timeout(r)
    BY <2>3 DEF Timeout, Finish, Answer, Failures
  <2>4. CASE Persist(r)
    BY <2>4 DEF Persist
  <2>5. CASE CacheSet(r)
    BY <2>5 DEF CacheSet
  <2>6. CASE Delete(r)
    BY <2>6, DropType DEF Delete
  <2>7. CASE Evict(r)
    BY <2>7 DEF Evict, DropCache
  <2> QED BY <1>3, <2>1, <2>2, <2>3, <2>4, <2>5, <2>6, <2>7 DEF Response
<1>4. CASE Crash
  BY <1>4 DEF Crash
<1>5. CASE Age
  <2>1. row' \in Row
    BY <1>5 DEF Age, NoRow
  <2>2. unguarded' \in BOOLEAN
    <3>1. unguarded \in BOOLEAN
      OBVIOUS
    <3>2. (unguarded \/ Unsettled) \in BOOLEAN
      OBVIOUS
    <3>3. unguarded' = unguarded \/ unguarded' = (unguarded \/ Unsettled)
      BY <1>5, Zenon DEF Age
    <3> QED BY <3>1, <3>2, <3>3, Zenon
  <2> QED BY <1>5, <2>1, <2>2 DEF Age
<1>6. CASE Forget
  BY <1>6 DEF Forget
<1> QED BY <1>1, <1>2, <1>3, <1>4, <1>5, <1>6 DEF Next

\* Nothing touches an execution or an answer before the handler is reached.
LEMMA StepFresh == TypeOK /\ Fresh /\ [Next]_vars => Fresh'
<1> SUFFICES ASSUME TypeOK, Fresh, [Next]_vars PROVE Fresh'
  OBVIOUS
<1> USE DEF TypeOK, Fresh, Before
<1>1. CASE UNCHANGED vars
  BY <1>1 DEF vars
<1>2. ASSUME NEW r \in Requests, Middleware(r) PROVE Fresh'
  <2>1. ASSUME NEW payload \in Payloads, Arrive(r, payload) PROVE Fresh'
    BY <2>1 DEF Arrive, Answer, Move
  <2>2. CASE Reserve(r)
    BY <2>2 DEF Reserve, Reserved, Execute, Move
  <2>3. CASE Lookup(r)
    BY <2>3 DEF Lookup, Execute, Answer, Move
  <2>4. CASE Drop(r)
    BY <2>4 DEF Drop, DropRow, Move
  <2>5. CASE Uncache(r)
    BY <2>5 DEF Uncache, DropCache, Move
  <2>6. CASE ReReserve(r)
    BY <2>6 DEF ReReserve, Reserved, Execute, Answer, Move
  <2>7. CASE InitFails(r)
    BY <2>7 DEF InitFails, Answer, Move
  <2> QED BY <1>2, <2>1, <2>2, <2>3, <2>4, <2>5, <2>6, <2>7 DEF Middleware
<1>3. ASSUME NEW r \in Requests, Response(r) PROVE Fresh'
  <2>1. CASE Handle(r)
    BY <2>1 DEF Handle
  <2>2. CASE Respond(r)
    BY <2>2 DEF Respond, Finish, Answer, Move
  <2>3. CASE Timeout(r)
    BY <2>3 DEF Timeout, Finish, Answer
  <2>4. CASE Persist(r)
    BY <2>4 DEF Persist
  <2>5. CASE CacheSet(r)
    BY <2>5 DEF CacheSet
  <2>6. CASE Delete(r)
    BY <2>6 DEF Delete, DropRow
  <2>7. CASE Evict(r)
    BY <2>7 DEF Evict, DropCache
  <2> QED BY <1>3, <2>1, <2>2, <2>3, <2>4, <2>5, <2>6, <2>7 DEF Response
<1>4. CASE Crash
  BY <1>4 DEF Crash
<1>5. CASE Age
  BY <1>5 DEF Age
<1>6. CASE Forget
  BY <1>6 DEF Forget
<1> QED BY <1>1, <1>2, <1>3, <1>4, <1>5, <1>6 DEF Next

\* A committed execution stays committed, and keeps its payload.
LEMMA CommittedStays ==
  ASSUME TypeOK, Fresh, [Next]_vars, NEW q \in Requests, exec[q] = "committed"
  PROVE  exec'[q] = "committed" /\ sent'[q] = sent[q]
<1> DEFINE Stays == exec'[q] = "committed" /\ sent'[q] = sent[q]
<1> USE DEF TypeOK, Fresh, Before
<1>1. CASE UNCHANGED vars
  BY <1>1 DEF vars
<1>2. ASSUME NEW r \in Requests, Middleware(r) PROVE Stays
  <2>1. ASSUME NEW payload \in Payloads, Arrive(r, payload) PROVE Stays
    BY <2>1 DEF Arrive, Answer, Move
  <2>2. CASE Reserve(r)
    BY <2>2 DEF Reserve, Reserved, Execute, Move
  <2>3. CASE Lookup(r)
    BY <2>3 DEF Lookup, Execute, Answer, Move
  <2>4. CASE Drop(r)
    BY <2>4 DEF Drop, DropRow, Move
  <2>5. CASE Uncache(r)
    BY <2>5 DEF Uncache, DropCache, Move
  <2>6. CASE ReReserve(r)
    BY <2>6 DEF ReReserve, Reserved, Execute, Answer, Move
  <2>7. CASE InitFails(r)
    BY <2>7 DEF InitFails, Answer, Move
  <2> QED BY <1>2, <2>1, <2>2, <2>3, <2>4, <2>5, <2>6, <2>7 DEF Middleware
<1>3. ASSUME NEW r \in Requests, Response(r) PROVE Stays
  <2>1. CASE Handle(r)
    BY <2>1 DEF Handle
  <2>2. CASE Respond(r)
    BY <2>2 DEF Respond, Finish, Answer, Move
  <2>3. CASE Timeout(r)
    BY <2>3 DEF Timeout, Finish, Answer
  <2>4. CASE Persist(r)
    BY <2>4 DEF Persist
  <2>5. CASE CacheSet(r)
    BY <2>5 DEF CacheSet
  <2>6. CASE Delete(r)
    BY <2>6 DEF Delete, DropRow
  <2>7. CASE Evict(r)
    BY <2>7 DEF Evict, DropCache
  <2> QED BY <1>3, <2>1, <2>2, <2>3, <2>4, <2>5, <2>6, <2>7 DEF Response
<1>4. CASE Crash
  BY <1>4 DEF Crash
<1>5. CASE Age
  BY <1>5 DEF Age
<1>6. CASE Forget
  BY <1>6 DEF Forget
<1> QED BY <1>1, <1>2, <1>3, <1>4, <1>5, <1>6 DEF Next

\* What names a success names a committed execution.
LEMMA StepBacked == TypeOK /\ Fresh /\ Backed /\ [Next]_vars => Backed'
<1> SUFFICES ASSUME TypeOK, Fresh, Backed, [Next]_vars PROVE Backed'
  OBVIOUS
<1>a. \A q \in Requests : exec[q] = "committed" => exec'[q] = "committed"
  BY CommittedStays
<1> USE NoneIsNew, FailuresAreNew DEF TypeOK, Backed, Row, Failures
<1>1. CASE UNCHANGED vars
  BY <1>1, <1>a DEF vars
<1>2. ASSUME NEW r \in Requests, Middleware(r) PROVE Backed'
  <2>1. ASSUME NEW payload \in Payloads, Arrive(r, payload) PROVE Backed'
    BY <2>1, <1>a DEF Arrive, Answer, Move
  <2>2. CASE Reserve(r)
    BY <2>2, <1>a DEF Reserve, Reserved, Execute, Move
  <2>3. CASE Lookup(r)
    BY <2>3, <1>a DEF Lookup, Execute, Answer, Move
  <2>4. CASE Drop(r)
    BY <2>4, <1>a DEF Drop, DropRow, Move, NoRow
  <2>5. CASE Uncache(r)
    BY <2>5, <1>a DEF Uncache, DropCache, Move
  <2>6. CASE ReReserve(r)
    BY <2>6, <1>a DEF ReReserve, Reserved, Execute, Answer, Move
  <2>7. CASE InitFails(r)
    BY <2>7, <1>a DEF InitFails, Answer, Move
  <2> QED BY <1>2, <2>1, <2>2, <2>3, <2>4, <2>5, <2>6, <2>7 DEF Middleware
<1>3. ASSUME NEW r \in Requests, Response(r) PROVE Backed'
  <2>1. CASE Handle(r)
    BY <2>1, <1>a DEF Handle
  <2>2. CASE Respond(r)
    BY <2>2, <1>a DEF Respond, Finish, Answer, Move
  <2>3. CASE Timeout(r)
    BY <2>3, <1>a DEF Timeout, Finish, Answer
  <2>4. CASE Persist(r)
    BY <2>4, <1>a DEF Persist
  <2>5. CASE CacheSet(r)
    BY <2>5, <1>a DEF CacheSet
  <2>6. CASE Delete(r)
    BY <2>6, <1>a DEF Delete, DropRow, NoRow
  <2>7. CASE Evict(r)
    BY <2>7, <1>a DEF Evict, DropCache
  <2> QED BY <1>3, <2>1, <2>2, <2>3, <2>4, <2>5, <2>6, <2>7 DEF Response
<1>4. CASE Crash
  BY <1>4, <1>a DEF Crash
<1>5. CASE Age
  BY <1>5, <1>a DEF Age, NoRow
<1>6. CASE Forget
  BY <1>6, <1>a DEF Forget
<1> QED BY <1>1, <1>2, <1>3, <1>4, <1>5, <1>6 DEF Next

\* When nothing is lost by it, a removed or expired row guarded nothing.
LEMMA NothingLost ==
  ASSUME unguarded' = (unguarded \/ Unsettled), ~unguarded'
  PROVE  ~unguarded /\ \A q \in Requests : exec[q] \notin Counting
BY Zenon DEF Unsettled

\* While no reservation is lost, the execution that counts is alone.
LEMMA StepGuarded == TypeOK /\ Fresh /\ Backed /\ Guarded /\ [Next]_vars => Guarded'
<1> SUFFICES ASSUME TypeOK, Fresh, Backed, Guarded, [Next]_vars PROVE Guarded'
  OBVIOUS
<1>a. \A q \in Requests : exec[q] = "committed" => sent'[q] = sent[q]
  BY CommittedStays
<1> USE NoneIsNew, FailuresAreNew DEF TypeOK, Fresh, Before, Backed, Guarded, Counting, Row, Failures
<1>1. CASE UNCHANGED vars
  BY <1>1, <1>a DEF vars
<1>2. ASSUME NEW r \in Requests, Middleware(r) PROVE Guarded'
  <2>1. ASSUME NEW payload \in Payloads, Arrive(r, payload) PROVE Guarded'
    BY <2>1, <1>a DEF Arrive, Answer, Move
  <2>2. CASE Reserve(r)
    BY <2>2, <1>a DEF Reserve, Reserved, Execute, Move, Free
  <2>3. CASE Lookup(r)
    BY <2>3, <1>a DEF Lookup, Execute, Answer, Move, Visible
  <2>4. CASE Drop(r)
    <3>1. CASE unguarded' = (unguarded \/ Unsettled)
      BY <2>4, <3>1, NothingLost DEF Drop, Move
    <3>2. CASE UNCHANGED <<row, unguarded>>
      BY <2>4, <3>2 DEF Drop, Move
    <3> QED BY <2>4, <3>1, <3>2 DEF Drop, DropRow
  <2>5. CASE Uncache(r)
    BY <2>5, <1>a DEF Uncache, DropCache, Move
  <2>6. CASE ReReserve(r)
    BY <2>6, <1>a DEF ReReserve, Reserved, Execute, Answer, Move, Free
  <2>7. CASE InitFails(r)
    BY <2>7, <1>a DEF InitFails, Answer, Move
  <2> QED BY <1>2, <2>1, <2>2, <2>3, <2>4, <2>5, <2>6, <2>7 DEF Middleware
<1>3. ASSUME NEW r \in Requests, Response(r) PROVE Guarded'
  <2>1. CASE Handle(r)
    BY <2>1, <1>a DEF Handle
  <2>2. CASE Respond(r)
    BY <2>2, <1>a DEF Respond, Finish, Answer, Move
  <2>3. CASE Timeout(r)
    BY <2>3, <1>a DEF Timeout, Finish, Answer
  <2>4. CASE Persist(r)
    BY <2>4, <1>a DEF Persist
  <2>5. CASE CacheSet(r)
    BY <2>5, <1>a DEF CacheSet
  <2>6. CASE Delete(r)
    <3>1. CASE unguarded' = (unguarded \/ Unsettled)
      BY <2>6, <3>1, NothingLost DEF Delete
    <3>2. CASE UNCHANGED <<row, unguarded>>
      BY <2>6, <3>2 DEF Delete
    <3> QED BY <2>6, <3>1, <3>2 DEF Delete, DropRow
  <2>7. CASE Evict(r)
    BY <2>7, <1>a DEF Evict, DropCache
  <2> QED BY <1>3, <2>1, <2>2, <2>3, <2>4, <2>5, <2>6, <2>7 DEF Response
<1>4. CASE Crash
  BY <1>4, <1>a DEF Crash
<1>5. CASE Age
  <2>1. CASE row.age = "young" /\ row' = [row EXCEPT !.age = "stale"] /\ UNCHANGED unguarded
    BY <1>5, <2>1 DEF Age
  <2>2. CASE unguarded' = (unguarded \/ Unsettled)
    BY <1>5, <2>2, NothingLost DEF Age
  <2>3. CASE row.age = "expired" /\ row' = NoRow /\ UNCHANGED unguarded
    BY <1>5, <2>3 DEF Age, NoRow
  <2> QED BY <1>5, <2>1, <2>2, <2>3, Zenon DEF Age
<1>6. CASE Forget
  BY <1>6, <1>a DEF Forget
<1> QED BY <1>1, <1>2, <1>3, <1>4, <1>5, <1>6 DEF Next
-----------------------------------------------------------------------------
\* The inductive invariant holds: each step of the middleware, of a response,
\* of time and of a crash preserves it.
THEOREM InvHolds == Spec => []Inv
<1>1. Inv /\ [Next]_vars => Inv'
  BY StepType, StepFresh, StepBacked, StepGuarded DEF Inv
<1> QED BY InitInv, <1>1, PTL DEF Spec

\* Every variable of the middleware keeps its shape.
THEOREM MiddlewareTyped == Spec => []TypeOK
<1>1. Inv => TypeOK
  BY DEF Inv
<1> QED BY InvHolds, <1>1, PTL

\* However many retries of a key race through the middleware, with each
\* other, with time and with crashes, at most one execution of the handler
\* commits, as long as no reservation was lost under one.
THEOREM RetriesExecuteOnce == Spec => []ExecutedOnce
<1>1. Inv => ExecutedOnce
  <2> SUFFICES ASSUME Inv, ~unguarded,
                      NEW q \in Requests, NEW r \in Requests,
                      exec[q] = "committed", exec[r] = "committed"
               PROVE  q = r
    BY Zenon DEF ExecutedOnce
  <2> QED BY DEF Inv, Guarded, Counting
<1> QED BY InvHolds, <1>1, PTL

\* A replayed success is the answer of a committed execution, and of the
\* payload that is answered as long as no reservation was lost.
THEOREM ReplaysAreTrue == Spec => []ReplayIsTrue
<1>1. Inv => ReplayIsTrue
  <2> SUFFICES ASSUME Inv, NEW r \in Requests, answer[r] \in Requests
               PROVE  /\ exec[answer[r]] = "committed"
                      /\ unguarded \/ sent[answer[r]] = sent[r]
    BY Zenon DEF ReplayIsTrue
  <2>1. exec[answer[r]] = "committed"
    BY DEF Inv, Backed
  <2>2. unguarded \/ sent[answer[r]] = sent[r]
    BY Zenon DEF Inv, Guarded
  <2> QED BY <2>1, <2>2
<1> QED BY InvHolds, <1>1, PTL
-----------------------------------------------------------------------------
(* The middleware implements OneEffect. *)

\* A request that has arrived has its payload, and a row the payload of a
\* request that got past its reservation.
Asked ==
  /\ \A r \in Requests : IF pc[r] = "idle" THEN sent[r] = None ELSE sent[r] \in Payloads
  /\ row.age # "absent" =>
       \E q \in Requests : pc[q] \notin Before /\ sent[q] = row.payload

LEMMA InitAsked == Init => Asked
  BY DEF Init, Asked, NoRow

\* A reservation is made by a request that thereby goes on to the handler; what
\* else writes the row keeps its payload or removes it.
LEMMA StepAsked == TypeOK /\ Asked /\ [Next]_vars => Asked'
<1> SUFFICES ASSUME TypeOK, Asked, [Next]_vars PROVE Asked'
  OBVIOUS
<1> USE DEF TypeOK, Asked, Before, Row
<1>1. CASE UNCHANGED vars
  BY <1>1 DEF vars
<1>2. ASSUME NEW r \in Requests, Middleware(r) PROVE Asked'
  <2>1. ASSUME NEW payload \in Payloads, Arrive(r, payload) PROVE Asked'
    BY <2>1 DEF Arrive, Answer, Move
  <2>2. CASE Reserve(r)
    BY <2>2 DEF Reserve, Reserved, Execute, Move
  <2>3. CASE Lookup(r)
    BY <2>3 DEF Lookup, Execute, Answer, Move
  <2>4. CASE Drop(r)
    BY <2>4 DEF Drop, DropRow, Move, NoRow
  <2>5. CASE Uncache(r)
    BY <2>5 DEF Uncache, DropCache, Move
  <2>6. CASE ReReserve(r)
    BY <2>6 DEF ReReserve, Reserved, Execute, Answer, Move
  <2>7. CASE InitFails(r)
    BY <2>7 DEF InitFails, Answer, Move
  <2> QED BY <1>2, <2>1, <2>2, <2>3, <2>4, <2>5, <2>6, <2>7 DEF Middleware
<1>3. ASSUME NEW r \in Requests, Response(r) PROVE Asked'
  <2>1. CASE Handle(r)
    BY <2>1 DEF Handle
  <2>2. CASE Respond(r)
    BY <2>2 DEF Respond, Finish, Answer, Move
  <2>3. CASE Timeout(r)
    BY <2>3 DEF Timeout, Finish, Answer
  <2>4. CASE Persist(r)
    BY <2>4 DEF Persist
  <2>5. CASE CacheSet(r)
    BY <2>5 DEF CacheSet
  <2>6. CASE Delete(r)
    BY <2>6 DEF Delete, DropRow, NoRow
  <2>7. CASE Evict(r)
    BY <2>7 DEF Evict, DropCache
  <2> QED BY <1>3, <2>1, <2>2, <2>3, <2>4, <2>5, <2>6, <2>7 DEF Response
<1>4. CASE Crash
  BY <1>4 DEF Crash
<1>5. CASE Age
  BY <1>5 DEF Age, NoRow
<1>6. CASE Forget
  BY <1>6 DEF Forget
<1> QED BY <1>1, <1>2, <1>3, <1>4, <1>5, <1>6 DEF Next

\* A truthful answer is a reply, or is lost with no effect at all.
LEMMA AnswerReplies ==
  ASSUME TypeOK, NEW r \in Requests, NEW payload,
         NEW a \in Requests \cup Failures, Answer(r, a),
         Effect!Truthful(r, payload, a)
  PROVE  UNCHANGED answer \/ Effect!Reply(r, payload)
<1>1. CASE answer[r] = None
  <2>1. answer' = [answer EXCEPT ![r] = a]
    BY <1>1 DEF Answer, TypeOK
  <2>2. a \in Requests \cup {"conflict", "inProgress", "failed"}
    BY DEF Failures
  <2> QED BY <1>1, <2>1, <2>2 DEF Effect!Reply
<1>2. CASE answer[r] # None
  BY <1>2 DEF Answer, TypeOK
<1> QED BY <1>1, <1>2

\* An answer to a request that has arrived is heard, or lost.
LEMMA AnswerHeard ==
  ASSUME TypeOK, Asked, NEW r \in Requests, pc[r] # "idle",
         NEW a \in Requests \cup Failures, Answer(r, a),
         Effect!Truthful(r, sent[r], a), UNCHANGED <<sent, exec, unguarded>>
  PROVE  [Effect!Next]_(Effect!vars)
<1>1. sent[r] # None
  BY NoneIsNew DEF Asked
<1>2. UNCHANGED Committed
  BY DEF Committed
<1>3. CASE UNCHANGED answer
  BY <1>2, <1>3 DEF Effect!vars
<1>4. CASE Effect!Reply(r, sent[r])
  BY <1>1, <1>2, <1>4 DEF Effect!Next, Effect!Hear
<1> QED BY <1>3, <1>4, AnswerReplies

\* A step with no answer and no effect of its own loses a reservation or
\* changes nothing that can be seen from outside.
LEMMA Unseen ==
  ASSUME UNCHANGED <<sent, answer>>, UNCHANGED Committed,
         UNCHANGED unguarded \/ unguarded' = TRUE
  PROVE  [Effect!Next]_(Effect!vars)
<1>1. CASE UNCHANGED unguarded
  BY <1>1 DEF Effect!vars
<1>2. CASE unguarded' = TRUE
  BY <1>2 DEF Effect!Next, Effect!Lose
<1> QED BY <1>1, <1>2

\* The history variable is only ever raised.
LEMMA Raised ==
  ASSUME TypeOK, unguarded' = (unguarded \/ Unsettled)
  PROVE  UNCHANGED unguarded \/ unguarded' = TRUE
<1>1. CASE Unsettled
  BY <1>1, Zenon
<1>2. CASE ~Unsettled
  BY <1>2, Zenon DEF TypeOK
<1> QED BY <1>1, <1>2

\* What the middleware does is a move of OneEffect: the arrival of a request,
\* perhaps with its answer; an answer; the loss of a reservation; or nothing.
LEMMA MiddlewareMoves ==
  ASSUME Inv, Asked, Inv', NEW r \in Requests, Middleware(r)
  PROVE  [Effect!Next]_(Effect!vars)
<1> USE DEF Inv
<1>1. ASSUME NEW payload \in Payloads, Arrive(r, payload)
      PROVE  [Effect!Next]_(Effect!vars)
  <2>1. UNCHANGED Committed
    BY <1>1 DEF Arrive, Committed
  <2>2. sent[r] = None /\ sent' = [sent EXCEPT ![r] = payload] /\ UNCHANGED unguarded
    BY <1>1 DEF Arrive, Asked
  <2>3. UNCHANGED answer \/ Effect!Reply(r, payload)
    <3>1. CASE cache # None /\ Answer(r, IF sent[cache] = payload THEN cache ELSE "conflict")
      <4>1. cache \in Requests /\ exec[cache] = "committed" /\ pc[cache] # "idle"
        BY <3>1 DEF Backed, Fresh, Before, TypeOK
      <4>2. sent[cache] # None
        BY <4>1, NoneIsNew DEF Asked
      <4>3. CASE sent[cache] = payload
        BY <3>1, <4>1, <4>3, AnswerReplies DEF Effect!Truthful, Committed
      <4>4. CASE sent[cache] # payload
        <5>1. Effect!Truthful(r, payload, "conflict")
          BY <4>1, <4>2, <4>4 DEF Effect!Truthful
        <5> QED BY <3>1, <4>4, <5>1, AnswerReplies DEF Failures
      <4> QED BY <4>3, <4>4
    <3> QED BY <1>1, <3>1 DEF Arrive
  <2>4. Effect!Ask(r, payload)
    BY <2>1, <2>2, <2>3 DEF Effect!Ask
  <2> QED BY <2>4 DEF Effect!Next
<1>2. CASE Reserve(r)
  <2>1. UNCHANGED Committed
    BY <1>2 DEF Reserve, Execute, Committed, TypeOK, Fresh, Before
  <2> QED BY <1>2, <2>1, Unseen DEF Reserve
<1>3. CASE Lookup(r)
  <2>0. pc[r] # "idle" /\ r \in Requests /\ sent[r] # None
    BY <1>3, NoneIsNew DEF Lookup, Asked
  <2>1. CASE ~Visible
    <3>1. UNCHANGED Committed
      BY <1>3, <2>1 DEF Lookup, Execute, Committed, TypeOK, Fresh, Before
    <3> QED BY <1>3, <2>1, <3>1, Unseen DEF Lookup
  <2>2. CASE Visible /\ Move(r, "drop") /\ UNCHANGED <<exec, answer, unguarded>>
    BY <1>3, <2>2, Unseen DEF Lookup, Committed
  <2>3. CASE /\ Visible
             /\ Answer(r, IF row.payload # sent[r] THEN "conflict"
                          ELSE IF row.response # None THEN row.response
                          ELSE "inProgress")
             /\ UNCHANGED <<exec, unguarded>>
    <3>1. PICK q \in Requests : pc[q] \notin Before /\ sent[q] = row.payload
      BY <2>3 DEF Visible, Asked
    <3>2. q # r /\ sent[q] # None
      BY <1>3, <3>1, NoneIsNew DEF Lookup, Asked, Before
    <3>3. UNCHANGED sent
      BY <1>3 DEF Lookup
    <3>4. CASE row.payload # sent[r]
      <4>1. Effect!Truthful(r, sent[r], "conflict")
        BY <3>1, <3>2, <3>4 DEF Effect!Truthful
      <4> QED BY <2>0, <2>3, <3>3, <3>4, <4>1, AnswerHeard DEF Failures
    <3>5. CASE row.payload = sent[r] /\ row.response # None
      <4>1. row.response \in Requests /\ exec[row.response] = "committed"
        BY <3>5 DEF Backed, TypeOK, Row
      <4>2. unguarded \/ sent[row.response] = sent[r]
        <5>1. exec[row.response] \in Counting
          BY <4>1 DEF Counting
        <5>2. unguarded \/ row.payload = sent[row.response]
          BY <4>1, <5>1, Zenon DEF Guarded
        <5> QED BY <3>5, <5>2, Zenon
      <4>3. Effect!Truthful(r, sent[r], row.response)
        BY <4>1, <4>2, Zenon DEF Effect!Truthful, Committed
      <4> QED BY <2>0, <2>3, <3>3, <3>5, <4>1, <4>3, AnswerHeard
    <3>6. CASE row.payload = sent[r] /\ row.response = None
      <4>1. Effect!Truthful(r, sent[r], "inProgress")
        BY <3>1, <3>2 DEF Effect!Truthful
      <4> QED BY <2>0, <2>3, <3>3, <3>6, <4>1, AnswerHeard DEF Failures
    <3> QED BY <3>4, <3>5, <3>6
  <2> QED BY <1>3, <2>1, <2>2, <2>3 DEF Lookup
<1>4. CASE Drop(r)
  <2>1. UNCHANGED unguarded \/ unguarded' = TRUE
    BY <1>4, Raised DEF Drop, DropRow
  <2> QED BY <1>4, <2>1, Unseen DEF Drop, Committed
<1>5. CASE Uncache(r)
  BY <1>5, Unseen DEF Uncache, Committed
<1>6. CASE ReReserve(r)
  <2>1. CASE Free
    <3>1. UNCHANGED Committed
      BY <1>6, <2>1 DEF ReReserve, Execute, Committed, TypeOK, Fresh, Before
    <3> QED BY <1>6, <2>1, <3>1, Unseen DEF ReReserve
  <2>2. CASE ~Free
    <3>1. PICK q \in Requests : pc[q] \notin Before /\ sent[q] = row.payload
      BY <2>2 DEF Free, Asked
    <3>2. q # r /\ sent[q] # None
      BY <1>6, <3>1, NoneIsNew DEF ReReserve, Asked, Before
    <3>3. Effect!Truthful(r, sent[r], "inProgress")
      BY <3>2 DEF Effect!Truthful
    <3> QED BY <1>6, <2>2, <3>3, AnswerHeard DEF ReReserve, Failures
  <2> QED BY <2>1, <2>2
<1>7. CASE InitFails(r)
  <2>1. Effect!Truthful(r, sent[r], "failed")
    BY DEF Effect!Truthful
  <2> QED BY <1>7, <2>1, AnswerHeard DEF InitFails, Failures
<1> QED BY <1>1, <1>2, <1>3, <1>4, <1>5, <1>6, <1>7 DEF Middleware

\* The same of the handler, of its response and of what follows it: a handler
\* that commits takes effect, and no other has unless a reservation was lost.
LEMMA ResponseMoves ==
  ASSUME Inv, Asked, Inv', NEW r \in Requests, Response(r)
  PROVE  [Effect!Next]_(Effect!vars)
<1> USE DEF Inv
<1>1. CASE Handle(r)
  <2>1. CASE exec' = [exec EXCEPT ![r] = "rolledBack"]
    <3>1. UNCHANGED Committed
      BY <1>1, <2>1 DEF Handle, Committed, TypeOK
    <3> QED BY <1>1, <3>1, Unseen DEF Handle
  <2>2. CASE exec' = [exec EXCEPT ![r] = "committed"]
    <3>1. Committed' = Committed \cup {r} /\ r \notin Committed
      BY <1>1, <2>2 DEF Handle, Committed, TypeOK
    <3>2. unguarded \/ Committed = {}
      <4> SUFFICES ASSUME ~unguarded, NEW q \in Committed PROVE FALSE
        BY Zenon
      <4>1. /\ q \in Requests /\ q # r
            /\ exec[q] \in Counting /\ exec[r] \in Counting
        BY <1>1, <3>1 DEF Handle, Committed, Counting
      <4> QED BY <4>1, Zenon DEF Guarded
    <3>3. sent[r] # None
      BY <1>1, NoneIsNew DEF Handle, Asked, Fresh, Before
    <3>4. Effect!TakeEffect(r)
      BY <1>1, <3>1, <3>2, <3>3, Zenon DEF Effect!TakeEffect, Handle
    <3> QED BY <3>4 DEF Effect!Next
  <2> QED BY <1>1, <2>1, <2>2 DEF Handle
<1>2. CASE Respond(r)
  <2>1. PICK result \in {r, "failed"} :
          /\ result = r => exec[r] = "committed"
          /\ Answer(r, result)
    <3>1. r # "failed"
      BY FailuresAreNew
    <3> QED BY <1>2, <3>1 DEF Respond
  <2>2. result \in Requests \cup Failures /\ pc[r] # "idle"
    BY <1>2 DEF Respond, Failures
  <2>3. Effect!Truthful(r, sent[r], result)
    BY <2>1 DEF Effect!Truthful, Committed
  <2> QED BY <1>2, <2>1, <2>2, <2>3, AnswerHeard DEF Respond
<1>3. CASE Timeout(r)
  <2>1. Effect!Truthful(r, sent[r], "failed")
    BY DEF Effect!Truthful
  <2> QED BY <1>3, <2>1, AnswerHeard DEF Timeout, Failures
<1>4. CASE Persist(r) \/ CacheSet(r) \/ Evict(r)
  BY <1>4, Unseen DEF Persist, CacheSet, Evict, Committed
<1>5. CASE Delete(r)
  <2>1. UNCHANGED unguarded \/ unguarded' = TRUE
    BY <1>5, Raised DEF Delete, DropRow
  <2> QED BY <1>5, <2>1, Unseen DEF Delete, Committed
<1> QED BY <1>1, <1>2, <1>3, <1>4, <1>5 DEF Response

\* The environment loses reservations, and undoes no effect.
LEMMA EnvironmentMoves ==
  ASSUME Inv, Crash \/ Age \/ Forget PROVE [Effect!Next]_(Effect!vars)
<1>1. CASE Crash
  <2>1. UNCHANGED Committed
    BY <1>1 DEF Crash, Committed
  <2> QED BY <1>1, <2>1, Unseen DEF Crash
<1>2. CASE Age
  <2>1. UNCHANGED unguarded \/ unguarded' = TRUE
    BY <1>2, Raised DEF Age, Inv
  <2> QED BY <1>2, <2>1, Unseen DEF Age, Committed
<1>3. CASE Forget
  BY <1>3, Unseen DEF Forget, Committed
<1> QED BY <1>1, <1>2, <1>3

\* The middleware keeps the promise of OneEffect, for any number of requests:
\* as long as no reservation is lost the key has one effect, every request is
\* answered at most once, a success names the effect and its payload, and a
\* conflict or a refusal names a request that is there.
THEOREM MiddlewareKeepsPromise == Spec => EffectPromised
<1>1. Init => Effect!Init
  BY DEF Init, Effect!Init, Committed
<1>2. ASSUME Inv, Asked, Inv', [Next]_vars PROVE [Effect!Next]_(Effect!vars)
  <2>1. CASE UNCHANGED vars
    BY <2>1 DEF vars, Effect!vars, Committed
  <2> QED BY <1>2, <2>1, MiddlewareMoves, ResponseMoves, EnvironmentMoves DEF Next
<1>3. Inv /\ Asked /\ [Next]_vars => Asked'
  BY StepAsked DEF Inv
<1> QED BY <1>1, <1>2, <1>3, InvHolds, InitAsked, PTL DEF Spec, EffectPromised, Effect!Spec
=============================================================================
