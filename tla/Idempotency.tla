---------------------------- MODULE Idempotency ----------------------------
(***************************************************************************)
(* The idempotency middleware in front of the phones' writes, for one key  *)
(* of one user and scope.  Every member of `Requests' is one HTTP request  *)
(* carrying the key: the phone retries whenever it saw no answer it likes. *)
(*                                                                         *)
(* The row of the key is a reservation until a response is stored in it.   *)
(* A step is one statement or transaction against the database or Redis,   *)
(* or one event of the HTTP server.  A 2xx response is named by the        *)
(* request whose execution produced it.                                    *)
(*                                                                         *)
(* `unguarded' is a history variable: an execution that took effect, or    *)
(* still may, was left without the reservation that should exclude others. *)
(***************************************************************************)

CONSTANTS Requests, Payloads, None

ASSUME NoneIsNew == None \notin Requests \cup Payloads
ASSUME FailuresAreNew == {"failed", "conflict", "inProgress"} \cap Requests = {}

VARIABLES
  row,        \* the row of mobile_idempotency_keys
  cache,      \* the response in Redis
  pc,         \* where a request stands in the middleware
  sent,       \* its payload, of which the row keeps the hash
  exec,       \* its execution of the handler
  answer,     \* what it was answered
  after,      \* what its finish event still has to do
  unguarded

vars == <<row, cache, pc, sent, exec, answer, after, unguarded>>

NoRow == [age |-> "absent", payload |-> None, response |-> None]
Row == [age : {"absent", "young", "stale", "expired"},
        payload : Payloads \cup {None}, response : Requests \cup {None}]

Failures == {"failed", "conflict", "inProgress"}
-----------------------------------------------------------------------------
Move(r, step) == pc' = [pc EXCEPT ![r] = step]

AnswerAgain(r, a) == answer' = [answer EXCEPT ![r] = a]      \* a mutant
\* An answer after the first is lost: the headers are already sent.
Answer(r, a) == answer' = [answer EXCEPT ![r] = IF @ = None THEN a ELSE @]

\* An execution that has taken effect, or still may.
Counting == {"running", "committed"}
Unsettled == \E r \in Requests : exec[r] \in Counting

Execute(r) ==
  /\ Move(r, "run")
  /\ exec' = [exec EXCEPT ![r] = "running"]
-----------------------------------------------------------------------------
(* The middleware. *)

\* The Redis look-up: a hit answers, a miss or an unhealthy Redis goes on.
Arrive(r, payload) ==
  /\ pc[r] = "idle"
  /\ sent' = [sent EXCEPT ![r] = payload]
  /\ \/ /\ cache # None
        /\ Answer(r, IF sent[cache] = payload THEN cache ELSE "conflict")
        /\ Move(r, "done")
     \/ /\ Move(r, "reserve")
        /\ UNCHANGED answer
  /\ UNCHANGED <<row, cache, exec, after, unguarded>>

\* INSERT ... ON CONFLICT DO NOTHING: an expired row still conflicts.
FreeUntilAnswered == row.age = "absent" \/ row.response = None  \* a mutant
Free == row.age = "absent"

ReservedAsPending(r) ==                                     \* a mutant
  [age |-> "young", payload |-> sent[r], response |-> "inProgress"]
Reserved(r) == [age |-> "young", payload |-> sent[r], response |-> None]

Reserve(r) ==
  /\ pc[r] = "reserve"
  /\ IF Free
     THEN row' = Reserved(r) /\ Execute(r)
     ELSE Move(r, "lookup") /\ UNCHANGED <<row, exec>>
  /\ UNCHANGED <<cache, sent, answer, after, unguarded>>

\* getReplayRow does not see an expired row; without a row the request goes
\* on to the handler and holds no reservation.
Visible == row.age \in {"young", "stale"}

Lookup(r) ==
  /\ pc[r] = "lookup"
  /\ \/ /\ ~Visible
        /\ Execute(r)
        /\ unguarded' = TRUE
        /\ UNCHANGED answer
     \/ /\ Visible
        /\ row.payload = sent[r] /\ row.response = None /\ row.age = "stale"
        /\ Move(r, "drop")
        /\ UNCHANGED <<exec, answer, unguarded>>
     \/ /\ Visible
        /\ ~(row.payload = sent[r] /\ row.response = None /\ row.age = "stale")
        /\ Answer(r, IF row.payload # sent[r] THEN "conflict"
                     ELSE IF row.response # None THEN row.response
                     ELSE "inProgress")
        /\ Move(r, "done")
        /\ UNCHANGED <<exec, unguarded>>
  /\ UNCHANGED <<row, cache, sent, after>>

\* deleteReservation names the key, not the reservation it read; its errors
\* are swallowed.
DropRow ==
  \/ row' = NoRow /\ unguarded' = (unguarded \/ Unsettled)
  \/ UNCHANGED <<row, unguarded>>

DropCache == cache' \in {cache, None}

\* The take-over of a stale reservation.
Drop(r) ==
  /\ pc[r] = "drop"
  /\ DropRow
  /\ Move(r, "uncache")
  /\ UNCHANGED <<cache, sent, exec, answer, after>>

Uncache(r) ==
  /\ pc[r] = "uncache"
  /\ DropCache
  /\ Move(r, "reReserve")
  /\ UNCHANGED <<row, sent, exec, answer, after, unguarded>>

ReReserve(r) ==
  /\ pc[r] = "reReserve"
  /\ IF Free
     THEN row' = Reserved(r) /\ Execute(r) /\ UNCHANGED answer
     ELSE Answer(r, "inProgress") /\ Move(r, "done") /\ UNCHANGED <<row, exec>>
  /\ UNCHANGED <<cache, sent, after, unguarded>>

\* The transaction of a reservation fails.
InitFails(r) ==
  /\ pc[r] \in {"reserve", "lookup", "reReserve"}
  /\ Answer(r, "failed")
  /\ Move(r, "done")
  /\ UNCHANGED <<row, cache, sent, exec, after, unguarded>>
-----------------------------------------------------------------------------
(* The handler, the response and its finish event. *)

\* The handler's transaction commits or rolls back.
Handle(r) ==
  /\ exec[r] = "running"
  /\ \E outcome \in {"committed", "rolledBack"} : exec' = [exec EXCEPT ![r] = outcome]
  /\ UNCHANGED <<row, cache, pc, sent, answer, after, unguarded>>

\* What the finish event does with the response; without a connection it
\* may not come.
FinishStoring(r, result) ==                                  \* a mutant
  \E todo \in {"persist", "nothing"} : after' = [after EXCEPT ![r] = todo]
Finish(r, result) ==
  \E todo \in {IF result = "failed" THEN "delete" ELSE "persist", "nothing"} :
    after' = [after EXCEPT ![r] = todo]

\* A handler that committed can still fail in what it does afterwards.
Respond(r) ==
  /\ pc[r] = "run"
  /\ exec[r] \in {"committed", "rolledBack"}
  /\ \E result \in IF exec[r] = "committed" THEN {r, "failed"} ELSE {"failed"} :
       /\ Answer(r, result)
       /\ IF answer[r] = None THEN Finish(r, result) ELSE UNCHANGED after
  /\ Move(r, "done")
  /\ UNCHANGED <<row, cache, sent, exec, unguarded>>

\* requestTimeout answers 504; the middleware or the handler goes on.
Timeout(r) ==
  /\ pc[r] \notin {"idle", "done"}
  /\ answer[r] = None
  /\ Answer(r, "failed")
  /\ IF pc[r] = "run" THEN Finish(r, "failed") ELSE UNCHANGED after
  /\ UNCHANGED <<row, cache, pc, sent, exec, unguarded>>

\* persistResponse updates whatever row the key has by now; its errors are
\* swallowed, and Redis is written all the same.
Persist(r) ==
  /\ after[r] = "persist"
  /\ \/ row.age # "absent" /\ row' = [row EXCEPT !.response = r]
     \/ UNCHANGED row
  /\ after' = [after EXCEPT ![r] = "cache"]
  /\ UNCHANGED <<cache, pc, sent, exec, answer, unguarded>>

CacheSet(r) ==
  /\ after[r] = "cache"
  /\ cache' \in {cache, r}
  /\ after' = [after EXCEPT ![r] = "nothing"]
  /\ UNCHANGED <<row, pc, sent, exec, answer, unguarded>>

Delete(r) ==
  /\ after[r] = "delete"
  /\ DropRow
  /\ after' = [after EXCEPT ![r] = "evict"]
  /\ UNCHANGED <<cache, pc, sent, exec, answer>>

Evict(r) ==
  /\ after[r] = "evict"
  /\ DropCache
  /\ after' = [after EXCEPT ![r] = "nothing"]
  /\ UNCHANGED <<row, pc, sent, exec, answer, unguarded>>
-----------------------------------------------------------------------------
(* The environment. *)

\* The process dies with all it was doing; its transactions roll back.
Crash ==
  /\ pc' = [r \in Requests |-> IF pc[r] = "idle" THEN "idle" ELSE "done"]
  /\ exec' = [r \in Requests |-> IF exec[r] = "running" THEN "rolledBack" ELSE exec[r]]
  /\ after' = [r \in Requests |-> "nothing"]
  /\ UNCHANGED <<row, cache, sent, answer, unguarded>>

\* Five minutes pass; then 72 hours; then, a week later, the daily purge.
Age ==
  /\ \/ row.age = "young" /\ row' = [row EXCEPT !.age = "stale"] /\ UNCHANGED unguarded
     \/ /\ row.age = "stale"
        /\ row' = [row EXCEPT !.age = "expired"]
        /\ unguarded' = (unguarded \/ Unsettled)
     \/ row.age = "expired" /\ row' = NoRow /\ UNCHANGED unguarded
  /\ UNCHANGED <<cache, pc, sent, exec, answer, after>>

\* Redis evicts or expires the entry.
Forget ==
  /\ cache # None
  /\ cache' = None
  /\ UNCHANGED <<row, pc, sent, exec, answer, after, unguarded>>
-----------------------------------------------------------------------------
Init ==
  /\ row = NoRow
  /\ cache = None
  /\ pc = [r \in Requests |-> "idle"]
  /\ sent = [r \in Requests |-> None]
  /\ exec = [r \in Requests |-> "none"]
  /\ answer = [r \in Requests |-> None]
  /\ after = [r \in Requests |-> "nothing"]
  /\ unguarded = FALSE

Middleware(r) ==
  \/ \E payload \in Payloads : Arrive(r, payload)
  \/ Reserve(r) \/ Lookup(r) \/ Drop(r) \/ Uncache(r) \/ ReReserve(r) \/ InitFails(r)

Response(r) ==
  \/ Handle(r) \/ Respond(r) \/ Timeout(r)
  \/ Persist(r) \/ CacheSet(r) \/ Delete(r) \/ Evict(r)

Next ==
  \/ \E r \in Requests : Middleware(r) \/ Response(r)
  \/ Crash \/ Age \/ Forget

Spec == Init /\ [][Next]_vars
-----------------------------------------------------------------------------
(* What should hold. *)

\* Every variable has its shape.
TypeOK ==
  /\ row \in Row
  /\ cache \in Requests \cup {None}
  /\ pc \in [Requests -> {"idle", "reserve", "lookup", "drop", "uncache",
                          "reReserve", "run", "done"}]
  /\ sent \in [Requests -> Payloads \cup {None}]
  /\ exec \in [Requests -> {"none", "running", "committed", "rolledBack"}]
  /\ answer \in [Requests -> Requests \cup Failures \cup {None}]
  /\ after \in [Requests -> {"nothing", "persist", "cache", "delete", "evict"}]
  /\ unguarded \in BOOLEAN

\* However the retries race with each other, with time and with crashes, the
\* handler takes effect once, as long as no reservation was lost under an
\* execution and none ran without one.
ExecutedOnce ==
  unguarded \/ \A q, r \in Requests :
                 exec[q] = "committed" /\ exec[r] = "committed" => q = r

\* A success that is answered, replayed from the row or from Redis, is the
\* answer of an execution that took effect, and of the same payload while
\* the reservations held.
ReplayIsTrue ==
  \A r \in Requests : answer[r] \in Requests =>
    /\ exec[answer[r]] = "committed"
    /\ unguarded \/ sent[answer[r]] = sent[r]
-----------------------------------------------------------------------------
(* The promise the middleware implements. *)

Committed == {r \in Requests : exec[r] = "committed"}

Effect == INSTANCE OneEffect WITH
            asked <- sent, effects <- Committed, replies <- answer, lost <- unguarded

\* Seen from outside, rows, Redis, timeouts and crashes amount to this: until a
\* reservation is lost the key has one effect, and each request hears once, of
\* an effect of its own payload, of a conflict or of another request that are
\* really there, or of a failure.
EffectPromised == Effect!Spec
=============================================================================
