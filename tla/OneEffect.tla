----------------------------- MODULE OneEffect -----------------------------
(***************************************************************************)
(* What the idempotency middleware promises of one key, without rows,      *)
(* caches, events or a clock: the requests that carry the key have one     *)
(* effect between them, each of them is answered at most once, and every   *)
(* answer is true.  Once a reservation was lost the effect may repeat, but *)
(* a success still names an effect there was.  Idempotency implements      *)
(* this.                                                                   *)
(***************************************************************************)
CONSTANTS Requests, Payloads, None

VARIABLES
  asked,     \* the payload of each request that has arrived
  effects,   \* the requests whose execution took effect
  replies,   \* what each request was answered
  lost       \* a reservation was lost

vars == <<asked, effects, replies, lost>>

Init ==
  /\ asked = [r \in Requests |-> None]
  /\ effects = {}
  /\ replies = [r \in Requests |-> None]
  /\ lost = FALSE

\* What is true of the effects and of the other requests of the key.
Truthful(r, payload, a) ==
  \/ a \in effects /\ (lost \/ asked[a] = payload)
  \/ a = "conflict" /\ \E q \in Requests : asked[q] \notin {None, payload}
  \/ a = "inProgress" /\ \E q \in Requests \ {r} : asked[q] # None
  \/ a = "failed"

Reply(r, payload) ==
  /\ replies[r] = None
  /\ \E a \in Requests \cup {"conflict", "inProgress", "failed"} :
       /\ Truthful(r, payload, a)
       /\ replies' = [replies EXCEPT ![r] = a]

\* A request arrives, and may be answered at once.
Ask(r, payload) ==
  /\ asked[r] = None
  /\ asked' = [asked EXCEPT ![r] = payload]
  /\ UNCHANGED replies \/ Reply(r, payload)
  /\ UNCHANGED <<effects, lost>>

TakeEffect(r) ==
  /\ asked[r] # None
  /\ r \notin effects
  /\ lost \/ effects = {}
  /\ effects' = effects \cup {r}
  /\ UNCHANGED <<asked, replies, lost>>

Hear(r) ==
  /\ asked[r] # None
  /\ Reply(r, asked[r])
  /\ UNCHANGED <<asked, effects, lost>>

Lose ==
  /\ lost' = TRUE
  /\ UNCHANGED <<asked, effects, replies>>

Next ==
  \/ \E r \in Requests :
       (\E payload \in Payloads : Ask(r, payload)) \/ TakeEffect(r) \/ Hear(r)
  \/ Lose

Spec == Init /\ [][Next]_vars
=============================================================================
