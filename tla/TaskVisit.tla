------------------------------ MODULE TaskVisit ------------------------------
(***************************************************************************)
(* What the handlers promise of a verification task, without requests,     *)
(* tables or triggers: a task waits for its visit, is visited by the agent *)
(* who holds it, may be reviewed, and is done; what is billed for it is    *)
(* settled once.  A revoked task never comes back.  FieldTaskLifecycle     *)
(* implements this when the general edits are not used.                    *)
(*                                                                         *)
(* One statement may move several tasks (a bulk assignment, the tasks of   *)
(* one creation), so a step is any combination of moves of single tasks.   *)
(***************************************************************************)
CONSTANTS Tasks, Agents, None, Amounts

VARIABLES
  phase,    \* where the task stands
  holder,   \* the agent who has it
  bill      \* the amount billed for it

vars == <<phase, holder, bill>>

Init ==
  /\ phase = [t \in Tasks |-> "absent"]
  /\ holder = [t \in Tasks |-> None]
  /\ bill = [t \in Tasks |-> None]

Keep(t) ==
  phase'[t] = phase[t] /\ holder'[t] = holder[t] /\ bill'[t] = bill[t]

Create(t) ==
  /\ phase[t] = "absent" /\ phase'[t] = "waiting"
  /\ holder'[t] \in Agents \cup {None}
  /\ bill'[t] = bill[t]

\* The visit of a held task begins.  A web start that was decided before the
\* form came in takes the task back out of its review.
BeginVisit(t) ==
  /\ phase[t] \in {"waiting", "review"} /\ phase'[t] = "visit"
  /\ holder[t] # None /\ holder'[t] = holder[t]
  /\ bill'[t] = bill[t]

\* The amount is chosen the first time the visit ends, and never again.
Bill(t) ==
  IF bill[t] = None THEN bill'[t] \in Amounts ELSE bill'[t] = bill[t]

\* A visit ends in review or done, a review in done.
EndVisit(t) ==
  /\ \/ phase[t] = "visit" /\ phase'[t] \in {"review", "done"}
     \/ phase[t] = "review" /\ phase'[t] = "done"
  /\ holder'[t] = holder[t]
  /\ Bill(t)

\* Only a task that waits, or is done and thereby reopened, changes hands.
HandOver(t) ==
  /\ phase[t] \in {"waiting", "done"} /\ phase'[t] = "waiting"
  /\ holder'[t] \in Agents
  /\ bill'[t] = bill[t]

Revoke(t) ==
  /\ phase[t] \in {"waiting", "visit", "review"} /\ phase'[t] = "revoked"
  /\ holder'[t] = None
  /\ bill'[t] = bill[t]

Move(t) ==
  \/ Keep(t) \/ Create(t) \/ BeginVisit(t) \/ EndVisit(t) \/ HandOver(t) \/ Revoke(t)

Next == \A t \in Tasks : Move(t)

Spec == Init /\ [][Next]_vars
=============================================================================
