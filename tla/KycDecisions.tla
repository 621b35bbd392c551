---------------------------- MODULE KycDecisions ----------------------------
(***************************************************************************)
(* What the KYC handlers promise of the documents of a case, without task  *)
(* rows, verifiers, requests or cycles.  Every document has a decision or  *)
(* waits for one; the decisions that a reverification replaces are kept,   *)
(* in their order.  The environment may disturb documents; it neither      *)
(* makes nor unmakes decisions, and among the documents it has not         *)
(* disturbed one at most waits.  KycVerification implements this.          *)
(***************************************************************************)
EXTENDS Sequences

CONSTANTS Documents, Outcomes, None

VARIABLES
  known,      \* the documents the case has
  decision,   \* the decision each of them stands at
  history,    \* the decisions that were replaced, oldest first
  disturbed   \* the documents that others have interfered with

vars == <<known, decision, history, disturbed>>

Init ==
  /\ \E d \in Documents : known = {d}
  /\ decision = [d \in Documents |-> None]
  /\ history = [d \in Documents |-> <<>>]
  /\ disturbed = {}

\* The decision ends what others did to the document.
Decide(d, outcome) ==
  /\ d \in known /\ decision[d] = None
  /\ decision' = [decision EXCEPT ![d] = outcome]
  /\ disturbed' = disturbed \ {d}
  /\ UNCHANGED <<known, history>>

\* Taking a document up again may find it disturbed, and may leave it so.
TakenUp(d) == disturbed' \in {disturbed, disturbed \ {d}}

\* A recheck drops the decision, if there is one.
Withdraw(d) ==
  /\ d \in known
  /\ decision' = [decision EXCEPT ![d] = None]
  /\ TakenUp(d)
  /\ UNCHANGED <<known, history>>

\* A reverification files it.
Renew(d) ==
  /\ d \in known /\ decision[d] # None
  /\ decision' = [decision EXCEPT ![d] = None]
  /\ history' = [history EXCEPT ![d] = Append(@, decision[d])]
  /\ TakenUp(d)
  /\ UNCHANGED known

\* A recheck by clone adds a document.
Add(d) ==
  /\ d \notin known
  /\ known' = known \cup {d}
  /\ UNCHANGED <<decision, history, disturbed>>

Disturb ==
  /\ disturbed \subseteq disturbed'
  /\ UNCHANGED <<known, decision, history>>

Waiting == {d \in known \ disturbed : decision[d] = None}
OneWaits == \A d1, d2 \in Waiting : d1 = d2

\* A document is taken up or added only if no undisturbed one waits.
Next ==
  /\ \/ Disturb
     \/ \E d \in Documents :
          (\E outcome \in Outcomes : Decide(d, outcome)) \/ Withdraw(d) \/ Renew(d) \/ Add(d)
  /\ OneWaits'

Spec == Init /\ [][Next]_vars
=============================================================================
