----------------------------- MODULE AuditTrail -----------------------------
(***************************************************************************)
(* What the audit log promises, without queue, slots, locks or files: an   *)
(* event that was emitted is owed until it is settled, each entry of the   *)
(* trail is for an event that is still owed and links to the entry before  *)
(* it, an event is settled only once it is in the trail or was given up,   *)
(* and a settled one never comes back.  A retry may write an owed event    *)
(* again.  AuditLog implements this.                                       *)
(***************************************************************************)
EXTENDS Naturals, Sequences

CONSTANTS Events

VARIABLES
  emitted,
  owed,      \* the events that may still be written
  trail,     \* the entries
  givenUp    \* the events lost where the code accepts it

vars == <<emitted, owed, trail, givenUp>>

Written == {trail[i].event : i \in DOMAIN trail}

Init == emitted = {} /\ owed = {} /\ trail = <<>> /\ givenUp = {}

Emit(e) ==
  /\ e \notin emitted
  /\ emitted' = emitted \cup {e}
  /\ owed' = owed \cup {e}
  /\ UNCHANGED <<trail, givenUp>>

Write(e) ==
  /\ e \in owed
  /\ trail' = Append(trail, [event |-> e, prev |-> Len(trail)])
  /\ UNCHANGED <<emitted, owed, givenUp>>

\* A death gives up several events at once.
Settle ==
  /\ owed' \subseteq owed
  /\ givenUp \subseteq givenUp' /\ givenUp' \subseteq givenUp \cup owed
  /\ owed \ owed' \subseteq Written \cup givenUp'
  /\ UNCHANGED <<emitted, trail>>

Next == Settle \/ \E e \in Events : Emit(e) \/ Write(e)

Spec == Init /\ [][Next]_vars
=============================================================================
