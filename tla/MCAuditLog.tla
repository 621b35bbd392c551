---------------------------- MODULE MCAuditLog ----------------------------
(* Instances of AuditLog for TLC. *)
EXTENDS AuditLog, TLC

CONSTANTS e1, e2, s1, s2

TwoEvents == {e1, e2}
TwoSlots == {s1, s2}

Symmetry == Permutations(Events) \cup Permutations(Slots)
=============================================================================
