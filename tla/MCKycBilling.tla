---------------------------- MODULE MCKycBilling ----------------------------
(* One KYC document and one field task; two invoices and two clerks, that are *)
(* interchangeable.                                                           *)
EXTENDS KycBilling, TLC

CONSTANTS t1, f1, i1, i2, c1, c2, v1, positive

Document == {t1}
FieldTask == {f1}
TwoInvoices == {i1, i2}
TwoClerks == {c1, c2}
OneVerifier == {v1}
OneOutcome == {positive}
NoRequest == {}

Symmetry == Permutations(InvoiceIds) \cup Permutations(Clerks)

\* No step reads the verifier of a cycle, and no property of these runs does.
CycleStatuses == [t \in Tasks |-> [i \in DOMAIN cycles[t] |-> cycles[t][i].status]]
Seen == <<doc, task, CycleStatuses, caseStatus, req, moved, drift, invoiceVars, fieldVars>>
=============================================================================
