-------------------------- MODULE MCKycVerification --------------------------
(* Two documents of one case and two requests, that are interchangeable. *)
EXTENDS KycVerification, TLC

CONSTANTS t1, t2, r1, r2

TwoDocuments == {t1, t2}
TwoRequests == {r1, r2}

Symmetry == Permutations(Tasks) \cup Permutations(Requests)

\* No guard reads cases.status, and no property looks at it while a recount is
\* owed or lost: states that differ in nothing else are one.  (An uploaded change
\* to the status the case has is a step that changes nothing.)
Recounted ==
  IF drift \/ \E r \in Requests : req[r].step = "recount" THEN None ELSE caseStatus
Seen == <<doc, task, cycles, Recounted, req, moved, drift>>
=============================================================================
