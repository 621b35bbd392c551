------------------------ MODULE MCFieldTaskLifecycle ------------------------
(* Instances of FieldTaskLifecycle for TLC: the groups of endpoints the runs *)
(* enable, and the symmetry of the identities.                               *)
EXTENDS FieldTaskLifecycle, TLC

CONSTANTS t1, t2, v1, v2, a1, a2, r1, r2

OneTask == {t1}
TwoTasks == {t1, t2}
OneType == {v1}
TwoTypes == {v1, v2}
OneAgent == {a1}
TwoAgents == {a1, a2}
OneRequest == {r1}
TwoRequests == {r1, r2}

Symmetry == Permutations(Tasks) \cup Permutations(Types) \cup Permutations(Agents)
              \cup Permutations(Requests)

\* Visits that are revoked, replaced, handed over and revisited.
Dispatch == {"create", "start", "syncStart", "submit", "finalize", "revoke",
             "mobileRevoke", "assign", "bulkAssign", "revisit"}

\* Visits that are submitted, reviewed, reopened and completed again, with no
\* request dying.
Billing == {"create", "start", "webStart", "submit", "complete", "finalize",
            "revoke", "assign", "toggleReview"}

\* The general edits among the office's other operations.
Edits == {"createCase", "create", "webStart", "revoke", "assign", "revisit", "update",
          "editCase", "syncCase", "die"}

\* An agent starts a task while the office edits it.
UpdateRace == {"create", "start", "update"}
=============================================================================
