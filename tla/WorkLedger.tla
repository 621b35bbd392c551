----------------------------- MODULE WorkLedger -----------------------------
(***************************************************************************)
(* What invoicing promises of the work it bills, without clerks, statuses, *)
(* items or flags.  Some work can be reopened after it was done; the rest  *)
(* stays done.  A new invoice takes work that no invoice holds and that is *)
(* done or, where it can be reopened, has once been done; an invoice takes *)
(* nothing later, and what it holds is released at once, all of it, and    *)
(* goes to another invoice only after that.  KycBilling implements this.   *)
(***************************************************************************)
CONSTANTS Units,
          Reopenable,   \* the units that may be reopened
          Invoices, None

VARIABLES
  done,     \* the units that are completed
  reached,  \* the reopenable units that have been completed at some time
  bill,     \* the invoice that holds each unit
  issued    \* the invoices there have been

vars == <<done, reached, bill, issued>>

Init ==
  /\ done \in SUBSET Units
  /\ reached = done \cap Reopenable
  /\ bill = [u \in Units |-> None]
  /\ issued = {}

\* Work is completed, or reopened where it can be.
Work ==
  /\ done \ Reopenable \subseteq done' /\ done' \subseteq Units
  /\ reached' = reached \cup (done' \cap Reopenable)
  /\ UNCHANGED <<bill, issued>>

Free == {u \in (done \ Reopenable) \cup reached : bill[u] = None}

Issue(i) ==
  /\ i \notin issued
  /\ issued' = issued \cup {i}
  /\ \E taken \in SUBSET Free :
       bill' = [u \in Units |-> IF u \in taken THEN i ELSE bill[u]]
  /\ UNCHANGED <<done, reached>>

Release(i) ==
  /\ bill' = [u \in Units |-> IF bill[u] = i THEN None ELSE bill[u]]
  /\ UNCHANGED <<done, reached, issued>>

Next == Work \/ \E i \in Invoices : Issue(i) \/ Release(i)

Spec == Init /\ [][Next]_vars
=============================================================================
