----------------------------- MODULE KycBilling -----------------------------
(***************************************************************************)
(* KYC verification and invoicing over one database: the cycles that       *)
(* KycVerification completes are units of the invoices, with the client's  *)
(* field tasks.  Documents are rechecked, reverified and reassigned, and   *)
(* field tasks completed and reopened, while clerks invoice, cancel and    *)
(* delete.  The life of a field task is FieldTaskLifecycle's; here it is   *)
(* completed or it is not.                                                 *)
(***************************************************************************)
EXTENDS KycVerification

CONSTANTS FieldTasks,    \* the field tasks of the client
          InvoiceIds, Clerks

VARIABLES
  status, charges, link, billed, past, clerk,   \* of Invoices
  completed,   \* the field tasks that are COMPLETED
  visited      \* history: the field tasks that have been COMPLETED

invoiceVars == <<status, charges, link, billed, past, clerk>>
fieldVars == <<completed, visited>>

Cycles == Tasks \X (1..MaxCycles)

ASSUME BillingAssumptions == None \notin InvoiceIds /\ FieldTasks \cap Cycles = {}

CompletedCycles ==
  {u \in Cycles : u[2] <= Len(cycles[u[1]]) /\ cycles[u[1]][u[2]].status = "KYC_COMPLETED"}

I == INSTANCE Invoices WITH Units <- Cycles \cup FieldTasks,
                            finished <- CompletedCycles \cup completed

Init == KycInit /\ I!InvInit /\ completed = {} /\ visited = {}

\* A visit ends: the task is submitted, reviewed or completed.
CompleteField(f) ==
  /\ f \notin completed
  /\ completed' = completed \cup {f}
  /\ visited' = visited \cup {f}
  /\ UNCHANGED <<kycVars, invoiceVars>>

\* Assigning a COMPLETED task again reopens it, whether it is invoiced or not.
ReopenField(f) ==
  /\ f \in completed
  /\ completed' = completed \ {f}
  /\ UNCHANGED <<visited, kycVars, invoiceVars>>

Next == \/ KycNext /\ UNCHANGED <<invoiceVars, fieldVars>>
        \/ \E f \in FieldTasks : CompleteField(f) \/ ReopenField(f)
        \/ I!InvNext /\ UNCHANGED <<kycVars, fieldVars>>

vars == <<kycVars, invoiceVars, fieldVars>>

Spec == Init /\ [][Next]_vars
-----------------------------------------------------------------------------
LinksBacked == I!LinksBacked
ChargedOnce == I!ChargedOnce

\* A cycle an invoice bills is never reopened or dropped by a recheck, a
\* reassignment or a reverification.
BilledStaysDone == \A u \in Cycles : u \in billed => u \in CompletedCycles

OfferedAgain == I!OfferedAgain
StatusesFollowed == I!StatusesFollowed
-----------------------------------------------------------------------------
(* The ledger the two keep together. *)

Issued == {i \in InvoiceIds : status[i] # "NONE"}

Ledger == INSTANCE WorkLedger WITH
  Units <- Cycles \cup FieldTasks, Reopenable <- FieldTasks, Invoices <- InvoiceIds,
  done <- CompletedCycles \cup completed, reached <- visited, bill <- link, issued <- Issued

\* Clerks and verifiers together implement WorkLedger.  A creation commits long
\* after it read its units, and checks none of them again: a cycle it takes is
\* completed still, for nothing reopens one, and a field task has been completed
\* but may be open again.  It takes no unit an invoice holds, and cancelling or
\* deleting gives back all that an invoice holds.
LedgerKept == Ledger!Spec
=============================================================================
