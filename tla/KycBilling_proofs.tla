-------------------------- MODULE KycBilling_proofs --------------------------
(***************************************************************************)
(* KYC verification and invoicing together, for any number of documents,   *)
(* field tasks, invoices and clerks.  The invariant is the conjunction of  *)
(* the invariants of the two components with what joins them: the cycles   *)
(* that are billed, or that a clerk is about to bill, are completed, which *)
(* no step of the verification undoes, and the field tasks a clerk is      *)
(* about to bill have been completed.                                      *)
(***************************************************************************)
EXTENDS KycBilling, KycVerification_proofs

IP == INSTANCE Invoices_proofs WITH Units <- Cycles \cup FieldTasks,
                                    finished <- CompletedCycles \cup completed

BilledDone ==
  /\ billed \subseteq CompletedCycles
  /\ \A c \in Clerks : clerk[c].units \cap Cycles \subseteq CompletedCycles

FieldsVisited ==
  /\ completed \subseteq visited /\ visited \subseteq FieldTasks
  /\ \A c \in Clerks : clerk[c].units \cap FieldTasks \subseteq visited

BillingInv == KycInv /\ IP!InvInv /\ BilledDone /\ FieldsVisited
-----------------------------------------------------------------------------
(* The two instances of Invoices are one specification. *)

\* The instance of the proofs is the instance of the specification.
LEMMA SameNext == I!InvNext <=> IP!InvNext
BY Zenon DEF I!InvNext, I!InvStep, I!CreateRead, I!GiveUp, I!StatusRead, I!CreateTx,
   I!SendTx, I!CancelTx, I!Delete, I!EditTx, I!Turn, I!Begin, I!Done, I!Move, I!Exists,
   I!LinkedTo, I!Unlinked, I!HasNoLinks, I!Linkable, I!Flagged, I!Billable, I!Allowed,
   I!Operations, I!Waiting, I!InvoiceStatuses,
   IP!InvNext, IP!InvStep, IP!CreateRead, IP!GiveUp, IP!StatusRead, IP!CreateTx,
   IP!SendTx, IP!CancelTx, IP!Delete, IP!EditTx, IP!Turn, IP!Begin, IP!Done, IP!Move,
   IP!Exists, IP!LinkedTo, IP!Unlinked, IP!HasNoLinks, IP!Linkable, IP!Flagged,
   IP!Billable, IP!Allowed, IP!Operations, IP!Waiting, IP!InvoiceStatuses

LEMMA SameInit == I!InvInit <=> IP!InvInit
BY DEF I!InvInit, IP!InvInit, I!Waiting, IP!Waiting

LEMMA SameProperties ==
  (IP!LinksBacked <=> I!LinksBacked) /\ (IP!ChargedOnce <=> I!ChargedOnce)
<1>1. IP!LinksBacked <=> I!LinksBacked
  BY Zenon DEF IP!LinksBacked, I!LinksBacked, IP!Exists, I!Exists,
               IP!InvoiceStatuses, I!InvoiceStatuses
<1>2. IP!ChargedOnce <=> I!ChargedOnce
  BY Zenon DEF IP!ChargedOnce, I!ChargedOnce, IP!Uncancelled, I!Uncancelled,
               IP!Exists, I!Exists, IP!InvoiceStatuses, I!InvoiceStatuses
<1> QED BY <1>1, <1>2

LEMMA FinishedKnown == completed \subseteq FieldTasks => IP!FinishedUnits
BY DEF IP!FinishedUnits, CompletedCycles

LEMMA FinishedNext == completed' \subseteq FieldTasks => IP!FinishedUnits'
BY DEF IP!FinishedUnits, CompletedCycles

\* A step of the verification leaves the invoices alone, and the reverse; a
\* step of a field task leaves both alone.
LEMMA StepOfEither ==
  ASSUME [Next]_vars
  PROVE  [KycNext]_kycVars /\ [IP!InvNext]_(IP!invVars)
BY SameNext DEF Next, CompleteField, ReopenField, vars, invoiceVars, IP!invVars

LEMMA FieldsMove ==
  ASSUME completed \subseteq visited, visited \subseteq FieldTasks, [Next]_vars
  PROVE  /\ completed' \subseteq visited' /\ visited' \subseteq FieldTasks
         /\ visited' = visited \cup completed'
         /\ UNCHANGED fieldVars \/ UNCHANGED <<kycVars, invoiceVars>>
BY DEF Next, CompleteField, ReopenField, vars, fieldVars
-----------------------------------------------------------------------------
\* What Follows says of the cycles: a completed one stays completed.
LEMMA CompletedStay ==
  ASSUME KycInv, KycInv', HistoryFollows
  PROVE  CompletedCycles \subseteq CompletedCycles'
<1> SUFFICES ASSUME NEW u \in CompletedCycles PROVE u \in CompletedCycles'
  OBVIOUS
<1>1. /\ u \in Cycles /\ u[1] \in Tasks /\ u[2] \in 1..Len(cycles[u[1]])
      /\ cycles[u[1]][u[2]].status = "KYC_COMPLETED"
  BY RowsOf DEF CompletedCycles, Cycles
<1>2. u[2] <= Len(cycles'[u[1]]) /\ cycles'[u[1]][u[2]].status = "KYC_COMPLETED"
  BY <1>1 DEF HistoryFollows, Follows
<1> QED BY <1>1, <1>2 DEF CompletedCycles

\* A clerk takes what is completed, and a transaction flags the cycles its
\* clerk took.
LEMMA InvoicesKeepDone ==
  ASSUME IP!InvInv, BilledDone, FieldsVisited, IP!InvNext
  PROVE  /\ billed' \subseteq CompletedCycles
         /\ \A c \in Clerks : /\ clerk'[c].units \cap Cycles \subseteq CompletedCycles
                             /\ clerk'[c].units \cap FieldTasks \subseteq visited
<1>1. PICK c \in Clerks : IP!InvStep(c)
  BY DEF IP!InvNext
<1>2. clerk[c].units \cap Cycles \subseteq CompletedCycles /\ billed \subseteq CompletedCycles
  BY DEF BilledDone
<1> DEFINE Kept(units) == /\ units \cap Cycles \subseteq CompletedCycles
                          /\ units \cap FieldTasks \subseteq visited
<1>6. Kept({}) /\ \A d \in Clerks : Kept(clerk[d].units)
  BY DEF BilledDone, FieldsVisited
<1>3. CASE IP!CreateRead(c)
  <2>1. PICK units \in SUBSET IP!Billable : IP!Begin(c, "create", None, units)
    BY <1>3 DEF IP!CreateRead
  <2>2. Kept(units)
    BY BillingAssumptions DEF IP!Billable, FieldsVisited, CompletedCycles
  <2>3. clerk' = [clerk EXCEPT ![c] = [op |-> "create", id |-> None, units |-> units]]
    BY <2>1 DEF IP!Begin
  <2>4. \A d \in Clerks : clerk'[d].units = clerk[d].units \/ clerk'[d].units = units
    BY <2>3 DEF IP!InvInv, IP!InvTypeOK
  <2> QED BY <1>2, <1>3, <1>6, <2>2, <2>4 DEF IP!CreateRead
<1>4. CASE \E i \in InvoiceIds : \E op \in IP!Operations : IP!StatusRead(c, op, i)
  <2>1. \A d \in Clerks : clerk'[d].units = clerk[d].units \/ clerk'[d].units = {}
    BY <1>4 DEF IP!StatusRead, IP!Begin, IP!InvInv, IP!InvTypeOK
  <2> QED BY <1>2, <1>4, <1>6, <2>1 DEF IP!StatusRead
<1>5. CASE \/ IP!GiveUp(c)
           \/ \E i \in InvoiceIds : \/ IP!CreateTx(c, i) \/ IP!SendTx(c, i)
                                    \/ IP!CancelTx(c, i) \/ IP!Delete(c, i) \/ IP!EditTx(c, i)
  <2>1. clerk' = [clerk EXCEPT ![c] = IP!Waiting]
    BY <1>5 DEF IP!GiveUp, IP!CreateTx, IP!SendTx, IP!CancelTx, IP!Delete, IP!EditTx, IP!Done
  <2>2. \A d \in Clerks : clerk'[d].units = clerk[d].units \/ clerk'[d].units = {}
    BY <2>1 DEF IP!Waiting, IP!InvInv, IP!InvTypeOK
  <2>3. billed' \subseteq billed \cup (clerk[c].units \cap Cycles)
    BY <1>5 DEF IP!GiveUp, IP!CreateTx, IP!SendTx, IP!CancelTx, IP!Delete, IP!EditTx, IP!Flagged
  <2> QED BY <1>2, <1>6, <2>2, <2>3
<1> QED BY <1>1, <1>3, <1>4, <1>5 DEF IP!InvStep

LEMMA BillingStep ==
  ASSUME BillingInv, [Next]_vars
  PROVE  BillingInv'
<1>1. KycInv' /\ HistoryFollows
  BY StepOfEither, KycStep DEF BillingInv
<1>2. /\ completed \subseteq FieldTasks /\ completed' \subseteq visited'
      /\ visited' = visited \cup completed' /\ visited' \subseteq FieldTasks
  BY FieldsMove DEF BillingInv, FieldsVisited
<1>3. IP!InvInv'
  <2>1. IP!FinishedUnits /\ IP!FinishedUnits' /\ None \notin InvoiceIds
    BY <1>2, FinishedKnown, FinishedNext, BillingAssumptions
  <2> QED BY <2>1, StepOfEither, IP!InvoicesStep DEF BillingInv
<1>4. CompletedCycles \subseteq CompletedCycles'
  BY <1>1, CompletedStay DEF BillingInv
<1>5. /\ billed' \subseteq CompletedCycles
      /\ \A c \in Clerks : /\ clerk'[c].units \cap Cycles \subseteq CompletedCycles
                          /\ clerk'[c].units \cap FieldTasks \subseteq visited
  <2>1. CASE IP!InvNext
    BY <2>1, InvoicesKeepDone DEF BillingInv
  <2>2. CASE UNCHANGED IP!invVars
    BY <2>2 DEF IP!invVars, BillingInv, BilledDone, FieldsVisited
  <2> QED BY <2>1, <2>2, StepOfEither
<1>6. BilledDone'
  BY <1>4, <1>5 DEF BilledDone, Cycles
<1>7. FieldsVisited'
  BY <1>2, <1>5 DEF FieldsVisited
<1> QED BY <1>1, <1>3, <1>6, <1>7 DEF BillingInv

LEMMA BillingInitial == Init => BillingInv
<1> SUFFICES ASSUME Init PROVE BillingInv
  OBVIOUS
<1>1. KycInv
  BY KycInitial DEF Init
<1>2. IP!InvInv
  BY FinishedKnown, SameInit, IP!InvoicesInit DEF Init
<1>3. BilledDone /\ FieldsVisited
  BY SameInit DEF Init, IP!InvInit, IP!Waiting, BilledDone, FieldsVisited
<1> QED BY <1>1, <1>2, <1>3 DEF BillingInv

\* The joint invariant holds in every state of the composition.
THEOREM BillingInvHolds == Spec => []BillingInv
<1>1. BillingInv /\ [Next]_vars => BillingInv'
  BY BillingStep
<1> QED BY <1>1, BillingInitial, PTL DEF Spec

\* A link never outlives its invoice, and a linked cycle is flagged, while
\* documents are rechecked and reverified.
THEOREM BillingLinksBacked == Spec => []LinksBacked
<1>1. BillingInv => LinksBacked
  BY SameProperties DEF BillingInv, IP!InvInv, LinksBacked
<1> QED BY <1>1, BillingInvHolds, PTL

\* Two invoices that were never cancelled never charge one cycle or task, be
\* the task reopened and completed again.
THEOREM BillingChargedOnce == Spec => []ChargedOnce
<1>1. BillingInv => ChargedOnce
  BY SameProperties, IP!LinkedOnce DEF BillingInv, ChargedOnce
<1> QED BY <1>1, BillingInvHolds, PTL

\* A billed cycle is never reopened or dropped.
THEOREM BilledCyclesStayDone == Spec => []BilledStaysDone
<1>1. BillingInv => BilledStaysDone
  BY DEF BillingInv, BilledDone, BilledStaysDone
<1> QED BY <1>1, BillingInvHolds, PTL

\* The two components only share what a cycle's completion tells the invoices:
\* seen from either, the system is that component in some environment.
THEOREM ComponentsKept == Spec => KycSpec /\ I!InvSpec
<1>1. Init => KycInit /\ I!InvInit
  BY DEF Init
<1>2. [Next]_vars => [KycNext]_kycVars
  BY StepOfEither
<1>3. [Next]_vars => [I!InvNext]_(I!invVars)
  BY DEF Next, CompleteField, ReopenField, vars, invoiceVars, I!invVars
<1> QED BY <1>1, <1>2, <1>3, PTL DEF Spec, KycSpec, I!InvSpec
-----------------------------------------------------------------------------
(* The composition keeps the ledger. *)

\* What is done is done for good, but for the field tasks.
LEMMA WorkIsDone ==
  ASSUME BillingInv, HistoryFollows, KycInv', FieldsVisited',
         visited' = visited \cup completed', UNCHANGED <<link, Issued>>
  PROVE  Ledger!Work
<1>1. CompletedCycles \subseteq CompletedCycles'
  BY CompletedStay DEF BillingInv
<1>2. completed \subseteq FieldTasks /\ completed' \subseteq FieldTasks
  BY DEF BillingInv, FieldsVisited
<1>3. CompletedCycles' \cap FieldTasks = {} /\ CompletedCycles' \subseteq Cycles
  BY BillingAssumptions DEF CompletedCycles, Cycles
<1> QED BY <1>1, <1>2, <1>3 DEF Ledger!Work

\* An invoicing step completes nothing and reopens nothing.
LEMMA InvoicingDoesNoWork ==
  ASSUME UNCHANGED <<kycVars, fieldVars>>
  PROVE  UNCHANGED <<CompletedCycles \cup completed, visited>>
BY DEF kycVars, fieldVars, CompletedCycles

\* A creation takes what its clerk read: a cycle was completed then and still
\* is, a field task was completed then, and the indexes let the creation through
\* only while no invoice holds any of them.
LEMMA CreationIssues ==
  ASSUME BillingInv, UNCHANGED <<kycVars, fieldVars>>, NEW c \in Clerks, NEW i \in InvoiceIds,
         I!CreateTx(c, i)
  PROVE  Ledger!Issue(i)
<1> DEFINE units == clerk[c].units
<1>1. /\ status[i] = "NONE" /\ \A u \in units : link[u] = None
      /\ status' = [status EXCEPT ![i] = "DRAFT"]
      /\ link' = [u \in Cycles \cup FieldTasks |-> IF u \in units THEN i ELSE link[u]]
  BY DEF I!CreateTx, I!Linkable
<1>2. units \in SUBSET Ledger!Free
  <2>1. units \subseteq Cycles \cup FieldTasks
    BY DEF BillingInv, IP!InvInv, IP!InvTypeOK, IP!Operation
  <2>2. units \cap Cycles \subseteq CompletedCycles /\ units \cap FieldTasks \subseteq visited
    BY DEF BillingInv, BilledDone, FieldsVisited
  <2>3. CompletedCycles \subseteq (CompletedCycles \cup completed) \ FieldTasks
    BY BillingAssumptions DEF CompletedCycles
  <2> QED BY <1>1, <2>1, <2>2, <2>3 DEF Ledger!Free
<1>3. i \notin Issued /\ Issued' = Issued \cup {i}
  BY <1>1 DEF Issued, BillingInv, IP!InvInv, IP!InvTypeOK
<1>4. \E taken \in SUBSET Ledger!Free :
        link' = [u \in Cycles \cup FieldTasks |-> IF u \in taken THEN i ELSE link[u]]
  BY <1>1, <1>2
<1> QED BY <1>3, <1>4, InvoicingDoesNoWork DEF Ledger!Issue

\* A cancellation and a deletion give back what the invoice holds, whatever
\* became of the invoice since its status was read.
LEMMA CancellingReleases ==
  ASSUME BillingInv, UNCHANGED <<kycVars, fieldVars>>, NEW c \in Clerks, NEW i \in InvoiceIds,
         I!CancelTx(c, i) \/ I!Delete(c, i)
  PROVE  Ledger!Release(i)
<1>1. link' = [u \in Cycles \cup FieldTasks |-> IF link[u] = i THEN None ELSE link[u]]
  BY DEF I!CancelTx, I!Delete, I!Unlinked
<1>2. Issued' = Issued
  BY DEF I!CancelTx, I!Delete, I!Move, I!Exists, I!InvoiceStatuses, Issued,
         BillingInv, IP!InvInv, IP!InvTypeOK
<1> QED BY <1>1, <1>2, InvoicingDoesNoWork DEF Ledger!Release

\* Reading, sending and editing move no link and issue nothing.
LEMMA OthersLeaveTheLedger ==
  ASSUME BillingInv, UNCHANGED <<kycVars, fieldVars>>, NEW c \in Clerks,
         \/ I!CreateRead(c) \/ I!GiveUp(c)
         \/ \E i \in InvoiceIds : \/ \E op \in I!Operations : I!StatusRead(c, op, i)
                                  \/ I!SendTx(c, i) \/ I!EditTx(c, i)
  PROVE  UNCHANGED Ledger!vars
<1>1. link' = link
  BY DEF I!CreateRead, I!GiveUp, I!StatusRead, I!SendTx, I!EditTx
<1>2. Issued' = Issued
  <2>1. CASE \E i \in InvoiceIds : I!SendTx(c, i)
    BY <2>1 DEF I!SendTx, I!Move, I!Exists, I!InvoiceStatuses, Issued,
                BillingInv, IP!InvInv, IP!InvTypeOK
  <2>2. CASE status' = status
    BY <2>2 DEF Issued
  <2> QED BY <2>1, <2>2 DEF I!CreateRead, I!GiveUp, I!StatusRead, I!EditTx
<1> QED BY <1>1, <1>2, InvoicingDoesNoWork DEF Ledger!vars

LEMMA LedgerStep ==
  ASSUME BillingInv, [Next]_vars
  PROVE  [Ledger!Next]_(Ledger!vars)
<1>1. CASE UNCHANGED invoiceVars
  <2>1. KycInv' /\ HistoryFollows /\ FieldsVisited'
    BY StepOfEither, KycStep, BillingStep DEF BillingInv
  <2>2. visited' = visited \cup completed'
    BY FieldsMove DEF BillingInv, FieldsVisited
  <2>3. UNCHANGED <<link, Issued>>
    BY <1>1 DEF invoiceVars, Issued
  <2> QED BY <2>1, <2>2, <2>3, WorkIsDone DEF Ledger!Next
<1>2. CASE I!InvNext /\ UNCHANGED <<kycVars, fieldVars>>
  <2>1. PICK c \in Clerks : I!InvStep(c)
    BY <1>2 DEF I!InvNext
  <2>2. CASE \E i \in InvoiceIds : I!CreateTx(c, i)
    BY <1>2, <2>2, CreationIssues DEF Ledger!Next
  <2>3. CASE \E i \in InvoiceIds : I!CancelTx(c, i) \/ I!Delete(c, i)
    BY <1>2, <2>3, CancellingReleases DEF Ledger!Next
  <2>4. CASE \/ I!CreateRead(c) \/ I!GiveUp(c)
             \/ \E i \in InvoiceIds : \/ \E op \in I!Operations : I!StatusRead(c, op, i)
                                      \/ I!SendTx(c, i) \/ I!EditTx(c, i)
    BY <1>2, <2>4, OthersLeaveTheLedger
  <2> QED BY <2>1, <2>2, <2>3, <2>4 DEF I!InvStep
<1> QED BY <1>1, <1>2 DEF Next, CompleteField, ReopenField, vars

LEMMA LedgerInitial == Init => Ledger!Init
BY BillingAssumptions DEF Init, I!InvInit, Ledger!Init, Issued, CompletedCycles

\* Clerks and verifiers together implement WorkLedger, while field tasks are
\* completed and reopened: an invoice takes only cycles that are done, tasks
\* that have been done, and nothing another invoice holds, once, and gives it
\* back as a whole.
THEOREM LedgerIsKept == Spec => LedgerKept
<1>1. BillingInv /\ [Next]_vars => [Ledger!Next]_(Ledger!vars)
  BY LedgerStep
<1> QED BY <1>1, LedgerInitial, BillingInvHolds, PTL DEF Spec, LedgerKept, Ledger!Spec
=============================================================================
