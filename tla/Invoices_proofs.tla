--------------------------- MODULE Invoices_proofs ---------------------------
(***************************************************************************)
(* The links, the flags and the charges of the invoices, for any number of *)
(* units, invoices and clerks.  The environment may finish and reopen      *)
(* units as it likes; it only knows no others.                             *)
(***************************************************************************)
EXTENDS Invoices, TLAPS

\* Every unit an uncancelled invoice charges is linked to it.
ChargesLinked ==
  \A i \in InvoiceIds : Uncancelled(i) => \A u \in charges[i] : link[u] = i

InvInv == InvTypeOK /\ LinksBacked /\ ChargesLinked

FinishedUnits == finished \subseteq Units

\* The operations of one clerk, with a name for each.
InvAction(c) ==
  \/ CreateRead(c) \/ GiveUp(c)
  \/ \E i \in InvoiceIds, op \in Operations : StatusRead(c, op, i)
  \/ \E i \in InvoiceIds : CreateTx(c, i)
  \/ \E i \in InvoiceIds : SendTx(c, i)
  \/ \E i \in InvoiceIds : CancelTx(c, i)
  \/ \E i \in InvoiceIds : Delete(c, i)
  \/ \E i \in InvoiceIds : EditTx(c, i)

LEMMA NextIsAction == InvNext => \E c \in Clerks : InvAction(c)
BY DEF InvNext, InvStep, InvAction

LEMMA InvoicesInit == FinishedUnits /\ InvInit => InvInv
BY DEF InvInit, InvInv, InvTypeOK, LinksBacked, ChargesLinked, FinishedUnits,
       Waiting, Operation, Uncancelled, Exists, InvoiceStatuses

LEMMA DoneKeepsType ==
  ASSUME InvTypeOK, NEW c \in Clerks, Done(c)
  PROVE  clerk' \in [Clerks -> Operation]
BY DEF Done, InvTypeOK, Waiting, Operation

\* Nothing an operation reads before it writes changes an invoice.
LEMMA ReadsKeep ==
  ASSUME InvInv, FinishedUnits', NEW c \in Clerks,
         CreateRead(c) \/ GiveUp(c)
           \/ \E i \in InvoiceIds, op \in Operations : StatusRead(c, op, i),
         FinishedUnits
  PROVE  InvInv'
<1>1. UNCHANGED <<status, charges, link, billed, past>>
  BY DEF CreateRead, GiveUp, StatusRead
<1>2. clerk' \in [Clerks -> Operation]
  <2>1. CASE CreateRead(c)
    BY <2>1 DEF CreateRead, Begin, Billable, FinishedUnits, InvInv, InvTypeOK, Operation
  <2>2. CASE GiveUp(c)
    BY <2>2, DoneKeepsType DEF GiveUp, InvInv
  <2>3. CASE \E i \in InvoiceIds, op \in Operations : StatusRead(c, op, i)
    BY <2>3 DEF StatusRead, Begin, InvInv, InvTypeOK, Operation
  <2> QED BY <2>1, <2>2, <2>3
<1> QED
  BY <1>1, <1>2 DEF InvInv, InvTypeOK, FinishedUnits, LinksBacked, ChargesLinked,
                    Uncancelled, Exists

\* A new invoice links what it charges, and took it from nobody.
LEMMA CreateKeeps ==
  ASSUME None \notin InvoiceIds, InvInv, FinishedUnits',
         NEW c \in Clerks, NEW i \in InvoiceIds, CreateTx(c, i)
  PROVE  InvInv'
<1> DEFINE units == clerk[c].units
<1>1. units \subseteq Units
  BY DEF InvInv, InvTypeOK, Operation
<1>2. /\ status[i] = "NONE" /\ \A u \in units : link[u] = None
      /\ status' = [status EXCEPT ![i] = "DRAFT"]
      /\ charges' = [charges EXCEPT ![i] = units]
      /\ link' = [u \in Units |-> IF u \in units THEN i ELSE link[u]]
      /\ billed' = billed \cup (units \cap Cycles)
      /\ past' = [past EXCEPT ![i] = {"DRAFT"}]
  BY DEF CreateTx, Linkable, Flagged
<1>3. InvTypeOK'
  BY <1>1, <1>2, DoneKeepsType DEF CreateTx, InvInv, InvTypeOK, FinishedUnits, InvoiceStatuses
<1>4. LinksBacked'
  <2> SUFFICES ASSUME NEW u \in Units, link'[u] # None
               PROVE  /\ status'[link'[u]] \in InvoiceStatuses
                      /\ u \in charges'[link'[u]]
                      /\ u \in Cycles => u \in billed'
    BY DEF LinksBacked, Exists
  <2>1. CASE u \in units
    <3>1. link'[u] = i /\ status'[i] = "DRAFT" /\ charges'[i] = units
      BY <1>2, <2>1 DEF InvInv, InvTypeOK
    <3>2. u \in Cycles => u \in billed'
      BY <1>2, <2>1
    <3> QED BY <2>1, <3>1, <3>2 DEF InvoiceStatuses
  <2>2. CASE u \notin units
    <3>1. link'[u] = link[u] /\ Exists(link[u]) /\ u \in charges[link[u]]
          /\ (u \in Cycles => u \in billed) /\ link[u] \in InvoiceIds
      BY <1>2, <2>2 DEF InvInv, LinksBacked, InvTypeOK
    <3>2. link[u] # i
      BY <1>2, <3>1 DEF Exists, InvoiceStatuses
    <3> QED BY <1>2, <3>1, <3>2 DEF Exists, InvInv, InvTypeOK
  <2> QED BY <2>1, <2>2
<1>5. ChargesLinked'
  <2> SUFFICES ASSUME NEW j \in InvoiceIds, Uncancelled(j)', NEW u \in charges'[j]
               PROVE  link'[u] = j
    BY DEF ChargesLinked
  <2>1. CASE j = i
    BY <1>1, <1>2, <2>1 DEF InvInv, InvTypeOK
  <2>2. CASE j # i
    <3>1. Uncancelled(j) /\ u \in charges[j] /\ u \in Units
      BY <1>2, <2>2 DEF Uncancelled, Exists, InvInv, InvTypeOK
    <3>2. link[u] = j /\ u \notin units
      BY <1>2, <3>1 DEF InvInv, ChargesLinked
    <3> QED BY <1>2, <3>1, <3>2
  <2> QED BY <2>1, <2>2
<1> QED BY <1>3, <1>4, <1>5 DEF InvInv

LEMMA SendKeeps ==
  ASSUME InvInv, FinishedUnits', NEW c \in Clerks, NEW i \in InvoiceIds, SendTx(c, i)
  PROVE  InvInv'
<1>1. /\ Exists(i) /\ UNCHANGED <<charges, link, billed>>
      /\ status' = [status EXCEPT ![i] = "SENT"]
      /\ past' = [past EXCEPT ![i] = @ \cup {"SENT"}]
  BY DEF SendTx, Move
<1>2. InvTypeOK'
  BY <1>1, DoneKeepsType DEF SendTx, InvInv, InvTypeOK, FinishedUnits, InvoiceStatuses
<1>3. \A j \in InvoiceIds : (Exists(j) <=> Exists(j)') /\ (Uncancelled(j)' => Uncancelled(j))
  BY <1>1 DEF Uncancelled, Exists, InvoiceStatuses, InvInv, InvTypeOK
<1> QED BY <1>1, <1>2, <1>3 DEF InvInv, LinksBacked, ChargesLinked, InvTypeOK

\* Both ways out of an invoice unlink its units and leave the others' links.
LEMMA UnlinkedType ==
  ASSUME InvTypeOK, NEW i \in InvoiceIds
  PROVE  Unlinked(i) \in [Units -> InvoiceIds \cup {None}]
BY DEF InvTypeOK, Unlinked

LEMMA CancelKeeps ==
  ASSUME None \notin InvoiceIds, InvInv, FinishedUnits',
         NEW c \in Clerks, NEW i \in InvoiceIds, CancelTx(c, i)
  PROVE  InvInv'
<1>1. /\ Exists(i) /\ UNCHANGED charges
      /\ status' = [status EXCEPT ![i] = "CANCELLED"]
      /\ past' = [past EXCEPT ![i] = @ \cup {"CANCELLED"}]
      /\ billed' = billed \ LinkedTo(i) /\ link' = Unlinked(i)
  BY DEF CancelTx, Move
<1>2. InvTypeOK'
  BY <1>1, DoneKeepsType, UnlinkedType
  DEF CancelTx, InvInv, InvTypeOK, FinishedUnits, InvoiceStatuses
<1>3. LinksBacked'
  <2> SUFFICES ASSUME NEW u \in Units, link'[u] # None
               PROVE  /\ status'[link'[u]] \in InvoiceStatuses
                      /\ u \in charges'[link'[u]]
                      /\ u \in Cycles => u \in billed'
    BY DEF LinksBacked, Exists
  <2>1. link'[u] = link[u] /\ link[u] # i /\ u \notin LinkedTo(i)
    BY <1>1 DEF Unlinked, LinkedTo
  <2>2. Exists(link[u]) /\ u \in charges[link[u]] /\ (u \in Cycles => u \in billed)
        /\ link[u] \in InvoiceIds
    BY <2>1 DEF InvInv, LinksBacked, InvTypeOK
  <2> QED BY <1>1, <2>1, <2>2 DEF Exists, InvInv, InvTypeOK
<1>4. ChargesLinked'
  <2> SUFFICES ASSUME NEW j \in InvoiceIds, Uncancelled(j)', NEW u \in charges'[j]
               PROVE  link'[u] = j
    BY DEF ChargesLinked
  <2>1. j # i
    BY <1>1 DEF Uncancelled, InvInv, InvTypeOK
  <2>2. Uncancelled(j) /\ u \in charges[j] /\ u \in Units
    BY <1>1, <2>1 DEF Uncancelled, Exists, InvInv, InvTypeOK
  <2> QED BY <1>1, <2>1, <2>2 DEF InvInv, ChargesLinked, Unlinked
<1> QED BY <1>2, <1>3, <1>4 DEF InvInv

LEMMA DeleteKeeps ==
  ASSUME None \notin InvoiceIds, InvInv, FinishedUnits',
         NEW c \in Clerks, NEW i \in InvoiceIds, Delete(c, i)
  PROVE  InvInv'
<1>1. /\ UNCHANGED billed /\ link' = Unlinked(i)
      /\ status' = [status EXCEPT ![i] = IF Exists(i) THEN "DELETED" ELSE @]
      /\ charges' = [charges EXCEPT ![i] = {}]
      /\ past' = [past EXCEPT ![i] = {}]
  BY DEF Delete
<1>2. InvTypeOK'
  BY <1>1, DoneKeepsType, UnlinkedType
  DEF Delete, InvInv, InvTypeOK, FinishedUnits, InvoiceStatuses
<1>3. LinksBacked'
  <2> SUFFICES ASSUME NEW u \in Units, link'[u] # None
               PROVE  /\ status'[link'[u]] \in InvoiceStatuses
                      /\ u \in charges'[link'[u]]
                      /\ u \in Cycles => u \in billed'
    BY DEF LinksBacked, Exists
  <2>1. link'[u] = link[u] /\ link[u] # i
    BY <1>1 DEF Unlinked
  <2>2. Exists(link[u]) /\ u \in charges[link[u]] /\ (u \in Cycles => u \in billed)
        /\ link[u] \in InvoiceIds
    BY <2>1 DEF InvInv, LinksBacked, InvTypeOK
  <2> QED BY <1>1, <2>1, <2>2 DEF Exists, InvInv, InvTypeOK
<1>4. ChargesLinked'
  <2> SUFFICES ASSUME NEW j \in InvoiceIds, Uncancelled(j)', NEW u \in charges'[j]
               PROVE  link'[u] = j
    BY DEF ChargesLinked
  <2>1. j # i
    BY <1>1 DEF InvInv, InvTypeOK
  <2>2. Uncancelled(j) /\ u \in charges[j] /\ u \in Units
    BY <1>1, <2>1 DEF Uncancelled, Exists, InvInv, InvTypeOK
  <2> QED BY <1>1, <2>1, <2>2 DEF InvInv, ChargesLinked, Unlinked
<1> QED BY <1>2, <1>3, <1>4 DEF InvInv

LEMMA EditKeeps ==
  ASSUME InvInv, FinishedUnits', NEW c \in Clerks, NEW i \in InvoiceIds, EditTx(c, i)
  PROVE  InvInv'
<1>1. /\ \A u \in Units : link[u] # i
      /\ charges' = [charges EXCEPT ![i] = {}]
      /\ UNCHANGED <<status, link, billed, past>>
  BY DEF EditTx, HasNoLinks, LinkedTo
<1>2. InvTypeOK'
  BY <1>1, DoneKeepsType DEF EditTx, InvInv, InvTypeOK, FinishedUnits
<1>3. LinksBacked'
  BY <1>1 DEF InvInv, LinksBacked, Exists, InvTypeOK
<1>4. ChargesLinked'
  BY <1>1 DEF InvInv, ChargesLinked, Uncancelled, Exists, InvTypeOK
<1> QED BY <1>2, <1>3, <1>4 DEF InvInv

LEMMA InvoicesStep ==
  ASSUME None \notin InvoiceIds, FinishedUnits, FinishedUnits', InvInv, [InvNext]_invVars
  PROVE  InvInv'
<1>1. CASE InvNext
  <2>1. PICK c \in Clerks : InvAction(c)
    BY <1>1, NextIsAction
  <2> QED
    BY <2>1, ReadsKeep, CreateKeeps, SendKeeps, CancelKeeps, DeleteKeeps, EditKeeps
    DEF InvAction
<1>2. CASE UNCHANGED invVars
  BY <1>2 DEF invVars, InvInv, InvTypeOK, FinishedUnits, LinksBacked, ChargesLinked,
              Uncancelled, Exists
<1> QED BY <1>1, <1>2

\* A unit that two uncancelled invoices charge would be linked to both.
LEMMA LinkedOnce == InvInv => ChargedOnce
BY DEF InvInv, ChargesLinked, ChargedOnce, Uncancelled

\* The inductive invariant holds, whatever cycles the environment completes.
THEOREM InvInvHolds ==
  ASSUME None \notin InvoiceIds
  PROVE  InvSpec /\ []FinishedUnits => []InvInv
<1>1. InvInit /\ FinishedUnits => InvInv
  BY InvoicesInit
<1>2. InvInv /\ FinishedUnits /\ FinishedUnits' /\ [InvNext]_invVars => InvInv'
  BY InvoicesStep
<1> QED BY <1>1, <1>2, PTL DEF InvSpec

\* The tables of the invoices keep their shape, whatever the clerks do.
THEOREM InvoicesTyped ==
  ASSUME None \notin InvoiceIds
  PROVE  InvSpec /\ []FinishedUnits => []InvTypeOK
<1>1. InvInv => InvTypeOK
  BY DEF InvInv
<1> QED BY <1>1, InvInvHolds, PTL

\* A link never outlives its invoice, and a linked cycle is flagged.
THEOREM LinksAreBacked ==
  ASSUME None \notin InvoiceIds
  PROVE  InvSpec /\ []FinishedUnits => []LinksBacked
<1>1. InvInv => LinksBacked
  BY DEF InvInv
<1> QED BY <1>1, InvInvHolds, PTL

\* Two invoices that were never cancelled never charge one unit.
THEOREM UnitsChargedOnce ==
  ASSUME None \notin InvoiceIds
  PROVE  InvSpec /\ []FinishedUnits => []ChargedOnce
BY LinkedOnce, InvInvHolds, PTL
=============================================================================
