------------------------------ MODULE Invoices ------------------------------
(***************************************************************************)
(* The invoices of one client.  A unit of work is a completed field task   *)
(* or a completed KYC cycle; an invoice charges a set of units, and a row  *)
(* of invoice_item_tasks links each unit to the invoice that bills it.     *)
(* Unique indexes allow a unit one link, and a KYC cycle also carries a    *)
(* flag, billed, from which the loader of cycles tells what is left.       *)
(*                                                                         *)
(* Every operation is two steps: what it reads first (the candidates of a  *)
(* new invoice, or the status of an existing one, read before the          *)
(* transaction), then the transaction or statement that writes.  `clerk'   *)
(* holds the operations that are between the two.                          *)
(*                                                                         *)
(* `finished', the units that are completed, belongs to the environment.   *)
(***************************************************************************)
CONSTANTS Units,
          Cycles,     \* the units that are KYC cycles; the others are field tasks
          InvoiceIds, \* the ids nextval can return
          Clerks, None

VARIABLES
  finished,    \* of the environment
  status,      \* invoices.status
  charges,     \* the units the items of each invoice charge
  link,        \* invoice_item_tasks: the invoice each unit is linked to
  billed,      \* the cycles flagged billed
  past,        \* invoice_status_history: the statuses each invoice has had
  clerk        \* the operations in flight

invVars == <<status, charges, link, billed, past, clerk>>

InvoiceStatuses == {"DRAFT", "SENT", "CANCELLED"}
Operations == {"send", "cancel", "delete", "edit"}

Waiting == [op |-> "none", id |-> None, units |-> {}]
Operation == [op : Operations \cup {"none", "create"}, id : InvoiceIds \cup {None},
              units : SUBSET Units]

Exists(i) == status[i] \in InvoiceStatuses
LinkedTo(i) == {u \in Units : link[u] = i}

Turn(c, op, i) == clerk[c].op = op /\ clerk[c].id = i
Begin(c, op, i, units) ==
  /\ clerk[c] = Waiting
  /\ clerk' = [clerk EXCEPT ![c] = [op |-> op, id |-> i, units |-> units]]
Done(c) == clerk' = [clerk EXCEPT ![c] = Waiting]
-----------------------------------------------------------------------------
(* Creation. *)

AnyUnbilled ==                                              \* a mutant
  {u \in Units : IF u \in Cycles THEN u \notin billed ELSE link[u] = None}
\* A cycle is left to bill while its flag is down, a task while it has no link.
Billable == {u \in finished : IF u \in Cycles THEN u \notin billed ELSE link[u] = None}

\* The request selects tasks, cases, a product and a period; with no unit left
\* the invoice has the items of the request.
CreateRead(c) ==
  /\ \E units \in SUBSET Billable : Begin(c, "create", None, units)
  /\ UNCHANGED <<status, charges, link, billed, past>>

Unchecked(units) == TRUE                                      \* a mutant
\* uq_iit_task_when_not_kyc and uq_iit_kyc_cycle
Linkable(units) == \A u \in units : link[u] = None

FlagNothing(units) == {}                                    \* a mutant
Flagged(units) == units \cap Cycles

CreateTx(c, i) ==
  LET units == clerk[c].units IN
  /\ Turn(c, "create", None)
  /\ status[i] = "NONE"
  /\ Linkable(units)
  /\ status' = [status EXCEPT ![i] = "DRAFT"]
  /\ charges' = [charges EXCEPT ![i] = units]
  /\ link' = [u \in Units |-> IF u \in units THEN i ELSE link[u]]
  /\ billed' = billed \cup Flagged(units)
  /\ past' = [past EXCEPT ![i] = {"DRAFT"}]
  /\ Done(c)
-----------------------------------------------------------------------------
(* The operations on an invoice check its status before their transaction. *)

Allowed(op) ==
  CASE op = "send" -> {"DRAFT"}
    [] op = "cancel" -> {"DRAFT", "SENT"}
    [] op = "delete" -> {"DRAFT", "CANCELLED"}
    [] op = "edit" -> {"DRAFT"}      \* new items; other edits change no unit

StatusRead(c, op, i) ==
  /\ status[i] \in Allowed(op)
  /\ Begin(c, op, i, {})
  /\ UNCHANGED <<status, charges, link, billed, past>>

\* transitionInvoiceStatus: the update does not look at the status, and the
\* history row needs the invoice.
Move(i, to) ==
  /\ Exists(i)
  /\ status' = [status EXCEPT ![i] = to]
  /\ past' = [past EXCEPT ![i] = @ \cup {to}]

SendTx(c, i) ==
  /\ Turn(c, "send", i)
  /\ Move(i, "SENT")
  /\ Done(c)
  /\ UNCHANGED <<charges, link, billed>>

Unlinked(i) == [u \in Units |-> IF link[u] = i THEN None ELSE link[u]]

\* Cancelling makes the units billable again and keeps the items.
CancelTx(c, i) ==
  /\ Turn(c, "cancel", i)
  /\ Move(i, "CANCELLED")
  /\ billed' = billed \ LinkedTo(i)
  /\ link' = Unlinked(i)
  /\ Done(c)
  /\ UNCHANGED charges

\* DELETE FROM invoices cascades to items, links and history; the cycles stay
\* flagged.
Delete(c, i) ==
  /\ Turn(c, "delete", i)
  /\ status' = [status EXCEPT ![i] = IF Exists(i) THEN "DELETED" ELSE @]
  /\ charges' = [charges EXCEPT ![i] = {}]
  /\ link' = Unlinked(i)
  /\ past' = [past EXCEPT ![i] = {}]
  /\ Done(c)
  /\ UNCHANGED billed

HasNoLinks(i) == LinkedTo(i) = {}

\* Items of the clerk's own replace all the items of an invoice without links.
EditTx(c, i) ==
  /\ Turn(c, "edit", i)
  /\ HasNoLinks(i)
  /\ charges' = [charges EXCEPT ![i] = {}]
  /\ Done(c)
  /\ UNCHANGED <<status, link, billed, past>>

\* The transaction fails (a price or a tax cannot be resolved, an index or a
\* foreign key refuses it, the links forbid the edit) and rolls back.
GiveUp(c) ==
  /\ clerk[c] # Waiting
  /\ Done(c)
  /\ UNCHANGED <<status, charges, link, billed, past>>
-----------------------------------------------------------------------------
InvInit ==
  /\ status = [i \in InvoiceIds |-> "NONE"]
  /\ charges = [i \in InvoiceIds |-> {}]
  /\ link = [u \in Units |-> None]
  /\ billed = {}
  /\ past = [i \in InvoiceIds |-> {}]
  /\ clerk = [c \in Clerks |-> Waiting]

InvStep(c) ==
  \/ CreateRead(c)
  \/ GiveUp(c)
  \/ \E i \in InvoiceIds :
       \/ \E op \in Operations : StatusRead(c, op, i)
       \/ CreateTx(c, i) \/ SendTx(c, i) \/ CancelTx(c, i) \/ Delete(c, i) \/ EditTx(c, i)

InvNext == \E c \in Clerks : InvStep(c)

InvSpec == InvInit /\ [][InvNext]_invVars
-----------------------------------------------------------------------------
InvTypeOK ==
  /\ finished \subseteq Units
  /\ status \in [InvoiceIds -> InvoiceStatuses \cup {"NONE", "DELETED"}]
  /\ charges \in [InvoiceIds -> SUBSET Units]
  /\ link \in [Units -> InvoiceIds \cup {None}]
  /\ billed \subseteq Cycles
  /\ past \in [InvoiceIds -> SUBSET InvoiceStatuses]
  /\ clerk \in [Clerks -> Operation]

\* A link never outlives its invoice, whichever operations race: the invoice
\* exists and still charges the unit, and a linked cycle is flagged, so that the
\* loader does not offer it twice.
LinksBacked ==
  \A u \in Units : link[u] # None =>
    /\ Exists(link[u]) /\ u \in charges[link[u]]
    /\ u \in Cycles => u \in billed

Uncancelled(i) == Exists(i) /\ "CANCELLED" \notin past[i]

\* Two invoices that were never cancelled never charge one unit, whatever the
\* clerks read before they wrote.
ChargedOnce ==
  \A i, j \in InvoiceIds :
    Uncancelled(i) /\ Uncancelled(j) /\ charges[i] \cap charges[j] # {} => i = j
-----------------------------------------------------------------------------
(* What the repository says and the code does not keep. *)

\* "this flag is the loader's `unbilled' signal": a finished cycle that no
\* invoice bills is offered to the next one.
OfferedAgain == \A u \in finished \cap Cycles : link[u] = None => u \in Billable

\* "Only draft or cancelled invoices can be deleted", and a status moves only
\* from the ones its operation allows.
StatusesFollowed ==
  [][\A i \in InvoiceIds :
       /\ status[i] = "SENT" => status'[i] \in {"SENT", "CANCELLED"}
       /\ status[i] = "CANCELLED" => status'[i] \in {"CANCELLED", "DELETED"}]_status
=============================================================================
