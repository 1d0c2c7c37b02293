----------------------------- MODULE Settlement -----------------------------
(***************************************************************************)
(* Payments, invoices, notes, refunds and the fiscal period together: one  *)
(* organization's receivables or payables (rows.side).                     *)
(***************************************************************************)
EXTENDS CreditNotes

CONSTANTS Sides,       \* receivables and payables, or one of them
          InvoiceIds, PaymentIds, NoteIds, RefundIds

ASSUME SidesAssumption == Sides \subseteq {"AR", "AP"}

\* The tables are finite, as what is summed over them requires.
ASSUME FiniteTables ==
  /\ IsFiniteSet(InvoiceIds) /\ IsFiniteSet(PaymentIds)
  /\ IsFiniteSet(NoteIds) /\ IsFiniteSet(RefundIds)

Documents ==
  {"invoice"} \X InvoiceIds \cup {"payment"} \X PaymentIds
    \cup {"note"} \X NoteIds \cup {"refund"} \X RefundIds

NoRows(side) ==
  [side |-> side, period |-> "OPEN",
   invoices |-> [i \in InvoiceIds |-> NoInvoice],
   payments |-> [p \in PaymentIds |-> NoPayment],
   notes |-> [n \in NoteIds |-> NoNote],
   refunds |-> [f \in RefundIds |-> NoRefund],
   allocations |-> [pi \in PaymentIds \X InvoiceIds |-> 0],
   applications |-> [ni \in NoteIds \X InvoiceIds |-> 0],
   journals |-> [d \in Documents |-> NoJournals]]

Init ==
  /\ \E side \in Sides : rows = NoRows(side)
  /\ requests = [w \in Workers |-> Idle]

Next ==
  \E w \in Workers :
    Read(w) \/ Abort(w) \/ PeriodNext(w) \/ InvoicesNext(w) \/ PaymentsNext(w) \/ NotesNext(w)

Spec == Init /\ [][Next]_vars

-----------------------------------------------------------------------------
(* Types *)

InvoiceRow ==
  [status : {"NONE", "DRAFT", "SUBMITTED", "APPROVED", "ISSUED", "POSTED",
             "PARTIALLY_PAID", "PAID", "VOIDED", "CANCELLED", "DELETED"},
   total : Nat, paid : Nat]

PaymentRow ==
  [status : {"NONE", "DRAFT", "POSTED", "PARTIALLY_ALLOCATED", "ALLOCATED", "VOIDED"},
   amount : Nat, allocated : Nat]

NoteRow ==
  [status : {"NONE", "DRAFT", "APPROVED", "POSTED", "PARTIALLY_APPLIED", "APPLIED", "VOIDED"},
   total : Nat, applied : Nat, remaining : Nat]

RefundRow ==
  [status : {"NONE", "DRAFT", "POSTED", "VOIDED"}, amount : Nat, note : NoteIds \cup {0}]

JournalCounts == [posted : Nat, voided : Nat, reversals : Nat]

Database ==
  [side : {"AR", "AP"}, period : PeriodStatus,
   invoices : [InvoiceIds -> InvoiceRow], payments : [PaymentIds -> PaymentRow],
   notes : [NoteIds -> NoteRow], refunds : [RefundIds -> RefundRow],
   allocations : [PaymentIds \X InvoiceIds -> Nat],
   applications : [NoteIds \X InvoiceIds -> Nat],
   journals : [Documents -> JournalCounts]]

\* The type invariant: rows satisfy the CHECKs, and what a request has read is
\* a state the database was in.
TypeOK ==
  /\ rows \in Database
  /\ \A i \in InvoiceIds : Due(rows.invoices[i]) >= 0
  /\ \A p \in PaymentIds : rows.payments[p].allocated <= rows.payments[p].amount
  /\ \A w \in Workers :
       \/ requests[w] = Idle
       \/ /\ requests[w].pc \in {"read", "voidNote", "voidRefund"}
          /\ Seen(w) \in Database

-----------------------------------------------------------------------------
(* Properties *)

\* What the allocations and applications of invoice i add up to.
SettledAmount(i) ==
  SumFunction([p \in PaymentIds |-> rows.allocations[<<p, i>>]])
    + SumFunction([n \in NoteIds |-> rows.applications[<<n, i>>]])

\* The amount an invoice says is paid is what payments and notes have brought
\* in, across allocate, apply and the voids, and however requests end.
PaidIsSettled == \A i \in InvoiceIds : rows.invoices[i].paid = SettledAmount(i)

\* A payment's allocated amount is the sum of its allocations, and a credit
\* note's applied amount that of its applications and posted refunds, what
\* remains of it being the rest.
UsedIsAccountedFor ==
  /\ \A p \in PaymentIds :
       rows.payments[p].allocated = SumFunction([i \in InvoiceIds |-> rows.allocations[<<p, i>>]])
  /\ \A n \in NoteIds :
       LET refunded == {f \in RefundIds : rows.refunds[f].note = n
                                            /\ rows.refunds[f].status = "POSTED"}
       IN  /\ rows.notes[n].applied + rows.notes[n].remaining = rows.notes[n].total
           /\ rows.notes[n].applied =
                SumFunction([i \in InvoiceIds |-> rows.applications[<<n, i>>]])
                  + SumFunction([f \in refunded |-> rows.refunds[f].amount])

\* The ledger and the documents agree: an invoice or payment has a
\* journal in force, exactly one, when its status says it was posted, and
\* none when it is a draft, cancelled or voided.
PostedIsInForce ==
  \A d \in Documents :
    LET status == CASE d[1] = "invoice" -> rows.invoices[d[2]].status
                    [] d[1] = "payment" -> rows.payments[d[2]].status
                    [] OTHER -> "-"
    IN  status # "-" =>
          InForce(rows.journals, d) =
            IF status \in {"ISSUED", "POSTED", "PARTIALLY_PAID", "PAID",
                           "PARTIALLY_ALLOCATED", "ALLOCATED"} THEN 1 ELSE 0

Books(status) ==
  CASE status \in {"NONE", "DRAFT", "SUBMITTED", "APPROVED"} -> "before"
    [] status \in {"VOIDED", "CANCELLED", "DELETED"} -> "out"
    [] OTHER -> "in"

Ideal ==
  INSTANCE IdealSettlement
    WITH InvoiceIds <- InvoiceIds,
         books <- [i \in InvoiceIds |-> Books(rows.invoices[i].status)],
         settled <- [i \in InvoiceIds |-> SettledAmount(i)]

\* Issuing, allocating, applying, cancelling and voiding together keep the
\* promise of IdealSettlement: money is brought in only on invoices in the
\* books, and an invoice leaves them only unpaid, and for good.
SettlesAsPromised == Ideal!Spec

\* Money is allocated only from a payment, and a note applied only from a note,
\* that was posted to the ledger, and only to an invoice that was, whatever
\* requests overlap.
SettledWasPosted ==
  LET WasPosted(d) == rows.journals[d].posted > 0 IN
  /\ \A p \in PaymentIds, i \in InvoiceIds : rows.allocations[p, i] > 0 =>
       WasPosted(<<"payment", p>>) /\ WasPosted(<<"invoice", i>>)
  /\ \A n \in NoteIds, i \in InvoiceIds : rows.applications[n, i] > 0 =>
       WasPosted(<<"note", n>>) /\ WasPosted(<<"invoice", i>>)

\* Allocated money stays allocated: void() is the only operation that could
\* take it back, and the CHECK on the payment refuses every void.
AllocatedStays ==
  [][\A p \in PaymentIds : rows'.payments[p].allocated >= rows.payments[p].allocated]_vars
=============================================================================
