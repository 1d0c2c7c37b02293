------------------------------ MODULE Invoices ------------------------------
(***************************************************************************)
(* accounting/periods: one fiscal period, and the journals that business   *)
(* documents post into it and reverse.  The journals of a document are     *)
(* counted: posted ever, voided since, reversals posted.                   *)
(*                                                                         *)
(* ar/invoices/customer-invoices.service.ts and                            *)
(* ap/invoices/supplier-invoices.service.ts.  rows.side says which of the  *)
(* two ledgers this is; an invoice's amountDue is total - paid, as CHECK   *)
(* chk_customer_invoice_due and its counterpart require.                   *)
(***************************************************************************)
EXTENDS Handlers

PeriodStatus == {"OPEN", "CLOSING", "CLOSED"}

NoJournals == [posted |-> 0, voided |-> 0, reversals |-> 0]

\* A POSTED journal entry whose source is document d.
Post(journals, d) == [journals EXCEPT ![d].posted = @ + 1]

\* The posted journal of d is VOIDED and its mirror image POSTED.
PostReversal(journals, d) ==
  [journals EXCEPT ![d].voided = @ + 1, ![d].reversals = @ + 1]

\* The mirror image alone.
Compensate(journals, d) == [journals EXCEPT ![d].reversals = @ + 1]

\* findFirst of a POSTED journal by its source.
HasJournal(journals, d) == journals[d].posted > journals[d].voided

\* Posted and not compensated by now.
InForce(journals, d) == journals[d].posted - journals[d].reversals

-----------------------------------------------------------------------------
(* accounting/periods *)

StartClose(w) ==
  /\ At(w, "read")
  /\ Seen(w).period # "CLOSED"
  /\ Commit(w, [rows EXCEPT !.period = "CLOSING"])

\* The documents that block: draft payments and supplier invoices (not customer
\* invoices, notes or refunds; draft journals: Ledger).
Unposted(r) ==
  \/ \E p \in DOMAIN r.payments : r.payments[p].status = "DRAFT"
  \/ /\ r.side = "AP"
     /\ \E i \in DOMAIN r.invoices : r.invoices[i].status \in {"DRAFT", "SUBMITTED"}

ClosePeriod(w) ==
  /\ At(w, "read")
  /\ Seen(w).period # "CLOSED"
  /\ ~ Unposted(Seen(w))
  /\ Commit(w, [rows EXCEPT !.period = "CLOSED"])

RefuseClose(w) ==
  /\ At(w, "read")
  /\ Seen(w).period = "CLOSING"
  /\ Unposted(Seen(w))
  /\ Commit(w, [rows EXCEPT !.period = "OPEN"])

ReopenPeriod(w) ==
  /\ At(w, "read")
  /\ Seen(w).period = "CLOSED"
  /\ Commit(w, [rows EXCEPT !.period = "OPEN"])

PeriodNext(w) == StartClose(w) \/ ClosePeriod(w) \/ RefuseClose(w) \/ ReopenPeriod(w)

-----------------------------------------------------------------------------
(* Customer and supplier invoices *)

NoInvoice == [status |-> "NONE", total |-> 0, paid |-> 0]
Due(invoice) == invoice.total - invoice.paid

\* The status in which a posted, unpaid invoice is.
PostedStatus(side) == IF side = "AR" THEN "ISSUED" ELSE "POSTED"
\* Mutant: drafts can be paid too.
PayableDrafts(side) == {"DRAFT", PostedStatus(side), "PARTIALLY_PAID"}

Payable(side) == {PostedStatus(side), "PARTIALLY_PAID"}

\* Mutant: what is paid replaces what was paid.
PaidAnew(invoice, n) ==
  [invoice EXCEPT !.paid = n,
                  !.status = IF Due(invoice) = n THEN "PAID" ELSE "PARTIALLY_PAID"]

\* The invoice after n more (or, n < 0, fewer) of its total are paid.
Paid(invoice, n) ==
  [invoice EXCEPT !.paid = @ + n,
                  !.status = IF Due(invoice) = n THEN "PAID" ELSE "PARTIALLY_PAID"]

CreateInvoice(w, i) ==
  /\ Creates(w, "invoices", i)
  /\ \E n \in Amounts :
       Commit(w, [rows EXCEPT !.invoices[i] =
                    [status |-> "DRAFT", total |-> n, paid |-> 0]])

CreateCustomerInvoice(w, i) == rows.side = "AR" /\ CreateInvoice(w, i)
CreateSupplierInvoice(w, i) == rows.side = "AP" /\ CreateInvoice(w, i)

\* Mutant: a paid invoice can be changed too.
UpdatePaidInvoice(w, i) ==
  /\ Changes(w, "invoices", i, {"DRAFT", "PARTIALLY_PAID", "PAID"})
  /\ \E n \in Amounts : Commit(w, [rows EXCEPT !.invoices[i].total = n])

\* The due amount is computed from the paid amount that was read.
UpdateInvoice(w, i) ==
  /\ Changes(w, "invoices", i, {"DRAFT"})
  /\ \E n \in Amounts :
       CommitIf(w, rows.invoices[i].paid = Seen(w).invoices[i].paid,
                [rows EXCEPT !.invoices[i].total = n])

UpdateCustomerInvoice(w, i) == rows.side = "AR" /\ UpdateInvoice(w, i)
UpdateSupplierInvoice(w, i) == rows.side = "AP" /\ UpdateInvoice(w, i)

\* Allocations and applications restrict the deletion (foreign keys).
RemoveInvoice(w, i) ==
  /\ Changes(w, "invoices", i, {"DRAFT"})
  /\ CommitIf(w, /\ \A p \in DOMAIN rows.payments : rows.allocations[p, i] = 0
                 /\ \A n \in DOMAIN rows.notes : rows.applications[n, i] = 0,
              [rows EXCEPT !.invoices[i].status = "DELETED"])

RemoveCustomerInvoice(w, i) == rows.side = "AR" /\ RemoveInvoice(w, i)
RemoveSupplierInvoice(w, i) == rows.side = "AP" /\ RemoveInvoice(w, i)

SubmitSupplierInvoice(w, i) ==
  /\ rows.side = "AP"
  /\ SetStatus(w, "invoices", i, {"DRAFT"}, "SUBMITTED")

\* Approval also needs a match report without blocking variances, which reads
\* orders and receipts: external to the ledgers, so it may or may not allow it.
ApproveSupplierInvoice(w, i) ==
  /\ rows.side = "AP"
  /\ SetStatus(w, "invoices", i, {"SUBMITTED"}, "APPROVED")

PostInvoice(w, i, from) ==
  /\ Changes(w, "invoices", i, from)
  /\ Seen(w).period = "OPEN"
  /\ Commit(w, [rows EXCEPT !.invoices[i].status = PostedStatus(rows.side),
                            !.journals = Post(@, <<"invoice", i>>)])

IssueCustomerInvoice(w, i) == rows.side = "AR" /\ PostInvoice(w, i, {"DRAFT"})

PostSupplierInvoice(w, i) ==
  rows.side = "AP" /\ PostInvoice(w, i, {"DRAFT", "SUBMITTED", "APPROVED"})

CancelCustomerInvoice(w, i) ==
  /\ rows.side = "AR"
  /\ SetStatus(w, "invoices", i, {"DRAFT"}, "CANCELLED")

CancelSupplierInvoice(w, i) ==
  /\ rows.side = "AP"
  /\ SetStatus(w, "invoices", i, {"DRAFT", "SUBMITTED", "APPROVED"}, "CANCELLED")

\* Mutant: a partly paid invoice can be voided.
VoidPaidInvoice(w, i) ==
  /\ Changes(w, "invoices", i, Payable(rows.side))
  /\ Commit(w, [rows EXCEPT !.invoices[i].status = "VOIDED",
                            !.journals = PostReversal(@, <<"invoice", i>>)])

\* The reversal is posted into the period of the original, open or not.
VoidInvoice(w, i) ==
  /\ Changes(w, "invoices", i, {PostedStatus(rows.side)})
  /\ Seen(w).invoices[i].paid = 0
  /\ Commit(w, [rows EXCEPT !.invoices[i].status = "VOIDED",
                            !.journals = IF HasJournal(Seen(w).journals, <<"invoice", i>>)
                                         THEN PostReversal(@, <<"invoice", i>>) ELSE @])

VoidCustomerInvoice(w, i) == rows.side = "AR" /\ VoidInvoice(w, i)
VoidSupplierInvoice(w, i) == rows.side = "AP" /\ VoidInvoice(w, i)

InvoicesNext(w) ==
  \E i \in DOMAIN rows.invoices :
    \/ CreateCustomerInvoice(w, i) \/ UpdateCustomerInvoice(w, i)
    \/ RemoveCustomerInvoice(w, i) \/ IssueCustomerInvoice(w, i)
    \/ CancelCustomerInvoice(w, i) \/ VoidCustomerInvoice(w, i)
    \/ CreateSupplierInvoice(w, i) \/ UpdateSupplierInvoice(w, i)
    \/ RemoveSupplierInvoice(w, i) \/ SubmitSupplierInvoice(w, i)
    \/ ApproveSupplierInvoice(w, i) \/ PostSupplierInvoice(w, i)
    \/ CancelSupplierInvoice(w, i) \/ VoidSupplierInvoice(w, i)
=============================================================================
