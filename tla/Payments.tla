------------------------------ MODULE Payments ------------------------------
(***************************************************************************)
(* payments/transactions/payments.service.ts.  A payment's unallocated     *)
(* amount is amount - allocated, as CHECK chk_payment_balance requires.    *)
(***************************************************************************)
EXTENDS Invoices

NoPayment == [status |-> "NONE", amount |-> 0, allocated |-> 0]

CreatePayment(w, p) ==
  /\ Creates(w, "payments", p)
  /\ \E n \in Amounts :
       Commit(w, [rows EXCEPT !.payments[p] =
                    [status |-> "DRAFT", amount |-> n, allocated |-> 0]])

\* Mutant: a posted payment can be posted again.
PostPaymentAgain(w, p) ==
  /\ Changes(w, "payments", p, {"DRAFT", "POSTED"})
  /\ Seen(w).period = "OPEN"
  /\ Commit(w, [rows EXCEPT !.payments[p].status = "POSTED",
                            !.journals = Post(@, <<"payment", p>>)])

PostPayment(w, p) ==
  /\ Changes(w, "payments", p, {"DRAFT"})
  /\ Seen(w).period = "OPEN"
  /\ Commit(w, [rows EXCEPT !.payments[p].status = "POSTED",
                            !.journals = Post(@, <<"payment", p>>)])

\* The payment after n more of it are allocated.
Allocated(payment, n) ==
  [payment EXCEPT !.allocated = @ + n,
                  !.status = IF payment.amount = payment.allocated + n
                             THEN "ALLOCATED" ELSE "PARTIALLY_ALLOCATED"]

\* The invoices and the payment are read without a lock and written as computed
\* from what was read.  The CHECKs of both hold of what is written.
Allocate(w, p) ==
  LET seen == Seen(w)  payment == seen.payments[p]
  IN /\ Changes(w, "payments", p, {"POSTED", "PARTIALLY_ALLOCATED"})
     /\ \E share \in [DOMAIN seen.invoices -> 0..MaxAmount] :
          /\ SumFunction(share) \in 1..(payment.amount - payment.allocated)
          /\ \A i \in DOMAIN share : share[i] > 0 =>
               /\ seen.invoices[i].status \in Payable(rows.side)
               /\ share[i] <= Due(seen.invoices[i])
               /\ rows.invoices[i].total = seen.invoices[i].total
          /\ Commit(w,
               [rows EXCEPT
                  !.payments[p] = Allocated(payment, SumFunction(share)),
                  !.allocations = [pi \in DOMAIN @ |->
                     IF pi[1] = p THEN @[pi] + share[pi[2]] ELSE @[pi]],
                  !.invoices = [i \in DOMAIN @ |->
                     IF share[i] > 0 THEN Paid(seen.invoices[i], share[i]) ELSE @[i]]])

\* The invoices get back what the allocations that were read took; the status
\* says whether anything is still paid.
Restored(side, invoice, n) ==
  [invoice EXCEPT !.paid = @ - n,
                  !.status = IF invoice.paid = n THEN PostedStatus(side)
                             ELSE "PARTIALLY_PAID"]

\* void() rolls the allocations back, posts a reversal into the period of the
\* original, and then writes allocated and unallocated both as zero, which
\* chk_payment_balance refuses of a payment that has an amount.
VoidedPayment(w, p) ==
  [rows EXCEPT
     !.payments[p] = [status |-> "VOIDED", amount |-> @.amount, allocated |-> 0],
     !.allocations = [pi \in DOMAIN @ |->
        IF pi[1] = p /\ Seen(w).payments[p].allocated > 0 THEN 0 ELSE @[pi]],
     !.invoices = [i \in DOMAIN @ |->
        LET n == Seen(w).allocations[p, i]
        IN  IF n > 0 THEN Restored(rows.side, @[i], n) ELSE @[i]],
     !.journals = PostReversal(@, <<"payment", p>>)]

\* Mutant: the CHECK does not refuse it.
VoidPaymentUnchecked(w, p) ==
  /\ Changes(w, "payments", p, {"POSTED", "PARTIALLY_ALLOCATED", "ALLOCATED"})
  /\ Commit(w, VoidedPayment(w, p))

VoidPayment(w, p) ==
  /\ Changes(w, "payments", p, {"POSTED", "PARTIALLY_ALLOCATED", "ALLOCATED"})
  /\ CommitIf(w, rows.payments[p].amount = 0, VoidedPayment(w, p))

PaymentsNext(w) ==
  \E p \in DOMAIN rows.payments :
    CreatePayment(w, p) \/ PostPayment(w, p) \/ Allocate(w, p) \/ VoidPayment(w, p)
=============================================================================
