---------------------------- MODULE CreditNotes ----------------------------
(***************************************************************************)
(* sales/credit-notes, purchasing/debit-notes and sales/refunds.  A note   *)
(* is a customer credit note on the AR side, a supplier debit note on the  *)
(* AP side.  Its remaining amount is a column of its own, which no CHECK   *)
(* ties to total - applied.                                                *)
(***************************************************************************)
EXTENDS Payments

CONSTANT MaxReversals   \* bound on the retries of a void that stopped half-way

NoNote == [status |-> "NONE", total |-> 0, applied |-> 0, remaining |-> 0]
NoRefund == [status |-> "NONE", amount |-> 0, note |-> 0]
Applicable == {"POSTED", "PARTIALLY_APPLIED"}

\* CHECKs chk_*_applied, chk_*_remaining of both kinds of notes.
LegalNote(note) == note.applied \in 0..note.total /\ note.remaining >= 0

\* The note after n more of it are used.
Used(note, n) ==
  [note EXCEPT !.applied = @ + n, !.remaining = @ - n,
               !.status = IF note.remaining = n THEN "APPLIED" ELSE "PARTIALLY_APPLIED"]

CreateNote(w, n) ==
  /\ Creates(w, "notes", n)
  /\ \E a \in Amounts :
       Commit(w, [rows EXCEPT !.notes[n] =
                    [status |-> "DRAFT", total |-> a, applied |-> 0, remaining |-> a]])

CreateCreditNote(w, n) == rows.side = "AR" /\ CreateNote(w, n)
CreateDebitNote(w, n) == rows.side = "AP" /\ CreateNote(w, n)

UpdateNote(w, n) ==
  /\ Changes(w, "notes", n, {"DRAFT"})
  /\ \E a \in Amounts :
       LET new == [rows EXCEPT !.notes[n].total = a,
                               !.notes[n].remaining = a - Seen(w).notes[n].applied]
       IN  CommitIf(w, LegalNote(new.notes[n]), new)

UpdateCreditNote(w, n) == rows.side = "AR" /\ UpdateNote(w, n)
UpdateDebitNote(w, n) == rows.side = "AP" /\ UpdateNote(w, n)

ApproveCreditNote(w, n) ==
  rows.side = "AR" /\ SetStatus(w, "notes", n, {"DRAFT"}, "APPROVED")

ApproveDebitNote(w, n) ==
  rows.side = "AP" /\ SetStatus(w, "notes", n, {"DRAFT"}, "APPROVED")

\* Posting also moves the goods: a receipt for lines to be restocked (credit
\* notes), an issue for lines returned to the supplier (debit notes).
PostNote(w, n) ==
  /\ Changes(w, "notes", n, {"DRAFT", "APPROVED"})
  /\ Seen(w).period = "OPEN"
  /\ Commit(w, [rows EXCEPT !.notes[n].status = "POSTED",
                            !.journals = Post(@, <<"note", n>>)])

PostCreditNote(w, n) == rows.side = "AR" /\ PostNote(w, n)
PostDebitNote(w, n) == rows.side = "AP" /\ PostNote(w, n)

\* As Payments!Allocate: everything is computed from unlocked reads.
ApplyNote(w, n) ==
  LET seen == Seen(w)  note == seen.notes[n]
  IN /\ Changes(w, "notes", n, Applicable)
     /\ \E share \in [DOMAIN seen.invoices -> 0..MaxAmount] :
          /\ SumFunction(share) \in 1..note.remaining
          /\ \A i \in DOMAIN share : share[i] > 0 =>
               /\ seen.invoices[i].status \in Payable(rows.side)
               /\ share[i] <= Due(seen.invoices[i])
               /\ rows.invoices[i].total = seen.invoices[i].total
          /\ Commit(w,
               [rows EXCEPT
                  !.notes[n] = Used(note, SumFunction(share)),
                  !.applications = [ni \in DOMAIN @ |->
                     IF ni[1] = n THEN @[ni] + share[ni[2]] ELSE @[ni]],
                  !.invoices = [i \in DOMAIN @ |->
                     IF share[i] > 0 THEN Paid(seen.invoices[i], share[i]) ELSE @[i]]])

ApplyCreditNote(w, n) == rows.side = "AR" /\ ApplyNote(w, n)
ApplyDebitNote(w, n) == rows.side = "AP" /\ ApplyNote(w, n)

\* void() has no transaction: the reversal of a posted note is a statement of
\* its own, and the request may end before the note is VOIDED.  The original
\* journal stays POSTED; goods that were moved are not moved back.
ReverseNote(w, n) ==
  /\ Changes(w, "notes", n, {"POSTED"})
  /\ Seen(w).notes[n].applied = 0
  /\ Seen(w).period = "OPEN"
  /\ rows.journals[<<"note", n>>].reversals < MaxReversals
  /\ Continue(w, [rows EXCEPT !.journals = Compensate(@, <<"note", n>>)], "voidNote", n)

VoidReversed(w, n) ==
  /\ Resumes(w, "voidNote", n)
  /\ Commit(w, [rows EXCEPT !.notes[n].status = "VOIDED"])

VoidUnposted(w, n) ==
  /\ At(w, "read")
  /\ Seen(w).notes[n].applied = 0
  /\ SetStatus(w, "notes", n, {"DRAFT", "APPROVED", "PARTIALLY_APPLIED", "APPLIED"}, "VOIDED")

VoidNote(w, n) == ReverseNote(w, n) \/ VoidReversed(w, n) \/ VoidUnposted(w, n)
VoidCreditNote(w, n) == rows.side = "AR" /\ VoidNote(w, n)
VoidDebitNote(w, n) == rows.side = "AP" /\ VoidNote(w, n)

-----------------------------------------------------------------------------
(* Refunds of credit notes *)

CreateRefund(w, f) ==
  /\ rows.side = "AR"
  /\ Creates(w, "refunds", f)
  /\ \E n \in DOMAIN rows.notes, a \in Amounts :
       /\ Seen(w).notes[n].status \in Applicable
       /\ a <= Seen(w).notes[n].remaining
       /\ Commit(w, [rows EXCEPT !.refunds[f] =
                       [status |-> "DRAFT", amount |-> a, note |-> n]])

\* Mutant: the refund leaves the credit note as it is.
PostRefundAlone(w, f) ==
  /\ Changes(w, "refunds", f, {"DRAFT"})
  /\ Commit(w, [rows EXCEPT !.refunds[f].status = "POSTED",
                            !.journals = Post(@, <<"refund", f>>)])

\* Neither the status nor the remaining amount of the note is checked again;
\* only the CHECKs stop a refund of more than remains.
PostRefund(w, f) ==
  LET refund == Seen(w).refunds[f]
      note == Used(Seen(w).notes[refund.note], refund.amount)
  IN /\ Changes(w, "refunds", f, {"DRAFT"})
     /\ Seen(w).period = "OPEN"
     /\ CommitIf(w, LegalNote(note),
          [rows EXCEPT !.refunds[f].status = "POSTED",
                       !.notes[refund.note] = note,
                       !.journals = Post(@, <<"refund", f>>)])

\* The reversal is a statement of its own here too.
ReverseRefund(w, f) ==
  /\ Changes(w, "refunds", f, {"POSTED"})
  /\ Seen(w).period = "OPEN"
  /\ rows.journals[<<"refund", f>>].reversals < MaxReversals
  /\ Continue(w, [rows EXCEPT !.journals = Compensate(@, <<"refund", f>>)],
              "voidRefund", f)

Returned(note, n) ==
  [note EXCEPT !.applied = @ - n, !.remaining = @ + n,
               !.status = IF note.applied = n THEN "POSTED" ELSE "PARTIALLY_APPLIED"]

VoidPostedRefund(w, f) ==
  LET refund == Seen(w).refunds[f]
      note == Returned(Seen(w).notes[refund.note], refund.amount)
  IN /\ Resumes(w, "voidRefund", f)
     /\ CommitIf(w, LegalNote(note),
          [rows EXCEPT !.refunds[f].status = "VOIDED", !.notes[refund.note] = note])

VoidDraftRefund(w, f) == SetStatus(w, "refunds", f, {"DRAFT"}, "VOIDED")

NotesNext(w) ==
  \/ \E n \in DOMAIN rows.notes :
       \/ CreateCreditNote(w, n) \/ UpdateCreditNote(w, n) \/ ApproveCreditNote(w, n)
       \/ PostCreditNote(w, n) \/ ApplyCreditNote(w, n) \/ VoidCreditNote(w, n)
       \/ CreateDebitNote(w, n) \/ UpdateDebitNote(w, n) \/ ApproveDebitNote(w, n)
       \/ PostDebitNote(w, n) \/ ApplyDebitNote(w, n) \/ VoidDebitNote(w, n)
  \/ \E f \in DOMAIN rows.refunds :
       \/ CreateRefund(w, f) \/ PostRefund(w, f)
       \/ ReverseRefund(w, f) \/ VoidPostedRefund(w, f) \/ VoidDraftRefund(w, f)
=============================================================================
