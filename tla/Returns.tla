------------------------------ MODULE Returns ------------------------------
(***************************************************************************)
(* returns/: return requests (RMA) for a delivered, or received, line of   *)
(* quantity MaxAmount: requested, authorized, received, inspected,         *)
(* disposed of and resolved with a credit note, refund, debit note or      *)
(* replacement.                                                            *)
(***************************************************************************)
EXTENDS Handlers

CONSTANT RmaIds        \* return requests

NoRma == [status |-> "NONE", requested |-> 0, authorized |-> 0, received |-> 0,
          accepted |-> 0, disposed |-> 0, lot |-> FALSE, resolved |-> FALSE]

NoReturns(inspection) ==
  [domain |-> "returns", requireInspection |-> inspection, rmas |-> [r \in RmaIds |-> NoRma]]

\* What earlier returns take of the delivered line.  The code means "the
\* authorized quantity, or else the requested one", but a Decimal zero is not
\* false in TypeScript: a return that is not yet authorized counts for nothing.
PreviouslyReturned(db) ==
  SumFunction([r \in {s \in RmaIds : db.rmas[s].status \notin
                        {"NONE", "REJECTED", "CANCELLED", "VOIDED"}} |-> db.rmas[r].authorized])

\* validateEligibility() of customer-returns and supplier-returns.
CreateReturn(w, r) ==
  /\ Creates(w, "rmas", r)
  /\ \E n \in 1..(MaxAmount - PreviouslyReturned(Seen(w))) :
       Commit(w, [rows EXCEPT !.rmas[r].status = "DRAFT", !.rmas[r].requested = n])

RmaStatuses ==
  {"DRAFT", "SUBMITTED", "UNDER_REVIEW", "AUTHORIZED", "REJECTED", "RECEIVED",
   "INSPECTION_REQUIRED", "INSPECTING", "DISPOSITION_PENDING", "RESOLVED", "CLOSED",
   "CANCELLED", "VOIDED"}

SubmitReturn(w, r) == SetStatus(w, "rmas", r, {"DRAFT"}, "SUBMITTED")

ReviewReturn(w, r) == SetStatus(w, "rmas", r, {"SUBMITTED", "DRAFT"}, "UNDER_REVIEW")

\* All that is requested, or what the client authorizes of it.
AuthorizeReturn(w, r) ==
  /\ Changes(w, "rmas", r, {"UNDER_REVIEW", "SUBMITTED", "DRAFT"})
  /\ \E n \in 0..Seen(w).rmas[r].requested :
       Commit(w, [rows EXCEPT !.rmas[r].status = "AUTHORIZED", !.rmas[r].authorized = n])

\* Goods that wait for inspection or disposition can still be rejected or cancelled.
RejectReturn(w, r) ==
  SetStatus(w, "rmas", r, RmaStatuses \ {"CLOSED", "RESOLVED", "RECEIVED"}, "REJECTED")

CancelReturn(w, r) ==
  SetStatus(w, "rmas", r, RmaStatuses \ {"CLOSED", "RESOLVED", "RECEIVED"}, "CANCELLED")

VoidReturn(w, r) == SetStatus(w, "rmas", r, RmaStatuses \ {"CLOSED"}, "VOIDED")

CloseReturn(w, r) == SetStatus(w, "rmas", r, RmaStatuses \ {"CLOSED"}, "CLOSED")

\* The reason of the return, or the organization's policy, asks for inspection.
ReceiveReturn(w, r) ==
  LET rma == Seen(w).rmas[r]
  IN /\ Changes(w, "rmas", r, {"AUTHORIZED", "RECEIVED"})
     /\ \E n \in 1..(rma.authorized - rma.received) :
          Commit(w, [rows EXCEPT
                       !.rmas[r].received = rma.received + n,
                       !.rmas[r].status = IF Seen(w).requireInspection
                                          THEN "INSPECTION_REQUIRED" ELSE "RECEIVED"])

RequestInspection(w, r) ==
  /\ Changes(w, "rmas", r, {"INSPECTION_REQUIRED", "RECEIVED", "AUTHORIZED"})
  /\ ~ Seen(w).rmas[r].lot
  /\ Commit(w, [rows EXCEPT !.rmas[r].status = "INSPECTING", !.rmas[r].lot = TRUE])

\* No status is looked at.  The lot accepts all, nothing, or a part.
SyncInspection(w, r) ==
  /\ Changes(w, "rmas", r, RmaStatuses)
  /\ Seen(w).rmas[r].lot
  /\ \E n \in 0..Seen(w).rmas[r].received :
       Commit(w, [rows EXCEPT !.rmas[r].status = "DISPOSITION_PENDING", !.rmas[r].accepted = n])

\* Statuses that dispositions and resolutions refuse.
Ended == {"CLOSED", "REJECTED", "CANCELLED", "VOIDED"}

\* Mutant: earlier dispositions are not counted.
LeftIgnoringDisposed(rma) ==
  IF rma.accepted > 0 THEN rma.accepted
  ELSE IF rma.received > 0 THEN rma.received ELSE rma.authorized

\* What may still be disposed of: of the accepted quantity if there is one,
\* else of the received one, else of the authorized one.
LeftToDispose(rma) ==
  (IF rma.accepted > 0 THEN rma.accepted
   ELSE IF rma.received > 0 THEN rma.received ELSE rma.authorized) - rma.disposed

DisposeReturn(w, r) ==
  /\ Changes(w, "rmas", r, RmaStatuses \ Ended)
  /\ \E n \in 1..LeftToDispose(Seen(w).rmas[r]) :
       Commit(w, [rows EXCEPT !.rmas[r].disposed = @ + n,
                              !.rmas[r].status = "DISPOSITION_PENDING"])

\* A draft credit note, refund, debit note, or a replacement: each looks at the
\* status only, never at quantities or at earlier resolutions.
CreateResolution(w, r) ==
  /\ Changes(w, "rmas", r, RmaStatuses \ Ended)
  /\ Commit(w, [rows EXCEPT !.rmas[r].status = "RESOLVED", !.rmas[r].resolved = TRUE])

CreateCreditNoteResolution(w, r) == CreateResolution(w, r)
CreateRefundResolution(w, r) == CreateResolution(w, r)
CreateDebitNoteResolution(w, r) == CreateResolution(w, r)
CreateReplacementResolution(w, r) == CreateResolution(w, r)

ReturnsNext(w) ==
  /\ rows.domain = "returns"
  /\ \E r \in RmaIds :
       \/ CreateReturn(w, r) \/ SubmitReturn(w, r) \/ ReviewReturn(w, r)
       \/ AuthorizeReturn(w, r) \/ RejectReturn(w, r) \/ CancelReturn(w, r)
       \/ VoidReturn(w, r) \/ CloseReturn(w, r) \/ ReceiveReturn(w, r)
       \/ RequestInspection(w, r) \/ SyncInspection(w, r) \/ DisposeReturn(w, r)
       \/ CreateCreditNoteResolution(w, r) \/ CreateRefundResolution(w, r)
       \/ CreateDebitNoteResolution(w, r) \/ CreateReplacementResolution(w, r)

-----------------------------------------------------------------------------
\* Nothing is received, accepted or disposed of that was not authorized, and
\* what has arrived is disposed of once, whichever way a return takes through
\* inspection, disposition and resolution.
DisposedOnce ==
  rows.domain = "returns" =>
    \A r \in RmaIds :
      LET rma == rows.rmas[r]
      IN /\ rma.disposed <= rma.authorized
         /\ rma.received > 0 => rma.disposed <= rma.received
=============================================================================
