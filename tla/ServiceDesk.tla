---------------------------- MODULE ServiceDesk ----------------------------
(***************************************************************************)
(* service/: requests that become tickets, which are diagnosed and         *)
(* estimated; and repair orders, with parts, labor, quality check,         *)
(* handover and invoice.                                                   *)
(***************************************************************************)
EXTENDS Handlers

-----------------------------------------------------------------------------
(* Requests, tickets, diagnoses, estimates *)

NoTickets ==
  [domain |-> "tickets",
   intakes |-> [i \in {1} |-> [status |-> "NONE"]],
   tickets |-> [t \in {1, 2} |-> [status |-> "NONE", assigned |-> FALSE, intake |-> FALSE]],
   diagnoses |-> [t \in {1, 2} |-> [status |-> "NONE"]],
   estimates |-> [t \in {1, 2} |-> [status |-> "NONE"]]]

CreateIntake(w, i) ==
  /\ Creates(w, "intakes", i)
  /\ Commit(w, [rows EXCEPT !.intakes[i].status = "SUBMITTED"])

CancelIntake(w, i) == SetStatus(w, "intakes", i, {"SUBMITTED", "DRAFT", "REJECTED"}, "CANCELLED")

Triageable == {"SUBMITTED", "DRAFT"}

NewTicket(t, unassigned, assigned, fromIntake) ==
  [rows EXCEPT !.tickets[t] = [status |-> IF assigned THEN "ASSIGNED" ELSE unassigned,
                               assigned |-> assigned, intake |-> fromIntake]]

TriageIntake(w, i, t) ==
  /\ Changes(w, "intakes", i, Triageable)
  /\ rows.tickets[t].status = "NONE"
  /\ \E assigned \in BOOLEAN :
       Commit(w, [NewTicket(t, "TRIAGED", assigned, TRUE) EXCEPT
                    !.intakes[i].status = "CONVERTED_TO_TICKET"])

CreateTicket(w, t) ==
  /\ Creates(w, "tickets", t)
  /\ \E assigned \in BOOLEAN : Commit(w, NewTicket(t, "OPEN", assigned, FALSE))

TicketStatuses ==
  {"OPEN", "TRIAGED", "ASSIGNED", "IN_DIAGNOSIS", "AWAITING_APPROVAL", "APPROVED", "ON_HOLD"}

AssignTicket(w, t) ==
  LET status == Seen(w).tickets[t].status
  IN /\ Changes(w, "tickets", t, TicketStatuses)
     /\ Commit(w, [rows EXCEPT
                     !.tickets[t].assigned = TRUE,
                     !.tickets[t].status =
                        IF status \in {"OPEN", "TRIAGED"} THEN "ASSIGNED" ELSE status])

StartDiagnosis(w, t) == SetStatus(w, "tickets", t, TicketStatuses, "IN_DIAGNOSIS")

HoldTicket(w, t) == SetStatus(w, "tickets", t, TicketStatuses, "ON_HOLD")

\* What the ticket was before it was held is forgotten.
ResumeTicket(w, t) ==
  SetStatus(w, "tickets", t, {"ON_HOLD"},
            IF Seen(w).tickets[t].assigned THEN "ASSIGNED" ELSE "OPEN")

\* A final diagnosis moves the ticket on: at once when the warranty covers it.
RecordDiagnosis(w, t) ==
  /\ Changes(w, "tickets", t, TicketStatuses)
  /\ \E final, covered \in BOOLEAN :
       Commit(w, [rows EXCEPT
         !.diagnoses[t].status =
            IF @ = "COVERED" \/ (final /\ covered) THEN "COVERED"
            ELSE IF final THEN "FINAL" ELSE "DRAFT",
         !.tickets[t].status =
            IF ~ final THEN "IN_DIAGNOSIS"
            ELSE IF covered THEN "APPROVED" ELSE "AWAITING_APPROVAL"])

FinalizeDiagnosis(w, t) == SetStatus(w, "diagnoses", t, {"DRAFT"}, "FINAL")

CreateEstimate(w, t) ==
  /\ Creates(w, "estimates", t)
  /\ Seen(w).tickets[t].status # "NONE"
  /\ Commit(w, [rows EXCEPT !.estimates[t].status = "DRAFT"])

SendEstimate(w, t) == SetStatus(w, "estimates", t, {"DRAFT"}, "SENT")

ApproveEstimate(w, t) ==
  /\ Changes(w, "estimates", t, {"DRAFT", "SENT"})
  /\ Commit(w, [rows EXCEPT !.estimates[t].status = "APPROVED",
                            !.tickets[t].status = "APPROVED"])

RejectEstimate(w, t) == SetStatus(w, "estimates", t, {"DRAFT", "SENT"}, "REJECTED")

-----------------------------------------------------------------------------
(* Repair orders.  Of two parts one is covered by the warranty; every part *)
(* costs, and is charged at, 1, and so is an hour of labor.                *)

NoPart == [required |-> 0, reserved |-> 0, issued |-> 0, returned |-> 0]

NoRepairs(inspection) ==
  [domain |-> "repairs",
   inspectionRequired |-> inspection,
   repairs |-> [o \in {1} |-> [status |-> "NONE", lot |-> "NONE", partsCost |-> 0,
                               laborCost |-> 0, charge |-> 0, invoiced |-> 0, fromRma |-> FALSE]],
   parts |-> [p \in {"covered", "payable"} |-> NoPart],
   labor |-> [status |-> "NONE", hours |-> 0]]

CreateRepair(w, o) ==
  /\ Creates(w, "repairs", o)
  /\ Commit(w, [rows EXCEPT !.repairs[o].status = "DRAFT"])

\* One order for a return request.
CreateRepairFromRma(w, o) ==
  /\ Creates(w, "repairs", o)
  /\ \A p \in DOMAIN rows.repairs : ~ Seen(w).repairs[p].fromRma
  /\ Commit(w, [rows EXCEPT !.repairs[o].status = "RELEASED", !.repairs[o].fromRma = TRUE])

ReleaseRepair(w, o) == SetStatus(w, "repairs", o, {"DRAFT"}, "RELEASED")
StartRepair(w, o) == SetStatus(w, "repairs", o, {"DRAFT", "RELEASED"}, "IN_PROGRESS")

Working == {"DRAFT", "RELEASED", "IN_PROGRESS", "QUALITY_CHECK"}

RequestQualityCheck(w, o) ==
  /\ Changes(w, "repairs", o, Working \cup {"HANDED_OVER"})
  /\ Seen(w).repairs[o].lot = "NONE"
  /\ Commit(w, [rows EXCEPT !.repairs[o].lot = "PENDING",
                            !.repairs[o].status = "QUALITY_CHECK"])

\* quality/: the lot is decided.
DecideLot(w, o) ==
  /\ At(w, "read") /\ Seen(w).repairs[o].lot = "PENDING"
  /\ \E decision \in {"ACCEPT", "REJECT"} :
       Commit(w, [rows EXCEPT !.repairs[o].lot = decision])

QualityPassed(db, o) == db.inspectionRequired => db.repairs[o].lot = "ACCEPT"

NetIssued(db, p) == db.parts[p].issued - db.parts[p].returned

AfterStart(status) == IF status = "RELEASED" THEN "IN_PROGRESS" ELSE status

\* Mutant: what was returned is still charged when the costs are recalculated.
GrossRecalculated(db, o) ==
  [db.repairs[o] EXCEPT
     !.partsCost = db.parts["covered"].issued + db.parts["payable"].issued,
     !.laborCost = db.labor.hours,
     !.charge = db.parts["payable"].issued + db.labor.hours]

Recalculated(db, o) ==
  [db.repairs[o] EXCEPT
     !.partsCost = NetIssued(db, "covered") + NetIssued(db, "payable"),
     !.laborCost = db.labor.hours,
     !.charge = NetIssued(db, "payable") + db.labor.hours]

\* The costs and the status are written by two statements.
CompleteRepair(w, o) ==
  /\ Changes(w, "repairs", o, {"IN_PROGRESS", "QUALITY_CHECK"})
  /\ QualityPassed(Seen(w), o)
  /\ Continue(w, [rows EXCEPT !.repairs[o] = Recalculated(rows, o)], "complete", o)

FinishRepair(w, o) ==
  /\ Resumes(w, "complete", o)
  /\ Commit(w, [rows EXCEPT !.repairs[o].status = "COMPLETED"])

\* The quality check is not asked for here.
ProcessHandover(w, o) ==
  SetStatus(w, "repairs", o, {"COMPLETED", "QUALITY_CHECK"}, "HANDED_OVER")

CloseRepair(w, o) == SetStatus(w, "repairs", o, {"COMPLETED", "HANDED_OVER"}, "CLOSED")

CancelRepair(w, o) ==
  SetStatus(w, "repairs", o, Working \cup {"COMPLETED", "HANDED_OVER"}, "CANCELLED")

\* MaxAmount bounds what the parts of an order add up to.
AddPart(w, o, p) ==
  /\ Changes(w, "repairs", o, Working \cup {"HANDED_OVER"})
  /\ rows.parts[p].required = 0
  /\ \E n \in 1..(MaxAmount - rows.parts["covered"].required - rows.parts["payable"].required) :
       Commit(w, [rows EXCEPT !.parts[p].required = n])

\* No stock is reserved: only the requirement is marked.
ReserveParts(w, o, p) ==
  LET part == Seen(w).parts[p]
  IN /\ Changes(w, "repairs", o, Working \cup {"HANDED_OVER"})
     /\ \E n \in 1..(part.required - part.reserved) :
          Commit(w, [rows EXCEPT !.parts[p].reserved = part.reserved + n])

\* As is issued: the stock is not changed, the order's cost and charge are.
IssueParts(w, o, p) ==
  LET part == Seen(w).parts[p]
      order == Seen(w).repairs[o]
  IN /\ Changes(w, "repairs", o, Working \cup {"HANDED_OVER"})
     /\ \E n \in 1..(part.required - part.issued) :
          Commit(w, [rows EXCEPT
            !.parts[p].issued = part.issued + n,
            !.repairs[o].partsCost = order.partsCost + n,
            !.repairs[o].charge = order.charge + IF p = "payable" THEN n ELSE 0,
            !.repairs[o].status = AfterStart(order.status)])

ReturnParts(w, o, p) ==
  LET part == Seen(w).parts[p]
      order == Seen(w).repairs[o]
  IN /\ Changes(w, "repairs", o, Working \cup {"COMPLETED", "HANDED_OVER"})
     /\ \E n \in 1..(part.issued - part.returned) :
          Commit(w, [rows EXCEPT
            !.parts[p].returned = part.returned + n,
            !.repairs[o].partsCost = order.partsCost - n,
            !.repairs[o].charge = order.charge - IF p = "payable" THEN n ELSE 0])

RecordLabor(w, o) ==
  LET order == Seen(w).repairs[o]
  IN /\ Changes(w, "repairs", o, Working \cup {"COMPLETED", "HANDED_OVER"})
     /\ rows.labor.status = "NONE"
     /\ \E n \in Amounts, status \in {"DRAFT", "FINAL"} :
          Commit(w, [rows EXCEPT
            !.labor = [status |-> status, hours |-> n],
            !.repairs[o].laborCost = order.laborCost + n,
            !.repairs[o].charge = order.charge + n,
            !.repairs[o].status = AfterStart(order.status)])

\* The order's labor cost and charge stay as they were.
UpdateLabor(w) ==
  /\ At(w, "read") /\ Seen(w).labor.status = "DRAFT"
  /\ \E n \in Amounts, status \in {"DRAFT", "FINAL"} :
       Commit(w, [rows EXCEPT !.labor = [status |-> status, hours |-> n]])

FinalizeLabor(w) ==
  /\ At(w, "read") /\ Seen(w).labor.status = "DRAFT"
  /\ Commit(w, [rows EXCEPT !.labor.status = "FINAL"])

\* An invoice has a line for every part and labor entry, the covered ones too.
InvoiceRepair(w, o) ==
  LET order == Seen(w).repairs[o]
      billed == NetIssued(Seen(w), "covered") + NetIssued(Seen(w), "payable")
                  + Seen(w).labor.hours
  IN /\ Changes(w, "repairs", o, {"COMPLETED", "HANDED_OVER", "CLOSED"})
     /\ order.invoiced = 0 /\ order.charge > 0
     /\ Commit(w, [rows EXCEPT !.repairs[o].invoiced = IF billed = 0 THEN order.charge ELSE billed])

-----------------------------------------------------------------------------

TicketsNext(w) ==
  /\ rows.domain = "tickets"
  /\ \/ \E i \in DOMAIN rows.intakes :
          \/ CreateIntake(w, i) \/ CancelIntake(w, i)
          \/ \E t \in DOMAIN rows.tickets : TriageIntake(w, i, t)
     \/ \E t \in DOMAIN rows.tickets :
          \/ CreateTicket(w, t) \/ AssignTicket(w, t) \/ StartDiagnosis(w, t)
          \/ HoldTicket(w, t) \/ ResumeTicket(w, t)
          \/ RecordDiagnosis(w, t) \/ FinalizeDiagnosis(w, t)
          \/ CreateEstimate(w, t) \/ SendEstimate(w, t)
          \/ ApproveEstimate(w, t) \/ RejectEstimate(w, t)

RepairsNext(w) ==
  /\ rows.domain = "repairs"
  /\ \/ UpdateLabor(w) \/ FinalizeLabor(w)
     \/ \E o \in DOMAIN rows.repairs :
          \/ CreateRepair(w, o) \/ CreateRepairFromRma(w, o) \/ ReleaseRepair(w, o)
          \/ StartRepair(w, o) \/ RequestQualityCheck(w, o) \/ DecideLot(w, o)
          \/ CompleteRepair(w, o) \/ FinishRepair(w, o) \/ ProcessHandover(w, o)
          \/ CloseRepair(w, o) \/ CancelRepair(w, o)
          \/ RecordLabor(w, o) \/ InvoiceRepair(w, o)
          \/ \E p \in DOMAIN rows.parts :
               AddPart(w, o, p) \/ ReserveParts(w, o, p) \/ IssueParts(w, o, p) \/ ReturnParts(w, o, p)

ServiceDeskNext(w) == TicketsNext(w) \/ RepairsNext(w)

-----------------------------------------------------------------------------
\* A converted request has one ticket, and no other request has any; and a
\* ticket is approved by an approved estimate or a final diagnosis under
\* warranty, through any sequence of holds, assignments and new diagnoses.
TicketsHaveOrigins ==
  rows.domain = "tickets" =>
    /\ Cardinality({t \in DOMAIN rows.tickets : rows.tickets[t].intake}) =
         Cardinality({i \in DOMAIN rows.intakes : rows.intakes[i].status = "CONVERTED_TO_TICKET"})
    /\ \A t \in DOMAIN rows.tickets :
         rows.tickets[t].status = "APPROVED" =>
           rows.estimates[t].status = "APPROVED" \/ rows.diagnoses[t].status = "COVERED"

\* The cost and the charge of a repair are those of the parts that stayed in
\* it and of the labor it was last told of, whatever was issued, returned and
\* recalculated in between; and never more comes back than went out, nor goes
\* out than is required.
RepairAddsUp ==
  rows.domain = "repairs" =>
    /\ \A p \in DOMAIN rows.parts :
         LET part == rows.parts[p]
         IN part.returned <= part.issued /\ part.issued <= part.required
              /\ part.reserved <= part.required
    /\ \A o \in DOMAIN rows.repairs :
         LET order == rows.repairs[o]
         IN /\ order.partsCost = NetIssued(rows, "covered") + NetIssued(rows, "payable")
            /\ order.charge = NetIssued(rows, "payable") + order.laborCost
=============================================================================
