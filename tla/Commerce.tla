------------------------------ MODULE Commerce ------------------------------
(***************************************************************************)
(* What comes before a sales order: crm/leads and crm/opportunities, and   *)
(* the quotations, which sales/quotations and crm/quotations both change.  *)
(***************************************************************************)
EXTENDS Handlers, Sequences

NoQuotations ==
  [domain |-> "quotations",
   quotations |-> [q \in {1} |-> [status |-> "NONE", lines |-> 0, accepted |-> 0]],
   orders |-> <<>>]        \* the lines of each sales order made of it

\* lines: which lines the quotation has, as a number.  Never none: the DTO
\* wants at least one.
CreateQuotation(w, q) ==
  /\ Creates(w, "quotations", q)
  /\ \E n \in Amounts :
       Commit(w, [rows EXCEPT !.quotations[q] = [status |-> "DRAFT", lines |-> n, accepted |-> 0]])

UpdateQuotation(w, q) ==
  /\ Changes(w, "quotations", q, {"DRAFT"})
  /\ \E n \in Amounts : Commit(w, [rows EXCEPT !.quotations[q].lines = n])

Accept(w, q, from) ==
  /\ Changes(w, "quotations", q, from)
  /\ Commit(w, [rows EXCEPT !.quotations[q].status = "ACCEPTED",
                            !.quotations[q].accepted = rows.quotations[q].lines])

SendQuotation(w, q) == SetStatus(w, "quotations", q, {"DRAFT"}, "SENT")
AcceptQuotation(w, q) == Accept(w, q, {"SENT"})
RejectQuotation(w, q) == SetStatus(w, "quotations", q, {"SENT"}, "REJECTED")
CancelQuotation(w, q) == SetStatus(w, "quotations", q, {"DRAFT", "SENT"}, "CANCELLED")

CrmSubmit(w, q) == SetStatus(w, "quotations", q, {"DRAFT"}, "SUBMITTED")
CrmApprove(w, q) == SetStatus(w, "quotations", q, {"SUBMITTED"}, "APPROVED")
CrmReject(w, q) == SetStatus(w, "quotations", q, {"SUBMITTED"}, "REJECTED")
CrmSend(w, q) == SetStatus(w, "quotations", q, {"APPROVED", "DRAFT"}, "SENT")
CrmAccept(w, q) == Accept(w, q, {"SENT", "APPROVED"})

\* A converted quotation cannot be voided, any other can.
CrmVoid(w, q) ==
  SetStatus(w, "quotations", q,
            {"DRAFT", "SUBMITTED", "APPROVED", "SENT", "ACCEPTED", "REJECTED", "CANCELLED",
             "VOIDED"}, "VOIDED")

\* Mutant: converting leaves the quotation accepted.
ConvertAndKeep(w, q) ==
  /\ Changes(w, "quotations", q, {"ACCEPTED"})
  /\ Len(rows.orders) < 2
  /\ Commit(w, [rows EXCEPT !.orders = Append(@, Seen(w).quotations[q].lines)])

\* The order gets the lines that were read.
ConvertQuotation(w, q) ==
  /\ Changes(w, "quotations", q, {"ACCEPTED"})
  /\ Commit(w, [rows EXCEPT !.quotations[q].status = "CONVERTED",
                            !.orders = Append(@, Seen(w).quotations[q].lines)])

\* crm convert() calls convert() of the sales module and then, in an update of
\* its own, writes CONVERTED again.
CrmConvert(w, q) ==
  /\ Changes(w, "quotations", q, {"ACCEPTED"})
  /\ Continue(w, [rows EXCEPT !.quotations[q].status = "CONVERTED",
                              !.orders = Append(@, Seen(w).quotations[q].lines)],
              "crmConverted", q)

CrmConverted(w, q) ==
  /\ Resumes(w, "crmConverted", q)
  /\ Commit(w, [rows EXCEPT !.quotations[q].status = "CONVERTED"])

QuotationsNext(w) ==
  /\ rows.domain = "quotations"
  /\ \E q \in DOMAIN rows.quotations :
       \/ CreateQuotation(w, q) \/ UpdateQuotation(w, q) \/ SendQuotation(w, q)
       \/ AcceptQuotation(w, q) \/ RejectQuotation(w, q) \/ CancelQuotation(w, q)
       \/ CrmSubmit(w, q) \/ CrmApprove(w, q) \/ CrmReject(w, q) \/ CrmSend(w, q)
       \/ CrmAccept(w, q) \/ CrmVoid(w, q)
       \/ ConvertQuotation(w, q) \/ CrmConvert(w, q) \/ CrmConverted(w, q)

-----------------------------------------------------------------------------
(* Leads and opportunities *)

LeadStatus ==
  {"NEW", "CONTACTED", "QUALIFIED", "UNQUALIFIED", "CONVERTED", "LOST", "CLOSED"}

\* A lead that may still be qualified or converted.
OpenLead == LeadStatus \ {"CONVERTED", "LOST", "CLOSED"}
OpportunityStatus ==
  {"OPEN", "QUALIFIED", "PROPOSAL", "NEGOTIATION", "WON", "LOST", "CLOSED"}

NoLeads ==
  [domain |-> "leads",
   leads |-> [l \in {1} |-> [status |-> "NONE", customer |-> FALSE]],
   opportunities |-> [o \in {1, 2} |-> [status |-> "NONE", lead |-> 0]]]

CreateLead(w, l) ==
  /\ Creates(w, "leads", l)
  /\ Commit(w, [rows EXCEPT !.leads[l] = [status |-> "NEW", customer |-> FALSE]])

\* update() writes any status it is given.
UpdateLead(w, l) ==
  \E to \in LeadStatus : SetStatus(w, "leads", l, LeadStatus \ {"CONVERTED"}, to)

QualifyLead(w, l) == SetStatus(w, "leads", l, OpenLead, "QUALIFIED")

\* The customer is made, or an existing one is taken, and an opportunity opened.
ConvertLead(w, l) ==
  /\ Changes(w, "leads", l, OpenLead)
  /\ \E o \in DOMAIN rows.opportunities :
       /\ rows.opportunities[o].status = "NONE"
       /\ Commit(w, [rows EXCEPT !.leads[l] = [status |-> "CONVERTED", customer |-> TRUE],
                                 !.opportunities[o] = [status |-> "OPEN", lead |-> l]])

CloseLead(w, l) == SetStatus(w, "leads", l, LeadStatus \ {"CONVERTED"}, "LOST")

CreateOpportunity(w, o) ==
  /\ Creates(w, "opportunities", o)
  /\ Commit(w, [rows EXCEPT !.opportunities[o] = [status |-> "OPEN", lead |-> 0]])

UpdateOpportunity(w, o) ==
  \E to \in OpportunityStatus :
    SetStatus(w, "opportunities", o, OpportunityStatus \ {"WON", "LOST"}, to)

\* The stage decides the status, also of an opportunity that is closed.
ChangeStage(w, o) ==
  \E to \in {"OPEN", "WON", "LOST"} :
    SetStatus(w, "opportunities", o, OpportunityStatus, to)

CloseWon(w, o) == SetStatus(w, "opportunities", o, OpportunityStatus, "WON")
CloseLost(w, o) == SetStatus(w, "opportunities", o, OpportunityStatus, "LOST")

LeadsNext(w) ==
  /\ rows.domain = "leads"
  /\ \/ \E l \in DOMAIN rows.leads :
          CreateLead(w, l) \/ UpdateLead(w, l) \/ QualifyLead(w, l) \/ ConvertLead(w, l)
            \/ CloseLead(w, l)
     \/ \E o \in DOMAIN rows.opportunities :
          CreateOpportunity(w, o) \/ UpdateOpportunity(w, o) \/ ChangeStage(w, o)
            \/ CloseWon(w, o) \/ CloseLost(w, o)

-----------------------------------------------------------------------------
\* Whatever path a quotation takes through the two services that change it, it
\* becomes at most one order, of the lines that were accepted, and then stays
\* CONVERTED; and a lead becomes at most one opportunity.
ConvertsOnce ==
  /\ rows.domain = "quotations" =>
       /\ Len(rows.orders) <= 1
       /\ rows.orders # <<>> =>
            rows.quotations[1].status = "CONVERTED" /\ rows.orders[1] = rows.quotations[1].accepted
  /\ rows.domain = "leads" =>
       LET made == {o \in DOMAIN rows.opportunities : rows.opportunities[o].lead = 1}
       IN  Cardinality(made) <= 1 /\ (made # {} => rows.leads[1].status = "CONVERTED")
=============================================================================
