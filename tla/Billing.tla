------------------------------ MODULE Billing ------------------------------
(***************************************************************************)
(* billing/: the subscriptions of one organization, and the money it owes: *)
(* credits, an invoice, its payments, and metered usage.  Both can also be *)
(* changed by the events of the payment provider, which come whenever and  *)
(* as often as the provider likes; an event that was PROCESSED is ignored. *)
(***************************************************************************)
EXTENDS Handlers

\* Step 1 of handleInboundWebhook(): the event is recorded, unless it was
\* before.  kinds: what the provider may tell.
ReceiveEvent(w, kinds) ==
  /\ At(w, "read")
  /\ Seen(w).event.status # "PROCESSED"
  /\ \E kind \in IF rows.event.status = "NONE" THEN kinds ELSE {rows.event.kind} :
       Continue(w, IF rows.event.status = "NONE"
                   THEN [rows EXCEPT !.event = [status |-> "RECEIVED", kind |-> kind]]
                   ELSE rows,
                "received", kind)

\* Step 3, after what the event asks for has been done (or has failed).
FinishEvent(w, kind) ==
  /\ Resumes(w, "dispatched", kind)
  /\ Commit(w, [rows EXCEPT !.event.status = "PROCESSED"])

FailEvent(w, kind) ==
  /\ Resumes(w, "received", kind)
  /\ Commit(w, [rows EXCEPT !.event.status = "FAILED"])

NoEvent == [status |-> "NONE", kind |-> "-"]

-----------------------------------------------------------------------------
(* Subscriptions *)

\* provider: whether the payment provider sends events.
NoSubscriptions(provider) ==
  [domain |-> "subscriptions", provider |-> provider, event |-> NoEvent,
   subscriptions |-> [s \in {1, 2} |-> [status |-> "NONE", cancelled |-> FALSE]]]

Current == {"ACTIVE", "TRIALING", "PAST_DUE", "PAUSED"}

\* findActiveSubscriptionByOrg() returns any of these.
ActiveSubscriptions(db) == {s \in {1, 2} : db.subscriptions[s].status \in Current}

CreateSubscription(w, s) ==
  /\ Creates(w, "subscriptions", s)
  /\ ActiveSubscriptions(Seen(w)) = {}
  /\ \E status \in {"TRIALING", "ACTIVE"} :
       Commit(w, [rows EXCEPT !.subscriptions[s].status = status])

UpgradeSubscription(w, s) ==
  /\ s \in ActiveSubscriptions(Seen(w))
  /\ SetStatus(w, "subscriptions", s, Current, "ACTIVE")

\* Immediately; cancelling at the end of the period changes no status.
CancelSubscription(w, s) ==
  /\ At(w, "read")
  /\ s \in ActiveSubscriptions(Seen(w))
  /\ Commit(w, [rows EXCEPT !.subscriptions[s] = [status |-> "CANCELLED", cancelled |-> TRUE]])

PauseSubscription(w, s) ==
  /\ s \in ActiveSubscriptions(Seen(w))
  /\ SetStatus(w, "subscriptions", s, {"TRIALING", "ACTIVE", "PAUSED"}, "PAUSED")

ResumeSubscription(w, s) == SetStatus(w, "subscriptions", s, {"PAUSED"}, "ACTIVE")

\* Step 2 for the events about a subscription: its status is written, whatever
\* it was.
TellSubscription(w, s, kind) ==
  /\ Resumes(w, "received", kind)
  /\ rows.subscriptions[s].status # "NONE"
  /\ Continue(w, [rows EXCEPT !.subscriptions[s].status = kind,
                              !.subscriptions[s].cancelled = @ \/ kind = "CANCELLED"],
              "dispatched", kind)

SubscriptionEvents == {"ACTIVE", "PAST_DUE", "CANCELLED"}

SubscriptionsNext(w) ==
  /\ rows.domain = "subscriptions"
  /\ \/ \E s \in DOMAIN rows.subscriptions :
          \/ CreateSubscription(w, s) \/ UpgradeSubscription(w, s) \/ CancelSubscription(w, s)
          \/ PauseSubscription(w, s) \/ ResumeSubscription(w, s)
          \/ \E kind \in SubscriptionEvents : TellSubscription(w, s, kind)
     \/ rows.provider /\ ReceiveEvent(w, SubscriptionEvents)
     \/ \E kind \in SubscriptionEvents : FinishEvent(w, kind) \/ FailEvent(w, kind)

-----------------------------------------------------------------------------
(* Invoices, payments, credits and usage *)

NoBilling ==
  [domain |-> "billing", event |-> NoEvent,
   credit |-> 0, consumed |-> 0,
   invoice |-> [status |-> "NONE", total |-> 0, credit |-> 0, paid |-> 0, due |-> 0],
   received |-> 0,                      \* the payments of the invoice
   quota |-> [limit |-> 0, used |-> 0], \* limit 0: no quota
   usage |-> [k \in {1, 2} |-> 0]]      \* by idempotency key

GrantCredit(w) ==
  /\ At(w, "read")
  /\ rows.credit = 0
  /\ \E n \in Amounts : Commit(w, [rows EXCEPT !.credit = n])

Lesser(m, n) == IF m < n THEN m ELSE n

\* The credit is consumed before the invoice is made, by statements of their own.
ConsumeCredit(w) ==
  /\ At(w, "read")
  /\ rows.invoice.status = "NONE"
  /\ Continue(w, [rows EXCEPT !.consumed = @ + Lesser(Seen(w).credit - Seen(w).consumed, MaxAmount)],
              "consumed", 0)

CreateBillingInvoice(w) ==
  LET applied == Lesser(Seen(w).credit - Seen(w).consumed, MaxAmount)
      total == MaxAmount - applied
  IN /\ Resumes(w, "consumed", 0)
     /\ Commit(w, [rows EXCEPT !.invoice =
          [status |-> "DRAFT", total |-> total, credit |-> applied, paid |-> 0, due |-> total]])

FinalizeInvoice(w) ==
  /\ At(w, "read")
  /\ Seen(w).invoice.status = "DRAFT"
  /\ Commit(w, [rows EXCEPT !.invoice.status = IF rows.invoice.total = 0 THEN "PAID" ELSE "OPEN"])

\* Mutant: only what is due is compared, and the total is forgotten.
PaidInFull(invoice, n) == [invoice EXCEPT !.paid = n, !.due = 0, !.status = "PAID"]

\* The invoice after a payment of n.
PaidBy(invoice, n) ==
  [invoice EXCEPT !.paid = @ + n, !.due = invoice.total - (invoice.paid + n),
                  !.status = IF invoice.paid + n = invoice.total THEN "PAID" ELSE "PARTIALLY_PAID"]

\* A draft can be paid too.
Billable(invoice, n) ==
  invoice.status \in {"DRAFT", "OPEN", "PARTIALLY_PAID"} /\ n <= invoice.due

ApplyPayment(w) ==
  /\ At(w, "read")
  /\ \E n \in Amounts :
       /\ Billable(Seen(w).invoice, n)
       /\ Commit(w, [rows EXCEPT !.invoice = PaidBy(Seen(w).invoice, n), !.received = @ + n])

\* Step 2 for the event that a payment of 1 succeeded.
TellPayment(w) ==
  /\ Resumes(w, "received", "PAID")
  /\ Billable(rows.invoice, 1)
  /\ Continue(w, [rows EXCEPT !.invoice = PaidBy(rows.invoice, 1), !.received = @ + 1],
              "dispatched", "PAID")

\* What was paid in part stays paid.
VoidBillingInvoice(w) ==
  /\ At(w, "read")
  /\ Seen(w).invoice.status \in {"DRAFT", "OPEN", "PARTIALLY_PAID", "VOID"}
  /\ Commit(w, [rows EXCEPT !.invoice.status = "VOID"])

\* Only a new quota starts at no usage.
SetQuota(w) ==
  /\ At(w, "read")
  /\ \E n \in Amounts : Commit(w, [rows EXCEPT !.quota.limit = n])

RecordUsage(w, k) ==
  /\ At(w, "read")
  /\ Seen(w).usage[k] = 0
  /\ \E n \in Amounts :
       /\ Seen(w).quota.limit > 0 => Seen(w).quota.used + n <= Seen(w).quota.limit
       /\ CommitIf(w, rows.usage[k] = 0,
            [rows EXCEPT !.usage[k] = n,
                         !.quota.used = IF rows.quota.limit > 0 THEN @ + n ELSE @])

BillingNext(w) ==
  /\ rows.domain = "billing"
  /\ \/ GrantCredit(w) \/ ConsumeCredit(w) \/ CreateBillingInvoice(w) \/ FinalizeInvoice(w)
     \/ ApplyPayment(w) \/ VoidBillingInvoice(w) \/ SetQuota(w)
     \/ \E k \in {1, 2} : RecordUsage(w, k)
     \/ ReceiveEvent(w, {"PAID"}) \/ TellPayment(w) \/ FinishEvent(w, "PAID")
     \/ FailEvent(w, "PAID")

-----------------------------------------------------------------------------
\* INV-434, INV-436: as long as the provider is silent, an organization has one
\* current subscription, and one that was cancelled stays so.  INV-447, INV-448:
\* what is paid of an invoice are its payments, never more than its total, and
\* no credit is applied that was not consumed, also when requests end half-way
\* and events come twice.
BillingAddsUp ==
  /\ rows.domain = "subscriptions" /\ ~ rows.provider =>
       /\ Cardinality(ActiveSubscriptions(rows)) <= 1
       /\ \A s \in {1, 2} :
            rows.subscriptions[s].cancelled => rows.subscriptions[s].status = "CANCELLED"
  /\ rows.domain = "billing" =>
       /\ rows.invoice.paid = rows.received
       /\ rows.invoice.paid + rows.invoice.due = rows.invoice.total
       /\ rows.invoice.due >= 0
       /\ rows.invoice.credit <= rows.consumed /\ rows.consumed <= rows.credit
       /\ rows.quota.used <= rows.usage[1] + rows.usage[2]
=============================================================================
