----------------------------- MODULE Messaging -----------------------------
(***************************************************************************)
(* notifications/ and integrations/: messages to users and to subscribers. *)
(* Both are made by background jobs, which are taken up once: a job whose  *)
(* handler throws, or whose process stops, is not run again.               *)
(***************************************************************************)
EXTENDS Billing

MaxAttempts == 5

-----------------------------------------------------------------------------
(* The webhook of one subscription for one integration event *)

NoWebhooks ==
  [domain |-> "webhooks", recorded |-> FALSE, dispatches |-> 0, jobs |-> 0, accepted |-> 0,
   delivery |-> [status |-> "NONE", attempts |-> 0]]

RecordIntegrationEvent(w) ==
  /\ At(w, "read") /\ ~ rows.recorded
  /\ Proceed(w, [rows EXCEPT !.recorded = TRUE], "recorded", 0)

EnqueueDispatch(w) ==
  /\ Resumes(w, "recorded", 0)
  /\ Commit(w, [rows EXCEPT !.dispatches = 1])

\* The job of dispatchToSubscribers(): an upsert that changes no existing row.
ScheduleDelivery(w) ==
  /\ At(w, "read") /\ rows.dispatches = 1
  /\ Proceed(w, [rows EXCEPT !.dispatches = 0,
                             !.delivery.status = IF @ = "NONE" THEN "PENDING" ELSE @],
             "scheduled", 0)

EnqueueDelivery(w) ==
  /\ Resumes(w, "scheduled", 0)
  /\ Commit(w, [rows EXCEPT !.jobs = @ + 1])

DeliveryEnded(db) == db.delivery.status \in {"SUCCESS", "DEAD_LETTER"}

\* deliverWebhook(), up to the request to the subscriber.
AttemptWebhook(w) ==
  LET delivery == rows.delivery
      taken == [rows EXCEPT !.jobs = @ - 1]
  IN /\ At(w, "read") /\ rows.jobs > 0
     /\ CASE DeliveryEnded(rows) -> Commit(w, taken)
          [] delivery.attempts >= MaxAttempts /\ ~ DeliveryEnded(rows) ->
               Commit(w, [taken EXCEPT !.delivery.status = "DEAD_LETTER"])
          [] OTHER ->
               Proceed(w, [taken EXCEPT !.delivery =
                             [status |-> "IN_PROGRESS", attempts |-> @.attempts + 1]],
                       "requested", delivery.attempts)

\* The subscriber accepts or refuses; an answer may be late or lost.
AcceptWebhook(w) ==
  \E before \in 0..MaxAttempts : \E answered \in BOOLEAN :
    /\ Resumes(w, "requested", before)
    /\ Proceed(w, [rows EXCEPT !.accepted = @ + 1], IF answered THEN "accepted" ELSE "refused", before)

\* Mutant: the attempt that just failed is not counted.
LastAttemptUncounted(before) == before >= MaxAttempts

\* The attempt after this many was the last.
LastAttempt(before) == before + 1 >= MaxAttempts

\* A retry is a job like any other: nobody looks at nextRetryAt.
AnswerWebhook(w) ==
  \E before \in 0..MaxAttempts :
    \/ /\ Resumes(w, "accepted", before)
       /\ Commit(w, [rows EXCEPT !.delivery.status = "SUCCESS"])
    \/ /\ Resumes(w, "requested", before) \/ Resumes(w, "refused", before)
       /\ IF LastAttempt(before)
          THEN Commit(w, [rows EXCEPT !.delivery.status = "DEAD_LETTER"])
          ELSE Proceed(w, [rows EXCEPT !.delivery.status = "FAILED"], "scheduled", 0)

WebhooksNext(w) ==
  /\ rows.domain = "webhooks"
  /\ \/ RecordIntegrationEvent(w) \/ EnqueueDispatch(w) \/ ScheduleDelivery(w) \/ EnqueueDelivery(w)
     \/ AttemptWebhook(w) \/ AcceptWebhook(w) \/ AnswerWebhook(w)

-----------------------------------------------------------------------------
(* Notifications, by idempotency key: 1 is the key of a schedule, 2 one that *)
(* a client gives.                                                           *)

NoNotifications ==
  [domain |-> "notifications", schedule |-> "NONE", jobs |-> 0, event |-> NoEvent,
   notifications |-> [k \in {1, 2} |-> "NONE"],
   deliveries |-> [k \in {1, 2} |-> [status |-> "NONE", attempts |-> 0]]]

ScheduleNotification(w) ==
  /\ At(w, "read") /\ rows.schedule = "NONE"
  /\ Proceed(w, [rows EXCEPT !.schedule = "PENDING"], "scheduled", 1)

\* The job has no date: it runs at once, whatever sendAt says.
EnqueueSchedule(w) ==
  /\ Resumes(w, "scheduled", 1)
  /\ Commit(w, [rows EXCEPT !.jobs = 1])

CancelSchedule(w) ==
  /\ At(w, "read") /\ Seen(w).schedule = "PENDING"
  /\ Commit(w, [rows EXCEPT !.schedule = "CANCELLED"])

\* The schedule is EXECUTED before its notification is made.
ExecuteSchedule(w) ==
  /\ At(w, "read") /\ rows.jobs = 1
  /\ IF rows.schedule = "PENDING"
     THEN Proceed(w, [rows EXCEPT !.jobs = 0, !.schedule = "EXECUTED"], "notify", 1)
     ELSE Commit(w, [rows EXCEPT !.jobs = 0])

RequestNotification(w) == At(w, "read") /\ Proceed(w, rows, "notify", 2)

\* The unique key refuses a second one; one that is found is returned.
CreateNotification(w, k) ==
  /\ Resumes(w, "notify", k)
  /\ IF rows.notifications[k] = "NONE"
     THEN Proceed(w, [rows EXCEPT !.notifications[k] = "PROCESSING"], "created", k)
     ELSE Commit(w, rows)

\* Unless the recipient does not want it.
CreateDelivery(w, k) ==
  /\ Resumes(w, "created", k)
  /\ Proceed(w, [rows EXCEPT !.deliveries[k].status = "QUEUED"], "queued", k)

\* validateDeliveryTransition() looks at the row, which the provider may write.
TerminalDelivery == {"DELIVERED", "BOUNCED", "REJECTED", "CANCELLED"}

StartDelivery(w, k) ==
  /\ Resumes(w, "queued", k)
  /\ rows.deliveries[k].status \notin TerminalDelivery
  /\ Proceed(w, [rows EXCEPT !.deliveries[k] =
                   [status |-> "PROCESSING", attempts |-> @.attempts + 1]], "sent", k)

\* QUEUED again is for a retry, which nobody makes.
RecordAttempt(w, k) ==
  /\ Resumes(w, "sent", k)
  /\ \E status \in {"DELIVERED", "BOUNCED", "FAILED"}
                     \cup (IF rows.deliveries[k].attempts < MaxAttempts THEN {"QUEUED"} ELSE {}) :
       Proceed(w, [rows EXCEPT !.deliveries[k].status = status], "recorded", k)

MarkSent(w, k) ==
  /\ Resumes(w, "created", k) \/ Resumes(w, "recorded", k)
  /\ Commit(w, [rows EXCEPT !.notifications[k] = "SENT"])

ProviderEvents == {"DELIVERED", "BOUNCED", "FAILED"}

\* What the provider says about a delivery is written, whatever its status.
\* (The event is recorded before and marked afterwards like those of billing.)
TellDelivery(w, k, kind) ==
  /\ Resumes(w, "received", kind)
  /\ rows.deliveries[k].status # "NONE"
  /\ Proceed(w, [rows EXCEPT !.deliveries[k].status = kind], "dispatched", kind)

NotificationsNext(w) ==
  /\ rows.domain = "notifications"
  /\ \/ ScheduleNotification(w) \/ EnqueueSchedule(w) \/ CancelSchedule(w) \/ ExecuteSchedule(w)
     \/ RequestNotification(w) \/ ReceiveEvent(w, ProviderEvents)
     \/ \E k \in DOMAIN rows.notifications :
          \/ CreateNotification(w, k) \/ CreateDelivery(w, k) \/ StartDelivery(w, k)
          \/ RecordAttempt(w, k) \/ MarkSent(w, k)
          \/ \E kind \in ProviderEvents : TellDelivery(w, k, kind)
     \/ \E kind \in ProviderEvents : FinishEvent(w, kind) \/ FailEvent(w, kind)

-----------------------------------------------------------------------------
\* INV-471: what was cancelled is not sent, and what a schedule or a key is for
\* is tried once; nothing is sent without a delivery that was tried or was not
\* wanted.  A webhook is given up after its last attempt and not before, is a
\* success only if the subscriber accepted it, and has at most one job at any
\* time and none once it is over.
MessagesSentOnce ==
  /\ rows.domain = "notifications" =>
       /\ rows.notifications[1] # "NONE" => rows.schedule = "EXECUTED"
       /\ \A k \in DOMAIN rows.notifications :
            /\ rows.deliveries[k].attempts <= 1
            /\ rows.notifications[k] = "SENT" =>
                 rows.deliveries[k].status = "NONE" \/ rows.deliveries[k].attempts = 1
  /\ rows.domain = "webhooks" =>
       /\ rows.delivery.status = "DEAD_LETTER" => rows.delivery.attempts = MaxAttempts
       /\ rows.delivery.status = "FAILED" => rows.delivery.attempts < MaxAttempts
       /\ rows.delivery.status = "SUCCESS" => rows.accepted > 0
       /\ rows.accepted <= rows.delivery.attempts
       /\ rows.jobs <= (IF DeliveryEnded(rows) THEN 0 ELSE 1)
=============================================================================
