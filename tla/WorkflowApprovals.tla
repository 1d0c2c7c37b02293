------------------------- MODULE WorkflowApprovals -------------------------
(***************************************************************************)
(* WorkflowApprovalsService.recordDecision.  The approval is read before   *)
(* the transaction; the resume job is created inside its callback but on   *)
(* another connection, so it neither waits for the commit nor is undone    *)
(* with it.                                                                *)
(***************************************************************************)
EXTENDS BackgroundJobs

\* The request has read the approval: it is open and u has not voted yet.
BeginDecision(w, p, a, u, choice) ==
  /\ requests[w].pc = "idle"
  /\ approvals[a].status = "PENDING"
  /\ approvals[a].votes[u] = None
  /\ requests' = [requests EXCEPT ![w] =
       [pc |-> "decide", process |-> p, approval |-> a, user |-> u, decision |-> choice]]
  /\ UNCHANGED <<tables, processors, triggered, interpreters, crashes>>

InTransaction(w) == requests[w].pc \in {"voted", "queued"}

\* The row of the approval is locked by another transaction's update.
LockedElsewhere(w, a) ==
  \E v \in Workers \ {w} : InTransaction(v) /\ requests[v].approval = a

\* Mutant: the unique index is missing.
MayVoteAgain(a, u) == TRUE

\* @@unique([approvalId, actorUserId])
MayVote(a, u) == approvals[a].votes[u] = None

\* Mutant: the payload has the status read before instead of the new one.
ReadStatus(r) == approvals[r.approval].status

\* The first decision resolves an ANY_ONE approval; any other vote writes back
\* the status that was read.
NextStatus(r) == IF r.decision \in Decisions THEN r.decision ELSE "PENDING"

\* Mutant: the approval is updated outside the transaction, too.
RecordVoteOutside(w) ==
  /\ requests[w].pc = "decide"
  /\ ~LockedElsewhere(w, requests[w].approval)
  /\ MayVote(requests[w].approval, requests[w].user)
  /\ approvals' = [approvals EXCEPT ![requests[w].approval].status = NextStatus(requests[w])]
  /\ requests' = [requests EXCEPT ![w].pc = "voted"]
  /\ UNCHANGED <<executions, steps, jobs, processors, triggered, interpreters, crashes>>

\* The vote is inserted and the approval updated, neither committed yet.
RecordVote(w) ==
  /\ requests[w].pc = "decide"
  /\ ~LockedElsewhere(w, requests[w].approval)
  /\ MayVote(requests[w].approval, requests[w].user)
  /\ requests' = [requests EXCEPT ![w].pc = "voted"]
  /\ UNCHANGED <<tables, processors, triggered, interpreters, crashes>>

QueueResume(w) ==
  LET r == requests[w] IN
  /\ r.pc = "voted" /\ r.decision \in Decisions
  /\ CreateJob(r.process,
       [NewJob("WORKFLOW_RESUME", 2) EXCEPT !.execution = approvals[r.approval].execution,
          !.node = approvals[r.approval].node, !.decision = NextStatus(r)])
  /\ requests' = [requests EXCEPT ![w].pc = "queued"]
  /\ UNCHANGED <<executions, steps, approvals, processors, interpreters, crashes>>

CommitDecision(w) ==
  LET r == requests[w] IN
  /\ r.pc = "queued" \/ (r.pc = "voted" /\ r.decision \notin Decisions)
  /\ approvals' = [approvals EXCEPT ![r.approval].status = NextStatus(r),
                                    ![r.approval].votes[r.user] = r.decision]
  /\ requests' = [requests EXCEPT ![w] = IdleRequest]
  /\ UNCHANGED <<executions, steps, jobs, processors, triggered, interpreters, crashes>>

\* The unique index refuses the vote.
RefuseVote(w) ==
  /\ requests[w].pc = "decide"
  /\ ~MayVote(requests[w].approval, requests[w].user)
  /\ requests' = [requests EXCEPT ![w] = IdleRequest]
  /\ UNCHANGED <<tables, processors, triggered, interpreters, crashes>>

\* A statement or the commit fails, or the transaction takes over 5 seconds.
RollBack(w) ==
  /\ Errors
  /\ requests[w].pc \in {"decide", "voted", "queued"}
  /\ requests' = [requests EXCEPT ![w] = IdleRequest]
  /\ UNCHANGED <<tables, processors, triggered, interpreters, crashes>>
=============================================================================
