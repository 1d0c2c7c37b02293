-------------------------- MODULE WorkflowEngine --------------------------
(***************************************************************************)
(* Executions, approvals and background jobs together, over one database   *)
(* and any number of API processes.                                        *)
(***************************************************************************)
EXTENDS WorkflowExecutions, WorkflowApprovals

Init ==
  /\ executions = [e \in ExecutionIds |-> [status |-> None, node |-> None]]
  /\ steps = [e \in ExecutionIds |-> [n \in Nodes |-> 0]]
  /\ approvals = [a \in ApprovalIds |-> NoApproval]
  /\ jobs = <<>>
  /\ processors = [p \in Processes |-> IdleProcessor]
  /\ triggered = [p \in Processes |-> FALSE]
  /\ interpreters = [i \in Interpreters |-> Unused]
  /\ requests = [w \in Workers |-> IdleRequest]
  /\ crashes = 0

\* What users and other services ask for.
Ask(p) ==
  \/ \E e \in ExecutionIds : StartExecution(p, e)
  \/ \E e, failed \in ExecutionIds : RetryExecution(p, e, failed)
  \/ QueueExecution(p)
  \/ \E type \in {"REGISTERED", "UNREGISTERED"} : CreateOther(p, type)
  \/ \E w \in Workers, a \in ApprovalIds, u \in Users, choice \in Choices :
       BeginDecision(w, p, a, u, choice)

Begin(w) ==
  \/ \E e \in ExecutionIds : BeginCancel(w, e)
  \/ \E j \in DOMAIN jobs : BeginCancelJob(w, j)

\* What a request, a processor and an interpreter do once begun.
Request(w) ==
  \/ CancelExecution(w)
  \/ CancelJob(w)
  \/ RecordVote(w)
  \/ RefuseVote(w)
  \/ QueueResume(w)
  \/ CommitDecision(w)

Processor(p) ==
  \/ ListJobs(p)
  \/ DropTrigger(p)
  \/ MarkProcessing(p)
  \/ FailUnhandled(p)
  \/ HandleOther(p)
  \/ \E e \in ExecutionIds : HandleExecutionJob(p, e)
  \/ ReadResume(p)
  \/ Reject(p)
  \/ Resume(p)
  \/ FinishJob(p)

Interpreter(i) ==
  \/ ReadNode(i)
  \/ ReadStop(i)
  \/ GiveUp(i)
  \/ Advance(i)
  \/ ActionFails(i)
  \/ End(i)
  \/ \E a \in ApprovalIds : RequestApproval(i, a)
  \/ WaitForApproval(i)
  \/ Delay(i)
  \/ Wake(i)

\* The process ends and is started again: all it had in memory is gone, its
\* open transactions are rolled back, and nothing looks at the tables.
Crash(p) ==
  /\ crashes < MaxCrashes
  /\ crashes' = crashes + 1
  /\ processors' = [processors EXCEPT ![p] = IdleProcessor]
  /\ triggered' = [triggered EXCEPT ![p] = FALSE]
  /\ interpreters' = [i \in Interpreters |->
       IF interpreters[i].process = p THEN Unused ELSE interpreters[i]]
  /\ requests' = [w \in Workers |->
       IF requests[w].pc # "idle" /\ requests[w].process = p THEN IdleRequest ELSE requests[w]]
  /\ UNCHANGED tables

Fault ==
  \/ \E p \in Processes : Crash(p) \/ AbandonBatch(p) \/ HandlerThrows(p)
  \/ \E i \in Interpreters : Throw(i)
  \/ \E w \in Workers : RollBack(w)

Next ==
  \/ \E p \in Processes : Ask(p) \/ Processor(p)
  \/ \E w \in Workers : Begin(w) \/ Request(w)
  \/ \E i \in Interpreters : Interpreter(i)
  \/ Fault

Spec == Init /\ [][Next]_vars

\* A process that does not crash goes on: promises are settled, timers and
\* setImmediate callbacks run, and locks are granted.
FairSpec ==
  /\ Spec
  /\ \A w \in Workers : WF_vars(Request(w))
  /\ \A p \in Processes : WF_vars(Processor(p))
  /\ \A i \in Interpreters : WF_vars(Interpreter(i))

-----------------------------------------------------------------------------
TypeOK ==
  /\ executions \in [ExecutionIds -> ExecutionRow]
  /\ steps \in [ExecutionIds -> [Nodes -> Nat]]
  /\ approvals \in [ApprovalIds -> ApprovalRow]
  /\ jobs \in Seq(JobRow)

-----------------------------------------------------------------------------
(* What holds however requests, processors and failures interleave *)

\* A resolved approval has the vote that its status shows, also when votes
\* overlap and overwrite each other's status.
ResolvedByVote ==
  \A a \in ApprovalIds :
    approvals[a].status \in Decisions
      => \E u \in Users : approvals[a].votes[u] = approvals[a].status

\* INV-397: an approver's vote on an approval is never replaced, although
\* recordDecision looks for an earlier vote long before it writes.
VoteIsFinal ==
  [][\A a \in ApprovalIds, u \in Users :
       approvals[a].votes[u] # None => approvals'[a].votes[u] = approvals[a].votes[u]]_vars

\* With one process a job is begun once, however it fails and whenever the
\* process crashes: what is completed or failed never runs again.
BegunOnce ==
  [][\A j \in DOMAIN jobs :
       jobs'[j].status = "PROCESSING"
         => jobs[j].status \in {"PENDING", "PROCESSING", "CANCELLED"}]_vars

-----------------------------------------------------------------------------
(* What holds in one process when decisions do not overlap *)

Drivers(e) ==
  {i \in Interpreters : interpreters[i].pc # "idle" /\ interpreters[i].execution = e}

\* One interpreter or timer at most drives an execution: two would run its
\* actions twice and overwrite each other's progress.
OneDriver == \A e \in ExecutionIds : Cardinality(Drivers(e)) <= 1

\* No node of an acyclic graph runs twice for an execution.
NodesRunOnce == \A e \in ExecutionIds, n \in Nodes : steps[e][n] <= 1

ApprovedAt(e, n) ==
  \E a \in ApprovalIds :
    /\ approvals[a].execution = e /\ approvals[a].node = n
    /\ \/ approvals[a].status = "APPROVED"
       \/ \E w \in Workers :
            /\ requests[w].pc = "queued" /\ requests[w].approval = a
            /\ requests[w].decision = "APPROVED"

\* An execution that has run a node behind an APPROVAL node was approved there,
\* or the transaction that approves it is about to commit.
ApprovedBeforePassing ==
  \A e \in ExecutionIds, edge \in Edges :
    KindOf[edge[1]] = "APPROVAL" /\ steps[e][edge[2]] > 0 => ApprovedAt(e, edge[1])

Lifecycle ==
  INSTANCE WorkflowLifecycle
    WITH executions <- executions, ExecutionIds <- ExecutionIds, Nodes <- Nodes,
         KindOf <- KindOf, Edges <- Edges, StartNode <- StartNode

\* Without cancellations an execution follows its graph (WorkflowLifecycle),
\* and in particular never leaves a terminal status, if only END and APPROVAL
\* nodes have no edge that leads on.
FollowsLifecycle == Lifecycle!Spec

\* However the graph loops, a running execution stops running: the limit on
\* transitions ends it unless it ends or waits.
RunsEnd ==
  \A e \in ExecutionIds : executions[e].status = "RUNNING" ~> executions[e].status # "RUNNING"

-----------------------------------------------------------------------------
(* What the documentation promises and the code does not keep *)

\* ADR-127: once an approval is decided, the execution waiting for it goes on.
DecisionResumes ==
  \A a \in ApprovalIds :
    approvals[a].status \in Decisions
      ~> ~ \E e \in ExecutionIds :
             /\ approvals[a].execution = e
             /\ executions[e] = [status |-> "WAITING", node |-> approvals[a].node]
=============================================================================
