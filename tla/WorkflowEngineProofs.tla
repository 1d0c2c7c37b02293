------------------------ MODULE WorkflowEngineProofs ------------------------
(***************************************************************************)
(* For any graph, any number of processes, requests and jobs, and whatever *)
(* fails: the tables keep their types, a resolved approval has the vote    *)
(* for its status, and no vote is ever replaced.                           *)
(*                                                                         *)
(* The invariant types executions and steps, and has three parts that say  *)
(* more than a type.  VotesInv says what a decision under way              *)
(* may still believe of its approval: it exists, only one transaction at a *)
(* time holds its row, and the user of that one has not voted.  JobsInv    *)
(* and MemoryInv say what processors and interpreters hold: jobs that      *)
(* exist, executions and nodes of the right kind, and that a processor     *)
(* waits for the one interpreter it has called and no other.               *)
(***************************************************************************)
EXTENDS WorkflowEngine, FiniteSetTheorems, SequenceTheorems, TLAPS

-----------------------------------------------------------------------------
(* The inductive invariant *)

ExecutionsInv ==
  /\ executions \in [ExecutionIds -> ExecutionRow]
  /\ steps \in [ExecutionIds -> [Nodes -> Nat]]

Deciding == {"decide", "voted", "queued"}

VoteRequest ==
  [pc : Deciding, process : Processes, approval : ApprovalIds, user : Users,
   decision : Choices]

\* Votes are given to approvals that exist, and these belong to an execution.
ApprovalsAreRequested ==
  \A a \in ApprovalIds :
    /\ approvals[a].status = None => \A u \in Users : approvals[a].votes[u] = None
    /\ approvals[a].status # None => approvals[a].execution \in ExecutionIds

DecisionsAreOnApprovals ==
  \A w \in Workers :
    requests[w].pc \in Deciding =>
      /\ requests[w] \in VoteRequest
      /\ approvals[requests[w].approval].status # None

\* A transaction that holds an approval is alone, and its user has not voted.
OneTransaction ==
  \A v, w \in Workers :
    InTransaction(v) /\ InTransaction(w) /\ v # w
      => requests[v].approval # requests[w].approval

StillMayVote ==
  \A w \in Workers :
    InTransaction(w) => approvals[requests[w].approval].votes[requests[w].user] = None

VotesInv ==
  /\ approvals \in [ApprovalIds -> ApprovalRow]
  /\ DOMAIN requests = Workers
  /\ ApprovalsAreRequested
  /\ DecisionsAreOnApprovals
  /\ OneTransaction
  /\ StillMayVote
  /\ ResolvedByVote

\* A resume job names its execution.
ResumesAnExecution(job) == job.type = "WORKFLOW_RESUME" => job.execution \in ExecutionIds

JobsInv ==
  /\ jobs \in Seq(JobRow)
  /\ \A j \in DOMAIN jobs : ResumesAnExecution(jobs[j])

ProcessorRow ==
  [pc : {"idle", "next", "handle", "reject", "resume", "await", "returned", "threw"},
   batch : Seq(Nat)]

InterpreterRow ==
  [pc : {"idle", "read", "work", "fail", "wait", "asleep"},
   execution : ExecutionIds \cup {None}, node : Nodes \cup {None}, transitions : Nat,
   process : Processes \cup {None}, origin : {None, "start", "job", "timer"}]

\* A processor at work has a job, and its jobs exist.
BatchOK(p) ==
  processors[p].pc # "idle" =>
    /\ processors[p].batch # <<>>
    /\ \A k \in 1..Len(processors[p].batch) : processors[p].batch[k] \in 1..Len(jobs)

ResumesJob(p) ==
  processors[p].pc \in {"reject", "resume"} => jobs[Job(p)].type = "WORKFLOW_RESUME"

Called(i) == interpreters[i].pc # "idle" /\ interpreters[i].origin = "job"

InterpreterOK(i) ==
  /\ interpreters[i].pc # "idle" => interpreters[i].execution \in ExecutionIds
  /\ interpreters[i].pc \in {"work", "wait"} => interpreters[i].node \in Nodes
  /\ Called(i) => /\ interpreters[i].process \in Processes
                  /\ processors[interpreters[i].process].pc = "await"

\* A processor waits for one interpreter.
OneCalled ==
  \A i, j \in Interpreters :
    Called(i) /\ Called(j) /\ i # j => interpreters[i].process # interpreters[j].process

MemoryInv ==
  /\ processors \in [Processes -> ProcessorRow]
  /\ interpreters \in [Interpreters -> InterpreterRow]
  /\ \A p \in Processes : BatchOK(p) /\ ResumesJob(p)
  /\ \A i \in Interpreters : InterpreterOK(i)
  /\ OneCalled

IInv == ExecutionsInv /\ VotesInv /\ JobsInv /\ MemoryInv

-----------------------------------------------------------------------------
(* The invariant implies what is claimed *)

LEMMA InvImplies == IInv => TypeOK /\ ResolvedByVote
  BY DEF IInv, ExecutionsInv, VotesInv, JobsInv, TypeOK

LEMMA InitInv == Init => IInv
<1> SUFFICES ASSUME Init PROVE IInv
  OBVIOUS
<1>1. ExecutionsInv
  BY GraphAssumption DEF Init, ExecutionsInv, ExecutionRow, ExecutionStatus
<1>2. VotesInv
  <2>1. approvals \in [ApprovalIds -> ApprovalRow]
    BY DEF Init, NoApproval, ApprovalRow, ApprovalStatus
  <2>2. \A a \in ApprovalIds : approvals[a].status = None /\ \A u \in Users : approvals[a].votes[u] = None
    BY DEF Init, NoApproval
  <2>3. DOMAIN requests = Workers /\ \A w \in Workers : requests[w].pc = "idle"
    BY DEF Init, IdleRequest
  <2> QED
    BY <2>1, <2>2, <2>3 DEF VotesInv, ApprovalsAreRequested, DecisionsAreOnApprovals, Deciding,
       OneTransaction, StillMayVote, InTransaction, ResolvedByVote, Decisions, None
<1>3. JobsInv
  BY DEF Init, JobsInv
<1>4. MemoryInv
  BY DEF Init, MemoryInv, IdleProcessor, Unused, ProcessorRow, InterpreterRow, BatchOK,
     ResumesJob, InterpreterOK, OneCalled, Called, None
<1> QED
  BY <1>1, <1>2, <1>3, <1>4 DEF IInv

-----------------------------------------------------------------------------
(* Every step keeps the types of executions and steps *)

\* NextNodes leads to a node or to None.
LEMMA NextNodesAreNodes == \A n : NextNodes(n) \subseteq Nodes \cup {None}
  BY DEF NextNodes

LEMMA SetExecutionKeeps ==
  ASSUME ExecutionsInv, NEW e, NEW status \in ExecutionStatus, NEW node \in Nodes \cup {None}
  PROVE  /\ [executions EXCEPT ![e] = [status |-> status, node |-> node]]
              \in [ExecutionIds -> ExecutionRow]
         /\ [executions EXCEPT ![e].status = status] \in [ExecutionIds -> ExecutionRow]
  BY DEF ExecutionsInv, ExecutionRow

LEMMA MoveExecutionKeeps ==
  ASSUME ExecutionsInv, NEW e, NEW node \in Nodes \cup {None}
  PROVE  [executions EXCEPT ![e].node = node] \in [ExecutionIds -> ExecutionRow]
  BY DEF ExecutionsInv, ExecutionRow

LEMMA StatusesOfExecutions ==
  {"RUNNING", "WAITING", "COMPLETED", "FAILED", "CANCELLED"} \subseteq ExecutionStatus
  BY DEF ExecutionStatus, TerminalStatuses

LEMMA CreateExecutionKeeps ==
  ASSUME ExecutionsInv, NEW p, NEW e, CreateExecution(p, e)
  PROVE  executions' \in [ExecutionIds -> ExecutionRow]
  BY SetExecutionKeeps, StatusesOfExecutions, GraphAssumption
     DEF CreateExecution, SetExecution, ValidGraph

LEMMA ExecutionsKept == IInv /\ [Next]_vars => ExecutionsInv'
<1> SUFFICES ASSUME IInv, [Next]_vars PROVE ExecutionsInv'
  OBVIOUS
<1> ExecutionsInv
  BY DEF IInv
<1> USE DEF tables, memory
<1>u. ASSUME UNCHANGED <<executions, steps>> PROVE ExecutionsInv'
  BY <1>u DEF ExecutionsInv
<1>s. ASSUME executions' \in [ExecutionIds -> ExecutionRow], UNCHANGED steps PROVE ExecutionsInv'
  BY <1>s DEF ExecutionsInv
<1>1. ASSUME NEW p \in Processes, Ask(p) PROVE ExecutionsInv'
  <2>1. ASSUME NEW e \in ExecutionIds, StartExecution(p, e) PROVE ExecutionsInv'
    BY <2>1, <1>s, CreateExecutionKeeps DEF StartExecution
  <2>2. ASSUME NEW e \in ExecutionIds, NEW failed \in ExecutionIds, RetryExecution(p, e, failed)
        PROVE  ExecutionsInv'
    BY <2>2, <1>s, CreateExecutionKeeps DEF RetryExecution
  <2>3. CASE QueueExecution(p)
    BY <2>3, <1>u DEF QueueExecution
  <2>4. ASSUME NEW type, CreateOther(p, type) PROVE ExecutionsInv'
    BY <2>4, <1>u DEF CreateOther
  <2>5. ASSUME NEW w, NEW a, NEW u, NEW choice, BeginDecision(w, p, a, u, choice)
        PROVE  ExecutionsInv'
    BY <2>5, <1>u DEF BeginDecision
  <2> QED
    BY <1>1, <2>1, <2>2, <2>3, <2>4, <2>5 DEF Ask
<1>2. ASSUME NEW p \in Processes, Processor(p) PROVE ExecutionsInv'
  <2>1. CASE ListJobs(p) \/ DropTrigger(p) \/ MarkProcessing(p) \/ FailUnhandled(p)
    BY <2>1, <1>u DEF ListJobs, DropTrigger, MarkProcessing, FailUnhandled
  <2>2. CASE HandleOther(p) \/ ReadResume(p) \/ FinishJob(p)
    BY <2>2, <1>u DEF HandleOther, ReadResume, FinishJob
  <2>3. ASSUME NEW e \in ExecutionIds, HandleExecutionJob(p, e) PROVE ExecutionsInv'
    BY <2>3, <1>s, CreateExecutionKeeps DEF HandleExecutionJob
  <2>4. CASE Reject(p)
    BY <2>4, <1>s, SetExecutionKeeps, StatusesOfExecutions DEF Reject, FailExecution
  <2>5. CASE Resume(p)
    <3>1. PICK next \in Nodes \cup {None} : SetExecution(jobs[Job(p)].execution, "RUNNING", next)
      BY <2>5, NextNodesAreNodes DEF Resume, ResumeNodes
    <3> QED
      BY <2>5, <3>1, <1>s, SetExecutionKeeps, StatusesOfExecutions DEF Resume, SetExecution
  <2> QED
    BY <1>2, <2>1, <2>2, <2>3, <2>4, <2>5 DEF Processor
<1>3. ASSUME NEW w \in Workers, Begin(w) \/ Request(w) PROVE ExecutionsInv'
  <2>1. CASE Begin(w)
    BY <2>1, <1>u DEF Begin, BeginCancel, BeginCancelJob
  <2>2. CASE CancelExecution(w)
    BY <2>2, <1>s, SetExecutionKeeps, StatusesOfExecutions DEF CancelExecution
  <2>3. CASE CancelJob(w) \/ RecordVote(w) \/ RefuseVote(w) \/ QueueResume(w) \/ CommitDecision(w)
    BY <2>3, <1>u DEF CancelJob, RecordVote, RefuseVote, QueueResume, CommitDecision
  <2> QED
    BY <1>3, <2>1, <2>2, <2>3 DEF Request
<1>4. ASSUME NEW i \in Interpreters, Interpreter(i) PROVE ExecutionsInv'
  <2> USE SetExecutionKeeps, StatusesOfExecutions
  <2>1. CASE ReadNode(i)
    <3>1. interpreters[i].execution \in ExecutionIds
      BY <2>1 DEF IInv, MemoryInv, InterpreterOK, ReadNode
    <3>2. executions[interpreters[i].execution].node \in Nodes \cup {None}
      BY <3>1 DEF ExecutionsInv, ExecutionRow
    <3>3. steps' \in [ExecutionIds -> [Nodes -> Nat]]
      BY <2>1, <3>1, <3>2 DEF ReadNode, ExecutionsInv
    <3> QED
      BY <2>1, <3>3 DEF ReadNode, ExecutionsInv
  <2>2. CASE ReadStop(i)
    BY <2>2, <1>u DEF ReadStop
  <2>3. CASE GiveUp(i) \/ ActionFails(i)
    <3>1. FailExecution(interpreters[i].execution) /\ UNCHANGED steps
      BY <2>3 DEF GiveUp, ActionFails
    <3> QED
      BY <3>1, <1>s DEF FailExecution
  <2>4. CASE Advance(i)
    <3>1. /\ UNCHANGED steps
          /\ \/ CompleteExecution(interpreters[i].execution)
             \/ \E next \in Nodes \cup {None} :
                  executions' = [executions EXCEPT ![interpreters[i].execution].node = next]
      <4>1. \A next : next # None \/ next = None
        OBVIOUS
      <4> QED
        BY <2>4, <4>1, NextNodesAreNodes DEF Advance
    <3>2. CASE CompleteExecution(interpreters[i].execution)
      BY <3>1, <3>2, <1>s DEF CompleteExecution, SetExecution
    <3>3. ASSUME NEW next \in Nodes \cup {None},
                 executions' = [executions EXCEPT ![interpreters[i].execution].node = next]
          PROVE  ExecutionsInv'
      BY <3>1, <3>3, <1>s, MoveExecutionKeeps
    <3> QED
      BY <3>1, <3>2, <3>3
  <2>5. CASE End(i)
    BY <2>5, <1>s DEF End, CompleteExecution, SetExecution
  <2>6. ASSUME NEW a \in ApprovalIds, RequestApproval(i, a) PROVE ExecutionsInv'
    BY <2>6, <1>u DEF RequestApproval
  <2>7. CASE WaitForApproval(i) \/ Delay(i)
    <3>1. SetWaiting(interpreters[i].execution) /\ UNCHANGED steps
      BY <2>7 DEF WaitForApproval, Delay
    <3> QED
      BY <3>1, <1>s DEF SetWaiting
  <2>8. CASE Wake(i)
    <3>1. interpreters[i].node \in Nodes \cup {None}
      BY DEF IInv, MemoryInv, InterpreterRow
    <3> QED
      BY <2>8, <3>1, <1>s DEF Wake, SetExecution
  <2> QED
    BY <1>4, <2>1, <2>2, <2>3, <2>4, <2>5, <2>6, <2>7, <2>8 DEF Interpreter
<1>5. CASE Fault
  BY <1>5, <1>u DEF Fault, Crash, AbandonBatch, HandlerThrows, Throw, RollBack
<1>6. CASE UNCHANGED vars
  BY <1>6, <1>u DEF vars
<1> QED
  BY <1>1, <1>2, <1>3, <1>4, <1>5, <1>6 DEF Next

-----------------------------------------------------------------------------
(* Every step keeps approvals and the decisions under way *)

\* Requests other than decisions may come and go.
LEMMA OtherRequests ==
  ASSUME VotesInv, UNCHANGED approvals, DOMAIN requests' = Workers,
         \A w \in Workers : requests'[w] = requests[w] \/ requests'[w].pc \notin Deciding
  PROVE  VotesInv'
<1>1. ApprovalsAreRequested' /\ ResolvedByVote'
  BY DEF VotesInv, ApprovalsAreRequested, ResolvedByVote
<1>2. DecisionsAreOnApprovals'
  BY DEF VotesInv, DecisionsAreOnApprovals
<1>3. \A w \in Workers : InTransaction(w)' => requests'[w] = requests[w] /\ InTransaction(w)
  BY DEF InTransaction, Deciding
<1>4. OneTransaction' /\ StillMayVote'
  BY <1>3 DEF VotesInv, OneTransaction, StillMayVote
<1> QED
  BY <1>1, <1>2, <1>4 DEF VotesInv

\* One request replaced by something that is no decision.
LEMMA RequestDone ==
  ASSUME VotesInv, UNCHANGED approvals, NEW w \in Workers, NEW r, r.pc \notin Deciding,
         requests' = [requests EXCEPT ![w] = r]
  PROVE  VotesInv'
  BY OtherRequests DEF VotesInv

LEMMA BeginDecisionKeeps ==
  ASSUME VotesInv, NEW w \in Workers, NEW p \in Processes, NEW a \in ApprovalIds,
         NEW u \in Users, NEW choice \in Choices, BeginDecision(w, p, a, u, choice)
  PROVE  VotesInv'
<1> DEFINE r == [pc |-> "decide", process |-> p, approval |-> a, user |-> u, decision |-> choice]
<1>1. r \in VoteRequest /\ r.pc = "decide"
  BY DEF VoteRequest, Deciding
<1>2. /\ UNCHANGED approvals /\ DOMAIN requests' = Workers
      /\ requests'[w] = r /\ \A v \in Workers \ {w} : requests'[v] = requests[v]
  BY DEF BeginDecision, VotesInv, tables
<1>3. approvals[r.approval].status # None
  BY DEF BeginDecision, None
<1> HIDE DEF r
<1>4. DecisionsAreOnApprovals'
  BY <1>1, <1>2, <1>3 DEF VotesInv, DecisionsAreOnApprovals
<1>5. \A v \in Workers : InTransaction(v)' => requests'[v] = requests[v] /\ InTransaction(v)
  BY <1>1, <1>2 DEF InTransaction
<1> QED
  BY <1>2, <1>4, <1>5 DEF VotesInv, ApprovalsAreRequested, ResolvedByVote, OneTransaction, StillMayVote

\* A request goes on, to "voted" or "queued", as the only transaction on its
\* approval and with its user still without a vote.
LEMMA TransactionKeeps ==
  ASSUME VotesInv, NEW w \in Workers, requests[w].pc \in Deciding,
         NEW pc \in {"voted", "queued"}, requests' = [requests EXCEPT ![w].pc = pc],
         UNCHANGED approvals,
         ~LockedElsewhere(w, requests[w].approval),
         MayVote(requests[w].approval, requests[w].user)
  PROVE  VotesInv'
<1>1. requests[w] \in VoteRequest
  BY DEF VotesInv, DecisionsAreOnApprovals
<1>2. /\ DOMAIN requests' = Workers
      /\ \A v \in Workers \ {w} : requests'[v] = requests[v]
  BY DEF VotesInv
<1>3. /\ requests'[w] \in VoteRequest /\ requests'[w].pc = pc
      /\ requests'[w].approval = requests[w].approval
      /\ requests'[w].user = requests[w].user
  BY <1>1 DEF VotesInv, VoteRequest, Deciding
<1>4. DecisionsAreOnApprovals'
  BY <1>2, <1>3 DEF VotesInv, DecisionsAreOnApprovals
<1>5. OneTransaction'
  BY <1>2, <1>3 DEF VotesInv, OneTransaction, InTransaction, LockedElsewhere
<1>6. StillMayVote'
  BY <1>2, <1>3 DEF VotesInv, StillMayVote, InTransaction, MayVote
<1> QED
  BY <1>2, <1>4, <1>5, <1>6 DEF VotesInv, ApprovalsAreRequested, ResolvedByVote

LEMMA QueueResumeKeeps ==
  ASSUME VotesInv, NEW w \in Workers, QueueResume(w)
  PROVE  VotesInv'
<1>1. InTransaction(w) /\ requests[w].pc \in Deciding
  BY DEF QueueResume, InTransaction, Deciding
<1>2. ~LockedElsewhere(w, requests[w].approval)
  BY <1>1 DEF VotesInv, OneTransaction, LockedElsewhere
<1>3. MayVote(requests[w].approval, requests[w].user)
  BY <1>1 DEF VotesInv, StillMayVote, MayVote
<1> QED
  BY <1>1, <1>2, <1>3, TransactionKeeps DEF QueueResume

\* What a commit does to the tables.
LEMMA Committed ==
  ASSUME VotesInv, NEW w \in Workers, CommitDecision(w),
         NEW a, a = requests[w].approval, NEW u, u = requests[w].user
  PROVE  /\ a \in ApprovalIds /\ u \in Users /\ requests[w].decision \in Choices
         /\ InTransaction(w)
         /\ approvals[a].status # None /\ approvals[a].votes[u] = None
         /\ approvals' = [approvals EXCEPT ![a].status = NextStatus(requests[w]),
                                           ![a].votes[u] = requests[w].decision]
         /\ NextStatus(requests[w]) \in Decisions => NextStatus(requests[w]) = requests[w].decision
         /\ NextStatus(requests[w]) \in {"PENDING"} \cup Decisions
<1>1. InTransaction(w) /\ requests[w].pc \in Deciding
  BY DEF CommitDecision, InTransaction, Deciding
<1>2. requests[w] \in VoteRequest /\ approvals[a].status # None
  BY <1>1 DEF VotesInv, DecisionsAreOnApprovals
<1>3. approvals[a].votes[u] = None
  BY <1>1 DEF VotesInv, StillMayVote
<1> QED
  BY <1>1, <1>2, <1>3 DEF CommitDecision, VoteRequest, NextStatus, Decisions, Choices

LEMMA CommitDecisionKeeps ==
  ASSUME VotesInv, NEW w \in Workers, CommitDecision(w)
  PROVE  VotesInv'
<1> DEFINE a == requests[w].approval
           u == requests[w].user
           r == requests[w]
<1>1. /\ a \in ApprovalIds /\ u \in Users /\ r.decision \in Choices /\ InTransaction(w)
      /\ approvals[a].status # None
      /\ approvals' = [approvals EXCEPT ![a].status = NextStatus(r), ![a].votes[u] = r.decision]
      /\ NextStatus(r) \in Decisions => NextStatus(r) = r.decision
      /\ NextStatus(r) \in {"PENDING"} \cup Decisions
  BY Committed
<1>2. /\ DOMAIN requests' = Workers /\ requests'[w].pc = "idle"
      /\ \A v \in Workers \ {w} : requests'[v] = requests[v]
  BY DEF CommitDecision, IdleRequest, VotesInv
<1>3. approvals[a] \in ApprovalRow /\ approvals \in [ApprovalIds -> ApprovalRow]
  BY <1>1 DEF VotesInv
<1> HIDE DEF a, u, r
<1>4. approvals' \in [ApprovalIds -> ApprovalRow]
  BY <1>1, <1>3 DEF ApprovalRow, ApprovalStatus, Choices, Decisions
<1>5. /\ approvals'[a].status = NextStatus(r)
      /\ approvals'[a].execution = approvals[a].execution
      /\ approvals'[a].votes[u] = r.decision
      /\ \A b \in ApprovalIds \ {a} : approvals'[b] = approvals[b]
  BY <1>1, <1>3 DEF ApprovalRow
<1>6. NextStatus(r) # None
  BY <1>1 DEF Decisions, None
<1>7. ApprovalsAreRequested'
  BY <1>1, <1>5, <1>6 DEF VotesInv, ApprovalsAreRequested
<1>8. ResolvedByVote'
  BY <1>1, <1>5 DEF VotesInv, ResolvedByVote
<1>9. DecisionsAreOnApprovals'
  BY <1>2, <1>5, <1>6 DEF VotesInv, DecisionsAreOnApprovals, Deciding, VoteRequest
<1>10. \A v \in Workers : InTransaction(v)' =>
         v # w /\ requests'[v] = requests[v] /\ InTransaction(v) /\ requests[v].approval # a
  BY <1>1, <1>2 DEF InTransaction, VotesInv, OneTransaction, a
<1>11. OneTransaction'
  BY <1>10 DEF VotesInv, OneTransaction
<1>12. StillMayVote'
  <2> SUFFICES ASSUME NEW v \in Workers, InTransaction(v)'
               PROVE  approvals'[requests'[v].approval].votes[requests'[v].user] = None
    BY DEF StillMayVote
  <2>1. requests[v] \in VoteRequest
    BY <1>10 DEF VotesInv, DecisionsAreOnApprovals, InTransaction, Deciding
  <2> QED
    BY <2>1, <1>5, <1>10 DEF VotesInv, StillMayVote, VoteRequest
<1> QED
  BY <1>2, <1>4, <1>7, <1>8, <1>9, <1>11, <1>12 DEF VotesInv

LEMMA RequestApprovalKeeps ==
  ASSUME VotesInv, MemoryInv, NEW i \in Interpreters, NEW a \in ApprovalIds, RequestApproval(i, a)
  PROVE  VotesInv'
<1>1. interpreters[i].execution \in ExecutionIds /\ interpreters[i].node \in Nodes
  BY DEF RequestApproval, At, MemoryInv, InterpreterOK
<1>2. /\ approvals'[a].status = "PENDING" /\ approvals'[a].execution = interpreters[i].execution
      /\ approvals'[a].votes = [u \in Users |-> None]
      /\ \A b \in ApprovalIds \ {a} : approvals'[b] = approvals[b]
      /\ approvals' \in [ApprovalIds -> ApprovalRow]
  BY <1>1 DEF RequestApproval, VotesInv, NoApproval, ApprovalRow, ApprovalStatus
<1>3. UNCHANGED requests /\ approvals[a].status = None
  BY DEF RequestApproval
<1>4. \A w \in Workers : requests[w].pc \in Deciding =>
         requests[w].approval \in ApprovalIds \ {a}
  BY <1>3 DEF VotesInv, DecisionsAreOnApprovals, VoteRequest
<1>5. ApprovalsAreRequested' /\ ResolvedByVote'
  BY <1>1, <1>2 DEF VotesInv, ApprovalsAreRequested, ResolvedByVote, Decisions, None
<1>6. DecisionsAreOnApprovals'
  BY <1>2, <1>3, <1>4 DEF VotesInv, DecisionsAreOnApprovals
<1>7. OneTransaction' /\ StillMayVote'
  BY <1>2, <1>3, <1>4 DEF VotesInv, OneTransaction, StillMayVote, InTransaction, Deciding
<1> QED
  BY <1>2, <1>3, <1>5, <1>6, <1>7 DEF VotesInv

LEMMA VotesKept == IInv /\ [Next]_vars => VotesInv'
<1> SUFFICES ASSUME IInv, [Next]_vars PROVE VotesInv'
  OBVIOUS
<1> VotesInv /\ MemoryInv
  BY DEF IInv
<1> USE DEF tables, memory
<1>u. ASSUME UNCHANGED <<approvals, requests>> PROVE VotesInv'
  BY <1>u, OtherRequests DEF VotesInv
<1>1. ASSUME NEW p \in Processes, Ask(p) PROVE VotesInv'
  <2>1. ASSUME NEW e \in ExecutionIds, NEW failed \in ExecutionIds,
               StartExecution(p, e) \/ RetryExecution(p, e, failed)
        PROVE  VotesInv'
    BY <2>1, <1>u DEF StartExecution, RetryExecution
  <2>2. CASE QueueExecution(p)
    BY <2>2, <1>u DEF QueueExecution
  <2>3. ASSUME NEW type, CreateOther(p, type) PROVE VotesInv'
    BY <2>3, <1>u DEF CreateOther
  <2>4. ASSUME NEW w \in Workers, NEW a \in ApprovalIds, NEW u \in Users, NEW choice \in Choices,
               BeginDecision(w, p, a, u, choice)
        PROVE  VotesInv'
    BY <2>4, BeginDecisionKeeps
  <2> QED
    BY <1>1, <2>1, <2>2, <2>3, <2>4 DEF Ask
<1>2. ASSUME NEW p \in Processes, Processor(p) PROVE VotesInv'
  <2>1. CASE ListJobs(p) \/ DropTrigger(p) \/ MarkProcessing(p) \/ FailUnhandled(p)
    BY <2>1, <1>u DEF ListJobs, DropTrigger, MarkProcessing, FailUnhandled
  <2>2. CASE HandleOther(p) \/ ReadResume(p) \/ FinishJob(p) \/ Reject(p) \/ Resume(p)
    BY <2>2, <1>u DEF HandleOther, ReadResume, FinishJob, Reject, Resume
  <2>3. ASSUME NEW e \in ExecutionIds, HandleExecutionJob(p, e) PROVE VotesInv'
    BY <2>3, <1>u DEF HandleExecutionJob
  <2> QED
    BY <1>2, <2>1, <2>2, <2>3 DEF Processor
<1>3. ASSUME NEW w \in Workers, Begin(w) \/ Request(w) PROVE VotesInv'
  <2>1. ASSUME NEW e, BeginCancel(w, e) PROVE VotesInv'
    BY <2>1, RequestDone DEF BeginCancel, Deciding
  <2>2. ASSUME NEW j, BeginCancelJob(w, j) PROVE VotesInv'
    BY <2>2, RequestDone DEF BeginCancelJob, Deciding
  <2>3. CASE CancelExecution(w) \/ CancelJob(w) \/ RefuseVote(w)
    BY <2>3, RequestDone DEF CancelExecution, CancelJob, RefuseVote, IdleRequest, Deciding
  <2>4. CASE RecordVote(w)
    BY <2>4, TransactionKeeps DEF RecordVote, Deciding
  <2>5. CASE QueueResume(w)
    BY <2>5, QueueResumeKeeps
  <2>6. CASE CommitDecision(w)
    BY <2>6, CommitDecisionKeeps
  <2> QED
    BY <1>3, <2>1, <2>2, <2>3, <2>4, <2>5, <2>6 DEF Begin, Request
<1>4. ASSUME NEW i \in Interpreters, Interpreter(i) PROVE VotesInv'
  <2>1. CASE ReadNode(i) \/ ReadStop(i) \/ GiveUp(i) \/ Advance(i) \/ ActionFails(i)
    BY <2>1, <1>u DEF ReadNode, ReadStop, GiveUp, Advance, ActionFails
  <2>2. CASE End(i) \/ WaitForApproval(i) \/ Delay(i) \/ Wake(i)
    BY <2>2, <1>u DEF End, WaitForApproval, Delay, Wake
  <2>3. ASSUME NEW a \in ApprovalIds, RequestApproval(i, a) PROVE VotesInv'
    BY <2>3, RequestApprovalKeeps
  <2> QED
    BY <1>4, <2>1, <2>2, <2>3 DEF Interpreter
<1>5. CASE Fault
  <2>1. ASSUME NEW p \in Processes, Crash(p) PROVE VotesInv'
    BY <2>1, OtherRequests DEF Crash, IdleRequest, Deciding
  <2>2. ASSUME NEW p \in Processes, AbandonBatch(p) \/ HandlerThrows(p) PROVE VotesInv'
    BY <2>2, <1>u DEF AbandonBatch, HandlerThrows
  <2>3. ASSUME NEW i \in Interpreters, Throw(i) PROVE VotesInv'
    BY <2>3, <1>u DEF Throw
  <2>4. ASSUME NEW w \in Workers, RollBack(w) PROVE VotesInv'
    BY <2>4, RequestDone DEF RollBack, IdleRequest, Deciding
  <2> QED
    BY <1>5, <2>1, <2>2, <2>3, <2>4 DEF Fault
<1>6. CASE UNCHANGED vars
  BY <1>6, <1>u DEF vars
<1> QED
  BY <1>1, <1>2, <1>3, <1>4, <1>5, <1>6 DEF Next

-----------------------------------------------------------------------------
(* Every step keeps the jobs: they are appended or change their status *)

JobsGrow ==
  /\ Len(jobs) <= Len(jobs')
  /\ \A j \in 1..Len(jobs) : jobs'[j].type = jobs[j].type

LEMMA JobsSame ==
  ASSUME JobsInv, UNCHANGED jobs
  PROVE  JobsInv' /\ JobsGrow
  BY DEF JobsInv, JobsGrow, ResumesAnExecution

LEMMA StatusKeeps ==
  ASSUME JobsInv, NEW j, NEW status \in JobStatus, jobs' = [jobs EXCEPT ![j].status = status]
  PROVE  JobsInv' /\ JobsGrow
<1>1. /\ DOMAIN jobs' = DOMAIN jobs /\ DOMAIN jobs = 1..Len(jobs) /\ Len(jobs) \in Nat
      /\ jobs \in [1..Len(jobs) -> JobRow]
  BY DEF JobsInv
<1>2. \A k \in 1..Len(jobs) : /\ jobs'[k] \in JobRow
                             /\ jobs'[k].type = jobs[k].type
                             /\ jobs'[k].execution = jobs[k].execution
  BY <1>1 DEF JobRow
<1>3. jobs' \in [1..Len(jobs) -> JobRow]
  BY <1>1, <1>2
<1>4. jobs' \in Seq(JobRow) /\ Len(jobs') = Len(jobs)
  BY <1>1, <1>3
<1> QED
  BY <1>1, <1>2, <1>4 DEF JobsInv, JobsGrow, ResumesAnExecution

LEMMA CreateJobKeeps ==
  ASSUME JobsInv, NEW p, NEW job \in JobRow, ResumesAnExecution(job), CreateJob(p, job)
  PROVE  JobsInv' /\ JobsGrow
<1>1. jobs' = Append(jobs, job) /\ jobs \in Seq(JobRow)
  BY DEF CreateJob, JobsInv
<1>2. jobs' \in Seq(JobRow) /\ Len(jobs') = Len(jobs) + 1 /\ Len(jobs) \in Nat
  BY <1>1
<1>3. /\ \A j \in 1..Len(jobs) : jobs'[j] = jobs[j]
      /\ jobs'[Len(jobs) + 1] = job
  BY <1>1
<1> QED
  BY <1>2, <1>3 DEF JobsInv, JobsGrow, ResumesAnExecution

LEMMA NewJobIsRow ==
  ASSUME NEW type \in JobTypes, NEW priority \in 0..2
  PROVE  NewJob(type, priority) \in JobRow
  BY DEF NewJob, JobRow, JobStatus

LEMMA QueueResumeCreates ==
  ASSUME VotesInv, JobsInv, NEW w \in Workers, QueueResume(w)
  PROVE  JobsInv' /\ JobsGrow
<1> DEFINE r == requests[w]
           e == approvals[r.approval].execution
           n == approvals[r.approval].node
           d == NextStatus(r)
           job == [NewJob("WORKFLOW_RESUME", 2) EXCEPT !.execution = e, !.node = n, !.decision = d]
<1>1. r \in VoteRequest /\ approvals[r.approval].status # None /\ r.decision \in Decisions
  BY DEF QueueResume, VotesInv, DecisionsAreOnApprovals, Deciding
<1>2. e \in ExecutionIds /\ n \in Nodes \cup {None} /\ d \in Decisions
  BY <1>1 DEF VotesInv, ApprovalsAreRequested, ApprovalRow, VoteRequest, NextStatus
<1>3. job \in JobRow /\ ResumesAnExecution(job)
  <2> DEFINE new == NewJob("WORKFLOW_RESUME", 2)
  <2>1. new \in JobRow /\ new.type = "WORKFLOW_RESUME"
    BY NewJobIsRow DEF JobTypes, NewJob
  <2> HIDE DEF e, n, d, new
  <2>2. job = [new EXCEPT !.execution = e, !.node = n, !.decision = d]
    BY DEF new
  <2> HIDE DEF job
  <2> QED
    BY <1>2, <2>1, <2>2 DEF JobRow, ResumesAnExecution
<1>4. CreateJob(r.process, job)
  BY DEF QueueResume
<1> QED
  BY <1>3, <1>4, CreateJobKeeps

LEMMA JobsKept == IInv /\ [Next]_vars => JobsInv' /\ JobsGrow
<1> SUFFICES ASSUME IInv, [Next]_vars PROVE JobsInv' /\ JobsGrow
  OBVIOUS
<1> JobsInv /\ VotesInv
  BY DEF IInv
<1> USE DEF tables, memory
<1>u. ASSUME UNCHANGED jobs PROVE JobsInv' /\ JobsGrow
  BY <1>u, JobsSame
<1>1. ASSUME NEW p \in Processes, Ask(p) PROVE JobsInv' /\ JobsGrow
  <2>1. ASSUME NEW e \in ExecutionIds, NEW failed \in ExecutionIds,
               StartExecution(p, e) \/ RetryExecution(p, e, failed)
        PROVE  JobsInv' /\ JobsGrow
    BY <2>1, <1>u DEF StartExecution, RetryExecution
  <2>2. CASE QueueExecution(p)
    <3>1. PICK priority \in {1, 2} : CreateJob(p, NewJob("WORKFLOW_EXECUTION", priority))
      BY <2>2 DEF QueueExecution
    <3>2. /\ NewJob("WORKFLOW_EXECUTION", priority) \in JobRow
          /\ ResumesAnExecution(NewJob("WORKFLOW_EXECUTION", priority))
      BY NewJobIsRow DEF JobTypes, ResumesAnExecution, NewJob
    <3> QED
      BY <3>1, <3>2, CreateJobKeeps
  <2>3. ASSUME NEW type \in {"REGISTERED", "UNREGISTERED"}, CreateOther(p, type)
        PROVE  JobsInv' /\ JobsGrow
    <3>1. NewJob(type, 0) \in JobRow /\ ResumesAnExecution(NewJob(type, 0))
      BY NewJobIsRow DEF JobTypes, ResumesAnExecution, NewJob
    <3> QED
      BY <2>3, <3>1, CreateJobKeeps DEF CreateOther
  <2>4. ASSUME NEW w, NEW a, NEW u, NEW choice, BeginDecision(w, p, a, u, choice)
        PROVE  JobsInv' /\ JobsGrow
    BY <2>4, <1>u DEF BeginDecision
  <2> QED
    BY <1>1, <2>1, <2>2, <2>3, <2>4 DEF Ask
<1>2. ASSUME NEW p \in Processes, Processor(p) PROVE JobsInv' /\ JobsGrow
  <2>1. CASE MarkProcessing(p) \/ FailUnhandled(p) \/ FinishJob(p)
    <3>1. PICK status \in JobStatus : SetJob(p, status)
      BY <2>1 DEF MarkProcessing, FailUnhandled, FinishJob, JobStatus
    <3> QED
      BY <3>1, StatusKeeps DEF SetJob
  <2>2. CASE ListJobs(p) \/ DropTrigger(p) \/ HandleOther(p) \/ ReadResume(p)
    BY <2>2, <1>u DEF ListJobs, DropTrigger, HandleOther, ReadResume
  <2>3. CASE Reject(p) \/ Resume(p)
    BY <2>3, <1>u DEF Reject, Resume
  <2>4. ASSUME NEW e \in ExecutionIds, HandleExecutionJob(p, e) PROVE JobsInv' /\ JobsGrow
    BY <2>4, <1>u DEF HandleExecutionJob
  <2> QED
    BY <1>2, <2>1, <2>2, <2>3, <2>4 DEF Processor
<1>3. ASSUME NEW w \in Workers, Begin(w) \/ Request(w) PROVE JobsInv' /\ JobsGrow
  <2>1. CASE Begin(w)
    BY <2>1, <1>u DEF Begin, BeginCancel, BeginCancelJob
  <2>2. CASE CancelJob(w)
    BY <2>2, StatusKeeps DEF CancelJob, JobStatus
  <2>3. CASE QueueResume(w)
    BY <2>3, QueueResumeCreates
  <2>4. CASE CancelExecution(w) \/ RecordVote(w) \/ RefuseVote(w) \/ CommitDecision(w)
    BY <2>4, <1>u DEF CancelExecution, RecordVote, RefuseVote, CommitDecision
  <2> QED
    BY <1>3, <2>1, <2>2, <2>3, <2>4 DEF Request
<1>4. ASSUME NEW i \in Interpreters, Interpreter(i) PROVE JobsInv' /\ JobsGrow
  <2>1. CASE ReadNode(i) \/ ReadStop(i) \/ GiveUp(i) \/ Advance(i) \/ ActionFails(i)
    BY <2>1, <1>u DEF ReadNode, ReadStop, GiveUp, Advance, ActionFails
  <2>2. CASE End(i) \/ WaitForApproval(i) \/ Delay(i) \/ Wake(i)
    BY <2>2, <1>u DEF End, WaitForApproval, Delay, Wake
  <2>3. ASSUME NEW a \in ApprovalIds, RequestApproval(i, a) PROVE JobsInv' /\ JobsGrow
    BY <2>3, <1>u DEF RequestApproval
  <2> QED
    BY <1>4, <2>1, <2>2, <2>3 DEF Interpreter
<1>5. CASE Fault
  BY <1>5, <1>u DEF Fault, Crash, AbandonBatch, HandlerThrows, Throw, RollBack
<1>6. CASE UNCHANGED vars
  BY <1>6, <1>u DEF vars
<1> QED
  BY <1>1, <1>2, <1>3, <1>4, <1>5, <1>6 DEF Next

-----------------------------------------------------------------------------
(* Every step keeps processors and interpreters *)

\* The job of a processor at work exists.
LEMMA JobExists ==
  ASSUME MemoryInv, NEW p \in Processes, processors[p].pc # "idle"
  PROVE  /\ processors[p].batch \in Seq(Nat) /\ processors[p].batch # <<>>
         /\ Job(p) = processors[p].batch[1] /\ Job(p) \in 1..Len(jobs)
  BY DEF MemoryInv, ProcessorRow, BatchOK, Job

\* What is the same in all steps but Resume, which is the only one after which
\* a processor waits for an interpreter that it did not wait for before.
LEMMA MemoryStep ==
  ASSUME MemoryInv, JobsGrow,
         processors' \in [Processes -> ProcessorRow],
         interpreters' \in [Interpreters -> InterpreterRow],
         \A p \in Processes :
           processors'[p] = processors[p] \/ (BatchOK(p)' /\ ResumesJob(p)'),
         \A i \in Interpreters :
           interpreters'[i] = interpreters[i] \/
             /\ interpreters'[i].pc # "idle" => interpreters'[i].execution \in ExecutionIds
             /\ interpreters'[i].pc \in {"work", "wait"} => interpreters'[i].node \in Nodes,
         \A i \in Interpreters :
           Called(i)' =>
             /\ Called(i) /\ interpreters'[i].process = interpreters[i].process
             /\ processors'[interpreters[i].process].pc = processors[interpreters[i].process].pc
  PROVE  MemoryInv'
<1>1. ASSUME NEW p \in Processes PROVE BatchOK(p)' /\ ResumesJob(p)'
  <2> SUFFICES ASSUME processors'[p] = processors[p], processors[p].pc # "idle"
               PROVE  BatchOK(p)' /\ ResumesJob(p)'
    BY DEF BatchOK, ResumesJob
  <2>1. BatchOK(p)'
    <3>1. BatchOK(p) /\ processors[p].batch \in Seq(Nat)
      BY DEF MemoryInv, ProcessorRow
    <3>2. 1..Len(jobs) \subseteq 1..Len(jobs')
      BY DEF JobsGrow
    <3> QED
      BY <3>1, <3>2 DEF BatchOK
  <2>2. Job(p)' = Job(p) /\ Job(p) \in 1..Len(jobs)
    BY JobExists DEF Job
  <2> QED
    BY <2>1, <2>2 DEF ResumesJob, JobsGrow, MemoryInv
<1>2. ASSUME NEW i \in Interpreters PROVE InterpreterOK(i)'
  BY DEF MemoryInv, InterpreterOK, Called
<1>3. OneCalled'
  BY DEF MemoryInv, OneCalled
<1> QED
  BY <1>1, <1>2, <1>3 DEF MemoryInv

LEMMA MemorySame ==
  ASSUME MemoryInv, JobsGrow, UNCHANGED <<processors, interpreters>>
  PROVE  MemoryInv'
  BY MemoryStep DEF MemoryInv, Called

\* A processor that waits for no interpreter goes on.
LEMMA ProcessorStep ==
  ASSUME MemoryInv, JobsGrow, NEW p \in Processes, processors[p].pc # "await",
         NEW row \in ProcessorRow, processors' = [processors EXCEPT ![p] = row],
         BatchOK(p)', ResumesJob(p)', UNCHANGED interpreters
  PROVE  MemoryInv'
<1>1. /\ processors' \in [Processes -> ProcessorRow]
      /\ \A q \in Processes \ {p} : processors'[q] = processors[q]
  BY DEF MemoryInv
<1>2. \A i \in Interpreters :
        Called(i)' => /\ Called(i) /\ interpreters'[i].process = interpreters[i].process
                      /\ interpreters[i].process \in Processes \ {p}
  BY DEF Called, MemoryInv, InterpreterOK
<1>3. interpreters' \in [Interpreters -> InterpreterRow]
  BY DEF MemoryInv
<1> QED
  BY <1>1, <1>2, <1>3, MemoryStep

\* An interpreter goes on, awaited by whom it was.
LEMMA InterpreterStep ==
  ASSUME MemoryInv, JobsGrow, NEW i \in Interpreters, NEW row \in InterpreterRow,
         interpreters' = [interpreters EXCEPT ![i] = row], UNCHANGED processors,
         row.pc # "idle" => row.execution \in ExecutionIds,
         row.pc \in {"work", "wait"} => row.node \in Nodes,
         row.pc # "idle" /\ row.origin = "job" =>
           Called(i) /\ row.process = interpreters[i].process
  PROVE  MemoryInv'
<1>1. /\ interpreters' \in [Interpreters -> InterpreterRow] /\ interpreters'[i] = row
      /\ \A j \in Interpreters \ {i} : interpreters'[j] = interpreters[j]
  BY DEF MemoryInv
<1>2. \A j \in Interpreters :
        Called(j)' => Called(j) /\ interpreters'[j].process = interpreters[j].process
  BY <1>1 DEF Called
<1>3. processors' \in [Processes -> ProcessorRow]
  BY DEF MemoryInv
<1> QED
  BY <1>1, <1>2, <1>3, MemoryStep

\* An interpreter lets go of the processor that awaits it.
LEMMA ReleaseStep ==
  ASSUME MemoryInv, JobsGrow, NEW i \in Interpreters, interpreters[i].pc # "idle",
         NEW row \in InterpreterRow, NEW pc \in {"returned", "threw"},
         interpreters' = [interpreters EXCEPT ![i] = row], Awaiting(i, pc),
         row.pc # "idle" => row.execution \in ExecutionIds,
         row.pc \notin {"work", "wait"},
         row.pc = "idle" \/ row.origin # "job"
  PROVE  MemoryInv'
<1>1. /\ interpreters' \in [Interpreters -> InterpreterRow] /\ interpreters'[i] = row
      /\ \A j \in Interpreters \ {i} : interpreters'[j] = interpreters[j]
  BY DEF MemoryInv
<1>2. \A j \in Interpreters :
        Called(j)' => /\ j # i /\ Called(j)
                      /\ interpreters'[j].process = interpreters[j].process
  BY <1>1 DEF Called
<1>3. CASE interpreters[i].origin # "job"
  <2>1. UNCHANGED processors
    BY <1>3 DEF Awaiting
  <2>2. processors' \in [Processes -> ProcessorRow]
    BY <2>1 DEF MemoryInv
  <2> QED
    BY <1>1, <1>2, <2>1, <2>2, MemoryStep
<1>4. CASE interpreters[i].origin = "job"
  <2>p. PICK p : p = interpreters[i].process
    OBVIOUS
  <2>1. Called(i) /\ p \in Processes /\ processors[p].pc = "await"
    BY <1>4, <2>p DEF Called, MemoryInv, InterpreterOK
  <2>2. processors' = [processors EXCEPT ![p].pc = pc]
    BY <1>4, <2>p DEF Awaiting
  <2>3. /\ processors' \in [Processes -> ProcessorRow]
        /\ processors'[p].pc = pc /\ processors'[p].batch = processors[p].batch
        /\ \A q \in Processes \ {p} : processors'[q] = processors[q]
    BY <2>1, <2>2 DEF MemoryInv, ProcessorRow
  <2>4. BatchOK(p)' /\ ResumesJob(p)'
    <3>1. BatchOK(p) /\ processors[p].batch \in Seq(Nat)
      BY <2>1 DEF MemoryInv, ProcessorRow
    <3>2. 1..Len(jobs) \subseteq 1..Len(jobs')
      BY DEF JobsGrow
    <3> QED
      BY <2>1, <2>3, <3>1, <3>2 DEF BatchOK, ResumesJob
  <2>5. \A j \in Interpreters : Called(j)' => interpreters[j].process \in Processes \ {p}
    BY <1>2, <2>p, <2>1 DEF MemoryInv, OneCalled, InterpreterOK
  <2> QED
    BY <1>1, <1>2, <2>3, <2>4, <2>5, MemoryStep
<1> QED
  BY <1>3, <1>4

\* A processor goes on with its job.
LEMMA ProcessorGoesOn ==
  ASSUME MemoryInv, JobsGrow, NEW p \in Processes, processors[p].pc \notin {"idle", "await"},
         NEW pc \in {"handle", "reject", "resume", "returned", "threw"},
         pc \in {"reject", "resume"} => jobs[Job(p)].type = "WORKFLOW_RESUME",
         processors' = [processors EXCEPT ![p].pc = pc]
  PROVE  /\ processors' \in [Processes -> ProcessorRow]
         /\ \A q \in Processes \ {p} : processors'[q] = processors[q]
         /\ BatchOK(p)' /\ ResumesJob(p)'
         /\ UNCHANGED interpreters => MemoryInv'
<1> DEFINE row == [processors[p] EXCEPT !.pc = pc]
<1>1. /\ processors[p] \in ProcessorRow
      /\ row \in ProcessorRow /\ row.pc = pc /\ row.batch = processors[p].batch
      /\ processors' = [processors EXCEPT ![p] = row]
  BY DEF MemoryInv, ProcessorRow
<1>2. processors'[p].pc = pc /\ processors'[p].batch = processors[p].batch
  BY <1>1 DEF MemoryInv
<1>3. Job(p)' = Job(p) /\ Job(p) \in 1..Len(jobs)
  BY <1>2, JobExists DEF Job
<1>4. BatchOK(p)'
  <2>1. BatchOK(p) /\ processors[p].batch \in Seq(Nat)
    BY <1>1 DEF MemoryInv, ProcessorRow
  <2>2. 1..Len(jobs) \subseteq 1..Len(jobs')
    BY DEF JobsGrow
  <2> QED
    BY <1>2, <2>1, <2>2 DEF BatchOK
<1>5. ResumesJob(p)'
  BY <1>2, <1>3 DEF ResumesJob, JobsGrow
<1> HIDE DEF row
<1> QED
  BY <1>1, <1>4, <1>5, ProcessorStep DEF MemoryInv

LEMMA TailOfBatch ==
  ASSUME NEW batch \in Seq(Nat), batch # <<>>, Len(batch) # 1
  PROVE  /\ Tail(batch) \in Seq(Nat) /\ Tail(batch) # <<>>
         /\ \A k \in 1..Len(Tail(batch)) :
              k + 1 \in 1..Len(batch) /\ Tail(batch)[k] = batch[k + 1]
<1>1. Len(batch) \in Nat /\ Len(batch) # 0
  BY EmptySeq
<1>2. Tail(batch) \in Seq(Nat) /\ Len(Tail(batch)) = Len(batch) - 1
  BY HeadTailProperties
<1>3. \A k \in 1..Len(Tail(batch)) : Tail(batch)[k] = batch[k + 1]
  BY HeadTailProperties
<1>4. Len(Tail(batch)) \in Nat /\ Len(Tail(batch)) # 0
  BY <1>1, <1>2
<1>5. Tail(batch) # <<>>
  BY <1>4, Len(<<>>) = 0
<1> QED
  BY <1>1, <1>2, <1>3, <1>4, <1>5

\* A processor takes the next job of its batch, or stops.
LEMMA ProcessorNext ==
  ASSUME MemoryInv, JobsGrow, NEW p \in Processes, processors[p].pc \notin {"idle", "await"},
         processors' = [processors EXCEPT ![p] = NextJob(p)], UNCHANGED interpreters
  PROVE  MemoryInv'
<1>1. /\ processors[p].batch \in Seq(Nat) /\ processors[p].batch # <<>>
      /\ \A k \in 1..Len(processors[p].batch) : processors[p].batch[k] \in 1..Len(jobs)
  BY JobExists DEF MemoryInv, BatchOK
<1>2. 1..Len(jobs) \subseteq 1..Len(jobs')
  BY DEF JobsGrow
<1>3. processors'[p] = NextJob(p)
  BY DEF MemoryInv
<1>4. CASE NextJob(p) = IdleProcessor
  <2>1. IdleProcessor \in ProcessorRow /\ IdleProcessor.pc = "idle"
    BY DEF IdleProcessor, ProcessorRow
  <2>2. BatchOK(p)' /\ ResumesJob(p)'
    BY <1>3, <1>4, <2>1 DEF BatchOK, ResumesJob
  <2> QED
    BY <1>4, <2>1, <2>2, ProcessorStep
<1>5. CASE Len(processors[p].batch) # 1
  <2>b. PICK batch : batch = processors[p].batch
    OBVIOUS
  <2> DEFINE rest == Tail(batch)
             row == [pc |-> "next", batch |-> rest]
  <2>1. NextJob(p) = row
    BY <1>5, <2>b DEF NextJob
  <2>2. /\ rest \in Seq(Nat) /\ rest # <<>>
        /\ \A k \in 1..Len(rest) : k + 1 \in 1..Len(batch) /\ rest[k] = batch[k + 1]
    BY <1>1, <1>5, <2>b, TailOfBatch
  <2> HIDE DEF rest
  <2>3. row \in ProcessorRow
    BY <2>2 DEF ProcessorRow
  <2>4. \A k \in 1..Len(rest) : rest[k] \in 1..Len(jobs')
    BY <1>1, <1>2, <2>2, <2>b
  <2>5. processors'[p].pc = "next" /\ processors'[p].batch = rest
    BY <1>3, <2>1
  <2>6. BatchOK(p)' /\ ResumesJob(p)'
    BY <2>2, <2>4, <2>5 DEF BatchOK, ResumesJob
  <2> HIDE DEF row
  <2> QED
    BY <2>1, <2>3, <2>6, ProcessorStep
<1> QED
  BY <1>4, <1>5 DEF NextJob

LEMMA ListJobsKeeps ==
  ASSUME MemoryInv, JobsInv, JobsGrow, NEW p \in Processes, ListJobs(p)
  PROVE  MemoryInv'
<1>1. PICK batch \in FirstPending :
        processors' = [processors EXCEPT ![p] =
          IF batch = <<>> THEN IdleProcessor ELSE [pc |-> "next", batch |-> batch]]
  BY DEF ListJobs
<1>2. Pending \subseteq 1..Len(jobs) /\ Len(jobs) \in Nat
  BY DEF Pending, JobsInv
<1>3. batch \in Seq(Nat) /\ \A k \in 1..Len(batch) : batch[k] \in 1..Len(jobs)
  <2>1. IsFiniteSet(Pending)
    <3>1. IsFiniteSet(1..Len(jobs))
      BY <1>2, FS_Interval
    <3> QED
      BY <1>2, <3>1, FS_Subset
  <2>2. Cardinality(Pending) \in Nat
    BY <2>1, FS_CardinalityType
  <2>3. PICK n \in Nat : batch \in [1..n -> Pending]
    BY <2>2, EngineAssumption DEF FirstPending
  <2>4. Len(batch) = n /\ \A k \in 1..n : batch[k] \in Pending
    BY <2>3
  <2>5. batch \in [1..n -> Nat]
    <3>1. Pending \subseteq Nat
      BY <1>2
    <3> QED
      BY <2>3, <3>1
  <2> QED
    BY <1>2, <2>3, <2>4, <2>5
<1>4. processors[p].pc # "await" /\ UNCHANGED interpreters
  BY DEF ListJobs
<1>5. CASE batch = <<>>
  <2>1. processors' = [processors EXCEPT ![p] = IdleProcessor]
    BY <1>1, <1>5
  <2>2. IdleProcessor \in ProcessorRow /\ processors'[p].pc = "idle"
    BY <2>1 DEF IdleProcessor, ProcessorRow, MemoryInv
  <2>3. BatchOK(p)' /\ ResumesJob(p)'
    BY <2>2 DEF BatchOK, ResumesJob
  <2> QED
    BY <1>4, <2>1, <2>2, <2>3, ProcessorStep
<1>6. CASE batch # <<>>
  <2> DEFINE row == [pc |-> "next", batch |-> batch]
  <2>1. processors' = [processors EXCEPT ![p] = row]
    BY <1>1, <1>6
  <2>2. row \in ProcessorRow
    BY <1>3 DEF ProcessorRow
  <2>3. processors'[p].pc = "next" /\ processors'[p].batch = batch
    BY <2>1 DEF MemoryInv
  <2>4. 1..Len(jobs) \subseteq 1..Len(jobs')
    BY DEF JobsGrow
  <2>5. BatchOK(p)' /\ ResumesJob(p)'
    BY <1>3, <1>6, <2>3, <2>4 DEF BatchOK, ResumesJob
  <2> HIDE DEF row
  <2> QED
    BY <1>4, <2>1, <2>2, <2>5, ProcessorStep
<1> QED
  BY <1>5, <1>6

\* interpretGraph called by a setImmediate.
LEMMA StartKeeps ==
  ASSUME MemoryInv, JobsGrow, NEW p \in Processes, NEW e \in ExecutionIds,
         StartInterpreter(p, e, "start"), UNCHANGED processors
  PROVE  MemoryInv'
<1>1. PICK i \in Interpreters :
        interpreters' = [interpreters EXCEPT ![i] =
          [pc |-> "read", execution |-> e, node |-> None, transitions |-> 0,
           process |-> p, origin |-> "start"]]
  BY DEF StartInterpreter
<1> DEFINE row == [pc |-> "read", execution |-> e, node |-> None, transitions |-> 0,
                   process |-> p, origin |-> "start"]
<1>2. row \in InterpreterRow /\ row.pc = "read" /\ row.execution = e /\ row.origin = "start"
  BY DEF InterpreterRow
<1>3. interpreters' = [interpreters EXCEPT ![i] = row]
  BY <1>1
<1> HIDE DEF row
<1> QED
  BY <1>2, <1>3, InterpreterStep

LEMMA HandleExecutionJobKeeps ==
  ASSUME MemoryInv, JobsGrow, NEW p \in Processes, NEW e \in ExecutionIds, HandleExecutionJob(p, e)
  PROVE  MemoryInv'
<1>1. processors[p].pc = "handle" /\ processors' = [processors EXCEPT ![p].pc = "returned"]
  BY DEF HandleExecutionJob, Handles, SetProcessor
<1>2. /\ processors' \in [Processes -> ProcessorRow]
      /\ \A q \in Processes \ {p} : processors'[q] = processors[q]
      /\ BatchOK(p)' /\ ResumesJob(p)'
  BY <1>1, ProcessorGoesOn
<1> DEFINE row == [pc |-> "read", execution |-> e, node |-> None, transitions |-> 0,
                   process |-> p, origin |-> "start"]
<1>3. PICK i \in Interpreters : interpreters' = [interpreters EXCEPT ![i] = row]
  BY DEF HandleExecutionJob, CreateExecution, StartInterpreter
<1>4. row \in InterpreterRow /\ row.pc = "read" /\ row.execution = e /\ row.origin = "start"
  BY DEF InterpreterRow
<1> HIDE DEF row
<1>5. /\ interpreters' \in [Interpreters -> InterpreterRow] /\ interpreters'[i] = row
      /\ \A j \in Interpreters \ {i} : interpreters'[j] = interpreters[j]
  BY <1>3, <1>4 DEF MemoryInv
<1>6. \A j \in Interpreters :
        Called(j)' => /\ Called(j) /\ interpreters'[j].process = interpreters[j].process
                      /\ interpreters[j].process \in Processes \ {p}
  BY <1>1, <1>4, <1>5 DEF Called, MemoryInv, InterpreterOK
<1> QED
  BY <1>2, <1>4, <1>5, <1>6, MemoryStep

LEMMA ResumeKeeps ==
  ASSUME MemoryInv, JobsInv, JobsGrow, NEW p \in Processes, Resume(p)
  PROVE  MemoryInv'
<1>1. PICK e : e = jobs[Job(p)].execution
  OBVIOUS
<1>2. /\ processors[p].pc = "resume" /\ processors' = [processors EXCEPT ![p].pc = "await"]
      /\ StartInterpreter(p, e, "job") /\ UNCHANGED jobs
  BY <1>1 DEF Resume, SetProcessor
<1>3. e \in ExecutionIds
  BY <1>1, <1>2, JobExists DEF JobsInv, ResumesAnExecution, MemoryInv, ResumesJob
<1> DEFINE row == [pc |-> "read", execution |-> e, node |-> None, transitions |-> 0,
                   process |-> p, origin |-> "job"]
<1>4. PICK i \in Interpreters : interpreters' = [interpreters EXCEPT ![i] = row]
  BY <1>2 DEF StartInterpreter
<1>5. /\ row \in InterpreterRow /\ row.pc = "read" /\ row.execution = e /\ row.origin = "job"
      /\ row.process = p
  BY <1>3 DEF InterpreterRow
<1> HIDE DEF row
<1>6. /\ interpreters' \in [Interpreters -> InterpreterRow] /\ interpreters'[i] = row
      /\ \A j \in Interpreters \ {i} : interpreters'[j] = interpreters[j]
  BY <1>4, <1>5 DEF MemoryInv
<1>7. /\ processors' \in [Processes -> ProcessorRow]
      /\ processors'[p].pc = "await" /\ processors'[p].batch = processors[p].batch
      /\ \A q \in Processes \ {p} : processors'[q] = processors[q]
  BY <1>2 DEF MemoryInv, ProcessorRow
<1>8. \A j \in Interpreters : Called(j) => interpreters[j].process \in Processes \ {p}
  BY <1>2 DEF MemoryInv, InterpreterOK
<1>9. ASSUME NEW q \in Processes PROVE BatchOK(q)' /\ ResumesJob(q)'
  BY <1>2, <1>7 DEF BatchOK, ResumesJob, Job, MemoryInv
<1>10. ASSUME NEW j \in Interpreters PROVE InterpreterOK(j)'
  BY <1>3, <1>5, <1>6, <1>7, <1>8 DEF MemoryInv, InterpreterOK, Called
<1>11. OneCalled'
  BY <1>5, <1>6, <1>8 DEF MemoryInv, OneCalled, Called
<1> QED
  BY <1>6, <1>7, <1>9, <1>10, <1>11 DEF MemoryInv

LEMMA ProcessorKeeps ==
  ASSUME MemoryInv, JobsInv, JobsGrow, NEW p \in Processes, Processor(p)
  PROVE  MemoryInv'
<1>1. CASE ListJobs(p)
  BY <1>1, ListJobsKeeps
<1>2. CASE DropTrigger(p)
  BY <1>2, MemorySame DEF DropTrigger
<1>3. CASE MarkProcessing(p)
  BY <1>3, ProcessorGoesOn DEF MarkProcessing
<1>4. CASE FailUnhandled(p)
  BY <1>4, ProcessorNext DEF FailUnhandled
<1>5. CASE HandleOther(p)
  <2>1. PICK pc \in {"returned", "threw"} : processors' = [processors EXCEPT ![p].pc = pc]
    BY <1>5 DEF HandleOther
  <2> QED
    BY <1>5, <2>1, ProcessorGoesOn DEF HandleOther, Handles
<1>6. ASSUME NEW e \in ExecutionIds, HandleExecutionJob(p, e) PROVE MemoryInv'
  BY <1>6, HandleExecutionJobKeeps
<1>7. CASE ReadResume(p)
  <2>1. PICK pc \in {"reject", "resume", "returned"} : processors' = [processors EXCEPT ![p].pc = pc]
    BY <1>7 DEF ReadResume, SetProcessor, ResumePath
  <2> QED
    BY <1>7, <2>1, ProcessorGoesOn DEF ReadResume, Handles
<1>8. CASE Reject(p)
  BY <1>8, ProcessorGoesOn DEF Reject, SetProcessor
<1>9. CASE Resume(p)
  BY <1>9, ResumeKeeps
<1>10. CASE FinishJob(p)
  BY <1>10, ProcessorNext DEF FinishJob
<1> QED
  BY <1>1, <1>2, <1>3, <1>4, <1>5, <1>6, <1>7, <1>8, <1>9, <1>10 DEF Processor

\* A step of interpretGraph that changes nothing but where it stands.
LEMMA GotoKeeps ==
  ASSUME MemoryInv, JobsGrow, NEW i \in Interpreters, interpreters[i].pc \in {"work", "wait"},
         NEW pc \in {"read", "wait"}, Goto(i, pc), UNCHANGED processors
  PROVE  MemoryInv'
<1> DEFINE row == [interpreters[i] EXCEPT !.pc = pc]
<1>1. interpreters[i] \in InterpreterRow /\ InterpreterOK(i)
  BY DEF MemoryInv
<1>2. /\ row \in InterpreterRow /\ row.pc = pc /\ row.execution = interpreters[i].execution
      /\ row.node = interpreters[i].node /\ row.origin = interpreters[i].origin
      /\ row.process = interpreters[i].process
  BY <1>1 DEF InterpreterRow
<1>3. interpreters' = [interpreters EXCEPT ![i] = row]
  BY DEF Goto
<1> HIDE DEF row
<1> QED
  BY <1>1, <1>2, <1>3, InterpreterStep DEF InterpreterOK, Called

LEMMA ReturnKeeps ==
  ASSUME MemoryInv, JobsGrow, NEW i \in Interpreters, interpreters[i].pc # "idle",
         NEW pc \in {"returned", "threw"}, interpreters' = [interpreters EXCEPT ![i] = Unused],
         Awaiting(i, pc)
  PROVE  MemoryInv'
<1>1. Unused \in InterpreterRow /\ Unused.pc = "idle"
  BY DEF Unused, InterpreterRow
<1> QED
  BY <1>1, ReleaseStep

LEMMA ReadNodeKeeps ==
  ASSUME ExecutionsInv, MemoryInv, JobsGrow, NEW i \in Interpreters, ReadNode(i)
  PROVE  MemoryInv'
<1> DEFINE node == executions[interpreters[i].execution].node
           row == [interpreters[i] EXCEPT !.pc = IF node = None THEN "fail" ELSE "work",
                                          !.node = node, !.transitions = @ + 1]
<1>1. interpreters[i] \in InterpreterRow /\ InterpreterOK(i) /\ interpreters[i].pc = "read"
  BY DEF MemoryInv, ReadNode
<1>2. node \in Nodes \cup {None}
  BY <1>1 DEF InterpreterOK, ExecutionsInv, ExecutionRow
<1>3. interpreters' = [interpreters EXCEPT ![i] = row] /\ UNCHANGED processors
  BY DEF ReadNode
<1> DEFINE counted == [interpreters[i] EXCEPT !.transitions = @ + 1]
<1> HIDE DEF node
<1>4. /\ counted \in InterpreterRow
      /\ counted.execution = interpreters[i].execution
      /\ counted.origin = interpreters[i].origin
      /\ counted.process = interpreters[i].process
  BY <1>1 DEF InterpreterRow
<1>5. row = [counted EXCEPT !.pc = IF node = None THEN "fail" ELSE "work", !.node = node]
  BY <1>1 DEF InterpreterRow
<1> HIDE DEF row, counted
<1>6. /\ row \in InterpreterRow /\ row.pc = IF node = None THEN "fail" ELSE "work"
      /\ row.execution = interpreters[i].execution
      /\ row.node = node /\ row.origin = interpreters[i].origin
      /\ row.process = interpreters[i].process
  BY <1>2, <1>4, <1>5 DEF InterpreterRow
<1> QED
  BY <1>1, <1>2, <1>3, <1>6, InterpreterStep DEF InterpreterOK, Called

LEMMA DelayKeeps ==
  ASSUME MemoryInv, JobsGrow, NEW i \in Interpreters, Delay(i)
  PROVE  MemoryInv'
<1>1. interpreters[i] \in InterpreterRow /\ InterpreterOK(i) /\ interpreters[i].pc = "work"
  BY DEF MemoryInv, Delay, At
<1>2. PICK next \in Nodes \cup {None} :
        interpreters' = [interpreters EXCEPT
          ![i].pc = "asleep", ![i].node = next, ![i].origin = "timer"]
  BY NextNodesAreNodes DEF Delay
<1> DEFINE row == [interpreters[i] EXCEPT !.pc = "asleep", !.node = next, !.origin = "timer"]
<1>3. /\ row \in InterpreterRow /\ row.pc = "asleep" /\ row.origin = "timer"
      /\ row.execution = interpreters[i].execution
  BY <1>1 DEF InterpreterRow
<1>4. interpreters' = [interpreters EXCEPT ![i] = row] /\ Awaiting(i, "returned")
  BY <1>2 DEF Delay
<1> HIDE DEF row
<1> QED
  BY <1>1, <1>3, <1>4, ReleaseStep DEF InterpreterOK

LEMMA WakeKeeps ==
  ASSUME MemoryInv, JobsGrow, NEW i \in Interpreters, Wake(i)
  PROVE  MemoryInv'
<1> DEFINE row == [interpreters[i] EXCEPT !.pc = "read", !.transitions = 0]
<1>1. interpreters[i] \in InterpreterRow /\ InterpreterOK(i) /\ interpreters[i].pc = "asleep"
  BY DEF MemoryInv, Wake
<1>2. /\ row \in InterpreterRow /\ row.pc = "read"
      /\ row.execution = interpreters[i].execution
      /\ row.origin = interpreters[i].origin /\ row.process = interpreters[i].process
  BY <1>1 DEF InterpreterRow
<1>3. interpreters' = [interpreters EXCEPT ![i] = row] /\ UNCHANGED processors
  BY DEF Wake
<1> HIDE DEF row
<1> QED
  BY <1>1, <1>2, <1>3, InterpreterStep DEF InterpreterOK, Called

LEMMA CrashKeeps ==
  ASSUME MemoryInv, JobsGrow, NEW p \in Processes, Crash(p)
  PROVE  MemoryInv'
<1>1. /\ IdleProcessor \in ProcessorRow /\ IdleProcessor.pc = "idle"
      /\ Unused \in InterpreterRow /\ Unused.pc = "idle"
  BY DEF IdleProcessor, ProcessorRow, Unused, InterpreterRow
<1>2. /\ processors' \in [Processes -> ProcessorRow] /\ processors'[p] = IdleProcessor
      /\ \A q \in Processes \ {p} : processors'[q] = processors[q]
  BY <1>1 DEF Crash, MemoryInv
<1>3. BatchOK(p)' /\ ResumesJob(p)'
  BY <1>1, <1>2 DEF BatchOK, ResumesJob
<1>4. /\ interpreters' \in [Interpreters -> InterpreterRow]
      /\ \A i \in Interpreters :
           \/ interpreters'[i] = Unused
           \/ interpreters'[i] = interpreters[i] /\ interpreters[i].process # p
  BY <1>1 DEF Crash, MemoryInv
<1>5. \A i \in Interpreters :
        Called(i)' => /\ Called(i) /\ interpreters'[i].process = interpreters[i].process
                      /\ interpreters[i].process \in Processes \ {p}
  BY <1>1, <1>4 DEF Called, MemoryInv, InterpreterOK
<1> QED
  BY <1>1, <1>2, <1>3, <1>4, <1>5, MemoryStep

LEMMA MemoryKept == IInv /\ [Next]_vars => MemoryInv'
<1> SUFFICES ASSUME IInv, [Next]_vars PROVE MemoryInv'
  OBVIOUS
<1> /\ ExecutionsInv /\ MemoryInv /\ JobsInv
    /\ JobsGrow
  BY JobsKept DEF IInv
<1> USE DEF tables, memory
<1>1. ASSUME NEW p \in Processes, Ask(p) PROVE MemoryInv'
  <2>1. ASSUME NEW e \in ExecutionIds, NEW failed \in ExecutionIds,
               StartExecution(p, e) \/ RetryExecution(p, e, failed)
        PROVE  MemoryInv'
    BY <2>1, StartKeeps DEF StartExecution, RetryExecution, CreateExecution
  <2>2. CASE QueueExecution(p)
    BY <2>2, MemorySame DEF QueueExecution
  <2>3. ASSUME NEW type, CreateOther(p, type) PROVE MemoryInv'
    BY <2>3, MemorySame DEF CreateOther
  <2>4. ASSUME NEW w, NEW a, NEW u, NEW choice, BeginDecision(w, p, a, u, choice)
        PROVE  MemoryInv'
    BY <2>4, MemorySame DEF BeginDecision
  <2> QED
    BY <1>1, <2>1, <2>2, <2>3, <2>4 DEF Ask
<1>2. ASSUME NEW p \in Processes, Processor(p) PROVE MemoryInv'
  BY <1>2, ProcessorKeeps
<1>3. ASSUME NEW w \in Workers, Begin(w) \/ Request(w) PROVE MemoryInv'
  <2>1. CASE Begin(w)
    BY <2>1, MemorySame DEF Begin, BeginCancel, BeginCancelJob
  <2>2. CASE CancelExecution(w) \/ CancelJob(w) \/ RecordVote(w)
    BY <2>2, MemorySame DEF CancelExecution, CancelJob, RecordVote
  <2>3. CASE RefuseVote(w) \/ QueueResume(w) \/ CommitDecision(w)
    BY <2>3, MemorySame DEF RefuseVote, QueueResume, CommitDecision
  <2> QED
    BY <1>3, <2>1, <2>2, <2>3 DEF Request
<1>4. ASSUME NEW i \in Interpreters, Interpreter(i) PROVE MemoryInv'
  <2>1. CASE ReadNode(i)
    BY <2>1, ReadNodeKeeps
  <2>2. CASE ReadStop(i) \/ GiveUp(i)
    BY <2>2, ReturnKeeps DEF ReadStop, GiveUp, Return
  <2>3. CASE Advance(i)
    BY <2>3, GotoKeeps DEF Advance, At
  <2>4. CASE ActionFails(i) \/ End(i) \/ WaitForApproval(i)
    BY <2>4, ReturnKeeps DEF ActionFails, End, WaitForApproval, At, Return
  <2>5. ASSUME NEW a \in ApprovalIds, RequestApproval(i, a) PROVE MemoryInv'
    BY <2>5, GotoKeeps DEF RequestApproval, At
  <2>6. CASE Delay(i)
    BY <2>6, DelayKeeps
  <2>7. CASE Wake(i)
    BY <2>7, WakeKeeps
  <2> QED
    BY <1>4, <2>1, <2>2, <2>3, <2>4, <2>5, <2>6, <2>7 DEF Interpreter
<1>5. CASE Fault
  <2>1. ASSUME NEW p \in Processes, Crash(p) PROVE MemoryInv'
    BY <2>1, CrashKeeps
  <2>2. ASSUME NEW p \in Processes, AbandonBatch(p) PROVE MemoryInv'
    <3>1. IdleProcessor \in ProcessorRow /\ IdleProcessor.pc = "idle"
      BY DEF IdleProcessor, ProcessorRow
    <3>2. processors'[p] = IdleProcessor
      BY <2>2 DEF AbandonBatch, MemoryInv
    <3>3. BatchOK(p)' /\ ResumesJob(p)'
      BY <3>1, <3>2 DEF BatchOK, ResumesJob
    <3> QED
      BY <2>2, <3>1, <3>3, ProcessorStep DEF AbandonBatch
  <2>3. ASSUME NEW p \in Processes, HandlerThrows(p) PROVE MemoryInv'
    BY <2>3, ProcessorGoesOn DEF HandlerThrows, SetProcessor
  <2>4. ASSUME NEW i \in Interpreters, Throw(i) PROVE MemoryInv'
    BY <2>4, ReturnKeeps DEF Throw
  <2>5. ASSUME NEW w \in Workers, RollBack(w) PROVE MemoryInv'
    BY <2>5, MemorySame DEF RollBack
  <2> QED
    BY <1>5, <2>1, <2>2, <2>3, <2>4, <2>5 DEF Fault
<1>6. CASE UNCHANGED vars
  BY <1>6, MemorySame DEF vars
<1> QED
  BY <1>1, <1>2, <1>3, <1>4, <1>5, <1>6 DEF Next

-----------------------------------------------------------------------------
(* Theorems *)

\* Every behaviour of the engine keeps the invariant.
THEOREM Inductive == Spec => []IInv
<1>1. Init => IInv
  BY InitInv
<1>2. IInv /\ [Next]_vars => IInv'
  BY ExecutionsKept, VotesKept, JobsKept, MemoryKept DEF IInv
<1> QED
  BY <1>1, <1>2, PTL DEF Spec

\* Executions, steps, approvals, votes and jobs keep their types, for any graph
\* and whatever fails; in particular no execution stands outside its graph.
THEOREM TypeCorrect == Spec => []TypeOK
<1>1. IInv => TypeOK
  BY InvImplies
<1> QED
  BY <1>1, Inductive, PTL

\* recordDecision: an approval that shows a decision has a vote for it, however
\* decisions overlap, fail and overwrite each other.
THEOREM ResolutionSafety == Spec => []ResolvedByVote
<1>1. IInv => ResolvedByVote
  BY InvImplies
<1> QED
  BY <1>1, Inductive, PTL

\* What VoteIsFinal asks of one step.
KeepsVotes ==
  \A a \in ApprovalIds, u \in Users :
    approvals[a].votes[u] # None => approvals'[a].votes[u] = approvals[a].votes[u]

\* Where IInv holds, no step replaces a vote: the unique index refuses a second
\* one, and interpretGraph creates only approvals that nobody voted on yet.
LEMMA StepKeepsVotes ==
  ASSUME IInv, [Next]_vars
  PROVE  KeepsVotes
<1> VotesInv
  BY DEF IInv
<1> USE DEF tables, memory
<1>u. ASSUME UNCHANGED approvals PROVE KeepsVotes
  BY <1>u DEF KeepsVotes
<1>1. ASSUME NEW w \in Workers, CommitDecision(w) PROVE KeepsVotes
  <2> DEFINE a == requests[w].approval
             u == requests[w].user
  <2>1. /\ a \in ApprovalIds /\ u \in Users /\ approvals[a].votes[u] = None
        /\ approvals' = [approvals EXCEPT ![a].status = NextStatus(requests[w]),
                                          ![a].votes[u] = requests[w].decision]
    BY <1>1, Committed
  <2> HIDE DEF a, u
  <2>2. approvals \in [ApprovalIds -> ApprovalRow]
    BY DEF VotesInv
  <2> QED
    BY <2>1, <2>2 DEF KeepsVotes, ApprovalRow
<1>2. ASSUME NEW i \in Interpreters, NEW a \in ApprovalIds, RequestApproval(i, a) PROVE KeepsVotes
  <2>1. \A u \in Users : approvals[a].votes[u] = None
    BY <1>2 DEF RequestApproval, VotesInv, ApprovalsAreRequested
  <2>2. \A b \in ApprovalIds \ {a} : approvals'[b] = approvals[b]
    BY <1>2 DEF RequestApproval, VotesInv
  <2> QED
    BY <2>1, <2>2 DEF KeepsVotes
<1>3. ASSUME NEW p \in Processes, Ask(p) \/ Processor(p) PROVE KeepsVotes
  <2>1. CASE Ask(p)
    BY <2>1, <1>u DEF Ask, StartExecution, RetryExecution, QueueExecution, CreateOther, BeginDecision
  <2>2. CASE Processor(p)
    BY <2>2, <1>u DEF Processor, ListJobs, DropTrigger, MarkProcessing, FailUnhandled,
       HandleOther, HandleExecutionJob, ReadResume, Reject, Resume, FinishJob
  <2> QED
    BY <1>3, <2>1, <2>2
<1>4. ASSUME NEW w \in Workers, Begin(w) \/ Request(w) PROVE KeepsVotes
  BY <1>4, <1>u, <1>1 DEF Begin, BeginCancel, BeginCancelJob, Request, CancelExecution,
     CancelJob, RecordVote, RefuseVote, QueueResume
<1>5. ASSUME NEW i \in Interpreters, Interpreter(i) PROVE KeepsVotes
  BY <1>5, <1>u, <1>2 DEF Interpreter, ReadNode, ReadStop, GiveUp, Advance, ActionFails, End,
     WaitForApproval, Delay, Wake
<1>6. CASE Fault
  BY <1>6, <1>u DEF Fault, Crash, AbandonBatch, HandlerThrows, Throw, RollBack
<1>7. CASE UNCHANGED vars
  BY <1>7, <1>u DEF vars
<1> QED
  BY <1>3, <1>4, <1>5, <1>6, <1>7 DEF Next

\* INV-397: recordDecision and interpretGraph never replace a vote.
THEOREM VoteSafety == Spec => VoteIsFinal
<1>1. IInv /\ [Next]_vars =>
        [\A a \in ApprovalIds, u \in Users :
           approvals[a].votes[u] # None => approvals'[a].votes[u] = approvals[a].votes[u]]_vars
  BY StepKeepsVotes DEF KeepsVotes
<1> QED
  BY <1>1, Inductive, PTL DEF Spec, VoteIsFinal
=============================================================================
