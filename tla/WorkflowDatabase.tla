------------------------- MODULE WorkflowDatabase -------------------------
(***************************************************************************)
(* The state the workflow engine of apps/api works on: the tables of       *)
(* executions, their steps, approvals and background jobs, and what the    *)
(* API processes keep in memory: job processors, running interpreters and  *)
(* timers, and HTTP requests in progress.  BackgroundJobs,                 *)
(* WorkflowExecutions and WorkflowApprovals are the services;              *)
(* WorkflowEngine composes them.                                           *)
(*                                                                         *)
(* A step ends where something else can get in: at an await after which    *)
(* what was read or decided before is used.  Unlike the sales services     *)
(* these hardly use transactions; every update is by id and commits on its *)
(* own, except the vote of an approver.                                    *)
(***************************************************************************)
EXTENDS Integers, Sequences, FiniteSets

CONSTANTS
  ExecutionIds, ApprovalIds, Users,
  Processes,        \* API processes; each runs one JobService
  Workers,          \* HTTP requests that can be in progress at once
  Interpreters,     \* calls of interpretGraph, and timers, alive at once
  Nodes, KindOf, Edges, StartNode,    \* the published graph of the workflow
  MaxTransitions,   \* MAX_NODE_TRANSITIONS
  MaxConcurrency,   \* jobs processNextJobs takes at a time
  MaxJobs,          \* bound: jobs ever created
  MaxCrashes,       \* bound: crashes of processes
  Cancellations,    \* may users cancel executions and jobs?
  Errors            \* may database calls and action executors throw?

None == "NONE"

NodeKinds == {"START", "END", "CONDITION", "ACTION", "APPROVAL", "DELAY", "OTHER"}

\* A published version: one START node, which no edge leads to, and no edge
\* leaves an END node (WorkflowGraphValidatorService).  Cycles are allowed.
ValidGraph ==
  /\ None \notin Nodes /\ StartNode \in Nodes
  /\ KindOf \in [Nodes -> NodeKinds]
  /\ {n \in Nodes : KindOf[n] = "START"} = {StartNode}
  /\ \E n \in Nodes : KindOf[n] = "END"
  /\ Edges \subseteq {n \in Nodes : KindOf[n] # "END"} \X (Nodes \ {StartNode})

ASSUME GraphAssumption == ValidGraph

ASSUME EngineAssumption ==
  /\ MaxTransitions \in Nat \ {0} /\ MaxConcurrency \in Nat \ {0}
  /\ MaxJobs \in Nat /\ MaxCrashes \in Nat
  /\ Cancellations \in BOOLEAN /\ Errors \in BOOLEAN

VARIABLES
  executions,       \* workflow_executions: status and current node
  steps,            \* workflow_execution_steps, counted by execution and node
  approvals,        \* workflow_approvals with their actions (votes)
  jobs,             \* background_jobs in order of creation
  processors,       \* JobService.processNextJobs of every process
  triggered,        \* is a setImmediate(processNextJobs) due in the process?
  interpreters,     \* interpretGraph calls and DELAY timers
  requests,         \* HTTP requests in progress
  crashes           \* crashes so far

tables == <<executions, steps, approvals, jobs>>
memory == <<processors, triggered, interpreters, requests>>
vars == <<tables, memory, crashes>>

-----------------------------------------------------------------------------
(* Rows *)

\* TIMED_OUT is a status of the schema that no code sets.
TerminalStatuses == {"COMPLETED", "FAILED", "CANCELLED", "TIMED_OUT"}
ExecutionStatus == {None, "RUNNING", "WAITING"} \cup TerminalStatuses

\* Approvals are created with the column's default type ANY_ONE and without
\* deadlines: the other types, expiry and escalation are never reached.
Decisions == {"APPROVED", "REJECTED"}

\* What a vote can say: any status of the enumeration, of which the others than
\* the two decisions are all the same to the code.
Choices == Decisions \cup {"OTHER"}

ApprovalStatus == {None, "PENDING"} \cup Decisions
NoApproval ==
  [status |-> None, execution |-> None, node |-> None, votes |-> [u \in Users |-> None]]

JobTypes == {"WORKFLOW_EXECUTION", "WORKFLOW_RESUME", "REGISTERED", "UNREGISTERED"}
JobStatus == {"PENDING", "PROCESSING", "COMPLETED", "FAILED", "CANCELLED"}

\* A new row of background_jobs; only WORKFLOW_RESUME jobs carry a payload here.
NewJob(type, priority) ==
  [status |-> "PENDING", type |-> type, priority |-> priority,
   execution |-> None, node |-> None, decision |-> None]

ExecutionRow == [status : ExecutionStatus, node : Nodes \cup {None}]
ApprovalRow ==
  [status : ApprovalStatus, execution : ExecutionIds \cup {None},
   node : Nodes \cup {None}, votes : [Users -> Choices \cup {None}]]
JobRow ==
  [status : JobStatus, type : JobTypes, priority : 0..2,
   execution : ExecutionIds \cup {None}, node : Nodes \cup {None},
   decision : Decisions \cup {None}]

-----------------------------------------------------------------------------
(* What processes remember *)

\* `origin` says who called interpretGraph: a setImmediate of startExecution
\* or retryExecution, a job whose processor awaits it, or a DELAY timer.
Unused ==
  [pc |-> "idle", execution |-> None, node |-> None, transitions |-> 0,
   process |-> None, origin |-> None]

IdleProcessor == [pc |-> "idle", batch |-> <<>>]

IdleRequest == [pc |-> "idle"]

\* interpretGraph(e) called in process p.
StartInterpreter(p, e, origin) ==
  \E i \in Interpreters :
    /\ interpreters[i].pc = "idle"
    /\ interpreters' = [interpreters EXCEPT ![i] =
         [pc |-> "read", execution |-> e, node |-> None, transitions |-> 0,
          process |-> p, origin |-> origin]]

\* findNextNodeId, evaluateConditionBranch: an edge out of the node, or null.
\* The edges are read in no defined order and conditions are data, so that any
\* of them may be the one.
NextNodes(n) ==
  LET next == {m \in Nodes : <<n, m>> \in Edges}
  IN IF next = {} THEN {None} ELSE next
=============================================================================
