---------------------- MODULE WorkflowSequentialProofs ----------------------
(***************************************************************************)
(* What holds of workflow executions in one process, for any graph and any *)
(* number of executions, approvals, users and jobs: no job is begun twice, *)
(* whatever fails.  When decisions do not overlap either and nothing fails *)
(* half way, an execution has one driver, and with that no node of an      *)
(* acyclic graph runs twice, no node behind an approval runs before it is  *)
(* given, and without cancellations executions follow WorkflowLifecycle.   *)
(*                                                                         *)
(* The heart is ClaimInv.  An execution goes on through an interpreter or  *)
(* a timer, through an approval yet to be decided, or through a resume job *)
(* yet to be handled.  There is at most one of these for an execution, but *)
(* while the interpreter that requested an approval has yet to set the     *)
(* execution WAITING; in that time a resume job is dropped.                *)
(***************************************************************************)
EXTENDS WorkflowEngineProofs

-----------------------------------------------------------------------------
(* One process *)

OneProcess == \A p, q \in Processes : p = q

\* A processor has yet to begin the rest of its batch, and has begun the first.
BatchInv ==
  \A p \in Processes :
    processors[p].pc # "idle" =>
      /\ \A k, m \in 1..Len(processors[p].batch) :
           k # m => processors[p].batch[k] # processors[p].batch[m]
      /\ \A k \in 1..Len(processors[p].batch) :
           k > 1 \/ processors[p].pc = "next"
             => jobs[processors[p].batch[k]].status \in {"PENDING", "CANCELLED"}
      /\ processors[p].pc # "next" => jobs[Job(p)].status \in {"PROCESSING", "CANCELLED"}

-----------------------------------------------------------------------------
(* One process and one request at a time, without failures *)

Alone ==
  /\ OneProcess
  /\ \A v, w \in Workers : v = w
  /\ Errors = FALSE /\ MaxCrashes = 0

\* Who can drive an execution on: an interpreter or timer, an approval that is
\* yet to be decided, and a resume job that is yet to be handled.
Drives(i, e) == interpreters[i].pc # "idle" /\ interpreters[i].execution = e

OpenFor(a, e) ==
  /\ approvals[a].status = "PENDING" /\ approvals[a].execution = e
  /\ \A w \in Workers : requests[w].pc = "queued" => requests[w].approval # a

Unhandled(p, j) ==
  \E k \in 1..Len(processors[p].batch) :
    /\ processors[p].batch[k] = j
    /\ k > 1 \/ processors[p].pc \in {"next", "handle", "reject", "resume"}

LiveFor(j, e) ==
  /\ jobs[j].type = "WORKFLOW_RESUME" /\ jobs[j].execution = e
  /\ jobs[j].status = "PENDING" \/ \E p \in Processes : Unhandled(p, j)

Running == {"read", "work", "wait", "fail"}

OneClaim ==
  \A e \in ExecutionIds :
    /\ \A i, k \in Interpreters : Drives(i, e) /\ Drives(k, e) => i = k
    /\ \A a, b \in ApprovalIds : OpenFor(a, e) /\ OpenFor(b, e) => a = b
    /\ \A j, k \in DOMAIN jobs : LiveFor(j, e) /\ LiveFor(k, e) => j = k
    /\ \A a \in ApprovalIds, j \in DOMAIN jobs : ~(OpenFor(a, e) /\ LiveFor(j, e))

\* An interpreter that has requested an approval is about to wait for it.
AboutToWait ==
  \A e \in ExecutionIds, i \in Interpreters :
    Drives(i, e) =>
      /\ \A a \in ApprovalIds : OpenFor(a, e) => interpreters[i].pc = "wait"
      /\ \A j \in DOMAIN jobs : LiveFor(j, e) => interpreters[i].pc = "wait"

NoneWaits ==
  \A e \in ExecutionIds, i \in Interpreters :
    Drives(i, e) /\ interpreters[i].pc \in Running => executions[e].status # "WAITING"

NoneBefore ==
  \A e \in ExecutionIds :
    executions[e].status = None =>
      /\ \A i \in Interpreters : ~Drives(i, e)
      /\ \A a \in ApprovalIds : ~OpenFor(a, e)
      /\ \A j \in DOMAIN jobs : ~LiveFor(j, e)

NoneBeside ==
  \A p \in Processes, i \in Interpreters :
    processors[p].pc \in {"reject", "resume"} => ~Drives(i, jobs[Job(p)].execution)

DecisionsAreOpen ==
  \A w \in Workers :
    /\ requests[w].pc \in Deciding => approvals[requests[w].approval].status = "PENDING"
    /\ requests[w].pc = "queued" => requests[w].decision \in Decisions

ClaimInv ==
  /\ OneClaim /\ AboutToWait /\ NoneWaits /\ NoneBefore /\ NoneBeside /\ DecisionsAreOpen
  /\ crashes = 0

-----------------------------------------------------------------------------
(* Where an execution is *)

Acyclic == \E rank \in [Nodes -> Nat] : \A edge \in Edges : rank[edge[1]] < rank[edge[2]]

Rank == CHOOSE rank \in [Nodes -> Nat] : \A edge \in Edges : rank[edge[1]] < rank[edge[2]]

\* Nothing but an approval leads to what is behind it.
Gated ==
  \A edge, other \in Edges :
    KindOf[edge[1]] = "APPROVAL" /\ edge[2] = other[2] => edge[1] = other[1]

GateOpen(e, m) ==
  \A n \in Nodes : KindOf[n] = "APPROVAL" /\ <<n, m>> \in Edges => ApprovedAt(e, n)

\* m is about to run, n has run last.
Ahead(e, m) ==
  m \in Nodes =>
    /\ Gated => GateOpen(e, m)
    /\ Acyclic => \A k \in Nodes : steps[e][k] > 0 => Rank[k] < Rank[m]

Reached(e, n) ==
  Acyclic => \A k \in Nodes : steps[e][k] > 0 => Rank[k] <= Rank[n]

DriverAt(i, e) ==
  /\ interpreters[i].pc = "read" => Ahead(e, executions[e].node)
  /\ interpreters[i].pc \in {"work", "wait"} => Reached(e, interpreters[i].node)
  /\ interpreters[i].pc = "asleep" => Ahead(e, interpreters[i].node)

JobAt(j, e) ==
  /\ jobs[j].node \in Nodes /\ Reached(e, jobs[j].node)
  /\ jobs[j].decision \in Decisions
  /\ jobs[j].decision = "APPROVED" => ApprovedAt(e, jobs[j].node)

DriversAt ==
  \A e \in ExecutionIds, i \in Interpreters : Drives(i, e) => DriverAt(i, e)

ApprovalsAt ==
  \A e \in ExecutionIds, a \in ApprovalIds :
    OpenFor(a, e) => approvals[a].node \in Nodes /\ Reached(e, approvals[a].node)

JobsAt ==
  \A e \in ExecutionIds : \A j \in DOMAIN jobs : LiveFor(j, e) => JobAt(j, e)

NoneRan ==
  \A e \in ExecutionIds : executions[e].status = None => \A n \in Nodes : steps[e][n] = 0

ResumesApproved ==
  \A p \in Processes : processors[p].pc = "resume" => jobs[Job(p)].decision = "APPROVED"

PositionInv ==
  /\ DriversAt /\ ApprovalsAt /\ JobsAt /\ NoneRan /\ ResumesApproved
  /\ Gated => ApprovedBeforePassing
  /\ Acyclic => NodesRunOnce

-----------------------------------------------------------------------------
(* The life cycle, without cancellations *)

Through ==
  \A n \in Nodes :
    KindOf[n] \in {"START", "CONDITION", "ACTION", "OTHER"} => \E m \in Nodes : <<n, m>> \in Edges

DriverLives(i, e) ==
  /\ interpreters[i].pc \in Running => executions[e].status = "RUNNING"
  /\ interpreters[i].pc \in {"work", "wait"} => executions[e].node = interpreters[i].node
  /\ interpreters[i].pc = "wait" => KindOf[interpreters[i].node] = "APPROVAL"
  /\ interpreters[i].pc = "asleep" =>
       /\ executions[e].status = "WAITING" /\ executions[e].node \in Nodes
       /\ interpreters[i].node \in NextNodes(executions[e].node)

IsAt(e, n) == n \in Nodes /\ KindOf[n] = "APPROVAL" /\ executions[e].node = n

DriversLive ==
  \A e \in ExecutionIds, i \in Interpreters : Drives(i, e) => DriverLives(i, e)

ApprovalsLive ==
  \A e \in ExecutionIds, a \in ApprovalIds : OpenFor(a, e) => IsAt(e, approvals[a].node)

JobsLive ==
  \A e \in ExecutionIds : \A j \in DOMAIN jobs : LiveFor(j, e) => IsAt(e, jobs[j].node)

HandlersLive ==
  \A p \in Processes :
    processors[p].pc \in {"reject", "resume"} =>
      executions[jobs[Job(p)].execution].status = "WAITING"

NoneCancelled == \A w \in Workers : requests[w].pc \in Deciding \cup {"idle"}

LifeInv == DriversLive /\ ApprovalsLive /\ JobsLive /\ HandlersLive /\ NoneCancelled

-----------------------------------------------------------------------------
(* The batches of one process *)

BegunStep ==
  \A j \in DOMAIN jobs :
    jobs'[j].status = "PROCESSING" => jobs[j].status \in {"PENDING", "PROCESSING", "CANCELLED"}

\* No resume job that had been handled is to be handled again.
NoneRevived ==
  \A e \in ExecutionIds : \A j \in 1..Len(jobs) : LiveFor(j, e)' => LiveFor(j, e)

\* Jobs are the ones there were, some of them cancelled, and new ones.
JobsCancelled ==
  /\ Len(jobs) <= Len(jobs')
  /\ \A j \in 1..Len(jobs) :
       /\ jobs'[j].type = jobs[j].type /\ jobs'[j].execution = jobs[j].execution
       /\ jobs'[j].status = jobs[j].status \/ jobs'[j].status = "CANCELLED"

BatchKept == BatchInv' /\ BegunStep /\ NoneRevived

First == {"next", "handle", "reject", "resume"}

\* A processor stops, or goes on with the job it has begun.
GoesOn(p) ==
  \/ processors'[p].pc = "idle" /\ processors'[p].batch = <<>>
  \/ processors'[p] = processors[p]
  \/ /\ processors'[p].batch = processors[p].batch
     /\ processors[p].pc \notin {"idle", "next"}
     /\ processors'[p].pc \notin {"idle", "next"}
     /\ processors'[p].pc \in First => processors[p].pc \in First

LEMMA BatchGoesOn ==
  ASSUME JobsInv, MemoryInv, BatchInv, JobsCancelled, \A p \in Processes : GoesOn(p)
  PROVE  BatchKept
<1>1. BegunStep
  BY DEF BegunStep, JobsCancelled, JobsInv
<1>2. ASSUME NEW p \in Processes, processors'[p].pc # "idle"
      PROVE  /\ \A k, m \in 1..Len(processors'[p].batch) :
                  k # m => processors'[p].batch[k] # processors'[p].batch[m]
             /\ \A k \in 1..Len(processors'[p].batch) :
                  k > 1 \/ processors'[p].pc = "next"
                    => jobs'[processors'[p].batch[k]].status \in {"PENDING", "CANCELLED"}
             /\ processors'[p].pc # "next" => jobs'[Job(p)'].status \in {"PROCESSING", "CANCELLED"}
  <2>1. /\ processors'[p].batch = processors[p].batch /\ processors[p].pc # "idle"
        /\ processors'[p].pc = "next" <=> processors[p].pc = "next"
    BY <1>2 DEF GoesOn
  <2>2. /\ \A k \in 1..Len(processors[p].batch) : processors[p].batch[k] \in 1..Len(jobs)
        /\ Job(p) \in 1..Len(jobs)
    BY <2>1, JobExists DEF MemoryInv, BatchOK
  <2>3. Job(p)' = Job(p)
    BY <2>1 DEF Job
  <2> QED
    BY <2>1, <2>2, <2>3 DEF BatchInv, JobsCancelled
<1>3. ASSUME NEW p \in Processes, NEW j, Unhandled(p, j)' PROVE Unhandled(p, j)
  <2>1. processors'[p].batch = <<>> => FALSE
    BY <1>3, Len(<<>>) = 0 DEF Unhandled
  <2> QED
    BY <1>3, <2>1 DEF Unhandled, GoesOn, First
<1>4. NoneRevived
  BY <1>3 DEF NoneRevived, LiveFor, JobsCancelled
<1> QED
  BY <1>1, <1>2, <1>4 DEF BatchInv, BatchKept

LEMMA JobsUnchanged ==
  ASSUME JobsInv, UNCHANGED jobs
  PROVE  JobsCancelled
  BY DEF JobsCancelled, JobsInv

\* The batch that processNextJobs has read.
LEMMA BatchIsPending ==
  ASSUME JobsInv, NEW batch \in FirstPending
  PROVE  /\ Len(batch) \in Nat /\ batch \in Seq(Nat)
         /\ \A k \in 1..Len(batch) : batch[k] \in 1..Len(jobs) /\ jobs[batch[k]].status = "PENDING"
         /\ \A k, m \in 1..Len(batch) : k # m => batch[k] # batch[m]
<1>2. Pending \subseteq 1..Len(jobs) /\ Len(jobs) \in Nat
  BY DEF Pending, JobsInv
<1>3. Cardinality(Pending) \in Nat
  <2>1. IsFiniteSet(1..Len(jobs))
    BY <1>2, FS_Interval
  <2>2. IsFiniteSet(Pending)
    BY <1>2, <2>1, FS_Subset
  <2> QED
    BY <2>2, FS_CardinalityType
<1> DEFINE n == IF Cardinality(Pending) < MaxConcurrency THEN Cardinality(Pending) ELSE MaxConcurrency
<1>4. n \in Nat
  BY <1>3, EngineAssumption
<1>5. /\ batch \in [1..n -> Pending]
      /\ \A k \in 1..n : batch[k] \notin {batch[i] : i \in 1..(k - 1)}
  BY DEF FirstPending
<1> HIDE DEF n
<1>6. Len(batch) = n /\ batch \in Seq(Nat)
  <2>1. Pending \subseteq Nat
    BY <1>2
  <2>2. batch \in [1..n -> Nat]
    BY <1>5, <2>1
  <2> QED
    BY <1>4, <2>2
<1>7. ASSUME NEW k \in 1..n, NEW m \in 1..n, k < m PROVE batch[k] # batch[m]
  <2>1. k \in 1..(m - 1)
    BY <1>4, <1>7
  <2> QED
    BY <1>5, <2>1
<1>8. \A k, m \in 1..n : k # m => k < m \/ m < k
  BY <1>4
<1>9. \A k, m \in 1..n : k # m => batch[k] # batch[m]
  BY <1>7, <1>8
<1> QED
  BY <1>2, <1>4, <1>5, <1>6, <1>9 DEF Pending

LEMMA ListJobsBatch ==
  ASSUME OneProcess, JobsInv, MemoryInv, BatchInv, NEW p \in Processes, ListJobs(p)
  PROVE  BatchKept
<1>1. PICK batch \in FirstPending :
        processors' = [processors EXCEPT ![p] =
          IF batch = <<>> THEN IdleProcessor ELSE [pc |-> "next", batch |-> batch]]
  BY DEF ListJobs
<1>2. UNCHANGED jobs /\ JobsCancelled
  BY JobsUnchanged DEF ListJobs, tables
<1>3. CASE batch = <<>>
  <2>1. processors'[p].pc = "idle" /\ processors'[p].batch = <<>>
    BY <1>1, <1>3 DEF MemoryInv, IdleProcessor
  <2>2. \A q \in Processes : GoesOn(q)
    BY <2>1 DEF OneProcess, GoesOn
  <2> QED
    BY <1>2, <2>2, BatchGoesOn
<1>4. CASE batch # <<>>
  <2>1. processors'[p].pc = "next" /\ processors'[p].batch = batch
    BY <1>1, <1>4 DEF MemoryInv
  <2>2. /\ \A k \in 1..Len(batch) : batch[k] \in 1..Len(jobs) /\ jobs[batch[k]].status = "PENDING"
        /\ \A k, m \in 1..Len(batch) : k # m => batch[k] # batch[m]
    BY BatchIsPending
  <2>3. BatchInv'
    BY <1>2, <2>1, <2>2 DEF BatchInv, OneProcess
  <2>4. BegunStep
    BY <1>2 DEF BegunStep
  <2>5. \A j : (\E q \in Processes : Unhandled(q, j)') => jobs[j].status = "PENDING"
    BY <2>1, <2>2 DEF Unhandled, OneProcess
  <2>6. NoneRevived
    BY <1>2, <2>5 DEF NoneRevived, LiveFor
  <2> QED
    BY <2>3, <2>4, <2>6 DEF BatchKept
<1> QED
  BY <1>3, <1>4

LEMMA MarkProcessingBatch ==
  ASSUME OneProcess, JobsInv, MemoryInv, BatchInv, NEW p \in Processes, MarkProcessing(p)
  PROVE  BatchKept
<1> DEFINE batch == processors[p].batch
<1>1. /\ processors[p].pc = "next"
      /\ processors'[p].pc = "handle" /\ processors'[p].batch = batch
      /\ jobs' = [jobs EXCEPT ![Job(p)].status = "PROCESSING"]
  BY DEF MarkProcessing, SetJob, MemoryInv, ProcessorRow
<1>2. /\ batch # <<>> /\ batch \in Seq(Nat) /\ Job(p) = batch[1] /\ Job(p) \in 1..Len(jobs)
      /\ \A k \in 1..Len(batch) : batch[k] \in 1..Len(jobs)
      /\ \A k, m \in 1..Len(batch) : k # m => batch[k] # batch[m]
      /\ \A k \in 1..Len(batch) : jobs[batch[k]].status \in {"PENDING", "CANCELLED"}
  BY <1>1, JobExists DEF MemoryInv, BatchOK, BatchInv
<1>3. 1 \in 1..Len(batch) /\ Len(batch) \in Nat
  BY <1>2, EmptySeq
<1>4. Job(p)' = Job(p)
  BY <1>1 DEF Job
<1> HIDE DEF batch
<1>5. /\ Len(jobs') = Len(jobs) /\ jobs'[Job(p)].status = "PROCESSING"
      /\ \A j \in 1..Len(jobs) :
           jobs'[j].type = jobs[j].type /\ jobs'[j].execution = jobs[j].execution
      /\ \A j \in 1..Len(jobs) : j # Job(p) => jobs'[j].status = jobs[j].status
  BY <1>1, <1>2 DEF JobsInv, JobRow
<1>6. BatchInv'
  <2>1. \A k \in 1..Len(batch) : k > 1 => batch[k] # Job(p)
    BY <1>2, <1>3
  <2>2. \A k \in 1..Len(batch) : k > 1 => jobs'[batch[k]].status \in {"PENDING", "CANCELLED"}
    BY <1>2, <1>5, <2>1
  <2> QED
    BY <1>1, <1>2, <1>4, <1>5, <2>2 DEF BatchInv, OneProcess
<1>7. BegunStep
  BY <1>2, <1>3, <1>5 DEF BegunStep, JobsInv
<1>8. \A j : Unhandled(p, j)' => Unhandled(p, j)
  BY <1>1 DEF Unhandled, batch
<1>9. NoneRevived
  BY <1>5, <1>8 DEF NoneRevived, LiveFor, OneProcess
<1> QED
  BY <1>6, <1>7, <1>9 DEF BatchKept

\* The processor is done with a job, which shows it, and takes the next one.
LEMMA NextJobBatch ==
  ASSUME OneProcess, JobsInv, MemoryInv, BatchInv, NEW p \in Processes, processors[p].pc # "idle",
         NEW status \in {"COMPLETED", "FAILED"}, SetJob(p, status),
         processors' = [processors EXCEPT ![p] = NextJob(p)]
  PROVE  BatchKept
<1> DEFINE batch == processors[p].batch
<1>1. jobs' = [jobs EXCEPT ![Job(p)].status = status] /\ processors'[p] = NextJob(p)
  BY DEF SetJob, MemoryInv
<1>2. /\ batch # <<>> /\ batch \in Seq(Nat) /\ Job(p) = batch[1] /\ Job(p) \in 1..Len(jobs)
      /\ \A k \in 1..Len(batch) : batch[k] \in 1..Len(jobs)
      /\ \A k, m \in 1..Len(batch) : k # m => batch[k] # batch[m]
      /\ \A k \in 1..Len(batch) : k > 1 => jobs[batch[k]].status \in {"PENDING", "CANCELLED"}
  BY JobExists DEF MemoryInv, BatchOK, BatchInv
<1>3. 1 \in 1..Len(batch) /\ Len(batch) \in Nat
  BY <1>2, EmptySeq
<1>5. /\ Len(jobs') = Len(jobs) /\ jobs'[Job(p)].status = status
      /\ \A j \in 1..Len(jobs) :
           jobs'[j].type = jobs[j].type /\ jobs'[j].execution = jobs[j].execution
      /\ \A j \in 1..Len(jobs) : j # Job(p) => jobs'[j].status = jobs[j].status
  BY <1>1, <1>2 DEF JobsInv, JobRow
<1>6. BegunStep
  BY <1>5 DEF BegunStep, JobsInv
<1>7. CASE NextJob(p) = IdleProcessor
  <2>1. processors'[p].pc = "idle" /\ processors'[p].batch = <<>>
    BY <1>1, <1>7 DEF IdleProcessor
  <2>2. \A j : ~Unhandled(p, j)'
    BY <2>1, Len(<<>>) = 0 DEF Unhandled
  <2>3. NoneRevived
    BY <1>5, <2>2 DEF NoneRevived, LiveFor, OneProcess
  <2>4. BatchInv'
    BY <2>1 DEF BatchInv, OneProcess
  <2> QED
    BY <1>6, <2>3, <2>4 DEF BatchKept
<1>8. CASE Len(batch) # 1
  <2> DEFINE rest == Tail(batch)
  <2>1. processors'[p].pc = "next" /\ processors'[p].batch = rest
    <3>1. NextJob(p) = [pc |-> "next", batch |-> rest]
      BY <1>8 DEF NextJob
    <3> HIDE DEF rest
    <3> QED
      BY <1>1, <3>1
  <2>2. /\ Len(rest) \in Nat
        /\ \A k \in 1..Len(rest) : k + 1 \in 1..Len(batch) /\ rest[k] = batch[k + 1]
    BY <1>2, <1>8, TailOfBatch
  <2> HIDE DEF batch, rest
  <2>3. \A k, m \in 1..Len(rest) : k # m => rest[k] # rest[m]
    BY <1>2, <2>2
  <2>4. \A k \in 1..Len(rest) : rest[k] # Job(p) /\ k + 1 > 1
    BY <1>2, <1>3, <2>2
  <2>5. \A k \in 1..Len(rest) : jobs'[rest[k]].status \in {"PENDING", "CANCELLED"}
    <3> SUFFICES ASSUME NEW k \in 1..Len(rest)
                 PROVE  jobs'[rest[k]].status \in {"PENDING", "CANCELLED"}
      OBVIOUS
    <3>1. k + 1 \in 1..Len(batch) /\ k + 1 > 1 /\ rest[k] = batch[k + 1] /\ rest[k] # Job(p)
      BY <2>2, <2>4
    <3>2. batch[k + 1] \in 1..Len(jobs) /\ jobs[batch[k + 1]].status \in {"PENDING", "CANCELLED"}
      BY <1>2, <3>1
    <3> QED
      BY <1>5, <3>1, <3>2
  <2>6. BatchInv'
    BY <2>1, <2>3, <2>5 DEF BatchInv, OneProcess
  <2>7. \A j : Unhandled(p, j)' => Unhandled(p, j)
    BY <2>1, <2>2, <2>4 DEF Unhandled, batch
  <2>8. NoneRevived
    BY <1>5, <2>7 DEF NoneRevived, LiveFor, OneProcess
  <2> QED
    BY <1>6, <2>6, <2>8 DEF BatchKept
<1> QED
  BY <1>7, <1>8 DEF NextJob
LEMMA NewJobs ==
  ASSUME JobsInv, MemoryInv, BatchInv, NEW p, NEW job \in JobRow, CreateJob(p, job), UNCHANGED processors
  PROVE  BatchKept
<1>1. jobs' = Append(jobs, job) /\ jobs \in Seq(JobRow)
  BY DEF CreateJob, JobsInv
<1>2. /\ Len(jobs') = Len(jobs) + 1 /\ Len(jobs) \in Nat
      /\ \A j \in 1..Len(jobs) : jobs'[j] = jobs[j]
  BY <1>1
<1>3. JobsCancelled
  BY <1>2 DEF JobsCancelled
<1> QED
  BY <1>3, BatchGoesOn DEF GoesOn

LEMMA JobsSameBatch ==
  ASSUME JobsInv, MemoryInv, BatchInv, UNCHANGED jobs, \A p \in Processes : GoesOn(p)
  PROVE  BatchKept
  BY JobsUnchanged, BatchGoesOn

\* One processor goes on with the job it has begun.
LEMMA SetProcessorBatch ==
  ASSUME JobsInv, MemoryInv, BatchInv, UNCHANGED jobs, NEW p \in Processes,
         NEW pc \in {"handle", "reject", "resume", "await", "returned", "threw"},
         processors[p].pc \notin {"idle", "next"},
         pc \in First => processors[p].pc \in First,
         processors' = [processors EXCEPT ![p].pc = pc]
  PROVE  BatchKept
<1>1. /\ \A q \in Processes \ {p} : processors'[q] = processors[q]
      /\ processors'[p].pc = pc /\ processors'[p].batch = processors[p].batch
  BY DEF MemoryInv, ProcessorRow
<1>2. \A q \in Processes : GoesOn(q)
  BY <1>1 DEF GoesOn
<1> QED
  BY <1>2, JobsSameBatch

\* An interpreter returns or throws to the processor that awaits it.
LEMMA AwaitingBatch ==
  ASSUME JobsInv, MemoryInv, BatchInv, UNCHANGED jobs, NEW i \in Interpreters,
         interpreters[i].pc # "idle", NEW pc \in {"returned", "threw"}, Awaiting(i, pc)
  PROVE  BatchKept
<1>1. CASE interpreters[i].origin = "job"
  <2>1. interpreters[i].process \in Processes /\ processors[interpreters[i].process].pc = "await"
    BY <1>1 DEF MemoryInv, InterpreterOK, Called
  <2> QED
    BY <1>1, <2>1, SetProcessorBatch DEF Awaiting, First
<1>2. CASE interpreters[i].origin # "job"
  BY <1>2, JobsSameBatch DEF Awaiting, GoesOn
<1> QED
  BY <1>1, <1>2

LEMMA CancelJobBatch ==
  ASSUME JobsInv, MemoryInv, BatchInv, NEW w, CancelJob(w)
  PROVE  BatchKept
<1>1. jobs' = [jobs EXCEPT ![requests[w].job].status = "CANCELLED"] /\ UNCHANGED processors
  BY DEF CancelJob
<1>2. JobsCancelled
  BY <1>1 DEF JobsCancelled, JobsInv, JobRow
<1> QED
  BY <1>1, <1>2, BatchGoesOn DEF GoesOn

LEMMA QueueResumeRow ==
  ASSUME VotesInv, NEW w \in Workers, QueueResume(w)
  PROVE  /\ requests[w].approval \in ApprovalIds /\ requests[w].decision \in Decisions
         /\ approvals[requests[w].approval].execution \in ExecutionIds
         /\ NextStatus(requests[w]) = requests[w].decision
         /\ [NewJob("WORKFLOW_RESUME", 2) EXCEPT
               !.execution = approvals[requests[w].approval].execution,
               !.node = approvals[requests[w].approval].node,
               !.decision = NextStatus(requests[w])] \in JobRow
<1> DEFINE a == requests[w].approval
<1>1. /\ a \in ApprovalIds /\ requests[w].decision \in Decisions
      /\ NextStatus(requests[w]) = requests[w].decision
  BY DEF QueueResume, VotesInv, DecisionsAreOnApprovals, Deciding, VoteRequest, NextStatus
<1>2. approvals[a].status # None
  BY DEF QueueResume, VotesInv, DecisionsAreOnApprovals, Deciding
<1>3. approvals[a].execution \in ExecutionIds /\ approvals[a].node \in Nodes \cup {None}
  BY <1>1, <1>2 DEF VotesInv, ApprovalsAreRequested, ApprovalRow
<1>4. NewJob("WORKFLOW_RESUME", 2) \in JobRow
  BY NewJobIsRow DEF JobTypes
<1> QED
  BY <1>1, <1>3, <1>4 DEF JobRow

LEMMA BatchStep ==
  ASSUME OneProcess, IInv, BatchInv, [Next]_vars
  PROVE  BatchKept
<1> JobsInv /\ MemoryInv /\ VotesInv
  BY DEF IInv
<1> USE DEF tables, memory
<1>u. ASSUME UNCHANGED <<jobs, processors>> PROVE BatchKept
  BY <1>u, JobsSameBatch DEF GoesOn
<1>1. ASSUME NEW p \in Processes, Ask(p) PROVE BatchKept
  <2>1. ASSUME NEW e \in ExecutionIds, NEW failed \in ExecutionIds,
               StartExecution(p, e) \/ RetryExecution(p, e, failed)
        PROVE  BatchKept
    BY <2>1, <1>u DEF StartExecution, RetryExecution
  <2>2. CASE QueueExecution(p)
    BY <2>2, NewJobIsRow, NewJobs DEF QueueExecution, JobTypes
  <2>3. ASSUME NEW type \in {"REGISTERED", "UNREGISTERED"}, CreateOther(p, type) PROVE BatchKept
    BY <2>3, NewJobIsRow, NewJobs DEF CreateOther, JobTypes
  <2>4. ASSUME NEW w, NEW a, NEW u, NEW choice, BeginDecision(w, p, a, u, choice) PROVE BatchKept
    BY <2>4, <1>u DEF BeginDecision
  <2> QED
    BY <1>1, <2>1, <2>2, <2>3, <2>4 DEF Ask
<1>2. ASSUME NEW p \in Processes, Processor(p) PROVE BatchKept
  <2>1. CASE ListJobs(p)
    BY <2>1, ListJobsBatch
  <2>2. CASE DropTrigger(p)
    BY <2>2, <1>u DEF DropTrigger
  <2>3. CASE MarkProcessing(p)
    BY <2>3, MarkProcessingBatch
  <2>4. CASE FailUnhandled(p)
    BY <2>4, NextJobBatch DEF FailUnhandled
  <2>5. CASE FinishJob(p)
    BY <2>5, NextJobBatch DEF FinishJob
  <2>6. CASE HandleOther(p)
    <3>1. PICK pc \in {"returned", "threw"} : processors' = [processors EXCEPT ![p].pc = pc]
      BY <2>6 DEF HandleOther
    <3> QED
      BY <2>6, <3>1, SetProcessorBatch DEF HandleOther, Handles, First
  <2>7. ASSUME NEW e \in ExecutionIds, HandleExecutionJob(p, e) PROVE BatchKept
    BY <2>7, SetProcessorBatch DEF HandleExecutionJob, Handles, SetProcessor, First
  <2>8. CASE ReadResume(p)
    <3>1. PICK pc \in {"reject", "resume", "returned"} : processors' = [processors EXCEPT ![p].pc = pc]
      BY <2>8 DEF ReadResume, SetProcessor, ResumePath
    <3> QED
      BY <2>8, <3>1, SetProcessorBatch DEF ReadResume, Handles, First
  <2>9. CASE Reject(p) \/ Resume(p)
    BY <2>9, SetProcessorBatch DEF Reject, Resume, SetProcessor, First
  <2> QED
    BY <1>2, <2>1, <2>2, <2>3, <2>4, <2>5, <2>6, <2>7, <2>8, <2>9 DEF Processor
<1>3. ASSUME NEW w \in Workers, Begin(w) \/ Request(w) PROVE BatchKept
  <2>1. CASE Begin(w)
    BY <2>1, <1>u DEF Begin, BeginCancel, BeginCancelJob
  <2>2. CASE CancelJob(w)
    BY <2>2, CancelJobBatch
  <2>3. CASE QueueResume(w)
    BY <2>3, QueueResumeRow, NewJobs DEF QueueResume
  <2>4. CASE CancelExecution(w) \/ RecordVote(w) \/ RefuseVote(w) \/ CommitDecision(w)
    BY <2>4, <1>u DEF CancelExecution, RecordVote, RefuseVote, CommitDecision
  <2> QED
    BY <1>3, <2>1, <2>2, <2>3, <2>4 DEF Request
<1>4. ASSUME NEW i \in Interpreters, Interpreter(i) PROVE BatchKept
  <2>1. CASE ReadNode(i) \/ Advance(i) \/ Wake(i)
    BY <2>1, <1>u DEF ReadNode, Advance, Wake
  <2>2. CASE ReadStop(i) \/ GiveUp(i) \/ ActionFails(i)
    BY <2>2, AwaitingBatch DEF ReadStop, GiveUp, ActionFails, At, Return
  <2>3. CASE End(i) \/ WaitForApproval(i) \/ Delay(i)
    BY <2>3, AwaitingBatch DEF End, WaitForApproval, Delay, At, Return
  <2>4. ASSUME NEW a \in ApprovalIds, RequestApproval(i, a) PROVE BatchKept
    BY <2>4, <1>u DEF RequestApproval
  <2> QED
    BY <1>4, <2>1, <2>2, <2>3, <2>4 DEF Interpreter
<1>5. CASE Fault
  <2>1. ASSUME NEW p \in Processes, Crash(p) \/ AbandonBatch(p) PROVE BatchKept
    <3>1. /\ processors' = [processors EXCEPT ![p] = IdleProcessor] /\ UNCHANGED jobs
      BY <2>1 DEF Crash, AbandonBatch
    <3>2. processors'[p].pc = "idle" /\ processors'[p].batch = <<>>
      BY <3>1 DEF MemoryInv, IdleProcessor
    <3>3. \A q \in Processes : GoesOn(q)
      BY <3>2 DEF GoesOn, OneProcess
    <3> QED
      BY <3>1, <3>3, JobsSameBatch
  <2>2. ASSUME NEW p \in Processes, HandlerThrows(p) PROVE BatchKept
    BY <2>2, SetProcessorBatch DEF HandlerThrows, SetProcessor, First
  <2>3. ASSUME NEW i \in Interpreters, Throw(i) PROVE BatchKept
    BY <2>3, AwaitingBatch DEF Throw
  <2>4. ASSUME NEW w \in Workers, RollBack(w) PROVE BatchKept
    BY <2>4, <1>u DEF RollBack
  <2> QED
    BY <1>5, <2>1, <2>2, <2>3, <2>4 DEF Fault
<1>6. CASE UNCHANGED vars
  BY <1>6, <1>u DEF vars
<1> QED
  BY <1>1, <1>2, <1>3, <1>4, <1>5, <1>6 DEF Next

LEMMA BatchInit == Init => BatchInv
  BY DEF Init, IdleProcessor, BatchInv

\* processNextJobs: with one process a job is begun once, however it fails and
\* whenever the process crashes.
THEOREM BegunSafety ==
  ASSUME OneProcess
  PROVE  Spec => BegunOnce
<1>1. IInv /\ [Next]_vars => IInv'
  BY ExecutionsKept, VotesKept, JobsKept, MemoryKept DEF IInv
<1>2. IInv /\ BatchInv /\ [Next]_vars => BatchInv'
  BY BatchStep DEF BatchKept
<1>3. IInv /\ BatchInv /\ [Next]_vars =>
        [\A j \in DOMAIN jobs :
           jobs'[j].status = "PROCESSING"
             => jobs[j].status \in {"PENDING", "PROCESSING", "CANCELLED"}]_vars
  BY BatchStep DEF BegunStep, BatchKept
<1> QED
  BY <1>1, <1>2, <1>3, InitInv, BatchInit, PTL DEF Spec, BegunOnce
-----------------------------------------------------------------------------
(* One claim on an execution *)

\* Jobs keep what they are about.
JobsRemember ==
  \A j \in 1..Len(jobs) :
    /\ jobs'[j].type = jobs[j].type /\ jobs'[j].execution = jobs[j].execution
    /\ jobs'[j].node = jobs[j].node /\ jobs'[j].decision = jobs[j].decision

NoneToResume ==
  \A j \in 1..Len(jobs') : j \in 1..Len(jobs) \/ jobs'[j].type # "WORKFLOW_RESUME"

LEMMA StatusRemembers ==
  ASSUME JobsInv, NEW j, NEW status, jobs' = [jobs EXCEPT ![j].status = status]
  PROVE  JobsRemember /\ NoneToResume
<1>1. /\ Len(jobs) \in Nat /\ jobs \in [1..Len(jobs) -> JobRow]
      /\ Len(jobs') = Len(jobs)
  BY DEF JobsInv
<1>2. JobsRemember
  BY <1>1 DEF JobsRemember, JobRow
<1> QED
  BY <1>1, <1>2 DEF NoneToResume

LEMMA CreateRemembers ==
  ASSUME JobsInv, NEW p, NEW job \in JobRow, CreateJob(p, job)
  PROVE  /\ JobsRemember
         /\ Len(jobs') = Len(jobs) + 1 /\ Len(jobs) \in Nat /\ jobs'[Len(jobs')] = job
         /\ job.type # "WORKFLOW_RESUME" => NoneToResume
<1>1. jobs' = Append(jobs, job) /\ jobs \in Seq(JobRow)
  BY DEF CreateJob, JobsInv
<1>2. /\ Len(jobs') = Len(jobs) + 1 /\ Len(jobs) \in Nat /\ jobs'[Len(jobs')] = job
      /\ \A j \in 1..Len(jobs) : jobs'[j] = jobs[j]
  BY <1>1
<1>3. \A j \in 1..Len(jobs') : j \in 1..Len(jobs) \/ j = Len(jobs')
  BY <1>2
<1> QED
  BY <1>2, <1>3 DEF JobsRemember, NoneToResume

LEMMA JobsRemembered ==
  ASSUME IInv, [Next]_vars
  PROVE  JobsRemember /\ (NoneToResume \/ \E w \in Workers : QueueResume(w))
<1> JobsInv /\ VotesInv
  BY DEF IInv
<1> USE DEF tables, memory
<1>u. ASSUME UNCHANGED jobs PROVE JobsRemember /\ NoneToResume
  BY <1>u DEF JobsRemember, NoneToResume, JobsInv
<1>1. ASSUME NEW p \in Processes, Ask(p) PROVE JobsRemember /\ NoneToResume
  <2>1. ASSUME NEW e \in ExecutionIds, NEW failed \in ExecutionIds,
               StartExecution(p, e) \/ RetryExecution(p, e, failed)
        PROVE  JobsRemember /\ NoneToResume
    BY <2>1, <1>u DEF StartExecution, RetryExecution
  <2>2. CASE QueueExecution(p)
    <3>1. PICK priority \in {1, 2} : CreateJob(p, NewJob("WORKFLOW_EXECUTION", priority))
      BY <2>2 DEF QueueExecution
    <3>2. /\ NewJob("WORKFLOW_EXECUTION", priority) \in JobRow
          /\ NewJob("WORKFLOW_EXECUTION", priority).type = "WORKFLOW_EXECUTION"
      BY NewJobIsRow DEF JobTypes, NewJob
    <3> QED
      BY <3>1, <3>2, CreateRemembers
  <2>3. ASSUME NEW type \in {"REGISTERED", "UNREGISTERED"}, CreateOther(p, type)
        PROVE  JobsRemember /\ NoneToResume
    <3>1. NewJob(type, 0) \in JobRow /\ NewJob(type, 0).type = type
      BY NewJobIsRow DEF JobTypes, NewJob
    <3> QED
      BY <2>3, <3>1, CreateRemembers DEF CreateOther
  <2>4. ASSUME NEW w, NEW a, NEW u, NEW choice, BeginDecision(w, p, a, u, choice)
        PROVE  JobsRemember /\ NoneToResume
    BY <2>4, <1>u DEF BeginDecision
  <2> QED
    BY <1>1, <2>1, <2>2, <2>3, <2>4 DEF Ask
<1>2. ASSUME NEW p \in Processes, Processor(p) PROVE JobsRemember /\ NoneToResume
  <2>1. CASE MarkProcessing(p) \/ FailUnhandled(p) \/ FinishJob(p)
    <3>1. PICK status : SetJob(p, status)
      BY <2>1 DEF MarkProcessing, FailUnhandled, FinishJob
    <3> QED
      BY <3>1, StatusRemembers DEF SetJob
  <2>2. CASE ListJobs(p) \/ DropTrigger(p) \/ HandleOther(p) \/ ReadResume(p)
    BY <2>2, <1>u DEF ListJobs, DropTrigger, HandleOther, ReadResume
  <2>3. CASE Reject(p) \/ Resume(p)
    BY <2>3, <1>u DEF Reject, Resume
  <2>4. ASSUME NEW e \in ExecutionIds, HandleExecutionJob(p, e) PROVE JobsRemember /\ NoneToResume
    BY <2>4, <1>u DEF HandleExecutionJob
  <2> QED
    BY <1>2, <2>1, <2>2, <2>3, <2>4 DEF Processor
<1>3. ASSUME NEW w \in Workers, Begin(w) \/ Request(w)
      PROVE  JobsRemember /\ (NoneToResume \/ QueueResume(w))
  <2>1. CASE Begin(w)
    BY <2>1, <1>u DEF Begin, BeginCancel, BeginCancelJob
  <2>2. CASE CancelJob(w)
    BY <2>2, StatusRemembers DEF CancelJob
  <2>3. CASE QueueResume(w)
    BY <2>3, QueueResumeRow, CreateRemembers DEF QueueResume
  <2>4. CASE CancelExecution(w) \/ RecordVote(w) \/ RefuseVote(w) \/ CommitDecision(w)
    BY <2>4, <1>u DEF CancelExecution, RecordVote, RefuseVote, CommitDecision
  <2> QED
    BY <1>3, <2>1, <2>2, <2>3, <2>4 DEF Request
<1>4. ASSUME NEW i \in Interpreters, Interpreter(i) PROVE JobsRemember /\ NoneToResume
  <2>1. CASE ReadNode(i) \/ ReadStop(i) \/ GiveUp(i) \/ Advance(i) \/ ActionFails(i)
    BY <2>1, <1>u DEF ReadNode, ReadStop, GiveUp, Advance, ActionFails
  <2>2. CASE End(i) \/ WaitForApproval(i) \/ Delay(i) \/ Wake(i)
    BY <2>2, <1>u DEF End, WaitForApproval, Delay, Wake
  <2>3. ASSUME NEW a \in ApprovalIds, RequestApproval(i, a) PROVE JobsRemember /\ NoneToResume
    BY <2>3, <1>u DEF RequestApproval
  <2> QED
    BY <1>4, <2>1, <2>2, <2>3 DEF Interpreter
<1>5. CASE Fault
  BY <1>5, <1>u DEF Fault, Crash, AbandonBatch, HandlerThrows, Throw, RollBack
<1>6. CASE UNCHANGED vars
  BY <1>6, <1>u DEF vars
<1> QED
  BY <1>1, <1>2, <1>3, <1>4, <1>5, <1>6 DEF Next

\* The job that a handler is at work on is yet to be handled.
LEMMA HeadIsLive ==
  ASSUME MemoryInv, NEW p \in Processes, processors[p].pc \in {"handle", "reject", "resume"},
         jobs[Job(p)].type = "WORKFLOW_RESUME"
  PROVE  LiveFor(Job(p), jobs[Job(p)].execution)
<1>1. /\ processors[p].batch \in Seq(Nat) /\ processors[p].batch # <<>>
      /\ Job(p) = processors[p].batch[1]
  BY JobExists
<1>2. 1 \in 1..Len(processors[p].batch)
  BY <1>1, EmptySeq
<1> QED
  BY <1>1, <1>2 DEF LiveFor, Unhandled

DriversGoOn ==
  \A i \in Interpreters, e \in ExecutionIds :
    Drives(i, e)' =>
      Drives(i, e) /\ (interpreters[i].pc = "wait" => interpreters'[i].pc = "wait")

NoneReopened ==
  \A a \in ApprovalIds, e \in ExecutionIds : OpenFor(a, e)' => OpenFor(a, e)

StartedStay ==
  \A e \in ExecutionIds : executions'[e].status = None => executions[e].status = None

\* What no handler goes on with has no new driver beside it.
HandlersGoOn ==
  \A p \in Processes :
    processors'[p].pc \in {"reject", "resume"} =>
      \/ processors'[p] = processors[p]
      \/ \A i \in Interpreters : ~Drives(i, jobs[Job(p)].execution)'

\* Claims are given up, and none is new.
LEMMA ClaimsGoOn ==
  ASSUME JobsInv, MemoryInv, ClaimInv, JobsInv', JobsRemember, NoneToResume, NoneRevived,
         DriversGoOn, NoneReopened, StartedStay, HandlersGoOn,
         NoneWaits', DecisionsAreOpen', crashes' = crashes
  PROVE  ClaimInv'
<1>1. \A e \in ExecutionIds : \A j \in DOMAIN jobs' :
        LiveFor(j, e)' => j \in DOMAIN jobs /\ LiveFor(j, e)
  <2>1. DOMAIN jobs' = 1..Len(jobs') /\ DOMAIN jobs = 1..Len(jobs)
    BY DEF JobsInv
  <2> QED
    BY <2>1 DEF NoneToResume, NoneRevived, LiveFor
<1>2. OneClaim'
  BY <1>1 DEF ClaimInv, OneClaim, DriversGoOn, NoneReopened
<1>3. AboutToWait'
  BY <1>1 DEF ClaimInv, AboutToWait, DriversGoOn, NoneReopened
<1>4. NoneBefore'
  BY <1>1 DEF ClaimInv, NoneBefore, DriversGoOn, NoneReopened, StartedStay
<1>5. NoneBeside'
  <2> SUFFICES ASSUME NEW p \in Processes, NEW i \in Interpreters,
                      processors'[p].pc \in {"reject", "resume"}
               PROVE  ~Drives(i, jobs[Job(p)].execution)'
    BY DEF NoneBeside
  <2>1. CASE processors'[p] = processors[p]
    <3>1. Job(p)' = Job(p) /\ Job(p) \in 1..Len(jobs)
      BY <2>1, JobExists DEF Job
    <3>2. jobs[Job(p)].type = "WORKFLOW_RESUME"
      BY <2>1 DEF MemoryInv, ResumesJob
    <3>3. jobs[Job(p)].execution \in ExecutionIds
      BY <3>1, <3>2 DEF JobsInv, ResumesAnExecution
    <3>4. (jobs[Job(p)].execution)' = jobs[Job(p)].execution
      BY <3>1 DEF JobsRemember
    <3>5. ~Drives(i, jobs[Job(p)].execution)
      BY <2>1 DEF ClaimInv, NoneBeside
    <3> QED
      BY <3>3, <3>4, <3>5 DEF DriversGoOn, Drives
  <2> QED
    BY <2>1 DEF HandlersGoOn
<1> QED
  BY <1>2, <1>3, <1>4, <1>5 DEF ClaimInv
\* What is known of every step.
Context ==
  /\ ExecutionsInv /\ VotesInv /\ JobsInv /\ JobsInv' /\ MemoryInv /\ BatchInv /\ ClaimInv
  /\ JobsRemember /\ NoneRevived

RequestsGoOn ==
  \A w \in Workers : requests[w].pc = "queued" => requests'[w] = requests[w]

LEMMA ApprovalsSame ==
  ASSUME UNCHANGED approvals, RequestsGoOn
  PROVE  NoneReopened
  BY DEF NoneReopened, OpenFor, RequestsGoOn

LEMMA DecisionsSame ==
  ASSUME Context, UNCHANGED <<approvals, requests>>
  PROVE  DecisionsAreOpen' /\ RequestsGoOn
  BY DEF Context, ClaimInv, DecisionsAreOpen, RequestsGoOn

\* Steps of requests, and of processors with other jobs.
LEMMA ClaimsBeside ==
  ASSUME Context, NoneToResume, UNCHANGED <<executions, approvals, interpreters, crashes>>,
         HandlersGoOn, RequestsGoOn, DecisionsAreOpen'
  PROVE  ClaimInv'
<1>1. DriversGoOn /\ StartedStay
  BY DEF DriversGoOn, StartedStay, Drives
<1>2. NoneWaits'
  BY DEF Context, ClaimInv, NoneWaits, Drives
<1> QED
  BY <1>1, <1>2, ApprovalsSame, ClaimsGoOn DEF Context

LEMMA ProcessorClaims ==
  ASSUME Context, NoneToResume, UNCHANGED <<executions, approvals, interpreters, requests, crashes>>,
         HandlersGoOn
  PROVE  ClaimInv'
  BY ClaimsBeside, DecisionsSame

\* One request among requests that do not overlap.
LEMMA RequestClaims ==
  ASSUME Alone, Context, NoneToResume, UNCHANGED <<executions, approvals, interpreters, processors, crashes>>,
         NEW w \in Workers, requests[w].pc # "queued",
         NEW r, requests' = [requests EXCEPT ![w] = r],
         r.pc # "queued",
         r.pc \in Deciding => approvals[r.approval].status = "PENDING"
  PROVE  ClaimInv'
<1>1. requests'[w] = r /\ \A v \in Workers : v = w
  BY DEF Context, VotesInv, Alone
<1>2. RequestsGoOn /\ DecisionsAreOpen'
  BY <1>1 DEF RequestsGoOn, DecisionsAreOpen
<1>3. HandlersGoOn
  BY DEF HandlersGoOn
<1> QED
  BY <1>2, <1>3, ClaimsBeside

\* The status of an execution is overwritten, with no driver beside.
LEMMA StatusClaims ==
  ASSUME Context, NoneToResume, UNCHANGED <<approvals, interpreters, crashes>>,
         NEW e \in ExecutionIds, NEW status \in {"CANCELLED", "FAILED"},
         executions' = [executions EXCEPT ![e].status = status],
         HandlersGoOn, RequestsGoOn, DecisionsAreOpen'
  PROVE  ClaimInv'
<1>1. /\ executions'[e].status = status
      /\ \A f \in ExecutionIds \ {e} : executions'[f] = executions[f]
  BY DEF Context, ExecutionsInv, ExecutionRow
<1>2. DriversGoOn
  BY DEF DriversGoOn, Drives
<1>3. StartedStay
  BY <1>1 DEF StartedStay, None
<1>4. NoneWaits'
  BY <1>1 DEF Context, ClaimInv, NoneWaits, Drives
<1> QED
  BY <1>2, <1>3, <1>4, ApprovalsSame, ClaimsGoOn DEF Context

OnlyInterpreter(i) == \A k \in Interpreters \ {i} : interpreters'[k] = interpreters[k]

\* An interpreter goes on with its execution, or returns.
LEMMA InterpreterClaims ==
  ASSUME Context, NoneToResume, UNCHANGED <<approvals, requests, crashes>>, HandlersGoOn,
         NEW i \in Interpreters, NEW e \in ExecutionIds, Drives(i, e), OnlyInterpreter(i),
         \/ interpreters'[i].pc = "idle"
         \/ /\ interpreters'[i].execution = e
            /\ interpreters[i].pc = "wait" => interpreters'[i].pc = "wait",
         \A f \in ExecutionIds \ {e} : executions'[f] = executions[f],
         executions'[e].status # None,
         interpreters'[i].pc \in Running => executions'[e].status # "WAITING"
  PROVE  ClaimInv'
<1>1. \A k \in Interpreters \ {i} : interpreters'[k] = interpreters[k]
  BY DEF OnlyInterpreter
<1>2. DriversGoOn
  BY <1>1 DEF DriversGoOn, Drives
<1>3. StartedStay
  BY DEF StartedStay
<1>4. \A k \in Interpreters \ {i} : ~Drives(k, e)
  BY DEF Context, ClaimInv, OneClaim
<1>5. NoneWaits'
  BY <1>1, <1>4 DEF Context, ClaimInv, NoneWaits, Drives, Running
<1> QED
  BY <1>2, <1>3, <1>5, ApprovalsSame, DecisionsSame, ClaimsGoOn DEF Context

\* A processor that awaited an interpreter takes nothing up.
LEMMA AwaitingGoesOn ==
  ASSUME MemoryInv, NEW i \in Interpreters, interpreters[i].pc # "idle",
         NEW pc \in {"returned", "threw"}, Awaiting(i, pc)
  PROVE  HandlersGoOn
<1>1. CASE interpreters[i].origin = "job"
  <2>1. interpreters[i].process \in Processes
    BY <1>1 DEF MemoryInv, InterpreterOK, Called
  <2>2. /\ processors'[interpreters[i].process].pc = pc
        /\ \A p \in Processes \ {interpreters[i].process} : processors'[p] = processors[p]
    BY <1>1, <2>1 DEF MemoryInv, ProcessorRow, Awaiting
  <2> QED
    BY <2>2 DEF HandlersGoOn
<1>2. CASE interpreters[i].origin # "job"
  BY <1>2 DEF Awaiting, HandlersGoOn
<1> QED
  BY <1>1, <1>2

LEMMA DriverExists ==
  ASSUME Context, NEW i \in Interpreters, interpreters[i].pc # "idle"
  PROVE  /\ interpreters[i].execution \in ExecutionIds /\ Drives(i, interpreters[i].execution)
         /\ executions[interpreters[i].execution].status # None
         /\ executions[interpreters[i].execution] \in ExecutionRow
<1>1. interpreters[i].execution \in ExecutionIds
  BY DEF Context, MemoryInv, InterpreterOK
<1>2. Drives(i, interpreters[i].execution)
  BY DEF Drives
<1> QED
  BY <1>1, <1>2 DEF Context, ClaimInv, NoneBefore, ExecutionsInv

\* Setting the row of the execution an interpreter drives.
LEMMA RowSet ==
  ASSUME ExecutionsInv, NEW e \in ExecutionIds, NEW status, NEW node,
         SetExecution(e, status, node)
  PROVE  /\ executions'[e].status = status /\ executions'[e].node = node
         /\ \A f \in ExecutionIds \ {e} : executions'[f] = executions[f]
  BY DEF ExecutionsInv, SetExecution

LEMMA StatusSet ==
  ASSUME ExecutionsInv, NEW e \in ExecutionIds, NEW status,
         executions' = [executions EXCEPT ![e].status = status]
  PROVE  /\ executions'[e].status = status /\ executions'[e].node = executions[e].node
         /\ \A f \in ExecutionIds \ {e} : executions'[f] = executions[f]
  BY DEF ExecutionsInv, ExecutionRow

LEMMA NodeSet ==
  ASSUME ExecutionsInv, NEW e \in ExecutionIds, NEW node,
         executions' = [executions EXCEPT ![e].node = node]
  PROVE  /\ executions'[e].status = executions[e].status /\ executions'[e].node = node
         /\ \A f \in ExecutionIds \ {e} : executions'[f] = executions[f]
  BY DEF ExecutionsInv, ExecutionRow
LEMMA Returned ==
  ASSUME MemoryInv, NEW i \in Interpreters, interpreters[i].pc # "idle", Return(i)
  PROVE  OnlyInterpreter(i) /\ interpreters'[i].pc = "idle" /\ HandlersGoOn
<1>1. HandlersGoOn
  BY AwaitingGoesOn DEF Return
<1> QED
  BY <1>1 DEF OnlyInterpreter, MemoryInv, Return, Unused

LEMMA WentTo ==
  ASSUME MemoryInv, NEW i \in Interpreters, NEW pc, Goto(i, pc), UNCHANGED processors
  PROVE  /\ OnlyInterpreter(i) /\ HandlersGoOn
         /\ interpreters'[i].pc = pc /\ interpreters'[i].execution = interpreters[i].execution
         /\ interpreters'[i].node = interpreters[i].node
  BY DEF OnlyInterpreter, HandlersGoOn, MemoryInv, InterpreterRow, Goto

LEMMA ReadNodeDoes ==
  ASSUME Context, NEW i \in Interpreters, ReadNode(i), NEW e, e = interpreters[i].execution
  PROVE  /\ OnlyInterpreter(i) /\ HandlersGoOn
         /\ interpreters'[i].pc \in {"fail", "work"} /\ interpreters'[i].execution = e
         /\ interpreters'[i].pc = "work" =>
              /\ executions[e].node # None /\ interpreters'[i].node = executions[e].node
              /\ \A n \in Nodes :
                   steps'[e][n] = IF n = executions[e].node THEN steps[e][n] + 1 ELSE steps[e][n]
              /\ \A f \in ExecutionIds \ {e} : steps'[f] = steps[f]
         /\ interpreters'[i].pc = "fail" => executions[e].node = None /\ steps' = steps
         /\ UNCHANGED <<executions, approvals, jobs, processors, triggered, requests, crashes>>
<1>1. /\ UNCHANGED <<executions, approvals, jobs, processors, triggered, requests, crashes>>
      /\ interpreters' = [interpreters EXCEPT
           ![i].pc = IF executions[e].node = None THEN "fail" ELSE "work",
           ![i].node = executions[e].node,
           ![i].transitions = @ + 1]
  BY DEF ReadNode
<1>2. /\ OnlyInterpreter(i)
      /\ interpreters'[i].pc = IF executions[e].node = None THEN "fail" ELSE "work"
      /\ interpreters'[i].execution = e /\ interpreters'[i].node = executions[e].node
  BY <1>1 DEF Context, MemoryInv, InterpreterRow, OnlyInterpreter
<1>3. steps' = IF executions[e].node = None THEN steps
               ELSE [steps EXCEPT ![e][executions[e].node] = @ + 1]
  BY DEF ReadNode
<1>4. e \in ExecutionIds /\ executions[e].node \in Nodes \cup {None}
  BY DriverExists DEF ReadNode, ExecutionRow
<1>5. executions[e].node # None =>
        /\ \A n \in Nodes :
             steps'[e][n] = IF n = executions[e].node THEN steps[e][n] + 1 ELSE steps[e][n]
        /\ \A f \in ExecutionIds \ {e} : steps'[f] = steps[f]
  BY <1>3, <1>4 DEF Context, ExecutionsInv
<1>6. CASE executions[e].node = None
  <2>1. interpreters'[i].pc = "fail" /\ steps' = steps
    BY <1>2, <1>3, <1>6
  <2> QED
    BY <1>1, <1>2, <1>6, <2>1 DEF HandlersGoOn
<1>7. CASE executions[e].node # None
  <2>1. interpreters'[i].pc = "work"
    BY <1>2, <1>7
  <2> QED
    BY <1>1, <1>2, <1>5, <1>7, <2>1 DEF HandlersGoOn
<1> QED
  BY <1>6, <1>7

LEMMA DelayDoes ==
  ASSUME Context, NEW i \in Interpreters, Delay(i)
  PROVE  /\ OnlyInterpreter(i) /\ HandlersGoOn
         /\ interpreters'[i].pc = "asleep" /\ interpreters'[i].execution = interpreters[i].execution
         /\ interpreters'[i].node \in NextNodes(interpreters[i].node)
<1>1. PICK next \in NextNodes(interpreters[i].node) :
        interpreters' = [interpreters EXCEPT
          ![i].pc = "asleep", ![i].node = next, ![i].origin = "timer"]
  BY DEF Delay
<1>2. HandlersGoOn
  BY AwaitingGoesOn DEF Delay, At, Context
<1> QED
  BY <1>1, <1>2 DEF Context, MemoryInv, InterpreterRow, OnlyInterpreter

LEMMA WakeDoes ==
  ASSUME Context, NEW i \in Interpreters, Wake(i), NEW e, e = interpreters[i].execution
  PROVE  /\ OnlyInterpreter(i) /\ HandlersGoOn
         /\ interpreters[i].pc = "asleep"
         /\ interpreters'[i].pc = "read" /\ interpreters'[i].execution = e
         /\ SetExecution(e, "RUNNING", interpreters[i].node)
         /\ UNCHANGED <<steps, approvals, jobs, processors, requests, crashes>>
  BY DEF Wake, Context, MemoryInv, InterpreterRow, OnlyInterpreter, HandlersGoOn

\* What advanceExecution writes.
LEMMA AdvanceDoes ==
  ASSUME Context, NEW i \in Interpreters, Advance(i), NEW e, e = interpreters[i].execution
  PROVE  \/ /\ SetExecution(e, "COMPLETED", None)
            /\ None \in NextNodes(interpreters[i].node)
         \/ \E next \in NextNodes(interpreters[i].node) :
              next # None /\ executions' = [executions EXCEPT ![e].node = next]
  BY DEF Advance, CompleteExecution

LEMMA InterpreterStepClaims ==
  ASSUME Context, NoneToResume, NEW i \in Interpreters, Interpreter(i),
         \A a \in ApprovalIds : ~RequestApproval(i, a)
  PROVE  ClaimInv'
<1> DEFINE e == interpreters[i].execution
<1>1. interpreters[i].pc # "idle"
  BY DEF Interpreter, ReadNode, ReadStop, GiveUp, Advance, ActionFails, End, WaitForApproval,
     Delay, Wake, At
<1>2. /\ e \in ExecutionIds /\ Drives(i, e) /\ executions[e].status # None
      /\ executions[e] \in ExecutionRow
  BY <1>1, DriverExists
<1>3. interpreters[i].pc \in Running => executions[e].status # "WAITING"
  BY <1>2 DEF Context, ClaimInv, NoneWaits
<1> ExecutionsInv /\ MemoryInv
  BY DEF Context
<1> HIDE DEF e
<1> USE DEF tables
<1>4. CASE ReadNode(i)
  <2>1. interpreters[i].pc = "read"
    BY <1>4 DEF ReadNode
  <2> QED
    BY <1>2, <1>3, <1>4, <2>1, ReadNodeDoes, InterpreterClaims DEF e, Running
<1>5. CASE ReadStop(i)
  BY <1>1, <1>2, <1>5, Returned, InterpreterClaims DEF ReadStop, Running
<1>6. CASE GiveUp(i) \/ ActionFails(i)
  <2>1. /\ executions' = [executions EXCEPT ![e].status = "FAILED"] /\ Return(i)
        /\ UNCHANGED <<approvals, requests, crashes>>
    BY <1>6 DEF GiveUp, ActionFails, FailExecution, e
  <2> QED
    BY <1>1, <1>2, <2>1, StatusSet, Returned, InterpreterClaims DEF Running, None
<1>7. CASE End(i)
  <2>1. /\ SetExecution(e, "COMPLETED", None)
        /\ Return(i) /\ UNCHANGED <<approvals, requests, crashes>>
    BY <1>7 DEF End, CompleteExecution, e
  <2> QED
    BY <1>1, <1>2, <2>1, RowSet, Returned, InterpreterClaims DEF Running, None
<1>8. CASE WaitForApproval(i)
  <2>1. /\ executions' = [executions EXCEPT ![e].status = "WAITING"]
        /\ Return(i) /\ UNCHANGED <<approvals, requests, crashes>>
    BY <1>8 DEF WaitForApproval, SetWaiting, e
  <2> QED
    BY <1>1, <1>2, <2>1, StatusSet, Returned, InterpreterClaims DEF Running, None
<1>9. CASE Delay(i)
  <2>1. /\ executions' = [executions EXCEPT ![e].status = "WAITING"]
        /\ UNCHANGED <<approvals, requests, crashes>> /\ interpreters[i].pc = "work"
    BY <1>9 DEF Delay, SetWaiting, e, At
  <2> QED
    BY <1>1, <1>2, <1>9, <2>1, StatusSet, DelayDoes, InterpreterClaims DEF Running, None, e
<1>10. CASE Wake(i)
  BY <1>2, <1>10, WakeDoes, RowSet, InterpreterClaims DEF None, e
<1>11. CASE Advance(i)
  <2>1. /\ OnlyInterpreter(i) /\ HandlersGoOn
        /\ interpreters'[i].pc = "read" /\ interpreters'[i].execution = e
        /\ interpreters[i].pc = "work" /\ UNCHANGED <<approvals, requests, crashes>>
    BY <1>11, WentTo DEF Advance, e, At
  <2>2. executions'[e].status \notin {None, "WAITING"}
        /\ \A f \in ExecutionIds \ {e} : executions'[f] = executions[f]
    <3>1. CASE SetExecution(e, "COMPLETED", None)
      BY <1>2, <3>1, RowSet DEF None
    <3>2. ASSUME NEW next, executions' = [executions EXCEPT ![e].node = next]
          PROVE  executions'[e].status \notin {None, "WAITING"}
                 /\ \A f \in ExecutionIds \ {e} : executions'[f] = executions[f]
      BY <1>2, <1>3, <2>1, <3>2, NodeSet DEF Running
    <3> QED
      BY <1>11, <3>1, <3>2, AdvanceDoes DEF e
  <2> QED
    BY <1>2, <2>1, <2>2, InterpreterClaims
<1> QED
  BY <1>4, <1>5, <1>6, <1>7, <1>8, <1>9, <1>10, <1>11 DEF Interpreter
LEMMA StartedInterpreter ==
  ASSUME MemoryInv, NEW p, NEW e, NEW origin, StartInterpreter(p, e, origin)
  PROVE  \E i \in Interpreters :
           /\ interpreters[i].pc = "idle" /\ OnlyInterpreter(i)
           /\ interpreters'[i].pc = "read" /\ interpreters'[i].execution = e
  BY DEF StartInterpreter, OnlyInterpreter, MemoryInv

\* One more driver of an execution nothing else has a claim on.
LEMMA NewDriverClaims ==
  ASSUME Context, NoneToResume, UNCHANGED <<approvals, requests, crashes>>,
         NEW i \in Interpreters, interpreters[i].pc = "idle", OnlyInterpreter(i),
         NEW e \in ExecutionIds, interpreters'[i].pc = "read", interpreters'[i].execution = e,
         executions'[e].status = "RUNNING",
         \A f \in ExecutionIds \ {e} : executions'[f] = executions[f],
         \A k \in Interpreters : ~Drives(k, e),
         \A a \in ApprovalIds : ~OpenFor(a, e),
         \A j \in DOMAIN jobs : ~LiveFor(j, e)',
         NoneBeside'
  PROVE  ClaimInv'
<1>1. \A f \in ExecutionIds : \A j \in DOMAIN jobs' :
        LiveFor(j, f)' => j \in DOMAIN jobs /\ LiveFor(j, f) /\ f # e
  <2>1. DOMAIN jobs' = 1..Len(jobs') /\ DOMAIN jobs = 1..Len(jobs)
    BY DEF JobsInv, Context
  <2> QED
    BY <2>1 DEF NoneToResume, NoneRevived, LiveFor, Context
<1>2. \A f \in ExecutionIds : \A a \in ApprovalIds :
        OpenFor(a, f)' => OpenFor(a, f) /\ f # e
  BY DEF OpenFor
<1>3. \A f \in ExecutionIds : \A k \in Interpreters :
        Drives(k, f)' => (k = i /\ f = e) \/ (k # i /\ f # e /\ Drives(k, f) /\ interpreters'[k] = interpreters[k])
  BY DEF Drives, OnlyInterpreter
<1>4. OneClaim'
  BY <1>1, <1>2, <1>3 DEF Context, ClaimInv, OneClaim
<1>5. AboutToWait'
  BY <1>1, <1>2, <1>3 DEF Context, ClaimInv, AboutToWait
<1>6. NoneWaits'
  BY <1>3 DEF Context, ClaimInv, NoneWaits
<1>7. NoneBefore'
  BY <1>1, <1>2, <1>3 DEF Context, ClaimInv, NoneBefore, None
<1> QED
  BY <1>4, <1>5, <1>6, <1>7, DecisionsSame DEF Context, ClaimInv

LEMMA CreateClaims ==
  ASSUME Context, NoneToResume, NEW p \in Processes, NEW e \in ExecutionIds, CreateExecution(p, e),
         UNCHANGED <<approvals, requests, crashes, jobs>>,
         \A q \in Processes : processors'[q] = processors[q] \/ processors'[q].pc = "returned"
  PROVE  ClaimInv'
<1>1. PICK i \in Interpreters :
        /\ interpreters[i].pc = "idle" /\ OnlyInterpreter(i)
        /\ interpreters'[i].pc = "read" /\ interpreters'[i].execution = e
  BY StartedInterpreter DEF Context, CreateExecution
<1>2. /\ executions[e].status = None /\ executions'[e].status = "RUNNING"
      /\ \A f \in ExecutionIds \ {e} : executions'[f] = executions[f]
  BY RowSet DEF Context, CreateExecution
<1>3. /\ \A k \in Interpreters : ~Drives(k, e)
      /\ \A a \in ApprovalIds : ~OpenFor(a, e)
      /\ \A j \in DOMAIN jobs : ~LiveFor(j, e)
  BY <1>2 DEF Context, ClaimInv, NoneBefore
<1>4. \A j \in DOMAIN jobs : ~LiveFor(j, e)'
  BY <1>3 DEF Context, NoneRevived, JobsInv
<1>5. NoneBeside'
  <2> SUFFICES ASSUME NEW q \in Processes, NEW k \in Interpreters,
                      processors'[q] = processors[q], processors[q].pc \in {"reject", "resume"}
               PROVE  ~Drives(k, jobs[Job(q)].execution)'
    BY DEF NoneBeside
  <2>1. (jobs[Job(q)].execution)' = jobs[Job(q)].execution
    BY DEF Job
  <2>2. Job(q) \in DOMAIN jobs /\ LiveFor(Job(q), jobs[Job(q)].execution)
    BY HeadIsLive, JobExists DEF Context, MemoryInv, ResumesJob, JobsInv
  <2>3. jobs[Job(q)].execution # e
    BY <1>3, <2>2
  <2>4. ~Drives(k, jobs[Job(q)].execution)
    BY DEF Context, ClaimInv, NoneBeside
  <2> QED
    BY <1>1, <2>1, <2>3, <2>4 DEF Drives, OnlyInterpreter
<1> QED
  BY <1>1, <1>2, <1>3, <1>4, <1>5, NewDriverClaims

\* handleResumeJob: the job gives its claim to the interpreter it calls.
LEMMA ResumeDoes ==
  ASSUME Alone, Context, NEW p \in Processes, Resume(p), NEW j, j = Job(p),
         NEW e, e = jobs[j].execution
  PROVE  /\ e \in ExecutionIds /\ j \in DOMAIN jobs /\ LiveFor(j, e)
         /\ ~LiveFor(j, e)'
         /\ processors'[p].pc = "await"
         /\ UNCHANGED <<steps, approvals, jobs, requests, crashes>>
         /\ \E i \in Interpreters :
              /\ interpreters[i].pc = "idle" /\ OnlyInterpreter(i)
              /\ interpreters'[i].pc = "read" /\ interpreters'[i].execution = e
<1>1. /\ processors[p].pc = "resume" /\ StartInterpreter(p, e, "job")
      /\ processors' = [processors EXCEPT ![p].pc = "await"]
      /\ UNCHANGED <<steps, approvals, jobs, requests, crashes>>
  BY DEF Resume, SetProcessor
<1>2. /\ j \in 1..Len(jobs) /\ jobs[j].type = "WORKFLOW_RESUME"
      /\ j = processors[p].batch[1] /\ processors[p].batch \in Seq(Nat) /\ processors[p].batch # <<>>
  BY <1>1, JobExists DEF Context, MemoryInv, ResumesJob
<1>3. e \in ExecutionIds /\ j \in DOMAIN jobs
  BY <1>2 DEF Context, JobsInv, ResumesAnExecution
<1>4. LiveFor(j, e)
  BY <1>1, <1>2, HeadIsLive DEF Context
<1>5. processors'[p].pc = "await" /\ processors'[p].batch = processors[p].batch
  BY <1>1 DEF Context, MemoryInv, ProcessorRow
<1>6. jobs[j].status \in {"PROCESSING", "CANCELLED"}
  BY <1>1 DEF Context, BatchInv
<1>7. ~Unhandled(p, j)'
  <2>1. 1 \in 1..Len(processors[p].batch) /\ Len(processors[p].batch) \in Nat
    BY <1>2, EmptySeq
  <2>2. ASSUME NEW k \in 1..Len(processors[p].batch), k > 1 PROVE processors[p].batch[k] # j
    <3>1. k # 1
      BY <2>2
    <3>2. processors[p].batch[k] # processors[p].batch[1]
      BY <1>1, <2>1, <3>1 DEF Context, BatchInv
    <3> QED
      BY <1>2, <3>2
  <2> QED
    BY <1>5, <2>2 DEF Unhandled
<1>8. ~LiveFor(j, e)'
  BY <1>1, <1>6, <1>7 DEF LiveFor, Alone, OneProcess
<1> QED
  BY <1>1, <1>3, <1>4, <1>5, <1>8, StartedInterpreter DEF Context

LEMMA ResumeClaims ==
  ASSUME Alone, Context, NoneToResume, NEW p \in Processes, Resume(p)
  PROVE  ClaimInv'
<1>0. PICK j, e : j = Job(p) /\ e = jobs[j].execution
  OBVIOUS
<1>1. /\ e \in ExecutionIds /\ j \in DOMAIN jobs /\ LiveFor(j, e) /\ ~LiveFor(j, e)'
      /\ processors'[p].pc = "await"
      /\ UNCHANGED <<steps, approvals, jobs, requests, crashes>>
  BY <1>0, ResumeDoes
<1>2. PICK i \in Interpreters :
        /\ interpreters[i].pc = "idle" /\ OnlyInterpreter(i)
        /\ interpreters'[i].pc = "read" /\ interpreters'[i].execution = e
  BY <1>0, ResumeDoes
<1>3. processors[p].pc = "resume" /\ \E next \in ResumeNodes(jobs[j]) : SetExecution(e, "RUNNING", next)
  BY <1>0 DEF Resume
<1>4. executions'[e].status = "RUNNING" /\ \A f \in ExecutionIds \ {e} : executions'[f] = executions[f]
  BY <1>1, <1>3, RowSet DEF Context
<1>5. \A k \in Interpreters : ~Drives(k, e)
  BY <1>0, <1>3 DEF Context, ClaimInv, NoneBeside
<1>6. \A a \in ApprovalIds : ~OpenFor(a, e)
  BY <1>1 DEF Context, ClaimInv, OneClaim
<1>7. ASSUME NEW k \in DOMAIN jobs PROVE ~LiveFor(k, e)'
  <2>1. LiveFor(k, e)' => LiveFor(k, e)
    BY <1>1 DEF Context, NoneRevived, JobsInv
  <2>2. LiveFor(k, e) => k = j
    BY <1>1 DEF Context, ClaimInv, OneClaim
  <2> QED
    BY <1>1, <2>1, <2>2
<1>8. NoneBeside'
  BY <1>1 DEF NoneBeside, Alone, OneProcess
<1> QED
  BY <1>1, <1>2, <1>4, <1>5, <1>6, <1>7, <1>8, NewDriverClaims

LEMMA ReadResumeClaims ==
  ASSUME Alone, Context, NoneToResume, NEW p \in Processes, ReadResume(p)
  PROVE  ClaimInv'
<1> DEFINE j == Job(p)
           e == jobs[j].execution
<1>1. /\ processors[p].pc = "handle" /\ jobs[j].type = "WORKFLOW_RESUME"
      /\ UNCHANGED <<executions, approvals, interpreters, requests, crashes, jobs>>
      /\ processors'[p].batch = processors[p].batch
      /\ processors'[p].pc \in {"reject", "resume"} => executions[e].status = "WAITING"
  BY DEF ReadResume, Handles, tables, Context, MemoryInv, ProcessorRow, SetProcessor, Resumable
<1>2. j \in DOMAIN jobs /\ LiveFor(j, e) /\ e \in ExecutionIds
  BY <1>1, HeadIsLive, JobExists DEF Context, JobsInv, ResumesAnExecution
<1>3. Job(p)' = j /\ (jobs[Job(p)].execution)' = e
  BY <1>1 DEF Job
<1> HIDE DEF e, j
<1>4. executions[e].status = "WAITING" => \A i \in Interpreters : ~Drives(i, e)
  BY <1>2 DEF Context, ClaimInv, AboutToWait, NoneWaits, Running
<1>5. HandlersGoOn
  BY <1>1, <1>3, <1>4 DEF HandlersGoOn, Drives, Alone, OneProcess
<1> QED
  BY <1>1, <1>5, ProcessorClaims

\* executeApprovalNode: the interpreter shares its claim until it waits.
LEMMA RequestApprovalClaims ==
  ASSUME Context, NoneToResume, NEW i \in Interpreters, NEW a \in ApprovalIds, RequestApproval(i, a)
  PROVE  ClaimInv'
<1>0. PICK e : e = interpreters[i].execution
  OBVIOUS
<1>1. /\ interpreters[i].pc = "work" /\ approvals[a].status = None
      /\ Goto(i, "wait")
      /\ UNCHANGED <<executions, steps, jobs, processors, triggered, requests, crashes>>
  BY DEF RequestApproval, At
<1>2. /\ e \in ExecutionIds /\ Drives(i, e) /\ executions[e].status # None
  BY <1>0, <1>1, DriverExists
<1>3. /\ OnlyInterpreter(i) /\ HandlersGoOn
      /\ interpreters'[i].pc = "wait" /\ interpreters'[i].execution = e
  BY <1>0, <1>1, WentTo DEF Context
<1>4. /\ approvals'[a].execution = e
      /\ \A b \in ApprovalIds \ {a} : approvals'[b] = approvals[b]
  BY <1>0 DEF RequestApproval, NoApproval, Context, VotesInv
<1>5. /\ \A b \in ApprovalIds : ~OpenFor(b, e)
      /\ \A j \in DOMAIN jobs : ~LiveFor(j, e)
  BY <1>1, <1>2 DEF Context, ClaimInv, AboutToWait
<1>6. \A f \in ExecutionIds, b \in ApprovalIds :
        OpenFor(b, f)' => (b = a /\ f = e) \/ (b # a /\ f # e /\ OpenFor(b, f))
  BY <1>1, <1>4, <1>5 DEF OpenFor
<1>7. \A f \in ExecutionIds : \A j \in DOMAIN jobs' :
        LiveFor(j, f)' => j \in DOMAIN jobs /\ LiveFor(j, f) /\ f # e
  BY <1>1, <1>5 DEF Context, NoneRevived, JobsInv
<1>8. DriversGoOn
  BY <1>1, <1>2, <1>3 DEF DriversGoOn, Drives, OnlyInterpreter
<1>9. OneClaim'
  BY <1>6, <1>7, <1>8 DEF Context, ClaimInv, OneClaim, DriversGoOn
<1>10. AboutToWait'
  <2>1. \A k \in Interpreters : Drives(k, e)' => interpreters'[k].pc = "wait"
    BY <1>2, <1>3, <1>8 DEF DriversGoOn, Context, ClaimInv, OneClaim
  <2> QED
    BY <1>6, <1>7, <1>8, <2>1 DEF Context, ClaimInv, AboutToWait, DriversGoOn
<1>11. NoneWaits'
  BY <1>1, <1>2, <1>3 DEF Context, ClaimInv, NoneWaits, Drives, OnlyInterpreter, Running
<1>12. NoneBefore'
  BY <1>1, <1>2, <1>6, <1>7, <1>8 DEF Context, ClaimInv, NoneBefore, DriversGoOn
<1>13. NoneBeside'
  <2> SUFFICES ASSUME NEW p \in Processes, NEW k \in Interpreters,
                      processors[p].pc \in {"reject", "resume"}
               PROVE  ~Drives(k, jobs[Job(p)].execution)'
    BY <1>1 DEF NoneBeside
  <2>1. (jobs[Job(p)].execution)' = jobs[Job(p)].execution
    BY <1>1 DEF Job
  <2>2. ~Drives(k, jobs[Job(p)].execution) /\ ~Drives(i, jobs[Job(p)].execution)
    BY DEF Context, ClaimInv, NoneBeside
  <2> QED
    BY <1>2, <1>3, <2>1, <2>2 DEF Drives, OnlyInterpreter
<1>14. DecisionsAreOpen'
  BY <1>1, <1>4 DEF Context, ClaimInv, DecisionsAreOpen, VotesInv, DecisionsAreOnApprovals,
     VoteRequest, None
<1> QED
  BY <1>1, <1>9, <1>10, <1>11, <1>12, <1>13, <1>14 DEF Context, ClaimInv
\* recordDecision: the approval gives its claim to the job.
LEMMA QueueResumeDoes ==
  ASSUME Alone, Context, NEW w \in Workers, QueueResume(w), NEW a, a = requests[w].approval,
         NEW e, e = approvals[a].execution
  PROVE  /\ a \in ApprovalIds /\ e \in ExecutionIds /\ OpenFor(a, e)
         /\ requests[w].decision \in Decisions
         /\ \A v \in Workers : v = w
         /\ requests'[w].pc = "queued" /\ requests'[w].approval = a
         /\ requests'[w].decision = requests[w].decision
         /\ Len(jobs') = Len(jobs) + 1 /\ Len(jobs) \in Nat
         /\ DOMAIN jobs' = 1..Len(jobs') /\ DOMAIN jobs = 1..Len(jobs)
         /\ jobs'[Len(jobs')].execution = e /\ jobs'[Len(jobs')].node = approvals[a].node
         /\ jobs'[Len(jobs')].decision = requests[w].decision
         /\ UNCHANGED <<executions, steps, approvals, processors, interpreters, crashes>>
<1>1. /\ requests[w].pc = "voted"
      /\ requests' = [requests EXCEPT ![w].pc = "queued"]
      /\ UNCHANGED <<executions, steps, approvals, processors, interpreters, crashes>>
  BY DEF QueueResume
<1>2. \A v \in Workers : v = w
  BY DEF Alone
<1>3. requests[w] \in VoteRequest /\ approvals[a].status = "PENDING"
  BY <1>1 DEF Context, ClaimInv, DecisionsAreOpen, VotesInv, DecisionsAreOnApprovals, Deciding
<1>4. /\ a \in ApprovalIds /\ e \in ExecutionIds /\ requests[w].decision \in Decisions
      /\ NextStatus(requests[w]) = requests[w].decision
  BY QueueResumeRow DEF Context
<1>5. OpenFor(a, e)
  BY <1>1, <1>2, <1>3 DEF OpenFor
<1>6. /\ requests'[w].pc = "queued" /\ requests'[w].approval = a
      /\ requests'[w].decision = requests[w].decision
  BY <1>1, <1>3 DEF Context, VotesInv, VoteRequest
<1> DEFINE job == [NewJob("WORKFLOW_RESUME", 2) EXCEPT !.execution = e, !.node = approvals[a].node,
                                                     !.decision = NextStatus(requests[w])]
<1>7. job \in JobRow /\ CreateJob(requests[w].process, job)
  BY QueueResumeRow DEF QueueResume, Context
<1>8. job.execution = e /\ job.node = approvals[a].node /\ job.decision = requests[w].decision
  BY <1>4 DEF NewJob
<1> HIDE DEF job
<1>9. Len(jobs') = Len(jobs) + 1 /\ Len(jobs) \in Nat /\ jobs'[Len(jobs')] = job
  BY <1>7, CreateRemembers DEF Context
<1>10. DOMAIN jobs' = 1..Len(jobs') /\ DOMAIN jobs = 1..Len(jobs)
  BY DEF Context, JobsInv
<1> QED
  BY <1>1, <1>2, <1>4, <1>5, <1>6, <1>8, <1>9, <1>10

LEMMA QueueResumeClaims ==
  ASSUME Alone, Context, NEW w \in Workers, QueueResume(w)
  PROVE  ClaimInv'
<1>0. PICK a, e : a = requests[w].approval /\ e = approvals[a].execution
  OBVIOUS
<1>1. /\ a \in ApprovalIds /\ e \in ExecutionIds /\ OpenFor(a, e)
      /\ requests[w].decision \in Decisions /\ \A v \in Workers : v = w
      /\ requests'[w].pc = "queued" /\ requests'[w].approval = a
      /\ requests'[w].decision = requests[w].decision
      /\ UNCHANGED <<executions, steps, approvals, processors, interpreters, crashes>>
  BY <1>0, QueueResumeDoes
<1>2. /\ Len(jobs') = Len(jobs) + 1 /\ Len(jobs) \in Nat
      /\ DOMAIN jobs' = 1..Len(jobs') /\ DOMAIN jobs = 1..Len(jobs)
      /\ jobs'[Len(jobs')].execution = e
  BY <1>0, QueueResumeDoes
<1>3. PICK new : new = Len(jobs')
  OBVIOUS
<1>4. \A f \in ExecutionIds : \A j \in DOMAIN jobs' :
        LiveFor(j, f)' => (j = new /\ f = e) \/ (j \in DOMAIN jobs /\ LiveFor(j, f))
  <2>1. \A j \in DOMAIN jobs' : j = new \/ j \in DOMAIN jobs
    BY <1>2, <1>3
  <2>2. \A f : LiveFor(new, f)' => f = e
    BY <1>2, <1>3 DEF LiveFor
  <2> QED
    BY <1>2, <2>1, <2>2 DEF Context, NoneRevived
<1>5. \A f \in ExecutionIds, b \in ApprovalIds :
        OpenFor(b, f)' => OpenFor(b, f) /\ b # a
  <2>1. requests[w].pc # "queued"
    BY <1>0, <1>1 DEF OpenFor
  <2> QED
    BY <1>1, <2>1 DEF OpenFor
<1>6. \A f \in ExecutionIds, i \in Interpreters : Drives(i, f)' <=> Drives(i, f)
  BY <1>1 DEF Drives
<1>7. /\ \A b \in ApprovalIds : OpenFor(b, e) => b = a
      /\ \A j \in DOMAIN jobs : ~LiveFor(j, e)
      /\ \A i \in Interpreters : Drives(i, e) => interpreters[i].pc = "wait"
      /\ executions[e].status # None
  BY <1>1 DEF Context, ClaimInv, OneClaim, AboutToWait, NoneBefore
<1>8. OneClaim'
  BY <1>4, <1>5, <1>6, <1>7 DEF Context, ClaimInv, OneClaim
<1>9. AboutToWait'
  BY <1>1, <1>4, <1>5, <1>6, <1>7 DEF Context, ClaimInv, AboutToWait
<1>10. NoneWaits'
  BY <1>1, <1>6 DEF Context, ClaimInv, NoneWaits
<1>11. NoneBefore'
  BY <1>1, <1>4, <1>5, <1>6, <1>7 DEF Context, ClaimInv, NoneBefore
<1>12. NoneBeside'
  <2> SUFFICES ASSUME NEW p \in Processes, NEW i \in Interpreters,
                      processors[p].pc \in {"reject", "resume"}
               PROVE  ~Drives(i, jobs[Job(p)].execution)'
    BY <1>1 DEF NoneBeside
  <2>1. Job(p)' = Job(p) /\ Job(p) \in 1..Len(jobs)
    BY <1>1, JobExists DEF Job, Context
  <2>2. (jobs[Job(p)].execution)' = jobs[Job(p)].execution
    BY <2>1 DEF Context, JobsRemember
  <2>3. ~Drives(i, jobs[Job(p)].execution)
    BY DEF Context, ClaimInv, NoneBeside
  <2> QED
    BY <1>1, <2>2, <2>3 DEF Drives
<1>13. DecisionsAreOpen'
  BY <1>1 DEF DecisionsAreOpen, OpenFor
<1> QED
  BY <1>1, <1>8, <1>9, <1>10, <1>11, <1>12, <1>13 DEF Context, ClaimInv

LEMMA CommitDoes ==
  ASSUME Alone, Context, NEW w \in Workers, CommitDecision(w), NEW a, a = requests[w].approval
  PROVE  /\ a \in ApprovalIds /\ \A v \in Workers : v = w
         /\ approvals[a].status = "PENDING" /\ requests[w].pc \in {"queued", "voted"}
         /\ approvals'[a].status = NextStatus(requests[w])
         /\ approvals'[a].execution = approvals[a].execution
         /\ approvals'[a].node = approvals[a].node
         /\ \A b \in ApprovalIds \ {a} : approvals'[b] = approvals[b]
         /\ requests[w].pc = "queued" => requests[w].decision \in Decisions
         /\ requests'[w].pc = "idle"
<1>1. /\ requests[w].pc \in {"queued", "voted"}
      /\ approvals' = [approvals EXCEPT ![a].status = NextStatus(requests[w]),
                                        ![a].votes[requests[w].user] = requests[w].decision]
      /\ requests' = [requests EXCEPT ![w] = IdleRequest]
  BY DEF CommitDecision
<1>2. /\ requests[w] \in VoteRequest /\ approvals[a].status = "PENDING"
      /\ requests[w].pc = "queued" => requests[w].decision \in Decisions
  BY <1>1 DEF Context, ClaimInv, DecisionsAreOpen, VotesInv, DecisionsAreOnApprovals, Deciding
<1>3. a \in ApprovalIds
  BY <1>2 DEF VoteRequest
<1>4. /\ approvals'[a].status = NextStatus(requests[w])
      /\ approvals'[a].execution = approvals[a].execution
      /\ approvals'[a].node = approvals[a].node
      /\ \A b \in ApprovalIds \ {a} : approvals'[b] = approvals[b]
  BY <1>1, <1>3 DEF Context, VotesInv, ApprovalRow
<1>5. requests'[w].pc = "idle"
  BY <1>1 DEF Context, VotesInv, IdleRequest
<1> QED
  BY <1>1, <1>2, <1>3, <1>4, <1>5 DEF Alone

LEMMA CommitReopensNone ==
  ASSUME Alone, Context, NEW w \in Workers, CommitDecision(w)
  PROVE  NoneReopened
<1>0. PICK a : a = requests[w].approval
  OBVIOUS
<1>1. /\ requests'[w].pc = "idle" /\ \A v \in Workers : v = w
  BY <1>0, CommitDoes
<1>2. ASSUME NEW b \in ApprovalIds, NEW e \in ExecutionIds, OpenFor(b, e)' PROVE OpenFor(b, e)
  <2>1. CASE b # a
    BY <1>0, <1>1, <1>2, <2>1, CommitDoes DEF OpenFor
  <2>2. CASE b = a
    <3>1. NextStatus(requests[w]) = "PENDING" /\ approvals[a].execution = e
      BY <1>0, <1>2, <2>2, CommitDoes DEF OpenFor
    <3>2. requests[w].pc # "queued"
      BY <1>0, <3>1, CommitDoes DEF NextStatus, Decisions
    <3> QED
      BY <1>0, <1>1, <2>2, <3>1, <3>2, CommitDoes DEF OpenFor
  <2> QED
    BY <2>1, <2>2
<1> QED
  BY <1>2 DEF NoneReopened

LEMMA CommitClaims ==
  ASSUME Alone, Context, NoneToResume, NEW w \in Workers, CommitDecision(w)
  PROVE  ClaimInv'
<1>1. /\ UNCHANGED <<executions, interpreters, processors, crashes>>
      /\ requests'[w].pc = "idle" /\ \A v \in Workers : v = w
  BY CommitDoes DEF CommitDecision
<1>2. NoneReopened
  BY CommitReopensNone
<1>3. DriversGoOn /\ StartedStay /\ HandlersGoOn
  BY <1>1 DEF DriversGoOn, StartedStay, HandlersGoOn, Drives
<1>4. NoneWaits'
  BY <1>1 DEF Context, ClaimInv, NoneWaits, Drives
<1>5. DecisionsAreOpen'
  BY <1>1 DEF DecisionsAreOpen, Deciding
<1> QED
  BY <1>1, <1>2, <1>3, <1>4, <1>5, ClaimsGoOn DEF Context

LEMMA CancelExecutionClaims ==
  ASSUME Alone, Context, NoneToResume, NEW w \in Workers, CancelExecution(w)
  PROVE  ClaimInv'
<1>1. /\ requests[w].pc = "cancel" /\ requests' = [requests EXCEPT ![w] = IdleRequest]
      /\ executions' = [executions EXCEPT ![requests[w].execution].status = "CANCELLED"]
      /\ UNCHANGED <<steps, approvals, jobs, processors, interpreters, crashes>>
  BY DEF CancelExecution
<1>2. requests'[w].pc = "idle" /\ \A v \in Workers : v = w
  BY <1>1 DEF Context, VotesInv, IdleRequest, Alone
<1>3. RequestsGoOn /\ DecisionsAreOpen'
  BY <1>1, <1>2 DEF RequestsGoOn, DecisionsAreOpen, Deciding
<1>4. HandlersGoOn
  BY <1>1 DEF HandlersGoOn
<1>5. CASE requests[w].execution \in ExecutionIds
  BY <1>1, <1>3, <1>4, <1>5, StatusClaims
<1>6. CASE requests[w].execution \notin ExecutionIds
  <2>1. executions' = executions
    BY <1>1, <1>6 DEF Context, ExecutionsInv
  <2> QED
    BY <1>1, <1>3, <1>4, <2>1, ClaimsBeside
<1> QED
  BY <1>5, <1>6

LEMMA RejectClaims ==
  ASSUME Alone, Context, NoneToResume, NEW p \in Processes, Reject(p)
  PROVE  ClaimInv'
<1>1. /\ processors[p].pc = "reject" /\ processors'[p].pc = "returned"
      /\ executions' = [executions EXCEPT ![jobs[Job(p)].execution].status = "FAILED"]
      /\ UNCHANGED <<approvals, interpreters, requests, crashes>>
  BY DEF Reject, FailExecution, SetProcessor, Context, MemoryInv, ProcessorRow
<1>2. jobs[Job(p)].execution \in ExecutionIds
  BY <1>1, JobExists DEF Context, MemoryInv, ResumesJob, JobsInv, ResumesAnExecution
<1>3. HandlersGoOn
  BY <1>1 DEF HandlersGoOn, Alone, OneProcess
<1> QED
  BY <1>1, <1>2, <1>3, DecisionsSame, StatusClaims
\* Without failures and crashes nothing happens half way.
LEMMA NoFault ==
  ASSUME Alone, crashes = 0
  PROVE  ~Fault
  BY DEF Alone, Fault, Crash, AbandonBatch, HandlerThrows, Throw, RollBack

LEMMA ProcessorStepClaims ==
  ASSUME Alone, Context, NoneToResume, NEW p \in Processes, Processor(p)
  PROVE  ClaimInv'
<1> USE DEF tables
<1>1. CASE ListJobs(p)
  <2>1. processors'[p].pc \in {"idle", "next"}
    BY <1>1 DEF ListJobs, IdleProcessor, Context, MemoryInv
  <2>2. HandlersGoOn
    BY <2>1 DEF HandlersGoOn, Alone, OneProcess
  <2> QED
    BY <1>1, <2>2, ProcessorClaims DEF ListJobs
<1>2. CASE DropTrigger(p)
  BY <1>2, ProcessorClaims DEF DropTrigger, HandlersGoOn
<1>3. CASE MarkProcessing(p)
  <2>1. processors'[p].pc = "handle"
    BY <1>3 DEF MarkProcessing, Context, MemoryInv, ProcessorRow
  <2>2. HandlersGoOn
    BY <2>1 DEF HandlersGoOn, Alone, OneProcess
  <2> QED
    BY <1>3, <2>2, ProcessorClaims DEF MarkProcessing
<1>4. CASE FailUnhandled(p) \/ FinishJob(p)
  <2>1. processors' = [processors EXCEPT ![p] = NextJob(p)]
    BY <1>4 DEF FailUnhandled, FinishJob
  <2>2. NextJob(p).pc \in {"idle", "next"}
    BY DEF NextJob, IdleProcessor
  <2>3. processors'[p].pc \in {"idle", "next"}
    BY <2>1, <2>2 DEF Context, MemoryInv
  <2>4. HandlersGoOn
    BY <2>3 DEF HandlersGoOn, Alone, OneProcess
  <2> QED
    BY <1>4, <2>4, ProcessorClaims DEF FailUnhandled, FinishJob
<1>5. CASE HandleOther(p)
  <2>1. processors'[p].pc \in {"returned", "threw"}
    BY <1>5 DEF HandleOther, Context, MemoryInv, ProcessorRow
  <2>2. HandlersGoOn
    BY <2>1 DEF HandlersGoOn, Alone, OneProcess
  <2> QED
    BY <1>5, <2>2, ProcessorClaims DEF HandleOther
<1>6. ASSUME NEW e \in ExecutionIds, HandleExecutionJob(p, e) PROVE ClaimInv'
  <2>1. processors'[p].pc = "returned" /\ \A q \in Processes \ {p} : processors'[q] = processors[q]
    BY <1>6 DEF HandleExecutionJob, SetProcessor, Context, MemoryInv, ProcessorRow
  <2> QED
    BY <1>6, <2>1, CreateClaims DEF HandleExecutionJob
<1>7. CASE ReadResume(p)
  BY <1>7, ReadResumeClaims
<1>8. CASE Reject(p)
  BY <1>8, RejectClaims
<1>9. CASE Resume(p)
  BY <1>9, ResumeClaims
<1> QED
  BY <1>1, <1>2, <1>3, <1>4, <1>5, <1>6, <1>7, <1>8, <1>9 DEF Processor

LEMMA AskClaims ==
  ASSUME Alone, Context, NoneToResume, NEW p \in Processes, Ask(p)
  PROVE  ClaimInv'
<1> USE DEF tables
<1>1. ASSUME NEW e \in ExecutionIds, NEW failed \in ExecutionIds,
             StartExecution(p, e) \/ RetryExecution(p, e, failed)
      PROVE  ClaimInv'
  BY <1>1, CreateClaims DEF StartExecution, RetryExecution
<1>2. ASSUME NEW type, QueueExecution(p) \/ CreateOther(p, type) PROVE ClaimInv'
  BY <1>2, ProcessorClaims DEF QueueExecution, CreateOther, HandlersGoOn
<1>3. ASSUME NEW w \in Workers, NEW a \in ApprovalIds, NEW u \in Users, NEW choice \in Choices,
             BeginDecision(w, p, a, u, choice)
      PROVE  ClaimInv'
  <2> DEFINE r == [pc |-> "decide", process |-> p, approval |-> a, user |-> u, decision |-> choice]
  <2>1. /\ requests[w].pc = "idle" /\ requests' = [requests EXCEPT ![w] = r]
        /\ approvals[a].status = "PENDING"
        /\ UNCHANGED <<executions, approvals, interpreters, processors, crashes>>
    BY <1>3 DEF BeginDecision
  <2>2. r.pc = "decide" /\ r.approval = a
    OBVIOUS
  <2> HIDE DEF r
  <2> QED
    BY <2>1, <2>2, RequestClaims
<1> QED
  BY <1>1, <1>2, <1>3 DEF Ask

LEMMA RequestStepClaims ==
  ASSUME Alone, Context, NEW w \in Workers, Begin(w) \/ Request(w),
         NoneToResume \/ QueueResume(w)
  PROVE  ClaimInv'
<1> USE DEF tables
<1>1. CASE QueueResume(w)
  BY <1>1, QueueResumeClaims
<1>2. CASE NoneToResume /\ Begin(w)
  <2>1. ASSUME NEW e, BeginCancel(w, e) PROVE ClaimInv'
    <3>1. PICK p \in Processes :
            requests' = [requests EXCEPT ![w] = [pc |-> "cancel", process |-> p, execution |-> e]]
      BY <2>1 DEF BeginCancel
    <3> DEFINE r == [pc |-> "cancel", process |-> p, execution |-> e]
    <3>2. /\ requests[w].pc = "idle" /\ requests' = [requests EXCEPT ![w] = r]
          /\ UNCHANGED <<executions, approvals, interpreters, processors, crashes>>
      BY <2>1, <3>1 DEF BeginCancel
    <3>3. r.pc = "cancel"
      OBVIOUS
    <3> HIDE DEF r
    <3> QED
      BY <1>2, <3>2, <3>3, RequestClaims DEF Deciding
  <2>2. ASSUME NEW j, BeginCancelJob(w, j) PROVE ClaimInv'
    <3>1. PICK p \in Processes :
            requests' = [requests EXCEPT ![w] = [pc |-> "cancelJob", process |-> p, job |-> j]]
      BY <2>2 DEF BeginCancelJob
    <3> QED
      BY <1>2, <2>2, <3>1, RequestClaims DEF BeginCancelJob, Deciding
  <2> QED
    BY <1>2, <2>1, <2>2 DEF Begin
<1>3. CASE NoneToResume /\ CancelExecution(w)
  BY <1>3, CancelExecutionClaims
<1>4. CASE NoneToResume /\ (CancelJob(w) \/ RefuseVote(w))
  <2>1. /\ requests[w].pc # "queued" /\ requests' = [requests EXCEPT ![w] = IdleRequest]
        /\ UNCHANGED <<executions, approvals, interpreters, processors, crashes>>
    BY <1>4 DEF CancelJob, RefuseVote
  <2> QED
    <3>1. IdleRequest.pc = "idle"
      BY DEF IdleRequest
    <3> QED
      BY <1>4, <2>1, <3>1, RequestClaims DEF Deciding
<1>5. CASE NoneToResume /\ RecordVote(w)
  <2> DEFINE r == [requests[w] EXCEPT !.pc = "voted"]
  <2>1. /\ requests[w].pc = "decide" /\ requests' = [requests EXCEPT ![w].pc = "voted"]
        /\ UNCHANGED <<executions, approvals, interpreters, processors, crashes>>
    BY <1>5 DEF RecordVote
  <2>2. requests[w] \in VoteRequest /\ approvals[requests[w].approval].status = "PENDING"
    BY <2>1 DEF Context, ClaimInv, DecisionsAreOpen, VotesInv, DecisionsAreOnApprovals, Deciding
  <2>3. r.pc = "voted" /\ r.approval = requests[w].approval /\ requests' = [requests EXCEPT ![w] = r]
    BY <2>1, <2>2 DEF VoteRequest
  <2> HIDE DEF r
  <2> QED
    BY <1>5, <2>1, <2>2, <2>3, RequestClaims
<1>6. CASE NoneToResume /\ CommitDecision(w)
  BY <1>6, CommitClaims
<1> QED
  BY <1>1, <1>2, <1>3, <1>4, <1>5, <1>6 DEF Request

\* With one request at a time the step of a request is the step of this one.
LEMMA ContextOfStep ==
  ASSUME Alone, IInv, BatchInv, ClaimInv, [Next]_vars
  PROVE  Context /\ (NoneToResume \/ \E w \in Workers : QueueResume(w))
<1>1. JobsInv'
  BY JobsKept DEF IInv
<1>2. NoneRevived
  BY BatchStep DEF BatchKept, Alone
<1> QED
  BY <1>1, <1>2, JobsRemembered DEF Context, IInv

LEMMA UnchangedClaims ==
  ASSUME ClaimInv, UNCHANGED vars
  PROVE  ClaimInv'
  BY DEF ClaimInv, OneClaim, AboutToWait, NoneWaits, NoneBefore, NoneBeside, DecisionsAreOpen,
     Drives, OpenFor, LiveFor, Unhandled, Job, vars, tables, memory

LEMMA ClaimStep ==
  ASSUME Alone, IInv, BatchInv, ClaimInv, [Next]_vars
  PROVE  ClaimInv'
<1>1. Context /\ (NoneToResume \/ \E w \in Workers : QueueResume(w))
  BY ContextOfStep
<1>2. ASSUME NEW w \in Workers, QueueResume(w) PROVE ClaimInv'
  BY <1>1, <1>2, QueueResumeClaims
<1>3. CASE NoneToResume
  <2>1. ASSUME NEW p \in Processes, Ask(p) \/ Processor(p) PROVE ClaimInv'
    BY <1>1, <1>3, <2>1, AskClaims, ProcessorStepClaims
  <2>2. ASSUME NEW w \in Workers, Begin(w) \/ Request(w) PROVE ClaimInv'
    BY <1>1, <1>3, <2>2, RequestStepClaims
  <2>3. ASSUME NEW i \in Interpreters, Interpreter(i) PROVE ClaimInv'
    <3>1. CASE \E a \in ApprovalIds : RequestApproval(i, a)
      BY <1>1, <1>3, <3>1, RequestApprovalClaims
    <3>2. CASE \A a \in ApprovalIds : ~RequestApproval(i, a)
      BY <1>1, <1>3, <2>3, <3>2, InterpreterStepClaims
    <3> QED
      BY <3>1, <3>2
  <2>4. ~Fault
    BY NoFault DEF ClaimInv
  <2>5. CASE UNCHANGED vars
    BY <2>5, UnchangedClaims
  <2> QED
    BY <2>1, <2>2, <2>3, <2>4, <2>5 DEF Next
<1> QED
  BY <1>1, <1>2, <1>3

LEMMA ClaimInit == Init => ClaimInv
<1> SUFFICES ASSUME Init PROVE ClaimInv
  OBVIOUS
<1>1. /\ \A i \in Interpreters : interpreters[i].pc = "idle"
      /\ \A a \in ApprovalIds : approvals[a].status = None
      /\ DOMAIN jobs = {} /\ crashes = 0
      /\ \A p \in Processes : processors[p].pc = "idle"
      /\ \A w \in Workers : requests[w].pc = "idle"
  BY DEF Init, Unused, NoApproval, IdleProcessor, IdleRequest
<1> QED
  BY <1>1 DEF ClaimInv, OneClaim, AboutToWait, NoneWaits, NoneBefore, NoneBeside, DecisionsAreOpen,
     Drives, OpenFor, Deciding, None

\* With one process, and requests that neither overlap nor fail.
THEOREM OneClaimInductive ==
  ASSUME Alone
  PROVE  Spec => [](IInv /\ BatchInv /\ ClaimInv)
<1>1. Init => IInv /\ BatchInv /\ ClaimInv
  BY InitInv, BatchInit, ClaimInit
<1>2. IInv /\ BatchInv /\ ClaimInv /\ [Next]_vars => (IInv /\ BatchInv /\ ClaimInv)'
  <2> SUFFICES ASSUME IInv, BatchInv, ClaimInv, [Next]_vars
               PROVE  (IInv /\ BatchInv /\ ClaimInv)'
    OBVIOUS
  <2>1. IInv'
    BY ExecutionsKept, VotesKept, JobsKept, MemoryKept DEF IInv
  <2>2. BatchInv'
    BY BatchStep DEF BatchKept, Alone
  <2>3. ClaimInv'
    BY ClaimStep
  <2> QED
    BY <2>1, <2>2, <2>3
<1> QED
  BY <1>1, <1>2, PTL DEF Spec

\* interpretGraph and handleResumeJob: one interpreter or timer at most drives
\* an execution.
THEOREM DriverSafety ==
  ASSUME Alone
  PROVE  Spec => []OneDriver
<1>1. ClaimInv => OneDriver
  <2> SUFFICES ASSUME ClaimInv, NEW e \in ExecutionIds PROVE Cardinality(Drivers(e)) <= 1
    BY DEF OneDriver
  <2>1. \A i, k \in Drivers(e) : i = k
    BY DEF ClaimInv, OneClaim, Drivers, Drives
  <2>2. CASE Drivers(e) = {}
    BY <2>2, FS_EmptySet
  <2>3. ASSUME NEW i \in Drivers(e) PROVE Cardinality(Drivers(e)) <= 1
    <3>1. Drivers(e) = {i}
      BY <2>1
    <3>2. Cardinality({i}) = 1
      BY FS_Singleton
    <3> QED
      BY <3>1, <3>2
  <2> QED
    BY <2>2, <2>3
<1>2. Spec => [](IInv /\ BatchInv /\ ClaimInv)
  BY OneClaimInductive
<1> QED
  BY <1>1, <1>2, PTL
-----------------------------------------------------------------------------
(* Where an execution is *)

\* An approval that was given stays given.
ApprovedKept ==
  \A e \in ExecutionIds, n \in Nodes : ApprovedAt(e, n) => ApprovedAt(e, n)'

LEMMA ApprovedStays ==
  ASSUME Alone, Context, [Next]_vars
  PROVE  ApprovedKept
<1> USE DEF tables
<1>1. ASSUME UNCHANGED approvals, RequestsGoOn PROVE ApprovedKept
  BY <1>1 DEF ApprovedKept, ApprovedAt, RequestsGoOn
<1>2. ASSUME NEW w \in Workers, CommitDecision(w) PROVE ApprovedKept
  <2>0. PICK a : a = requests[w].approval
    OBVIOUS
  <2>1. /\ a \in ApprovalIds /\ \A v \in Workers : v = w
        /\ approvals[a].status = "PENDING"
        /\ approvals'[a].status = NextStatus(requests[w])
        /\ approvals'[a].execution = approvals[a].execution
        /\ approvals'[a].node = approvals[a].node
        /\ \A b \in ApprovalIds \ {a} : approvals'[b] = approvals[b]
    BY <1>2, <2>0, CommitDoes
  <2>2. requests[w].decision = "APPROVED" => NextStatus(requests[w]) = "APPROVED"
    BY DEF NextStatus, Decisions
  <2> QED
    BY <2>0, <2>1, <2>2 DEF ApprovedKept, ApprovedAt
<1>3. ASSUME NEW i \in Interpreters, NEW a \in ApprovalIds, RequestApproval(i, a) PROVE ApprovedKept
  <2>1. /\ approvals[a].status = None /\ UNCHANGED requests
        /\ \A b \in ApprovalIds \ {a} : approvals'[b] = approvals[b]
    BY <1>3 DEF RequestApproval, Context, VotesInv
  <2>2. \A w \in Workers : requests[w].pc = "queued" => requests[w].approval # a
    BY <2>1 DEF Context, ClaimInv, DecisionsAreOpen, Deciding, None
  <2> QED
    BY <2>1, <2>2 DEF ApprovedKept, ApprovedAt, None
<1>4. ASSUME NEW w \in Workers, requests[w].pc # "queued", NEW r, requests' = [requests EXCEPT ![w] = r],
             UNCHANGED approvals
      PROVE  ApprovedKept
  <2>1. RequestsGoOn
    BY <1>4 DEF RequestsGoOn, Alone
  <2> QED
    BY <1>1, <1>4, <2>1
<1>5. ASSUME UNCHANGED <<approvals, requests>> PROVE ApprovedKept
  BY <1>1, <1>5 DEF RequestsGoOn
<1>6. ASSUME NEW p \in Processes, Ask(p) PROVE ApprovedKept
  <2>1. ASSUME NEW e, NEW failed, StartExecution(p, e) \/ RetryExecution(p, e, failed) PROVE ApprovedKept
    BY <2>1, <1>5 DEF StartExecution, RetryExecution
  <2>2. ASSUME NEW type, QueueExecution(p) \/ CreateOther(p, type) PROVE ApprovedKept
    BY <2>2, <1>5 DEF QueueExecution, CreateOther
  <2>3. ASSUME NEW w \in Workers, NEW a, NEW u, NEW choice, BeginDecision(w, p, a, u, choice)
        PROVE  ApprovedKept
    BY <2>3, <1>4 DEF BeginDecision
  <2> QED
    BY <1>6, <2>1, <2>2, <2>3 DEF Ask
<1>7. ASSUME NEW p \in Processes, Processor(p) PROVE ApprovedKept
  BY <1>5, <1>7 DEF Processor, ListJobs, DropTrigger, MarkProcessing, FailUnhandled, HandleOther,
     HandleExecutionJob, ReadResume, Reject, Resume, FinishJob
<1>8. ASSUME NEW w \in Workers, Begin(w) \/ Request(w) PROVE ApprovedKept
  <2>1. CASE Begin(w)
    BY <2>1, <1>4 DEF Begin, BeginCancel, BeginCancelJob
  <2>2. CASE CancelExecution(w) \/ CancelJob(w) \/ RefuseVote(w)
    BY <2>2, <1>4 DEF CancelExecution, CancelJob, RefuseVote
  <2>3. CASE RecordVote(w) \/ QueueResume(w)
    <3>1. requests[w].pc # "queued" /\ UNCHANGED approvals
      BY <2>3 DEF RecordVote, QueueResume
    <3>2. RequestsGoOn
      BY <3>1 DEF RequestsGoOn, Alone
    <3> QED
      BY <1>1, <3>1, <3>2
  <2> QED
    BY <1>2, <1>8, <2>1, <2>2, <2>3 DEF Request
<1>9. ASSUME NEW i \in Interpreters, Interpreter(i) PROVE ApprovedKept
  <2>1. CASE \E a \in ApprovalIds : RequestApproval(i, a)
    BY <1>3, <2>1
  <2>2. CASE \A a \in ApprovalIds : ~RequestApproval(i, a)
    <3>1. UNCHANGED <<approvals, requests>>
      BY <1>9, <2>2 DEF Interpreter, ReadNode, ReadStop, GiveUp, Advance, ActionFails, End,
         WaitForApproval, Delay, Wake
    <3> QED
      BY <1>5, <3>1
  <2> QED
    BY <2>1, <2>2
<1>10. ~Fault
  BY NoFault DEF Context, ClaimInv
<1>11. CASE UNCHANGED vars
  BY <1>5, <1>11 DEF vars, memory
<1> QED
  BY <1>6, <1>7, <1>8, <1>9, <1>10, <1>11 DEF Next

LEMMA RankOfEdges ==
  ASSUME Acyclic
  PROVE  Rank \in [Nodes -> Nat] /\ \A edge \in Edges : Rank[edge[1]] < Rank[edge[2]]
  BY DEF Acyclic, Rank

LEMMA AheadStays ==
  ASSUME ApprovedKept, NEW e \in ExecutionIds, steps'[e] = steps[e], NEW m, Ahead(e, m)
  PROVE  Ahead(e, m)'
  BY DEF ApprovedKept, Ahead, GateOpen

LEMMA ReachedStays ==
  ASSUME NEW e \in ExecutionIds, steps'[e] = steps[e], NEW n, Reached(e, n)
  PROVE  Reached(e, n)'
  BY DEF Reached

\* Past a node that is no approval, or past an approval that was given.
LEMMA PastNode ==
  ASSUME ExecutionsInv, NEW e \in ExecutionIds, NEW n \in Nodes, Reached(e, n),
         NEW m \in NextNodes(n), KindOf[n] # "APPROVAL" \/ ApprovedAt(e, n)
  PROVE  Ahead(e, m)
<1> SUFFICES ASSUME m \in Nodes PROVE Ahead(e, m)
  BY DEF Ahead
<1>1. <<n, m>> \in Edges
  BY GraphAssumption DEF NextNodes, ValidGraph
<1>2. Gated => GateOpen(e, m)
  <2> SUFFICES ASSUME Gated, NEW k \in Nodes, KindOf[k] = "APPROVAL", <<k, m>> \in Edges
               PROVE  ApprovedAt(e, k)
    BY DEF GateOpen
  <2>1. <<k, m>>[1] = <<n, m>>[1]
    BY <1>1 DEF Gated
  <2> QED
    BY <2>1
<1>3. Acyclic => \A k \in Nodes : steps[e][k] > 0 => Rank[k] < Rank[m]
  <2> SUFFICES ASSUME Acyclic, NEW k \in Nodes, steps[e][k] > 0 PROVE Rank[k] < Rank[m]
    OBVIOUS
  <2>1. Rank[k] <= Rank[n]
    BY DEF Reached
  <2>2. Rank \in [Nodes -> Nat] /\ \A edge \in Edges : Rank[edge[1]] < Rank[edge[2]]
    BY RankOfEdges
  <2>3. Rank[<<n, m>>[1]] < Rank[<<n, m>>[2]]
    BY <1>1, <2>2
  <2>4. Rank[k] \in Nat /\ Rank[n] \in Nat /\ Rank[m] \in Nat
    BY <2>2
  <2> QED
    BY <2>1, <2>3, <2>4
<1> QED
  BY <1>2, <1>3 DEF Ahead

LEMMA AtStart ==
  ASSUME NEW e, \A n \in Nodes : steps[e][n] = 0
  PROVE  Ahead(e, StartNode)
<1>1. \A n \in Nodes : <<n, StartNode>> \notin Edges
  BY GraphAssumption DEF ValidGraph
<1> QED
  BY <1>1 DEF Ahead, GateOpen

TakesUpNone ==
  \A p \in Processes :
    processors'[p].pc \in {"reject", "resume"} => processors'[p] = processors[p]

\* Nothing runs: each part of the invariant from what became of its actors.
LEMMA PositionGoesOn ==
  ASSUME PositionInv, ApprovedKept, UNCHANGED steps, StartedStay,
         DriversAt', ApprovalsAt', JobsAt', ResumesApproved'
  PROVE  PositionInv'
<1>1. NoneRan'
  BY DEF PositionInv, NoneRan, StartedStay
<1>2. Gated => ApprovedBeforePassing'
  <2> SUFFICES ASSUME Gated, NEW e \in ExecutionIds, NEW edge \in Edges,
                      KindOf[edge[1]] = "APPROVAL", steps'[e][edge[2]] > 0
               PROVE  ApprovedAt(e, edge[1])'
    BY DEF ApprovedBeforePassing
  <2>1. ApprovedAt(e, edge[1])
    BY DEF PositionInv, ApprovedBeforePassing
  <2>2. edge[1] \in Nodes
    BY GraphAssumption DEF ValidGraph
  <2> QED
    BY <2>1, <2>2 DEF ApprovedKept
<1>3. Acyclic => NodesRunOnce'
  BY DEF PositionInv, NodesRunOnce
<1> QED
  BY <1>1, <1>2, <1>3 DEF PositionInv

LEMMA JobsStayAt ==
  ASSUME Context, NoneToResume, JobsAt, ApprovedKept,
         \A e \in ExecutionIds : \A j \in DOMAIN jobs : LiveFor(j, e) => steps'[e] = steps[e]
  PROVE  JobsAt'
<1> SUFFICES ASSUME NEW e \in ExecutionIds, NEW j \in DOMAIN jobs', LiveFor(j, e)'
             PROVE  JobAt(j, e)'
  BY DEF JobsAt
<1>1. DOMAIN jobs' = 1..Len(jobs') /\ DOMAIN jobs = 1..Len(jobs)
  BY DEF JobsInv, Context
<1>2. j \in DOMAIN jobs /\ LiveFor(j, e)
  BY <1>1 DEF NoneToResume, NoneRevived, LiveFor, Context
<1>3. jobs'[j].node = jobs[j].node /\ jobs'[j].decision = jobs[j].decision
  BY <1>1, <1>2 DEF Context, JobsRemember
<1>4. JobAt(j, e) /\ steps'[e] = steps[e]
  BY <1>2 DEF JobsAt
<1> QED
  BY <1>3, <1>4 DEF JobAt, Reached, ApprovedKept

LEMMA ApprovalsStayAt ==
  ASSUME ApprovalsAt, NoneReopened,
         \A e \in ExecutionIds, a \in ApprovalIds :
           OpenFor(a, e) => approvals'[a].node = approvals[a].node /\ steps'[e] = steps[e]
  PROVE  ApprovalsAt'
  BY DEF ApprovalsAt, NoneReopened, Reached

\* Drivers other than one stay where they are.
LEMMA OthersStayAt ==
  ASSUME DriversAt, ApprovedKept, UNCHANGED steps,
         NEW i \in Interpreters, NEW e \in ExecutionIds, OnlyInterpreter(i),
         \A k \in Interpreters \ {i} : ~Drives(k, e),
         \A f \in ExecutionIds \ {e} : executions'[f] = executions[f],
         interpreters'[i].pc = "idle" \/ interpreters'[i].execution = e,
         interpreters'[i].pc # "idle" => DriverAt(i, e)'
  PROVE  DriversAt'
<1> SUFFICES ASSUME NEW f \in ExecutionIds, NEW k \in Interpreters, Drives(k, f)'
             PROVE  DriverAt(k, f)'
  BY DEF DriversAt
<1>1. CASE k = i
  BY <1>1 DEF Drives
<1>2. CASE k # i
  <2>1. interpreters'[k] = interpreters[k] /\ Drives(k, f) /\ f # e
    BY <1>2 DEF OnlyInterpreter, Drives
  <2>2. DriverAt(k, f) /\ executions'[f] = executions[f] /\ steps'[f] = steps[f]
    BY <2>1 DEF DriversAt
  <2>3. \A m : Ahead(f, m) => Ahead(f, m)'
    BY <2>2, AheadStays
  <2>4. \A m : Reached(f, m) => Reached(f, m)'
    BY <2>2, ReachedStays
  <2>5. (executions[f].node)' = executions[f].node /\ (interpreters[k].node)' = interpreters[k].node
    BY <2>1, <2>2
  <2> QED
    BY <2>1, <2>2, <2>3, <2>4, <2>5 DEF DriverAt
<1> QED
  BY <1>1, <1>2

LEMMA DriversStayAt ==
  ASSUME DriversAt, ApprovedKept, UNCHANGED <<steps, interpreters>>,
         \A e \in ExecutionIds : executions'[e].node = executions[e].node
  PROVE  DriversAt'
<1> SUFFICES ASSUME NEW e \in ExecutionIds, NEW i \in Interpreters, Drives(i, e)'
             PROVE  DriverAt(i, e)'
  BY DEF DriversAt
<1>1. DriverAt(i, e) /\ steps'[e] = steps[e]
  BY DEF DriversAt, Drives
<1>2. \A m : Ahead(e, m) => Ahead(e, m)'
  BY <1>1, AheadStays
<1>3. \A m : Reached(e, m) => Reached(e, m)'
  BY <1>1, ReachedStays
<1> QED
  BY <1>1, <1>2, <1>3 DEF DriverAt

LEMMA ResumesStay ==
  ASSUME Context, ResumesApproved,
         \A p \in Processes : processors'[p].pc = "resume" => processors'[p] = processors[p]
  PROVE  ResumesApproved'
<1> SUFFICES ASSUME NEW p \in Processes, processors'[p] = processors[p], processors[p].pc = "resume"
             PROVE  jobs'[Job(p)'].decision = "APPROVED"
  BY DEF ResumesApproved
<1>1. Job(p)' = Job(p) /\ Job(p) \in 1..Len(jobs)
  BY JobExists DEF Job, Context
<1> QED
  BY <1>1 DEF ResumesApproved, Context, JobsRemember

\* Steps of requests and processors that leave executions where they are.
LEMMA PositionBeside ==
  ASSUME Context, PositionInv, ApprovedKept, NoneToResume, UNCHANGED <<steps, interpreters>>,
         \A e \in ExecutionIds : executions'[e].node = executions[e].node,
         StartedStay, NoneReopened, ResumesApproved',
         \A a \in ApprovalIds : approvals'[a].node = approvals[a].node
  PROVE  PositionInv'
<1>1. DriversAt'
  BY DriversStayAt DEF PositionInv
<1>2. ApprovalsAt'
  BY ApprovalsStayAt DEF PositionInv
<1>3. JobsAt'
  BY JobsStayAt DEF PositionInv
<1> QED
  BY <1>1, <1>2, <1>3, PositionGoesOn

\* Most of them do not even touch executions and approvals.
LEMMA PositionSame ==
  ASSUME Context, PositionInv, ApprovedKept, NoneToResume,
         UNCHANGED <<executions, steps, approvals, interpreters>>, NoneReopened, ResumesApproved'
  PROVE  PositionInv'
  BY PositionBeside DEF StartedStay

LEMMA ProcessorPosition ==
  ASSUME Context, PositionInv, ApprovedKept, NoneToResume,
         UNCHANGED <<executions, steps, approvals, interpreters, requests>>,
         \A p \in Processes : processors'[p].pc = "resume" => processors'[p] = processors[p]
  PROVE  PositionInv'
<1>1. NoneReopened
  BY ApprovalsSame DEF RequestsGoOn
<1>2. ResumesApproved'
  BY ResumesStay DEF PositionInv
<1> QED
  BY <1>1, <1>2, PositionSame

LEMMA RequestPosition ==
  ASSUME Alone, Context, PositionInv, ApprovedKept, NoneToResume,
         UNCHANGED <<executions, steps, approvals, interpreters, processors>>,
         NEW w \in Workers, requests[w].pc # "queued"
  PROVE  PositionInv'
<1>1. RequestsGoOn
  BY DEF RequestsGoOn, Alone
<1>2. NoneReopened
  BY <1>1, ApprovalsSame
<1>3. ResumesApproved'
  BY ResumesStay DEF PositionInv
<1> QED
  BY <1>2, <1>3, PositionSame

\* An interpreter goes on from its node to the next one.
LEMMA InterpreterPosition ==
  ASSUME Context, PositionInv, ApprovedKept, NoneToResume, UNCHANGED <<steps, approvals, requests>>,
         NEW i \in Interpreters, NEW e \in ExecutionIds, OnlyInterpreter(i),
         \A k \in Interpreters \ {i} : ~Drives(k, e),
         \A f \in ExecutionIds \ {e} : executions'[f] = executions[f],
         executions'[e].status # None,
         interpreters'[i].pc = "idle" \/ interpreters'[i].execution = e,
         interpreters'[i].pc # "idle" => DriverAt(i, e)',
         \A p \in Processes : processors'[p].pc = "resume" => processors'[p] = processors[p]
  PROVE  PositionInv'
<1>1. DriversAt'
  BY OthersStayAt DEF PositionInv
<1>2. NoneReopened
  BY ApprovalsSame DEF RequestsGoOn
<1>3. ApprovalsAt'
  BY <1>2, ApprovalsStayAt DEF PositionInv
<1>4. JobsAt'
  BY JobsStayAt DEF PositionInv
<1>5. ResumesApproved'
  BY ResumesStay DEF PositionInv
<1>6. StartedStay
  BY DEF StartedStay
<1> QED
  BY <1>1, <1>3, <1>4, <1>5, <1>6, PositionGoesOn

LEMMA CreatePosition ==
  ASSUME Context, PositionInv, ApprovedKept, NoneToResume,
         NEW p \in Processes, NEW e \in ExecutionIds, CreateExecution(p, e),
         UNCHANGED <<steps, approvals, requests>>,
         \A q \in Processes : processors'[q].pc = "resume" => processors'[q] = processors[q]
  PROVE  PositionInv'
<1>1. PICK i \in Interpreters :
        /\ interpreters[i].pc = "idle" /\ OnlyInterpreter(i)
        /\ interpreters'[i].pc = "read" /\ interpreters'[i].execution = e
  BY StartedInterpreter DEF Context, CreateExecution
<1>2. /\ executions[e].status = None /\ executions'[e].status = "RUNNING"
      /\ executions'[e].node = StartNode
      /\ \A f \in ExecutionIds \ {e} : executions'[f] = executions[f]
  BY RowSet DEF Context, CreateExecution
<1>3. \A k \in Interpreters : ~Drives(k, e)
  BY <1>2 DEF Context, ClaimInv, NoneBefore
<1>4. \A n \in Nodes : steps[e][n] = 0
  BY <1>2 DEF PositionInv, NoneRan
<1>5. Ahead(e, StartNode)'
  <2>1. Ahead(e, StartNode)
    BY <1>4, AtStart
  <2> QED
    BY <2>1, AheadStays
<1>6. DriverAt(i, e)'
  BY <1>1, <1>2, <1>5 DEF DriverAt
<1> QED
  BY <1>1, <1>2, <1>3, <1>6, InterpreterPosition DEF None

\* handleResumeJob goes past an approval that was given.
LEMMA ResumePosition ==
  ASSUME Alone, Context, PositionInv, ApprovedKept, NoneToResume, NEW p \in Processes, Resume(p)
  PROVE  PositionInv'
<1>0. PICK j, e : j = Job(p) /\ e = jobs[j].execution
  OBVIOUS
<1>1. /\ e \in ExecutionIds /\ j \in DOMAIN jobs /\ LiveFor(j, e)
      /\ processors'[p].pc = "await"
      /\ UNCHANGED <<steps, approvals, jobs, requests, crashes>>
  BY <1>0, ResumeDoes
<1>2. PICK i \in Interpreters :
        /\ interpreters[i].pc = "idle" /\ OnlyInterpreter(i)
        /\ interpreters'[i].pc = "read" /\ interpreters'[i].execution = e
  BY <1>0, ResumeDoes
<1>3. processors[p].pc = "resume" /\ \E next \in ResumeNodes(jobs[j]) : SetExecution(e, "RUNNING", next)
  BY <1>0 DEF Resume
<1>4. PICK m \in NextNodes(jobs[j].node) : SetExecution(e, "RUNNING", m)
  BY <1>3 DEF ResumeNodes
<1>5. /\ executions'[e].status = "RUNNING" /\ executions'[e].node = m
      /\ \A f \in ExecutionIds \ {e} : executions'[f] = executions[f]
  BY <1>1, <1>4, RowSet DEF Context
<1>6. \A k \in Interpreters : ~Drives(k, e)
  BY <1>0, <1>3 DEF Context, ClaimInv, NoneBeside
<1>7. JobAt(j, e) /\ jobs[j].decision = "APPROVED"
  BY <1>0, <1>1, <1>3 DEF PositionInv, JobsAt, ResumesApproved
<1>8. Ahead(e, m)'
  <2>1. Ahead(e, m)
    BY <1>1, <1>7, PastNode DEF JobAt, Context
  <2> QED
    BY <1>1, <2>1, AheadStays
<1>9. DriverAt(i, e)'
  BY <1>2, <1>5, <1>8 DEF DriverAt
<1>10. \A q \in Processes : processors'[q].pc = "resume" => processors'[q] = processors[q]
  BY <1>1 DEF Alone, OneProcess
<1> QED
  BY <1>1, <1>2, <1>5, <1>6, <1>9, <1>10, InterpreterPosition DEF None

\* handleResumeJob goes on with an approval only.
LEMMA ReadResumePosition ==
  ASSUME Alone, Context, PositionInv, ApprovedKept, NoneToResume, NEW p \in Processes, ReadResume(p)
  PROVE  PositionInv'
<1>0. PICK j, e : j = Job(p) /\ e = jobs[j].execution
  OBVIOUS
<1>1. /\ processors[p].pc = "handle" /\ jobs[j].type = "WORKFLOW_RESUME"
      /\ UNCHANGED <<executions, steps, approvals, interpreters, requests, jobs>>
      /\ processors'[p].batch = processors[p].batch
      /\ processors'[p].pc = "resume" => ResumePath(jobs[j]) = "resume"
  BY <1>0 DEF ReadResume, Handles, tables, Context, MemoryInv, ProcessorRow, SetProcessor
<1>2. j \in DOMAIN jobs /\ LiveFor(j, e) /\ e \in ExecutionIds
  BY <1>0, <1>1, HeadIsLive, JobExists DEF Context, JobsInv, ResumesAnExecution
<1>3. jobs[j].decision \in Decisions
  BY <1>2 DEF PositionInv, JobsAt, JobAt
<1>4. processors'[p].pc = "resume" => jobs[j].decision = "APPROVED"
  BY <1>1, <1>3 DEF ResumePath, Decisions
<1>5. Job(p)' = j
  BY <1>0, <1>1 DEF Job
<1>6. ResumesApproved'
  BY <1>1, <1>4, <1>5 DEF ResumesApproved, Alone, OneProcess
<1>7. NoneReopened
  BY <1>1, ApprovalsSame DEF RequestsGoOn
<1> QED
  BY <1>1, <1>6, <1>7, PositionSame

LEMMA ProcessorStepPosition ==
  ASSUME Alone, Context, PositionInv, ApprovedKept, NoneToResume, NEW p \in Processes, Processor(p)
  PROVE  PositionInv'
<1> USE DEF tables
<1>1. ASSUME processors'[p].pc # "resume", 
             UNCHANGED <<executions, steps, approvals, interpreters, requests>>
      PROVE  PositionInv'
  BY <1>1, ProcessorPosition DEF Alone, OneProcess
<1>2. CASE ListJobs(p)
  <2>1. processors'[p].pc \in {"idle", "next"}
    BY <1>2 DEF ListJobs, IdleProcessor, Context, MemoryInv
  <2> QED
    BY <1>1, <1>2, <2>1 DEF ListJobs
<1>3. CASE DropTrigger(p)
  BY <1>3, ProcessorPosition DEF DropTrigger
<1>4. CASE MarkProcessing(p)
  <2>1. processors'[p].pc = "handle"
    BY <1>4 DEF MarkProcessing, Context, MemoryInv, ProcessorRow
  <2> QED
    BY <1>1, <1>4, <2>1 DEF MarkProcessing
<1>5. CASE FailUnhandled(p) \/ FinishJob(p)
  <2>1. processors' = [processors EXCEPT ![p] = NextJob(p)]
    BY <1>5 DEF FailUnhandled, FinishJob
  <2>2. NextJob(p).pc \in {"idle", "next"}
    BY DEF NextJob, IdleProcessor
  <2>3. processors'[p].pc \in {"idle", "next"}
    BY <2>1, <2>2 DEF Context, MemoryInv
  <2> QED
    BY <1>1, <1>5, <2>3 DEF FailUnhandled, FinishJob
<1>6. CASE HandleOther(p)
  <2>1. processors'[p].pc \in {"returned", "threw"}
    BY <1>6 DEF HandleOther, Context, MemoryInv, ProcessorRow
  <2> QED
    BY <1>1, <1>6, <2>1 DEF HandleOther
<1>7. ASSUME NEW e \in ExecutionIds, HandleExecutionJob(p, e) PROVE PositionInv'
  <2>1. processors'[p].pc = "returned"
    BY <1>7 DEF HandleExecutionJob, SetProcessor, Context, MemoryInv, ProcessorRow
  <2>2. \A q \in Processes : processors'[q].pc = "resume" => processors'[q] = processors[q]
    BY <2>1 DEF Alone, OneProcess
  <2> QED
    BY <1>7, <2>2, CreatePosition DEF HandleExecutionJob
<1>8. CASE ReadResume(p)
  BY <1>8, ReadResumePosition
<1>9. CASE Reject(p)
  <2>1. /\ processors[p].pc = "reject" /\ processors'[p].pc = "returned"
        /\ executions' = [executions EXCEPT ![jobs[Job(p)].execution].status = "FAILED"]
        /\ UNCHANGED <<steps, approvals, interpreters, requests>>
    BY <1>9 DEF Reject, FailExecution, SetProcessor, Context, MemoryInv, ProcessorRow
  <2>2. jobs[Job(p)].execution \in ExecutionIds
    BY <2>1, JobExists DEF Context, MemoryInv, ResumesJob, JobsInv, ResumesAnExecution
  <2>3. /\ \A e \in ExecutionIds : executions'[e].node = executions[e].node
        /\ StartedStay
    BY <2>1, <2>2, StatusSet DEF Context, StartedStay, None
  <2>4. ResumesApproved'
    BY <2>1, ResumesStay DEF PositionInv, Alone, OneProcess
  <2>5. NoneReopened
    BY <2>1, ApprovalsSame DEF RequestsGoOn
  <2> QED
    BY <2>1, <2>3, <2>4, <2>5, PositionBeside
<1>10. CASE Resume(p)
  BY <1>10, ResumePosition
<1> QED
  BY <1>2, <1>3, <1>4, <1>5, <1>6, <1>7, <1>8, <1>9, <1>10 DEF Processor

LEMMA AskPosition ==
  ASSUME Alone, Context, PositionInv, ApprovedKept, NoneToResume, NEW p \in Processes, Ask(p)
  PROVE  PositionInv'
<1> USE DEF tables
<1>1. ASSUME NEW e \in ExecutionIds, NEW failed \in ExecutionIds,
             StartExecution(p, e) \/ RetryExecution(p, e, failed)
      PROVE  PositionInv'
  BY <1>1, CreatePosition DEF StartExecution, RetryExecution
<1>2. ASSUME NEW type, QueueExecution(p) \/ CreateOther(p, type) PROVE PositionInv'
  BY <1>2, ProcessorPosition DEF QueueExecution, CreateOther
<1>3. ASSUME NEW w \in Workers, NEW a, NEW u, NEW choice, BeginDecision(w, p, a, u, choice)
      PROVE  PositionInv'
  BY <1>3, RequestPosition DEF BeginDecision
<1> QED
  BY <1>1, <1>2, <1>3 DEF Ask

\* recordDecision: the job takes over where the approval was.
LEMMA QueueResumePosition ==
  ASSUME Alone, Context, PositionInv, ApprovedKept, NEW w \in Workers, QueueResume(w)
  PROVE  PositionInv'
<1>0. PICK a, e : a = requests[w].approval /\ e = approvals[a].execution
  OBVIOUS
<1>1. /\ a \in ApprovalIds /\ e \in ExecutionIds /\ OpenFor(a, e)
      /\ requests[w].decision \in Decisions /\ \A v \in Workers : v = w
      /\ requests'[w].pc = "queued" /\ requests'[w].approval = a
      /\ requests'[w].decision = requests[w].decision
      /\ UNCHANGED <<executions, steps, approvals, processors, interpreters, crashes>>
  BY <1>0, QueueResumeDoes
<1>2. /\ Len(jobs') = Len(jobs) + 1 /\ Len(jobs) \in Nat
      /\ DOMAIN jobs' = 1..Len(jobs') /\ DOMAIN jobs = 1..Len(jobs)
      /\ jobs'[Len(jobs')].execution = e /\ jobs'[Len(jobs')].node = approvals[a].node
      /\ jobs'[Len(jobs')].decision = requests[w].decision
  BY <1>0, QueueResumeDoes
<1>3. PICK n : n = approvals[a].node
  OBVIOUS
<1>4. n \in Nodes /\ Reached(e, n)
  BY <1>1, <1>3 DEF PositionInv, ApprovalsAt
<1>5. requests[w].decision = "APPROVED" => ApprovedAt(e, n)'
  <2> SUFFICES ASSUME requests[w].decision = "APPROVED" PROVE ApprovedAt(e, n)'
    OBVIOUS
  <2>1. approvals'[a].execution = e /\ approvals'[a].node = n
    BY <1>0, <1>1, <1>3
  <2> QED
    BY <1>1, <2>1 DEF ApprovedAt
<1>6. PICK new : new = Len(jobs')
  OBVIOUS
<1>7. JobAt(new, e)'
  <2>1. Reached(e, n)'
    BY <1>1, <1>4, ReachedStays
  <2>2. jobs'[new].node = n /\ jobs'[new].decision = requests[w].decision
    BY <1>2, <1>3, <1>6
  <2> QED
    BY <1>1, <1>4, <1>5, <2>1, <2>2 DEF JobAt
<1>8. JobsAt'
  <2> SUFFICES ASSUME NEW f \in ExecutionIds, NEW j \in DOMAIN jobs', LiveFor(j, f)'
               PROVE  JobAt(j, f)'
    BY DEF JobsAt
  <2>1. CASE j = new
    <3>1. f = e
      BY <1>2, <1>6, <2>1 DEF LiveFor
    <3> QED
      BY <1>7, <2>1, <3>1
  <2>2. CASE j # new
    <3>1. j \in DOMAIN jobs
      BY <1>2, <1>6, <2>2
    <3>2. LiveFor(j, f)
      BY <1>2, <3>1 DEF Context, NoneRevived
    <3>3. JobAt(j, f) /\ jobs'[j].node = jobs[j].node /\ jobs'[j].decision = jobs[j].decision
      BY <1>2, <3>1, <3>2 DEF PositionInv, JobsAt, Context, JobsRemember
    <3> QED
      BY <1>1, <3>3 DEF JobAt, Reached, ApprovedKept
  <2> QED
    BY <2>1, <2>2
<1>9. DriversAt'
  BY <1>1, DriversStayAt DEF PositionInv
<1>10. ApprovalsAt'
  <2>1. NoneReopened
    <3>1. requests[w].pc # "queued"
      BY <1>0, <1>1 DEF OpenFor
    <3> QED
      BY <1>1, <3>1 DEF OpenFor, NoneReopened
  <2> QED
    BY <1>1, <2>1, ApprovalsStayAt DEF PositionInv
<1>11. ResumesApproved'
  BY <1>1, ResumesStay DEF PositionInv
<1> QED
  BY <1>1, <1>8, <1>9, <1>10, <1>11, PositionGoesOn DEF StartedStay

LEMMA RequestStepPosition ==
  ASSUME Alone, Context, PositionInv, ApprovedKept, NEW w \in Workers, Begin(w) \/ Request(w),
         NoneToResume \/ QueueResume(w)
  PROVE  PositionInv'
<1> USE DEF tables
<1>1. CASE QueueResume(w)
  BY <1>1, QueueResumePosition
<1>2. CASE NoneToResume /\ (Begin(w) \/ CancelJob(w) \/ RefuseVote(w) \/ RecordVote(w))
  <2>1. /\ requests[w].pc # "queued"
        /\ UNCHANGED <<executions, steps, approvals, interpreters, processors>>
    BY <1>2 DEF Begin, BeginCancel, BeginCancelJob, CancelJob, RefuseVote, RecordVote
  <2> QED
    BY <1>2, <2>1, RequestPosition
<1>3. CASE NoneToResume /\ CancelExecution(w)
  <2>1. /\ requests[w].pc = "cancel"
        /\ executions' = [executions EXCEPT ![requests[w].execution].status = "CANCELLED"]
        /\ UNCHANGED <<steps, approvals, jobs, processors, interpreters, crashes>>
    BY <1>3 DEF CancelExecution
  <2>2. RequestsGoOn
    BY <2>1 DEF RequestsGoOn, Alone
  <2>3. NoneReopened
    BY <2>1, <2>2, ApprovalsSame
  <2>4. (\A e \in ExecutionIds : executions'[e].node = executions[e].node) /\ StartedStay
    BY <2>1 DEF Context, ExecutionsInv, ExecutionRow, StartedStay, None
  <2>5. ResumesApproved'
    BY <2>1, ResumesStay DEF PositionInv
  <2> QED
    BY <1>3, <2>1, <2>3, <2>4, <2>5, PositionBeside
<1>4. CASE NoneToResume /\ CommitDecision(w)
  <2>0. PICK a : a = requests[w].approval
    OBVIOUS
  <2>1. /\ UNCHANGED <<executions, steps, interpreters, processors, crashes>>
        /\ \A v \in Workers : v = w
    BY <1>4, <2>0, CommitDoes DEF CommitDecision
  <2>2. \A b \in ApprovalIds : approvals'[b].node = approvals[b].node
    BY <1>4, <2>0, CommitDoes
  <2>3. NoneReopened
    BY <1>4, CommitReopensNone
  <2>4. ResumesApproved'
    BY <2>1, ResumesStay DEF PositionInv
  <2> QED
    BY <1>4, <2>1, <2>2, <2>3, <2>4, PositionBeside DEF StartedStay
<1> QED
  BY <1>1, <1>2, <1>3, <1>4 DEF Request

\* interpretGraph records the node it is about to run.
LEMMA ReadNodePosition ==
  ASSUME Context, PositionInv, ApprovedKept, NoneToResume, NEW i \in Interpreters, ReadNode(i)
  PROVE  PositionInv'
<1>0. PICK e, n : e = interpreters[i].execution /\ n = executions[e].node
  OBVIOUS
<1>1. /\ OnlyInterpreter(i)
      /\ interpreters'[i].pc \in {"fail", "work"} /\ interpreters'[i].execution = e
      /\ UNCHANGED <<executions, approvals, jobs, processors, triggered, requests, crashes>>
  BY <1>0, ReadNodeDoes
<1>2. interpreters[i].pc = "read" /\ e \in ExecutionIds /\ Drives(i, e) /\ executions[e].status # None
      /\ executions[e] \in ExecutionRow
  BY <1>0, DriverExists DEF ReadNode
<1>3. \A k \in Interpreters \ {i} : ~Drives(k, e)
  BY <1>2 DEF Context, ClaimInv, OneClaim
<1>4. \A p \in Processes : processors'[p].pc = "resume" => processors'[p] = processors[p]
  BY <1>1
<1>5. CASE interpreters'[i].pc = "fail"
  <2>1. UNCHANGED steps
    BY <1>0, <1>5, ReadNodeDoes
  <2>2. DriverAt(i, e)'
    BY <1>5 DEF DriverAt
  <2> QED
    BY <1>1, <1>2, <1>3, <1>4, <2>1, <2>2, InterpreterPosition
<1>6. CASE interpreters'[i].pc = "work"
  <2>1. /\ n # None /\ interpreters'[i].node = n
        /\ \A k \in Nodes : steps'[e][k] = IF k = n THEN steps[e][k] + 1 ELSE steps[e][k]
        /\ \A f \in ExecutionIds \ {e} : steps'[f] = steps[f]
    BY <1>0, <1>6, ReadNodeDoes
  <2>2. n \in Nodes /\ Ahead(e, n)
    BY <1>0, <1>2, <2>1 DEF ExecutionRow, PositionInv, DriversAt, DriverAt
  <2>3. Acyclic => steps[e][n] = 0 /\ \A k \in Nodes : steps'[e][k] > 0 => Rank[k] <= Rank[n]
    <3> SUFFICES ASSUME Acyclic
                 PROVE  steps[e][n] = 0 /\ \A k \in Nodes : steps'[e][k] > 0 => Rank[k] <= Rank[n]
      OBVIOUS
    <3>1. \A k \in Nodes : steps[e][k] > 0 => Rank[k] < Rank[n]
      BY <2>2 DEF Ahead
    <3>2. \A k \in Nodes : Rank[k] \in Nat /\ steps[e][k] \in Nat
      BY <1>2, RankOfEdges DEF Context, ExecutionsInv
    <3>3. steps[e][n] = 0
      BY <2>2, <3>1, <3>2
    <3>4. ASSUME NEW k \in Nodes, steps'[e][k] > 0 PROVE Rank[k] <= Rank[n]
      <4>1. CASE k = n
        BY <3>2, <4>1
      <4>2. CASE k # n
        BY <2>1, <2>2, <3>1, <3>2, <3>4, <4>2
      <4> QED
        BY <4>1, <4>2
    <3> QED
      BY <3>3, <3>4
  <2>4. Reached(e, n)'
    BY <2>3 DEF Reached
  <2>5. DriversAt'
    <3> SUFFICES ASSUME NEW f \in ExecutionIds, NEW k \in Interpreters, Drives(k, f)'
                 PROVE  DriverAt(k, f)'
      BY DEF DriversAt
    <3>1. CASE k = i
      <4>1. f = e
        BY <1>1, <3>1 DEF Drives
      <4> QED
        BY <1>6, <2>1, <2>4, <3>1, <4>1 DEF DriverAt
    <3>2. CASE k # i
      <4>1. interpreters'[k] = interpreters[k] /\ Drives(k, f)
        BY <1>1, <3>2 DEF OnlyInterpreter, Drives
      <4>2. f # e
        BY <1>3, <3>2, <4>1
      <4>3. DriverAt(k, f) /\ steps'[f] = steps[f]
        BY <2>1, <4>1, <4>2 DEF PositionInv, DriversAt
      <4>4. \A m : Ahead(f, m) => Ahead(f, m)'
        BY <4>3, AheadStays
      <4>5. \A m : Reached(f, m) => Reached(f, m)'
        BY <4>3, ReachedStays
      <4>6. (executions[f].node)' = executions[f].node /\ (interpreters[k].node)' = interpreters[k].node
        BY <1>1, <4>1
      <4> QED
        BY <4>1, <4>3, <4>4, <4>5, <4>6 DEF DriverAt
    <3> QED
      BY <3>1, <3>2
  <2>6. ApprovalsAt'
    <3>1. \A a \in ApprovalIds : ~OpenFor(a, e)
      BY <1>2 DEF Context, ClaimInv, AboutToWait
    <3>2. NoneReopened
      BY <1>1, ApprovalsSame DEF RequestsGoOn
    <3> QED
      BY <1>1, <2>1, <3>1, <3>2, ApprovalsStayAt DEF PositionInv
  <2>7. JobsAt'
    <3>1. \A j \in DOMAIN jobs : ~LiveFor(j, e)
      BY <1>2 DEF Context, ClaimInv, AboutToWait
    <3> QED
      BY <2>1, <3>1, JobsStayAt DEF PositionInv
  <2>8. NoneRan'
    BY <1>1, <1>2, <2>1 DEF PositionInv, NoneRan
  <2>9. ResumesApproved'
    BY <1>4, ResumesStay DEF PositionInv
  <2>10. Gated => ApprovedBeforePassing'
    <3> SUFFICES ASSUME Gated, NEW f \in ExecutionIds, NEW edge \in Edges,
                        KindOf[edge[1]] = "APPROVAL", steps'[f][edge[2]] > 0
                 PROVE  ApprovedAt(f, edge[1])'
      BY DEF ApprovedBeforePassing
    <3>1. /\ edge[1] \in Nodes /\ edge[2] \in Nodes /\ <<edge[1], edge[2]>> \in Edges
      BY GraphAssumption DEF ValidGraph
    <3>2. CASE f = e /\ edge[2] = n
      BY <2>2, <3>1, <3>2 DEF Ahead, GateOpen, ApprovedKept
    <3>3. CASE f # e \/ edge[2] # n
      <4>1. steps[f][edge[2]] > 0
        BY <2>1, <3>1, <3>3
      <4> QED
        BY <3>1, <4>1 DEF PositionInv, ApprovedBeforePassing, ApprovedKept
    <3> QED
      BY <3>2, <3>3
  <2>11. Acyclic => NodesRunOnce'
    <3> SUFFICES ASSUME Acyclic, NEW f \in ExecutionIds, NEW k \in Nodes PROVE steps'[f][k] <= 1
      BY DEF NodesRunOnce
    <3>1. CASE f = e /\ k = n
      BY <2>1, <2>2, <2>3, <3>1
    <3>2. CASE f # e \/ k # n
      <4>1. steps'[f][k] = steps[f][k]
        BY <2>1, <3>2
      <4> QED
        BY <4>1 DEF PositionInv, NodesRunOnce
    <3> QED
      BY <3>1, <3>2
  <2> QED
    BY <2>5, <2>6, <2>7, <2>8, <2>9, <2>10, <2>11 DEF PositionInv
<1> QED
  BY <1>1, <1>5, <1>6

LEMMA RequestApprovalPosition ==
  ASSUME Context, PositionInv, ApprovedKept, NoneToResume,
         NEW i \in Interpreters, NEW a \in ApprovalIds, RequestApproval(i, a)
  PROVE  PositionInv'
<1>0. PICK e, n : e = interpreters[i].execution /\ n = interpreters[i].node
  OBVIOUS
<1>1. /\ interpreters[i].pc = "work" /\ approvals[a].status = None
      /\ Goto(i, "wait")
      /\ UNCHANGED <<executions, steps, jobs, processors, triggered, requests, crashes>>
  BY DEF RequestApproval, At
<1>2. e \in ExecutionIds /\ Drives(i, e) /\ n \in Nodes
  BY <1>0, <1>1, DriverExists DEF Context, MemoryInv, InterpreterOK
<1>3. /\ OnlyInterpreter(i) /\ interpreters'[i].pc = "wait" /\ interpreters'[i].execution = e
      /\ interpreters'[i].node = n
  BY <1>0, <1>1, WentTo DEF Context
<1>4. /\ approvals'[a].execution = e /\ approvals'[a].node = n
      /\ \A b \in ApprovalIds \ {a} : approvals'[b] = approvals[b]
  BY <1>0 DEF RequestApproval, NoApproval, Context, VotesInv
<1>5. Reached(e, n)
  BY <1>0, <1>1, <1>2 DEF PositionInv, DriversAt, DriverAt
<1>6. Reached(e, n)'
  BY <1>1, <1>2, <1>5, ReachedStays
<1>7. ApprovalsAt'
  <2> SUFFICES ASSUME NEW f \in ExecutionIds, NEW b \in ApprovalIds, OpenFor(b, f)'
               PROVE  approvals'[b].node \in Nodes /\ Reached(f, approvals'[b].node)
    BY <1>1 DEF ApprovalsAt, Reached
  <2>1. CASE b = a
    <3>1. f = e
      BY <1>4, <2>1 DEF OpenFor
    <3> QED
      BY <1>2, <1>4, <1>5, <2>1, <3>1
  <2>2. CASE b # a
    <3>1. approvals'[b] = approvals[b] /\ OpenFor(b, f)
      BY <1>1, <1>4, <2>2 DEF OpenFor
    <3> QED
      BY <3>1 DEF PositionInv, ApprovalsAt
  <2> QED
    BY <2>1, <2>2
<1>8. DriversAt'
  <2>1. \A k \in Interpreters \ {i} : ~Drives(k, e)
    BY <1>2 DEF Context, ClaimInv, OneClaim
  <2>2. DriverAt(i, e)'
    BY <1>3, <1>6 DEF DriverAt
  <2> QED
    BY <1>1, <1>2, <1>3, <2>1, <2>2, OthersStayAt DEF PositionInv
<1>9. JobsAt'
  BY <1>1, JobsStayAt DEF PositionInv
<1>10. ResumesApproved'
  BY <1>1, ResumesStay DEF PositionInv
<1> QED
  BY <1>1, <1>7, <1>8, <1>9, <1>10, PositionGoesOn DEF StartedStay

\* A processor that awaited an interpreter goes on with nothing else.
LEMMA AwaitingTakesUpNone ==
  ASSUME MemoryInv, NEW i \in Interpreters, interpreters[i].pc # "idle", Awaiting(i, "returned")
  PROVE  TakesUpNone
<1>1. CASE interpreters[i].origin = "job"
  <2>1. interpreters[i].process \in Processes
    BY <1>1 DEF MemoryInv, InterpreterOK, Called
  <2>2. /\ processors'[interpreters[i].process].pc = "returned"
        /\ \A p \in Processes \ {interpreters[i].process} : processors'[p] = processors[p]
    BY <1>1, <2>1 DEF MemoryInv, ProcessorRow, Awaiting
  <2> QED
    BY <2>2 DEF TakesUpNone
<1>2. CASE interpreters[i].origin # "job"
  BY <1>2 DEF Awaiting, TakesUpNone
<1> QED
  BY <1>1, <1>2

LEMMA InterpreterStepPosition ==
  ASSUME Context, PositionInv, ApprovedKept, NoneToResume, NEW i \in Interpreters, Interpreter(i)
  PROVE  PositionInv'
<1>0. PICK e, n : e = interpreters[i].execution /\ n = interpreters[i].node
  OBVIOUS
<1>1. interpreters[i].pc # "idle"
  BY DEF Interpreter, ReadNode, ReadStop, GiveUp, Advance, ActionFails, End, RequestApproval,
     WaitForApproval, Delay, Wake, At
<1>2. /\ e \in ExecutionIds /\ Drives(i, e) /\ executions[e].status # None
      /\ executions[e] \in ExecutionRow
  BY <1>0, <1>1, DriverExists
<1>3. \A k \in Interpreters \ {i} : ~Drives(k, e)
  BY <1>2 DEF Context, ClaimInv, OneClaim
<1>4. DriverAt(i, e)
  BY <1>2 DEF PositionInv, DriversAt
<1> ExecutionsInv /\ MemoryInv
  BY DEF Context
<1> USE DEF tables
<1>5. ASSUME Return(i), UNCHANGED <<steps, approvals, requests>>,
             \A f \in ExecutionIds \ {e} : executions'[f] = executions[f],
             executions'[e].status # None
      PROVE  PositionInv'
  <2>1. OnlyInterpreter(i) /\ interpreters'[i].pc = "idle"
    BY <1>1, <1>5, Returned
  <2>2. \A p \in Processes : processors'[p].pc = "resume" => processors'[p] = processors[p]
    BY <1>1, <1>5, AwaitingTakesUpNone DEF Return, TakesUpNone
  <2> QED
    BY <1>2, <1>3, <1>5, <2>1, <2>2, InterpreterPosition
<1>6. CASE ReadStop(i)
  BY <1>2, <1>5, <1>6 DEF ReadStop
<1>7. CASE GiveUp(i) \/ ActionFails(i)
  <2>1. /\ executions' = [executions EXCEPT ![e].status = "FAILED"] /\ Return(i)
        /\ UNCHANGED <<steps, approvals, requests>>
    BY <1>0, <1>7 DEF GiveUp, ActionFails, FailExecution
  <2> QED
    BY <1>2, <1>5, <2>1, StatusSet DEF None
<1>8. CASE End(i)
  <2>1. /\ SetExecution(e, "COMPLETED", None)
        /\ Return(i) /\ UNCHANGED <<steps, approvals, requests>>
    BY <1>0, <1>8 DEF End, CompleteExecution
  <2> QED
    BY <1>2, <1>5, <2>1, RowSet DEF None
<1>9. CASE WaitForApproval(i)
  <2>1. /\ executions' = [executions EXCEPT ![e].status = "WAITING"]
        /\ Return(i) /\ UNCHANGED <<steps, approvals, requests>>
    BY <1>0, <1>9 DEF WaitForApproval, SetWaiting
  <2> QED
    BY <1>2, <1>5, <2>1, StatusSet DEF None
<1>10. CASE Delay(i)
  <2>1. /\ executions' = [executions EXCEPT ![e].status = "WAITING"]
        /\ UNCHANGED <<steps, approvals, requests>> /\ interpreters[i].pc = "work"
        /\ KindOf[n] = "DELAY" /\ Awaiting(i, "returned")
    BY <1>0, <1>10 DEF Delay, SetWaiting, At
  <2>2. /\ OnlyInterpreter(i) /\ interpreters'[i].pc = "asleep" /\ interpreters'[i].execution = e
        /\ interpreters'[i].node \in NextNodes(n)
    BY <1>0, <1>10, DelayDoes
  <2>3. PICK m \in NextNodes(n) : m = interpreters'[i].node
    BY <2>2
  <2>4. n \in Nodes /\ Reached(e, n)
    BY <1>0, <1>4, <2>1 DEF DriverAt, MemoryInv, InterpreterOK
  <2>5. Ahead(e, m)'
    <3>1. Ahead(e, m)
      BY <1>2, <2>1, <2>4, PastNode
    <3> QED
      BY <1>2, <2>1, <3>1, AheadStays
  <2>6. DriverAt(i, e)'
    BY <2>2, <2>3, <2>5 DEF DriverAt
  <2>7. \A p \in Processes : processors'[p].pc = "resume" => processors'[p] = processors[p]
    BY <1>1, <2>1, AwaitingTakesUpNone DEF TakesUpNone
  <2>8. executions'[e].status # None /\ \A f \in ExecutionIds \ {e} : executions'[f] = executions[f]
    BY <1>2, <2>1, StatusSet DEF None
  <2> QED
    BY <1>2, <1>3, <2>1, <2>2, <2>6, <2>7, <2>8, InterpreterPosition
<1>11. CASE Wake(i)
  <2>1. /\ OnlyInterpreter(i) /\ interpreters[i].pc = "asleep"
        /\ interpreters'[i].pc = "read" /\ interpreters'[i].execution = e
        /\ SetExecution(e, "RUNNING", n)
        /\ UNCHANGED <<steps, approvals, jobs, processors, requests, crashes>>
    BY <1>0, <1>11, WakeDoes
  <2>2. /\ executions'[e].status = "RUNNING" /\ executions'[e].node = n
        /\ \A f \in ExecutionIds \ {e} : executions'[f] = executions[f]
    BY <1>2, <2>1, RowSet
  <2>3. Ahead(e, n)'
    <3>1. Ahead(e, n)
      BY <1>0, <1>4, <2>1 DEF DriverAt
    <3> QED
      BY <1>2, <2>1, <3>1, AheadStays
  <2>4. DriverAt(i, e)'
    BY <2>1, <2>2, <2>3 DEF DriverAt
  <2> QED
    BY <1>2, <1>3, <2>1, <2>2, <2>4, InterpreterPosition DEF None
<1>12. CASE Advance(i)
  <2>1. /\ OnlyInterpreter(i) /\ interpreters'[i].pc = "read" /\ interpreters'[i].execution = e
        /\ interpreters[i].pc = "work" /\ KindOf[n] # "APPROVAL"
        /\ UNCHANGED <<steps, approvals, jobs, processors, requests>>
    BY <1>0, <1>12, WentTo DEF Advance, At
  <2>2. n \in Nodes /\ Reached(e, n)
    BY <1>0, <1>4, <2>1 DEF DriverAt, MemoryInv, InterpreterOK
  <2>3. PICK m \in NextNodes(n) :
          /\ executions'[e].node = m /\ executions'[e].status # None
          /\ \A f \in ExecutionIds \ {e} : executions'[f] = executions[f]
    <3>1. CASE SetExecution(e, "COMPLETED", None) /\ None \in NextNodes(n)
      BY <1>2, <3>1, RowSet DEF None
    <3>2. ASSUME NEW next \in NextNodes(n), executions' = [executions EXCEPT ![e].node = next]
          PROVE  /\ executions'[e].node = next /\ executions'[e].status # None
                 /\ \A f \in ExecutionIds \ {e} : executions'[f] = executions[f]
      BY <1>2, <3>2, NodeSet
    <3>3. \/ SetExecution(e, "COMPLETED", None) /\ None \in NextNodes(n)
          \/ \E next \in NextNodes(n) : executions' = [executions EXCEPT ![e].node = next]
      <4>1. \/ SetExecution(e, "COMPLETED", None) /\ None \in NextNodes(interpreters[i].node)
            \/ \E next \in NextNodes(interpreters[i].node) :
                 executions' = [executions EXCEPT ![e].node = next]
        BY <1>0, <1>12 DEF Advance, CompleteExecution
      <4> QED
        BY <1>0, <4>1
    <3> QED
      BY <3>1, <3>2, <3>3
  <2>4. Ahead(e, m)'
    <3>1. Ahead(e, m)
      BY <1>2, <2>1, <2>2, PastNode
    <3> QED
      BY <1>2, <2>1, <3>1, AheadStays
  <2>5. DriverAt(i, e)'
    BY <2>1, <2>3, <2>4 DEF DriverAt
  <2> QED
    BY <1>2, <1>3, <2>1, <2>3, <2>5, InterpreterPosition
<1>13. CASE ReadNode(i)
  BY <1>13, ReadNodePosition
<1>14. CASE \E a \in ApprovalIds : RequestApproval(i, a)
  BY <1>14, RequestApprovalPosition
<1> QED
  BY <1>6, <1>7, <1>8, <1>9, <1>10, <1>11, <1>12, <1>13, <1>14 DEF Interpreter

LEMMA PositionStep ==
  ASSUME Alone, Context, PositionInv, [Next]_vars,
         NoneToResume \/ \E w \in Workers : QueueResume(w)
  PROVE  PositionInv'
<1>1. ApprovedKept
  BY ApprovedStays
<1>2. ASSUME NEW w \in Workers, QueueResume(w) PROVE PositionInv'
  BY <1>1, <1>2, QueueResumePosition
<1>3. CASE NoneToResume
  <2>1. ASSUME NEW p \in Processes, Ask(p) \/ Processor(p) PROVE PositionInv'
    BY <1>1, <1>3, <2>1, AskPosition, ProcessorStepPosition
  <2>2. ASSUME NEW w \in Workers, Begin(w) \/ Request(w) PROVE PositionInv'
    BY <1>1, <1>3, <2>2, RequestStepPosition
  <2>3. ASSUME NEW i \in Interpreters, Interpreter(i) PROVE PositionInv'
    BY <1>1, <1>3, <2>3, InterpreterStepPosition
  <2>4. ~Fault
    BY NoFault DEF Context, ClaimInv
  <2>5. CASE UNCHANGED vars
    <3>1. UNCHANGED <<executions, steps, approvals, interpreters, requests, processors>>
      BY <2>5 DEF vars, tables, memory
    <3> QED
      BY <1>1, <1>3, <3>1, ProcessorPosition
  <2> QED
    BY <2>1, <2>2, <2>3, <2>4, <2>5 DEF Next
<1> QED
  BY <1>2, <1>3

LEMMA PositionInit == Init => PositionInv
<1> SUFFICES ASSUME Init PROVE PositionInv
  OBVIOUS
<1>1. /\ \A i \in Interpreters : interpreters[i].pc = "idle"
      /\ \A a \in ApprovalIds : approvals[a].status = None
      /\ DOMAIN jobs = {}
      /\ \A p \in Processes : processors[p].pc = "idle"
      /\ \A e \in ExecutionIds, n \in Nodes : steps[e][n] = 0
  BY DEF Init, Unused, NoApproval, IdleProcessor
<1>2. ApprovedBeforePassing
  BY <1>1, GraphAssumption DEF ApprovedBeforePassing, ValidGraph
<1>3. NodesRunOnce
  BY <1>1 DEF NodesRunOnce
<1>4. DriversAt /\ ApprovalsAt
  BY <1>1 DEF DriversAt, ApprovalsAt, Drives, OpenFor, None
<1> QED
  BY <1>1, <1>2, <1>3, <1>4 DEF PositionInv, JobsAt, NoneRan, ResumesApproved

\* With one process, and requests that neither overlap nor fail.
THEOREM PositionInductive ==
  ASSUME Alone
  PROVE  Spec => []PositionInv
<1>1. Init => PositionInv
  BY PositionInit
<1>2. IInv /\ BatchInv /\ ClaimInv /\ PositionInv /\ [Next]_vars => PositionInv'
  <2> SUFFICES ASSUME IInv, BatchInv, ClaimInv, PositionInv, [Next]_vars PROVE PositionInv'
    OBVIOUS
  <2>1. Context /\ (NoneToResume \/ \E w \in Workers : QueueResume(w))
    BY ContextOfStep
  <2> QED
    BY <2>1, PositionStep
<1>3. Spec => [](IInv /\ BatchInv /\ ClaimInv)
  BY OneClaimInductive
<1> QED
  BY <1>1, <1>2, <1>3, PTL DEF Spec

\* interpretGraph: no node of an acyclic graph runs twice for an execution,
\* also when its approvals and timers are answered in any order.
THEOREM NodesOnceSafety ==
  ASSUME Alone, Acyclic
  PROVE  Spec => []NodesRunOnce
<1>1. PositionInv => NodesRunOnce
  BY DEF PositionInv
<1>2. Spec => []PositionInv
  BY PositionInductive
<1> QED
  BY <1>1, <1>2, PTL

\* handleResumeJob: what only an approval leads to runs only after it is given.
THEOREM ApprovalSafety ==
  ASSUME Alone, Gated
  PROVE  Spec => []ApprovedBeforePassing
<1>1. PositionInv => ApprovedBeforePassing
  BY DEF PositionInv
<1>2. Spec => []PositionInv
  BY PositionInductive
<1> QED
  BY <1>1, <1>2, PTL

-----------------------------------------------------------------------------
(* The life cycle *)

LifeKept == LifeInv' /\ (Lifecycle!Next \/ UNCHANGED executions)

LEMMA StatusBecame ==
  ASSUME ExecutionsInv, NEW e \in ExecutionIds, NEW status,
         executions' = [executions EXCEPT ![e].status = status]
  PROVE  Lifecycle!Become(e, status, executions[e].node)
<1>1. executions[e] \in ExecutionRow
  BY DEF ExecutionsInv
<1>2. [executions[e] EXCEPT !.status = status] = [status |-> status, node |-> executions[e].node]
  BY <1>1 DEF ExecutionRow
<1>3. executions' = [executions EXCEPT ![e] = [executions[e] EXCEPT !.status = status]]
  BY DEF ExecutionsInv
<1> QED
  BY <1>2, <1>3 DEF Lifecycle!Become

LEMMA NodeBecame ==
  ASSUME ExecutionsInv, NEW e \in ExecutionIds, executions[e].status = "RUNNING", NEW node,
         executions' = [executions EXCEPT ![e].node = node]
  PROVE  Lifecycle!Become(e, "RUNNING", node)
<1>1. executions[e] \in ExecutionRow
  BY DEF ExecutionsInv
<1>2. [executions[e] EXCEPT !.node = node] = [status |-> "RUNNING", node |-> node]
  BY <1>1 DEF ExecutionRow
<1>3. executions' = [executions EXCEPT ![e] = [executions[e] EXCEPT !.node = node]]
  BY DEF ExecutionsInv
<1> QED
  BY <1>2, <1>3 DEF Lifecycle!Become

LEMMA SetBecame ==
  ASSUME NEW e, NEW status, NEW node, SetExecution(e, status, node)
  PROVE  Lifecycle!Become(e, status, node)
  BY DEF SetExecution, Lifecycle!Become

\* handleResumeJob and the timer go on past the node of the execution.
LEMMA Continued ==
  ASSUME NEW e \in ExecutionIds, executions[e].status = "WAITING", executions[e].node \in Nodes,
         NEW next \in NextNodes(executions[e].node), SetExecution(e, "RUNNING", next)
  PROVE  Lifecycle!Next
<1>1. next \in Nodes \cup {None} /\ Lifecycle!Become(e, "RUNNING", next)
  BY NextNodesAreNodes, SetBecame
<1>2. Lifecycle!Edge(e, next) \/ (Lifecycle!DeadEnd(e) /\ next = Lifecycle!None)
  BY DEF NextNodes, Lifecycle!Edge, Lifecycle!DeadEnd, Lifecycle!None, None
<1>3. Lifecycle!Continue(e, next)
  BY <1>1, <1>2 DEF Lifecycle!Continue, Lifecycle!In
<1> QED
  BY <1>1, <1>3 DEF Lifecycle!Next, Lifecycle!None, None

\* An action fails, the transitions are used up, or an approval is refused.
LEMMA Failed ==
  ASSUME ExecutionsInv, NEW e \in ExecutionIds,
         \/ executions[e].status = "RUNNING"
         \/ /\ executions[e].status = "WAITING" /\ executions[e].node \in Nodes
            /\ KindOf[executions[e].node] = "APPROVAL",
         executions' = [executions EXCEPT ![e].status = "FAILED"]
  PROVE  Lifecycle!Next
<1>1. Lifecycle!Become(e, "FAILED", executions[e].node)
  BY StatusBecame
<1>2. Lifecycle!Fail(e)
  BY <1>1, GraphAssumption
     DEF Lifecycle!Fail, Lifecycle!In, Lifecycle!AtKind, Lifecycle!None, ValidGraph, None
<1> QED
  BY <1>2 DEF Lifecycle!Next

LEMMA Paused ==
  ASSUME ExecutionsInv, NEW e \in ExecutionIds, executions[e].status = "RUNNING",
         executions[e].node \in Nodes, KindOf[executions[e].node] \in {"APPROVAL", "DELAY"},
         executions' = [executions EXCEPT ![e].status = "WAITING"]
  PROVE  Lifecycle!Next
<1>1. Lifecycle!Become(e, "WAITING", executions[e].node)
  BY StatusBecame
<1>2. Lifecycle!Pause(e)
  BY <1>1, GraphAssumption
     DEF Lifecycle!Pause, Lifecycle!In, Lifecycle!AtKind, Lifecycle!None, ValidGraph, None
<1> QED
  BY <1>2 DEF Lifecycle!Next

LEMMA Ended ==
  ASSUME NEW e \in ExecutionIds, executions[e].status = "RUNNING",
         executions[e].node \in Nodes, KindOf[executions[e].node] = "END",
         SetExecution(e, "COMPLETED", None)
  PROVE  Lifecycle!Next
<1>1. Lifecycle!Become(e, "COMPLETED", Lifecycle!None)
  BY SetBecame DEF Lifecycle!None, None
<1>2. Lifecycle!DeadEnd(e)
  BY GraphAssumption DEF ValidGraph, Lifecycle!DeadEnd, Lifecycle!Edge
<1>3. Lifecycle!Finish(e)
  BY <1>1, <1>2, GraphAssumption
     DEF Lifecycle!Finish, Lifecycle!In, Lifecycle!AtKind, Lifecycle!None, ValidGraph, None
<1> QED
  BY <1>3 DEF Lifecycle!Next

LEMMA Moved ==
  ASSUME ExecutionsInv, NEW e \in ExecutionIds, executions[e].status = "RUNNING",
         executions[e].node \in Nodes,
         KindOf[executions[e].node] \in {"START", "CONDITION", "ACTION", "OTHER"},
         NEW next \in Nodes, <<executions[e].node, next>> \in Edges,
         executions' = [executions EXCEPT ![e].node = next]
  PROVE  Lifecycle!Next
<1>1. Lifecycle!Become(e, "RUNNING", next)
  BY NodeBecame
<1>2. Lifecycle!Move(e, next)
  BY <1>1 DEF Lifecycle!Move, Lifecycle!In, Lifecycle!AtKind, Lifecycle!Edge
<1> QED
  BY <1>2 DEF Lifecycle!Next

LEMMA Begun ==
  ASSUME NEW p, NEW e \in ExecutionIds, CreateExecution(p, e)
  PROVE  Lifecycle!Next
<1>1. Lifecycle!Become(e, "RUNNING", StartNode)
  BY SetBecame DEF CreateExecution
<1>2. Lifecycle!Begin(e)
  BY <1>1 DEF CreateExecution, Lifecycle!Begin, Lifecycle!In, Lifecycle!None, None
<1> QED
  BY <1>2 DEF Lifecycle!Next

\* What has a claim on an execution stays where the execution is.
LEMMA LifeGoesOn ==
  ASSUME Context, LifeInv, NoneToResume, NoneReopened,
         \A a \in ApprovalIds : approvals'[a].node = approvals[a].node,
         \A e \in ExecutionIds :
           \/ executions'[e].node = executions[e].node
           \/ /\ \A a \in ApprovalIds : ~OpenFor(a, e)
              /\ \A j \in DOMAIN jobs : ~LiveFor(j, e),
         DriversLive', HandlersLive', NoneCancelled'
  PROVE  LifeInv'
<1>1. ApprovalsLive'
  <2> SUFFICES ASSUME NEW e \in ExecutionIds, NEW a \in ApprovalIds, OpenFor(a, e)
               PROVE  IsAt(e, approvals[a].node)'
    BY DEF ApprovalsLive, NoneReopened
  <2> QED
    BY DEF LifeInv, ApprovalsLive, IsAt
<1>2. JobsLive'
  <2> SUFFICES ASSUME NEW e \in ExecutionIds, NEW j \in DOMAIN jobs', LiveFor(j, e)'
               PROVE  IsAt(e, jobs[j].node)'
    BY DEF JobsLive
  <2>1. DOMAIN jobs' = 1..Len(jobs') /\ DOMAIN jobs = 1..Len(jobs)
    BY DEF JobsInv, Context
  <2>2. j \in DOMAIN jobs /\ LiveFor(j, e)
    BY <2>1 DEF NoneToResume, NoneRevived, LiveFor, Context
  <2>3. jobs'[j].node = jobs[j].node
    BY <2>1, <2>2 DEF Context, JobsRemember
  <2> QED
    BY <2>2, <2>3 DEF LifeInv, JobsLive, IsAt
<1> QED
  BY <1>1, <1>2 DEF LifeInv

\* A handler that goes on with a job finds its execution as it was.
LEMMA HandlersStay ==
  ASSUME Context, LifeInv, TakesUpNone,
         \A e \in ExecutionIds :
           \/ executions'[e] = executions[e]
           \/ \A j \in DOMAIN jobs : ~LiveFor(j, e)
           \/ \E i \in Interpreters : Drives(i, e)
  PROVE  HandlersLive'
<1> SUFFICES ASSUME NEW p \in Processes, processors'[p] = processors[p],
                    processors[p].pc \in {"reject", "resume"}
             PROVE  executions'[jobs'[Job(p)'].execution].status = "WAITING"
  BY DEF HandlersLive, TakesUpNone
<1>1. PICK j, e : j = Job(p) /\ e = jobs[j].execution
  OBVIOUS
<1>2. Job(p)' = j /\ j \in 1..Len(jobs) /\ jobs[j].type = "WORKFLOW_RESUME"
  BY <1>1, JobExists DEF Job, Context, MemoryInv, ResumesJob
<1>3. e \in ExecutionIds /\ j \in DOMAIN jobs
  BY <1>1, <1>2 DEF Context, JobsInv, ResumesAnExecution
<1>4. LiveFor(j, e) /\ jobs'[j].execution = e
  BY <1>1, <1>2, HeadIsLive DEF Context, JobsRemember
<1>5. \A i \in Interpreters : ~Drives(i, e)
  BY <1>1 DEF Context, ClaimInv, NoneBeside
<1>6. executions'[e] = executions[e]
  BY <1>3, <1>4, <1>5
<1>7. executions[e].status = "WAITING"
  BY <1>1 DEF LifeInv, HandlersLive
<1> QED
  BY <1>2, <1>4, <1>6, <1>7

LEMMA OthersLive ==
  ASSUME LifeInv, NEW i \in Interpreters, NEW e \in ExecutionIds, OnlyInterpreter(i),
         \A k \in Interpreters \ {i} : ~Drives(k, e),
         \A f \in ExecutionIds \ {e} : executions'[f] = executions[f],
         interpreters'[i].pc = "idle" \/ interpreters'[i].execution = e,
         interpreters'[i].pc # "idle" => DriverLives(i, e)'
  PROVE  DriversLive'
<1> SUFFICES ASSUME NEW f \in ExecutionIds, NEW k \in Interpreters, Drives(k, f)'
             PROVE  DriverLives(k, f)'
  BY DEF DriversLive
<1>1. CASE k = i
  BY <1>1 DEF Drives
<1>2. CASE k # i
  <2>1. interpreters'[k] = interpreters[k] /\ Drives(k, f) /\ f # e
    BY <1>2 DEF OnlyInterpreter, Drives
  <2>2. DriverLives(k, f) /\ executions'[f] = executions[f]
    BY <2>1 DEF LifeInv, DriversLive
  <2> QED
    BY <2>1, <2>2 DEF DriverLives
<1> QED
  BY <1>1, <1>2

\* Steps that leave executions and interpreters alone.
LEMMA LifeBeside ==
  ASSUME Context, LifeInv, NoneToResume, NoneReopened, UNCHANGED <<executions, interpreters>>,
         \A a \in ApprovalIds : approvals'[a].node = approvals[a].node,
         HandlersLive', NoneCancelled'
  PROVE  LifeKept
<1>1. DriversLive'
  BY DEF LifeInv, DriversLive, Drives, DriverLives
<1> QED
  BY <1>1, LifeGoesOn DEF LifeKept

LEMMA ProcessorLife ==
  ASSUME Context, LifeInv, NoneToResume, TakesUpNone,
         UNCHANGED <<executions, approvals, interpreters, requests>>
  PROVE  LifeKept
<1>1. NoneReopened
  BY ApprovalsSame DEF RequestsGoOn
<1>2. HandlersLive'
  BY HandlersStay
<1>3. NoneCancelled'
  BY DEF LifeInv, NoneCancelled
<1> QED
  BY <1>1, <1>2, <1>3, LifeBeside

LEMMA RequestLife ==
  ASSUME Context, LifeInv, NoneToResume, NoneReopened, NoneCancelled',
         UNCHANGED <<executions, interpreters, processors>>,
         \A a \in ApprovalIds : approvals'[a].node = approvals[a].node
  PROVE  LifeKept
<1>1. HandlersLive'
  BY HandlersStay DEF TakesUpNone
<1> QED
  BY <1>1, LifeBeside

\* An interpreter goes on with the execution it drives.
LEMMA InterpreterLife ==
  ASSUME Context, LifeInv, NoneToResume, TakesUpNone, UNCHANGED <<approvals, requests>>,
         NEW i \in Interpreters, NEW e \in ExecutionIds, Drives(i, e), OnlyInterpreter(i),
         \A f \in ExecutionIds \ {e} : executions'[f] = executions[f],
         executions'[e].node = executions[e].node \/ interpreters[i].pc # "wait",
         interpreters'[i].pc = "idle" \/ interpreters'[i].execution = e,
         interpreters'[i].pc # "idle" => DriverLives(i, e)'
  PROVE  LifeInv'
<1>1. \A k \in Interpreters \ {i} : ~Drives(k, e)
  BY DEF Context, ClaimInv, OneClaim
<1>2. DriversLive'
  BY <1>1, OthersLive
<1>3. HandlersLive'
  BY HandlersStay
<1>4. NoneReopened
  BY ApprovalsSame DEF RequestsGoOn
<1>5. NoneCancelled'
  BY DEF LifeInv, NoneCancelled
<1>6. \A f \in ExecutionIds :
        \/ executions'[f].node = executions[f].node
        \/ /\ \A a \in ApprovalIds : ~OpenFor(a, f)
           /\ \A j \in DOMAIN jobs : ~LiveFor(j, f)
  BY DEF Context, ClaimInv, AboutToWait
<1> QED
  BY <1>2, <1>3, <1>4, <1>5, <1>6, LifeGoesOn

LEMMA CreateLife ==
  ASSUME Context, LifeInv, NoneToResume, TakesUpNone,
         NEW p \in Processes, NEW e \in ExecutionIds, CreateExecution(p, e),
         UNCHANGED <<approvals, requests>>
  PROVE  LifeKept
<1>1. PICK i \in Interpreters :
        /\ interpreters[i].pc = "idle" /\ OnlyInterpreter(i)
        /\ interpreters'[i].pc = "read" /\ interpreters'[i].execution = e
  BY StartedInterpreter DEF Context, CreateExecution
<1>2. /\ executions[e].status = None /\ executions'[e].status = "RUNNING"
      /\ \A f \in ExecutionIds \ {e} : executions'[f] = executions[f]
  BY RowSet DEF Context, CreateExecution
<1>3. /\ \A k \in Interpreters : ~Drives(k, e)
      /\ \A a \in ApprovalIds : ~OpenFor(a, e)
      /\ \A j \in DOMAIN jobs : ~LiveFor(j, e)
  BY <1>2 DEF Context, ClaimInv, NoneBefore
<1>4. DriverLives(i, e)'
  BY <1>1, <1>2 DEF DriverLives
<1>5. DriversLive'
  BY <1>1, <1>2, <1>3, <1>4, OthersLive
<1>6. HandlersLive'
  BY <1>2, <1>3, HandlersStay
<1>7. NoneReopened /\ NoneCancelled'
  BY ApprovalsSame DEF RequestsGoOn, LifeInv, NoneCancelled
<1>8. LifeInv'
  BY <1>2, <1>3, <1>5, <1>6, <1>7, LifeGoesOn
<1> QED
  BY <1>8, Begun DEF LifeKept

LEMMA ResumeLife ==
  ASSUME Alone, Context, LifeInv, NoneToResume, NEW p \in Processes, Resume(p)
  PROVE  LifeKept
<1>0. PICK j, e : j = Job(p) /\ e = jobs[j].execution
  OBVIOUS
<1>1. /\ e \in ExecutionIds /\ j \in DOMAIN jobs /\ LiveFor(j, e)
      /\ ~LiveFor(j, e)'
      /\ processors'[p].pc = "await"
      /\ UNCHANGED <<steps, approvals, jobs, requests, crashes>>
  BY <1>0, ResumeDoes
<1>2. PICK i \in Interpreters :
        /\ interpreters[i].pc = "idle" /\ OnlyInterpreter(i)
        /\ interpreters'[i].pc = "read" /\ interpreters'[i].execution = e
  BY <1>0, ResumeDoes
<1>3. processors[p].pc = "resume" /\ \E next \in ResumeNodes(jobs[j]) : SetExecution(e, "RUNNING", next)
  BY <1>0 DEF Resume
<1>4. IsAt(e, jobs[j].node) /\ executions[e].status = "WAITING"
  BY <1>0, <1>1, <1>3 DEF LifeInv, JobsLive, HandlersLive
<1>5. PICK m \in NextNodes(executions[e].node) : SetExecution(e, "RUNNING", m)
  BY <1>3, <1>4 DEF ResumeNodes, IsAt
<1>6. Lifecycle!Next
  BY <1>1, <1>4, <1>5, Continued DEF IsAt
<1>7. /\ executions'[e].status = "RUNNING"
      /\ \A f \in ExecutionIds \ {e} : executions'[f] = executions[f]
  BY <1>1, <1>5, RowSet DEF Context
<1>8. \A k \in Interpreters : ~Drives(k, e)
  BY <1>0, <1>3 DEF Context, ClaimInv, NoneBeside
<1>9. DriverLives(i, e)'
  BY <1>2, <1>7 DEF DriverLives
<1>10. DriversLive'
  BY <1>1, <1>2, <1>7, <1>8, <1>9, OthersLive
<1>11. HandlersLive'
  BY <1>1 DEF HandlersLive, Alone, OneProcess
<1>12. NoneCancelled'
  BY <1>1 DEF LifeInv, NoneCancelled
<1>13. ApprovalsLive'
  <2> SUFFICES ASSUME NEW f \in ExecutionIds, NEW a \in ApprovalIds, OpenFor(a, f)'
               PROVE  IsAt(f, approvals[a].node)'
    BY DEF ApprovalsLive
  <2>1. OpenFor(a, f) /\ f # e
    BY <1>1 DEF OpenFor, Context, ClaimInv, OneClaim
  <2> QED
    BY <1>1, <1>7, <2>1 DEF LifeInv, ApprovalsLive, IsAt
<1>14. JobsLive'
  <2> SUFFICES ASSUME NEW f \in ExecutionIds, NEW k \in DOMAIN jobs, LiveFor(k, f)'
               PROVE  IsAt(f, jobs[k].node)'
    BY <1>1 DEF JobsLive
  <2>1. LiveFor(k, f)
    BY DEF Context, NoneRevived, JobsInv
  <2>2. f # e
    BY <1>1, <2>1 DEF Context, ClaimInv, OneClaim
  <2> QED
    BY <1>1, <1>7, <2>1, <2>2 DEF LifeInv, JobsLive, IsAt
<1> QED
  BY <1>6, <1>10, <1>11, <1>12, <1>13, <1>14 DEF LifeKept, LifeInv

\* handleResumeJob goes on only with an execution that waits.
LEMMA ReadResumeLife ==
  ASSUME Alone, Context, LifeInv, NoneToResume, NEW p \in Processes, ReadResume(p)
  PROVE  LifeKept
<1>1. /\ UNCHANGED <<executions, approvals, interpreters, requests, jobs>>
      /\ processors'[p].batch = processors[p].batch
      /\ processors'[p].pc \in {"reject", "resume"} =>
           executions[jobs[Job(p)].execution].status = "WAITING"
  BY DEF ReadResume, Handles, tables, Context, MemoryInv, ProcessorRow, SetProcessor, Resumable
<1>2. Job(p)' = Job(p)
  BY <1>1 DEF Job
<1>3. HandlersLive'
  BY <1>1, <1>2 DEF HandlersLive, Alone, OneProcess
<1>4. NoneReopened /\ NoneCancelled'
  BY <1>1, ApprovalsSame DEF RequestsGoOn, LifeInv, NoneCancelled
<1> QED
  BY <1>1, <1>3, <1>4, LifeBeside

LEMMA RejectLife ==
  ASSUME Alone, Context, LifeInv, NoneToResume, NEW p \in Processes, Reject(p)
  PROVE  LifeKept
<1>0. PICK j, e : j = Job(p) /\ e = jobs[j].execution
  OBVIOUS
<1>1. /\ processors[p].pc = "reject" /\ processors'[p].pc = "returned"
      /\ executions' = [executions EXCEPT ![e].status = "FAILED"]
      /\ UNCHANGED <<approvals, jobs, interpreters, requests>>
  BY <1>0 DEF Reject, FailExecution, SetProcessor, Context, MemoryInv, ProcessorRow
<1>2. /\ e \in ExecutionIds /\ j \in DOMAIN jobs /\ LiveFor(j, e)
  BY <1>0, <1>1, HeadIsLive, JobExists DEF Context, MemoryInv, ResumesJob, JobsInv, ResumesAnExecution
<1>3. IsAt(e, jobs[j].node) /\ executions[e].status = "WAITING"
  BY <1>0, <1>1, <1>2 DEF LifeInv, JobsLive, HandlersLive
<1>4. Lifecycle!Next
  BY <1>1, <1>2, <1>3, Failed DEF IsAt, Context
<1>5. /\ executions'[e].node = executions[e].node
      /\ \A f \in ExecutionIds \ {e} : executions'[f] = executions[f]
  BY <1>1, <1>2, StatusSet DEF Context
<1>6. \A k \in Interpreters : ~Drives(k, e)
  BY <1>0, <1>1 DEF Context, ClaimInv, NoneBeside
<1>7. DriversLive'
  BY <1>1, <1>5, <1>6 DEF LifeInv, DriversLive, Drives, DriverLives
<1>8. HandlersLive'
  BY <1>1 DEF HandlersLive, Alone, OneProcess
<1>9. NoneReopened /\ NoneCancelled'
  BY <1>1, ApprovalsSame DEF RequestsGoOn, LifeInv, NoneCancelled
<1>10. \A f \in ExecutionIds : executions'[f].node = executions[f].node
  BY <1>5
<1>11. LifeInv'
  BY <1>1, <1>7, <1>8, <1>9, <1>10, LifeGoesOn
<1> QED
  BY <1>4, <1>11 DEF LifeKept

LEMMA ProcessorStepLife ==
  ASSUME Alone, Context, LifeInv, NoneToResume, NEW p \in Processes, Processor(p)
  PROVE  LifeKept
<1> USE DEF tables
<1>1. ASSUME processors'[p].pc \notin {"reject", "resume"} PROVE TakesUpNone
  BY <1>1 DEF TakesUpNone, Alone, OneProcess
<1>2. CASE ListJobs(p)
  <2>1. processors'[p].pc \in {"idle", "next"}
    BY <1>2 DEF ListJobs, IdleProcessor, Context, MemoryInv
  <2> QED
    BY <1>1, <1>2, <2>1, ProcessorLife DEF ListJobs
<1>3. CASE DropTrigger(p)
  BY <1>3, ProcessorLife DEF DropTrigger, TakesUpNone
<1>4. CASE MarkProcessing(p)
  <2>1. processors'[p].pc = "handle"
    BY <1>4 DEF MarkProcessing, Context, MemoryInv, ProcessorRow
  <2> QED
    BY <1>1, <1>4, <2>1, ProcessorLife DEF MarkProcessing
<1>5. CASE FailUnhandled(p) \/ FinishJob(p)
  <2>1. processors' = [processors EXCEPT ![p] = NextJob(p)]
    BY <1>5 DEF FailUnhandled, FinishJob
  <2>2. NextJob(p).pc \in {"idle", "next"}
    BY DEF NextJob, IdleProcessor
  <2>3. processors'[p].pc \in {"idle", "next"}
    BY <2>1, <2>2 DEF Context, MemoryInv
  <2> QED
    BY <1>1, <1>5, <2>3, ProcessorLife DEF FailUnhandled, FinishJob
<1>6. CASE HandleOther(p)
  <2>1. processors'[p].pc \in {"returned", "threw"}
    BY <1>6 DEF HandleOther, Context, MemoryInv, ProcessorRow
  <2> QED
    BY <1>1, <1>6, <2>1, ProcessorLife DEF HandleOther
<1>7. ASSUME NEW e \in ExecutionIds, HandleExecutionJob(p, e) PROVE LifeKept
  <2>1. processors'[p].pc = "returned"
    BY <1>7 DEF HandleExecutionJob, SetProcessor, Context, MemoryInv, ProcessorRow
  <2> QED
    BY <1>1, <1>7, <2>1, CreateLife DEF HandleExecutionJob
<1>8. CASE ReadResume(p)
  BY <1>8, ReadResumeLife
<1>9. CASE Reject(p)
  BY <1>9, RejectLife
<1>10. CASE Resume(p)
  BY <1>10, ResumeLife
<1> QED
  BY <1>2, <1>3, <1>4, <1>5, <1>6, <1>7, <1>8, <1>9, <1>10 DEF Processor

LEMMA AskLife ==
  ASSUME Alone, Context, LifeInv, NoneToResume, NEW p \in Processes, Ask(p)
  PROVE  LifeKept
<1> USE DEF tables
<1>1. ASSUME NEW e \in ExecutionIds, NEW failed \in ExecutionIds,
             StartExecution(p, e) \/ RetryExecution(p, e, failed)
      PROVE  LifeKept
  BY <1>1, CreateLife DEF StartExecution, RetryExecution, TakesUpNone
<1>2. ASSUME NEW type, QueueExecution(p) \/ CreateOther(p, type) PROVE LifeKept
  BY <1>2, ProcessorLife DEF QueueExecution, CreateOther, TakesUpNone
<1>3. ASSUME NEW w \in Workers, NEW a, NEW u, NEW choice, BeginDecision(w, p, a, u, choice)
      PROVE  LifeKept
  <2> DEFINE r == [pc |-> "decide", process |-> p, approval |-> a, user |-> u, decision |-> choice]
  <2>1. /\ requests[w].pc = "idle" /\ requests' = [requests EXCEPT ![w] = r]
        /\ UNCHANGED <<executions, approvals, interpreters, processors>>
    BY <1>3 DEF BeginDecision
  <2>2. r.pc = "decide"
    OBVIOUS
  <2> HIDE DEF r
  <2>3. RequestsGoOn
    BY <2>1 DEF RequestsGoOn, Alone
  <2>4. NoneCancelled'
    BY <2>1, <2>2 DEF LifeInv, NoneCancelled, Deciding, Context, VotesInv
  <2> QED
    BY <2>1, <2>3, <2>4, ApprovalsSame, RequestLife
<1> QED
  BY <1>1, <1>2, <1>3 DEF Ask

\* recordDecision: the job takes over where the execution is.
LEMMA QueueResumeLife ==
  ASSUME Alone, Context, LifeInv, NEW w \in Workers, QueueResume(w)
  PROVE  LifeKept
<1>0. PICK a, e, n : a = requests[w].approval /\ e = approvals[a].execution /\ n = approvals[a].node
  OBVIOUS
<1>1. /\ a \in ApprovalIds /\ e \in ExecutionIds /\ OpenFor(a, e)
      /\ \A v \in Workers : v = w
      /\ requests'[w].pc = "queued" /\ requests'[w].approval = a
      /\ UNCHANGED <<executions, steps, approvals, processors, interpreters, crashes>>
  BY <1>0, QueueResumeDoes
<1>2. /\ Len(jobs') = Len(jobs) + 1 /\ Len(jobs) \in Nat
      /\ DOMAIN jobs' = 1..Len(jobs') /\ DOMAIN jobs = 1..Len(jobs)
      /\ jobs'[Len(jobs')].execution = e /\ jobs'[Len(jobs')].node = n
  BY <1>0, QueueResumeDoes
<1>3. PICK new : new = Len(jobs')
  OBVIOUS
<1>4. IsAt(e, n)
  BY <1>0, <1>1 DEF LifeInv, ApprovalsLive
<1>5. JobsLive'
  <2> SUFFICES ASSUME NEW f \in ExecutionIds, NEW j \in DOMAIN jobs', LiveFor(j, f)'
               PROVE  IsAt(f, jobs[j].node)'
    BY DEF JobsLive
  <2>1. CASE j = new
    <3>1. f = e
      BY <1>2, <1>3, <2>1 DEF LiveFor
    <3> QED
      BY <1>1, <1>2, <1>3, <1>4, <2>1, <3>1 DEF IsAt
  <2>2. CASE j # new
    <3>1. j \in DOMAIN jobs
      BY <1>2, <1>3, <2>2
    <3>2. LiveFor(j, f) /\ jobs'[j].node = jobs[j].node
      BY <1>2, <3>1 DEF Context, NoneRevived, JobsRemember
    <3> QED
      BY <1>1, <3>1, <3>2 DEF LifeInv, JobsLive, IsAt
  <2> QED
    BY <2>1, <2>2
<1>6. ApprovalsLive'
  <2>1. NoneReopened
    <3>1. requests[w].pc # "queued"
      BY <1>0, <1>1 DEF OpenFor
    <3> QED
      BY <1>1, <3>1 DEF OpenFor, NoneReopened
  <2> QED
    BY <1>1, <2>1 DEF LifeInv, ApprovalsLive, NoneReopened, IsAt
<1>7. DriversLive'
  BY <1>1 DEF LifeInv, DriversLive, Drives, DriverLives
<1>8. HandlersLive'
  BY <1>1, HandlersStay DEF TakesUpNone
<1>9. NoneCancelled'
  BY <1>1 DEF NoneCancelled, Deciding
<1> QED
  BY <1>1, <1>5, <1>6, <1>7, <1>8, <1>9 DEF LifeKept, LifeInv

LEMMA RequestStepLife ==
  ASSUME Alone, Cancellations = FALSE, Context, LifeInv, NEW w \in Workers, Begin(w) \/ Request(w),
         NoneToResume \/ QueueResume(w)
  PROVE  LifeKept
<1> USE DEF tables
<1>1. CASE QueueResume(w)
  BY <1>1, QueueResumeLife
<1>2. ~Begin(w) /\ ~CancelExecution(w) /\ ~CancelJob(w)
  BY DEF Begin, BeginCancel, BeginCancelJob, CancelExecution, CancelJob, LifeInv, NoneCancelled,
     Deciding
<1>3. CASE NoneToResume /\ (RefuseVote(w) \/ RecordVote(w))
  <2>1. /\ requests[w].pc = "decide" /\ UNCHANGED <<executions, approvals, interpreters, processors>>
    BY <1>3 DEF RefuseVote, RecordVote
  <2>2. requests'[w].pc \in {"idle", "voted"} /\ \A v \in Workers : v = w
    <3>1. requests[w] \in VoteRequest
      BY <2>1 DEF Context, VotesInv, DecisionsAreOnApprovals, Deciding
    <3> QED
      BY <1>3, <3>1 DEF RefuseVote, RecordVote, Context, VotesInv, VoteRequest, IdleRequest, Alone
  <2>3. RequestsGoOn /\ NoneCancelled'
    BY <2>1, <2>2 DEF RequestsGoOn, NoneCancelled, Deciding
  <2> QED
    BY <1>3, <2>1, <2>3, ApprovalsSame, RequestLife
<1>4. CASE NoneToResume /\ CommitDecision(w)
  <2>0. PICK a : a = requests[w].approval
    OBVIOUS
  <2>1. /\ UNCHANGED <<executions, interpreters, processors>>
        /\ requests'[w].pc = "idle" /\ \A v \in Workers : v = w
    BY <1>4, <2>0, CommitDoes DEF CommitDecision
  <2>2. \A b \in ApprovalIds : approvals'[b].node = approvals[b].node
    BY <1>4, <2>0, CommitDoes
  <2>3. NoneReopened
    BY <1>4, CommitReopensNone
  <2>4. NoneCancelled'
    BY <2>1 DEF NoneCancelled
  <2> QED
    BY <1>4, <2>1, <2>2, <2>3, <2>4, RequestLife
<1> QED
  BY <1>1, <1>2, <1>3, <1>4 DEF Request

LEMMA RequestApprovalLife ==
  ASSUME Context, LifeInv, NoneToResume,
         NEW i \in Interpreters, NEW a \in ApprovalIds, RequestApproval(i, a)
  PROVE  LifeKept
<1>0. PICK e, n : e = interpreters[i].execution /\ n = interpreters[i].node
  OBVIOUS
<1>1. /\ interpreters[i].pc = "work" /\ KindOf[n] = "APPROVAL" /\ approvals[a].status = None
      /\ Goto(i, "wait")
      /\ UNCHANGED <<executions, steps, jobs, processors, triggered, requests, crashes>>
  BY <1>0 DEF RequestApproval, At
<1>2. e \in ExecutionIds /\ Drives(i, e) /\ n \in Nodes
  BY <1>0, <1>1, DriverExists DEF Context, MemoryInv, InterpreterOK
<1>3. /\ OnlyInterpreter(i) /\ interpreters'[i].pc = "wait" /\ interpreters'[i].execution = e
      /\ interpreters'[i].node = n
  BY <1>0, <1>1, WentTo DEF Context
<1>4. /\ approvals'[a].execution = e /\ approvals'[a].node = n
      /\ \A b \in ApprovalIds \ {a} : approvals'[b] = approvals[b]
  BY <1>0 DEF RequestApproval, NoApproval, Context, VotesInv
<1>5. executions[e].status = "RUNNING" /\ executions[e].node = n
  BY <1>0, <1>1, <1>2 DEF LifeInv, DriversLive, DriverLives, Running
<1>6. DriversLive'
  <2>1. \A k \in Interpreters \ {i} : ~Drives(k, e)
    BY <1>2 DEF Context, ClaimInv, OneClaim
  <2>2. DriverLives(i, e)'
    BY <1>1, <1>3, <1>5 DEF DriverLives
  <2> QED
    BY <1>1, <1>2, <1>3, <2>1, <2>2, OthersLive
<1>7. ApprovalsLive'
  <2> SUFFICES ASSUME NEW f \in ExecutionIds, NEW b \in ApprovalIds, OpenFor(b, f)'
               PROVE  IsAt(f, approvals[b].node)'
    BY DEF ApprovalsLive
  <2>1. CASE b = a
    BY <1>1, <1>2, <1>4, <1>5, <2>1 DEF OpenFor, IsAt
  <2>2. CASE b # a
    <3>1. approvals'[b] = approvals[b] /\ OpenFor(b, f)
      BY <1>1, <1>4, <2>2 DEF OpenFor
    <3> QED
      BY <1>1, <3>1 DEF LifeInv, ApprovalsLive, IsAt
  <2> QED
    BY <2>1, <2>2
<1>8. JobsLive'
  <2> SUFFICES ASSUME NEW f \in ExecutionIds, NEW j \in DOMAIN jobs, LiveFor(j, f)'
               PROVE  IsAt(f, jobs[j].node)'
    BY <1>1 DEF JobsLive
  <2>1. LiveFor(j, f)
    BY DEF Context, NoneRevived, JobsInv
  <2> QED
    BY <1>1, <2>1 DEF LifeInv, JobsLive, IsAt
<1>9. HandlersLive'
  BY <1>1, HandlersStay DEF TakesUpNone
<1>10. NoneCancelled'
  BY <1>1 DEF LifeInv, NoneCancelled
<1> QED
  BY <1>1, <1>6, <1>7, <1>8, <1>9, <1>10 DEF LifeKept, LifeInv

LEMMA InterpreterStepLife ==
  ASSUME Through, Context, LifeInv, NoneToResume, NEW i \in Interpreters, Interpreter(i)
  PROVE  LifeKept
<1>0. PICK e, n : e = interpreters[i].execution /\ n = interpreters[i].node
  OBVIOUS
<1>1. interpreters[i].pc # "idle"
  BY DEF Interpreter, ReadNode, ReadStop, GiveUp, Advance, ActionFails, End, RequestApproval,
     WaitForApproval, Delay, Wake, At
<1>2. /\ e \in ExecutionIds /\ Drives(i, e) /\ executions[e] \in ExecutionRow
  BY <1>0, <1>1, DriverExists
<1>3. DriverLives(i, e)
  BY <1>2 DEF LifeInv, DriversLive
<1>4. interpreters[i].pc = "work" =>
        n \in Nodes /\ executions[e].status = "RUNNING" /\ executions[e].node = n
  BY <1>0, <1>3 DEF DriverLives, Running, Context, MemoryInv, InterpreterOK
<1> ExecutionsInv /\ MemoryInv
  BY DEF Context
<1> USE DEF tables
<1>5. ASSUME Return(i), UNCHANGED <<approvals, requests>>,
             \A f \in ExecutionIds \ {e} : executions'[f] = executions[f],
             executions'[e].node = executions[e].node \/ interpreters[i].pc # "wait"
      PROVE  LifeInv'
  <2>1. OnlyInterpreter(i) /\ interpreters'[i].pc = "idle"
    BY <1>1, <1>5, Returned
  <2>2. TakesUpNone
    BY <1>1, <1>5, AwaitingTakesUpNone DEF Return
  <2> QED
    BY <1>2, <1>5, <2>1, <2>2, InterpreterLife
<1>6. CASE ReadNode(i)
  <2>1. /\ OnlyInterpreter(i) /\ interpreters'[i].pc \in {"fail", "work"}
        /\ interpreters'[i].execution = e
        /\ interpreters'[i].pc = "work" => interpreters'[i].node = executions[e].node
        /\ UNCHANGED <<executions, approvals, jobs, processors, triggered, requests, crashes>>
    BY <1>0, <1>6, ReadNodeDoes DEF Context
  <2>2. executions[e].status = "RUNNING"
    BY <1>3, <1>6 DEF ReadNode, DriverLives, Running
  <2>3. DriverLives(i, e)'
    BY <2>1, <2>2 DEF DriverLives
  <2>4. LifeInv'
    BY <1>2, <2>1, <2>3, InterpreterLife DEF TakesUpNone
  <2> QED
    BY <2>1, <2>4 DEF LifeKept
<1>7. CASE ReadStop(i)
  BY <1>5, <1>7 DEF ReadStop, LifeKept
<1>8. CASE GiveUp(i) \/ ActionFails(i)
  <2>1. /\ executions' = [executions EXCEPT ![e].status = "FAILED"] /\ Return(i)
        /\ UNCHANGED <<approvals, requests>> /\ interpreters[i].pc \in {"read", "fail", "work"}
    BY <1>0, <1>8 DEF GiveUp, ActionFails, FailExecution, At
  <2>2. executions[e].status = "RUNNING"
    BY <1>3, <2>1 DEF DriverLives, Running
  <2>3. Lifecycle!Next
    BY <1>2, <2>1, <2>2, Failed
  <2>4. LifeInv'
    BY <1>2, <1>5, <2>1, StatusSet
  <2> QED
    BY <2>3, <2>4 DEF LifeKept
<1>9. CASE End(i)
  <2>1. /\ SetExecution(e, "COMPLETED", None) /\ KindOf[n] = "END" /\ interpreters[i].pc = "work"
        /\ Return(i) /\ UNCHANGED <<approvals, requests>>
    BY <1>0, <1>9 DEF End, CompleteExecution, At
  <2>2. Lifecycle!Next
    BY <1>2, <1>4, <2>1, Ended
  <2>3. LifeInv'
    BY <1>2, <1>5, <2>1, RowSet
  <2> QED
    BY <2>2, <2>3 DEF LifeKept
<1>10. CASE WaitForApproval(i)
  <2>1. /\ executions' = [executions EXCEPT ![e].status = "WAITING"]
        /\ Return(i) /\ UNCHANGED <<approvals, requests>> /\ interpreters[i].pc = "wait"
    BY <1>0, <1>10 DEF WaitForApproval, SetWaiting
  <2>2. executions[e].status = "RUNNING" /\ n \in Nodes /\ executions[e].node = n /\ KindOf[n] = "APPROVAL"
    BY <1>0, <1>3, <2>1 DEF DriverLives, Running, MemoryInv, InterpreterOK
  <2>3. Lifecycle!Next
    BY <1>2, <2>1, <2>2, Paused
  <2>4. LifeInv'
    BY <1>2, <1>5, <2>1, StatusSet
  <2> QED
    BY <2>3, <2>4 DEF LifeKept
<1>11. CASE Delay(i)
  <2>1. /\ executions' = [executions EXCEPT ![e].status = "WAITING"]
        /\ UNCHANGED <<approvals, requests>> /\ interpreters[i].pc = "work"
        /\ KindOf[n] = "DELAY" /\ Awaiting(i, "returned")
    BY <1>0, <1>11 DEF Delay, SetWaiting, At
  <2>2. /\ OnlyInterpreter(i) /\ interpreters'[i].pc = "asleep" /\ interpreters'[i].execution = e
        /\ interpreters'[i].node \in NextNodes(n)
    BY <1>0, <1>11, DelayDoes
  <2>3. Lifecycle!Next
    BY <1>2, <1>4, <2>1, Paused
  <2>4. /\ executions'[e].status = "WAITING" /\ executions'[e].node = n
        /\ \A f \in ExecutionIds \ {e} : executions'[f] = executions[f]
    BY <1>2, <1>4, <2>1, StatusSet
  <2>5. DriverLives(i, e)'
    BY <1>4, <2>1, <2>2, <2>4 DEF DriverLives, Running
  <2>6. TakesUpNone
    BY <1>1, <2>1, AwaitingTakesUpNone
  <2>7. LifeInv'
    BY <1>2, <2>1, <2>2, <2>4, <2>5, <2>6, InterpreterLife
  <2> QED
    BY <2>3, <2>7 DEF LifeKept
<1>12. CASE Wake(i)
  <2>1. /\ OnlyInterpreter(i) /\ interpreters[i].pc = "asleep"
        /\ interpreters'[i].pc = "read" /\ interpreters'[i].execution = e
        /\ SetExecution(e, "RUNNING", n)
        /\ UNCHANGED <<steps, approvals, jobs, processors, requests, crashes>>
    BY <1>0, <1>12, WakeDoes
  <2>2. /\ executions'[e].status = "RUNNING"
        /\ \A f \in ExecutionIds \ {e} : executions'[f] = executions[f]
    BY <1>2, <2>1, RowSet
  <2>3. Lifecycle!Next
    BY <1>0, <1>2, <1>3, <2>1, Continued DEF DriverLives
  <2>4. DriverLives(i, e)'
    BY <2>1, <2>2 DEF DriverLives
  <2>5. LifeInv'
    BY <1>2, <2>1, <2>2, <2>4, InterpreterLife DEF TakesUpNone
  <2> QED
    BY <2>3, <2>5 DEF LifeKept
<1>13. CASE Advance(i)
  <2>1. /\ OnlyInterpreter(i) /\ interpreters'[i].pc = "read" /\ interpreters'[i].execution = e
        /\ interpreters[i].pc = "work" /\ KindOf[n] \in {"START", "CONDITION", "ACTION", "OTHER"}
        /\ UNCHANGED <<steps, approvals, jobs, processors, requests>>
    BY <1>0, <1>13, WentTo DEF Advance, At
  <2>2. None \notin NextNodes(n) /\ \A m \in NextNodes(n) : m \in Nodes /\ <<n, m>> \in Edges
    BY <1>4, <2>1, GraphAssumption DEF Through, NextNodes, ValidGraph
  <2>3. PICK m \in NextNodes(n) : executions' = [executions EXCEPT ![e].node = m]
    <3>1. \E m \in NextNodes(interpreters[i].node) :
            m = None \/ executions' = [executions EXCEPT ![e].node = m]
      BY <1>0, <1>13 DEF Advance
    <3> QED
      BY <1>0, <2>2, <3>1
  <2>4. Lifecycle!Next
    BY <1>2, <1>4, <2>1, <2>2, <2>3, Moved
  <2>5. /\ executions'[e].status = "RUNNING"
        /\ \A f \in ExecutionIds \ {e} : executions'[f] = executions[f]
    BY <1>2, <1>4, <2>1, <2>3, NodeSet
  <2>6. DriverLives(i, e)'
    BY <2>1, <2>5 DEF DriverLives
  <2>7. LifeInv'
    BY <1>2, <2>1, <2>5, <2>6, InterpreterLife DEF TakesUpNone
  <2> QED
    BY <2>4, <2>7 DEF LifeKept
<1>14. CASE \E a \in ApprovalIds : RequestApproval(i, a)
  BY <1>14, RequestApprovalLife
<1> QED
  BY <1>6, <1>7, <1>8, <1>9, <1>10, <1>11, <1>12, <1>13, <1>14 DEF Interpreter

LEMMA LifeStep ==
  ASSUME Alone, Cancellations = FALSE, Through, Context, LifeInv, [Next]_vars,
         NoneToResume \/ \E w \in Workers : QueueResume(w)
  PROVE  LifeKept
<1>1. ASSUME NEW w \in Workers, QueueResume(w) PROVE LifeKept
  BY <1>1, QueueResumeLife
<1>2. CASE NoneToResume
  <2>1. ASSUME NEW p \in Processes, Ask(p) \/ Processor(p) PROVE LifeKept
    BY <1>2, <2>1, AskLife, ProcessorStepLife
  <2>2. ASSUME NEW w \in Workers, Begin(w) \/ Request(w) PROVE LifeKept
    BY <1>2, <2>2, RequestStepLife
  <2>3. ASSUME NEW i \in Interpreters, Interpreter(i) PROVE LifeKept
    BY <1>2, <2>3, InterpreterStepLife
  <2>4. ~Fault
    BY NoFault DEF Context, ClaimInv
  <2>5. CASE UNCHANGED vars
    <3>1. UNCHANGED <<executions, approvals, interpreters, requests, processors>>
      BY <2>5 DEF vars, tables, memory
    <3> QED
      BY <1>2, <3>1, ProcessorLife DEF TakesUpNone
  <2> QED
    BY <2>1, <2>2, <2>3, <2>4, <2>5 DEF Next
<1> QED
  BY <1>1, <1>2

LEMMA LifeInit == Init => LifeInv /\ Lifecycle!Init
<1> SUFFICES ASSUME Init PROVE LifeInv /\ Lifecycle!Init
  OBVIOUS
<1>1. /\ \A i \in Interpreters : interpreters[i].pc = "idle"
      /\ \A a \in ApprovalIds : approvals[a].status = None
      /\ DOMAIN jobs = {}
      /\ \A p \in Processes : processors[p].pc = "idle"
      /\ \A w \in Workers : requests[w].pc = "idle"
  BY DEF Init, Unused, NoApproval, IdleProcessor, IdleRequest
<1>2. DriversLive /\ ApprovalsLive /\ HandlersLive
  BY <1>1 DEF DriversLive, ApprovalsLive, HandlersLive, Drives, OpenFor, None
<1>3. JobsLive /\ NoneCancelled
  BY <1>1 DEF JobsLive, NoneCancelled
<1>4. Lifecycle!Init
  BY DEF Init, Lifecycle!Init, Lifecycle!None, None
<1> QED
  BY <1>2, <1>3, <1>4 DEF LifeInv

\* Without cancellations an execution implements WorkflowLifecycle: it moves
\* along the edges of its graph, pauses at APPROVAL and DELAY nodes only, and
\* a terminal status is final.
THEOREM LifecycleRefinement ==
  ASSUME Alone, Cancellations = FALSE, Through
  PROVE  Spec => FollowsLifecycle
<1>1. Init => LifeInv /\ Lifecycle!Init
  BY LifeInit
<1>2. IInv /\ BatchInv /\ ClaimInv /\ LifeInv /\ [Next]_vars => LifeInv' /\ [Lifecycle!Next]_executions
  <2> SUFFICES ASSUME IInv, BatchInv, ClaimInv, LifeInv, [Next]_vars
               PROVE  LifeInv' /\ [Lifecycle!Next]_executions
    OBVIOUS
  <2>1. Context /\ (NoneToResume \/ \E w \in Workers : QueueResume(w))
    BY ContextOfStep
  <2>2. LifeKept
    BY <2>1, LifeStep
  <2> QED
    BY <2>2 DEF LifeKept
<1>3. Spec => [](IInv /\ BatchInv /\ ClaimInv)
  BY OneClaimInductive
<1> QED
  BY <1>1, <1>2, <1>3, PTL DEF Spec, FollowsLifecycle, Lifecycle!Spec
=============================================================================
