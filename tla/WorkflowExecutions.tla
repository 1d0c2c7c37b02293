------------------------ MODULE WorkflowExecutions ------------------------
(***************************************************************************)
(* WorkflowExecutionService: starting, interpreting, cancelling and        *)
(* retrying executions, and the handlers of the two workflow job types.    *)
(* No update of an execution looks at the status it overwrites.            *)
(***************************************************************************)
EXTENDS BackgroundJobs

SetExecution(e, status, node) ==
  executions' = [executions EXCEPT ![e] = [status |-> status, node |-> node]]

CompleteExecution(e) == SetExecution(e, "COMPLETED", None)
FailExecution(e) == executions' = [executions EXCEPT ![e].status = "FAILED"]

-----------------------------------------------------------------------------
(* startExecution and retryExecution *)

CreateExecution(p, e) ==
  /\ executions[e].status = None
  /\ SetExecution(e, "RUNNING", StartNode)
  /\ StartInterpreter(p, e, "start")

\* POST: the idempotency key is stored but never looked up.
StartExecution(p, e) ==
  /\ CreateExecution(p, e)
  /\ UNCHANGED <<steps, approvals, jobs, processors, triggered, requests, crashes>>

\* WorkflowTriggersService.processEvent and WorkflowSchedulesService.runScheduleNow
\* leave the start to a job.
QueueExecution(p) ==
  /\ \E priority \in {1, 2} : CreateJob(p, NewJob("WORKFLOW_EXECUTION", priority))
  /\ UNCHANGED <<executions, steps, approvals, processors, interpreters, requests, crashes>>

\* Mutant: the failed execution itself is started again.
RetryInPlace(p, e, failed) ==
  /\ executions[failed].status \in {"FAILED", "TIMED_OUT"}
  /\ SetExecution(failed, "RUNNING", StartNode)
  /\ StartInterpreter(p, failed, "start")
  /\ UNCHANGED <<steps, approvals, jobs, processors, triggered, requests, crashes>>

RetryExecution(p, e, failed) ==
  /\ executions[failed].status \in {"FAILED", "TIMED_OUT"}
  /\ CreateExecution(p, e)
  /\ UNCHANGED <<steps, approvals, jobs, processors, triggered, requests, crashes>>

-----------------------------------------------------------------------------
(* cancelExecution *)

BeginCancel(w, e) ==
  /\ Cancellations /\ requests[w].pc = "idle"
  /\ executions[e].status \notin TerminalStatuses \cup {None}
  /\ \E p \in Processes : requests' = [requests EXCEPT ![w] =
       [pc |-> "cancel", process |-> p, execution |-> e]]
  /\ UNCHANGED <<tables, processors, triggered, interpreters, crashes>>

CancelExecution(w) ==
  /\ requests[w].pc = "cancel"
  /\ executions' = [executions EXCEPT ![requests[w].execution].status = "CANCELLED"]
  /\ requests' = [requests EXCEPT ![w] = IdleRequest]
  /\ UNCHANGED <<steps, approvals, jobs, processors, triggered, interpreters, crashes>>

-----------------------------------------------------------------------------
(* interpretGraph: one turn of the loop is Read and one of the node steps *)

Goto(i, pc) == interpreters' = [interpreters EXCEPT ![i].pc = pc]

\* A job's processor that awaits interpretGraph goes on with `pc`.
Awaiting(i, pc) ==
  IF interpreters[i].origin = "job"
  THEN processors' = [processors EXCEPT ![interpreters[i].process].pc = pc]
  ELSE UNCHANGED processors

\* interpretGraph returns.
Return(i) ==
  /\ interpreters' = [interpreters EXCEPT ![i] = Unused]
  /\ Awaiting(i, "returned")

\* Does the loop go on with the execution it has just read?
Interpretable(row) == row.status \notin TerminalStatuses \cup {"WAITING"}

ReadNode(i) ==
  LET e == interpreters[i].execution
      row == executions[e]
  IN /\ interpreters[i].pc = "read" /\ interpreters[i].transitions < MaxTransitions
     /\ Interpretable(row)
     /\ interpreters' = [interpreters EXCEPT
          ![i].pc = IF row.node = None THEN "fail" ELSE "work",
          ![i].node = row.node,
          ![i].transitions = @ + 1]
     /\ steps' = IF row.node = None THEN steps ELSE [steps EXCEPT ![e][row.node] = @ + 1]
     /\ UNCHANGED <<executions, approvals, jobs, processors, triggered, requests, crashes>>

\* The execution has ended or waits.
ReadStop(i) ==
  /\ interpreters[i].pc = "read" /\ interpreters[i].transitions < MaxTransitions
  /\ ~Interpretable(executions[interpreters[i].execution])
  /\ Return(i)
  /\ UNCHANGED <<tables, triggered, requests, crashes>>

\* Mutant: the loop ends and the execution stays RUNNING.
GiveUpSilently(i) ==
  /\ \/ interpreters[i].pc = "read" /\ interpreters[i].transitions = MaxTransitions
     \/ interpreters[i].pc = "fail"
  /\ Return(i)
  /\ UNCHANGED <<tables, triggered, requests, crashes>>

\* MAX_TRANSITIONS_EXCEEDED, or (pc "fail") NODE_NOT_FOUND.
GiveUp(i) ==
  /\ \/ interpreters[i].pc = "read" /\ interpreters[i].transitions = MaxTransitions
     \/ interpreters[i].pc = "fail"
  /\ FailExecution(interpreters[i].execution)
  /\ Return(i)
  /\ UNCHANGED <<steps, approvals, jobs, triggered, requests, crashes>>

At(i, kinds) == interpreters[i].pc = "work" /\ KindOf[interpreters[i].node] \in kinds

\* advanceExecution past a START, CONDITION, OTHER or successful ACTION node.
Advance(i) ==
  LET e == interpreters[i].execution IN
  /\ At(i, {"START", "CONDITION", "ACTION", "OTHER"})
  /\ \E next \in NextNodes(interpreters[i].node) :
       IF next = None THEN CompleteExecution(e)
       ELSE executions' = [executions EXCEPT ![e].node = next]
  /\ Goto(i, "read")
  /\ UNCHANGED <<steps, approvals, jobs, processors, triggered, requests, crashes>>

ActionFails(i) ==
  /\ At(i, {"ACTION"})
  /\ FailExecution(interpreters[i].execution)
  /\ Return(i)
  /\ UNCHANGED <<steps, approvals, jobs, triggered, requests, crashes>>

End(i) ==
  /\ At(i, {"END"})
  /\ CompleteExecution(interpreters[i].execution)
  /\ Return(i)
  /\ UNCHANGED <<steps, approvals, jobs, triggered, requests, crashes>>

\* The approval can be decided before the execution is set WAITING.
RequestApproval(i, a) ==
  /\ At(i, {"APPROVAL"})
  /\ approvals[a].status = None
  /\ approvals' = [approvals EXCEPT ![a] =
       [NoApproval EXCEPT !.status = "PENDING", !.execution = interpreters[i].execution,
                          !.node = interpreters[i].node]]
  /\ Goto(i, "wait")
  /\ UNCHANGED <<executions, steps, jobs, processors, triggered, requests, crashes>>

SetWaiting(e) == executions' = [executions EXCEPT ![e].status = "WAITING"]

WaitForApproval(i) ==
  /\ interpreters[i].pc = "wait"
  /\ SetWaiting(interpreters[i].execution)
  /\ Return(i)
  /\ UNCHANGED <<steps, approvals, jobs, triggered, requests, crashes>>

\* interpretGraph returns; what stays is the timer with the next node.
Delay(i) ==
  /\ At(i, {"DELAY"})
  /\ SetWaiting(interpreters[i].execution)
  /\ \E next \in NextNodes(interpreters[i].node) :
       interpreters' = [interpreters EXCEPT
         ![i].pc = "asleep", ![i].node = next, ![i].origin = "timer"]
  /\ Awaiting(i, "returned")
  /\ UNCHANGED <<steps, approvals, jobs, triggered, requests, crashes>>

\* The timer fires, whatever became of the execution.
Wake(i) ==
  /\ interpreters[i].pc = "asleep"
  /\ SetExecution(interpreters[i].execution, "RUNNING", interpreters[i].node)
  /\ interpreters' = [interpreters EXCEPT ![i].pc = "read", ![i].transitions = 0]
  /\ UNCHANGED <<steps, approvals, jobs, processors, triggered, requests, crashes>>

\* An await of interpretGraph rejects.  The caller of a timer ignores it, a job
\* fails; for a setImmediate nobody handles it and the process ends (Crash).
Throw(i) ==
  /\ Errors
  /\ interpreters[i].pc # "idle" /\ interpreters[i].origin # "start"
  /\ interpreters' = [interpreters EXCEPT ![i] = Unused]
  /\ Awaiting(i, "threw")
  /\ UNCHANGED <<tables, triggered, requests, crashes>>

-----------------------------------------------------------------------------
(* handleExecutionJob and handleResumeJob, run by the processor of a process *)

SetProcessor(p, pc) == processors' = [processors EXCEPT ![p].pc = pc]

HandleExecutionJob(p, e) ==
  /\ Handles(p, "WORKFLOW_EXECUTION")
  /\ CreateExecution(p, e)
  /\ SetProcessor(p, "returned")
  /\ UNCHANGED <<steps, approvals, jobs, triggered, requests, crashes>>

\* Mutant: whatever the execution does.
AlwaysResumable(job) == TRUE

Resumable(job) == executions[job.execution].status = "WAITING"

\* Mutant: the decision is not looked at.
AlwaysOnward(job) == "resume"

ResumePath(job) == IF job.decision = "REJECTED" THEN "reject" ELSE "resume"

\* A resume job that finds the execution not WAITING is dropped.
ReadResume(p) ==
  /\ Handles(p, "WORKFLOW_RESUME")
  /\ SetProcessor(p, IF Resumable(jobs[Job(p)]) THEN ResumePath(jobs[Job(p)]) ELSE "returned")
  /\ UNCHANGED <<tables, triggered, interpreters, requests, crashes>>

Reject(p) ==
  /\ processors[p].pc = "reject"
  /\ FailExecution(jobs[Job(p)].execution)
  /\ SetProcessor(p, "returned")
  /\ UNCHANGED <<steps, approvals, jobs, triggered, interpreters, requests, crashes>>

\* Mutant: the execution goes on at the approval instead of after it.
ResumeHere(job) == {job.node}

ResumeNodes(job) == NextNodes(job.node)

Resume(p) ==
  LET job == jobs[Job(p)] IN
  /\ processors[p].pc = "resume"
  /\ \E next \in ResumeNodes(job) : SetExecution(job.execution, "RUNNING", next)
  /\ StartInterpreter(p, job.execution, "job")
  /\ SetProcessor(p, "await")
  /\ UNCHANGED <<steps, approvals, jobs, triggered, requests, crashes>>

\* A read or update of a handler, or the update that completes its job, rejects.
HandlerThrows(p) ==
  /\ Errors
  /\ processors[p].pc \in {"handle", "reject", "resume", "returned"}
  /\ SetProcessor(p, "threw")
  /\ UNCHANGED <<tables, triggered, interpreters, requests, crashes>>
=============================================================================
