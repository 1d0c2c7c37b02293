-------------------------- MODULE BackgroundJobs --------------------------
(***************************************************************************)
(* JobService: the table of background jobs and the processor of each      *)
(* process, which works off a batch of pending jobs one after the other.   *)
(* Nothing else looks for pending jobs: a processor starts only when a job *)
(* is created in its process.                                              *)
(***************************************************************************)
EXTENDS WorkflowDatabase

\* createJob in process p.
CreateJob(p, job) ==
  /\ Len(jobs) < MaxJobs
  /\ jobs' = Append(jobs, job)
  /\ triggered' = [triggered EXCEPT ![p] = TRUE]

\* POST /jobs, and the services that queue work of their own.
CreateOther(p, type) ==
  /\ CreateJob(p, NewJob(type, 0))
  /\ UNCHANGED <<executions, steps, approvals, processors, interpreters, requests, crashes>>

-----------------------------------------------------------------------------
(* cancelJob *)

BeginCancelJob(w, j) ==
  /\ Cancellations /\ requests[w].pc = "idle"
  /\ jobs[j].status \notin {"COMPLETED", "FAILED"}
  /\ \E p \in Processes : requests' = [requests EXCEPT ![w] =
       [pc |-> "cancelJob", process |-> p, job |-> j]]
  /\ UNCHANGED <<tables, processors, triggered, interpreters, crashes>>

CancelJob(w) ==
  /\ requests[w].pc = "cancelJob"
  /\ jobs' = [jobs EXCEPT ![requests[w].job].status = "CANCELLED"]
  /\ requests' = [requests EXCEPT ![w] = IdleRequest]
  /\ UNCHANGED <<executions, steps, approvals, processors, triggered, interpreters, crashes>>

-----------------------------------------------------------------------------
(* processNextJobs *)

\* Mutant: failed jobs are taken up again.
PendingOrFailed == {j \in DOMAIN jobs : jobs[j].status \in {"PENDING", "FAILED"}}

Pending == {j \in DOMAIN jobs : jobs[j].status = "PENDING"}

\* orderBy priority desc, createdAt asc
Before(i, j) ==
  \/ jobs[i].priority > jobs[j].priority
  \/ jobs[i].priority = jobs[j].priority /\ i < j

\* The first of them, in order: exactly one sequence.
FirstPending ==
  LET n == IF Cardinality(Pending) < MaxConcurrency THEN Cardinality(Pending) ELSE MaxConcurrency
  IN {batch \in [1..n -> Pending] :
       \A k \in 1..n :
         LET earlier == {batch[i] : i \in 1..(k - 1)}
         IN /\ batch[k] \notin earlier
            /\ \A j \in Pending \ (earlier \cup {batch[k]}) : Before(batch[k], j)}

\* isProcessing is set, and the first jobs in line are read.
ListJobs(p) ==
  /\ triggered[p] /\ processors[p].pc = "idle"
  /\ triggered' = [triggered EXCEPT ![p] = FALSE]
  /\ \E batch \in FirstPending :
       processors' = [processors EXCEPT ![p] =
         IF batch = <<>> THEN IdleProcessor ELSE [pc |-> "next", batch |-> batch]]
  /\ UNCHANGED <<tables, interpreters, requests, crashes>>

\* A trigger that finds isProcessing set is lost.
DropTrigger(p) ==
  /\ triggered[p] /\ processors[p].pc # "idle"
  /\ triggered' = [triggered EXCEPT ![p] = FALSE]
  /\ UNCHANGED <<tables, processors, interpreters, requests, crashes>>

Job(p) == Head(processors[p].batch)

\* The next job of the batch; isProcessing is reset after the last one.
NextJob(p) ==
  IF Len(processors[p].batch) = 1 THEN IdleProcessor
  ELSE [pc |-> "next", batch |-> Tail(processors[p].batch)]

SetJob(p, status) == jobs' = [jobs EXCEPT ![Job(p)].status = status]

HasHandler(p) == jobs[Job(p)].type # "UNREGISTERED"

MarkProcessing(p) ==
  /\ processors[p].pc = "next" /\ HasHandler(p)
  /\ SetJob(p, "PROCESSING")
  /\ processors' = [processors EXCEPT ![p].pc = "handle"]
  /\ UNCHANGED <<executions, steps, approvals, triggered, interpreters, requests, crashes>>

FailUnhandled(p) ==
  /\ processors[p].pc = "next" /\ ~HasHandler(p)
  /\ SetJob(p, "FAILED")
  /\ processors' = [processors EXCEPT ![p] = NextJob(p)]
  /\ UNCHANGED <<executions, steps, approvals, triggered, interpreters, requests, crashes>>

Handles(p, type) == processors[p].pc = "handle" /\ jobs[Job(p)].type = type

\* The handler of some other service resolves or rejects.
HandleOther(p) ==
  /\ Handles(p, "REGISTERED")
  /\ \E pc \in {"returned", "threw"} : processors' = [processors EXCEPT ![p].pc = pc]
  /\ UNCHANGED <<tables, triggered, interpreters, requests, crashes>>

\* The result is written over whatever became of the job meanwhile.
FinishJob(p) ==
  /\ processors[p].pc \in {"returned", "threw"}
  /\ SetJob(p, IF processors[p].pc = "returned" THEN "COMPLETED" ELSE "FAILED")
  /\ processors' = [processors EXCEPT ![p] = NextJob(p)]
  /\ UNCHANGED <<executions, steps, approvals, triggered, interpreters, requests, crashes>>

\* An update of the job row fails outside the inner try: the rest of the batch
\* is given up.
AbandonBatch(p) ==
  /\ Errors
  /\ processors[p].pc \in {"next", "threw"}
  /\ processors' = [processors EXCEPT ![p] = IdleProcessor]
  /\ UNCHANGED <<tables, triggered, interpreters, requests, crashes>>
=============================================================================
