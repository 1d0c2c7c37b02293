--------------------------- MODULE DataOperations ---------------------------
(***************************************************************************)
(* data-operations/services/data-import, data-operation-jobs, and          *)
(* common/idempotency: a job that imports the rows of one file in batches, *)
(* each a transaction of its own, and that is committed again, with the    *)
(* same file, when it stopped half-way.  Of the counts of successful and   *)
(* failed rows only whether they are positive is kept; skipped rows are    *)
(* not counted.                                                            *)
(***************************************************************************)
EXTENDS Handlers

CONSTANTS FileRows,     \* the rows of the file, 1..n, all valid
          BatchSizes    \* the batch sizes that commits may ask for

ASSUME FileAssumption ==
  /\ IsFiniteSet(FileRows) /\ FileRows = 1..Cardinality(FileRows)
  /\ BatchSizes \subseteq Nat \ {0}

\* keyed: every commit sends the same idempotency key.
NoImport(keyed) ==
  [domain |-> "import", keyed |-> keyed,
   key |-> "NONE", expired |-> FALSE,
   job |-> [status |-> "NONE", completed |-> {}, successful |-> FALSE, failed |-> FALSE],
   records |-> [r \in FileRows |-> 0]]      \* how often row r was created

Finished == {"COMPLETED", "FAILED", "CANCELLED"}

PreviewImport(w) ==
  /\ At(w, "read")
  /\ rows.job.status = "NONE"
  /\ Commit(w, [rows EXCEPT !.job.status = "PREVIEWING"])

CancelJob(w) ==
  /\ At(w, "read")
  /\ Seen(w).job.status \notin Finished \cup {"NONE"}
  /\ Commit(w, [rows EXCEPT !.job.status = "CANCELLED"])

\* What start() refuses: a key that is PENDING, or one that another request
\* takes first; what it answers from the record, one that is COMPLETED.
StartKey(w) ==
  /\ At(w, "read")
  /\ rows.keyed
  /\ Seen(w).key \in {"NONE", "FAILED"}
  /\ rows.key = "NONE" \/ Seen(w).key = "FAILED"
  /\ Continue(w, [rows EXCEPT !.key = "PENDING"], "keyed", 0)

\* The record expires, and the next start() replaces it.
ExpireKey(w) ==
  /\ At(w, "read")
  /\ rows.key # "NONE"
  /\ Commit(w, [rows EXCEPT !.key = "NONE", !.expired = TRUE])

\* The commit's own account of the job: which row will be created and which
\* is there already was decided before the key was started.
StartImport(w) ==
  LET seen == Seen(w)
  IN /\ IF rows.keyed THEN Resumes(w, "keyed", 0) ELSE At(w, "read")
     /\ rows.job.status \in {"PREVIEWING", "PROCESSING", "FAILED", "PARTIALLY_COMPLETED"}
     /\ \E size \in BatchSizes :
          Proceed(w, [rows EXCEPT !.job.status = "PROCESSING"], "running",
            [size |-> size, next |-> 0,
             create |-> {r \in FileRows : seen.records[r] = 0},
             completed |-> rows.job.completed, successful |-> rows.job.successful,
             failed |-> rows.job.failed])

Batch(run) ==
  {r \in FileRows : r > run.next * run.size /\ r <= (run.next + 1) * run.size}

Done(run) == run.next \in run.completed

Run(w) == requests[w].doc
Running(w) ==
  At(w, "running") /\ Batch(Run(w)) # {} /\ rows.job.status # "CANCELLED"

SkipBatch(w) ==
  /\ Running(w) /\ Done(Run(w))
  /\ Proceed(w, rows, "running", [Run(w) EXCEPT !.next = @ + 1])

\* The batch is written, but not yet marked as completed.
WriteBatch(w) ==
  LET new == Batch(Run(w)) \cap Run(w).create
  IN /\ Running(w) /\ ~ Done(Run(w))
     /\ Proceed(w, [rows EXCEPT !.records =
                       [r \in DOMAIN @ |-> IF r \in new THEN @[r] + 1 ELSE @[r]]],
          "written",
          [Run(w) EXCEPT !.successful = @ \/ new # {}])

\* A row fails: nothing of the batch is written, the rows before it stay counted
\* as successful, and all of them as failed.
FailBatch(w) ==
  /\ Running(w) /\ ~ Done(Run(w))
  /\ \E row \in Batch(Run(w)) :
       Proceed(w, rows, "running",
         [Run(w) EXCEPT !.next = @ + 1, !.failed = TRUE,
                        !.successful = @ \/ \E r \in Batch(Run(w)) \cap Run(w).create : r < row])

Progress(job, run) ==
  [status |-> job.status, completed |-> run.completed,
   successful |-> run.successful, failed |-> run.failed]

CompleteBatch(w) ==
  LET run == [Run(w) EXCEPT !.completed = @ \cup {Run(w).next}, !.next = @ + 1]
  IN /\ At(w, "written")
     /\ Proceed(w, [rows EXCEPT !.job = Progress(@, run)], "running", run)

\* Mutant: what failed does not matter as long as something was imported.
LenientOutcome(run) == IF run.successful \/ ~ run.failed THEN "COMPLETED" ELSE "FAILED"

Outcome(run) ==
  CASE ~ run.failed -> "COMPLETED"
    [] run.failed /\ run.successful -> "PARTIALLY_COMPLETED"
    [] OTHER -> "FAILED"

FinishImport(w) ==
  LET run == Run(w)
      status == IF rows.job.status = "CANCELLED" THEN "CANCELLED" ELSE Outcome(run)
  IN /\ At(w, "running") /\ (Batch(run) = {} \/ rows.job.status = "CANCELLED")
     /\ Proceed(w, [rows EXCEPT !.job =
          [status |-> status, completed |-> rows.job.completed, successful |-> run.successful,
           failed |-> run.failed]], "finished", run)

CompleteKey(w) ==
  /\ At(w, "finished")
  /\ Commit(w, IF rows.keyed /\ rows.key # "NONE" THEN [rows EXCEPT !.key = "COMPLETED"] ELSE rows)

ImportNext(w) ==
  /\ rows.domain = "import"
  /\ \/ PreviewImport(w) \/ CancelJob(w) \/ StartKey(w) \/ ExpireKey(w) \/ StartImport(w)
     \/ SkipBatch(w) \/ WriteBatch(w) \/ FailBatch(w) \/ CompleteBatch(w)
     \/ FinishImport(w) \/ CompleteKey(w)

-----------------------------------------------------------------------------
\* INV-539: a job that is COMPLETED has imported every row of its file, however
\* often it stopped, was cancelled or was committed by two requests at once;
\* and while its key lives, commits with the key import no row twice.
ImportIsComplete ==
  rows.domain = "import" =>
    /\ rows.job.status = "COMPLETED" => \A r \in FileRows : rows.records[r] > 0
    /\ rows.keyed /\ ~ rows.expired => \A r \in FileRows : rows.records[r] <= 1
=============================================================================
