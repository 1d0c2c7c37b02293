--------------------------- MODULE PlatformProofs ---------------------------
(***************************************************************************)
(* The safety of master data, imports, messages, access, billing,          *)
(* purchases, costs and the books, domain by domain, for every value of    *)
(* the constants.  As in BackOfficeProofs, a domain has an invariant that  *)
(* each of its handlers preserves and that implies its property.  Where    *)
(* the code has a constraint, a lock or a claim that makes requests wait   *)
(* for one another, the invariant does not need that they do not overlap,  *)
(* and speaks of what each of them has read and done so far; elsewhere the *)
(* request in progress is the only one and what it read is still so.       *)
(***************************************************************************)
EXTENDS BackOfficeProofs, SequenceTheorems

-----------------------------------------------------------------------------
(* import: the rows of a file, in batches, by commits that are repeated. *)

\* Every commit asks for the same batch size.
OneSize == \A m, n \in BatchSizes : m = n

\* The rows of batch i.
BatchAt(size, i) == {r \in FileRows : r > i * size /\ r <= (i + 1) * size}

\* The batches that are marked as completed were written.
BatchesWritten(db, completed) ==
  \A i \in completed, size \in BatchSizes : \A r \in BatchAt(size, i) : db.records[r] > 0

\* The tables of the domain.
ImportShape(db) ==
  /\ DOMAIN db = {"domain", "keyed", "key", "expired", "job", "records"}
  /\ DOMAIN db.job = {"status", "completed", "successful", "failed"}
  /\ db.records \in [FileRows -> Nat]

\* What a job says it has done was done.
JobDone(db) ==
  /\ db.job.status = "COMPLETED" => \A r \in FileRows : db.records[r] > 0
  /\ BatchesWritten(db, db.job.completed)

RunShape(run) ==
  /\ DOMAIN run = {"size", "next", "create", "completed", "successful", "failed"}
  /\ run.size \in BatchSizes /\ run.next \in Nat

\* A commit in progress leaves out only what is there, and as long as no batch
\* failed, everything up to its next batch is there.
RunDone(w) ==
  /\ requests[w].pc \in {"read", "keyed"} =>
       \A r \in FileRows : Seen(w).records[r] # 0 => rows.records[r] > 0
  /\ requests[w].pc \in {"running", "written"} =>
       /\ RunShape(Run(w))
       /\ \A r \in FileRows \ Run(w).create : rows.records[r] > 0
       /\ BatchesWritten(rows, Run(w).completed)
       /\ ~ Run(w).failed =>
            \A r \in FileRows : r <= Run(w).next * Run(w).size => rows.records[r] > 0
  /\ requests[w].pc = "written" =>
       \A r \in BatchAt(Run(w).size, Run(w).next) : rows.records[r] > 0

\* A commit that has started its key.
Begun(w) == requests[w].pc \in {"keyed", "running", "written", "finished"}

\* How far the commit in progress has written.
WrittenUpTo(w) ==
  IF requests[w].pc = "running" THEN Run(w).next * Run(w).size
  ELSE IF requests[w].pc = "written" THEN (Run(w).next + 1) * Run(w).size
  ELSE 0

\* While the key lives, one commit has it, and writes what nobody has written.
KeyHeld ==
  /\ rows.key = "NONE" => \A w \in Workers : ~ Begun(w)
  /\ rows.key = "NONE" => \A r \in FileRows : rows.records[r] = 0
  /\ \A v, w \in Workers : Begun(v) /\ Begun(w) => v = w
  /\ \A r \in FileRows : rows.records[r] <= 1
  /\ \A w \in Workers : requests[w].pc \in {"keyed", "running", "written"} =>
       \A r \in FileRows : r > WrittenUpTo(w) => rows.records[r] = 0

KeyStatuses == {"NONE", "PENDING", "COMPLETED"}

ImportInv ==
  /\ ImportShape(rows) /\ JobDone(rows)
  /\ \A w \in Workers : RunDone(w)
  /\ rows.key \in KeyStatuses
  /\ \A w \in Workers : requests[w].pc = "read" => Seen(w).key \in KeyStatuses
  /\ rows.keyed /\ ~ rows.expired => KeyHeld

\* Rows are numbered from 1.
LEMMA Rows1 == FileRows \subseteq Nat \ {0}
<1> DEFINE n == Cardinality(FileRows)
<1>1. n \in Nat /\ FileRows = 1..n
  BY FileAssumption, FS_CardinalityType
<1> HIDE DEF n
<1> QED
  BY <1>1

\* Batches follow each other, from the first row on, and one that is empty is
\* behind the last row.
LEMMA Batches ==
  ASSUME NEW size \in BatchSizes, NEW i \in Nat
  PROVE  /\ size \in Nat \ {0} /\ FileRows \subseteq Nat
         /\ i * size \in Nat /\ (i + 1) * size = i * size + size
         /\ \A r \in FileRows : r <= (i + 1) * size => r <= i * size \/ r \in BatchAt(size, i)
         /\ BatchAt(size, i) = {} => \A r \in FileRows : r <= i * size
<1>1. size \in Nat \ {0} /\ Cardinality(FileRows) \in Nat /\ FileRows = 1..Cardinality(FileRows)
  BY FileAssumption, FS_CardinalityType
<1> DEFINE n == Cardinality(FileRows)
           at == i * size
<1>2. at \in Nat /\ (i + 1) * size = at + size
  BY <1>1
<1> HIDE DEF n, at
<1>3. n \in Nat /\ FileRows = 1..n
  BY <1>1 DEF n
<1>4. BatchAt(size, i) = {r \in FileRows : r > at /\ r <= at + size}
  BY <1>2 DEF BatchAt, at
<1>5. \A r \in FileRows : r <= at + size => r <= at \/ r \in BatchAt(size, i)
  BY <1>2, <1>3, <1>4
<1>6. ASSUME BatchAt(size, i) = {}, NEW r \in FileRows PROVE r <= at
  <2>1. CASE n > at
    <3>1. at + 1 \in BatchAt(size, i)
      BY <1>1, <1>2, <1>3, <1>4, <2>1
    <3> QED
      BY <1>6, <3>1
  <2> QED
    BY <1>2, <1>3, <2>1
<1> QED
  BY <1>1, <1>2, <1>3, <1>5, <1>6 DEF at

\* A request that starts or ends without a write.
LEMMA ImportStay ==
  ASSUME ImportInv, rows' = rows,
         \A v \in Workers : \/ requests'[v] = requests[v] \/ requests'[v].pc = "idle"
                            \/ requests'[v] = [pc |-> "read", seen |-> rows]
  PROVE  ImportInv'
<1>1. \A v \in Workers : RunDone(v)'
  <2> SUFFICES ASSUME NEW v \in Workers PROVE RunDone(v)'
    OBVIOUS
  <2>1. CASE requests'[v] = requests[v]
    BY <2>1 DEF ImportInv, RunDone, Seen, Run
  <2>2. CASE requests'[v].pc = "idle"
    BY <2>2 DEF RunDone
  <2>3. CASE requests'[v] = [pc |-> "read", seen |-> rows]
    BY <2>3 DEF RunDone, Seen, ImportInv, ImportShape
  <2> QED
    BY <2>1, <2>2, <2>3
<1>2. \A v \in Workers : requests'[v].pc = "read" => Seen(v)'.key \in KeyStatuses
  BY DEF ImportInv, Seen
<1>3. rows.keyed /\ ~ rows.expired => KeyHeld'
  <2>1. \A v \in Workers : Begun(v)' => Begun(v) /\ requests'[v] = requests[v]
    BY DEF Begun
  <2>2. \A v \in Workers : requests'[v] = requests[v] => WrittenUpTo(v)' = WrittenUpTo(v)
    BY DEF WrittenUpTo, Run
  <2> QED
    BY <2>1, <2>2 DEF ImportInv, KeyHeld, Begun
<1> QED
  BY <1>1, <1>2, <1>3 DEF ImportInv

\* What is there stays there for the other commits.
LEMMA OthersDone ==
  ASSUME ImportInv, NEW w \in Workers, \A v \in Workers : v # w => requests'[v] = requests[v],
         \A r \in FileRows : rows.records[r] > 0 => rows'.records[r] > 0
  PROVE  /\ \A v \in Workers : v # w => RunDone(v)'
         /\ \A c : BatchesWritten(rows, c) => BatchesWritten(rows', c)
<1>1. \A c : BatchesWritten(rows, c) => BatchesWritten(rows', c)
  BY DEF BatchesWritten, BatchAt
<1>2. ASSUME NEW v \in Workers, v # w PROVE RunDone(v)'
  <2>1. RunDone(v) /\ requests'[v] = requests[v] /\ Seen(v)' = Seen(v) /\ Run(v)' = Run(v)
    BY <1>2 DEF ImportInv, Seen, Run
  <2>2. BatchesWritten(rows, Run(v).completed) => BatchesWritten(rows', Run(v).completed)
    BY <1>1
  <2> QED
    BY <2>1, <2>2 DEF RunDone, BatchAt
<1> QED
  BY <1>1, <1>2

\* A step of one commit: what it must see to, and what then holds of the key.
LEMMA ImportGoesOn ==
  ASSUME ImportInv, NEW w \in Workers, \A v \in Workers : v # w => requests'[v] = requests[v],
         \A r \in FileRows : rows.records[r] > 0 => rows'.records[r] > 0,
         ImportShape(rows'), JobDone(rows'), RunDone(w)', rows'.key \in KeyStatuses,
         requests'[w].pc # "read",
         rows'.keyed /\ ~ rows'.expired => KeyHeld'
  PROVE  ImportInv'
<1>1. \A v \in Workers : RunDone(v)'
  BY OthersDone
<1>2. \A v \in Workers : requests'[v].pc = "read" => Seen(v)'.key \in KeyStatuses
  BY DEF ImportInv, Seen
<1> QED
  BY <1>1, <1>2 DEF ImportInv

\* A step that creates no record, and leaves the key to whoever has it.
LEMMA KeyHeldStays ==
  ASSUME KeyHeld, NEW w \in Workers, \A v \in Workers : v # w => requests'[v] = requests[v],
         rows'.records = rows.records, rows'.key = "NONE" => rows.key = "NONE",
         Begun(w)' => Begun(w),
         requests'[w].pc \in {"keyed", "running", "written"} =>
           /\ requests[w].pc \in {"keyed", "running", "written"}
           /\ \A r \in FileRows : r > WrittenUpTo(w)' => r > WrittenUpTo(w)
  PROVE  KeyHeld'
<1>1. \A v \in Workers : v # w => (Begun(v)' <=> Begun(v)) /\ WrittenUpTo(v)' = WrittenUpTo(v)
  BY DEF Begun, WrittenUpTo, Run
<1> QED
  BY <1>1 DEF KeyHeld

\* A batch that is skipped because it was completed, or fails.
Passes(run, next) ==
  \/ run.next \in run.completed /\ next = [run EXCEPT !.next = @ + 1]
  \/ \E s : next = [run EXCEPT !.next = @ + 1, !.failed = TRUE, !.successful = s]

\* Every step of the imports, whatever else runs, preserves ImportInv.
LEMMA ImportStep ==
  ASSUME OneSize, ImportInv, NEW w \in Workers, ImportNext(w),
         requests' = [requests EXCEPT ![w] = requests'[w]],
         requests = [v \in Workers |-> requests[v]]
  PROVE  ImportInv'
<1> DEFINE New == requests'[w]
           run == Run(w)
<1>1. \A v \in Workers : v # w => requests'[v] = requests[v]
  OBVIOUS
<1>2. /\ ImportShape(rows) /\ JobDone(rows) /\ RunDone(w) /\ rows.key \in KeyStatuses
      /\ requests[w].pc = "read" => Seen(w).key \in KeyStatuses
      /\ rows.keyed /\ ~ rows.expired => KeyHeld
      /\ rows.records \in [FileRows -> Nat]
  BY DEF ImportInv, ImportShape
\* Steps that create no record and end the request.
<1>3. ASSUME NEW job, NEW key, NEW expired, New = Idle,
             rows' = [rows EXCEPT !.job = job, !.key = key, !.expired = expired],
             DOMAIN job = DOMAIN rows.job, job.completed = rows.job.completed,
             job.status = "COMPLETED" => rows.job.status = "COMPLETED",
             key \in KeyStatuses, ~ expired => ~ rows.expired /\ (key = "NONE" => rows.key = "NONE")
      PROVE  ImportInv'
  <2>1. /\ rows' = [[[rows EXCEPT !.job = job] EXCEPT !.key = key] EXCEPT !.expired = expired]
    BY <1>3
  <2>2. /\ DOMAIN rows' = DOMAIN rows /\ rows'.domain = rows.domain /\ rows'.job = job
        /\ rows'.key = key /\ rows'.expired = expired /\ rows'.keyed = rows.keyed
        /\ rows'.records = rows.records
    BY <1>2, <2>1 DEF ImportShape
  <2>3. ImportShape(rows') /\ JobDone(rows') /\ RunDone(w)'
    BY <1>2, <1>3, <2>2 DEF ImportShape, JobDone, RunDone, BatchesWritten, Idle
  <2>4. rows'.keyed /\ ~ rows'.expired => KeyHeld'
    BY <1>1, <1>2, <1>3, <2>2, KeyHeldStays DEF Begun, Idle
  <2> QED
    BY <1>1, <1>3, <2>2, <2>3, <2>4, ImportGoesOn DEF Idle
<1>4. CASE PreviewImport(w)
  <2> DEFINE job == [rows.job EXCEPT !.status = "PREVIEWING"]
  <2>1. New = Idle /\ rows' = [rows EXCEPT !.job = job]
    BY <1>4 DEF PreviewImport, Commit
  <2>2. /\ DOMAIN job = DOMAIN rows.job /\ job.completed = rows.job.completed
        /\ job.status = "PREVIEWING"
    BY <1>2 DEF ImportShape
  <2> HIDE DEF job
  <2>3. rows' = [rows EXCEPT !.job = job, !.key = rows.key, !.expired = rows.expired]
    BY <1>2, <2>1 DEF ImportShape
  <2> QED
    BY <1>2, <1>3, <2>1, <2>2, <2>3
<1>5. CASE CancelJob(w)
  <2> DEFINE job == [rows.job EXCEPT !.status = "CANCELLED"]
  <2>1. New = Idle /\ rows' = [rows EXCEPT !.job = job]
    BY <1>5 DEF CancelJob, Commit
  <2>2. /\ DOMAIN job = DOMAIN rows.job /\ job.completed = rows.job.completed
        /\ job.status = "CANCELLED"
    BY <1>2 DEF ImportShape
  <2> HIDE DEF job
  <2>3. rows' = [rows EXCEPT !.job = job, !.key = rows.key, !.expired = rows.expired]
    BY <1>2, <2>1 DEF ImportShape
  <2> QED
    BY <1>2, <1>3, <2>1, <2>2, <2>3
<1>6. CASE StartKey(w)
  <2>1. /\ rows.keyed /\ Seen(w).key \in {"NONE", "FAILED"}
        /\ rows.key = "NONE" \/ Seen(w).key = "FAILED"
        /\ requests[w].pc = "read" /\ rows' = [rows EXCEPT !.key = "PENDING"]
        /\ New = [pc |-> "keyed", seen |-> Seen(w), doc |-> 0]
    BY <1>6 DEF StartKey, Continue, At
  <2>2. rows.key = "NONE"
    BY <1>2, <2>1 DEF KeyStatuses
  <2>3. /\ DOMAIN rows' = DOMAIN rows /\ rows'.domain = rows.domain /\ rows'.job = rows.job
        /\ rows'.key = "PENDING" /\ rows'.expired = rows.expired /\ rows'.keyed = rows.keyed
        /\ rows'.records = rows.records
    BY <1>2, <2>1 DEF ImportShape
  <2>4. ImportShape(rows') /\ JobDone(rows')
    BY <1>2, <2>3 DEF ImportShape, JobDone, BatchesWritten
  <2>5. RunDone(w)'
    BY <1>2, <2>1, <2>3 DEF RunDone, Seen
  <2>6. ASSUME rows.keyed, ~ rows.expired PROVE KeyHeld'
    <3>1. /\ \A v \in Workers : v # w => ~ Begun(v)' 
          /\ \A r \in FileRows : rows'.records[r] = 0
      BY <1>1, <1>2, <2>2, <2>3, <2>6 DEF KeyHeld, Begun
    <3> QED
      BY <2>3, <3>1 DEF KeyHeld, Begun
  <2> QED
    BY <1>1, <2>1, <2>3, <2>4, <2>5, <2>6, ImportGoesOn DEF KeyStatuses
<1>7. CASE ExpireKey(w)
  <2>1. New = Idle /\ rows' = [rows EXCEPT !.key = "NONE", !.expired = TRUE]
    BY <1>7 DEF ExpireKey, Commit
  <2>2. rows' = [rows EXCEPT !.job = rows.job, !.key = "NONE", !.expired = TRUE]
    BY <1>2, <2>1 DEF ImportShape
  <2> QED
    BY <1>3, <2>1, <2>2 DEF KeyStatuses
<1>8. CASE CompleteKey(w)
  <2>1. /\ New = Idle
        /\ rows' = rows \/ (rows.key # "NONE" /\ rows' = [rows EXCEPT !.key = "COMPLETED"])
    BY <1>8 DEF CompleteKey, Commit
  <2>2. CASE rows' = rows
    BY <1>1, <2>1, <2>2, ImportStay DEF Idle
  <2>3. CASE rows.key # "NONE" /\ rows' = [rows EXCEPT !.key = "COMPLETED"]
    <3>1. rows' = [rows EXCEPT !.job = rows.job, !.key = "COMPLETED", !.expired = rows.expired]
      BY <1>2, <2>3 DEF ImportShape
    <3> QED
      BY <1>2, <1>3, <2>1, <2>3, <3>1 DEF KeyStatuses
  <2> QED
    BY <2>1, <2>2, <2>3
<1>9. CASE StartImport(w)
  <2>1. PICK size \in BatchSizes :
          /\ requests[w].pc \in {"read", "keyed"} /\ (rows.keyed => requests[w].pc = "keyed")
          /\ rows' = [rows EXCEPT !.job.status = "PROCESSING"]
          /\ New = [pc |-> "running",
                    doc |-> [size |-> size, next |-> 0,
                             create |-> {r \in FileRows : Seen(w).records[r] = 0},
                             completed |-> rows.job.completed, successful |-> rows.job.successful,
                             failed |-> rows.job.failed]]
    BY <1>9 DEF StartImport, Proceed, Resumes, At
  <2>2. /\ DOMAIN rows' = DOMAIN rows /\ rows'.domain = rows.domain
        /\ rows'.job.completed = rows.job.completed /\ rows'.job.status = "PROCESSING"
        /\ DOMAIN rows'.job = DOMAIN rows.job
        /\ rows'.key = rows.key /\ rows'.expired = rows.expired /\ rows'.keyed = rows.keyed
        /\ rows'.records = rows.records
    BY <1>2, <2>1 DEF ImportShape
  <2>3. ImportShape(rows') /\ JobDone(rows') /\ BatchesWritten(rows', rows.job.completed)
    BY <1>2, <2>2 DEF ImportShape, JobDone, BatchesWritten
  <2>4. size \in Nat \ {0} /\ 0 * size = 0 /\ FileRows \subseteq Nat \ {0}
    BY Rows1, FileAssumption
  <2>5. /\ Run(w)'.size = size /\ Run(w)'.next = 0 /\ New.pc = "running"
        /\ Run(w)'.create = {r \in FileRows : Seen(w).records[r] = 0}
        /\ Run(w)'.completed = rows.job.completed /\ RunShape(Run(w)')
    BY <2>1 DEF Run, RunShape
  <2>6. RunDone(w)'
    BY <1>2, <2>1, <2>2, <2>3, <2>4, <2>5 DEF RunDone
  <2>7. ASSUME rows.keyed, ~ rows.expired PROVE KeyHeld'
    <3>1. WrittenUpTo(w)' = 0 /\ WrittenUpTo(w) = 0 /\ Begun(w)
      BY <2>1, <2>4, <2>5, <2>7 DEF WrittenUpTo, Begun
    <3> QED
      BY <1>1, <1>2, <2>1, <2>2, <2>7, <3>1, KeyHeldStays
  <2> QED
    BY <1>1, <1>2, <2>2, <2>3, <2>5, <2>6, <2>7, ImportGoesOn
<1>10. CASE SkipBatch(w) \/ FailBatch(w)
  <2>1. PICK next :
          /\ requests[w].pc = "running" /\ rows' = rows
          /\ New = [pc |-> "running", doc |-> next]
          /\ Passes(run, next)
    BY <1>10 DEF SkipBatch, FailBatch, Running, Proceed, At, Done, Passes
  <2>2. RunShape(run) /\ run.size \in BatchSizes /\ run.next \in Nat
    BY <1>2, <2>1 DEF RunDone, RunShape
  <2>3. /\ RunShape(next) /\ next.next = run.next + 1 /\ next.size = run.size
        /\ next.create = run.create /\ next.completed = run.completed
        /\ ~ next.failed => run.next \in run.completed /\ ~ run.failed
    <3>1. CASE run.next \in run.completed /\ next = [run EXCEPT !.next = @ + 1]
      BY <2>2, <3>1 DEF RunShape
    <3>2. ASSUME NEW s, next = [run EXCEPT !.next = @ + 1, !.failed = TRUE, !.successful = s]
          PROVE  /\ RunShape(next) /\ next.next = run.next + 1 /\ next.size = run.size
                 /\ next.create = run.create /\ next.completed = run.completed
                 /\ next.failed = TRUE
      <4>1. next = [[[run EXCEPT !.next = @ + 1] EXCEPT !.failed = TRUE] EXCEPT !.successful = s]
        BY <3>2
      <4> QED
        BY <2>2, <4>1 DEF RunShape
    <3> QED
      BY <2>1, <3>1, <3>2 DEF Passes
  <2>4. Run(w)' = next /\ New.pc = "running"
    <3>1. New.doc = next /\ New.pc = "running"
      BY <2>1
    <3> QED
      BY <3>1 DEF Run
  <2> HIDE DEF run, New
  <2>5. /\ \A r \in FileRows \ run.create : rows.records[r] > 0
        /\ BatchesWritten(rows, run.completed)
        /\ ~ run.failed => \A r \in FileRows : r <= run.next * run.size => rows.records[r] > 0
    BY <1>2, <2>1 DEF RunDone, run
  <2>6. ~ next.failed => \A r \in FileRows : r <= next.next * next.size => rows.records[r] > 0
    <3>1. run.next \in run.completed => \A r \in BatchAt(run.size, run.next) : rows.records[r] > 0
      BY <2>2, <2>5 DEF BatchesWritten
    <3>2. \A r \in FileRows : r <= (run.next + 1) * run.size =>
            r <= run.next * run.size \/ r \in BatchAt(run.size, run.next)
      BY <2>2, Batches
    <3> QED
      BY <2>3, <2>5, <3>1, <3>2
  <2>7. RunDone(w)'
    BY <2>1, <2>3, <2>4, <2>5, <2>6 DEF RunDone, New
  <2>8. WrittenUpTo(w) = run.next * run.size /\ WrittenUpTo(w)' = next.next * next.size
    BY <2>1, <2>4 DEF WrittenUpTo, run, New
  <2>9. WrittenUpTo(w) \in Nat /\ WrittenUpTo(w)' \in Nat /\ WrittenUpTo(w)' >= WrittenUpTo(w)
    <3>1. /\ run.size \in Nat \ {0} /\ run.next * run.size \in Nat
          /\ (run.next + 1) * run.size = run.next * run.size + run.size
      BY <2>2, Batches
    <3> DEFINE at == run.next * run.size
    <3>2. WrittenUpTo(w) = at /\ WrittenUpTo(w)' = at + run.size /\ at \in Nat /\ run.size \in Nat
      BY <2>3, <2>8, <3>1
    <3> HIDE DEF at
    <3> QED
      BY <3>2
  <2>10. \A r \in FileRows : r > WrittenUpTo(w)' => r > WrittenUpTo(w)
    BY <2>9, Rows1
  <2>11. rows.keyed /\ ~ rows.expired => KeyHeld'
    BY <1>1, <1>2, <2>1, <2>4, <2>9, <2>10, KeyHeldStays DEF Begun, New
  <2> QED
    BY <1>1, <1>2, <2>1, <2>4, <2>7, <2>11, ImportGoesOn DEF New
<1>11. CASE WriteBatch(w)
  <2> DEFINE new == Batch(run) \cap run.create
  <2>1. PICK s :
          /\ requests[w].pc = "running"
          /\ rows' = [rows EXCEPT !.records = [r \in DOMAIN @ |-> IF r \in new THEN @[r] + 1 ELSE @[r]]]
          /\ New = [pc |-> "written", doc |-> [run EXCEPT !.successful = s]]
    BY <1>11 DEF WriteBatch, Running, Proceed, At
  <2>2. RunShape(run) /\ run.size \in BatchSizes /\ run.next \in Nat
    BY <1>2, <2>1 DEF RunDone, RunShape
  <2>3. /\ RunShape(Run(w)') /\ New.pc = "written"
        /\ Run(w)'.next = run.next /\ Run(w)'.size = run.size /\ Run(w)'.create = run.create
        /\ Run(w)'.completed = run.completed /\ Run(w)'.failed = run.failed
    BY <2>1, <2>2 DEF RunShape, Run
  <2>4. new = BatchAt(run.size, run.next) \cap run.create
    BY DEF Batch, BatchAt
  <2> HIDE DEF run, New, new
  <2>5. /\ \A r \in FileRows \ run.create : rows.records[r] > 0
        /\ BatchesWritten(rows, run.completed)
        /\ ~ run.failed => \A r \in FileRows : r <= run.next * run.size => rows.records[r] > 0
    BY <1>2, <2>1 DEF RunDone, run
  <2>6. /\ DOMAIN rows' = DOMAIN rows /\ rows'.domain = rows.domain /\ rows'.job = rows.job
        /\ rows'.key = rows.key /\ rows'.expired = rows.expired /\ rows'.keyed = rows.keyed
        /\ rows'.records = [r \in FileRows |-> IF r \in new THEN rows.records[r] + 1 ELSE rows.records[r]]
    BY <1>2, <2>1 DEF ImportShape
  <2>7. /\ \A r \in FileRows : rows.records[r] \in Nat
        /\ \A r \in FileRows : rows'.records[r] =
             IF r \in new THEN rows.records[r] + 1 ELSE rows.records[r]
        /\ \A r \in FileRows : rows.records[r] > 0 => rows'.records[r] > 0
        /\ \A r \in new : rows'.records[r] > 0
        /\ rows'.records \in [FileRows -> Nat]
    BY <1>2, <2>4, <2>6 DEF BatchAt
  <2>8. \A c : BatchesWritten(rows, c) => BatchesWritten(rows', c)
    BY <1>1, <2>7, OthersDone
  <2>9. ImportShape(rows') /\ JobDone(rows')
    BY <1>2, <2>6, <2>7, <2>8 DEF ImportShape, JobDone
  <2>10. \A r \in BatchAt(run.size, run.next) : rows'.records[r] > 0
    BY <2>4, <2>5, <2>7 DEF BatchAt
  <2>11. RunDone(w)'
    BY <2>3, <2>5, <2>7, <2>8, <2>10 DEF RunDone, New
  <2>12. ASSUME rows.keyed, ~ rows.expired PROVE KeyHeld'
    <3> DEFINE at == run.next * run.size
               next == (run.next + 1) * run.size
    <3>1. KeyHeld /\ Begun(w) /\ Begun(w)' /\ WrittenUpTo(w) = at /\ WrittenUpTo(w)' = next
      BY <1>2, <2>1, <2>3, <2>12 DEF Begun, WrittenUpTo, New, run
    <3>2. /\ at \in Nat /\ run.size \in Nat /\ next = at + run.size /\ FileRows \subseteq Nat
          /\ \A r \in new : r \in FileRows /\ r > at /\ r <= next
      BY <2>2, <2>4, Batches DEF BatchAt
    <3> HIDE DEF at, next
    <3>3. \A r \in FileRows : r > at => rows.records[r] = 0
      BY <2>1, <3>1 DEF KeyHeld
    <3>4. \A r \in FileRows : rows'.records[r] <= 1 /\ (r > next => rows'.records[r] = 0)
      BY <2>7, <3>1, <3>2, <3>3 DEF KeyHeld
    <3>5. \A v \in Workers : v # w => ~ Begun(v)' /\ ~ Begun(v)
      BY <1>1, <3>1 DEF KeyHeld, Begun
    <3>6. rows'.key # "NONE"
      BY <2>6, <3>1 DEF KeyHeld
    <3> QED
      BY <3>1, <3>4, <3>5, <3>6 DEF KeyHeld, Begun
  <2> QED
    BY <1>1, <1>2, <2>3, <2>6, <2>7, <2>9, <2>11, <2>12, ImportGoesOn DEF New
<1>12. CASE CompleteBatch(w)
  <2> DEFINE next == [run EXCEPT !.completed = @ \cup {run.next}, !.next = @ + 1]
  <2>1. /\ requests[w].pc = "written" /\ rows' = [rows EXCEPT !.job = Progress(@, next)]
        /\ New = [pc |-> "running", doc |-> next]
    BY <1>12 DEF CompleteBatch, Proceed, At
  <2>2. RunShape(run) /\ run.size \in BatchSizes /\ run.next \in Nat
    BY <1>2, <2>1 DEF RunDone, RunShape
  <2>3. /\ RunShape(next) /\ next.next = run.next + 1 /\ next.size = run.size
        /\ next.create = run.create /\ next.completed = run.completed \cup {run.next}
        /\ next.failed = run.failed
    <3>1. next = [[run EXCEPT !.completed = @ \cup {run.next}] EXCEPT !.next = @ + 1]
      BY <2>2 DEF RunShape
    <3> QED
      BY <2>2, <3>1 DEF RunShape
  <2>4. Run(w)' = next /\ New.pc = "running"
    BY <2>1 DEF Run
  <2> HIDE DEF run, New, next
  <2>5. /\ \A r \in FileRows \ run.create : rows.records[r] > 0
        /\ BatchesWritten(rows, run.completed)
        /\ ~ run.failed => \A r \in FileRows : r <= run.next * run.size => rows.records[r] > 0
        /\ \A r \in BatchAt(run.size, run.next) : rows.records[r] > 0
    BY <1>2, <2>1 DEF RunDone, run
  <2>6. /\ DOMAIN rows' = DOMAIN rows /\ rows'.domain = rows.domain
        /\ rows'.job = Progress(rows.job, next)
        /\ rows'.key = rows.key /\ rows'.expired = rows.expired /\ rows'.keyed = rows.keyed
        /\ rows'.records = rows.records
    BY <1>2, <2>1 DEF ImportShape
  <2>7. /\ DOMAIN rows'.job = DOMAIN rows.job /\ rows'.job.status = rows.job.status
        /\ rows'.job.completed = next.completed
    BY <1>2, <2>6 DEF ImportShape, Progress
  <2>8. BatchesWritten(rows, next.completed)
    BY <2>2, <2>3, <2>5 DEF BatchesWritten, OneSize
  <2>9. ImportShape(rows') /\ JobDone(rows') /\ BatchesWritten(rows', next.completed)
    BY <1>2, <2>6, <2>7, <2>8 DEF ImportShape, JobDone, BatchesWritten
  <2>10. ~ next.failed => \A r \in FileRows : r <= next.next * next.size => rows.records[r] > 0
    <3>1. \A r \in FileRows : r <= (run.next + 1) * run.size =>
            r <= run.next * run.size \/ r \in BatchAt(run.size, run.next)
      BY <2>2, Batches
    <3> QED
      BY <2>3, <2>5, <3>1
  <2>11. RunDone(w)'
    BY <2>3, <2>4, <2>5, <2>6, <2>9, <2>10 DEF RunDone, New
  <2>12. WrittenUpTo(w)' = WrittenUpTo(w)
    BY <2>1, <2>3, <2>4 DEF WrittenUpTo, New, run
  <2>13. rows.keyed /\ ~ rows.expired => KeyHeld'
    BY <1>1, <1>2, <2>1, <2>4, <2>6, <2>12, KeyHeldStays DEF Begun, New
  <2> QED
    BY <1>1, <1>2, <2>4, <2>6, <2>9, <2>11, <2>13, ImportGoesOn DEF New
<1>13. CASE FinishImport(w)
  <2> DEFINE status == IF rows.job.status = "CANCELLED" THEN "CANCELLED" ELSE Outcome(run)
             job == [status |-> status, completed |-> rows.job.completed,
                     successful |-> run.successful, failed |-> run.failed]
  <2>1. /\ requests[w].pc = "running" /\ (Batch(run) = {} \/ rows.job.status = "CANCELLED")
        /\ rows' = [rows EXCEPT !.job = job] /\ New = [pc |-> "finished", doc |-> run]
    BY <1>13 DEF FinishImport, Proceed, At
  <2>2. RunShape(run) /\ run.size \in BatchSizes /\ run.next \in Nat
    BY <1>2, <2>1 DEF RunDone, RunShape
  <2>3. status = "COMPLETED" => ~ run.failed /\ Batch(run) = {}
    BY <2>1 DEF Outcome
  <2>4. Batch(run) = BatchAt(run.size, run.next)
    BY DEF Batch, BatchAt
  <2>5. DOMAIN job = DOMAIN rows.job /\ job.status = status /\ job.completed = rows.job.completed
    BY <1>2 DEF ImportShape
  <2> HIDE DEF run, New, status, job
  <2>6. status = "COMPLETED" => \A r \in FileRows : rows.records[r] > 0
    <3>1. ~ run.failed => \A r \in FileRows : r <= run.next * run.size => rows.records[r] > 0
      BY <1>2, <2>1 DEF RunDone, run
    <3>2. Batch(run) = {} => \A r \in FileRows : r <= run.next * run.size
      BY <2>2, <2>4, Batches
    <3> QED
      BY <2>3, <3>1, <3>2
  <2>7. /\ DOMAIN rows' = DOMAIN rows /\ rows'.domain = rows.domain /\ rows'.job = job
        /\ rows'.key = rows.key /\ rows'.expired = rows.expired /\ rows'.keyed = rows.keyed
        /\ rows'.records = rows.records
    BY <1>2, <2>1 DEF ImportShape
  <2>8. ImportShape(rows') /\ JobDone(rows')
    BY <1>2, <2>5, <2>6, <2>7 DEF ImportShape, JobDone, BatchesWritten
  <2>9. New.pc = "finished" /\ RunDone(w)'
    BY <2>1 DEF RunDone, New
  <2>10. rows.keyed /\ ~ rows.expired => KeyHeld'
    BY <1>1, <1>2, <2>1, <2>7, <2>9, KeyHeldStays DEF Begun, New
  <2> QED
    BY <1>1, <1>2, <2>7, <2>8, <2>9, <2>10, ImportGoesOn DEF New
<1> QED
  BY <1>4, <1>5, <1>6, <1>7, <1>8, <1>9, <1>10, <1>11, <1>12, <1>13 DEF ImportNext

LEMMA NoImportOk ==
  ASSUME NEW keyed, rows = NoImport(keyed), \A w \in Workers : requests[w] = Idle
  PROVE  ImportInv
<1>1. /\ ImportShape(rows) /\ rows.key = "NONE" /\ rows.job.status = "NONE"
      /\ rows.job.completed = {} /\ \A r \in FileRows : rows.records[r] = 0
  BY DEF NoImport, ImportShape
<1> QED
  BY <1>1 DEF ImportInv, JobDone, BatchesWritten, RunDone, KeyHeld, KeyStatuses, Begun, Idle

\* ImportInv implies the property of the imports.
LEMMA ImportIsCompleteThen ==
  ASSUME rows.domain = "import" => ImportInv
  PROVE  ImportIsComplete
  BY DEF ImportIsComplete, ImportInv, JobDone, KeyHeld

-----------------------------------------------------------------------------
(* webhooks: one delivery, its jobs and its attempts. *)

\* What the request carries on is for it alone to carry on.
Holds(w) == requests[w].pc \in {"recorded", "scheduled", "requested", "accepted", "refused"}

\* A delivery that may be attempted.
Waiting(db) ==
  db.delivery.status \in {"PENDING", "FAILED"} /\ db.delivery.attempts < MaxAttempts

\* The tables of the domain.
WebhooksShape(db) ==
  /\ DOMAIN db = {"domain", "recorded", "dispatches", "jobs", "accepted", "delivery"}
  /\ DOMAIN db.delivery = {"status", "attempts"}

\* A delivery at each of its statuses.
WebhookOk(db) ==
  /\ db.delivery.attempts \in 0..MaxAttempts
  /\ db.accepted \in Nat /\ db.accepted <= db.delivery.attempts
  /\ db.delivery.status \in {"NONE", "PENDING"} => db.delivery.attempts = 0
  /\ db.delivery.status = "FAILED" => db.delivery.attempts < MaxAttempts
  /\ db.delivery.status = "DEAD_LETTER" => db.delivery.attempts = MaxAttempts
  /\ db.delivery.status = "SUCCESS" => db.accepted > 0

\* The jobs of a delivery: one, at first to dispatch and then to deliver.
QueueOk(db) ==
  /\ db.jobs \in {0, 1} /\ db.dispatches \in {0, 1}
  /\ db.jobs = 1 => db.dispatches = 0 /\ Waiting(db)
  /\ db.dispatches = 1 => db.delivery.status = "NONE"
  /\ ~ db.recorded => db.jobs = 0 /\ db.dispatches = 0 /\ db.delivery.status = "NONE"

\* A request that carries the delivery on knows how far it is, and no job does
\* the same.
CarriedOk(w) ==
  /\ rows.jobs = 0 /\ rows.dispatches = 0 /\ rows.recorded = TRUE
  /\ requests[w].pc = "recorded" => rows.delivery.status = "NONE"
  /\ requests[w].pc = "scheduled" => Waiting(rows)
  /\ requests[w].pc \in {"requested", "accepted", "refused"} =>
       /\ rows.delivery.status = "IN_PROGRESS"
       /\ requests[w].doc \in Nat /\ rows.delivery.attempts = requests[w].doc + 1
  /\ requests[w].pc = "requested" => rows.accepted <= requests[w].doc
  /\ requests[w].pc = "accepted" => rows.accepted > 0

WebhooksInv ==
  /\ WebhooksShape(rows) /\ WebhookOk(rows) /\ QueueOk(rows)
  /\ \A w \in Workers : Holds(w) => CarriedOk(w)
  /\ \A v, w \in Workers : Holds(v) /\ Holds(w) => v = w

\* A request that starts or ends without a write takes nothing from the others.
LEMMA WebhooksStay ==
  ASSUME WebhooksInv, rows' = rows,
         \A v \in Workers : requests'[v] = requests[v] \/ requests'[v].pc \in {"idle", "read"}
  PROVE  WebhooksInv'
<1>1. \A v \in Workers : Holds(v)' => Holds(v) /\ requests'[v] = requests[v]
  BY DEF Holds
<1>2. \A v \in Workers : Holds(v)' => CarriedOk(v)'
  BY <1>1 DEF WebhooksInv, CarriedOk
<1> QED
  BY <1>1, <1>2 DEF WebhooksInv

\* A request that passes nothing on, when nobody else had anything to pass on.
LEMMA WebhooksGoOn ==
  ASSUME WebhooksInv, NEW w \in Workers,
         \A v \in Workers : v # w => requests'[v] = requests[v] /\ ~ Holds(v),
         WebhooksShape(rows'), WebhookOk(rows'), QueueOk(rows'), Holds(w)' => CarriedOk(w)'
  PROVE  WebhooksInv'
<1>1. \A v \in Workers : v # w => ~ Holds(v)'
  BY DEF Holds
<1> QED
  BY <1>1 DEF WebhooksInv

\* Every step of a webhook, whatever else runs, preserves WebhooksInv.
LEMMA WebhooksStep ==
  ASSUME WebhooksInv, NEW w \in Workers, WebhooksNext(w),
         requests' = [requests EXCEPT ![w] = requests'[w]],
         requests = [v \in Workers |-> requests[v]]
  PROVE  WebhooksInv'
<1> DEFINE New == requests'[w]
<1> USE DEF MaxAttempts
<1>1. \A v \in Workers : v # w => requests'[v] = requests[v]
  OBVIOUS
<1>2. /\ WebhooksShape(rows) /\ WebhookOk(rows) /\ QueueOk(rows) /\ (Holds(w) => CarriedOk(w))
      /\ \A v \in Workers : Holds(v) => CarriedOk(v)
      /\ \A v \in Workers : v # w /\ Holds(w) => ~ Holds(v)
  BY DEF WebhooksInv
<1>3. CASE RecordIntegrationEvent(w)
  <2>1. /\ rows.recorded = FALSE \/ ~ rows.recorded
        /\ rows' = [rows EXCEPT !.recorded = TRUE] /\ New = [pc |-> "recorded", doc |-> 0]
    BY <1>3 DEF RecordIntegrationEvent, Proceed, At
  <2>2. \A v \in Workers : ~ Holds(v)
    BY <1>2, <2>1 DEF CarriedOk
  <2>3. /\ WebhooksShape(rows') /\ rows'.recorded = TRUE /\ rows'.jobs = rows.jobs
        /\ rows'.dispatches = rows.dispatches /\ rows'.accepted = rows.accepted
        /\ rows'.delivery = rows.delivery
    BY <1>2, <2>1 DEF WebhooksShape
  <2>4. WebhookOk(rows') /\ QueueOk(rows')
    BY <1>2, <2>3 DEF WebhookOk, QueueOk, Waiting
  <2>5. CarriedOk(w)'
    BY <1>2, <2>1, <2>3 DEF CarriedOk, QueueOk
  <2> QED
    BY <1>1, <2>2, <2>3, <2>4, <2>5, WebhooksGoOn
<1>4. CASE EnqueueDispatch(w)
  <2>1. /\ requests[w].pc = "recorded"
        /\ rows' = [rows EXCEPT !.dispatches = 1] /\ New = Idle
    BY <1>4 DEF EnqueueDispatch, Commit, Resumes, At
  <2>2. Holds(w) /\ CarriedOk(w) /\ ~ Holds(w)'
    BY <1>2, <2>1 DEF Holds, Idle
  <2>3. /\ WebhooksShape(rows') /\ rows'.dispatches = 1 /\ rows'.jobs = rows.jobs
        /\ rows'.recorded = rows.recorded /\ rows'.accepted = rows.accepted
        /\ rows'.delivery = rows.delivery
    BY <1>2, <2>1 DEF WebhooksShape
  <2>4. WebhookOk(rows') /\ QueueOk(rows')
    BY <1>2, <2>1, <2>2, <2>3 DEF WebhookOk, QueueOk, Waiting, CarriedOk
  <2> QED
    BY <1>1, <1>2, <2>2, <2>3, <2>4, WebhooksGoOn
<1>5. CASE ScheduleDelivery(w)
  <2>1. /\ rows.dispatches = 1 /\ New = [pc |-> "scheduled", doc |-> 0]
        /\ rows' = [rows EXCEPT !.dispatches = 0,
                                !.delivery.status = IF @ = "NONE" THEN "PENDING" ELSE @]
    BY <1>5 DEF ScheduleDelivery, Proceed, At
  <2>2. (\A v \in Workers : ~ Holds(v)) /\ rows.delivery.status = "NONE"
    BY <1>2, <2>1 DEF CarriedOk, QueueOk
  <2>3. /\ WebhooksShape(rows') /\ rows'.dispatches = 0 /\ rows'.jobs = rows.jobs
        /\ rows'.recorded = rows.recorded /\ rows'.accepted = rows.accepted
        /\ rows'.delivery.status = "PENDING" /\ rows'.delivery.attempts = rows.delivery.attempts
    BY <1>2, <2>1, <2>2 DEF WebhooksShape
  <2>4. rows.jobs = 0 /\ rows.recorded
    BY <1>2, <2>1 DEF QueueOk
  <2>5. WebhookOk(rows') /\ QueueOk(rows') /\ rows'.delivery.attempts = 0
    BY <1>2, <2>2, <2>3, <2>4 DEF WebhookOk, QueueOk, Waiting
  <2>6. CarriedOk(w)'
    BY <2>1, <2>3, <2>4, <2>5 DEF CarriedOk, Waiting
  <2> QED
    BY <1>1, <2>2, <2>3, <2>5, <2>6, WebhooksGoOn
<1>6. CASE EnqueueDelivery(w)
  <2>1. /\ requests[w].pc = "scheduled"
        /\ rows' = [rows EXCEPT !.jobs = @ + 1] /\ New = Idle
    BY <1>6 DEF EnqueueDelivery, Commit, Resumes, At
  <2>2. Holds(w) /\ CarriedOk(w) /\ ~ Holds(w)'
    BY <1>2, <2>1 DEF Holds, Idle
  <2>3. /\ WebhooksShape(rows') /\ rows'.dispatches = rows.dispatches /\ rows'.jobs = rows.jobs + 1
        /\ rows'.recorded = rows.recorded /\ rows'.accepted = rows.accepted
        /\ rows'.delivery = rows.delivery
    BY <1>2, <2>1 DEF WebhooksShape
  <2>4. WebhookOk(rows') /\ QueueOk(rows')
    BY <1>2, <2>1, <2>2, <2>3 DEF WebhookOk, QueueOk, Waiting, CarriedOk
  <2> QED
    BY <1>1, <1>2, <2>2, <2>3, <2>4, WebhooksGoOn
<1>7. CASE AttemptWebhook(w)
  <2> DEFINE taken == [rows EXCEPT !.jobs = @ - 1]
  <2>1. /\ rows.jobs > 0
        /\ \/ DeliveryEnded(rows)
           \/ rows.delivery.attempts >= MaxAttempts
           \/ /\ rows' = [taken EXCEPT !.delivery =
                            [status |-> "IN_PROGRESS", attempts |-> @.attempts + 1]]
              /\ New = [pc |-> "requested", doc |-> rows.delivery.attempts]
    BY <1>7 DEF AttemptWebhook, Proceed, At
  <2>2. rows.jobs = 1 /\ rows.dispatches = 0 /\ Waiting(rows) /\ rows.recorded
    BY <1>2, <2>1 DEF QueueOk
  <2>3. (\A v \in Workers : ~ Holds(v)) /\ rows.delivery.attempts \in Nat
    BY <1>2, <2>2 DEF CarriedOk, WebhookOk
  <2>4. ~ DeliveryEnded(rows) /\ ~ (rows.delivery.attempts >= MaxAttempts)
    BY <2>2, <2>3 DEF Waiting, DeliveryEnded
  <2>5. /\ rows' = [taken EXCEPT !.delivery =
                      [status |-> "IN_PROGRESS", attempts |-> @.attempts + 1]]
        /\ New = [pc |-> "requested", doc |-> rows.delivery.attempts]
    BY <2>1, <2>4
  <2>6. /\ WebhooksShape(rows') /\ rows'.dispatches = 0 /\ rows'.jobs = 0
        /\ rows'.recorded = rows.recorded /\ rows'.accepted = rows.accepted
        /\ rows'.delivery.status = "IN_PROGRESS"
        /\ rows'.delivery.attempts = rows.delivery.attempts + 1
    <3>1. /\ DOMAIN taken = {"domain", "recorded", "dispatches", "jobs", "accepted", "delivery"}
          /\ taken.jobs = rows.jobs - 1 /\ taken.domain = rows.domain
          /\ taken.recorded = rows.recorded /\ taken.dispatches = rows.dispatches
          /\ taken.accepted = rows.accepted /\ taken.delivery = rows.delivery
      BY <1>2 DEF WebhooksShape
    <3> HIDE DEF taken
    <3>2. rows' = [taken EXCEPT !.delivery = [status |-> "IN_PROGRESS",
                                              attempts |-> rows.delivery.attempts + 1]]
      BY <2>5, <3>1
    <3>3. /\ DOMAIN rows' = {"domain", "recorded", "dispatches", "jobs", "accepted", "delivery"}
          /\ rows'.jobs = rows.jobs - 1 /\ rows'.recorded = rows.recorded
          /\ rows'.dispatches = rows.dispatches /\ rows'.accepted = rows.accepted
          /\ rows'.delivery = [status |-> "IN_PROGRESS", attempts |-> rows.delivery.attempts + 1]
      BY <3>1, <3>2
    <3>4. WebhooksShape(rows')
      BY <3>3 DEF WebhooksShape
    <3> QED
      BY <2>2, <3>3, <3>4
  <2>7. WebhookOk(rows') /\ QueueOk(rows')
    BY <1>2, <2>2, <2>3, <2>6 DEF WebhookOk, QueueOk, Waiting
  <2>8. CarriedOk(w)'
    BY <1>2, <2>2, <2>3, <2>5, <2>6 DEF CarriedOk, WebhookOk
  <2> QED
    BY <1>1, <2>3, <2>6, <2>7, <2>8, WebhooksGoOn
<1>8. CASE AcceptWebhook(w)
  <2>1. PICK before \in 0..MaxAttempts, answered \in BOOLEAN :
          /\ requests[w].pc = "requested" /\ requests[w].doc = before
          /\ rows' = [rows EXCEPT !.accepted = @ + 1]
          /\ New = [pc |-> IF answered THEN "accepted" ELSE "refused", doc |-> before]
    BY <1>8, Zenon DEF AcceptWebhook, Proceed, At, Resumes
  <2>2. Holds(w) /\ CarriedOk(w)
    BY <1>2, <2>1 DEF Holds
  <2>3. /\ WebhooksShape(rows') /\ rows'.dispatches = rows.dispatches /\ rows'.jobs = rows.jobs
        /\ rows'.recorded = rows.recorded /\ rows'.accepted = rows.accepted + 1
        /\ rows'.delivery = rows.delivery
    BY <1>2, <2>1 DEF WebhooksShape
  <2>4. WebhookOk(rows') /\ QueueOk(rows')
    BY <1>2, <2>1, <2>2, <2>3 DEF WebhookOk, QueueOk, Waiting, CarriedOk
  <2>5. CarriedOk(w)'
    BY <1>2, <2>1, <2>2, <2>3 DEF CarriedOk, WebhookOk
  <2> QED
    BY <1>1, <1>2, <2>2, <2>3, <2>4, <2>5, WebhooksGoOn
<1>9. CASE AnswerWebhook(w)
  <2>1. PICK before \in 0..MaxAttempts :
          /\ requests[w].doc = before
          /\ \/ /\ requests[w].pc = "accepted" /\ New = Idle
                /\ rows' = [rows EXCEPT !.delivery.status = "SUCCESS"]
             \/ /\ requests[w].pc \in {"requested", "refused"} /\ LastAttempt(before) /\ New = Idle
                /\ rows' = [rows EXCEPT !.delivery.status = "DEAD_LETTER"]
             \/ /\ requests[w].pc \in {"requested", "refused"} /\ ~ LastAttempt(before)
                /\ rows' = [rows EXCEPT !.delivery.status = "FAILED"]
                /\ New = [pc |-> "scheduled", doc |-> 0]
    BY <1>9, Zenon DEF AnswerWebhook, Commit, Proceed, At, Resumes
  <2>2. Holds(w) /\ CarriedOk(w)
    BY <1>2, <2>1 DEF Holds
  <2>3. /\ WebhooksShape(rows') /\ rows'.dispatches = rows.dispatches /\ rows'.jobs = rows.jobs
        /\ rows'.recorded = rows.recorded /\ rows'.accepted = rows.accepted
        /\ rows'.delivery.attempts = rows.delivery.attempts
    BY <1>2, <2>1 DEF WebhooksShape
  <2>4. \/ rows'.delivery.status = "SUCCESS" /\ requests[w].pc = "accepted" /\ New = Idle
        \/ rows'.delivery.status = "DEAD_LETTER" /\ LastAttempt(before) /\ New = Idle
        \/ /\ rows'.delivery.status = "FAILED" /\ ~ LastAttempt(before)
           /\ New = [pc |-> "scheduled", doc |-> 0]
    BY <1>2, <2>1 DEF WebhooksShape
  <2>5. /\ rows.delivery.attempts = before + 1 /\ rows.jobs = 0 /\ rows.dispatches = 0
        /\ rows.recorded /\ (requests[w].pc = "accepted" => rows.accepted > 0)
    BY <2>1, <2>2 DEF CarriedOk
  <2>6. WebhookOk(rows') /\ QueueOk(rows')
    BY <1>2, <2>3, <2>4, <2>5 DEF WebhookOk, QueueOk, Waiting, LastAttempt
  <2>7. Holds(w)' => CarriedOk(w)'
    BY <1>2, <2>3, <2>4, <2>5 DEF Holds, CarriedOk, WebhookOk, Waiting, LastAttempt, Idle
  <2> QED
    BY <1>1, <1>2, <2>2, <2>3, <2>6, <2>7, WebhooksGoOn
<1> QED
  BY <1>3, <1>4, <1>5, <1>6, <1>7, <1>8, <1>9 DEF WebhooksNext

LEMMA NoWebhooksOk ==
  ASSUME rows = NoWebhooks, \A w \in Workers : requests[w] = Idle
  PROVE  WebhooksInv
  BY DEF NoWebhooks, WebhooksInv, WebhooksShape, WebhookOk, QueueOk, Holds, Idle, Waiting, MaxAttempts

\* WebhooksInv implies what is said about webhooks.
LEMMA WebhooksSentOnceThen ==
  ASSUME WebhooksInv
  PROVE  /\ rows.delivery.status = "DEAD_LETTER" => rows.delivery.attempts = MaxAttempts
         /\ rows.delivery.status = "FAILED" => rows.delivery.attempts < MaxAttempts
         /\ rows.delivery.status = "SUCCESS" => rows.accepted > 0
         /\ rows.accepted <= rows.delivery.attempts
         /\ rows.jobs <= (IF DeliveryEnded(rows) THEN 0 ELSE 1)
  BY DEF WebhooksInv, WebhookOk, QueueOk, DeliveryEnded, Waiting

-----------------------------------------------------------------------------
(* notifications: a schedule, what it sends and whether it was sent. *)

\* The tables of the domain.
NotificationsShape(db) ==
  /\ DOMAIN db = {"domain", "schedule", "jobs", "event", "notifications", "deliveries"}
  /\ DOMAIN db.notifications = {1, 2} /\ DOMAIN db.deliveries = {1, 2}
  /\ \A k \in {1, 2} : DOMAIN db.deliveries[k] = {"status", "attempts"}

\* Notification k and its delivery.
NotificationOk(db, k) ==
  /\ db.deliveries[k].attempts \in {0, 1}
  /\ db.notifications[k] = "NONE" =>
       db.deliveries[k].attempts = 0 /\ db.deliveries[k].status = "NONE"
  /\ db.notifications[k] = "SENT" =>
       db.deliveries[k].status = "NONE" \/ db.deliveries[k].attempts = 1

NotificationsOk(db) ==
  /\ NotificationsShape(db)
  /\ \A k \in {1, 2} : NotificationOk(db, k)
  /\ db.notifications[1] # "NONE" => db.schedule = "EXECUTED"

\* What a request in progress has already done.
NotifiedOk(w) ==
  LET k == requests[w].doc
      Known == k \in {1, 2}
  IN /\ requests[w].pc = "notify" /\ k = 1 => rows.schedule = "EXECUTED"
     /\ requests[w].pc \in {"created", "queued"} /\ Known =>
          rows.notifications[k] = "PROCESSING" /\ rows.deliveries[k].attempts = 0
     /\ requests[w].pc = "created" /\ Known => rows.deliveries[k].status = "NONE"
     /\ requests[w].pc \in {"sent", "recorded"} /\ Known =>
          rows.notifications[k] # "NONE" /\ rows.deliveries[k].attempts = 1

NotificationsInv == NotificationsOk(rows) /\ \A w \in Workers : NotifiedOk(w)

\* A request that starts or ends without a write.
LEMMA NotificationsStay ==
  ASSUME NotificationsInv, rows' = rows,
         \A v \in Workers : requests'[v] = requests[v] \/ requests'[v].pc \in {"idle", "read"}
  PROVE  NotificationsInv'
  BY DEF NotificationsInv, NotifiedOk

\* The one request in progress.
LEMMA NotificationsGoOn ==
  ASSUME NotificationsOk(rows'), NEW w \in Workers, NotifiedOk(w)',
         \A v \in Workers : v # w => requests'[v].pc = "idle"
  PROVE  NotificationsInv'
  BY DEF NotificationsInv, NotifiedOk

\* Every step of a notification, when no other request is in progress,
\* preserves NotificationsInv.
LEMMA NotificationsStep ==
  ASSUME NotificationsInv, NEW w \in Workers, NotificationsNext(w),
         requests[w].pc = "read" => Seen(w) = rows,
         requests' = [requests EXCEPT ![w] = requests'[w]],
         requests = [v \in Workers |-> requests[v]],
         \A v \in Workers : v # w => requests[v] = Idle
  PROVE  NotificationsInv'
<1> DEFINE New == requests'[w]
<1>1. \A v \in Workers : v # w => requests'[v].pc = "idle"
  BY DEF Idle
<1>2. /\ NotificationsShape(rows) /\ NotificationOk(rows, 1) /\ NotificationOk(rows, 2)
      /\ rows.notifications[1] # "NONE" => rows.schedule = "EXECUTED"
      /\ NotifiedOk(w)
  BY DEF NotificationsInv, NotificationsOk
<1> SUFFICES NotificationsOk(rows') /\ NotifiedOk(w)'
  BY <1>1, NotificationsGoOn
\* What is written to neither the notifications nor the deliveries.
<1>3. ASSUME NotificationsShape(rows'), rows'.notifications = rows.notifications,
             rows'.deliveries = rows.deliveries,
             rows.schedule = "EXECUTED" => rows'.schedule = "EXECUTED"
      PROVE  NotificationsOk(rows')
  BY <1>2, <1>3 DEF NotificationsOk, NotificationOk
<1>4. CASE ScheduleNotification(w)
  <2>1. /\ rows.schedule = "NONE" /\ rows' = [rows EXCEPT !.schedule = "PENDING"]
        /\ New = [pc |-> "scheduled", doc |-> 1]
    BY <1>4 DEF ScheduleNotification, Proceed
  <2> QED
    BY <1>2, <1>3, <2>1 DEF NotificationsShape, NotifiedOk
<1>5. CASE EnqueueSchedule(w)
  <2>1. rows' = [rows EXCEPT !.jobs = 1] /\ New = Idle
    BY <1>5 DEF EnqueueSchedule, Commit
  <2> QED
    BY <1>2, <1>3, <2>1 DEF NotificationsShape, NotifiedOk, Idle
<1>6. CASE CancelSchedule(w)
  <2>1. /\ rows.schedule = "PENDING" /\ rows' = [rows EXCEPT !.schedule = "CANCELLED"]
        /\ New = Idle
    BY <1>6 DEF CancelSchedule, Commit, At
  <2> QED
    BY <1>2, <1>3, <2>1 DEF NotificationsShape, NotifiedOk, Idle
<1>7. CASE ExecuteSchedule(w)
  <2>1. \/ /\ rows' = [rows EXCEPT !.jobs = 0, !.schedule = "EXECUTED"]
           /\ New = [pc |-> "notify", doc |-> 1]
        \/ rows' = [rows EXCEPT !.jobs = 0] /\ New = Idle
    BY <1>7 DEF ExecuteSchedule, Commit, Proceed
  <2>2. /\ NotificationsShape(rows') /\ rows'.notifications = rows.notifications
        /\ rows'.deliveries = rows.deliveries
        /\ rows'.schedule \in {rows.schedule, "EXECUTED"}
        /\ New.pc = "notify" => rows'.schedule = "EXECUTED"
    <3>1. CASE /\ rows' = [rows EXCEPT !.jobs = 0, !.schedule = "EXECUTED"]
               /\ New = [pc |-> "notify", doc |-> 1]
      <4>1. rows' = [[rows EXCEPT !.jobs = 0] EXCEPT !.schedule = "EXECUTED"]
        BY <3>1
      <4>2. NotificationsShape(rows') /\ rows'.schedule = "EXECUTED"
        BY <1>2, <4>1 DEF NotificationsShape
      <4>3. rows'.notifications = rows.notifications /\ rows'.deliveries = rows.deliveries
        BY <1>2, <4>1 DEF NotificationsShape
      <4> QED
        BY <4>2, <4>3
    <3>2. CASE rows' = [rows EXCEPT !.jobs = 0] /\ New = Idle
      BY <1>2, <3>2 DEF NotificationsShape, Idle
    <3> QED
      BY <2>1, <3>1, <3>2
  <2> QED
    BY <1>3, <2>1, <2>2 DEF NotifiedOk, Idle
<1>8. CASE RequestNotification(w)
  <2>1. rows' = rows /\ New = [pc |-> "notify", doc |-> 2]
    BY <1>8 DEF RequestNotification, Proceed
  <2> QED
    BY <1>2, <1>3, <2>1 DEF NotifiedOk
<1>9. CASE ReceiveEvent(w, ProviderEvents)
  <2>1. PICK kind :
          Continue(w, IF rows.event.status = "NONE"
                      THEN [rows EXCEPT !.event = [status |-> "RECEIVED", kind |-> kind]]
                      ELSE rows, "received", kind)
    BY <1>9, Zenon DEF ReceiveEvent
  <2>2. /\ rows' = rows \/ rows' = [rows EXCEPT !.event = [status |-> "RECEIVED", kind |-> kind]]
        /\ New.pc = "received"
    BY <2>1 DEF Continue
  <2> QED
    BY <1>2, <1>3, <2>2 DEF NotificationsShape, NotifiedOk
<1>10. ASSUME NEW k \in {1, 2}, CreateNotification(w, k)
       PROVE  NotificationsOk(rows') /\ NotifiedOk(w)'
  <2>1. /\ requests[w].pc = "notify" /\ requests[w].doc = k
        /\ \/ /\ rows.notifications[k] = "NONE"
              /\ rows' = [rows EXCEPT !.notifications[k] = "PROCESSING"]
              /\ New = [pc |-> "created", doc |-> k]
           \/ rows' = rows /\ New = Idle
    BY <1>10 DEF CreateNotification, Commit, Proceed, Resumes, At
  <2>2. CASE rows' = rows /\ New = Idle
    BY <1>2, <1>3, <2>2 DEF NotifiedOk, Idle
  <2>3. CASE /\ rows.notifications[k] = "NONE"
             /\ rows' = [rows EXCEPT !.notifications[k] = "PROCESSING"]
             /\ New = [pc |-> "created", doc |-> k]
    <3>1. /\ NotificationsShape(rows') /\ rows'.notifications[k] = "PROCESSING"
          /\ rows'.deliveries = rows.deliveries /\ rows'.schedule = rows.schedule
          /\ \A j \in {1, 2} : j # k => rows'.notifications[j] = rows.notifications[j]
      BY <1>2, <2>3 DEF NotificationsShape
    <3>2. k = 1 => rows.schedule = "EXECUTED"
      BY <1>2, <2>1 DEF NotifiedOk
    <3>3. NotificationsOk(rows')
      BY <1>2, <2>3, <3>1, <3>2 DEF NotificationsOk, NotificationOk
    <3>4. rows'.deliveries[k].attempts = 0 /\ rows'.deliveries[k].status = "NONE"
      BY <1>2, <2>3, <3>1 DEF NotificationOk
    <3> QED
      BY <2>3, <3>1, <3>3, <3>4 DEF NotifiedOk
  <2> QED
    BY <2>1, <2>2, <2>3
<1>11. ASSUME NEW k \in {1, 2}, CreateDelivery(w, k) \/ StartDelivery(w, k) \/ RecordAttempt(w, k)
       PROVE  NotificationsOk(rows') /\ NotifiedOk(w)'
  <2>1. PICK status, attempts :
          /\ rows' = [rows EXCEPT !.deliveries[k] = [status |-> status, attempts |-> attempts]]
          /\ requests[w].doc = k
          /\ \/ /\ requests[w].pc = "created" /\ status = "QUEUED"
                /\ attempts = rows.deliveries[k].attempts /\ New = [pc |-> "queued", doc |-> k]
             \/ /\ requests[w].pc = "queued" /\ attempts = rows.deliveries[k].attempts + 1
                /\ New = [pc |-> "sent", doc |-> k]
             \/ /\ requests[w].pc = "sent" /\ attempts = rows.deliveries[k].attempts
                /\ New = [pc |-> "recorded", doc |-> k]
    <3>1. DOMAIN rows.deliveries = {1, 2} /\ DOMAIN rows.deliveries[k] = {"status", "attempts"}
      BY <1>2 DEF NotificationsShape
    <3>2. \A status : [rows EXCEPT !.deliveries[k].status = status]
                        = [rows EXCEPT !.deliveries[k] =
                             [status |-> status, attempts |-> rows.deliveries[k].attempts]]
      BY <3>1
    <3>3. CASE CreateDelivery(w, k)
      <4>1. /\ requests[w].pc = "created" /\ requests[w].doc = k
            /\ rows' = [rows EXCEPT !.deliveries[k].status = "QUEUED"]
            /\ New = [pc |-> "queued", doc |-> k]
        BY <3>3 DEF CreateDelivery, Proceed, Resumes, At
      <4> QED
        BY <3>2, <4>1
    <3>4. CASE StartDelivery(w, k)
      BY <3>1, <3>4 DEF StartDelivery, Proceed, Resumes, At
    <3>5. CASE RecordAttempt(w, k)
      <4>1. PICK status : Proceed(w, [rows EXCEPT !.deliveries[k].status = status], "recorded", k)
        BY <3>5, Zenon DEF RecordAttempt
      <4>2. /\ requests[w].pc = "sent" /\ requests[w].doc = k
            /\ rows' = [rows EXCEPT !.deliveries[k].status = status]
            /\ New = [pc |-> "recorded", doc |-> k]
        BY <3>5, <4>1 DEF RecordAttempt, Proceed, Resumes, At
      <4>3. rows' = [rows EXCEPT !.deliveries[k] =
                       [status |-> status, attempts |-> rows.deliveries[k].attempts]]
        BY <3>2, <4>2, Zenon
      <4> QED
        BY <4>2, <4>3
    <3> QED
      BY <1>11, <3>3, <3>4, <3>5
  <2>2. /\ NotificationsShape(rows') /\ rows'.notifications = rows.notifications
        /\ rows'.deliveries[k] = [status |-> status, attempts |-> attempts]
        /\ rows'.schedule = rows.schedule
        /\ \A j \in {1, 2} : j # k => rows'.deliveries[j] = rows.deliveries[j]
    BY <1>2, <2>1 DEF NotificationsShape
  <2>3. /\ rows.notifications[k] # "NONE" /\ attempts \in {0, 1}
        /\ rows.notifications[k] = "SENT" => attempts = 1
        /\ New.pc = "queued" => rows.notifications[k] = "PROCESSING" /\ attempts = 0
        /\ New.pc \in {"sent", "recorded"} => attempts = 1
    BY <1>2, <2>1 DEF NotifiedOk
  <2>4. NotificationsOk(rows')
    BY <1>2, <2>2, <2>3 DEF NotificationsOk, NotificationOk
  <2>5. NotifiedOk(w)'
    BY <2>1, <2>2, <2>3 DEF NotifiedOk
  <2> QED
    BY <2>4, <2>5
<1>12. ASSUME NEW k \in {1, 2}, MarkSent(w, k) PROVE NotificationsOk(rows') /\ NotifiedOk(w)'
  <2>1. /\ requests[w].pc \in {"created", "recorded"} /\ requests[w].doc = k
        /\ rows' = [rows EXCEPT !.notifications[k] = "SENT"] /\ New = Idle
    BY <1>12 DEF MarkSent, Commit, Resumes, At
  <2>2. /\ NotificationsShape(rows') /\ rows'.notifications[k] = "SENT"
        /\ rows'.deliveries = rows.deliveries /\ rows'.schedule = rows.schedule
        /\ \A j \in {1, 2} : j # k => rows'.notifications[j] = rows.notifications[j]
    BY <1>2, <2>1 DEF NotificationsShape
  <2>3. /\ rows.notifications[k] # "NONE"
        /\ rows.deliveries[k].status = "NONE" \/ rows.deliveries[k].attempts = 1
    BY <1>2, <2>1 DEF NotifiedOk
  <2>4. NotificationsOk(rows')
    BY <1>2, <2>2, <2>3 DEF NotificationsOk, NotificationOk
  <2> QED
    BY <2>1, <2>4 DEF NotifiedOk, Idle
<1>13. ASSUME NEW k \in {1, 2}, NEW kind \in ProviderEvents, TellDelivery(w, k, kind)
       PROVE  NotificationsOk(rows') /\ NotifiedOk(w)'
  <2>1. /\ rows.deliveries[k].status # "NONE" /\ New.pc = "dispatched"
        /\ rows' = [rows EXCEPT !.deliveries[k].status = kind]
    BY <1>13 DEF TellDelivery, Proceed
  <2>2. /\ NotificationsShape(rows') /\ rows'.notifications = rows.notifications
        /\ rows'.deliveries[k].attempts = rows.deliveries[k].attempts
        /\ rows'.schedule = rows.schedule
        /\ \A j \in {1, 2} : j # k => rows'.deliveries[j] = rows.deliveries[j]
    BY <1>2, <2>1 DEF NotificationsShape
  <2>3. NotificationsOk(rows')
    BY <1>2, <2>1, <2>2 DEF NotificationsOk, NotificationOk
  <2> QED
    BY <2>1, <2>3 DEF NotifiedOk
<1>14. ASSUME NEW kind \in ProviderEvents, FinishEvent(w, kind) \/ FailEvent(w, kind)
       PROVE  NotificationsOk(rows') /\ NotifiedOk(w)'
  <2>1. New = Idle /\ \E status : rows' = [rows EXCEPT !.event.status = status]
    BY <1>14 DEF FinishEvent, FailEvent, Commit
  <2> QED
    BY <1>2, <1>3, <2>1 DEF NotificationsShape, NotifiedOk, Idle
<1>15. DOMAIN rows.notifications = {1, 2}
  BY <1>2 DEF NotificationsShape
<1> QED
  BY <1>4, <1>5, <1>6, <1>7, <1>8, <1>9, <1>10, <1>11, <1>12, <1>13, <1>14, <1>15
     DEF NotificationsNext

LEMMA NoNotificationsOk ==
  ASSUME rows = NoNotifications, \A w \in Workers : requests[w] = Idle
  PROVE  NotificationsInv
  BY DEF NoNotifications, NotificationsInv, NotificationsOk, NotificationsShape, NotificationOk,
     NotifiedOk, Idle

\* NotificationsInv implies what is said about notifications.
LEMMA NotificationsSentOnceThen ==
  ASSUME NotificationsInv
  PROVE  /\ rows.notifications[1] # "NONE" => rows.schedule = "EXECUTED"
         /\ \A k \in DOMAIN rows.notifications :
              /\ rows.deliveries[k].attempts <= 1
              /\ rows.notifications[k] = "SENT" =>
                   rows.deliveries[k].status = "NONE" \/ rows.deliveries[k].attempts = 1
  BY DEF NotificationsInv, NotificationsOk, NotificationsShape, NotificationOk

-----------------------------------------------------------------------------
(* sessions: who is signed in. *)

\* The tables of the domain.
SessionsShape(db) ==
  /\ DOMAIN db = {"domain", "registered", "sessions", "ended"}
  /\ DOMAIN db.sessions = Sessions
  /\ \A s \in Sessions : DOMAIN db.sessions[s] = {"status", "user", "expired"}

\* A session that is reported as ended is revoked.
SessionsOk(db) ==
  /\ SessionsShape(db)
  /\ \A s \in db.ended : s \in Sessions /\ db.sessions[s].status = "REVOKED"

\* Revoking sessions keeps those that are ended.
LEMMA RevokedOk ==
  ASSUME SessionsOk(rows), NEW ss \in SUBSET Sessions
  PROVE  SessionsOk(Revoked(rows, ss))
<1> DEFINE new == Revoked(rows, ss)
           sessions == [s \in Sessions |-> IF s \in ss THEN [rows.sessions[s] EXCEPT !.status = "REVOKED"]
                                           ELSE rows.sessions[s]]
<1>1. new = [[rows EXCEPT !.sessions = sessions] EXCEPT !.ended = @ \cup ss]
  BY DEF Revoked, SessionsOk, SessionsShape
<1>2. /\ DOMAIN sessions = Sessions
      /\ \A s \in Sessions : /\ DOMAIN sessions[s] = {"status", "user", "expired"}
                             /\ s \in ss => sessions[s].status = "REVOKED"
                             /\ s \notin ss => sessions[s] = rows.sessions[s]
  BY DEF SessionsOk, SessionsShape
<1> HIDE DEF new, sessions
<1>3. /\ DOMAIN new = DOMAIN rows /\ new.sessions = sessions /\ new.ended = rows.ended \cup ss
  BY <1>1 DEF SessionsOk, SessionsShape
<1> QED
  BY <1>2, <1>3 DEF SessionsOk, SessionsShape, new

\* Every step of the sessions, whatever else runs, preserves SessionsOk.
LEMMA SessionsStep ==
  ASSUME SessionsOk(rows), NEW w \in Workers, SessionsNext(w)
  PROVE  SessionsOk(rows')
<1>1. ASSUME NEW u \in Users, Register(w, u) PROVE SessionsOk(rows')
  BY <1>1 DEF Register, Commit, SessionsOk, SessionsShape
<1>2. ASSUME NEW u \in Users, NEW s \in Sessions, Login(w, u, s) PROVE SessionsOk(rows')
  <2>1. /\ rows.sessions[s].status = "NONE"
        /\ rows' = [rows EXCEPT !.sessions[s] = [status |-> "OPEN", user |-> u, expired |-> FALSE]]
    BY <1>2 DEF Login, Creates, Commit
  <2>2. /\ DOMAIN rows' = DOMAIN rows /\ rows'.ended = rows.ended /\ DOMAIN rows'.sessions = Sessions
        /\ rows'.sessions[s] = [status |-> "OPEN", user |-> u, expired |-> FALSE]
        /\ \A t \in Sessions : t # s => rows'.sessions[t] = rows.sessions[t]
    BY <2>1 DEF SessionsOk, SessionsShape
  <2> QED
    BY <2>1, <2>2 DEF SessionsOk, SessionsShape
\* What is written of a session that exists is whether it is expired.
<1>3. ASSUME NEW s \in Sessions, NEW expired, rows' = [rows EXCEPT !.sessions[s].expired = expired]
      PROVE  SessionsOk(rows')
  <2>1. /\ DOMAIN rows' = DOMAIN rows /\ rows'.ended = rows.ended /\ DOMAIN rows'.sessions = Sessions
        /\ DOMAIN rows'.sessions[s] = DOMAIN rows.sessions[s]
        /\ rows'.sessions[s].status = rows.sessions[s].status
        /\ \A t \in Sessions : t # s => rows'.sessions[t] = rows.sessions[t]
    BY <1>3 DEF SessionsOk, SessionsShape
  <2> QED
    BY <2>1 DEF SessionsOk, SessionsShape
<1>4. ASSUME NEW s \in Sessions, Refresh(w, s) \/ SessionExpires(w, s) PROVE SessionsOk(rows')
  <2>1. PICK expired : rows' = [rows EXCEPT !.sessions[s].expired = expired]
    BY <1>4 DEF Refresh, SessionExpires, Commit
  <2> QED
    BY <1>3, <2>1
<1>5. \A u : OpenOf(rows, u) \in SUBSET Sessions
  BY DEF OpenOf
<1>6. ASSUME NEW s \in Sessions, Logout(w, s) \/ LogoutAll(w, s) \/ RevokeSession(w, s)
      PROVE  SessionsOk(rows')
  <2>1. PICK ss \in SUBSET Sessions : rows' = Revoked(rows, ss)
    BY <1>5, <1>6 DEF Logout, LogoutAll, RevokeSession, Commit
  <2> QED
    BY <2>1, RevokedOk
<1>7. ASSUME NEW u \in Users, RevokeAllUserSessions(w, u) PROVE SessionsOk(rows')
  BY <1>5, <1>7, RevokedOk DEF RevokeAllUserSessions, Commit
<1> QED
  BY <1>1, <1>2, <1>4, <1>6, <1>7 DEF SessionsNext

LEMMA NoSessionsOk == SessionsOk(NoSessions)
  BY DEF NoSessions, SessionsOk, SessionsShape

\* SessionsOk implies the property of the sessions.
LEMMA EndedSessionsStayEndedThen ==
  ASSUME rows.domain = "sessions" => SessionsOk(rows)
  PROVE  EndedSessionsStayEnded
  BY DEF EndedSessionsStayEnded, SessionsOk, SignedInWith

-----------------------------------------------------------------------------
(* access: members, their roles and what these are granted. *)

\* The tables of the domain.
AccessShape(db) ==
  /\ DOMAIN db = {"domain", "organization", "members", "grant"}
  /\ DOMAIN db.members = Users /\ DOMAIN db.grant = Roles
  /\ \A u \in Users : DOMAIN db.members[u] = {"status", "roles"}

\* An owner that is neither suspended nor removed.
Holder(db, u) ==
  db.members[u].status \in {"ACTIVE", "INVITED"} /\ "OWNER" \in db.members[u].roles

\* An organization has an owner, and its system roles are granted what they
\* are called.
AccessOk(db) ==
  /\ AccessShape(db)
  /\ db.organization # "NONE" => \E u \in Users : Holder(db, u)
  /\ db.grant["OWNER"] = "OWNER"

\* Every step of the access rights, when the request has read the rows as they
\* are, preserves AccessOk.
LEMMA AccessStep ==
  ASSUME AccessOk(rows), NEW w \in Workers, requests[w].pc = "read" => Seen(w) = rows,
         AccessNext(w)
  PROVE  AccessOk(rows')
<1>1. AccessShape(rows) /\ rows.grant["OWNER"] = "OWNER"
  BY DEF AccessOk
\* What is written to one member.
<1>2. ASSUME NEW u \in Users, NEW status, NEW roles,
             rows' = [rows EXCEPT !.members[u] = [status |-> status, roles |-> roles]],
             Holder(rows, u) => \/ status \in {"ACTIVE", "INVITED"} /\ "OWNER" \in roles
                                \/ OtherOwner(rows, u)
      PROVE  AccessOk(rows')
  <2>1. /\ AccessShape(rows') /\ rows'.organization = rows.organization
        /\ rows'.grant = rows.grant
        /\ rows'.members[u].status = status /\ rows'.members[u].roles = roles
        /\ \A v \in Users : v # u => rows'.members[v] = rows.members[v]
    BY <1>1, <1>2 DEF AccessShape
  <2>2. ASSUME rows.organization # "NONE" PROVE \E v \in Users : Holder(rows', v)
    <3>1. PICK v \in Users : Holder(rows, v)
      BY <2>2 DEF AccessOk
    <3>2. CASE v # u
      BY <2>1, <3>1, <3>2 DEF Holder
    <3>3. CASE v = u /\ OtherOwner(rows, u)
      BY <2>1, <3>3 DEF Holder, OtherOwner, ActiveMember
    <3>4. CASE v = u /\ status \in {"ACTIVE", "INVITED"} /\ "OWNER" \in roles
      BY <2>1, <3>4 DEF Holder
    <3> QED
      BY <1>2, <3>1, <3>2, <3>3, <3>4
  <2> QED
    BY <1>1, <2>1, <2>2 DEF AccessOk
<1>3. \A status : \A u \in Users : [rows EXCEPT !.members[u].status = status]
        = [rows EXCEPT !.members[u] = [status |-> status, roles |-> rows.members[u].roles]]
  BY <1>1 DEF AccessShape
<1>4. \A roles : \A u \in Users : [rows EXCEPT !.members[u].roles = roles]
        = [rows EXCEPT !.members[u] = [status |-> rows.members[u].status, roles |-> roles]]
  BY <1>1 DEF AccessShape
<1>5. CASE ArchiveOrganization(w)
  <2>1. rows.organization # "NONE" /\ rows' = [rows EXCEPT !.organization = "ARCHIVED"]
    BY <1>5 DEF ArchiveOrganization, AsMember, At, Commit
  <2>2. /\ AccessShape(rows') /\ rows'.grant = rows.grant /\ rows'.members = rows.members
    BY <1>1, <2>1 DEF AccessShape
  <2> QED
    BY <2>1, <2>2 DEF AccessOk, Holder
<1>6. ASSUME NEW u \in Users, CreateOrganization(w, u) PROVE AccessOk(rows')
  <2>1. rows' = [[rows EXCEPT !.organization = "ACTIVE"]
                   EXCEPT !.members[u] = [status |-> "ACTIVE", roles |-> {"OWNER"}]]
    BY <1>6 DEF CreateOrganization, Commit
  <2>2. /\ AccessShape(rows') /\ rows'.grant = rows.grant
        /\ rows'.members[u].status = "ACTIVE" /\ rows'.members[u].roles = {"OWNER"}
    BY <1>1, <2>1 DEF AccessShape
  <2> QED
    BY <1>1, <2>2 DEF AccessOk, Holder
<1>7. ASSUME NEW u \in Users, AddMember(w, u) PROVE AccessOk(rows')
  <2>1. rows' = [rows EXCEPT !.members[u].status = "INVITED"]
    BY <1>7 DEF AddMember, Commit
  <2>2. rows' = [rows EXCEPT !.members[u] =
                   [status |-> "INVITED", roles |-> rows.members[u].roles]]
    BY <1>3, <2>1, Zenon
  <2> QED
    BY <1>2, <2>2 DEF Holder
<1>8. ASSUME NEW u \in Users, NEW status \in {"ACTIVE", "INVITED", "SUSPENDED", "REMOVED"},
             rows' = [rows EXCEPT !.members[u].status = status],
             status \in {"SUSPENDED", "REMOVED"} => MayLeave(rows, u)
      PROVE  AccessOk(rows')
  <2>1. rows' = [rows EXCEPT !.members[u] = [status |-> status, roles |-> rows.members[u].roles]]
    BY <1>3, <1>8, Zenon
  <2> QED
    BY <1>2, <1>8, <2>1 DEF Holder, MayLeave
<1>9. ASSUME NEW u \in Users, NEW status \in {"ACTIVE", "INVITED", "SUSPENDED"},
             UpdateMember(w, u, status)
      PROVE  AccessOk(rows')
  <2>1. /\ rows' = [rows EXCEPT !.members[u].status = status]
        /\ status = "SUSPENDED" => MayLeave(rows, u)
    BY <1>9 DEF UpdateMember, AsMember, At, Commit
  <2> QED
    BY <1>8, <2>1
<1>10. ASSUME NEW u \in Users, RemoveMember(w, u) PROVE AccessOk(rows')
  <2>1. rows' = [rows EXCEPT !.members[u].status = "REMOVED"] /\ MayLeave(rows, u)
    BY <1>10 DEF RemoveMember, AsMember, At, Commit
  <2> QED
    BY <1>8, <2>1
<1>11. ASSUME NEW u \in Users, NEW r \in Roles, AssignRole(w, u, r) PROVE AccessOk(rows')
  <2> DEFINE roles == rows.members[u].roles \cup {r}
  <2>1. rows' = [rows EXCEPT !.members[u].roles = roles]
    BY <1>1, <1>11 DEF AssignRole, Commit, AccessShape
  <2>2. rows' = [rows EXCEPT !.members[u] = [status |-> rows.members[u].status, roles |-> roles]]
    BY <1>4, <2>1, Zenon
  <2> QED
    BY <1>2, <2>2 DEF Holder
<1>12. ASSUME NEW u \in Users, NEW r \in Roles, RemoveRole(w, u, r) PROVE AccessOk(rows')
  <2> DEFINE roles == rows.members[u].roles \ {r}
  <2>1. rows' = [rows EXCEPT !.members[u].roles = roles] /\ (r = "OWNER" => OtherOwner(rows, u))
    BY <1>1, <1>12 DEF RemoveRole, ManagesRoles, At, Commit, AccessShape
  <2>2. rows' = [rows EXCEPT !.members[u] = [status |-> rows.members[u].status, roles |-> roles]]
    BY <1>4, <2>1, Zenon
  <2> QED
    BY <1>2, <2>1, <2>2 DEF Holder
<1>13. ASSUME NEW r \in CustomRoles,
              CreateCustomRole(w, r) \/ DeleteCustomRole(w, r) \/ UpdateRolePermissions(w, r)
       PROVE  AccessOk(rows')
  <2>1. PICK g : rows' = [rows EXCEPT !.grant[r] = g]
    BY <1>13 DEF CreateCustomRole, DeleteCustomRole, UpdateRolePermissions, Commit
  <2>2. r # "OWNER"
    BY DEF CustomRoles
  <2>3. /\ AccessShape(rows') /\ rows'.organization = rows.organization
        /\ rows'.members = rows.members /\ rows'.grant["OWNER"] = "OWNER"
    BY <1>1, <2>1, <2>2 DEF AccessShape
  <2> QED
    BY <2>3 DEF AccessOk, Holder
<1> QED
  BY <1>5, <1>6, <1>7, <1>9, <1>10, <1>11, <1>12, <1>13 DEF AccessNext

LEMMA NoAccessOk == AccessOk(NoAccess)
  BY DEF NoAccess, AccessOk, AccessShape, Roles, SystemRoles

-----------------------------------------------------------------------------
(* The endpoints, by controller, and the permissions the seed knows. *)

\* What those endpoints need that are for an organization is granted to somebody.
Reached(endpoints) ==
  \A e \in endpoints : "TenantContext" \in e.guards => e.needs \subseteq AllPermissions

\* The seed knows these actions on an area.
Known(area, actions) == \A action \in actions : <<area, action>> \in AllPermissions

LEMMA ScopedReached ==
  ASSUME NEW area, NEW ops, Known(area, DOMAIN ops)
  PROVE  Reached(Scoped(area, ops))
  BY DEF Known, Reached, Scoped, Required, Endpoint

\* The others are not for an organization.
LEMMA UnscopedReached ==
  ASSUME NEW area, NEW ops
  PROVE  Reached(Unscoped(area, ops))
  BY DEF Reached, Unscoped, Required, Endpoint

LEMMA OpenReached ==
  ASSUME NEW ops
  PROVE  Reached(SignedIn(ops)) /\ Reached(Public(ops))
  BY DEF Reached, SignedIn, Public, Endpoint

\* What the seed knows of each part of the system.
LEMMA KnownGroups ==
  /\ AdministrationPermissions \subseteq AllPermissions /\ StockPermissions \subseteq AllPermissions
  /\ SalesPermissions \subseteq AllPermissions /\ ShippingPermissions \subseteq AllPermissions
  /\ WarehousePermissions \subseteq AllPermissions /\ QualityPermissions \subseteq AllPermissions
  /\ ReturnsPermissions \subseteq AllPermissions /\ AccountingPermissions \subseteq AllPermissions
  /\ ServicePermissions \subseteq AllPermissions /\ CrmPermissions \subseteq AllPermissions
  /\ SettlementPermissions \subseteq AllPermissions /\ TreasuryPermissions \subseteq AllPermissions
  /\ TradePermissions \subseteq AllPermissions /\ AssetPermissions \subseteq AllPermissions
  /\ PersonnelPermissions \subseteq AllPermissions /\ ProductionPermissions \subseteq AllPermissions
  /\ OperationsPermissions \subseteq AllPermissions
  BY DEF AllPermissions, BusinessPermissions, PlatformServices

\* The endpoints of every controller, part by part.
LEMMA FinanceReached == Reached(FinanceEndpoints)
<1>1. /\ Reached(AccountsController)
      /\ Reached(JournalsController)
      /\ Reached(FiscalPeriodsController)
  BY KnownGroups, ScopedReached DEF AccountsController, JournalsController, FiscalPeriodsController,
     Known, Of, AccountingPermissions
<1>2. Reached(FinancialReportsController)
  BY KnownGroups, ScopedReached DEF FinancialReportsController, Reached, Known, Of,
     AccountingPermissions
<1>3. Reached(BudgetsController)
  BY KnownGroups, ScopedReached DEF BudgetsController, Reached, Known, Of, PersonnelPermissions
<1>4. /\ Reached(ApAccountMappingController)
      /\ Reached(SupplierInvoicesController)
      /\ Reached(CustomerInvoicesController)
  BY KnownGroups, ScopedReached DEF ApAccountMappingController, SupplierInvoicesController,
     CustomerInvoicesController, Reached, Known, Of, SettlementPermissions
<1>5. /\ Reached(ReceivablesController)
      /\ Reached(PaymentAccountsController)
      /\ Reached(PaymentsController)
  BY KnownGroups, ScopedReached DEF ReceivablesController, PaymentAccountsController,
     PaymentsController, Reached, Known, Of, SettlementPermissions
<1>6. /\ Reached(AssetsController)
      /\ Reached(ExpensesController)
  BY KnownGroups, ScopedReached DEF AssetsController, ExpensesController, Reached, Known, Of,
     AssetPermissions
<1>7. /\ Reached(BankAccountsController)
      /\ Reached(BankMatchingController)
      /\ Reached(BankReconciliationController)
  BY KnownGroups, ScopedReached DEF BankAccountsController, BankMatchingController,
     BankReconciliationController, Reached, Known, Of, TreasuryPermissions
<1>8. Reached(BankStatementsController)
  BY KnownGroups, ScopedReached DEF BankStatementsController, Known, Of, TreasuryPermissions
<1>9. Reached(TaxController)
  BY KnownGroups, ScopedReached DEF TaxController, Reached, Known, Of, TradePermissions
<1> QED
  BY <1>1, <1>2, <1>3, <1>4, <1>5, <1>6, <1>7, <1>8, <1>9 DEF Reached, FinanceEndpoints

LEMMA SalesReached == Reached(SalesEndpoints)
<1>1. /\ Reached(CrmActivitiesController)
      /\ Reached(CrmContactsController)
      /\ Reached(CrmCustomer360Controller)
  BY KnownGroups, ScopedReached DEF CrmActivitiesController, CrmContactsController,
     CrmCustomer360Controller, Known, Of, CrmPermissions
<1>2. /\ Reached(CrmLeadsController)
      /\ Reached(CrmOpportunitiesController)
      /\ Reached(CrmPipelineController)
  BY KnownGroups, ScopedReached DEF CrmLeadsController, CrmOpportunitiesController,
     CrmPipelineController, Known, Of, CrmPermissions
<1>3. /\ Reached(CrmQuotationsController)
      /\ Reached(CrmReportsController)
  BY KnownGroups, ScopedReached DEF CrmQuotationsController, CrmReportsController, Known, Of,
     CrmPermissions
<1>4. /\ Reached(ReturnDispositionController)
      /\ Reached(ReturnQualityController)
      /\ Reached(ReturnPoliciesController)
  BY KnownGroups, ScopedReached DEF ReturnDispositionController, ReturnQualityController,
     ReturnPoliciesController, Known, Of, ReturnsPermissions
<1>5. /\ Reached(ReturnReasonsController)
      /\ Reached(ReturnReceivingController)
      /\ Reached(ReturnsReportsController)
  BY KnownGroups, ScopedReached DEF ReturnReasonsController, ReturnReceivingController,
     ReturnsReportsController, Known, Of, ReturnsPermissions
<1>6. /\ Reached(ReturnRequestsController)
      /\ Reached(ReturnResolutionsController)
  BY KnownGroups, ScopedReached DEF ReturnRequestsController, ReturnResolutionsController, Reached,
     Known, Of, ReturnsPermissions
<1>7. /\ Reached(CustomerAddressesController)
      /\ Reached(CustomerContactsController)
      /\ Reached(CustomersController)
  BY KnownGroups, ScopedReached DEF CustomerAddressesController, CustomerContactsController,
     CustomersController, Known, Of, SalesPermissions
<1>8. /\ Reached(DeliveryOrdersController)
      /\ Reached(SalesFulfillmentReportsController)
      /\ Reached(CustomerGroupsController)
  BY KnownGroups, ScopedReached DEF DeliveryOrdersController, SalesFulfillmentReportsController,
     CustomerGroupsController, Known, Of, SalesPermissions
<1>9. /\ Reached(SalesOrdersController)
      /\ Reached(CustomerPricingController)
      /\ Reached(QuotationsController)
  BY KnownGroups, ScopedReached DEF SalesOrdersController, CustomerPricingController,
     QuotationsController, Known, Of, SalesPermissions
<1>10. Reached(ReservationsController)
  BY KnownGroups, ScopedReached DEF ReservationsController, Known, Of, SalesPermissions
<1>11. /\ Reached(CustomerCreditNotesController)
       /\ Reached(CustomerRefundsController)
  BY KnownGroups, ScopedReached DEF CustomerCreditNotesController, CustomerRefundsController, Known,
     Of, TreasuryPermissions
<1>12. /\ Reached(CustomerAssetsController)
       /\ Reached(ServiceDiagnosisController)
       /\ Reached(ServiceEstimatesController)
  BY KnownGroups, ScopedReached DEF CustomerAssetsController, ServiceDiagnosisController,
     ServiceEstimatesController, Known, Of, ServicePermissions
<1>13. /\ Reached(ServiceLaborController)
       /\ Reached(ServiceOrdersController)
       /\ Reached(ServicePartsController)
  BY KnownGroups, ScopedReached DEF ServiceLaborController, ServiceOrdersController,
     ServicePartsController, Reached, Known, Of, ServicePermissions
<1>14. /\ Reached(ServiceReportsController)
       /\ Reached(ServiceRequestsController)
       /\ Reached(ServiceTicketsController)
  BY KnownGroups, ScopedReached DEF ServiceReportsController, ServiceRequestsController,
     ServiceTicketsController, Known, Of, ServicePermissions
<1>15. Reached(WarrantyController)
  BY KnownGroups, ScopedReached DEF WarrantyController, Known, Of, ServicePermissions
<1>16. /\ Reached(ShipmentCarriersController)
       /\ Reached(ShipmentReportsController)
       /\ Reached(ShipmentsController)
  BY KnownGroups, ScopedReached DEF ShipmentCarriersController, ShipmentReportsController,
     ShipmentsController, Known, Of, ShippingPermissions
<1>17. Reached(ShipmentTrackingController)
  BY KnownGroups, ScopedReached DEF ShipmentTrackingController, Known, Of, ShippingPermissions
<1> QED
  BY <1>1, <1>2, <1>3, <1>4, <1>5, <1>6, <1>7, <1>8, <1>9, <1>10, <1>11, <1>12, <1>13, <1>14, <1>15,
     <1>16, <1>17 DEF Reached, SalesEndpoints

LEMMA SupplyReached == Reached(SupplyEndpoints)
<1>1. /\ Reached(CategoriesController)
      /\ Reached(ItemsController)
      /\ Reached(PricingController)
  BY KnownGroups, ScopedReached DEF CategoriesController, ItemsController, PricingController, Known,
     Of, StockPermissions
<1>2. /\ Reached(UnitsController)
      /\ Reached(VariantsController)
      /\ Reached(AdjustmentsController)
  BY KnownGroups, ScopedReached DEF UnitsController, VariantsController, AdjustmentsController,
     Known, Of, StockPermissions
<1>3. /\ Reached(BalancesController)
      /\ Reached(BatchesController)
      /\ Reached(MovementsController)
  BY KnownGroups, ScopedReached DEF BalancesController, BatchesController, MovementsController,
     Known, Of, StockPermissions
<1>4. /\ Reached(SerialsController)
      /\ Reached(TransfersController)
      /\ Reached(SupplierAddressesController)
  BY KnownGroups, ScopedReached DEF SerialsController, TransfersController,
     SupplierAddressesController, Known, Of, StockPermissions
<1>5. /\ Reached(SupplierContactsController)
      /\ Reached(PurchaseCostsController)
      /\ Reached(PurchaseOrdersController)
  BY KnownGroups, ScopedReached DEF SupplierContactsController, PurchaseCostsController,
     PurchaseOrdersController, Known, Of, StockPermissions
<1>6. /\ Reached(GoodsReceiptsController)
      /\ Reached(SuppliersController)
  BY KnownGroups, ScopedReached DEF GoodsReceiptsController, SuppliersController, Known, Of,
     StockPermissions
<1>7. /\ Reached(CostingController)
      /\ Reached(SupplierDebitNotesController)
  BY KnownGroups, ScopedReached DEF CostingController, SupplierDebitNotesController, Reached, Known,
     Of, TradePermissions
<1>8. /\ Reached(ManufacturingController)
      /\ Reached(PlanningController)
      /\ Reached(ProcurementController)
  BY KnownGroups, ScopedReached DEF ManufacturingController, PlanningController,
     ProcurementController, Reached, Known, Of, ProductionPermissions
<1>9. /\ Reached(CurrenciesController)
      /\ Reached(LocationsController)
      /\ Reached(NumberingController)
  BY KnownGroups, ScopedReached DEF CurrenciesController, LocationsController, NumberingController,
     Known, Of, AdministrationPermissions
<1>10. Reached(TaxesController)
  BY KnownGroups, ScopedReached DEF TaxesController, Known, Of, AdministrationPermissions
<1>11. /\ Reached(CustomerQualityController)
       /\ Reached(SupplierQualityController)
       /\ Reached(CapaController)
  BY KnownGroups, ScopedReached DEF CustomerQualityController, SupplierQualityController,
     CapaController, Known, Of, QualityPermissions
<1>12. /\ Reached(QualityConfigController)
       /\ Reached(QualityHoldsController)
       /\ Reached(InspectionLotsController)
  BY KnownGroups, ScopedReached DEF QualityConfigController, QualityHoldsController,
     InspectionLotsController, Known, Of, QualityPermissions
<1>13. /\ Reached(NonConformanceController)
       /\ Reached(InspectionPlansController)
       /\ Reached(QualityReportsController)
  BY KnownGroups, ScopedReached DEF NonConformanceController, InspectionPlansController,
     QualityReportsController, Known, Of, QualityPermissions
<1>14. Reached(SamplingPlansController)
  BY KnownGroups, ScopedReached DEF SamplingPlansController, Known, Of, QualityPermissions
<1>15. /\ Reached(WarehouseConfigController)
       /\ Reached(WarehouseCountsController)
       /\ Reached(WarehousePickingController)
  BY KnownGroups, ScopedReached DEF WarehouseConfigController, WarehouseCountsController,
     WarehousePickingController, Known, Of, WarehousePermissions
<1>16. /\ Reached(WarehouseWavesController)
       /\ Reached(WarehousePutawayController)
       /\ Reached(WarehouseReplenishmentController)
  BY KnownGroups, ScopedReached DEF WarehouseWavesController, WarehousePutawayController,
     WarehouseReplenishmentController, Known, Of, WarehousePermissions
<1>17. /\ Reached(WarehouseReportsController)
       /\ Reached(WarehouseStockController)
       /\ Reached(WarehouseTasksController)
  BY KnownGroups, ScopedReached DEF WarehouseReportsController, WarehouseStockController,
     WarehouseTasksController, Reached, Known, Of, WarehousePermissions
<1>18. /\ Reached(WarehouseTransfersController)
       /\ Reached(WarehouseZonesController)
  BY KnownGroups, ScopedReached DEF WarehouseTransfersController, WarehouseZonesController, Known,
     Of, WarehousePermissions
<1> QED
  BY <1>1, <1>2, <1>3, <1>4, <1>5, <1>6, <1>7, <1>8, <1>9, <1>10, <1>11, <1>12, <1>13, <1>14, <1>15,
     <1>16, <1>17, <1>18 DEF Reached, SupplyEndpoints

LEMMA AdministrationReached == Reached(AdministrationEndpoints)
<1>1. /\ Reached(AppController)
      /\ Reached(AuthController)
      /\ Reached(OrganizationsController)
  BY OpenReached DEF AppController, AuthController, OrganizationsController, Reached
<1>2. /\ Reached(AuditController)
      /\ Reached(RolesController)
  BY KnownGroups, ScopedReached DEF AuditController, RolesController, Known, Of,
     AdministrationPermissions
<1>3. /\ Reached(PerformanceBenchmarkController)
      /\ Reached(JobController)
      /\ Reached(SecurityDashboardController)
  BY KnownGroups, ScopedReached DEF PerformanceBenchmarkController, JobController,
     SecurityDashboardController, Known, Of, OperationsPermissions
<1>4. /\ Reached(SecurityEventsController)
      /\ Reached(SecurityPoliciesController)
      /\ Reached(SecurityReportsController)
  BY KnownGroups, ScopedReached DEF SecurityEventsController, SecurityPoliciesController,
     SecurityReportsController, Known, Of, OperationsPermissions
<1>5. Reached(SecuritySessionsController)
  BY KnownGroups, ScopedReached DEF SecuritySessionsController, Known, Of, OperationsPermissions
<1>6. /\ Reached(DepartmentsController)
      /\ Reached(EmployeesController)
      /\ Reached(JobPositionsController)
  BY KnownGroups, ScopedReached DEF DepartmentsController, EmployeesController,
     JobPositionsController, Reached, Known, Of, PersonnelPermissions
<1>7. Reached(PayrollController)
  BY KnownGroups, ScopedReached DEF PayrollController, Reached, Known, Of, PersonnelPermissions
<1> QED
  BY <1>1, <1>2, <1>3, <1>4, <1>5, <1>6, <1>7 DEF Reached, AdministrationEndpoints

LEMMA PlatformReached == Reached(PlatformEndpoints)
<1>1. /\ Reached(AnalyticsQueryController)
      /\ Reached(AnalyticsReportsController)
      /\ Reached(DashboardsController)
      /\ Reached(ReportSchedulesController)
      /\ Reached(SavedReportsController)
      /\ Reached(BillingCreditsController)
  BY UnscopedReached DEF AnalyticsQueryController, AnalyticsReportsController, DashboardsController,
     ReportSchedulesController, SavedReportsController, BillingCreditsController, Reached
<1>2. /\ Reached(BillingDashboardController)
      /\ Reached(BillingEntitlementsController)
      /\ Reached(BillingInvoicesController)
      /\ Reached(BillingPaymentsController)
      /\ Reached(BillingPlansController)
      /\ Reached(BillingReportsController)
  BY UnscopedReached DEF BillingDashboardController, BillingEntitlementsController,
     BillingInvoicesController, BillingPaymentsController, BillingPlansController,
     BillingReportsController, Reached
<1>3. /\ Reached(BillingSubscriptionController)
      /\ Reached(BillingUsageController)
      /\ Reached(BillingWebhooksController)
      /\ Reached(DataOperationsController)
      /\ Reached(DeveloperApiController)
      /\ Reached(DeveloperDashboardController)
  BY UnscopedReached, OpenReached DEF BillingSubscriptionController, BillingUsageController,
     BillingWebhooksController, DataOperationsController, DeveloperApiController,
     DeveloperDashboardController, Reached
<1>4. /\ Reached(DeveloperDocsController)
      /\ Reached(DeveloperErrorsController)
      /\ Reached(DeveloperUsageController)
      /\ Reached(ApiKeysController)
      /\ Reached(IntegrationConnectionsController)
      /\ Reached(IntegrationEventsController)
  BY UnscopedReached DEF DeveloperDocsController, DeveloperErrorsController,
     DeveloperUsageController, ApiKeysController, IntegrationConnectionsController,
     IntegrationEventsController, Reached
<1>5. /\ Reached(IntegrationHealthController)
      /\ Reached(IntegrationProvidersController)
      /\ Reached(InboundWebhookController)
      /\ Reached(WebhookSubscriptionsController)
      /\ Reached(DeliveriesController)
      /\ Reached(DevicesController)
  BY UnscopedReached, OpenReached DEF IntegrationHealthController, IntegrationProvidersController,
     InboundWebhookController, WebhookSubscriptionsController, DeliveriesController,
     DevicesController
<1>6. /\ Reached(NotificationsController)
      /\ Reached(PreferencesController)
      /\ Reached(ProvidersController)
      /\ Reached(NotificationReportsController)
      /\ Reached(SchedulesController)
      /\ Reached(TemplatesController)
  BY UnscopedReached, OpenReached DEF NotificationsController, PreferencesController,
     ProvidersController, NotificationReportsController, SchedulesController, TemplatesController,
     Reached
<1>7. /\ Reached(AlertingController)
      /\ Reached(HealthController)
      /\ Reached(IncidentController)
      /\ Reached(OperationsController)
      /\ Reached(SloController)
      /\ Reached(FavoritesController)
  BY UnscopedReached, OpenReached DEF AlertingController, HealthController, IncidentController,
     OperationsController, SloController, FavoritesController, Reached
<1>8. /\ Reached(RecentItemsController)
      /\ Reached(SavedViewsController)
      /\ Reached(SearchAlertsController)
      /\ Reached(SearchHistoryController)
      /\ Reached(SearchReportsController)
      /\ Reached(UnifiedSearchController)
  BY UnscopedReached, OpenReached DEF RecentItemsController, SavedViewsController,
     SearchAlertsController, SearchHistoryController, SearchReportsController,
     UnifiedSearchController
<1>9. /\ Reached(WorkflowApprovalsController)
      /\ Reached(WorkflowDefinitionsController)
      /\ Reached(WorkflowExecutionsController)
      /\ Reached(WorkflowReportsController)
      /\ Reached(RulesController)
      /\ Reached(WorkflowSchedulesController)
  BY UnscopedReached DEF WorkflowApprovalsController, WorkflowDefinitionsController,
     WorkflowExecutionsController, WorkflowReportsController, RulesController,
     WorkflowSchedulesController
<1>10. Reached(WorkflowVersionsController)
  BY UnscopedReached DEF WorkflowVersionsController
<1> QED
  BY <1>1, <1>2, <1>3, <1>4, <1>5, <1>6, <1>7, <1>8, <1>9, <1>10 DEF Reached, PlatformEndpoints

LEMMA EndpointsReached == Reached(Endpoints)
  BY FinanceReached, SalesReached, SupplyReached, AdministrationReached, PlatformReached
     DEF Reached, Endpoints

\* AccessOk implies the properties of the access rights.
LEMMA OwnerRemainsThen ==
  ASSUME rows.domain = "access" => AccessOk(rows)
  PROVE  OwnerRemains
  BY DEF OwnerRemains, AccessOk, Holder

LEMMA OwnersReachTheirEndpointsThen ==
  ASSUME rows.domain = "access" => AccessOk(rows)
  PROVE  OwnersReachTheirEndpoints
<1> SUFFICES ASSUME rows.domain = "access", NEW u \in Users, Owns(rows, u),
                    NEW e \in Endpoints, "TenantContext" \in e.guards
             PROVE  Admitted(rows, u, e)
  BY DEF OwnersReachTheirEndpoints
<1>1. InTenant(rows, u) /\ "OWNER" \in rows.members[u].roles
  BY DEF Owns
<1>2. e.needs \subseteq AllPermissions
  BY EndpointsReached DEF Reached
<1>3. rows.grant["OWNER"] = "OWNER"
  BY DEF AccessOk
<1>4. \A p \in e.needs : HasPermission(rows, u, p)
  <2>1. PermissionsOf[rows.grant["OWNER"]] = AllPermissions
    BY <1>3 DEF PermissionsOf, OwnerPermissions
  <2> QED
    BY <1>1, <1>2, <2>1 DEF HasPermission
<1> QED
  BY <1>1, <1>4 DEF Admitted

-----------------------------------------------------------------------------
(* numbering, catalog, prices and locations. *)

\* No number that is still to come has been drawn, and before there is a
\* sequence none.
NumberingOk(db) ==
  /\ DOMAIN db = {"domain", "sequence", "drawn"}
  /\ DOMAIN db.sequence = {"status", "next"} /\ db.sequence.next \in Nat
  /\ DOMAIN db.drawn = Numbers
  /\ \A n \in Numbers : /\ db.drawn[n] \in {0, 1}
                        /\ n >= db.sequence.next \/ db.sequence.status = "NONE" => db.drawn[n] = 0

\* Every step of the numbering, whatever else runs, preserves NumberingOk.
LEMMA NumberingStep ==
  ASSUME NumberingOk(rows), NEW w \in Workers, NumberingNext(w)
  PROVE  NumberingOk(rows')
<1>1. Numbers \subseteq Nat
  BY DEF Numbers
<1>2. ASSUME NEW n \in Numbers, NEW status, NEW drawn, DOMAIN drawn = Numbers,
             \A m \in Numbers : drawn[m] = 0,
             DOMAIN rows' = DOMAIN rows, rows'.sequence = [status |-> status, next |-> n],
             rows'.drawn = drawn
      PROVE  NumberingOk(rows')
  BY <1>1, <1>2 DEF NumberingOk
<1>3. CASE CreateSequence(w)
  <2>1. PICK n \in Numbers :
          \/ rows' = rows
          \/ /\ rows.sequence.status = "NONE"
             /\ rows' = [rows EXCEPT !.sequence = [status |-> "ACTIVE", next |-> n]]
    BY <1>3 DEF CreateSequence, CommitIf, Commit
  <2>2. CASE /\ rows.sequence.status = "NONE"
             /\ rows' = [rows EXCEPT !.sequence = [status |-> "ACTIVE", next |-> n]]
    <3>1. /\ DOMAIN rows' = DOMAIN rows /\ rows'.sequence = [status |-> "ACTIVE", next |-> n]
          /\ rows'.drawn = rows.drawn
      BY <2>2 DEF NumberingOk
    <3>2. DOMAIN rows.drawn = Numbers /\ \A m \in Numbers : rows.drawn[m] = 0
      BY <2>2 DEF NumberingOk
    <3> QED
      BY <1>2, <3>1, <3>2
  <2> QED
    BY <2>1, <2>2
<1>4. CASE UpdateSequence(w)
  <2> DEFINE none == [m \in Numbers |-> 0]
  <2>1. PICK status \in {"ACTIVE", "INACTIVE"}, n \in Numbers :
          \/ rows' = [rows EXCEPT !.sequence.status = status]
          \/ rows' = [rows EXCEPT !.sequence = [status |-> status, next |-> n], !.drawn = none]
    <3>1. 1 \in Numbers
      BY DEF Numbers
    <3> QED
      BY <1>4, <3>1 DEF UpdateSequence, Commit
  <2>2. CASE rows' = [rows EXCEPT !.sequence.status = status]
    <3>1. /\ DOMAIN rows' = DOMAIN rows /\ DOMAIN rows'.sequence = DOMAIN rows.sequence
          /\ rows'.sequence.status = status /\ rows'.sequence.next = rows.sequence.next
          /\ rows'.drawn = rows.drawn
      BY <2>2 DEF NumberingOk
    <3> QED
      BY <2>1, <3>1 DEF NumberingOk
  <2>3. CASE rows' = [rows EXCEPT !.sequence = [status |-> status, next |-> n], !.drawn = none]
    <3>1. rows' = [[rows EXCEPT !.sequence = [status |-> status, next |-> n]] EXCEPT !.drawn = none]
      BY <2>3
    <3>2. DOMAIN none = Numbers /\ \A m \in Numbers : none[m] = 0
      OBVIOUS
    <3> HIDE DEF none
    <3>3. /\ DOMAIN rows' = DOMAIN rows /\ rows'.sequence = [status |-> status, next |-> n]
          /\ rows'.drawn = none
      BY <3>1 DEF NumberingOk
    <3> QED
      BY <1>2, <3>2, <3>3
  <2> QED
    BY <2>1, <2>2, <2>3
<1>5. CASE NextNumber(w)
  <2> DEFINE n == rows.sequence.next
  <2>1. /\ rows.sequence.status = "ACTIVE" /\ n \in Numbers
        /\ rows' = [rows EXCEPT !.sequence.next = @ + 1, !.drawn[n] = @ + 1]
    BY <1>5 DEF NextNumber, Commit
  <2>2. rows' = [[rows EXCEPT !.sequence.next = n + 1] EXCEPT !.drawn[n] = rows.drawn[n] + 1]
    BY <2>1 DEF NumberingOk
  <2>3. rows.drawn[n] = 0
    BY <1>1, <2>1 DEF NumberingOk
  <2> HIDE DEF n
  <2> DEFINE new == [rows EXCEPT !.sequence.next = n + 1]
             drawn == rows.drawn[n] + 1
  <2>4. /\ DOMAIN new = DOMAIN rows /\ DOMAIN new.sequence = DOMAIN rows.sequence
        /\ new.sequence.next = n + 1 /\ new.sequence.status = rows.sequence.status
        /\ new.drawn = rows.drawn
    BY DEF NumberingOk
  <2>5. rows' = [new EXCEPT !.drawn[n] = drawn] /\ drawn = 1
    BY <2>2, <2>3
  <2> HIDE DEF new, drawn
  <2>6. /\ DOMAIN new = {"domain", "sequence", "drawn"} /\ DOMAIN new.drawn = Numbers
        /\ DOMAIN rows.drawn = Numbers /\ DOMAIN rows = {"domain", "sequence", "drawn"}
    BY <2>4 DEF NumberingOk
  <2>7. /\ DOMAIN rows' = DOMAIN new /\ rows'.sequence = new.sequence
        /\ rows'.drawn = [new.drawn EXCEPT ![n] = drawn]
    BY <2>5, <2>6
  <2>8. /\ DOMAIN rows' = DOMAIN rows /\ DOMAIN rows'.sequence = DOMAIN rows.sequence
        /\ DOMAIN rows'.drawn = Numbers
        /\ rows'.sequence.next = n + 1 /\ rows'.sequence.status = rows.sequence.status
        /\ rows'.drawn[n] = 1
        /\ \A m \in Numbers : m # n => rows'.drawn[m] = rows.drawn[m]
    BY <2>1, <2>4, <2>5, <2>6, <2>7
  <2>9. /\ n \in Nat
        /\ \A m \in Numbers : m >= n + 1 => m # n /\ m >= n
    BY <1>1, <2>1
  <2>10. \A m \in Numbers : m >= n => rows.drawn[m] = 0
    BY DEF NumberingOk, n
  <2>11. \A m \in Numbers : rows'.drawn[m] \in {0, 1} /\ (m >= n + 1 => rows'.drawn[m] = 0)
    BY <2>8, <2>9, <2>10 DEF NumberingOk
  <2> QED
    BY <2>1, <2>8, <2>9, <2>11 DEF NumberingOk
<1> QED
  BY <1>3, <1>4, <1>5 DEF NumberingNext

LEMMA NoNumberingOk == NumberingOk(NoNumbering)
  BY DEF NoNumbering, NumberingOk, Numbers

\* NumberingOk implies the property of the numbers.
LEMMA NumbersDrawnOnceThen ==
  ASSUME rows.domain = "numbering" => NumberingOk(rows)
  PROVE  NumbersDrawnOnce
  BY DEF NumbersDrawnOnce, NumberingOk

\* The tables of the domain.
CatalogShape(db) ==
  /\ DOMAIN db = {"domain", "units", "categories", "items", "variants"}
  /\ DOMAIN db.items = {1} /\ DOMAIN db.variants = {1, 2}
  /\ "status" \in DOMAIN db.items[1]
  /\ \A v \in {1, 2} : DOMAIN db.variants[v] = {"status"}

\* A variant can only be sold or stocked while its item can.
CatalogOk(db) ==
  /\ CatalogShape(db)
  /\ \A v \in {1, 2} : Live(db.variants[v]) => Live(db.items[1])

\* Every step of the catalog, when the request has read the rows as they are,
\* preserves CatalogOk.
LEMMA CatalogStep ==
  ASSUME CatalogOk(rows), NEW w \in Workers, requests[w].pc = "read" => Seen(w) = rows,
         CatalogNext(w)
  PROVE  CatalogOk(rows')
<1>1. CatalogShape(rows)
  BY DEF CatalogOk
\* What is written to neither items nor variants.
<1>2. ASSUME NEW units, NEW categories,
             \/ rows' = [rows EXCEPT !.units = units]
             \/ rows' = [rows EXCEPT !.categories = categories]
      PROVE  CatalogOk(rows')
  <2>1. DOMAIN rows' = DOMAIN rows /\ rows'.items = rows.items /\ rows'.variants = rows.variants
    BY <1>1, <1>2 DEF CatalogShape
  <2> QED
    BY <2>1 DEF CatalogOk, CatalogShape
<1>3. ASSUME NEW u \in DOMAIN rows.units, CreateUnit(w, u) \/ UpdateUnit(w, u) \/ DeactivateUnit(w, u)
      PROVE  CatalogOk(rows')
  <2>1. PICK status : rows' = [rows EXCEPT !.units[u].status = status]
    BY <1>3 DEF CreateUnit, UpdateUnit, DeactivateUnit, SetStatus, Commit
  <2>2. rows' = [rows EXCEPT !.units = [rows.units EXCEPT ![u].status = status]]
    BY <1>1, <2>1 DEF CatalogShape
  <2> QED
    BY <1>2, <2>2, Zenon
<1>4. ASSUME NEW c \in DOMAIN rows.categories,
             CreateCategory(w, c) \/ UpdateCategory(w, c) \/ DeleteCategory(w, c)
      PROVE  CatalogOk(rows')
  <2>1. PICK category, status :
          \/ rows' = [rows EXCEPT !.categories[c] = category]
          \/ rows' = [rows EXCEPT !.categories[c].status = status]
    BY <1>4 DEF CreateCategory, UpdateCategory, DeleteCategory, SetStatus, Commit
  <2>2. \/ rows' = [rows EXCEPT !.categories = [rows.categories EXCEPT ![c] = category]]
        \/ rows' = [rows EXCEPT !.categories = [rows.categories EXCEPT ![c].status = status]]
    BY <1>1, <2>1 DEF CatalogShape
  <2> QED
    BY <1>2, <2>2, Zenon
\* What is written to the item, when it can be sold afterwards.
<1>5. ASSUME NEW c, NEW status \in Alive,
             rows' = [rows EXCEPT !.items[1] = [status |-> status, category |-> c]]
      PROVE  CatalogOk(rows')
  <2>1. /\ CatalogShape(rows') /\ rows'.variants = rows.variants
        /\ rows'.items[1].status = status
    BY <1>1, <1>5 DEF CatalogShape
  <2> QED
    BY <2>1 DEF CatalogOk, Live
<1>6. ASSUME NEW i \in {1}, CreateItem(w, i) \/ UpdateItem(w, i) PROVE CatalogOk(rows')
  <2>1. PICK status \in Alive, c \in {0} \cup DOMAIN rows.categories :
          rows' = [rows EXCEPT !.items[1] = [status |-> status, category |-> c]]
    BY <1>6 DEF CreateItem, UpdateItem, Commit, Alive
  <2> QED
    BY <1>5, <2>1
<1>7. ASSUME NEW i \in {1}, DeleteItem(w, i) PROVE CatalogOk(rows')
  <2> DEFINE variants == [v \in DOMAIN rows.variants |-> IF Live(rows.variants[v]) THEN [status |-> "DELETED"]
                                                         ELSE rows.variants[v]]
  <2>1. rows' = [[rows EXCEPT !.items[1].status = "DELETED"] EXCEPT !.variants = variants]
    BY <1>1, <1>7 DEF DeleteItem, Commit, CatalogShape
  <2>2. /\ DOMAIN variants = {1, 2}
        /\ \A v \in {1, 2} : DOMAIN variants[v] = {"status"} /\ ~ Live(variants[v])
    BY <1>1 DEF CatalogShape, Live, Alive
  <2> HIDE DEF variants
  <2>3. CatalogShape(rows') /\ rows'.variants = variants
    BY <1>1, <2>1, <2>2 DEF CatalogShape
  <2> QED
    BY <2>2, <2>3 DEF CatalogOk
<1>8. ASSUME NEW v \in {1, 2}, NEW status, rows' = [rows EXCEPT !.variants[v].status = status],
             status \in Alive => Live(rows.items[1])
      PROVE  CatalogOk(rows')
  <2>1. /\ CatalogShape(rows') /\ rows'.items = rows.items
        /\ rows'.variants[v].status = status
        /\ \A u \in {1, 2} : u # v => rows'.variants[u] = rows.variants[u]
    BY <1>1, <1>8 DEF CatalogShape
  <2> QED
    BY <1>8, <2>1 DEF CatalogOk, Live
<1>9. ASSUME NEW v \in {1, 2}, CreateVariant(w, v) \/ UpdateVariant(w, v) \/ DeleteVariant(w, v)
      PROVE  CatalogOk(rows')
  <2>1. CASE CreateVariant(w, v)
    <3>1. rows' = [rows EXCEPT !.variants[v].status = "ACTIVE"] /\ rows.items[1].status = "ACTIVE"
      BY <2>1 DEF CreateVariant, Creates, At, Commit
    <3> QED
      BY <1>8, <3>1 DEF Live, Alive
  <2>2. CASE UpdateVariant(w, v)
    <3>1. PICK to \in Alive : SetStatus(w, "variants", v, Alive, to)
      BY <2>2, Zenon DEF UpdateVariant
    <3>2. rows' = [rows EXCEPT !.variants[v].status = to] /\ Live(rows.variants[v])
      BY <3>1 DEF SetStatus, Changes, At, Commit, Live
    <3> QED
      BY <1>8, <3>2 DEF CatalogOk
  <2>3. CASE DeleteVariant(w, v)
    <3>1. rows' = [rows EXCEPT !.variants[v].status = "DELETED"]
      BY <2>3 DEF DeleteVariant, SetStatus, Commit
    <3> QED
      BY <1>8, <3>1 DEF Alive
  <2> QED
    BY <1>9, <2>1, <2>2, <2>3
<1>10. DOMAIN rows.items = {1} /\ DOMAIN rows.variants = {1, 2}
  BY <1>1 DEF CatalogShape
<1> QED
  BY <1>3, <1>4, <1>6, <1>7, <1>9, <1>10 DEF CatalogNext

LEMMA NoCatalogOk == CatalogOk(NoCatalog)
  BY DEF NoCatalog, CatalogOk, CatalogShape, Live, Alive

\* CatalogOk implies the property of the catalog.
LEMMA VariantsHaveItemsThen ==
  ASSUME rows.domain = "catalog" => CatalogOk(rows)
  PROVE  VariantsHaveItems
  BY DEF VariantsHaveItems, CatalogOk, CatalogShape

\* A set whose members are all the same has at most one.
LEMMA AtMostOne ==
  ASSUME NEW S, \A x, y \in S : x = y
  PROVE  Cardinality(S) <= 1
<1>1. CASE S = {}
  BY <1>1, FS_EmptySet
<1>2. CASE S # {}
  <2>1. PICK x \in S : S = {x}
    BY <1>2
  <2>2. Cardinality({x}) = 1
    BY FS_Singleton, Zenon
  <2> QED
    BY <2>1, <2>2
<1> QED
  BY <1>1, <1>2

\* The tables of the domain.
PricingShape(db) ==
  /\ DOMAIN db = {"domain", "currencies", "targets", "tiers", "prices"}
  /\ DOMAIN db.tiers = {1, 2}
  /\ \A t \in {1, 2} : DOMAIN db.tiers[t] = {"status", "isDefault"}

\* At most one tier is the default.
OneDefault(tiers) == \A t, u \in {1, 2} : tiers[t].isDefault /\ tiers[u].isDefault => t = u

TiersOk(tiers) ==
  /\ DOMAIN tiers = {1, 2} /\ OneDefault(tiers)
  /\ \A t \in {1, 2} : DOMAIN tiers[t] = {"status", "isDefault"}

PricingOk(db) == PricingShape(db) /\ OneDefault(db.tiers)

\* A tier that becomes the default is the only one.
LEMMA DefaultsOk ==
  ASSUME NEW tiers, TiersOk(tiers), NEW t \in {1, 2}, NEW isDefault \in BOOLEAN, NEW status
  PROVE  TiersOk([WithDefault(tiers, t, isDefault) EXCEPT ![t].status = status])
<1> DEFINE default == WithDefault(tiers, t, isDefault)
           new == [default EXCEPT ![t].status = status]
<1>1. /\ DOMAIN default = {1, 2}
      /\ \A u \in {1, 2} : DOMAIN default[u] = {"status", "isDefault"}
  BY DEF WithDefault, TiersOk
<1>2. \A u \in {1, 2} : default[u].isDefault => IF u = t THEN isDefault ELSE tiers[u].isDefault /\ ~ isDefault
  BY DEF WithDefault, TiersOk
<1> HIDE DEF default
<1>3. /\ DOMAIN new = {1, 2}
      /\ \A u \in {1, 2} : /\ DOMAIN new[u] = {"status", "isDefault"}
                           /\ new[u].isDefault = default[u].isDefault
  BY <1>1
<1> HIDE DEF new
<1>4. OneDefault(new)
  BY <1>2, <1>3 DEF OneDefault, TiersOk
<1> QED
  BY <1>3, <1>4 DEF new, default, TiersOk

\* Every step of the prices, whatever else runs, preserves PricingOk.
LEMMA PricingStep ==
  ASSUME PricingOk(rows), NEW w \in Workers, PricingNext(w)
  PROVE  PricingOk(rows')
<1>1. PricingShape(rows) /\ OneDefault(rows.tiers)
  BY DEF PricingOk
\* What is written to other tables.
<1>2. ASSUME NEW f \in {"currencies", "targets", "prices"}, NEW id, NEW status,
             rows' = [rows EXCEPT ![f][id].status = status]
      PROVE  PricingOk(rows')
  <2>1. DOMAIN rows' = DOMAIN rows /\ rows'.tiers = rows.tiers
    BY <1>1, <1>2 DEF PricingShape
  <2> QED
    BY <1>1, <2>1 DEF PricingOk, PricingShape
<1>3. ASSUME NEW f \in {"currencies", "targets", "prices"}, NEW id, NEW from, NEW to,
             SetStatus(w, f, id, from, to)
      PROVE  PricingOk(rows')
  BY <1>2, <1>3 DEF SetStatus, Commit
<1>4. ASSUME NEW t \in {1, 2}, NEW isDefault \in BOOLEAN, NEW status,
             rows' = [rows EXCEPT !.tiers = [WithDefault(@, t, isDefault) EXCEPT ![t].status = status]]
      PROVE  PricingOk(rows')
  <2> DEFINE tiers == [WithDefault(rows.tiers, t, isDefault) EXCEPT ![t].status = status]
  <2>1. rows' = [rows EXCEPT !.tiers = tiers]
    BY <1>1, <1>4 DEF PricingShape
  <2>2. TiersOk(rows.tiers)
    BY <1>1 DEF PricingShape, TiersOk
  <2>3. TiersOk(tiers)
    BY <2>2, DefaultsOk
  <2> HIDE DEF tiers
  <2> QED
    BY <1>1, <2>1, <2>3 DEF PricingOk, PricingShape, TiersOk
<1>5. ASSUME NEW t \in {1, 2}, NEW status, rows' = [rows EXCEPT !.tiers[t].status = status]
      PROVE  PricingOk(rows')
  <2>1. /\ DOMAIN rows' = DOMAIN rows /\ DOMAIN rows'.tiers = {1, 2}
        /\ \A u \in {1, 2} : /\ DOMAIN rows'.tiers[u] = DOMAIN rows.tiers[u]
                             /\ rows'.tiers[u].isDefault = rows.tiers[u].isDefault
    BY <1>1, <1>5 DEF PricingShape
  <2> QED
    BY <1>1, <2>1 DEF PricingOk, PricingShape, OneDefault
<1>6. ASSUME NEW t \in {1, 2}, CreatePricingTier(w, t) PROVE PricingOk(rows')
  BY <1>4, <1>6 DEF CreatePricingTier, Commit
<1>7. ASSUME NEW t \in {1, 2}, UpdatePricingTier(w, t) PROVE PricingOk(rows')
  <2>1. PICK to \in Alive :
          \/ rows' = [rows EXCEPT !.tiers[t].status = to]
          \/ \E isDefault \in BOOLEAN :
               rows' = [rows EXCEPT !.tiers = [WithDefault(@, t, isDefault) EXCEPT ![t].status = to]]
    BY <1>7, Zenon DEF UpdatePricingTier, Commit
  <2> QED
    BY <1>4, <1>5, <2>1, Zenon
<1>8. ASSUME NEW p, CreatePrice(w, p) \/ UpdatePrice(w, p) \/ DeletePrice(w, p) PROVE PricingOk(rows')
  <2>1. CASE CreatePrice(w, p)
    <3>1. rows' = [rows EXCEPT !["prices"][p].status = "ACTIVE"]
      BY <2>1, Zenon DEF CreatePrice, Commit
    <3> QED
      BY <1>2, <3>1
  <2>2. CASE UpdatePrice(w, p)
    <3>1. PICK to : SetStatus(w, "prices", p, Alive, to)
      BY <2>2, Zenon DEF UpdatePrice
    <3> QED
      BY <1>3, <3>1
  <2>3. CASE DeletePrice(w, p)
    BY <1>3, <2>3 DEF DeletePrice
  <2> QED
    BY <1>8, <2>1, <2>2, <2>3
<1>9. ASSUME NEW c, UpdateCurrency(w, c) \/ DeactivateCurrency(w, c) \/ DeleteTarget(w, c)
      PROVE  PricingOk(rows')
  <2>1. \E f \in {"currencies", "targets"} : \E to : SetStatus(w, f, c, Alive, to)
    BY <1>9, Zenon DEF UpdateCurrency, DeactivateCurrency, DeleteTarget
  <2> QED
    BY <1>3, <2>1
<1>10. DOMAIN rows.tiers = {1, 2}
  BY <1>1 DEF PricingShape
<1> QED
  BY <1>6, <1>7, <1>8, <1>9, <1>10, Zenon DEF PricingNext

LEMMA NoPricingOk == PricingOk(NoPricing)
  BY DEF NoPricing, PricingOk, PricingShape, OneDefault

\* PricingOk implies the property of the prices.
LEMMA OneDefaultTierThen ==
  ASSUME rows.domain = "pricing" => PricingOk(rows)
  PROVE  OneDefaultTier
<1> SUFFICES ASSUME rows.domain = "pricing"
             PROVE  Cardinality({t \in DOMAIN rows.tiers : rows.tiers[t].isDefault}) <= 1
  BY DEF OneDefaultTier
<1>1. \A t, u \in {t \in DOMAIN rows.tiers : rows.tiers[t].isDefault} : t = u
  BY DEF PricingOk, PricingShape, OneDefault
<1> QED
  BY <1>1, AtMostOne

\* The tables of the domain.
LocationsShape(db) ==
  /\ DOMAIN db = {"domain", "locations"}
  /\ DOMAIN db.locations = {1, 2, 3}
  /\ \A l \in {1, 2, 3} : /\ DOMAIN db.locations[l] = {"status", "parent"}
                          /\ db.locations[l].parent \in {0, 1, 2, 3}

\* What a location in use is within is in use.
LocationsOk(db) ==
  /\ LocationsShape(db)
  /\ \A l \in {1, 2, 3} : Live(db.locations[l]) => LiveLocation(db, db.locations[l].parent)

\* Every step of the locations, when the request has read the rows as they are,
\* preserves LocationsOk.
LEMMA LocationsStep ==
  ASSUME LocationsOk(rows), NEW w \in Workers, requests[w].pc = "read" => Seen(w) = rows,
         LocationsNext(w)
  PROVE  LocationsOk(rows')
<1>1. LocationsShape(rows)
  BY DEF LocationsOk
\* A location that is in use afterwards, within one that is.
<1>2. ASSUME NEW l \in {1, 2, 3}, NEW p \in {0, 1, 2, 3}, NEW status \in Alive,
             LiveLocation(rows, p),
             rows' = [rows EXCEPT !.locations[l] = [status |-> status, parent |-> p]]
      PROVE  LocationsOk(rows')
  <2>1. /\ LocationsShape(rows')
        /\ rows'.locations[l].status = status /\ rows'.locations[l].parent = p
        /\ \A k \in {1, 2, 3} : k # l => rows'.locations[k] = rows.locations[k]
    BY <1>1, <1>2 DEF LocationsShape
  <2>2. \A k \in {1, 2, 3} : Live(rows.locations[k]) => Live(rows'.locations[k])
    BY <2>1 DEF Live
  <2>3. \A q \in {0, 1, 2, 3} : LiveLocation(rows, q) => LiveLocation(rows', q)
    BY <2>2 DEF LiveLocation
  <2> QED
    BY <1>1, <1>2, <2>1, <2>3 DEF LocationsOk, LocationsShape
<1>3. ASSUME NEW l \in {1, 2, 3}, CreateLocation(w, l) PROVE LocationsOk(rows')
  <2>1. PICK p \in {0, 1, 2, 3} :
          /\ LiveLocation(rows, p)
          /\ rows' = [rows EXCEPT !.locations[l] = [status |-> "ACTIVE", parent |-> p]]
    BY <1>1, <1>3 DEF CreateLocation, Creates, At, Commit, LocationsShape
  <2> QED
    BY <1>2, <2>1 DEF Alive
<1>4. ASSUME NEW l \in {1, 2, 3}, UpdateLocation(w, l) PROVE LocationsOk(rows')
  <2>1. PICK p \in {0, 1, 2, 3}, to \in Alive :
          /\ Live(rows.locations[l])
          /\ p = rows.locations[l].parent \/ LiveLocation(rows, p)
          /\ rows' = [rows EXCEPT !.locations[l] = [status |-> to, parent |-> p]]
    BY <1>1, <1>4, SMTT(30) DEF UpdateLocation, Changes, At, Commit, LocationsShape, Live
  <2>2. LiveLocation(rows, p)
    BY <2>1 DEF LocationsOk
  <2> QED
    BY <1>2, <2>1, <2>2
<1>5. ASSUME NEW l \in {1, 2, 3}, DeleteLocation(w, l) PROVE LocationsOk(rows')
  <2>1. /\ \A k \in {1, 2, 3} : Live(rows.locations[k]) => rows.locations[k].parent # l
        /\ rows' = [rows EXCEPT !.locations[l].status = "DELETED"]
    BY <1>1, <1>5 DEF DeleteLocation, SetStatus, Changes, At, Commit, LocationsShape
  <2>2. /\ LocationsShape(rows') /\ rows'.locations[l].status = "DELETED"
        /\ \A k \in {1, 2, 3} : k # l => rows'.locations[k] = rows.locations[k]
    BY <1>1, <2>1 DEF LocationsShape
  <2>3. \A k \in {1, 2, 3} : Live(rows'.locations[k]) => k # l /\ Live(rows.locations[k])
    BY <2>2 DEF Live, Alive
  <2> QED
    BY <1>1, <2>1, <2>2, <2>3 DEF LocationsOk, LocationsShape, LiveLocation
<1>6. DOMAIN rows.locations = {1, 2, 3}
  BY <1>1 DEF LocationsShape
<1> QED
  BY <1>3, <1>4, <1>5, <1>6 DEF LocationsNext

LEMMA NoLocationsOk == LocationsOk(NoLocations)
  BY DEF NoLocations, LocationsOk, LocationsShape, Live, Alive

\* LocationsOk implies the property of the locations.
LEMMA LocationsHaveParentsThen ==
  ASSUME rows.domain = "locations" => LocationsOk(rows)
  PROVE  LocationsHaveParents
  BY DEF LocationsHaveParents, LocationsOk, LocationsShape

-----------------------------------------------------------------------------
(* compensations: what an employee is paid when. *)

\* The tables of the domain.
CompensationsShape(db) ==
  /\ DOMAIN db = {"domain", "earners", "compensations"}
  /\ DOMAIN db.compensations = {1, 2}
  /\ \A c \in {1, 2} : /\ db.compensations[c].from \in PayDays
                       /\ db.compensations[c].until \in PayDays \cup {NoEnd}

\* Active records do not overlap.
CompensationsOk(db) ==
  /\ CompensationsShape(db)
  /\ \A c, d \in {1, 2} :
       c # d /\ db.compensations[c].status = "ACTIVE" /\ db.compensations[d].status = "ACTIVE" =>
         ~ Overlap(db.compensations[c], db.compensations[d])

\* Every step of the compensations, when the request has read the rows as they
\* are, preserves CompensationsOk.
LEMMA CompensationsStep ==
  ASSUME CompensationsOk(rows), NEW w \in Workers, requests[w].pc = "read" => Seen(w) = rows,
         CompensationsNext(w)
  PROVE  CompensationsOk(rows')
<1>1. CompensationsShape(rows)
  BY DEF CompensationsOk
<1>2. ASSUME NEW c \in {1, 2}, CreateCompensation(w, c) \/ UpdateCompensation(w, c)
      PROVE  CompensationsOk(rows')
  <2>1. PICK new \in Compensations :
          OverlapsNone(rows, c, new) /\ rows' = [rows EXCEPT !.compensations[c] = new]
    BY <1>2 DEF CreateCompensation, UpdateCompensation, Creates, Changes, At, Commit
  <2>2. new.from \in PayDays /\ new.until \in PayDays \cup {NoEnd}
    BY DEF Compensations
  <2>3. /\ DOMAIN rows' = DOMAIN rows /\ DOMAIN rows'.compensations = {1, 2}
        /\ rows'.compensations[c] = new
        /\ \A d \in {1, 2} : d # c => rows'.compensations[d] = rows.compensations[d]
    BY <1>1, <2>1 DEF CompensationsShape
  <2>4. CompensationsShape(rows')
    BY <1>1, <2>2, <2>3 DEF CompensationsShape
  <2>5. \A d \in {1, 2} : d # c /\ rows.compensations[d].status = "ACTIVE" =>
          ~ Overlap(new, rows.compensations[d]) /\ ~ Overlap(rows.compensations[d], new)
    BY <1>1, <2>1 DEF OverlapsNone, Overlap, CompensationsShape
  <2> QED
    BY <2>3, <2>4, <2>5 DEF CompensationsOk
<1>3. ASSUME NEW e, EarnerLeaves(w, e) PROVE CompensationsOk(rows')
  <2>1. rows' = [rows EXCEPT !.earners[e].status = "DELETED"]
    BY <1>3 DEF EarnerLeaves, SetStatus, Commit
  <2>2. DOMAIN rows' = DOMAIN rows /\ rows'.compensations = rows.compensations
    BY <1>1, <2>1 DEF CompensationsShape
  <2> QED
    BY <2>2 DEF CompensationsOk, CompensationsShape
<1>4. DOMAIN rows.compensations = {1, 2}
  BY <1>1 DEF CompensationsShape
<1> QED
  BY <1>2, <1>3, <1>4 DEF CompensationsNext

LEMMA NoCompensationsOk == CompensationsOk(NoCompensations)
  BY DEF NoCompensations, CompensationsOk, CompensationsShape, PayDays, NoEnd

\* CompensationsOk implies the property of the compensations.
LEMMA OnePayAtATimeThen ==
  ASSUME rows.domain = "compensations" => CompensationsOk(rows)
  PROVE  OnePayAtATime
<1> SUFFICES ASSUME rows.domain = "compensations", NEW day \in PayDays
             PROVE  Cardinality({c \in DOMAIN rows.compensations :
                                   /\ rows.compensations[c].status = "ACTIVE"
                                   /\ day \in rows.compensations[c].from..rows.compensations[c].until}) <= 1
  BY DEF OnePayAtATime
<1> DEFINE paid == {c \in DOMAIN rows.compensations :
                      /\ rows.compensations[c].status = "ACTIVE"
                      /\ day \in rows.compensations[c].from..rows.compensations[c].until}
<1>1. \A c, d \in paid : c = d
  <2> SUFFICES ASSUME NEW c \in paid, NEW d \in paid, c # d PROVE FALSE
    OBVIOUS
  <2>1. /\ c \in {1, 2} /\ d \in {1, 2}
        /\ rows.compensations[c].status = "ACTIVE" /\ rows.compensations[d].status = "ACTIVE"
    BY DEF CompensationsOk, CompensationsShape
  <2>2. ~ Overlap(rows.compensations[c], rows.compensations[d])
    BY <2>1 DEF CompensationsOk
  <2>3. /\ \A e \in {1, 2} : rows.compensations[e].from \in Int /\ rows.compensations[e].until \in Int
        /\ day \in Int
    BY DEF CompensationsOk, CompensationsShape, PayDays, NoEnd
  <2> QED
    BY <2>1, <2>2, <2>3 DEF Overlap
<1> HIDE DEF paid
<1>2. Cardinality(paid) <= 1
  BY <1>1, AtMostOne
<1> QED
  BY <1>2 DEF paid

-----------------------------------------------------------------------------
(* parties: customers and suppliers with their contacts. *)

\* At most one contact is primary.
ContactsOk(contacts) ==
  /\ DOMAIN contacts = {1, 2}
  /\ \A c \in {1, 2} : DOMAIN contacts[c] = {"status", "primary"}
  /\ \A c, d \in {1, 2} : contacts[c].primary /\ contacts[d].primary => c = d

\* The tables of the domain.
PartiesOk(db) ==
  /\ DOMAIN db = {"domain", "kind", "groups", "parties", "contacts", "addresses"}
  /\ ContactsOk(db.contacts)

\* The one that crm/ is about to make primary will be the only one.
CrmCleared(w) ==
  requests[w].pc = "crmContact" =>
    \A d \in {1, 2} : d # requests[w].doc => ~ rows.contacts[d].primary

PartiesInv == PartiesOk(rows) /\ \A w \in Workers : CrmCleared(w)

\* A request that starts or ends without a write.
LEMMA PartiesStay ==
  ASSUME PartiesInv, rows' = rows,
         \A v \in Workers : requests'[v] = requests[v] \/ requests'[v].pc \in {"idle", "read"}
  PROVE  PartiesInv'
  BY DEF PartiesInv, CrmCleared

\* A contact that is written is the only primary one, or is not primary.
LEMMA SetPrimaryOk ==
  ASSUME NEW contacts, ContactsOk(contacts), NEW c \in {1, 2}, NEW primary \in BOOLEAN
  PROVE  ContactsOk(SetPrimary(contacts, c, primary))
<1> DEFINE new == SetPrimary(contacts, c, primary)
<1>1. /\ DOMAIN new = {1, 2}
      /\ \A d \in {1, 2} : DOMAIN new[d] = {"status", "primary"}
      /\ \A d \in {1, 2} : new[d].primary => IF d = c THEN primary ELSE contacts[d].primary /\ ~ primary
  BY DEF SetPrimary, ContactsOk
<1> HIDE DEF new
<1> QED
  BY <1>1 DEF ContactsOk, new

\* Every step about a customer or supplier, when no other request is in
\* progress, preserves PartiesInv.
LEMMA PartiesStep ==
  ASSUME PartiesInv, NEW w \in Workers, PartiesNext(w),
         requests' = [requests EXCEPT ![w] = requests'[w]],
         requests = [v \in Workers |-> requests[v]],
         \A v \in Workers : v # w => requests[v] = Idle
  PROVE  PartiesInv'
<1> DEFINE New == requests'[w]
<1>1. \A v \in Workers : v # w => requests'[v].pc = "idle"
  BY DEF Idle
<1>2. /\ PartiesOk(rows) /\ ContactsOk(rows.contacts) /\ CrmCleared(w)
      /\ DOMAIN rows = {"domain", "kind", "groups", "parties", "contacts", "addresses"}
  BY DEF PartiesInv, PartiesOk
<1>3. ASSUME PartiesOk(rows'), CrmCleared(w)' PROVE PartiesInv'
  BY <1>1, <1>3 DEF PartiesInv, CrmCleared
\* What is written to other tables.
<1>4. ASSUME NEW f \in {"groups", "parties", "addresses"}, NEW table,
             rows' = [rows EXCEPT ![f] = table], New = Idle
      PROVE  PartiesInv'
  <2>1. DOMAIN rows' = DOMAIN rows /\ rows'.contacts = rows.contacts
    BY <1>2, <1>4
  <2> QED
    BY <1>2, <1>3, <1>4, <2>1 DEF PartiesOk, CrmCleared, Idle
\* What is written to the contacts.
<1>5. ASSUME NEW contacts, ContactsOk(contacts), rows' = [rows EXCEPT !.contacts = contacts],
             New = Idle
      PROVE  PartiesInv'
  <2>1. DOMAIN rows' = DOMAIN rows /\ rows'.contacts = contacts
    BY <1>2, <1>5
  <2> QED
    BY <1>2, <1>3, <1>5, <2>1 DEF PartiesOk, CrmCleared, Idle
<1>6. ASSUME NEW g, DeleteGroup(w, g) PROVE PartiesInv'
  <2>1. New = Idle /\ rows' = [rows EXCEPT !.groups[g].status = "DELETED"]
    BY <1>6 DEF DeleteGroup, SetStatus, Commit
  <2>2. rows' = [rows EXCEPT !["groups"] = [rows.groups EXCEPT ![g].status = "DELETED"]]
    BY <1>2, <2>1
  <2> QED
    BY <1>4, <2>1, <2>2
<1>7. ASSUME NEW p, CreateParty(w, p) \/ UpdateParty(w, p) \/ DeleteParty(w, p) PROVE PartiesInv'
  <2>1. PICK party :
          /\ New = Idle
          /\ \/ rows' = [rows EXCEPT !.parties[p] = party]
             \/ rows' = [rows EXCEPT !.parties[p].status = "DELETED"]
    BY <1>7 DEF CreateParty, UpdateParty, DeleteParty, SetStatus, Commit
  <2>2. PICK table : rows' = [rows EXCEPT !["parties"] = table]
    <3>1. CASE rows' = [rows EXCEPT !.parties[p] = party]
      <4>1. rows' = [rows EXCEPT !["parties"] = [rows.parties EXCEPT ![p] = party]]
        BY <1>2, <3>1
      <4> QED
        BY <4>1
    <3>2. CASE rows' = [rows EXCEPT !.parties[p].status = "DELETED"]
      <4>1. rows' = [rows EXCEPT !["parties"] = [rows.parties EXCEPT ![p].status = "DELETED"]]
        BY <1>2, <3>2
      <4> QED
        BY <4>1
    <3> QED
      BY <2>1, <3>1, <3>2
  <2> QED
    BY <1>4, <2>1, <2>2
<1>8. ASSUME NEW c \in {1, 2}, CreateContact(w, c) \/ UpdateContact(w, c) PROVE PartiesInv'
  <2>1. PICK primary \in BOOLEAN :
          New = Idle /\ rows' = [rows EXCEPT !.contacts = SetPrimary(@, c, primary)]
    BY <1>8 DEF CreateContact, UpdateContact, Commit
  <2>2. rows' = [rows EXCEPT !.contacts = SetPrimary(rows.contacts, c, primary)]
    BY <1>2, <2>1
  <2>3. ContactsOk(SetPrimary(rows.contacts, c, primary))
    BY <1>2, SetPrimaryOk
  <2> QED
    BY <1>5, <2>1, <2>2, <2>3
<1>9. ASSUME NEW c \in {1, 2}, RemoveContact(w, c) PROVE PartiesInv'
  <2> DEFINE contacts == [rows.contacts EXCEPT ![c] = [status |-> "DELETED", primary |-> FALSE]]
  <2>1. New = Idle /\ rows' = [rows EXCEPT !.contacts = contacts]
    BY <1>2, <1>9 DEF RemoveContact, Commit
  <2>2. ContactsOk(contacts)
    BY <1>2 DEF ContactsOk
  <2> HIDE DEF contacts
  <2> QED
    BY <1>5, <2>1, <2>2
<1>10. ASSUME NEW c \in {1, 2}, CrmClearPrimary(w, c) PROVE PartiesInv'
  <2> DEFINE contacts == [d \in DOMAIN rows.contacts |->
                            IF d = c THEN rows.contacts[d] ELSE [rows.contacts[d] EXCEPT !.primary = FALSE]]
  <2>1. New = [pc |-> "crmContact", doc |-> c] /\ rows' = [rows EXCEPT !.contacts = contacts]
    BY <1>2, <1>10 DEF CrmClearPrimary, Proceed
  <2>2. ContactsOk(contacts) /\ \A d \in {1, 2} : d # c => ~ contacts[d].primary
    BY <1>2 DEF ContactsOk
  <2> HIDE DEF contacts
  <2>3. DOMAIN rows' = DOMAIN rows /\ rows'.contacts = contacts
    BY <1>2, <2>1
  <2> QED
    BY <1>2, <1>3, <2>1, <2>2, <2>3 DEF PartiesOk, CrmCleared
<1>11. ASSUME NEW c \in {1, 2}, CrmWriteContact(w, c) PROVE PartiesInv'
  <2> DEFINE contacts == [rows.contacts EXCEPT ![c] = [status |-> "ACTIVE", primary |-> TRUE]]
  <2>1. /\ requests[w].pc = "crmContact" /\ requests[w].doc = c /\ New = Idle
        /\ rows' = rows \/ rows' = [rows EXCEPT !.contacts = contacts]
    BY <1>2, <1>11 DEF CrmWriteContact, Resumes, At, CommitIf, Commit
  <2>2. \A d \in {1, 2} : d # c => ~ rows.contacts[d].primary
    BY <1>2, <2>1 DEF CrmCleared
  <2>3. ContactsOk(contacts)
    BY <1>2, <2>2 DEF ContactsOk
  <2> HIDE DEF contacts
  <2>4. CASE rows' = rows
    BY <1>2, <1>3, <2>1, <2>4 DEF CrmCleared, Idle
  <2> QED
    BY <1>5, <2>1, <2>3, <2>4
<1>12. ASSUME NEW a, CreateAddress(w, a) \/ UpdateAddress(w, a) \/ RemoveAddress(w, a) PROVE PartiesInv'
  <2>1. New = Idle /\ \E table : rows' = [rows EXCEPT !["addresses"] = table]
    <3>1. CASE CreateAddress(w, a)
      BY <3>1 DEF CreateAddress, Commit
    <3>2. CASE UpdateAddress(w, a)
      BY <1>2, <3>2 DEF UpdateAddress, Commit
    <3>3. CASE RemoveAddress(w, a)
      <4> DEFINE deleted == [rows.addresses EXCEPT ![a].status = "DELETED"]
                 cleared == [deleted EXCEPT ![a].primary = FALSE]
      <4>1. /\ New = Idle
            /\ rows' = [[rows EXCEPT !.addresses[a].status = "DELETED"]
                          EXCEPT !.addresses[a].primary = FALSE]
        BY <3>3 DEF RemoveAddress, Commit
      <4>2. [rows EXCEPT !.addresses[a].status = "DELETED"] = [rows EXCEPT !["addresses"] = deleted]
        BY <1>2
      <4> HIDE DEF deleted
      <4>3. [[rows EXCEPT !["addresses"] = deleted] EXCEPT !.addresses[a].primary = FALSE]
              = [rows EXCEPT !["addresses"] = cleared]
        BY <1>2
      <4> HIDE DEF cleared
      <4> QED
        BY <4>1, <4>2, <4>3
    <3> QED
      BY <1>12, <3>1, <3>2, <3>3
  <2> QED
    BY <1>4, <2>1
<1>13. DOMAIN rows.contacts = {1, 2}
  BY <1>2 DEF ContactsOk
<1> QED
  BY <1>6, <1>7, <1>8, <1>9, <1>10, <1>11, <1>12, <1>13, Zenon DEF PartiesNext

LEMMA NoPartyOk ==
  ASSUME NEW kind, rows = NoParty(kind), \A w \in Workers : requests[w] = Idle
  PROVE  PartiesInv
  BY DEF NoParty, PartiesInv, PartiesOk, ContactsOk, CrmCleared, Idle

\* PartiesInv implies the property of the contacts.
LEMMA OnePrimaryContactThen ==
  ASSUME rows.domain = "parties" => PartiesInv
  PROVE  OnePrimaryContact
<1> SUFFICES ASSUME rows.domain = "parties"
             PROVE  Cardinality({c \in DOMAIN rows.contacts : rows.contacts[c].primary}) <= 1
  BY DEF OnePrimaryContact
<1>1. \A c, d \in {c \in DOMAIN rows.contacts : rows.contacts[c].primary} : c = d
  BY DEF PartiesInv, PartiesOk, ContactsOk
<1> QED
  BY <1>1, AtMostOne

-----------------------------------------------------------------------------
(* staff: departments, the walk up from one, and who works there. *)

\* The departments there are.
Departments(db) == DOMAIN db.departments

\* The department right above d, if there is one.
Above(db, d) == {db.departments[d].parent} \ {0}

\* g is the walk up from department p, step by step.
IsWalk(g, db, p, n) ==
  g = [k \in 0..n |-> IF k = 0 THEN {p} \ {0}
                      ELSE g[k - 1] \cup ({db.departments[d].parent : d \in g[k - 1]} \ {0})]

LEMMA WalkExists ==
  ASSUME NEW db, NEW p
  PROVE  \A n \in Nat : \E g : IsWalk(g, db, p, n)
<1> DEFINE P == {n \in Nat : \E g : IsWalk(g, db, p, n)}
<1>1. 0 \in P
  <2>1. IsWalk([k \in 0..0 |-> {p} \ {0}], db, p, 0)
    BY DEF IsWalk
  <2> QED
    BY <2>1
<1>2. ASSUME NEW n \in Nat, n \in P PROVE n + 1 \in P
  <2>1. PICK g : IsWalk(g, db, p, n)
    BY <1>2
  <2> DEFINE next == g[n] \cup ({db.departments[d].parent : d \in g[n]} \ {0})
             h == [k \in 0..(n + 1) |-> IF k = n + 1 THEN next ELSE g[k]]
  <2>2. \A k \in 0..n : h[k] = g[k]
    OBVIOUS
  <2>3. h[n + 1] = next /\ h[n] = g[n]
    OBVIOUS
  <2>4. \A k \in 0..n : g[k] = IF k = 0 THEN {p} \ {0}
                         ELSE g[k - 1] \cup ({db.departments[d].parent : d \in g[k - 1]} \ {0})
    BY <2>1 DEF IsWalk
  <2>5. ASSUME NEW k \in 0..(n + 1)
        PROVE  h[k] = IF k = 0 THEN {p} \ {0}
                      ELSE h[k - 1] \cup ({db.departments[d].parent : d \in h[k - 1]} \ {0})
    <3>1. CASE k = n + 1
      <4>1. k # 0 /\ k - 1 = n
        BY <3>1
      <4> QED
        BY <2>3, <3>1, <4>1
    <3>2. CASE k # n + 1
      <4>1. k \in 0..n /\ (k # 0 => k - 1 \in 0..n)
        BY <3>2
      <4> HIDE DEF h
      <4> QED
        BY <2>2, <2>4, <4>1
    <3> QED
      BY <3>1, <3>2
  <2>6. h = [k \in 0..(n + 1) |-> h[k]]
    OBVIOUS
  <2> HIDE DEF h, next
  <2>7. IsWalk(h, db, p, n + 1)
    BY <2>5, <2>6 DEF IsWalk
  <2> QED
    BY <2>7
<1>3. Nat \subseteq P
  <2> HIDE DEF P
  <2> QED
    BY <1>1, <1>2, FromZero
<1> QED
  BY <1>3

\* Each of its first n steps adds what is right above.
Walks(g, db, p, n) ==
  \A k \in 0..n : g[k] = IF k = 0 THEN {p} \ {0}
                         ELSE g[k - 1] \cup UNION {Above(db, d) : d \in g[k - 1]}

\* UpFrom is where the walk ends, after as many steps as there are departments.
LEMMA UpFromWalk ==
  ASSUME NEW db, NEW p, IsFiniteSet(Departments(db))
  PROVE  \E g : /\ UpFrom(db, p) = g[Cardinality(Departments(db))]
                /\ Walks(g, db, p, Cardinality(Departments(db)))
<1> DEFINE N == Cardinality(Departments(db))
           g == CHOOSE f : IsWalk(f, db, p, N)
<1>1. N \in Nat
  BY FS_CardinalityType
<1>2. IsWalk(g, db, p, N)
  BY <1>1, WalkExists
<1>3. UpFrom(db, p) = g[N]
  BY DEF UpFrom, IsWalk, Departments
<1>4. \A S : {db.departments[d].parent : d \in S} \ {0} = UNION {Above(db, d) : d \in S}
  BY DEF Above
<1> HIDE DEF g
<1>5. \A k \in 0..N : g[k] = IF k = 0 THEN {p} \ {0}
                             ELSE g[k - 1] \cup ({db.departments[d].parent : d \in g[k - 1]} \ {0})
  BY <1>2 DEF IsWalk
<1>6. Walks(g, db, p, N)
  BY <1>4, <1>5 DEF Walks
<1> QED
  BY <1>3, <1>6

\* With each department of S, the one above it is in S.
ClosedUp(db, S) == \A d \in S : Above(db, d) \subseteq S

\* The walk stays in every such set it starts in,
LEMMA UpFromLeast ==
  ASSUME NEW db, IsFiniteSet(Departments(db)), NEW p, NEW S, {p} \ {0} \subseteq S, ClosedUp(db, S)
  PROVE  UpFrom(db, p) \subseteq S
<1> DEFINE N == Cardinality(Departments(db))
<1>1. N \in Nat
  BY FS_CardinalityType
<1>2. PICK g : UpFrom(db, p) = g[N] /\ Walks(g, db, p, N)
  BY UpFromWalk
<1> HIDE DEF N
<1> DEFINE P == {n \in Nat : n <= N => g[n] \subseteq S}
<1>3. 0 \in P
  <2>1. 0 \in 0..N
    BY <1>1
  <2>2. g[0] = {p} \ {0}
    BY <1>2, <2>1 DEF Walks
  <2> QED
    BY <2>2
<1>4. ASSUME NEW n \in Nat, n \in P PROVE n + 1 \in P
  <2> SUFFICES ASSUME n + 1 <= N PROVE g[n + 1] \subseteq S
    OBVIOUS
  <2>1. g[n] \subseteq S
    BY <1>1, <1>4
  <2>2. g[n + 1] = g[n] \cup UNION {Above(db, d) : d \in g[n]}
    <3>1. n + 1 \in 0..N /\ n + 1 # 0 /\ (n + 1) - 1 = n
      BY <1>1
    <3> QED
      BY <1>2, <3>1 DEF Walks
  <2>3. \A d \in g[n] : Above(db, d) \subseteq S
    BY <2>1 DEF ClosedUp
  <2> QED
    BY <2>1, <2>2, <2>3
<1>5. Nat \subseteq P
  <2> HIDE DEF P
  <2> QED
    BY <1>3, <1>4, FromZero
<1>6. N \in P
  BY <1>1, <1>5
<1> QED
  BY <1>1, <1>2, <1>6

\* Above departments there are only departments.
ParentsOk(db) ==
  IsFiniteSet(Departments(db)) /\ \A d \in Departments(db) : Above(db, d) \subseteq Departments(db)

\* and ends in one: with each step that does not, there is one department more,
\* and there are no more than the departments.
LEMMA UpFromClosed ==
  ASSUME NEW db, ParentsOk(db), NEW p \in {0} \cup Departments(db)
  PROVE  /\ {p} \ {0} \subseteq UpFrom(db, p) /\ UpFrom(db, p) \subseteq Departments(db)
         /\ ClosedUp(db, UpFrom(db, p))
<1> DEFINE D == Departments(db)
           N == Cardinality(D)
<1>1. IsFiniteSet(D) /\ N \in Nat /\ \A d \in D : Above(db, d) \subseteq D
  BY FS_CardinalityType DEF ParentsOk
<1>2. PICK g : UpFrom(db, p) = g[N] /\ Walks(g, db, p, N)
  BY <1>1, UpFromWalk
<1>3. \A S \in SUBSET D : IsFiniteSet(S) /\ Cardinality(S) <= N /\ (Cardinality(S) = N => S = D)
  BY <1>1, FS_Subset
<1>4. {p} \ {0} \subseteq D
  OBVIOUS
<1> HIDE DEF N, D
<1> DEFINE P == {n \in Nat : n <= N => /\ {p} \ {0} \subseteq g[n] /\ g[n] \subseteq D
                                       /\ ClosedUp(db, g[n]) \/ Cardinality(g[n]) >= n}
<1>5. 0 \in P
  <2>1. g[0] = {p} \ {0}
    <3>1. 0 \in 0..N
      BY <1>1
    <3> QED
      BY <1>2, <3>1 DEF Walks
  <2>2. Cardinality({p} \ {0}) \in Nat
    BY <1>3, <1>4, FS_CardinalityType
  <2> QED
    BY <1>4, <2>1, <2>2
<1>6. ASSUME NEW n \in Nat, n \in P PROVE n + 1 \in P
  <2> SUFFICES ASSUME n + 1 <= N
               PROVE  /\ {p} \ {0} \subseteq g[n + 1] /\ g[n + 1] \subseteq D
                      /\ ClosedUp(db, g[n + 1]) \/ Cardinality(g[n + 1]) >= n + 1
    OBVIOUS
  <2>1. /\ {p} \ {0} \subseteq g[n] /\ g[n] \subseteq D
        /\ ClosedUp(db, g[n]) \/ Cardinality(g[n]) >= n
    BY <1>1, <1>6
  <2>2. g[n + 1] = g[n] \cup UNION {Above(db, d) : d \in g[n]}
    <3>1. n + 1 \in 0..N /\ n + 1 # 0 /\ (n + 1) - 1 = n
      BY <1>1
    <3> QED
      BY <1>2, <3>1 DEF Walks
  <2>3. {p} \ {0} \subseteq g[n + 1] /\ g[n + 1] \subseteq D
    BY <1>1, <2>1, <2>2
  <2>4. CASE ClosedUp(db, g[n])
    <3>1. g[n + 1] = g[n]
      BY <2>2, <2>4 DEF ClosedUp
    <3> QED
      BY <2>3, <2>4, <3>1
  <2>5. CASE ~ ClosedUp(db, g[n])
    <3>1. PICK d \in g[n] : ~ (Above(db, d) \subseteq g[n])
      BY <2>5 DEF ClosedUp
    <3>2. PICK x \in g[n + 1] : x \notin g[n]
      BY <2>2, <3>1
    <3>3. IsFiniteSet(g[n]) /\ Cardinality(g[n]) \in Nat
      BY <1>3, <2>1, FS_CardinalityType
    <3>4. Cardinality(g[n] \cup {x}) = Cardinality(g[n]) + 1
      BY <3>2, <3>3, FS_AddElement
    <3>5. IsFiniteSet(g[n + 1]) /\ g[n] \cup {x} \subseteq g[n + 1]
      BY <1>3, <2>2, <2>3, <3>2
    <3>6. Cardinality(g[n] \cup {x}) <= Cardinality(g[n + 1]) /\ Cardinality(g[n + 1]) \in Nat
      BY <3>5, FS_Subset, FS_CardinalityType
    <3> QED
      BY <2>1, <2>3, <2>5, <3>3, <3>4, <3>6
  <2> QED
    BY <2>4, <2>5
<1>7. Nat \subseteq P
  <2> HIDE DEF P
  <2> QED
    BY <1>5, <1>6, FromZero
<1>8. N \in P
  BY <1>1, <1>7
<1>9. /\ {p} \ {0} \subseteq g[N] /\ g[N] \subseteq D
      /\ ClosedUp(db, g[N]) \/ Cardinality(g[N]) >= N
  BY <1>1, <1>8
<1>10. CASE ClosedUp(db, g[N])
  BY <1>2, <1>9, <1>10 DEF D
<1>11. CASE Cardinality(g[N]) >= N
  <2>1. Cardinality(g[N]) <= N /\ IsFiniteSet(g[N]) /\ (Cardinality(g[N]) = N => g[N] = D)
    BY <1>3, <1>9
  <2>2. Cardinality(g[N]) \in Nat
    BY <2>1, FS_CardinalityType
  <2>3. g[N] = D
    BY <1>1, <1>11, <2>1, <2>2
  <2> QED
    BY <1>1, <1>2, <1>9, <2>3 DEF ClosedUp, D
<1> QED
  BY <1>9, <1>10, <1>11

\* No department is above itself.
NoneAbove(db) == \A d \in Departments(db) : d \notin UpFrom(db, db.departments[d].parent)

\* A department that p is not below can be put below p, and others at the top.
LEMMA StaysOrdered ==
  ASSUME NEW db, NEW new, ParentsOk(db), NoneAbove(db), 0 \notin Departments(db),
         Departments(new) = Departments(db),
         NEW e \in Departments(db), NEW p \in {0} \cup Departments(db), e \notin UpFrom(db, p),
         \A d \in Departments(db) \ {e} : Above(new, d) \subseteq Above(db, d),
         Above(new, e) \subseteq {p} \ {0}
  PROVE  ParentsOk(new) /\ NoneAbove(new)
<1> DEFINE D == Departments(db)
           M == UpFrom(db, p)
           U(d) == UpFrom(db, db.departments[d].parent)
<1>1. {p} \ {0} \subseteq M /\ M \subseteq D /\ ClosedUp(db, M) /\ e \notin M
  BY UpFromClosed
<1>2. ASSUME NEW d \in D
      PROVE  Above(db, d) \subseteq U(d) /\ U(d) \subseteq D /\ ClosedUp(db, U(d)) /\ d \notin U(d)
  <2>1. db.departments[d].parent \in {0} \cup D
    BY DEF ParentsOk, Above
  <2> DEFINE q == db.departments[d].parent
  <2>2. {q} \ {0} \subseteq UpFrom(db, q) /\ UpFrom(db, q) \subseteq D /\ ClosedUp(db, UpFrom(db, q))
    <3> HIDE DEF q
    <3> QED
      BY <2>1, UpFromClosed DEF q
  <2>3. d \notin UpFrom(db, q)
    BY DEF NoneAbove
  <2> QED
    BY <2>2, <2>3 DEF Above
<1>3. ParentsOk(new)
  BY <1>1, <1>2 DEF ParentsOk
<1> HIDE DEF M, U
<1> SUFFICES ASSUME NEW d \in D PROVE d \notin UpFrom(new, new.departments[d].parent)
  BY <1>3 DEF NoneAbove
<1>4. IsFiniteSet(Departments(new))
  BY <1>3 DEF ParentsOk
<1>5. ASSUME NEW S, Above(new, d) \subseteq S, ClosedUp(new, S), d \notin S
      PROVE  d \notin UpFrom(new, new.departments[d].parent)
  <2>1. {new.departments[d].parent} \ {0} \subseteq S
    BY <1>5 DEF Above
  <2>2. UpFrom(new, new.departments[d].parent) \subseteq S
    BY <1>4, <1>5, <2>1, UpFromLeast
  <2> QED
    BY <1>5, <2>2
<1>6. CASE d = e
  <2>1. ClosedUp(new, M)
    BY <1>1 DEF ClosedUp
  <2> QED
    BY <1>1, <1>5, <1>6, <2>1
<1>7. CASE d # e /\ e \notin U(d)
  <2>1. ClosedUp(new, U(d)) /\ Above(new, d) \subseteq U(d)
    BY <1>2, <1>7 DEF ClosedUp
  <2> QED
    BY <1>2, <1>5, <2>1
<1>8. CASE d # e /\ e \in U(d)
  <2>1. d \notin M
    <3>1. ASSUME d \in M PROVE FALSE
      <4>1. {db.departments[d].parent} \ {0} \subseteq M
        BY <1>1, <3>1 DEF ClosedUp, Above
      <4>2. U(d) \subseteq M
        BY <1>1, <4>1, UpFromLeast DEF U, ParentsOk
      <4> QED
        BY <1>1, <1>8, <4>2
    <3> QED
      BY <3>1
  <2>2. ClosedUp(new, U(d) \cup M)
    BY <1>1, <1>2 DEF ClosedUp
  <2> QED
    BY <1>2, <1>5, <1>8, <2>1, <2>2
<1> QED
  BY <1>6, <1>7, <1>8

\* The tables of the domain.
StaffShape(db) ==
  /\ DOMAIN db = {"domain", "departments", "positions", "employees"}
  /\ IsFiniteSet(Departments(db)) /\ 0 \notin Departments(db)
  /\ \A d \in Departments(db) : DOMAIN db.departments[d] = {"status", "parent"}
  /\ \A e \in DOMAIN db.employees : DOMAIN db.employees[e] = {"status", "department", "manager"}

\* What is above a department, and where somebody works, exists.
StaffRefers(db) ==
  /\ \A d \in Departments(db) : db.departments[d].parent \in {0} \cup Existing(db)
  /\ \A e \in Employed(db) : db.employees[e].department \in {0} \cup Existing(db)

StaffOk(db) == StaffShape(db) /\ StaffRefers(db) /\ NoneAbove(db)

LEMMA StaffParents ==
  ASSUME NEW db, StaffShape(db), StaffRefers(db)
  PROVE  ParentsOk(db)
  BY DEF StaffShape, StaffRefers, ParentsOk, Above, Existing, Departments

\* Whether departments are ordered only depends on the departments.
LEMMA SameDepartments ==
  ASSUME NEW db, NEW new, new.departments = db.departments
  PROVE  /\ Existing(new) = Existing(db) /\ Departments(new) = Departments(db)
         /\ NoneAbove(new) <=> NoneAbove(db)
<1>1. \A p : UpFrom(new, p) = UpFrom(db, p)
  BY DEF UpFrom
<1> QED
  BY <1>1 DEF Existing, Departments, NoneAbove

\* Every step about the staff, when the request has read the rows as they are,
\* preserves StaffOk.
LEMMA StaffStep ==
  ASSUME StaffOk(rows), NEW w \in Workers, requests[w].pc = "read" => Seen(w) = rows,
         StaffNext(w)
  PROVE  StaffOk(rows')
<1> DEFINE D == Departments(rows)
<1>1. /\ StaffShape(rows) /\ StaffRefers(rows) /\ NoneAbove(rows) /\ ParentsOk(rows)
      /\ IsFiniteSet(D) /\ 0 \notin D /\ Existing(rows) \subseteq D
      /\ DOMAIN rows = {"domain", "departments", "positions", "employees"}
  BY StaffParents DEF StaffOk, StaffShape, Existing, Departments
\* The walk up from a department that exists, or from none, is among those.
<1>2. \A p \in {0} \cup Existing(rows) : UpFrom(rows, p) \subseteq Existing(rows)
  <2>1. ClosedUp(rows, Existing(rows))
    BY <1>1 DEF ClosedUp, Above, StaffRefers
  <2> QED
    BY <1>1, <2>1, UpFromLeast
\* What is written to one department that exists afterwards.
<1>3. ASSUME NEW d \in D, NEW p \in {0} \cup Existing(rows), d \notin UpFrom(rows, p),
             rows' = [rows EXCEPT !.departments[d] = [status |-> "ACTIVE", parent |-> p]]
      PROVE  StaffOk(rows')
  <2>1. /\ DOMAIN rows' = DOMAIN rows /\ rows'.employees = rows.employees
        /\ Departments(rows') = D
        /\ rows'.departments[d] = [status |-> "ACTIVE", parent |-> p]
        /\ \A c \in D : c # d => rows'.departments[c] = rows.departments[c]
    BY <1>1, <1>3 DEF Departments
  <2>2. StaffShape(rows')
    BY <1>1, <2>1 DEF StaffShape
  <2>3. Existing(rows) \subseteq Existing(rows')
    BY <2>1 DEF Existing, Departments
  <2>4. StaffRefers(rows')
    BY <1>1, <1>3, <2>1, <2>3 DEF StaffRefers, Employed
  <2>5. \A c \in D \ {d} : Above(rows', c) \subseteq Above(rows, c)
    BY <2>1 DEF Above
  <2>6. Above(rows', d) \subseteq {p} \ {0}
    BY <2>1 DEF Above
  <2>7. p \in {0} \cup D
    BY <1>1
  <2>8. NoneAbove(rows')
    BY <1>1, <1>3, <2>1, <2>5, <2>6, <2>7, StaysOrdered
  <2> QED
    BY <2>2, <2>4, <2>8 DEF StaffOk
<1>4. ASSUME NEW d \in D, CreateDepartment(w, d) PROVE StaffOk(rows')
  <2>1. PICK p \in {0} \cup Existing(rows) :
          /\ rows.departments[d].status = "NONE"
          /\ rows' = [rows EXCEPT !.departments[d] = [status |-> "ACTIVE", parent |-> p]]
    BY <1>4 DEF CreateDepartment, Creates, At, Commit
  <2>2. d \notin UpFrom(rows, p)
    BY <1>2, <2>1 DEF Existing
  <2> QED
    BY <1>3, <2>1, <2>2
<1>5. ASSUME NEW d \in D, UpdateDepartment(w, d) PROVE StaffOk(rows')
  <2>1. PICK p \in {0} \cup Existing(rows) :
          /\ rows.departments[d].status = "ACTIVE" /\ d \notin UpFrom(rows, p)
          /\ rows' = [rows EXCEPT !.departments[d].parent = p]
    BY <1>5 DEF UpdateDepartment, Changes, NotAbove, At, Commit
  <2>2. rows' = [rows EXCEPT !.departments[d] = [status |-> "ACTIVE", parent |-> p]]
    BY <1>1, <2>1 DEF StaffShape, Departments
  <2> QED
    BY <1>3, <2>1, <2>2
<1>6. ASSUME NEW d \in D, DeleteDepartment(w, d) PROVE StaffOk(rows')
  <2> DEFINE Without(table) == [r \in DOMAIN table |->
                                  [table[r] EXCEPT !.department = IF @ = d THEN 0 ELSE @]]
             departments == [c \in DOMAIN rows.departments |-> IF c = d THEN [status |-> "DELETED", parent |-> 0]
                               ELSE [status |-> rows.departments[c].status,
                                     parent |-> IF rows.departments[c].parent = d THEN 0
                                                ELSE rows.departments[c].parent]]
             positions == Without(rows.positions)
             employees == Without(rows.employees)
  <2>1. Seen(w) = rows
    BY <1>6 DEF DeleteDepartment, Changes, At
  <2>13. \A e \in Employed(rows) : rows.employees[e].department # d
    BY <1>6, <2>1 DEF DeleteDepartment, Employed
  <2>14. rows' = [rows EXCEPT !.departments = departments, !.positions = positions,
                             !.employees = employees]
    BY <1>6 DEF DeleteDepartment, Commit
  <2>2. rows' = [[[rows EXCEPT !.departments = departments] EXCEPT !.positions = positions]
                  EXCEPT !.employees = employees]
    BY <2>14
  <2>3. /\ DOMAIN departments = D /\ departments[d] = [status |-> "DELETED", parent |-> 0]
        /\ \A c \in D : DOMAIN departments[c] = {"status", "parent"}
        /\ \A c \in D : c # d =>
             /\ departments[c].status = rows.departments[c].status
             /\ departments[c].parent = IF rows.departments[c].parent = d THEN 0
                                        ELSE rows.departments[c].parent
    BY <1>1 DEF StaffShape, Departments
  <2>4. /\ DOMAIN employees = DOMAIN rows.employees
        /\ \A e \in DOMAIN rows.employees :
             /\ DOMAIN employees[e] = {"status", "department", "manager"}
             /\ employees[e].status = rows.employees[e].status
             /\ employees[e].department = IF rows.employees[e].department = d THEN 0
                                          ELSE rows.employees[e].department
    BY <1>1 DEF StaffShape
  <2> HIDE DEF departments, positions, employees
  <2>5. /\ DOMAIN rows' = DOMAIN rows /\ rows'.departments = departments
        /\ rows'.employees = employees /\ Departments(rows') = D
    BY <1>1, <2>2, <2>3 DEF Departments
  <2>6. StaffShape(rows')
    BY <1>1, <2>3, <2>4, <2>5 DEF StaffShape
  <2>7. Existing(rows) \ {d} \subseteq Existing(rows')
    BY <2>3, <2>5 DEF Existing, Departments
  <2>8. StaffRefers(rows')
    <3>1. \A c \in D : rows'.departments[c].parent \in {0} \cup Existing(rows')
      BY <1>1, <2>3, <2>5, <2>7 DEF StaffRefers
    <3>2. \A e \in Employed(rows') : rows'.employees[e].department \in {0} \cup Existing(rows')
      BY <1>1, <2>4, <2>5, <2>7, <2>13 DEF StaffRefers, Employed
    <3> QED
      BY <2>5, <3>1, <3>2 DEF StaffRefers
  <2>9. \A c \in D \ {d} : Above(rows', c) \subseteq Above(rows, c)
    BY <2>3, <2>5 DEF Above
  <2>10. Above(rows', d) \subseteq {0} \ {0}
    BY <2>3, <2>5 DEF Above
  <2>11. d \notin UpFrom(rows, 0)
    <3>1. ClosedUp(rows, {})
      BY DEF ClosedUp
    <3>2. UpFrom(rows, 0) \subseteq {}
      BY <1>1, <3>1, UpFromLeast
    <3> QED
      BY <3>2
  <2>12. NoneAbove(rows')
    BY <1>1, <2>5, <2>9, <2>10, <2>11, StaysOrdered
  <2> QED
    BY <2>6, <2>8, <2>12 DEF StaffOk
\* What is written to other tables.
<1>7. ASSUME DOMAIN rows' = DOMAIN rows, rows'.departments = rows.departments,
             \A e \in DOMAIN rows'.employees : DOMAIN rows'.employees[e] = {"status", "department", "manager"},
             \A e \in Employed(rows') : rows'.employees[e].department \in {0} \cup Existing(rows)
      PROVE  StaffOk(rows')
  BY <1>1, <1>7, SameDepartments DEF StaffOk, StaffShape, StaffRefers
<1>8. ASSUME NEW j, CreatePosition(w, j) \/ UpdatePosition(w, j) \/ DeletePosition(w, j)
      PROVE  StaffOk(rows')
  <2>1. \/ \E position : rows' = [rows EXCEPT !.positions[j] = position]
        \/ \E d : rows' = [rows EXCEPT !.positions[j].department = d]
        \/ rows' = [rows EXCEPT !.positions[j].status = "DELETED"]
    BY <1>8 DEF CreatePosition, UpdatePosition, DeletePosition, SetStatus, Commit
  <2>2. /\ DOMAIN rows' = DOMAIN rows /\ rows'.departments = rows.departments
        /\ rows'.employees = rows.employees
    BY <1>1, <2>1
  <2> QED
    BY <1>1, <1>7, <2>2 DEF StaffShape, StaffRefers, Employed
<1>9. ASSUME NEW e \in DOMAIN rows.employees, NEW employee,
             DOMAIN employee = {"status", "department", "manager"},
             employee.status = "ACTIVE" => employee.department \in {0} \cup Existing(rows),
             rows' = [rows EXCEPT !.employees[e] = employee]
      PROVE  StaffOk(rows')
  <2>1. /\ DOMAIN rows' = DOMAIN rows /\ rows'.departments = rows.departments
        /\ DOMAIN rows'.employees = DOMAIN rows.employees
        /\ rows'.employees[e] = employee
        /\ \A f \in DOMAIN rows.employees : f # e => rows'.employees[f] = rows.employees[f]
    BY <1>1, <1>9
  <2>2. \A f \in DOMAIN rows'.employees : DOMAIN rows'.employees[f] = {"status", "department", "manager"}
    BY <1>1, <1>9, <2>1 DEF StaffShape
  <2>3. \A f \in Employed(rows') : rows'.employees[f].department \in {0} \cup Existing(rows)
    BY <1>1, <1>9, <2>1 DEF StaffRefers, Employed
  <2> QED
    BY <1>7, <2>1, <2>2, <2>3
<1>10. ASSUME NEW e \in DOMAIN rows.employees, CreateEmployee(w, e) PROVE StaffOk(rows')
  <2>1. PICK d \in {0} \cup Existing(rows), m \in {0} \cup Employed(rows) :
          rows' = [rows EXCEPT !.employees[e] = [status |-> "ACTIVE", department |-> d, manager |-> m]]
    BY <1>10 DEF CreateEmployee, Creates, At, Commit
  <2> DEFINE employee == [status |-> "ACTIVE", department |-> d, manager |-> m]
  <2>2. DOMAIN employee = {"status", "department", "manager"} /\ employee.department \in {0} \cup Existing(rows)
    OBVIOUS
  <2>3. rows' = [rows EXCEPT !.employees[e] = employee]
    BY <2>1
  <2> HIDE DEF employee
  <2> QED
    BY <1>9, <2>2, <2>3
<1>11. ASSUME NEW e \in DOMAIN rows.employees, UpdateEmployee(w, e) PROVE StaffOk(rows')
  <2>1. PICK d \in {0} \cup Existing(rows),
             m \in {0, Seen(w).employees[e].manager} \cup (Employed(Seen(w)) \ {e}) :
          Commit(w, [rows EXCEPT !.employees[e].department = d, !.employees[e].manager = m])
    BY <1>11, Zenon DEF UpdateEmployee
  <2> DEFINE employee == [status |-> rows.employees[e].status, department |-> d, manager |-> m]
  <2>2. DOMAIN rows.employees[e] = {"status", "department", "manager"}
    BY <1>1 DEF StaffShape
  <2>3. rows' = [[rows EXCEPT !.employees[e].department = d] EXCEPT !.employees[e].manager = m]
    BY <2>1 DEF Commit
  <2>4. [[rows.employees[e] EXCEPT !.department = d] EXCEPT !.manager = m] = employee
    <3>1. [rows.employees[e] EXCEPT !.department = d]
            = [status |-> rows.employees[e].status, department |-> d, manager |-> rows.employees[e].manager]
      BY <2>2
    <3>2. [[status |-> rows.employees[e].status, department |-> d, manager |-> rows.employees[e].manager]
            EXCEPT !.manager = m] = employee
      OBVIOUS
    <3> QED
      BY <3>1, <3>2
  <2>5. rows' = [rows EXCEPT !.employees[e] =
                   [[rows.employees[e] EXCEPT !.department = d] EXCEPT !.manager = m]]
    BY <1>1, <2>3
  <2>6. DOMAIN employee = {"status", "department", "manager"} /\ employee.department \in {0} \cup Existing(rows)
    OBVIOUS
  <2>7. rows' = [rows EXCEPT !.employees[e] = employee]
    BY <2>4, <2>5
  <2> HIDE DEF employee
  <2> QED
    BY <1>9, <2>6, <2>7
<1>12. ASSUME NEW e \in DOMAIN rows.employees, DeleteEmployee(w, e) PROVE StaffOk(rows')
  <2> DEFINE employee == [status |-> "DELETED", department |-> rows.employees[e].department,
                          manager |-> rows.employees[e].manager]
  <2>1. DOMAIN rows.employees[e] = {"status", "department", "manager"}
    BY <1>1 DEF StaffShape
  <2>2. rows' = [rows EXCEPT !.employees[e].status = "DELETED"]
    BY <1>12 DEF DeleteEmployee, SetStatus, Commit
  <2>3. [rows.employees[e] EXCEPT !.status = "DELETED"] = employee
    BY <2>1
  <2>4. rows' = [rows EXCEPT !.employees[e] = [rows.employees[e] EXCEPT !.status = "DELETED"]]
    BY <1>1, <2>2
  <2>5. rows' = [rows EXCEPT !.employees[e] = employee]
    BY <2>3, <2>4
  <2>6. DOMAIN employee = {"status", "department", "manager"} /\ employee.status # "ACTIVE"
    OBVIOUS
  <2> HIDE DEF employee
  <2> QED
    BY <1>9, <2>5, <2>6
<1>13. DOMAIN rows.departments = D
  BY DEF Departments
<1> QED
  BY <1>4, <1>5, <1>6, <1>8, <1>10, <1>11, <1>12, <1>13, Zenon DEF StaffNext

LEMMA NoStaffOk ==
  ASSUME NEW departments, NEW employees, IsFiniteSet(departments), 0 \notin departments
  PROVE  StaffOk(NoStaff(departments, employees))
<1> DEFINE db == NoStaff(departments, employees)
<1>1. /\ StaffShape(db) /\ StaffRefers(db) /\ Departments(db) = departments
      /\ \A d \in departments : db.departments[d].parent = 0
  BY DEF NoStaff, StaffShape, StaffRefers, Departments, Employed
<1>2. ClosedUp(db, {}) /\ IsFiniteSet(Departments(db))
  BY <1>1 DEF ClosedUp
<1> HIDE DEF db
<1>3. UpFrom(db, 0) \subseteq {}
  BY <1>2, UpFromLeast
<1> QED
  BY <1>1, <1>3 DEF StaffOk, NoneAbove, db

\* StaffOk implies the property of the staff.
LEMMA DepartmentsAreOrderedThen ==
  ASSUME rows.domain = "staff" => StaffOk(rows)
  PROVE  DepartmentsAreOrdered
  BY DEF DepartmentsAreOrdered, StaffOk, StaffRefers, NoneAbove, Existing, Departments

-----------------------------------------------------------------------------
(* subscriptions and billing: what an organization subscribes to and owes. *)

\* The tables of the domain.
SubscriptionsShape(db) ==
  /\ DOMAIN db = {"domain", "provider", "event", "subscriptions"}
  /\ DOMAIN db.subscriptions = {1, 2}
  /\ \A s \in {1, 2} : DOMAIN db.subscriptions[s] = {"status", "cancelled"}

\* One subscription is current, and one that was cancelled is not.
SubscriptionsOk(subscriptions) ==
  /\ \A s, t \in {1, 2} :
       subscriptions[s].status \in Current /\ subscriptions[t].status \in Current => s = t
  /\ \A s \in {1, 2} : subscriptions[s].cancelled => subscriptions[s].status = "CANCELLED"

\* A provider that is silent has sent no event.
SubscriptionsInv ==
  /\ SubscriptionsShape(rows)
  /\ ~ rows.provider => /\ SubscriptionsOk(rows.subscriptions)
                        /\ \A w \in Workers : requests[w].pc \notin {"received", "dispatched"}

\* A request that starts or ends without a write.
LEMMA SubscriptionsStay ==
  ASSUME SubscriptionsInv, rows' = rows,
         \A v \in Workers : requests'[v] = requests[v] \/ requests'[v].pc \in {"idle", "read"}
  PROVE  SubscriptionsInv'
  BY DEF SubscriptionsInv

\* Every step about the subscriptions, when the request has read the rows as
\* they are, preserves SubscriptionsInv.
LEMMA SubscriptionsStep ==
  ASSUME SubscriptionsInv, NEW w \in Workers, SubscriptionsNext(w),
         requests[w].pc = "read" => Seen(w) = rows,
         requests' = [requests EXCEPT ![w] = requests'[w]],
         requests = [v \in Workers |-> requests[v]]
  PROVE  SubscriptionsInv'
<1>1. /\ SubscriptionsShape(rows) /\ DOMAIN rows = {"domain", "provider", "event", "subscriptions"}
      /\ DOMAIN rows.subscriptions = {1, 2}
      /\ \A s \in {1, 2} : DOMAIN rows.subscriptions[s] = {"status", "cancelled"}
  BY DEF SubscriptionsInv, SubscriptionsShape
<1>2. \A v \in Workers : v # w => requests'[v] = requests[v]
  OBVIOUS
\* What is written about one subscription.
<1>3. ASSUME NEW s \in {1, 2}, NEW new, DOMAIN new = {"status", "cancelled"},
             rows' = [rows EXCEPT !.subscriptions[s] = new],
             ~ rows.provider =>
               /\ requests'[w].pc = "idle"
               /\ new.status \in Current => /\ ~ rows.subscriptions[s].cancelled /\ ~ new.cancelled
                                            /\ \A t \in {1, 2} : t # s => rows.subscriptions[t].status \notin Current
               /\ new.cancelled => new.status = "CANCELLED"
      PROVE  SubscriptionsInv'
  <2>1. /\ DOMAIN rows' = DOMAIN rows /\ DOMAIN rows'.subscriptions = {1, 2}
        /\ rows'.provider = rows.provider
        /\ rows'.subscriptions[s] = new
        /\ \A t \in {1, 2} : t # s => rows'.subscriptions[t] = rows.subscriptions[t]
    BY <1>1, <1>3
  <2>2. SubscriptionsShape(rows')
    BY <1>1, <1>3, <2>1 DEF SubscriptionsShape
  <2>3. ~ rows.provider => SubscriptionsOk(rows'.subscriptions)
    BY <1>3, <2>1 DEF SubscriptionsInv, SubscriptionsOk
  <2> QED
    BY <1>2, <1>3, <2>1, <2>2, <2>3 DEF SubscriptionsInv
<1>4. ASSUME NEW s \in {1, 2}, NEW to \in Current,
             rows' = [rows EXCEPT !.subscriptions[s].status = to], requests'[w].pc = "idle",
             \/ rows.subscriptions[s].status \in Current
             \/ /\ rows.subscriptions[s].status = "NONE"
                /\ \A t \in {1, 2} : rows.subscriptions[t].status \notin Current
      PROVE  SubscriptionsInv'
  <2> DEFINE new == [status |-> to, cancelled |-> rows.subscriptions[s].cancelled]
  <2>1. [rows.subscriptions[s] EXCEPT !.status = to] = new
    BY <1>1
  <2>2. rows' = [rows EXCEPT !.subscriptions[s] = new]
    BY <1>1, <1>4, <2>1
  <2>3. ~ rows.provider => ~ rows.subscriptions[s].cancelled
    BY <1>4 DEF SubscriptionsInv, SubscriptionsOk, Current
  <2>4. ~ rows.provider => \A t \in {1, 2} : t # s => rows.subscriptions[t].status \notin Current
    BY <1>4 DEF SubscriptionsInv, SubscriptionsOk
  <2>5. /\ DOMAIN new = {"status", "cancelled"} /\ new.status = to
        /\ new.cancelled => rows.subscriptions[s].cancelled
    OBVIOUS
  <2> HIDE DEF new
  <2> QED
    BY <1>3, <1>4, <2>2, <2>3, <2>4, <2>5
<1>5. ASSUME NEW s \in {1, 2}, CreateSubscription(w, s) PROVE SubscriptionsInv'
  <2>1. /\ rows.subscriptions[s].status = "NONE" /\ ActiveSubscriptions(rows) = {}
        /\ requests'[w].pc = "idle"
        /\ \E status \in {"TRIALING", "ACTIVE"} :
             rows' = [rows EXCEPT !.subscriptions[s].status = status]
    BY <1>5 DEF CreateSubscription, Creates, Commit, Idle, At
  <2>2. \A t \in {1, 2} : rows.subscriptions[t].status \notin Current
    BY <2>1 DEF ActiveSubscriptions
  <2>3. "TRIALING" \in Current /\ "ACTIVE" \in Current
    BY DEF Current
  <2> QED
    BY <1>4, <2>1, <2>2, <2>3
<1>6. ASSUME NEW s \in {1, 2},
             \/ UpgradeSubscription(w, s) \/ PauseSubscription(w, s) \/ ResumeSubscription(w, s)
      PROVE  SubscriptionsInv'
  <2>1. ASSUME NEW from, NEW to \in Current, from \subseteq Current,
               SetStatus(w, "subscriptions", s, from, to)
        PROVE  SubscriptionsInv'
    <3>1. /\ rows.subscriptions[s].status \in Current /\ requests'[w].pc = "idle"
          /\ rows' = [rows EXCEPT !.subscriptions[s].status = to]
      BY <2>1 DEF SetStatus, Changes, Commit, Idle, At
    <3> QED
      BY <1>4, <2>1, <3>1
  <2>2. {"TRIALING", "ACTIVE", "PAUSED"} \subseteq Current /\ {"PAUSED"} \subseteq Current
        /\ "ACTIVE" \in Current /\ "PAUSED" \in Current
    BY DEF Current
  <2>3. CASE UpgradeSubscription(w, s)
    BY <2>1, <2>2, <2>3 DEF UpgradeSubscription
  <2>4. CASE PauseSubscription(w, s)
    BY <2>1, <2>2, <2>4 DEF PauseSubscription
  <2>5. CASE ResumeSubscription(w, s)
    BY <2>1, <2>2, <2>5 DEF ResumeSubscription
  <2> QED
    BY <1>6, <2>3, <2>4, <2>5
<1>7. ASSUME NEW s \in {1, 2}, CancelSubscription(w, s) PROVE SubscriptionsInv'
  <2> DEFINE new == [status |-> "CANCELLED", cancelled |-> TRUE]
  <2>1. rows' = [rows EXCEPT !.subscriptions[s] = new] /\ requests'[w].pc = "idle"
    BY <1>7 DEF CancelSubscription, Commit, Idle
  <2>2. DOMAIN new = {"status", "cancelled"} /\ new.status = "CANCELLED"
    OBVIOUS
  <2>3. "CANCELLED" \notin Current
    BY DEF Current
  <2> HIDE DEF new
  <2> QED
    BY <1>3, <2>1, <2>2, <2>3
<1>8. ASSUME NEW s \in {1, 2}, NEW kind, TellSubscription(w, s, kind) PROVE SubscriptionsInv'
  <2>1. /\ rows' = [rows EXCEPT !.subscriptions[s].status = kind,
                                !.subscriptions[s].cancelled = @ \/ kind = "CANCELLED"]
        /\ requests[w].pc = "received"
    BY <1>8 DEF TellSubscription, Continue, Resumes, At
  <2>2. rows.provider
    BY <2>1 DEF SubscriptionsInv
  <2>3. PICK cancelled : rows' = [[rows EXCEPT !.subscriptions[s].status = kind]
                                    EXCEPT !.subscriptions[s].cancelled = cancelled]
    BY <2>1, Zenon
  <2> DEFINE new == [status |-> kind, cancelled |-> cancelled]
  <2>4. rows' = [rows EXCEPT !.subscriptions[s] = new]
    <3> DEFINE mid == [rows EXCEPT !.subscriptions[s].status = kind]
    <3>1. /\ mid.subscriptions = [rows.subscriptions EXCEPT ![s].status = kind]
          /\ DOMAIN mid = DOMAIN rows
          /\ \A f \in DOMAIN rows : f # "subscriptions" => mid[f] = rows[f]
      BY <1>1
    <3>2. /\ DOMAIN mid.subscriptions = {1, 2} /\ mid.subscriptions[s].status = kind
          /\ DOMAIN mid.subscriptions[s] = {"status", "cancelled"}
          /\ \A t \in {1, 2} : t # s => mid.subscriptions[t] = rows.subscriptions[t]
      BY <1>1, <3>1
    <3>3. rows' = [mid EXCEPT !.subscriptions[s].cancelled = cancelled]
      BY <2>3
    <3> HIDE DEF mid
    <3>4. [mid.subscriptions[s] EXCEPT !.cancelled = cancelled] = new
      BY <3>2
    <3>5. rows' = [mid EXCEPT !.subscriptions[s] = new]
      BY <1>1, <3>1, <3>2, <3>3, <3>4
    <3> HIDE DEF new
    <3>6. [mid.subscriptions EXCEPT ![s] = new] = [rows.subscriptions EXCEPT ![s] = new]
      BY <1>1, <3>2
    <3>7. rows' = [rows EXCEPT !.subscriptions = [mid.subscriptions EXCEPT ![s] = new]]
      BY <1>1, <3>1, <3>5
    <3> QED
      BY <1>1, <3>6, <3>7
  <2>5. DOMAIN new = {"status", "cancelled"}
    OBVIOUS
  <2> HIDE DEF new
  <2> QED
    BY <1>3, <2>2, <2>4, <2>5
\* What is written about the event alone.
<1>9. ASSUME NEW event, rows' = [rows EXCEPT !.event = event] \/ rows' = rows,
             rows.provider \/ requests'[w].pc = "idle"
      PROVE  SubscriptionsInv'
  <2>1. /\ DOMAIN rows' = DOMAIN rows /\ rows'.subscriptions = rows.subscriptions
        /\ rows'.provider = rows.provider
    BY <1>1, <1>9
  <2>2. SubscriptionsShape(rows')
    BY <1>1, <2>1 DEF SubscriptionsShape
  <2> QED
    BY <1>2, <1>9, <2>1, <2>2 DEF SubscriptionsInv
<1>10. ASSUME rows.provider, ReceiveEvent(w, SubscriptionEvents) PROVE SubscriptionsInv'
  <2>1. PICK kind :
          Continue(w, IF rows.event.status = "NONE"
                      THEN [rows EXCEPT !.event = [status |-> "RECEIVED", kind |-> kind]]
                      ELSE rows, "received", kind)
    BY <1>10, Zenon DEF ReceiveEvent
  <2>2. rows' = rows \/ rows' = [rows EXCEPT !.event = [status |-> "RECEIVED", kind |-> kind]]
    BY <2>1 DEF Continue
  <2> QED
    BY <1>9, <1>10, <2>2
<1>11. ASSUME NEW kind, FinishEvent(w, kind) \/ FailEvent(w, kind) PROVE SubscriptionsInv'
  <2>1. PICK status : rows' = [rows EXCEPT !.event.status = status] /\ requests'[w].pc = "idle"
    BY <1>11 DEF FinishEvent, FailEvent, Commit, Idle
  <2>2. rows' = [rows EXCEPT !.event = [rows.event EXCEPT !.status = status]]
    BY <1>1, <2>1
  <2> QED
    BY <1>9, <2>1, <2>2
<1> QED
  BY <1>1, <1>5, <1>6, <1>7, <1>8, <1>10, <1>11 DEF SubscriptionsNext

LEMMA NoSubscriptionsOk ==
  ASSUME NEW b, rows = NoSubscriptions(b), \A w \in Workers : requests[w] = Idle
  PROVE  SubscriptionsInv
<1>1. SubscriptionsShape(rows)
  BY DEF NoSubscriptions, SubscriptionsShape
<1>2. \A s \in {1, 2} : rows.subscriptions[s].status = "NONE" /\ ~ rows.subscriptions[s].cancelled
  BY DEF NoSubscriptions
<1>3. "NONE" \notin Current
  BY DEF Current
<1> QED
  BY <1>1, <1>2, <1>3 DEF SubscriptionsInv, SubscriptionsOk, Idle

\* SubscriptionsInv implies what is said about subscriptions.
LEMMA OneSubscriptionThen ==
  ASSUME SubscriptionsInv, ~ rows.provider
  PROVE  /\ Cardinality(ActiveSubscriptions(rows)) <= 1
         /\ \A s \in {1, 2} :
              rows.subscriptions[s].cancelled => rows.subscriptions[s].status = "CANCELLED"
<1>1. SubscriptionsOk(rows.subscriptions)
  BY DEF SubscriptionsInv
<1>2. \A s, t \in ActiveSubscriptions(rows) : s = t
  BY <1>1 DEF ActiveSubscriptions, SubscriptionsOk
<1>3. Cardinality(ActiveSubscriptions(rows)) <= 1
  BY <1>2, AtMostOne
<1> QED
  BY <1>1, <1>3 DEF SubscriptionsOk

\* The tables of the domain.
BillingShape(db) ==
  /\ DOMAIN db = {"domain", "event", "credit", "consumed", "invoice", "received", "quota", "usage"}
  /\ DOMAIN db.invoice = {"status", "total", "credit", "paid", "due"}
  /\ DOMAIN db.quota = {"limit", "used"} /\ DOMAIN db.usage = {1, 2}

\* The credit of the organization.
CreditOk(credit, consumed) == credit \in Nat /\ consumed \in Nat /\ consumed <= credit

\* The invoice, when received was paid of it and consumed of the credit.
InvoiceAddsUp(invoice, received, consumed) ==
  /\ invoice.total \in Nat /\ invoice.credit \in Nat /\ invoice.due \in Nat /\ received \in Nat
  /\ invoice.paid = received /\ received + invoice.due = invoice.total
  /\ invoice.credit <= consumed
  /\ invoice.status = "NONE" => received = 0

\* What is metered.
UsageOk(used, usage) ==
  used \in Nat /\ usage[1] \in Nat /\ usage[2] \in Nat /\ used <= usage[1] + usage[2]

BillingOk(db) ==
  /\ BillingShape(db)
  /\ CreditOk(db.credit, db.consumed)
  /\ InvoiceAddsUp(db.invoice, db.received, db.consumed)
  /\ UsageOk(db.quota.used, db.usage)

\* A request that has consumed credit for an invoice.
AppliedOk(w) ==
  requests[w].pc = "consumed" =>
    LET applied == Lesser(Seen(w).credit - Seen(w).consumed, MaxAmount)
    IN rows.invoice.status = "NONE" /\ applied \in 0..MaxAmount /\ applied <= rows.consumed

BillingInv == BillingOk(rows) /\ \A w \in Workers : AppliedOk(w)

\* A request that starts or ends without a write.
LEMMA BillingStay ==
  ASSUME BillingInv, rows' = rows,
         \A v \in Workers : requests'[v] = requests[v] \/ requests'[v].pc \in {"idle", "read"}
  PROVE  BillingInv'
  BY DEF BillingInv, AppliedOk, Seen

\* The one request in progress.
LEMMA BillingGoesOn ==
  ASSUME BillingOk(rows'), NEW w \in Workers, AppliedOk(w)',
         \A v \in Workers : v # w => requests'[v].pc = "idle"
  PROVE  BillingInv'
  BY DEF BillingInv, AppliedOk

\* What is consumed of the credit is not more than there is, nor than is due.
LEMMA LesserBounds ==
  ASSUME NEW credit \in Nat, NEW consumed \in Nat, consumed <= credit
  PROVE  /\ Lesser(credit - consumed, MaxAmount) \in 0..MaxAmount
         /\ Lesser(credit - consumed, MaxAmount) <= credit - consumed
  BY MaxAmountAssumption DEF Lesser

\* A payment of what is due or less.
LEMMA PaidByAddsUp ==
  ASSUME NEW invoice, DOMAIN invoice = {"status", "total", "credit", "paid", "due"},
         NEW n \in Nat, NEW received, NEW consumed,
         InvoiceAddsUp(invoice, received, consumed), Billable(invoice, n)
  PROVE  /\ DOMAIN PaidBy(invoice, n) = DOMAIN invoice
         /\ InvoiceAddsUp(PaidBy(invoice, n), received + n, consumed)
<1> DEFINE status == IF invoice.paid + n = invoice.total THEN "PAID" ELSE "PARTIALLY_PAID"
           due == invoice.total - (invoice.paid + n)
           paid == invoice.paid + n
           new == [status |-> status, total |-> invoice.total, credit |-> invoice.credit,
                   paid |-> paid, due |-> due]
<1>1. PaidBy(invoice, n) = [invoice EXCEPT !.paid = paid, !.due = due, !.status = status]
  BY DEF PaidBy
<1>2. status # "NONE"
  OBVIOUS
<1>3. due \in Nat /\ received + n + due = invoice.total
  BY DEF InvoiceAddsUp, Billable
<1>4. /\ DOMAIN new = DOMAIN invoice /\ new.status = status /\ new.total = invoice.total
      /\ new.credit = invoice.credit /\ new.paid = paid /\ new.due = due
  OBVIOUS
<1>5. paid = received + n
  BY DEF InvoiceAddsUp
<1> HIDE DEF status, due, paid
<1>6. [invoice EXCEPT !.paid = paid, !.due = due, !.status = status] = new
  <2> DEFINE paidIn == [invoice EXCEPT !.paid = paid]
             dueIn == [paidIn EXCEPT !.due = due]
  <2>1. paidIn = [status |-> invoice.status, total |-> invoice.total, credit |-> invoice.credit,
                  paid |-> paid, due |-> invoice.due]
    OBVIOUS
  <2> HIDE DEF paidIn
  <2>2. dueIn = [status |-> invoice.status, total |-> invoice.total, credit |-> invoice.credit,
                 paid |-> paid, due |-> due]
    BY <2>1
  <2> HIDE DEF dueIn
  <2>3. [dueIn EXCEPT !.status = status] = new
    BY <2>2
  <2> QED
    BY <2>3 DEF dueIn, paidIn
<1> HIDE DEF new
<1> QED
  BY <1>1, <1>2, <1>3, <1>4, <1>5, <1>6 DEF InvoiceAddsUp

\* Every step about an organization's bills, when no other request is in
\* progress, preserves BillingInv.
LEMMA BillingStep ==
  ASSUME BillingInv, NEW w \in Workers, BillingNext(w),
         requests[w].pc = "read" => Seen(w) = rows,
         requests' = [requests EXCEPT ![w] = requests'[w]],
         requests = [v \in Workers |-> requests[v]],
         \A v \in Workers : v # w => requests[v] = Idle
  PROVE  BillingInv'
<1>1. \A v \in Workers : v # w => requests'[v].pc = "idle"
  BY DEF Idle
<1>2. BillingOk(rows) /\ AppliedOk(w)
  BY DEF BillingInv
<1>3. /\ BillingShape(rows) /\ CreditOk(rows.credit, rows.consumed)
      /\ InvoiceAddsUp(rows.invoice, rows.received, rows.consumed)
      /\ UsageOk(rows.quota.used, rows.usage)
  BY <1>2 DEF BillingOk
<1>4. /\ DOMAIN rows = {"domain", "event", "credit", "consumed", "invoice", "received", "quota", "usage"}
      /\ DOMAIN rows.invoice = {"status", "total", "credit", "paid", "due"}
      /\ DOMAIN rows.quota = {"limit", "used"} /\ DOMAIN rows.usage = {1, 2}
  BY <1>3 DEF BillingShape
<1> SUFFICES BillingOk(rows') /\ AppliedOk(w)'
  BY <1>1, BillingGoesOn
<1>5. \A n \in Amounts : n \in Nat
  BY MaxAmountAssumption DEF Amounts
\* A request that has consumed no credit.
<1>6. requests'[w].pc # "consumed" => AppliedOk(w)'
  BY DEF AppliedOk
\* What is written about the invoice.
<1>7. ASSUME NEW invoice, NEW received, DOMAIN invoice = DOMAIN rows.invoice,
             rows' = [[rows EXCEPT !.invoice = invoice] EXCEPT !.received = received],
             InvoiceAddsUp(invoice, received, rows.consumed)
      PROVE  BillingOk(rows')
  <2>1. /\ DOMAIN rows' = DOMAIN rows /\ rows'.invoice = invoice /\ rows'.received = received
        /\ rows'.credit = rows.credit /\ rows'.consumed = rows.consumed
        /\ rows'.quota = rows.quota /\ rows'.usage = rows.usage
    BY <1>4, <1>7
  <2>2. BillingShape(rows')
    BY <1>4, <1>7, <2>1 DEF BillingShape
  <2> QED
    BY <1>3, <1>7, <2>1, <2>2 DEF BillingOk
\* What is written about its status alone.
<1>8. ASSUME NEW status, status # "NONE", rows' = [rows EXCEPT !.invoice.status = status]
      PROVE  BillingOk(rows')
  <2> DEFINE invoice == [rows.invoice EXCEPT !.status = status]
  <2>1. /\ DOMAIN invoice = DOMAIN rows.invoice /\ invoice.status = status
        /\ invoice.total = rows.invoice.total /\ invoice.credit = rows.invoice.credit
        /\ invoice.paid = rows.invoice.paid /\ invoice.due = rows.invoice.due
    BY <1>4
  <2>2. rows' = [rows EXCEPT !.invoice = invoice]
    BY <1>4, <1>8
  <2> HIDE DEF invoice
  <2>3. rows' = [[rows EXCEPT !.invoice = invoice] EXCEPT !.received = rows.received]
    BY <1>4, <2>2
  <2>4. InvoiceAddsUp(invoice, rows.received, rows.consumed)
    BY <1>3, <1>8, <2>1 DEF InvoiceAddsUp
  <2> QED
    BY <1>7, <2>1, <2>3, <2>4
<1>9. CASE GrantCredit(w)
  <2>1. PICK n \in Amounts : rows' = [rows EXCEPT !.credit = n] /\ requests'[w].pc = "idle"
    BY <1>9 DEF GrantCredit, Commit, Idle
  <2>2. rows.credit = 0
    BY <1>9 DEF GrantCredit
  <2>3. /\ DOMAIN rows' = DOMAIN rows /\ rows'.credit = n /\ rows'.consumed = rows.consumed
        /\ rows'.invoice = rows.invoice /\ rows'.received = rows.received
        /\ rows'.quota = rows.quota /\ rows'.usage = rows.usage
    BY <1>4, <2>1
  <2>4. BillingShape(rows')
    BY <1>4, <2>3 DEF BillingShape
  <2>5. CreditOk(n, rows.consumed)
    BY <1>3, <1>5, <2>2 DEF CreditOk
  <2>6. BillingOk(rows')
    BY <1>3, <2>3, <2>4, <2>5 DEF BillingOk
  <2> QED
    BY <1>6, <2>1, <2>6
<1>10. CASE ConsumeCredit(w)
  <2> DEFINE n == Lesser(rows.credit - rows.consumed, MaxAmount)
  <2>1. /\ requests[w].pc = "read" /\ rows.invoice.status = "NONE"
        /\ rows' = [rows EXCEPT !.consumed = rows.consumed + n]
        /\ requests'[w] = [pc |-> "consumed", seen |-> rows, doc |-> 0]
    BY <1>10 DEF ConsumeCredit, Continue, At
  <2>2. n \in 0..MaxAmount /\ n <= rows.credit - rows.consumed
    BY <1>3, LesserBounds DEF CreditOk
  <2>3. Lesser(Seen(w)'.credit - Seen(w)'.consumed, MaxAmount) = n
    BY <2>1 DEF Seen
  <2> HIDE DEF n
  <2>4. /\ DOMAIN rows' = DOMAIN rows /\ rows'.consumed = rows.consumed + n
        /\ rows'.credit = rows.credit
        /\ rows'.invoice = rows.invoice /\ rows'.received = rows.received
        /\ rows'.quota = rows.quota /\ rows'.usage = rows.usage
    BY <1>4, <2>1
  <2>5. BillingShape(rows')
    BY <1>4, <2>4 DEF BillingShape
  <2>6. CreditOk(rows.credit, rows.consumed + n) /\ n <= rows.consumed + n
    BY <1>3, <2>2, MaxAmountAssumption DEF CreditOk
  <2>7. InvoiceAddsUp(rows.invoice, rows.received, rows.consumed + n)
    BY <1>3, <2>2, MaxAmountAssumption DEF InvoiceAddsUp, CreditOk
  <2>8. BillingOk(rows')
    BY <1>3, <2>4, <2>5, <2>6, <2>7 DEF BillingOk
  <2>9. AppliedOk(w)'
    BY <2>1, <2>2, <2>3, <2>4, <2>6 DEF AppliedOk
  <2> QED
    BY <2>8, <2>9
<1>11. CASE CreateBillingInvoice(w)
  <2> DEFINE applied == Lesser(Seen(w).credit - Seen(w).consumed, MaxAmount)
             total == MaxAmount - applied
             invoice == [status |-> "DRAFT", total |-> total, credit |-> applied,
                         paid |-> 0, due |-> total]
  <2>1. requests[w].pc = "consumed" /\ requests'[w].pc = "idle"
    BY <1>11 DEF CreateBillingInvoice, Commit, Resumes, At, Idle
  <2>2. rows' = [rows EXCEPT !.invoice = invoice]
    BY <1>11 DEF CreateBillingInvoice, Commit
  <2>3. rows.invoice.status = "NONE" /\ applied \in 0..MaxAmount /\ applied <= rows.consumed
    BY <1>2, <2>1 DEF AppliedOk
  <2>4. /\ DOMAIN invoice = {"status", "total", "credit", "paid", "due"}
        /\ invoice.status = "DRAFT" /\ invoice.total = total /\ invoice.credit = applied
        /\ invoice.paid = 0 /\ invoice.due = total
    OBVIOUS
  <2>5. total \in Nat
    BY <2>3, MaxAmountAssumption
  <2> HIDE DEF applied, total, invoice
  <2>6. rows' = [[rows EXCEPT !.invoice = invoice] EXCEPT !.received = rows.received]
    BY <1>4, <2>2
  <2>7. InvoiceAddsUp(invoice, rows.received, rows.consumed)
    BY <1>3, <2>3, <2>4, <2>5 DEF InvoiceAddsUp
  <2>8. BillingOk(rows')
    BY <1>4, <1>7, <2>4, <2>6, <2>7
  <2> QED
    BY <1>6, <2>1, <2>8
<1>12. CASE FinalizeInvoice(w) \/ VoidBillingInvoice(w)
  <2>1. \E status \in {"PAID", "OPEN", "VOID"} : rows' = [rows EXCEPT !.invoice.status = status]
    BY <1>12 DEF FinalizeInvoice, VoidBillingInvoice, Commit
  <2>2. requests'[w].pc = "idle"
    BY <1>12 DEF FinalizeInvoice, VoidBillingInvoice, Commit, Idle
  <2>3. BillingOk(rows')
    BY <1>8, <2>1
  <2> QED
    BY <1>6, <2>2, <2>3
\* A payment of n, by a user or told by the provider.
<1>13. ASSUME NEW n \in Nat, Billable(rows.invoice, n),
              rows' = [rows EXCEPT !.invoice = PaidBy(rows.invoice, n), !.received = @ + n]
       PROVE  BillingOk(rows')
  <2> DEFINE invoice == PaidBy(rows.invoice, n)
  <2>1. /\ DOMAIN invoice = DOMAIN rows.invoice
        /\ InvoiceAddsUp(invoice, rows.received + n, rows.consumed)
    BY <1>3, <1>4, <1>13, PaidByAddsUp
  <2> HIDE DEF invoice
  <2>2. rows' = [[rows EXCEPT !.invoice = invoice] EXCEPT !.received = rows.received + n]
    BY <1>4, <1>13 DEF invoice
  <2> QED
    BY <1>7, <2>1, <2>2
<1>14. CASE ApplyPayment(w)
  <2>1. PICK n \in Amounts :
          /\ Billable(rows.invoice, n)
          /\ rows' = [rows EXCEPT !.invoice = PaidBy(rows.invoice, n), !.received = @ + n]
    BY <1>14 DEF ApplyPayment, Commit, At
  <2>2. requests'[w].pc = "idle"
    BY <1>14 DEF ApplyPayment, Commit, Idle
  <2> QED
    BY <1>5, <1>6, <1>13, <2>1, <2>2
<1>15. CASE TellPayment(w)
  <2>1. /\ Billable(rows.invoice, 1)
        /\ rows' = [rows EXCEPT !.invoice = PaidBy(rows.invoice, 1), !.received = @ + 1]
        /\ requests'[w].pc = "dispatched"
    BY <1>15 DEF TellPayment, Continue
  <2> QED
    BY <1>6, <1>13, <2>1
\* What is written about what is metered.
<1>16. ASSUME NEW quota, NEW usage, DOMAIN quota = {"limit", "used"}, DOMAIN usage = {1, 2},
              rows' = [[rows EXCEPT !.quota = quota] EXCEPT !.usage = usage],
              UsageOk(quota.used, usage)
       PROVE  BillingOk(rows')
  <2>1. /\ DOMAIN rows' = DOMAIN rows /\ rows'.quota = quota /\ rows'.usage = usage
        /\ rows'.credit = rows.credit /\ rows'.consumed = rows.consumed
        /\ rows'.invoice = rows.invoice /\ rows'.received = rows.received
    BY <1>4, <1>16
  <2>2. BillingShape(rows')
    BY <1>4, <1>16, <2>1 DEF BillingShape
  <2> QED
    BY <1>3, <1>16, <2>1, <2>2 DEF BillingOk
<1>17. CASE SetQuota(w)
  <2>1. PICK n \in Amounts : rows' = [rows EXCEPT !.quota.limit = n] /\ requests'[w].pc = "idle"
    BY <1>17 DEF SetQuota, Commit, Idle
  <2> DEFINE quota == [rows.quota EXCEPT !.limit = n]
  <2>2. DOMAIN quota = {"limit", "used"} /\ quota.used = rows.quota.used
    BY <1>4
  <2>3. rows' = [rows EXCEPT !.quota = quota]
    BY <1>4, <2>1
  <2> HIDE DEF quota
  <2>4. rows' = [[rows EXCEPT !.quota = quota] EXCEPT !.usage = rows.usage]
    BY <1>4, <2>3
  <2> QED
    BY <1>3, <1>4, <1>6, <1>16, <2>1, <2>2, <2>4
<1>18. ASSUME NEW k \in {1, 2}, RecordUsage(w, k) PROVE BillingOk(rows') /\ AppliedOk(w)'
  <2>1. PICK n \in Amounts :
          /\ requests'[w].pc = "idle"
          /\ \/ rows' = rows
             \/ /\ rows.usage[k] = 0
                /\ rows' = [rows EXCEPT !.usage[k] = n,
                              !.quota.used = IF rows.quota.limit > 0 THEN @ + n ELSE @]
    <3>1. PICK n \in Amounts :
            CommitIf(w, rows.usage[k] = 0,
              [rows EXCEPT !.usage[k] = n,
                           !.quota.used = IF rows.quota.limit > 0 THEN @ + n ELSE @])
      BY <1>18, Zenon DEF RecordUsage
    <3>2. requests'[w].pc = "idle"
      BY <3>1 DEF CommitIf, Commit, Idle
    <3> QED
      BY <3>1, <3>2, Zenon DEF CommitIf, Commit
  <2>2. CASE rows' = rows
    BY <1>2, <1>6, <2>1, <2>2
  <2>3. CASE /\ rows.usage[k] = 0
             /\ rows' = [rows EXCEPT !.usage[k] = n,
                           !.quota.used = IF rows.quota.limit > 0 THEN @ + n ELSE @]
    <3>1. PICK used \in {rows.quota.used, rows.quota.used + n} :
            rows' = [[rows EXCEPT !.usage[k] = n] EXCEPT !.quota.used = used]
      BY <1>4, <2>3
    <3> DEFINE usage == [rows.usage EXCEPT ![k] = n]
               quota == [rows.quota EXCEPT !.used = used]
    <3>2. /\ DOMAIN quota = {"limit", "used"} /\ quota.used = used
          /\ DOMAIN usage = {1, 2} /\ usage[k] = n
          /\ \A j \in {1, 2} : j # k => usage[j] = rows.usage[j]
      BY <1>4
    <3>3. rows' = [[rows EXCEPT !.quota = quota] EXCEPT !.usage = usage]
      BY <1>4, <3>1
    <3> HIDE DEF usage, quota
    <3>4. UsageOk(used, usage)
      BY <1>3, <1>5, <2>3, <3>1, <3>2 DEF UsageOk
    <3> QED
      BY <1>6, <1>16, <2>1, <3>2, <3>3, <3>4
  <2> QED
    BY <2>1, <2>2, <2>3
\* What is written about the event alone.
<1>19. ASSUME NEW event, rows' = [rows EXCEPT !.event = event] PROVE BillingOk(rows')
  <2>1. /\ DOMAIN rows' = DOMAIN rows /\ rows'.quota = rows.quota /\ rows'.usage = rows.usage
        /\ rows'.credit = rows.credit /\ rows'.consumed = rows.consumed
        /\ rows'.invoice = rows.invoice /\ rows'.received = rows.received
    BY <1>4, <1>19
  <2>2. BillingShape(rows')
    BY <1>4, <2>1 DEF BillingShape
  <2> QED
    BY <1>3, <2>1, <2>2 DEF BillingOk
<1>20. CASE ReceiveEvent(w, {"PAID"})
  <2>1. PICK kind :
          Continue(w, IF rows.event.status = "NONE"
                      THEN [rows EXCEPT !.event = [status |-> "RECEIVED", kind |-> kind]]
                      ELSE rows, "received", kind)
    BY <1>20, Zenon DEF ReceiveEvent
  <2>2. /\ rows' = rows \/ rows' = [rows EXCEPT !.event = [status |-> "RECEIVED", kind |-> kind]]
        /\ requests'[w].pc = "received"
    BY <2>1 DEF Continue
  <2> QED
    BY <1>2, <1>6, <1>19, <2>2
<1>21. CASE FinishEvent(w, "PAID") \/ FailEvent(w, "PAID")
  <2>1. PICK status : rows' = [rows EXCEPT !.event.status = status] /\ requests'[w].pc = "idle"
    BY <1>21 DEF FinishEvent, FailEvent, Commit, Idle
  <2>2. rows' = [rows EXCEPT !.event = [rows.event EXCEPT !.status = status]]
    BY <1>4, <2>1
  <2> QED
    BY <1>6, <1>19, <2>1, <2>2
<1> QED
  BY <1>9, <1>10, <1>11, <1>12, <1>14, <1>15, <1>17, <1>18, <1>20, <1>21 DEF BillingNext

LEMMA NoBillingOk ==
  ASSUME rows = NoBilling, \A w \in Workers : requests[w] = Idle
  PROVE  BillingInv
  BY DEF NoBilling, BillingInv, BillingOk, BillingShape, CreditOk, InvoiceAddsUp, UsageOk,
     AppliedOk, Idle

\* BillingInv implies what is said about bills.
LEMMA BillsAddUpThen ==
  ASSUME BillingInv
  PROVE  /\ rows.invoice.paid = rows.received
         /\ rows.invoice.paid + rows.invoice.due = rows.invoice.total
         /\ rows.invoice.due >= 0
         /\ rows.invoice.credit <= rows.consumed /\ rows.consumed <= rows.credit
         /\ rows.quota.used <= rows.usage[1] + rows.usage[2]
  BY DEF BillingInv, BillingOk, CreditOk, InvoiceAddsUp, UsageOk

-----------------------------------------------------------------------------
(* purchasing: two services, one set of purchase orders. *)

\* The tables of the domain.
PurchasingShape(db) ==
  /\ DOMAIN db = {"domain", "planned", "requisitions", "orders", "lines", "receipts", "returns",
                  "onHand", "moved"}
  /\ DOMAIN db.requisitions = {1} /\ DOMAIN db.orders = {1} /\ DOMAIN db.lines = Lines
  /\ DOMAIN db.receipts = {1, 2} /\ DOMAIN db.returns = {1}
  /\ DOMAIN db.orders[1] = {"status"}
  /\ \A r \in {1, 2} : DOMAIN db.receipts[r] = {"status", "quantity"}
  /\ DOMAIN db.returns[1] = {"status", "receipt", "quantity"}

\* What receipt r brought of line l.
Brought(receipts, r, l) == IF receipts[r].status = "POSTED" THEN receipts[r].quantity[l] ELSE 0

\* Line l has received what its receipts brought, at most what was ordered.
LineOk(line, receipts, l) ==
  /\ DOMAIN line = {"quantity", "received", "remaining"}
  /\ line.quantity \in Nat /\ line.received \in Nat
  /\ line.received = Brought(receipts, 1, l) + Brought(receipts, 2, l)
  /\ line.received <= line.quantity

\* The receipts and what is returned of them.
ReceiptsOk(receipts, returns) ==
  /\ \A r \in {1, 2} : \A l \in Lines : receipts[r].quantity[l] \in Nat
  /\ \A l \in Lines : returns[1].quantity[l] \in Nat
  /\ returns[1].status \in {"DRAFT", "POSTED"} =>
       /\ returns[1].receipt \in {1, 2} /\ receipts[returns[1].receipt].status # "NONE"
       /\ \A l \in Lines : returns[1].quantity[l] <= receipts[returns[1].receipt].quantity[l]

PurchasingOk(db) ==
  /\ PurchasingShape(db)
  /\ ReceiptsOk(db.receipts, db.returns)
  /\ \A l \in Lines : LineOk(db.lines[l], db.receipts, l)
  /\ db.orders[1].status = "NONE" => \A r \in {1, 2} : db.receipts[r].status = "NONE"

\* The sum over one return, or none.
LEMMA ReturnedOfIs ==
  ASSUME NEW db, PurchasingShape(db), ReceiptsOk(db.receipts, db.returns), NEW r \in {1, 2},
         NEW l \in Lines
  PROVE  ReturnedOf(db, r)[l] =
           IF db.returns[1].receipt = r /\ db.returns[1].status \in {"DRAFT", "POSTED"}
           THEN db.returns[1].quantity[l] ELSE 0
<1> DEFINE S == {t \in DOMAIN db.returns : /\ db.returns[t].receipt = r
                                           /\ db.returns[t].status \in {"DRAFT", "POSTED"}}
           f == [t \in S |-> db.returns[t].quantity[l]]
<1>1. ReturnedOf(db, r)[l] = SumFunction(f)
  BY DEF ReturnedOf, SumOver
<1>2. DOMAIN db.returns = {1} /\ db.returns[1].quantity[l] \in Nat
  BY DEF PurchasingShape, ReceiptsOk
<1>3. CASE db.returns[1].receipt = r /\ db.returns[1].status \in {"DRAFT", "POSTED"}
  <2>1. S = {1}
    BY <1>2, <1>3
  <2>2. DOMAIN f = {1} /\ f[1] = db.returns[1].quantity[l]
    BY <2>1
  <2> HIDE DEF f
  <2>3. SumFunction(f) = f[1]
    BY <1>2, <2>2, SumOne
  <2> QED
    BY <1>1, <1>3, <2>2, <2>3
<1>4. CASE ~ (db.returns[1].receipt = r /\ db.returns[1].status \in {"DRAFT", "POSTED"})
  <2>1. DOMAIN f = {}
    BY <1>2, <1>4
  <2> HIDE DEF f
  <2>2. SumFunction(f) = 0
    BY <2>1, SumNone
  <2> QED
    BY <1>1, <1>4, <2>2
<1> QED
  BY <1>3, <1>4

\* The sum over the posted receipts.
LEMMA ReceiptedIs ==
  ASSUME NEW db, PurchasingShape(db), ReceiptsOk(db.receipts, db.returns), NEW l \in Lines,
         NEW S, S = {r \in DOMAIN db.receipts : db.receipts[r].status = "POSTED"}
  PROVE  SumOver(S, db.receipts)[l] = Brought(db.receipts, 1, l) + Brought(db.receipts, 2, l)
<1> DEFINE f == [r \in S |-> db.receipts[r].quantity[l]]
           g == [r \in {1, 2} |-> Brought(db.receipts, r, l)]
<1>1. SumOver(S, db.receipts)[l] = SumFunctionOnSet(f, S)
  BY DEF SumOver, SumFunction
<1>2. DOMAIN db.receipts = {1, 2} /\ \A r \in {1, 2} : db.receipts[r].quantity[l] \in Nat
  BY DEF PurchasingShape, ReceiptsOk
<1>3. IsFiniteSet({1, 2}) /\ S \in SUBSET {1, 2}
  <2>1. IsFiniteSet({1}) /\ {1, 2} = {1} \cup {2}
    BY FS_Singleton
  <2>2. IsFiniteSet({1} \cup {2})
    BY <2>1, FS_AddElement
  <2> QED
    BY <1>2, <2>1, <2>2
<1>4. IsFiniteSet(S)
  BY <1>3, FS_Subset
<1>5. /\ \A r \in {1, 2} : g[r] \in Int
      /\ \A r \in {1, 2} \ S : g[r] = 0
      /\ \A r \in S : f[r] = g[r]
  BY <1>2 DEF Brought
<1>6. DOMAIN g = {1, 2} /\ g[1] = Brought(db.receipts, 1, l) /\ g[2] = Brought(db.receipts, 2, l)
  OBVIOUS
<1> HIDE DEF f, g
<1>7. SumFunctionOnSet(f, S) = SumFunctionOnSet(g, S)
  BY <1>4, <1>5, SumEqual
<1>8. SumFunctionOnSet(g, S) = SumFunctionOnSet(g, {1, 2})
  BY <1>3, <1>5, SumSubset
<1>9. SumFunctionOnSet(g, {1, 2}) = g[1] + g[2]
  BY <1>5, <1>6, SumTwo DEF SumFunction
<1> QED
  BY <1>1, <1>6, <1>7, <1>8, <1>9

\* The order, its receipts and returns as they were, but for the order's status.
LEMMA PurchasingSame ==
  ASSUME PurchasingOk(rows), PurchasingShape(rows'), rows'.lines = rows.lines,
         rows'.receipts = rows.receipts, rows'.returns = rows.returns,
         rows'.orders[1].status = "NONE" => rows.orders[1].status = "NONE"
  PROVE  PurchasingOk(rows')
  BY DEF PurchasingOk

\* Every step of purchasing, when the request has read the rows as they are,
\* preserves PurchasingOk.
LEMMA PurchasingStep ==
  ASSUME PurchasingOk(rows), NEW w \in Workers, PurchasingNext(w),
         requests[w].pc = "read" => Seen(w) = rows
  PROVE  PurchasingOk(rows')
<1>1. /\ PurchasingShape(rows) /\ ReceiptsOk(rows.receipts, rows.returns)
      /\ \A l \in Lines : LineOk(rows.lines[l], rows.receipts, l)
      /\ rows.orders[1].status = "NONE" => \A r \in {1, 2} : rows.receipts[r].status = "NONE"
  BY DEF PurchasingOk
<1>2. /\ DOMAIN rows = {"domain", "planned", "requisitions", "orders", "lines", "receipts", "returns",
                        "onHand", "moved"}
      /\ DOMAIN rows.requisitions = {1} /\ DOMAIN rows.orders = {1} /\ DOMAIN rows.lines = Lines
      /\ DOMAIN rows.receipts = {1, 2} /\ DOMAIN rows.returns = {1}
      /\ DOMAIN rows.orders[1] = {"status"}
      /\ \A r \in {1, 2} : DOMAIN rows.receipts[r] = {"status", "quantity"}
      /\ DOMAIN rows.returns[1] = {"status", "receipt", "quantity"}
  BY <1>1 DEF PurchasingShape
<1>3. \A n \in Amounts : n \in Nat
  BY MaxAmountAssumption DEF Amounts
\* What is written about requisitions.
<1>4. ASSUME NEW requisition, NEW planned,
             rows' = [[rows EXCEPT !.requisitions[1] = requisition] EXCEPT !.planned = planned]
      PROVE  PurchasingOk(rows')
  <2>1. /\ DOMAIN rows' = DOMAIN rows /\ DOMAIN rows'.requisitions = {1}
        /\ rows'.orders = rows.orders /\ rows'.lines = rows.lines
        /\ rows'.receipts = rows.receipts /\ rows'.returns = rows.returns
    BY <1>2, <1>4
  <2>2. PurchasingShape(rows')
    BY <1>2, <2>1 DEF PurchasingShape
  <2> QED
    BY <2>1, <2>2, PurchasingSame
\* A change of the status of an order, a requisition, a receipt or a return.
<1>5. ASSUME NEW from, NEW to, "NONE" \notin from, to # "NONE",
             SetStatus(w, "orders", 1, from, to)
      PROVE  PurchasingOk(rows')
  <2>1. rows' = [rows EXCEPT !.orders[1].status = to]
    BY <1>5 DEF SetStatus, Commit
  <2>2. /\ DOMAIN rows' = DOMAIN rows /\ DOMAIN rows'.orders = {1}
        /\ DOMAIN rows'.orders[1] = {"status"} /\ rows'.orders[1].status = to
        /\ rows'.requisitions = rows.requisitions /\ rows'.lines = rows.lines
        /\ rows'.receipts = rows.receipts /\ rows'.returns = rows.returns
    BY <1>2, <2>1
  <2>3. PurchasingShape(rows')
    BY <1>2, <2>2 DEF PurchasingShape
  <2> QED
    BY <1>5, <2>2, <2>3, PurchasingSame
<1>6. ASSUME NEW from, NEW to, SetStatus(w, "requisitions", 1, from, to)
      PROVE  PurchasingOk(rows')
  <2>1. rows' = [rows EXCEPT !.requisitions[1].status = to]
    BY <1>6 DEF SetStatus, Commit
  <2>2. /\ DOMAIN rows' = DOMAIN rows /\ DOMAIN rows'.requisitions = {1}
        /\ rows'.orders = rows.orders /\ rows'.lines = rows.lines
        /\ rows'.receipts = rows.receipts /\ rows'.returns = rows.returns
    BY <1>2, <2>1
  <2>3. PurchasingShape(rows')
    BY <1>2, <2>2 DEF PurchasingShape
  <2> QED
    BY <2>2, <2>3, PurchasingSame
\* What is written about receipt r, with what that brings to the lines.
<1>7. ASSUME NEW r \in {1, 2}, NEW receipt, DOMAIN receipt = {"status", "quantity"},
             receipt.status # "NONE", \A l \in Lines : receipt.quantity[l] \in Nat,
             rows.receipts[r].status = "NONE" \/ receipt.quantity = rows.receipts[r].quantity,
             NEW lines, DOMAIN lines = Lines,
             \A l \in Lines : LineOk(lines[l], [rows.receipts EXCEPT ![r] = receipt], l),
             DOMAIN rows' = DOMAIN rows, rows'.requisitions = rows.requisitions,
             rows'.returns = rows.returns, rows'.lines = lines,
             rows'.receipts = [rows.receipts EXCEPT ![r] = receipt],
             DOMAIN rows'.orders = {1}, DOMAIN rows'.orders[1] = {"status"},
             rows'.orders[1].status # "NONE"
      PROVE  PurchasingOk(rows')
  <2>1. /\ DOMAIN rows'.receipts = {1, 2} /\ rows'.receipts[r] = receipt
        /\ \A s \in {1, 2} : s # r => rows'.receipts[s] = rows.receipts[s]
    BY <1>2, <1>7
  <2>2. PurchasingShape(rows')
    BY <1>2, <1>7, <2>1 DEF PurchasingShape
  <2>3. ReceiptsOk(rows'.receipts, rows'.returns)
    BY <1>1, <1>7, <2>1 DEF ReceiptsOk
  <2> QED
    BY <1>7, <2>2, <2>3 DEF PurchasingOk
\* A new set of lines, when there is no receipt.
<1>8. ASSUME NEW lines, DOMAIN lines = Lines,
             \A l \in Lines : /\ DOMAIN lines[l] = {"quantity", "received", "remaining"}
                              /\ lines[l].quantity \in Nat /\ lines[l].received = 0,
             \A r \in {1, 2} : rows.receipts[r].status = "NONE",
             DOMAIN rows' = DOMAIN rows, DOMAIN rows'.requisitions = {1},
             rows'.returns = rows.returns, rows'.receipts = rows.receipts, rows'.lines = lines,
             DOMAIN rows'.orders = {1}, DOMAIN rows'.orders[1] = {"status"}
      PROVE  PurchasingOk(rows')
  <2>1. PurchasingShape(rows')
    BY <1>2, <1>8 DEF PurchasingShape
  <2>2. ASSUME NEW l \in Lines PROVE LineOk(rows'.lines[l], rows'.receipts, l)
    <3>1. Brought(rows'.receipts, 1, l) = 0 /\ Brought(rows'.receipts, 2, l) = 0
      BY <1>8 DEF Brought
    <3> QED
      BY <1>8, <3>1 DEF LineOk
  <2> QED
    BY <1>1, <1>8, <2>1, <2>2 DEF PurchasingOk
<1>9. ASSUME NEW q \in {1}, NEW o \in {1}, ConvertToPO(w, q, o) PROVE PurchasingOk(rows')
  <2>1. PICK quantity \in [Lines -> Amounts] :
          rows' = [Ordered(o, quantity, quantity) EXCEPT !.requisitions[q].status = "CONVERTED"]
    BY <1>9 DEF ConvertToPO, Commit
  <2>2. rows.orders[1].status = "NONE"
    BY <1>9 DEF ConvertToPO
  <2> DEFINE lines == [l \in Lines |-> [quantity |-> quantity[l], received |-> 0,
                                        remaining |-> quantity[l]]]
  <2>3. Ordered(o, quantity, quantity) = [rows EXCEPT !.orders[1].status = "DRAFT", !.lines = lines]
    BY DEF Ordered
  <2> HIDE DEF lines
  <2>4. \E db : /\ rows' = [db EXCEPT !.requisitions[1].status = "CONVERTED"]
                /\ db = [[rows EXCEPT !.orders[1].status = "DRAFT"] EXCEPT !.lines = lines]
    BY <2>1, <2>3
  <2>5. /\ DOMAIN rows' = DOMAIN rows /\ DOMAIN rows'.requisitions = {1}
        /\ rows'.returns = rows.returns /\ rows'.receipts = rows.receipts /\ rows'.lines = lines
        /\ DOMAIN rows'.orders = {1} /\ DOMAIN rows'.orders[1] = {"status"}
    BY <1>2, <2>4
  <2>6. \A l \in Lines : quantity[l] \in Nat
    BY <1>3
  <2>7. rows'.lines = [l \in Lines |-> [quantity |-> quantity[l], received |-> 0,
                                      remaining |-> quantity[l]]]
    BY <2>5 DEF lines
  <2>8. \A r \in {1, 2} : rows.receipts[r].status = "NONE"
    BY <1>1, <2>2
  <2> QED
    BY <1>8, <2>5, <2>6, <2>7, <2>8
<1>10. ASSUME NEW o \in {1}, CreatePurchaseOrder(w, o) \/ CreateProcurementOrder(w, o)
       PROVE  PurchasingOk(rows')
  <2>1. PICK quantity, remaining : /\ quantity \in [Lines -> Amounts]
                                 /\ rows' = Ordered(o, quantity, remaining)
    BY <1>10 DEF CreatePurchaseOrder, CreateProcurementOrder, Commit
  <2>2. rows.orders[1].status = "NONE"
    BY <1>10 DEF CreatePurchaseOrder, CreateProcurementOrder, Creates
  <2> DEFINE lines == [l \in Lines |-> [quantity |-> quantity[l], received |-> 0,
                                        remaining |-> remaining[l]]]
  <2>3. rows' = [[rows EXCEPT !.orders[1].status = "DRAFT"] EXCEPT !.lines = lines]
    BY <2>1 DEF Ordered
  <2> HIDE DEF lines
  <2>4. /\ DOMAIN rows' = DOMAIN rows /\ DOMAIN rows'.requisitions = {1}
        /\ rows'.returns = rows.returns /\ rows'.receipts = rows.receipts /\ rows'.lines = lines
        /\ DOMAIN rows'.orders = {1} /\ DOMAIN rows'.orders[1] = {"status"}
    BY <1>2, <2>3
  <2>5. \A l \in Lines : quantity[l] \in Nat
    BY <1>3, <2>1
  <2>6. rows'.lines = [l \in Lines |-> [quantity |-> quantity[l], received |-> 0,
                                      remaining |-> remaining[l]]]
    BY <2>4 DEF lines
  <2>7. \A r \in {1, 2} : rows.receipts[r].status = "NONE"
    BY <1>1, <2>2
  <2> QED
    BY <1>8, <2>4, <2>5, <2>6, <2>7
<1>11. ASSUME NEW o \in {1}, UpdatePurchaseOrder(w, o) \/ UpdateProcurementOrder(w, o)
       PROVE  PurchasingOk(rows')
  <2>1. PICK quantity, remaining :
          /\ quantity \in [Lines -> Amounts]
          /\ rows' = IF ~ Receipted THEN [Ordered(o, quantity, remaining) EXCEPT !.orders = rows.orders]
                     ELSE rows
    BY <1>11 DEF UpdatePurchaseOrder, UpdateProcurementOrder, CommitIf, Commit
  <2>2. CASE Receipted
    BY <2>1, <2>2
  <2>3. CASE ~ Receipted
    <3>1. \A r \in {1, 2} : rows.receipts[r].status = "NONE"
      BY <1>2, <2>3 DEF Receipted
    <3> DEFINE lines == [l \in Lines |-> [quantity |-> quantity[l], received |-> 0,
                                          remaining |-> remaining[l]]]
    <3>2. Ordered(o, quantity, remaining) = [[rows EXCEPT !.orders[1].status = "DRAFT"] EXCEPT !.lines = lines]
      BY DEF Ordered
    <3> HIDE DEF lines
    <3>3. \E db : /\ rows' = [db EXCEPT !.orders = rows.orders]
                  /\ db = [[rows EXCEPT !.orders[1].status = "DRAFT"] EXCEPT !.lines = lines]
      BY <2>1, <2>3, <3>2
    <3>4. /\ DOMAIN rows' = DOMAIN rows /\ DOMAIN rows'.requisitions = {1}
          /\ rows'.returns = rows.returns /\ rows'.receipts = rows.receipts /\ rows'.lines = lines
          /\ DOMAIN rows'.orders = {1} /\ DOMAIN rows'.orders[1] = {"status"}
      BY <1>2, <3>3
    <3>5. \A l \in Lines : quantity[l] \in Nat
      BY <1>3, <2>1
    <3>6. rows'.lines = [l \in Lines |-> [quantity |-> quantity[l], received |-> 0,
                                        remaining |-> remaining[l]]]
      BY <3>4 DEF lines
    <3> QED
      BY <1>8, <3>1, <3>4, <3>5, <3>6
  <2> QED
    BY <2>2, <2>3
<1>12. ASSUME NEW q \in {1},
              \/ CreateRequisition(w, q) \/ ConvertPlannedOrder(w, q) \/ SubmitRequisition(w, q)
              \/ ApproveRequisition(w, q) \/ RejectRequisition(w, q) \/ CancelRequisition(w, q)
       PROVE  PurchasingOk(rows')
  <2>1. CASE CreateRequisition(w, q)
    <3>1. rows' = [rows EXCEPT !.requisitions[1].status = "DRAFT"]
      BY <2>1 DEF CreateRequisition, Commit
    <3>2. rows' = [[rows EXCEPT !.requisitions[1] = [rows.requisitions[1] EXCEPT !.status = "DRAFT"]]
                     EXCEPT !.planned = rows.planned]
      BY <1>2, <3>1
    <3> QED
      BY <1>4, <3>2
  <2>2. CASE ConvertPlannedOrder(w, q)
    <3>1. rows' = [[rows EXCEPT !.requisitions[1].status = "DRAFT"]
                     EXCEPT !.planned[1].status = "CONVERTED"]
      BY <2>2 DEF ConvertPlannedOrder, Commit
    <3>2. rows' = [[rows EXCEPT !.requisitions[1] = [rows.requisitions[1] EXCEPT !.status = "DRAFT"]]
                     EXCEPT !.planned = [rows.planned EXCEPT ![1].status = "CONVERTED"]]
      BY <1>2, <3>1
    <3> QED
      BY <1>4, <3>2
  <2>3. CASE SubmitRequisition(w, q)
    BY <1>6, <2>3 DEF SubmitRequisition
  <2>4. CASE ApproveRequisition(w, q)
    BY <1>6, <2>4 DEF ApproveRequisition
  <2>5. CASE RejectRequisition(w, q)
    BY <1>6, <2>5 DEF RejectRequisition
  <2>6. CASE CancelRequisition(w, q)
    BY <1>6, <2>6 DEF CancelRequisition
  <2> QED
    BY <1>12, <2>1, <2>2, <2>3, <2>4, <2>5, <2>6
<1>13. ASSUME NEW o \in {1},
              \/ SubmitPurchaseOrder(w, o) \/ ApprovePurchaseOrder(w, o)
              \/ CancelPurchaseOrder(w, o) \/ ClosePurchaseOrder(w, o)
              \/ SubmitProcurementOrder(w, o) \/ ApproveProcurementOrder(w, o)
              \/ RejectProcurementOrder(w, o) \/ SendProcurementOrder(w, o)
              \/ AcknowledgeOrder(w, o) \/ CancelProcurementOrder(w, o)
              \/ CloseProcurementOrder(w, o)
       PROVE  PurchasingOk(rows')
  <2>1. CASE SubmitPurchaseOrder(w, o)
    BY <1>5, <2>1 DEF SubmitPurchaseOrder
  <2>2. CASE ApprovePurchaseOrder(w, o)
    BY <1>5, <2>2 DEF ApprovePurchaseOrder
  <2>3. CASE CancelPurchaseOrder(w, o)
    BY <1>5, <2>3 DEF CancelPurchaseOrder
  <2>4. CASE ClosePurchaseOrder(w, o)
    BY <1>5, <2>4 DEF ClosePurchaseOrder
  <2>5. CASE SubmitProcurementOrder(w, o)
    BY <1>5, <2>5 DEF SubmitProcurementOrder
  <2>6. CASE ApproveProcurementOrder(w, o)
    BY <1>5, <2>6 DEF ApproveProcurementOrder
  <2>7. CASE RejectProcurementOrder(w, o)
    BY <1>5, <2>7 DEF RejectProcurementOrder
  <2>8. CASE SendProcurementOrder(w, o)
    BY <1>5, <2>8 DEF SendProcurementOrder
  <2>9. CASE AcknowledgeOrder(w, o)
    BY <1>5, <2>9 DEF AcknowledgeOrder
  <2>10. CASE CancelProcurementOrder(w, o)
    BY <1>5, <2>10 DEF CancelProcurementOrder
  <2>11. CASE CloseProcurementOrder(w, o)
    BY <1>5, <2>11 DEF CloseProcurementOrder
  <2> QED
    BY <1>13, <2>1, <2>2, <2>3, <2>4, <2>5, <2>6, <2>7, <2>8, <2>9, <2>10, <2>11
\* Lines of which what the receipt brings was received.
<1>14. ASSUME NEW r \in {1, 2}, NEW receipt, NEW lines, DOMAIN lines = Lines,
              \A l \in Lines : /\ receipt.quantity[l] \in Nat
                               /\ receipt.quantity[l] <= rows.lines[l].quantity - rows.lines[l].received
                               /\ DOMAIN lines[l] = {"quantity", "received", "remaining"}
                               /\ lines[l].quantity = rows.lines[l].quantity
                               /\ lines[l].received = rows.lines[l].received + receipt.quantity[l],
              rows.receipts[r].status # "POSTED",
              DOMAIN receipt = {"status", "quantity"}, receipt.status = "POSTED"
       PROVE  \A l \in Lines : LineOk(lines[l], [rows.receipts EXCEPT ![r] = receipt], l)
  <2> SUFFICES ASSUME NEW l \in Lines
               PROVE  LineOk(lines[l], [rows.receipts EXCEPT ![r] = receipt], l)
    OBVIOUS
  <2> DEFINE receipts == [rows.receipts EXCEPT ![r] = receipt]
  <2>1. receipts[r] = receipt /\ \A s \in {1, 2} : s # r => receipts[s] = rows.receipts[s]
    BY <1>2
  <2> HIDE DEF receipts
  <2>2. /\ Brought(receipts, r, l) = receipt.quantity[l] /\ Brought(rows.receipts, r, l) = 0
        /\ \A s \in {1, 2} : s # r => Brought(receipts, s, l) = Brought(rows.receipts, s, l)
    BY <1>14, <2>1 DEF Brought
  <2>3. LineOk(rows.lines[l], rows.receipts, l)
    BY <1>1
  <2>4. /\ Brought(rows.receipts, 1, l) \in Nat /\ Brought(rows.receipts, 2, l) \in Nat
    BY <1>1 DEF Brought, ReceiptsOk
  <2>5. LineOk(lines[l], receipts, l)
    BY <1>14, <2>2, <2>3, <2>4 DEF LineOk
  <2> QED
    BY <2>5 DEF receipts
<1>15. ASSUME NEW o \in {1}, NEW r \in {1, 2}, CreateReceipt(w, o, r) PROVE PurchasingOk(rows')
  <2>1. PICK q \in [Lines -> 0..MaxAmount] :
          rows' = [rows EXCEPT !.receipts[r] = [status |-> "DRAFT", quantity |-> q]]
    BY <1>15 DEF CreateReceipt, Commit
  <2>2. rows.receipts[r].status = "NONE" /\ rows.orders[1].status # "NONE"
    BY <1>15 DEF CreateReceipt, Creates, At
  <2> DEFINE receipt == [status |-> "DRAFT", quantity |-> q]
  <2>3. /\ DOMAIN receipt = {"status", "quantity"} /\ receipt.status = "DRAFT" /\ receipt.quantity = q
    OBVIOUS
  <2>4. rows' = [rows EXCEPT !.receipts[r] = receipt]
    BY <2>1
  <2> HIDE DEF receipt
  <2>5. /\ DOMAIN rows' = DOMAIN rows /\ rows'.requisitions = rows.requisitions
        /\ rows'.returns = rows.returns /\ rows'.lines = rows.lines /\ rows'.orders = rows.orders
        /\ rows'.receipts = [rows.receipts EXCEPT ![r] = receipt]
    BY <1>2, <2>4
  <2>6. \A l \in Lines : q[l] \in Nat
    BY MaxAmountAssumption
  <2> DEFINE receipts == [rows.receipts EXCEPT ![r] = receipt]
  <2>7. receipts[r] = receipt /\ \A s \in {1, 2} : s # r => receipts[s] = rows.receipts[s]
    BY <1>2
  <2> HIDE DEF receipts
  <2>8. \A l \in Lines : LineOk(rows.lines[l], receipts, l)
    <3>1. \A l \in Lines, s \in {1, 2} : Brought(receipts, s, l) = Brought(rows.receipts, s, l)
      BY <2>2, <2>3, <2>7 DEF Brought
    <3> QED
      BY <1>1, <3>1 DEF LineOk
  <2> QED
    BY <1>2, <1>7, <2>2, <2>3, <2>5, <2>6, <2>8 DEF receipts
<1>16. ASSUME NEW r \in {1, 2}, CancelReceipt(w, r) \/ CancelProcurementReceipt(w, r)
       PROVE  PurchasingOk(rows')
  <2>1. /\ rows.receipts[r].status \in {"DRAFT", "CANCELLED"}
        /\ rows' = [rows EXCEPT !.receipts[r].status = "CANCELLED"]
    BY <1>16 DEF CancelReceipt, CancelProcurementReceipt, SetStatus, Changes, Commit, At
  <2> DEFINE receipt == [rows.receipts[r] EXCEPT !.status = "CANCELLED"]
             receipts == [rows.receipts EXCEPT ![r] = receipt]
  <2>2. /\ DOMAIN receipt = {"status", "quantity"} /\ receipt.status = "CANCELLED"
        /\ receipt.quantity = rows.receipts[r].quantity
    BY <1>2
  <2>3. rows' = [rows EXCEPT !.receipts[r] = receipt]
    BY <1>2, <2>1
  <2> HIDE DEF receipt
  <2>4. /\ DOMAIN rows' = DOMAIN rows /\ rows'.requisitions = rows.requisitions
        /\ rows'.returns = rows.returns /\ rows'.lines = rows.lines /\ rows'.orders = rows.orders
        /\ rows'.receipts = [rows.receipts EXCEPT ![r] = receipt]
    BY <1>2, <2>3
  <2>5. receipts[r] = receipt /\ \A s \in {1, 2} : s # r => receipts[s] = rows.receipts[s]
    BY <1>2
  <2> HIDE DEF receipts
  <2>6. \A l \in Lines : LineOk(rows.lines[l], receipts, l)
    <3>1. \A l \in Lines, s \in {1, 2} : Brought(receipts, s, l) = Brought(rows.receipts, s, l)
      BY <2>1, <2>2, <2>5 DEF Brought
    <3> QED
      BY <1>1, <3>1 DEF LineOk
  <2>7. rows.orders[1].status # "NONE" /\ \A l \in Lines : receipt.quantity[l] \in Nat
    BY <1>1, <2>1, <2>2 DEF ReceiptsOk
  <2> QED
    BY <1>2, <1>7, <2>2, <2>4, <2>6, <2>7 DEF receipts
<1>17. ASSUME NEW o \in {1}, NEW r \in {1, 2}, PostReceipt(w, o, r) PROVE PurchasingOk(rows')
  <2> DEFINE q == rows.receipts[r].quantity
             lines == [l \in Lines |-> [rows.lines[l] EXCEPT !.received = @ + q[l]]]
             legal == \A l \in Lines : lines[l].received <= lines[l].quantity
             status == ReceivedStatus(\A l \in Lines : lines[l].received >= lines[l].quantity)
  <2>1. /\ rows.receipts[r].status = "DRAFT"
        /\ \A l \in Lines : q[l] <= rows.lines[l].quantity - rows.lines[l].received
        /\ rows' = IF legal
                   THEN [rows EXCEPT !.receipts[r].status = "POSTED", !.lines = lines,
                           !.orders[o].status = status,
                           !.onHand = @ + SumFunction(q), !.moved = @ + SumFunction(q)]
                   ELSE rows
    BY <1>17 DEF PostReceipt, Changes, Receivable, CommitIf, Commit, At
  <2>2. status # "NONE"
    BY DEF ReceivedStatus
  <2>3. \A l \in Lines : /\ DOMAIN rows.lines[l] = {"quantity", "received", "remaining"}
                         /\ q[l] \in Nat
    BY <1>1 DEF LineOk, ReceiptsOk
  <2>4. /\ DOMAIN lines = Lines
        /\ \A l \in Lines : /\ DOMAIN lines[l] = {"quantity", "received", "remaining"}
                            /\ lines[l].quantity = rows.lines[l].quantity
                            /\ lines[l].received = rows.lines[l].received + q[l]
    BY <2>3
  <2> DEFINE receipt == [rows.receipts[r] EXCEPT !.status = "POSTED"]
             posted == [rows EXCEPT !.receipts[r].status = "POSTED"]
             lined == [posted EXCEPT !.lines = lines]
             told == [lined EXCEPT !.orders[o].status = status]
  <2>5. /\ DOMAIN receipt = {"status", "quantity"} /\ receipt.status = "POSTED" /\ receipt.quantity = q
    BY <1>2
  <2>6. posted = [rows EXCEPT !.receipts[r] = receipt]
    BY <1>2
  <2> HIDE DEF receipt
  <2>7. /\ DOMAIN posted = DOMAIN rows /\ posted.requisitions = rows.requisitions
        /\ posted.returns = rows.returns /\ posted.orders = rows.orders
        /\ posted.receipts = [rows.receipts EXCEPT ![r] = receipt]
    BY <1>2, <2>6
  <2>8. CASE ~ legal
    <3> HIDE DEF legal
    <3> QED
      BY <2>1, <2>8
  <2>9. CASE legal
    <3>1. \E onHand, moved : rows' = [[told EXCEPT !.onHand = onHand] EXCEPT !.moved = moved]
      <4> HIDE DEF lines, status, q
      <4> QED
        BY <2>1, <2>9 DEF q
    <3> HIDE DEF legal, lines, status, posted, q
    <3>2. /\ DOMAIN lined = DOMAIN rows /\ lined.requisitions = rows.requisitions
          /\ lined.returns = rows.returns /\ lined.orders = rows.orders /\ lined.lines = lines
          /\ lined.receipts = [rows.receipts EXCEPT ![r] = receipt]
      BY <1>2, <2>7
    <3> HIDE DEF lined
    <3>3. /\ DOMAIN told = DOMAIN rows /\ told.requisitions = rows.requisitions
          /\ told.returns = rows.returns /\ told.lines = lines
          /\ told.receipts = [rows.receipts EXCEPT ![r] = receipt]
          /\ DOMAIN told.orders = {1} /\ DOMAIN told.orders[1] = {"status"}
          /\ told.orders[1].status = status
      BY <1>2, <3>2
    <3> HIDE DEF told
    <3>4. /\ DOMAIN rows' = DOMAIN rows /\ rows'.requisitions = rows.requisitions
          /\ rows'.returns = rows.returns /\ rows'.lines = lines
          /\ rows'.receipts = [rows.receipts EXCEPT ![r] = receipt]
          /\ rows'.orders = told.orders
      BY <1>2, <3>1, <3>3
    <3>5. \A l \in Lines : LineOk(lines[l], [rows.receipts EXCEPT ![r] = receipt], l)
      <4>1. \A l \in Lines :
              /\ receipt.quantity[l] \in Nat
              /\ receipt.quantity[l] <= rows.lines[l].quantity - rows.lines[l].received
              /\ DOMAIN lines[l] = {"quantity", "received", "remaining"}
              /\ lines[l].quantity = rows.lines[l].quantity
              /\ lines[l].received = rows.lines[l].received + receipt.quantity[l]
        BY <2>1, <2>3, <2>4, <2>5
      <4>2. rows.receipts[r].status # "POSTED"
        BY <2>1
      <4> QED
        BY <1>14, <2>4, <2>5, <4>1, <4>2
    <3>6. /\ DOMAIN rows'.orders = {1} /\ DOMAIN rows'.orders[1] = {"status"}
          /\ rows'.orders[1].status # "NONE" /\ receipt.status # "NONE"
          /\ \A l \in Lines : receipt.quantity[l] \in Nat
          /\ receipt.quantity = rows.receipts[r].quantity
      BY <2>2, <2>3, <2>5, <3>3, <3>4 DEF q
    <3> QED
      BY <1>7, <2>4, <2>5, <3>4, <3>5, <3>6
  <2> QED
    BY <2>8, <2>9
<1>18. ASSUME NEW o \in {1}, NEW r \in {1, 2}, ReceivePurchaseOrder(w, o, r)
       PROVE  PurchasingOk(rows')
  <2> DEFINE Lined(q) == [l \in Lines |->
             IF q[l] = 0 THEN rows.lines[l]
             ELSE [rows.lines[l] EXCEPT
                     !.received = Seen(w).lines[l].received + q[l],
                     !.remaining = Seen(w).lines[l].quantity - Seen(w).lines[l].received - q[l]]]
  <2>1. rows.receipts[r].status = "NONE" /\ Seen(w) = rows
    BY <1>18 DEF ReceivePurchaseOrder, Creates, At
  <2>2. PICK q \in [Lines -> 0..MaxAmount] :
          /\ Receivable(w, o, q)
          /\ rows' = [rows EXCEPT
                        !.receipts[r] = [status |-> "POSTED", quantity |-> q],
                        !.lines = Lined(q),
                        !.orders[o].status = ReceivedStatus(\A l \in Lines : Lined(q)[l].remaining <= 0),
                        !.onHand = Seen(w).onHand + SumFunction(q),
                        !.moved = @ + SumFunction(q)]
    BY <1>18, Zenon DEF ReceivePurchaseOrder, Commit
  <2> DEFINE lines == Lined(q)
             status == ReceivedStatus(\A l \in Lines : lines[l].remaining <= 0)
             receipt == [status |-> "POSTED", quantity |-> q]
             posted == [rows EXCEPT !.receipts[r] = receipt]
             lined == [posted EXCEPT !.lines = lines]
             told == [lined EXCEPT !.orders[o].status = status]
  <2>3. \A l \in Lines : q[l] \in Nat /\ q[l] <= rows.lines[l].quantity - rows.lines[l].received
    BY <2>1, <2>2, MaxAmountAssumption DEF Receivable
  <2>4. status # "NONE"
    BY DEF ReceivedStatus
  <2>5. ASSUME NEW l \in Lines
        PROVE  /\ DOMAIN lines[l] = {"quantity", "received", "remaining"}
               /\ lines[l].quantity = rows.lines[l].quantity
               /\ lines[l].received = rows.lines[l].received + q[l]
    <3>1. /\ DOMAIN rows.lines[l] = {"quantity", "received", "remaining"}
          /\ rows.lines[l].received \in Nat
      BY <1>1 DEF LineOk
    <3>2. CASE q[l] = 0
      BY <3>1, <3>2
    <3>3. CASE q[l] # 0
      <4> DEFINE received == rows.lines[l].received + q[l]
                 remaining == rows.lines[l].quantity - rows.lines[l].received - q[l]
      <4>1. lines[l] = [[rows.lines[l] EXCEPT !.received = received] EXCEPT !.remaining = remaining]
        BY <2>1, <3>3
      <4> HIDE DEF received, remaining, lines
      <4>2. /\ DOMAIN lines[l] = {"quantity", "received", "remaining"}
            /\ lines[l].quantity = rows.lines[l].quantity /\ lines[l].received = received
        BY <3>1, <4>1
      <4> QED
        BY <4>2 DEF received
    <3> QED
      BY <3>2, <3>3
  <2>6. DOMAIN lines = Lines
    OBVIOUS
  <2>7. /\ DOMAIN receipt = {"status", "quantity"} /\ receipt.status = "POSTED" /\ receipt.quantity = q
    OBVIOUS
  <2>8. \E onHand, moved : rows' = [[told EXCEPT !.onHand = onHand] EXCEPT !.moved = moved]
    <3> HIDE DEF lines, status, Lined
    <3> QED
      BY <2>2, Zenon DEF lines, status
  <2> HIDE DEF lines, status, receipt, Lined
  <2>9. /\ DOMAIN posted = DOMAIN rows /\ posted.requisitions = rows.requisitions
        /\ posted.returns = rows.returns /\ posted.orders = rows.orders
        /\ posted.receipts = [rows.receipts EXCEPT ![r] = receipt]
    BY <1>2
  <2> HIDE DEF posted
  <2>10. /\ DOMAIN lined = DOMAIN rows /\ lined.requisitions = rows.requisitions
         /\ lined.returns = rows.returns /\ lined.orders = rows.orders /\ lined.lines = lines
         /\ lined.receipts = [rows.receipts EXCEPT ![r] = receipt]
    BY <1>2, <2>9
  <2> HIDE DEF lined
  <2>11. /\ DOMAIN told = DOMAIN rows /\ told.requisitions = rows.requisitions
         /\ told.returns = rows.returns /\ told.lines = lines
         /\ told.receipts = [rows.receipts EXCEPT ![r] = receipt]
         /\ DOMAIN told.orders = {1} /\ DOMAIN told.orders[1] = {"status"}
         /\ told.orders[1].status = status
    BY <1>2, <2>10
  <2> HIDE DEF told
  <2>12. /\ DOMAIN rows' = DOMAIN rows /\ rows'.requisitions = rows.requisitions
         /\ rows'.returns = rows.returns /\ rows'.lines = lines
         /\ rows'.receipts = [rows.receipts EXCEPT ![r] = receipt]
         /\ rows'.orders = told.orders
    BY <1>2, <2>8, <2>11
  <2>13. \A l \in Lines : LineOk(lines[l], [rows.receipts EXCEPT ![r] = receipt], l)
    <3>1. \A l \in Lines :
            /\ receipt.quantity[l] \in Nat
            /\ receipt.quantity[l] <= rows.lines[l].quantity - rows.lines[l].received
            /\ DOMAIN lines[l] = {"quantity", "received", "remaining"}
            /\ lines[l].quantity = rows.lines[l].quantity
            /\ lines[l].received = rows.lines[l].received + receipt.quantity[l]
      BY <2>3, <2>5, <2>7
    <3>2. rows.receipts[r].status # "POSTED"
      BY <2>1
    <3> QED
      BY <1>14, <2>6, <2>7, <3>1, <3>2
  <2>14. /\ DOMAIN rows'.orders = {1} /\ DOMAIN rows'.orders[1] = {"status"}
         /\ rows'.orders[1].status # "NONE" /\ receipt.status # "NONE"
         /\ \A l \in Lines : receipt.quantity[l] \in Nat
    BY <2>3, <2>4, <2>7, <2>11, <2>12
  <2> QED
    BY <1>7, <2>1, <2>6, <2>7, <2>12, <2>13, <2>14
\* What is written about the return.
<1>19. ASSUME NEW returned, DOMAIN returned = {"status", "receipt", "quantity"},
              DOMAIN rows' = DOMAIN rows, rows'.requisitions = rows.requisitions,
              rows'.orders = rows.orders, rows'.lines = rows.lines, rows'.receipts = rows.receipts,
              rows'.returns = [rows.returns EXCEPT ![1] = returned],
              \A l \in Lines : returned.quantity[l] \in Nat,
              returned.status \in {"DRAFT", "POSTED"} =>
                /\ returned.receipt \in {1, 2} /\ rows.receipts[returned.receipt].status # "NONE"
                /\ \A l \in Lines : returned.quantity[l] <= rows.receipts[returned.receipt].quantity[l]
       PROVE  PurchasingOk(rows')
  <2>1. DOMAIN rows'.returns = {1} /\ rows'.returns[1] = returned
    BY <1>2, <1>19
  <2>2. PurchasingShape(rows')
    BY <1>2, <1>19, <2>1 DEF PurchasingShape
  <2>3. ReceiptsOk(rows'.receipts, rows'.returns)
    BY <1>1, <1>19, <2>1 DEF ReceiptsOk
  <2> QED
    BY <1>1, <1>19, <2>2, <2>3 DEF PurchasingOk
<1>20. ASSUME NEW t \in {1}, NEW r \in {1, 2}, CreatePurchaseReturn(w, t, r)
       PROVE  PurchasingOk(rows')
  <2>1. /\ rows.returns[1].status = "NONE" /\ rows.receipts[r].status # "NONE" /\ Seen(w) = rows
    BY <1>20 DEF CreatePurchaseReturn, Creates, At
  <2>2. PICK q \in [Lines -> 0..MaxAmount] :
          /\ \A l \in Lines : q[l] <= rows.receipts[r].quantity[l] - ReturnedOf(rows, r)[l]
          /\ rows' = [rows EXCEPT !.returns[1] = [status |-> "DRAFT", receipt |-> r, quantity |-> q]]
    BY <1>20, <2>1 DEF CreatePurchaseReturn, Commit
  <2> DEFINE returned == [status |-> "DRAFT", receipt |-> r, quantity |-> q]
  <2>3. /\ DOMAIN returned = {"status", "receipt", "quantity"} /\ returned.receipt = r
        /\ returned.quantity = q
    OBVIOUS
  <2>4. rows' = [rows EXCEPT !.returns[1] = returned]
    BY <2>2
  <2> HIDE DEF returned
  <2>5. /\ DOMAIN rows' = DOMAIN rows /\ rows'.requisitions = rows.requisitions
        /\ rows'.orders = rows.orders /\ rows'.lines = rows.lines /\ rows'.receipts = rows.receipts
        /\ rows'.returns = [rows.returns EXCEPT ![1] = returned]
    BY <1>2, <2>4
  <2>6. ASSUME NEW l \in Lines PROVE q[l] \in Nat /\ q[l] <= rows.receipts[r].quantity[l]
    <3>1. ReturnedOf(rows, r)[l] = 0
      BY <1>1, <2>1, ReturnedOfIs
    <3> QED
      BY <1>1, <2>2, <3>1, MaxAmountAssumption DEF ReceiptsOk
  <2> QED
    BY <1>19, <2>1, <2>3, <2>5, <2>6
<1>21. ASSUME NEW t \in {1}, PostPurchaseReturn(w, t) \/ CancelPurchaseReturn(w, t)
       PROVE  PurchasingOk(rows')
  <2> DEFINE Told(status, moved, onHand) ==
               [[[rows EXCEPT !.returns[1].status = status] EXCEPT !.moved = moved]
                  EXCEPT !.onHand = onHand]
  <2>1. /\ rows.returns[1].status = "DRAFT"
        /\ \E status, moved, onHand : rows' = Told(status, moved, onHand)
    <3>1. CASE PostPurchaseReturn(w, t)
      <4>1. rows.returns[1].status = "DRAFT"
        BY <3>1 DEF PostPurchaseReturn, Changes, At
      <4> QED
        BY <3>1, <4>1 DEF PostPurchaseReturn, Commit
    <3>2. CASE CancelPurchaseReturn(w, t)
      <4>1. /\ rows.returns[1].status = "DRAFT"
            /\ rows' = [rows EXCEPT !.returns[1].status = "CANCELLED"]
        BY <3>2 DEF CancelPurchaseReturn, SetStatus, Changes, Commit, At
      <4>2. rows' = Told("CANCELLED", rows.moved, rows.onHand)
        BY <1>2, <4>1
      <4> HIDE DEF Told
      <4> QED
        BY <4>1, <4>2
    <3> QED
      BY <1>21, <3>1, <3>2
  <2>2. PICK status, moved, onHand : rows' = Told(status, moved, onHand)
    BY <2>1
  <2> DEFINE returned == [rows.returns[1] EXCEPT !.status = status]
             told == [rows EXCEPT !.returns[1].status = status]
  <2>3. /\ DOMAIN returned = {"status", "receipt", "quantity"}
        /\ returned.receipt = rows.returns[1].receipt /\ returned.quantity = rows.returns[1].quantity
    BY <1>2
  <2>4. told = [rows EXCEPT !.returns[1] = returned]
    BY <1>2
  <2> HIDE DEF returned
  <2>5. /\ DOMAIN told = DOMAIN rows /\ told.requisitions = rows.requisitions
        /\ told.orders = rows.orders /\ told.lines = rows.lines /\ told.receipts = rows.receipts
        /\ told.returns = [rows.returns EXCEPT ![1] = returned]
    BY <1>2, <2>4
  <2> HIDE DEF told
  <2>6. /\ DOMAIN rows' = DOMAIN rows /\ rows'.requisitions = rows.requisitions
        /\ rows'.orders = rows.orders /\ rows'.lines = rows.lines /\ rows'.receipts = rows.receipts
        /\ rows'.returns = [rows.returns EXCEPT ![1] = returned]
    BY <1>2, <2>2, <2>5 DEF told
  <2>7. /\ \A l \in Lines : returned.quantity[l] \in Nat
        /\ returned.receipt \in {1, 2} /\ rows.receipts[returned.receipt].status # "NONE"
        /\ \A l \in Lines : returned.quantity[l] <= rows.receipts[returned.receipt].quantity[l]
    BY <1>1, <2>1, <2>3, SMTT(30) DEF ReceiptsOk
  <2> QED
    BY <1>19, <2>3, <2>6, <2>7
<1> QED
  BY <1>2, <1>9, <1>10, <1>11, <1>12, <1>13, <1>15, <1>16, <1>17, <1>18, <1>20, <1>21
     DEF PurchasingNext

LEMMA NoPurchasingOk == PurchasingOk(NoPurchasing)
  BY DEF NoPurchasing, PurchasingOk, PurchasingShape, ReceiptsOk, LineOk, Brought, NoQuantities

\* PurchasingOk implies what is said about purchasing.
LEMMA PurchasedGoodsAddUpThen ==
  ASSUME PurchasingOk(rows)
  PROVE  PurchasedGoodsAddUp
<1>1. /\ PurchasingShape(rows) /\ ReceiptsOk(rows.receipts, rows.returns)
      /\ \A l \in Lines : LineOk(rows.lines[l], rows.receipts, l)
  BY DEF PurchasingOk
<1> DEFINE posted == {r \in DOMAIN rows.receipts : rows.receipts[r].status = "POSTED"}
           receipted == SumOver(posted, rows.receipts)
<1> SUFFICES ASSUME NEW l \in Lines
             PROVE  /\ rows.lines[l].received = receipted[l]
                    /\ receipted[l] <= rows.lines[l].quantity
                    /\ \A r \in posted : ReturnedOf(rows, r)[l] <= rows.receipts[r].quantity[l]
  BY DEF PurchasedGoodsAddUp
<1>2. receipted[l] = Brought(rows.receipts, 1, l) + Brought(rows.receipts, 2, l)
  BY <1>1, ReceiptedIs
<1>3. ASSUME NEW r \in posted PROVE ReturnedOf(rows, r)[l] <= rows.receipts[r].quantity[l]
  <2>1. r \in {1, 2}
    BY <1>1 DEF PurchasingShape
  <2>2. ReturnedOf(rows, r)[l] =
          IF rows.returns[1].receipt = r /\ rows.returns[1].status \in {"DRAFT", "POSTED"}
          THEN rows.returns[1].quantity[l] ELSE 0
    BY <1>1, <2>1, ReturnedOfIs
  <2> QED
    BY <1>1, <2>1, <2>2 DEF ReceiptsOk
<1>4. LineOk(rows.lines[l], rows.receipts, l)
  BY <1>1
<1> HIDE DEF receipted
<1> QED
  BY <1>2, <1>3, <1>4 DEF LineOk

-----------------------------------------------------------------------------
(* costing: the layers of an item. *)

\* What is left in the first i layers.
LeftIn(layers, i) == SumFunctionOnSet([j \in 1..Len(layers) |-> Remaining(layers[j])], 1..i)

\* Layers of which no more was consumed than was received.
LayersType(layers) ==
  /\ layers \in Seq([received : Nat, consumed : Nat])
  /\ \A i \in 1..Len(layers) : layers[i].consumed <= layers[i].received

\* The oldest are used up first.
LayersOrdered(layers) ==
  \A i \in 1..Len(layers) : layers[i].consumed > 0 =>
    \A j \in 1..(i - 1) : Remaining(layers[j]) = 0

CostingOk(db) ==
  /\ DOMAIN db = {"domain", "onHand", "layers"}
  /\ db.onHand \in Int /\ LayersType(db.layers) /\ LayersOrdered(db.layers)
  /\ LeftIn(db.layers, Len(db.layers)) >= db.onHand

\* What layer i has left is a natural number.
LEMMA RemainingNat ==
  ASSUME NEW layers, LayersType(layers)
  PROVE  /\ Len(layers) \in Nat /\ DOMAIN layers = 1..Len(layers)
         /\ \A i \in 1..Len(layers) :
              /\ Remaining(layers[i]) \in Nat /\ layers[i] \in [received : Nat, consumed : Nat]
<1> layers \in Seq([received : Nat, consumed : Nat])
  BY Zenon DEF LayersType
<1>1. Len(layers) \in Nat /\ DOMAIN layers = 1..Len(layers)
  BY LenProperties
<1>2. ASSUME NEW i \in 1..Len(layers)
      PROVE  /\ Remaining(layers[i]) \in Nat /\ layers[i] \in [received : Nat, consumed : Nat]
  <2>1. /\ layers[i] \in [received : Nat, consumed : Nat]
        /\ layers[i].consumed <= layers[i].received
    <3>1. layers[i] \in [received : Nat, consumed : Nat]
      BY ElementOfSeq
    <3>2. layers[i].consumed <= layers[i].received
      BY Zenon DEF LayersType
    <3> QED
      BY <3>1, <3>2
  <2>2. layers[i].consumed \in Nat /\ layers[i].received \in Nat
    BY <2>1
  <2> QED
    BY <2>1, <2>2 DEF Remaining
<1> QED
  BY <1>1, <1>2

\* Layer by layer, what is left adds up.
LEMMA LeftInUnfolds ==
  ASSUME NEW layers, LayersType(layers)
  PROVE  /\ LeftIn(layers, 0) = 0
         /\ \A i \in 1..Len(layers) : /\ LeftIn(layers, i) = LeftIn(layers, i - 1) + Remaining(layers[i])
                                      /\ LeftIn(layers, i - 1) \in Nat /\ LeftIn(layers, i) \in Nat
<1> DEFINE N == Len(layers)
           f == [j \in 1..N |-> Remaining(layers[j])]
<1>1. N \in Nat /\ \A j \in 1..N : f[j] \in Nat /\ f[j] = Remaining(layers[j])
  BY RemainingNat
<1>2. \A i : LeftIn(layers, i) = SumFunctionOnSet(f, 1..i)
  BY DEF LeftIn
<1> HIDE DEF f, N
<1>3. LeftIn(layers, 0) = 0
  <2>1. 1..0 = {}
    OBVIOUS
  <2> QED
    BY <1>2, <2>1, SumEmpty
<1>4. ASSUME NEW i \in 1..N
      PROVE  /\ LeftIn(layers, i) = LeftIn(layers, i - 1) + Remaining(layers[i])
             /\ LeftIn(layers, i - 1) \in Nat /\ LeftIn(layers, i) \in Nat
  <2>1. /\ 1..i = (1..(i - 1)) \cup {i} /\ i \notin 1..(i - 1)
        /\ \A j \in (1..(i - 1)) \cup {i} : j \in 1..N
    BY <1>1
  <2>2. IsFiniteSet(1..(i - 1)) /\ IsFiniteSet(1..i)
    <3>1. 1 \in Int /\ i - 1 \in Int /\ i \in Int
      BY <1>1
    <3> QED
      BY <3>1, FS_Interval, Zenon
  <2>3. \A j \in (1..(i - 1)) \cup {i} : f[j] \in Int
    BY <1>1, <2>1
  <2>4. SumFunctionOnSet(f, (1..(i - 1)) \cup {i}) = f[i] + SumFunctionOnSet(f, 1..(i - 1))
    BY <2>1, <2>2, <2>3, SumAdd
  <2>5. SumFunctionOnSet(f, 1..(i - 1)) \in Nat /\ SumFunctionOnSet(f, 1..i) \in Nat
    <3>1. (\A j \in 1..(i - 1) : f[j] \in Nat) /\ (\A j \in 1..i : f[j] \in Nat)
      BY <1>1, <2>1
    <3> QED
      BY <2>2, <3>1, SumNat
  <2>6. f[i] \in Nat /\ f[i] = Remaining(layers[i])
    BY <1>1
  <2>7. SumFunctionOnSet(f, 1..i) = f[i] + SumFunctionOnSet(f, 1..(i - 1))
    BY <2>1, <2>4
  <2>8. /\ LeftIn(layers, i) = SumFunctionOnSet(f, 1..i)
        /\ LeftIn(layers, i - 1) = SumFunctionOnSet(f, 1..(i - 1))
    BY <1>2
  <2> QED
    BY <2>5, <2>6, <2>7, <2>8
<1> QED
  BY <1>3, <1>4 DEF N

\* More layers hold no less.
LEMMA LeftInGrows ==
  ASSUME NEW layers, LayersType(layers), NEW i \in 0..Len(layers), NEW j \in 0..i
  PROVE  LeftIn(layers, j) <= LeftIn(layers, i) /\ LeftIn(layers, i) \in Nat /\ LeftIn(layers, j) \in Nat
<1> DEFINE N == Len(layers)
           P == {n \in Nat : n <= N => LeftIn(layers, n) \in Nat /\
                               \A m \in 0..n : LeftIn(layers, m) <= LeftIn(layers, n)}
<1>1. N \in Nat
  BY RemainingNat
<1>2. 0 \in P
  <2>1. LeftIn(layers, 0) = 0 /\ 0..0 = {0}
    BY LeftInUnfolds
  <2> QED
    BY <2>1
<1>3. ASSUME NEW n \in Nat, n \in P PROVE n + 1 \in P
  <2> SUFFICES ASSUME n + 1 <= N
               PROVE  LeftIn(layers, n + 1) \in Nat /\
                        \A m \in 0..(n + 1) : LeftIn(layers, m) <= LeftIn(layers, n + 1)
    OBVIOUS
  <2>1. n + 1 \in 1..N /\ (n + 1) - 1 = n
    BY <1>1
  <2>2. /\ LeftIn(layers, n + 1) = LeftIn(layers, n) + Remaining(layers[n + 1])
        /\ LeftIn(layers, n) \in Nat /\ LeftIn(layers, n + 1) \in Nat
        /\ Remaining(layers[n + 1]) \in Nat
    BY <2>1, LeftInUnfolds, RemainingNat
  <2>3. \A m \in 0..n : LeftIn(layers, m) <= LeftIn(layers, n) /\ LeftIn(layers, m) \in Nat
    <3>1. \A m \in 0..n : LeftIn(layers, m) <= LeftIn(layers, n)
      BY <1>1, <1>3
    <3>2. \A m \in 0..n : m = 0 \/ m \in 1..N
      BY <1>1, <2>1
    <3> QED
      BY <3>1, <3>2, LeftInUnfolds
  <2> QED
    BY <2>2, <2>3
<1>4. Nat \subseteq P
  <2> HIDE DEF P
  <2> QED
    BY <1>2, <1>3, FromZero
<1>5. i \in P /\ i <= N /\ j \in Nat
  BY <1>1, <1>4
<1>6. \A m \in 0..i : m = 0 \/ m \in 1..N
  BY <1>1
<1> QED
  BY <1>5, <1>6, LeftInUnfolds

\* What layer i gives of n, when `before` is left in those before it.
LEMMA TakenFromIs ==
  ASSUME NEW layers, LayersType(layers), NEW n \in Nat, NEW i \in 1..Len(layers)
  PROVE  /\ TakenFrom(layers, n, i) \in Nat /\ TakenFrom(layers, n, i) <= Remaining(layers[i])
         /\ TakenFrom(layers, n, i) = Lesser(n, LeftIn(layers, i)) - Lesser(n, LeftIn(layers, i - 1))
<1> DEFINE f == [j \in 1..Len(layers) |-> Remaining(layers[j])]
           g == [j \in 1..(i - 1) |-> Remaining(layers[j])]
           before == SumFunction(g)
<1>1. Len(layers) \in Nat
  BY RemainingNat
<1>2. IsFiniteSet(1..(i - 1))
  <2>1. 1 \in Int /\ i - 1 \in Int
    BY <1>1
  <2> QED
    BY <2>1, FS_Interval, Zenon
<1>3. \A j \in 1..(i - 1) : g[j] = f[j]
  BY <1>1
<1>4. DOMAIN g = 1..(i - 1)
  OBVIOUS
<1>5. before = LeftIn(layers, i - 1)
  <2>1. before = SumFunctionOnSet(g, 1..(i - 1))
    BY <1>4 DEF SumFunction
  <2>2. LeftIn(layers, i - 1) = SumFunctionOnSet(f, 1..(i - 1))
    BY DEF LeftIn
  <2> HIDE DEF g, f, before
  <2>3. SumFunctionOnSet(g, 1..(i - 1)) = SumFunctionOnSet(f, 1..(i - 1))
    BY <1>2, <1>3, SumEqual
  <2> QED
    BY <2>1, <2>2, <2>3
<1>6. TakenFrom(layers, n, i) =
        LET wanted == IF n > before THEN n - before ELSE 0
        IN  IF wanted < Remaining(layers[i]) THEN wanted ELSE Remaining(layers[i])
  BY DEF TakenFrom
<1> HIDE DEF before
<1> QED
  BY <1>5, <1>6, LeftInUnfolds, RemainingNat DEF Lesser

\* Sequences with the same domain have the same length.
LEMMA SameLength ==
  ASSUME NEW m \in Nat, NEW n \in Nat, 1..m = 1..n
  PROVE  m = n
<1>1. (m > 0 => m \in 1..n) /\ (n > 0 => n \in 1..m)
  OBVIOUS
<1> QED
  BY <1>1

\* What is consumed, layer by layer, is what TakenFrom says.
LEMMA ConsumedLayers ==
  ASSUME NEW layers, LayersType(layers), NEW n \in Nat
  PROVE  /\ LayersType(ConsumeFifo(layers, n)) /\ Len(ConsumeFifo(layers, n)) = Len(layers)
         /\ \A i \in 1..Len(layers) :
              /\ ConsumeFifo(layers, n)[i].consumed = layers[i].consumed + TakenFrom(layers, n, i)
              /\ Remaining(ConsumeFifo(layers, n)[i]) =
                   Remaining(layers[i]) - TakenFrom(layers, n, i)
<1> DEFINE N == Len(layers)
           new == ConsumeFifo(layers, n)
<1>1. N \in Nat /\ DOMAIN layers = 1..N
  BY RemainingNat
<1>2. new = [i \in 1..N |-> [layers[i] EXCEPT !.consumed = @ + TakenFrom(layers, n, i)]]
  BY <1>1 DEF ConsumeFifo
<1>3. ASSUME NEW i \in 1..N
      PROVE  /\ new[i] \in [received : Nat, consumed : Nat] /\ new[i].consumed <= new[i].received
             /\ new[i].consumed = layers[i].consumed + TakenFrom(layers, n, i)
             /\ Remaining(new[i]) = Remaining(layers[i]) - TakenFrom(layers, n, i)
  <2>1. layers[i] \in [received : Nat, consumed : Nat] /\ layers[i].consumed <= layers[i].received
    BY RemainingNat DEF LayersType
  <2>2. TakenFrom(layers, n, i) \in Nat /\ TakenFrom(layers, n, i) <= Remaining(layers[i])
    BY TakenFromIs
  <2>3. new[i] = [layers[i] EXCEPT !.consumed = @ + TakenFrom(layers, n, i)]
    BY <1>2
  <2> DEFINE t == TakenFrom(layers, n, i)
             l == layers[i]
  <2>4. l.received \in Nat /\ l.consumed \in Nat
    BY <2>1
  <2>5. [l EXCEPT !.consumed = @ + t] = [received |-> l.received, consumed |-> l.consumed + t]
    BY <2>1
  <2>6. t <= l.received - l.consumed /\ t \in Nat
    BY <2>2 DEF Remaining
  <2>7. new[i] = [received |-> l.received, consumed |-> l.consumed + t]
    BY <2>3, <2>5
  <2> HIDE DEF t, l, new
  <2> QED
    BY <2>4, <2>6, <2>7 DEF Remaining, t, l
<1> HIDE DEF new
<1>4. new \in [1..N -> [received : Nat, consumed : Nat]]
  BY <1>2, <1>3
<1>5. new \in Seq([received : Nat, consumed : Nat]) /\ Len(new) = N
  <2>1. new \in UNION {[1..m -> [received : Nat, consumed : Nat]] : m \in Nat}
    BY <1>1, <1>4, Zenon
  <2>2. new \in Seq([received : Nat, consumed : Nat])
    BY <2>1, SeqDef, Zenon
  <2>3. Len(new) \in Nat /\ DOMAIN new = 1..Len(new)
    BY <2>2, LenProperties, Zenon
  <2>4. 1..Len(new) = 1..N
    BY <1>4, <2>3, Zenon
  <2>5. Len(new) = N
    BY <1>1, <2>3, <2>4, SameLength, Zenon
  <2> QED
    BY <2>2, <2>5
<1> QED
  BY <1>3, <1>5 DEF LayersType, new

\* First in, first out: of the first i layers what is wanted is taken, as far
\* as it goes.
LEMMA LeftAfter ==
  ASSUME NEW layers, LayersType(layers), NEW n \in Nat
  PROVE  \A i \in 0..Len(layers) :
           LeftIn(ConsumeFifo(layers, n), i) = LeftIn(layers, i) - Lesser(n, LeftIn(layers, i))
<1> DEFINE N == Len(layers)
           new == ConsumeFifo(layers, n)
           P == {i \in Nat : i <= N =>
                  LeftIn(new, i) = LeftIn(layers, i) - Lesser(n, LeftIn(layers, i))}
<1>1. N \in Nat /\ Len(new) = N /\ LayersType(new)
  BY RemainingNat, ConsumedLayers
<1> HIDE DEF new
<1>2. 0 \in P
  <2>1. LeftIn(new, 0) = 0 /\ LeftIn(layers, 0) = 0
    BY <1>1, LeftInUnfolds
  <2> QED
    BY <2>1 DEF Lesser
<1>3. ASSUME NEW i \in Nat, i \in P PROVE i + 1 \in P
  <2> SUFFICES ASSUME i + 1 <= N
               PROVE  LeftIn(new, i + 1) =
                        LeftIn(layers, i + 1) - Lesser(n, LeftIn(layers, i + 1))
    OBVIOUS
  <2>1. i + 1 \in 1..N /\ (i + 1) - 1 = i
    BY <1>1
  <2>2. /\ LeftIn(new, i + 1) = LeftIn(new, i) + Remaining(new[i + 1])
        /\ LeftIn(new, i) \in Nat
    BY <1>1, <2>1, LeftInUnfolds
  <2>3. /\ LeftIn(layers, i + 1) = LeftIn(layers, i) + Remaining(layers[i + 1])
        /\ LeftIn(layers, i) \in Nat /\ LeftIn(layers, i + 1) \in Nat
        /\ Remaining(layers[i + 1]) \in Nat
    BY <2>1, LeftInUnfolds, RemainingNat
  <2>4. Remaining(new[i + 1]) = Remaining(layers[i + 1]) - TakenFrom(layers, n, i + 1)
    BY <2>1, ConsumedLayers DEF new
  <2>5. /\ TakenFrom(layers, n, i + 1) =
             Lesser(n, LeftIn(layers, i + 1)) - Lesser(n, LeftIn(layers, i))
        /\ TakenFrom(layers, n, i + 1) \in Nat
    BY <2>1, TakenFromIs
  <2>6. LeftIn(new, i) = LeftIn(layers, i) - Lesser(n, LeftIn(layers, i))
    BY <1>1, <1>3
  <2>7. /\ Lesser(n, LeftIn(layers, i + 1)) \in Nat /\ Lesser(n, LeftIn(layers, i)) \in Nat
    BY <2>3 DEF Lesser
  <2> QED
    BY <2>2, <2>3, <2>4, <2>5, <2>6, <2>7
<1>4. Nat \subseteq P
  <2> HIDE DEF P
  <2> QED
    BY <1>2, <1>3, FromZero
<1> QED
  BY <1>1, <1>4 DEF new

\* The oldest are still used up first.
LEMMA OldestFirst ==
  ASSUME NEW layers, LayersType(layers), LayersOrdered(layers), NEW n \in Nat
  PROVE  LayersOrdered(ConsumeFifo(layers, n))
<1> DEFINE N == Len(layers)
           new == ConsumeFifo(layers, n)
<1>1. N \in Nat /\ Len(new) = N
  BY RemainingNat, ConsumedLayers
<1>2. ASSUME NEW i \in 1..N
      PROVE  /\ new[i].consumed = layers[i].consumed + TakenFrom(layers, n, i)
             /\ Remaining(new[i]) = Remaining(layers[i]) - TakenFrom(layers, n, i)
             /\ layers[i].consumed \in Nat /\ Remaining(layers[i]) \in Nat
             /\ TakenFrom(layers, n, i) \in Nat /\ TakenFrom(layers, n, i) <= Remaining(layers[i])
             /\ TakenFrom(layers, n, i) =
                  Lesser(n, LeftIn(layers, i)) - Lesser(n, LeftIn(layers, i - 1))
             /\ LeftIn(layers, i) = LeftIn(layers, i - 1) + Remaining(layers[i])
             /\ LeftIn(layers, i) \in Nat /\ LeftIn(layers, i - 1) \in Nat
  BY ConsumedLayers, RemainingNat, TakenFromIs, LeftInUnfolds
<1>3. ASSUME NEW i \in 1..N, new[i].consumed > 0, NEW j \in 1..(i - 1)
      PROVE  Remaining(new[j]) = 0
  <2>1. j \in 1..N /\ i - 1 \in 0..N /\ j \in 0..(i - 1)
    BY <1>1
  <2>2. CASE layers[i].consumed > 0
    <3>1. Remaining(layers[j]) = 0
      BY <2>2 DEF LayersOrdered
    <3> HIDE DEF new
    <3>2. /\ Remaining(new[j]) = Remaining(layers[j]) - TakenFrom(layers, n, j)
          /\ TakenFrom(layers, n, j) \in Nat /\ TakenFrom(layers, n, j) <= Remaining(layers[j])
      BY <1>2, <2>1
    <3> QED
      BY <3>1, <3>2
  <2>3. CASE TakenFrom(layers, n, i) > 0
    <3> HIDE DEF new
    <3>1. n > LeftIn(layers, i - 1)
      BY <1>2, <2>3 DEF Lesser
    <3>2. LeftIn(layers, j) <= LeftIn(layers, i - 1)
      BY <2>1, LeftInGrows
    <3>3. /\ LeftIn(layers, j) = LeftIn(layers, j - 1) + Remaining(layers[j])
          /\ LeftIn(layers, j) \in Nat /\ LeftIn(layers, j - 1) \in Nat
          /\ LeftIn(layers, i - 1) \in Nat /\ Remaining(layers[j]) \in Nat
      BY <1>2, <2>1
    <3>4. Lesser(n, LeftIn(layers, j)) = LeftIn(layers, j)
          /\ Lesser(n, LeftIn(layers, j - 1)) = LeftIn(layers, j - 1)
      BY <3>1, <3>2, <3>3 DEF Lesser
    <3>5. TakenFrom(layers, n, j) = Remaining(layers[j])
      <4>1. TakenFrom(layers, n, j) =
              Lesser(n, LeftIn(layers, j)) - Lesser(n, LeftIn(layers, j - 1))
        BY <1>2, <2>1
      <4> QED
        BY <4>1, <3>3, <3>4
    <3>6. Remaining(new[j]) = Remaining(layers[j]) - TakenFrom(layers, n, j)
      BY <1>2, <2>1
    <3> QED
      BY <3>3, <3>5, <3>6
  <2>4. layers[i].consumed > 0 \/ TakenFrom(layers, n, i) > 0
    <3> HIDE DEF new
    <3> QED
      BY <1>2, <1>3, SMTT(30)
  <2> QED
    BY <2>2, <2>3, <2>4
<1> HIDE DEF new
<1> QED
  BY <1>1, <1>3 DEF LayersOrdered, new

\* Every step of costing, when the request has read the layers as they are,
\* preserves CostingOk.
LEMMA CostingStep ==
  ASSUME CostingOk(rows), NEW w \in Workers, CostingNext(w),
         requests[w].pc = "read" => Seen(w) = rows
  PROVE  CostingOk(rows')
<1> DEFINE layers == rows.layers
           N == Len(layers)
<1>1. /\ DOMAIN rows = {"domain", "onHand", "layers"} /\ rows.onHand \in Int
      /\ LayersType(layers) /\ LayersOrdered(layers) /\ LeftIn(layers, N) >= rows.onHand
  BY DEF CostingOk
<1>2. /\ N \in Nat /\ DOMAIN layers = 1..N /\ LeftIn(layers, N) \in Nat
      /\ layers \in Seq([received : Nat, consumed : Nat])
  <2>1. N \in Nat /\ DOMAIN layers = 1..N
    BY <1>1, RemainingNat
  <2>2. N \in 0..N
    BY <2>1
  <2>3. LeftIn(layers, N) \in Nat
    BY <1>1, <2>2, LeftInGrows
  <2> QED
    BY <1>1, <2>1, <2>3, Zenon DEF LayersType
<1>3. \A n \in Amounts : n \in Nat
  BY MaxAmountAssumption DEF Amounts
<1>4. ASSUME NEW onHand \in Int, NEW new, LayersType(new), LayersOrdered(new),
             LeftIn(new, Len(new)) >= onHand,
             rows' = [rows EXCEPT !.onHand = onHand, !.layers = new]
      PROVE  CostingOk(rows')
  <2>1. DOMAIN rows' = DOMAIN rows /\ rows'.onHand = onHand /\ rows'.layers = new
    BY <1>1, <1>4
  <2> QED
    BY <1>1, <1>4, <2>1 DEF CostingOk
<1>5. ASSUME RecordIn(w) PROVE CostingOk(rows')
  <2>1. PICK n \in Amounts : Commit(w, Inbound(w, n))
    BY <1>5, Zenon DEF RecordIn
  <2>2. Seen(w) = rows
    BY <1>5 DEF RecordIn, At
  <2> DEFINE layer == [received |-> n, consumed |-> 0]
             new == Append(layers, layer)
             onHand == rows.onHand + n
  <2>3. rows' = [rows EXCEPT !.onHand = onHand, !.layers = new]
    BY <2>1, <2>2 DEF Commit, Inbound
  <2>4. /\ new \in Seq([received : Nat, consumed : Nat]) /\ Len(new) = N + 1
        /\ \A i \in 1..N : new[i] = layers[i]
        /\ new[N + 1] = layer
    <3>1. layer \in [received : Nat, consumed : Nat]
      BY <1>3
    <3> HIDE DEF layer
    <3> QED
      BY <1>2, <3>1, AppendProperties
  <2>5. layer.received = n /\ layer.consumed = 0 /\ n \in Nat /\ Remaining(layer) = n
    BY <1>3 DEF Remaining
  <2> HIDE DEF layer, new
  <2>6. \A i \in 1..Len(new) : i \in 1..N \/ i = N + 1
    BY <1>2, <2>4
  <2>7. LayersType(new)
    <3>1. \A i \in 1..N : layers[i].consumed <= layers[i].received
      BY <1>1, Zenon DEF LayersType
    <3>2. \A i \in 1..N : new[i].consumed <= new[i].received
      BY <2>4, <3>1
    <3>3. new[N + 1].consumed <= new[N + 1].received
      <4>1. layer.received \in Nat /\ layer.consumed <= layer.received
        BY <2>5
      <4> QED
        BY <2>4, <4>1
    <3>4. \A i \in 1..Len(new) : new[i].consumed <= new[i].received
      BY <2>6, <3>2, <3>3
    <3> QED
      BY <2>4, <3>4 DEF LayersType
  <2>8. LayersOrdered(new)
    <3>1. ASSUME NEW i \in 1..Len(new), new[i].consumed > 0, NEW j \in 1..(i - 1)
          PROVE  Remaining(new[j]) = 0
      <4>1. i \in 1..N
        <5>1. new[N + 1].consumed = 0
          BY <2>4, <2>5
        <5>2. i # N + 1
          BY <3>1, <5>1
        <5> QED
          BY <2>6, <5>2
      <4>2. j \in 1..N
        BY <1>2, <4>1
      <4> QED
        BY <1>1, <2>4, <3>1, <4>1, <4>2 DEF LayersOrdered
    <3> QED
      BY <3>1 DEF LayersOrdered
  <2>9. LeftIn(new, N) = LeftIn(layers, N)
    <3> DEFINE f == [j \in 1..N |-> Remaining(layers[j])]
               g == [j \in 1..Len(new) |-> Remaining(new[j])]
    <3>1. IsFiniteSet(1..N)
      <4>1. 1 \in Int /\ N \in Int
        BY <1>2
      <4> QED
        BY <4>1, FS_Interval, Zenon
    <3>2. \A j \in 1..N : f[j] = g[j]
      <4>1. Len(new) = N + 1 /\ \A j \in 1..N : new[j] = layers[j]
        BY <2>4
      <4>2. \A j \in 1..N : j \in 1..(N + 1)
        <5> HIDE DEF f, g, N, new, layers
        <5> QED
          BY <1>2
      <4>3. \A j \in 1..N : j \in 1..Len(new) /\ new[j] = layers[j]
        BY <4>1, <4>2, Zenon
      <4> QED
        BY <4>3, Zenon
    <3>3. LeftIn(layers, N) = SumFunctionOnSet(f, 1..N) /\ LeftIn(new, N) = SumFunctionOnSet(g, 1..N)
      BY DEF LeftIn
    <3> HIDE DEF f, g
    <3> QED
      BY <3>1, <3>2, <3>3, SumEqual
  <2>10. LeftIn(new, N + 1) = LeftIn(layers, N) + n
    <3>1. N + 1 \in 1..Len(new) /\ (N + 1) - 1 = N
      BY <1>2, <2>4
    <3>2. LeftIn(new, N + 1) = LeftIn(new, N) + Remaining(new[N + 1])
      BY <2>7, <3>1, LeftInUnfolds
    <3> QED
      BY <2>4, <2>5, <2>9, <3>2
  <2>11. onHand \in Int /\ LeftIn(new, Len(new)) >= onHand
    BY <1>1, <1>2, <2>4, <2>5, <2>10
  <2> HIDE DEF onHand
  <2> QED
    BY <1>4, <2>3, <2>7, <2>8, <2>11
<1>6. ASSUME RecordOut(w) PROVE CostingOk(rows')
  <2>1. PICK n \in Amounts : Commit(w, Outbound(w, n))
    BY <1>6, Zenon DEF RecordOut
  <2>2. Seen(w) = rows
    BY <1>6 DEF RecordOut, At
  <2> DEFINE new == ConsumeFifo(layers, n)
             rest == SubSeq(layers, N + 1, N)
             onHand == rows.onHand - n
  <2>3. rows' = [rows EXCEPT !.onHand = onHand, !.layers = new \o rest]
    BY <2>1, <2>2 DEF Commit, Outbound
  <2>4. n \in Nat
    BY <1>3
  <2>5. LayersType(new) /\ Len(new) = N /\ LayersOrdered(new)
    BY <1>1, <2>4, ConsumedLayers, OldestFirst
  <2>6. LeftIn(new, N) = LeftIn(layers, N) - Lesser(n, LeftIn(layers, N))
    <3>1. N \in 0..N
      BY <1>2
    <3> QED
      BY <1>1, <2>4, <3>1, LeftAfter
  <2>7. onHand \in Int /\ LeftIn(new, Len(new)) >= onHand
    BY <1>1, <1>2, <2>4, <2>5, <2>6 DEF Lesser
  <2> HIDE DEF new, onHand
  <2>8. rest = <<>>
    BY <1>2, SubSeqEmpty
  <2>9. new \o rest = new
    <3>1. new \in Seq([received : Nat, consumed : Nat])
      BY <2>5, Zenon DEF LayersType
    <3> QED
      BY <2>8, <3>1, ConcatEmptySeq
  <2>10. rows' = [rows EXCEPT !.onHand = onHand, !.layers = new]
    BY <2>3, <2>9
  <2> QED
    BY <1>4, <2>5, <2>7, <2>10
<1> QED
  BY <1>5, <1>6 DEF CostingNext, RecordReceipt, RecordReturnRestock, RecordAdjustmentIn,
     RecordAdjustmentOut, RecordAndPostCogs

\* There are no layers at first.
LEMMA NoCostingOk == CostingOk(NoCosting)
<1>1. LayersType(<<>>) /\ LayersOrdered(<<>>) /\ Len(<<>>) = 0
  BY DEF LayersType, LayersOrdered
<1>2. LeftIn(<<>>, 0) = 0
  BY <1>1, LeftInUnfolds
<1> QED
  BY <1>1, <1>2 DEF CostingOk, NoCosting

\* What the invariant says of costs.
LEMMA LayersAreFifoThen ==
  ASSUME CostingOk(rows)
  PROVE  LayersAreFifo
<1>1. LayersType(rows.layers) /\ LayersOrdered(rows.layers)
      /\ LeftIn(rows.layers, Len(rows.layers)) >= rows.onHand
  BY DEF CostingOk
<1>2. /\ Len(rows.layers) \in Nat /\ DOMAIN rows.layers = 1..Len(rows.layers)
      /\ \A i \in 1..Len(rows.layers) : rows.layers[i] \in [received : Nat, consumed : Nat]
  BY <1>1, RemainingNat
<1>3. \A i \in DOMAIN rows.layers : rows.layers[i].consumed \in 0..rows.layers[i].received
  BY <1>1, <1>2 DEF LayersType
<1>4. SumFunction([i \in DOMAIN rows.layers |-> Remaining(rows.layers[i])]) =
        LeftIn(rows.layers, Len(rows.layers))
  BY <1>2 DEF SumFunction, LeftIn
<1> QED
  BY <1>1, <1>2, <1>3, <1>4 DEF LayersAreFifo, LayersOrdered

-----------------------------------------------------------------------------
(* ledger: what lines add up to, entry by entry and account by account. *)

\* A sum over a set is one over a part of it and one over the rest,
LEMMA SumSplit ==
  ASSUME NEW f, NEW S, IsFiniteSet(S), NEW T \in SUBSET S, \A x \in S : f[x] \in Int
  PROVE  /\ SumFunctionOnSet(f, S) = SumFunctionOnSet(f, T) + SumFunctionOnSet(f, S \ T)
         /\ SumFunctionOnSet(f, T) \in Int /\ SumFunctionOnSet(f, S \ T) \in Int
<1> DEFINE g == [x \in S |-> IF x \in T THEN f[x] ELSE 0]
           h == [x \in S |-> IF x \in T THEN 0 ELSE f[x]]
<1>1. /\ \A x \in S : g[x] \in Int /\ h[x] \in Int /\ f[x] = g[x] + h[x]
      /\ \A x \in S \ T : g[x] = 0 /\ h[x] = f[x]
      /\ \A x \in T : g[x] = f[x] /\ h[x] = 0
  OBVIOUS
<1>2. IsFiniteSet(T) /\ IsFiniteSet(S \ T) /\ S \ T \in SUBSET S /\ S \ (S \ T) = T
  BY FS_Subset
<1> HIDE DEF g, h
<1>3. SumFunctionOnSet(f, S) = SumFunctionOnSet(g, S) + SumFunctionOnSet(h, S)
  BY <1>1, SumPlus
<1>4. SumFunctionOnSet(g, T) = SumFunctionOnSet(g, S)
  <2>1. \A x \in S : g[x] \in Int
    BY <1>1
  <2>2. \A x \in S \ T : g[x] = 0
    BY <1>1
  <2> QED
    BY <2>1, <2>2, SumSubset
<1>5. SumFunctionOnSet(h, S \ T) = SumFunctionOnSet(h, S)
  <2>1. \A x \in S : h[x] \in Int
    BY <1>1
  <2>2. \A x \in S \ (S \ T) : h[x] = 0
    BY <1>1, <1>2
  <2> QED
    BY <1>2, <2>1, <2>2, SumSubset
<1>6. SumFunctionOnSet(g, T) = SumFunctionOnSet(f, T)
  BY <1>1, <1>2, SumEqual
<1>7. SumFunctionOnSet(h, S \ T) = SumFunctionOnSet(f, S \ T)
  BY <1>1, <1>2, SumEqual
<1>8. SumFunctionOnSet(f, T) \in Int /\ SumFunctionOnSet(f, S \ T) \in Int
  BY <1>2, SumInt
<1> QED
  BY <1>3, <1>4, <1>5, <1>6, <1>7, <1>8

\* one of negated numbers is the negated sum,
LEMMA SumNegated ==
  ASSUME NEW f, NEW g, NEW S, IsFiniteSet(S), \A x \in S : f[x] \in Int /\ g[x] = 0 - f[x]
  PROVE  SumFunctionOnSet(g, S) = 0 - SumFunctionOnSet(f, S)
<1> DEFINE z == [x \in S |-> 0]
<1>1. \A x \in S : f[x] \in Int /\ g[x] \in Int /\ z[x] = f[x] + g[x]
  OBVIOUS
<1>2. \A x \in S : z[x] = 0
  OBVIOUS
<1> HIDE DEF z
<1>3. SumFunctionOnSet(z, S) = SumFunctionOnSet(f, S) + SumFunctionOnSet(g, S)
  BY <1>1, SumPlus
<1>4. SumFunctionOnSet(z, S) = 0
  BY <1>2, SumZero
<1>5. SumFunctionOnSet(f, S) \in Int /\ SumFunctionOnSet(g, S) \in Int
  BY <1>1, SumInt
<1> QED
  BY <1>3, <1>4, <1>5

\* and one with a single number other than 0 is this number.
LEMMA SumSingle ==
  ASSUME NEW f, NEW S, IsFiniteSet(S), NEW b \in S, f[b] \in Int, \A x \in S \ {b} : f[x] = 0
  PROVE  SumFunctionOnSet(f, S) = f[b]
<1>1. \A x \in S : f[x] \in Int
  OBVIOUS
<1>2. SumFunctionOnSet(f, S) = f[b] + SumFunctionOnSet(f, S \ {b})
  BY <1>1, SumRemove
<1>3. SumFunctionOnSet(f, S \ {b}) = 0
  <2>1. IsFiniteSet(S \ {b})
    BY FS_Subset
  <2> QED
    BY <2>1, SumZero
<1> QED
  BY <1>2, <1>3

-----------------------------------------------------------------------------
\* A line of an entry on a live account.
JournalLine(line, live) ==
  /\ DOMAIN line = {"account", "debit", "credit"} /\ line.account \in live
  /\ line.debit \in Int /\ line.credit \in Int

\* The two lines of an entry.
JournalLines(lines, live) ==
  DOMAIN lines = {1, 2} /\ JournalLine(lines[1], live) /\ JournalLine(lines[2], live)

\* What a line, an entry and a set of entries debit account a, less what they
\* credit it.
NetOn(line, a) == IF line.account = a THEN line.debit - line.credit ELSE 0
EntryNet(entry, a) == NetOn(entry.lines[1], a) + NetOn(entry.lines[2], a)
NetOf(r, a, T) == SumFunction([e \in T |-> EntryNet(r.entries[e], a)])

\* Entries that were posted.
JournalsOk(r, T) ==
  \A e \in T : JournalLines(r.entries[e].lines, LiveAccounts(r)) /\ Balanced(r.entries[e].lines)

LEMMA NetDebitIs ==
  ASSUME NEW r, NEW a, NEW first, NEW last
  PROVE  NetDebit(r, a, first, last) = NetOf(r, a, Dated(r, first, last))
  BY DEF NetDebit, NetOf, EntryNet, NetOn

LEMMA LiveFinite ==
  ASSUME NEW r
  PROVE  IsFiniteSet(LiveAccounts(r))
  BY LedgerAssumption, FS_Subset DEF LiveAccounts

\* A line adds its amount to the accounts, on one of them;
LEMMA LineNets ==
  ASSUME NEW live, IsFiniteSet(live), NEW line, JournalLine(line, live)
  PROVE  /\ \A a : NetOn(line, a) \in Int
         /\ SumFunctionOnSet([a \in live |-> NetOn(line, a)], live) = line.debit - line.credit
<1> DEFINE f == [a \in live |-> NetOn(line, a)]
<1>1. line.account \in live /\ line.debit \in Int /\ line.credit \in Int
  BY DEF JournalLine
<1>2. \A a : NetOn(line, a) \in Int
  BY <1>1 DEF NetOn
<1>3. /\ f[line.account] = line.debit - line.credit /\ f[line.account] \in Int
      /\ \A a \in live \ {line.account} : f[a] = 0
  BY <1>1 DEF NetOn
<1> HIDE DEF f
<1>4. SumFunctionOnSet(f, live) = f[line.account]
  BY <1>1, <1>3, SumSingle
<1> QED
  BY <1>2, <1>3, <1>4 DEF f

\* a balanced entry adds nothing;
LEMMA EntryNets ==
  ASSUME NEW live, IsFiniteSet(live), NEW entry, JournalLines(entry.lines, live), Balanced(entry.lines)
  PROVE  /\ \A a : EntryNet(entry, a) \in Int
         /\ SumFunctionOnSet([a \in live |-> EntryNet(entry, a)], live) = 0
<1> DEFINE one == entry.lines[1]
           two == entry.lines[2]
           f == [a \in live |-> NetOn(one, a)]
           g == [a \in live |-> NetOn(two, a)]
           h == [a \in live |-> EntryNet(entry, a)]
<1>1. JournalLine(one, live) /\ JournalLine(two, live)
  BY DEF JournalLines
<1>2. /\ one.debit \in Int /\ one.credit \in Int /\ two.debit \in Int /\ two.credit \in Int
      /\ one.debit + two.debit = one.credit + two.credit
  BY <1>1 DEF JournalLine, Balanced, Debits, Credits
<1>3. \A a : NetOn(one, a) \in Int /\ NetOn(two, a) \in Int
  BY <1>1, LineNets
<1>4. \A a : EntryNet(entry, a) = NetOn(one, a) + NetOn(two, a)
  BY DEF EntryNet
<1>5. /\ SumFunctionOnSet(f, live) = one.debit - one.credit
      /\ SumFunctionOnSet(g, live) = two.debit - two.credit
  BY <1>1, LineNets
<1>6. \A a \in live : f[a] \in Int /\ g[a] \in Int /\ h[a] = f[a] + g[a]
  BY <1>3, <1>4
<1> HIDE DEF f, g, h
<1>7. SumFunctionOnSet(h, live) = SumFunctionOnSet(f, live) + SumFunctionOnSet(g, live)
  BY <1>6, SumPlus
<1>8. SumFunctionOnSet(h, live) = 0
  BY <1>2, <1>5, <1>7
<1> QED
  BY <1>3, <1>4, <1>8 DEF h

\* and so do any number of them.
LEMMA NetsToZero ==
  ASSUME NEW r, NEW T, IsFiniteSet(T), JournalsOk(r, T)
  PROVE  /\ \A a : NetOf(r, a, T) \in Int
         /\ SumFunctionOnSet([a \in LiveAccounts(r) |-> NetOf(r, a, T)], LiveAccounts(r)) = 0
<1> DEFINE live == LiveAccounts(r)
           h(U) == [a \in live |-> NetOf(r, a, U)]
           P == {U \in SUBSET T : SumFunctionOnSet(h(U), live) = 0}
<1>1. IsFiniteSet(live)
  BY LiveFinite
<1>2. ASSUME NEW e \in T
      PROVE  /\ \A a : EntryNet(r.entries[e], a) \in Int
             /\ SumFunctionOnSet([a \in live |-> EntryNet(r.entries[e], a)], live) = 0
  <2>1. JournalLines(r.entries[e].lines, live) /\ Balanced(r.entries[e].lines)
    BY DEF JournalsOk
  <2> QED
    BY <1>1, <2>1, EntryNets
<1>3. ASSUME NEW U \in SUBSET T, NEW a
      PROVE  /\ NetOf(r, a, U) \in Int
             /\ \A e \in U : NetOf(r, a, U) = EntryNet(r.entries[e], a) + NetOf(r, a, U \ {e})
             /\ U = {} => NetOf(r, a, U) = 0
  <2> DEFINE f(V) == [e \in V |-> EntryNet(r.entries[e], a)]
  <2>1. IsFiniteSet(U) /\ \A e \in U : f(U)[e] \in Int
    BY <1>2, FS_Subset
  <2>2. NetOf(r, a, U) = SumFunctionOnSet(f(U), U)
    BY DEF NetOf, SumFunction
  <2>3. ASSUME NEW e \in U
        PROVE  NetOf(r, a, U) = EntryNet(r.entries[e], a) + NetOf(r, a, U \ {e})
    <3> DEFINE V == U \ {e}
    <3>1. NetOf(r, a, V) = SumFunctionOnSet(f(V), V)
      BY DEF NetOf, SumFunction
    <3>2. f(U)[e] = EntryNet(r.entries[e], a) /\ \A x \in V : f(U)[x] = f(V)[x]
      OBVIOUS
    <3>3. IsFiniteSet(V)
      BY <2>1, FS_Subset
    <3> HIDE DEF f
    <3>4. SumFunctionOnSet(f(U), U) = f(U)[e] + SumFunctionOnSet(f(U), U \ {e})
      BY <2>1, SumRemove
    <3>5. SumFunctionOnSet(f(U), V) = SumFunctionOnSet(f(V), V)
      BY <3>2, <3>3, SumEqual
    <3> QED
      BY <2>2, <3>1, <3>2, <3>4, <3>5
  <2>4. NetOf(r, a, U) \in Int
    <3> HIDE DEF f
    <3> QED
      BY <2>1, <2>2, SumInt
  <2>5. U = {} => NetOf(r, a, U) = 0
    <3> HIDE DEF f
    <3> QED
      BY <2>2, SumEmpty
  <2> QED
    BY <2>3, <2>4, <2>5
<1>4. ASSUME NEW U \in SUBSET T, \A e \in U : U \ {e} \in P PROVE U \in P
  <2>1. CASE U = {}
    <3>1. \A a \in live : h(U)[a] = 0
      BY <1>3, <2>1
    <3> HIDE DEF h
    <3> QED
      BY <1>1, <3>1, SumZero
  <2>2. CASE U # {}
    <3>1. PICK e \in U : TRUE
      BY <2>2
    <3> DEFINE V == U \ {e}
               g == [a \in live |-> EntryNet(r.entries[e], a)]
               before == h(V)
               after == h(U)
    <3>2. V \in SUBSET T /\ SumFunctionOnSet(before, live) = 0
      BY <1>4
    <3>3. SumFunctionOnSet(g, live) = 0
      BY <1>2
    <3>4. \A a \in live : g[a] \in Int /\ before[a] \in Int /\ after[a] = g[a] + before[a]
      BY <1>2, <1>3, <3>2
    <3>5. SumFunctionOnSet(after, live) = SumFunctionOnSet(g, live) + SumFunctionOnSet(before, live)
      <4> HIDE DEF after, before, g, live
      <4> QED
        BY <1>1, <3>4, SumPlus
    <3>6. SumFunctionOnSet(after, live) = 0
      <4> HIDE DEF after, before, g
      <4> QED
        BY <3>2, <3>3, <3>5
    <3> QED
      BY <3>6
  <2> QED
    BY <2>1, <2>2
<1>5. SUBSET T \subseteq P
  <2> HIDE DEF P
  <2> QED
    BY <1>4, SetInduction
<1>6. T \in P
  BY <1>5
<1> QED
  BY <1>3, <1>6

\* What the entries of a day and those of the days before it come to.
PostedEntries(r) ==
  JournalsOk(r, {e \in Entries : r.entries[e].status = "POSTED"})

TypesOk(r) ==
  \A a \in Accounts : r.accounts[a].type \in {"ASSET", "LIABILITY", "EQUITY", "REVENUE", "EXPENSE"}

\* Over any days, the accounts together have as much debit as credit.
LEMMA DaysNetToZero ==
  ASSUME NEW r, PostedEntries(r), NEW first, NEW last
  PROVE  /\ \A a : NetDebit(r, a, first, last) \in Int
         /\ SumFunctionOnSet([a \in LiveAccounts(r) |-> NetDebit(r, a, first, last)],
                             LiveAccounts(r)) = 0
<1> DEFINE T == Dated(r, first, last)
<1>1. IsFiniteSet(T)
  BY LedgerAssumption, FS_Subset DEF Dated
<1>2. JournalsOk(r, T)
  BY DEF Dated, PostedEntries, JournalsOk
<1>3. \A a : NetDebit(r, a, first, last) = NetOf(r, a, T)
  BY NetDebitIs
<1> HIDE DEF T
<1>4. /\ \A a : NetOf(r, a, T) \in Int
      /\ SumFunctionOnSet([a \in LiveAccounts(r) |-> NetOf(r, a, T)], LiveAccounts(r)) = 0
  BY <1>1, <1>2, NetsToZero
<1>5. [a \in LiveAccounts(r) |-> NetDebit(r, a, first, last)] =
        [a \in LiveAccounts(r) |-> NetOf(r, a, T)]
  BY <1>3
<1> QED
  BY <1>3, <1>4, <1>5

\* The days up to the last are those before the first and those from it on.
LEMMA DaysSplit ==
  ASSUME NEW r, PostedEntries(r), NEW first \in Days, NEW last \in Days, first <= last, NEW a
  PROVE  NetDebit(r, a, 1, last) = NetDebit(r, a, 1, first - 1) + NetDebit(r, a, first, last)
<1> DEFINE S == Dated(r, 1, last)
           T == Dated(r, 1, first - 1)
           U == Dated(r, first, last)
           f(V) == [e \in V |-> EntryNet(r.entries[e], a)]
<1>1. IsFiniteSet(S) /\ IsFiniteSet(T) /\ IsFiniteSet(U)
  BY LedgerAssumption, FS_Subset DEF Dated
<1>2. T \in SUBSET S /\ S \ T = U
  <2>1. first \in Int /\ last \in Int /\ first >= 1
    BY DEF Days, Today
  <2>2. \A d : d \in 1..last <=> d \in 1..(first - 1) \/ d \in first..last
    BY <2>1
  <2>3. \A d : ~ (d \in 1..(first - 1) /\ d \in first..last)
    BY <2>1
  <2> QED
    BY <2>2, <2>3 DEF Dated
<1>3. \A e \in S : EntryNet(r.entries[e], a) \in Int
  <2>1. \A e \in S : JournalLines(r.entries[e].lines, LiveAccounts(r)) /\ Balanced(r.entries[e].lines)
    BY DEF Dated, PostedEntries, JournalsOk
  <2> QED
    BY <2>1, LiveFinite, EntryNets
<1>4. /\ NetDebit(r, a, 1, last) = SumFunctionOnSet(f(S), S)
      /\ NetDebit(r, a, 1, first - 1) = SumFunctionOnSet(f(T), T)
      /\ NetDebit(r, a, first, last) = SumFunctionOnSet(f(U), U)
  BY NetDebitIs DEF NetOf, SumFunction
<1> DEFINE g == f(S)
           gT == f(T)
           gU == f(U)
<1>5. /\ \A e \in S : g[e] \in Int
      /\ \A e \in T : g[e] = gT[e]
      /\ \A e \in U : g[e] = gU[e]
  BY <1>2, <1>3
<1>6. /\ NetDebit(r, a, 1, last) = SumFunctionOnSet(g, S)
      /\ NetDebit(r, a, 1, first - 1) = SumFunctionOnSet(gT, T)
      /\ NetDebit(r, a, first, last) = SumFunctionOnSet(gU, U)
  BY <1>4
<1> HIDE DEF g, gT, gU, S, T, U
<1>7. SumFunctionOnSet(g, T) = SumFunctionOnSet(gT, T)
  BY <1>1, <1>5, SumEqual
<1>8. SumFunctionOnSet(g, U) = SumFunctionOnSet(gU, U)
  BY <1>1, <1>5, SumEqual
<1>9. SumFunctionOnSet(g, S) = SumFunctionOnSet(g, T) + SumFunctionOnSet(g, S \ T)
  BY <1>1, <1>2, <1>5, SumSplit
<1> QED
  BY <1>2, <1>6, <1>7, <1>8, <1>9

\* The accounts of a type: their balances are their net debits, or these negated.
LEMMA TypeTotalIs ==
  ASSUME NEW r, PostedEntries(r), NEW t, NEW first, NEW last
  PROVE  LET g == [a \in LiveAccounts(r) |-> NetDebit(r, a, first, last)]
         IN TypeTotal(r, t, first, last) =
              IF t \in {"ASSET", "EXPENSE"} THEN SumFunctionOnSet(g, OfType(r, t))
              ELSE 0 - SumFunctionOnSet(g, OfType(r, t))
<1> DEFINE S == OfType(r, t)
           g == [a \in LiveAccounts(r) |-> NetDebit(r, a, first, last)]
           b == [a \in S |-> NetBalance(r, a, first, last)]
<1>1. IsFiniteSet(S)
  BY LiveFinite, FS_Subset DEF OfType
<1>2. \A a : NetDebit(r, a, first, last) \in Int
  BY DaysNetToZero
<1>3. \A a \in S : a \in LiveAccounts(r) /\ r.accounts[a].type = t
  BY DEF OfType
<1>4. \A a \in S : g[a] \in Int /\ b[a] = IF t \in {"ASSET", "EXPENSE"} THEN g[a] ELSE 0 - g[a]
  BY <1>2, <1>3 DEF NetBalance, DebitNormal
<1>5. TypeTotal(r, t, first, last) = SumFunctionOnSet(b, S)
  BY DEF TypeTotal, SumFunction
<1> HIDE DEF b, g, S
<1>6. CASE t \in {"ASSET", "EXPENSE"}
  <2>1. \A a \in S : b[a] = g[a]
    BY <1>4, <1>6
  <2>2. SumFunctionOnSet(b, S) = SumFunctionOnSet(g, S)
    BY <1>1, <2>1, SumEqual
  <2> QED
    BY <1>5, <1>6, <2>2 DEF g, S
<1>7. CASE t \notin {"ASSET", "EXPENSE"}
  <2>1. \A a \in S : g[a] \in Int /\ b[a] = 0 - g[a]
    BY <1>4, <1>7
  <2>2. SumFunctionOnSet(b, S) = 0 - SumFunctionOnSet(g, S)
    BY <1>1, <2>1, SumNegated
  <2> QED
    BY <1>5, <1>7, <2>2 DEF g, S
<1> QED
  BY <1>6, <1>7

\* The sum over a set is that over a part and that over the rest.
SplitsOff(g, S, A, R) ==
  /\ SumFunctionOnSet(g, S) = SumFunctionOnSet(g, A) + SumFunctionOnSet(g, R)
  /\ SumFunctionOnSet(g, A) \in Int /\ SumFunctionOnSet(g, R) \in Int

IntsOn(g, S) == IsFiniteSet(S) /\ \A x \in S : g[x] \in Int

LEMMA SplitOff ==
  ASSUME NEW g, NEW S, IntsOn(g, S), NEW A, A \subseteq S, NEW R, R = S \ A
  PROVE  IntsOn(g, R) /\ SplitsOff(g, S, A, R)
<1>1. IsFiniteSet(S) /\ A \in SUBSET S /\ \A x \in S : g[x] \in Int
  BY DEF IntsOn
<1>2. SplitsOff(g, S, A, S \ A)
  BY <1>1, SumSplit DEF SplitsOff
<1>3. IntsOn(g, S \ A)
  BY <1>1, FS_Subset DEF IntsOn
<1> QED
  BY <1>2, <1>3

\* Every account has one of five types.
LEMMA TypesAddUp ==
  ASSUME NEW r, TypesOk(r), NEW g, \A a \in LiveAccounts(r) : g[a] \in Int
  PROVE  LET G(t) == SumFunctionOnSet(g, OfType(r, t))
         IN /\ SumFunctionOnSet(g, LiveAccounts(r)) =
                 G("ASSET") + G("LIABILITY") + G("EQUITY") + G("REVENUE") + G("EXPENSE")
            /\ G("ASSET") \in Int /\ G("LIABILITY") \in Int /\ G("EQUITY") \in Int
            /\ G("REVENUE") \in Int /\ G("EXPENSE") \in Int
<1> DEFINE S == LiveAccounts(r)
           A == OfType(r, "ASSET")
           L == OfType(r, "LIABILITY")
           Q == OfType(r, "EQUITY")
           R == OfType(r, "REVENUE")
           X == OfType(r, "EXPENSE")
           S1 == S \ A
           S2 == S1 \ L
           S3 == S2 \ Q
<1>1. \A a \in S : r.accounts[a].type \in {"ASSET", "LIABILITY", "EQUITY", "REVENUE", "EXPENSE"}
  BY DEF LiveAccounts, TypesOk
<1>2. A \subseteq S /\ L \subseteq S1 /\ Q \subseteq S2 /\ R \subseteq S3 /\ X = S3 \ R
  BY <1>1 DEF OfType
<1>3. IntsOn(g, S)
  BY LiveFinite DEF IntsOn
<1>4. S1 = S \ A /\ S2 = S1 \ L /\ S3 = S2 \ Q
  OBVIOUS
<1> HIDE DEF S, A, L, Q, R, X, S1, S2, S3
<1>5. IntsOn(g, S1) /\ SplitsOff(g, S, A, S1)
  BY <1>2, <1>3, <1>4, SplitOff
<1>6. IntsOn(g, S2) /\ SplitsOff(g, S1, L, S2)
  BY <1>2, <1>4, <1>5, SplitOff
<1>7. IntsOn(g, S3) /\ SplitsOff(g, S2, Q, S3)
  BY <1>2, <1>4, <1>6, SplitOff
<1>8. SplitsOff(g, S3, R, X)
  BY <1>2, <1>7, SplitOff
<1>9. /\ SumFunctionOnSet(g, S) = SumFunctionOnSet(g, A) + SumFunctionOnSet(g, L)
            + SumFunctionOnSet(g, Q) + SumFunctionOnSet(g, R) + SumFunctionOnSet(g, X)
      /\ SumFunctionOnSet(g, A) \in Int /\ SumFunctionOnSet(g, L) \in Int
      /\ SumFunctionOnSet(g, Q) \in Int /\ SumFunctionOnSet(g, R) \in Int
      /\ SumFunctionOnSet(g, X) \in Int
  BY <1>5, <1>6, <1>7, <1>8 DEF SplitsOff
<1> QED
  BY <1>9 DEF S, A, L, Q, R, X

\* The balance sheet balances.
LEMMA SheetBalances ==
  ASSUME NEW r, PostedEntries(r), TypesOk(r), NEW day
  PROVE  LET sheet == BalanceSheet(r, day) IN sheet.assets = sheet.liabilities + sheet.equity
<1> DEFINE live == LiveAccounts(r)
           g == [a \in live |-> NetDebit(r, a, 1, day)]
           G(t) == SumFunctionOnSet(g, OfType(r, t))
<1>1. \A a \in live : g[a] \in Int
  BY DaysNetToZero
<1>2. SumFunctionOnSet(g, live) = 0
  BY DaysNetToZero
<1>3. /\ TypeTotal(r, "ASSET", 1, day) = G("ASSET")
      /\ TypeTotal(r, "EXPENSE", 1, day) = G("EXPENSE")
      /\ TypeTotal(r, "LIABILITY", 1, day) = 0 - G("LIABILITY")
      /\ TypeTotal(r, "EQUITY", 1, day) = 0 - G("EQUITY")
      /\ TypeTotal(r, "REVENUE", 1, day) = 0 - G("REVENUE")
  BY TypeTotalIs
<1> HIDE DEF g
<1>4. /\ SumFunctionOnSet(g, live) =
           G("ASSET") + G("LIABILITY") + G("EQUITY") + G("REVENUE") + G("EXPENSE")
      /\ G("ASSET") \in Int /\ G("LIABILITY") \in Int /\ G("EQUITY") \in Int
      /\ G("REVENUE") \in Int /\ G("EXPENSE") \in Int
  BY <1>1, TypesAddUp
<1> HIDE DEF G, live
<1>5. /\ BalanceSheet(r, day).assets = TypeTotal(r, "ASSET", 1, day)
      /\ BalanceSheet(r, day).liabilities = TypeTotal(r, "LIABILITY", 1, day)
      /\ BalanceSheet(r, day).equity = TypeTotal(r, "EQUITY", 1, day)
           + (TypeTotal(r, "REVENUE", 1, day) - TypeTotal(r, "EXPENSE", 1, day))
  BY DEF BalanceSheet, NetIncome
<1>6. G("ASSET") = (0 - G("LIABILITY")) + ((0 - G("EQUITY")) + ((0 - G("REVENUE")) - G("EXPENSE")))
  BY <1>2, <1>4
<1> QED
  BY <1>3, <1>5, <1>6

\* The trial balance of any days balances, agrees with the ledger of each account,
\* and the cash flow with both.
LEMMA TrialBalances ==
  ASSUME NEW r, PostedEntries(r), NEW first \in Days, NEW last \in Days
  PROVE  LET trial == TrialBalance(r, first, last)
         IN /\ SumFunction([a \in DOMAIN trial |-> trial[a].opening + trial[a].period]) = 0
            /\ first <= last =>
                 /\ \A a \in DOMAIN trial : trial[a].net = GeneralLedger(r, a, first, last)
                 /\ CashFlow(r, first, last).closing =
                    SumFunction([a \in CashAccounts(r) |-> trial[a].net])
<1> DEFINE live == LiveAccounts(r)
           trial == TrialBalance(r, first, last)
           C == CashAccounts(r)
           o == [a \in live |-> NetDebit(r, a, 1, first - 1)]
           p == [a \in live |-> NetDebit(r, a, first, last)]
           s == [a \in live |-> trial[a].opening + trial[a].period]
<1>1. /\ \A a : /\ NetDebit(r, a, 1, first - 1) \in Int /\ NetDebit(r, a, first, last) \in Int
                /\ NetDebit(r, a, 1, last) \in Int
      /\ SumFunctionOnSet(o, live) = 0 /\ SumFunctionOnSet(p, live) = 0
  BY DaysNetToZero
<1>2. DOMAIN trial = live
  BY DEF TrialBalance
<1>3. ASSUME NEW a \in live
      PROVE  /\ trial[a].opening = NetDebit(r, a, 1, first - 1)
             /\ trial[a].period = NetDebit(r, a, first, last)
             /\ trial[a].net = NetBalance(r, a, 1, last)
  BY DEF TrialBalance
<1> HIDE DEF trial
<1>4. \A a \in live : o[a] \in Int /\ p[a] \in Int /\ s[a] = o[a] + p[a]
  BY <1>1, <1>3
<1>5. SumFunction([a \in DOMAIN trial |-> trial[a].opening + trial[a].period]) = SumFunctionOnSet(s, live)
  BY <1>2 DEF SumFunction
<1>6. IsFiniteSet(live)
  BY LiveFinite
<1>7. SumFunctionOnSet(s, live) = 0
  <2> HIDE DEF s, o, p, live
  <2>1. SumFunctionOnSet(s, live) = SumFunctionOnSet(o, live) + SumFunctionOnSet(p, live)
    BY <1>4, <1>6, SumPlus
  <2> QED
    BY <1>1, <2>1
<1>8. ASSUME first <= last, NEW a
      PROVE  NetDebit(r, a, 1, last) = NetDebit(r, a, 1, first - 1) + NetDebit(r, a, first, last)
  BY <1>8, DaysSplit
<1>9. ASSUME first <= last, NEW a \in live
      PROVE  trial[a].net = GeneralLedger(r, a, first, last)
  BY <1>1, <1>3, <1>8, <1>9 DEF GeneralLedger, NetBalance
<1>10. ASSUME first <= last
       PROVE  CashFlow(r, first, last).closing = SumFunction([a \in C |-> trial[a].net])
  <2> DEFINE co == [a \in C |-> NetDebit(r, a, 1, first - 1)]
             cp == [a \in C |-> NetDebit(r, a, first, last)]
             cn == [a \in C |-> trial[a].net]
  <2>1. IsFiniteSet(C) /\ C \subseteq live /\ \A a \in C : r.accounts[a].type = "ASSET"
    BY <1>6, FS_Subset DEF CashAccounts, OfType
  <2>2. \A a \in C : trial[a].net = NetDebit(r, a, 1, first - 1) + NetDebit(r, a, first, last)
    <3>1. \A a \in C : trial[a].net = NetDebit(r, a, 1, last)
      BY <1>3, <2>1 DEF NetBalance, DebitNormal
    <3> QED
      BY <1>8, <1>10, <3>1
  <2>3. \A a \in C : co[a] \in Int /\ cp[a] \in Int /\ cn[a] = co[a] + cp[a]
    BY <1>1, <2>2
  <2>4. CashFlow(r, first, last).closing = SumFunctionOnSet(co, C) + SumFunctionOnSet(cp, C)
    BY DEF CashFlow, SumFunction
  <2>5. SumFunction(cn) = SumFunctionOnSet(cn, C)
    BY DEF SumFunction
  <2> HIDE DEF co, cp, cn, C
  <2>6. SumFunctionOnSet(cn, C) = SumFunctionOnSet(co, C) + SumFunctionOnSet(cp, C)
    BY <2>1, <2>3, SumPlus
  <2> QED
    BY <2>4, <2>5, <2>6 DEF cn
<1> QED
  BY <1>2, <1>5, <1>7, <1>9, <1>10 DEF trial

\* The chart of accounts, read as a hierarchy like that of the departments: above
\* an account that is not deleted is its parent, above another there is none.
Up(r, x) == IF x \in LiveAccounts(r) THEN r.accounts[x].parent ELSE 0

Chart(r) == [departments |-> [a \in Accounts |-> [parent |-> Up(r, a)]]]

\* No account has a deleted parent, and none is above itself.
ParentsLive(r) == \A a \in LiveAccounts(r) : r.accounts[a].parent \in Parents(r)
ChartOk(r) == ParentsLive(r) /\ NoneAbove(Chart(r))

LEMMA ChartParents ==
  ASSUME NEW r, ParentsLive(r)
  PROVE  /\ ParentsOk(Chart(r)) /\ Departments(Chart(r)) = Accounts
         /\ \A a \in Accounts : /\ Chart(r).departments[a].parent = Up(r, a)
                                /\ Above(Chart(r), a) = {Up(r, a)} \ {0}
         /\ \A x : Up(r, x) \in Parents(r) /\ (x = 0 => Up(r, x) = 0)
         /\ LiveAccounts(r) \subseteq Accounts /\ 0 \notin Accounts
         /\ ClosedUp(Chart(r), LiveAccounts(r))
<1>1. /\ Departments(Chart(r)) = Accounts
      /\ \A a \in Accounts : Chart(r).departments[a].parent = Up(r, a)
  BY DEF Chart, Departments
<1>2. \A a \in Accounts : Above(Chart(r), a) = {Up(r, a)} \ {0}
  BY <1>1 DEF Above
<1>3. LiveAccounts(r) \subseteq Accounts /\ IsFiniteSet(Accounts) /\ 0 \notin Accounts
  BY LedgerAssumption DEF LiveAccounts
<1>4. \A x : Up(r, x) \in Parents(r) /\ (x = 0 => Up(r, x) = 0)
  BY <1>3 DEF ParentsLive, Parents, Up
<1>5. ParentsOk(Chart(r)) /\ ClosedUp(Chart(r), LiveAccounts(r))
  BY <1>1, <1>2, <1>3, <1>4 DEF ParentsOk, ClosedUp, Parents
<1> QED
  BY <1>1, <1>2, <1>3, <1>4, <1>5

\* g is the climb from account p, step by step.
IsClimb(g, r, p, n) == g = [k \in 0..n |-> IF k = 0 THEN p ELSE Up(r, g[k - 1])]

LEMMA ClimbExists ==
  ASSUME NEW r, NEW p
  PROVE  \A n \in Nat : \E g : IsClimb(g, r, p, n)
<1> DEFINE P == {n \in Nat : \E g : IsClimb(g, r, p, n)}
<1>1. 0 \in P
  <2>1. IsClimb([k \in 0..0 |-> p], r, p, 0)
    BY DEF IsClimb
  <2> QED
    BY <2>1
<1>2. ASSUME NEW n \in Nat, n \in P PROVE n + 1 \in P
  <2>1. PICK g : IsClimb(g, r, p, n)
    BY <1>2
  <2> DEFINE next == Up(r, g[n])
             h == [k \in 0..(n + 1) |-> IF k = n + 1 THEN next ELSE g[k]]
  <2>2. \A k \in 0..n : h[k] = g[k]
    OBVIOUS
  <2>3. h[n + 1] = next /\ h[n] = g[n]
    OBVIOUS
  <2>4. \A k \in 0..n : g[k] = IF k = 0 THEN p ELSE Up(r, g[k - 1])
    BY <2>1 DEF IsClimb
  <2>5. ASSUME NEW k \in 0..(n + 1)
        PROVE  h[k] = IF k = 0 THEN p ELSE Up(r, h[k - 1])
    <3>1. CASE k = n + 1
      <4>1. k # 0 /\ k - 1 = n
        BY <3>1
      <4> QED
        BY <2>3, <3>1, <4>1
    <3>2. CASE k # n + 1
      <4>1. k \in 0..n /\ (k # 0 => k - 1 \in 0..n)
        BY <3>2
      <4> HIDE DEF h
      <4> QED
        BY <2>2, <2>4, <4>1
    <3> QED
      BY <3>1, <3>2
  <2>6. h = [k \in 0..(n + 1) |-> h[k]]
    OBVIOUS
  <2> HIDE DEF h, next
  <2>7. IsClimb(h, r, p, n + 1)
    BY <2>5, <2>6 DEF IsClimb
  <2> QED
    BY <2>7
<1>3. Nat \subseteq P
  <2> HIDE DEF P
  <2> QED
    BY <1>1, <1>2, FromZero
<1> QED
  BY <1>3

\* The climb goes up as often as there are accounts.
Climbs(g, r, p) ==
  \A k \in 0..Cardinality(Accounts) : g[k] = IF k = 0 THEN p ELSE Up(r, g[k - 1])

\* It meets a, or an account twice.
Meets(g, a) ==
  \E n \in 0..Cardinality(Accounts) :
    g[n] # 0 /\ (g[n] = a \/ \E m \in 0..(n - 1) : g[m] = g[n])

LEMMA CircularClimb ==
  ASSUME NEW r, NEW a, NEW p
  PROVE  \E g : Climbs(g, r, p) /\ (Circular(r, a, p) <=> Meets(g, a))
<1> DEFINE N == Cardinality(Accounts)
           g == CHOOSE f : IsClimb(f, r, p, N)
<1>1. N \in Nat
  BY LedgerAssumption, FS_CardinalityType
<1>2. IsClimb(g, r, p, N)
  BY <1>1, ClimbExists
<1>3. Circular(r, a, p) <=> Meets(g, a)
  BY DEF Circular, Meets, IsClimb, Up
<1> HIDE DEF g
<1>4. Climbs(g, r, p)
  BY <1>2 DEF IsClimb, Climbs
<1> QED
  BY <1>3, <1>4

\* A climb does not leave a set that is closed.
LEMMA ClimbStays ==
  ASSUME NEW r, ParentsLive(r), NEW S, S \subseteq Accounts, ClosedUp(Chart(r), S),
         NEW g, NEW p, Climbs(g, r, p),
         NEW i \in 0..Cardinality(Accounts), g[i] \in S \cup {0}
  PROVE  \A n \in i..Cardinality(Accounts) : g[n] \in S \cup {0}
<1> DEFINE N == Cardinality(Accounts)
           P == {j \in Nat : i + j <= N => g[i + j] \in S \cup {0}}
<1>1. N \in Nat /\ i \in Nat
  BY LedgerAssumption, FS_CardinalityType
<1>2. \A x \in S \cup {0} : Up(r, x) \in S \cup {0}
  BY ChartParents DEF ClosedUp
<1> HIDE DEF N
<1>3. 0 \in P
  BY <1>1
<1>4. ASSUME NEW j \in Nat, j \in P PROVE j + 1 \in P
  <2> SUFFICES ASSUME i + (j + 1) <= N PROVE g[i + (j + 1)] \in S \cup {0}
    OBVIOUS
  <2>1. i + j <= N /\ i + (j + 1) \in 0..N /\ i + (j + 1) # 0 /\ (i + (j + 1)) - 1 = i + j
    BY <1>1
  <2>2. g[i + j] \in S \cup {0}
    BY <1>4, <2>1
  <2>3. g[i + (j + 1)] = Up(r, g[i + j])
    BY <2>1 DEF Climbs, N
  <2> QED
    BY <1>2, <2>2, <2>3
<1>5. Nat \subseteq P
  <2> HIDE DEF P
  <2> QED
    BY <1>3, <1>4, FromZero
<1> SUFFICES ASSUME NEW n \in i..N PROVE g[n] \in S \cup {0}
  BY DEF N
<1>6. n - i \in Nat /\ i + (n - i) = n /\ n <= N
  BY <1>1
<1>7. n - i \in P
  BY <1>5, <1>6
<1> QED
  BY <1>6, <1>7

\* When no account is above itself, no climb from the parent of one is circular.
LEMMA OrderedNotCircular ==
  ASSUME NEW r, ChartOk(r), NEW a \in LiveAccounts(r)
  PROVE  ~ Circular(r, a, r.accounts[a].parent)
<1> DEFINE N == Cardinality(Accounts)
           C == Chart(r)
           p == r.accounts[a].parent
<1>1. /\ ParentsLive(r) /\ NoneAbove(C) /\ ParentsOk(C) /\ Departments(C) = Accounts
      /\ \A x \in Accounts : C.departments[x].parent = Up(r, x)
      /\ \A x : Up(r, x) \in {0} \cup Accounts
      /\ a \in Accounts /\ 0 \notin Accounts /\ N \in Nat /\ p = Up(r, a)
  BY ChartParents, LedgerAssumption, FS_CardinalityType DEF ChartOk, Parents, Up
<1>2. PICK g : Climbs(g, r, p) /\ (Circular(r, a, p) <=> Meets(g, a))
  BY CircularClimb
<1> HIDE DEF C, p
\* What is above an account is a closed set that it is not in.
<1>3. ASSUME NEW x \in Accounts
      PROVE  \E S : /\ S \subseteq Accounts /\ ClosedUp(C, S) /\ x \notin S
                    /\ Up(r, x) \in S \cup {0}
  <2> DEFINE q == Up(r, x)
             S == UpFrom(C, q)
  <2>1. q \in {0} \cup Departments(C)
    BY <1>1
  <2> HIDE DEF q
  <2>2. {q} \ {0} \subseteq S /\ S \subseteq Departments(C) /\ ClosedUp(C, S)
    BY <1>1, <2>1, UpFromClosed
  <2>3. x \notin S
    BY <1>1 DEF NoneAbove, q
  <2> HIDE DEF S
  <2> QED
    BY <1>1, <2>2, <2>3 DEF q
<1> SUFFICES ASSUME NEW n \in 0..N, g[n] # 0, g[n] = a \/ \E m \in 0..(n - 1) : g[m] = g[n]
             PROVE  FALSE
  BY <1>2 DEF Meets, p
<1>4. g[0] = p
  <2>1. 0 \in 0..N
    BY <1>1
  <2> QED
    BY <1>2, <2>1 DEF Climbs
<1>5. PICK S : /\ S \subseteq Accounts /\ ClosedUp(C, S) /\ a \notin S
               /\ Up(r, a) \in S \cup {0}
  BY <1>1, <1>3
<1>6. \A k \in 0..N : g[k] \in S \cup {0}
  <2>1. 0 \in 0..N /\ g[0] \in S \cup {0}
    BY <1>1, <1>4, <1>5
  <2> QED
    BY <1>1, <1>2, <1>5, <2>1, ClimbStays DEF C
<1>7. g[n] # a
  BY <1>5, <1>6
<1>8. PICK m \in 0..(n - 1) : g[m] = g[n]
  BY <1>7
<1>9. g[m] \in Accounts
  BY <1>5, <1>6, <1>8
<1>10. PICK T : /\ T \subseteq Accounts /\ ClosedUp(C, T) /\ g[m] \notin T
                /\ Up(r, g[m]) \in T \cup {0}
  BY <1>3, <1>9
<1>11. m + 1 \in 0..N /\ m + 1 # 0 /\ (m + 1) - 1 = m /\ n \in (m + 1)..N
  BY <1>1
<1>12. g[m + 1] = Up(r, g[m])
  BY <1>2, <1>11 DEF Climbs
<1>13. \A k \in (m + 1)..N : g[k] \in T \cup {0}
  <2>1. g[m + 1] \in T \cup {0}
    BY <1>10, <1>12
  <2> QED
    BY <1>1, <1>2, <1>10, <1>11, <2>1, ClimbStays DEF C
<1> QED
  BY <1>8, <1>10, <1>11, <1>13

\* An account that the climb from p does not meet is not above p, and p is not it.
LEMMA NotCircularBelow ==
  ASSUME NEW r, ParentsLive(r), NEW a \in Accounts, NEW p \in Parents(r), ~ Circular(r, a, p)
  PROVE  a \notin UpFrom(Chart(r), p)
<1> DEFINE N == Cardinality(Accounts)
           C == Chart(r)
<1>1. /\ ParentsOk(C) /\ Departments(C) = Accounts /\ IsFiniteSet(Accounts)
      /\ \A x \in Accounts : Above(C, x) = {Up(r, x)} \ {0}
      /\ LiveAccounts(r) \subseteq Accounts /\ 0 \notin Accounts /\ N \in Nat
      /\ ClosedUp(C, LiveAccounts(r)) /\ p \in LiveAccounts(r) \cup {0}
  BY ChartParents, LedgerAssumption, FS_CardinalityType DEF Parents
<1>2. PICK g : Climbs(g, r, p) /\ (Circular(r, a, p) <=> Meets(g, a))
  BY CircularClimb
<1> HIDE DEF C, N
<1> DEFINE W == {g[n] : n \in 0..N} \ {0}
<1>3. \A n \in 0..N : g[n] # 0 => /\ g[n] # a
                                  /\ \A m \in 0..(n - 1) : g[m] # g[n]
  BY <1>2 DEF Meets, N
<1>4. 0 \in 0..N /\ g[0] = p
  <2>1. 0 \in 0..N
    BY <1>1
  <2> QED
    BY <1>2, <2>1 DEF Climbs, N
<1>5. \A n \in 0..N : g[n] \in LiveAccounts(r) \cup {0}
  BY <1>1, <1>2, <1>4, ClimbStays DEF C, N
\* The climb ends: there are not as many accounts as it has steps.
<1>6. g[N] = 0
  <2> SUFFICES ASSUME g[N] # 0 PROVE FALSE
    OBVIOUS
  <2>1. ASSUME NEW n \in 0..N PROVE g[n] # 0
    <3> SUFFICES ASSUME g[n] = 0 PROVE FALSE
      OBVIOUS
    <3>1. ClosedUp(C, {}) /\ {} \subseteq Accounts /\ g[n] \in {} \cup {0}
      BY DEF ClosedUp
    <3>2. \A k \in n..N : g[k] \in {} \cup {0}
      BY <1>2, <3>1, ClimbStays DEF C, N
    <3>3. N \in n..N
      BY <1>1
    <3> QED
      BY <3>2, <3>3
  <2> DEFINE h == [n \in 0..N |-> g[n]]
  <2>2. h \in [0..N -> Accounts]
    BY <1>1, <1>5, <2>1
  <2>3. IsFiniteSet(0..N) /\ Cardinality(0..N) = N + 1
    <3>1. 0 \in Int /\ N \in Int /\ ~ (0 > N) /\ N - 0 + 1 = N + 1
      BY <1>1
    <3>2. IsFiniteSet(0..N) /\ Cardinality(0..N) = IF 0 > N THEN 0 ELSE N - 0 + 1
      BY <3>1, FS_Interval, Zenon
    <3> QED
      BY <3>1, <3>2
  <2>4. Cardinality(Accounts) < Cardinality(0..N)
    BY <1>1, <2>3 DEF N
  <2>5. \A n \in 0..N : h[n] = g[n]
    OBVIOUS
  <2> HIDE DEF h
  <2>6. \E x, y \in 0..N : x # y /\ h[x] = h[y]
    BY <1>1, <2>2, <2>3, <2>4, FS_PigeonHole
  <2>7. PICK x \in 0..N, y \in 0..N : x # y /\ g[x] = g[y]
    BY <2>5, <2>6
  <2>8. x \in 0..(y - 1) \/ y \in 0..(x - 1)
    BY <1>1, <2>7
  <2> QED
    BY <1>3, <2>1, <2>7, <2>8
<1>7. ClosedUp(C, W)
  <2> SUFFICES ASSUME NEW x \in W PROVE Above(C, x) \subseteq W
    BY DEF ClosedUp
  <2>1. PICK n \in 0..N : x = g[n] /\ x # 0
    OBVIOUS
  <2>2. n + 1 \in 0..N /\ n + 1 # 0 /\ (n + 1) - 1 = n
    BY <1>1, <1>6, <2>1
  <2>3. g[n + 1] = Up(r, g[n])
    BY <1>2, <2>2 DEF Climbs, N
  <2>4. x \in Accounts
    BY <1>1, <1>5, <2>1
  <2>5. Above(C, x) = {g[n + 1]} \ {0}
    BY <1>1, <2>1, <2>3, <2>4
  <2> QED
    BY <2>2, <2>5
<1>8. {p} \ {0} \subseteq W /\ a \notin W
  BY <1>3, <1>4
<1> HIDE DEF W
<1>9. UpFrom(C, p) \subseteq W
  BY <1>1, <1>7, <1>8, UpFromLeast DEF ParentsOk
<1> QED
  BY <1>8, <1>9 DEF C

\* An entry has what it should: lines on accounts that are not deleted, when it
\* is a draft or posted; equal debits and credits, when it is posted; a period
\* that is not closed, when it is a draft.
EntryOk(entry, live, periods) ==
  /\ DOMAIN entry = {"status", "period", "day", "reverses", "lines"}
  /\ entry.status \in {"DRAFT", "POSTED"} => JournalLines(entry.lines, live)
  /\ entry.status = "POSTED" => Balanced(entry.lines)
  /\ entry.status = "DRAFT" => entry.period \in Days /\ periods[entry.period].status # "CLOSED"

LedgerShape(db) ==
  /\ DOMAIN db = {"domain", "accounts", "periods", "entries"}
  /\ DOMAIN db.accounts = Accounts /\ DOMAIN db.periods = Days /\ DOMAIN db.entries = Entries
  /\ \A a \in Accounts : DOMAIN db.accounts[a] = {"status", "type", "parent"}
  /\ \A p \in Days : DOMAIN db.periods[p] = {"status"}

LedgerOk(db) ==
  /\ LedgerShape(db) /\ TypesOk(db) /\ ChartOk(db)
  /\ \A e \in Entries : EntryOk(db.entries[e], LiveAccounts(db), db.periods)

\* The chart only depends on the accounts.
LEMMA SameAccounts ==
  ASSUME NEW db, NEW new, new.accounts = db.accounts
  PROVE  /\ LiveAccounts(new) = LiveAccounts(db) /\ Parents(new) = Parents(db)
         /\ ChartOk(new) <=> ChartOk(db)
         /\ TypesOk(new) <=> TypesOk(db)
<1>1. LiveAccounts(new) = LiveAccounts(db)
  BY DEF LiveAccounts
<1>2. Parents(new) = Parents(db)
  BY <1>1 DEF Parents
<1>3. \A x : Up(new, x) = Up(db, x)
  BY <1>1 DEF Up
<1>4. Chart(new) = Chart(db)
  BY <1>3 DEF Chart
<1>5. ParentsLive(new) <=> ParentsLive(db)
  BY <1>1, <1>2 DEF ParentsLive
<1> QED
  BY <1>1, <1>2, <1>4, <1>5 DEF ChartOk, TypesOk

\* An account that is written stays in order: it may not come below itself, and
\* it may not go as long as an account below it or an entry needs it.
LEMMA AccountStep ==
  ASSUME LedgerOk(rows), NEW a \in Accounts, NEW account,
         DOMAIN account = {"status", "type", "parent"},
         account.type \in {"ASSET", "LIABILITY", "EQUITY", "REVENUE", "EXPENSE"},
         NEW p \in Parents(rows), a \notin UpFrom(Chart(rows), p),
         \/ account.status \in {"ACTIVE", "INACTIVE"} /\ account.parent = p
         \/ /\ account.status = "DELETED" /\ p = 0
            /\ \A b \in Accounts : rows.accounts[b].parent # a
            /\ ~ HasLines(rows, a),
         rows' = [rows EXCEPT !.accounts[a] = account]
  PROVE  LedgerOk(rows')
<1> DEFINE C == Chart(rows)
           D == Chart(rows')
           live == LiveAccounts(rows)
<1>1. /\ LedgerShape(rows) /\ TypesOk(rows) /\ ParentsLive(rows) /\ NoneAbove(C)
      /\ \A e \in Entries : EntryOk(rows.entries[e], live, rows.periods)
      /\ DOMAIN rows = {"domain", "accounts", "periods", "entries"}
      /\ DOMAIN rows.accounts = Accounts
  BY DEF LedgerOk, ChartOk, LedgerShape
<1>2. /\ DOMAIN rows' = DOMAIN rows /\ rows'.entries = rows.entries /\ rows'.periods = rows.periods
      /\ DOMAIN rows'.accounts = Accounts /\ rows'.accounts[a] = account
      /\ \A b \in Accounts : b # a => rows'.accounts[b] = rows.accounts[b]
  BY <1>1
<1>3. LedgerShape(rows') /\ TypesOk(rows')
  BY <1>1, <1>2 DEF LedgerShape, TypesOk
<1>4. /\ ParentsOk(C) /\ Departments(C) = Accounts /\ 0 \notin Accounts /\ live \subseteq Accounts
      /\ \A b \in Accounts : Above(C, b) = {Up(rows, b)} \ {0}
      /\ p \in live \cup {0}
  BY <1>1, ChartParents DEF Parents
<1>5. p # a
  <2>1. {p} \ {0} \subseteq UpFrom(C, p)
    BY <1>4, UpFromClosed
  <2> QED
    BY <1>4, <2>1
<1>6. /\ \A b \in Accounts : b # a => (b \in LiveAccounts(rows') <=> b \in live)
      /\ account.status # "DELETED" => a \in LiveAccounts(rows')
      /\ account.status = "DELETED" => a \notin LiveAccounts(rows')
      /\ LiveAccounts(rows') \subseteq Accounts
  BY <1>2 DEF LiveAccounts
<1>7. ParentsLive(rows')
  <2> SUFFICES ASSUME NEW b \in LiveAccounts(rows')
               PROVE  rows'.accounts[b].parent \in LiveAccounts(rows') \cup {0}
    BY DEF ParentsLive, Parents
  <2>1. CASE b = a
    <3>1. rows'.accounts[b].parent = p
      BY <1>2, <1>6, <2>1
    <3> QED
      BY <1>4, <1>5, <1>6, <3>1
  <2>2. CASE b # a
    <3>1. rows'.accounts[b] = rows.accounts[b] /\ rows.accounts[b].parent \in live \cup {0}
      BY <1>1, <1>2, <1>6, <2>2 DEF ParentsLive, Parents
    <3>2. account.status = "DELETED" => rows.accounts[b].parent # a
      BY <1>6
    <3> QED
      BY <1>4, <1>6, <3>1, <3>2
  <2> QED
    BY <2>1, <2>2
<1>8. NoneAbove(D)
  <2>1. /\ Departments(D) = Accounts
        /\ \A b \in Accounts : Above(D, b) = {Up(rows', b)} \ {0}
    BY <1>7, ChartParents
  <2>2. \A b \in Accounts \ {a} : Up(rows', b) = Up(rows, b)
    BY <1>2, <1>6 DEF Up
  <2>3. Up(rows', a) = p
    BY <1>2, <1>6 DEF Up
  <2>4. \A b \in Departments(C) \ {a} : Above(D, b) \subseteq Above(C, b)
    BY <1>4, <2>1, <2>2
  <2>5. Above(D, a) \subseteq {p} \ {0}
    BY <2>1, <2>3
  <2>6. p \in {0} \cup Departments(C) /\ a \in Departments(C) /\ a \notin UpFrom(C, p)
        /\ Departments(D) = Departments(C) /\ 0 \notin Departments(C)
    BY <1>4, <2>1
  <2> HIDE DEF C, D
  <2> QED
    BY <1>1, <1>4, <2>4, <2>5, <2>6, StaysOrdered
<1>9. ASSUME NEW e \in Entries PROVE EntryOk(rows'.entries[e], LiveAccounts(rows'), rows'.periods)
  <2> DEFINE entry == rows.entries[e]
  <2>1. EntryOk(entry, live, rows.periods)
    BY <1>1
  <2>2. ASSUME JournalLines(entry.lines, live) PROVE JournalLines(entry.lines, LiveAccounts(rows'))
    <3>1. /\ DOMAIN entry.lines = {1, 2}
          /\ entry.lines[1].account \in live /\ entry.lines[2].account \in live
      BY <2>2 DEF JournalLines, JournalLine
    <3>2. ASSUME NEW l \in {1, 2}, entry.lines[l].account \in live
          PROVE  entry.lines[l].account \in LiveAccounts(rows')
      <4>1. account.status = "DELETED" => entry.lines[l].account # a
        BY <3>1 DEF HasLines
      <4> QED
        BY <1>4, <1>6, <3>2, <4>1
    <3>3. /\ entry.lines[1].account \in LiveAccounts(rows')
          /\ entry.lines[2].account \in LiveAccounts(rows')
      BY <3>1, <3>2
    <3> QED
      BY <2>2, <3>3 DEF JournalLines, JournalLine
  <2> QED
    BY <1>2, <2>1, <2>2 DEF EntryOk
<1> QED
  BY <1>3, <1>7, <1>8, <1>9 DEF LedgerOk, ChartOk

\* An entry that is written stays in order when what is written is.
LEMMA EntryStep ==
  ASSUME LedgerOk(rows), NEW e \in Entries, NEW entry,
         EntryOk(entry, LiveAccounts(rows), rows.periods),
         NEW x \in Entries, NEW reversal, EntryOk(reversal, LiveAccounts(rows), rows.periods),
         rows' = [[rows EXCEPT !.entries[e] = entry] EXCEPT !.entries[x] = reversal]
  PROVE  LedgerOk(rows')
<1>1. /\ DOMAIN rows = {"domain", "accounts", "periods", "entries"}
      /\ DOMAIN rows.entries = Entries /\ LedgerShape(rows)
      /\ TypesOk(rows) /\ ChartOk(rows)
      /\ \A f \in Entries : EntryOk(rows.entries[f], LiveAccounts(rows), rows.periods)
  BY DEF LedgerOk, LedgerShape
<1>2. /\ DOMAIN rows' = DOMAIN rows /\ rows'.accounts = rows.accounts /\ rows'.periods = rows.periods
      /\ DOMAIN rows'.entries = Entries
      /\ \A f \in Entries : rows'.entries[f] = IF f = x THEN reversal ELSE IF f = e THEN entry
                                               ELSE rows.entries[f]
  BY <1>1
<1>3. LiveAccounts(rows') = LiveAccounts(rows) /\ TypesOk(rows') /\ ChartOk(rows')
  BY <1>1, <1>2, SameAccounts
<1>4. LedgerShape(rows')
  BY <1>1, <1>2 DEF LedgerShape
<1>5. ASSUME NEW f \in Entries
      PROVE  EntryOk(rows'.entries[f], LiveAccounts(rows'), rows'.periods)
  BY <1>1, <1>2, <1>3
<1> QED
  BY <1>3, <1>4, <1>5 DEF LedgerOk

\* A period may be closed that has no drafts.
LEMMA PeriodStep ==
  ASSUME LedgerOk(rows), NEW p \in Days, NEW status,
         status = "CLOSED" => UnpostedCheck(rows, p) \/ rows.periods[p].status = "CLOSED",
         rows' = [rows EXCEPT !.periods[p].status = status]
  PROVE  LedgerOk(rows')
<1>1. /\ DOMAIN rows = {"domain", "accounts", "periods", "entries"}
      /\ DOMAIN rows.periods = Days /\ LedgerShape(rows)
      /\ \A q \in Days : DOMAIN rows.periods[q] = {"status"}
      /\ TypesOk(rows) /\ ChartOk(rows)
      /\ \A f \in Entries : EntryOk(rows.entries[f], LiveAccounts(rows), rows.periods)
  BY DEF LedgerOk, LedgerShape
<1>2. /\ DOMAIN rows' = DOMAIN rows /\ rows'.accounts = rows.accounts /\ rows'.entries = rows.entries
      /\ DOMAIN rows'.periods = Days /\ \A q \in Days : DOMAIN rows'.periods[q] = {"status"}
      /\ \A q \in Days : rows'.periods[q].status = IF q = p THEN status ELSE rows.periods[q].status
  BY <1>1
<1>3. LiveAccounts(rows') = LiveAccounts(rows) /\ TypesOk(rows') /\ ChartOk(rows')
  BY <1>1, <1>2, SameAccounts
<1>4. LedgerShape(rows')
  BY <1>1, <1>2 DEF LedgerShape
<1>5. ASSUME NEW e \in Entries
      PROVE  EntryOk(rows'.entries[e], LiveAccounts(rows'), rows'.periods)
  <2> DEFINE entry == rows.entries[e]
  <2>1. EntryOk(entry, LiveAccounts(rows), rows.periods)
    BY <1>1
  <2>2. ASSUME entry.status = "DRAFT" PROVE entry.period \in Days /\ rows'.periods[entry.period].status # "CLOSED"
    <3>1. entry.period \in Days /\ rows.periods[entry.period].status # "CLOSED"
      BY <2>1, <2>2 DEF EntryOk
    <3>2. ~ (UnpostedCheck(rows, p) /\ entry.period = p)
      BY <2>2 DEF UnpostedCheck
    <3> QED
      BY <1>2, <3>1, <3>2
  <2> QED
    BY <1>2, <1>3, <2>1, <2>2 DEF EntryOk
<1> QED
  BY <1>3, <1>4, <1>5 DEF LedgerOk

\* The lines of an entry made by hand are on active accounts;
LEMMA EntryLinesOk ==
  ASSUME NEW r, NEW lines \in EntryLines(r)
  PROVE  JournalLines(lines, LiveAccounts(r))
<1> DEFINE active == {c \in Accounts : AccountActive(r, c)}
<1>1. active \subseteq LiveAccounts(r)
  BY DEF AccountActive, LiveAccounts
<1> HIDE DEF active
<1>2. PICK a \in active, b \in active, n \in 1..2 :
        lines = <<[account |-> a, debit |-> 1, credit |-> 0], [account |-> b, debit |-> 0, credit |-> n]>>
  BY DEF EntryLines, active
<1> DEFINE one == [account |-> a, debit |-> 1, credit |-> 0]
           two == [account |-> b, debit |-> 0, credit |-> n]
<1>3. JournalLine(one, LiveAccounts(r)) /\ JournalLine(two, LiveAccounts(r))
  BY <1>1 DEF JournalLine
<1> HIDE DEF one, two
<1>4. lines = <<one, two>>
  BY <1>2 DEF one, two
<1>5. DOMAIN lines = {1, 2} /\ lines[1] = one /\ lines[2] = two
  BY <1>4
<1> QED
  BY <1>3, <1>5 DEF JournalLines

\* those of a reversal are the lines of the original, debits and credits swapped.
LEMMA SwappedOk ==
  ASSUME NEW lines, NEW live, JournalLines(lines, live), Balanced(lines)
  PROVE  LET swapped == [l \in DOMAIN lines |-> Swapped(lines[l])]
         IN JournalLines(swapped, live) /\ Balanced(swapped)
<1> DEFINE swapped == [l \in DOMAIN lines |-> Swapped(lines[l])]
<1>1. DOMAIN lines = {1, 2} /\ JournalLine(lines[1], live) /\ JournalLine(lines[2], live)
  BY DEF JournalLines
<1>2. DOMAIN swapped = {1, 2} /\ \A l \in {1, 2} : swapped[l] = Swapped(lines[l])
  BY <1>1
<1>3. ASSUME NEW line, JournalLine(line, live)
      PROVE  /\ JournalLine(Swapped(line), live)
             /\ Swapped(line).debit = line.credit /\ Swapped(line).credit = line.debit
  <2>1. DOMAIN line = {"account", "debit", "credit"} /\ line.account \in live
        /\ line.debit \in Int /\ line.credit \in Int
    BY <1>3 DEF JournalLine
  <2>2. /\ DOMAIN Swapped(line) = {"account", "debit", "credit"}
        /\ Swapped(line).account = line.account
        /\ Swapped(line).debit = line.credit /\ Swapped(line).credit = line.debit
    BY <2>1 DEF Swapped
  <2> QED
    BY <2>1, <2>2 DEF JournalLine
<1> HIDE DEF swapped
<1>4. JournalLines(swapped, live)
  BY <1>1, <1>2, <1>3 DEF JournalLines
<1>5. Debits(swapped) = Credits(lines) /\ Credits(swapped) = Debits(lines)
  BY <1>1, <1>2, <1>3 DEF Debits, Credits
<1>6. Balanced(swapped)
  BY <1>5 DEF Balanced
<1> QED
  BY <1>4, <1>6 DEF swapped

\* Every step of the ledger, when the request has read the rows as they are,
\* preserves LedgerOk.
LEMMA LedgerStep ==
  ASSUME LedgerOk(rows), NEW w \in Workers, LedgerNext(w),
         requests[w].pc = "read" => Seen(w) = rows
  PROVE  LedgerOk(rows')
<1>1. /\ DOMAIN rows = {"domain", "accounts", "periods", "entries"}
      /\ DOMAIN rows.accounts = Accounts /\ DOMAIN rows.periods = Days /\ DOMAIN rows.entries = Entries
      /\ \A a \in Accounts : DOMAIN rows.accounts[a] = {"status", "type", "parent"}
      /\ \A e \in Entries : EntryOk(rows.entries[e], LiveAccounts(rows), rows.periods)
      /\ TypesOk(rows) /\ ParentsLive(rows) /\ NoneAbove(Chart(rows))
  BY DEF LedgerOk, LedgerShape, ChartOk
<1>2. requests[w].pc = "read" => Seen(w) = rows
  OBVIOUS
<1>3. AccountTypes \subseteq {"ASSET", "LIABILITY", "EQUITY", "REVENUE", "EXPENSE"}
  BY LedgerAssumption
<1>4. ASSUME NEW a \in Accounts, CreateAccount(w, a) PROVE LedgerOk(rows')
  <2>1. At(w, "read") /\ rows.accounts[a].status = "NONE"
    BY <1>4 DEF CreateAccount, Creates
  <2>2. Seen(w) = rows
    BY <1>2, <2>1 DEF At
  <2>3. PICK t \in AccountTypes, p \in Parents(rows) :
          rows' = [rows EXCEPT !.accounts[a] = [status |-> "ACTIVE", type |-> t, parent |-> p]]
    BY <1>4, <2>2 DEF CreateAccount, Commit
  <2> DEFINE account == [status |-> "ACTIVE", type |-> t, parent |-> p]
  <2>4. /\ DOMAIN account = {"status", "type", "parent"} /\ account.type = t
        /\ account.status \in {"ACTIVE", "INACTIVE"} /\ account.parent = p
    OBVIOUS
  <2>5. rows' = [rows EXCEPT !.accounts[a] = account]
    BY <2>3
  <2> HIDE DEF account
  <2>6. a \notin UpFrom(Chart(rows), p)
    <3>1. /\ ClosedUp(Chart(rows), LiveAccounts(rows)) /\ IsFiniteSet(Departments(Chart(rows)))
          /\ {p} \ {0} \subseteq LiveAccounts(rows)
      BY <1>1, ChartParents DEF Parents, ParentsOk
    <3>2. UpFrom(Chart(rows), p) \subseteq LiveAccounts(rows)
      BY <3>1, UpFromLeast
    <3> QED
      BY <2>1, <3>2 DEF LiveAccounts
  <2> QED
    BY <1>3, <2>4, <2>5, <2>6, AccountStep
<1>5. ASSUME NEW a \in Accounts, UpdateAccount(w, a) PROVE LedgerOk(rows')
  <2>1. At(w, "read") /\ Seen(w).accounts[a].status \in {"ACTIVE", "INACTIVE"}
    BY <1>5 DEF UpdateAccount, Changes
  <2>2. Seen(w) = rows
    BY <1>2, <2>1 DEF At
  <2>3. PICK s \in {"ACTIVE", "INACTIVE"}, t \in AccountTypes, p \in Parents(rows) :
          /\ p # rows.accounts[a].parent => ~ Circular(rows, a, p)
          /\ rows' = [rows EXCEPT !.accounts[a] = [status |-> s, type |-> t, parent |-> p]]
    BY <1>5, <2>2 DEF UpdateAccount, Commit
  <2> DEFINE account == [status |-> s, type |-> t, parent |-> p]
  <2>4. /\ DOMAIN account = {"status", "type", "parent"} /\ account.type = t
        /\ account.status \in {"ACTIVE", "INACTIVE"} /\ account.parent = p
    OBVIOUS
  <2>5. rows' = [rows EXCEPT !.accounts[a] = account]
    BY <2>3
  <2> HIDE DEF account
  <2>6. a \notin UpFrom(Chart(rows), p)
    <3>1. CASE p = rows.accounts[a].parent
      <4>1. Chart(rows).departments[a].parent = p
        BY <1>1, <2>1, <2>2, <3>1, ChartParents DEF Up, LiveAccounts
      <4>2. a \in Departments(Chart(rows))
        BY <1>1, ChartParents
      <4> QED
        BY <1>1, <4>1, <4>2 DEF NoneAbove
    <3>2. CASE p # rows.accounts[a].parent
      BY <1>1, <2>3, <3>2, NotCircularBelow
    <3> QED
      BY <3>1, <3>2
  <2> QED
    BY <1>3, <2>4, <2>5, <2>6, AccountStep
<1>6. ASSUME NEW a \in Accounts, DeleteAccount(w, a) PROVE LedgerOk(rows')
  <2>1. Seen(w) = rows
    BY <1>2, <1>6 DEF DeleteAccount, Changes, At
  <2>2. /\ \A b \in Accounts : rows.accounts[b].parent # a
        /\ ~ HasLines(rows, a)
        /\ rows' = [rows EXCEPT !.accounts[a].status = "DELETED"]
    BY <1>6, <2>1 DEF DeleteAccount, Commit
  <2> DEFINE account == [rows.accounts[a] EXCEPT !.status = "DELETED"]
  <2>3. /\ DOMAIN account = {"status", "type", "parent"} /\ account.type = rows.accounts[a].type
        /\ account.status = "DELETED"
    BY <1>1
  <2>4. rows' = [rows EXCEPT !.accounts[a] = account]
    BY <1>1, <2>2
  <2> HIDE DEF account
  <2>5. a \notin UpFrom(Chart(rows), 0)
    <3>1. ClosedUp(Chart(rows), {}) /\ IsFiniteSet(Departments(Chart(rows)))
      BY <1>1, ChartParents DEF ClosedUp, ParentsOk
    <3>2. UpFrom(Chart(rows), 0) \subseteq {}
      BY <3>1, UpFromLeast
    <3> QED
      BY <3>2
  <2>6. account.type \in {"ASSET", "LIABILITY", "EQUITY", "REVENUE", "EXPENSE"} /\ 0 \in Parents(rows)
    BY <1>1, <2>3 DEF TypesOk, Parents
  <2> QED
    BY <2>2, <2>3, <2>4, <2>5, <2>6, AccountStep
<1>7. ASSUME NEW p \in Days, CreatePeriod(w, p) PROVE LedgerOk(rows')
  <2>1. rows' = [rows EXCEPT !.periods[p].status = "OPEN"]
    BY <1>7 DEF CreatePeriod, Commit
  <2> QED
    BY <2>1, PeriodStep
<1>8. ASSUME NEW p \in Days, StartClosing(w, p) \/ ReopenLedger(w, p) PROVE LedgerOk(rows')
  <2>1. \E s \in {"CLOSING", "OPEN"} : rows' = [rows EXCEPT !.periods[p].status = s]
    <3>1. DOMAIN rows = {"domain", "accounts", "periods", "entries"}
      BY <1>1
    <3>2. \E s \in {"CLOSING", "OPEN"} : rows' = [rows EXCEPT !["periods"][p].status = s]
      BY <1>8 DEF StartClosing, ReopenLedger, SetStatus, Commit
    <3> QED
      BY <3>2
  <2> QED
    BY <2>1, PeriodStep
<1>9. ASSUME NEW p \in Days, CloseLedger(w, p) PROVE LedgerOk(rows')
  <2>1. Seen(w) = rows
    BY <1>2, <1>9 DEF CloseLedger, Changes, At
  <2> DEFINE status == IF CanClose(rows, p) THEN "CLOSED"
                       ELSE IF rows.periods[p].status = "CLOSING" THEN "OPEN" ELSE rows.periods[p].status
  <2>2. rows' = [rows EXCEPT !.periods[p].status = status]
    BY <1>9, <2>1 DEF CloseLedger, Commit
  <2>3. status = "CLOSED" => UnpostedCheck(rows, p) \/ rows.periods[p].status = "CLOSED"
    BY DEF CanClose
  <2> HIDE DEF status
  <2> QED
    BY <2>2, <2>3, PeriodStep
\* What is written to one entry.
<1>10. ASSUME NEW e \in Entries, NEW entry, EntryOk(entry, LiveAccounts(rows), rows.periods),
              rows' = [rows EXCEPT !.entries[e] = entry]
       PROVE  LedgerOk(rows')
  <2>1. rows' = [[rows EXCEPT !.entries[e] = entry] EXCEPT !.entries[e] = entry]
    BY <1>1, <1>10
  <2>2. EntryOk(entry, LiveAccounts(rows), rows.periods)
    BY <1>10
  <2> QED
    BY <2>1, <2>2, EntryStep
<1>11. ASSUME NEW e \in Entries, CreateEntry(w, e) \/ UpdateEntry(w, e) PROVE LedgerOk(rows')
  <2>1. Seen(w) = rows
    BY <1>2, <1>11 DEF CreateEntry, UpdateEntry, Creates, Changes, At
  <2>2. PICK p \in Days, lines \in EntryLines(rows) :
          PeriodOpen(rows, p) /\ rows' = [rows EXCEPT !.entries[e] = Draft(p, lines)]
    BY <1>11, <2>1 DEF CreateEntry, UpdateEntry, Commit
  <2>3. JournalLines(lines, LiveAccounts(rows))
    BY EntryLinesOk
  <2> DEFINE entry == Draft(p, lines)
  <2>4. /\ DOMAIN entry = {"status", "period", "day", "reverses", "lines"}
        /\ entry.status = "DRAFT" /\ entry.period = p /\ entry.lines = lines
    BY DEF Draft
  <2>5. rows' = [rows EXCEPT !.entries[e] = entry]
    BY <2>2
  <2> HIDE DEF entry
  <2>6. EntryOk(entry, LiveAccounts(rows), rows.periods)
    BY <2>2, <2>3, <2>4 DEF EntryOk, PeriodOpen
  <2> QED
    BY <1>10, <2>5, <2>6
<1>12. ASSUME NEW e \in Entries, DeleteEntry(w, e) PROVE LedgerOk(rows')
  <2> DEFINE entry == [NoEntry EXCEPT !.status = "DELETED"]
  <2>1. /\ DOMAIN entry = {"status", "period", "day", "reverses", "lines"}
        /\ entry.status = "DELETED"
    BY DEF NoEntry
  <2>2. rows' = [rows EXCEPT !.entries[e] = entry]
    BY <1>12 DEF DeleteEntry, Commit
  <2> HIDE DEF entry
  <2>3. EntryOk(entry, LiveAccounts(rows), rows.periods)
    BY <2>1 DEF EntryOk
  <2> QED
    BY <1>10, <2>2, <2>3
<1>13. ASSUME NEW e \in Entries, PostEntry(w, e) PROVE LedgerOk(rows')
  <2>1. Seen(w) = rows
    BY <1>2, <1>13 DEF PostEntry, Changes, At
  <2> DEFINE entry == [rows.entries[e] EXCEPT !.status = "POSTED"]
  <2>2. /\ rows.entries[e].status = "DRAFT" /\ Balanced(rows.entries[e].lines)
        /\ rows' = [rows EXCEPT !.entries[e].status = "POSTED"]
    BY <1>13, <2>1 DEF PostEntry, Changes, Commit
  <2>3. EntryOk(rows.entries[e], LiveAccounts(rows), rows.periods)
    BY <1>1
  <2>4. /\ DOMAIN entry = {"status", "period", "day", "reverses", "lines"}
        /\ entry.status = "POSTED" /\ entry.lines = rows.entries[e].lines
    BY <2>3 DEF EntryOk
  <2>5. rows' = [rows EXCEPT !.entries[e] = entry]
    BY <1>1, <2>2
  <2> HIDE DEF entry
  <2>6. EntryOk(entry, LiveAccounts(rows), rows.periods)
    BY <2>2, <2>3, <2>4 DEF EntryOk
  <2> QED
    BY <1>10, <2>5, <2>6
<1>14. ASSUME NEW e \in Entries, NEW x \in Entries, ReverseEntry(w, e, x) PROVE LedgerOk(rows')
  <2>1. Seen(w) = rows
    BY <1>2, <1>14 DEF ReverseEntry, Changes, At
  <2> DEFINE entry == [rows.entries[e] EXCEPT !.status = "VOIDED"]
             lines == rows.entries[e].lines
             p == ReversalPeriod(rows, e)
             reversal == [status |-> "POSTED", period |-> p, day |-> Today, reverses |-> e,
                          lines |-> [l \in DOMAIN lines |-> Swapped(lines[l])]]
  <2>2. /\ rows.entries[e].status = "POSTED"
        /\ rows' = [rows EXCEPT !.entries[e].status = "VOIDED", !.entries[x] = reversal]
    BY <1>14, <2>1 DEF ReverseEntry, Changes, Commit
  <2>3. EntryOk(rows.entries[e], LiveAccounts(rows), rows.periods)
    BY <1>1
  <2>4. JournalLines(lines, LiveAccounts(rows)) /\ Balanced(lines)
    BY <2>2, <2>3 DEF EntryOk
  <2>5. /\ DOMAIN entry = {"status", "period", "day", "reverses", "lines"}
        /\ entry.status = "VOIDED"
    BY <2>3 DEF EntryOk
  <2>6. /\ DOMAIN reversal = {"status", "period", "day", "reverses", "lines"}
        /\ reversal.status = "POSTED"
        /\ JournalLines(reversal.lines, LiveAccounts(rows)) /\ Balanced(reversal.lines)
    BY <2>4, SwappedOk
  <2>7. rows' = [[rows EXCEPT !.entries[e] = entry] EXCEPT !.entries[x] = reversal]
    <3> HIDE DEF reversal
    <3> QED
      BY <1>1, <2>2
  <2> HIDE DEF entry, reversal
  <2>8. EntryOk(entry, LiveAccounts(rows), rows.periods) /\ EntryOk(reversal, LiveAccounts(rows), rows.periods)
    BY <2>5, <2>6 DEF EntryOk
  <2> QED
    BY <2>7, <2>8, EntryStep
<1>15. EntryIds \subseteq Entries /\ ReversalIds \subseteq Entries
  BY DEF Entries
<1> QED
  BY <1>4, <1>5, <1>6, <1>7, <1>8, <1>9, <1>11, <1>12, <1>13, <1>14, <1>15, Zenon DEF LedgerNext

LEMMA NoLedgerOk == LedgerOk(NoLedger)
<1> DEFINE db == NoLedger
<1>1. /\ LedgerShape(db) /\ TypesOk(db)
      /\ \A a \in Accounts : db.accounts[a] = NoAccount
      /\ \A e \in Entries : db.entries[e] = NoEntry
  BY DEF NoLedger, NoAccount, LedgerShape, TypesOk
<1>2. LiveAccounts(db) = {}
  BY <1>1 DEF LiveAccounts, NoAccount
<1>3. ParentsLive(db)
  BY <1>2 DEF ParentsLive
<1>4. \A e \in Entries : EntryOk(db.entries[e], LiveAccounts(db), db.periods)
  BY <1>1 DEF EntryOk, NoEntry
<1> HIDE DEF db
<1>5. /\ IsFiniteSet(Departments(Chart(db))) /\ Departments(Chart(db)) = Accounts
      /\ \A a \in Accounts : Chart(db).departments[a].parent = 0
  BY <1>2, <1>3, ChartParents DEF ParentsOk, Up
<1>6. ClosedUp(Chart(db), {})
  BY DEF ClosedUp
<1>7. UpFrom(Chart(db), 0) \subseteq {}
  BY <1>5, <1>6, UpFromLeast
<1>8. NoneAbove(Chart(db))
  BY <1>5, <1>7 DEF NoneAbove
<1> QED
  BY <1>1, <1>3, <1>4, <1>8 DEF LedgerOk, ChartOk, db

\* LedgerOk implies what is stated of the statements
LEMMA StatementsBalanceThen ==
  ASSUME rows.domain = "ledger" => LedgerOk(rows)
  PROVE  StatementsBalance
<1> SUFFICES ASSUME LedgerOk(rows) PROVE StatementsBalance
  BY DEF StatementsBalance
<1>1. TypesOk(rows) /\ \A e \in Entries : EntryOk(rows.entries[e], LiveAccounts(rows), rows.periods)
  BY DEF LedgerOk
<1>2. PostedEntries(rows)
  BY <1>1 DEF PostedEntries, JournalsOk, EntryOk
<1>3. \A p \in Days : rows.periods[p].status = "CLOSED" => UnpostedCheck(rows, p)
  BY <1>1 DEF UnpostedCheck, EntryOk
<1>4. ASSUME NEW day \in Days
      PROVE  LET sheet == BalanceSheet(rows, day) IN sheet.assets = sheet.liabilities + sheet.equity
  BY <1>1, <1>2, SheetBalances
<1>5. ASSUME NEW first \in Days, NEW last \in Days
      PROVE  LET trial == TrialBalance(rows, first, last)
             IN /\ SumFunction([a \in DOMAIN trial |-> trial[a].opening + trial[a].period]) = 0
                /\ first <= last =>
                     /\ \A a \in DOMAIN trial : trial[a].net = GeneralLedger(rows, a, first, last)
                     /\ CashFlow(rows, first, last).closing =
                        SumFunction([a \in CashAccounts(rows) |-> trial[a].net])
  BY <1>2, TrialBalances
<1> QED
  BY <1>3, <1>4, <1>5, Zenon DEF StatementsBalance

\* and of the chart of accounts.
LEMMA ChartIsForestThen ==
  ASSUME rows.domain = "ledger" => LedgerOk(rows)
  PROVE  ChartIsForest
<1> SUFFICES ASSUME LedgerOk(rows), NEW a \in LiveAccounts(rows)
             PROVE  /\ ~ Circular(rows, a, rows.accounts[a].parent)
                    /\ rows.accounts[a].parent \in Parents(rows)
  BY DEF ChartIsForest
<1>1. ChartOk(rows)
  BY DEF LedgerOk
<1> QED
  BY <1>1, OrderedNotCircular DEF ChartOk, ParentsLive

-----------------------------------------------------------------------------
(* budgets and banking: one active budget, a statement that is reconciled. *)

\* One budget is active.
BudgetsOk(db) ==
  /\ DOMAIN db = {"domain", "budgets"} /\ DOMAIN db.budgets = Budgets
  /\ \A b \in Budgets : DOMAIN db.budgets[b] = {"status", "lined"}
  /\ \A b, c \in Budgets :
       db.budgets[b].status = "ACTIVE" /\ db.budgets[c].status = "ACTIVE" => b = c

\* The step of a request preserves it, whatever the request has read.
LEMMA BudgetsStep ==
  ASSUME BudgetsOk(rows), NEW w \in Workers, BudgetsNext(w)
  PROVE  BudgetsOk(rows')
<1>1. /\ DOMAIN rows = {"domain", "budgets"} /\ DOMAIN rows.budgets = Budgets
      /\ \A b \in Budgets : DOMAIN rows.budgets[b] = {"status", "lined"}
      /\ \A b, c \in Budgets :
           rows.budgets[b].status = "ACTIVE" /\ rows.budgets[c].status = "ACTIVE" => b = c
  BY DEF BudgetsOk
<1>2. ASSUME NEW b \in Budgets, NEW budget, DOMAIN budget = {"status", "lined"},
             budget.status = "ACTIVE" => rows.budgets[b].status = "ACTIVE",
             rows' = [rows EXCEPT !.budgets[b] = budget]
      PROVE  BudgetsOk(rows')
  <2>1. /\ DOMAIN rows' = {"domain", "budgets"} /\ DOMAIN rows'.budgets = Budgets
        /\ \A c \in Budgets : rows'.budgets[c] = IF c = b THEN budget ELSE rows.budgets[c]
    BY <1>1, <1>2
  <2>2. \A c \in Budgets : rows'.budgets[c].status = "ACTIVE" => rows.budgets[c].status = "ACTIVE"
    BY <1>2, <2>1
  <2> QED
    BY <1>1, <1>2, <2>1, <2>2 DEF BudgetsOk
<1>3. ASSUME NEW b \in Budgets, NEW status, status # "ACTIVE",
             rows' = [rows EXCEPT !.budgets[b].status = status]
      PROVE  BudgetsOk(rows')
  <2> DEFINE budget == [rows.budgets[b] EXCEPT !.status = status]
  <2>1. DOMAIN budget = {"status", "lined"} /\ budget.status # "ACTIVE"
    BY <1>1, <1>3
  <2>2. rows' = [rows EXCEPT !.budgets[b] = budget]
    BY <1>1, <1>3
  <2> HIDE DEF budget
  <2> QED
    BY <1>2, <2>1, <2>2
<1>4. ASSUME NEW b \in Budgets, NEW from, NEW to, to # "ACTIVE", SetStatus(w, "budgets", b, from, to)
      PROVE  BudgetsOk(rows')
  BY <1>3, <1>4 DEF SetStatus, Commit
<1>5. ASSUME NEW b \in Budgets, CreateBudget(w, b) PROVE BudgetsOk(rows')
  <2>1. PICK lined \in BOOLEAN :
          Commit(w, [rows EXCEPT !.budgets[b] = [status |-> "DRAFT", lined |-> lined]])
    BY <1>5, Zenon DEF CreateBudget
  <2> DEFINE budget == [status |-> "DRAFT", lined |-> lined]
  <2>2. DOMAIN budget = {"status", "lined"} /\ budget.status # "ACTIVE"
    OBVIOUS
  <2>3. rows' = [rows EXCEPT !.budgets[b] = budget]
    BY <2>1 DEF Commit
  <2> HIDE DEF budget
  <2> QED
    BY <1>2, <2>2, <2>3
<1>6. ASSUME NEW b \in Budgets, UpdateBudget(w, b) PROVE BudgetsOk(rows')
  <2>1. PICK lined \in BOOLEAN : Commit(w, [rows EXCEPT !.budgets[b].lined = lined])
    BY <1>6, Zenon DEF UpdateBudget
  <2> DEFINE budget == [rows.budgets[b] EXCEPT !.lined = lined]
  <2>2. DOMAIN budget = {"status", "lined"} /\ budget.status = rows.budgets[b].status
    BY <1>1
  <2>3. rows' = [rows EXCEPT !.budgets[b] = budget]
    BY <1>1, <2>1 DEF Commit
  <2> HIDE DEF budget
  <2> QED
    BY <1>2, <2>2, <2>3
<1>7. ASSUME NEW b \in Budgets, ActivateBudget(w, b) PROVE BudgetsOk(rows')
  <2> DEFINE new == [c \in Budgets |->
               IF c = b THEN [rows.budgets[c] EXCEPT !.status = "ACTIVE"]
               ELSE IF rows.budgets[c].status = "ACTIVE"
                    THEN [rows.budgets[c] EXCEPT !.status = "CLOSED"] ELSE rows.budgets[c]]
  <2>1. rows' = [rows EXCEPT !.budgets = new]
    BY <1>1, <1>7 DEF ActivateBudget, Commit
  <2>2. \A c \in Budgets : /\ DOMAIN new[c] = {"status", "lined"}
                           /\ new[c].status = "ACTIVE" => c = b
    BY <1>1
  <2>3. DOMAIN new = Budgets
    OBVIOUS
  <2> HIDE DEF new
  <2>4. DOMAIN rows' = {"domain", "budgets"} /\ rows'.budgets = new
    BY <1>1, <2>1
  <2> QED
    BY <2>2, <2>3, <2>4 DEF BudgetsOk
<1>8. PICK b \in Budgets :
        \/ CreateBudget(w, b) \/ UpdateBudget(w, b) \/ DeleteBudget(w, b)
        \/ SubmitBudget(w, b) \/ ApproveBudget(w, b) \/ RejectBudget(w, b)
        \/ CancelBudget(w, b) \/ CloseBudget(w, b) \/ ActivateBudget(w, b)
  BY Zenon DEF BudgetsNext
<1>9. CASE DeleteBudget(w, b)
  BY <1>4, <1>9 DEF DeleteBudget
<1>10. CASE SubmitBudget(w, b)
  BY <1>4, <1>10 DEF SubmitBudget
<1>11. CASE ApproveBudget(w, b)
  BY <1>4, <1>11 DEF ApproveBudget
<1>12. CASE RejectBudget(w, b)
  BY <1>4, <1>12 DEF RejectBudget
<1>13. CASE CancelBudget(w, b)
  BY <1>4, <1>13 DEF CancelBudget
<1>14. CASE CloseBudget(w, b)
  BY <1>4, <1>14 DEF CloseBudget
<1> QED
  BY <1>5, <1>6, <1>7, <1>8, <1>9, <1>10, <1>11, <1>12, <1>13, <1>14

\* There are no budgets at first.
LEMMA NoBudgetsOk == BudgetsOk(NoBudgets)
  BY DEF BudgetsOk, NoBudgets

BankingShape(db) ==
  /\ DOMAIN db = {"domain", "statement", "session", "lines"}
  /\ DOMAIN db.statement = {"status", "closing"} /\ DOMAIN db.lines = Transactions
  /\ \A t \in Transactions : DOMAIN db.lines[t] = {"status", "amount", "payment", "adjustments"}

\* No payment is matched with two transactions.
PaymentsOnce(lines) ==
  \A t, u \in Transactions : t # u /\ lines[t].payment # 0 => lines[t].payment # lines[u].payment

\* What is locked was reconciled, and has no session that goes on.
BankingOk(db) ==
  /\ BankingShape(db) /\ PaymentsOnce(db.lines)
  /\ db.statement.status = "LOCKED" =>
       /\ db.session # "OPEN"
       /\ \A t \in Transactions : db.lines[t].status # "UNMATCHED"
       /\ Reconciled(db) = db.statement.closing

\* What is reconciled is so by the lines.
LEMMA ReconciledBy ==
  ASSUME NEW db, NEW new, new.lines = db.lines
  PROVE  Reconciled(new) = Reconciled(db)
<1>1. MatchedLines(new) = MatchedLines(db)
  BY DEF MatchedLines
<1> QED
  BY <1>1, Zenon DEF Reconciled

\* Every step of banking, when the request has read the rows as they are,
\* preserves BankingOk.
LEMMA BankingStep ==
  ASSUME BankingOk(rows), NEW w \in Workers, BankingNext(w),
         requests[w].pc = "read" => Seen(w) = rows
  PROVE  BankingOk(rows')
<1>1. /\ DOMAIN rows = {"domain", "statement", "session", "lines"}
      /\ DOMAIN rows.statement = {"status", "closing"} /\ DOMAIN rows.lines = Transactions
      /\ \A t \in Transactions : DOMAIN rows.lines[t] = {"status", "amount", "payment", "adjustments"}
      /\ PaymentsOnce(rows.lines)
      /\ rows.statement.status = "LOCKED" =>
           /\ rows.session # "OPEN"
           /\ \A t \in Transactions : rows.lines[t].status # "UNMATCHED"
           /\ Reconciled(rows) = rows.statement.closing
  BY DEF BankingOk, BankingShape
\* A transaction of a statement that is not locked.
<1>2. ASSUME NEW t \in Transactions, NEW line, rows.statement.status # "LOCKED",
             DOMAIN line = {"status", "amount", "payment", "adjustments"},
             line.payment = 0 \/ line.payment = rows.lines[t].payment \/ ~ Taken(rows, line.payment, t),
             rows' = [rows EXCEPT !.lines[t] = line]
      PROVE  BankingOk(rows')
  <2>1. /\ DOMAIN rows' = DOMAIN rows /\ rows'.statement = rows.statement
        /\ DOMAIN rows'.lines = Transactions
        /\ \A u \in Transactions : rows'.lines[u] = IF u = t THEN line ELSE rows.lines[u]
    BY <1>1, <1>2
  <2>2. line.payment # 0 => \A u \in Transactions : u # t => rows.lines[u].payment # line.payment
    BY <1>1, <1>2 DEF PaymentsOnce, Taken
  <2>3. PaymentsOnce(rows'.lines)
    BY <1>1, <2>1, <2>2 DEF PaymentsOnce
  <2>4. BankingShape(rows')
    BY <1>1, <1>2, <2>1 DEF BankingShape
  <2> QED
    BY <1>2, <2>1, <2>3, <2>4 DEF BankingOk
\* A change of the statement or of its session.
<1>3. ASSUME NEW statement, NEW session, DOMAIN statement = {"status", "closing"},
             rows' = [[rows EXCEPT !.statement = statement] EXCEPT !.session = session],
             statement.status = "LOCKED" =>
               /\ session # "OPEN"
               /\ \A t \in Transactions : rows.lines[t].status # "UNMATCHED"
               /\ Reconciled(rows) = statement.closing
      PROVE  BankingOk(rows')
  <2>1. /\ DOMAIN rows' = DOMAIN rows /\ rows'.statement = statement /\ rows'.session = session
        /\ rows'.lines = rows.lines
    BY <1>1, <1>3
  <2>2. Reconciled(rows') = Reconciled(rows)
    BY <2>1, ReconciledBy
  <2>3. BankingShape(rows')
    BY <1>1, <1>3, <2>1 DEF BankingShape
  <2> QED
    BY <1>1, <1>3, <2>1, <2>2, <2>3 DEF BankingOk
<1>4. requests[w].pc = "read" => Seen(w) = rows
  OBVIOUS
<1>5. ASSUME CreateStatement(w) PROVE BankingOk(rows')
  <2>1. PICK c \in 0..MaxAmount :
          Commit(w, [rows EXCEPT !.statement = [status |-> "DRAFT", closing |-> c]])
    BY <1>5, Zenon DEF CreateStatement
  <2> DEFINE statement == [status |-> "DRAFT", closing |-> c]
             session == rows.session
  <2>2. rows' = [[rows EXCEPT !.statement = statement] EXCEPT !.session = session]
    BY <1>1, <2>1 DEF Commit
  <2>3. DOMAIN statement = {"status", "closing"} /\ statement.status = "DRAFT"
    OBVIOUS
  <2> HIDE DEF statement, session
  <2> QED
    BY <1>3, <2>2, <2>3
<1>6. ASSUME ImportTransactions(w) PROVE BankingOk(rows')
  <2>1. PICK new, amount :
          Commit(w, [rows EXCEPT
            !.statement.status = IF Seen(w).statement.status = "DRAFT" THEN "IMPORTED" ELSE @,
            !.lines = [t \in DOMAIN @ |->
               IF t \in new
               THEN [status |-> "UNMATCHED", amount |-> amount[t], payment |-> 0, adjustments |-> 0]
               ELSE @[t]]])
    BY <1>6 DEF ImportTransactions
  <2>2. rows.statement.status # "LOCKED" /\ Seen(w) = rows
    BY <1>4, <1>6 DEF ImportTransactions, StatementIs, At
  <2> DEFINE line(t) == [status |-> "UNMATCHED", amount |-> amount[t], payment |-> 0, adjustments |-> 0]
             lines == [t \in Transactions |-> IF t \in new THEN line(t) ELSE rows.lines[t]]
             status == IF rows.statement.status = "DRAFT" THEN "IMPORTED" ELSE rows.statement.status
  <2>3. rows' = [[rows EXCEPT !.statement.status = status] EXCEPT !.lines = lines]
    BY <1>1, <2>1, <2>2 DEF Commit
  <2>4. /\ status # "LOCKED"
        /\ \A t \in Transactions : /\ DOMAIN lines[t] = {"status", "amount", "payment", "adjustments"}
                                   /\ lines[t].payment = 0 \/ lines[t].payment = rows.lines[t].payment
        /\ DOMAIN lines = Transactions
    BY <1>1, <2>2
  <2> HIDE DEF lines, status
  <2>5. /\ DOMAIN rows' = DOMAIN rows /\ rows'.lines = lines
        /\ DOMAIN rows'.statement = {"status", "closing"} /\ rows'.statement.status = status
    BY <1>1, <2>3
  <2>6. PaymentsOnce(lines)
    BY <1>1, <2>4 DEF PaymentsOnce
  <2>7. BankingShape(rows')
    BY <1>1, <2>4, <2>5 DEF BankingShape
  <2> QED
    BY <2>4, <2>5, <2>6, <2>7 DEF BankingOk
<1>7. ASSUME NEW t \in Transactions, MatchPayment(w, t) PROVE BankingOk(rows')
  <2>1. PICK p \in BankPayments :
          /\ ~ Taken(Seen(w), p, t)
          /\ Commit(w, [rows EXCEPT !.lines[t].status = "MATCHED", !.lines[t].payment = p])
    BY <1>7, Zenon DEF MatchPayment
  <2>2. rows.statement.status # "LOCKED" /\ Seen(w) = rows
    BY <1>4, <1>7 DEF MatchPayment, Open, StatementIs, At
  <2> DEFINE line == [[rows.lines[t] EXCEPT !.status = "MATCHED"] EXCEPT !.payment = p]
  <2>3. DOMAIN line = {"status", "amount", "payment", "adjustments"} /\ line.payment = p
    BY <1>1
  <2>4. rows' = [rows EXCEPT !.lines[t] = line]
    BY <1>1, <2>1 DEF Commit
  <2> HIDE DEF line
  <2> QED
    BY <1>2, <2>1, <2>2, <2>3, <2>4
<1>8. ASSUME NEW t \in Transactions, NEW status,
             rows' = [rows EXCEPT !.lines[t].status = status, !.lines[t].payment = 0],
             rows.statement.status # "LOCKED"
      PROVE  BankingOk(rows')
  <2> DEFINE line == [[rows.lines[t] EXCEPT !.status = status] EXCEPT !.payment = 0]
  <2>1. DOMAIN line = {"status", "amount", "payment", "adjustments"} /\ line.payment = 0
    BY <1>1
  <2>2. rows' = [rows EXCEPT !.lines[t] = line]
    BY <1>1, <1>8
  <2> HIDE DEF line
  <2> QED
    BY <1>2, <1>8, <2>1, <2>2
<1>9. ASSUME NEW t \in Transactions, MatchJournal(w, t) \/ Unmatch(w, t) PROVE BankingOk(rows')
  <2>1. /\ rows.statement.status # "LOCKED"
        /\ \E status : rows' = [rows EXCEPT !.lines[t].status = status, !.lines[t].payment = 0]
    BY <1>4, <1>9 DEF MatchJournal, Unmatch, Open, StatementIs, At, Commit
  <2> QED
    BY <1>8, <2>1
<1>10. ASSUME NEW t \in Transactions, PostAdjustment(w, t) PROVE BankingOk(rows')
  <2> DEFINE line == [[rows.lines[t] EXCEPT !.status = "ADJUSTED"] EXCEPT !.adjustments = @ + 1]
  <2>1. rows.statement.status # "LOCKED"
    BY <1>4, <1>10 DEF PostAdjustment, Open, StatementIs, At
  <2>2. DOMAIN line = {"status", "amount", "payment", "adjustments"} /\ line.payment = rows.lines[t].payment
    BY <1>1
  <2>3. rows' = [rows EXCEPT !.lines[t] = line]
    BY <1>1, <1>10 DEF PostAdjustment, Commit
  <2> HIDE DEF line
  <2> QED
    BY <1>2, <2>1, <2>2, <2>3
<1>11. ASSUME NEW session, NEW status,
              rows' = [rows EXCEPT !.session = session, !.statement.status = status],
              status = "LOCKED" =>
                /\ session # "OPEN"
                /\ \A t \in Transactions : rows.lines[t].status # "UNMATCHED"
                /\ Reconciled(rows) = rows.statement.closing
       PROVE  BankingOk(rows')
  <2> DEFINE statement == [rows.statement EXCEPT !.status = status]
  <2>1. /\ DOMAIN statement = {"status", "closing"} /\ statement.status = status
        /\ statement.closing = rows.statement.closing
    BY <1>1
  <2>2. rows' = [[rows EXCEPT !.statement = statement] EXCEPT !.session = session]
    BY <1>1, <1>11
  <2> HIDE DEF statement
  <2> QED
    BY <1>3, <1>11, <2>1, <2>2
<1>12. ASSUME StartReconciliation(w) PROVE BankingOk(rows')
  <2>1. CASE rows.session = "NONE"
    BY <1>11, <1>12, <2>1 DEF StartReconciliation, CommitIf, Commit
  <2>2. CASE rows.session # "NONE"
    BY <1>12, <2>2 DEF StartReconciliation, CommitIf, Commit
  <2> QED
    BY <2>1, <2>2
<1>13. ASSUME CompleteReconciliation(w) PROVE BankingOk(rows')
  <2>1. /\ rows' = [rows EXCEPT !.session = "COMPLETED", !.statement.status = "LOCKED"]
        /\ \A t \in Transactions : rows.lines[t].status # "UNMATCHED"
        /\ Reconciled(rows) = rows.statement.closing
    BY <1>4, <1>13 DEF CompleteReconciliation, Commit, At
  <2> QED
    BY <1>11, <2>1
<1>14. ASSUME CancelReconciliation(w) PROVE BankingOk(rows')
  <2>1. rows' = [rows EXCEPT !.session = "CANCELLED", !.statement.status = "IMPORTED"]
    BY <1>14 DEF CancelReconciliation, Commit
  <2> QED
    BY <1>11, <2>1
<1>15. \/ CreateStatement(w) \/ ImportTransactions(w)
       \/ StartReconciliation(w) \/ CompleteReconciliation(w) \/ CancelReconciliation(w)
       \/ \E t \in Transactions :
            MatchPayment(w, t) \/ MatchJournal(w, t) \/ Unmatch(w, t) \/ PostAdjustment(w, t)
  BY Zenon DEF BankingNext
<1> QED
  BY <1>5, <1>6, <1>7, <1>9, <1>10, <1>12, <1>13, <1>14, <1>15

\* There is no statement at first.
LEMMA NoBankingOk == BankingOk(NoBanking)
  BY DEF BankingOk, BankingShape, PaymentsOnce, NoBanking

\* What the invariants say of banking and of budgets.
LEMMA LockedIsReconciledThen ==
  ASSUME rows.domain = "banking" => BankingOk(rows), rows.domain = "budgets" => BudgetsOk(rows)
  PROVE  LockedIsReconciled
<1>1. rows.domain = "budgets" =>
        \A b, c \in Budgets :
          rows.budgets[b].status = "ACTIVE" /\ rows.budgets[c].status = "ACTIVE" => b = c
  BY DEF BudgetsOk
<1>2. rows.domain = "banking" =>
        /\ rows.statement.status = "LOCKED" =>
             /\ \A t \in Transactions : rows.lines[t].status # "UNMATCHED"
             /\ Reconciled(rows) = rows.statement.closing
        /\ PaymentsOnce(rows.lines)
  BY DEF BankingOk
<1> QED
  BY <1>1, <1>2 DEF LockedIsReconciled, StatementIs, PaymentsOnce

-----------------------------------------------------------------------------
(* assets: a schedule, and what was posted of it. *)

\* What the months in a schedule that are posted come to.
Depreciated(schedule) ==
  SumFunction([m \in {n \in Months : schedule[n].status = "POSTED"} |-> schedule[m].amount])

ScheduleType(schedule) ==
  /\ DOMAIN schedule = Months
  /\ \A m \in Months : DOMAIN schedule[m] = {"status", "amount"} /\ schedule[m].amount \in Int

NothingPosted(schedule) == \A m \in Months : schedule[m].status # "POSTED"
NothingScheduled(schedule) == \A m \in Months : schedule[m].status # "SCHEDULED"

AssetType(asset) ==
  /\ DOMAIN asset = {"status", "base", "life", "accumulated", "capitalized"}
  /\ asset.base \in Int /\ asset.life \in Nat \ {0}

\* A draft has depreciated by nothing, nor has what is voided; of what is gone no
\* month is left to be posted.
AssetAddsUp(asset, schedule) ==
  /\ asset.accumulated = Depreciated(schedule)
  /\ asset.status \in {"NONE", "DRAFT", "VOIDED"} => NothingPosted(schedule)
  /\ asset.status \in {"DISPOSED", "VOIDED"} => NothingScheduled(schedule)
  /\ asset.status = "FULLY_DEPRECIATED" => asset.accumulated >= asset.base

AssetsOk(db) ==
  /\ DOMAIN db = {"domain", "asset", "schedule"} /\ DOMAIN db.asset = {1}
  /\ AssetType(db.asset[1]) /\ ScheduleType(db.schedule)
  /\ AssetAddsUp(db.asset[1], db.schedule)

\* Without a posted month nothing has depreciated,
LEMMA NothingDepreciated ==
  ASSUME NEW schedule, NothingPosted(schedule)
  PROVE  Depreciated(schedule) = 0
<1>1. {n \in Months : schedule[n].status = "POSTED"} = {}
  BY DEF NothingPosted
<1> QED
  BY <1>1, SumNone DEF Depreciated

\* with the same months posted it is the same,
LEMMA DepreciatedSame ==
  ASSUME NEW schedule, NEW new,
         \A m \in Months : /\ new[m].status = "POSTED" <=> schedule[m].status = "POSTED"
                           /\ new[m].amount = schedule[m].amount
  PROVE  Depreciated(new) = Depreciated(schedule)
<1>1. {n \in Months : new[n].status = "POSTED"} = {n \in Months : schedule[n].status = "POSTED"}
  OBVIOUS
<1> QED
  BY <1>1 DEF Depreciated

\* and with one more it is more by its amount.
LEMMA DepreciatedMore ==
  ASSUME NEW schedule, ScheduleType(schedule), NEW new, NEW m \in Months,
         schedule[m].status # "POSTED", new[m].status = "POSTED",
         \A n \in Months : n # m => new[n].status = schedule[n].status,
         \A n \in Months : new[n].amount = schedule[n].amount
  PROVE  Depreciated(new) = Depreciated(schedule) + schedule[m].amount
<1> DEFINE S == {n \in Months : schedule[n].status = "POSTED"}
           T == {n \in Months : new[n].status = "POSTED"}
           f == [n \in S |-> schedule[n].amount]
           g == [n \in T |-> new[n].amount]
<1>1. T = S \cup {m} /\ m \notin S
  OBVIOUS
<1>2. IsFiniteSet(Months)
  <2>1. 1 \in Int /\ MaxLife \in Int
    BY MaxLifeAssumption
  <2> QED
    BY <2>1, FS_Interval, Zenon DEF Months
<1>3. IsFiniteSet(S)
  BY <1>2, FS_Subset
<1>4. /\ \A n \in S : f[n] \in Int /\ g[n] = f[n]
      /\ \A n \in T : g[n] \in Int
      /\ g[m] = schedule[m].amount /\ schedule[m].amount \in Int
  BY DEF ScheduleType
<1>5. Depreciated(schedule) = SumFunctionOnSet(f, S) /\ Depreciated(new) = SumFunctionOnSet(g, T)
  BY DEF Depreciated, SumFunction
<1> HIDE DEF f, g, S, T
<1>6. SumFunctionOnSet(g, S \cup {m}) = g[m] + SumFunctionOnSet(g, S)
  BY <1>1, <1>3, <1>4, SumAdd
<1>7. SumFunctionOnSet(g, S) = SumFunctionOnSet(f, S)
  BY <1>3, <1>4, SumEqual
<1>8. SumFunctionOnSet(f, S) \in Int
  BY <1>3, <1>4, SumInt
<1>9. SumFunctionOnSet(g, T) = g[m] + SumFunctionOnSet(g, S)
  BY <1>1, <1>6, Zenon
<1> QED
  BY <1>4, <1>5, <1>7, <1>8, <1>9

\* The months that were not posted yet are voided, and only those.
LEMMA VoidRestIs ==
  ASSUME NEW schedule, ScheduleType(schedule)
  PROVE  /\ ScheduleType(VoidRest(schedule)) /\ NothingScheduled(VoidRest(schedule))
         /\ NothingPosted(schedule) => NothingPosted(VoidRest(schedule))
         /\ Depreciated(VoidRest(schedule)) = Depreciated(schedule)
<1> DEFINE new == VoidRest(schedule)
<1>1. DOMAIN new = Months
  BY DEF VoidRest
<1>2. ASSUME NEW m \in Months
      PROVE  /\ DOMAIN new[m] = {"status", "amount"} /\ new[m].amount = schedule[m].amount
             /\ new[m].status = IF schedule[m].status = "SCHEDULED" THEN "VOIDED" ELSE schedule[m].status
  BY DEF VoidRest, ScheduleType
<1> HIDE DEF new
<1>3. Depreciated(new) = Depreciated(schedule)
  <2>1. \A m \in Months : /\ new[m].status = "POSTED" <=> schedule[m].status = "POSTED"
                          /\ new[m].amount = schedule[m].amount
    BY <1>2
  <2> QED
    BY <2>1, DepreciatedSame
<1>4. ScheduleType(new)
  BY <1>1, <1>2 DEF ScheduleType
<1>5. NothingScheduled(new) /\ (NothingPosted(schedule) => NothingPosted(new))
  BY <1>2 DEF NothingScheduled, NothingPosted
<1> QED
  BY <1>3, <1>4, <1>5 DEF new

\* The monthly amount is a number.
LEMMA MonthlyInt ==
  ASSUME NEW base \in Int, NEW life \in Nat \ {0}
  PROVE  MonthlyDepreciation(base, life) \in Int
<1> DEFINE a == 2 * base + life
           b == 2 * life
<1>1. a \in Int /\ b \in Nat /\ b > 0
  OBVIOUS
<1> HIDE DEF a, b
<1>2. a \div b \in Int
  BY <1>1
<1> QED
  BY <1>2 DEF MonthlyDepreciation, a, b

\* Every step about assets, when the request has read the rows as they are,
\* preserves AssetsOk.
LEMMA AssetsStep ==
  ASSUME AssetsOk(rows), NEW w \in Workers, AssetsNext(w),
         requests[w].pc = "read" => Seen(w) = rows
  PROVE  AssetsOk(rows')
<1> DEFINE asset == rows.asset[1]
           schedule == rows.schedule
<1>1. /\ DOMAIN rows = {"domain", "asset", "schedule"} /\ DOMAIN rows.asset = {1}
      /\ DOMAIN asset = {"status", "base", "life", "accumulated", "capitalized"}
      /\ asset.base \in Int /\ asset.life \in Nat \ {0}
      /\ ScheduleType(schedule) /\ AssetType(asset)
      /\ asset.accumulated = Depreciated(schedule)
      /\ asset.status \in {"NONE", "DRAFT", "VOIDED"} => NothingPosted(schedule)
      /\ asset.status \in {"DISPOSED", "VOIDED"} => NothingScheduled(schedule)
      /\ asset.status = "FULLY_DEPRECIATED" => asset.accumulated >= asset.base
  BY DEF AssetsOk, AssetType, AssetAddsUp
<1>2. requests[w].pc = "read" => Seen(w) = rows
  OBVIOUS
<1>3. \A n \in 1..(2 * MaxAmount) : n \in Int
  OBVIOUS
<1>4. \A m \in Months : m \in Nat \ {0}
  BY MaxLifeAssumption DEF Months
\* What is written about the asset and its schedule.
<1>5. ASSUME NEW a, NEW s, AssetType(a), ScheduleType(s), AssetAddsUp(a, s),
             rows' = [[rows EXCEPT !.asset[1] = a] EXCEPT !.schedule = s]
      PROVE  AssetsOk(rows')
  <2>1. /\ DOMAIN rows' = DOMAIN rows /\ DOMAIN rows'.asset = {1} /\ rows'.asset[1] = a
        /\ rows'.schedule = s
    BY <1>1, <1>5
  <2> QED
    BY <1>1, <1>5, <2>1 DEF AssetsOk
<1>6. ASSUME NEW a, AssetType(a), AssetAddsUp(a, schedule), rows' = [rows EXCEPT !.asset[1] = a]
      PROVE  AssetsOk(rows')
  <2>1. rows' = [[rows EXCEPT !.asset[1] = a] EXCEPT !.schedule = schedule]
    BY <1>1, <1>6
  <2> QED
    BY <1>1, <1>5, <1>6, <2>1
<1>7. ASSUME CreateAsset(w, 1) PROVE AssetsOk(rows')
  <2>1. PICK base \in 1..(2 * MaxAmount), life \in Months :
          Commit(w, [rows EXCEPT !.asset[1] = [status |-> "DRAFT", base |-> base, life |-> life,
                                               accumulated |-> 0, capitalized |-> FALSE]])
    BY <1>7, Zenon DEF CreateAsset
  <2>2. asset.status = "NONE"
    BY <1>7 DEF CreateAsset, Creates
  <2> DEFINE a == [status |-> "DRAFT", base |-> base, life |-> life, accumulated |-> 0,
                   capitalized |-> FALSE]
  <2>3. rows' = [rows EXCEPT !.asset[1] = a]
    BY <2>1 DEF Commit
  <2>4. AssetType(a) /\ a.status = "DRAFT" /\ a.accumulated = 0
    BY <1>3, <1>4 DEF AssetType
  <2>5. NothingPosted(schedule) /\ Depreciated(schedule) = 0
    BY <1>1, <2>2, NothingDepreciated
  <2> HIDE DEF a
  <2>6. AssetAddsUp(a, schedule)
    BY <2>4, <2>5 DEF AssetAddsUp
  <2> QED
    BY <1>6, <2>3, <2>4, <2>6
<1>8. ASSUME UpdateAsset(w, 1) PROVE AssetsOk(rows')
  <2>1. PICK base \in 1..(2 * MaxAmount), life \in Months :
          Commit(w, [rows EXCEPT !.asset[1].base = base, !.asset[1].life = life])
    BY <1>8, Zenon DEF UpdateAsset
  <2>2. asset.status = "DRAFT"
    BY <1>2, <1>8 DEF UpdateAsset, Changes, At
  <2> DEFINE a == [[asset EXCEPT !.base = base] EXCEPT !.life = life]
  <2>3. rows' = [rows EXCEPT !.asset[1] = a]
    BY <1>1, <2>1 DEF Commit
  <2>4. AssetType(a) /\ a.status = "DRAFT" /\ a.accumulated = asset.accumulated
    BY <1>1, <1>3, <1>4, <2>2 DEF AssetType
  <2> HIDE DEF a
  <2>5. AssetAddsUp(a, schedule)
    BY <1>1, <2>2, <2>4 DEF AssetAddsUp
  <2> QED
    BY <1>6, <2>3, <2>4, <2>5
<1>9. ASSUME Capitalize(w, 1) PROVE AssetsOk(rows')
  <2> DEFINE s == [m \in Months |->
               IF m <= asset.life
               THEN [status |-> "SCHEDULED", amount |-> MonthlyDepreciation(asset.base, asset.life)]
               ELSE schedule[m]]
  <2>1. PICK status \in {"ACTIVE", "CAPITALIZED"} :
          rows' = [rows EXCEPT !.asset[1].status = status, !.asset[1].capitalized = TRUE,
                               !.schedule = s]
    BY <1>1, <1>2, <1>9 DEF Capitalize, Changes, At, Commit
  <2>2. asset.status = "DRAFT"
    BY <1>2, <1>9 DEF Capitalize, Changes, At
  <2>3. NothingPosted(schedule) /\ asset.accumulated = 0
    BY <1>1, <2>2, NothingDepreciated
  <2>4. MonthlyDepreciation(asset.base, asset.life) \in Int
    BY <1>1, MonthlyInt
  <2>5. ScheduleType(s)
    <3>1. \A m \in Months : DOMAIN schedule[m] = {"status", "amount"} /\ schedule[m].amount \in Int
      BY <1>1 DEF ScheduleType
    <3> QED
      BY <2>4, <3>1 DEF ScheduleType
  <2>6. NothingPosted(s)
    BY <2>3 DEF NothingPosted
  <2> DEFINE a == [[asset EXCEPT !.status = status] EXCEPT !.capitalized = TRUE]
  <2> HIDE DEF s
  <2>7. rows' = [[rows EXCEPT !.asset[1] = a] EXCEPT !.schedule = s]
    BY <1>1, <2>1
  <2>8. AssetType(a) /\ a.status \in {"ACTIVE", "CAPITALIZED"} /\ a.accumulated = 0
    BY <1>1, <2>3 DEF AssetType
  <2> HIDE DEF a
  <2>9. AssetAddsUp(a, s)
    <3>1. Depreciated(s) = 0
      BY <2>6, NothingDepreciated
    <3> QED
      BY <2>8, <3>1 DEF AssetAddsUp
  <2> QED
    BY <1>5, <2>5, <2>7, <2>8, <2>9
<1>10. ASSUME Activate(w, 1) PROVE AssetsOk(rows')
  <2> DEFINE a == [asset EXCEPT !.status = "ACTIVE"]
  <2>1. rows' = [rows EXCEPT !.asset[1].status = "ACTIVE"]
    BY <1>10 DEF Activate, SetStatus, Commit
  <2>2. rows' = [rows EXCEPT !.asset[1] = a]
    BY <1>1, <2>1
  <2>3. AssetType(a) /\ a.status = "ACTIVE" /\ a.accumulated = asset.accumulated
    BY <1>1 DEF AssetType
  <2> HIDE DEF a
  <2>4. AssetAddsUp(a, schedule)
    BY <1>1, <2>3 DEF AssetAddsUp
  <2> QED
    BY <1>6, <2>2, <2>3, <2>4
<1>11. ASSUME NEW m \in Months, PostDepreciation(w, 1, m) PROVE AssetsOk(rows')
  <2> DEFINE accumulated == asset.accumulated + schedule[m].amount
             status == IF accumulated >= asset.base THEN "FULLY_DEPRECIATED" ELSE asset.status
             month == [schedule[m] EXCEPT !.status = "POSTED"]
             s == [schedule EXCEPT ![m] = month]
             a == [[asset EXCEPT !.accumulated = accumulated] EXCEPT !.status = status]
  <2>1. /\ asset.status \in {"ACTIVE", "CAPITALIZED"} /\ schedule[m].status = "SCHEDULED"
        /\ rows' = [rows EXCEPT !.schedule[m].status = "POSTED", !.asset[1].accumulated = accumulated,
                                !.asset[1].status = IF accumulated >= asset.base
                                                    THEN "FULLY_DEPRECIATED" ELSE @]
    BY <1>2, <1>11 DEF PostDepreciation, Changes, Commit, At
  <2>2. DOMAIN schedule = Months /\ DOMAIN schedule[m] = {"status", "amount"}
    BY <1>1 DEF ScheduleType
  <2>3. rows' = [[rows EXCEPT !.asset[1] = a] EXCEPT !.schedule = s]
    <3> HIDE DEF accumulated
    <3> QED
      BY <1>1, <2>1, <2>2
  <2>4. /\ DOMAIN s = Months /\ s[m].status = "POSTED" /\ s[m].amount = schedule[m].amount
        /\ DOMAIN s[m] = {"status", "amount"}
        /\ \A n \in Months : n # m => s[n] = schedule[n]
    BY <2>2
  <2>5. /\ DOMAIN a = {"status", "base", "life", "accumulated", "capitalized"}
        /\ a.base = asset.base /\ a.life = asset.life /\ a.status = status
        /\ a.accumulated = accumulated
    <3> HIDE DEF accumulated, status
    <3> QED
      BY <1>1
  <2> HIDE DEF s, a
  <2>6. ScheduleType(s)
    BY <1>1, <2>4 DEF ScheduleType
  <2>7. Depreciated(s) = accumulated
    <3>1. schedule[m].status # "POSTED"
      BY <2>1
    <3>2. /\ \A n \in Months : n # m => s[n].status = schedule[n].status
          /\ \A n \in Months : s[n].amount = schedule[n].amount
      BY <2>4
    <3>3. Depreciated(s) = Depreciated(schedule) + schedule[m].amount
      BY <1>1, <2>4, <3>1, <3>2, DepreciatedMore
    <3> QED
      BY <1>1, <3>3
  <2>8. status \in {"ACTIVE", "CAPITALIZED", "FULLY_DEPRECIATED"}
        /\ (status = "FULLY_DEPRECIATED" => accumulated >= asset.base)
    BY <2>1
  <2> HIDE DEF status, accumulated
  <2>9. AssetAddsUp(a, s)
    BY <2>5, <2>7, <2>8 DEF AssetAddsUp
  <2>10. AssetType(a)
    BY <1>1, <2>5 DEF AssetType
  <2> QED
    BY <1>5, <2>3, <2>6, <2>9, <2>10
\* The end of an asset.
<1>12. ASSUME NEW status \in {"VOIDED", "DISPOSED"}, status = "VOIDED" => NothingPosted(schedule),
              Commit(w, [rows EXCEPT !.asset[1].status = status, !.schedule = VoidRest(@)])
       PROVE  AssetsOk(rows')
  <2> DEFINE a == [asset EXCEPT !.status = status]
             s == VoidRest(schedule)
  <2>1. rows' = [[rows EXCEPT !.asset[1] = a] EXCEPT !.schedule = s]
    BY <1>1, <1>12 DEF Commit
  <2>2. AssetType(a) /\ a.status = status /\ a.accumulated = asset.accumulated
    BY <1>1 DEF AssetType
  <2>3. /\ ScheduleType(s) /\ NothingScheduled(s)
        /\ NothingPosted(schedule) => NothingPosted(s)
        /\ Depreciated(s) = Depreciated(schedule)
    BY <1>1, VoidRestIs
  <2> HIDE DEF a, s
  <2>4. AssetAddsUp(a, s)
    BY <1>1, <1>12, <2>2, <2>3 DEF AssetAddsUp
  <2> QED
    BY <1>5, <2>1, <2>2, <2>3, <2>4
<1>13. ASSUME VoidAsset(w, 1) PROVE AssetsOk(rows')
  <2>1. NothingPosted(schedule)
    BY <1>2, <1>13 DEF VoidAsset, NothingPosted, Changes, At
  <2> QED
    BY <1>12, <1>13, <2>1 DEF VoidAsset
<1>14. ASSUME DisposeAsset(w, 1) PROVE AssetsOk(rows')
  BY <1>12, <1>14 DEF DisposeAsset
<1>15. PICK a \in DOMAIN rows.asset :
         \/ CreateAsset(w, a) \/ UpdateAsset(w, a) \/ Capitalize(w, a) \/ Activate(w, a)
         \/ VoidAsset(w, a) \/ DisposeAsset(w, a)
         \/ \E m \in Months : PostDepreciation(w, a, m)
  BY Zenon DEF AssetsNext
<1>16. a = 1
  BY <1>1, <1>15
<1> QED
  BY <1>7, <1>8, <1>9, <1>10, <1>11, <1>13, <1>14, <1>15, <1>16

\* There is no asset at first.
LEMMA NoAssetsOk == AssetsOk(NoAssets)
<1> DEFINE schedule == [m \in Months |-> [status |-> "NONE", amount |-> 0]]
<1>1. NothingPosted(schedule) /\ ScheduleType(schedule)
  BY DEF NothingPosted, ScheduleType
<1>2. Depreciated(schedule) = 0
  BY <1>1, NothingDepreciated
<1>3. /\ DOMAIN NoAssets = {"domain", "asset", "schedule"} /\ DOMAIN NoAssets.asset = {1}
      /\ NoAssets.asset[1] = [status |-> "NONE", base |-> 0, life |-> 1, accumulated |-> 0,
                              capitalized |-> FALSE]
      /\ NoAssets.schedule = schedule
  BY DEF NoAssets
<1> HIDE DEF schedule
<1> QED
  BY <1>1, <1>2, <1>3 DEF AssetsOk, AssetType, AssetAddsUp

\* The invariant implies what is said about depreciation.
LEMMA DepreciationAddsUpThen ==
  ASSUME rows.domain = "assets" => AssetsOk(rows)
  PROVE  DepreciationAddsUp
<1> SUFFICES ASSUME AssetsOk(rows) PROVE DepreciationAddsUp
  BY DEF DepreciationAddsUp
<1>1. /\ DOMAIN rows.asset = {1} /\ DOMAIN rows.schedule = Months
      /\ AssetAddsUp(rows.asset[1], rows.schedule)
  BY DEF AssetsOk, ScheduleType
<1>2. PostedMonths(rows) = {n \in Months : rows.schedule[n].status = "POSTED"}
  BY <1>1 DEF PostedMonths
<1>3. SumFunction([m \in PostedMonths(rows) |-> rows.schedule[m].amount]) = Depreciated(rows.schedule)
  BY <1>2 DEF Depreciated
<1>4. NothingPosted(rows.schedule) => PostedMonths(rows) = {}
  BY <1>2 DEF NothingPosted
<1> HIDE DEF PostedMonths
<1> QED
  BY <1>1, <1>3, <1>4 DEF DepreciationAddsUp, AssetAddsUp, NothingScheduled

-----------------------------------------------------------------------------
(* tax: what is locked and what was determined before. *)

TaxShape(db) ==
  /\ DOMAIN db = {"domain", "period", "taxes", "posted", "locked"}
  /\ DOMAIN db.period = {"status", "output", "input"} /\ DOMAIN db.taxes = TaxSources

TaxOk(db) ==
  /\ TaxShape(db)
  /\ db.period.status = "LOCKED" => db.taxes = db.locked
  /\ db.period.output \in {0, db.taxes[1]} /\ db.period.input \in {0, db.taxes[2]}

\* A request that has posted its journal entry goes on in a period that is not
\* locked.
TaxInv ==
  /\ TaxOk(rows)
  /\ \A w \in Workers : requests[w].pc = "taxPosted" => rows.period.status # "LOCKED"

\* A request that starts or ends without a write.
LEMMA TaxStay ==
  ASSUME TaxInv, rows' = rows,
         \A v \in Workers : requests'[v] = requests[v] \/ requests'[v].pc \in {"idle", "read"}
  PROVE  TaxInv'
  BY DEF TaxInv

\* Every step of a request about taxes, when it is the only one, preserves the
\* invariant.
LEMMA TaxStep ==
  ASSUME TaxInv, NEW w \in Workers, TaxNext(w),
         requests[w].pc = "read" => Seen(w) = rows,
         requests' = [requests EXCEPT ![w] = requests'[w]],
         requests = [v \in Workers |-> requests[v]],
         \A v \in Workers : v # w => requests[v] = Idle
  PROVE  TaxInv'
<1>1. \A v \in Workers : v # w => requests'[v].pc = "idle"
  BY DEF Idle
<1>2. /\ DOMAIN rows = {"domain", "period", "taxes", "posted", "locked"}
      /\ DOMAIN rows.period = {"status", "output", "input"} /\ DOMAIN rows.taxes = {1, 2}
      /\ rows.period.status = "LOCKED" => rows.taxes = rows.locked
      /\ rows.period.output \in {0, rows.taxes[1]} /\ rows.period.input \in {0, rows.taxes[2]}
      /\ requests[w].pc = "taxPosted" => rows.period.status # "LOCKED"
  BY DEF TaxInv, TaxOk, TaxShape, TaxSources
\* The request is over, or has posted in a period that is not locked.
<1> SUFFICES TaxOk(rows') /\ (requests'[w].pc = "taxPosted" => rows'.period.status # "LOCKED")
  BY <1>1 DEF TaxInv
\* What Commit leaves of the request.
<1>3. ASSUME NEW new, Commit(w, new) PROVE requests'[w].pc = "idle"
  <2>1. requests'[w] = Idle
    BY <1>3 DEF Commit
  <2> QED
    BY <2>1 DEF Idle
\* What is written about the period.
<1>4. ASSUME NEW period, DOMAIN period = {"status", "output", "input"}, NEW locked,
             rows' = [[rows EXCEPT !.period = period] EXCEPT !.locked = locked],
             period.status = "LOCKED" => rows.taxes = locked,
             period.output \in {0, rows.taxes[1]}, period.input \in {0, rows.taxes[2]}
      PROVE  TaxOk(rows')
  <2>1. /\ DOMAIN rows' = DOMAIN rows /\ rows'.period = period /\ rows'.locked = locked
        /\ rows'.taxes = rows.taxes
    BY <1>2, <1>4
  <2>2. TaxShape(rows')
    BY <1>2, <1>4, <2>1 DEF TaxShape, TaxSources
  <2> QED
    BY <1>4, <2>1, <2>2 DEF TaxOk
\* What is recorded of a source.
<1>5. ASSUME NEW s \in TaxSources, NEW n, rows.period.status # "LOCKED",
             CommitIf(w, rows.taxes[s] = 0, [rows EXCEPT !.taxes[s] = n])
      PROVE  TaxOk(rows')
  <2>1. CASE rows.taxes[s] # 0
    <3>1. rows' = rows
      BY <1>5, <2>1 DEF CommitIf, Commit
    <3> QED
      BY <1>2, <3>1 DEF TaxOk, TaxShape, TaxSources
  <2>2. CASE rows.taxes[s] = 0
    <3>1. rows' = [rows EXCEPT !.taxes[s] = n]
      BY <1>5, <2>2 DEF CommitIf, Commit
    <3>2. /\ DOMAIN rows' = DOMAIN rows /\ rows'.period = rows.period
          /\ DOMAIN rows'.taxes = {1, 2} /\ s \in {1, 2}
          /\ \A t \in {1, 2} : t # s => rows'.taxes[t] = rows.taxes[t]
      BY <1>2, <3>1 DEF TaxSources
    <3>3. TaxShape(rows')
      BY <1>2, <3>2 DEF TaxShape, TaxSources
    <3>4. rows.period.output \in {0, rows'.taxes[1]} /\ rows.period.input \in {0, rows'.taxes[2]}
      BY <1>2, <2>2, <3>2
    <3> QED
      BY <1>5, <3>2, <3>3, <3>4 DEF TaxOk
  <2> QED
    BY <2>1, <2>2
<1>6. CASE CreateTaxPeriod(w)
  <2> DEFINE period == [rows.period EXCEPT !.status = "OPEN"]
             locked == rows.locked
  <2>1. Commit(w, [rows EXCEPT !.period.status = "OPEN"])
    BY <1>6 DEF CreateTaxPeriod
  <2>2. rows' = [[rows EXCEPT !.period = period] EXCEPT !.locked = locked]
    BY <1>2, <2>1 DEF Commit
  <2>3. /\ DOMAIN period = {"status", "output", "input"} /\ period.status = "OPEN"
        /\ period.output = rows.period.output /\ period.input = rows.period.input
    BY <1>2
  <2>4. requests'[w].pc = "idle"
    BY <1>3, <2>1
  <2> HIDE DEF period, locked
  <2>5. TaxOk(rows')
    BY <1>2, <1>4, <2>2, <2>3
  <2> QED
    BY <2>4, <2>5
<1>7. CASE PrepareTaxPeriod(w)
  <2> DEFINE period == [status |-> "PREPARED", output |-> rows.taxes[1], input |-> rows.taxes[2]]
             locked == rows.locked
  <2>1. /\ Seen(w) = rows
        /\ Commit(w, [rows EXCEPT !.period = [status |-> "PREPARED", output |-> Seen(w).taxes[1],
                                              input |-> Seen(w).taxes[2]]])
    BY <1>7 DEF PrepareTaxPeriod, At
  <2>2. rows' = [[rows EXCEPT !.period = period] EXCEPT !.locked = locked]
    BY <1>2, <2>1 DEF Commit
  <2>3. /\ DOMAIN period = {"status", "output", "input"} /\ period.status = "PREPARED"
        /\ period.output = rows.taxes[1] /\ period.input = rows.taxes[2]
    OBVIOUS
  <2>4. requests'[w].pc = "idle"
    BY <1>3, <2>1
  <2> HIDE DEF period, locked
  <2>5. TaxOk(rows')
    BY <1>4, <2>2, <2>3
  <2> QED
    BY <2>4, <2>5
<1>8. CASE LockTaxPeriod(w)
  <2> DEFINE period == [rows.period EXCEPT !.status = "LOCKED"]
             locked == rows.taxes
  <2>1. Commit(w, [rows EXCEPT !.period.status = "LOCKED", !.locked = rows.taxes])
    BY <1>8 DEF LockTaxPeriod
  <2>2. rows' = [[rows EXCEPT !.period = period] EXCEPT !.locked = locked]
    BY <1>2, <2>1 DEF Commit
  <2>3. /\ DOMAIN period = {"status", "output", "input"}
        /\ period.output = rows.period.output /\ period.input = rows.period.input
        /\ locked = rows.taxes
    BY <1>2
  <2>4. requests'[w].pc = "idle"
    BY <1>3, <2>1
  <2> HIDE DEF period, locked
  <2>5. TaxOk(rows')
    BY <1>2, <1>4, <2>2, <2>3
  <2> QED
    BY <2>4, <2>5
<1>9. ASSUME NEW s \in TaxSources, RecordTaxInside(w, s) \/ RecordTax(w, s)
      PROVE  TaxOk(rows') /\ requests'[w].pc = "idle"
  <2>1. rows.period.status # "LOCKED"
    BY <1>2, <1>9 DEF RecordTaxInside, RecordTax, Recordable, Resumes, At
  <2>2. PICK n \in Amounts : CommitIf(w, rows.taxes[s] = 0, [rows EXCEPT !.taxes[s] = n])
    BY <1>9, Zenon DEF RecordTaxInside, RecordTax
  <2>3. requests'[w].pc = "idle"
    BY <1>3, <2>2 DEF CommitIf
  <2> QED
    BY <1>5, <2>1, <2>2, <2>3
<1>10. ASSUME NEW s \in TaxSources, PostTax(w, s)
       PROVE  TaxOk(rows') /\ rows'.period.status # "LOCKED"
  <2>1. /\ rows.period.status # "LOCKED"
        /\ rows' = [rows EXCEPT !.posted[s] = @ + 1]
    BY <1>10 DEF PostTax, Recordable, Proceed, At
  <2>2. /\ DOMAIN rows' = DOMAIN rows /\ rows'.period = rows.period /\ rows'.taxes = rows.taxes
    BY <1>2, <2>1
  <2> QED
    BY <1>2, <2>1, <2>2 DEF TaxOk, TaxShape, TaxSources
<1> QED
  BY <1>6, <1>7, <1>8, <1>9, <1>10 DEF TaxNext

\* There are no taxes at first.
LEMMA NoTaxOk ==
  ASSUME rows = NoTax, \A w \in Workers : requests[w] = Idle
  PROVE  TaxInv
  BY DEF TaxInv, TaxOk, TaxShape, NoTax, TaxSources, Idle

\* The invariant implies what is said about taxes.
LEMMA LockedTaxesStayThen ==
  ASSUME rows.domain = "tax" => TaxInv
  PROVE  LockedTaxesStay
  BY DEF LockedTaxesStay, TaxInv, TaxOk

-----------------------------------------------------------------------------
(* The domains together. *)

\* Where a behaviour about each of these domains starts.
StartedHere(db) ==
  /\ db.domain = "sessions" => db = NoSessions
  /\ db.domain = "access" => db = NoAccess
  /\ db.domain = "webhooks" => db = NoWebhooks
  /\ db.domain = "notifications" => db = NoNotifications
  /\ db.domain = "numbering" => db = NoNumbering
  /\ db.domain = "catalog" => db = NoCatalog
  /\ db.domain = "pricing" => db = NoPricing
  /\ db.domain = "locations" => db = NoLocations
  /\ db.domain = "compensations" => db = NoCompensations
  /\ db.domain = "import" => \E b : db = NoImport(b)
  /\ db.domain = "parties" => \E kind : db = NoParty(kind)
  /\ db.domain = "subscriptions" => \E b : db = NoSubscriptions(b)
  /\ db.domain = "billing" => db = NoBilling
  /\ db.domain = "purchasing" => db = NoPurchasing
  /\ db.domain = "costing" => db = NoCosting
  /\ db.domain = "ledger" => db = NoLedger
  /\ db.domain = "banking" => db = NoBanking
  /\ db.domain = "budgets" => db = NoBudgets
  /\ db.domain = "assets" => db = NoAssets
  /\ db.domain = "tax" => db = NoTax
  /\ db.domain = "staff" => db = NoStaff({1, 2, 3}, {1}) \/ db = NoStaff({1}, {1, 2})

\* Every state a behaviour may start in is such a state.
LEMMA StartedHereAs ==
  ASSUME NEW db \in Start
  PROVE  StartedHere(db)
<1>1. CASE db \in {NoSessions, NoAccess, NoWebhooks, NoNotifications, NoNumbering, NoCatalog,
                   NoPricing, NoLocations, NoCompensations, NoBilling, NoPurchasing, NoCosting}
  <2>1. /\ NoSessions.domain = "sessions" /\ NoAccess.domain = "access"
        /\ NoWebhooks.domain = "webhooks" /\ NoNotifications.domain = "notifications"
        /\ NoNumbering.domain = "numbering" /\ NoCatalog.domain = "catalog"
        /\ NoPricing.domain = "pricing" /\ NoLocations.domain = "locations"
        /\ NoCompensations.domain = "compensations" /\ NoBilling.domain = "billing"
        /\ NoPurchasing.domain = "purchasing" /\ NoCosting.domain = "costing"
    BY DEF NoSessions, NoAccess, NoWebhooks, NoNotifications, NoNumbering, NoCatalog, NoPricing,
       NoLocations, NoCompensations, NoBilling, NoPurchasing, NoCosting
  <2> QED
    BY <1>1, <2>1 DEF StartedHere
<1>2. CASE db \in {NoStaff({1, 2, 3}, {1}), NoStaff({1}, {1, 2})}
  <2>1. \A departments, employees : NoStaff(departments, employees).domain = "staff"
    BY DEF NoStaff
  <2> QED
    BY <1>2, <2>1 DEF StartedHere
<1>3. ASSUME NEW kind, db = NoParty(kind) PROVE StartedHere(db)
  <2>1. db.domain = "parties"
    BY <1>3 DEF NoParty
  <2> QED
    BY <1>3, <2>1 DEF StartedHere
<1>4. ASSUME NEW b, db = NoImport(b) PROVE StartedHere(db)
  <2>1. db.domain = "import"
    BY <1>4 DEF NoImport
  <2> QED
    BY <1>4, <2>1 DEF StartedHere
<1>5. CASE db \in {NoLedger, NoBoms, NoPlanning, NoShipping, NoTickets,
                   NoClaims, NoAssets, NoPayroll}
  <2>1. /\ NoLedger.domain = "ledger" /\ NoBoms.domain = "boms" /\ NoPlanning.domain = "planning"
        /\ NoShipping.domain = "shipping" /\ NoTickets.domain = "tickets"
        /\ NoClaims.domain = "expenses" /\ NoAssets.domain = "assets"
        /\ NoPayroll.domain = "payroll"
    BY DEF NoLedger, NoBoms, NoPlanning, NoShipping, NoTickets, NoClaims, NoAssets,
       NoPayroll
  <2> QED
    BY <1>5, <2>1 DEF StartedHere
<1>6. CASE db \in {NoBanking, NoBudgets, NoQuotations, NoLeads, NoNcrs, NoTax}
  <2>1. /\ NoBanking.domain = "banking" /\ NoBudgets.domain = "budgets"
        /\ NoQuotations.domain = "quotations" /\ NoLeads.domain = "leads"
        /\ NoNcrs.domain = "ncrs" /\ NoTax.domain = "tax"
    BY DEF NoBanking, NoBudgets, NoQuotations, NoLeads, NoNcrs, NoTax
  <2> QED
    BY <1>6, <2>1 DEF StartedHere
<1>7. ASSUME NEW kinds \in SUBSET WarehouseKinds, db = NoWarehouse(kinds) PROVE StartedHere(db)
  <2>1. db.domain = "warehouse"
    BY <1>7 DEF NoWarehouse
  <2> QED
    BY <2>1 DEF StartedHere
<1>8. ASSUME NEW b, db \in {NoProduction(b), NoReturns(b), NoRepairs(b)} PROVE StartedHere(db)
  <2>1. /\ NoProduction(b).domain = "production" /\ NoReturns(b).domain = "returns"
        /\ NoRepairs(b).domain = "repairs"
    BY DEF NoProduction, NoReturns, NoRepairs
  <2> QED
    BY <1>8, <2>1 DEF StartedHere
<1>9. ASSUME NEW b, db = NoQuality(b) PROVE StartedHere(db)
  <2>1. NoQuality(b).domain = "quality"
    BY DEF NoQuality
  <2> QED
    BY <1>9, <2>1 DEF StartedHere
<1>10. ASSUME NEW b, db = NoSubscriptions(b) PROVE StartedHere(db)
  <2>1. db.domain = "subscriptions"
    BY <1>10 DEF NoSubscriptions
  <2> QED
    BY <1>10, <2>1 DEF StartedHere
<1>11. CASE db \in {NoSessions, NoAccess, NoLedger, NoPurchasing, NoBoms, NoPlanning, NoShipping,
                    NoTickets, NoClaims, NoAssets, NoPayroll, NoBanking, NoBudgets, NoQuotations,
                    NoLeads, NoCosting, NoBilling, NoNcrs, NoTax, NoWebhooks, NoNotifications,
                    NoNumbering, NoCatalog, NoPricing, NoLocations, NoStaff({1, 2, 3}, {1}),
                    NoStaff({1}, {1, 2}), NoCompensations}
  BY <1>1, <1>2, <1>5, <1>6, <1>11
<1>12. CASE db \in {NoParty(kind) : kind \in PartyKinds}
  BY <1>3, <1>12
<1>13. CASE db \in {NoWarehouse(kinds) :
                      kinds \in {K \in SUBSET WarehouseKinds : Cardinality(K) \in 1..2}}
  BY <1>7, <1>13
<1>14. CASE db \in UNION {{NoProduction(b), NoReturns(b), NoRepairs(b), NoSubscriptions(b),
                           NoImport(b), NoQuality(b)} : b \in BOOLEAN}
  BY <1>4, <1>8, <1>9, <1>10, <1>14
<1> QED
  BY <1>11, <1>12, <1>13, <1>14 DEF Start

\* What holds of the rows alone, whatever requests are in progress.
SharedOk(db) ==
  /\ db.domain = "sessions" => SessionsOk(db)
  /\ db.domain = "numbering" => NumberingOk(db)
  /\ db.domain = "pricing" => PricingOk(db)
  /\ db.domain = "budgets" => BudgetsOk(db)

\* What holds of the rows of the domains whose requests do not overlap.
UnsharedOk(db) ==
  /\ db.domain = "access" => AccessOk(db)
  /\ db.domain = "catalog" => CatalogOk(db)
  /\ db.domain = "locations" => LocationsOk(db)
  /\ db.domain = "compensations" => CompensationsOk(db)
  /\ db.domain = "staff" => StaffOk(db)
  /\ db.domain = "purchasing" => PurchasingOk(db)
  /\ db.domain = "costing" => CostingOk(db)
  /\ db.domain = "ledger" => LedgerOk(db)
  /\ db.domain = "banking" => BankingOk(db)
  /\ db.domain = "assets" => AssetsOk(db)

\* The inductive invariant of the domains.
PlatformInv ==
  /\ Ready /\ SharedOk(rows)
  /\ rows.domain = "webhooks" => WebhooksInv
  /\ OneSize /\ rows.domain = "import" => ImportInv
  /\ rows.domain \notin Overlapping =>
       /\ UnsharedOk(rows)
       /\ rows.domain = "notifications" => NotificationsInv
       /\ rows.domain = "parties" => PartiesInv
       /\ rows.domain = "subscriptions" => SubscriptionsInv
       /\ rows.domain = "billing" => BillingInv
       /\ rows.domain = "tax" => TaxInv

\* It holds where a behaviour starts.
LEMMA PlatformInit ==
  ASSUME Init
  PROVE  PlatformInv
<1>1. rows \in Start /\ \A w \in Workers : requests[w] = Idle
  BY DEF Init
<1>2. StartedHere(rows)
  BY <1>1, StartedHereAs
<1>3. Ready
  BY OfficeInit DEF OfficeInv
<1>4. SharedOk(rows)
  BY <1>2, NoSessionsOk, NoNumberingOk, NoPricingOk, NoBudgetsOk DEF StartedHere, SharedOk
<1>5. rows.domain = "staff" => StaffOk(rows)
  <2>1. IsFiniteSet({1, 2, 3}) /\ IsFiniteSet({1}) /\ 0 \notin {1, 2, 3} /\ 0 \notin {1}
    <3>1. IsFiniteSet(1..3)
      <4>1. 1 \in Int /\ 3 \in Int
        OBVIOUS
      <4> QED
        BY <4>1, FS_Interval, Zenon
    <3>2. 1..3 = {1, 2, 3}
      OBVIOUS
    <3>3. IsFiniteSet({1, 2, 3})
      BY <3>1, <3>2, Zenon
    <3>4. IsFiniteSet({1})
      BY FS_Singleton
    <3> QED
      BY <3>3, <3>4
  <2>2. StaffOk(NoStaff({1, 2, 3}, {1})) /\ StaffOk(NoStaff({1}, {1, 2}))
    BY <2>1, NoStaffOk
  <2> QED
    BY <1>2, <2>2 DEF StartedHere
<1>6. UnsharedOk(rows)
  BY <1>2, <1>5, NoAccessOk, NoCatalogOk, NoLocationsOk, NoCompensationsOk, NoPurchasingOk,
     NoCostingOk, NoLedgerOk, NoBankingOk, NoAssetsOk
  DEF StartedHere, UnsharedOk
<1>7. rows.domain = "webhooks" => WebhooksInv
  BY <1>1, <1>2, NoWebhooksOk DEF StartedHere
<1>8. rows.domain = "import" => ImportInv
  BY <1>1, <1>2, NoImportOk DEF StartedHere
<1>9. rows.domain = "notifications" => NotificationsInv
  BY <1>1, <1>2, NoNotificationsOk DEF StartedHere
<1>10. rows.domain = "parties" => PartiesInv
  BY <1>1, <1>2, NoPartyOk DEF StartedHere
<1>11. rows.domain = "subscriptions" => SubscriptionsInv
  BY <1>1, <1>2, NoSubscriptionsOk DEF StartedHere
<1>12. rows.domain = "billing" => BillingInv
  BY <1>1, <1>2, NoBillingOk DEF StartedHere
<1>13. rows.domain = "tax" => TaxInv
  BY <1>1, <1>2, NoTaxOk DEF StartedHere
<1> QED
  BY <1>3, <1>4, <1>6, <1>7, <1>8, <1>9, <1>10, <1>11, <1>12, <1>13 DEF PlatformInv

\* A request starts, with the rows as they are, or ends.
Quiet ==
  /\ rows' = rows
  /\ \A v \in Workers : \/ requests'[v] = requests[v] \/ requests'[v].pc = "idle"
                        \/ requests'[v] = [pc |-> "read", seen |-> rows]

\* Where requests do not overlap, no other one is in progress.
Alone(w) == rows.domain \notin Overlapping => \A v \in Workers : v # w => requests[v] = Idle

\* A step is quiet or one of a handler.
LEMMA PlatformCases ==
  ASSUME Ready, [Next]_vars
  PROVE  Quiet \/ \E w \in Workers : Fresh(w) /\ Alone(w) /\ Handled(w) /\ Keeps(w)
<1>1. CASE UNCHANGED vars
  BY <1>1 DEF Quiet, vars
<1>2. ASSUME NEW w \in Workers, Read(w) PROVE Quiet
  BY <1>2 DEF Ready, Quiet, Read
<1>3. ASSUME NEW w \in Workers, Abort(w) PROVE Quiet
  BY <1>3 DEF Ready, Quiet, Abort, Idle
<1>4. ASSUME NEW w \in Workers, requests[w] # Idle, Handle(w)
      PROVE  Fresh(w) /\ Alone(w) /\ Handled(w) /\ Keeps(w)
  <2>1. Handled(w) /\ Keeps(w)
    BY <1>4, HandledByOne, HandleKeeps
  <2> QED
    BY <1>4, <2>1 DEF Ready, Fresh, Alone
<1> QED
  BY <1>1, <1>2, <1>3, <1>4 DEF Next

\* The handlers preserve what holds of the rows alone,
LEMMA SharedStep ==
  ASSUME NEW w \in Workers, Handled(w), Keeps(w), SharedOk(rows)
  PROVE  SharedOk(rows')
<1>1. rows'.domain = rows.domain
  BY DEF Keeps
<1>2. CASE rows.domain = "sessions"
  BY <1>1, <1>2, SessionsStep DEF SharedOk, Handled
<1>3. CASE rows.domain = "numbering"
  BY <1>1, <1>3, NumberingStep DEF SharedOk, Handled
<1>4. CASE rows.domain = "pricing"
  BY <1>1, <1>4, PricingStep DEF SharedOk, Handled
<1>5. CASE rows.domain = "budgets"
  BY <1>1, <1>5, BudgetsStep DEF SharedOk, Handled
<1> QED
  BY <1>1, <1>2, <1>3, <1>4, <1>5 DEF SharedOk

\* what holds where requests do not overlap,
LEMMA UnsharedStep ==
  ASSUME NEW w \in Workers, Fresh(w), Handled(w), Keeps(w), UnsharedOk(rows),
         rows.domain \notin Overlapping
  PROVE  UnsharedOk(rows')
<1>1. rows'.domain = rows.domain
  BY DEF Keeps
<1>2. requests[w].pc = "read" => Seen(w) = rows
  BY DEF Fresh
<1>3. CASE rows.domain = "access"
  BY <1>1, <1>2, <1>3, AccessStep DEF UnsharedOk, Handled
<1>4. CASE rows.domain = "catalog"
  BY <1>1, <1>2, <1>4, CatalogStep DEF UnsharedOk, Handled
<1>5. CASE rows.domain = "locations"
  BY <1>1, <1>2, <1>5, LocationsStep DEF UnsharedOk, Handled
<1>6. CASE rows.domain = "compensations"
  BY <1>1, <1>2, <1>6, CompensationsStep DEF UnsharedOk, Handled
<1>7. CASE rows.domain = "staff"
  BY <1>1, <1>2, <1>7, StaffStep DEF UnsharedOk, Handled
<1>8. CASE rows.domain = "purchasing"
  BY <1>1, <1>2, <1>8, PurchasingStep DEF UnsharedOk, Handled
<1>9. CASE rows.domain = "costing"
  BY <1>1, <1>2, <1>9, CostingStep DEF UnsharedOk, Handled
<1>10. CASE rows.domain = "ledger"
  BY <1>1, <1>2, <1>10, LedgerStep DEF UnsharedOk, Handled
<1>11. CASE rows.domain = "banking"
  BY <1>1, <1>2, <1>11, BankingStep DEF UnsharedOk, Handled
<1>12. CASE rows.domain = "assets"
  BY <1>1, <1>2, <1>12, AssetsStep DEF UnsharedOk, Handled
<1> QED
  BY <1>1, <1>3, <1>4, <1>5, <1>6, <1>7, <1>8, <1>9, <1>10, <1>11, <1>12 DEF UnsharedOk

\* and the whole invariant.
LEMMA PlatformNext ==
  ASSUME PlatformInv, [Next]_vars
  PROVE  PlatformInv'
<1>1. Ready /\ Ready' /\ SharedOk(rows)
  BY ReadyStep DEF PlatformInv
<1>2. CASE Quiet
  <2>1. /\ rows' = rows
        /\ \A v \in Workers : requests'[v] = requests[v] \/ requests'[v].pc \in {"idle", "read"}
        /\ \A v \in Workers : \/ requests'[v] = requests[v] \/ requests'[v].pc = "idle"
                              \/ requests'[v] = [pc |-> "read", seen |-> rows]
    BY <1>2 DEF Quiet
  <2>2. rows.domain = "webhooks" => WebhooksInv'
    BY <2>1, WebhooksStay DEF PlatformInv
  <2>3. OneSize /\ rows.domain = "import" => ImportInv'
    BY <2>1, ImportStay DEF PlatformInv
  <2>4. rows.domain \notin Overlapping /\ rows.domain = "notifications" => NotificationsInv'
    BY <2>1, NotificationsStay DEF PlatformInv
  <2>5. rows.domain \notin Overlapping /\ rows.domain = "parties" => PartiesInv'
    BY <2>1, PartiesStay DEF PlatformInv
  <2>6. rows.domain \notin Overlapping /\ rows.domain = "subscriptions" => SubscriptionsInv'
    BY <2>1, SubscriptionsStay DEF PlatformInv
  <2>7. rows.domain \notin Overlapping /\ rows.domain = "billing" => BillingInv'
    BY <2>1, BillingStay DEF PlatformInv
  <2>8. rows.domain \notin Overlapping /\ rows.domain = "tax" => TaxInv'
    BY <2>1, TaxStay DEF PlatformInv
  <2> QED
    BY <1>1, <2>1, <2>2, <2>3, <2>4, <2>5, <2>6, <2>7, <2>8 DEF PlatformInv, OneSize
<1>3. ASSUME NEW w \in Workers, Fresh(w), Alone(w), Handled(w), Keeps(w) PROVE PlatformInv'
  <2>1. /\ rows'.domain = rows.domain
        /\ requests' = [requests EXCEPT ![w] = requests'[w]]
        /\ requests = [v \in Workers |-> requests[v]]
    BY <1>1, <1>3 DEF Keeps, Ready
  <2>2. SharedOk(rows')
    BY <1>1, <1>3, SharedStep
  <2>3. rows.domain = "webhooks" => WebhooksInv'
    BY <1>3, <2>1, WebhooksStep DEF PlatformInv, Handled
  <2>4. OneSize /\ rows.domain = "import" => ImportInv'
    BY <1>3, <2>1, ImportStep DEF PlatformInv, Handled
  <2>5. rows.domain \notin Overlapping => UnsharedOk(rows')
    BY <1>3, UnsharedStep DEF PlatformInv
  <2>6. rows.domain \notin Overlapping =>
          /\ requests[w].pc = "read" => Seen(w) = rows
          /\ \A v \in Workers : v # w => requests[v] = Idle
    BY <1>3 DEF Fresh, Alone
  <2>7. rows.domain \notin Overlapping /\ rows.domain = "notifications" => NotificationsInv'
    BY <1>3, <2>1, <2>6, NotificationsStep DEF PlatformInv, Handled
  <2>8. rows.domain \notin Overlapping /\ rows.domain = "parties" => PartiesInv'
    BY <1>3, <2>1, <2>6, PartiesStep DEF PlatformInv, Handled
  <2>9. rows.domain \notin Overlapping /\ rows.domain = "subscriptions" => SubscriptionsInv'
    BY <1>3, <2>1, <2>6, SubscriptionsStep DEF PlatformInv, Handled
  <2>10. rows.domain \notin Overlapping /\ rows.domain = "billing" => BillingInv'
    BY <1>3, <2>1, <2>6, BillingStep DEF PlatformInv, Handled
  <2>11. rows.domain \notin Overlapping /\ rows.domain = "tax" => TaxInv'
    BY <1>3, <2>1, <2>6, TaxStep DEF PlatformInv, Handled
  <2> QED
    BY <1>1, <2>1, <2>2, <2>3, <2>4, <2>5, <2>7, <2>8, <2>9, <2>10, <2>11 DEF PlatformInv, OneSize
<1> QED
  BY <1>1, <1>2, <1>3, PlatformCases

\* Whatever the constants are, the rows and the requests of these domains
\* satisfy the inductive invariant.
THEOREM PlatformInvariance == Spec => []PlatformInv
<1>1. Init => PlatformInv
  BY PlatformInit
<1>2. PlatformInv /\ [Next]_vars => PlatformInv'
  BY PlatformNext
<1> QED
  BY <1>1, <1>2, PTL DEF Spec

\* When every commit of an import asks for the same batch size, an import that
\* says that it is complete has created every row of the file, and with an
\* idempotency key that has not expired none of them twice, however commits,
\* crashes, retries and cancellations overlap.
THEOREM ImportSafety ==
  ASSUME OneSize
  PROVE  Spec => []ImportIsComplete
<1>1. PlatformInv => ImportIsComplete
  BY ImportIsCompleteThen DEF PlatformInv
<1> QED
  BY <1>1, PlatformInvariance, PTL

\* Where requests about notifications do not overlap, what was cancelled is not
\* sent, and a notification is tried once, and SENT only if it was tried or
\* wanted no delivery.  However requests about it overlap, a webhook is given up
\* after its last attempt and not before, is a success only if it was accepted,
\* and has at most one job, and none once it is over.
THEOREM MessageSafety ==
  ASSUME "notifications" \notin Overlapping
  PROVE  Spec => []MessagesSentOnce
<1>1. PlatformInv => MessagesSentOnce
  <2> SUFFICES ASSUME PlatformInv PROVE MessagesSentOnce
    OBVIOUS
  <2>1. rows.domain = "webhooks" => WebhooksInv
    BY DEF PlatformInv
  <2>2. rows.domain = "notifications" => NotificationsInv
    BY DEF PlatformInv
  <2> QED
    BY <2>1, <2>2, WebhooksSentOnceThen, NotificationsSentOnceThen DEF MessagesSentOnce
<1> QED
  BY <1>1, PlatformInvariance, PTL

\* Where requests about items, locations, parties, the staff and its pay do not
\* overlap, a number is drawn once, variants and locations in use have what they
\* belong to, one tier is the default and one contact the primary one,
\* departments are a forest, and an employee has one pay a day; those about
\* numbers and prices may overlap.
THEOREM MasterDataSafety ==
  ASSUME {"catalog", "locations", "parties", "staff", "compensations"} \cap Overlapping = {}
  PROVE  Spec => []MasterDataConsistent
<1>1. PlatformInv => MasterDataConsistent
  <2> SUFFICES ASSUME PlatformInv PROVE MasterDataConsistent
    OBVIOUS
  <2>1. /\ rows.domain = "numbering" => NumberingOk(rows)
        /\ rows.domain = "pricing" => PricingOk(rows)
    BY DEF PlatformInv, SharedOk
  <2>2. /\ rows.domain = "catalog" => CatalogOk(rows)
        /\ rows.domain = "locations" => LocationsOk(rows)
        /\ rows.domain = "compensations" => CompensationsOk(rows)
        /\ rows.domain = "staff" => StaffOk(rows)
        /\ rows.domain = "parties" => PartiesInv
    BY DEF PlatformInv, UnsharedOk
  <2> QED
    BY <2>1, <2>2, NumbersDrawnOnceThen, OneDefaultTierThen, VariantsHaveItemsThen,
       LocationsHaveParentsThen, OnePayAtATimeThen, DepartmentsAreOrderedThen, OnePrimaryContactThen
    DEF MasterDataConsistent
<1> QED
  BY <1>1, PlatformInvariance, PTL

\* Where requests about members and roles do not overlap, an organization keeps
\* an owner, and an owner that is an active member of an active organization
\* reaches every endpoint that is for an organization; and a session that was
\* ended, by requests that may overlap, admits nobody any more.
THEOREM AccessSafety ==
  ASSUME "access" \notin Overlapping
  PROVE  Spec => []AccessIsGoverned
<1>1. PlatformInv => AccessIsGoverned
  <2> SUFFICES ASSUME PlatformInv PROVE AccessIsGoverned
    OBVIOUS
  <2>1. /\ rows.domain = "sessions" => SessionsOk(rows)
        /\ rows.domain = "access" => AccessOk(rows)
    BY DEF PlatformInv, SharedOk, UnsharedOk
  <2> QED
    BY <2>1, EndedSessionsStayEndedThen, OwnerRemainsThen, OwnersReachTheirEndpointsThen
    DEF AccessIsGoverned
<1> QED
  BY <1>1, PlatformInvariance, PTL

\* Where requests about subscriptions and bills do not overlap, but end half-way
\* and events come twice: as long as the provider is silent an organization has
\* one current subscription, and a cancelled one stays so; what is paid of an
\* invoice are its payments, never more than its total; no credit is applied that
\* was not consumed, nor consumed that was not granted; and no usage is counted
\* twice against the quota.
THEOREM BillingSafety ==
  ASSUME {"subscriptions", "billing"} \cap Overlapping = {}
  PROVE  Spec => []BillingAddsUp
<1>1. PlatformInv => BillingAddsUp
  <2> SUFFICES ASSUME PlatformInv PROVE BillingAddsUp
    OBVIOUS
  <2>1. /\ rows.domain = "subscriptions" => SubscriptionsInv
        /\ rows.domain = "billing" => BillingInv
    BY DEF PlatformInv
  <2> QED
    BY <2>1, OneSubscriptionThen, BillsAddUpThen DEF BillingAddsUp
<1> QED
  BY <1>1, PlatformInvariance, PTL

\* Where requests about purchases and costs do not overlap: whichever of the two
\* services receives them, a line has received what its posted receipts brought,
\* never more than was ordered, and no more of a receipt is returned than it
\* brought; and cost layers are used first in, first out, none beyond what it
\* received, and hold at least what the valuation says is on hand.
THEOREM StockSafety ==
  ASSUME {"purchasing", "costing"} \cap Overlapping = {}
  PROVE  Spec => []StockAddsUp
<1>1. PlatformInv => StockAddsUp
  <2> SUFFICES ASSUME PlatformInv PROVE StockAddsUp
    OBVIOUS
  <2>1. /\ rows.domain = "purchasing" => PurchasingOk(rows)
        /\ rows.domain = "costing" => CostingOk(rows)
    BY DEF PlatformInv, UnsharedOk
  <2>2. rows.domain = "purchasing" => PurchasedGoodsAddUp
    BY <2>1, PurchasedGoodsAddUpThen
  <2>3. rows.domain = "costing" => LayersAreFifo
    BY <2>1, LayersAreFifoThen
  <2> QED
    BY <2>2, <2>3 DEF StockAddsUp, PurchasedGoodsAddUp, LayersAreFifo
<1> QED
  BY <1>1, PlatformInvariance, PTL

\* Where requests about the books do not overlap: the balance sheet and the trial
\* balance of any days balance, a closed period has no draft, no account is above
\* itself or below a deleted one, a locked bank statement is reconciled to what it
\* closes with, an asset has depreciated by what was posted of its schedule, and
\* a locked tax period stays what was determined; at most one budget is active,
\* also when requests about budgets overlap.
THEOREM BooksSafety ==
  ASSUME {"ledger", "banking", "assets", "tax"} \cap Overlapping = {}
  PROVE  Spec => []BooksAgree
<1>1. PlatformInv => BooksAgree
  <2> SUFFICES ASSUME PlatformInv PROVE BooksAgree
    OBVIOUS
  <2>1. rows.domain = "budgets" => BudgetsOk(rows)
    BY DEF PlatformInv, SharedOk
  <2>2. /\ rows.domain = "ledger" => LedgerOk(rows)
        /\ rows.domain = "banking" => BankingOk(rows)
        /\ rows.domain = "assets" => AssetsOk(rows)
        /\ rows.domain = "tax" => TaxInv
    BY DEF PlatformInv, UnsharedOk
  <2>3. StatementsBalance /\ ChartIsForest
    BY <2>2, StatementsBalanceThen, ChartIsForestThen
  <2>4. LockedIsReconciled
    BY <2>1, <2>2, LockedIsReconciledThen
  <2>5. DepreciationAddsUp /\ LockedTaxesStay
    BY <2>2, DepreciationAddsUpThen, LockedTaxesStayThen
  <2> QED
    BY <2>3, <2>4, <2>5 DEF BooksAgree
<1> QED
  BY <1>1, PlatformInvariance, PTL
=============================================================================
