------------------------------ MODULE Handlers ------------------------------
(***************************************************************************)
(* The shape nearly every service method of the API has: read rows, check  *)
(* them, write.  rows is the committed database: a record of tables, each  *)
(* a function from ids to rows.  A request reads without locks, so what it *)
(* read is a snapshot, taken at any time before it writes; its checks and  *)
(* the values it computes are about the snapshot.  A transaction (or a     *)
(* statement outside one) takes effect at once: its WHERE clauses, its     *)
(* increments, and the constraints of the schema are about rows.  The read *)
(* and the write of one request are two steps, between which the requests  *)
(* of other workers run.                                                   *)
(***************************************************************************)
EXTENDS Integers, FiniteSets, Functions

CONSTANTS Workers,     \* requests that may be in progress at once
          MaxAmount    \* bound on every quantity and amount of money

ASSUME MaxAmountAssumption == MaxAmount \in Nat

Amounts == 1..MaxAmount

VARIABLES rows, requests

vars == <<rows, requests>>

Idle == [pc |-> "idle"]

\* The rows worker w's request has read.
Seen(w) == requests[w].seen

\* The request is at step pc of a method; "read" is the first.
At(w, pc) == requests[w].pc = pc

Read(w) ==
  /\ requests[w] = Idle
  /\ requests' = [requests EXCEPT ![w] = [pc |-> "read", seen |-> rows]]
  /\ UNCHANGED rows

\* A check fails, a statement is refused, or the process stops: what is
\* committed stays, the rest of the method does not happen.
Abort(w) ==
  /\ requests[w] # Idle
  /\ requests' = [requests EXCEPT ![w] = Idle]
  /\ UNCHANGED rows

\* The request's last transaction leaves the database as new.
Commit(w, new) ==
  /\ rows' = new
  /\ requests' = [requests EXCEPT ![w] = Idle]

\* As Commit, unless a constraint of the schema refuses it.
CommitIf(w, legal, new) == Commit(w, IF legal THEN new ELSE rows)

\* A transaction that is not the last: the method goes on at step pc, about
\* document d.
Continue(w, new, pc, d) ==
  /\ rows' = new
  /\ requests' = [requests EXCEPT ![w] = [pc |-> pc, seen |-> Seen(w), doc |-> d]]

\* As Continue, when the rest of the method uses nothing but d.
Proceed(w, new, pc, d) ==
  /\ rows' = new
  /\ requests' = [requests EXCEPT ![w] = [pc |-> pc, doc |-> d]]

Resumes(w, pc, d) == At(w, pc) /\ requests[w].doc = d

\* What most methods are: read a row, check its status, update it by id.  An
\* update by id finds nothing when the row was deleted meanwhile.
Changes(w, table, id, from) ==
  /\ At(w, "read")
  /\ Seen(w)[table][id].status \in from
  /\ rows[table][id].status # "DELETED"

SetStatus(w, table, id, from, to) ==
  /\ Changes(w, table, id, from)
  /\ Commit(w, [rows EXCEPT ![table][id].status = to])

\* A new row.  The id of a deleted row is not used again.
Creates(w, table, id) ==
  /\ At(w, "read")
  /\ rows[table][id].status = "NONE"
=============================================================================
