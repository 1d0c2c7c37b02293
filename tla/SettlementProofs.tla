-------------------------- MODULE SettlementProofs --------------------------
(***************************************************************************)
(* Whatever requests overlap, and however they end: the rows satisfy their *)
(* types and CHECKs, and money is settled only between documents that were *)
(* posted.  No row is ever locked, so the argument is about every snapshot *)
(* a request may hold: it satisfies the same invariant as the database,    *)
(* and what the invariant takes from a snapshot (that a document was       *)
(* posted, that a payment has an amount) never becomes false later.        *)
(***************************************************************************)
EXTENDS Settlement, SumTheorems, TLAPS

WasPosted(db, d) == db.journals[d].posted > 0

\* CHECKs of the invoices and payments; drafts are unpaid.
Checked(db) ==
  /\ \A i \in InvoiceIds :
       /\ db.invoices[i].paid <= db.invoices[i].total
       /\ db.invoices[i].status \in {"NONE", "DRAFT"} => db.invoices[i].paid = 0
  /\ \A p \in PaymentIds :
       /\ db.payments[p].allocated <= db.payments[p].amount
       /\ db.payments[p].status # "NONE" => db.payments[p].amount > 0

\* A status after posting says that the document was posted.
StatusTells(db) ==
  /\ \A i \in InvoiceIds :
       db.invoices[i].status \in {"ISSUED", "POSTED", "PARTIALLY_PAID", "PAID"} =>
         WasPosted(db, <<"invoice", i>>)
  /\ \A p \in PaymentIds :
       db.payments[p].status \in {"POSTED", "PARTIALLY_ALLOCATED", "ALLOCATED"} =>
         WasPosted(db, <<"payment", p>>)
  /\ \A n \in NoteIds :
       db.notes[n].status \in {"POSTED", "PARTIALLY_APPLIED", "APPLIED"} =>
         WasPosted(db, <<"note", n>>)
  /\ \A f \in RefundIds :
       db.refunds[f].status # "NONE" =>
         /\ db.refunds[f].note \in NoteIds
         /\ WasPosted(db, <<"note", db.refunds[f].note>>)

Settled(db) ==
  /\ \A p \in PaymentIds, i \in InvoiceIds :
       db.allocations[p, i] > 0 => WasPosted(db, <<"payment", p>>) /\ WasPosted(db, <<"invoice", i>>)
  /\ \A n \in NoteIds, i \in InvoiceIds :
       db.applications[n, i] > 0 => WasPosted(db, <<"note", n>>) /\ WasPosted(db, <<"invoice", i>>)

Good(db) == db \in Database /\ Checked(db) /\ StatusTells(db) /\ Settled(db)

\* What stays true from one state of the database to a later one.
Grows(old, new) ==
  /\ \A d \in Documents : WasPosted(old, d) => WasPosted(new, d)
  /\ \A p \in PaymentIds : old.payments[p].amount > 0 => new.payments[p].amount > 0
  /\ \A f \in RefundIds : old.refunds[f].status # "NONE" => new.refunds[f].status # "NONE"

RequestOK(w) ==
  \/ requests[w] = Idle
  \/ /\ requests[w].pc \in {"read", "voidNote", "voidRefund"}
     /\ Good(Seen(w)) /\ Grows(Seen(w), rows)
     /\ requests[w].pc = "voidRefund" => Seen(w).refunds[requests[w].doc].status # "NONE"

Inv ==
  /\ Good(rows)
  /\ DOMAIN requests = Workers
  /\ \A w \in Workers : RequestOK(w)

-----------------------------------------------------------------------------
(* Lemmas about databases *)

LEMMA GrowsTransitive ==
  ASSUME NEW a, NEW b, NEW c, Grows(a, b), Grows(b, c)
  PROVE  Grows(a, c)
  BY DEF Grows

\* A step of the ledger: journals are posted, never removed.
LEMMA JournalStep ==
  ASSUME NEW db, Good(db), NEW js \in [Documents -> JournalCounts],
         \A d \in Documents : db.journals[d].posted <= js[d].posted
  PROVE  LET new == [db EXCEPT !.journals = js] IN Good(new) /\ Grows(db, new)
<1> DEFINE new == [db EXCEPT !.journals = js]
<1>1. new \in Database /\ new.journals = js /\ new.invoices = db.invoices
        /\ new.payments = db.payments /\ new.notes = db.notes /\ new.refunds = db.refunds
        /\ new.allocations = db.allocations /\ new.applications = db.applications
  BY DEF Good, Database
<1>2. \A d \in Documents : WasPosted(db, d) => WasPosted(new, d)
  BY <1>1 DEF Good, Database, JournalCounts, WasPosted
<1>3. Checked(new)
  BY <1>1 DEF Good, Checked
<1>4. StatusTells(new)
  BY <1>1, <1>2 DEF Good, StatusTells, Documents
<1>5. Settled(new)
  BY <1>1, <1>2 DEF Good, Settled, Documents
<1>6. Grows(db, new)
  BY <1>1, <1>2 DEF Grows
<1> QED BY <1>1, <1>3, <1>4, <1>5, <1>6 DEF Good

LEMMA InvoiceStep ==
  ASSUME NEW db, Good(db), NEW i \in InvoiceIds, NEW row \in InvoiceRow,
         row.paid <= row.total, row.status \in {"NONE", "DRAFT"} => row.paid = 0,
         row.status \in {"ISSUED", "POSTED", "PARTIALLY_PAID", "PAID"} =>
           WasPosted(db, <<"invoice", i>>)
  PROVE  LET new == [db EXCEPT !.invoices[i] = row] IN Good(new) /\ Grows(db, new)
<1> DEFINE new == [db EXCEPT !.invoices[i] = row]
<1>1. new \in Database /\ new.journals = db.journals
        /\ new.invoices = [db.invoices EXCEPT ![i] = row]
        /\ new.payments = db.payments /\ new.notes = db.notes /\ new.refunds = db.refunds
        /\ new.allocations = db.allocations /\ new.applications = db.applications
  BY DEF Good, Database
<1>2. \A j \in InvoiceIds : new.invoices[j] = IF j = i THEN row ELSE db.invoices[j]
  BY <1>1 DEF Good, Database
<1>3. \A d : WasPosted(new, d) = WasPosted(db, d)
  BY <1>1 DEF WasPosted
<1>4. Checked(new)
  BY <1>1, <1>2 DEF Good, Checked
<1>5. StatusTells(new)
  BY <1>1, <1>2, <1>3 DEF Good, StatusTells
<1>6. Settled(new) /\ Grows(db, new)
  BY <1>1, <1>3 DEF Good, Settled, Grows
<1> QED BY <1>1, <1>4, <1>5, <1>6 DEF Good

LEMMA PaymentStep ==
  ASSUME NEW db, Good(db), NEW p \in PaymentIds, NEW row \in PaymentRow,
         row.allocated <= row.amount, row.status # "NONE" => row.amount > 0,
         db.payments[p].amount > 0 => row.amount > 0,
         row.status \in {"POSTED", "PARTIALLY_ALLOCATED", "ALLOCATED"} =>
           WasPosted(db, <<"payment", p>>)
  PROVE  LET new == [db EXCEPT !.payments[p] = row] IN Good(new) /\ Grows(db, new)
<1> DEFINE new == [db EXCEPT !.payments[p] = row]
<1>1. new \in Database /\ new.journals = db.journals
        /\ new.payments = [db.payments EXCEPT ![p] = row]
        /\ new.invoices = db.invoices /\ new.notes = db.notes /\ new.refunds = db.refunds
        /\ new.allocations = db.allocations /\ new.applications = db.applications
  BY DEF Good, Database
<1>2. \A q \in PaymentIds : new.payments[q] = IF q = p THEN row ELSE db.payments[q]
  BY <1>1 DEF Good, Database
<1>3. \A d : WasPosted(new, d) = WasPosted(db, d)
  BY <1>1 DEF WasPosted
<1>4. Checked(new)
  BY <1>1, <1>2 DEF Good, Checked
<1>5. StatusTells(new)
  BY <1>1, <1>2, <1>3 DEF Good, StatusTells
<1>6. Settled(new) /\ Grows(db, new)
  BY <1>1, <1>2, <1>3 DEF Good, Settled, Grows
<1> QED BY <1>1, <1>4, <1>5, <1>6 DEF Good

LEMMA NoteStep ==
  ASSUME NEW db, Good(db), NEW n \in NoteIds, NEW row \in NoteRow,
         row.status \in {"POSTED", "PARTIALLY_APPLIED", "APPLIED"} =>
           WasPosted(db, <<"note", n>>)
  PROVE  LET new == [db EXCEPT !.notes[n] = row] IN Good(new) /\ Grows(db, new)
<1> DEFINE new == [db EXCEPT !.notes[n] = row]
<1>1. new \in Database /\ new.journals = db.journals
        /\ new.notes = [db.notes EXCEPT ![n] = row]
        /\ new.invoices = db.invoices /\ new.payments = db.payments /\ new.refunds = db.refunds
        /\ new.allocations = db.allocations /\ new.applications = db.applications
  BY DEF Good, Database
<1>2. \A m \in NoteIds : new.notes[m] = IF m = n THEN row ELSE db.notes[m]
  BY <1>1 DEF Good, Database
<1>3. \A d : WasPosted(new, d) = WasPosted(db, d)
  BY <1>1 DEF WasPosted
<1>4. Checked(new) /\ Settled(new) /\ Grows(db, new)
  BY <1>1, <1>3 DEF Good, Checked, Settled, Grows
<1>5. StatusTells(new)
  BY <1>1, <1>2, <1>3 DEF Good, StatusTells
<1> QED BY <1>1, <1>4, <1>5 DEF Good

LEMMA RefundStep ==
  ASSUME NEW db, Good(db), NEW f \in RefundIds, NEW row \in RefundRow,
         row.status # "NONE", row.note \in NoteIds, WasPosted(db, <<"note", row.note>>)
  PROVE  LET new == [db EXCEPT !.refunds[f] = row] IN Good(new) /\ Grows(db, new)
<1> DEFINE new == [db EXCEPT !.refunds[f] = row]
<1>1. new \in Database /\ new.journals = db.journals
        /\ new.refunds = [db.refunds EXCEPT ![f] = row]
        /\ new.invoices = db.invoices /\ new.payments = db.payments /\ new.notes = db.notes
        /\ new.allocations = db.allocations /\ new.applications = db.applications
  BY DEF Good, Database
<1>2. \A g \in RefundIds : new.refunds[g] = IF g = f THEN row ELSE db.refunds[g]
  BY <1>1 DEF Good, Database
<1>3. \A d : WasPosted(new, d) = WasPosted(db, d)
  BY <1>1 DEF WasPosted
<1>4. Checked(new) /\ Settled(new) /\ Grows(db, new)
  BY <1>1, <1>2, <1>3 DEF Good, Checked, Settled, Grows
<1>5. StatusTells(new)
  BY <1>1, <1>2, <1>3 DEF Good, StatusTells
<1> QED BY <1>1, <1>4, <1>5 DEF Good

LEMMA PeriodStep ==
  ASSUME NEW db, Good(db), NEW period \in PeriodStatus
  PROVE  LET new == [db EXCEPT !.period = period] IN Good(new) /\ Grows(db, new)
<1> DEFINE new == [db EXCEPT !.period = period]
<1>1. new \in Database /\ new.journals = db.journals /\ new.refunds = db.refunds
        /\ new.invoices = db.invoices /\ new.payments = db.payments /\ new.notes = db.notes
        /\ new.allocations = db.allocations /\ new.applications = db.applications
  BY DEF Good, Database
<1>2. \A d : WasPosted(new, d) = WasPosted(db, d)
  BY <1>1 DEF WasPosted
<1> QED BY <1>1, <1>2 DEF Good, Checked, StatusTells, Settled, Grows

\* Some invoices, all of them posted, are paid more.
LEMMA SettleStep ==
  ASSUME NEW db, Good(db), NEW invs \in [InvoiceIds -> InvoiceRow],
         \A i \in InvoiceIds :
           \/ invs[i] = db.invoices[i]
           \/ /\ invs[i].status \in {"PARTIALLY_PAID", "PAID"} /\ invs[i].paid <= invs[i].total
              /\ WasPosted(db, <<"invoice", i>>)
  PROVE  LET new == [db EXCEPT !.invoices = invs] IN Good(new) /\ Grows(db, new)
<1> DEFINE new == [db EXCEPT !.invoices = invs]
<1>1. new \in Database /\ new.journals = db.journals /\ new.invoices = invs
        /\ new.payments = db.payments /\ new.notes = db.notes /\ new.refunds = db.refunds
        /\ new.allocations = db.allocations /\ new.applications = db.applications
  BY DEF Good, Database
<1>2. \A d : WasPosted(new, d) = WasPosted(db, d)
  BY <1>1 DEF WasPosted
<1>3. Checked(new)
  BY <1>1 DEF Good, Checked
<1>4. StatusTells(new)
  BY <1>1, <1>2 DEF Good, StatusTells
<1>5. Settled(new) /\ Grows(db, new)
  BY <1>1, <1>2 DEF Good, Settled, Grows
<1> QED BY <1>1, <1>3, <1>4, <1>5 DEF Good

LEMMA AllocationStep ==
  ASSUME NEW db, Good(db), NEW als \in [PaymentIds \X InvoiceIds -> Nat],
         \A p \in PaymentIds, i \in InvoiceIds :
           als[p, i] > 0 => WasPosted(db, <<"payment", p>>) /\ WasPosted(db, <<"invoice", i>>)
  PROVE  LET new == [db EXCEPT !.allocations = als] IN Good(new) /\ Grows(db, new)
<1> DEFINE new == [db EXCEPT !.allocations = als]
<1>1. new \in Database /\ new.journals = db.journals /\ new.invoices = db.invoices
        /\ new.payments = db.payments /\ new.notes = db.notes /\ new.refunds = db.refunds
        /\ new.allocations = als /\ new.applications = db.applications
  BY DEF Good, Database
<1>2. \A d : WasPosted(new, d) = WasPosted(db, d)
  BY <1>1 DEF WasPosted
<1>3. Settled(new)
  BY <1>1, <1>2 DEF Good, Settled
<1> QED BY <1>1, <1>2, <1>3 DEF Good, Checked, StatusTells, Grows

LEMMA ApplicationStep ==
  ASSUME NEW db, Good(db), NEW als \in [NoteIds \X InvoiceIds -> Nat],
         \A n \in NoteIds, i \in InvoiceIds :
           als[n, i] > 0 => WasPosted(db, <<"note", n>>) /\ WasPosted(db, <<"invoice", i>>)
  PROVE  LET new == [db EXCEPT !.applications = als] IN Good(new) /\ Grows(db, new)
<1> DEFINE new == [db EXCEPT !.applications = als]
<1>1. new \in Database /\ new.journals = db.journals /\ new.invoices = db.invoices
        /\ new.payments = db.payments /\ new.notes = db.notes /\ new.refunds = db.refunds
        /\ new.applications = als /\ new.allocations = db.allocations
  BY DEF Good, Database
<1>2. \A d : WasPosted(new, d) = WasPosted(db, d)
  BY <1>1 DEF WasPosted
<1>3. Settled(new)
  BY <1>1, <1>2 DEF Good, Settled
<1> QED BY <1>1, <1>2, <1>3 DEF Good, Checked, StatusTells, Grows

\* The journals after one more entry for d.
LEMMA PostType ==
  ASSUME NEW db, Good(db), NEW d \in Documents,
         NEW js, js \in {Post(db.journals, d), PostReversal(db.journals, d), Compensate(db.journals, d)}
  PROVE  /\ js \in [Documents -> JournalCounts]
         /\ \A e \in Documents : db.journals[e].posted <= js[e].posted
<1>1. db.journals \in [Documents -> JournalCounts]
  BY DEF Good, Database
<1>2. CASE js = Post(db.journals, d)
  BY <1>1, <1>2 DEF Post, JournalCounts
<1>3. CASE js = PostReversal(db.journals, d)
  BY <1>1, <1>3 DEF PostReversal, JournalCounts
<1>4. CASE js = Compensate(db.journals, d)
  BY <1>1, <1>4 DEF Compensate, JournalCounts
<1> QED BY <1>2, <1>3, <1>4

LEMMA PostedNow ==
  ASSUME NEW db, Good(db), NEW d \in Documents
  PROVE  Post(db.journals, d)[d].posted > 0
  BY DEF Good, Database, JournalCounts, Post

-----------------------------------------------------------------------------
(* Lemmas about requests *)

LEMMA CommitKeeps ==
  ASSUME Inv, NEW w \in Workers, NEW new, Good(new), Grows(rows, new), Commit(w, new)
  PROVE  Inv'
<1>1. rows' = new /\ DOMAIN requests' = Workers /\ requests'[w] = Idle
        /\ \A v \in Workers \ {w} : requests'[v] = requests[v]
  BY DEF Commit, Inv
<1>2. ASSUME NEW v \in Workers PROVE RequestOK(v)'
  <2>1. CASE v = w
    BY <1>1, <2>1 DEF RequestOK
  <2>2. CASE v # w
    BY <1>1, <2>2, GrowsTransitive DEF Inv, RequestOK, Seen
  <2> QED BY <2>1, <2>2
<1> QED BY <1>1, <1>2 DEF Inv

LEMMA ContinueKeeps ==
  ASSUME Inv, NEW w \in Workers, NEW new, Good(new), Grows(rows, new), At(w, "read"),
         NEW pc \in {"voidNote", "voidRefund"}, NEW d, Continue(w, new, pc, d),
         pc = "voidRefund" => Seen(w).refunds[d].status # "NONE"
  PROVE  Inv'
<1>1. rows' = new /\ DOMAIN requests' = Workers
        /\ requests'[w] = [pc |-> pc, seen |-> Seen(w), doc |-> d]
        /\ \A v \in Workers \ {w} : requests'[v] = requests[v]
  BY DEF Continue, Inv
<1>2. Good(Seen(w)) /\ Grows(Seen(w), rows)
  BY DEF Inv, RequestOK, At, Idle
<1>3. ASSUME NEW v \in Workers PROVE RequestOK(v)'
  <2>1. CASE v = w
    BY <1>1, <1>2, <2>1, GrowsTransitive DEF RequestOK, Seen
  <2>2. CASE v # w
    BY <1>1, <2>2, GrowsTransitive DEF Inv, RequestOK, Seen
  <2> QED BY <2>1, <2>2
<1> QED BY <1>1, <1>3 DEF Inv

\* What a request has read satisfies the invariant, and has happened since.
LEMMA SeenIsGood ==
  ASSUME Inv, NEW w \in Workers,
         At(w, "read") \/ At(w, "voidNote") \/ At(w, "voidRefund")
  PROVE  Good(Seen(w)) /\ Grows(Seen(w), rows) /\ Good(rows)
  BY DEF Inv, RequestOK, At, Idle

LEMMA NothingKeeps ==
  ASSUME Inv, NEW w \in Workers, Commit(w, rows)
  PROVE  Inv'
  BY CommitKeeps DEF Grows, Inv

LEMMA AmountsType == Amounts \subseteq Nat \ {0}
  BY MaxAmountAssumption DEF Amounts

-----------------------------------------------------------------------------
(* Every action keeps the invariant. *)

LEMMA PeriodKeeps ==
  ASSUME Inv, NEW w \in Workers, PeriodNext(w)
  PROVE  Inv'
<1>1. PICK period \in PeriodStatus : Commit(w, [rows EXCEPT !.period = period])
  BY DEF PeriodNext, StartClose, ClosePeriod, RefuseClose, ReopenPeriod, PeriodStatus
<1> QED BY <1>1, PeriodStep, CommitKeeps DEF Inv

\* The row of an invoice changes, and maybe the journals.
LEMMA InvoiceKeeps ==
  ASSUME Inv, NEW w \in Workers, NEW i \in InvoiceIds,
         CreateInvoice(w, i) \/ UpdateInvoice(w, i) \/ RemoveInvoice(w, i)
  PROVE  Inv'
<1>0. At(w, "read")
  BY DEF CreateInvoice, UpdateInvoice, RemoveInvoice, Creates, Changes
<1>1. Good(Seen(w)) /\ Good(rows) /\ Amounts \subseteq Nat \ {0}
  BY <1>0, SeenIsGood, AmountsType
<1>2. rows.invoices[i] \in InvoiceRow /\ Seen(w).invoices[i] \in InvoiceRow
  BY <1>1 DEF Good, Database
<1>3. CASE CreateInvoice(w, i)
  <2>1. PICK n \in Amounts : Commit(w, [rows EXCEPT !.invoices[i] = [status |-> "DRAFT", total |-> n, paid |-> 0]])
    BY <1>3 DEF CreateInvoice
  <2> DEFINE row == [status |-> "DRAFT", total |-> n, paid |-> 0]
  <2>2. row \in InvoiceRow /\ row.paid <= row.total /\ row.paid = 0 /\ row.status = "DRAFT"
    BY <1>1 DEF InvoiceRow
  <2> QED BY <1>1, <2>1, <2>2, InvoiceStep, CommitKeeps
<1>4. CASE UpdateInvoice(w, i)
  <2>1. PICK n \in Amounts :
          CommitIf(w, rows.invoices[i].paid = Seen(w).invoices[i].paid, [rows EXCEPT !.invoices[i].total = n])
    BY <1>4 DEF UpdateInvoice
  <2>2. CASE rows.invoices[i].paid # Seen(w).invoices[i].paid
    BY <2>1, <2>2, NothingKeeps DEF CommitIf
  <2>3. CASE rows.invoices[i].paid = Seen(w).invoices[i].paid
    <3> DEFINE row == [rows.invoices[i] EXCEPT !.total = n]
    <3>1. rows.invoices[i].paid = 0
      BY <1>1, <1>4, <2>3 DEF UpdateInvoice, Changes, Good, Checked
    <3>2. row \in InvoiceRow /\ row.paid = 0 /\ row.paid <= row.total
            /\ row.status = rows.invoices[i].status
      BY <1>1, <1>2, <3>1 DEF InvoiceRow
    <3>3. Commit(w, [rows EXCEPT !.invoices[i] = row])
      BY <1>1, <1>2, <2>1, <2>3 DEF CommitIf, Good, Database
    <3>4. row.status \in {"ISSUED", "POSTED", "PARTIALLY_PAID", "PAID"} => WasPosted(rows, <<"invoice", i>>)
      BY <1>1, <3>2 DEF Good, StatusTells
    <3> HIDE DEF row
    <3> QED BY <1>1, <3>2, <3>3, <3>4, InvoiceStep, CommitKeeps
  <2> QED BY <2>2, <2>3
<1>5. CASE RemoveInvoice(w, i)
  <2> DEFINE row == [rows.invoices[i] EXCEPT !.status = "DELETED"]
  <2>1. Commit(w, [rows EXCEPT !.invoices[i].status = "DELETED"]) \/ Commit(w, rows)
    BY <1>5 DEF RemoveInvoice, CommitIf
  <2>2. [rows EXCEPT !.invoices[i].status = "DELETED"] = [rows EXCEPT !.invoices[i] = row]
    BY <1>1, <1>2 DEF Good, Database
  <2>3. row \in InvoiceRow /\ row.status = "DELETED" /\ row.paid <= row.total
    BY <1>1, <1>2 DEF InvoiceRow, Good, Checked
  <2> HIDE DEF row
  <2>4. Good([rows EXCEPT !.invoices[i] = row]) /\ Grows(rows, [rows EXCEPT !.invoices[i] = row])
    BY <1>1, <2>3, InvoiceStep
  <2> QED BY <2>1, <2>2, <2>4, CommitKeeps, NothingKeeps
<1> QED BY <1>3, <1>4, <1>5

\* An update by id of the status alone, to one that says nothing of postings.
LEMMA InvoiceStatusKeeps ==
  ASSUME Inv, NEW w \in Workers, NEW i \in InvoiceIds, NEW from,
         NEW to \in {"SUBMITTED", "APPROVED", "CANCELLED"}, SetStatus(w, "invoices", i, from, to)
  PROVE  Inv'
<1> DEFINE row == [rows.invoices[i] EXCEPT !.status = to]
<1>1. Good(rows) /\ rows.invoices[i] \in InvoiceRow
  BY DEF Inv, Good, Database
<1>2. Commit(w, [rows EXCEPT !.invoices[i] = row])
  BY <1>1 DEF SetStatus, Good, Database
<1>3. row \in InvoiceRow /\ row.status = to /\ row.paid <= row.total
  BY <1>1 DEF InvoiceRow, Good, Checked
<1> HIDE DEF row
<1> QED BY <1>1, <1>2, <1>3, InvoiceStep, CommitKeeps

LEMMA PostInvoiceKeeps ==
  ASSUME Inv, NEW w \in Workers, NEW i \in InvoiceIds, NEW from, PostInvoice(w, i, from),
         from \subseteq {"DRAFT", "SUBMITTED", "APPROVED"}
  PROVE  Inv'
<1> DEFINE d == <<"invoice", i>>
           js == Post(rows.journals, d)
           row == [rows.invoices[i] EXCEPT !.status = PostedStatus(rows.side)]
           posted == [rows EXCEPT !.journals = js]
<1>1. Good(rows) /\ rows.invoices[i] \in InvoiceRow /\ d \in Documents
  BY DEF Inv, Good, Database, Documents
<1>2. Good(posted) /\ Grows(rows, posted) /\ WasPosted(posted, d) /\ posted.invoices = rows.invoices
  <2>1. js \in [Documents -> JournalCounts] /\ (\A e \in Documents : rows.journals[e].posted <= js[e].posted)
          /\ js[d].posted > 0
    BY <1>1, PostType, PostedNow
  <2> HIDE DEF js, d
  <2>2. posted.journals = js /\ posted.invoices = rows.invoices
    BY <1>1 DEF Good, Database
  <2> QED BY <1>1, <2>1, <2>2, JournalStep DEF WasPosted
<1>3. Commit(w, [posted EXCEPT !.invoices[i] = row])
  BY <1>1 DEF PostInvoice, Good, Database
<1>4. row \in InvoiceRow /\ row.status \in {"ISSUED", "POSTED"} /\ row.paid <= row.total
  BY <1>1 DEF InvoiceRow, Good, Checked, PostedStatus
<1> HIDE DEF row, posted, d
<1>5. Good([posted EXCEPT !.invoices[i] = row]) /\ Grows(posted, [posted EXCEPT !.invoices[i] = row])
  BY <1>2, <1>4, InvoiceStep DEF d
<1> QED BY <1>2, <1>3, <1>5, GrowsTransitive, CommitKeeps

LEMMA VoidInvoiceKeeps ==
  ASSUME Inv, NEW w \in Workers, NEW i \in InvoiceIds, VoidInvoice(w, i)
  PROVE  Inv'
<1> DEFINE d == <<"invoice", i>>
           js == IF HasJournal(Seen(w).journals, d) THEN PostReversal(rows.journals, d) ELSE rows.journals
           row == [rows.invoices[i] EXCEPT !.status = "VOIDED"]
           reversed == [rows EXCEPT !.journals = js]
<1>1. Good(rows) /\ rows.invoices[i] \in InvoiceRow /\ d \in Documents
  BY DEF Inv, Good, Database, Documents
<1>2. Good(reversed) /\ Grows(rows, reversed)
  <2>1. js \in [Documents -> JournalCounts] /\ \A e \in Documents : rows.journals[e].posted <= js[e].posted
    <3>1. rows.journals \in [Documents -> JournalCounts]
      BY <1>1 DEF Good, Database
    <3>2. \A e \in Documents : rows.journals[e].posted <= rows.journals[e].posted
      BY <3>1 DEF JournalCounts
    <3> QED BY <1>1, <3>1, <3>2, PostType
  <2> HIDE DEF js
  <2> QED BY <1>1, <2>1, JournalStep
<1>3. Commit(w, [reversed EXCEPT !.invoices[i] = row])
  BY <1>1 DEF VoidInvoice, Good, Database
<1>4. row \in InvoiceRow /\ row.status = "VOIDED" /\ row.paid <= row.total
  BY <1>1 DEF InvoiceRow, Good, Checked
<1> HIDE DEF row, reversed
<1>5. Good([reversed EXCEPT !.invoices[i] = row]) /\ Grows(reversed, [reversed EXCEPT !.invoices[i] = row])
  BY <1>2, <1>4, InvoiceStep
<1> QED BY <1>2, <1>3, <1>5, GrowsTransitive, CommitKeeps

LEMMA InvoicesKeep ==
  ASSUME Inv, NEW w \in Workers, InvoicesNext(w)
  PROVE  Inv'
<1>1. DOMAIN rows.invoices = InvoiceIds
  BY DEF Inv, Good, Database
<1>2. PICK i \in InvoiceIds :
        \/ CreateInvoice(w, i) \/ UpdateInvoice(w, i) \/ RemoveInvoice(w, i)
        \/ \E from : \E to \in {"SUBMITTED", "APPROVED", "CANCELLED"} : SetStatus(w, "invoices", i, from, to)
        \/ \E from : from \subseteq {"DRAFT", "SUBMITTED", "APPROVED"} /\ PostInvoice(w, i, from)
        \/ VoidInvoice(w, i)
  BY <1>1 DEF InvoicesNext, CreateCustomerInvoice, UpdateCustomerInvoice, RemoveCustomerInvoice,
     IssueCustomerInvoice, CancelCustomerInvoice, VoidCustomerInvoice, CreateSupplierInvoice,
     UpdateSupplierInvoice, RemoveSupplierInvoice, SubmitSupplierInvoice, ApproveSupplierInvoice,
     PostSupplierInvoice, CancelSupplierInvoice, VoidSupplierInvoice
<1> QED BY <1>2, InvoiceKeeps, InvoiceStatusKeeps, PostInvoiceKeeps, VoidInvoiceKeeps

-----------------------------------------------------------------------------
(* Payments *)

LEMMA SharesAreNat ==
  ASSUME NEW share \in [InvoiceIds -> 0..MaxAmount]
  PROVE  \A i \in InvoiceIds : share[i] \in Nat
<1> SUFFICES ASSUME NEW i \in InvoiceIds PROVE share[i] \in Nat
  OBVIOUS
<1>1. share[i] \in 0..MaxAmount
  OBVIOUS
<1> QED BY <1>1, MaxAmountAssumption

LEMMA PaidType ==
  ASSUME NEW old \in InvoiceRow, NEW n \in Nat, old.paid + n <= old.total
  PROVE  /\ Paid(old, n) \in InvoiceRow /\ Paid(old, n).status \in {"PARTIALLY_PAID", "PAID"}
         /\ Paid(old, n).paid <= Paid(old, n).total
<1> DEFINE status == IF Due(old) = n THEN "PAID" ELSE "PARTIALLY_PAID"
<1>1. status \in {"PARTIALLY_PAID", "PAID"}
  OBVIOUS
<1>2. Paid(old, n) = [old EXCEPT !.paid = old.paid + n, !.status = status]
  BY DEF Paid
<1>3. old.paid + n \in Nat
  BY DEF InvoiceRow
<1> HIDE DEF status
<1> QED BY <1>1, <1>2, <1>3 DEF InvoiceRow

LEMMA AllocatedType ==
  ASSUME NEW old \in PaymentRow, NEW n \in Int, n > 0, n <= old.amount - old.allocated
  PROVE  /\ Allocated(old, n) \in PaymentRow
         /\ Allocated(old, n).allocated <= Allocated(old, n).amount
         /\ Allocated(old, n).amount > 0
<1> DEFINE status == IF old.amount = old.allocated + n THEN "ALLOCATED" ELSE "PARTIALLY_ALLOCATED"
<1>1. status \in {"ALLOCATED", "PARTIALLY_ALLOCATED"}
  OBVIOUS
<1>2. Allocated(old, n) = [old EXCEPT !.allocated = old.allocated + n, !.status = status]
  BY DEF Allocated
<1>3. old.allocated + n \in Nat /\ old.allocated + n <= old.amount /\ old.amount > 0
  BY DEF PaymentRow
<1> HIDE DEF status
<1> QED BY <1>1, <1>2, <1>3 DEF PaymentRow

\* The invoices after money is settled on those that share names, as computed
\* from what was read: all of them were posted by now.
LEMMA SharedInvoices ==
  ASSUME NEW seen, Good(seen), Good(rows), Grows(seen, rows),
         NEW share \in [InvoiceIds -> 0..MaxAmount],
         \A i \in InvoiceIds : share[i] > 0 =>
           seen.invoices[i].status \in Payable(rows.side) /\ share[i] <= Due(seen.invoices[i]),
         NEW invs, invs = [i \in InvoiceIds |->
           IF share[i] > 0 THEN Paid(seen.invoices[i], share[i]) ELSE rows.invoices[i]]
  PROVE  /\ invs \in [InvoiceIds -> InvoiceRow]
         /\ \A i \in InvoiceIds : share[i] > 0 => WasPosted(rows, <<"invoice", i>>)
         /\ \A i \in InvoiceIds :
              \/ invs[i] = rows.invoices[i]
              \/ /\ invs[i].status \in {"PARTIALLY_PAID", "PAID"} /\ invs[i].paid <= invs[i].total
                 /\ WasPosted(rows, <<"invoice", i>>)
<1>1. \A i \in InvoiceIds : share[i] > 0 => WasPosted(rows, <<"invoice", i>>)
  <2> SUFFICES ASSUME NEW i \in InvoiceIds, share[i] > 0  PROVE WasPosted(rows, <<"invoice", i>>)
    OBVIOUS
  <2>1. seen.invoices[i].status \in {"ISSUED", "POSTED", "PARTIALLY_PAID", "PAID"}
    BY DEF Payable, PostedStatus
  <2>2. WasPosted(seen, <<"invoice", i>>) /\ <<"invoice", i>> \in Documents
    BY <2>1 DEF Good, StatusTells, Documents
  <2> QED BY <2>2 DEF Grows
<1>2. \A i \in InvoiceIds : share[i] > 0 =>
        /\ Paid(seen.invoices[i], share[i]) \in InvoiceRow
        /\ Paid(seen.invoices[i], share[i]).status \in {"PARTIALLY_PAID", "PAID"}
        /\ Paid(seen.invoices[i], share[i]).paid <= Paid(seen.invoices[i], share[i]).total
  <2> SUFFICES ASSUME NEW i \in InvoiceIds, share[i] > 0
      PROVE  /\ Paid(seen.invoices[i], share[i]) \in InvoiceRow
             /\ Paid(seen.invoices[i], share[i]).status \in {"PARTIALLY_PAID", "PAID"}
             /\ Paid(seen.invoices[i], share[i]).paid <= Paid(seen.invoices[i], share[i]).total
    OBVIOUS
  <2>1. seen.invoices[i] \in InvoiceRow /\ share[i] \in Nat
    BY SharesAreNat DEF Good, Database
  <2>2. seen.invoices[i].paid + share[i] <= seen.invoices[i].total
    BY <2>1 DEF Due, InvoiceRow
  <2> QED BY <2>1, <2>2, PaidType
<1>3. rows.invoices \in [InvoiceIds -> InvoiceRow]
  BY DEF Good, Database
<1> QED BY <1>1, <1>2, <1>3

LEMMA NatPlus ==
  ASSUME NEW a \in Nat, NEW b \in Nat
  PROVE  a + b \in Nat /\ (a + b > 0 => a > 0 \/ b > 0)
  OBVIOUS

LinkedMore(Ids, id, links, share) ==
  [qi \in Ids \X InvoiceIds |-> IF qi[1] = id THEN links[qi] + share[qi[2]] ELSE links[qi]]

\* What was used of a document grows by its share of every invoice.
LEMMA SharedLinks ==
  ASSUME NEW Ids, NEW id \in Ids, NEW links \in [Ids \X InvoiceIds -> Nat],
         NEW share \in [InvoiceIds -> Nat], NEW Allowed,
         \A q \in Ids, i \in InvoiceIds : links[q, i] > 0 => <<q, i>> \in Allowed,
         \A i \in InvoiceIds : share[i] > 0 => <<id, i>> \in Allowed,
         NEW new, new = LinkedMore(Ids, id, links, share)
  PROVE  /\ new \in [Ids \X InvoiceIds -> Nat]
         /\ \A q \in Ids, i \in InvoiceIds : new[q, i] > 0 => <<q, i>> \in Allowed
<1>0. new = [qi \in Ids \X InvoiceIds |-> IF qi[1] = id THEN links[qi] + share[qi[2]] ELSE links[qi]]
  BY DEF LinkedMore
<1>1. \A i \in InvoiceIds : share[i] \in Nat
  OBVIOUS
<1>2. \A qi \in Ids \X InvoiceIds : links[qi] \in Nat /\ qi[2] \in InvoiceIds
  OBVIOUS
<1>3. new \in [Ids \X InvoiceIds -> Nat]
  <2>1. \A qi \in Ids \X InvoiceIds :
          (IF qi[1] = id THEN links[qi] + share[qi[2]] ELSE links[qi]) \in Nat
    <3> SUFFICES ASSUME NEW qi \in Ids \X InvoiceIds
        PROVE (IF qi[1] = id THEN links[qi] + share[qi[2]] ELSE links[qi]) \in Nat
      OBVIOUS
    <3>1. links[qi] \in Nat /\ share[qi[2]] \in Nat
      BY <1>1, <1>2
    <3>2. links[qi] + share[qi[2]] \in Nat
      BY <3>1, NatPlus, Zenon
    <3> QED BY <3>1, <3>2
  <2> QED BY <1>0, <2>1
<1>4. \A q \in Ids, i \in InvoiceIds :
        new[q, i] = IF q = id THEN links[q, i] + share[i] ELSE links[q, i]
  BY <1>0
<1>5. \A q \in Ids, i \in InvoiceIds : links[q, i] \in Nat
  OBVIOUS
<1>6. ASSUME NEW q \in Ids, NEW i \in InvoiceIds, new[q, i] > 0
      PROVE  <<q, i>> \in Allowed
  <2>1. CASE links[q, i] > 0
    BY <2>1
  <2>2. CASE q = id /\ share[i] > 0
    BY <2>2
  <2>3. links[q, i] > 0 \/ (q = id /\ share[i] > 0)
    <3>1. links[q, i] \in Nat /\ share[i] \in Nat
      BY <1>1, <1>5
    <3>2. new[q, i] = IF q = id THEN links[q, i] + share[i] ELSE links[q, i]
      BY <1>4
    <3>3. CASE q = id
      <4>1. links[q, i] + share[i] > 0
        BY <1>6, <3>2, <3>3
      <4> QED BY <3>1, <3>3, <4>1, NatPlus, Zenon
    <3>4. CASE q # id
      BY <1>6, <3>2, <3>4
    <3> QED BY <3>3, <3>4
  <2> QED BY <2>1, <2>2, <2>3
<1> QED BY <1>3, <1>6

LEMMA PaymentKeeps ==
  ASSUME Inv, NEW w \in Workers, NEW p \in PaymentIds, CreatePayment(w, p) \/ VoidPayment(w, p)
  PROVE  Inv'
<1>0. At(w, "read")
  BY DEF CreatePayment, VoidPayment, Creates, Changes
<1>1. Good(Seen(w)) /\ Good(rows) /\ Grows(Seen(w), rows) /\ Amounts \subseteq Nat \ {0}
  BY <1>0, SeenIsGood, AmountsType
<1>2. CASE CreatePayment(w, p)
  <2>1. PICK n \in Amounts :
          Commit(w, [rows EXCEPT !.payments[p] = [status |-> "DRAFT", amount |-> n, allocated |-> 0]])
    BY <1>2 DEF CreatePayment
  <2> DEFINE row == [status |-> "DRAFT", amount |-> n, allocated |-> 0]
  <2>2. row \in PaymentRow /\ row.allocated <= row.amount /\ row.amount > 0 /\ row.status = "DRAFT"
    BY <1>1 DEF PaymentRow
  <2> QED BY <1>1, <2>1, <2>2, PaymentStep, CommitKeeps
<1>3. CASE VoidPayment(w, p)
  <2>1. Seen(w).payments[p].status # "NONE"
    BY <1>3 DEF VoidPayment, Changes
  <2>2. rows.payments[p].amount > 0
    BY <1>1, <2>1 DEF Good, Checked, Grows
  <2>3. rows.payments[p].amount # 0
    BY <2>2
  <2>4. CommitIf(w, rows.payments[p].amount = 0, VoidedPayment(w, p))
    BY <1>3 DEF VoidPayment
  <2>5. Commit(w, rows)
    BY <2>3, <2>4 DEF CommitIf
  <2> QED BY <2>5, NothingKeeps
<1> QED BY <1>2, <1>3

\* The journals after d is posted: d was posted then, the rest is as it was.
LEMMA Posting ==
  ASSUME NEW db, Good(db), NEW d \in Documents
  PROVE  LET posted == [db EXCEPT !.journals = Post(@, d)]
         IN  /\ Good(posted) /\ Grows(db, posted) /\ WasPosted(posted, d)
             /\ posted.invoices = db.invoices /\ posted.payments = db.payments
             /\ posted.notes = db.notes /\ posted.refunds = db.refunds
<1> DEFINE js == Post(db.journals, d)
           posted == [db EXCEPT !.journals = js]
<1>1. js \in [Documents -> JournalCounts] /\ (\A e \in Documents : db.journals[e].posted <= js[e].posted)
        /\ js[d].posted > 0
  BY PostType, PostedNow
<1>2. posted = [db EXCEPT !.journals = Post(@, d)]
  OBVIOUS
<1> HIDE DEF js
<1>3. posted.journals = js /\ posted.invoices = db.invoices /\ posted.payments = db.payments
        /\ posted.notes = db.notes /\ posted.refunds = db.refunds
  BY DEF Good, Database
<1> QED BY <1>1, <1>2, <1>3, JournalStep DEF WasPosted

LEMMA PostPaymentKeeps ==
  ASSUME Inv, NEW w \in Workers, NEW p \in PaymentIds, PostPayment(w, p)
  PROVE  Inv'
<1> DEFINE d == <<"payment", p>>
           row == [rows.payments[p] EXCEPT !.status = "POSTED"]
           posted == [rows EXCEPT !.journals = Post(@, d)]
<1>0. At(w, "read")
  BY DEF PostPayment, Changes
<1>1. Good(Seen(w)) /\ Good(rows) /\ Grows(Seen(w), rows) /\ d \in Documents
        /\ rows.payments[p] \in PaymentRow
  BY <1>0, SeenIsGood DEF Documents, Good, Database
<1>2. Good(posted) /\ Grows(rows, posted) /\ WasPosted(posted, d) /\ posted.payments = rows.payments
  BY <1>1, Posting
<1>3. Commit(w, [posted EXCEPT !.payments[p] = row])
  BY <1>1 DEF PostPayment, Good, Database
<1>4. Seen(w).payments[p].amount > 0
  BY <1>1 DEF PostPayment, Changes, Good, Checked
<1>5. rows.payments[p].amount > 0
  BY <1>1, <1>4 DEF Grows
<1>6. row \in PaymentRow /\ row.amount > 0 /\ row.allocated <= row.amount
  BY <1>1, <1>5 DEF PaymentRow, Good, Checked
<1> HIDE DEF row, posted, d
<1>7. Good([posted EXCEPT !.payments[p] = row]) /\ Grows(posted, [posted EXCEPT !.payments[p] = row])
  BY <1>2, <1>6, PaymentStep DEF d
<1> QED BY <1>2, <1>3, <1>7, GrowsTransitive, CommitKeeps

LEMMA AllocateKeeps ==
  ASSUME Inv, NEW w \in Workers, NEW p \in PaymentIds, Allocate(w, p)
  PROVE  Inv'
<1> DEFINE seen == Seen(w)
           payment == seen.payments[p]
<1>0. At(w, "read")
  BY DEF Allocate, Changes
<1>1. Good(seen) /\ Good(rows) /\ Grows(seen, rows) /\ DOMAIN seen.invoices = InvoiceIds
        /\ payment \in PaymentRow
        /\ DOMAIN rows.invoices = InvoiceIds /\ DOMAIN rows.allocations = PaymentIds \X InvoiceIds
  BY <1>0, SeenIsGood DEF Good, Database
<1>2. PICK share \in [InvoiceIds -> 0..MaxAmount] :
        /\ SumFunction(share) \in 1..(payment.amount - payment.allocated)
        /\ \A i \in InvoiceIds : share[i] > 0 =>
             seen.invoices[i].status \in Payable(rows.side) /\ share[i] <= Due(seen.invoices[i])
        /\ Commit(w,
             [rows EXCEPT
                !.payments[p] = Allocated(payment, SumFunction(share)),
                !.allocations = [pi \in PaymentIds \X InvoiceIds |->
                   IF pi[1] = p THEN rows.allocations[pi] + share[pi[2]] ELSE rows.allocations[pi]],
                !.invoices = [i \in InvoiceIds |->
                   IF share[i] > 0 THEN Paid(seen.invoices[i], share[i]) ELSE rows.invoices[i]]])
  BY <1>1 DEF Allocate
<1> DEFINE sum == SumFunction(share)
           row == Allocated(payment, sum)
           als == [pi \in PaymentIds \X InvoiceIds |->
                   IF pi[1] = p THEN rows.allocations[pi] + share[pi[2]] ELSE rows.allocations[pi]]
           invs == [i \in InvoiceIds |->
                   IF share[i] > 0 THEN Paid(seen.invoices[i], share[i]) ELSE rows.invoices[i]]
           db1 == [rows EXCEPT !.payments[p] = row]
           db2 == [db1 EXCEPT !.allocations = als]
           db3 == [db2 EXCEPT !.invoices = invs]
<1>3. WasPosted(rows, <<"payment", p>>)
  <2>1. WasPosted(seen, <<"payment", p>>) /\ <<"payment", p>> \in Documents
    BY <1>1 DEF Allocate, Changes, Good, StatusTells, Documents
  <2> QED BY <1>1, <2>1 DEF Grows
<1>4. /\ invs \in [InvoiceIds -> InvoiceRow]
      /\ \A i \in InvoiceIds : share[i] > 0 => WasPosted(rows, <<"invoice", i>>)
      /\ \A i \in InvoiceIds :
           \/ invs[i] = rows.invoices[i]
           \/ /\ invs[i].status \in {"PARTIALLY_PAID", "PAID"} /\ invs[i].paid <= invs[i].total
              /\ WasPosted(rows, <<"invoice", i>>)
  BY <1>1, <1>2, SharedInvoices
<1>5. /\ als \in [PaymentIds \X InvoiceIds -> Nat]
      /\ \A q \in PaymentIds, i \in InvoiceIds :
           als[q, i] > 0 => WasPosted(rows, <<"payment", q>>) /\ WasPosted(rows, <<"invoice", i>>)
  <2> DEFINE links == rows.allocations
             Allowed == {pi \in PaymentIds \X InvoiceIds :
                  WasPosted(rows, <<"payment", pi[1]>>) /\ WasPosted(rows, <<"invoice", pi[2]>>)}
  <2>1. links \in [PaymentIds \X InvoiceIds -> Nat]
          /\ \A q \in PaymentIds, i \in InvoiceIds : links[q, i] > 0 => <<q, i>> \in Allowed
    BY <1>1 DEF Good, Database, Settled
  <2>2. \A i \in InvoiceIds : share[i] > 0 => <<p, i>> \in Allowed
    BY <1>3, <1>4
  <2>3. als = LinkedMore(PaymentIds, p, links, share)
    BY DEF LinkedMore
  <2>4. \A q \in PaymentIds, i \in InvoiceIds : <<q, i>> \in Allowed =>
          WasPosted(rows, <<"payment", q>>) /\ WasPosted(rows, <<"invoice", i>>)
    OBVIOUS
  <2>5. share \in [InvoiceIds -> Nat]
    BY <1>2, SharesAreNat
  <2> HIDE DEF als, Allowed, links
  <2>6. als \in [PaymentIds \X InvoiceIds -> Nat]
          /\ \A q \in PaymentIds, i \in InvoiceIds : als[q, i] > 0 => <<q, i>> \in Allowed
    BY <2>1, <2>2, <2>3, <2>5, SharedLinks
  <2> QED BY <2>4, <2>6
<1>6. row \in PaymentRow /\ row.allocated <= row.amount /\ row.amount > 0
  <2>1. sum \in Int /\ sum > 0 /\ sum <= payment.amount - payment.allocated
    BY <1>1, <1>2 DEF PaymentRow
  <2> HIDE DEF sum, payment
  <2> QED BY <1>1, <2>1, AllocatedType
<1>7. Commit(w, db3)
  <2>1. db3 = [rows EXCEPT !.payments[p] = row, !.allocations = als, !.invoices = invs]
    <3> HIDE DEF row, als, invs
    <3> QED BY <1>1 DEF Good, Database
  <2> QED BY <1>2, <2>1
<1> HIDE DEF row, als, invs
<1>8. Good(db1) /\ Grows(rows, db1)
  BY <1>1, <1>3, <1>6, PaymentStep
<1>9. db1.journals = rows.journals /\ db1.invoices = rows.invoices
  BY <1>1 DEF Good, Database
<1>10. \A e : WasPosted(db1, e) = WasPosted(rows, e)
  BY <1>9 DEF WasPosted
<1> HIDE DEF db1
<1>11. Good(db2) /\ Grows(db1, db2)
  BY <1>5, <1>8, <1>10, AllocationStep
<1>12. db2.journals = rows.journals /\ db2.invoices = rows.invoices
  BY <1>8, <1>9 DEF Good, Database
<1>13. \A e : WasPosted(db2, e) = WasPosted(rows, e)
  BY <1>12 DEF WasPosted
<1> HIDE DEF db2
<1>14. Good(db3) /\ Grows(db2, db3)
  BY <1>4, <1>11, <1>12, <1>13, SettleStep
<1> HIDE DEF db3
<1> QED BY <1>7, <1>8, <1>11, <1>14, GrowsTransitive, CommitKeeps

LEMMA PaymentsKeep ==
  ASSUME Inv, NEW w \in Workers, PaymentsNext(w)
  PROVE  Inv'
<1>1. DOMAIN rows.payments = PaymentIds
  BY DEF Inv, Good, Database
<1> QED BY <1>1, PaymentKeeps, PostPaymentKeeps, AllocateKeeps DEF PaymentsNext

-----------------------------------------------------------------------------
(* Credit and debit notes *)

LEMMA NoteKeeps ==
  ASSUME Inv, NEW w \in Workers, NEW n \in NoteIds, CreateNote(w, n) \/ UpdateNote(w, n)
  PROVE  Inv'
<1>0. At(w, "read")
  BY DEF CreateNote, UpdateNote, Creates, Changes
<1>1. Good(Seen(w)) /\ Good(rows) /\ rows.notes[n] \in NoteRow /\ Seen(w).notes[n] \in NoteRow
        /\ Amounts \subseteq Nat \ {0}
  BY <1>0, SeenIsGood, AmountsType DEF Good, Database
<1>2. CASE CreateNote(w, n)
  <2>1. PICK a \in Amounts : Commit(w, [rows EXCEPT !.notes[n] =
                    [status |-> "DRAFT", total |-> a, applied |-> 0, remaining |-> a]])
    BY <1>2 DEF CreateNote
  <2> DEFINE row == [status |-> "DRAFT", total |-> a, applied |-> 0, remaining |-> a]
  <2>2. row \in NoteRow /\ row.status = "DRAFT"
    BY <1>1 DEF NoteRow
  <2> QED BY <1>1, <2>1, <2>2, NoteStep, CommitKeeps
<1>3. CASE UpdateNote(w, n)
  <2>1. PICK a \in Amounts :
          LET new == [rows EXCEPT !.notes[n].total = a,
                                  !.notes[n].remaining = a - Seen(w).notes[n].applied]
          IN  CommitIf(w, LegalNote(new.notes[n]), new)
    BY <1>3 DEF UpdateNote
  <2> DEFINE rest == a - Seen(w).notes[n].applied
             row == [rows.notes[n] EXCEPT !.total = a, !.remaining = rest]
             new == [rows EXCEPT !.notes[n].total = a, !.notes[n].remaining = rest]
  <2>2. new = [rows EXCEPT !.notes[n] = row] /\ new.notes[n] = row
    BY <1>1 DEF Good, Database
  <2>3. CASE LegalNote(new.notes[n])
    <3>1. a \in Nat /\ rest \in Int
      BY <1>1 DEF NoteRow
    <3>2. row.remaining >= 0 /\ row.remaining = rest
      BY <1>1, <2>2, <2>3 DEF LegalNote, NoteRow
    <3>3. row \in NoteRow /\ row.status = rows.notes[n].status
      <4>1. rest \in Nat
        BY <3>1, <3>2
      <4> HIDE DEF rest
      <4> QED BY <1>1, <3>1, <4>1 DEF NoteRow
    <3>4. row.status \in {"POSTED", "PARTIALLY_APPLIED", "APPLIED"} => WasPosted(rows, <<"note", n>>)
      BY <1>1, <3>3 DEF Good, StatusTells
    <3>5. Commit(w, new)
      BY <2>1, <2>3 DEF CommitIf
    <3> HIDE DEF row, new
    <3> QED BY <1>1, <2>2, <3>3, <3>4, <3>5, NoteStep, CommitKeeps
  <2>4. CASE ~ LegalNote(new.notes[n])
    BY <2>1, <2>4, NothingKeeps DEF CommitIf
  <2> QED BY <2>3, <2>4
<1> QED BY <1>2, <1>3

LEMMA PostNoteKeeps ==
  ASSUME Inv, NEW w \in Workers, NEW n \in NoteIds, PostNote(w, n)
  PROVE  Inv'
<1> DEFINE d == <<"note", n>>
           row == [rows.notes[n] EXCEPT !.status = "POSTED"]
           posted == [rows EXCEPT !.journals = Post(@, d)]
<1>1. Good(rows) /\ d \in Documents /\ rows.notes[n] \in NoteRow
  BY DEF Inv, Documents, Good, Database
<1>2. Good(posted) /\ Grows(rows, posted) /\ WasPosted(posted, d) /\ posted.notes = rows.notes
  BY <1>1, Posting
<1>3. Commit(w, [posted EXCEPT !.notes[n] = row])
  BY <1>1 DEF PostNote, Good, Database
<1>4. row \in NoteRow
  BY <1>1 DEF NoteRow
<1> HIDE DEF row, posted, d
<1>5. Good([posted EXCEPT !.notes[n] = row]) /\ Grows(posted, [posted EXCEPT !.notes[n] = row])
  BY <1>2, <1>4, NoteStep DEF d
<1> QED BY <1>2, <1>3, <1>5, GrowsTransitive, CommitKeeps

LEMMA UsedType ==
  ASSUME NEW old \in NoteRow, NEW a \in Nat, a <= old.remaining
  PROVE  Used(old, a) \in NoteRow /\ Used(old, a).status \in {"APPLIED", "PARTIALLY_APPLIED"}
<1> DEFINE status == IF old.remaining = a THEN "APPLIED" ELSE "PARTIALLY_APPLIED"
<1>1. status \in {"APPLIED", "PARTIALLY_APPLIED"}
  OBVIOUS
<1>2. Used(old, a) = [old EXCEPT !.applied = old.applied + a, !.remaining = old.remaining - a,
                                 !.status = status]
  BY DEF Used
<1>3. old.applied + a \in Nat /\ old.remaining - a \in Nat
  BY DEF NoteRow
<1> HIDE DEF status
<1> QED BY <1>1, <1>2, <1>3 DEF NoteRow

LEMMA ApplyNoteKeeps ==
  ASSUME Inv, NEW w \in Workers, NEW n \in NoteIds, ApplyNote(w, n)
  PROVE  Inv'
<1> DEFINE seen == Seen(w)
           note == seen.notes[n]
<1>0. At(w, "read")
  BY DEF ApplyNote, Changes
<1>1. Good(seen) /\ Good(rows) /\ Grows(seen, rows) /\ DOMAIN seen.invoices = InvoiceIds
        /\ note \in NoteRow
        /\ DOMAIN rows.invoices = InvoiceIds /\ DOMAIN rows.applications = NoteIds \X InvoiceIds
  BY <1>0, SeenIsGood DEF Good, Database
<1>2. PICK share \in [InvoiceIds -> 0..MaxAmount] :
        /\ SumFunction(share) \in 1..note.remaining
        /\ \A i \in InvoiceIds : share[i] > 0 =>
             seen.invoices[i].status \in Payable(rows.side) /\ share[i] <= Due(seen.invoices[i])
        /\ Commit(w,
             [rows EXCEPT
                !.notes[n] = Used(note, SumFunction(share)),
                !.applications = [ni \in NoteIds \X InvoiceIds |->
                   IF ni[1] = n THEN rows.applications[ni] + share[ni[2]] ELSE rows.applications[ni]],
                !.invoices = [i \in InvoiceIds |->
                   IF share[i] > 0 THEN Paid(seen.invoices[i], share[i]) ELSE rows.invoices[i]]])
  BY <1>1 DEF ApplyNote
<1> DEFINE sum == SumFunction(share)
           row == Used(note, sum)
           als == [ni \in NoteIds \X InvoiceIds |->
                   IF ni[1] = n THEN rows.applications[ni] + share[ni[2]] ELSE rows.applications[ni]]
           invs == [i \in InvoiceIds |->
                   IF share[i] > 0 THEN Paid(seen.invoices[i], share[i]) ELSE rows.invoices[i]]
           db1 == [rows EXCEPT !.notes[n] = row]
           db2 == [db1 EXCEPT !.applications = als]
           db3 == [db2 EXCEPT !.invoices = invs]
<1>3. WasPosted(rows, <<"note", n>>)
  <2>1. WasPosted(seen, <<"note", n>>) /\ <<"note", n>> \in Documents
    BY <1>1 DEF ApplyNote, Changes, Applicable, Good, StatusTells, Documents
  <2> QED BY <1>1, <2>1 DEF Grows
<1>4. /\ invs \in [InvoiceIds -> InvoiceRow]
      /\ \A i \in InvoiceIds : share[i] > 0 => WasPosted(rows, <<"invoice", i>>)
      /\ \A i \in InvoiceIds :
           \/ invs[i] = rows.invoices[i]
           \/ /\ invs[i].status \in {"PARTIALLY_PAID", "PAID"} /\ invs[i].paid <= invs[i].total
              /\ WasPosted(rows, <<"invoice", i>>)
  BY <1>1, <1>2, SharedInvoices
<1>5. /\ als \in [NoteIds \X InvoiceIds -> Nat]
      /\ \A q \in NoteIds, i \in InvoiceIds :
           als[q, i] > 0 => WasPosted(rows, <<"note", q>>) /\ WasPosted(rows, <<"invoice", i>>)
  <2> DEFINE links == rows.applications
             Allowed == {ni \in NoteIds \X InvoiceIds :
                  WasPosted(rows, <<"note", ni[1]>>) /\ WasPosted(rows, <<"invoice", ni[2]>>)}
  <2>1. links \in [NoteIds \X InvoiceIds -> Nat]
          /\ \A q \in NoteIds, i \in InvoiceIds : links[q, i] > 0 => <<q, i>> \in Allowed
    BY <1>1 DEF Good, Database, Settled
  <2>2. \A i \in InvoiceIds : share[i] > 0 => <<n, i>> \in Allowed
    BY <1>3, <1>4
  <2>3. als = LinkedMore(NoteIds, n, links, share)
    BY DEF LinkedMore
  <2>4. \A q \in NoteIds, i \in InvoiceIds : <<q, i>> \in Allowed =>
          WasPosted(rows, <<"note", q>>) /\ WasPosted(rows, <<"invoice", i>>)
    OBVIOUS
  <2>5. share \in [InvoiceIds -> Nat]
    BY <1>2, SharesAreNat
  <2> HIDE DEF als, Allowed, links
  <2>6. als \in [NoteIds \X InvoiceIds -> Nat]
          /\ \A q \in NoteIds, i \in InvoiceIds : als[q, i] > 0 => <<q, i>> \in Allowed
    BY <2>1, <2>2, <2>3, <2>5, SharedLinks
  <2> QED BY <2>4, <2>6
<1>6. row \in NoteRow
  <2>1. sum \in Nat /\ sum <= note.remaining
    BY <1>1, <1>2 DEF NoteRow
  <2> HIDE DEF sum, note
  <2> QED BY <1>1, <2>1, UsedType
<1>7. Commit(w, db3)
  <2>1. db3 = [rows EXCEPT !.notes[n] = row, !.applications = als, !.invoices = invs]
    <3> HIDE DEF row, als, invs
    <3> QED BY <1>1 DEF Good, Database
  <2> QED BY <1>2, <2>1
<1> HIDE DEF row, als, invs
<1>8. Good(db1) /\ Grows(rows, db1)
  BY <1>1, <1>3, <1>6, NoteStep
<1>9. db1.journals = rows.journals /\ db1.invoices = rows.invoices
  BY <1>1 DEF Good, Database
<1>10. \A e : WasPosted(db1, e) = WasPosted(rows, e)
  BY <1>9 DEF WasPosted
<1> HIDE DEF db1
<1>11. Good(db2) /\ Grows(db1, db2)
  BY <1>5, <1>8, <1>10, ApplicationStep
<1>12. db2.journals = rows.journals /\ db2.invoices = rows.invoices
  BY <1>8, <1>9 DEF Good, Database
<1>13. \A e : WasPosted(db2, e) = WasPosted(rows, e)
  BY <1>12 DEF WasPosted
<1> HIDE DEF db2
<1>14. Good(db3) /\ Grows(db2, db3)
  BY <1>4, <1>11, <1>12, <1>13, SettleStep
<1> HIDE DEF db3
<1> QED BY <1>7, <1>8, <1>11, <1>14, GrowsTransitive, CommitKeeps

LEMMA NoteStatusKeeps ==
  ASSUME Inv, NEW w \in Workers, NEW n \in NoteIds, NEW to \in {"APPROVED", "VOIDED"},
         Commit(w, [rows EXCEPT !.notes[n].status = to])
  PROVE  Inv'
<1> DEFINE row == [rows.notes[n] EXCEPT !.status = to]
<1>1. Good(rows) /\ rows.notes[n] \in NoteRow
  BY DEF Inv, Good, Database
<1>2. Commit(w, [rows EXCEPT !.notes[n] = row])
  BY <1>1 DEF Good, Database
<1>3. row \in NoteRow /\ row.status = to
  BY <1>1 DEF NoteRow
<1> HIDE DEF row
<1> QED BY <1>1, <1>2, <1>3, NoteStep, CommitKeeps

\* The reversal that a void() posts before its own update.
LEMMA CompensateKeeps ==
  ASSUME Inv, NEW w \in Workers, NEW d \in Documents, At(w, "read"),
         NEW pc \in {"voidNote", "voidRefund"}, NEW id,
         Continue(w, [rows EXCEPT !.journals = Compensate(@, d)], pc, id),
         pc = "voidRefund" => Seen(w).refunds[id].status # "NONE"
  PROVE  Inv'
<1> DEFINE js == Compensate(rows.journals, d)
<1>1. Good(rows)
  BY DEF Inv
<1>2. js \in [Documents -> JournalCounts] /\ \A e \in Documents : rows.journals[e].posted <= js[e].posted
  BY <1>1, PostType
<1>3. Continue(w, [rows EXCEPT !.journals = js], pc, id)
  OBVIOUS
<1> HIDE DEF js
<1> QED BY <1>1, <1>2, <1>3, JournalStep, ContinueKeeps

LEMMA NotesKeep ==
  ASSUME Inv, NEW w \in Workers, NEW n \in NoteIds,
         \/ CreateCreditNote(w, n) \/ UpdateCreditNote(w, n) \/ ApproveCreditNote(w, n)
         \/ PostCreditNote(w, n) \/ ApplyCreditNote(w, n) \/ VoidCreditNote(w, n)
         \/ CreateDebitNote(w, n) \/ UpdateDebitNote(w, n) \/ ApproveDebitNote(w, n)
         \/ PostDebitNote(w, n) \/ ApplyDebitNote(w, n) \/ VoidDebitNote(w, n)
  PROVE  Inv'
<1>1. CASE CreateNote(w, n) \/ UpdateNote(w, n)
  BY <1>1, NoteKeeps
<1>2. CASE PostNote(w, n)
  BY <1>2, PostNoteKeeps
<1>3. CASE ApplyNote(w, n)
  BY <1>3, ApplyNoteKeeps
<1>4. CASE SetStatus(w, "notes", n, {"DRAFT"}, "APPROVED") \/ VoidUnposted(w, n) \/ VoidReversed(w, n)
  <2>1. PICK to \in {"APPROVED", "VOIDED"} : Commit(w, [rows EXCEPT !.notes[n].status = to])
    BY <1>4 DEF SetStatus, VoidUnposted, VoidReversed
  <2> QED BY <2>1, NoteStatusKeeps
<1>5. CASE ReverseNote(w, n)
  <2>1. At(w, "read") /\ <<"note", n>> \in Documents
          /\ Continue(w, [rows EXCEPT !.journals = Compensate(@, <<"note", n>>)], "voidNote", n)
    BY <1>5 DEF ReverseNote, Changes, Documents
  <2> QED BY <2>1, CompensateKeeps
<1> QED
  BY <1>1, <1>2, <1>3, <1>4, <1>5 DEF CreateCreditNote, UpdateCreditNote, ApproveCreditNote,
     PostCreditNote, ApplyCreditNote, VoidCreditNote, CreateDebitNote, UpdateDebitNote,
     ApproveDebitNote, PostDebitNote, ApplyDebitNote, VoidDebitNote, VoidNote

-----------------------------------------------------------------------------
(* Refunds *)

LEMMA CreateRefundKeeps ==
  ASSUME Inv, NEW w \in Workers, NEW f \in RefundIds, CreateRefund(w, f)
  PROVE  Inv'
<1>1. Good(Seen(w)) /\ Good(rows) /\ Grows(Seen(w), rows) /\ Amounts \subseteq Nat \ {0}
        /\ DOMAIN rows.notes = NoteIds
  BY SeenIsGood, AmountsType DEF CreateRefund, Creates, Good, Database
<1>2. PICK n \in NoteIds, a \in Amounts :
        /\ Seen(w).notes[n].status \in Applicable
        /\ Commit(w, [rows EXCEPT !.refunds[f] = [status |-> "DRAFT", amount |-> a, note |-> n]])
  BY <1>1 DEF CreateRefund
<1>3. WasPosted(Seen(w), <<"note", n>>) /\ <<"note", n>> \in Documents
  BY <1>1, <1>2 DEF Applicable, Good, StatusTells, Documents
<1>4. WasPosted(rows, <<"note", n>>)
  BY <1>1, <1>3 DEF Grows
<1> DEFINE row == [status |-> "DRAFT", amount |-> a, note |-> n]
<1>5. row \in RefundRow /\ row.status = "DRAFT" /\ row.note = n
  BY <1>1 DEF RefundRow
<1>6. Commit(w, [rows EXCEPT !.refunds[f] = row])
  BY <1>2
<1> HIDE DEF row
<1> QED BY <1>1, <1>4, <1>5, <1>6, RefundStep, CommitKeeps

\* A refund that a request has seen names a note that was posted by now, and
\* still does.
LEMMA SeenRefund ==
  ASSUME NEW seen, Good(seen), Good(rows), Grows(seen, rows), NEW f \in RefundIds,
         seen.refunds[f].status # "NONE"
  PROVE  /\ seen.refunds[f] \in RefundRow /\ rows.refunds[f] \in RefundRow
         /\ seen.refunds[f].note \in NoteIds /\ rows.refunds[f].note \in NoteIds
         /\ WasPosted(rows, <<"note", seen.refunds[f].note>>)
         /\ WasPosted(rows, <<"note", rows.refunds[f].note>>)
<1>1. seen.refunds[f] \in RefundRow /\ rows.refunds[f] \in RefundRow
  BY DEF Good, Database
<1>2. rows.refunds[f].status # "NONE"
  BY DEF Grows
<1>3. seen.refunds[f].note \in NoteIds /\ WasPosted(seen, <<"note", seen.refunds[f].note>>)
  BY DEF Good, StatusTells
<1>4. <<"note", seen.refunds[f].note>> \in Documents
  BY <1>3 DEF Documents
<1>5. WasPosted(rows, <<"note", seen.refunds[f].note>>)
  BY <1>3, <1>4 DEF Grows
<1>6. rows.refunds[f].note \in NoteIds /\ WasPosted(rows, <<"note", rows.refunds[f].note>>)
  BY <1>2 DEF Good, StatusTells
<1> QED BY <1>1, <1>3, <1>5, <1>6

\* A refund and a note change together.
LEMMA RefundAndNote ==
  ASSUME NEW db, Good(db), NEW f \in RefundIds, NEW n \in NoteIds,
         NEW refund \in RefundRow, refund.status # "NONE", refund.note \in NoteIds,
         WasPosted(db, <<"note", refund.note>>), WasPosted(db, <<"note", n>>), NEW note \in NoteRow
  PROVE  LET new == [db EXCEPT !.refunds[f] = refund, !.notes[n] = note]
         IN  Good(new) /\ Grows(db, new)
<1> DEFINE db1 == [db EXCEPT !.refunds[f] = refund]
<1>1. Good(db1) /\ Grows(db, db1)
  BY RefundStep
<1>2. db1.journals = db.journals
          /\ [db1 EXCEPT !.notes[n] = note] = [db EXCEPT !.refunds[f] = refund, !.notes[n] = note]
  BY DEF Good, Database
<1>3. WasPosted(db1, <<"note", n>>)
  BY <1>2 DEF WasPosted
<1> HIDE DEF db1
<1>4. Good([db1 EXCEPT !.notes[n] = note]) /\ Grows(db1, [db1 EXCEPT !.notes[n] = note])
  BY <1>1, <1>3, NoteStep
<1> QED BY <1>1, <1>2, <1>4, GrowsTransitive

LEMMA LegalUsed ==
  ASSUME NEW old \in NoteRow, NEW a \in Nat, LegalNote(Used(old, a))
  PROVE  Used(old, a) \in NoteRow
<1>1. Used(old, a).remaining = old.remaining - a
  BY DEF Used, NoteRow
<1>2. a <= old.remaining
  BY <1>1 DEF LegalNote, NoteRow
<1> QED BY <1>2, UsedType

LEMMA LegalReturned ==
  ASSUME NEW old \in NoteRow, NEW a \in Nat, LegalNote(Returned(old, a))
  PROVE  Returned(old, a) \in NoteRow
<1> DEFINE status == IF old.applied = a THEN "POSTED" ELSE "PARTIALLY_APPLIED"
<1>1. status \in {"POSTED", "PARTIALLY_APPLIED"}
  OBVIOUS
<1>2. Returned(old, a) = [old EXCEPT !.applied = old.applied - a, !.remaining = old.remaining + a,
                                     !.status = status]
  BY DEF Returned
<1>3. old.applied - a \in Nat /\ old.remaining + a \in Nat
  <2> HIDE DEF status
  <2>1. Returned(old, a).applied = old.applied - a
    BY <1>2 DEF NoteRow
  <2>2. old.applied - a >= 0
    BY <2>1 DEF LegalNote, NoteRow
  <2> QED BY <2>2 DEF NoteRow
<1> HIDE DEF status
<1> QED BY <1>1, <1>2, <1>3 DEF NoteRow

LEMMA PostRefundKeeps ==
  ASSUME Inv, NEW w \in Workers, NEW f \in RefundIds, PostRefund(w, f)
  PROVE  Inv'
<1> DEFINE refund == Seen(w).refunds[f]
           n == refund.note
           note == Used(Seen(w).notes[n], refund.amount)
           d == <<"refund", f>>
           row == [rows.refunds[f] EXCEPT !.status = "POSTED"]
           posted == [rows EXCEPT !.journals = Post(@, d)]
           new == [posted EXCEPT !.refunds[f] = row, !.notes[n] = note]
<1>0. At(w, "read") /\ refund.status = "DRAFT"
  BY DEF PostRefund, Changes
<1>1. Good(Seen(w)) /\ Good(rows) /\ Grows(Seen(w), rows) /\ d \in Documents
  BY <1>0, SeenIsGood DEF Documents
<1>2. refund \in RefundRow /\ rows.refunds[f] \in RefundRow /\ n \in NoteIds
        /\ rows.refunds[f].note \in NoteIds /\ WasPosted(rows, <<"note", n>>)
        /\ WasPosted(rows, <<"note", rows.refunds[f].note>>)
  BY <1>0, <1>1, SeenRefund
<1>3. CASE ~ LegalNote(note)
  BY <1>3, NothingKeeps DEF PostRefund, CommitIf
<1>4. CASE LegalNote(note)
  <2>1. Seen(w).notes[n] \in NoteRow /\ refund.amount \in Nat
    BY <1>1, <1>2 DEF Good, Database, RefundRow
  <2>2. note \in NoteRow
    BY <1>4, <2>1, LegalUsed
  <2>3. row \in RefundRow /\ row.status = "POSTED" /\ row.note = rows.refunds[f].note
    BY <1>2 DEF RefundRow
  <2>4. Commit(w, new)
    <3>1. CommitIf(w, LegalNote(note), [rows EXCEPT !.refunds[f].status = "POSTED",
                       !.notes[n] = note, !.journals = Post(@, d)])
      BY DEF PostRefund
    <3>2. new = [rows EXCEPT !.refunds[f].status = "POSTED", !.notes[n] = note, !.journals = Post(@, d)]
      <4> HIDE DEF note, n, d
      <4> QED BY <1>1, <1>2 DEF Good, Database
    <3> QED BY <1>4, <3>1, <3>2 DEF CommitIf
  <2>5. Good(posted) /\ Grows(rows, posted)
    BY <1>1, Posting
  <2> HIDE DEF posted
  <2>6. WasPosted(posted, <<"note", n>>) /\ WasPosted(posted, <<"note", rows.refunds[f].note>>)
    BY <1>2, <2>5 DEF Grows, Documents
  <2> HIDE DEF row, note, n, refund
  <2>7. Good(new) /\ Grows(posted, new)
    BY <1>2, <2>2, <2>3, <2>5, <2>6, RefundAndNote
  <2> QED BY <2>4, <2>5, <2>7, GrowsTransitive, CommitKeeps
<1> QED BY <1>3, <1>4

LEMMA VoidPostedRefundKeeps ==
  ASSUME Inv, NEW w \in Workers, NEW f \in RefundIds, VoidPostedRefund(w, f),
         Seen(w).refunds[f].status # "NONE"
  PROVE  Inv'
<1> DEFINE refund == Seen(w).refunds[f]
           n == refund.note
           note == Returned(Seen(w).notes[n], refund.amount)
           row == [rows.refunds[f] EXCEPT !.status = "VOIDED"]
           new == [rows EXCEPT !.refunds[f] = row, !.notes[n] = note]
<1>0. At(w, "voidRefund")
  BY DEF VoidPostedRefund, Resumes
<1>1. Good(Seen(w)) /\ Good(rows) /\ Grows(Seen(w), rows)
  BY <1>0, SeenIsGood
<1>2. refund \in RefundRow /\ rows.refunds[f] \in RefundRow /\ n \in NoteIds
        /\ rows.refunds[f].note \in NoteIds /\ WasPosted(rows, <<"note", n>>)
        /\ WasPosted(rows, <<"note", rows.refunds[f].note>>)
  BY <1>1, SeenRefund
<1>3. CASE ~ LegalNote(note)
  BY <1>3, NothingKeeps DEF VoidPostedRefund, CommitIf
<1>4. CASE LegalNote(note)
  <2>1. Seen(w).notes[n] \in NoteRow /\ refund.amount \in Nat
    BY <1>1, <1>2 DEF Good, Database, RefundRow
  <2>2. note \in NoteRow
    BY <1>4, <2>1, LegalReturned
  <2>3. row \in RefundRow /\ row.status = "VOIDED" /\ row.note = rows.refunds[f].note
    BY <1>2 DEF RefundRow
  <2>4. Commit(w, new)
    <3>1. CommitIf(w, LegalNote(note), [rows EXCEPT !.refunds[f].status = "VOIDED", !.notes[n] = note])
      BY DEF VoidPostedRefund
    <3>2. new = [rows EXCEPT !.refunds[f].status = "VOIDED", !.notes[n] = note]
      <4> HIDE DEF note, n
      <4> QED BY <1>1, <1>2 DEF Good, Database
    <3> QED BY <1>4, <3>1, <3>2 DEF CommitIf
  <2> HIDE DEF row, note, n, refund
  <2>5. Good(new) /\ Grows(rows, new)
    BY <1>1, <1>2, <2>2, <2>3, RefundAndNote
  <2> QED BY <2>4, <2>5, CommitKeeps
<1> QED BY <1>3, <1>4

LEMMA VoidDraftRefundKeeps ==
  ASSUME Inv, NEW w \in Workers, NEW f \in RefundIds, VoidDraftRefund(w, f)
  PROVE  Inv'
<1> DEFINE row == [rows.refunds[f] EXCEPT !.status = "VOIDED"]
<1>0. At(w, "read") /\ Seen(w).refunds[f].status # "NONE"
        /\ Commit(w, [rows EXCEPT !.refunds[f].status = "VOIDED"])
  BY DEF VoidDraftRefund, SetStatus, Changes
<1>1. Good(Seen(w)) /\ Good(rows) /\ Grows(Seen(w), rows)
  BY <1>0, SeenIsGood
<1>2. rows.refunds[f] \in RefundRow /\ rows.refunds[f].note \in NoteIds
        /\ WasPosted(rows, <<"note", rows.refunds[f].note>>)
  BY <1>0, <1>1, SeenRefund
<1>3. row \in RefundRow /\ row.status = "VOIDED" /\ row.note = rows.refunds[f].note
  BY <1>2 DEF RefundRow
<1>4. Commit(w, [rows EXCEPT !.refunds[f] = row])
  BY <1>0, <1>1 DEF Good, Database
<1> HIDE DEF row
<1> QED BY <1>1, <1>2, <1>3, <1>4, RefundStep, CommitKeeps

LEMMA RefundsKeep ==
  ASSUME Inv, NEW w \in Workers, NEW f \in RefundIds,
         \/ CreateRefund(w, f) \/ PostRefund(w, f)
         \/ ReverseRefund(w, f) \/ VoidPostedRefund(w, f) \/ VoidDraftRefund(w, f)
  PROVE  Inv'
<1>1. CASE ReverseRefund(w, f)
  <2>1. At(w, "read") /\ <<"refund", f>> \in Documents /\ Seen(w).refunds[f].status # "NONE"
          /\ Continue(w, [rows EXCEPT !.journals = Compensate(@, <<"refund", f>>)], "voidRefund", f)
    BY <1>1 DEF ReverseRefund, Changes, Documents
  <2> QED BY <2>1, CompensateKeeps
<1>2. CASE VoidPostedRefund(w, f)
  <2>1. Seen(w).refunds[f].status # "NONE"
    BY <1>2 DEF VoidPostedRefund, Resumes, At, Inv, RequestOK, Idle
  <2> QED BY <1>2, <2>1, VoidPostedRefundKeeps
<1> QED BY <1>1, <1>2, CreateRefundKeeps, PostRefundKeeps, VoidDraftRefundKeeps

-----------------------------------------------------------------------------
(* The specification *)

LEMMA ReadKeeps ==
  ASSUME Inv, NEW w \in Workers, Read(w)
  PROVE  Inv'
<1>1. rows' = rows /\ DOMAIN requests' = Workers /\ requests'[w] = [pc |-> "read", seen |-> rows]
        /\ \A v \in Workers \ {w} : requests'[v] = requests[v]
  BY DEF Read, Inv
<1>2. Good(rows) /\ Grows(rows, rows)
  BY DEF Inv, Grows
<1>3. ASSUME NEW v \in Workers PROVE RequestOK(v)'
  <2>1. CASE v = w
    BY <1>1, <1>2, <2>1 DEF RequestOK, Seen
  <2>2. CASE v # w
    BY <1>1, <2>2 DEF Inv, RequestOK, Seen
  <2> QED BY <2>1, <2>2
<1> QED BY <1>1, <1>2, <1>3 DEF Inv

LEMMA AbortKeeps ==
  ASSUME Inv, NEW w \in Workers, Abort(w)
  PROVE  Inv'
<1>1. Commit(w, rows)
  BY DEF Abort, Commit
<1> QED BY <1>1, NothingKeeps

LEMMA InitGood ==
  ASSUME Init
  PROVE  Inv
<1>1. PICK side \in {"AR", "AP"} : rows = NoRows(side)
  BY SidesAssumption DEF Init
<1>2. rows \in Database
  <2>1. NoInvoice \in InvoiceRow /\ NoPayment \in PaymentRow /\ NoNote \in NoteRow
          /\ NoRefund \in RefundRow /\ NoJournals \in JournalCounts /\ "OPEN" \in PeriodStatus
    BY DEF NoInvoice, NoPayment, NoNote, NoRefund, NoJournals, InvoiceRow, PaymentRow, NoteRow,
       RefundRow, JournalCounts, PeriodStatus
  <2> QED BY <1>1, <2>1 DEF NoRows, Database
<1>3. Checked(rows)
  BY <1>1 DEF NoRows, Checked, NoInvoice, NoPayment
<1>4. StatusTells(rows)
  BY <1>1 DEF NoRows, StatusTells, NoInvoice, NoPayment, NoNote, NoRefund
<1>5. Settled(rows)
  <2>1. \A p \in PaymentIds, i \in InvoiceIds : rows.allocations[p, i] = 0
    BY <1>1 DEF NoRows
  <2>2. \A n \in NoteIds, i \in InvoiceIds : rows.applications[n, i] = 0
    BY <1>1 DEF NoRows
  <2>3. ~ 0 > 0
    OBVIOUS
  <2> QED BY <2>1, <2>2, <2>3, Zenon DEF Settled
<1>6. DOMAIN requests = Workers /\ \A w \in Workers : RequestOK(w)
  BY DEF Init, RequestOK
<1> QED BY <1>2, <1>3, <1>4, <1>5, <1>6 DEF Inv, Good

LEMMA NextKeeps ==
  ASSUME Inv, [Next]_vars
  PROVE  Inv'
<1>1. CASE UNCHANGED vars
  BY <1>1 DEF vars, Inv, RequestOK, Seen
<1>2. CASE Next
  <2>1. PICK w \in Workers :
          Read(w) \/ Abort(w) \/ PeriodNext(w) \/ InvoicesNext(w) \/ PaymentsNext(w) \/ NotesNext(w)
    BY <1>2 DEF Next
  <2>2. CASE NotesNext(w)
    <3>1. DOMAIN rows.notes = NoteIds /\ DOMAIN rows.refunds = RefundIds
      BY DEF Inv, Good, Database
    <3> QED BY <2>2, <3>1, NotesKeep, RefundsKeep DEF NotesNext
  <2> QED BY <2>1, <2>2, ReadKeeps, AbortKeeps, PeriodKeeps, InvoicesKeep, PaymentsKeep
<1> QED BY <1>1, <1>2

LEMMA InvType ==
  ASSUME Inv
  PROVE  TypeOK
<1>1. rows \in Database /\ \A w \in Workers :
        \/ requests[w] = Idle
        \/ requests[w].pc \in {"read", "voidNote", "voidRefund"} /\ Seen(w) \in Database
  BY DEF Inv, Good, RequestOK
<1>2. \A i \in InvoiceIds : Due(rows.invoices[i]) >= 0
  BY DEF Inv, Good, Checked, Database, InvoiceRow, Due
<1>3. \A p \in PaymentIds : rows.payments[p].allocated <= rows.payments[p].amount
  BY DEF Inv, Good, Checked
<1> QED BY <1>1, <1>2, <1>3 DEF TypeOK

LEMMA InvSettled ==
  ASSUME Inv
  PROVE  SettledWasPosted
  BY DEF Inv, Good, Settled, SettledWasPosted, WasPosted

LEMMA Invariance == Spec => []Inv
<1> QED BY InitGood, NextKeeps, PTL DEF Spec

\* The rows of receivables and payables have their types and satisfy the
\* CHECKs, and so has every snapshot a request holds, however many requests
\* overlap and whichever of them stop.
THEOREM TypeCorrect == Spec => []TypeOK
<1> QED BY Invariance, InvType, PTL

\* Nothing is ever allocated or applied from a payment or note, or to an
\* invoice, that was not posted to the ledger, though allocate() and apply()
\* lock none of them and a period may close meanwhile.
THEOREM SettledPosted == Spec => []SettledWasPosted
<1> QED BY Invariance, InvSettled, PTL

-----------------------------------------------------------------------------
(***************************************************************************)
(* Settlement one request at a time: the amounts of invoices, payments and *)
(* notes are the sums of what was allocated, applied and refunded, each    *)
(* document has the journals its status says, and every step is one that   *)
(* IdealSettlement allows.  Requests may still end half-way: what the      *)
(* second part of a void finds is what its first part read, but for the    *)
(* journal it has posted itself.                                           *)
(***************************************************************************)

\* One request at a time.
Alone == \A v, w \in Workers : v = w

\* Money brought in on an invoice.
Brought(als, aps, i) ==
  SumFunctionOnSet([p \in PaymentIds |-> als[<<p, i>>]], PaymentIds)
    + SumFunctionOnSet([n \in NoteIds |-> aps[<<n, i>>]], NoteIds)

\* What row x of a table of allocations or applications adds up to.
RowTotal(table, x) ==
  SumFunctionOnSet([i \in InvoiceIds |-> table[<<x, i>>]], InvoiceIds)

Counted(refund, n) ==
  IF refund.note = n /\ refund.status = "POSTED" THEN refund.amount ELSE 0

RefundedOf(refunds, n) ==
  SumFunctionOnSet([f \in RefundIds |-> Counted(refunds[f], n)], RefundIds)

InForceStatus ==
  {"ISSUED", "POSTED", "PARTIALLY_PAID", "PAID", "PARTIALLY_ALLOCATED", "ALLOCATED"}

\* The journals of a document are those its status asks for, and each that was
\* voided has its reversal.
JournalFits(journal, status) ==
  /\ journal.voided = journal.reversals
  /\ journal.posted = journal.reversals + (IF status \in InForceStatus THEN 1 ELSE 0)

InvoiceAgrees(db, i) ==
  /\ db.invoices[i].paid = Brought(db.allocations, db.applications, i)
  /\ Books(db.invoices[i].status) = "before" => db.invoices[i].paid = 0
  /\ JournalFits(db.journals[<<"invoice", i>>], db.invoices[i].status)

PaymentAgrees(db, p) ==
  /\ db.payments[p].allocated = RowTotal(db.allocations, p)
  /\ db.payments[p].status = "NONE" => db.payments[p].allocated = 0
  /\ JournalFits(db.journals[<<"payment", p>>], db.payments[p].status)

NoteAgrees(db, n) ==
  /\ db.notes[n].applied + db.notes[n].remaining = db.notes[n].total
  /\ db.notes[n].applied = RowTotal(db.applications, n) + RefundedOf(db.refunds, n)
  /\ db.notes[n].status = "NONE" => db.notes[n].applied = 0

Balanced(db) ==
  /\ \A i \in InvoiceIds : InvoiceAgrees(db, i)
  /\ \A p \in PaymentIds : PaymentAgrees(db, p)
  /\ \A n \in NoteIds : NoteAgrees(db, n)

\* What a request holds is what is there, but for the journals of notes and
\* refunds in the second part of a void.
OnlyReversed(seen, db, pc, d) ==
  /\ db.invoices = seen.invoices /\ db.payments = seen.payments
  /\ db.notes = seen.notes /\ db.refunds = seen.refunds
  /\ db.allocations = seen.allocations /\ db.applications = seen.applications
  /\ pc = "voidRefund" => seen.refunds[d].status = "POSTED"

StillSo(w) ==
  \/ requests[w] = Idle
  \/ At(w, "read") /\ Seen(w) = rows
  \/ /\ At(w, "voidNote") \/ At(w, "voidRefund")
     /\ OnlyReversed(Seen(w), rows, requests[w].pc, requests[w].doc)

SequentialInv == Inv /\ Balanced(rows) /\ \A w \in Workers : StillSo(w)

-----------------------------------------------------------------------------
(* What a step may do to the database *)

Where(db, i) == Books(db.invoices[i].status)

SameInvoice(old, new, i) ==
  Where(new, i) = Where(old, i) /\ new.invoices[i].paid = old.invoices[i].paid

\* Step of IdealSettlement, said of the rows of invoices.
Turns(old, new, i) ==
  /\ new.invoices[i].paid = old.invoices[i].paid
  /\ \/ Where(old, i) = "before" /\ Where(new, i) = "in"
     \/ /\ Where(old, i) \in {"before", "in"} /\ Where(new, i) = "out"
        /\ old.invoices[i].paid = 0

PaidMore(old, new, i) ==
  Where(old, i) = "in" /\ Where(new, i) = "in"
    /\ new.invoices[i].paid > old.invoices[i].paid

Promised(old, new) ==
  \/ \A i \in InvoiceIds : SameInvoice(old, new, i) \/ PaidMore(old, new, i)
  \/ \E i \in InvoiceIds :
       Turns(old, new, i) /\ \A j \in InvoiceIds \ {i} : SameInvoice(old, new, j)

KeepsAllocated(old, new) ==
  \A p \in PaymentIds : new.payments[p].allocated >= old.payments[p].allocated

Moves(old, new) == Balanced(new) /\ Promised(old, new) /\ KeepsAllocated(old, new)

LEMMA SameKeepsAllocated ==
  ASSUME NEW old, NEW new, Good(old),
         \A p \in PaymentIds : new.payments[p].allocated = old.payments[p].allocated
  PROVE  KeepsAllocated(old, new)
<1>1. \A p \in PaymentIds : old.payments[p].allocated \in Nat
  BY DEF Good, Database, PaymentRow
<1> QED BY <1>1 DEF KeepsAllocated

LEMMA SamePromised ==
  ASSUME NEW old, NEW new, new.invoices = old.invoices
  PROVE  Promised(old, new)
BY DEF Promised, SameInvoice, Where

\* The period, and the journals of notes and refunds.
ElsewhereOnly(old, new) ==
  /\ new.invoices = old.invoices /\ new.payments = old.payments
  /\ new.notes = old.notes /\ new.refunds = old.refunds
  /\ new.allocations = old.allocations /\ new.applications = old.applications
  /\ \A d \in Documents : d[1] \in {"invoice", "payment"} => new.journals[d] = old.journals[d]

LEMMA InvoiceDocument ==
  ASSUME NEW i \in InvoiceIds
  PROVE  <<"invoice", i>> \in Documents /\ <<"invoice", i>>[1] = "invoice"
BY DEF Documents

LEMMA PaymentDocument ==
  ASSUME NEW p \in PaymentIds
  PROVE  <<"payment", p>> \in Documents /\ <<"payment", p>>[1] = "payment"
BY DEF Documents

LEMMA ElsewhereMoves ==
  ASSUME NEW old, NEW new, Good(old), Balanced(old), ElsewhereOnly(old, new)
  PROVE  Moves(old, new)
<1>1. \A i \in InvoiceIds : InvoiceAgrees(new, i)
  BY InvoiceDocument DEF ElsewhereOnly, Balanced, InvoiceAgrees
<1>2. \A p \in PaymentIds : PaymentAgrees(new, p)
  BY PaymentDocument DEF ElsewhereOnly, Balanced, PaymentAgrees
<1>3. \A n \in NoteIds : NoteAgrees(new, n)
  BY DEF ElsewhereOnly, Balanced, NoteAgrees
<1>4. Promised(old, new) /\ KeepsAllocated(old, new)
  BY SamePromised, SameKeepsAllocated DEF ElsewhereOnly
<1> QED BY <1>1, <1>2, <1>3, <1>4 DEF Moves, Balanced

\* One invoice changes its status, or its total, but not what is paid.
InvoiceChange(old, new, i) ==
  /\ new.payments = old.payments /\ new.notes = old.notes /\ new.refunds = old.refunds
  /\ new.allocations = old.allocations /\ new.applications = old.applications
  /\ \A j \in InvoiceIds \ {i} : new.invoices[j] = old.invoices[j]
  /\ \A d \in Documents \ {<<"invoice", i>>} : new.journals[d] = old.journals[d]
  /\ new.invoices[i].paid = old.invoices[i].paid
  /\ Where(new, i) = "before" => new.invoices[i].paid = 0
  /\ JournalFits(new.journals[<<"invoice", i>>], new.invoices[i].status)
  /\ SameInvoice(old, new, i) \/ Turns(old, new, i)

LEMMA InvoiceMoves ==
  ASSUME NEW old, NEW new, Good(old), Balanced(old), NEW i \in InvoiceIds,
         InvoiceChange(old, new, i)
  PROVE  Moves(old, new)
<1>1. ASSUME NEW j \in InvoiceIds PROVE InvoiceAgrees(new, j)
  <2>1. CASE j = i
    BY <2>1 DEF InvoiceChange, Balanced, InvoiceAgrees, Where
  <2>2. CASE j # i
    <3>1. <<"invoice", j>> \in Documents \ {<<"invoice", i>>}
      BY <2>2 DEF Documents
    <3> QED BY <2>2, <3>1 DEF InvoiceChange, Balanced, InvoiceAgrees
  <2> QED BY <2>1, <2>2
<1>2. ASSUME NEW p \in PaymentIds PROVE PaymentAgrees(new, p)
  <2>1. <<"payment", p>> \in Documents \ {<<"invoice", i>>}
    BY DEF Documents
  <2> QED BY <2>1 DEF InvoiceChange, Balanced, PaymentAgrees
<1>3. \A n \in NoteIds : NoteAgrees(new, n)
  BY DEF InvoiceChange, Balanced, NoteAgrees
<1>4. KeepsAllocated(old, new)
  BY SameKeepsAllocated DEF InvoiceChange
<1>5. \A j \in InvoiceIds \ {i} : SameInvoice(old, new, j)
  BY DEF InvoiceChange, SameInvoice, Where
<1>6. Promised(old, new)
  BY <1>5 DEF InvoiceChange, Promised
<1> QED BY <1>1, <1>2, <1>3, <1>4, <1>6 DEF Moves, Balanced

\* One payment changes its status, or its amount, but not what is allocated.
PaymentChange(old, new, p) ==
  /\ new.invoices = old.invoices /\ new.notes = old.notes /\ new.refunds = old.refunds
  /\ new.allocations = old.allocations /\ new.applications = old.applications
  /\ \A q \in PaymentIds \ {p} : new.payments[q] = old.payments[q]
  /\ \A d \in Documents \ {<<"payment", p>>} : new.journals[d] = old.journals[d]
  /\ new.payments[p].allocated = old.payments[p].allocated
  /\ new.payments[p].status # "NONE"
  /\ JournalFits(new.journals[<<"payment", p>>], new.payments[p].status)

LEMMA PaymentMoves ==
  ASSUME NEW old, NEW new, Good(old), Balanced(old), NEW p \in PaymentIds,
         PaymentChange(old, new, p)
  PROVE  Moves(old, new)
<1>1. ASSUME NEW q \in PaymentIds PROVE PaymentAgrees(new, q)
  <2>1. CASE q = p
    BY <2>1 DEF PaymentChange, Balanced, PaymentAgrees
  <2>2. CASE q # p
    <3>1. <<"payment", q>> \in Documents \ {<<"payment", p>>}
      BY <2>2 DEF Documents
    <3> QED BY <2>2, <3>1 DEF PaymentChange, Balanced, PaymentAgrees
  <2> QED BY <2>1, <2>2
<1>2. ASSUME NEW i \in InvoiceIds PROVE InvoiceAgrees(new, i)
  <2>1. <<"invoice", i>> \in Documents \ {<<"payment", p>>}
    BY DEF Documents
  <2> QED BY <2>1 DEF PaymentChange, Balanced, InvoiceAgrees
<1>3. \A n \in NoteIds : NoteAgrees(new, n)
  BY DEF PaymentChange, Balanced, NoteAgrees
<1>4. \A q \in PaymentIds : new.payments[q].allocated = old.payments[q].allocated
  BY DEF PaymentChange
<1>5. Promised(old, new) /\ KeepsAllocated(old, new)
  BY <1>4, SamePromised, SameKeepsAllocated DEF PaymentChange
<1> QED BY <1>1, <1>2, <1>3, <1>5 DEF Moves, Balanced

\* One note changes, but not what of it is consumed; journals of notes may.
NoteChange(old, new, n) ==
  /\ new.invoices = old.invoices /\ new.payments = old.payments /\ new.refunds = old.refunds
  /\ new.allocations = old.allocations /\ new.applications = old.applications
  /\ \A m \in NoteIds \ {n} : new.notes[m] = old.notes[m]
  /\ \A d \in Documents : d[1] \in {"invoice", "payment"} => new.journals[d] = old.journals[d]
  /\ new.notes[n].applied = old.notes[n].applied
  /\ new.notes[n].applied + new.notes[n].remaining = new.notes[n].total
  /\ new.notes[n].status # "NONE"

LEMMA NoteMoves ==
  ASSUME NEW old, NEW new, Good(old), Balanced(old), NEW n \in NoteIds,
         NoteChange(old, new, n)
  PROVE  Moves(old, new)
<1>1. \A i \in InvoiceIds : InvoiceAgrees(new, i)
  BY InvoiceDocument DEF NoteChange, Balanced, InvoiceAgrees
<1>2. \A p \in PaymentIds : PaymentAgrees(new, p)
  BY PaymentDocument DEF NoteChange, Balanced, PaymentAgrees
<1>3. \A m \in NoteIds : NoteAgrees(new, m)
  BY DEF NoteChange, Balanced, NoteAgrees
<1>4. Promised(old, new) /\ KeepsAllocated(old, new)
  BY SamePromised, SameKeepsAllocated DEF NoteChange
<1> QED BY <1>1, <1>2, <1>3, <1>4 DEF Moves, Balanced

\* One refund changes, and with it the note it is of.
RefundChange(old, new, f, n) ==
  /\ new.invoices = old.invoices /\ new.payments = old.payments
  /\ new.allocations = old.allocations /\ new.applications = old.applications
  /\ \A m \in NoteIds \ {n} : new.notes[m] = old.notes[m]
  /\ \A g \in RefundIds \ {f} : new.refunds[g] = old.refunds[g]
  /\ \A d \in Documents : d[1] \in {"invoice", "payment"} => new.journals[d] = old.journals[d]
  /\ \A m \in NoteIds \ {n} : Counted(new.refunds[f], m) = Counted(old.refunds[f], m)
  /\ new.notes[n].applied =
       old.notes[n].applied - Counted(old.refunds[f], n) + Counted(new.refunds[f], n)
  /\ new.notes[n].applied + new.notes[n].remaining = new.notes[n].total
  /\ new.notes[n].status = "NONE" => new.notes[n].applied = 0

LEMMA CountedType ==
  ASSUME NEW db, Good(db), NEW f \in RefundIds, NEW n
  PROVE  Counted(db.refunds[f], n) \in Nat
BY DEF Good, Database, RefundRow, Counted

LEMMA AppliedType ==
  ASSUME NEW db, Good(db), NEW n \in NoteIds
  PROVE  RowTotal(db.applications, n) \in Nat
<1>1. \A i \in InvoiceIds : [i0 \in InvoiceIds |-> db.applications[<<n, i0>>]][i] \in Nat
  BY DEF Good, Database
<1> QED BY <1>1, SumNat, FiniteTables DEF RowTotal

LEMMA RefundedType ==
  ASSUME NEW db, Good(db), NEW n
  PROVE  RefundedOf(db.refunds, n) \in Nat
<1>1. \A f \in RefundIds : [f0 \in RefundIds |-> Counted(db.refunds[f0], n)][f] \in Nat
  BY CountedType
<1> QED BY <1>1, SumNat, FiniteTables DEF RefundedOf

\* Only what is counted of f makes a difference.
LEMMA RefundedChanges ==
  ASSUME NEW old, NEW new, Good(old), Good(new), NEW f \in RefundIds, NEW n,
         \A g \in RefundIds \ {f} : new.refunds[g] = old.refunds[g]
  PROVE  RefundedOf(new.refunds, n) =
           RefundedOf(old.refunds, n) - Counted(old.refunds[f], n) + Counted(new.refunds[f], n)
<1> DEFINE a == [g \in RefundIds |-> Counted(old.refunds[g], n)]
           b == [g \in RefundIds |-> Counted(new.refunds[g], n)]
<1>1. \A g \in RefundIds : a[g] \in Int /\ b[g] \in Int
  BY CountedType
<1>2. \A g \in RefundIds \ {f} : a[g] = b[g]
  OBVIOUS
<1>3. a[f] = Counted(old.refunds[f], n) /\ b[f] = Counted(new.refunds[f], n)
  OBVIOUS
<1>4. IsFiniteSet(RefundIds)
  BY FiniteTables
<1>5. RefundedOf(old.refunds, n) = SumFunctionOnSet(a, RefundIds)
        /\ RefundedOf(new.refunds, n) = SumFunctionOnSet(b, RefundIds)
  BY DEF RefundedOf
<1> HIDE DEF a, b
<1>6. SumFunctionOnSet(b, RefundIds) = SumFunctionOnSet(a, RefundIds) - a[f] + b[f]
  BY <1>1, <1>2, <1>4, SumChange
<1> QED BY <1>3, <1>5, <1>6

LEMMA RefundMoves ==
  ASSUME NEW old, NEW new, Good(old), Good(new), Balanced(old),
         NEW f \in RefundIds, NEW n \in NoteIds, RefundChange(old, new, f, n)
  PROVE  Moves(old, new)
<1>1. \A i \in InvoiceIds : InvoiceAgrees(new, i)
  BY InvoiceDocument DEF RefundChange, Balanced, InvoiceAgrees
<1>2. \A p \in PaymentIds : PaymentAgrees(new, p)
  BY PaymentDocument DEF RefundChange, Balanced, PaymentAgrees
<1>3. ASSUME NEW m \in NoteIds PROVE NoteAgrees(new, m)
  <2> DEFINE o == Counted(old.refunds[f], m)
             c == Counted(new.refunds[f], m)
             a == RowTotal(old.applications, m)
             r == RefundedOf(old.refunds, m)
  <2>1. RefundedOf(new.refunds, m) = r - o + c
    <3>1. \A g \in RefundIds \ {f} : new.refunds[g] = old.refunds[g]
      BY DEF RefundChange
    <3> QED BY <3>1, RefundedChanges
  <2>2. o \in Nat /\ c \in Nat /\ a \in Nat /\ r \in Nat
    BY CountedType, AppliedType, RefundedType
  <2>3. old.notes[m].applied = a + r /\ RowTotal(new.applications, m) = a
    BY DEF Balanced, NoteAgrees, RefundChange
  <2>4. CASE m = n
    <3>1. new.notes[m].applied = old.notes[m].applied - o + c
      BY <2>4 DEF RefundChange
    <3> HIDE DEF o, c, a, r
    <3>2. new.notes[m].applied = RowTotal(new.applications, m) + RefundedOf(new.refunds, m)
      BY <2>1, <2>2, <2>3, <3>1
    <3> QED BY <2>4, <3>2 DEF NoteAgrees, RefundChange
  <2>5. CASE m # n
    <3>1. o = c /\ new.notes[m] = old.notes[m]
      BY <2>5 DEF RefundChange
    <3> HIDE DEF o, c, a, r
    <3>2. new.notes[m].applied = RowTotal(new.applications, m) + RefundedOf(new.refunds, m)
      BY <2>1, <2>2, <2>3, <3>1
    <3> QED BY <3>1, <3>2 DEF NoteAgrees, Balanced
  <2> QED BY <2>4, <2>5
<1>4. Promised(old, new) /\ KeepsAllocated(old, new)
  BY SamePromised, SameKeepsAllocated DEF RefundChange
<1> QED BY <1>1, <1>2, <1>3, <1>4 DEF Moves, Balanced

-----------------------------------------------------------------------------
(* Shares of money *)

Share == [InvoiceIds -> 0..MaxAmount]
Total(share) == SumFunctionOnSet(share, InvoiceIds)

\* The invoices after each got its share.
InvoicesPaid(old, new, share) ==
  \A i \in InvoiceIds :
    \/ share[i] = 0 /\ new.invoices[i] = old.invoices[i]
    \/ /\ share[i] > 0
       /\ old.invoices[i].status \in {"ISSUED", "POSTED", "PARTIALLY_PAID"}
       /\ new.invoices[i].status \in {"PARTIALLY_PAID", "PAID"}
       /\ new.invoices[i].paid = old.invoices[i].paid + share[i]

AllocationChange(old, new, p, share) ==
  /\ new.notes = old.notes /\ new.refunds = old.refunds
  /\ new.applications = old.applications /\ new.journals = old.journals
  /\ \A q \in PaymentIds \ {p} : new.payments[q] = old.payments[q]
  /\ old.payments[p].status \in {"POSTED", "PARTIALLY_ALLOCATED"}
  /\ new.payments[p].status \in {"PARTIALLY_ALLOCATED", "ALLOCATED"}
  /\ new.payments[p].allocated = old.payments[p].allocated + Total(share)
  /\ \A q \in PaymentIds, i \in InvoiceIds :
       new.allocations[<<q, i>>] = old.allocations[<<q, i>>] + (IF q = p THEN share[i] ELSE 0)
  /\ InvoicesPaid(old, new, share)

ApplicationChange(old, new, n, share) ==
  /\ new.payments = old.payments /\ new.refunds = old.refunds
  /\ new.allocations = old.allocations /\ new.journals = old.journals
  /\ \A m \in NoteIds \ {n} : new.notes[m] = old.notes[m]
  /\ new.notes[n].status # "NONE"
  /\ new.notes[n].applied = old.notes[n].applied + Total(share)
  /\ new.notes[n].applied + new.notes[n].remaining = new.notes[n].total
  /\ \A m \in NoteIds, i \in InvoiceIds :
       new.applications[<<m, i>>] = old.applications[<<m, i>>] + (IF m = n THEN share[i] ELSE 0)
  /\ InvoicesPaid(old, new, share)

\* Row x of a table of shares gets more: so does each column, by one share,
\* and the row, by all of them.
LEMMA ColumnGrows ==
  ASSUME NEW S, IsFiniteSet(S), NEW x \in S, NEW a, NEW b, NEW share \in Share,
         NEW i \in InvoiceIds,
         \A y \in S : a[<<y, i>>] \in Nat /\ b[<<y, i>>] = a[<<y, i>>] + (IF y = x THEN share[i] ELSE 0)
  PROVE  SumFunctionOnSet([y \in S |-> b[<<y, i>>]], S) =
           SumFunctionOnSet([y \in S |-> a[<<y, i>>]], S) + share[i]
<1> DEFINE f == [y \in S |-> a[<<y, i>>]]
           g == [y \in S |-> b[<<y, i>>]]
<1>0. share[i] \in Nat
  BY MaxAmountAssumption DEF Share
<1>1. \A y \in S : f[y] \in Nat /\ g[y] = f[y] + (IF y = x THEN share[i] ELSE 0)
  OBVIOUS
<1> HIDE DEF f, g
<1>2. \A y \in S : f[y] \in Int /\ g[y] \in Int
  BY <1>0, <1>1
<1>3. \A y \in S \ {x} : f[y] = g[y]
  BY <1>1
<1>4. SumFunctionOnSet(g, S) = SumFunctionOnSet(f, S) - f[x] + g[x]
  BY <1>2, <1>3, SumChange
<1>5. SumFunctionOnSet(f, S) \in Int
  BY <1>2, SumInt
<1>6. SumFunctionOnSet(g, S) = SumFunctionOnSet(f, S) + share[i]
  BY <1>0, <1>1, <1>2, <1>4, <1>5
<1> QED BY <1>6 DEF f, g

LEMMA RowGrows ==
  ASSUME NEW a, NEW b, NEW share \in Share, NEW x,
         \A i \in InvoiceIds : a[<<x, i>>] \in Nat /\ b[<<x, i>>] = a[<<x, i>>] + share[i]
  PROVE  RowTotal(b, x) = RowTotal(a, x) + Total(share)
<1> DEFINE f == [i \in InvoiceIds |-> a[<<x, i>>]]
           g == [i \in InvoiceIds |-> b[<<x, i>>]]
<1>0. \A i \in InvoiceIds : share[i] \in Int
  BY MaxAmountAssumption DEF Share
<1>1. \A i \in InvoiceIds : f[i] \in Int /\ g[i] = f[i] + share[i]
  OBVIOUS
<1> HIDE DEF f, g
<1>2. SumFunctionOnSet(g, InvoiceIds) =
        SumFunctionOnSet(f, InvoiceIds) + SumFunctionOnSet(share, InvoiceIds)
  BY <1>0, <1>1, SumPlus, FiniteTables
<1> QED BY <1>2 DEF f, g, Total, RowTotal

\* What the shares do to invoices, whoever pays them.
LEMMA SharesPromised ==
  ASSUME NEW old, NEW new, Good(old), NEW share \in Share, InvoicesPaid(old, new, share)
  PROVE  /\ Promised(old, new)
         /\ \A i \in InvoiceIds :
              /\ Where(new, i) = Where(old, i)
              /\ Where(new, i) = "before" => share[i] = 0
              /\ new.invoices[i].paid = old.invoices[i].paid + share[i]
              /\ new.invoices[i].status \in InForceStatus <=>
                   old.invoices[i].status \in InForceStatus
<1>1. ASSUME NEW i \in InvoiceIds
      PROVE  /\ SameInvoice(old, new, i) \/ PaidMore(old, new, i)
             /\ Where(new, i) = Where(old, i)
             /\ Where(new, i) = "before" => share[i] = 0
             /\ new.invoices[i].paid = old.invoices[i].paid + share[i]
             /\ new.invoices[i].status \in InForceStatus <=>
                  old.invoices[i].status \in InForceStatus
  <2>1. share[i] \in Nat /\ old.invoices[i].paid \in Nat
    BY MaxAmountAssumption DEF Share, Good, Database, InvoiceRow
  <2>2. CASE share[i] = 0
    BY <2>1, <2>2 DEF InvoicesPaid, SameInvoice, Where
  <2>3. CASE share[i] # 0
    <3>1. /\ old.invoices[i].status \in {"ISSUED", "POSTED", "PARTIALLY_PAID"}
          /\ new.invoices[i].status \in {"PARTIALLY_PAID", "PAID"}
          /\ new.invoices[i].paid = old.invoices[i].paid + share[i]
      BY <2>3 DEF InvoicesPaid
    <3>2. Where(old, i) = "in" /\ Where(new, i) = "in"
      BY <3>1 DEF Where, Books
    <3> QED BY <2>1, <2>3, <3>1, <3>2 DEF PaidMore, InForceStatus
  <2> QED BY <2>2, <2>3
<1>2. Promised(old, new)
  BY <1>1 DEF Promised
<1> QED BY <1>1, <1>2

LEMMA AllocationMoves ==
  ASSUME NEW old, NEW new, Good(old), Good(new), Balanced(old),
         NEW p \in PaymentIds, NEW share \in Share, AllocationChange(old, new, p, share)
  PROVE  Moves(old, new)
<1>1. InvoicesPaid(old, new, share)
  BY DEF AllocationChange
<1>2. \A q \in PaymentIds, i \in InvoiceIds : old.allocations[<<q, i>>] \in Nat
  BY DEF Good, Database
<1>3. \A i \in InvoiceIds : share[i] \in Nat
  BY MaxAmountAssumption DEF Share
<1>4. ASSUME NEW i \in InvoiceIds PROVE InvoiceAgrees(new, i)
  <2> DEFINE f == SumFunctionOnSet([q \in PaymentIds |-> old.allocations[<<q, i>>]], PaymentIds)
             g == SumFunctionOnSet([q \in PaymentIds |-> new.allocations[<<q, i>>]], PaymentIds)
             h == SumFunctionOnSet([n \in NoteIds |-> old.applications[<<n, i>>]], NoteIds)
  <2>1. g = f + share[i]
    <3>1. \A q \in PaymentIds : old.allocations[<<q, i>>] \in Nat
            /\ new.allocations[<<q, i>>] = old.allocations[<<q, i>>] + (IF q = p THEN share[i] ELSE 0)
      BY <1>2 DEF AllocationChange
    <3>2. IsFiniteSet(PaymentIds)
      BY FiniteTables
    <3> QED BY <3>1, <3>2, ColumnGrows
  <2>2. f \in Int
    <3>1. \A q \in PaymentIds : [q0 \in PaymentIds |-> old.allocations[<<q0, i>>]][q] \in Int
      BY <1>2
    <3> QED BY <3>1, SumInt, FiniteTables
  <2>3. h \in Int
    <3>1. \A n \in NoteIds : [n0 \in NoteIds |-> old.applications[<<n0, i>>]][n] \in Int
      BY DEF Good, Database
    <3> QED BY <3>1, SumInt, FiniteTables
  <2>4. Brought(old.allocations, old.applications, i) = f + h
          /\ Brought(new.allocations, new.applications, i) = g + h
    BY DEF Brought, AllocationChange
  <2>5. InvoiceAgrees(old, i)
    BY DEF Balanced
  <2>6. /\ Where(new, i) = Where(old, i)
        /\ Where(new, i) = "before" => share[i] = 0
        /\ new.invoices[i].paid = old.invoices[i].paid + share[i]
        /\ new.invoices[i].status \in InForceStatus <=> old.invoices[i].status \in InForceStatus
    BY <1>1, SharesPromised
  <2> HIDE DEF f, g, h
  <2>7. new.invoices[i].paid = Brought(new.allocations, new.applications, i)
    BY <1>3, <2>1, <2>2, <2>3, <2>4, <2>5, <2>6 DEF InvoiceAgrees
  <2>8. Where(new, i) = "before" => new.invoices[i].paid = 0
    BY <2>5, <2>6 DEF InvoiceAgrees, Where
  <2>9. JournalFits(new.journals[<<"invoice", i>>], new.invoices[i].status)
    BY <2>5, <2>6 DEF InvoiceAgrees, JournalFits, AllocationChange
  <2> QED BY <2>7, <2>8, <2>9 DEF InvoiceAgrees, Where
<1>5. ASSUME NEW q \in PaymentIds PROVE PaymentAgrees(new, q)
  <2>1. PaymentAgrees(old, q)
    BY DEF Balanced
  <2>2. CASE q = p
    <3>1. \A i \in InvoiceIds : old.allocations[<<p, i>>] \in Nat
            /\ new.allocations[<<p, i>>] = old.allocations[<<p, i>>] + share[i]
      BY <1>2 DEF AllocationChange
    <3>2. RowTotal(new.allocations, p) = RowTotal(old.allocations, p) + Total(share)
      BY <3>1, RowGrows
    <3>3. new.payments[p].allocated = RowTotal(new.allocations, p)
      BY <2>1, <2>2, <3>2 DEF PaymentAgrees, AllocationChange
    <3>4. JournalFits(new.journals[<<"payment", p>>], new.payments[p].status)
      BY <2>1, <2>2 DEF PaymentAgrees, AllocationChange, JournalFits, InForceStatus
    <3>5. new.payments[p].status # "NONE"
      BY DEF AllocationChange
    <3> QED BY <2>2, <3>3, <3>4, <3>5 DEF PaymentAgrees
  <2>3. CASE q # p
    <3>1. \A i \in InvoiceIds : new.allocations[<<q, i>>] = old.allocations[<<q, i>>]
      BY <1>2, <2>3 DEF AllocationChange
    <3>2. RowTotal(new.allocations, q) = RowTotal(old.allocations, q)
      BY <3>1 DEF RowTotal
    <3> QED BY <2>1, <2>3, <3>2 DEF PaymentAgrees, AllocationChange
  <2> QED BY <2>2, <2>3
<1>6. \A n \in NoteIds : NoteAgrees(new, n)
  BY DEF AllocationChange, Balanced, NoteAgrees
<1>7. KeepsAllocated(old, new)
  <2>1. Total(share) \in Nat
    BY <1>3, SumNat, FiniteTables DEF Total
  <2>2. \A q \in PaymentIds : old.payments[q].allocated \in Nat
    BY DEF Good, Database, PaymentRow
  <2> QED BY <2>1, <2>2 DEF KeepsAllocated, AllocationChange
<1>8. Promised(old, new)
  BY <1>1, SharesPromised
<1> QED BY <1>4, <1>5, <1>6, <1>7, <1>8 DEF Moves, Balanced

LEMMA ApplicationMoves ==
  ASSUME NEW old, NEW new, Good(old), Good(new), Balanced(old),
         NEW n \in NoteIds, NEW share \in Share, ApplicationChange(old, new, n, share)
  PROVE  Moves(old, new)
<1>1. InvoicesPaid(old, new, share)
  BY DEF ApplicationChange
<1>2. \A m \in NoteIds, i \in InvoiceIds : old.applications[<<m, i>>] \in Nat
  BY DEF Good, Database
<1>3. \A i \in InvoiceIds : share[i] \in Nat
  BY MaxAmountAssumption DEF Share
<1>4. ASSUME NEW i \in InvoiceIds PROVE InvoiceAgrees(new, i)
  <2> DEFINE f == SumFunctionOnSet([m \in NoteIds |-> old.applications[<<m, i>>]], NoteIds)
             g == SumFunctionOnSet([m \in NoteIds |-> new.applications[<<m, i>>]], NoteIds)
             h == SumFunctionOnSet([p \in PaymentIds |-> old.allocations[<<p, i>>]], PaymentIds)
  <2>1. g = f + share[i]
    <3>1. \A m \in NoteIds : old.applications[<<m, i>>] \in Nat
            /\ new.applications[<<m, i>>] = old.applications[<<m, i>>] + (IF m = n THEN share[i] ELSE 0)
      BY <1>2 DEF ApplicationChange
    <3>2. IsFiniteSet(NoteIds)
      BY FiniteTables
    <3> QED BY <3>1, <3>2, ColumnGrows
  <2>2. f \in Int
    <3>1. \A m \in NoteIds : [m0 \in NoteIds |-> old.applications[<<m0, i>>]][m] \in Int
      BY <1>2
    <3> QED BY <3>1, SumInt, FiniteTables
  <2>3. h \in Int
    <3>1. \A p \in PaymentIds : [p0 \in PaymentIds |-> old.allocations[<<p0, i>>]][p] \in Int
      BY DEF Good, Database
    <3> QED BY <3>1, SumInt, FiniteTables
  <2>4. Brought(old.allocations, old.applications, i) = h + f
          /\ Brought(new.allocations, new.applications, i) = h + g
    BY DEF Brought, ApplicationChange
  <2>5. InvoiceAgrees(old, i)
    BY DEF Balanced
  <2>6. /\ Where(new, i) = Where(old, i)
        /\ Where(new, i) = "before" => share[i] = 0
        /\ new.invoices[i].paid = old.invoices[i].paid + share[i]
        /\ new.invoices[i].status \in InForceStatus <=> old.invoices[i].status \in InForceStatus
    BY <1>1, SharesPromised
  <2> HIDE DEF f, g, h
  <2>7. new.invoices[i].paid = Brought(new.allocations, new.applications, i)
    BY <1>3, <2>1, <2>2, <2>3, <2>4, <2>5, <2>6 DEF InvoiceAgrees
  <2>8. Where(new, i) = "before" => new.invoices[i].paid = 0
    BY <2>5, <2>6 DEF InvoiceAgrees, Where
  <2>9. JournalFits(new.journals[<<"invoice", i>>], new.invoices[i].status)
    BY <2>5, <2>6 DEF InvoiceAgrees, JournalFits, ApplicationChange
  <2> QED BY <2>7, <2>8, <2>9 DEF InvoiceAgrees, Where
<1>5. ASSUME NEW m \in NoteIds PROVE NoteAgrees(new, m)
  <2>1. NoteAgrees(old, m) /\ RefundedOf(new.refunds, m) = RefundedOf(old.refunds, m)
    BY DEF Balanced, ApplicationChange
  <2>2. CASE m = n
    <3>1. \A i \in InvoiceIds : old.applications[<<n, i>>] \in Nat
            /\ new.applications[<<n, i>>] = old.applications[<<n, i>>] + share[i]
      BY <1>2 DEF ApplicationChange
    <3>2. RowTotal(new.applications, n) = RowTotal(old.applications, n) + Total(share)
      BY <3>1, RowGrows
    <3>3. Total(share) \in Nat /\ RowTotal(old.applications, n) \in Nat
            /\ RefundedOf(old.refunds, n) \in Nat
      BY <1>3, SumNat, FiniteTables, AppliedType, RefundedType DEF Total
    <3>4. new.notes[n].applied = RowTotal(new.applications, n) + RefundedOf(new.refunds, n)
      BY <2>1, <2>2, <3>2, <3>3 DEF NoteAgrees, ApplicationChange
    <3> QED BY <2>2, <3>4 DEF NoteAgrees, ApplicationChange
  <2>3. CASE m # n
    <3>1. \A i \in InvoiceIds : new.applications[<<m, i>>] = old.applications[<<m, i>>]
      BY <1>2, <2>3 DEF ApplicationChange
    <3>2. RowTotal(new.applications, m) = RowTotal(old.applications, m)
      BY <3>1 DEF RowTotal
    <3> QED BY <2>1, <2>3, <3>2 DEF NoteAgrees, ApplicationChange
  <2> QED BY <2>2, <2>3
<1>6. \A p \in PaymentIds : PaymentAgrees(new, p)
  BY DEF ApplicationChange, Balanced, PaymentAgrees
<1>7. KeepsAllocated(old, new)
  BY SameKeepsAllocated DEF ApplicationChange
<1>8. Promised(old, new)
  BY <1>1, SharesPromised
<1> QED BY <1>4, <1>5, <1>6, <1>7, <1>8 DEF Moves, Balanced

-----------------------------------------------------------------------------
(* Every action moves the database so, when no other request is open. *)

LEMMA ReadIsNow ==
  ASSUME SequentialInv, NEW w \in Workers, At(w, "read")
  PROVE  Seen(w) = rows
BY DEF SequentialInv, StillSo, At, Idle

LEMMA NowBalanced ==
  ASSUME SequentialInv
  PROVE  Good(rows) /\ Balanced(rows)
BY DEF SequentialInv, Inv

LEMMA NothingMoves ==
  ASSUME SequentialInv, rows' = rows
  PROVE  Moves(rows, rows')
<1>1. ElsewhereOnly(rows, rows')
  BY DEF ElsewhereOnly
<1> QED BY <1>1, NowBalanced, ElsewhereMoves

LEMMA RefusedMoves ==
  ASSUME SequentialInv, NEW w, NEW new, CommitIf(w, FALSE, new)
  PROVE  Moves(rows, rows')
BY NothingMoves DEF CommitIf, Commit

LEMMA PeriodMoves ==
  ASSUME SequentialInv, NEW w \in Workers, PeriodNext(w)
  PROVE  Moves(rows, rows')
<1>1. PICK period : rows' = [rows EXCEPT !.period = period]
  BY DEF PeriodNext, StartClose, ClosePeriod, RefuseClose, ReopenPeriod, Commit
<1>2. ElsewhereOnly(rows, rows')
  BY <1>1, NowBalanced DEF Good, Database, ElsewhereOnly
<1> QED BY <1>2, NowBalanced, ElsewhereMoves

\* An invoice outside the ledger gets a row outside it that is paid as much.
LEMMA OutsideMoves ==
  ASSUME SequentialInv, NEW i \in InvoiceIds, NEW row,
         rows' = [rows EXCEPT !.invoices[i] = row],
         row.paid = 0,
         rows.invoices[i].status \in {"NONE", "DRAFT", "SUBMITTED", "APPROVED"},
         row.status \in {"DRAFT", "SUBMITTED", "APPROVED", "CANCELLED", "DELETED"}
  PROVE  Moves(rows, rows')
<1> DEFINE old == rows
           new == rows'
<1>1. Good(old) /\ Balanced(old)
  BY NowBalanced
<1>2. new = [old EXCEPT !.invoices[i] = row, !.journals = old.journals]
  BY <1>1 DEF Good, Database
<1> HIDE DEF old, new
<1>3. /\ new.payments = old.payments /\ new.notes = old.notes /\ new.refunds = old.refunds
      /\ new.allocations = old.allocations /\ new.applications = old.applications
      /\ \A j \in InvoiceIds \ {i} : new.invoices[j] = old.invoices[j]
      /\ new.invoices[i] = row /\ new.journals = old.journals
  BY <1>1, <1>2 DEF Good, Database
<1>4. old.invoices[i].status \in {"NONE", "DRAFT", "SUBMITTED", "APPROVED"}
  BY DEF old
<1>5. Where(old, i) = "before" /\ old.invoices[i].status \notin InForceStatus
  BY <1>4 DEF Where, Books, InForceStatus
<1>6. old.invoices[i].paid = 0 /\ JournalFits(old.journals[<<"invoice", i>>], old.invoices[i].status)
  BY <1>1, <1>5 DEF Balanced, InvoiceAgrees, Where
<1>7. JournalFits(new.journals[<<"invoice", i>>], row.status)
  BY <1>3, <1>5, <1>6 DEF JournalFits, InForceStatus
<1>8. Where(new, i) \in {"before", "out"}
  BY <1>3 DEF Where, Books
<1>9. InvoiceChange(old, new, i)
  BY <1>3, <1>5, <1>6, <1>7, <1>8 DEF InvoiceChange, SameInvoice, Turns
<1>10. Moves(old, new)
  BY <1>1, <1>9, InvoiceMoves
<1> QED BY <1>10 DEF old, new

LEMMA DraftMoves ==
  ASSUME SequentialInv, NEW w \in Workers, NEW i \in InvoiceIds,
         CreateInvoice(w, i) \/ UpdateInvoice(w, i) \/ RemoveInvoice(w, i)
  PROVE  Moves(rows, rows')
<1>0. Good(rows) /\ Balanced(rows) /\ Seen(w) = rows
  BY NowBalanced, ReadIsNow DEF CreateInvoice, UpdateInvoice, RemoveInvoice, Creates, Changes
<1>1. CASE CreateInvoice(w, i)
  <2>1. PICK n \in Amounts :
          rows' = [rows EXCEPT !.invoices[i] = [status |-> "DRAFT", total |-> n, paid |-> 0]]
    BY <1>1 DEF CreateInvoice, Commit
  <2>2. rows.invoices[i].status = "NONE"
    BY <1>1 DEF CreateInvoice, Creates
  <2> DEFINE row == [status |-> "DRAFT", total |-> n, paid |-> 0]
  <2>3. row.paid = 0 /\ row.status = "DRAFT" /\ rows' = [rows EXCEPT !.invoices[i] = row]
    BY <2>1
  <2> HIDE DEF row
  <2> QED BY <2>2, <2>3, OutsideMoves
<1>2. ASSUME UpdateInvoice(w, i) \/ RemoveInvoice(w, i)
      PROVE  Moves(rows, rows')
  <2>1. rows.invoices[i].status = "DRAFT"
    BY <1>0, <1>2 DEF UpdateInvoice, RemoveInvoice, Changes
  <2>2. rows.invoices[i].paid = 0 /\ rows.invoices[i] \in InvoiceRow
    BY <1>0, <2>1 DEF Balanced, InvoiceAgrees, Books, Good, Database
  <2>3. \/ rows' = rows
        \/ \E n : rows' = [rows EXCEPT !.invoices[i].total = n]
        \/ rows' = [rows EXCEPT !.invoices[i].status = "DELETED"]
    BY <1>2 DEF UpdateInvoice, RemoveInvoice, CommitIf, Commit
  <2>4. CASE rows' = rows
    BY <2>4, NothingMoves
  <2>5. ASSUME NEW n, rows' = [rows EXCEPT !.invoices[i].total = n]
        PROVE  Moves(rows, rows')
    <3> DEFINE row == [rows.invoices[i] EXCEPT !.total = n]
    <3>1. row.paid = 0 /\ row.status = "DRAFT"
      BY <2>1, <2>2 DEF InvoiceRow
    <3>2. rows' = [rows EXCEPT !.invoices[i] = row]
      BY <1>0, <2>5 DEF Good, Database
    <3> HIDE DEF row
    <3> QED BY <2>1, <3>1, <3>2, OutsideMoves
  <2>6. CASE rows' = [rows EXCEPT !.invoices[i].status = "DELETED"]
    <3> DEFINE row == [rows.invoices[i] EXCEPT !.status = "DELETED"]
    <3>1. row.paid = 0 /\ row.status = "DELETED"
      BY <2>1, <2>2 DEF InvoiceRow
    <3>2. rows' = [rows EXCEPT !.invoices[i] = row]
      BY <1>0, <2>6 DEF Good, Database
    <3> HIDE DEF row
    <3> QED BY <2>1, <3>1, <3>2, OutsideMoves
  <2> QED BY <2>3, <2>4, <2>5, <2>6
<1> QED BY <1>1, <1>2

LEMMA InvoiceStatusMoves ==
  ASSUME SequentialInv, NEW w \in Workers, NEW i \in InvoiceIds,
         NEW from \in SUBSET {"DRAFT", "SUBMITTED", "APPROVED"},
         NEW to \in {"SUBMITTED", "APPROVED", "CANCELLED"},
         SetStatus(w, "invoices", i, from, to)
  PROVE  Moves(rows, rows')
<1> DEFINE row == [rows.invoices[i] EXCEPT !.status = to]
<1>1. Good(rows) /\ Balanced(rows) /\ Seen(w) = rows
  BY NowBalanced, ReadIsNow DEF SetStatus, Changes
<1>2. rows.invoices[i].status \in {"DRAFT", "SUBMITTED", "APPROVED"}
        /\ rows' = [rows EXCEPT !.invoices[i].status = to]
  <2>1. rows["invoices"] = rows.invoices
    OBVIOUS
  <2> QED BY <1>1, <2>1 DEF SetStatus, Changes, Commit
<1>3. rows.invoices[i].paid = 0 /\ rows.invoices[i] \in InvoiceRow
  BY <1>1, <1>2 DEF Balanced, InvoiceAgrees, Books, Good, Database
<1>4. row.paid = 0 /\ row.status = to
  BY <1>3 DEF InvoiceRow
<1>5. rows' = [rows EXCEPT !.invoices[i] = row]
  BY <1>1, <1>2 DEF Good, Database
<1> HIDE DEF row
<1> QED BY <1>2, <1>4, <1>5, OutsideMoves

LEMMA PostInvoiceMoves ==
  ASSUME SequentialInv, NEW w \in Workers, NEW i \in InvoiceIds,
         NEW from \in SUBSET {"DRAFT", "SUBMITTED", "APPROVED"}, PostInvoice(w, i, from)
  PROVE  Moves(rows, rows')
<1> DEFINE old == rows
           new == rows'
           d == <<"invoice", i>>
           js == Post(old.journals, d)
           row == [old.invoices[i] EXCEPT !.status = PostedStatus(old.side)]
<1>1. Good(old) /\ Balanced(old) /\ Seen(w) = old
  BY NowBalanced, ReadIsNow DEF PostInvoice, Changes
<1>2. old.invoices[i].status \in {"DRAFT", "SUBMITTED", "APPROVED"}
  BY <1>1 DEF PostInvoice, Changes
<1>3. new = [old EXCEPT !.invoices[i] = row, !.journals = js]
  BY <1>1 DEF PostInvoice, Commit, Good, Database
<1>4. d \in Documents /\ old.journals \in [Documents -> JournalCounts]
        /\ old.invoices[i] \in InvoiceRow
  BY <1>1 DEF Documents, Good, Database
<1>5. (\A e \in Documents \ {d} : js[e] = old.journals[e])
        /\ js[d] = [old.journals[d] EXCEPT !.posted = @ + 1]
        /\ old.journals[d] \in JournalCounts
  BY <1>4 DEF Post
<1>6. row.paid = old.invoices[i].paid /\ row.status \in {"ISSUED", "POSTED"}
  BY <1>4 DEF InvoiceRow, PostedStatus
<1> HIDE DEF old, new, js, row
<1>7. /\ new.payments = old.payments /\ new.notes = old.notes /\ new.refunds = old.refunds
      /\ new.allocations = old.allocations /\ new.applications = old.applications
      /\ \A j \in InvoiceIds \ {i} : new.invoices[j] = old.invoices[j]
      /\ new.invoices[i] = row /\ new.journals = js
  BY <1>1, <1>3 DEF Good, Database
<1>8. Where(old, i) = "before" /\ Where(new, i) = "in"
        /\ old.invoices[i].status \notin InForceStatus /\ row.status \in InForceStatus
  BY <1>2, <1>6, <1>7 DEF Where, Books, InForceStatus
<1>9. JournalFits(old.journals[d], old.invoices[i].status)
  BY <1>1 DEF Balanced, InvoiceAgrees
<1>10. JournalFits(js[d], row.status)
  BY <1>5, <1>8, <1>9 DEF JournalFits, JournalCounts
<1>11. InvoiceChange(old, new, i)
  BY <1>5, <1>6, <1>7, <1>8, <1>10 DEF InvoiceChange, Turns
<1>12. Moves(old, new)
  BY <1>1, <1>11, InvoiceMoves
<1> QED BY <1>12 DEF old, new

\* The journal that was posted is there, so voiding reverses it.
LEMMA VoidInvoiceMoves ==
  ASSUME SequentialInv, NEW w \in Workers, NEW i \in InvoiceIds, VoidInvoice(w, i)
  PROVE  Moves(rows, rows')
<1> DEFINE old == rows
           new == rows'
           d == <<"invoice", i>>
           js == PostReversal(old.journals, d)
           row == [old.invoices[i] EXCEPT !.status = "VOIDED"]
<1>1. Good(old) /\ Balanced(old) /\ Seen(w) = old
  BY NowBalanced, ReadIsNow DEF VoidInvoice, Changes
<1>2. old.invoices[i].status \in {"ISSUED", "POSTED"} /\ old.invoices[i].paid = 0
  BY <1>1 DEF VoidInvoice, Changes, PostedStatus
<1>4. d \in Documents /\ old.journals \in [Documents -> JournalCounts]
        /\ old.invoices[i] \in InvoiceRow
  BY <1>1 DEF Documents, Good, Database
<1>5. JournalFits(old.journals[d], old.invoices[i].status)
        /\ old.invoices[i].status \in InForceStatus
  BY <1>1, <1>2 DEF Balanced, InvoiceAgrees, InForceStatus
<1>6. HasJournal(old.journals, d) /\ old.journals[d] \in JournalCounts
  BY <1>4, <1>5 DEF HasJournal, JournalFits, JournalCounts
<1>3. new = [old EXCEPT !.invoices[i] = row, !.journals = js]
  <2>1. new = [old EXCEPT !.invoices[i].status = "VOIDED", !.journals = js]
    BY <1>1, <1>6 DEF VoidInvoice, Commit
  <2> HIDE DEF js, new
  <2> QED BY <1>1, <2>1 DEF Good, Database
<1>7. (\A e \in Documents \ {d} : js[e] = old.journals[e])
        /\ js[d] = [old.journals[d] EXCEPT !.voided = @ + 1, !.reversals = @ + 1]
  BY <1>4 DEF PostReversal
<1>8. row.paid = 0 /\ row.status = "VOIDED"
  BY <1>2, <1>4 DEF InvoiceRow
<1> HIDE DEF old, new, js, row
<1>9. /\ new.payments = old.payments /\ new.notes = old.notes /\ new.refunds = old.refunds
      /\ new.allocations = old.allocations /\ new.applications = old.applications
      /\ \A j \in InvoiceIds \ {i} : new.invoices[j] = old.invoices[j]
      /\ new.invoices[i] = row /\ new.journals = js
  BY <1>1, <1>3 DEF Good, Database
<1>10. Where(old, i) = "in" /\ Where(new, i) = "out" /\ row.status \notin InForceStatus
  BY <1>2, <1>8, <1>9 DEF Where, Books, InForceStatus
<1>11. JournalFits(js[d], row.status)
  BY <1>5, <1>6, <1>7, <1>10 DEF JournalFits, JournalCounts
<1>12. InvoiceChange(old, new, i)
  BY <1>2, <1>7, <1>8, <1>9, <1>10, <1>11 DEF InvoiceChange, Turns
<1>13. Moves(old, new)
  BY <1>1, <1>12, InvoiceMoves
<1> QED BY <1>13 DEF old, new

LEMMA InvoicesMove ==
  ASSUME SequentialInv, NEW w \in Workers, InvoicesNext(w)
  PROVE  Moves(rows, rows')
<1>0. DOMAIN rows.invoices = InvoiceIds
  BY NowBalanced DEF Good, Database
<1>1. PICK i \in InvoiceIds :
        \/ CreateCustomerInvoice(w, i) \/ UpdateCustomerInvoice(w, i)
        \/ RemoveCustomerInvoice(w, i) \/ IssueCustomerInvoice(w, i)
        \/ CancelCustomerInvoice(w, i) \/ VoidCustomerInvoice(w, i)
        \/ CreateSupplierInvoice(w, i) \/ UpdateSupplierInvoice(w, i)
        \/ RemoveSupplierInvoice(w, i) \/ SubmitSupplierInvoice(w, i)
        \/ ApproveSupplierInvoice(w, i) \/ PostSupplierInvoice(w, i)
        \/ CancelSupplierInvoice(w, i) \/ VoidSupplierInvoice(w, i)
  BY <1>0 DEF InvoicesNext
<1>2. \/ CreateInvoice(w, i) \/ UpdateInvoice(w, i) \/ RemoveInvoice(w, i)
      \/ VoidInvoice(w, i)
      \/ PostInvoice(w, i, {"DRAFT"}) \/ PostInvoice(w, i, {"DRAFT", "SUBMITTED", "APPROVED"})
      \/ SetStatus(w, "invoices", i, {"DRAFT"}, "CANCELLED")
      \/ SetStatus(w, "invoices", i, {"DRAFT", "SUBMITTED", "APPROVED"}, "CANCELLED")
      \/ SetStatus(w, "invoices", i, {"DRAFT"}, "SUBMITTED")
      \/ SetStatus(w, "invoices", i, {"SUBMITTED"}, "APPROVED")
  BY <1>1 DEF CreateCustomerInvoice, UpdateCustomerInvoice, RemoveCustomerInvoice,
     IssueCustomerInvoice, CancelCustomerInvoice, VoidCustomerInvoice, CreateSupplierInvoice,
     UpdateSupplierInvoice, RemoveSupplierInvoice, SubmitSupplierInvoice, ApproveSupplierInvoice,
     PostSupplierInvoice, CancelSupplierInvoice, VoidSupplierInvoice
<1>3. /\ {"DRAFT"} \in SUBSET {"DRAFT", "SUBMITTED", "APPROVED"}
      /\ {"SUBMITTED"} \in SUBSET {"DRAFT", "SUBMITTED", "APPROVED"}
      /\ {"DRAFT", "SUBMITTED", "APPROVED"} \in SUBSET {"DRAFT", "SUBMITTED", "APPROVED"}
  OBVIOUS
<1> QED BY <1>2, <1>3, DraftMoves, VoidInvoiceMoves, PostInvoiceMoves, InvoiceStatusMoves

-----------------------------------------------------------------------------
(* Payments *)

LEMMA CreatePaymentMoves ==
  ASSUME SequentialInv, NEW w \in Workers, NEW p \in PaymentIds, CreatePayment(w, p)
  PROVE  Moves(rows, rows')
<1> DEFINE old == rows
           new == rows'
<1>1. PICK n \in Amounts :
        new = [old EXCEPT !.payments[p] = [status |-> "DRAFT", amount |-> n, allocated |-> 0]]
  BY DEF CreatePayment, Commit
<1> DEFINE row == [status |-> "DRAFT", amount |-> n, allocated |-> 0]
<1>2. new = [old EXCEPT !.payments[p] = row] /\ row.status = "DRAFT" /\ row.allocated = 0
  BY <1>1
<1>3. Good(old) /\ Balanced(old) /\ old.payments[p].status = "NONE"
  <2>1. rows["payments"] = rows.payments
    OBVIOUS
  <2> QED BY <2>1, NowBalanced DEF CreatePayment, Creates
<1> HIDE DEF old, new, row
<1>4. /\ new.invoices = old.invoices /\ new.notes = old.notes /\ new.refunds = old.refunds
      /\ new.allocations = old.allocations /\ new.applications = old.applications
      /\ \A q \in PaymentIds \ {p} : new.payments[q] = old.payments[q]
      /\ new.payments[p] = row /\ new.journals = old.journals
  BY <1>2, <1>3 DEF Good, Database
<1>5. PaymentAgrees(old, p)
  BY <1>3 DEF Balanced
<1>6. PaymentChange(old, new, p)
  BY <1>2, <1>3, <1>4, <1>5 DEF PaymentChange, PaymentAgrees, JournalFits, InForceStatus
<1>7. Moves(old, new)
  BY <1>3, <1>6, PaymentMoves
<1> QED BY <1>7 DEF old, new

LEMMA PostPaymentMoves ==
  ASSUME SequentialInv, NEW w \in Workers, NEW p \in PaymentIds, PostPayment(w, p)
  PROVE  Moves(rows, rows')
<1> DEFINE old == rows
           new == rows'
           d == <<"payment", p>>
           js == Post(old.journals, d)
           row == [old.payments[p] EXCEPT !.status = "POSTED"]
<1>1. Good(old) /\ Balanced(old) /\ Seen(w) = old
  BY NowBalanced, ReadIsNow DEF PostPayment, Changes
<1>2. old.payments[p].status = "DRAFT"
  BY <1>1 DEF PostPayment, Changes
<1>3. new = [old EXCEPT !.payments[p] = row, !.journals = js]
  BY <1>1 DEF PostPayment, Commit, Good, Database
<1>4. d \in Documents /\ old.journals \in [Documents -> JournalCounts]
        /\ old.payments[p] \in PaymentRow
  BY <1>1 DEF Documents, Good, Database
<1>5. (\A e \in Documents \ {d} : js[e] = old.journals[e])
        /\ js[d] = [old.journals[d] EXCEPT !.posted = @ + 1]
        /\ old.journals[d] \in JournalCounts
  BY <1>4 DEF Post
<1>6. row.allocated = old.payments[p].allocated /\ row.status = "POSTED"
  BY <1>4 DEF PaymentRow
<1> HIDE DEF old, new, js, row
<1>7. /\ new.invoices = old.invoices /\ new.notes = old.notes /\ new.refunds = old.refunds
      /\ new.allocations = old.allocations /\ new.applications = old.applications
      /\ \A q \in PaymentIds \ {p} : new.payments[q] = old.payments[q]
      /\ new.payments[p] = row /\ new.journals = js
  BY <1>1, <1>3 DEF Good, Database
<1>8. JournalFits(old.journals[d], old.payments[p].status)
  BY <1>1 DEF Balanced, PaymentAgrees
<1>9. JournalFits(js[d], row.status)
  BY <1>2, <1>5, <1>6, <1>8 DEF JournalFits, JournalCounts, InForceStatus
<1>10. PaymentChange(old, new, p)
  BY <1>5, <1>6, <1>7, <1>9 DEF PaymentChange
<1>11. Moves(old, new)
  BY <1>1, <1>10, PaymentMoves
<1> QED BY <1>11 DEF old, new

\* What paying does to the row of an invoice that is in the books.
LEMMA PaidRow ==
  ASSUME NEW row \in InvoiceRow, NEW n
  PROVE  /\ Paid(row, n).paid = row.paid + n
         /\ Paid(row, n).status \in {"PARTIALLY_PAID", "PAID"}
BY DEF Paid, InvoiceRow

\* Shares that were handed out as Allocate and ApplyNote do.
LEMMA SharesPay ==
  ASSUME NEW old, NEW new, Good(old), NEW share \in Share, NEW side,
         \A i \in InvoiceIds : share[i] > 0 => old.invoices[i].status \in Payable(side),
         new.invoices = [i \in InvoiceIds |->
           IF share[i] > 0 THEN Paid(old.invoices[i], share[i]) ELSE old.invoices[i]]
  PROVE  InvoicesPaid(old, new, share)
<1>1. SUFFICES ASSUME NEW i \in InvoiceIds
      PROVE \/ share[i] = 0 /\ new.invoices[i] = old.invoices[i]
            \/ /\ share[i] > 0
               /\ old.invoices[i].status \in {"ISSUED", "POSTED", "PARTIALLY_PAID"}
               /\ new.invoices[i].status \in {"PARTIALLY_PAID", "PAID"}
               /\ new.invoices[i].paid = old.invoices[i].paid + share[i]
  BY DEF InvoicesPaid
<1>2. share[i] \in Nat /\ old.invoices[i] \in InvoiceRow
  BY MaxAmountAssumption DEF Share, Good, Database
<1>3. CASE share[i] > 0
  <2>1. new.invoices[i] = Paid(old.invoices[i], share[i])
    BY <1>3
  <2>2. old.invoices[i].status \in {"ISSUED", "POSTED", "PARTIALLY_PAID"}
    BY <1>3 DEF Payable, PostedStatus
  <2> QED BY <1>2, <1>3, <2>1, <2>2, PaidRow
<1>4. CASE ~ share[i] > 0
  BY <1>2, <1>4
<1> QED BY <1>3, <1>4

LEMMA AllocateMoves ==
  ASSUME SequentialInv, Good(rows'), NEW w \in Workers, NEW p \in PaymentIds, Allocate(w, p)
  PROVE  Moves(rows, rows')
<1> DEFINE old == rows
           new == rows'
<1>1. Good(old) /\ Balanced(old) /\ Seen(w) = old /\ Good(new)
  BY NowBalanced, ReadIsNow DEF Allocate, Changes
<1>2. old.payments[p].status \in {"POSTED", "PARTIALLY_ALLOCATED"}
  BY <1>1 DEF Allocate, Changes
<1>3. DOMAIN old.invoices = InvoiceIds /\ DOMAIN old.allocations = PaymentIds \X InvoiceIds
        /\ old.payments[p] \in PaymentRow
  BY <1>1 DEF Good, Database
<1>4. PICK share \in Share :
        /\ \A i \in InvoiceIds : share[i] > 0 => old.invoices[i].status \in Payable(old.side)
        /\ new = [old EXCEPT
                  !.payments[p] = Allocated(old.payments[p], Total(share)),
                  !.allocations = [pi \in PaymentIds \X InvoiceIds |->
                     IF pi[1] = p THEN old.allocations[pi] + share[pi[2]] ELSE old.allocations[pi]],
                  !.invoices = [i \in InvoiceIds |->
                     IF share[i] > 0 THEN Paid(old.invoices[i], share[i]) ELSE old.invoices[i]]]
  <2>1. PICK share \in [InvoiceIds -> 0..MaxAmount] :
          /\ \A i \in DOMAIN share : share[i] > 0 => rows.invoices[i].status \in Payable(rows.side)
          /\ Commit(w,
               [rows EXCEPT
                  !.payments[p] = Allocated(rows.payments[p], SumFunction(share)),
                  !.allocations = [pi \in DOMAIN @ |->
                     IF pi[1] = p THEN @[pi] + share[pi[2]] ELSE @[pi]],
                  !.invoices = [i \in DOMAIN @ |->
                     IF share[i] > 0 THEN Paid(rows.invoices[i], share[i]) ELSE @[i]]])
    BY <1>1, <1>3 DEF Allocate
  <2>2. SumFunction(share) = Total(share) /\ share \in Share /\ DOMAIN share = InvoiceIds
    BY DEF SumFunction, Total, Share
  <2>3. rows' = [rows EXCEPT
                  !.payments[p] = Allocated(rows.payments[p], Total(share)),
                  !.allocations = [pi \in DOMAIN @ |->
                     IF pi[1] = p THEN @[pi] + share[pi[2]] ELSE @[pi]],
                  !.invoices = [i \in DOMAIN @ |->
                     IF share[i] > 0 THEN Paid(rows.invoices[i], share[i]) ELSE @[i]]]
    BY <2>1, <2>2 DEF Commit
  <2> QED BY <1>3, <2>1, <2>2, <2>3
<1> DEFINE row == Allocated(old.payments[p], Total(share))
<1>5. row.allocated = old.payments[p].allocated + Total(share)
        /\ row.status \in {"PARTIALLY_ALLOCATED", "ALLOCATED"}
  BY <1>3 DEF Allocated, PaymentRow
<1> HIDE DEF old, new, row
<1>6. /\ new.notes = old.notes /\ new.refunds = old.refunds
      /\ new.applications = old.applications /\ new.journals = old.journals
      /\ new.payments = [old.payments EXCEPT ![p] = row]
      /\ new.allocations = [pi \in PaymentIds \X InvoiceIds |->
           IF pi[1] = p THEN old.allocations[pi] + share[pi[2]] ELSE old.allocations[pi]]
      /\ new.invoices = [i \in InvoiceIds |->
           IF share[i] > 0 THEN Paid(old.invoices[i], share[i]) ELSE old.invoices[i]]
  BY <1>1, <1>4 DEF Good, Database, row
<1>7. new.payments[p] = row /\ \A q \in PaymentIds \ {p} : new.payments[q] = old.payments[q]
  BY <1>1, <1>6 DEF Good, Database
<1>8. \A q \in PaymentIds, i \in InvoiceIds :
        new.allocations[<<q, i>>] = old.allocations[<<q, i>>] + (IF q = p THEN share[i] ELSE 0)
  <2>1. \A q \in PaymentIds, i \in InvoiceIds : old.allocations[<<q, i>>] \in Nat
    BY <1>1 DEF Good, Database
  <2>2. ASSUME NEW q \in PaymentIds, NEW i \in InvoiceIds
        PROVE  new.allocations[<<q, i>>] =
                 IF q = p THEN old.allocations[<<q, i>>] + share[i] ELSE old.allocations[<<q, i>>]
    <3>1. <<q, i>> \in PaymentIds \X InvoiceIds /\ <<q, i>>[1] = q /\ <<q, i>>[2] = i
      OBVIOUS
    <3>2. new.allocations[<<q, i>>] =
            IF <<q, i>>[1] = p THEN old.allocations[<<q, i>>] + share[<<q, i>>[2]]
            ELSE old.allocations[<<q, i>>]
      <4> DEFINE x == <<q, i>>
      <4>1. x \in PaymentIds \X InvoiceIds
        BY <3>1
      <4> HIDE DEF x
      <4>2. new.allocations[x] =
              IF x[1] = p THEN old.allocations[x] + share[x[2]] ELSE old.allocations[x]
        BY <1>6, <4>1
      <4> QED BY <4>2 DEF x
    <3> QED BY <3>1, <3>2
  <2>3. ASSUME NEW q \in PaymentIds, NEW i \in InvoiceIds
        PROVE  new.allocations[<<q, i>>] =
                 old.allocations[<<q, i>>] + (IF q = p THEN share[i] ELSE 0)
    <3> DEFINE a == old.allocations[<<q, i>>]
               b == new.allocations[<<q, i>>]
    <3>1. a \in Nat /\ b = IF q = p THEN a + share[i] ELSE a
      BY <2>1, <2>2
    <3> HIDE DEF a, b
    <3>2. b = a + (IF q = p THEN share[i] ELSE 0)
      BY <3>1
    <3> QED BY <3>2 DEF a, b
  <2> QED BY <2>3
<1>9. InvoicesPaid(old, new, share)
  BY <1>1, <1>4, <1>6, SharesPay
<1>10. AllocationChange(old, new, p, share)
  BY <1>2, <1>5, <1>6, <1>7, <1>8, <1>9 DEF AllocationChange
<1>11. Moves(old, new)
  BY <1>1, <1>10, AllocationMoves
<1> QED BY <1>11 DEF old, new

\* A payment in the books has an amount, and the CHECK refuses its void.
LEMMA VoidPaymentMoves ==
  ASSUME SequentialInv, NEW w \in Workers, NEW p \in PaymentIds, VoidPayment(w, p)
  PROVE  Moves(rows, rows')
<1>1. Good(rows) /\ Seen(w) = rows
  BY NowBalanced, ReadIsNow DEF VoidPayment, Changes
<1>2. rows.payments[p].status # "NONE"
  BY <1>1 DEF VoidPayment, Changes
<1>3. rows.payments[p].amount > 0 /\ rows.payments[p].amount \in Nat
  BY <1>1, <1>2 DEF Good, Checked, Database, PaymentRow
<1>4. ~ (rows.payments[p].amount = 0)
  BY <1>3
<1>5. CommitIf(w, rows.payments[p].amount = 0, VoidedPayment(w, p))
  BY DEF VoidPayment
<1>6. rows' = rows
  BY <1>4, <1>5 DEF CommitIf, Commit
<1> QED BY <1>6, NothingMoves

LEMMA PaymentsMove ==
  ASSUME SequentialInv, Good(rows'), NEW w \in Workers, PaymentsNext(w)
  PROVE  Moves(rows, rows')
<1>1. DOMAIN rows.payments = PaymentIds
  BY NowBalanced DEF Good, Database
<1> QED BY <1>1, CreatePaymentMoves, PostPaymentMoves, AllocateMoves, VoidPaymentMoves
        DEF PaymentsNext

-----------------------------------------------------------------------------
(* Notes and refunds *)

\* Entries of a note or refund leave the journals of other documents alone.
LEMMA JournalsElsewhere ==
  ASSUME NEW js \in [Documents -> JournalCounts], NEW d \in Documents, d[1] \in {"note", "refund"},
         NEW new, new \in {js, Post(js, d), Compensate(js, d)}
  PROVE  \A e \in Documents : e[1] \in {"invoice", "payment"} => new[e] = js[e]
<1>1. SUFFICES ASSUME NEW e \in Documents, e[1] \in {"invoice", "payment"}
               PROVE  new[e] = js[e]
  OBVIOUS
<1>2. e # d
  BY <1>1
<1> QED BY <1>1, <1>2 DEF Post, Compensate

\* A note gets a new row that has used as much; maybe its journals change.
LEMMA NoteRowMoves ==
  ASSUME SequentialInv, NEW n \in NoteIds, NEW row, NEW js,
         rows' = [rows EXCEPT !.notes[n] = row, !.journals = js],
         js \in {rows.journals, Post(rows.journals, <<"note", n>>)},
         row.applied = rows.notes[n].applied, row.applied + row.remaining = row.total,
         row.status # "NONE"
  PROVE  Moves(rows, rows')
<1> DEFINE old == rows
           new == rows'
           d == <<"note", n>>
<1>1. Good(old) /\ Balanced(old)
  BY NowBalanced
<1>2. new = [old EXCEPT !.notes[n] = row, !.journals = js]
  OBVIOUS
<1>3. row.applied = old.notes[n].applied /\ js \in {old.journals, Post(old.journals, d)}
  OBVIOUS
<1>4. d \in Documents /\ d[1] = "note" /\ old.journals \in [Documents -> JournalCounts]
  BY <1>1 DEF Documents, Good, Database
<1>5. \A e \in Documents : e[1] \in {"invoice", "payment"} => js[e] = old.journals[e]
  BY <1>3, <1>4, JournalsElsewhere
<1> HIDE DEF old, new, d
<1>6. /\ new.invoices = old.invoices /\ new.payments = old.payments /\ new.refunds = old.refunds
      /\ new.allocations = old.allocations /\ new.applications = old.applications
      /\ \A m \in NoteIds \ {n} : new.notes[m] = old.notes[m]
      /\ new.notes[n] = row /\ new.journals = js
  BY <1>1, <1>2 DEF Good, Database
<1>7. NoteChange(old, new, n)
  BY <1>3, <1>5, <1>6 DEF NoteChange
<1>8. Moves(old, new)
  BY <1>1, <1>7, NoteMoves
<1> QED BY <1>8 DEF old, new

\* What is known of the row of a note.
LEMMA NoteRowNow ==
  ASSUME SequentialInv, NEW n \in NoteIds
  PROVE  /\ rows.notes[n] \in NoteRow
         /\ rows.notes[n].applied + rows.notes[n].remaining = rows.notes[n].total
         /\ rows.notes[n].status = "NONE" => rows.notes[n].applied = 0
BY NowBalanced DEF Good, Database, Balanced, NoteAgrees

LEMMA CreateNoteMoves ==
  ASSUME SequentialInv, NEW w \in Workers, NEW n \in NoteIds, CreateNote(w, n)
  PROVE  Moves(rows, rows')
<1>1. PICK a \in Amounts :
        rows' = [rows EXCEPT !.notes[n] =
                   [status |-> "DRAFT", total |-> a, applied |-> 0, remaining |-> a]]
  BY DEF CreateNote, Commit
<1>2. rows.notes[n].status = "NONE"
  <2>1. rows["notes"] = rows.notes
    OBVIOUS
  <2> QED BY <2>1 DEF CreateNote, Creates
<1> DEFINE row == [status |-> "DRAFT", total |-> a, applied |-> 0, remaining |-> a]
<1>3. row.applied = 0 /\ row.applied + row.remaining = row.total /\ row.status = "DRAFT"
  BY AmountsType
<1>4. rows' = [rows EXCEPT !.notes[n] = row, !.journals = rows.journals]
  BY <1>1, NowBalanced DEF Good, Database
<1>5. row.applied = rows.notes[n].applied
  BY <1>2, <1>3, NoteRowNow
<1> HIDE DEF row
<1> QED BY <1>3, <1>4, <1>5, NoteRowMoves

LEMMA UpdateNoteMoves ==
  ASSUME SequentialInv, NEW w \in Workers, NEW n \in NoteIds, UpdateNote(w, n)
  PROVE  Moves(rows, rows')
<1>1. Seen(w) = rows /\ Good(rows)
  BY ReadIsNow, NowBalanced DEF UpdateNote, Changes
<1>2. rows.notes[n].status = "DRAFT" /\ rows.notes[n] \in NoteRow
  BY <1>1, NoteRowNow DEF UpdateNote, Changes
<1>3. PICK a \in Amounts :
        \/ rows' = rows
        \/ rows' = [rows EXCEPT !.notes[n].total = a,
                                !.notes[n].remaining = a - rows.notes[n].applied]
  BY <1>1 DEF UpdateNote, CommitIf, Commit
<1>4. CASE rows' = rows
  BY <1>4, NothingMoves
<1>5. CASE rows' = [rows EXCEPT !.notes[n].total = a,
                                !.notes[n].remaining = a - rows.notes[n].applied]
  <2> DEFINE row == [rows.notes[n] EXCEPT !.total = a, !.remaining = a - rows.notes[n].applied]
  <2>1. rows' = [rows EXCEPT !.notes[n] = row, !.journals = rows.journals]
    BY <1>1, <1>5 DEF Good, Database
  <2>2. row.applied = rows.notes[n].applied /\ row.status = "DRAFT"
          /\ row.remaining = a - rows.notes[n].applied /\ row.total = a
    BY <1>2 DEF NoteRow
  <2>3. a \in Int /\ rows.notes[n].applied \in Int
    BY <1>2, AmountsType DEF NoteRow
  <2> HIDE DEF row
  <2>4. row.applied + row.remaining = row.total
    BY <2>2, <2>3
  <2> QED BY <2>1, <2>2, <2>4, NoteRowMoves
<1> QED BY <1>3, <1>4, <1>5

\* Only the status changes, and with POSTED the journals.
LEMMA NoteStatusMoves ==
  ASSUME SequentialInv, NEW n \in NoteIds, NEW to, to # "NONE", NEW js,
         js \in {rows.journals, Post(rows.journals, <<"note", n>>)},
         rows' = [rows EXCEPT !.notes[n].status = to, !.journals = js]
  PROVE  Moves(rows, rows')
<1> DEFINE row == [rows.notes[n] EXCEPT !.status = to]
<1>1. rows' = [rows EXCEPT !.notes[n] = row, !.journals = js]
  BY NowBalanced DEF Good, Database
<1>2. row.applied = rows.notes[n].applied /\ row.status = to
        /\ row.remaining = rows.notes[n].remaining /\ row.total = rows.notes[n].total
  BY NoteRowNow DEF NoteRow
<1> HIDE DEF row
<1>3. row.applied + row.remaining = row.total
  BY <1>2, NoteRowNow
<1> QED BY <1>1, <1>2, <1>3, NoteRowMoves

LEMMA PostNoteMoves ==
  ASSUME SequentialInv, NEW w \in Workers, NEW n \in NoteIds, PostNote(w, n)
  PROVE  Moves(rows, rows')
<1>1. rows' = [rows EXCEPT !.notes[n].status = "POSTED", !.journals = Post(@, <<"note", n>>)]
  BY DEF PostNote, Commit
<1> DEFINE js == Post(rows.journals, <<"note", n>>)
<1>2. rows' = [rows EXCEPT !.notes[n].status = "POSTED", !.journals = js]
  BY <1>1, NowBalanced DEF Good, Database
<1>3. js \in {rows.journals, Post(rows.journals, <<"note", n>>)}
  OBVIOUS
<1> HIDE DEF js
<1> QED BY <1>2, <1>3, NoteStatusMoves

LEMMA NoteStatusOnlyMoves ==
  ASSUME SequentialInv, NEW n \in NoteIds, NEW to, to # "NONE",
         rows' = [rows EXCEPT !.notes[n].status = to]
  PROVE  Moves(rows, rows')
<1>1. rows' = [rows EXCEPT !.notes[n].status = to, !.journals = rows.journals]
  BY NowBalanced DEF Good, Database
<1> QED BY <1>1, NoteStatusMoves

LEMMA ApplyNoteMoves ==
  ASSUME SequentialInv, Good(rows'), NEW w \in Workers, NEW n \in NoteIds, ApplyNote(w, n)
  PROVE  Moves(rows, rows')
<1> DEFINE old == rows
           new == rows'
<1>1. Good(old) /\ Balanced(old) /\ Seen(w) = old /\ Good(new)
  BY NowBalanced, ReadIsNow DEF ApplyNote, Changes
<1>3. DOMAIN old.invoices = InvoiceIds /\ DOMAIN old.applications = NoteIds \X InvoiceIds
        /\ old.notes[n] \in NoteRow
  BY <1>1 DEF Good, Database
<1>4. PICK share \in Share :
        /\ \A i \in InvoiceIds : share[i] > 0 => old.invoices[i].status \in Payable(old.side)
        /\ new = [old EXCEPT
                  !.notes[n] = Used(old.notes[n], Total(share)),
                  !.applications = [ni \in NoteIds \X InvoiceIds |->
                     IF ni[1] = n THEN old.applications[ni] + share[ni[2]] ELSE old.applications[ni]],
                  !.invoices = [i \in InvoiceIds |->
                     IF share[i] > 0 THEN Paid(old.invoices[i], share[i]) ELSE old.invoices[i]]]
  <2>1. PICK share \in [InvoiceIds -> 0..MaxAmount] :
          /\ \A i \in DOMAIN share : share[i] > 0 => rows.invoices[i].status \in Payable(rows.side)
          /\ Commit(w,
               [rows EXCEPT
                  !.notes[n] = Used(rows.notes[n], SumFunction(share)),
                  !.applications = [ni \in DOMAIN @ |->
                     IF ni[1] = n THEN @[ni] + share[ni[2]] ELSE @[ni]],
                  !.invoices = [i \in DOMAIN @ |->
                     IF share[i] > 0 THEN Paid(rows.invoices[i], share[i]) ELSE @[i]]])
    BY <1>1, <1>3 DEF ApplyNote
  <2>2. SumFunction(share) = Total(share) /\ share \in Share /\ DOMAIN share = InvoiceIds
    BY DEF SumFunction, Total, Share
  <2>3. rows' = [rows EXCEPT
                  !.notes[n] = Used(rows.notes[n], Total(share)),
                  !.applications = [ni \in DOMAIN @ |->
                     IF ni[1] = n THEN @[ni] + share[ni[2]] ELSE @[ni]],
                  !.invoices = [i \in DOMAIN @ |->
                     IF share[i] > 0 THEN Paid(rows.invoices[i], share[i]) ELSE @[i]]]
    BY <2>1, <2>2 DEF Commit
  <2> QED BY <1>3, <2>1, <2>2, <2>3
<1> DEFINE row == Used(old.notes[n], Total(share))
<1>5. row.applied = old.notes[n].applied + Total(share) /\ row.status # "NONE"
        /\ row.remaining = old.notes[n].remaining - Total(share)
        /\ row.total = old.notes[n].total
  BY <1>3 DEF Used, NoteRow
<1>a. row.applied + row.remaining = row.total
  <2>1. \A i \in InvoiceIds : share[i] \in Nat
    BY MaxAmountAssumption DEF Share
  <2>2. Total(share) \in Nat
    BY <2>1, SumNat, FiniteTables DEF Total
  <2>3. old.notes[n].applied + old.notes[n].remaining = old.notes[n].total
    BY NoteRowNow
  <2> HIDE DEF row
  <2> QED BY <1>3, <1>5, <2>2, <2>3 DEF NoteRow
<1> HIDE DEF old, new, row
<1>6. /\ new.payments = old.payments /\ new.refunds = old.refunds
      /\ new.allocations = old.allocations /\ new.journals = old.journals
      /\ new.notes = [old.notes EXCEPT ![n] = row]
      /\ new.applications = [ni \in NoteIds \X InvoiceIds |->
           IF ni[1] = n THEN old.applications[ni] + share[ni[2]] ELSE old.applications[ni]]
      /\ new.invoices = [i \in InvoiceIds |->
           IF share[i] > 0 THEN Paid(old.invoices[i], share[i]) ELSE old.invoices[i]]
  BY <1>1, <1>4 DEF Good, Database, row
<1>7. new.notes[n] = row /\ \A m \in NoteIds \ {n} : new.notes[m] = old.notes[m]
  BY <1>1, <1>6 DEF Good, Database
<1>8. \A m \in NoteIds, i \in InvoiceIds :
        new.applications[<<m, i>>] = old.applications[<<m, i>>] + (IF m = n THEN share[i] ELSE 0)
  <2>1. \A m \in NoteIds, i \in InvoiceIds : old.applications[<<m, i>>] \in Nat
    BY <1>1 DEF Good, Database
  <2>2. ASSUME NEW m \in NoteIds, NEW i \in InvoiceIds
        PROVE  new.applications[<<m, i>>] =
                 IF m = n THEN old.applications[<<m, i>>] + share[i] ELSE old.applications[<<m, i>>]
    <3>1. <<m, i>> \in NoteIds \X InvoiceIds /\ <<m, i>>[1] = m /\ <<m, i>>[2] = i
      OBVIOUS
    <3>2. new.applications[<<m, i>>] =
            IF <<m, i>>[1] = n THEN old.applications[<<m, i>>] + share[<<m, i>>[2]]
            ELSE old.applications[<<m, i>>]
      <4> DEFINE x == <<m, i>>
      <4>1. x \in NoteIds \X InvoiceIds
        BY <3>1
      <4> HIDE DEF x
      <4>2. new.applications[x] =
              IF x[1] = n THEN old.applications[x] + share[x[2]] ELSE old.applications[x]
        BY <1>6, <4>1
      <4> QED BY <4>2 DEF x
    <3> QED BY <3>1, <3>2
  <2>3. ASSUME NEW m \in NoteIds, NEW i \in InvoiceIds
        PROVE  new.applications[<<m, i>>] =
                 old.applications[<<m, i>>] + (IF m = n THEN share[i] ELSE 0)
    <3> DEFINE a == old.applications[<<m, i>>]
               b == new.applications[<<m, i>>]
    <3>1. a \in Nat /\ b = IF m = n THEN a + share[i] ELSE a
      BY <2>1, <2>2
    <3> HIDE DEF a, b
    <3>2. b = a + (IF m = n THEN share[i] ELSE 0)
      BY <3>1
    <3> QED BY <3>2 DEF a, b
  <2> QED BY <2>3
<1>9. InvoicesPaid(old, new, share)
  BY <1>1, <1>4, <1>6, SharesPay
<1>10. ApplicationChange(old, new, n, share)
  BY <1>5, <1>a, <1>6, <1>7, <1>8, <1>9 DEF ApplicationChange
<1>11. Moves(old, new)
  BY <1>1, <1>10, ApplicationMoves
<1> QED BY <1>11 DEF old, new

\* The first part of a void: a mirror image of the journal.
LEMMA CompensateMoves ==
  ASSUME SequentialInv, NEW d \in Documents, d[1] \in {"note", "refund"},
         rows' = [rows EXCEPT !.journals = Compensate(@, d)]
  PROVE  Moves(rows, rows')
<1> DEFINE js == Compensate(rows.journals, d)
<1>1. Good(rows) /\ Balanced(rows) /\ rows.journals \in [Documents -> JournalCounts]
  BY NowBalanced DEF Good, Database
<1>2. \A e \in Documents : e[1] \in {"invoice", "payment"} => js[e] = rows.journals[e]
  BY <1>1, JournalsElsewhere
<1> HIDE DEF js
<1>3. rows' = [rows EXCEPT !.journals = js]
  BY DEF js
<1>4. ElsewhereOnly(rows, rows')
  BY <1>1, <1>2, <1>3 DEF ElsewhereOnly, Good, Database
<1> QED BY <1>1, <1>4, ElsewhereMoves

LEMMA NotesMove ==
  ASSUME SequentialInv, Good(rows'), NEW w \in Workers, NEW n \in NoteIds,
         \/ CreateCreditNote(w, n) \/ UpdateCreditNote(w, n) \/ ApproveCreditNote(w, n)
         \/ PostCreditNote(w, n) \/ ApplyCreditNote(w, n) \/ VoidCreditNote(w, n)
         \/ CreateDebitNote(w, n) \/ UpdateDebitNote(w, n) \/ ApproveDebitNote(w, n)
         \/ PostDebitNote(w, n) \/ ApplyDebitNote(w, n) \/ VoidDebitNote(w, n)
  PROVE  Moves(rows, rows')
<1>1. \/ CreateNote(w, n) \/ UpdateNote(w, n) \/ PostNote(w, n) \/ ApplyNote(w, n)
      \/ SetStatus(w, "notes", n, {"DRAFT"}, "APPROVED")
      \/ ReverseNote(w, n) \/ VoidReversed(w, n) \/ VoidUnposted(w, n)
  BY DEF CreateCreditNote, UpdateCreditNote, ApproveCreditNote, PostCreditNote, ApplyCreditNote,
     VoidCreditNote, CreateDebitNote, UpdateDebitNote, ApproveDebitNote, PostDebitNote,
     ApplyDebitNote, VoidDebitNote, VoidNote
<1>2. CASE ReverseNote(w, n)
  <2>1. <<"note", n>> \in Documents /\ <<"note", n>>[1] = "note"
    BY DEF Documents
  <2>2. rows' = [rows EXCEPT !.journals = Compensate(@, <<"note", n>>)]
    BY <1>2 DEF ReverseNote, Continue
  <2> QED BY <2>1, <2>2, CompensateMoves
<1>3. CASE \/ SetStatus(w, "notes", n, {"DRAFT"}, "APPROVED")
           \/ VoidReversed(w, n) \/ VoidUnposted(w, n)
  <2>1. PICK to \in {"APPROVED", "VOIDED"} : rows' = [rows EXCEPT !.notes[n].status = to]
    BY <1>3 DEF SetStatus, VoidReversed, VoidUnposted, Commit
  <2>2. to # "NONE"
    OBVIOUS
  <2> QED BY <2>1, <2>2, NoteStatusOnlyMoves
<1> QED BY <1>1, <1>2, <1>3, CreateNoteMoves, UpdateNoteMoves, PostNoteMoves, ApplyNoteMoves

\* A refund and the note it is of get new rows, and the note makes up for what
\* is counted of the refund.
MakesUp(old, f, n, refund, note) ==
  /\ \A m \in NoteIds \ {n} : Counted(refund, m) = Counted(old.refunds[f], m)
  /\ note.applied = old.notes[n].applied - Counted(old.refunds[f], n) + Counted(refund, n)
  /\ note.applied + note.remaining = note.total
  /\ note.status = "NONE" => note.applied = 0

LEMMA RefundRowMoves ==
  ASSUME SequentialInv, Good(rows'), NEW f \in RefundIds, NEW n \in NoteIds,
         NEW refund, NEW note, NEW js,
         rows' = [rows EXCEPT !.refunds[f] = refund, !.notes[n] = note, !.journals = js],
         js \in {rows.journals, Post(rows.journals, <<"refund", f>>)},
         MakesUp(rows, f, n, refund, note)
  PROVE  Moves(rows, rows')
<1> DEFINE old == rows
           new == rows'
           d == <<"refund", f>>
<1>1. Good(old) /\ Balanced(old) /\ Good(new)
  BY NowBalanced
<1>2. new = [old EXCEPT !.refunds[f] = refund, !.notes[n] = note, !.journals = js]
  OBVIOUS
<1>3. js \in {old.journals, Post(old.journals, d)} /\ MakesUp(old, f, n, refund, note)
  OBVIOUS
<1>4. d \in Documents /\ d[1] = "refund" /\ old.journals \in [Documents -> JournalCounts]
  BY <1>1 DEF Documents, Good, Database
<1>5. \A e \in Documents : e[1] \in {"invoice", "payment"} => js[e] = old.journals[e]
  BY <1>3, <1>4, JournalsElsewhere
<1> HIDE DEF old, new, d
<1>6. /\ new.invoices = old.invoices /\ new.payments = old.payments
      /\ new.allocations = old.allocations /\ new.applications = old.applications
      /\ \A m \in NoteIds \ {n} : new.notes[m] = old.notes[m]
      /\ \A g \in RefundIds \ {f} : new.refunds[g] = old.refunds[g]
      /\ new.notes[n] = note /\ new.refunds[f] = refund /\ new.journals = js
  BY <1>1, <1>2 DEF Good, Database
<1>7. RefundChange(old, new, f, n)
  BY <1>3, <1>5, <1>6 DEF RefundChange, MakesUp
<1>8. Moves(old, new)
  BY <1>1, <1>7, RefundMoves
<1> QED BY <1>8 DEF old, new

\* A refund that counts neither before nor after leaves the notes as they are.
LEMMA UncountedMoves ==
  ASSUME SequentialInv, Good(rows'), NEW f \in RefundIds, NEW n \in NoteIds, NEW refund,
         rows' = [rows EXCEPT !.refunds[f] = refund],
         rows.refunds[f].status # "POSTED", refund.status # "POSTED"
  PROVE  Moves(rows, rows')
<1> DEFINE note == rows.notes[n]
           js == rows.journals
<1>1. rows' = [rows EXCEPT !.refunds[f] = refund, !.notes[n] = note, !.journals = js]
  BY NowBalanced DEF Good, Database
<1>2. \A m \in NoteIds : Counted(refund, m) = 0 /\ Counted(rows.refunds[f], m) = 0
  BY DEF Counted
<1>3. /\ note.applied \in Nat /\ note.applied + note.remaining = note.total
      /\ note.status = "NONE" => note.applied = 0
  BY NoteRowNow DEF NoteRow
<1>4. note.applied = rows.notes[n].applied - Counted(rows.refunds[f], n) + Counted(refund, n)
  BY <1>2, <1>3
<1>5. \A m \in NoteIds \ {n} : Counted(refund, m) = Counted(rows.refunds[f], m)
  BY <1>2
<1>6. js \in {rows.journals, Post(rows.journals, <<"refund", f>>)}
  OBVIOUS
<1> HIDE DEF note, js
<1>7. MakesUp(rows, f, n, refund, note)
  BY <1>3, <1>4, <1>5 DEF MakesUp
<1> QED BY <1>1, <1>6, <1>7, RefundRowMoves

LEMMA CreateRefundMoves ==
  ASSUME SequentialInv, Good(rows'), NEW w \in Workers, NEW f \in RefundIds, CreateRefund(w, f)
  PROVE  Moves(rows, rows')
<1>1. DOMAIN rows.notes = NoteIds
  BY NowBalanced DEF Good, Database
<1>2. PICK n \in NoteIds, a \in Amounts :
        rows' = [rows EXCEPT !.refunds[f] = [status |-> "DRAFT", amount |-> a, note |-> n]]
  BY <1>1 DEF CreateRefund, Commit
<1>3. rows.refunds[f].status = "NONE"
  <2>1. rows["refunds"] = rows.refunds
    OBVIOUS
  <2> QED BY <2>1 DEF CreateRefund, Creates
<1> DEFINE refund == [status |-> "DRAFT", amount |-> a, note |-> n]
<1>4. rows' = [rows EXCEPT !.refunds[f] = refund] /\ refund.status # "POSTED"
  BY <1>2
<1> HIDE DEF refund
<1> QED BY <1>3, <1>4, UncountedMoves

LEMMA VoidDraftRefundMoves ==
  ASSUME SequentialInv, Good(rows'), NEW w \in Workers, NEW f \in RefundIds,
         VoidDraftRefund(w, f)
  PROVE  Moves(rows, rows')
<1>1. Seen(w) = rows /\ Good(rows)
  BY ReadIsNow, NowBalanced DEF VoidDraftRefund, SetStatus, Changes
<1>2. rows.refunds[f].status = "DRAFT" /\ rows' = [rows EXCEPT !.refunds[f].status = "VOIDED"]
  BY <1>1 DEF VoidDraftRefund, SetStatus, Changes, Commit
<1> DEFINE n == rows.refunds[f].note
           refund == [rows.refunds[f] EXCEPT !.status = "VOIDED"]
<1>3. n \in NoteIds /\ rows.refunds[f] \in RefundRow
  BY <1>1, <1>2 DEF Good, StatusTells, Database
<1>4. rows' = [rows EXCEPT !.refunds[f] = refund] /\ refund.status # "POSTED"
  BY <1>1, <1>2, <1>3 DEF Good, Database, RefundRow
<1> HIDE DEF n, refund
<1> QED BY <1>2, <1>3, <1>4, UncountedMoves

LEMMA PostRefundMoves ==
  ASSUME SequentialInv, Good(rows'), NEW w \in Workers, NEW f \in RefundIds, PostRefund(w, f)
  PROVE  Moves(rows, rows')
<1> DEFINE old == rows.refunds[f]
           n == old.note
           note == Used(rows.notes[n], old.amount)
           refund == [old EXCEPT !.status = "POSTED"]
           js == Post(rows.journals, <<"refund", f>>)
<1>1. Seen(w) = rows /\ Good(rows)
  BY ReadIsNow, NowBalanced DEF PostRefund, Changes
<1>2. old.status = "DRAFT"
  BY <1>1 DEF PostRefund, Changes
<1>3. n \in NoteIds /\ old \in RefundRow
  BY <1>1, <1>2 DEF Good, StatusTells, Database
<1>4. rows' = rows \/
        rows' = [rows EXCEPT !.refunds[f].status = "POSTED", !.notes[n] = note,
                             !.journals = Post(@, <<"refund", f>>)]
  BY <1>1 DEF PostRefund, CommitIf, Commit
<1>5. CASE rows' = rows
  BY <1>5, NothingMoves
<1>6. CASE rows' = [rows EXCEPT !.refunds[f].status = "POSTED", !.notes[n] = note,
                                !.journals = Post(@, <<"refund", f>>)]
  <2>1. rows' = [rows EXCEPT !.refunds[f] = refund, !.notes[n] = note, !.journals = js]
    <3> HIDE DEF note, n
    <3> QED BY <1>1, <1>6 DEF Good, Database
  <2>2. refund.note = n /\ refund.status = "POSTED" /\ refund.amount = old.amount
          /\ old.amount \in Nat
    BY <1>3 DEF RefundRow
  <2>3. (\A m \in NoteIds : Counted(old, m) = 0)
          /\ (\A m \in NoteIds \ {n} : Counted(refund, m) = 0)
          /\ Counted(refund, n) = old.amount
    BY <1>2, <2>2 DEF Counted
  <2>4. /\ note.applied = rows.notes[n].applied + old.amount
        /\ note.remaining = rows.notes[n].remaining - old.amount
        /\ note.total = rows.notes[n].total /\ note.status # "NONE"
    BY <1>3, NoteRowNow DEF Used, NoteRow
  <2>5. /\ rows.notes[n] \in NoteRow
        /\ rows.notes[n].applied + rows.notes[n].remaining = rows.notes[n].total
    BY <1>3, NoteRowNow
  <2>6. js \in {rows.journals, Post(rows.journals, <<"refund", f>>)}
    OBVIOUS
  <2>7. rows.refunds[f] = old
    OBVIOUS
  <2> HIDE DEF note, refund, js, n, old
  <2>8. note.applied + note.remaining = note.total
    BY <2>2, <2>4, <2>5 DEF NoteRow
  <2>9. note.applied = rows.notes[n].applied - Counted(rows.refunds[f], n) + Counted(refund, n)
    BY <1>3, <2>2, <2>3, <2>4, <2>5, <2>7 DEF NoteRow
  <2>10. \A m \in NoteIds \ {n} : Counted(refund, m) = Counted(rows.refunds[f], m)
    BY <2>3, <2>7
  <2>11. MakesUp(rows, f, n, refund, note)
    BY <2>4, <2>8, <2>9, <2>10 DEF MakesUp
  <2> QED BY <1>3, <2>1, <2>6, <2>11, RefundRowMoves
<1> QED BY <1>4, <1>5, <1>6

\* The second part of the void of a refund: what it read is still there.
LEMMA VoidPostedRefundMoves ==
  ASSUME SequentialInv, Good(rows'), NEW w \in Workers, NEW f \in RefundIds,
         VoidPostedRefund(w, f)
  PROVE  Moves(rows, rows')
<1> DEFINE old == rows.refunds[f]
           n == old.note
           note == Returned(rows.notes[n], old.amount)
           refund == [old EXCEPT !.status = "VOIDED"]
<1>0. At(w, "voidRefund") /\ requests[w].doc = f
  BY DEF VoidPostedRefund, Resumes
<1>1. OnlyReversed(Seen(w), rows, "voidRefund", f) /\ Good(rows)
  BY <1>0, NowBalanced DEF SequentialInv, StillSo, At, Idle
<1>2. Seen(w).refunds = rows.refunds /\ Seen(w).notes = rows.notes /\ old.status = "POSTED"
  BY <1>1 DEF OnlyReversed
<1>3. n \in NoteIds /\ old \in RefundRow
  BY <1>1, <1>2 DEF Good, StatusTells, Database
<1>4. rows' = rows \/ rows' = [rows EXCEPT !.refunds[f].status = "VOIDED", !.notes[n] = note]
  BY <1>2 DEF VoidPostedRefund, CommitIf, Commit
<1>5. CASE rows' = rows
  BY <1>5, NothingMoves
<1>6. CASE rows' = [rows EXCEPT !.refunds[f].status = "VOIDED", !.notes[n] = note]
  <2> DEFINE js == rows.journals
  <2>1. rows' = [rows EXCEPT !.refunds[f] = refund, !.notes[n] = note, !.journals = js]
    <3> HIDE DEF note, n
    <3> QED BY <1>1, <1>6 DEF Good, Database
  <2>2. refund.status = "VOIDED" /\ old.amount \in Nat
    BY <1>3 DEF RefundRow
  <2>3. (\A m \in NoteIds : Counted(refund, m) = 0)
          /\ (\A m \in NoteIds \ {n} : Counted(old, m) = 0)
          /\ Counted(old, n) = old.amount
    BY <1>2, <2>2 DEF Counted
  <2>4. /\ note.applied = rows.notes[n].applied - old.amount
        /\ note.remaining = rows.notes[n].remaining + old.amount
        /\ note.total = rows.notes[n].total /\ note.status # "NONE"
    BY <1>3, NoteRowNow DEF Returned, NoteRow
  <2>5. /\ rows.notes[n] \in NoteRow
        /\ rows.notes[n].applied + rows.notes[n].remaining = rows.notes[n].total
    BY <1>3, NoteRowNow
  <2>6. js \in {rows.journals, Post(rows.journals, <<"refund", f>>)}
    OBVIOUS
  <2>7. rows.refunds[f] = old
    OBVIOUS
  <2> HIDE DEF note, refund, js, n, old
  <2>8. note.applied + note.remaining = note.total
    BY <2>2, <2>4, <2>5 DEF NoteRow
  <2>9. note.applied = rows.notes[n].applied - Counted(rows.refunds[f], n) + Counted(refund, n)
    BY <1>3, <2>2, <2>3, <2>4, <2>5, <2>7 DEF NoteRow
  <2>10. \A m \in NoteIds \ {n} : Counted(refund, m) = Counted(rows.refunds[f], m)
    BY <2>3, <2>7
  <2>11. MakesUp(rows, f, n, refund, note)
    BY <2>4, <2>8, <2>9, <2>10 DEF MakesUp
  <2> QED BY <1>3, <2>1, <2>6, <2>11, RefundRowMoves
<1> QED BY <1>4, <1>5, <1>6

LEMMA RefundsMove ==
  ASSUME SequentialInv, Good(rows'), NEW w \in Workers, NEW f \in RefundIds,
         \/ CreateRefund(w, f) \/ PostRefund(w, f)
         \/ ReverseRefund(w, f) \/ VoidPostedRefund(w, f) \/ VoidDraftRefund(w, f)
  PROVE  Moves(rows, rows')
<1>1. CASE ReverseRefund(w, f)
  <2>1. <<"refund", f>> \in Documents /\ <<"refund", f>>[1] = "refund"
    BY DEF Documents
  <2>2. rows' = [rows EXCEPT !.journals = Compensate(@, <<"refund", f>>)]
    BY <1>1 DEF ReverseRefund, Continue
  <2> QED BY <2>1, <2>2, CompensateMoves
<1> QED BY <1>1, CreateRefundMoves, PostRefundMoves, VoidPostedRefundMoves,
        VoidDraftRefundMoves

-----------------------------------------------------------------------------
(* The specification *)

LEMMA NextMoves ==
  ASSUME SequentialInv, Good(rows'), [Next]_vars
  PROVE  Moves(rows, rows')
<1>1. CASE UNCHANGED vars
  BY <1>1, NothingMoves DEF vars
<1>2. CASE Next
  <2>1. PICK w \in Workers :
          Read(w) \/ Abort(w) \/ PeriodNext(w) \/ InvoicesNext(w) \/ PaymentsNext(w) \/ NotesNext(w)
    BY <1>2 DEF Next
  <2>2. CASE Read(w) \/ Abort(w)
    BY <2>2, NothingMoves DEF Read, Abort
  <2>3. CASE NotesNext(w)
    <3>1. DOMAIN rows.notes = NoteIds /\ DOMAIN rows.refunds = RefundIds
      BY NowBalanced DEF Good, Database
    <3> QED BY <2>3, <3>1, NotesMove, RefundsMove DEF NotesNext
  <2> QED BY <2>1, <2>2, <2>3, PeriodMoves, InvoicesMove, PaymentsMove
<1> QED BY <1>1, <1>2

\* A request is over, has just read, or has only posted a reversal since.
LEMMA NextStillSo ==
  ASSUME Alone, SequentialInv, [Next]_vars
  PROVE  (\A w \in Workers : StillSo(w))'
<1>1. CASE UNCHANGED vars
  BY <1>1 DEF vars, SequentialInv, StillSo, At, Seen
<1>2. CASE Next
  <2>1. PICK w \in Workers :
          Read(w) \/ Abort(w) \/ PeriodNext(w) \/ InvoicesNext(w) \/ PaymentsNext(w) \/ NotesNext(w)
    BY <1>2 DEF Next
  <2>2. DOMAIN requests = Workers /\ \A v \in Workers : v = w
    BY DEF SequentialInv, Inv, Alone
  <2>3. CASE Read(w)
    <3>1. requests'[w] = [pc |-> "read", seen |-> rows] /\ rows' = rows
      BY <2>2, <2>3 DEF Read
    <3>2. StillSo(w)'
      BY <3>1 DEF StillSo, At, Seen
    <3> QED BY <2>2, <3>2
  <2>4. ASSUME NEW new, Commit(w, new)
        PROVE  (\A v \in Workers : StillSo(v))'
    <3>1. requests'[w] = Idle
      BY <2>2, <2>4 DEF Commit
    <3> QED BY <2>2, <3>1 DEF StillSo
  <2>5. ASSUME NEW d \in Documents, NEW pc \in {"voidNote", "voidRefund"},
               Continue(w, [rows EXCEPT !.journals = Compensate(@, d)], pc, d[2]),
               At(w, "read"), pc = "voidRefund" => rows.refunds[d[2]].status = "POSTED"
        PROVE  (\A v \in Workers : StillSo(v))'
    <3>1. Seen(w) = rows /\ Good(rows)
      BY <2>5, ReadIsNow, NowBalanced
    <3>2. requests'[w] = [pc |-> pc, seen |-> rows, doc |-> d[2]]
            /\ rows' = [rows EXCEPT !.journals = Compensate(@, d)]
      BY <2>2, <2>5, <3>1 DEF Continue
    <3>3. OnlyReversed(rows, rows', pc, d[2])
      BY <2>5, <3>1, <3>2 DEF OnlyReversed, Good, Database
    <3>4. StillSo(w)'
      BY <3>2, <3>3 DEF StillSo, At, Seen
    <3> QED BY <2>2, <3>4
  <2>6. CASE Abort(w) \/ PeriodNext(w)
    <3>1. \E new : Commit(w, new)
      BY <2>6 DEF Abort, PeriodNext, StartClose, ClosePeriod, RefuseClose, ReopenPeriod, Commit
    <3> QED BY <2>4, <3>1
  <2>7. CASE InvoicesNext(w)
    <3>1. \E new : Commit(w, new)
      BY <2>7 DEF InvoicesNext, CreateCustomerInvoice, UpdateCustomerInvoice,
         RemoveCustomerInvoice, IssueCustomerInvoice, CancelCustomerInvoice, VoidCustomerInvoice,
         CreateSupplierInvoice, UpdateSupplierInvoice, RemoveSupplierInvoice,
         SubmitSupplierInvoice, ApproveSupplierInvoice, PostSupplierInvoice,
         CancelSupplierInvoice, VoidSupplierInvoice, CreateInvoice, UpdateInvoice, RemoveInvoice,
         PostInvoice, VoidInvoice, SetStatus, CommitIf
    <3> QED BY <2>4, <3>1
  <2>8. CASE PaymentsNext(w)
    <3>1. \E new : Commit(w, new)
      BY <2>8 DEF PaymentsNext, CreatePayment, PostPayment, Allocate, VoidPayment, CommitIf
    <3> QED BY <2>4, <3>1
  <2>9. CASE NotesNext(w)
    <3>1. DOMAIN rows.notes = NoteIds /\ DOMAIN rows.refunds = RefundIds
      BY NowBalanced DEF Good, Database
    <3>2. ASSUME NEW n \in NoteIds, ReverseNote(w, n)
          PROVE  (\A v \in Workers : StillSo(v))'
      <4> DEFINE d == <<"note", n>>
      <4>1. d \in Documents /\ d[2] = n
        BY DEF Documents
      <4>2. Continue(w, [rows EXCEPT !.journals = Compensate(@, d)], "voidNote", d[2]) /\ At(w, "read")
        BY <3>2, <4>1 DEF ReverseNote, Changes
      <4> HIDE DEF d
      <4> QED BY <2>5, <4>1, <4>2
    <3>3. ASSUME NEW f \in RefundIds, ReverseRefund(w, f)
          PROVE  (\A v \in Workers : StillSo(v))'
      <4> DEFINE d == <<"refund", f>>
      <4>1. d \in Documents /\ d[2] = f
        BY DEF Documents
      <4>2. Continue(w, [rows EXCEPT !.journals = Compensate(@, d)], "voidRefund", d[2]) /\ At(w, "read")
        BY <3>3, <4>1 DEF ReverseRefund, Changes
      <4>3. rows.refunds[d[2]].status = "POSTED"
        BY <3>3, <4>1, <4>2, ReadIsNow DEF ReverseRefund, Changes
      <4> HIDE DEF d
      <4> QED BY <2>5, <4>1, <4>2, <4>3
    <3>4. \/ \E new : Commit(w, new)
          \/ \E n \in NoteIds : ReverseNote(w, n)
          \/ \E f \in RefundIds : ReverseRefund(w, f)
      BY <2>9, <3>1 DEF NotesNext, CreateCreditNote, UpdateCreditNote, ApproveCreditNote,
         PostCreditNote, ApplyCreditNote, VoidCreditNote, CreateDebitNote, UpdateDebitNote,
         ApproveDebitNote, PostDebitNote, ApplyDebitNote, VoidDebitNote, VoidNote, CreateNote,
         UpdateNote, PostNote, ApplyNote, VoidReversed, VoidUnposted, CreateRefund, PostRefund,
         VoidPostedRefund, VoidDraftRefund, SetStatus, CommitIf
    <3> QED BY <2>4, <3>2, <3>3, <3>4
  <2> QED BY <2>1, <2>3, <2>6, <2>7, <2>8, <2>9
<1> QED BY <1>1, <1>2

\* What the rows' sums are, in the words of the properties.
LEMMA BroughtIsSettled ==
  ASSUME NEW i \in InvoiceIds
  PROVE  SettledAmount(i) = Brought(rows.allocations, rows.applications, i)
BY DEF SettledAmount, Brought, SumFunction

LEMMA SettledIsPaid ==
  ASSUME SequentialInv, NEW i \in InvoiceIds
  PROVE  SettledAmount(i) = rows.invoices[i].paid
BY BroughtIsSettled, NowBalanced DEF Balanced, InvoiceAgrees

LEMMA SequentialPaid ==
  ASSUME SequentialInv
  PROVE  PaidIsSettled
BY SettledIsPaid DEF PaidIsSettled

\* The sum over the posted refunds of a note is that over all refunds of what
\* is counted of them.
LEMMA RefundedIsCounted ==
  ASSUME SequentialInv, NEW n \in NoteIds
  PROVE  LET refunded == {f \in RefundIds : rows.refunds[f].note = n
                                             /\ rows.refunds[f].status = "POSTED"}
         IN  SumFunction([f \in refunded |-> rows.refunds[f].amount])
               = RefundedOf(rows.refunds, n)
<1> DEFINE refunded == {f \in RefundIds : rows.refunds[f].note = n
                                            /\ rows.refunds[f].status = "POSTED"}
           a == [f \in refunded |-> rows.refunds[f].amount]
           c == [f \in RefundIds |-> Counted(rows.refunds[f], n)]
<1>1. refunded \in SUBSET RefundIds /\ IsFiniteSet(RefundIds) /\ IsFiniteSet(refunded)
  BY FiniteTables, FS_Subset
<1>2. \A f \in RefundIds : c[f] \in Int
  BY NowBalanced, CountedType
<1>3. \A f \in RefundIds \ refunded : c[f] = 0
  BY DEF Counted
<1>4. \A f \in refunded : a[f] = c[f]
  BY DEF Counted
<1>5. SumFunction(a) = SumFunctionOnSet(a, refunded)
  BY DEF SumFunction
<1>6. RefundedOf(rows.refunds, n) = SumFunctionOnSet(c, RefundIds)
  BY DEF RefundedOf
<1> HIDE DEF a, c, refunded
<1>7. SumFunctionOnSet(a, refunded) = SumFunctionOnSet(c, refunded)
  BY <1>1, <1>4, SumEqual
<1>8. SumFunctionOnSet(c, refunded) = SumFunctionOnSet(c, RefundIds)
  BY <1>1, <1>2, <1>3, SumSubset
<1>9. SumFunction(a) = RefundedOf(rows.refunds, n)
  BY <1>5, <1>6, <1>7, <1>8
<1> QED BY <1>9 DEF a, refunded

LEMMA SequentialUsed ==
  ASSUME SequentialInv
  PROVE  UsedIsAccountedFor
<1>1. ASSUME NEW p \in PaymentIds
      PROVE  rows.payments[p].allocated =
               SumFunction([i \in InvoiceIds |-> rows.allocations[<<p, i>>]])
  <2>1. rows.payments[p].allocated = RowTotal(rows.allocations, p)
    BY NowBalanced DEF Balanced, PaymentAgrees
  <2> QED BY <2>1 DEF RowTotal, SumFunction
<1>2. ASSUME NEW n \in NoteIds
      PROVE  LET refunded == {f \in RefundIds : rows.refunds[f].note = n
                                                  /\ rows.refunds[f].status = "POSTED"}
             IN  /\ rows.notes[n].applied + rows.notes[n].remaining = rows.notes[n].total
                 /\ rows.notes[n].applied =
                      SumFunction([i \in InvoiceIds |-> rows.applications[<<n, i>>]])
                        + SumFunction([f \in refunded |-> rows.refunds[f].amount])
  <2> DEFINE refunded == {f \in RefundIds : rows.refunds[f].note = n
                                              /\ rows.refunds[f].status = "POSTED"}
             s == SumFunction([f \in refunded |-> rows.refunds[f].amount])
             t == SumFunction([i \in InvoiceIds |-> rows.applications[<<n, i>>]])
  <2>1. NoteAgrees(rows, n)
    BY NowBalanced DEF Balanced
  <2>2. s = RefundedOf(rows.refunds, n)
    BY RefundedIsCounted
  <2>3. t = RowTotal(rows.applications, n)
    BY DEF RowTotal, SumFunction
  <2> HIDE DEF s, t
  <2>4. /\ rows.notes[n].applied + rows.notes[n].remaining = rows.notes[n].total
        /\ rows.notes[n].applied = t + s
    BY <2>1, <2>2, <2>3 DEF NoteAgrees
  <2> QED BY <2>4 DEF s, t
<1> QED BY <1>1, <1>2 DEF UsedIsAccountedFor

LEMMA SequentialInForce ==
  ASSUME SequentialInv
  PROVE  PostedIsInForce
<1>1. rows.journals \in [Documents -> JournalCounts] /\ Balanced(rows)
  BY NowBalanced DEF Good, Database
<1>2. ASSUME NEW d \in Documents, NEW status, JournalFits(rows.journals[d], status)
      PROVE  InForce(rows.journals, d) =
               IF status \in {"ISSUED", "POSTED", "PARTIALLY_PAID", "PAID",
                              "PARTIALLY_ALLOCATED", "ALLOCATED"} THEN 1 ELSE 0
  <2>1. rows.journals[d] \in JournalCounts
    BY <1>1
  <2> QED BY <1>2, <2>1 DEF JournalFits, InForceStatus, InForce, JournalCounts
<1> DEFINE Status(d) == CASE d[1] = "invoice" -> rows.invoices[d[2]].status
                          [] d[1] = "payment" -> rows.payments[d[2]].status
                          [] OTHER -> "-"
<1>3. ASSUME NEW d \in Documents, Status(d) # "-"
      PROVE  JournalFits(rows.journals[d], Status(d))
  <2>1. CASE d[1] = "invoice"
    <3>1. PICK i \in InvoiceIds : d = <<"invoice", i>>
      BY <2>1 DEF Documents
    <3>2. Status(d) = rows.invoices[i].status
      BY <3>1
    <3>3. InvoiceAgrees(rows, i)
      BY <1>1 DEF Balanced
    <3> QED BY <3>1, <3>2, <3>3 DEF InvoiceAgrees
  <2>2. CASE d[1] = "payment"
    <3>1. PICK p \in PaymentIds : d = <<"payment", p>>
      BY <2>2 DEF Documents
    <3>2. Status(d) = rows.payments[p].status
      BY <3>1
    <3>3. PaymentAgrees(rows, p)
      BY <1>1 DEF Balanced
    <3> QED BY <3>1, <3>2, <3>3 DEF PaymentAgrees
  <2>3. CASE d[1] \notin {"invoice", "payment"}
    BY <1>3, <2>3
  <2> QED BY <2>1, <2>2, <2>3
<1>4. ASSUME NEW d \in Documents
      PROVE  Status(d) # "-" =>
               InForce(rows.journals, d) =
                 IF Status(d) \in {"ISSUED", "POSTED", "PARTIALLY_PAID", "PAID",
                                   "PARTIALLY_ALLOCATED", "ALLOCATED"} THEN 1 ELSE 0
  <2> DEFINE s == Status(d)
  <2>1. s # "-" => JournalFits(rows.journals[d], s)
    BY <1>3
  <2> HIDE DEF s
  <2>2. s # "-" => InForce(rows.journals, d) =
                     IF s \in {"ISSUED", "POSTED", "PARTIALLY_PAID", "PAID",
                               "PARTIALLY_ALLOCATED", "ALLOCATED"} THEN 1 ELSE 0
    BY <1>2, <2>1
  <2> QED BY <2>2 DEF s
<1> QED BY <1>4, Zenon DEF PostedIsInForce

LEMMA SequentialInit ==
  ASSUME Init
  PROVE  SequentialInv
<1>1. PICK side \in {"AR", "AP"} : rows = NoRows(side)
  BY SidesAssumption DEF Init
<1>2. IsFiniteSet(InvoiceIds) /\ IsFiniteSet(PaymentIds) /\ IsFiniteSet(NoteIds)
        /\ IsFiniteSet(RefundIds)
  BY FiniteTables
<1>3. /\ \A pi \in PaymentIds \X InvoiceIds : rows.allocations[pi] = 0
      /\ \A ni \in NoteIds \X InvoiceIds : rows.applications[ni] = 0
  BY <1>1 DEF NoRows
<1>4. ASSUME NEW i \in InvoiceIds PROVE Brought(rows.allocations, rows.applications, i) = 0
  <2> DEFINE f == [p \in PaymentIds |-> rows.allocations[<<p, i>>]]
             g == [n \in NoteIds |-> rows.applications[<<n, i>>]]
  <2>1. (\A p \in PaymentIds : f[p] = 0) /\ (\A n \in NoteIds : g[n] = 0)
    BY <1>3
  <2> HIDE DEF f, g
  <2>2. SumFunctionOnSet(f, PaymentIds) = 0 /\ SumFunctionOnSet(g, NoteIds) = 0
    BY <1>2, <2>1, SumZero
  <2> QED BY <2>2 DEF f, g, Brought
<1>5. ASSUME NEW p \in PaymentIds PROVE RowTotal(rows.allocations, p) = 0
  <2> DEFINE f == [i \in InvoiceIds |-> rows.allocations[<<p, i>>]]
  <2>1. \A i \in InvoiceIds : f[i] = 0
    BY <1>3
  <2> HIDE DEF f
  <2>2. SumFunctionOnSet(f, InvoiceIds) = 0
    BY <1>2, <2>1, SumZero
  <2> QED BY <2>2 DEF f, RowTotal
<1>6. ASSUME NEW n \in NoteIds
      PROVE RowTotal(rows.applications, n) = 0 /\ RefundedOf(rows.refunds, n) = 0
  <2> DEFINE f == [i \in InvoiceIds |-> rows.applications[<<n, i>>]]
             g == [r \in RefundIds |-> Counted(rows.refunds[r], n)]
  <2>1. \A i \in InvoiceIds : f[i] = 0
    BY <1>3
  <2>2. \A r \in RefundIds : g[r] = 0
    BY <1>1 DEF NoRows, NoRefund, Counted
  <2> HIDE DEF f, g
  <2>3. SumFunctionOnSet(f, InvoiceIds) = 0 /\ SumFunctionOnSet(g, RefundIds) = 0
    BY <1>2, <2>1, <2>2, SumZero
  <2> QED BY <2>3 DEF f, g, RowTotal, RefundedOf
<1>7. \A d \in Documents : rows.journals[d] = NoJournals
  BY <1>1 DEF NoRows
<1>8. ASSUME NEW i \in InvoiceIds PROVE InvoiceAgrees(rows, i)
  <2>1. rows.invoices[i] = NoInvoice /\ rows.journals[<<"invoice", i>>] = NoJournals
    BY <1>1, <1>7, InvoiceDocument DEF NoRows
  <2> QED BY <1>4, <2>1 DEF InvoiceAgrees, NoInvoice, NoJournals, JournalFits, InForceStatus
<1>9. ASSUME NEW p \in PaymentIds PROVE PaymentAgrees(rows, p)
  <2>1. rows.payments[p] = NoPayment /\ rows.journals[<<"payment", p>>] = NoJournals
    BY <1>1, <1>7, PaymentDocument DEF NoRows
  <2> QED BY <1>5, <2>1 DEF PaymentAgrees, NoPayment, NoJournals, JournalFits, InForceStatus
<1>10. ASSUME NEW n \in NoteIds PROVE NoteAgrees(rows, n)
  <2>1. rows.notes[n] = NoNote
    BY <1>1 DEF NoRows
  <2> QED BY <1>6, <2>1 DEF NoteAgrees, NoNote
<1>11. \A w \in Workers : StillSo(w)
  BY DEF Init, StillSo
<1> QED BY <1>8, <1>9, <1>10, <1>11, InitGood DEF SequentialInv, Balanced

LEMMA SequentialNext ==
  ASSUME Alone, SequentialInv, [Next]_vars
  PROVE  SequentialInv' /\ Moves(rows, rows')
<1>1. Inv'
  BY NextKeeps DEF SequentialInv
<1>2. Good(rows')
  BY <1>1 DEF Inv
<1>3. Moves(rows, rows') /\ (\A w \in Workers : StillSo(w))'
  BY <1>2, NextMoves, NextStillSo
<1> QED BY <1>1, <1>3 DEF SequentialInv, Moves

THEOREM SequentialInvariance ==
  ASSUME Alone
  PROVE  Spec => []SequentialInv
<1>1. Init => SequentialInv
  BY SequentialInit
<1>2. SequentialInv /\ [Next]_vars => SequentialInv'
  BY SequentialNext
<1> QED BY <1>1, <1>2, PTL DEF Spec

\* One request at a time, an invoice has been paid what payments allocated and
\* notes applied to it, however the requests end.
THEOREM PaidSafety ==
  ASSUME Alone
  PROVE  Spec => []PaidIsSettled
<1>1. SequentialInv => PaidIsSettled
  BY SequentialPaid
<1> QED BY <1>1, SequentialInvariance, PTL

\* One request at a time, a payment has allocated what its allocations add up
\* to, and a note used what was applied and refunded of it.
THEOREM UsedSafety ==
  ASSUME Alone
  PROVE  Spec => []UsedIsAccountedFor
<1>1. SequentialInv => UsedIsAccountedFor
  BY SequentialUsed
<1> QED BY <1>1, SequentialInvariance, PTL

\* One request at a time, exactly one journal is in force for an invoice or
\* payment in the books and none for any other.
THEOREM InForceSafety ==
  ASSUME Alone
  PROVE  Spec => []PostedIsInForce
<1>1. SequentialInv => PostedIsInForce
  BY SequentialInForce
<1> QED BY <1>1, SequentialInvariance, PTL

\* One request at a time, what is allocated of a payment is never taken back.
THEOREM AllocationSafety ==
  ASSUME Alone
  PROVE  Spec => AllocatedStays
<1>1. SequentialInv /\ [Next]_vars =>
        [\A p \in PaymentIds : rows'.payments[p].allocated >= rows.payments[p].allocated]_vars
  BY SequentialNext DEF Moves, KeepsAllocated
<1> QED BY <1>1, SequentialInvariance, PTL DEF Spec, AllocatedStays

-----------------------------------------------------------------------------
(* IdealSettlement is implemented. *)

BooksNow == [i \in InvoiceIds |-> Books(rows.invoices[i].status)]
SettledNow == [i \in InvoiceIds |-> SettledAmount(i)]

\* The settled amounts are the paid ones, before and after a step.
Shown(db) ==
  /\ SettledNow = [i \in InvoiceIds |-> db.invoices[i].paid]
  /\ BooksNow = [i \in InvoiceIds |-> Where(db, i)]

LEMMA ShownNow == SequentialInv => Shown(rows)
<1> QED BY SettledIsPaid DEF Shown, SettledNow, BooksNow, Where

LEMMA ShownNext == SequentialInv' => Shown(rows)'
<1> QED BY ShownNow, PTL

LEMMA IdealInit ==
  ASSUME Init
  PROVE  Ideal!Init
<1>1. SequentialInv
  BY SequentialInit
<1>2. \A i \in InvoiceIds : Where(rows, i) = "before" /\ rows.invoices[i].paid = 0
  BY DEF Init, NoRows, NoInvoice, Where, Books
<1>3. BooksNow = [i \in InvoiceIds |-> "before"] /\ SettledNow = [i \in InvoiceIds |-> 0]
  BY <1>1, <1>2, ShownNow DEF Shown
<1> QED BY <1>3 DEF Ideal!Init, BooksNow, SettledNow

LEMMA IdealNext ==
  ASSUME SequentialInv, SequentialInv', Promised(rows, rows')
  PROVE  Ideal!Next
<1> DEFINE b == BooksNow
           s == SettledNow
           c == BooksNow'
           t == SettledNow'
<1>1. /\ b = [i \in InvoiceIds |-> Where(rows, i)]
      /\ s = [i \in InvoiceIds |-> rows.invoices[i].paid]
      /\ c = [i \in InvoiceIds |-> Where(rows', i)]
      /\ t = [i \in InvoiceIds |-> rows'.invoices[i].paid]
  BY ShownNow, ShownNext DEF Shown
<1>2. CASE \A i \in InvoiceIds : SameInvoice(rows, rows', i) \/ PaidMore(rows, rows', i)
  <2>1. c = b
    BY <1>1, <1>2 DEF SameInvoice, PaidMore
  <2>2. \A i \in InvoiceIds : t[i] # s[i] => b[i] = "in" /\ t[i] > s[i]
    BY <1>1, <1>2 DEF SameInvoice, PaidMore
  <2>3. DOMAIN t = InvoiceIds
    BY <1>1
  <2>4. Ideal!Settle
    BY <2>1, <2>2, <2>3 DEF Ideal!Settle, BooksNow, SettledNow
  <2> QED BY <2>4 DEF Ideal!Next
<1>3. CASE \E i \in InvoiceIds :
             Turns(rows, rows', i)
               /\ \A j \in InvoiceIds \ {i} : SameInvoice(rows, rows', j)
  <2>1. PICK i \in InvoiceIds :
          Turns(rows, rows', i) /\ \A j \in InvoiceIds \ {i} : SameInvoice(rows, rows', j)
    BY <1>3
  <2>2. t = s
    BY <1>1, <2>1 DEF Turns, SameInvoice
  <2>3. CASE Where(rows, i) = "before" /\ Where(rows', i) = "in"
    <3>1. b[i] = "before" /\ c = [b EXCEPT ![i] = "in"]
      BY <1>1, <2>1, <2>3 DEF SameInvoice
    <3>2. Ideal!Enter(i)
      BY <2>2, <3>1 DEF Ideal!Enter, BooksNow, SettledNow
    <3> QED BY <3>2 DEF Ideal!Next
  <2>4. CASE /\ Where(rows, i) \in {"before", "in"} /\ Where(rows', i) = "out"
             /\ rows.invoices[i].paid = 0
    <3>1. b[i] \in {"before", "in"} /\ s[i] = 0 /\ c = [b EXCEPT ![i] = "out"]
      BY <1>1, <2>1, <2>4 DEF SameInvoice
    <3>2. Ideal!Leave(i)
      BY <2>2, <3>1 DEF Ideal!Leave, BooksNow, SettledNow
    <3> QED BY <3>2 DEF Ideal!Next
  <2> QED BY <2>1, <2>3, <2>4 DEF Turns
<1> QED BY <1>2, <1>3 DEF Promised

\* One request at a time, payables and receivables implement IdealSettlement:
\* money is brought in only on invoices in the books, and an invoice leaves
\* them only unpaid, and for good.
THEOREM Implements ==
  ASSUME Alone
  PROVE  Spec => SettlesAsPromised
<1>1. Init => Ideal!Init
  BY IdealInit
<1>2. SequentialInv /\ SequentialInv' /\ [Next]_vars =>
        [Ideal!Next]_<<[i \in InvoiceIds |-> Books(rows.invoices[i].status)],
                       [i \in InvoiceIds |-> SettledAmount(i)]>>
  BY SequentialNext, IdealNext DEF Moves
<1> QED BY <1>1, <1>2, SequentialInvariance, PTL DEF Spec, SettlesAsPromised, Ideal!Spec
=============================================================================
