------------------------------ MODULE Finance -------------------------------
(***************************************************************************)
(* Accounting beside the ledger: banking and budgets, fixed assets, taxes. *)
(***************************************************************************)
EXTENDS Handlers

-----------------------------------------------------------------------------
(***************************************************************************)
(* banking/: one bank statement, its transactions and the session that     *)
(* reconciles it; and accounting/budgets, of one fiscal year.              *)
(***************************************************************************)

Transactions == {1, 2}
BankPayments == {1, 2}

\* Every payment is of amount 1, as is every transaction that can match one.
NoBanking ==
  [domain |-> "banking",
   statement |-> [status |-> "NONE", closing |-> 0],
   session |-> "NONE",
   lines |-> [t \in Transactions |->
                [status |-> "NONE", amount |-> 0, payment |-> 0, adjustments |-> 0]]]

StatementIs(db, statuses) == db.statement.status \in statuses

\* The opening balance is 0.
CreateStatement(w) ==
  /\ At(w, "read")
  /\ rows.statement.status = "NONE"
  /\ \E c \in 0..MaxAmount :
       Commit(w, [rows EXCEPT !.statement = [status |-> "DRAFT", closing |-> c]])

\* One import of new transactions.
ImportTransactions(w) ==
  /\ At(w, "read")
  /\ ~ StatementIs(Seen(w), {"NONE", "RECONCILED", "LOCKED"})
  /\ \E new \in (SUBSET {t \in Transactions : rows.lines[t].status = "NONE"}) \ {{}} :
     \E amount \in [new -> Amounts] :
       Commit(w, [rows EXCEPT
         !.statement.status = IF Seen(w).statement.status = "DRAFT" THEN "IMPORTED" ELSE @,
         !.lines = [t \in DOMAIN @ |->
            IF t \in new
            THEN [status |-> "UNMATCHED", amount |-> amount[t], payment |-> 0, adjustments |-> 0]
            ELSE @[t]]])

\* A transaction that may still be matched, adjusted or unmatched.
Open(db, t, statuses) ==
  /\ db.lines[t].status \in statuses
  /\ ~ StatementIs(db, {"RECONCILED", "LOCKED"})

\* Mutant: a payment may be matched to two transactions.
NeverTaken(db, p, t) == FALSE

Taken(db, p, t) == \E u \in Transactions \ {t} : db.lines[u].payment = p

MatchPayment(w, t) ==
  /\ At(w, "read")
  /\ Open(Seen(w), t, {"UNMATCHED"})
  /\ Seen(w).lines[t].amount = 1
  /\ \E p \in BankPayments :
       /\ ~ Taken(Seen(w), p, t)
       /\ Commit(w, [rows EXCEPT !.lines[t].status = "MATCHED", !.lines[t].payment = p])

\* Any posted journal entry, of whatever amount, however often it is matched.
MatchJournal(w, t) ==
  /\ At(w, "read")
  /\ Open(Seen(w), t, {"UNMATCHED"})
  /\ Commit(w, [rows EXCEPT !.lines[t].status = "MATCHED", !.lines[t].payment = 0])

\* An adjustment that was posted stays in the ledger.
Unmatch(w, t) ==
  /\ At(w, "read")
  /\ Open(Seen(w), t, {"MATCHED", "ADJUSTED"})
  /\ Commit(w, [rows EXCEPT !.lines[t].status = "UNMATCHED", !.lines[t].payment = 0])

\* Bound: an adjustment is posted at most twice.
PostAdjustment(w, t) ==
  /\ At(w, "read")
  /\ Open(Seen(w), t, {"UNMATCHED"})
  /\ rows.lines[t].adjustments < 2
  /\ Commit(w, [rows EXCEPT !.lines[t].status = "ADJUSTED", !.lines[t].adjustments = @ + 1])

\* The session of a statement, which the unique key on statementId keeps the
\* only one, even when it is cancelled.
StartReconciliation(w) ==
  /\ At(w, "read")
  /\ ~ StatementIs(Seen(w), {"NONE", "RECONCILED", "LOCKED"})
  /\ Seen(w).session \notin {"OPEN", "COMPLETED"}
  /\ CommitIf(w, rows.session = "NONE",
              [rows EXCEPT !.session = "OPEN", !.statement.status = "RECONCILING"])

MatchedLines(db) == {t \in Transactions : db.lines[t].status \in {"MATCHED", "ADJUSTED"}}
Reconciled(db) == SumFunction([t \in MatchedLines(db) |-> db.lines[t].amount])

CompleteReconciliation(w) ==
  /\ At(w, "read")
  /\ Seen(w).session = "OPEN"
  /\ \A t \in Transactions : Seen(w).lines[t].status # "UNMATCHED"
  /\ Reconciled(Seen(w)) = Seen(w).statement.closing
  /\ Commit(w, [rows EXCEPT !.session = "COMPLETED", !.statement.status = "LOCKED"])

CancelReconciliation(w) ==
  /\ At(w, "read")
  /\ Seen(w).session = "OPEN"
  /\ Commit(w, [rows EXCEPT !.session = "CANCELLED", !.statement.status = "IMPORTED"])

BankingNext(w) ==
  /\ rows.domain = "banking"
  /\ \/ CreateStatement(w) \/ ImportTransactions(w)
     \/ StartReconciliation(w) \/ CompleteReconciliation(w) \/ CancelReconciliation(w)
     \/ \E t \in Transactions :
          MatchPayment(w, t) \/ MatchJournal(w, t) \/ Unmatch(w, t) \/ PostAdjustment(w, t)

-----------------------------------------------------------------------------
(* Budgets *)

Budgets == {1, 2}

NoBudgets ==
  [domain |-> "budgets", budgets |-> [b \in Budgets |-> [status |-> "NONE", lined |-> FALSE]]]

\* lined: the budget has lines, all inside its dates.
CreateBudget(w, b) ==
  /\ Creates(w, "budgets", b)
  /\ \E lined \in BOOLEAN :
       Commit(w, [rows EXCEPT !.budgets[b] = [status |-> "DRAFT", lined |-> lined]])

UpdateBudget(w, b) ==
  /\ Changes(w, "budgets", b, {"DRAFT"})
  /\ \E lined \in BOOLEAN : Commit(w, [rows EXCEPT !.budgets[b].lined = lined])

DeleteBudget(w, b) == SetStatus(w, "budgets", b, {"DRAFT", "CANCELLED"}, "DELETED")

SubmitBudget(w, b) ==
  Seen(w).budgets[b].lined /\ SetStatus(w, "budgets", b, {"DRAFT"}, "SUBMITTED")

ApproveBudget(w, b) == SetStatus(w, "budgets", b, {"SUBMITTED"}, "APPROVED")
RejectBudget(w, b) == SetStatus(w, "budgets", b, {"SUBMITTED"}, "REJECTED")
CancelBudget(w, b) == SetStatus(w, "budgets", b, {"DRAFT", "SUBMITTED"}, "CANCELLED")
CloseBudget(w, b) == SetStatus(w, "budgets", b, {"ACTIVE"}, "CLOSED")

\* A draft may be activated, without lines and without approval.
ActivateBudget(w, b) ==
  /\ Changes(w, "budgets", b, {"APPROVED", "DRAFT"})
  /\ Commit(w, [rows EXCEPT !.budgets = [c \in DOMAIN @ |->
       IF c = b THEN [@[c] EXCEPT !.status = "ACTIVE"]
       ELSE IF @[c].status = "ACTIVE" THEN [@[c] EXCEPT !.status = "CLOSED"] ELSE @[c]]])

BudgetsNext(w) ==
  /\ rows.domain = "budgets"
  /\ \E b \in Budgets :
       \/ CreateBudget(w, b) \/ UpdateBudget(w, b) \/ DeleteBudget(w, b)
       \/ SubmitBudget(w, b) \/ ApproveBudget(w, b) \/ RejectBudget(w, b)
       \/ CancelBudget(w, b) \/ CloseBudget(w, b) \/ ActivateBudget(w, b)

-----------------------------------------------------------------------------
\* A statement that is locked is reconciled, whatever was matched, unmatched,
\* adjusted and imported before or during the session: every transaction is
\* accounted for, together they make the closing balance, and no payment is
\* counted for two of them.  And a fiscal year has one active budget.
LockedIsReconciled ==
  /\ rows.domain = "banking" =>
       /\ StatementIs(rows, {"LOCKED"}) =>
            /\ \A t \in Transactions : rows.lines[t].status # "UNMATCHED"
            /\ Reconciled(rows) = rows.statement.closing
       /\ \A t, u \in Transactions :
            t # u /\ rows.lines[t].payment # 0 => rows.lines[t].payment # rows.lines[u].payment
  /\ rows.domain = "budgets" =>
       \A b, c \in Budgets :
         rows.budgets[b].status = "ACTIVE" /\ rows.budgets[c].status = "ACTIVE" => b = c

-----------------------------------------------------------------------------
(***************************************************************************)
(* assets/: an asset that is capitalized, depreciated over MaxLife months, *)
(* and disposed of or voided.  Money is counted in the smallest unit the   *)
(* columns hold (four decimals): what is stored is rounded to it.          *)
(***************************************************************************)

CONSTANT MaxLife       \* bound on the months of an asset's life

ASSUME MaxLifeAssumption == MaxLife \in Nat

Months == 1..MaxLife

NoAssets ==
  [domain |-> "assets",
   asset |-> [a \in {1} |-> [status |-> "NONE", base |-> 0, life |-> 1, accumulated |-> 0,
                             capitalized |-> FALSE]],
   schedule |-> [m \in Months |-> [status |-> "NONE", amount |-> 0]]]

\* base: acquisition cost less residual value.
CreateAsset(w, a) ==
  /\ Creates(w, "asset", a)
  /\ \E base \in 1..(2 * MaxAmount), life \in Months :
       Commit(w, [rows EXCEPT !.asset[a] = [status |-> "DRAFT", base |-> base, life |-> life,
                                            accumulated |-> 0, capitalized |-> FALSE]])

UpdateAsset(w, a) ==
  /\ Changes(w, "asset", a, {"DRAFT"})
  /\ \E base \in 1..(2 * MaxAmount), life \in Months :
       Commit(w, [rows EXCEPT !.asset[a].base = base, !.asset[a].life = life])

\* A month's depreciation, base / life, as the column stores it.  The last
\* month gets base less what the months before have, but those are subtracted
\* before they are rounded, so it is base / life again.
MonthlyDepreciation(base, life) == (2 * base + life) \div (2 * life)

\* Every month falls into a fiscal period.  The asset is ACTIVE at once when it
\* is in service already.
Capitalize(w, a) ==
  LET asset == Seen(w).asset[a]
  IN /\ Changes(w, "asset", a, {"DRAFT"})
     /\ \E status \in {"ACTIVE", "CAPITALIZED"} :
          Commit(w, [rows EXCEPT
            !.asset[a].status = status,
            !.asset[a].capitalized = TRUE,
            !.schedule = [m \in Months |->
               IF m <= asset.life
               THEN [status |-> "SCHEDULED", amount |-> MonthlyDepreciation(asset.base, asset.life)]
               ELSE @[m]]])

\* A draft may be activated too, and then is never capitalized.
Activate(w, a) == SetStatus(w, "asset", a, {"CAPITALIZED", "DRAFT"}, "ACTIVE")

\* runDepreciation() posts the entries of a period with this, one transaction each.
PostDepreciation(w, a, m) ==
  LET asset == Seen(w).asset[a]
      accumulated == asset.accumulated + Seen(w).schedule[m].amount
  IN /\ Changes(w, "asset", a, {"ACTIVE", "CAPITALIZED"})
     /\ Seen(w).schedule[m].status = "SCHEDULED"
     /\ Commit(w, [rows EXCEPT
          !.schedule[m].status = "POSTED",
          !.asset[a].accumulated = accumulated,
          !.asset[a].status = IF accumulated >= asset.base THEN "FULLY_DEPRECIATED" ELSE @])

VoidRest(schedule) ==
  [m \in Months |-> IF schedule[m].status = "SCHEDULED"
                    THEN [schedule[m] EXCEPT !.status = "VOIDED"] ELSE schedule[m]]

VoidAsset(w, a) ==
  /\ Changes(w, "asset", a, {"DRAFT", "CAPITALIZED", "ACTIVE", "FULLY_DEPRECIATED"})
  /\ \A m \in Months : Seen(w).schedule[m].status # "POSTED"
  /\ Commit(w, [rows EXCEPT !.asset[a].status = "VOIDED", !.schedule = VoidRest(@)])

DisposeAsset(w, a) ==
  /\ Changes(w, "asset", a, {"ACTIVE", "CAPITALIZED", "FULLY_DEPRECIATED"})
  /\ Commit(w, [rows EXCEPT !.asset[a].status = "DISPOSED", !.schedule = VoidRest(@)])

AssetsNext(w) ==
  /\ rows.domain = "assets"
  /\ \E a \in DOMAIN rows.asset :
       \/ CreateAsset(w, a) \/ UpdateAsset(w, a) \/ Capitalize(w, a) \/ Activate(w, a)
       \/ VoidAsset(w, a) \/ DisposeAsset(w, a)
       \/ \E m \in Months : PostDepreciation(w, a, m)

-----------------------------------------------------------------------------
PostedMonths(db) == {m \in DOMAIN db.schedule : db.schedule[m].status = "POSTED"}

\* An asset has depreciated by the months that are posted, in whatever order;
\* an asset that is voided has depreciated by nothing; and of an asset that is
\* gone no month is left to be posted.
DepreciationAddsUp ==
  rows.domain = "assets" =>
    \A a \in DOMAIN rows.asset :
      LET asset == rows.asset[a]
      IN /\ asset.accumulated = SumFunction([m \in PostedMonths(rows) |-> rows.schedule[m].amount])
         /\ asset.status = "VOIDED" => PostedMonths(rows) = {}
         /\ asset.status \in {"DISPOSED", "VOIDED"} =>
              \A m \in DOMAIN rows.schedule : rows.schedule[m].status # "SCHEDULED"
         /\ asset.status = "FULLY_DEPRECIATED" => asset.accumulated >= asset.base

-----------------------------------------------------------------------------
(***************************************************************************)
(* tax/tax-transactions and tax/tax-periods: the tax ledger, one period of *)
(* it, and the journal entries posted with it.                             *)
(***************************************************************************)

TaxSources == {1, 2}       \* business documents; 1 charges output tax, 2 input tax

NoTax ==
  [domain |-> "tax",
   period |-> [status |-> "NONE", output |-> 0, input |-> 0],
   taxes |-> [s \in TaxSources |-> 0],        \* by the unique key of the source
   posted |-> [s \in TaxSources |-> 0],       \* journal entries of each source
   locked |-> [s \in TaxSources |-> 0]]       \* history: the ledger when it was locked

CreateTaxPeriod(w) ==
  /\ At(w, "read")
  /\ rows.period.status = "NONE"
  /\ Commit(w, [rows EXCEPT !.period.status = "OPEN"])

\* What was recorded already is returned.
Recordable(w, s) == Seen(w).period.status # "LOCKED" /\ Seen(w).taxes[s] = 0

\* In the transaction of the caller, here a claim that is posted: all or nothing.
RecordTaxInside(w, s) ==
  /\ At(w, "read") /\ Recordable(w, s)
  /\ \E n \in Amounts : CommitIf(w, rows.taxes[s] = 0, [rows EXCEPT !.taxes[s] = n])

\* Alone, the journal entry is a statement before the one that records the tax.
PostTax(w, s) ==
  /\ At(w, "read") /\ Recordable(w, s)
  /\ rows.posted[s] < 2      \* bound: half-done recordings of one source
  /\ Proceed(w, [rows EXCEPT !.posted[s] = @ + 1], "taxPosted", s)

RecordTax(w, s) ==
  /\ Resumes(w, "taxPosted", s)
  /\ \E n \in Amounts : CommitIf(w, rows.taxes[s] = 0, [rows EXCEPT !.taxes[s] = n])

\* The sums of what was read; OPEN and PREPARED periods alike.
PrepareTaxPeriod(w) ==
  /\ At(w, "read")
  /\ Seen(w).period.status \in {"OPEN", "PREPARED"}
  /\ Commit(w, [rows EXCEPT !.period = [status |-> "PREPARED", output |-> Seen(w).taxes[1],
                                        input |-> Seen(w).taxes[2]]])

\* The period need not be prepared, nor is it prepared again.
LockTaxPeriod(w) ==
  /\ At(w, "read")
  /\ Seen(w).period.status \in {"OPEN", "PREPARED"}
  /\ Commit(w, [rows EXCEPT !.period.status = "LOCKED", !.locked = rows.taxes])

TaxNext(w) ==
  /\ rows.domain = "tax"
  /\ \/ CreateTaxPeriod(w) \/ PrepareTaxPeriod(w) \/ LockTaxPeriod(w)
     \/ \E s \in TaxSources : RecordTaxInside(w, s) \/ PostTax(w, s) \/ RecordTax(w, s)

-----------------------------------------------------------------------------
\* The tax ledger of a locked period is the one that was locked; what a period
\* declares is in the ledger, where it is not altered.
LockedTaxesStay ==
  rows.domain = "tax" =>
    /\ rows.period.status = "LOCKED" => rows.taxes = rows.locked
    /\ rows.period.output \in {0, rows.taxes[1]}
    /\ rows.period.input \in {0, rows.taxes[2]}
=============================================================================
