------------------------------- MODULE Ledger -------------------------------
(***************************************************************************)
(* accounting/: the chart of accounts, the fiscal periods, journal entries *)
(* made by hand, their reversals, and the statements and budget reports    *)
(* that are computed from the entries.  An entry has two lines, which      *)
(* debit and credit an account each.  Days are 1..Today; period p is the   *)
(* day p.                                                                  *)
(***************************************************************************)
EXTENDS Handlers

CONSTANTS Accounts,      \* ids of accounts; the code of account 1 starts with 10
          AccountTypes,  \* subset of the account types
          EntryIds,      \* entries made by hand, one of which may be
          ReversalIds    \* reversed by one of these

Today == 2
Days == 1..Today
Entries == EntryIds \cup ReversalIds

\* 0 stands for no account and no entry.
ASSUME LedgerAssumption ==
  /\ IsFiniteSet(Accounts) /\ 0 \notin Accounts /\ IsFiniteSet(Entries) /\ 0 \notin Entries
  /\ AccountTypes \subseteq {"ASSET", "LIABILITY", "EQUITY", "REVENUE", "EXPENSE"}

NoAccount == [status |-> "NONE", type |-> "ASSET", parent |-> 0]
NoEntry == [status |-> "NONE", period |-> 0, day |-> 0, reverses |-> 0, lines |-> <<>>]

NoLedger ==
  [domain |-> "ledger",
   accounts |-> [a \in Accounts |-> NoAccount],
   periods |-> [p \in Days |-> [status |-> "NONE"]],
   entries |-> [e \in Entries |-> NoEntry]]

-----------------------------------------------------------------------------
(* accounting/accounts *)

LiveAccounts(r) == {a \in Accounts : r.accounts[a].status \in {"ACTIVE", "INACTIVE"}}

Parents(r) == LiveAccounts(r) \cup {0}

CreateAccount(w, a) ==
  /\ Creates(w, "accounts", a)
  /\ \E t \in AccountTypes, p \in Parents(Seen(w)) :
       Commit(w, [rows EXCEPT !.accounts[a] = [status |-> "ACTIVE", type |-> t, parent |-> p]])

\* The walk from target through its parents meets a, or an account twice.
Circular(r, a, target) ==
  LET steps == 0..Cardinality(Accounts)
      up[n \in steps] == IF n = 0 THEN target
                         ELSE IF up[n - 1] \in LiveAccounts(r) THEN r.accounts[up[n - 1]].parent ELSE 0
  IN \E n \in steps :
       up[n] # 0 /\ (up[n] = a \/ \E m \in 0..(n - 1) : up[m] = up[n])

UpdateAccount(w, a) ==
  /\ Changes(w, "accounts", a, {"ACTIVE", "INACTIVE"})
  /\ \E s \in {"ACTIVE", "INACTIVE"}, t \in AccountTypes, p \in Parents(Seen(w)) :
       /\ p # Seen(w).accounts[a].parent => ~ Circular(Seen(w), a, p)
       /\ Commit(w, [rows EXCEPT !.accounts[a] = [status |-> s, type |-> t, parent |-> p]])

\* Also a line of a voided entry, and a child that is deleted, keep an account.
HasLines(r, a) == \E e \in Entries : \E l \in DOMAIN r.entries[e].lines : r.entries[e].lines[l].account = a

DeleteAccount(w, a) ==
  /\ Changes(w, "accounts", a, {"ACTIVE", "INACTIVE"})
  /\ \A b \in Accounts : Seen(w).accounts[b].parent # a
  /\ ~ HasLines(Seen(w), a)
  /\ Commit(w, [rows EXCEPT !.accounts[a].status = "DELETED"])

-----------------------------------------------------------------------------
(* accounting/periods *)

CreatePeriod(w, p) ==
  /\ Creates(w, "periods", p)
  /\ Commit(w, [rows EXCEPT !.periods[p].status = "OPEN"])

StartClosing(w, p) == SetStatus(w, "periods", p, {"OPEN", "CLOSING"}, "CLOSING")

PostedIn(r, p) == {e \in Entries : r.entries[e].status = "POSTED" /\ r.entries[e].period = p}

Debits(lines) == lines[1].debit + lines[2].debit
Credits(lines) == lines[1].credit + lines[2].credit
Balanced(lines) == Debits(lines) = Credits(lines)

\* The checks on the ledger that can block: the posted entries of the period
\* balance, and it has no draft.  (The reconciliations with the subledgers
\* always pass.)
TrialBalanceCheck(r, p) ==
  SumFunction([e \in PostedIn(r, p) |-> Debits(r.entries[e].lines)]) =
  SumFunction([e \in PostedIn(r, p) |-> Credits(r.entries[e].lines)])

UnpostedCheck(r, p) ==
  \A e \in Entries : r.entries[e].period = p => r.entries[e].status # "DRAFT"

CanClose(r, p) == TrialBalanceCheck(r, p) /\ UnpostedCheck(r, p)

CloseLedger(w, p) ==
  /\ Changes(w, "periods", p, {"OPEN", "CLOSING"})
  /\ Commit(w, [rows EXCEPT !.periods[p].status =
       IF CanClose(Seen(w), p) THEN "CLOSED"
       ELSE IF Seen(w).periods[p].status = "CLOSING" THEN "OPEN" ELSE @])

ReopenLedger(w, p) == SetStatus(w, "periods", p, {"CLOSED"}, "OPEN")

-----------------------------------------------------------------------------
(* accounting/journals and accounting/posting *)

PeriodOpen(r, p) == p # 0 /\ r.periods[p].status = "OPEN"

AccountActive(r, a) == r.accounts[a].status = "ACTIVE"

\* Two lines on active accounts, a debit of 1 and a credit of 1 or 2.
EntryLines(r) ==
  {<<[account |-> a, debit |-> 1, credit |-> 0], [account |-> b, debit |-> 0, credit |-> n]>> :
     a, b \in {c \in Accounts : AccountActive(r, c)}, n \in 1..2}

Draft(p, lines) == [status |-> "DRAFT", period |-> p, day |-> p, reverses |-> 0, lines |-> lines]

\* The date of an entry lies in its period, which is open.
CreateEntry(w, e) ==
  /\ Creates(w, "entries", e)
  /\ \E p \in Days, lines \in EntryLines(Seen(w)) :
       PeriodOpen(Seen(w), p) /\ Commit(w, [rows EXCEPT !.entries[e] = Draft(p, lines)])

UpdateEntry(w, e) ==
  /\ Changes(w, "entries", e, {"DRAFT"})
  /\ \E p \in Days, lines \in EntryLines(Seen(w)) :
       PeriodOpen(Seen(w), p) /\ Commit(w, [rows EXCEPT !.entries[e] = Draft(p, lines)])

\* The lines go with the entry.
DeleteEntry(w, e) ==
  /\ Changes(w, "entries", e, {"DRAFT"})
  /\ Commit(w, [rows EXCEPT !.entries[e] = [NoEntry EXCEPT !.status = "DELETED"]])

PostEntry(w, e) ==
  LET entry == Seen(w).entries[e]
  IN /\ Changes(w, "entries", e, {"DRAFT"})
     /\ PeriodOpen(Seen(w), entry.period)
     /\ \A l \in DOMAIN entry.lines : AccountActive(Seen(w), entry.lines[l].account)
     /\ Balanced(entry.lines)
     /\ Commit(w, [rows EXCEPT !.entries[e].status = "POSTED"])

Swapped(line) == [line EXCEPT !.debit = line.credit, !.credit = line.debit]

\* Dated today; in the period of the original when that is open, and else in
\* the open period of today.
ReversalPeriod(r, e) ==
  IF PeriodOpen(r, r.entries[e].period) THEN r.entries[e].period
  ELSE IF PeriodOpen(r, Today) THEN Today ELSE 0

ReverseEntry(w, e, x) ==
  LET lines == Seen(w).entries[e].lines
      p == ReversalPeriod(Seen(w), e)
  IN /\ Changes(w, "entries", e, {"POSTED"})
     /\ rows.entries[x].status = "NONE"
     /\ p # 0
     /\ Commit(w, [rows EXCEPT
          !.entries[e].status = "VOIDED",
          !.entries[x] = [status |-> "POSTED", period |-> p, day |-> Today, reverses |-> e,
                          lines |-> [l \in DOMAIN lines |-> Swapped(lines[l])]]])

LedgerNext(w) ==
  /\ rows.domain = "ledger"
  /\ \/ \E a \in Accounts : CreateAccount(w, a) \/ UpdateAccount(w, a) \/ DeleteAccount(w, a)
     \/ \E p \in Days :
          CreatePeriod(w, p) \/ StartClosing(w, p) \/ CloseLedger(w, p) \/ ReopenLedger(w, p)
     \/ \E e \in EntryIds :
          \/ CreateEntry(w, e) \/ UpdateEntry(w, e) \/ DeleteEntry(w, e) \/ PostEntry(w, e)
     \/ \E e \in Entries, x \in ReversalIds : ReverseEntry(w, e, x)

-----------------------------------------------------------------------------
(* accounting/reports: what the statements say.  They read the lines of the *)
(* POSTED entries with a date in a range, and the accounts not deleted.     *)

Dated(r, first, last) ==
  {e \in Entries : r.entries[e].status = "POSTED" /\ r.entries[e].day \in first..last}

\* What the lines on account a add up to, debits less credits.
NetDebit(r, a, first, last) ==
  LET on(line) == IF line.account = a THEN line.debit - line.credit ELSE 0
  IN SumFunction([e \in Dated(r, first, last) |->
                    on(r.entries[e].lines[1]) + on(r.entries[e].lines[2])])

DebitNormal(r, a) == r.accounts[a].type \in {"ASSET", "EXPENSE"}

NetBalance(r, a, first, last) ==
  IF DebitNormal(r, a) THEN NetDebit(r, a, first, last) ELSE 0 - NetDebit(r, a, first, last)

TrialBalance(r, first, last) ==
  [a \in LiveAccounts(r) |->
     [opening |-> NetDebit(r, a, 1, first - 1), period |-> NetDebit(r, a, first, last),
      net |-> NetBalance(r, a, 1, last)]]

\* The closing balance of the ledger of one account.
GeneralLedger(r, a, first, last) ==
  NetBalance(r, a, 1, first - 1) + NetBalance(r, a, first, last)

OfType(r, t) == {a \in LiveAccounts(r) : r.accounts[a].type = t}

TypeTotal(r, t, first, last) ==
  SumFunction([a \in OfType(r, t) |-> NetBalance(r, a, first, last)])

NetIncome(r, first, last) ==
  TypeTotal(r, "REVENUE", first, last) - TypeTotal(r, "EXPENSE", first, last)

\* Income of all time is part of the equity.
BalanceSheet(r, day) ==
  [assets |-> TypeTotal(r, "ASSET", 1, day),
   liabilities |-> TypeTotal(r, "LIABILITY", 1, day),
   equity |-> TypeTotal(r, "EQUITY", 1, day) + NetIncome(r, 1, day)]

CashAccounts(r) == {a \in OfType(r, "ASSET") : a = 1}

CashFlow(r, first, last) ==
  LET cash(f, l) == SumFunction([a \in CashAccounts(r) |-> NetDebit(r, a, f, l)])
  IN [opening |-> cash(1, first - 1), change |-> cash(first, last),
      closing |-> cash(1, first - 1) + cash(first, last)]

-----------------------------------------------------------------------------
\* Over creating, closing, reopening, posting and reversing, and whatever becomes
\* of the accounts meanwhile: the balance sheet of every day and the trial
\* balance of every range balance, and a closed period holds no draft.
StatementsBalance ==
  rows.domain = "ledger" =>
    /\ \A day \in Days :
         LET sheet == BalanceSheet(rows, day)
         IN sheet.assets = sheet.liabilities + sheet.equity
    /\ \A first, last \in Days :
         LET trial == TrialBalance(rows, first, last)
         IN /\ SumFunction([a \in DOMAIN trial |-> trial[a].opening + trial[a].period]) = 0
            /\ first <= last =>
                 /\ \A a \in DOMAIN trial : trial[a].net = GeneralLedger(rows, a, first, last)
                 /\ CashFlow(rows, first, last).closing =
                    SumFunction([a \in CashAccounts(rows) |-> trial[a].net])
    /\ \A p \in Days : rows.periods[p].status = "CLOSED" => UnpostedCheck(rows, p)

\* No account is above itself, and none is left below a deleted one.
ChartIsForest ==
  rows.domain = "ledger" =>
    \A a \in LiveAccounts(rows) :
      /\ ~ Circular(rows, a, rows.accounts[a].parent)
      /\ rows.accounts[a].parent \in Parents(rows)

\* ADR-036:14: "Because reversal entries feature inverted debits and credits, their
\* net impact on financial statements cleanly offsets the original posted entries."
ReversalsOffset ==
  rows.domain = "ledger" =>
    \A x \in ReversalIds : rows.entries[x].reverses # 0 =>
      \A a \in Accounts :
        NetDebit([rows EXCEPT !.entries = [e \in Entries |->
                    IF e \in {x, rows.entries[x].reverses} THEN @[e] ELSE NoEntry]],
                 a, 1, Today) = 0
=============================================================================
