--------------------------- MODULE StaffPayments ----------------------------
(***************************************************************************)
(* What employees are paid: expenses they claim, and their salaries.       *)
(***************************************************************************)
EXTENDS Handlers

-----------------------------------------------------------------------------
(***************************************************************************)
(* expenses/: claims that are approved, posted and reimbursed, in parts.   *)
(* payable is the balance of the ledger's expense payable account.         *)
(***************************************************************************)

NoClaims ==
  [domain |-> "expenses",
   claims |-> [c \in {1, 2} |-> [status |-> "NONE", total |-> 0, paid |-> 0, due |-> 0,
                                 journals |-> 0]],
   reimbursed |-> [c \in {1, 2} |-> 0],
   payable |-> 0]

CreateClaim(w, c) ==
  /\ Creates(w, "claims", c)
  /\ \E n \in Amounts : Commit(w, [rows EXCEPT !.claims[c].status = "DRAFT",
                                               !.claims[c].total = n])

UpdateClaim(w, c) ==
  /\ Changes(w, "claims", c, {"DRAFT"})
  /\ \E n \in Amounts : Commit(w, [rows EXCEPT !.claims[c].total = n])

SubmitClaim(w, c) == SetStatus(w, "claims", c, {"DRAFT"}, "SUBMITTED")

ApproveClaim(w, c) ==
  /\ Changes(w, "claims", c, {"SUBMITTED"})
  /\ Commit(w, [rows EXCEPT !.claims[c].status = "APPROVED",
                            !.claims[c].due = Seen(w).claims[c].total])

RejectClaim(w, c) == SetStatus(w, "claims", c, {"SUBMITTED"}, "REJECTED")
CancelClaim(w, c) == SetStatus(w, "claims", c, {"DRAFT", "SUBMITTED"}, "CANCELLED")

PostClaim(w, c) ==
  /\ Changes(w, "claims", c, {"APPROVED"})
  /\ Commit(w, [rows EXCEPT !.claims[c].status = "POSTED",
                            !.claims[c].journals = @ + 1,
                            !.payable = @ + Seen(w).claims[c].total])

VoidClaim(w, c) ==
  /\ Changes(w, "claims", c, {"POSTED"})
  /\ Seen(w).claims[c].paid = 0
  /\ Commit(w, [rows EXCEPT !.claims[c].status = "VOIDED",
                            !.payable = @ - Seen(w).claims[c].total])

\* The amount due is read again in the transaction, the status is not.  A claim
\* may be reimbursed before it is posted; when that pays it, it never is.
Reimburse(w, c) ==
  LET due == rows.claims[c].due
  IN /\ Changes(w, "claims", c, {"POSTED", "APPROVED"})
     /\ \E n \in 1..Seen(w).claims[c].due :
          /\ n <= due
          /\ Commit(w, [rows EXCEPT
                          !.claims[c].paid = @ + n,
                          !.claims[c].due = due - n,
                          !.claims[c].status = IF n = due THEN "PAID" ELSE @,
                          !.reimbursed[c] = @ + n,
                          !.payable = @ - n])

ExpensesNext(w) ==
  /\ rows.domain = "expenses"
  /\ \E c \in DOMAIN rows.claims :
       \/ CreateClaim(w, c) \/ UpdateClaim(w, c) \/ SubmitClaim(w, c) \/ ApproveClaim(w, c)
       \/ RejectClaim(w, c) \/ CancelClaim(w, c) \/ PostClaim(w, c) \/ VoidClaim(w, c)
       \/ Reimburse(w, c)

-----------------------------------------------------------------------------
\* The ledger owes the claimants what was posted and not voided, less what was
\* paid out; what a claim says is paid was paid, nothing is paid for a claim
\* that is voided, and what is due and what is paid make up the total.
ClaimsAddUp ==
  rows.domain = "expenses" =>
    LET owed(c) == LET claim == rows.claims[c]
                   IN IF claim.status = "VOIDED" THEN 0 ELSE claim.journals * claim.total
    IN /\ rows.payable = SumFunction([c \in DOMAIN rows.claims |-> owed(c) - rows.reimbursed[c]])
       /\ \A c \in DOMAIN rows.claims :
            LET claim == rows.claims[c]
            IN /\ claim.paid = rows.reimbursed[c]
               /\ claim.paid > 0 => claim.status \in {"APPROVED", "POSTED", "PAID"}
               /\ claim.status \in {"APPROVED", "POSTED", "PAID"} => claim.paid + claim.due = claim.total
               /\ claim.status = "PAID" <=> claim.paid > 0 /\ claim.due = 0

-----------------------------------------------------------------------------
(***************************************************************************)
(* payroll/: a period's runs are calculated, approved, posted and paid.    *)
(* One employee with a salary of 1; inputs add to the pay or to the        *)
(* deductions.  Tax and the employer's part are on both sides of the       *)
(* journal and left out.                                                   *)
(***************************************************************************)

NoRun == [status |-> "NONE", gross |-> 0, deductions |-> 0, net |-> 0, paid |-> FALSE]

NoPayroll ==
  [domain |-> "payroll",
   periods |-> [p \in {1} |-> [status |-> "NONE"]],
   inputs |-> [bonus |-> 0, deductions |-> 0],
   payrolls |-> [r \in {1, 2} |-> NoRun],
   journal |-> [count |-> 0, debit |-> 0, credit |-> 0],
   paidOut |-> 0]

CreatePayrollPeriod(w, p) ==
  /\ Creates(w, "periods", p)
  /\ Commit(w, [rows EXCEPT !.periods[p].status = "DRAFT"])

\* An input that comes after the calculation is not in the run.
AddInput(w, p) ==
  /\ Changes(w, "periods", p, {"DRAFT", "CALCULATED"})
  /\ \E n \in Amounts, kind \in {"bonus", "deductions"} :
       /\ rows.inputs[kind] + n <= MaxAmount
       /\ Commit(w, [rows EXCEPT !.inputs[kind] = @ + n])

\* Mutant: an approved period can be calculated again.
CalculableAfterApproval == {"DRAFT", "CALCULATED", "APPROVED"}

Calculable == {"DRAFT", "CALCULATED"}

\* Earlier runs of the period stay: only DRAFT runs are deleted, and there are none.
CalculatePayroll(w, p, r) ==
  LET gross == 1 + Seen(w).inputs.bonus
      deductions == Seen(w).inputs.deductions
  IN /\ Changes(w, "periods", p, Calculable)
     /\ rows.payrolls[r].status = "NONE" /\ \A s \in 1..(r - 1) : rows.payrolls[s].status # "NONE"
     /\ Commit(w, [rows EXCEPT
          !.periods[p].status = "CALCULATED",
          !.payrolls[r] = [status |-> "CALCULATED", gross |-> gross, deductions |-> deductions,
                           net |-> IF gross > deductions THEN gross - deductions ELSE 0,
                           paid |-> FALSE]])

\* The newest run of the status.
NewestRun(db, r, status) ==
  /\ db.payrolls[r].status = status
  /\ \A s \in DOMAIN db.payrolls : s > r => db.payrolls[s].status # status

ApprovePayroll(w, p, r) ==
  /\ Changes(w, "periods", p, {"CALCULATED"})
  /\ NewestRun(Seen(w), r, "CALCULATED")
  /\ Commit(w, [rows EXCEPT !.periods[p].status = "APPROVED",
                            !.payrolls[r].status = "APPROVED"])

\* Debits the gross pay, credits the net pay and the deductions.
PostPayroll(w, p, r) ==
  LET run == Seen(w).payrolls[r]
  IN /\ Changes(w, "periods", p, {"APPROVED"})
     /\ NewestRun(Seen(w), r, "APPROVED")
     /\ Commit(w, [rows EXCEPT
          !.periods[p].status = "POSTED",
          !.payrolls[r].status = "POSTED",
          !.journal = [count |-> @.count + 1, debit |-> @.debit + run.gross,
                       credit |-> @.credit + run.net + run.deductions]])

PayPayroll(w, p, r) ==
  LET run == Seen(w).payrolls[r]
  IN /\ Changes(w, "periods", p, {"POSTED"})
     /\ NewestRun(Seen(w), r, "POSTED")
     /\ ~ run.paid
     /\ Commit(w, [rows EXCEPT !.periods[p].status = "PAID",
                               !.payrolls[r].paid = TRUE,
                               !.paidOut = @ + run.net])

CancelPayroll(w, p) ==
  SetStatus(w, "periods", p, {"DRAFT", "CALCULATED", "APPROVED", "CANCELLED"}, "CANCELLED")

\* A period that is posted but not paid can be closed; nobody is paid then.
ClosePayroll(w, p) == SetStatus(w, "periods", p, {"POSTED", "PAID"}, "CLOSED")

PayrollNext(w) ==
  /\ rows.domain = "payroll"
  /\ \E p \in DOMAIN rows.periods :
       \/ CreatePayrollPeriod(w, p) \/ AddInput(w, p) \/ CancelPayroll(w, p) \/ ClosePayroll(w, p)
       \/ \E r \in DOMAIN rows.payrolls :
            \/ CalculatePayroll(w, p, r) \/ ApprovePayroll(w, p, r)
            \/ PostPayroll(w, p, r) \/ PayPayroll(w, p, r)

-----------------------------------------------------------------------------
\* However often a period is calculated, one run of it is approved, posted and
\* paid, and that is the one that the ledger and the payment are about.
PayrollOnce ==
  rows.domain = "payroll" =>
    LET settled == {r \in DOMAIN rows.payrolls : rows.payrolls[r].status \in {"APPROVED", "POSTED"}}
        posted == {r \in settled : rows.payrolls[r].status = "POSTED"}
    IN /\ Cardinality(settled) <= 1
       /\ rows.journal.count = Cardinality(posted)
       /\ rows.journal.debit = SumFunction([r \in posted |-> rows.payrolls[r].gross])
       /\ rows.paidOut = SumFunction([r \in {s \in posted : rows.payrolls[s].paid} |->
                                        rows.payrolls[r].net])
       /\ rows.periods[1].status = "PAID" => \E r \in posted : rows.payrolls[r].paid
=============================================================================
