---------------------------- MODULE MCBackOffice ----------------------------
(***************************************************************************)
(* Small instances of BackOffice for TLC.  Requests differ only in what    *)
(* they do, so their names can be exchanged.                               *)
(***************************************************************************)
EXTENDS BackOffice, TLC

CONSTANTS w1, w2       \* model values

AllDomains ==
  {"sessions", "access", "ledger", "purchasing", "warehouse", "production", "boms", "planning", "shipping", "returns",
   "tickets", "repairs", "quality", "ncrs", "expenses", "assets", "payroll", "tax", "banking",
   "budgets", "quotations", "leads", "costing", "subscriptions", "billing", "import", "webhooks",
   "notifications", "numbering", "catalog", "pricing", "locations", "parties", "staff",
   "compensations"}

SymmetricWorkers == Permutations(Workers)
=============================================================================
