--------------------------- MODULE Manufacturing ---------------------------
(***************************************************************************)
(* manufacturing/ and planning/: production orders that turn components    *)
(* into a finished product, bills of material, and MRP runs.               *)
(***************************************************************************)
EXTENDS Handlers

CONSTANT Boms          \* bills of material; each item is produced by one of them

ASSUME BomsAssumption == IsFiniteSet(Boms)

-----------------------------------------------------------------------------
(* Production orders.  One unit takes one unit of the component. *)

NoProduction(shortage) ==
  [domain |-> "production",
   allowReleaseOnShortage |-> shortage,
   productions |-> [p \in {1} |-> [status |-> "NONE", planned |-> 0, required |-> 0,
                                   issued |-> 0, produced |-> 0]],
   components |-> MaxAmount, finished |-> 0, outputs |-> 0]

CreateProduction(w, p) ==
  /\ Creates(w, "productions", p)
  /\ \E n \in Amounts :
       Commit(w, [rows EXCEPT !.productions[p] = [status |-> "DRAFT", planned |-> n,
                    required |-> n, issued |-> 0, produced |-> 0]])

\* The component requirements stay those of the quantity first planned.
UpdateProduction(w, p) ==
  /\ Changes(w, "productions", p, {"DRAFT"})
  /\ \E n \in Amounts : Commit(w, [rows EXCEPT !.productions[p].planned = n])

DeleteProduction(w, p) ==
  /\ Changes(w, "productions", p, {"DRAFT"})
  /\ Commit(w, [rows EXCEPT !.productions[p].status = "DELETED"])

ReleaseProduction(w, p) ==
  /\ \/ Seen(w).allowReleaseOnShortage
     \/ Seen(w).productions[p].required <= Seen(w).components
  /\ SetStatus(w, "productions", p, {"DRAFT"}, "RELEASED")

StartProduction(w, p) == SetStatus(w, "productions", p, {"RELEASED"}, "IN_PROGRESS")

CancelProduction(w, p) ==
  SetStatus(w, "productions", p, {"DRAFT", "RELEASED"}, "CANCELLED")

\* More than is required may be issued; the first issue starts the order.
IssueMaterial(w, p) ==
  LET order == Seen(w).productions[p]
  IN /\ Changes(w, "productions", p, {"RELEASED", "IN_PROGRESS", "PARTIALLY_COMPLETED"})
     /\ \E n \in 1..Seen(w).components :
          Commit(w, [rows EXCEPT
                       !.components = Seen(w).components - n,
                       !.productions[p].issued = order.issued + n,
                       !.productions[p].status =
                          IF order.status = "RELEASED" THEN "IN_PROGRESS" ELSE order.status])

\* More than is planned may be produced; MaxAmount bounds each completion.
CompleteProduction(w, p) ==
  LET order == Seen(w).productions[p]
  IN /\ Changes(w, "productions", p, {"IN_PROGRESS", "PARTIALLY_COMPLETED"})
     /\ \E n \in Amounts :
          Commit(w, [rows EXCEPT
                       !.finished = Seen(w).finished + n,
                       !.outputs = @ + n,
                       !.productions[p].produced = order.produced + n,
                       !.productions[p].status =
                          IF order.produced + n >= order.planned THEN "COMPLETED"
                          ELSE "PARTIALLY_COMPLETED"])

CloseProduction(w, p) ==
  SetStatus(w, "productions", p, {"COMPLETED", "PARTIALLY_COMPLETED"}, "CLOSED")

-----------------------------------------------------------------------------
(* Bills of material.  usedBy is the status of a production order for it. *)

NoBoms ==
  [domain |-> "boms",
   boms |-> [b \in Boms |-> [status |-> "NONE", item |-> b, components |-> {}]],
   usedBy |-> [b \in Boms |-> "NONE"],
   relabelled |-> FALSE]

\* What the drafted and active bills for item i are made of.
NeededFor(db, i) ==
  UNION {db.boms[b].components :
           b \in {c \in Boms : db.boms[c].item = i /\ db.boms[c].status \in {"DRAFT", "ACTIVE"}}}

\* Everything that components are made of, in the end.
MadeOf(db, components) ==
  LET within[depth \in 0..Cardinality(Boms)] ==
        IF depth = 0 THEN components
        ELSE within[depth - 1] \cup UNION {NeededFor(db, i) : i \in within[depth - 1]}
  IN within[Cardinality(Boms)]

\* Mutant: only the bill's own lines are looked at.
OnlyDirect(db, item, components) == item \in components

CircularBom(db, item, components) == item \in MadeOf(db, components)

CreateBom(w, b) ==
  /\ Creates(w, "boms", b)
  /\ \E i \in Boms, components \in SUBSET Boms \ {{}} :
       /\ ~ CircularBom(Seen(w), i, components)
       /\ Commit(w, [rows EXCEPT !.boms[b] = [status |-> "DRAFT", item |-> i,
                                              components |-> components]])

\* The cycle check needs lines: changing the item alone is not checked.
UpdateBom(w, b) ==
  /\ Changes(w, "boms", b, {"DRAFT", "ACTIVE", "INACTIVE"})
  /\ Seen(w).usedBy[b] # "RELEASED"
  /\ \E i \in Boms :
       \/ \E components \in SUBSET Boms \ {{}} :
            /\ ~ CircularBom(Seen(w), i, components)
            /\ Commit(w, [rows EXCEPT !.boms[b].item = i, !.boms[b].components = components])
       \/ /\ i # Seen(w).boms[b].item
          /\ Commit(w, [rows EXCEPT !.boms[b].item = i, !.relabelled = TRUE])

DeleteBom(w, b) ==
  /\ Seen(w).usedBy[b] = "NONE"
  /\ SetStatus(w, "boms", b, {"DRAFT", "ACTIVE", "INACTIVE"}, "DELETED")

ActivateBom(w, b) ==
  /\ ~ CircularBom(Seen(w), Seen(w).boms[b].item, Seen(w).boms[b].components)
  /\ SetStatus(w, "boms", b, {"DRAFT", "INACTIVE"}, "ACTIVE")

DeactivateBom(w, b) == SetStatus(w, "boms", b, {"DRAFT", "ACTIVE", "INACTIVE"}, "INACTIVE")

\* A production order for a bill is drafted, whatever the bill's status, and released.
UseBom(w, b) ==
  /\ At(w, "read") /\ Seen(w).boms[b].status # "NONE" /\ rows.boms[b].status # "DELETED"
  /\ Commit(w, [rows EXCEPT !.usedBy[b] = IF @ = "NONE" THEN "DRAFT" ELSE "RELEASED"])

-----------------------------------------------------------------------------
(* MRP runs: what is short is ordered, in lots *)

NoPlanning ==
  [domain |-> "planning",
   runs |-> [r \in {1} |-> [status |-> "NONE"]],
   plans |-> [r \in {1} |-> [status |-> "NONE", net |-> 0, quantity |-> 0,
                             moq |-> 0, multiple |-> 0]]]

CreateRun(w, r) ==
  /\ Creates(w, "runs", r)
  /\ Commit(w, [rows EXCEPT !.runs[r].status = "DRAFT"])

NetRequirement(gross, safety, onHand, expected) ==
  LET raw == gross + safety - onHand - expected
  IN IF raw > 0 THEN raw ELSE 0

\* Mutant: rounds up before the minimum is applied.
RoundedFirst(net, moq, multiple) ==
  LET lots == IF net % multiple = 0 THEN net ELSE net + (multiple - (net % multiple))
  IN IF lots < moq THEN moq ELSE lots

LotSize(net, moq, multiple) ==
  LET suggested == IF net < moq THEN moq ELSE net
  IN IF suggested % multiple = 0 THEN suggested
     ELSE suggested + (multiple - (suggested % multiple))

\* One transaction; a failure leaves the run DRAFT (it is Abort: the status
\* FAILED is rolled back with everything else).
ExecuteRun(w, r) ==
  /\ Changes(w, "runs", r, {"DRAFT"})
  /\ \E gross, safety, onHand, expected \in 0..MaxAmount, moq, multiple \in 1..(2 * MaxAmount) :
       LET net == NetRequirement(gross, safety, onHand, expected)
       IN Commit(w, [rows EXCEPT
            !.runs[r].status = "COMPLETED",
            !.plans[r] = IF net = 0 THEN @
                         ELSE [status |-> "SUGGESTED", net |-> net, moq |-> moq,
                               multiple |-> multiple, quantity |-> LotSize(net, moq, multiple)]])

CancelRun(w, r) == SetStatus(w, "runs", r, {"DRAFT", "FAILED"}, "CANCELLED")

\* Any status the client sends, until the plan is converted into a requisition.
UpdatePlan(w, r) ==
  \E to \in {"SUGGESTED", "ACCEPTED", "REJECTED", "CONVERTED", "CANCELLED"} :
    SetStatus(w, "plans", r, {"SUGGESTED", "ACCEPTED", "REJECTED", "CANCELLED"}, to)

-----------------------------------------------------------------------------

ProductionNext(w) ==
  /\ rows.domain = "production"
  /\ \E p \in DOMAIN rows.productions :
       \/ CreateProduction(w, p) \/ UpdateProduction(w, p) \/ DeleteProduction(w, p)
       \/ ReleaseProduction(w, p) \/ StartProduction(w, p) \/ CancelProduction(w, p)
       \/ IssueMaterial(w, p) \/ CompleteProduction(w, p) \/ CloseProduction(w, p)

BomsNext(w) ==
  /\ rows.domain = "boms"
  /\ \E b \in Boms :
       \/ CreateBom(w, b) \/ UpdateBom(w, b) \/ DeleteBom(w, b)
       \/ ActivateBom(w, b) \/ DeactivateBom(w, b) \/ UseBom(w, b)

PlanningNext(w) ==
  /\ rows.domain = "planning"
  /\ \E r \in DOMAIN rows.runs :
       CreateRun(w, r) \/ ExecuteRun(w, r) \/ CancelRun(w, r) \/ UpdatePlan(w, r)

ManufacturingNext(w) == ProductionNext(w) \/ BomsNext(w) \/ PlanningNext(w)

-----------------------------------------------------------------------------
\* Components and products are conserved: stock changed by what orders issued
\* and produced; an order that is not started, cancelled or deleted used
\* nothing; and an order is completed exactly when it has produced its plan.
ProductionConserves ==
  rows.domain = "production" =>
    \A p \in DOMAIN rows.productions :
      LET order == rows.productions[p]
      IN /\ rows.components = MaxAmount - order.issued
         /\ rows.finished = rows.outputs /\ rows.outputs = order.produced
         /\ order.status \notin {"IN_PROGRESS", "PARTIALLY_COMPLETED", "COMPLETED", "CLOSED"} =>
              order.issued = 0 /\ order.produced = 0
         /\ order.status = "COMPLETED" => order.produced >= order.planned
         /\ order.status = "PARTIALLY_COMPLETED" => order.produced < order.planned

\* No product needs itself, through however many drafted or active bills, as
\* long as the product of a bill is not changed without its lines.
BomsAcyclic ==
  rows.domain = "boms" /\ ~ rows.relabelled =>
    \A i \in Boms : i \notin MadeOf(rows, NeededFor(rows, i))

\* What is planned covers the shortage, in whole lots, at least the minimum
\* order, and not one lot more than that takes.
PlansCoverShortage ==
  rows.domain = "planning" =>
    \A r \in DOMAIN rows.plans :
      LET plan == rows.plans[r]
      IN plan.status # "NONE" =>
           /\ rows.runs[r].status = "COMPLETED"
           /\ plan.quantity >= plan.net /\ plan.quantity >= plan.moq
           /\ plan.quantity % plan.multiple = 0
           /\ plan.quantity - plan.multiple < plan.net \/ plan.quantity - plan.multiple < plan.moq
=============================================================================
