----------------------------- MODULE Purchasing -----------------------------
(***************************************************************************)
(* Requisitions, purchase orders, goods receipts and purchase returns.     *)
(* Two services own the same purchase order tables: purchasing/ (orders,   *)
(* receipts in two steps) and procurement/ (more statuses, receipts in one *)
(* step).  The procurement service decides from a column `remaining`,      *)
(* which the purchasing service leaves at its default, 0.  What the stock  *)
(* that comes in has cost is the subject of the last part.                 *)
(***************************************************************************)
EXTENDS Handlers, Sequences

CONSTANTS Lines,       \* the lines of a purchase order
          MaxLayers    \* bound on the receipts of the costed item

NoQuantities == [l \in Lines |-> 0]

NoPurchasing ==
  [domain |-> "purchasing",
   planned |-> [p \in {1} |-> [status |-> "SUGGESTED"]],
   requisitions |-> [p \in {1} |-> [status |-> "NONE"]],
   orders |-> [o \in {1} |-> [status |-> "NONE"]],
   lines |-> [l \in Lines |-> [quantity |-> 0, received |-> 0, remaining |-> 0]],
   receipts |-> [r \in {1, 2} |-> [status |-> "NONE", quantity |-> NoQuantities]],
   returns |-> [t \in {1} |-> [status |-> "NONE", receipt |-> 1, quantity |-> NoQuantities]],
   onHand |-> 0, moved |-> 0]

\* The quantities of the documents in S, line by line.
SumOver(S, documents) == [l \in Lines |-> SumFunction([x \in S |-> documents[x].quantity[l]])]

-----------------------------------------------------------------------------
(* procurement/purchase-requisitions.service.ts *)

CreateRequisition(w, q) ==
  /\ Creates(w, "requisitions", q)
  /\ Commit(w, [rows EXCEPT !.requisitions[q].status = "DRAFT"])

ConvertPlannedOrder(w, q) ==
  /\ Creates(w, "requisitions", q)
  /\ Seen(w).planned[1].status = "SUGGESTED"
  /\ Commit(w, [rows EXCEPT !.requisitions[q].status = "DRAFT",
                            !.planned[1].status = "CONVERTED"])

SubmitRequisition(w, q) == SetStatus(w, "requisitions", q, {"DRAFT"}, "SUBMITTED")
ApproveRequisition(w, q) == SetStatus(w, "requisitions", q, {"SUBMITTED"}, "APPROVED")
RejectRequisition(w, q) == SetStatus(w, "requisitions", q, {"SUBMITTED"}, "REJECTED")

CancelRequisition(w, q) ==
  SetStatus(w, "requisitions", q, {"DRAFT", "SUBMITTED", "APPROVED", "REJECTED"}, "CANCELLED")

\* A draft order with the lines of the requisition.
Ordered(o, quantity, remaining) ==
  [rows EXCEPT !.orders[o].status = "DRAFT",
     !.lines = [l \in Lines |-> [quantity |-> quantity[l], received |-> 0,
                                 remaining |-> remaining[l]]]]

ConvertToPO(w, q, o) ==
  /\ Changes(w, "requisitions", q, {"APPROVED"})
  /\ rows.orders[o].status = "NONE"
  /\ \E quantity \in [Lines -> Amounts] :
       Commit(w, [Ordered(o, quantity, quantity) EXCEPT !.requisitions[q].status = "CONVERTED"])

-----------------------------------------------------------------------------
(* purchasing/orders *)

CreatePurchaseOrder(w, o) ==
  /\ Creates(w, "orders", o)
  /\ \E quantity \in [Lines -> Amounts] : Commit(w, Ordered(o, quantity, NoQuantities))

\* Lines that a receipt refers to cannot be deleted (foreign key).
Receipted == \E r \in DOMAIN rows.receipts : rows.receipts[r].status # "NONE"

UpdatePurchaseOrder(w, o) ==
  /\ Changes(w, "orders", o, {"DRAFT"})
  /\ \E quantity \in [Lines -> Amounts] :
       CommitIf(w, ~ Receipted,
                [Ordered(o, quantity, NoQuantities) EXCEPT !.orders = rows.orders])

SubmitPurchaseOrder(w, o) == SetStatus(w, "orders", o, {"DRAFT"}, "SUBMITTED")
ApprovePurchaseOrder(w, o) == SetStatus(w, "orders", o, {"SUBMITTED"}, "APPROVED")

CancelPurchaseOrder(w, o) ==
  SetStatus(w, "orders", o, {"DRAFT", "SUBMITTED", "APPROVED", "PARTIALLY_RECEIVED"},
            "CANCELLED")

ClosePurchaseOrder(w, o) == SetStatus(w, "orders", o, {"RECEIVED"}, "CLOSED")

-----------------------------------------------------------------------------
(* procurement/purchase-orders.service.ts *)

CreateProcurementOrder(w, o) ==
  /\ Creates(w, "orders", o)
  /\ \E quantity \in [Lines -> Amounts] : Commit(w, Ordered(o, quantity, quantity))

UpdateProcurementOrder(w, o) ==
  /\ Changes(w, "orders", o, {"DRAFT"})
  /\ \E quantity \in [Lines -> Amounts] :
       CommitIf(w, ~ Receipted,
                [Ordered(o, quantity, quantity) EXCEPT !.orders = rows.orders])

SubmitProcurementOrder(w, o) == SetStatus(w, "orders", o, {"DRAFT"}, "SUBMITTED")

\* The budget check may refuse, whatever the order is.
ApproveProcurementOrder(w, o) == SetStatus(w, "orders", o, {"SUBMITTED", "DRAFT"}, "APPROVED")

RejectProcurementOrder(w, o) == SetStatus(w, "orders", o, {"SUBMITTED"}, "REJECTED")
SendProcurementOrder(w, o) == SetStatus(w, "orders", o, {"APPROVED"}, "SENT")

AcknowledgeOrder(w, o) == SetStatus(w, "orders", o, {"SENT", "APPROVED"}, "ACKNOWLEDGED")

CancelProcurementOrder(w, o) ==
  SetStatus(w, "orders", o, {"DRAFT", "SUBMITTED", "APPROVED", "SENT", "ACKNOWLEDGED",
                             "REJECTED", "VOIDED"}, "CANCELLED")

CloseProcurementOrder(w, o) ==
  SetStatus(w, "orders", o, {"RECEIVED", "PARTIALLY_RECEIVED", "APPROVED", "SENT",
                             "ACKNOWLEDGED"}, "CLOSED")

-----------------------------------------------------------------------------
(* Goods receipts *)

ReceivedStatus(full) == IF full THEN "RECEIVED" ELSE "PARTIALLY_RECEIVED"

\* Mutant: the draft is not checked again when it is posted.
AnyReceivable(w, o, q) == q # NoQuantities

Receivable(w, o, q) ==
  /\ q # NoQuantities
  /\ \A l \in Lines : q[l] <= Seen(w).lines[l].quantity - Seen(w).lines[l].received

\* purchasing/receipts: a draft, checked against what is not yet received ...
CreateReceipt(w, o, r) ==
  /\ Creates(w, "receipts", r)
  /\ Seen(w).orders[o].status \in {"APPROVED", "PARTIALLY_RECEIVED"}
  /\ \E q \in [Lines -> 0..MaxAmount] :
       /\ Receivable(w, o, q)
       /\ Commit(w, [rows EXCEPT !.receipts[r] = [status |-> "DRAFT", quantity |-> q]])

\* ... and checked again when it is posted; the received quantity is
\* incremented, under CHECK purchase_order_lines_received_le_qty.
PostReceipt(w, o, r) ==
  LET q == Seen(w).receipts[r].quantity
      lines == [l \in Lines |-> [rows.lines[l] EXCEPT !.received = @ + q[l]]]
  IN /\ Changes(w, "receipts", r, {"DRAFT"})
     /\ Seen(w).orders[o].status \in {"APPROVED", "PARTIALLY_RECEIVED"}
     /\ Receivable(w, o, q)
     /\ CommitIf(w, \A l \in Lines : lines[l].received <= lines[l].quantity,
          [rows EXCEPT
             !.receipts[r].status = "POSTED",
             !.lines = lines,
             !.orders[o].status =
                ReceivedStatus(\A l \in Lines : lines[l].received >= lines[l].quantity),
             !.onHand = @ + SumFunction(q), !.moved = @ + SumFunction(q)])

CancelReceipt(w, r) == SetStatus(w, "receipts", r, {"DRAFT"}, "CANCELLED")

\* procurement/goods-receipts.service.ts: one step, from more statuses; the
\* quantities and the balance are written as computed from what was read, and
\* the order is RECEIVED when no line has `remaining` left.
ReceivePurchaseOrder(w, o, r) ==
  /\ Creates(w, "receipts", r)
  /\ Seen(w).orders[o].status \in {"APPROVED", "SENT", "ACKNOWLEDGED", "PARTIALLY_RECEIVED"}
  /\ \E q \in [Lines -> 0..MaxAmount] :
       LET lines == [l \in Lines |->
             IF q[l] = 0 THEN rows.lines[l]
             ELSE [rows.lines[l] EXCEPT
                     !.received = Seen(w).lines[l].received + q[l],
                     !.remaining = Seen(w).lines[l].quantity - Seen(w).lines[l].received - q[l]]]
       IN /\ Receivable(w, o, q)
          /\ Commit(w,
               [rows EXCEPT
                  !.receipts[r] = [status |-> "POSTED", quantity |-> q],
                  !.lines = lines,
                  !.orders[o].status = ReceivedStatus(\A l \in Lines : lines[l].remaining <= 0),
                  !.onHand = Seen(w).onHand + SumFunction(q),
                  !.moved = @ + SumFunction(q)])

CancelProcurementReceipt(w, r) ==
  SetStatus(w, "receipts", r, {"DRAFT", "CANCELLED"}, "CANCELLED")

-----------------------------------------------------------------------------
(* procurement/purchase-returns.service.ts *)

\* Drafts count as returned, cancelled returns do not.
ReturnedOf(db, r) ==
  SumOver({t \in DOMAIN db.returns : /\ db.returns[t].receipt = r
                                     /\ db.returns[t].status \in {"DRAFT", "POSTED"}},
          db.returns)

CreatePurchaseReturn(w, t, r) ==
  /\ Creates(w, "returns", t)
  /\ Seen(w).receipts[r].status # "NONE"
  /\ \E q \in [Lines -> 0..MaxAmount] :
       /\ q # NoQuantities
       /\ \A l \in Lines : q[l] <= Seen(w).receipts[r].quantity[l] - ReturnedOf(Seen(w), r)[l]
       /\ Commit(w, [rows EXCEPT !.returns[t] =
                       [status |-> "DRAFT", receipt |-> r, quantity |-> q]])

\* The movement says all of it left; the balance stops at zero.
PostPurchaseReturn(w, t) ==
  LET n == SumFunction(Seen(w).returns[t].quantity)
  IN /\ Changes(w, "returns", t, {"DRAFT"})
     /\ Commit(w, [rows EXCEPT
                     !.returns[t].status = "POSTED",
                     !.moved = @ - n,
                     !.onHand = IF n <= Seen(w).onHand THEN Seen(w).onHand - n ELSE 0])

CancelPurchaseReturn(w, t) == SetStatus(w, "returns", t, {"DRAFT"}, "CANCELLED")

PurchasingNext(w) ==
  /\ rows.domain = "purchasing"
  /\ \/ \E q \in DOMAIN rows.requisitions :
          \/ CreateRequisition(w, q) \/ ConvertPlannedOrder(w, q)
          \/ SubmitRequisition(w, q) \/ ApproveRequisition(w, q) \/ RejectRequisition(w, q)
          \/ CancelRequisition(w, q)
          \/ \E o \in DOMAIN rows.orders : ConvertToPO(w, q, o)
     \/ \E o \in DOMAIN rows.orders :
          \/ CreatePurchaseOrder(w, o) \/ UpdatePurchaseOrder(w, o)
          \/ SubmitPurchaseOrder(w, o) \/ ApprovePurchaseOrder(w, o)
          \/ CancelPurchaseOrder(w, o) \/ ClosePurchaseOrder(w, o)
          \/ CreateProcurementOrder(w, o) \/ UpdateProcurementOrder(w, o)
          \/ SubmitProcurementOrder(w, o) \/ ApproveProcurementOrder(w, o)
          \/ RejectProcurementOrder(w, o) \/ SendProcurementOrder(w, o)
          \/ AcknowledgeOrder(w, o) \/ CancelProcurementOrder(w, o)
          \/ CloseProcurementOrder(w, o)
          \/ \E r \in DOMAIN rows.receipts :
               CreateReceipt(w, o, r) \/ PostReceipt(w, o, r) \/ ReceivePurchaseOrder(w, o, r)
     \/ \E r \in DOMAIN rows.receipts : CancelReceipt(w, r) \/ CancelProcurementReceipt(w, r)
     \/ \E t \in DOMAIN rows.returns :
          \/ PostPurchaseReturn(w, t) \/ CancelPurchaseReturn(w, t)
          \/ \E r \in DOMAIN rows.receipts : CreatePurchaseReturn(w, t, r)

-----------------------------------------------------------------------------
\* Goods are accounted for across the two services: a line has received what
\* its posted receipts brought, which is never more than was ordered, and at
\* most that much of each receipt is returned.
PurchasedGoodsAddUp ==
  rows.domain = "purchasing" =>
    LET posted == {r \in DOMAIN rows.receipts : rows.receipts[r].status = "POSTED"}
        receipted == SumOver(posted, rows.receipts)
    IN \A l \in Lines :
         /\ rows.lines[l].received = receipted[l]
         /\ receipted[l] <= rows.lines[l].quantity
         /\ \A r \in posted : ReturnedOf(rows, r)[l] <= rows.receipts[r].quantity[l]
-----------------------------------------------------------------------------
(* inventory/costing: the valuation of one item at one location, its cost  *)
(* layers in the order they were made.  Costs and the journal entries that *)
(* are posted with them are left out: quantities decide what is consumed.  *)

NoCosting ==
  [domain |-> "costing",
   onHand |-> 0, layers |-> <<>>]

Remaining(layer) == layer.received - layer.consumed

\* createLayer(), by processInbound().
Inbound(w, n) ==
  [rows EXCEPT !.onHand = Seen(w).onHand + n,
               !.layers = Append(@, [received |-> n, consumed |-> 0])]

\* Mutant: every layer gives what is wanted of all of them.
TakenFromEach(layers, n, i) == IF n < Remaining(layers[i]) THEN n ELSE Remaining(layers[i])

\* What layer i gives when n are taken from the oldest layers first; what the
\* layers do not cover is not taken from any.
TakenFrom(layers, n, i) ==
  LET before == SumFunction([j \in 1..(i - 1) |-> Remaining(layers[j])])
      wanted == IF n > before THEN n - before ELSE 0
  IN  IF wanted < Remaining(layers[i]) THEN wanted ELSE Remaining(layers[i])

ConsumeFifo(layers, n) ==
  [i \in DOMAIN layers |-> [layers[i] EXCEPT !.consumed = @ + TakenFrom(layers, n, i)]]

\* processOutbound(): the valuation may become negative.  Bound: not below
\* -MaxAmount.
Outbound(w, n) ==
  LET seen == Seen(w).layers
  IN  [rows EXCEPT !.onHand = Seen(w).onHand - n,
                   !.layers = ConsumeFifo(seen, n) \o SubSeq(@, Len(seen) + 1, Len(@))]

RecordIn(w) ==
  /\ At(w, "read")
  /\ Len(rows.layers) < MaxLayers
  /\ \E n \in Amounts : Commit(w, Inbound(w, n))

RecordReceipt(w) == RecordIn(w)
RecordReturnRestock(w) == RecordIn(w)
RecordAdjustmentIn(w) == RecordIn(w)

RecordOut(w) ==
  /\ At(w, "read")
  /\ \E n \in Amounts : rows.onHand - n >= -MaxAmount /\ Commit(w, Outbound(w, n))

RecordAdjustmentOut(w) == RecordOut(w)

\* Also as part of executeDelivery, whose catch lets the delivery commit when no
\* period is open: the layers are consumed although nothing is posted.
RecordAndPostCogs(w) == RecordOut(w)

CostingNext(w) ==
  /\ rows.domain = "costing"
  /\ \/ RecordReceipt(w) \/ RecordReturnRestock(w) \/ RecordAdjustmentIn(w)
     \/ RecordAdjustmentOut(w) \/ RecordAndPostCogs(w)

-----------------------------------------------------------------------------
\* Cost layers are used first in, first out, none beyond what it received, and
\* together they hold at least the valuation's quantity, also when more was
\* issued than there was.
LayersAreFifo ==
  rows.domain = "costing" =>
    /\ \A i \in DOMAIN rows.layers :
         /\ rows.layers[i].consumed \in 0..rows.layers[i].received
         /\ rows.layers[i].consumed > 0 =>
              \A j \in 1..(i - 1) : Remaining(rows.layers[j]) = 0
    /\ SumFunction([i \in DOMAIN rows.layers |-> Remaining(rows.layers[i])]) >= rows.onHand
=============================================================================
