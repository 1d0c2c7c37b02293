--------------------------- MODULE SalesDatabase ---------------------------
(***************************************************************************)
(* The tables the order-to-fulfilment services of apps/api share: sales    *)
(* orders and their lines, the stock reservations taken for them, delivery *)
(* orders, and the stock balances; and the transactions that write them.   *)
(* SalesOrders, StockRequests and DeliveryOrders are the services;         *)
(* SalesFulfillment composes them.                                         *)
(*                                                                         *)
(* Every HTTP request is a worker's run through the steps the service      *)
(* takes.  A step ends where another request can get in: after the read    *)
(* that precedes prisma.$transaction, after a read inside the transaction  *)
(* whose value is used later, after a statement that takes row locks, and  *)
(* at the commit.  `requests` holds what a request has read and has yet to *)
(* do, `pending` the rows its open transaction has written.                *)
(***************************************************************************)
EXTENDS Integers, FiniteSets

CONSTANTS
  OrderIds, LineIds, ReservationIds, DeliveryIds,
  StockKeys,      \* (location, item, variant) triples: rows of inventory_balances
  Workers,        \* requests that can be in progress at once
  OrderOf,        \* the sales order of each line
  KeyOf,          \* the stock each line is for, at its order's location
  Quantities,     \* the quantities a line or a delivery line can have
  Adjustments,    \* the signed quantities of stock adjustments
  InitialStock,   \* quantity on hand of every key at the start
  MaxOnHand,      \* bound: adjustments keep the stock within 0..MaxOnHand
  MaxVersion      \* bound: how often the lines of one order are (re)written

ASSUME LinesAssumption ==
  /\ LineIds # {} /\ OrderIds # {}
  /\ OrderOf \in [LineIds -> OrderIds]
  /\ KeyOf \in [LineIds -> StockKeys]

ASSUME FiniteAssumption ==
  IsFiniteSet(LineIds) /\ IsFiniteSet(ReservationIds) /\ IsFiniteSet(DeliveryIds)

ASSUME BoundsAssumption ==
  /\ Quantities \subseteq Nat \ {0}
  /\ Adjustments \subseteq Int \ {0}
  /\ InitialStock \in Nat /\ MaxOnHand \in Nat /\ MaxVersion \in Nat

VARIABLES
  orders,         \* sales_orders.status, "NONE" before the order exists
  lines,          \* sales_order_lines
  reservations,   \* inventory_reservations
  balances,       \* inventory_balances
  deliveries,     \* delivery_orders and the quantities of their lines
  movements,      \* stock_movements, summed by sales order line, key and delivery
  requests,       \* requests in progress
  pending         \* uncommitted rows of the open transactions

db == <<orders, lines, reservations, balances, deliveries, movements>>
vars == <<db, requests, pending>>

-----------------------------------------------------------------------------
(***************************************************************************)
(* What prisma.$transaction gives a request under PostgreSQL's default     *)
(* isolation level, READ COMMITTED (no service of the API asks for another *)
(* level).  A transaction keeps its uncommitted rows to itself, as a       *)
(* function from row ids to rows; it reads its own rows over the committed *)
(* table, and a row it has written stays locked against the writes of      *)
(* others until it commits or rolls back.                                  *)
(***************************************************************************)

\* The rows of a transaction that has written nothing.
NoRows == [id \in {} |-> id]

\* The rows `rows` after row `id` is written.
Put(rows, id, row) ==
  [x \in DOMAIN rows \cup {id} |-> IF x = id THEN row ELSE rows[x]]

\* What a transaction with the uncommitted rows `own` reads from `table`;
\* also the table once the transaction has committed.
Overlay(own, table) ==
  [id \in DOMAIN table |-> IF id \in DOMAIN own THEN own[id] ELSE table[id]]

-----------------------------------------------------------------------------
(* Rows *)

OrderStatus ==
  {"NONE", "DRAFT", "SUBMITTED", "APPROVED", "CONFIRMED", "ALLOCATED",
   "PARTIALLY_RESERVED", "PARTIALLY_FULFILLED", "FULFILLED", "CLOSED",
   "CANCELLED", "REJECTED"}

DeliveryStatus ==
  {"NONE", "DRAFT", "READY", "PICKED", "DISPATCHED", "DELIVERED", "CANCELLED"}

ReservationStatus == {"NONE", "ACTIVE", "RELEASED", "FULFILLED", "DELETED"}

LinesOf(o) == {l \in LineIds : OrderOf[l] = o}

\* An order's lines get new ids whenever update() replaces them: `version`
\* tells the row a request has read from the one that took its place.
LineRow == [version : Nat, quantity : Nat, reserved : Nat, delivered : Nat]

\* Mutant: without sales_order_lines_delivered_le_reserved.
CheckLineReserved(row) ==
  row.quantity > 0 /\ 0 <= row.reserved /\ row.reserved <= row.quantity

\* CHECK sales_order_lines_positive_qty, _reserved_le_qty, _delivered_le_reserved
CheckLine(row) ==
  /\ row.quantity > 0
  /\ 0 <= row.reserved /\ row.reserved <= row.quantity
  /\ 0 <= row.delivered /\ row.delivered <= row.reserved

BalanceRow == [onHand : Nat, reserved : Nat]

\* Mutant: without inventory_balances_non_negative_reserved.
CheckBalanceOnHand(row) == row.onHand >= 0

\* CHECK inventory_balances_non_negative_on_hand, _non_negative_reserved
CheckBalance(row) == row.onHand >= 0 /\ row.reserved >= 0

\* quantityReserved incremented and decremented, on a line or a balance.
Hold(row, n) == [row EXCEPT !.reserved = @ + n]

\* Mutant: the whole of it is given back.
UnholdAll(row, n) == [row EXCEPT !.reserved = 0]

Unhold(row, n) == [row EXCEPT !.reserved = @ - n]

ReservationRow == [status : ReservationStatus, line : LineIds, quantity : Nat]

NoReservation ==
  [status |-> "NONE", line |-> CHOOSE l \in LineIds : TRUE, quantity |-> 0]

DeliveryRow ==
  [status : DeliveryStatus, order : OrderIds, quantity : [LineIds -> Nat]]

NoDelivery ==
  [status |-> "NONE", order |-> CHOOSE o \in OrderIds : TRUE,
   quantity |-> [l \in LineIds |-> 0]]

DeliveryLines(d) == {l \in LineIds : deliveries[d].quantity[l] > 0}

Movements ==
  [issued : [LineIds -> Nat],      \* ISSUE movements of deliveries of the line
   adjusted : [StockKeys -> Int],  \* adjustments of the key, signed
   postings : [DeliveryIds -> Nat]]  \* times the delivery's lines were issued

-----------------------------------------------------------------------------
(* Requests and their transactions *)

Idle == [pc |-> "idle"]

NoWrites ==
  [lines |-> NoRows, reservations |-> NoRows, balances |-> NoRows,
   issued |-> [l \in LineIds |-> 0]]

\* The writes `p` of a transaction with one more row.
WriteLine(p, l, row) == [p EXCEPT !.lines = Put(@, l, row)]
WriteReservation(p, i, row) == [p EXCEPT !.reservations = Put(@, i, row)]
WriteBalance(p, key, row) == [p EXCEPT !.balances = Put(@, key, row)]
WriteIssue(p, l, n) == [p EXCEPT !.issued[l] = @ + n]

\* What the transaction of worker w reads.
LinesSeen(w) == Overlay(pending[w].lines, lines)
BalancesSeen(w) == Overlay(pending[w].balances, balances)
ReservationsSeen(w) == Overlay(pending[w].reservations, reservations)

\* Rows that the transactions of the other workers have locked.  A request
\* writes a reservation only under the lock of its stock key, so the lock of
\* the reservation row itself never makes anyone wait.
LinesLocked(w) == UNION {DOMAIN pending[v].lines : v \in Workers \ {w}}
KeysLocked(w) == UNION {DOMAIN pending[v].balances : v \in Workers \ {w}}

ActiveFor(w, l) ==
  {i \in ReservationIds : /\ ReservationsSeen(w)[i].status = "ACTIVE"
                          /\ ReservationsSeen(w)[i].line = l}

Goto(w, request) == requests' = [requests EXCEPT ![w] = request]

Write(w, writes) == pending' = [pending EXCEPT ![w] = writes]

Begin(w, request) ==
  requests[w] = Idle /\ Goto(w, request) /\ UNCHANGED <<db, pending>>

\* A request ends before its commit: a guard throws, a constraint refuses a
\* write, a deadlock or the 5 s limit on interactive transactions rolls it
\* back, or the process stops.
Abort(w) ==
  /\ requests[w] # Idle
  /\ Goto(w, Idle)
  /\ Write(w, NoWrites)
  /\ UNCHANGED db

\* The end of a transaction: the status of the order (and of the delivery)
\* is written over whatever it is by now, and the pending rows are published.
CommitOf(order, status, delivered) ==
  [pc |-> "commit", order |-> order, status |-> status, delivered |-> delivered]

Commit(w) ==
  LET r == requests[w] IN
  /\ r.pc = "commit"
  /\ orders' = [orders EXCEPT ![r.order] = r.status]
  /\ lines' = LinesSeen(w)
  /\ reservations' = ReservationsSeen(w)
  /\ balances' = BalancesSeen(w)
  /\ deliveries' = [d \in DeliveryIds |->
       IF d \in r.delivered THEN [deliveries[d] EXCEPT !.status = "DELIVERED"]
                            ELSE deliveries[d]]
  /\ movements' = [movements EXCEPT
       !.issued = [l \in LineIds |-> @[l] + pending[w].issued[l]],
       !.postings = [d \in DeliveryIds |->
                       IF d \in r.delivered THEN @[d] + 1 ELSE @[d]]]
  /\ Goto(w, Idle)
  /\ Write(w, NoWrites)
=============================================================================
