--------------------------- MODULE DeliveryOrders ---------------------------
(***************************************************************************)
(* sales/deliveries/delivery-orders.service.ts.  executeDelivery issues    *)
(* stock through BalancesService.applyStockMovement; the cost of goods     *)
(* sold it also records writes none of these tables.                       *)
(***************************************************************************)
EXTENDS SalesDatabase

-----------------------------------------------------------------------------
(* Creation: a read of the order, then the insert *)

Deliverable ==
  {"APPROVED", "CONFIRMED", "ALLOCATED", "PARTIALLY_RESERVED", "PARTIALLY_FULFILLED"}

\* The quantities asked for: none or one of Quantities for each line.
DeliveryQuantities(o) ==
  {q \in [LineIds -> Quantities \cup {0}] :
     /\ \A l \in LineIds : q[l] > 0 => OrderOf[l] = o
     /\ \E l \in LineIds : q[l] > 0}

BeginCreateDelivery(w, o) ==
  /\ orders[o] \in Deliverable
  /\ \E q \in DeliveryQuantities(o) :
       /\ \A l \in LineIds : q[l] > 0 => q[l] <= lines[l].quantity - lines[l].delivered
       /\ Begin(w, [pc |-> "insertDelivery", order |-> o, quantity |-> q,
                    version |-> [l \in LineIds |-> lines[l].version]])

InsertDelivery(w) ==
  LET r == requests[w] IN
  /\ r.pc = "insertDelivery"
  /\ \A l \in LineIds : r.quantity[l] > 0 => lines[l].version = r.version[l]
  /\ \E d \in DeliveryIds :
       /\ deliveries[d].status = "NONE"
       /\ deliveries' = [deliveries EXCEPT
            ![d] = [status |-> "DRAFT", order |-> r.order, quantity |-> r.quantity]]
  /\ Goto(w, Idle)
  /\ UNCHANGED <<orders, lines, reservations, balances, movements, pending>>

-----------------------------------------------------------------------------
(* Status changes: a read of the delivery order, then an update by id *)

BeginDeliveryStatus(w, d, from, to) ==
  /\ deliveries[d].status \in from
  /\ Begin(w, [pc |-> "setDelivery", delivery |-> d, to |-> to])

Ready(w, d) == BeginDeliveryStatus(w, d, {"DRAFT"}, "READY")

Pick(w, d) == BeginDeliveryStatus(w, d, {"DRAFT", "READY"}, "PICKED")

Dispatch(w, d) == BeginDeliveryStatus(w, d, {"DRAFT", "READY", "PICKED"}, "DISPATCHED")

CancelDelivery(w, d) ==
  BeginDeliveryStatus(w, d, DeliveryStatus \ {"NONE", "DELIVERED", "CANCELLED"}, "CANCELLED")

SetDelivery(w) ==
  LET r == requests[w] IN
  /\ r.pc = "setDelivery"
  /\ deliveries' = [deliveries EXCEPT ![r.delivery].status = r.to]
  /\ Goto(w, Idle)
  /\ UNCHANGED <<orders, lines, reservations, balances, movements, pending>>

-----------------------------------------------------------------------------
(* executeDelivery *)

\* The status is checked here and never again; the order's is not looked at.
BeginDeliver(w, d) ==
  /\ deliveries[d].status \notin {"NONE", "DELIVERED", "CANCELLED"}
  /\ Begin(w, [pc |-> "deliver", delivery |-> d, todo |-> DeliveryLines(d)])

\* Mutant: the stock falls by the quantity ordered, not the one delivered.
ReadOnHandOrdered(w) ==
  LET r == requests[w] IN
  /\ r.pc = "deliver"
  /\ \E l \in r.todo :
       LET line == LinesSeen(w)[l]
           onHand == BalancesSeen(w)[KeyOf[l]].onHand
           n == deliveries[r.delivery].quantity[l]
       IN
       /\ n <= line.quantity - line.delivered
       /\ onHand >= line.quantity
       /\ Goto(w, [pc |-> "issue", delivery |-> r.delivery, todo |-> r.todo \ {l},
                   line |-> l, onHand |-> onHand - line.quantity])
  /\ UNCHANGED <<db, pending>>

\* The next line: what is left to deliver of it, and the stock on hand that
\* applyStockMovement will subtract from.
ReadOnHand(w) ==
  LET r == requests[w] IN
  /\ r.pc = "deliver"
  /\ \E l \in r.todo :
       LET line == LinesSeen(w)[l]
           onHand == BalancesSeen(w)[KeyOf[l]].onHand
           n == deliveries[r.delivery].quantity[l]
       IN
       /\ n <= line.quantity - line.delivered
       /\ onHand >= n
       /\ Goto(w, [pc |-> "issue", delivery |-> r.delivery, todo |-> r.todo \ {l},
                   line |-> l, onHand |-> onHand - n])
  /\ UNCHANGED <<db, pending>>

Consumed(reservation, n) ==
  IF reservation.quantity <= n THEN reservation.quantity ELSE n

\* Mutant: what is left of a reservation is not written.
ConsumeNoRest(reservation, n) ==
  IF reservation.quantity <= n
  THEN [reservation EXCEPT !.status = "FULFILLED"]
  ELSE reservation

\* A reservation used up is FULFILLED, one used in part keeps the rest.
Consume(reservation, n) ==
  IF reservation.quantity <= n
  THEN [reservation EXCEPT !.status = "FULFILLED"]
  ELSE [reservation EXCEPT !.quantity = @ - n]

\* Mutant: the delivery order is done after its first line.
DeliverFirst(r, seen) ==
  LET o == deliveries[r.delivery].order
      full == \A l \in LinesOf(o) : seen[l].delivered >= seen[l].quantity
  IN
  CommitOf(o, IF full THEN "FULFILLED" ELSE "PARTIALLY_FULFILLED", {r.delivery})

\* Mutant: once the order is fulfilled all its delivery orders are DELIVERED.
DeliverAll(r, seen) ==
  LET o == deliveries[r.delivery].order
      full == \A l \in LinesOf(o) : seen[l].delivered >= seen[l].quantity
      all == {d \in DeliveryIds : deliveries[d].order = o /\ deliveries[d].status # "NONE"}
  IN
  IF r.todo # {}
  THEN [pc |-> "deliver", delivery |-> r.delivery, todo |-> r.todo]
  ELSE IF full THEN CommitOf(o, "FULFILLED", all)
               ELSE CommitOf(o, "PARTIALLY_FULFILLED", {r.delivery})

\* What executeDelivery has left to do after a line: the next line, or the
\* order's status from all its lines as the transaction, for which they now
\* are `seen`, reads them.
DeliverNext(r, seen) ==
  LET o == deliveries[r.delivery].order
      full == \A l \in LinesOf(o) : seen[l].delivered >= seen[l].quantity
  IN
  IF r.todo # {}
  THEN [pc |-> "deliver", delivery |-> r.delivery, todo |-> r.todo]
  ELSE CommitOf(o, IF full THEN "FULFILLED" ELSE "PARTIALLY_FULFILLED", {r.delivery})

\* Write the movement, the balance computed from the earlier read, the line's
\* delivered quantity, and the first active reservation of the line, if any.
Issue(w) ==
  LET r == requests[w]
      l == r.line
      key == KeyOf[l]
      n == deliveries[r.delivery].quantity[l]
      line == [LinesSeen(w)[l] EXCEPT !.delivered = @ + n]
      balance == [BalancesSeen(w)[key] EXCEPT !.onHand = r.onHand]
      first == ActiveFor(w, l)
  IN
  /\ r.pc = "issue"
  /\ l \notin LinesLocked(w) /\ key \notin KeysLocked(w)
  /\ CheckLine(line)
  /\ \/ /\ first = {}
        /\ Write(w, WriteIssue(WriteLine(WriteBalance(pending[w], key, balance), l, line), l, n))
     \/ \E i \in first :
          LET reservation == ReservationsSeen(w)[i]
              left == Unhold(balance, Consumed(reservation, n))
              used == WriteReservation(WriteBalance(pending[w], key, left), i,
                                       Consume(reservation, n))
          IN
          /\ CheckBalance(left)
          /\ Write(w, WriteIssue(WriteLine(used, l, line), l, n))
  /\ Goto(w, DeliverNext(r, [LinesSeen(w) EXCEPT ![l] = line]))
  /\ UNCHANGED db
=============================================================================
