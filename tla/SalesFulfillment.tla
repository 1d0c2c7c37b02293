------------------------- MODULE SalesFulfillment -------------------------
(***************************************************************************)
(* Sales orders, reservations, deliveries and adjustments over one         *)
(* database, and what they have to keep true between them.                 *)
(***************************************************************************)
EXTENDS SalesOrders, StockRequests, DeliveryOrders, Functions

Init ==
  /\ orders = [o \in OrderIds |-> "NONE"]
  /\ lines = [l \in LineIds |->
       [version |-> 0, quantity |-> 0, reserved |-> 0, delivered |-> 0]]
  /\ reservations = [i \in ReservationIds |-> NoReservation]
  /\ balances = [k \in StockKeys |-> [onHand |-> InitialStock, reserved |-> 0]]
  /\ deliveries = [d \in DeliveryIds |-> NoDelivery]
  /\ movements = [issued |-> [l \in LineIds |-> 0],
                  adjusted |-> [k \in StockKeys |-> 0],
                  postings |-> [d \in DeliveryIds |-> 0]]
  /\ requests = [w \in Workers |-> Idle]
  /\ pending = [w \in Workers |-> NoWrites]

OrderRequest(w, o) ==
  \/ BeginUpdate(w, o)
  \/ Submit(w, o)
  \/ Approve(w, o)
  \/ Reject(w, o)
  \/ Close(w, o)
  \/ BeginAllocate(w, o)
  \/ BeginConfirm(w, o)
  \/ BeginReleaseAllocation(w, o)
  \/ BeginCancel(w, o)
  \/ BeginCreateDelivery(w, o)

DeliveryRequest(w, d) ==
  \/ Ready(w, d)
  \/ Pick(w, d)
  \/ Dispatch(w, d)
  \/ CancelDelivery(w, d)
  \/ BeginDeliver(w, d)

Continue(w) ==
  \/ ReplaceLines(w)
  \/ SetOrder(w)
  \/ ConfirmAllocate(w)
  \/ ReadAvailable(w)
  \/ Reserve(w)
  \/ ListReservations(w)
  \/ GiveBack(w)
  \/ Release(w)
  \/ InsertDelivery(w)
  \/ SetDelivery(w)
  \/ ReadOnHand(w)
  \/ Issue(w)
  \/ Adjust(w)
  \/ Commit(w)
  \/ Abort(w)

Next ==
  \/ \E o \in OrderIds : Create(o)
  \/ \E w \in Workers :
       \/ \E o \in OrderIds : OrderRequest(w, o)
       \/ \E i \in ReservationIds : BeginRelease(w, i)
       \/ \E d \in DeliveryIds : DeliveryRequest(w, d)
       \/ \E key \in StockKeys, n \in Adjustments : BeginAdjust(w, key, n)
       \/ Continue(w)

Spec == Init /\ [][Next]_vars

-----------------------------------------------------------------------------
TypeOK ==
  /\ orders \in [OrderIds -> OrderStatus]
  /\ lines \in [LineIds -> LineRow]
  /\ reservations \in [ReservationIds -> ReservationRow]
  /\ balances \in [StockKeys -> BalanceRow]
  /\ deliveries \in [DeliveryIds -> DeliveryRow]
  /\ movements \in Movements

-----------------------------------------------------------------------------
(* What holds however requests interleave *)

\* The ISSUE movements posted for an order line are the quantity the line
\* shows as delivered, and never more than the customer ordered: racing
\* executeDelivery calls read the same remaining quantity, and only the
\* increment and the CHECK constraints of the line stop the second one.
NeverOverDelivered ==
  \A l \in LineIds : /\ movements.issued[l] = lines[l].delivered
                     /\ movements.issued[l] <= lines[l].quantity

DeliveredQuantity(l) ==
  SumFunction([d \in {e \in DeliveryIds : deliveries[e].status = "DELIVERED"} |->
                 deliveries[d].quantity[l]])

\* What the delivery orders in status DELIVERED promise of a line has left
\* the stock: no status change, stale or not, makes a delivery order DELIVERED
\* without its movements.
DeliveredWasIssued ==
  \A l \in LineIds : DeliveredQuantity(l) <= movements.issued[l]

\* update() never throws away a line that stock was issued for.
ReplacedLinesWereUnissued ==
  [][\A l \in LineIds :
       lines'[l].version # lines[l].version => movements.issued[l] = 0]_vars

-----------------------------------------------------------------------------
(* What holds when requests do not overlap *)

ActiveQuantity(S) == SumFunction([i \in S |-> reservations[i].quantity])

ActiveOfKey(k) ==
  {i \in ReservationIds : /\ reservations[i].status = "ACTIVE"
                         /\ KeyOf[reservations[i].line] = k}

ActiveOfLine(l) ==
  {i \in ReservationIds : reservations[i].status = "ACTIVE" /\ reservations[i].line = l}

\* The stock a balance shows as reserved is the sum of the active reservations.
ReservedIsActive ==
  \A k \in StockKeys : balances[k].reserved = ActiveQuantity(ActiveOfKey(k))

IssuedOfKey(k) ==
  SumFunction([l \in {m \in LineIds : KeyOf[m] = k} |-> movements.issued[l]])

\* The quantity on hand is what the movement ledger adds up to.
OnHandIsLedger ==
  \A k \in StockKeys :
    balances[k].onHand = InitialStock + movements.adjusted[k] - IssuedOfKey(k)

\* Stock issued for a line was issued by delivery orders that are DELIVERED,
\* once each; a delivery order that is not was never executed.
IssuedWasDelivered ==
  /\ \A l \in LineIds : movements.issued[l] = DeliveredQuantity(l)
  /\ \A d \in DeliveryIds :
       movements.postings[d] = IF deliveries[d].status = "DELIVERED" THEN 1 ELSE 0

\* A cancelled order holds no stock.
CancelledHoldsNothing ==
  \A l \in LineIds : orders[OrderOf[l]] = "CANCELLED" => ActiveOfLine(l) = {}

\* An order that is ALLOCATED and of which nothing was delivered has all it
\* ordered reserved.
AllocatedIsReserved ==
  \A l \in LineIds :
    orders[OrderOf[l]] = "ALLOCATED" /\ lines[l].delivered = 0
      => ActiveQuantity(ActiveOfLine(l)) = lines[l].quantity

\* The line knows of every quantity reserved for it.
ActiveWithinLine ==
  \A l \in LineIds : ActiveQuantity(ActiveOfLine(l)) <= lines[l].reserved

\* A fulfilled order is only ever closed: no release, cancellation or stale
\* delivery order takes it back.
FulfilledIsFinal ==
  [][\A o \in OrderIds :
       orders[o] = "FULFILLED" => orders'[o] \in {"FULFILLED", "CLOSED"}]_vars

-----------------------------------------------------------------------------
(* What the documentation promises and the code does not keep *)

\* ADR-018: reservations never exceed the stock on hand, so allocate() never
\* reserves more than that.
AllocationFitsStock ==
  [][\A k \in StockKeys :
       balances'[k].reserved > balances[k].reserved
         => balances'[k].reserved <= balances'[k].onHand]_vars
=============================================================================
