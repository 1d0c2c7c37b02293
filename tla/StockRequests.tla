--------------------------- MODULE StockRequests ---------------------------
(***************************************************************************)
(* Requests on the stock itself: the manual release of one reservation     *)
(* (sales/reservations/reservations.service.ts) and adjustments            *)
(* (inventory/adjustments), which are applyStockMovement in a transaction  *)
(* of its own and look at no quantityReserved.                             *)
(***************************************************************************)
EXTENDS SalesDatabase

\* findOne and the status check, before the transaction: the quantity given
\* back is the one read here.
BeginRelease(w, i) ==
  /\ reservations[i].status = "ACTIVE"
  /\ Begin(w, [pc |-> "release", reservation |-> i, row |-> reservations[i]])

\* Decrement balance and line, mark the reservation, and read what the order
\* still has reserved: the status to write is CONFIRMED or PARTIALLY_RESERVED,
\* whatever the order's status.
Release(w) ==
  LET r == requests[w]
      i == r.reservation
      l == r.row.line
      key == KeyOf[l]
      balance == Unhold(BalancesSeen(w)[key], r.row.quantity)
      line == Unhold(LinesSeen(w)[l], r.row.quantity)
      remaining == {j \in ReservationIds \ {i} :
                      /\ ReservationsSeen(w)[j].status = "ACTIVE"
                      /\ OrderOf[ReservationsSeen(w)[j].line] = OrderOf[l]}
  IN
  /\ r.pc = "release"
  /\ key \notin KeysLocked(w) /\ CheckBalance(balance)
  /\ l \notin LinesLocked(w) /\ CheckLine(line)
  /\ reservations[i].status # "DELETED"
  /\ Write(w, WriteLine(WriteReservation(WriteBalance(pending[w], key, balance), i,
                [reservations[i] EXCEPT !.status = "RELEASED"]), l, line))
  /\ Goto(w, CommitOf(OrderOf[l],
                      IF remaining = {} THEN "CONFIRMED" ELSE "PARTIALLY_RESERVED", {}))
  /\ UNCHANGED db

-----------------------------------------------------------------------------
(* Adjustments *)

\* The read of the balance, which fixes the quantity on hand to write.
BeginAdjust(w, key, delta) ==
  /\ balances[key].onHand + delta \in 0..MaxOnHand
  /\ InitialStock + movements.adjusted[key] + delta \in 0..MaxOnHand
  /\ Begin(w, [pc |-> "adjust", key |-> key, delta |-> delta,
               onHand |-> balances[key].onHand + delta])

Adjust(w) ==
  LET r == requests[w] IN
  /\ r.pc = "adjust"
  /\ r.key \notin KeysLocked(w)
  /\ balances' = [balances EXCEPT ![r.key].onHand = r.onHand]
  /\ movements' = [movements EXCEPT !.adjusted[r.key] = @ + r.delta]
  /\ Goto(w, Idle)
  /\ UNCHANGED <<orders, lines, reservations, deliveries, pending>>
=============================================================================
