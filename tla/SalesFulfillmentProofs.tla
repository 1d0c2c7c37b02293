----------------------- MODULE SalesFulfillmentProofs -----------------------
(***************************************************************************)
(* For any number of orders, lines, deliveries and concurrent requests:    *)
(* the tables keep their types, no line is issued more often than it was   *)
(* ordered and the movements agree with the line, update() never throws    *)
(* away a line that stock was issued for, and what a DELIVERED delivery    *)
(* order promises was issued.                                              *)
(*                                                                         *)
(* The invariant IInv says what a request may still believe of the tables  *)
(* (that the order, delivery and lines it names exist: their statuses may  *)
(* have changed) and what its transaction may publish: rows of lines that  *)
(* nobody else has locked, whose delivered quantity is the committed one   *)
(* plus what the transaction issued, within what was ordered.  DeliveryInv *)
(* adds that a delivery under way has issued exactly the lines it is done  *)
(* with.                                                                   *)
(***************************************************************************)
EXTENDS SalesFulfillment, SumTheorems, TLAPS

-----------------------------------------------------------------------------
(* The inductive invariant *)

IsRows(f, Ids, Rows) == DOMAIN f \subseteq Ids /\ f \in [DOMAIN f -> Rows]

OrderPcs ==
  {"update", "setOrder", "confirm", "allocate", "reserve", "releaseAll",
   "giveBack", "insertDelivery", "commit"}

\* Where a request can have written rows it has not committed.
WritingPcs == {"allocate", "reserve", "giveBack", "deliver", "issue", "commit"}

Known(order, os) == order \in OrderIds /\ os[order] # "NONE"

Exists(delivery, ds) == delivery \in DeliveryIds /\ ds[delivery].status # "NONE"

Taken(i, rs) == i \in ReservationIds /\ rs[i].status # "NONE"

\* A request `r` over order statuses `os`, delivery orders
\* `ds` and reservations `rs`.
RequestOK(r, os, ds, rs) ==
  /\ r.pc \in OrderPcs \cup {"idle", "release", "setDelivery", "deliver", "issue", "adjust"}
  /\ r.pc \in OrderPcs => Known(r.order, os)
  /\ r.pc = "update" => r.quantity \in [LinesOf(r.order) -> Quantities]
  /\ r.pc = "setOrder" => r.to \in OrderStatus \ {"NONE"}
  /\ r.pc \in {"allocate", "reserve"} =>
       /\ r.seen \in [LinesOf(r.order) -> LineRow]
       /\ r.took \in [LinesOf(r.order) -> Nat]
       /\ r.todo \subseteq LinesOf(r.order)
  /\ r.pc = "reserve" => r.line \in LinesOf(r.order)
  /\ r.pc \in {"releaseAll", "giveBack"} => r.to \in {"APPROVED", "CANCELLED"}
  /\ r.pc = "giveBack" =>
       \A i \in DOMAIN r.todo : /\ Taken(i, rs)
                                /\ r.todo[i] \in ReservationRow
                                /\ OrderOf[r.todo[i].line] = r.order
  /\ r.pc = "release" =>
       /\ Taken(r.reservation, rs)
       /\ r.row \in ReservationRow
       /\ Known(OrderOf[r.row.line], os)
  /\ r.pc = "insertDelivery" =>
       /\ r.quantity \in [LineIds -> Nat]
       /\ \A l \in LineIds : r.quantity[l] > 0 => OrderOf[l] = r.order
  /\ r.pc = "setDelivery" =>
       Exists(r.delivery, ds) /\ r.to \in DeliveryStatus \ {"NONE"}
  /\ r.pc \in {"deliver", "issue"} =>
       /\ Exists(r.delivery, ds)
       /\ \A l \in r.todo : l \in LineIds /\ ds[r.delivery].quantity[l] > 0
  /\ r.pc = "issue" =>
       /\ r.line \in LineIds /\ ds[r.delivery].quantity[r.line] > 0
       /\ r.onHand \in Nat
  /\ r.pc = "commit" =>
       /\ r.status \in OrderStatus \ {"NONE"}
       /\ \A d \in r.delivered : Exists(d, ds)
  /\ r.pc = "adjust" =>
       r.key \in StockKeys /\ r.delta \in Int /\ r.onHand \in Nat

\* Some delivery order was created for the order of the line.
DeliveryFor(l, ds) ==
  \E d \in DeliveryIds : Exists(d, ds) /\ ds[d].order = OrderOf[l]

WritesTyped(p) ==
  /\ p \in [lines : {p.lines}, reservations : {p.reservations},
             balances : {p.balances}, issued : {p.issued}]
  /\ IsRows(p.lines, LineIds, LineRow)
  /\ IsRows(p.reservations, ReservationIds, ReservationRow)
  /\ IsRows(p.balances, StockKeys, BalanceRow)
  /\ p.issued \in [LineIds -> Nat]

\* The uncommitted rows `p` over order statuses `os`, lines `ls` and
\* delivery orders `ds`.
WritesOK(p, os, ls, ds) ==
  /\ WritesTyped(p)
  /\ \A l \in DOMAIN p.lines :
       /\ p.lines[l].version = ls[l].version
       /\ p.lines[l].delivered = ls[l].delivered + p.issued[l]
       /\ p.lines[l].delivered <= p.lines[l].quantity
       /\ Known(OrderOf[l], os)
  /\ \A l \in LineIds : p.issued[l] > 0 => l \in DOMAIN p.lines /\ DeliveryFor(l, ds)
  /\ \A i \in DOMAIN p.reservations :
       p.reservations[i].status # "NONE" /\ Known(OrderOf[p.reservations[i].line], os)

WorkerOK(r, p, os, ls, ds, rs) ==
  /\ RequestOK(r, os, ds, rs)
  /\ WritesOK(p, os, ls, ds)
  /\ r.pc \notin WritingPcs => p = NoWrites

\* The committed tables.
TablesOK ==
  /\ NeverOverDelivered
  /\ \A l \in LineIds : movements.issued[l] > 0 => DeliveryFor(l, deliveries)
  /\ \A d \in DeliveryIds : Exists(d, deliveries) =>
       /\ Known(deliveries[d].order, orders)
       /\ \A l \in LineIds : deliveries[d].quantity[l] > 0 => OrderOf[l] = deliveries[d].order
  /\ \A i \in ReservationIds :
       reservations[i].status # "NONE" => Known(OrderOf[reservations[i].line], orders)

LockedOnce ==
  \A v, w \in Workers : v # w => DOMAIN pending[v].lines \cap DOMAIN pending[w].lines = {}

IInv ==
  /\ TypeOK
  /\ TablesOK
  /\ requests = [w \in Workers |-> requests[w]]
  /\ pending = [w \in Workers |-> pending[w]]
  /\ \A w \in Workers : WorkerOK(requests[w], pending[w], orders, lines, deliveries, reservations)
  /\ LockedOnce

-----------------------------------------------------------------------------
(* What every step keeps *)

\* Orders and reservations never return to NONE, and a delivery order, once
\* created, keeps its order and its quantities.
Grows(os, os2, ds, ds2, rs, rs2) ==
  /\ \A o \in OrderIds : os[o] # "NONE" => os2[o] # "NONE"
  /\ \A d \in DeliveryIds : ds[d].status # "NONE" =>
       /\ ds2[d].status # "NONE"
       /\ ds2[d].order = ds[d].order
       /\ ds2[d].quantity = ds[d].quantity
  /\ \A i \in ReservationIds : rs[i].status # "NONE" => rs2[i].status # "NONE"

\* A step of others, which leaves the rows of its lines as they are, takes
\* nothing a worker believes away.
LEMMA WorkerKept ==
  ASSUME NEW r, NEW p, NEW os, NEW os2, NEW ls, NEW ls2, NEW ds, NEW ds2, NEW rs, NEW rs2,
         WorkerOK(r, p, os, ls, ds, rs),
         Grows(os, os2, ds, ds2, rs, rs2),
         \A l \in DOMAIN p.lines : ls2[l].version = ls[l].version /\ ls2[l].delivered = ls[l].delivered
  PROVE  WorkerOK(r, p, os2, ls2, ds2, rs2)
<1>1. \A o : Known(o, os) => Known(o, os2)
  BY DEF Grows, Known
<1>2. \A d : Exists(d, ds) => Exists(d, ds2) /\ ds2[d].order = ds[d].order /\ ds2[d].quantity = ds[d].quantity
  BY DEF Grows, Exists
<1>3. RequestOK(r, os2, ds2, rs2)
  <2>1. RequestOK(r, os, ds, rs)
    BY DEF WorkerOK
  <2>2. \A i : Taken(i, rs) => Taken(i, rs2)
    BY DEF Grows, Taken
  <2> QED
    BY <1>1, <1>2, <2>1, <2>2 DEF RequestOK
<1>4. \A l : DeliveryFor(l, ds) => DeliveryFor(l, ds2)
  BY <1>2 DEF DeliveryFor
<1>5. WritesOK(p, os2, ls2, ds2)
  <2>1. WritesOK(p, os, ls, ds)
    BY DEF WorkerOK
  <2> QED
    BY <1>1, <1>4, <2>1 DEF WritesOK
<1> QED
  BY <1>3, <1>5 DEF WorkerOK

\* A step inside a transaction: only the request and its writes change.
LEMMA InsideTransaction ==
  ASSUME IInv, NEW w \in Workers, NEW r, NEW p,
         requests' = [requests EXCEPT ![w] = r],
         pending' = [pending EXCEPT ![w] = p],
         UNCHANGED db,
         WorkerOK(r, p, orders, lines, deliveries, reservations),
         DOMAIN p.lines \cap LinesLocked(w) = {}
  PROVE  IInv'
<1>1. TypeOK' /\ TablesOK'
  BY DEF IInv, TypeOK, TablesOK, NeverOverDelivered, db, DeliveryFor, Exists, Known
<1>2. /\ requests' = [v \in Workers |-> requests'[v]]
      /\ pending' = [v \in Workers |-> pending'[v]]
      /\ requests'[w] = r /\ pending'[w] = p
      /\ \A v \in Workers \ {w} : requests'[v] = requests[v] /\ pending'[v] = pending[v]
  BY DEF IInv
<1>3. \A v \in Workers : WorkerOK(requests'[v], pending'[v], orders', lines', deliveries', reservations')
  BY <1>2 DEF IInv, db
<1>4. \A v \in Workers \ {w} : DOMAIN p.lines \cap DOMAIN pending[v].lines = {}
  BY DEF LinesLocked
<1>5. LockedOnce'
  BY <1>2, <1>4 DEF IInv, LockedOnce
<1> QED
  BY <1>1, <1>2, <1>3, <1>5 DEF IInv

\* A statement of its own, or a commit: the tables change and the worker is idle.
LEMMA TablesWritten ==
  ASSUME IInv, NEW w \in Workers,
         requests' = [requests EXCEPT ![w] = Idle],
         pending' = [pending EXCEPT ![w] = NoWrites],
         TypeOK', TablesOK',
         Grows(orders, orders', deliveries, deliveries', reservations, reservations'),
         \A v \in Workers \ {w} : \A l \in DOMAIN pending[v].lines :
           lines'[l].version = lines[l].version /\ lines'[l].delivered = lines[l].delivered
  PROVE  IInv'
<1>1. WorkerOK(Idle, NoWrites, orders', lines', deliveries', reservations')
  <2>1. RequestOK(Idle, orders', deliveries', reservations')
    BY DEF RequestOK, Idle, OrderPcs
  <2>2. WritesOK(NoWrites, orders', lines', deliveries')
    BY DEF WritesOK, WritesTyped, NoWrites, NoRows, IsRows
  <2> QED
    BY <2>1, <2>2 DEF WorkerOK
<1>2. /\ requests' = [v \in Workers |-> requests'[v]]
      /\ pending' = [v \in Workers |-> pending'[v]]
      /\ requests'[w] = Idle /\ pending'[w] = NoWrites
      /\ \A v \in Workers \ {w} : requests'[v] = requests[v] /\ pending'[v] = pending[v]
  BY DEF IInv
<1>3. ASSUME NEW v \in Workers \ {w}
      PROVE  WorkerOK(requests'[v], pending'[v], orders', lines', deliveries', reservations')
  <2>1. WorkerOK(requests[v], pending[v], orders, lines, deliveries, reservations)
    BY DEF IInv
  <2>2. WorkerOK(requests[v], pending[v], orders', lines', deliveries', reservations')
    BY <2>1, WorkerKept
  <2> QED
    BY <1>2, <2>2
<1>4. DOMAIN NoWrites.lines = {}
  BY DEF NoWrites, NoRows
<1>5. LockedOnce'
  BY <1>2, <1>4 DEF IInv, LockedOnce
<1> QED
  BY <1>1, <1>2, <1>3, <1>5 DEF IInv

\* A step that only moves a request on, without forgetting uncommitted rows.
LEMMA OnlyRequest ==
  ASSUME IInv, NEW w \in Workers, NEW r,
         Goto(w, r), UNCHANGED <<db, pending>>,
         RequestOK(r, orders, deliveries, reservations),
         requests[w].pc \in WritingPcs => r.pc \in WritingPcs
  PROVE  IInv'
<1>1. WorkerOK(requests[w], pending[w], orders, lines, deliveries, reservations)
  BY DEF IInv
<1>2. WorkerOK(r, pending[w], orders, lines, deliveries, reservations)
  BY <1>1 DEF WorkerOK
<1>3. pending' = [pending EXCEPT ![w] = pending[w]]
  BY DEF IInv
<1>4. DOMAIN pending[w].lines \cap LinesLocked(w) = {}
  BY DEF IInv, LockedOnce, LinesLocked
<1> QED
  BY <1>2, <1>3, <1>4, InsideTransaction DEF Goto

\* A new request.
LEMMA BeginKeeps ==
  ASSUME IInv, NEW w \in Workers, NEW r,
         Begin(w, r), RequestOK(r, orders, deliveries, reservations)
  PROVE  IInv'
<1>1. requests[w].pc \notin WritingPcs
  BY DEF Begin, Idle, WritingPcs
<1> QED
  BY <1>1, OnlyRequest DEF Begin

-----------------------------------------------------------------------------
(* Steps that only move a request on *)

\* The requests on sales orders only read before they begin.
LEMMA OrderRequestKeeps ==
  ASSUME IInv, NEW w \in Workers, NEW o \in OrderIds, OrderRequest(w, o)
  PROVE  IInv'
<1> USE DEF RequestOK, OrderPcs, Known
<1>1. CASE BeginUpdate(w, o)
  BY <1>1, BeginKeeps DEF BeginUpdate
<1>2. ASSUME NEW from, NEW to \in OrderStatus \ {"NONE"},
             "NONE" \notin from, BeginStatus(w, o, from, to)
      PROVE  IInv'
  BY <1>2, BeginKeeps DEF BeginStatus
<1>3. CASE Submit(w, o) \/ Approve(w, o) \/ Reject(w, o) \/ Close(w, o)
  BY <1>2, <1>3 DEF Submit, Approve, Reject, Close, OrderStatus
<1>4. CASE BeginAllocate(w, o)
  BY <1>4, BeginKeeps DEF BeginAllocate, Allocatable, IInv, TypeOK, LinesOf
<1>5. CASE BeginConfirm(w, o)
  BY <1>5, BeginKeeps DEF BeginConfirm
<1>6. CASE BeginReleaseAllocation(w, o)
  BY <1>6, BeginKeeps DEF BeginReleaseAllocation
<1>7. CASE BeginCancel(w, o)
  BY <1>7, BeginKeeps DEF BeginCancel
<1>8. CASE BeginCreateDelivery(w, o)
  <2>1. PICK q \in DeliveryQuantities(o) :
          Begin(w, [pc |-> "insertDelivery", order |-> o, quantity |-> q,
                    version |-> [l \in LineIds |-> lines[l].version]])
    BY <1>8 DEF BeginCreateDelivery
  <2>2. q \in [LineIds -> Nat] /\ \A l \in LineIds : q[l] > 0 => OrderOf[l] = o
    <3>1. /\ q \in [LineIds -> Quantities \cup {0}]
          /\ \A l \in LineIds : q[l] > 0 => OrderOf[l] = o
      BY <2>1 DEF DeliveryQuantities
    <3>2. Quantities \cup {0} \subseteq Nat
      BY BoundsAssumption
    <3> QED
      BY <3>1, <3>2
  <2>3. orders[o] # "NONE"
    BY <1>8 DEF BeginCreateDelivery, Deliverable
  <2> QED
    BY <2>1, <2>2, <2>3, BeginKeeps
<1> QED
  BY <1>1, <1>3, <1>4, <1>5, <1>6, <1>7, <1>8 DEF OrderRequest

\* So do the requests on delivery orders.
LEMMA DeliveryRequestKeeps ==
  ASSUME IInv, NEW w \in Workers, NEW d \in DeliveryIds, DeliveryRequest(w, d)
  PROVE  IInv'
<1> USE DEF RequestOK, OrderPcs, Exists
<1>1. ASSUME NEW from, NEW to \in DeliveryStatus \ {"NONE"},
             "NONE" \notin from, BeginDeliveryStatus(w, d, from, to)
      PROVE  IInv'
  BY <1>1, BeginKeeps DEF BeginDeliveryStatus
<1>2. CASE Ready(w, d) \/ Pick(w, d) \/ Dispatch(w, d) \/ CancelDelivery(w, d)
  BY <1>1, <1>2 DEF Ready, Pick, Dispatch, CancelDelivery, DeliveryStatus
<1>3. CASE BeginDeliver(w, d)
  BY <1>3, BeginKeeps DEF BeginDeliver, DeliveryLines
<1> QED
  BY <1>2, <1>3 DEF DeliveryRequest

\* And the manual release of a reservation and the stock adjustment.
LEMMA StockRequestKeeps ==
  ASSUME IInv, NEW w \in Workers,
         \/ \E i \in ReservationIds : BeginRelease(w, i)
         \/ \E key \in StockKeys, n \in Adjustments : BeginAdjust(w, key, n)
  PROVE  IInv'
<1> USE DEF RequestOK, OrderPcs
<1>1. ASSUME NEW i \in ReservationIds, BeginRelease(w, i)
      PROVE  IInv'
  BY <1>1, BeginKeeps DEF BeginRelease, IInv, TypeOK, TablesOK, Taken
<1>2. ASSUME NEW key \in StockKeys, NEW n \in Adjustments, BeginAdjust(w, key, n)
      PROVE  IInv'
  BY <1>2, BeginKeeps, BoundsAssumption DEF BeginAdjust, IInv, TypeOK
<1> QED
  BY <1>1, <1>2

\* The quantity allocate() decides to reserve is a natural number.
LEMMA AllocatableIsNat ==
  ASSUME NEW row \in LineRow, NEW balance \in BalanceRow
  PROVE  AtMost(Needed(row), Available(balance)) \in Nat
BY DEF AtMost, Needed, Available, AtLeastZero, LineRow, BalanceRow

\* A transaction reads its own row where it has written one, else the committed row.
LEMMA OverlayTyped ==
  ASSUME NEW Ids, NEW Rows, NEW own, NEW table \in [Ids -> Rows], IsRows(own, Ids, Rows)
  PROVE  /\ Overlay(own, table) \in [Ids -> Rows]
         /\ \A id \in DOMAIN own : Overlay(own, table)[id] = own[id]
         /\ \A id \in Ids \ DOMAIN own : Overlay(own, table)[id] = table[id]
BY DEF Overlay, IsRows

\* What a worker's transaction reads.
LEMMA SeenTyped ==
  ASSUME IInv, NEW w \in Workers
  PROVE  /\ LinesSeen(w) \in [LineIds -> LineRow]
         /\ BalancesSeen(w) \in [StockKeys -> BalanceRow]
         /\ ReservationsSeen(w) \in [ReservationIds -> ReservationRow]
         /\ \A l \in LineIds :
              /\ LinesSeen(w)[l].version = lines[l].version
              /\ LinesSeen(w)[l].delivered = lines[l].delivered + pending[w].issued[l]
              /\ LinesSeen(w)[l].delivered <= LinesSeen(w)[l].quantity
         /\ \A i \in ReservationIds : reservations[i].status # "NONE" =>
              /\ ReservationsSeen(w)[i].status # "NONE"
              /\ Known(OrderOf[ReservationsSeen(w)[i].line], orders)
         /\ \A i \in ReservationIds : ReservationsSeen(w)[i].status # "NONE" =>
              Known(OrderOf[ReservationsSeen(w)[i].line], orders)
<1>1. WritesOK(pending[w], orders, lines, deliveries)
  BY DEF IInv, WorkerOK
<1>2. WritesTyped(pending[w])
  BY <1>1 DEF WritesOK
<1>3. /\ LinesSeen(w) \in [LineIds -> LineRow]
      /\ \A l \in DOMAIN pending[w].lines : LinesSeen(w)[l] = pending[w].lines[l]
      /\ \A l \in LineIds \ DOMAIN pending[w].lines : LinesSeen(w)[l] = lines[l]
  BY <1>2, OverlayTyped DEF IInv, TypeOK, WritesTyped, LinesSeen
<1>4. BalancesSeen(w) \in [StockKeys -> BalanceRow]
  BY <1>2, OverlayTyped DEF IInv, TypeOK, WritesTyped, BalancesSeen
<1>5. /\ ReservationsSeen(w) \in [ReservationIds -> ReservationRow]
      /\ \A i \in DOMAIN pending[w].reservations :
           ReservationsSeen(w)[i] = pending[w].reservations[i]
      /\ \A i \in ReservationIds \ DOMAIN pending[w].reservations :
           ReservationsSeen(w)[i] = reservations[i]
  BY <1>2, OverlayTyped DEF IInv, TypeOK, WritesTyped, ReservationsSeen
<1>6. ASSUME NEW l \in LineIds
      PROVE  /\ LinesSeen(w)[l].version = lines[l].version
             /\ LinesSeen(w)[l].delivered = lines[l].delivered + pending[w].issued[l]
             /\ LinesSeen(w)[l].delivered <= LinesSeen(w)[l].quantity
  <2>1. CASE l \in DOMAIN pending[w].lines
    BY <1>1, <1>3, <2>1 DEF WritesOK
  <2>2. CASE l \notin DOMAIN pending[w].lines
    <3>1. pending[w].issued[l] = 0
      BY <1>1, <1>2, <2>2 DEF WritesOK, WritesTyped
    <3>2. lines[l].delivered \in Nat /\ lines[l].delivered <= lines[l].quantity
      BY DEF IInv, TypeOK, TablesOK, NeverOverDelivered, LineRow
    <3> QED
      BY <1>3, <2>2, <3>1, <3>2
  <2> QED
    BY <2>1, <2>2
<1>7. \A i \in ReservationIds :
        /\ reservations[i].status # "NONE" => ReservationsSeen(w)[i].status # "NONE"
        /\ ReservationsSeen(w)[i].status # "NONE" =>
             Known(OrderOf[ReservationsSeen(w)[i].line], orders)
  BY <1>1, <1>5 DEF WritesOK, IInv, TablesOK
<1> QED
  BY <1>3, <1>4, <1>5, <1>6, <1>7

-----------------------------------------------------------------------------
(* Reads of a request under way *)

\* confirm() reads the order a second time and goes on as allocate().
LEMMA ConfirmAllocateKeeps ==
  ASSUME IInv, NEW w \in Workers, ConfirmAllocate(w)
  PROVE  IInv'
<1>1. RequestOK(requests[w], orders, deliveries, reservations)
  BY DEF IInv, WorkerOK
<1>2. Known(requests[w].order, orders)
  BY <1>1 DEF RequestOK, OrderPcs, ConfirmAllocate
<1> QED
  BY <1>2, OnlyRequest
  DEF ConfirmAllocate, RequestOK, OrderPcs, WritingPcs, IInv, TypeOK, LinesOf, Known

\* What AllocateNext returns is a request that may hold uncommitted rows.
LEMMA AllocateNextOK ==
  ASSUME NEW r, NEW todo, NEW took, Known(r.order, orders),
         r.seen \in [LinesOf(r.order) -> LineRow],
         took \in [LinesOf(r.order) -> Nat],
         todo \subseteq LinesOf(r.order)
  PROVE  /\ RequestOK(AllocateNext(r, todo, took), orders, deliveries, reservations)
         /\ AllocateNext(r, todo, took).pc \in WritingPcs
<1>1. CASE todo # {}
  BY <1>1 DEF AllocateNext, RequestOK, OrderPcs, WritingPcs
<1>2. CASE todo = {}
  <2>1. AllocatedStatus(r.was, r.seen, took) \in OrderStatus \ {"NONE"}
    BY DEF AllocatedStatus, OrderStatus
  <2> QED
    BY <1>2, <2>1 DEF AllocateNext, CommitOf, RequestOK, OrderPcs, WritingPcs
<1> QED
  BY <1>1, <1>2

\* allocate() reads a balance and decides how much to reserve.
LEMMA ReadAvailableKeeps ==
  ASSUME IInv, NEW w \in Workers, ReadAvailable(w)
  PROVE  IInv'
<1> DEFINE r == requests[w]
<1>1. RequestOK(r, orders, deliveries, reservations)
  BY DEF IInv, WorkerOK
<1>2. r.pc = "allocate" /\ UNCHANGED <<db, pending>>
  BY DEF ReadAvailable
<1>3. /\ Known(r.order, orders)
      /\ r.seen \in [LinesOf(r.order) -> LineRow]
      /\ r.took \in [LinesOf(r.order) -> Nat]
      /\ r.todo \subseteq LinesOf(r.order)
  BY <1>1, <1>2 DEF RequestOK, OrderPcs
<1> DEFINE n(l) == AtMost(Needed(r.seen[l]), Available(BalancesSeen(w)[KeyOf[l]]))
           reserving(l) == [pc |-> "reserve", order |-> r.order, was |-> r.was,
                            seen |-> r.seen, todo |-> r.todo \ {l},
                            took |-> [r.took EXCEPT ![l] = n(l)], line |-> l]
<1>4. PICK l \in r.todo :
        Goto(w, IF n(l) = 0 THEN AllocateNext(r, r.todo \ {l}, r.took) ELSE reserving(l))
  BY DEF ReadAvailable
<1>5. n(l) \in Nat
  <2>1. r.seen[l] \in LineRow
    BY <1>3
  <2>2. BalancesSeen(w)[KeyOf[l]] \in BalanceRow
    BY <1>3, SeenTyped, LinesAssumption DEF LinesOf
  <2> QED
    BY <2>1, <2>2, AllocatableIsNat
<1>6. CASE n(l) = 0
  BY <1>2, <1>3, <1>4, <1>6, AllocateNextOK, OnlyRequest
<1>7. CASE n(l) # 0
  <2>1. RequestOK(reserving(l), orders, deliveries, reservations)
    BY <1>3, <1>5 DEF RequestOK, OrderPcs
  <2> QED
    BY <1>2, <1>4, <1>7, <2>1, OnlyRequest DEF WritingPcs
<1> QED
  BY <1>6, <1>7

\* releaseAllocation() and cancel() read the reservations to give back.
LEMMA ListReservationsKeeps ==
  ASSUME IInv, NEW w \in Workers, ListReservations(w)
  PROVE  IInv'
<1> DEFINE r == requests[w]
           found == {i \in ReservationIds : /\ reservations[i].status = "ACTIVE"
                                            /\ OrderOf[reservations[i].line] = r.order}
           giving == [pc |-> "giveBack", order |-> r.order, to |-> r.to,
                      todo |-> [i \in found |-> reservations[i]]]
           next == IF found # {} THEN giving
                   ELSE IF r.to = "CANCELLED" THEN CommitOf(r.order, r.to, {})
                   ELSE Idle
<1>1. r.pc = "releaseAll" /\ Goto(w, next) /\ UNCHANGED <<db, pending>>
  BY DEF ListReservations
<1>2. RequestOK(r, orders, deliveries, reservations)
  BY DEF IInv, WorkerOK
<1>3. Known(r.order, orders) /\ r.to \in {"APPROVED", "CANCELLED"}
  BY <1>1, <1>2 DEF RequestOK, OrderPcs
<1>4. RequestOK(giving, orders, deliveries, reservations)
  BY <1>3 DEF RequestOK, OrderPcs, IInv, TypeOK, Taken
<1>5. RequestOK(next, orders, deliveries, reservations)
  <2>1. RequestOK(CommitOf(r.order, "CANCELLED", {}), orders, deliveries, reservations)
    BY <1>3 DEF RequestOK, OrderPcs, CommitOf, OrderStatus
  <2>2. RequestOK(Idle, orders, deliveries, reservations)
    BY DEF RequestOK, OrderPcs, Idle
  <2> QED
    BY <1>4, <2>1, <2>2
<1> QED
  BY <1>1, <1>5, OnlyRequest DEF WritingPcs

\* executeDelivery() reads what is left of a line and the stock on hand.
LEMMA ReadOnHandKeeps ==
  ASSUME IInv, NEW w \in Workers, ReadOnHand(w)
  PROVE  IInv'
<1> DEFINE r == requests[w]
           n(l) == deliveries[r.delivery].quantity[l]
           onHand(l) == BalancesSeen(w)[KeyOf[l]].onHand
           issuing(l) == [pc |-> "issue", delivery |-> r.delivery, todo |-> r.todo \ {l},
                          line |-> l, onHand |-> onHand(l) - n(l)]
<1>1. r.pc = "deliver" /\ UNCHANGED <<db, pending>>
  BY DEF ReadOnHand
<1>2. RequestOK(r, orders, deliveries, reservations)
  BY DEF IInv, WorkerOK
<1>3. /\ Exists(r.delivery, deliveries)
      /\ \A l \in r.todo : l \in LineIds /\ n(l) > 0
  BY <1>1, <1>2 DEF RequestOK
<1>4. PICK l \in r.todo : onHand(l) >= n(l) /\ Goto(w, issuing(l))
  BY DEF ReadOnHand
<1>5. onHand(l) - n(l) \in Nat
  <2>1. onHand(l) \in Nat
    BY <1>3, SeenTyped, LinesAssumption DEF BalanceRow
  <2>2. n(l) \in Nat
    BY <1>3 DEF IInv, TypeOK, DeliveryRow, Exists
  <2> QED
    BY <1>4, <2>1, <2>2
<1>6. RequestOK(issuing(l), orders, deliveries, reservations)
  BY <1>3, <1>5 DEF RequestOK, OrderPcs
<1> QED
  BY <1>1, <1>4, <1>6, OnlyRequest DEF WritingPcs

-----------------------------------------------------------------------------
(* Writes inside a transaction *)

\* A written row is one of the transaction's rows, with the type of the others.
LEMMA PutTyped ==
  ASSUME NEW Ids, NEW Rows, NEW f, IsRows(f, Ids, Rows), NEW id \in Ids, NEW row \in Rows
  PROVE  /\ IsRows(Put(f, id, row), Ids, Rows)
         /\ DOMAIN Put(f, id, row) = DOMAIN f \cup {id}
         /\ Put(f, id, row)[id] = row
         /\ \A x \in DOMAIN f : x # id => Put(f, id, row)[x] = f[x]
BY DEF IsRows, Put

\* A balance row with nothing negative in it may be written.
LEMMA BalanceWritten ==
  ASSUME NEW p, NEW os, NEW ls, NEW ds, WritesOK(p, os, ls, ds),
         NEW key \in StockKeys, NEW row \in BalanceRow
  PROVE  WritesOK(WriteBalance(p, key, row), os, ls, ds)
<1>1. IsRows(Put(p.balances, key, row), StockKeys, BalanceRow)
  BY PutTyped DEF WritesOK, WritesTyped
<1> QED
  BY <1>1 DEF WriteBalance, WritesOK, WritesTyped

\* A reservation may be written that names a line of an existing order.
LEMMA ReservationWritten ==
  ASSUME NEW p, NEW os, NEW ls, NEW ds, WritesOK(p, os, ls, ds),
         NEW i \in ReservationIds, NEW row \in ReservationRow,
         row.status # "NONE", Known(OrderOf[row.line], os)
  PROVE  WritesOK(WriteReservation(p, i, row), os, ls, ds)
<1> DEFINE new == Put(p.reservations, i, row)
<1>1. /\ IsRows(new, ReservationIds, ReservationRow)
      /\ \A j \in DOMAIN new : new[j].status # "NONE" /\ Known(OrderOf[new[j].line], os)
  <2>1. /\ IsRows(p.reservations, ReservationIds, ReservationRow)
        /\ \A j \in DOMAIN p.reservations :
             p.reservations[j].status # "NONE" /\ Known(OrderOf[p.reservations[j].line], os)
    BY DEF WritesOK, WritesTyped
  <2> QED
    BY <2>1 DEF Put, IsRows
<1>2. WritesTyped(WriteReservation(p, i, row))
  BY <1>1 DEF WriteReservation, WritesOK, WritesTyped
<1> HIDE DEF new
<1>3. WriteReservation(p, i, row).reservations = new
  BY DEF WriteReservation, new
<1>4. WriteReservation(p, i, row).lines = p.lines /\ WriteReservation(p, i, row).issued = p.issued
  BY DEF WriteReservation
<1> QED
  BY <1>1, <1>2, <1>3, <1>4 DEF WritesOK

\* `q` is `p` after a write of line `l`, `n` of which was issued.
LEMMA LineWritten ==
  ASSUME NEW p, NEW os, NEW ls, NEW ds, WritesOK(p, os, ls, ds),
         NEW l \in LineIds, NEW row \in LineRow, NEW n \in Nat,
         ls \in [LineIds -> LineRow],
         row.version = ls[l].version,
         row.delivered = ls[l].delivered + p.issued[l] + n,
         row.delivered <= row.quantity,
         Known(OrderOf[l], os),
         n > 0 => DeliveryFor(l, ds),
         NEW q \in [lines : {Put(p.lines, l, row)}, reservations : {p.reservations},
                    balances : {p.balances}, issued : {[p.issued EXCEPT ![l] = @ + n]}]
  PROVE  WritesOK(q, os, ls, ds)
<1> DEFINE new == q.lines
           issued == q.issued
<1>1. WritesTyped(p)
  BY DEF WritesOK
<1>2. /\ IsRows(new, LineIds, LineRow)
      /\ DOMAIN new = DOMAIN p.lines \cup {l}
      /\ new[l] = row
      /\ \A x \in DOMAIN p.lines : x # l => new[x] = p.lines[x]
  <2>1. IsRows(p.lines, LineIds, LineRow) /\ new = Put(p.lines, l, row)
    BY <1>1 DEF WritesTyped
  <2> HIDE DEF new
  <2> QED
    BY <2>1 DEF Put, IsRows
<1>3. /\ issued \in [LineIds -> Nat]
      /\ issued[l] = p.issued[l] + n
      /\ \A x \in LineIds : x # l => issued[x] = p.issued[x]
  <2>1. p.issued \in [LineIds -> Nat] /\ issued = [p.issued EXCEPT ![l] = @ + n]
    BY <1>1 DEF WritesTyped
  <2> HIDE DEF issued
  <2> QED
    BY <2>1
<1>4. q.reservations = p.reservations /\ q.balances = p.balances
  OBVIOUS
<1>5. WritesTyped(q)
  BY <1>1, <1>2, <1>3, <1>4 DEF WritesTyped
<1> HIDE DEF new, issued
<1>6. ASSUME NEW x \in DOMAIN new
      PROVE  /\ new[x].version = ls[x].version
             /\ new[x].delivered = ls[x].delivered + issued[x]
             /\ new[x].delivered <= new[x].quantity
             /\ Known(OrderOf[x], os)
  <2>1. CASE x = l
    <3>1. ls[l].delivered \in Nat /\ p.issued[l] \in Nat
      BY <1>1 DEF LineRow, WritesTyped
    <3> QED
      BY <1>2, <1>3, <2>1, <3>1
  <2>2. CASE x # l
    BY <1>1, <1>2, <1>3, <2>2 DEF WritesOK, WritesTyped, IsRows
  <2> QED
    BY <2>1, <2>2
<1>7. ASSUME NEW x \in LineIds, issued[x] > 0
      PROVE  x \in DOMAIN new /\ DeliveryFor(x, ds)
  <2>1. CASE x = l
    <3>1. p.issued[l] \in Nat
      BY <1>1 DEF WritesTyped
    <3> QED
      BY <1>2, <1>3, <1>7, <2>1, <3>1 DEF WritesOK
  <2>2. CASE x # l
    BY <1>2, <1>3, <1>7, <2>2 DEF WritesOK
  <2> QED
    BY <2>1, <2>2
<1> QED
  BY <1>4, <1>5, <1>6, <1>7 DEF WritesOK, new, issued

\* A request that ends early leaves the committed tables alone.
LEMMA AbortKeeps ==
  ASSUME IInv, NEW w \in Workers, Abort(w)
  PROVE  IInv'
<1>1. RequestOK(Idle, orders, deliveries, reservations)
  BY DEF RequestOK, OrderPcs, Idle
<1>2. WritesOK(NoWrites, orders, lines, deliveries) /\ DOMAIN NoWrites.lines = {}
  BY DEF WritesOK, WritesTyped, NoWrites, NoRows, IsRows
<1>3. WorkerOK(Idle, NoWrites, orders, lines, deliveries, reservations)
  BY <1>1, <1>2 DEF WorkerOK
<1> QED
  BY <1>2, <1>3, InsideTransaction DEF Abort, Goto, Write

\* The rows CHECK accepts are rows of the table.
LEMMA HeldTyped ==
  /\ \A row \in LineRow, n \in Int :
       /\ CheckLine(Hold(row, n)) => Hold(row, n) \in LineRow
       /\ CheckLine(Unhold(row, n)) => Unhold(row, n) \in LineRow
       /\ Hold(row, n).version = row.version /\ Hold(row, n).delivered = row.delivered
       /\ Hold(row, n).quantity = row.quantity
       /\ Unhold(row, n).version = row.version /\ Unhold(row, n).delivered = row.delivered
       /\ Unhold(row, n).quantity = row.quantity
  /\ \A row \in BalanceRow, n \in Int :
       CheckBalance(Unhold(row, n)) => Unhold(row, n) \in BalanceRow
  /\ \A row \in BalanceRow, n \in Nat : Hold(row, n) \in BalanceRow
BY DEF CheckLine, CheckBalance, Hold, Unhold, LineRow, BalanceRow

\* The rows a worker's transaction has already written are not locked by others.
LEMMA OwnLinesUnlocked ==
  ASSUME IInv, NEW w \in Workers
  PROVE  DOMAIN pending[w].lines \cap LinesLocked(w) = {}
BY DEF IInv, LockedOnce, LinesLocked

\* What the invariant says of one worker.
LEMMA WriterOK ==
  ASSUME IInv, NEW w \in Workers
  PROVE  /\ RequestOK(requests[w], orders, deliveries, reservations)
         /\ WritesOK(pending[w], orders, lines, deliveries)
         /\ lines \in [LineIds -> LineRow]
BY DEF IInv, WorkerOK, TypeOK

\* Reserving or releasing stock issues none.
LEMMA AddZero ==
  ASSUME NEW f \in [LineIds -> Nat], NEW l
  PROVE  [f EXCEPT ![l] = @ + 0] = f
OBVIOUS

\* The fields after a write of a line, with and without an issue.
LEMMA LineFields ==
  ASSUME NEW p, WritesTyped(p), NEW l \in LineIds, NEW row, NEW n
  PROVE  /\ WriteLine(p, l, row) \in
              [lines : {Put(p.lines, l, row)}, reservations : {p.reservations},
               balances : {p.balances}, issued : {[p.issued EXCEPT ![l] = @ + 0]}]
         /\ WriteIssue(WriteLine(p, l, row), l, n) \in
              [lines : {Put(p.lines, l, row)}, reservations : {p.reservations},
               balances : {p.balances}, issued : {[p.issued EXCEPT ![l] = @ + n]}]
<1>1. /\ p \in [lines : {p.lines}, reservations : {p.reservations},
                 balances : {p.balances}, issued : {p.issued}]
      /\ [p.issued EXCEPT ![l] = @ + 0] = p.issued
  BY AddZero DEF WritesTyped
<1> QED
  BY <1>1 DEF WriteLine, WriteIssue

\* A statement that writes line `l`, which no other transaction has locked,
\* after the other rows of `p`.
LEMMA LineStepKeeps ==
  ASSUME IInv, NEW w \in Workers, NEW r, NEW p, NEW q, NEW l \in LineIds,
         NEW row \in LineRow, NEW n \in Nat,
         Goto(w, r), Write(w, q), UNCHANGED db,
         RequestOK(r, orders, deliveries, reservations), r.pc \in WritingPcs,
         WritesOK(p, orders, lines, deliveries),
         p.lines = pending[w].lines, p.issued = pending[w].issued,
         q \in [lines : {Put(p.lines, l, row)}, reservations : {p.reservations},
                balances : {p.balances}, issued : {[p.issued EXCEPT ![l] = @ + n]}],
         l \notin LinesLocked(w),
         row.version = lines[l].version,
         row.delivered = LinesSeen(w)[l].delivered + n,
         row.delivered <= row.quantity,
         Known(OrderOf[l], orders),
         n > 0 => DeliveryFor(l, deliveries)
  PROVE  IInv'
<1>1. row.delivered = lines[l].delivered + p.issued[l] + n
  BY SeenTyped
<1>2. WritesOK(q, orders, lines, deliveries)
  BY <1>1, LineWritten, WriterOK
<1>3. DOMAIN q.lines = DOMAIN pending[w].lines \cup {l}
  BY DEF Put
<1>4. WorkerOK(r, q, orders, lines, deliveries, reservations)
  BY <1>2 DEF WorkerOK
<1>5. DOMAIN q.lines \cap LinesLocked(w) = {}
  BY <1>3, OwnLinesUnlocked
<1> QED
  BY <1>4, <1>5, InsideTransaction DEF Goto, Write

\* The reservation and the balance of a line are written before the line.
LEMMA HoldingWritten ==
  ASSUME IInv, NEW w \in Workers,
         NEW i \in ReservationIds, NEW reservation \in ReservationRow,
         reservation.status # "NONE", Known(OrderOf[reservation.line], orders),
         NEW key \in StockKeys, NEW balance \in BalanceRow, NEW p,
         \/ p = WriteBalance(WriteReservation(pending[w], i, reservation), key, balance)
         \/ p = WriteReservation(WriteBalance(pending[w], key, balance), i, reservation)
  PROVE  /\ WritesOK(p, orders, lines, deliveries)
         /\ p.lines = pending[w].lines /\ p.issued = pending[w].issued
<1>1. WritesOK(pending[w], orders, lines, deliveries)
  BY WriterOK
<1>2. WritesOK(p, orders, lines, deliveries)
  BY <1>1, ReservationWritten, BalanceWritten
<1>3. pending[w] \in [lines : {pending[w].lines}, reservations : {pending[w].reservations},
                      balances : {pending[w].balances}, issued : {pending[w].issued}]
  BY <1>1 DEF WritesOK, WritesTyped
<1>4. p.lines = pending[w].lines /\ p.issued = pending[w].issued
  BY <1>3 DEF WriteReservation, WriteBalance
<1> QED
  BY <1>2, <1>4

\* One turn of allocate()'s loop: reservation, balance and line.
LEMMA ReserveKeeps ==
  ASSUME IInv, NEW w \in Workers, Reserve(w)
  PROVE  IInv'
<1> DEFINE r == requests[w]
           l == r.line
           key == KeyOf[l]
           n == r.took[l]
           line == Hold(LinesSeen(w)[l], n)
           balance == Hold(BalancesSeen(w)[key], n)
           reservation == [status |-> "ACTIVE", line |-> l, quantity |-> n]
           p(i) == WriteBalance(WriteReservation(pending[w], i, reservation), key, balance)
           next == AllocateNext(r, r.todo, r.took)
<1>1. /\ r.pc = "reserve"
      /\ l \notin LinesLocked(w)
      /\ CheckLine(line)
      /\ Goto(w, next)
      /\ UNCHANGED db
  BY DEF Reserve
<1>2. PICK i \in ReservationIds : Write(w, WriteLine(p(i), l, line))
  BY DEF Reserve
<1>3. /\ Known(r.order, orders)
      /\ r.seen \in [LinesOf(r.order) -> LineRow]
      /\ r.took \in [LinesOf(r.order) -> Nat]
      /\ r.todo \subseteq LinesOf(r.order)
      /\ l \in LinesOf(r.order)
  BY <1>1, WriterOK DEF RequestOK, OrderPcs
<1>4. l \in LineIds /\ OrderOf[l] = r.order /\ n \in Nat /\ key \in StockKeys
  BY <1>3, LinesAssumption DEF LinesOf
<1>5. /\ line \in LineRow
      /\ line.version = lines[l].version
      /\ line.delivered = LinesSeen(w)[l].delivered + 0
      /\ line.delivered <= line.quantity
  <2>1. LinesSeen(w)[l] \in LineRow
    BY <1>4, SeenTyped
  <2> QED
    BY <1>1, <1>4, <2>1, SeenTyped, HeldTyped DEF LineRow
<1>6. balance \in BalanceRow
  BY <1>4, SeenTyped, HeldTyped
<1>7. reservation \in ReservationRow /\ reservation.status # "NONE" /\ Known(OrderOf[reservation.line], orders)
  BY <1>3, <1>4 DEF ReservationRow, ReservationStatus
<1>8. RequestOK(next, orders, deliveries, reservations) /\ next.pc \in WritingPcs
  BY <1>3, AllocateNextOK
<1> HIDE DEF reservation, balance, line, next, n, key
<1>9. /\ WritesOK(p(i), orders, lines, deliveries)
      /\ p(i).lines = pending[w].lines /\ p(i).issued = pending[w].issued
  BY <1>4, <1>6, <1>7, HoldingWritten
<1> HIDE DEF p, l, r
<1>10. WriteLine(p(i), l, line) \in
         [lines : {Put(p(i).lines, l, line)}, reservations : {p(i).reservations},
          balances : {p(i).balances}, issued : {[p(i).issued EXCEPT ![l] = @ + 0]}]
  BY <1>4, <1>9, LineFields DEF WritesOK
<1>11. Known(OrderOf[l], orders)
  BY <1>3, <1>4
<1> QED
  BY <1>1, <1>2, <1>4, <1>5, <1>8, <1>9, <1>10, <1>11, LineStepKeeps

\* Giving back a quantity that the CHECK lets pass leaves a line or a balance typed.
LEMMA Unheld ==
  ASSUME IInv, NEW w \in Workers, NEW n \in Nat
  PROVE  /\ \A l \in LineIds : CheckLine(Unhold(LinesSeen(w)[l], n)) =>
              /\ Unhold(LinesSeen(w)[l], n) \in LineRow
              /\ Unhold(LinesSeen(w)[l], n).version = lines[l].version
              /\ Unhold(LinesSeen(w)[l], n).delivered = LinesSeen(w)[l].delivered + 0
              /\ Unhold(LinesSeen(w)[l], n).delivered <= Unhold(LinesSeen(w)[l], n).quantity
         /\ \A k \in StockKeys : CheckBalance(Unhold(BalancesSeen(w)[k], n)) =>
              Unhold(BalancesSeen(w)[k], n) \in BalanceRow
<1>1. ASSUME NEW l \in LineIds, CheckLine(Unhold(LinesSeen(w)[l], n))
      PROVE  /\ Unhold(LinesSeen(w)[l], n) \in LineRow
             /\ Unhold(LinesSeen(w)[l], n).version = lines[l].version
             /\ Unhold(LinesSeen(w)[l], n).delivered = LinesSeen(w)[l].delivered + 0
             /\ Unhold(LinesSeen(w)[l], n).delivered <= Unhold(LinesSeen(w)[l], n).quantity
  <2> DEFINE row == LinesSeen(w)[l]
  <2>1. row \in LineRow /\ row.version = lines[l].version /\ row.delivered <= row.quantity
    BY SeenTyped
  <2> HIDE DEF row
  <2>2. /\ Unhold(row, n) \in LineRow
        /\ Unhold(row, n).version = row.version
        /\ Unhold(row, n).delivered = row.delivered
        /\ Unhold(row, n).quantity = row.quantity
    BY <1>1, <2>1 DEF row, CheckLine, Unhold, LineRow
  <2>3. row.delivered \in Nat
    BY <2>1 DEF LineRow
  <2> QED
    BY <2>1, <2>2, <2>3 DEF row
<1>2. ASSUME NEW k \in StockKeys, CheckBalance(Unhold(BalancesSeen(w)[k], n))
      PROVE  Unhold(BalancesSeen(w)[k], n) \in BalanceRow
  <2>1. BalancesSeen(w)[k] \in BalanceRow
    BY SeenTyped
  <2> QED
    BY <1>2, <2>1 DEF CheckBalance, Unhold, BalanceRow
<1> QED
  BY <1>1, <1>2

\* ReservationsService.release writes balance, reservation and line.
LEMMA ReleaseKeeps ==
  ASSUME IInv, NEW w \in Workers, Release(w)
  PROVE  IInv'
<1> DEFINE r == requests[w]
           i == r.reservation
           l == r.row.line
           key == KeyOf[l]
           n == r.row.quantity
           line == Unhold(LinesSeen(w)[l], n)
           balance == Unhold(BalancesSeen(w)[key], n)
           reservation == [reservations[i] EXCEPT !.status = "RELEASED"]
           p == WriteReservation(WriteBalance(pending[w], key, balance), i, reservation)
<1>1. PICK status \in {"CONFIRMED", "PARTIALLY_RESERVED"} :
        Goto(w, CommitOf(OrderOf[l], status, {}))
  BY DEF Release
<1>2. /\ r.pc = "release"
      /\ CheckBalance(balance)
      /\ l \notin LinesLocked(w)
      /\ CheckLine(line)
      /\ Write(w, WriteLine(p, l, line))
      /\ UNCHANGED db
  BY DEF Release
<1>3. Taken(i, reservations) /\ r.row \in ReservationRow /\ Known(OrderOf[l], orders)
  BY <1>2, WriterOK DEF RequestOK, OrderPcs
<1>4. l \in LineIds /\ n \in Nat /\ key \in StockKeys
  BY <1>3, LinesAssumption DEF ReservationRow
<1>5. /\ line \in LineRow
      /\ line.version = lines[l].version
      /\ line.delivered = LinesSeen(w)[l].delivered + 0
      /\ line.delivered <= line.quantity
  BY <1>2, <1>4, Unheld
<1>6. balance \in BalanceRow
  BY <1>2, <1>4, Unheld
<1>7. /\ i \in ReservationIds /\ reservation \in ReservationRow
      /\ reservation.status # "NONE" /\ Known(OrderOf[reservation.line], orders)
  <2>1. i \in ReservationIds /\ reservations[i] \in ReservationRow
    BY <1>3 DEF Taken, IInv, TypeOK
  <2>2. Known(OrderOf[reservations[i].line], orders)
    BY <1>3 DEF Taken, IInv, TablesOK
  <2> QED
    BY <2>1, <2>2 DEF ReservationRow, ReservationStatus
<1>8. /\ RequestOK(CommitOf(OrderOf[l], status, {}), orders, deliveries, reservations)
      /\ CommitOf(OrderOf[l], status, {}).pc \in WritingPcs
  BY <1>3 DEF RequestOK, OrderPcs, CommitOf, OrderStatus, WritingPcs
<1> HIDE DEF reservation, balance, line, key, n
<1>9. /\ WritesOK(p, orders, lines, deliveries)
      /\ p.lines = pending[w].lines /\ p.issued = pending[w].issued
  BY <1>4, <1>6, <1>7, HoldingWritten
<1> HIDE DEF p, i, l, r
<1>10. WriteLine(p, l, line) \in
         [lines : {Put(p.lines, l, line)}, reservations : {p.reservations},
          balances : {p.balances}, issued : {[p.issued EXCEPT ![l] = @ + 0]}]
  BY <1>4, <1>9, LineFields DEF WritesOK
<1> QED
  BY <1>1, <1>2, <1>3, <1>4, <1>5, <1>8, <1>9, <1>10, LineStepKeeps

\* One turn of the loop of releaseAllocation() or cancel().
LEMMA GiveBackKeeps ==
  ASSUME IInv, NEW w \in Workers, GiveBack(w)
  PROVE  IInv'
<1> DEFINE r == requests[w]
           l(i) == r.todo[i].line
           key(i) == KeyOf[l(i)]
           n(i) == r.todo[i].quantity
           line(i) == Unhold(LinesSeen(w)[l(i)], n(i))
           balance(i) == Unhold(BalancesSeen(w)[key(i)], n(i))
           released(i) == [ReservationsSeen(w)[i] EXCEPT !.status = "RELEASED"]
           given(i) == WriteReservation(WriteBalance(pending[w], key(i), balance(i)), i, released(i))
           rest(i) == [j \in DOMAIN r.todo \ {i} |-> r.todo[j]]
           next(i) == IF DOMAIN rest(i) # {}
                      THEN [pc |-> "giveBack", order |-> r.order, to |-> r.to, todo |-> rest(i)]
                      ELSE CommitOf(r.order, r.to, {})
<1>1. r.pc = "giveBack" /\ UNCHANGED db
  BY DEF GiveBack
<1>2. PICK i \in DOMAIN r.todo :
        /\ CheckBalance(balance(i))
        /\ r.to # "CANCELLED" => l(i) \notin LinesLocked(w) /\ CheckLine(line(i))
        /\ Write(w, IF r.to = "CANCELLED" THEN given(i) ELSE WriteLine(given(i), l(i), line(i)))
        /\ Goto(w, next(i))
  BY DEF GiveBack
<1>3. /\ Known(r.order, orders)
      /\ r.to \in {"APPROVED", "CANCELLED"}
      /\ \A j \in DOMAIN r.todo : /\ Taken(j, reservations)
                                  /\ r.todo[j] \in ReservationRow
                                  /\ OrderOf[r.todo[j].line] = r.order
  BY <1>1, WriterOK DEF RequestOK, OrderPcs
<1>4. l(i) \in LineIds /\ n(i) \in Nat /\ key(i) \in StockKeys /\ Known(OrderOf[l(i)], orders)
  BY <1>3, LinesAssumption DEF ReservationRow
<1>5. balance(i) \in BalanceRow
  BY <1>2, <1>4, Unheld
<1>6. /\ i \in ReservationIds /\ released(i) \in ReservationRow
      /\ released(i).status # "NONE" /\ Known(OrderOf[released(i).line], orders)
  <2>1. /\ i \in ReservationIds /\ ReservationsSeen(w)[i] \in ReservationRow
        /\ Known(OrderOf[ReservationsSeen(w)[i].line], orders)
    BY <1>3, SeenTyped DEF Taken
  <2> QED
    BY <2>1 DEF ReservationRow, ReservationStatus
<1>7. RequestOK(next(i), orders, deliveries, reservations) /\ next(i).pc \in WritingPcs
  <2>1. CASE DOMAIN rest(i) # {}
    BY <1>3, <2>1 DEF RequestOK, OrderPcs, WritingPcs
  <2>2. CASE DOMAIN rest(i) = {}
    BY <1>3, <2>2 DEF RequestOK, OrderPcs, CommitOf, OrderStatus, WritingPcs
  <2> QED
    BY <2>1, <2>2
<1> HIDE DEF next, balance, released, n, key
<1>8. /\ WritesOK(given(i), orders, lines, deliveries)
      /\ given(i).lines = pending[w].lines /\ given(i).issued = pending[w].issued
  BY <1>4, <1>5, <1>6, HoldingWritten
<1> HIDE DEF given, l
<1>9. CASE r.to = "CANCELLED"
  <2>1. WorkerOK(next(i), given(i), orders, lines, deliveries, reservations)
    BY <1>7, <1>8 DEF WorkerOK
  <2>2. DOMAIN given(i).lines \cap LinesLocked(w) = {}
    BY <1>8, OwnLinesUnlocked
  <2> HIDE DEF line
  <2> QED
    BY <1>1, <1>2, <1>9, <2>1, <2>2, InsideTransaction DEF Goto, Write
<1>10. CASE r.to # "CANCELLED"
  <2>1. /\ line(i) \in LineRow
        /\ line(i).version = lines[l(i)].version
        /\ line(i).delivered = LinesSeen(w)[l(i)].delivered + 0
        /\ line(i).delivered <= line(i).quantity
    BY <1>2, <1>4, <1>10, Unheld
  <2> HIDE DEF line
  <2>2. WriteLine(given(i), l(i), line(i)) \in
          [lines : {Put(given(i).lines, l(i), line(i))}, reservations : {given(i).reservations},
           balances : {given(i).balances}, issued : {[given(i).issued EXCEPT ![l(i)] = @ + 0]}]
    BY <1>4, <1>8, LineFields DEF WritesOK
  <2>3. /\ l(i) \notin LinesLocked(w) /\ Goto(w, next(i)) /\ UNCHANGED db
        /\ Write(w, WriteLine(given(i), l(i), line(i)))
    BY <1>1, <1>2, <1>10
  <2>4. l(i) \in LineIds /\ Known(OrderOf[l(i)], orders) /\ ~ (0 > 0) /\ 0 \in Nat
    BY <1>4
  <2> QED
    BY <1>7, <1>8, <2>1, <2>2, <2>3, <2>4, LineStepKeeps
<1> QED
  BY <1>9, <1>10

\* A balance whose quantity on hand is overwritten.
LEMMA StockOverwritten ==
  ASSUME NEW row \in BalanceRow, NEW h \in Nat
  PROVE  /\ [row EXCEPT !.onHand = h] \in BalanceRow
         /\ \A n \in Nat : CheckBalance(Unhold([row EXCEPT !.onHand = h], n)) =>
              Unhold([row EXCEPT !.onHand = h], n) \in BalanceRow
<1> DEFINE new == [row EXCEPT !.onHand = h]
<1>1. new \in BalanceRow
  BY DEF BalanceRow
<1> HIDE DEF new
<1>2. ASSUME NEW n \in Nat, CheckBalance(Unhold(new, n))
      PROVE  Unhold(new, n) \in BalanceRow
  BY <1>1, <1>2 DEF BalanceRow, CheckBalance, Unhold
<1> QED
  BY <1>1, <1>2 DEF new

\* A reservation consumed in part or in full is still a reservation of its line.
LEMMA ConsumeTyped ==
  ASSUME NEW row \in ReservationRow, NEW n \in Nat, row.status # "NONE"
  PROVE  /\ Consumed(row, n) \in Nat
         /\ Consume(row, n) \in ReservationRow
         /\ Consume(row, n).status # "NONE"
         /\ Consume(row, n).line = row.line
<1>1. row.quantity \in Nat /\ row.status \in ReservationStatus /\ row.line \in LineIds
  BY DEF ReservationRow
<1>2. CASE row.quantity <= n
  BY <1>1, <1>2 DEF Consumed, Consume, ReservationRow, ReservationStatus
<1>3. CASE ~ (row.quantity <= n)
  <2>1. row.quantity - n \in Nat
    BY <1>1, <1>3
  <2> QED
    BY <1>1, <1>3, <2>1 DEF Consumed, Consume, ReservationRow
<1> QED
  BY <1>2, <1>3

\* After a line executeDelivery() has another one, or the commit, to do.
LEMMA DeliverNextOK ==
  ASSUME IInv, NEW r, NEW seen, Exists(r.delivery, deliveries),
         \A l \in r.todo : l \in LineIds /\ deliveries[r.delivery].quantity[l] > 0
  PROVE  /\ RequestOK(DeliverNext(r, seen), orders, deliveries, reservations)
         /\ DeliverNext(r, seen).pc \in WritingPcs
<1>1. Known(deliveries[r.delivery].order, orders)
  BY DEF IInv, TablesOK, Exists
<1>2. CASE r.todo # {}
  BY <1>2 DEF DeliverNext, RequestOK, OrderPcs, WritingPcs
<1>3. CASE r.todo = {}
  BY <1>1, <1>3 DEF DeliverNext, CommitOf, RequestOK, OrderPcs, OrderStatus, WritingPcs
<1> QED
  BY <1>2, <1>3

\* executeDelivery() issues a line: the delivered quantity grows with the movement.
LEMMA IssueKeeps ==
  ASSUME IInv, NEW w \in Workers, Issue(w)
  PROVE  IInv'
<1> DEFINE r == requests[w]
           l == r.line
           key == KeyOf[l]
           n == deliveries[r.delivery].quantity[l]
           line == [LinesSeen(w)[l] EXCEPT !.delivered = @ + n]
           balance == [BalancesSeen(w)[key] EXCEPT !.onHand = r.onHand]
           next == DeliverNext(r, [LinesSeen(w) EXCEPT ![l] = line])
           left(i) == Unhold(balance, Consumed(ReservationsSeen(w)[i], n))
           used(i) == WriteReservation(WriteBalance(pending[w], key, left(i)), i,
                                       Consume(ReservationsSeen(w)[i], n))
<1>1. /\ r.pc = "issue"
      /\ l \notin LinesLocked(w)
      /\ CheckLine(line)
      /\ Goto(w, next)
      /\ UNCHANGED db
  BY DEF Issue
<1>2. /\ Exists(r.delivery, deliveries)
      /\ \A x \in r.todo : x \in LineIds /\ deliveries[r.delivery].quantity[x] > 0
      /\ l \in LineIds /\ n > 0
      /\ r.onHand \in Nat
  BY <1>1, WriterOK DEF RequestOK, OrderPcs
<1>3. n \in Nat /\ key \in StockKeys
  BY <1>2, LinesAssumption DEF Exists, IInv, TypeOK, DeliveryRow
<1>4. OrderOf[l] = deliveries[r.delivery].order /\ Known(OrderOf[l], orders)
  BY <1>2 DEF Exists, IInv, TablesOK
<1>5. DeliveryFor(l, deliveries)
  BY <1>2, <1>4 DEF DeliveryFor, Exists
<1>6. RequestOK(next, orders, deliveries, reservations) /\ next.pc \in WritingPcs
  BY <1>2, DeliverNextOK
<1>7. /\ line \in LineRow
      /\ line.version = lines[l].version
      /\ line.delivered = LinesSeen(w)[l].delivered + n
      /\ line.delivered <= line.quantity
  <2> DEFINE row == LinesSeen(w)[l]
  <2>1. row \in LineRow /\ row.version = lines[l].version
    BY <1>2, SeenTyped
  <2> HIDE DEF row, n
  <2>2. CheckLine([row EXCEPT !.delivered = @ + n])
    BY <1>1 DEF row
  <2>3. LET new == [row EXCEPT !.delivered = @ + n]
        IN  /\ new \in LineRow
            /\ new.version = row.version
            /\ new.delivered = row.delivered + n
            /\ new.delivered <= new.quantity
    BY <1>3, <2>1, <2>2 DEF CheckLine, LineRow
  <2> QED
    BY <2>1, <2>3 DEF row
<1>8. balance \in BalanceRow
  BY <1>2, <1>3, SeenTyped, StockOverwritten
<1> HIDE DEF next, line
<1>9. ASSUME NEW p, WritesOK(p, orders, lines, deliveries),
             p.lines = pending[w].lines, p.issued = pending[w].issued,
             Write(w, WriteIssue(WriteLine(p, l, line), l, n))
      PROVE  IInv'
  <2> HIDE DEF n, l
  <2>1. WriteIssue(WriteLine(p, l, line), l, n) \in
          [lines : {Put(p.lines, l, line)}, reservations : {p.reservations},
           balances : {p.balances}, issued : {[p.issued EXCEPT ![l] = @ + n]}]
    BY <1>2, <1>9, LineFields DEF WritesOK
  <2> QED
    BY <1>1, <1>2, <1>3, <1>4, <1>5, <1>6, <1>7, <1>9, <2>1, LineStepKeeps
<1>10. CASE Write(w, WriteIssue(WriteLine(WriteBalance(pending[w], key, balance), l, line), l, n))
  <2> DEFINE p == WriteBalance(pending[w], key, balance)
  <2>1. WritesOK(p, orders, lines, deliveries)
    BY <1>3, <1>8, BalanceWritten, WriterOK
  <2>2. p.lines = pending[w].lines /\ p.issued = pending[w].issued
    <3>1. pending[w] \in [lines : {pending[w].lines}, reservations : {pending[w].reservations},
                          balances : {pending[w].balances}, issued : {pending[w].issued}]
      BY WriterOK DEF WritesOK, WritesTyped
    <3> QED
      BY <3>1 DEF WriteBalance
  <2> QED
    BY <1>9, <1>10, <2>1, <2>2
<1>11. ASSUME NEW i \in ActiveFor(w, l), CheckBalance(left(i)),
              Write(w, WriteIssue(WriteLine(used(i), l, line), l, n))
       PROVE  IInv'
  <2> DEFINE reservation == ReservationsSeen(w)[i]
  <2>1. /\ i \in ReservationIds /\ reservation \in ReservationRow
        /\ reservation.status # "NONE" /\ Known(OrderOf[reservation.line], orders)
    BY SeenTyped DEF ActiveFor
  <2> HIDE DEF reservation, n
  <2>2. /\ Consumed(reservation, n) \in Nat
        /\ Consume(reservation, n) \in ReservationRow
        /\ Consume(reservation, n).status # "NONE"
        /\ Known(OrderOf[Consume(reservation, n).line], orders)
    BY <1>3, <2>1, ConsumeTyped
  <2>3. left(i) \in BalanceRow
    <3>1. left(i) = Unhold(balance, Consumed(reservation, n))
      BY DEF reservation
    <3>2. BalancesSeen(w)[key] \in BalanceRow
      BY <1>3, SeenTyped
    <3> QED
      BY <1>2, <1>11, <2>2, <3>1, <3>2, StockOverwritten
  <2>4. used(i) = WriteReservation(WriteBalance(pending[w], key, left(i)), i, Consume(reservation, n))
    BY DEF reservation
  <2> HIDE DEF used, left, balance, key
  <2>5. /\ WritesOK(used(i), orders, lines, deliveries)
        /\ used(i).lines = pending[w].lines /\ used(i).issued = pending[w].issued
    BY <1>3, <2>1, <2>2, <2>3, <2>4, HoldingWritten
  <2> QED
    BY <1>9, <1>11, <2>5
<1>12. \/ Write(w, WriteIssue(WriteLine(WriteBalance(pending[w], key, balance), l, line), l, n))
       \/ \E i \in ActiveFor(w, l) :
            CheckBalance(left(i)) /\ Write(w, WriteIssue(WriteLine(used(i), l, line), l, n))
  BY DEF Issue, line
<1> QED
  BY <1>10, <1>11, <1>12

-----------------------------------------------------------------------------
(* Statements of their own, and commits *)

\* A worker that is not inside a transaction has written nothing.
LEMMA NothingPending ==
  ASSUME IInv, NEW w \in Workers, requests[w].pc \notin WritingPcs, UNCHANGED pending
  PROVE  pending' = [pending EXCEPT ![w] = NoWrites]
<1>1. pending[w] = NoWrites
  BY DEF IInv, WorkerOK
<1>2. pending = [v \in Workers |-> pending[v]]
  BY DEF IInv
<1> QED
  BY <1>1, <1>2

\* A status written over the one that was checked.
LEMMA SetOrderKeeps ==
  ASSUME IInv, NEW w \in Workers, SetOrder(w)
  PROVE  IInv'
<1> DEFINE r == requests[w]
<1>1. /\ r.pc = "setOrder"
      /\ orders' = [orders EXCEPT ![r.order] = r.to]
      /\ requests' = [requests EXCEPT ![w] = Idle]
      /\ UNCHANGED <<lines, reservations, balances, deliveries, movements, pending>>
  BY DEF SetOrder, Goto
<1>2. Known(r.order, orders) /\ r.to \in OrderStatus \ {"NONE"}
  BY <1>1, WriterOK DEF RequestOK, OrderPcs
<1>3. TypeOK'
  BY <1>1, <1>2 DEF IInv, TypeOK, Known
<1>4. \A o : Known(o, orders) => Known(o, orders')
  BY <1>1, <1>2 DEF IInv, TypeOK, Known
<1>5. TablesOK'
  BY <1>1, <1>4 DEF IInv, TablesOK, NeverOverDelivered, DeliveryFor, Exists
<1>6. Grows(orders, orders', deliveries, deliveries', reservations, reservations')
  BY <1>1, <1>4 DEF Grows, Known
<1>7. pending' = [pending EXCEPT ![w] = NoWrites]
  BY <1>1, NothingPending DEF WritingPcs
<1> QED
  BY <1>1, <1>3, <1>5, <1>6, <1>7, TablesWritten

\* The same for a delivery order.
LEMMA SetDeliveryKeeps ==
  ASSUME IInv, NEW w \in Workers, SetDelivery(w)
  PROVE  IInv'
<1> DEFINE r == requests[w]
<1>1. /\ r.pc = "setDelivery"
      /\ deliveries' = [deliveries EXCEPT ![r.delivery].status = r.to]
      /\ requests' = [requests EXCEPT ![w] = Idle]
      /\ UNCHANGED <<orders, lines, reservations, balances, movements, pending>>
  BY DEF SetDelivery, Goto
<1>2. Exists(r.delivery, deliveries) /\ r.to \in DeliveryStatus \ {"NONE"}
  BY <1>1, WriterOK DEF RequestOK, OrderPcs
<1>3. TypeOK'
  BY <1>1, <1>2 DEF IInv, TypeOK, Exists, DeliveryRow
<1>4. \A d \in DeliveryIds :
        /\ Exists(d, deliveries) <=> Exists(d, deliveries')
        /\ deliveries'[d].order = deliveries[d].order
        /\ deliveries'[d].quantity = deliveries[d].quantity
  BY <1>1, <1>2 DEF IInv, TypeOK, Exists, DeliveryRow
<1>5. TablesOK'
  <2>1. \A l : DeliveryFor(l, deliveries) => DeliveryFor(l, deliveries')
    BY <1>4 DEF DeliveryFor
  <2>2. \A d \in DeliveryIds : Exists(d, deliveries') =>
          /\ Known(deliveries'[d].order, orders)
          /\ \A l \in LineIds : deliveries'[d].quantity[l] > 0 => OrderOf[l] = deliveries'[d].order
    BY <1>4 DEF IInv, TablesOK
  <2> QED
    BY <1>1, <2>1, <2>2 DEF IInv, TablesOK, NeverOverDelivered
<1>6. Grows(orders, orders', deliveries, deliveries', reservations, reservations')
  BY <1>1, <1>4 DEF Grows, Exists
<1>7. pending' = [pending EXCEPT ![w] = NoWrites]
  BY <1>1, NothingPending DEF WritingPcs
<1> QED
  BY <1>1, <1>3, <1>5, <1>6, <1>7, TablesWritten

\* A delivery order is inserted for the order that was read.
LEMMA InsertDeliveryKeeps ==
  ASSUME IInv, NEW w \in Workers, InsertDelivery(w)
  PROVE  IInv'
<1> DEFINE r == requests[w]
           new == [status |-> "DRAFT", order |-> r.order, quantity |-> r.quantity]
<1>1. PICK d \in DeliveryIds :
        deliveries[d].status = "NONE" /\ deliveries' = [deliveries EXCEPT ![d] = new]
  BY DEF InsertDelivery
<1>2. /\ r.pc = "insertDelivery"
      /\ requests' = [requests EXCEPT ![w] = Idle]
      /\ UNCHANGED <<orders, lines, reservations, balances, movements, pending>>
  BY DEF InsertDelivery, Goto
<1>3. /\ Known(r.order, orders)
      /\ r.quantity \in [LineIds -> Nat]
      /\ \A l \in LineIds : r.quantity[l] > 0 => OrderOf[l] = r.order
  BY <1>2, WriterOK DEF RequestOK, OrderPcs
<1>4. new \in DeliveryRow
  BY <1>3 DEF DeliveryRow, DeliveryStatus, Known
<1>5. /\ deliveries \in [DeliveryIds -> DeliveryRow]
      /\ deliveries'[d] = new
      /\ \A e \in DeliveryIds : e # d => deliveries'[e] = deliveries[e]
  BY <1>1 DEF IInv, TypeOK
<1>6. TypeOK'
  <2> HIDE DEF new
  <2> QED
    BY <1>1, <1>2, <1>4 DEF IInv, TypeOK
<1>7. /\ \A e : Exists(e, deliveries) => e # d /\ Exists(e, deliveries')
      /\ \A e : Exists(e, deliveries') => e = d \/ Exists(e, deliveries)
  BY <1>1, <1>5 DEF Exists
<1>8. TablesOK'
  <2>1. \A l : DeliveryFor(l, deliveries) => DeliveryFor(l, deliveries')
    BY <1>5, <1>7 DEF DeliveryFor
  <2>2. ASSUME NEW e \in DeliveryIds, Exists(e, deliveries')
        PROVE  /\ Known(deliveries'[e].order, orders)
               /\ \A l \in LineIds : deliveries'[e].quantity[l] > 0 => OrderOf[l] = deliveries'[e].order
    <3>1. CASE e = d
      BY <1>3, <1>5, <3>1
    <3>2. CASE e # d
      BY <1>5, <1>7, <2>2, <3>2 DEF IInv, TablesOK
    <3> QED
      BY <3>1, <3>2
  <2> QED
    BY <1>2, <2>1, <2>2 DEF IInv, TablesOK, NeverOverDelivered
<1>9. Grows(orders, orders', deliveries, deliveries', reservations, reservations')
  BY <1>1, <1>2, <1>5 DEF Grows
<1>10. pending' = [pending EXCEPT ![w] = NoWrites]
  BY <1>2, NothingPending DEF WritingPcs
<1> QED
  BY <1>2, <1>6, <1>8, <1>9, <1>10, TablesWritten

\* An adjustment overwrites the quantity on hand with a natural number.
LEMMA AdjustKeeps ==
  ASSUME IInv, NEW w \in Workers, Adjust(w)
  PROVE  IInv'
<1> DEFINE r == requests[w]
<1>1. /\ r.pc = "adjust"
      /\ balances' = [balances EXCEPT ![r.key].onHand = r.onHand]
      /\ movements' = [movements EXCEPT !.adjusted[r.key] = @ + r.delta]
      /\ requests' = [requests EXCEPT ![w] = Idle]
      /\ UNCHANGED <<orders, lines, reservations, deliveries, pending>>
  BY DEF Adjust, Goto
<1>2. r.key \in StockKeys /\ r.delta \in Int /\ r.onHand \in Nat
  BY <1>1, WriterOK DEF RequestOK, OrderPcs
<1>3. balances' \in [StockKeys -> BalanceRow]
  BY <1>1, <1>2, StockOverwritten DEF IInv, TypeOK, BalanceRow
<1>4. movements' \in Movements /\ movements'.issued = movements.issued
  BY <1>1, <1>2 DEF IInv, TypeOK, Movements
<1>5. TypeOK'
  BY <1>1, <1>3, <1>4 DEF IInv, TypeOK
<1>6. TablesOK'
  BY <1>1, <1>4 DEF IInv, TablesOK, NeverOverDelivered, DeliveryFor, Exists, Known
<1>7. Grows(orders, orders', deliveries, deliveries', reservations, reservations')
  BY <1>1 DEF Grows
<1>8. pending' = [pending EXCEPT ![w] = NoWrites]
  BY <1>1, NothingPending DEF WritingPcs
<1> QED
  BY <1>1, <1>5, <1>6, <1>7, <1>8, TablesWritten

\* New lines for an order no delivery order was created for.
LEMMA NewLinesOK ==
  ASSUME IInv, NEW o \in OrderIds, ~ Referenced(o),
         NEW quantity \in [LinesOf(o) -> Quantities]
  PROVE  /\ NewLines(o, quantity) \in [LineIds -> LineRow]
         /\ \A l \in LineIds :
              /\ movements.issued[l] = NewLines(o, quantity)[l].delivered
              /\ movements.issued[l] <= NewLines(o, quantity)[l].quantity
              /\ OrderOf[l] # o => NewLines(o, quantity)[l] = lines[l]
<1>1. lines \in [LineIds -> LineRow] /\ movements.issued \in [LineIds -> Nat]
  BY DEF IInv, TypeOK, Movements
<1>2. \A l \in LinesOf(o) : quantity[l] \in Nat
  BY BoundsAssumption
<1>3. \A l \in LineIds : NewLines(o, quantity)[l] =
        IF OrderOf[l] = o
        THEN [version |-> lines[l].version + 1, quantity |-> quantity[l],
              reserved |-> 0, delivered |-> 0]
        ELSE lines[l]
  BY DEF NewLines
<1>4. ASSUME NEW l \in LineIds, OrderOf[l] = o
      PROVE  /\ NewLines(o, quantity)[l] \in LineRow
             /\ movements.issued[l] = NewLines(o, quantity)[l].delivered
             /\ movements.issued[l] <= NewLines(o, quantity)[l].quantity
  <2>1. movements.issued[l] = 0
    <3>1. ~ DeliveryFor(l, deliveries)
      BY <1>4 DEF DeliveryFor, Exists, Referenced
    <3>2. ~ (movements.issued[l] > 0)
      BY <3>1 DEF IInv, TablesOK
    <3> QED
      BY <1>1, <3>2
  <2>2. l \in LinesOf(o) /\ lines[l].version \in Nat
    BY <1>1, <1>4 DEF LinesOf, LineRow
  <2>3. quantity[l] \in Nat
    BY <1>2, <2>2
  <2>4. NewLines(o, quantity)[l] =
          [version |-> lines[l].version + 1, quantity |-> quantity[l], reserved |-> 0, delivered |-> 0]
    BY <1>3, <1>4
  <2> QED
    BY <2>1, <2>2, <2>3, <2>4 DEF LineRow
<1>5. ASSUME NEW l \in LineIds, OrderOf[l] # o
      PROVE  /\ NewLines(o, quantity)[l] = lines[l]
             /\ NewLines(o, quantity)[l] \in LineRow
             /\ movements.issued[l] = NewLines(o, quantity)[l].delivered
             /\ movements.issued[l] <= NewLines(o, quantity)[l].quantity
  BY <1>1, <1>3, <1>5 DEF IInv, TablesOK, NeverOverDelivered
<1> QED
  BY <1>4, <1>5 DEF NewLines

\* update() replaces lines that no delivery order refers to.
LEMMA ReplaceLinesKeeps ==
  ASSUME IInv, NEW w \in Workers, ReplaceLines(w)
  PROVE  IInv'
<1> DEFINE r == requests[w]
<1>1. /\ r.pc = "update"
      /\ ~ Referenced(r.order)
      /\ LinesOf(r.order) \cap LinesLocked(w) = {}
      /\ lines' = NewLines(r.order, r.quantity)
      /\ reservations' = [i \in ReservationIds |->
           IF reservations[i].status # "NONE" /\ OrderOf[reservations[i].line] = r.order
           THEN [reservations[i] EXCEPT !.status = "DELETED"]
           ELSE reservations[i]]
      /\ requests' = [requests EXCEPT ![w] = Idle]
      /\ UNCHANGED <<orders, balances, deliveries, movements, pending>>
  BY DEF ReplaceLines, Goto
<1>2. Known(r.order, orders) /\ r.quantity \in [LinesOf(r.order) -> Quantities]
  BY <1>1, WriterOK DEF RequestOK, OrderPcs
<1>3. /\ lines' \in [LineIds -> LineRow]
      /\ \A l \in LineIds :
           /\ movements.issued[l] = lines'[l].delivered
           /\ movements.issued[l] <= lines'[l].quantity
           /\ OrderOf[l] # r.order => lines'[l] = lines[l]
  BY <1>1, <1>2, NewLinesOK DEF Known
<1>4. ASSUME NEW i \in ReservationIds
      PROVE  /\ reservations'[i] \in ReservationRow
             /\ reservations'[i].status = "NONE" <=> reservations[i].status = "NONE"
             /\ reservations'[i].line = reservations[i].line
  <2>1. reservations[i] \in ReservationRow
    BY DEF IInv, TypeOK
  <2> QED
    BY <1>1, <2>1 DEF ReservationRow, ReservationStatus
<1>5. TypeOK'
  BY <1>1, <1>3, <1>4 DEF IInv, TypeOK
<1>6. TablesOK'
  <2>1. NeverOverDelivered'
    BY <1>1, <1>3 DEF NeverOverDelivered
  <2> QED
    BY <1>1, <1>4, <2>1 DEF IInv, TablesOK, DeliveryFor, Exists, Known
<1>7. Grows(orders, orders', deliveries, deliveries', reservations, reservations')
  BY <1>1, <1>4 DEF Grows
<1>8. pending' = [pending EXCEPT ![w] = NoWrites]
  BY <1>1, NothingPending DEF WritingPcs
<1>9. ASSUME NEW v \in Workers \ {w}, NEW l \in DOMAIN pending[v].lines
      PROVE  lines'[l].version = lines[l].version /\ lines'[l].delivered = lines[l].delivered
  <2>1. l \in LineIds
    BY <1>9, WriterOK DEF WritesOK, WritesTyped, IsRows
  <2>2. OrderOf[l] # r.order
    BY <1>1, <1>9, <2>1 DEF LinesLocked, LinesOf
  <2> QED
    BY <1>3, <2>1, <2>2
<1> QED
  BY <1>1, <1>5, <1>6, <1>7, <1>8, <1>9, TablesWritten

\* A commit publishes rows that nobody else could have changed meanwhile.
LEMMA CommitKeeps ==
  ASSUME IInv, NEW w \in Workers, Commit(w)
  PROVE  IInv'
<1> DEFINE r == requests[w]
           p == pending[w]
<1>1. /\ r.pc = "commit"
      /\ orders' = [orders EXCEPT ![r.order] = r.status]
      /\ lines' = LinesSeen(w)
      /\ reservations' = ReservationsSeen(w)
      /\ balances' = BalancesSeen(w)
      /\ deliveries' = [d \in DeliveryIds |->
           IF d \in r.delivered THEN [deliveries[d] EXCEPT !.status = "DELIVERED"]
                                ELSE deliveries[d]]
      /\ movements' = [movements EXCEPT
           !.issued = [l \in LineIds |-> @[l] + p.issued[l]],
           !.postings = [d \in DeliveryIds |-> IF d \in r.delivered THEN @[d] + 1 ELSE @[d]]]
      /\ requests' = [requests EXCEPT ![w] = Idle]
      /\ pending' = [pending EXCEPT ![w] = NoWrites]
  BY DEF Commit, Goto, Write
<1>2. /\ Known(r.order, orders)
      /\ r.status \in OrderStatus \ {"NONE"}
      /\ \A d \in r.delivered : Exists(d, deliveries)
  BY <1>1, WriterOK DEF RequestOK, OrderPcs
<1>3. /\ WritesOK(p, orders, lines, deliveries)
      /\ p.issued \in [LineIds -> Nat]
      /\ DOMAIN p.lines \subseteq LineIds
  BY WriterOK DEF WritesOK, WritesTyped, IsRows
<1>4. /\ movements' \in Movements
      /\ \A l \in LineIds : movements'.issued[l] = movements.issued[l] + p.issued[l]
  <2>1. movements \in [issued : [LineIds -> Nat], adjusted : [StockKeys -> Int],
                       postings : [DeliveryIds -> Nat]]
    BY DEF IInv, TypeOK, Movements
  <2> DEFINE issued == [l \in LineIds |-> movements.issued[l] + p.issued[l]]
             postings == [d \in DeliveryIds |-> IF d \in r.delivered THEN movements.postings[d] + 1
                                                                    ELSE movements.postings[d]]
  <2>2. issued \in [LineIds -> Nat] /\ postings \in [DeliveryIds -> Nat]
    BY <1>3, <2>1
  <2>3. movements' = [movements EXCEPT !.issued = issued, !.postings = postings]
    BY <1>1
  <2>4. \A l \in LineIds : issued[l] = movements.issued[l] + p.issued[l]
    OBVIOUS
  <2> HIDE DEF issued, postings
  <2> QED
    BY <2>1, <2>2, <2>3, <2>4 DEF Movements
<1>5. \A d \in DeliveryIds :
        /\ deliveries'[d] \in DeliveryRow
        /\ Exists(d, deliveries) <=> Exists(d, deliveries')
        /\ deliveries'[d].order = deliveries[d].order
        /\ deliveries'[d].quantity = deliveries[d].quantity
  BY <1>1, <1>2 DEF IInv, TypeOK, Exists, DeliveryRow, DeliveryStatus
<1>6. orders' \in [OrderIds -> OrderStatus] /\ \A o : Known(o, orders) => Known(o, orders')
  BY <1>1, <1>2 DEF IInv, TypeOK, Known
<1>7. TypeOK'
  BY <1>1, <1>4, <1>5, <1>6, SeenTyped DEF TypeOK
<1>8. \A l : DeliveryFor(l, deliveries) => DeliveryFor(l, deliveries')
  BY <1>5 DEF DeliveryFor
<1>9. TablesOK'
  <2>1. ASSUME NEW l \in LineIds
        PROVE  /\ movements'.issued[l] = lines'[l].delivered
               /\ movements'.issued[l] <= lines'[l].quantity
    <3>1. movements.issued[l] = lines[l].delivered
      BY DEF IInv, TablesOK, NeverOverDelivered
    <3>2. /\ lines'[l].delivered = lines[l].delivered + p.issued[l]
          /\ lines'[l].delivered <= lines'[l].quantity
      BY <1>1, SeenTyped
    <3> QED
      BY <1>4, <3>1, <3>2
  <2>2. ASSUME NEW l \in LineIds, movements'.issued[l] > 0
        PROVE  DeliveryFor(l, deliveries')
    <3>1. movements.issued[l] \in Nat /\ p.issued[l] \in Nat
      BY <1>3 DEF IInv, TypeOK, Movements
    <3>2. movements.issued[l] > 0 \/ p.issued[l] > 0
      BY <1>4, <2>2, <3>1
    <3>3. DeliveryFor(l, deliveries)
      BY <1>3, <3>2 DEF IInv, TablesOK, WritesOK
    <3> QED
      BY <1>8, <3>3
  <2>3. \A d \in DeliveryIds : Exists(d, deliveries') =>
          /\ Known(deliveries'[d].order, orders')
          /\ \A l \in LineIds : deliveries'[d].quantity[l] > 0 => OrderOf[l] = deliveries'[d].order
    BY <1>5, <1>6 DEF IInv, TablesOK
  <2>4. \A i \in ReservationIds :
          reservations'[i].status # "NONE" => Known(OrderOf[reservations'[i].line], orders')
    BY <1>1, <1>6, SeenTyped
  <2> QED
    BY <2>1, <2>2, <2>3, <2>4 DEF TablesOK, NeverOverDelivered
<1>10. Grows(orders, orders', deliveries, deliveries', reservations, reservations')
  <2>1. \A o \in OrderIds : orders[o] # "NONE" => orders'[o] # "NONE"
    BY <1>6 DEF Known
  <2>2. \A i \in ReservationIds : reservations[i].status # "NONE" => reservations'[i].status # "NONE"
    BY <1>1, SeenTyped
  <2> QED
    BY <1>5, <2>1, <2>2 DEF Grows, Exists
<1>11. ASSUME NEW v \in Workers \ {w}, NEW l \in DOMAIN pending[v].lines
       PROVE  lines'[l].version = lines[l].version /\ lines'[l].delivered = lines[l].delivered
  <2>1. l \in LineIds
    BY <1>11, WriterOK DEF WritesOK, WritesTyped, IsRows
  <2>2. l \notin DOMAIN p.lines
    BY <1>11 DEF IInv, LockedOnce
  <2> QED
    BY <1>1, <2>1, <2>2 DEF LinesSeen, Overlay, IInv, TypeOK
<1> QED
  BY <1>1, <1>7, <1>9, <1>10, <1>11, TablesWritten

\* A new order with its lines.
LEMMA CreateKeeps ==
  ASSUME IInv, NEW o \in OrderIds, Create(o)
  PROVE  IInv'
<1>1. PICK quantity \in [LinesOf(o) -> Quantities] : lines' = NewLines(o, quantity)
  BY DEF Create
<1>2. /\ orders[o] = "NONE"
      /\ orders' = [orders EXCEPT ![o] = "DRAFT"]
      /\ UNCHANGED <<reservations, balances, deliveries, movements, requests, pending>>
  BY DEF Create
<1>3. ~ Referenced(o)
  BY <1>2 DEF IInv, TablesOK, Referenced, Exists, Known
<1>4. /\ lines' \in [LineIds -> LineRow]
      /\ \A l \in LineIds :
           /\ movements.issued[l] = lines'[l].delivered
           /\ movements.issued[l] <= lines'[l].quantity
           /\ OrderOf[l] # o => lines'[l] = lines[l]
  BY <1>1, <1>3, NewLinesOK
<1>5. TypeOK'
  BY <1>2, <1>4 DEF IInv, TypeOK, OrderStatus
<1>6. \A x : Known(x, orders) => x # o /\ Known(x, orders')
  BY <1>2 DEF IInv, TypeOK, Known
<1>7. TablesOK'
  <2>1. NeverOverDelivered'
    BY <1>2, <1>4 DEF NeverOverDelivered
  <2> QED
    BY <1>2, <1>6, <2>1 DEF IInv, TablesOK, DeliveryFor, Exists
<1>8. Grows(orders, orders', deliveries, deliveries', reservations, reservations')
  BY <1>2, <1>6 DEF Grows, Known
<1>9. ASSUME NEW w \in Workers
      PROVE  WorkerOK(requests[w], pending[w], orders', lines', deliveries', reservations')
  <2>1. WorkerOK(requests[w], pending[w], orders, lines, deliveries, reservations)
    BY DEF IInv
  <2>2. ASSUME NEW l \in DOMAIN pending[w].lines
        PROVE  lines'[l].version = lines[l].version /\ lines'[l].delivered = lines[l].delivered
    <3>1. l \in LineIds /\ Known(OrderOf[l], orders)
      BY <2>2, WriterOK DEF WritesOK, WritesTyped, IsRows
    <3> QED
      BY <1>4, <1>6, <3>1
  <2> QED
    BY <1>8, <2>1, <2>2, WorkerKept
<1> QED
  BY <1>2, <1>5, <1>7, <1>9 DEF IInv, LockedOnce

-----------------------------------------------------------------------------
(* The theorems *)

\* The empty tables satisfy the invariant.
LEMMA InitOK == Init => IInv
<1> SUFFICES ASSUME Init PROVE IInv
  OBVIOUS
<1>1. TypeOK
  <2>1. NoReservation \in ReservationRow /\ NoDelivery \in DeliveryRow
    BY LinesAssumption
    DEF NoReservation, ReservationRow, ReservationStatus, NoDelivery, DeliveryRow, DeliveryStatus
  <2> QED
    BY <2>1, BoundsAssumption
    DEF Init, TypeOK, OrderStatus, LineRow, BalanceRow, Movements
<1>2. TablesOK
  BY DEF Init, TablesOK, NeverOverDelivered, NoReservation, NoDelivery, Exists
<1>3. RequestOK(Idle, orders, deliveries, reservations)
  BY DEF RequestOK, OrderPcs, Idle
<1>4. WritesOK(NoWrites, orders, lines, deliveries) /\ DOMAIN NoWrites.lines = {}
  BY DEF WritesOK, WritesTyped, NoWrites, NoRows, IsRows
<1>5. WorkerOK(Idle, NoWrites, orders, lines, deliveries, reservations)
  BY <1>3, <1>4 DEF WorkerOK
<1> QED
  BY <1>1, <1>2, <1>4, <1>5 DEF Init, IInv, LockedOnce

\* Every step keeps the invariant.
LEMMA NextKeeps == IInv /\ [Next]_vars => IInv'
<1> SUFFICES ASSUME IInv, [Next]_vars PROVE IInv'
  OBVIOUS
<1>1. ASSUME NEW o \in OrderIds, Create(o) PROVE IInv'
  BY <1>1, CreateKeeps
<1>2. ASSUME NEW w \in Workers, NEW o \in OrderIds, OrderRequest(w, o) PROVE IInv'
  BY <1>2, OrderRequestKeeps
<1>3. ASSUME NEW w \in Workers, NEW d \in DeliveryIds, DeliveryRequest(w, d) PROVE IInv'
  BY <1>3, DeliveryRequestKeeps
<1>4. ASSUME NEW w \in Workers,
             \/ \E i \in ReservationIds : BeginRelease(w, i)
             \/ \E key \in StockKeys, n \in Adjustments : BeginAdjust(w, key, n)
      PROVE  IInv'
  BY <1>4, StockRequestKeeps
<1>5. ASSUME NEW w \in Workers, Continue(w) PROVE IInv'
  BY <1>5, ReplaceLinesKeeps, SetOrderKeeps, ConfirmAllocateKeeps, ReadAvailableKeeps,
     ReserveKeeps, ListReservationsKeeps, GiveBackKeeps, ReleaseKeeps, InsertDeliveryKeeps,
     SetDeliveryKeeps, ReadOnHandKeeps, IssueKeeps, AdjustKeeps, CommitKeeps, AbortKeeps
  DEF Continue
<1>6. CASE UNCHANGED vars
  BY <1>6
  DEF vars, db, IInv, TypeOK, TablesOK, NeverOverDelivered, LockedOnce, DeliveryFor, Exists, Known
<1> QED
  BY <1>1, <1>2, <1>3, <1>4, <1>5, <1>6 DEF Next

\* The inductive invariant holds in every reachable state.
THEOREM Inductive == Spec => []IInv
<1> QED
  BY InitOK, NextKeeps, PTL DEF Spec

\* Type correctness: every table keeps its type, so no quantity on hand or
\* reserved, no reservation and no line is ever committed negative, whatever
\* executeDelivery, allocate and release interleave.
THEOREM TypeCorrect == Spec => []TypeOK
<1>1. IInv => TypeOK
  BY DEF IInv
<1> QED
  BY <1>1, Inductive, PTL

\* Racing executeDelivery calls never issue more of a line than was ordered,
\* and the movements they post are what the line shows as delivered.
THEOREM OverDeliverySafety == Spec => []NeverOverDelivered
<1>1. IInv => NeverOverDelivered
  BY DEF IInv, TablesOK
<1> QED
  BY <1>1, Inductive, PTL

\* A step that replaces a line finds it without movements.
LEMMA ReplacedUnissued ==
  ASSUME IInv, [Next]_vars, NEW l \in LineIds, lines'[l].version # lines[l].version
  PROVE  movements.issued[l] = 0
<1>1. DeliveryFor(l, deliveries) \/ movements.issued[l] = 0
  BY DEF IInv, TypeOK, TablesOK, Movements
<1>2. ASSUME NEW o \in OrderIds, ~ Referenced(o), NEW quantity, lines' = NewLines(o, quantity)
      PROVE  movements.issued[l] = 0
  <2>1. OrderOf[l] = o
    BY <1>2 DEF NewLines
  <2>2. ~ DeliveryFor(l, deliveries)
    BY <1>2, <2>1 DEF DeliveryFor, Exists, Referenced
  <2> QED
    BY <1>1, <2>2
<1>3. ASSUME NEW o \in OrderIds, Create(o)
      PROVE  movements.issued[l] = 0
  <2>1. ~ Referenced(o)
    BY <1>3 DEF Create, IInv, TablesOK, Referenced, Exists, Known
  <2> QED
    BY <1>2, <1>3, <2>1 DEF Create
<1>4. ASSUME NEW w \in Workers, ReplaceLines(w)
      PROVE  movements.issued[l] = 0
  <2>1. requests[w].order \in OrderIds
    BY <1>4, WriterOK DEF ReplaceLines, RequestOK, OrderPcs, Known
  <2> QED
    BY <1>2, <1>4, <2>1 DEF ReplaceLines
<1>5. ASSUME NEW w \in Workers, Commit(w)
      PROVE  FALSE
  <2>1. lines'[l].version = lines[l].version
    BY <1>5, SeenTyped DEF Commit
  <2> QED
    BY <2>1
<1>6. ASSUME UNCHANGED lines
      PROVE  FALSE
  BY <1>6
<1>7. ASSUME NEW w \in Workers, NEW o \in OrderIds, OrderRequest(w, o)
      PROVE  UNCHANGED lines
  BY <1>7
  DEF OrderRequest, BeginUpdate, Submit, Approve, Reject, Close, BeginStatus, BeginAllocate,
      BeginConfirm, BeginReleaseAllocation, BeginCancel, BeginCreateDelivery, Begin, db
<1>8. ASSUME NEW w \in Workers, NEW d \in DeliveryIds, DeliveryRequest(w, d)
      PROVE  UNCHANGED lines
  BY <1>8
  DEF DeliveryRequest, Ready, Pick, Dispatch, CancelDelivery, BeginDeliveryStatus, BeginDeliver,
      Begin, db
<1>9. ASSUME NEW w \in Workers,
             \/ \E i \in ReservationIds : BeginRelease(w, i)
             \/ \E key \in StockKeys, n \in Adjustments : BeginAdjust(w, key, n)
      PROVE  UNCHANGED lines
  BY <1>9 DEF BeginRelease, BeginAdjust, Begin, db
<1>10. ASSUME NEW w \in Workers, Continue(w), ~ ReplaceLines(w), ~ Commit(w)
       PROVE  UNCHANGED lines
  BY <1>10
  DEF Continue, SetOrder, ConfirmAllocate, ReadAvailable, Reserve, ListReservations, GiveBack,
      Release, InsertDelivery, SetDelivery, ReadOnHand, Issue, Adjust, Abort, db
<1>11. CASE Next
  BY <1>3, <1>4, <1>5, <1>6, <1>7, <1>8, <1>9, <1>10, <1>11 DEF Next
<1>12. CASE UNCHANGED vars
  BY <1>6, <1>12 DEF vars, db
<1> QED
  BY <1>11, <1>12

\* update() never throws away a line that stock was issued for, however late
\* its transaction runs after the read of the DRAFT order.
THEOREM ReplacementSafety == Spec => ReplacedLinesWereUnissued
<1>1. IInv /\ [Next]_vars =>
        [\A l \in LineIds : lines'[l].version # lines[l].version => movements.issued[l] = 0]_vars
  BY ReplacedUnissued
<1> QED
  BY <1>1, Inductive, PTL DEF Spec, ReplacedLinesWereUnissued

-----------------------------------------------------------------------------
(* What was delivered was issued, however requests overlap *)

DeliveredTerms(ds, l) ==
  [d \in DeliveryIds |-> IF ds[d].status = "DELIVERED" THEN ds[d].quantity[l] ELSE 0]

DeliveredSum(ds, l) == SumFunctionOnSet(DeliveredTerms(ds, l), DeliveryIds)

LEMMA DeliveredIsSum ==
  ASSUME NEW ds \in [DeliveryIds -> DeliveryRow], NEW l \in LineIds
  PROVE  SumFunction([d \in {e \in DeliveryIds : ds[e].status = "DELIVERED"} |->
                        ds[d].quantity[l]]) = DeliveredSum(ds, l)
<1> DEFINE T == {e \in DeliveryIds : ds[e].status = "DELIVERED"}
           f == [d \in T |-> ds[d].quantity[l]]
           g == DeliveredTerms(ds, l)
<1>1. SumFunction(f) = SumFunctionOnSet(f, T)
  BY DEF SumFunction
<1>2. \A d \in DeliveryIds : g[d] \in Int
  BY DEF DeliveredTerms, DeliveryRow
<1>3. /\ \A d \in DeliveryIds \ T : g[d] = 0
      /\ \A d \in T : f[d] = g[d]
  BY DEF DeliveredTerms
<1>4. T \in SUBSET DeliveryIds /\ IsFiniteSet(T) /\ IsFiniteSet(DeliveryIds)
  BY FiniteAssumption, FS_Subset
<1> HIDE DEF T, f, g
<1>5. SumFunctionOnSet(f, T) = SumFunctionOnSet(g, T)
  BY <1>3, <1>4, SumEqual
<1>6. SumFunctionOnSet(g, T) = SumFunctionOnSet(g, DeliveryIds)
  BY <1>2, <1>3, <1>4, SumSubset
<1> QED
  BY <1>1, <1>5, <1>6 DEF DeliveredSum, f, g, T

\* What the status of one delivery order does to the sum.
LEMMA DeliveredChanges ==
  ASSUME NEW ds \in [DeliveryIds -> DeliveryRow], NEW ds2 \in [DeliveryIds -> DeliveryRow],
         NEW d \in DeliveryIds, \A e \in DeliveryIds \ {d} : ds2[e] = ds[e],
         NEW l \in LineIds
  PROVE  /\ DeliveredSum(ds, l) \in Nat
         /\ DeliveredSum(ds2, l) = DeliveredSum(ds, l) - DeliveredTerms(ds, l)[d]
                                                       + DeliveredTerms(ds2, l)[d]
<1>1. /\ \A e \in DeliveryIds : DeliveredTerms(ds, l)[e] \in Nat /\ DeliveredTerms(ds2, l)[e] \in Nat
      /\ \A e \in DeliveryIds \ {d} : DeliveredTerms(ds, l)[e] = DeliveredTerms(ds2, l)[e]
  BY DEF DeliveredTerms, DeliveryRow
<1>2. IsFiniteSet(DeliveryIds)
  BY FiniteAssumption
<1>3. DeliveredSum(ds, l) \in Nat
  BY <1>1, <1>2, SumNat DEF DeliveredSum
<1>4. \A e \in DeliveryIds : DeliveredTerms(ds, l)[e] \in Int /\ DeliveredTerms(ds2, l)[e] \in Int
  BY <1>1
<1> QED
  BY <1>1, <1>2, <1>3, <1>4, SumChange DEF DeliveredSum

\* Where a request on delivery orders is: a delivery under way has issued the
\* lines it is done with, and none of the others.
Promises(r, p, ds) ==
  /\ r.pc = "setDelivery" => r.to # "DELIVERED"
  /\ r.pc = "issue" => r.line \notin r.todo
  /\ r.pc \in {"deliver", "issue"} =>
       \A l \in LineIds :
         p.issued[l] = IF l \in r.todo \/ (r.pc = "issue" /\ l = r.line) THEN 0
                       ELSE ds[r.delivery].quantity[l]
  /\ r.pc = "commit" =>
       \/ r.delivered = {}
       \/ \E d \in DeliveryIds :
            r.delivered = {d} /\ \A l \in LineIds : p.issued[l] = ds[d].quantity[l]

DeliveryInv ==
  /\ \A l \in LineIds : DeliveredSum(deliveries, l) <= movements.issued[l]
  /\ \A w \in Workers : Promises(requests[w], pending[w], deliveries)

\* Delivery orders keep what they promise.
LEMMA PromisesKept ==
  ASSUME NEW r, NEW p, NEW ds, NEW ds2, NEW os, NEW rs,
         RequestOK(r, os, ds, rs), Promises(r, p, ds),
         \A d \in DeliveryIds : Exists(d, ds) => ds2[d].quantity = ds[d].quantity
  PROVE  Promises(r, p, ds2)
<1>1. r.pc \in {"deliver", "issue"} => ds2[r.delivery].quantity = ds[r.delivery].quantity
  BY DEF RequestOK, Exists
<1>2. ASSUME r.pc = "commit", NEW d \in DeliveryIds, r.delivered = {d}
      PROVE  ds2[d].quantity = ds[d].quantity
  BY <1>2 DEF RequestOK
<1> QED
  BY <1>1, <1>2 DEF Promises

\* A step that leaves delivery orders and movements as they are.
LEMMA DeliveriesUntouched ==
  ASSUME IInv, DeliveryInv, NEW w \in Workers, NEW r, NEW p,
         requests' = [requests EXCEPT ![w] = r],
         pending' = [pending EXCEPT ![w] = p],
         UNCHANGED deliveries, movements'.issued = movements.issued,
         Promises(r, p, deliveries)
  PROVE  DeliveryInv'
<1>1. /\ requests'[w] = r /\ pending'[w] = p
      /\ \A v \in Workers \ {w} : requests'[v] = requests[v] /\ pending'[v] = pending[v]
  BY DEF IInv
<1> QED
  BY <1>1 DEF DeliveryInv

\* A request that is about anything else.
OtherPcs == {"idle", "update", "setOrder", "confirm", "allocate", "reserve", "releaseAll",
             "giveBack", "insertDelivery", "release", "adjust"}

LEMMA OthersPromiseNothing ==
  ASSUME NEW r, NEW p, NEW ds, r.pc \in OtherPcs
  PROVE  Promises(r, p, ds)
BY DEF Promises, OtherPcs

LEMMA CommitPromisesNothing ==
  ASSUME NEW o, NEW s, NEW p, NEW ds
  PROVE  Promises(CommitOf(o, s, {}), p, ds)
BY DEF Promises, CommitOf

LEMMA OnlyOthers ==
  ASSUME IInv, DeliveryInv, NEW w \in Workers, NEW r, Goto(w, r), UNCHANGED <<db, pending>>,
         Promises(r, pending[w], deliveries)
  PROVE  DeliveryInv'
<1>1. pending' = [pending EXCEPT ![w] = pending[w]]
  BY DEF IInv
<1> QED
  BY <1>1, DeliveriesUntouched DEF Goto, db

LEMMA OrderRequestDelivers ==
  ASSUME IInv, DeliveryInv, NEW w \in Workers, NEW o \in OrderIds, OrderRequest(w, o)
  PROVE  DeliveryInv'
<1> USE OthersPromiseNothing, OnlyOthers DEF Begin, OtherPcs
<1>1. CASE BeginUpdate(w, o)
  BY <1>1 DEF BeginUpdate
<1>2. ASSUME NEW from, NEW to, BeginStatus(w, o, from, to)
      PROVE  DeliveryInv'
  BY <1>2 DEF BeginStatus
<1>3. CASE Submit(w, o) \/ Approve(w, o) \/ Reject(w, o) \/ Close(w, o)
  BY <1>2, <1>3 DEF Submit, Approve, Reject, Close
<1>4. CASE BeginAllocate(w, o)
  BY <1>4 DEF BeginAllocate
<1>5. CASE BeginConfirm(w, o)
  BY <1>5 DEF BeginConfirm
<1>6. CASE BeginReleaseAllocation(w, o) \/ BeginCancel(w, o)
  BY <1>6 DEF BeginReleaseAllocation, BeginCancel
<1>7. CASE BeginCreateDelivery(w, o)
  BY <1>7 DEF BeginCreateDelivery
<1> QED
  BY <1>1, <1>3, <1>4, <1>5, <1>6, <1>7 DEF OrderRequest

LEMMA DeliveryRequestDelivers ==
  ASSUME IInv, DeliveryInv, NEW w \in Workers, NEW d \in DeliveryIds, DeliveryRequest(w, d)
  PROVE  DeliveryInv'
<1> USE OnlyOthers DEF Begin
<1>1. ASSUME NEW from, NEW to, to # "DELIVERED", BeginDeliveryStatus(w, d, from, to)
      PROVE  DeliveryInv'
  BY <1>1 DEF BeginDeliveryStatus, Promises
<1>2. CASE Ready(w, d) \/ Pick(w, d) \/ Dispatch(w, d) \/ CancelDelivery(w, d)
  BY <1>1, <1>2 DEF Ready, Pick, Dispatch, CancelDelivery
<1>3. CASE BeginDeliver(w, d)
  <2>1. pending[w] = NoWrites
    BY <1>3, WriterOK DEF BeginDeliver, Idle, WritingPcs, IInv, WorkerOK
  <2>2. \A l \in LineIds : deliveries[d].quantity[l] \in Nat
    BY DEF IInv, TypeOK, DeliveryRow
  <2> QED
    BY <1>3, <2>1, <2>2 DEF BeginDeliver, Promises, DeliveryLines, NoWrites
<1> QED
  BY <1>2, <1>3 DEF DeliveryRequest

LEMMA StockRequestDelivers ==
  ASSUME IInv, DeliveryInv, NEW w \in Workers,
         \/ \E i \in ReservationIds : BeginRelease(w, i)
         \/ \E key \in StockKeys, n \in Adjustments : BeginAdjust(w, key, n)
  PROVE  DeliveryInv'
<1> USE OthersPromiseNothing, OnlyOthers DEF Begin, OtherPcs
<1>1. ASSUME NEW i \in ReservationIds, BeginRelease(w, i)
      PROVE  DeliveryInv'
  BY <1>1 DEF BeginRelease
<1>2. ASSUME NEW key \in StockKeys, NEW n \in Adjustments, BeginAdjust(w, key, n)
      PROVE  DeliveryInv'
  BY <1>2 DEF BeginAdjust
<1> QED
  BY <1>1, <1>2

\* The steps of the other services change neither delivery orders nor what
\* was issued.
LEMMA OtherWrite ==
  ASSUME IInv, DeliveryInv, NEW w \in Workers, NEW r, NEW p,
         Goto(w, r), Write(w, p) \/ (UNCHANGED pending),
         UNCHANGED deliveries, movements'.issued = movements.issued,
         r.pc \in OtherPcs \/ \E o, s : r = CommitOf(o, s, {})
  PROVE  DeliveryInv'
<1>1. \A q : Promises(r, q, deliveries)
  BY OthersPromiseNothing, CommitPromisesNothing
<1>2. CASE Write(w, p)
  BY <1>1, <1>2, DeliveriesUntouched DEF Goto, Write
<1>3. CASE UNCHANGED pending
  <2>1. pending' = [pending EXCEPT ![w] = pending[w]]
    BY <1>3 DEF IInv
  <2> QED
    BY <1>1, <2>1, DeliveriesUntouched DEF Goto
<1> QED
  BY <1>2, <1>3

LEMMA OrderStepDelivers ==
  ASSUME IInv, DeliveryInv, NEW w \in Workers,
         \/ ReplaceLines(w) \/ SetOrder(w) \/ ConfirmAllocate(w) \/ Adjust(w) \/ Abort(w)
         \/ ListReservations(w)
  PROVE  DeliveryInv'
<1>1. CASE ReplaceLines(w) \/ SetOrder(w)
  <2>1. Goto(w, Idle) /\ UNCHANGED <<pending, deliveries, movements>>
    BY <1>1 DEF ReplaceLines, SetOrder
  <2> QED
    BY <2>1, OtherWrite DEF Idle, OtherPcs
<1>2. CASE ConfirmAllocate(w)
  <2>1. PICK r : Goto(w, r) /\ r.pc = "allocate"
    BY <1>2 DEF ConfirmAllocate
  <2> QED
    BY <1>2, <2>1, OtherWrite DEF ConfirmAllocate, OtherPcs, db
<1>3. CASE Adjust(w)
  <2>1. /\ Goto(w, Idle) /\ UNCHANGED <<pending, deliveries>>
        /\ movements'.issued = movements.issued
    BY <1>3 DEF Adjust, IInv, TypeOK, Movements
  <2> QED
    BY <2>1, OtherWrite DEF Idle, OtherPcs
<1>4. CASE Abort(w)
  BY <1>4, OtherWrite DEF Abort, Idle, OtherPcs, db
<1>5. CASE ListReservations(w)
  <2>1. PICK found : Goto(w, IF found # {}
             THEN [pc |-> "giveBack", order |-> requests[w].order, to |-> requests[w].to,
                   todo |-> [i \in found |-> reservations[i]]]
             ELSE IF requests[w].to = "CANCELLED" THEN CommitOf(requests[w].order, requests[w].to, {})
             ELSE Idle)
    BY <1>5 DEF ListReservations
  <2>2. PICK r : Goto(w, r) /\ (r.pc \in OtherPcs \/ \E o, s : r = CommitOf(o, s, {}))
    BY <2>1 DEF Idle, OtherPcs
  <2> QED
    BY <1>5, <2>2, OtherWrite DEF ListReservations, db
<1> QED
  BY <1>1, <1>2, <1>3, <1>4, <1>5

LEMMA AllocateStepDelivers ==
  ASSUME IInv, DeliveryInv, NEW w \in Workers,
         ReadAvailable(w) \/ Reserve(w) \/ GiveBack(w) \/ Release(w)
  PROVE  DeliveryInv'
<1>0. ASSUME NEW r, NEW todo, NEW took
      PROVE  \/ AllocateNext(r, todo, took).pc \in OtherPcs
             \/ \E o, s : AllocateNext(r, todo, took) = CommitOf(o, s, {})
  BY DEF AllocateNext, OtherPcs
<1>1. CASE ReadAvailable(w)
  <2>1. PICK r : Goto(w, r) /\ (r.pc \in OtherPcs \/ \E o, s : r = CommitOf(o, s, {}))
    <3>1. PICK l \in requests[w].todo :
            LET r == requests[w]
                n == AtMost(Needed(r.seen[l]), Available(BalancesSeen(w)[KeyOf[l]]))
            IN  Goto(w, IF n = 0
                   THEN AllocateNext(r, r.todo \ {l}, r.took)
                   ELSE [pc |-> "reserve", order |-> r.order, was |-> r.was,
                         seen |-> r.seen, todo |-> r.todo \ {l},
                         took |-> [r.took EXCEPT ![l] = n], line |-> l])
      BY <1>1 DEF ReadAvailable
    <3> QED
      BY <1>0, <3>1 DEF OtherPcs
  <2> QED
    BY <1>1, <2>1, OtherWrite DEF ReadAvailable, db
<1>2. CASE Reserve(w)
  <2>1. PICK p : Write(w, p)
    BY <1>2 DEF Reserve
  <2>2. Goto(w, AllocateNext(requests[w], requests[w].todo, requests[w].took))
    BY <1>2 DEF Reserve
  <2> QED
    BY <1>0, <1>2, <2>1, <2>2, OtherWrite DEF Reserve, db
<1>3. CASE GiveBack(w)
  <2>1. PICK p, rest : /\ Write(w, p)
                       /\ Goto(w, IF DOMAIN rest # {}
                                  THEN [pc |-> "giveBack", order |-> requests[w].order,
                                        to |-> requests[w].to, todo |-> rest]
                                  ELSE CommitOf(requests[w].order, requests[w].to, {}))
    BY <1>3 DEF GiveBack
  <2>2. PICK r : Goto(w, r) /\ (r.pc \in OtherPcs \/ \E o, s : r = CommitOf(o, s, {}))
    BY <2>1 DEF OtherPcs
  <2> QED
    BY <1>3, <2>1, <2>2, OtherWrite DEF GiveBack, db
<1>4. CASE Release(w)
  <2>1. PICK p, o, s : Write(w, p) /\ Goto(w, CommitOf(o, s, {}))
    BY <1>4 DEF Release
  <2> QED
    BY <1>4, <2>1, OtherWrite DEF Release, db
<1> QED
  BY <1>1, <1>2, <1>3, <1>4
\* Only WriteIssue touches what a transaction has issued.
LEMMA IssuedKept ==
  ASSUME NEW p, "issued" \in DOMAIN p, NEW id, NEW row
  PROVE  /\ "issued" \in DOMAIN WriteReservation(p, id, row)
         /\ WriteReservation(p, id, row).issued = p.issued
         /\ "issued" \in DOMAIN WriteBalance(p, id, row)
         /\ WriteBalance(p, id, row).issued = p.issued
         /\ "issued" \in DOMAIN WriteLine(p, id, row)
         /\ WriteLine(p, id, row).issued = p.issued
BY DEF WriteLine, WriteReservation, WriteBalance

LEMMA IssuedGrows ==
  ASSUME NEW p, "issued" \in DOMAIN p, NEW id, NEW n
  PROVE  WriteIssue(p, id, n).issued = [p.issued EXCEPT ![id] = @ + n]
BY DEF WriteIssue

\* The steps of executeDelivery before its commit.
LEMMA DeliverStepDelivers ==
  ASSUME IInv, DeliveryInv, NEW w \in Workers, ReadOnHand(w) \/ Issue(w)
  PROVE  DeliveryInv'
<1> DEFINE r == requests[w]
           p == pending[w]
<1>0. Promises(r, p, deliveries) /\ WritesTyped(p)
  BY WriterOK DEF DeliveryInv, WritesOK
<1>1. CASE ReadOnHand(w)
  <2>1. PICK l, onHand :
          l \in r.todo /\
          Goto(w, [pc |-> "issue", delivery |-> r.delivery, todo |-> r.todo \ {l},
                   line |-> l, onHand |-> onHand])
    BY <1>1 DEF ReadOnHand
  <2>2. Promises([pc |-> "issue", delivery |-> r.delivery, todo |-> r.todo \ {l},
                  line |-> l, onHand |-> onHand], p, deliveries)
    BY <1>0, <1>1, <2>1 DEF Promises, ReadOnHand
  <2> QED
    BY <1>1, <2>1, <2>2, OnlyOthers DEF ReadOnHand
<1>2. CASE Issue(w)
  <2> DEFINE l == r.line
             n == deliveries[r.delivery].quantity[l]
  <2>1. /\ r.line \in LineIds /\ r.delivery \in DeliveryIds
        /\ p.issued \in [LineIds -> Nat]
        /\ \A k \in LineIds : deliveries[r.delivery].quantity[k] \in Nat
    <3>1. r.line \in LineIds /\ r.delivery \in DeliveryIds
      BY <1>2, WriterOK DEF Issue, RequestOK, Exists
    <3>2. deliveries[r.delivery] \in DeliveryRow
      BY <3>1 DEF IInv, TypeOK
    <3> QED
      BY <1>0, <3>1, <3>2 DEF WritesTyped, DeliveryRow
  <2>2. PICK p2 : Write(w, p2) /\ p2.issued = [p.issued EXCEPT ![l] = @ + n]
    <3>1. "issued" \in DOMAIN p
      BY <1>0 DEF WritesTyped
    <3>2. PICK line, row, q : /\ q.issued = p.issued /\ "issued" \in DOMAIN q
                             /\ Write(w, WriteIssue(WriteLine(q, l, line), l, n))
      <4>1. ASSUME NEW line, NEW balance,
                   Write(w, WriteIssue(WriteLine(WriteBalance(p, KeyOf[l], balance), l, line), l, n))
            PROVE  \E q : /\ q.issued = p.issued /\ "issued" \in DOMAIN q
                          /\ Write(w, WriteIssue(WriteLine(q, l, line), l, n))
        <5>1. /\ "issued" \in DOMAIN WriteBalance(p, KeyOf[l], balance)
              /\ WriteBalance(p, KeyOf[l], balance).issued = p.issued
          BY <3>1, IssuedKept
        <5> QED
          BY <4>1, <5>1
      <4>2. ASSUME NEW line, NEW left, NEW i, NEW row,
                   Write(w, WriteIssue(WriteLine(WriteReservation(WriteBalance(p, KeyOf[l], left), i, row),
                                                 l, line), l, n))
            PROVE  \E q : /\ q.issued = p.issued /\ "issued" \in DOMAIN q
                          /\ Write(w, WriteIssue(WriteLine(q, l, line), l, n))
        <5>1. /\ "issued" \in DOMAIN WriteBalance(p, KeyOf[l], left)
              /\ WriteBalance(p, KeyOf[l], left).issued = p.issued
          BY <3>1, IssuedKept
        <5> DEFINE q == WriteReservation(WriteBalance(p, KeyOf[l], left), i, row)
        <5>2. q.issued = p.issued /\ "issued" \in DOMAIN q
          BY <5>1, IssuedKept
        <5> QED
          BY <4>2, <5>2
      <4> HIDE DEF p, l, n
      <4> QED
        BY <1>2, <4>1, <4>2 DEF Issue, p, l, n, r
    <3> HIDE DEF p, l, n
    <3>3. /\ "issued" \in DOMAIN WriteLine(q, l, line)
          /\ WriteLine(q, l, line).issued = p.issued
      BY <3>2, IssuedKept
    <3>4. WriteIssue(WriteLine(q, l, line), l, n).issued = [p.issued EXCEPT ![l] = @ + n]
      BY <3>3, IssuedGrows
    <3> QED
      BY <3>2, <3>4
  <2>3. PICK seen : Goto(w, DeliverNext(r, seen))
    BY <1>2 DEF Issue
  <2>4. Promises(DeliverNext(r, seen), p2, deliveries)
    <3>1. \A k \in LineIds :
            p2.issued[k] = IF k \in r.todo THEN 0 ELSE deliveries[r.delivery].quantity[k]
      <4>1. /\ l \notin r.todo
            /\ \A k \in LineIds : p.issued[k] = IF k \in r.todo \/ k = l THEN 0
                                               ELSE deliveries[r.delivery].quantity[k]
        BY <1>0, <1>2 DEF Promises, Issue
      <4>2. p.issued[l] + n = n
        BY <2>1, <4>1
      <4> QED
        BY <2>1, <2>2, <4>1, <4>2
    <3>2. CASE r.todo # {}
      BY <3>1, <3>2 DEF DeliverNext, Promises
    <3>3. CASE r.todo = {}
      BY <2>1, <3>1, <3>3 DEF DeliverNext, Promises, CommitOf
    <3> QED
      BY <3>2, <3>3
  <2> QED
    BY <1>2, <2>2, <2>3, <2>4, DeliveriesUntouched DEF Goto, Write, Issue, db
<1> QED
  BY <1>1, <1>2

\* The other workers keep their promises when delivery orders change.
LEMMA DeliveriesWritten ==
  ASSUME IInv, DeliveryInv, NEW w \in Workers,
         Goto(w, Idle), Write(w, NoWrites) \/ UNCHANGED pending,
         \A d \in DeliveryIds :
           Exists(d, deliveries) => deliveries'[d].quantity = deliveries[d].quantity,
         \A l \in LineIds : DeliveredSum(deliveries', l) <= movements'.issued[l]
  PROVE  DeliveryInv'
<1>1. Promises(requests'[w], pending'[w], deliveries')
  BY OthersPromiseNothing DEF Goto, IInv, Idle, OtherPcs
<1>2. ASSUME NEW v \in Workers \ {w}
      PROVE  Promises(requests'[v], pending'[v], deliveries')
  <2>1. requests'[v] = requests[v] /\ pending'[v] = pending[v]
    BY DEF Goto, Write, IInv
  <2>2. RequestOK(requests[v], orders, deliveries, reservations)
    BY DEF IInv, WorkerOK
  <2>3. Promises(requests[v], pending[v], deliveries)
    BY DEF DeliveryInv
  <2> QED
    BY <2>1, <2>2, <2>3, PromisesKept
<1> QED
  BY <1>1, <1>2 DEF DeliveryInv

LEMMA InsertDeliveryDelivers ==
  ASSUME IInv, IInv', DeliveryInv, NEW w \in Workers, InsertDelivery(w)
  PROVE  DeliveryInv'
<1>1. PICK d \in DeliveryIds :
        /\ deliveries[d].status = "NONE"
        /\ deliveries' = [deliveries EXCEPT
             ![d] = [status |-> "DRAFT", order |-> requests[w].order, quantity |-> requests[w].quantity]]
  BY DEF InsertDelivery
<1>2. deliveries \in [DeliveryIds -> DeliveryRow] /\ deliveries' \in [DeliveryIds -> DeliveryRow]
  BY DEF IInv, TypeOK
<1>3. \A e \in DeliveryIds \ {d} : deliveries'[e] = deliveries[e]
  BY <1>1, <1>2
<1>4. deliveries'[d].status = "DRAFT"
  BY <1>1, <1>2
<1>5. ASSUME NEW l \in LineIds
      PROVE  DeliveredSum(deliveries', l) <= movements'.issued[l]
  <2>1. DeliveredTerms(deliveries, l)[d] = 0 /\ DeliveredTerms(deliveries', l)[d] = 0
    BY <1>1, <1>4 DEF DeliveredTerms
  <2>2. DeliveredSum(deliveries, l) \in Nat
    BY <1>2, <1>3, DeliveredChanges
  <2>3. DeliveredSum(deliveries', l) = DeliveredSum(deliveries, l)
    BY <1>2, <1>3, <2>1, <2>2, DeliveredChanges
  <2>4. DeliveredSum(deliveries, l) <= movements.issued[l] /\ movements' = movements
    BY DEF DeliveryInv, InsertDelivery
  <2> QED
    BY <2>3, <2>4
<1> QED
  BY <1>1, <1>3, <1>5, DeliveriesWritten DEF InsertDelivery, Exists

LEMMA SetDeliveryDelivers ==
  ASSUME IInv, IInv', DeliveryInv, NEW w \in Workers, SetDelivery(w)
  PROVE  DeliveryInv'
<1> DEFINE d == requests[w].delivery
<1>1. /\ d \in DeliveryIds
      /\ deliveries' = [deliveries EXCEPT ![d].status = requests[w].to]
      /\ requests[w].to # "DELIVERED"
  BY WriterOK DEF SetDelivery, RequestOK, Exists, DeliveryInv, Promises
<1>2. deliveries \in [DeliveryIds -> DeliveryRow] /\ deliveries' \in [DeliveryIds -> DeliveryRow]
  BY DEF IInv, TypeOK
<1>3. /\ \A e \in DeliveryIds \ {d} : deliveries'[e] = deliveries[e]
      /\ deliveries'[d].status = requests[w].to
      /\ deliveries'[d].quantity = deliveries[d].quantity
  BY <1>1, <1>2 DEF DeliveryRow
<1> HIDE DEF d
<1>4. ASSUME NEW l \in LineIds
      PROVE  DeliveredSum(deliveries', l) <= movements'.issued[l]
  <2>1. DeliveredTerms(deliveries, l)[d] \in Nat /\ DeliveredTerms(deliveries', l)[d] = 0
    BY <1>1, <1>2, <1>3 DEF DeliveredTerms, DeliveryRow
  <2>2. DeliveredSum(deliveries, l) \in Nat
    BY <1>1, <1>2, <1>3, DeliveredChanges
  <2>3. DeliveredSum(deliveries', l) <= DeliveredSum(deliveries, l)
    <3>1. DeliveredSum(deliveries', l) = DeliveredSum(deliveries, l) - DeliveredTerms(deliveries, l)[d]
                                            + DeliveredTerms(deliveries', l)[d]
      <4>1. d \in DeliveryIds
        BY <1>1
      <4>2. \A e \in DeliveryIds \ {d} : deliveries'[e] = deliveries[e]
        BY <1>3
      <4> QED
        BY <4>1, <4>2, <1>2, DeliveredChanges
    <3> QED
      BY <2>1, <2>2, <3>1
  <2>4. DeliveredSum(deliveries, l) <= movements.issued[l] /\ movements' = movements
    BY DEF DeliveryInv, SetDelivery
  <2>5. movements.issued[l] \in Nat /\ DeliveredSum(deliveries', l) \in Nat
    BY <1>1, <1>2, <1>3, DeliveredChanges DEF IInv, TypeOK, Movements
  <2> QED
    BY <2>2, <2>3, <2>4, <2>5
<1> QED
  BY <1>3, <1>4, DeliveriesWritten DEF SetDelivery
\* A delivery order becomes DELIVERED with the movements of all its lines.
LEMMA CommitDelivers ==
  ASSUME IInv, IInv', DeliveryInv, NEW w \in Workers, Commit(w)
  PROVE  DeliveryInv'
<1> DEFINE r == requests[w]
           p == pending[w]
<1>1. /\ deliveries' = [d \in DeliveryIds |->
            IF d \in r.delivered THEN [deliveries[d] EXCEPT !.status = "DELIVERED"]
                                 ELSE deliveries[d]]
      /\ \A l \in LineIds : movements'.issued[l] = movements.issued[l] + p.issued[l]
      /\ Goto(w, Idle) /\ Write(w, NoWrites)
  BY DEF Commit, IInv, TypeOK, Movements
<1>2. \/ r.delivered = {}
      \/ \E d \in DeliveryIds :
           r.delivered = {d} /\ \A l \in LineIds : p.issued[l] = deliveries[d].quantity[l]
  BY DEF Commit, DeliveryInv, Promises
<1>3. deliveries \in [DeliveryIds -> DeliveryRow] /\ deliveries' \in [DeliveryIds -> DeliveryRow]
  BY DEF IInv, TypeOK
<1>4. p.issued \in [LineIds -> Nat]
  BY WriterOK DEF WritesOK, WritesTyped
<1>5. \A d \in DeliveryIds : deliveries'[d].quantity = deliveries[d].quantity
  BY <1>1, <1>3 DEF DeliveryRow
<1> HIDE DEF r, p
<1>6. ASSUME NEW l \in LineIds
      PROVE  DeliveredSum(deliveries', l) <= movements'.issued[l]
  <2>1. /\ DeliveredSum(deliveries, l) <= movements.issued[l]
        /\ movements.issued[l] \in Nat /\ p.issued[l] \in Nat
    BY <1>4 DEF DeliveryInv, IInv, TypeOK, Movements
  <2>2. movements'.issued[l] = movements.issued[l] + p.issued[l]
    BY <1>1
  <2>3. CASE r.delivered = {}
    <3>1. deliveries' = deliveries
      BY <1>1, <1>3, <2>3
    <3>2. DeliveredSum(deliveries, l) \in Nat
      <4>1. \A d \in DeliveryIds : DeliveredTerms(deliveries, l)[d] \in Nat
        BY <1>3 DEF DeliveredTerms, DeliveryRow
      <4> QED
        BY <4>1, SumNat, FiniteAssumption DEF DeliveredSum
    <3> QED
      BY <2>1, <2>2, <3>1, <3>2
  <2>4. ASSUME NEW d \in DeliveryIds, r.delivered = {d}, p.issued[l] = deliveries[d].quantity[l]
        PROVE  DeliveredSum(deliveries', l) <= movements'.issued[l]
    <3>1. /\ \A e \in DeliveryIds \ {d} : deliveries'[e] = deliveries[e]
          /\ deliveries'[d] = [deliveries[d] EXCEPT !.status = "DELIVERED"]
      BY <1>1, <2>4
    <3>2. /\ DeliveredSum(deliveries, l) \in Nat
          /\ DeliveredSum(deliveries', l) = DeliveredSum(deliveries, l)
               - DeliveredTerms(deliveries, l)[d] + DeliveredTerms(deliveries', l)[d]
      BY <1>3, <3>1, DeliveredChanges
    <3>3. /\ DeliveredTerms(deliveries, l)[d] \in Nat
          /\ DeliveredTerms(deliveries', l)[d] = p.issued[l]
      <4>1. deliveries'[d].status = "DELIVERED" /\ deliveries'[d].quantity = deliveries[d].quantity
        BY <1>3, <3>1 DEF DeliveryRow
      <4> QED
        BY <1>3, <2>4, <4>1 DEF DeliveredTerms, DeliveryRow
    <3> QED
      BY <2>1, <2>2, <3>2, <3>3
  <2> QED
    BY <1>2, <2>3, <2>4
<1> QED
  BY <1>1, <1>5, <1>6, DeliveriesWritten

LEMMA DeliveryKept ==
  ASSUME IInv, IInv', DeliveryInv, [Next]_vars
  PROVE  DeliveryInv'
<1>1. ASSUME NEW o \in OrderIds, Create(o) PROVE DeliveryInv'
  BY <1>1 DEF Create, DeliveryInv
<1>2. ASSUME NEW w \in Workers, NEW o \in OrderIds, OrderRequest(w, o) PROVE DeliveryInv'
  BY <1>2, OrderRequestDelivers
<1>3. ASSUME NEW w \in Workers, NEW d \in DeliveryIds, DeliveryRequest(w, d) PROVE DeliveryInv'
  BY <1>3, DeliveryRequestDelivers
<1>4. ASSUME NEW w \in Workers,
             \/ \E i \in ReservationIds : BeginRelease(w, i)
             \/ \E key \in StockKeys, n \in Adjustments : BeginAdjust(w, key, n)
      PROVE  DeliveryInv'
  BY <1>4, StockRequestDelivers
<1>5. ASSUME NEW w \in Workers, Continue(w) PROVE DeliveryInv'
  BY <1>5, OrderStepDelivers, AllocateStepDelivers, DeliverStepDelivers, InsertDeliveryDelivers,
     SetDeliveryDelivers, CommitDelivers DEF Continue
<1>6. CASE UNCHANGED vars
  BY <1>6 DEF vars, db, DeliveryInv
<1> QED
  BY <1>1, <1>2, <1>3, <1>4, <1>5, <1>6 DEF Next

LEMMA DeliveryInit == Init => DeliveryInv
<1> SUFFICES ASSUME Init PROVE DeliveryInv
  OBVIOUS
<1>1. ASSUME NEW l \in LineIds PROVE DeliveredSum(deliveries, l) = 0
  <2>1. \A d \in DeliveryIds : DeliveredTerms(deliveries, l)[d] = 0
    BY DEF Init, DeliveredTerms, NoDelivery
  <2> QED
    BY <2>1, SumZero, FiniteAssumption DEF DeliveredSum
<1>2. \A w \in Workers : Promises(requests[w], pending[w], deliveries)
  BY OthersPromiseNothing DEF Init, Idle, OtherPcs
<1> QED
  BY <1>1, <1>2 DEF Init, DeliveryInv

\* What the delivery orders in status DELIVERED promise of a line has left the
\* stock: no overlap of executeDelivery, status changes and updates makes a
\* delivery order DELIVERED without its movements.
THEOREM DeliverySafety == Spec => []DeliveredWasIssued
<1>1. Init => IInv /\ DeliveryInv
  BY InitOK, DeliveryInit
<1>2. IInv /\ DeliveryInv /\ [Next]_vars => (IInv /\ DeliveryInv)'
  BY NextKeeps, DeliveryKept
<1>3. IInv /\ DeliveryInv => DeliveredWasIssued
  BY DeliveredIsSum DEF DeliveredWasIssued, DeliveredQuantity, DeliveryInv, IInv, TypeOK
<1> QED
  BY <1>1, <1>2, <1>3, PTL DEF Spec
=============================================================================
