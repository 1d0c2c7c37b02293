---------------------------- MODULE SalesOrders ----------------------------
(***************************************************************************)
(* sales/orders/sales-orders.service.ts.  Every operation but create reads *)
(* the order first and acts on what it read; the status it writes at the   *)
(* end is not conditional on the status still being the one it checked.    *)
(***************************************************************************)
EXTENDS SalesDatabase

-----------------------------------------------------------------------------
(* Creation and editing *)

NewLines(o, quantity) ==
  [l \in LineIds |->
     IF OrderOf[l] = o
     THEN [version |-> lines[l].version + 1, quantity |-> quantity[l],
           reserved |-> 0, delivered |-> 0]
     ELSE lines[l]]

Create(o) ==
  /\ orders[o] = "NONE"
  /\ orders' = [orders EXCEPT ![o] = "DRAFT"]
  /\ \E quantity \in [LinesOf(o) -> Quantities] : lines' = NewLines(o, quantity)
  /\ UNCHANGED <<reservations, balances, deliveries, movements, requests, pending>>

BeginUpdate(w, o) ==
  /\ orders[o] = "DRAFT"
  /\ \E quantity \in [LinesOf(o) -> Quantities] :
       Begin(w, [pc |-> "update", order |-> o, quantity |-> quantity])

\* Mutant: the foreign key restricts only while the delivery order is open.
ReferencedByOpen(o) ==
  \E d \in DeliveryIds :
    /\ deliveries[d].order = o
    /\ deliveries[d].status \notin {"NONE", "DELIVERED", "CANCELLED"}

Referenced(o) ==
  \E d \in DeliveryIds : deliveries[d].order = o /\ deliveries[d].status # "NONE"

\* deleteMany + createMany of the lines.  The foreign key of delivery lines
\* restricts the deletion; the one of reservations cascades, so it waits for
\* the reservations that others are writing.
ReplaceLines(w) ==
  LET r == requests[w] IN
  /\ r.pc = "update"
  /\ ~ Referenced(r.order)
  /\ LinesOf(r.order) \cap LinesLocked(w) = {}
  /\ \A v \in Workers : \A i \in DOMAIN pending[v].reservations :
       OrderOf[pending[v].reservations[i].line] # r.order
  /\ \A l \in LinesOf(r.order) : lines[l].version < MaxVersion
  /\ lines' = NewLines(r.order, r.quantity)
  /\ reservations' = [i \in ReservationIds |->
       IF /\ reservations[i].status # "NONE"
          /\ OrderOf[reservations[i].line] = r.order
       THEN [reservations[i] EXCEPT !.status = "DELETED"]
       ELSE reservations[i]]
  /\ Goto(w, Idle)
  /\ UNCHANGED <<orders, balances, deliveries, movements, pending>>

-----------------------------------------------------------------------------
(* Status changes: a read of the order, then an update by id *)

BeginStatus(w, o, from, to) ==
  /\ orders[o] \in from
  /\ Begin(w, [pc |-> "setOrder", order |-> o, to |-> to])

Submit(w, o) == BeginStatus(w, o, {"DRAFT"}, "SUBMITTED")

\* The credit check reads the customer's open invoices and decides nothing.
Approve(w, o) == BeginStatus(w, o, {"DRAFT", "SUBMITTED"}, "APPROVED")

Reject(w, o) == BeginStatus(w, o, {"DRAFT", "SUBMITTED"}, "REJECTED")

Close(w, o) == BeginStatus(w, o, {"FULFILLED"}, "CLOSED")

SetOrder(w) ==
  /\ requests[w].pc = "setOrder"
  /\ orders' = [orders EXCEPT ![requests[w].order] = requests[w].to]
  /\ Goto(w, Idle)
  /\ UNCHANGED <<lines, reservations, balances, deliveries, movements, pending>>

-----------------------------------------------------------------------------
(* allocate: reserve what is available for each line *)

Allocatable == {"DRAFT", "SUBMITTED", "APPROVED", "CONFIRMED", "PARTIALLY_RESERVED"}

\* `seen` is the order as findOne returned it, before the transaction; `took`
\* is what the transaction has reserved for each of its lines so far.
BeginAllocate(w, o) ==
  /\ orders[o] \in Allocatable
  /\ Begin(w, [pc |-> "allocate", order |-> o, was |-> orders[o],
               seen |-> [l \in LinesOf(o) |-> lines[l]],
               todo |-> LinesOf(o), took |-> [l \in LinesOf(o) |-> 0]])

\* confirm() allows fewer statuses and then calls allocate(), which reads the
\* order a second time.
BeginConfirm(w, o) ==
  /\ orders[o] \in {"DRAFT", "APPROVED"}
  /\ Begin(w, [pc |-> "confirm", order |-> o])

ConfirmAllocate(w) ==
  LET o == requests[w].order IN
  /\ requests[w].pc = "confirm"
  /\ orders[o] \in Allocatable
  /\ Goto(w, [pc |-> "allocate", order |-> o, was |-> orders[o],
              seen |-> [l \in LinesOf(o) |-> lines[l]],
              todo |-> LinesOf(o), took |-> [l \in LinesOf(o) |-> 0]])
  /\ UNCHANGED <<db, pending>>

AtMost(a, b) == IF a <= b THEN a ELSE b
AtLeastZero(n) == IF n >= 0 THEN n ELSE 0

Available(balance) == AtLeastZero(balance.onHand - balance.reserved)
Needed(line) == AtLeastZero(line.quantity - line.reserved - line.delivered)

\* Mutant: one fully reserved line is enough.
SomeReserved(seen, took) ==
  \E l \in DOMAIN seen :
    seen[l].reserved + took[l] + seen[l].delivered >= seen[l].quantity

FullyReserved(seen, took) ==
  \A l \in DOMAIN seen :
    seen[l].reserved + took[l] + seen[l].delivered >= seen[l].quantity

AllocatedStatus(was, seen, took) ==
  IF FullyReserved(seen, took) THEN "ALLOCATED"
  ELSE IF was = "PARTIALLY_RESERVED" \/ \E l \in DOMAIN took : took[l] > 0
       THEN "PARTIALLY_RESERVED"
  ELSE IF was = "APPROVED" THEN "APPROVED" ELSE "CONFIRMED"

\* The next line, or the final status when there is none left.
AllocateNext(r, todo, took) ==
  IF todo # {}
  THEN [pc |-> "allocate", order |-> r.order, was |-> r.was, seen |-> r.seen,
        todo |-> todo, took |-> took]
  ELSE CommitOf(r.order, AllocatedStatus(r.was, r.seen, took), {})

\* The read of the line's balance decides how much to reserve.
ReadAvailable(w) ==
  LET r == requests[w] IN
  /\ r.pc = "allocate"
  /\ \E l \in r.todo :
       LET n == AtMost(Needed(r.seen[l]), Available(BalancesSeen(w)[KeyOf[l]]))
       IN  Goto(w, IF n = 0
                   THEN AllocateNext(r, r.todo \ {l}, r.took)
                   ELSE [pc |-> "reserve", order |-> r.order, was |-> r.was,
                         seen |-> r.seen, todo |-> r.todo \ {l},
                         took |-> [r.took EXCEPT ![l] = n], line |-> l])
  /\ UNCHANGED <<db, pending>>

Free(i) ==
  /\ reservations[i].status = "NONE"
  /\ \A v \in Workers : i \notin DOMAIN pending[v].reservations

\* Insert the reservation, increment the balance and the line.  The insert's
\* foreign key wants the line that was read to be there still.
Reserve(w) ==
  LET r == requests[w]
      l == r.line
      n == r.took[l]
      line == Hold(LinesSeen(w)[l], n)
      balance == Hold(BalancesSeen(w)[KeyOf[l]], n)
  IN
  /\ r.pc = "reserve"
  /\ l \notin LinesLocked(w) /\ KeyOf[l] \notin KeysLocked(w)
  /\ lines[l].version = r.seen[l].version
  /\ CheckLine(line)
  /\ \E i \in ReservationIds :
       /\ Free(i)
       /\ Write(w, WriteLine(WriteBalance(WriteReservation(pending[w], i,
                      [status |-> "ACTIVE", line |-> l, quantity |-> n]),
                    KeyOf[l], balance), l, line))
  /\ Goto(w, AllocateNext(r, r.todo, r.took))
  /\ UNCHANGED db

-----------------------------------------------------------------------------
(* releaseAllocation and cancel: give back every active reservation *)

BeginReleaseAllocation(w, o) ==
  /\ orders[o] \in {"ALLOCATED", "PARTIALLY_RESERVED", "APPROVED"}
  /\ Begin(w, [pc |-> "releaseAll", order |-> o, to |-> "APPROVED"])

\* Mutant: cancel() forgets that a FULFILLED order is final.
BeginCancelAny(w, o) ==
  /\ orders[o] \notin {"NONE", "CLOSED", "CANCELLED"}
  /\ Begin(w, [pc |-> "releaseAll", order |-> o, to |-> "CANCELLED"])

BeginCancel(w, o) ==
  /\ orders[o] \notin {"NONE", "FULFILLED", "CLOSED", "CANCELLED"}
  /\ Begin(w, [pc |-> "releaseAll", order |-> o, to |-> "CANCELLED"])

\* Mutant: cancel() leaves out the reservations of a partly reserved order.
ListWhenAllocated(w) ==
  LET r == requests[w]
      found == {i \in ReservationIds : /\ orders[r.order] = "ALLOCATED"
                                       /\ reservations[i].status = "ACTIVE"
                                       /\ OrderOf[reservations[i].line] = r.order}
  IN
  /\ r.pc = "releaseAll"
  /\ Goto(w, IF found # {}
             THEN [pc |-> "giveBack", order |-> r.order, to |-> r.to,
                   todo |-> [i \in found |-> reservations[i]]]
             ELSE IF r.to = "CANCELLED" THEN CommitOf(r.order, r.to, {})
             ELSE Idle)
  /\ UNCHANGED <<db, pending>>

\* findMany of the order's ACTIVE reservations, the transaction's first read.
\* `todo` holds the rows as they were read.
ListReservations(w) ==
  LET r == requests[w]
      found == {i \in ReservationIds : /\ reservations[i].status = "ACTIVE"
                                       /\ OrderOf[reservations[i].line] = r.order}
  IN
  /\ r.pc = "releaseAll"
  /\ Goto(w, IF found # {}
             THEN [pc |-> "giveBack", order |-> r.order, to |-> r.to,
                   todo |-> [i \in found |-> reservations[i]]]
             ELSE IF r.to = "CANCELLED" THEN CommitOf(r.order, r.to, {})
             ELSE Idle)
  /\ UNCHANGED <<db, pending>>

\* One turn of the loop.  cancel() leaves the line's quantityReserved as it is.
GiveBack(w) ==
  LET r == requests[w] IN
  /\ r.pc = "giveBack"
  /\ \E i \in DOMAIN r.todo :
       LET l == r.todo[i].line
           key == KeyOf[l]
           balance == Unhold(BalancesSeen(w)[key], r.todo[i].quantity)
           line == Unhold(LinesSeen(w)[l], r.todo[i].quantity)
           released == [ReservationsSeen(w)[i] EXCEPT !.status = "RELEASED"]
           given == WriteReservation(WriteBalance(pending[w], key, balance), i, released)
           rest == [j \in DOMAIN r.todo \ {i} |-> r.todo[j]]
       IN
       /\ key \notin KeysLocked(w) /\ CheckBalance(balance)
       /\ ReservationsSeen(w)[i].status # "DELETED"
       /\ r.to # "CANCELLED" => l \notin LinesLocked(w) /\ CheckLine(line)
       /\ Write(w, IF r.to = "CANCELLED" THEN given ELSE WriteLine(given, l, line))
       /\ Goto(w, IF DOMAIN rest # {}
                  THEN [pc |-> "giveBack", order |-> r.order, to |-> r.to, todo |-> rest]
                  ELSE CommitOf(r.order, r.to, {}))
  /\ UNCHANGED db
=============================================================================
