----------------------- MODULE SalesSequentialProofs -----------------------
(***************************************************************************)
(* For any number of orders, lines, reservations and deliveries, served    *)
(* one request at a time (Alone): balances, lines, reservations and the    *)
(* ledger add up, a delivery order is executed once, and the status of an  *)
(* order says what is reserved and delivered of it.                        *)
(*                                                                         *)
(* The invariant SequentialInv says this of the committed tables and, for  *)
(* every order but its own, of what the transaction under way sees; of its *)
(* own order it says how far the transaction is, and it says that what the *)
(* request read before it wrote is still so.  The last part is what fails  *)
(* as soon as two requests overlap.                                        *)
(***************************************************************************)
EXTENDS SalesFulfillmentProofs

-----------------------------------------------------------------------------
(* What the quantities add up to when requests do not overlap *)

\* Requests run one after another.
Alone == \A v, w \in Workers : v = w

\* What a reservation holds, of a stock key or for a line, and the sums.
Weight(row) == IF row.status = "ACTIVE" THEN row.quantity ELSE 0

KeyTerms(rs, k) ==
  [i \in ReservationIds |-> IF KeyOf[rs[i].line] = k THEN Weight(rs[i]) ELSE 0]
LineTerms(rs, l) ==
  [i \in ReservationIds |-> IF rs[i].line = l THEN Weight(rs[i]) ELSE 0]
IssuedTerms(issued, k) == [l \in LineIds |-> IF KeyOf[l] = k THEN issued[l] ELSE 0]

HeldOfKey(rs, k) == SumFunctionOnSet(KeyTerms(rs, k), ReservationIds)
HeldOfLine(rs, l) == SumFunctionOnSet(LineTerms(rs, l), ReservationIds)
IssuedAt(issued, k) == SumFunctionOnSet(IssuedTerms(issued, k), LineIds)

\* Lines `ls`, reservations `rs`, balances `bs` and issued quantities agree.
StockOK(ls, rs, bs, issued, adjusted) ==
  /\ \A k \in StockKeys : bs[k].reserved = HeldOfKey(rs, k)
  /\ \A k \in StockKeys : bs[k].onHand = InitialStock + adjusted[k] - IssuedAt(issued, k)
  /\ \A l \in LineIds : HeldOfLine(rs, l) <= ls[l].reserved
  /\ \A l \in LineIds : ls[l].reserved <= ls[l].quantity
  /\ \A i \in ReservationIds : rs[i].status = "ACTIVE" => rs[i].quantity > 0

\* No stock is held for the order.
HoldsNothing(rs, o) ==
  \A i \in ReservationIds : rs[i].status = "ACTIVE" => OrderOf[rs[i].line] # o

\* Its undelivered lines hold what they show as reserved.
HoldsReserved(ls, rs, o) ==
  \A l \in LinesOf(o) : ls[l].delivered = 0 => HeldOfLine(rs, l) = ls[l].reserved

FullyDelivered(ls, o) == \A l \in LinesOf(o) : ls[l].delivered >= ls[l].quantity

Past == {"CANCELLED", "PARTIALLY_FULFILLED", "FULFILLED", "CLOSED"}

\* What status `s` says of the lines and reservations of order o.  cancel()
\* leaves the lines' reserved quantities; an order it was called for holds
\* nothing and is never allocated again.
StatusOK(s, ls, rs, o) ==
  /\ s \in {"DRAFT", "CANCELLED"} => HoldsNothing(rs, o)
  /\ s = "FULFILLED" => FullyDelivered(ls, o)
  /\ (s \in Past /\ HoldsNothing(rs, o)) \/ HoldsReserved(ls, rs, o)
  /\ s = "ALLOCATED" =>
       \A l \in LinesOf(o) : ls[l].delivered = 0 => ls[l].reserved = ls[l].quantity

Releasable(to, s) ==
  \/ to = "APPROVED" /\ s \in {"ALLOCATED", "PARTIALLY_RESERVED", "APPROVED"}
  \/ to = "CANCELLED" /\ s \notin {"NONE", "FULFILLED", "CLOSED", "CANCELLED"}

\* What a request has read is still so.
BeliefOK(r, os, rs, bs, ds) ==
  /\ r.pc = "update" => os[r.order] = "DRAFT"
  /\ r.pc = "setOrder" =>
       \/ os[r.order] \in {"DRAFT", "SUBMITTED"} /\ r.to \in {"SUBMITTED", "APPROVED", "REJECTED"}
       \/ os[r.order] = "FULFILLED" /\ r.to = "CLOSED"
  /\ r.pc \in {"allocate", "reserve"} => os[r.order] = r.was /\ r.was \in Allocatable
  /\ r.pc \in {"releaseAll", "giveBack"} => Releasable(r.to, os[r.order])
  /\ r.pc = "release" => r.row = rs[r.reservation] /\ r.row.status = "ACTIVE"
  /\ r.pc \in {"setDelivery", "deliver", "issue"} => ds[r.delivery].status # "DELIVERED"
  /\ r.pc = "adjust" => r.onHand = bs[r.key].onHand + r.delta
  /\ r.pc \in {"issue", "commit"} =>
       os[IF r.pc = "issue" THEN ds[r.delivery].order ELSE r.order] # "FULFILLED"
  /\ r.pc = "commit" => \A d \in r.delivered : ds[d].status # "DELIVERED"

OrderOfTransaction(r, ds) ==
  IF r.pc \in {"deliver", "issue"} THEN ds[r.delivery].order ELSE r.order

\* Where a transaction is that sees the tables ls, rs and bs.
ProgressOK(r, os, ls, rs, bs, ds) ==
  /\ r.pc \in {"allocate", "reserve"} =>
       /\ HoldsReserved(ls, rs, r.order)
       /\ \A l \in LinesOf(r.order) :
            /\ ls[l].quantity = r.seen[l].quantity /\ ls[l].delivered = r.seen[l].delivered
            /\ ls[l].reserved = r.seen[l].reserved
                                 + (IF r.pc = "reserve" /\ l = r.line THEN 0 ELSE r.took[l])
            /\ l \in r.todo => r.took[l] = 0
  /\ r.pc = "reserve" => r.took[r.line] > 0 /\ r.line \notin r.todo
  /\ r.pc = "giveBack" =>
       /\ \A i \in DOMAIN r.todo : r.todo[i] = rs[i] /\ rs[i].status = "ACTIVE"
       /\ \A i \in ReservationIds :
            rs[i].status = "ACTIVE" /\ OrderOf[rs[i].line] = r.order => i \in DOMAIN r.todo
       /\ r.to = "APPROVED" => HoldsReserved(ls, rs, r.order)
  /\ r.pc \in {"deliver", "issue"} =>
       LET o == ds[r.delivery].order IN
       /\ HoldsNothing(rs, o) \/ HoldsReserved(ls, rs, o)
       /\ os[o] = "FULFILLED" => FullyDelivered(ls, o)
  /\ r.pc = "issue" =>
       r.onHand = bs[KeyOf[r.line]].onHand - ds[r.delivery].quantity[r.line]
  /\ r.pc = "commit" => StatusOK(r.status, ls, rs, r.order) /\ r.status # "DRAFT"

IssuedSeen(w) == [l \in LineIds |-> movements.issued[l] + pending[w].issued[l]]

\* A transaction that sees these tables leaves them consistent for every other
\* order, and for its own if it commits now.
Consistent(r, os, ls, rs, bs, issued, adjusted, ds) ==
  /\ StockOK(ls, rs, bs, issued, adjusted)
  /\ \A o \in OrderIds \ {OrderOfTransaction(r, ds)} : StatusOK(os[o], ls, rs, o)
  /\ ProgressOK(r, os, ls, rs, bs, ds)

TransactionOK(w) ==
  Consistent(requests[w], orders, LinesSeen(w), ReservationsSeen(w), BalancesSeen(w),
             IssuedSeen(w), movements.adjusted, deliveries)

\* Only executeDelivery issues stock.
IssuesNone(r, p) ==
  r.pc \in {"allocate", "reserve", "giveBack"} \/ (r.pc = "commit" /\ r.delivered = {})
    => \A l \in LineIds : p.issued[l] = 0

PostedOnce ==
  \A d \in DeliveryIds :
    movements.postings[d] = IF deliveries[d].status = "DELIVERED" THEN 1 ELSE 0

SequentialInv ==
  /\ StockOK(lines, reservations, balances, movements.issued, movements.adjusted)
  /\ \A o \in OrderIds : StatusOK(orders[o], lines, reservations, o)
  /\ \A l \in LineIds : movements.issued[l] = DeliveredSum(deliveries, l)
  /\ PostedOnce
  /\ \A w \in Workers : BeliefOK(requests[w], orders, reservations, balances, deliveries)
  /\ \A w \in Workers : requests[w].pc \in WritingPcs => TransactionOK(w)
  /\ \A w \in Workers : IssuesNone(requests[w], pending[w])

-----------------------------------------------------------------------------
(* The sums *)

LEMMA HeldTermsTyped ==
  ASSUME NEW rs \in [ReservationIds -> ReservationRow], NEW i \in ReservationIds
  PROVE  /\ Weight(rs[i]) \in Nat
         /\ \A k : KeyTerms(rs, k)[i] \in Nat
         /\ \A l : LineTerms(rs, l)[i] \in Nat
BY DEF Weight, KeyTerms, LineTerms, ReservationRow

LEMMA HeldIsNat ==
  ASSUME NEW rs \in [ReservationIds -> ReservationRow]
  PROVE  (\A k : HeldOfKey(rs, k) \in Nat) /\ (\A l : HeldOfLine(rs, l) \in Nat)
<1>1. IsFiniteSet(ReservationIds)
  BY FiniteAssumption
<1>2. ASSUME NEW k PROVE HeldOfKey(rs, k) \in Nat
  <2> DEFINE f == KeyTerms(rs, k)
  <2>1. \A i \in ReservationIds : f[i] \in Nat
    BY HeldTermsTyped
  <2> HIDE DEF f
  <2>2. SumFunctionOnSet(f, ReservationIds) \in Nat
    BY <1>1, <2>1, SumNat
  <2> QED
    BY <2>2 DEF HeldOfKey, f
<1>3. ASSUME NEW l PROVE HeldOfLine(rs, l) \in Nat
  <2> DEFINE f == LineTerms(rs, l)
  <2>1. \A i \in ReservationIds : f[i] \in Nat
    BY HeldTermsTyped
  <2> HIDE DEF f
  <2>2. SumFunctionOnSet(f, ReservationIds) \in Nat
    BY <1>1, <2>1, SumNat
  <2> QED
    BY <2>2 DEF HeldOfLine, f
<1> QED
  BY <1>2, <1>3

\* One row of the reservations changes: the sums move by the difference.
LEMMA HeldChanges ==
  ASSUME NEW rs \in [ReservationIds -> ReservationRow],
         NEW rs2 \in [ReservationIds -> ReservationRow],
         NEW i \in ReservationIds, \A j \in ReservationIds \ {i} : rs2[j] = rs[j]
  PROVE  /\ \A k : HeldOfKey(rs2, k) = HeldOfKey(rs, k) - KeyTerms(rs, k)[i] + KeyTerms(rs2, k)[i]
         /\ \A l : HeldOfLine(rs2, l) = HeldOfLine(rs, l) - LineTerms(rs, l)[i] + LineTerms(rs2, l)[i]
<1>1. IsFiniteSet(ReservationIds)
  BY FiniteAssumption
<1>2. ASSUME NEW k
      PROVE  HeldOfKey(rs2, k) = HeldOfKey(rs, k) - KeyTerms(rs, k)[i] + KeyTerms(rs2, k)[i]
  <2> DEFINE f == KeyTerms(rs, k)
             g == KeyTerms(rs2, k)
  <2>1. \A j \in ReservationIds : f[j] \in Int /\ g[j] \in Int
    BY HeldTermsTyped
  <2>2. \A j \in ReservationIds \ {i} : f[j] = g[j]
    BY DEF KeyTerms
  <2> HIDE DEF f, g
  <2>3. SumFunctionOnSet(g, ReservationIds) = SumFunctionOnSet(f, ReservationIds) - f[i] + g[i]
    BY <1>1, <2>1, <2>2, SumChange
  <2> QED
    BY <2>3 DEF HeldOfKey, f, g
<1>3. ASSUME NEW l
      PROVE  HeldOfLine(rs2, l) = HeldOfLine(rs, l) - LineTerms(rs, l)[i] + LineTerms(rs2, l)[i]
  <2> DEFINE f == LineTerms(rs, l)
             g == LineTerms(rs2, l)
  <2>1. \A j \in ReservationIds : f[j] \in Int /\ g[j] \in Int
    BY HeldTermsTyped
  <2>2. \A j \in ReservationIds \ {i} : f[j] = g[j]
    BY DEF LineTerms
  <2> HIDE DEF f, g
  <2>3. SumFunctionOnSet(g, ReservationIds) = SumFunctionOnSet(f, ReservationIds) - f[i] + g[i]
    BY <1>1, <2>1, <2>2, SumChange
  <2> QED
    BY <2>3 DEF HeldOfLine, f, g
<1> QED
  BY <1>2, <1>3

\* `n` more is held for line l.
HeldMoves(rs, rs2, l, n) ==
  /\ \A k \in StockKeys : HeldOfKey(rs2, k) = HeldOfKey(rs, k) + (IF k = KeyOf[l] THEN n ELSE 0)
  /\ \A m \in LineIds : HeldOfLine(rs2, m) = HeldOfLine(rs, m) + (IF m = l THEN n ELSE 0)

\* A reservation taken for a line, or one of the line changed, moves what is held
\* for the line and of its key by as much.
LEMMA ReservationMoves ==
  ASSUME NEW rs \in [ReservationIds -> ReservationRow],
         NEW rs2 \in [ReservationIds -> ReservationRow],
         NEW i \in ReservationIds, \A j \in ReservationIds \ {i} : rs2[j] = rs[j],
         rs[i].line = rs2[i].line \/ Weight(rs[i]) = 0
  PROVE  HeldMoves(rs, rs2, rs2[i].line, Weight(rs2[i]) - Weight(rs[i]))
<1> DEFINE l == rs2[i].line
           a == Weight(rs[i])
           b == Weight(rs2[i])
<1>1. a \in Nat /\ b \in Nat
  BY HeldTermsTyped
<1>2. ASSUME NEW k \in StockKeys
      PROVE  HeldOfKey(rs2, k) = HeldOfKey(rs, k) + (IF k = KeyOf[l] THEN b - a ELSE 0)
  <2>1. KeyTerms(rs, k)[i] = IF k = KeyOf[l] THEN a ELSE 0
    BY DEF KeyTerms
  <2>2. KeyTerms(rs2, k)[i] = IF k = KeyOf[l] THEN b ELSE 0
    BY DEF KeyTerms
  <2>3. HeldOfKey(rs2, k) = HeldOfKey(rs, k) - KeyTerms(rs, k)[i] + KeyTerms(rs2, k)[i]
    BY HeldChanges
  <2>4. HeldOfKey(rs, k) \in Nat
    BY HeldIsNat
  <2> HIDE DEF a, b, l
  <2> QED
    BY <1>1, <2>1, <2>2, <2>3, <2>4
<1>3. ASSUME NEW m \in LineIds
      PROVE  HeldOfLine(rs2, m) = HeldOfLine(rs, m) + (IF m = l THEN b - a ELSE 0)
  <2>1. LineTerms(rs, m)[i] = IF m = l THEN a ELSE 0
    BY DEF LineTerms
  <2>2. LineTerms(rs2, m)[i] = IF m = l THEN b ELSE 0
    BY DEF LineTerms
  <2>3. HeldOfLine(rs2, m) = HeldOfLine(rs, m) - LineTerms(rs, m)[i] + LineTerms(rs2, m)[i]
    BY HeldChanges
  <2>4. HeldOfLine(rs, m) \in Nat
    BY HeldIsNat
  <2> HIDE DEF a, b, l
  <2> QED
    BY <1>1, <2>1, <2>2, <2>3, <2>4
<1> QED
  BY <1>2, <1>3 DEF HeldMoves

LEMMA NothingMoves ==
  ASSUME NEW rs \in [ReservationIds -> ReservationRow], NEW l
  PROVE  HeldMoves(rs, rs, l, 0)
<1>1. (\A k : HeldOfKey(rs, k) \in Nat) /\ (\A m : HeldOfLine(rs, m) \in Nat)
  BY HeldIsNat
<1> QED
  BY <1>1 DEF HeldMoves

LEMMA IssuedIsInt ==
  ASSUME NEW issued \in [LineIds -> Nat], NEW k
  PROVE  IssuedAt(issued, k) \in Int
<1> DEFINE f == IssuedTerms(issued, k)
<1>1. \A x \in LineIds : f[x] \in Int
  BY DEF IssuedTerms
<1> HIDE DEF f
<1>2. SumFunctionOnSet(f, LineIds) \in Int
  BY <1>1, SumInt, FiniteAssumption
<1> QED
  BY <1>2 DEF IssuedAt, f

\* `n` more is issued of line l.
LEMMA IssuedMoves ==
  ASSUME NEW issued \in [LineIds -> Nat], NEW issued2 \in [LineIds -> Nat],
         NEW l \in LineIds, NEW n \in Nat, issued2[l] = issued[l] + n,
         \A m \in LineIds \ {l} : issued2[m] = issued[m], NEW k
  PROVE  IssuedAt(issued2, k) = IssuedAt(issued, k) + (IF k = KeyOf[l] THEN n ELSE 0)
<1> DEFINE f == IssuedTerms(issued, k)
           g == IssuedTerms(issued2, k)
<1>1. \A x \in LineIds : f[x] \in Int /\ g[x] \in Int
  BY DEF IssuedTerms
<1>2. \A x \in LineIds \ {l} : f[x] = g[x]
  BY DEF IssuedTerms
<1>3. g[l] = f[l] + (IF k = KeyOf[l] THEN n ELSE 0)
  BY DEF IssuedTerms
<1>4. IssuedAt(issued, k) \in Int
  BY IssuedIsInt
<1>5. IssuedAt(issued, k) = SumFunctionOnSet(f, LineIds) /\ IssuedAt(issued2, k) = SumFunctionOnSet(g, LineIds)
  BY DEF IssuedAt
<1> HIDE DEF f, g
<1>6. SumFunctionOnSet(g, LineIds) = SumFunctionOnSet(f, LineIds) - f[l] + g[l]
  BY <1>1, <1>2, SumChange, FiniteAssumption
<1> QED
  BY <1>1, <1>3, <1>4, <1>5, <1>6

-----------------------------------------------------------------------------
(* One statement on the stock of a line *)

\* One step on line l: `n` more reserved, `m` more issued of it and of its key.
LineMoves(ls, ls2, l) == \A x \in LineIds \ {l} : ls2[x] = ls[x]

BalanceMoves(bs, bs2, l, n, m) ==
  /\ \A k \in StockKeys \ {KeyOf[l]} : bs2[k] = bs[k]
  /\ bs2[KeyOf[l]].reserved = bs[KeyOf[l]].reserved + n
  /\ bs2[KeyOf[l]].onHand = bs[KeyOf[l]].onHand - m

IssueMoves(issued, issued2, l, m) ==
  issued2[l] = issued[l] + m /\ \A x \in LineIds \ {l} : issued2[x] = issued[x]

\* Reservations are taken and given back for line l only.
ReservedFor(rs, rs2, l) ==
  \A i \in ReservationIds : rs2[i].status = "ACTIVE" =>
    OrderOf[rs2[i].line] = OrderOf[l] \/ rs2[i] = rs[i]

NoneEmpty(rs) == \A i \in ReservationIds : rs[i].status = "ACTIVE" => rs[i].quantity > 0

\* Stock stays consistent when line l, the reservations for it and the balance of its
\* key move together.
LEMMA StockMoves ==
  ASSUME NEW ls \in [LineIds -> LineRow], NEW ls2 \in [LineIds -> LineRow],
         NEW rs \in [ReservationIds -> ReservationRow],
         NEW rs2 \in [ReservationIds -> ReservationRow],
         NEW bs \in [StockKeys -> BalanceRow], NEW bs2 \in [StockKeys -> BalanceRow],
         NEW issued \in [LineIds -> Nat], NEW issued2 \in [LineIds -> Nat],
         NEW adjusted \in [StockKeys -> Int],
         NEW l \in LineIds, NEW n \in Int, NEW m \in Nat,
         StockOK(ls, rs, bs, issued, adjusted),
         LineMoves(ls, ls2, l), BalanceMoves(bs, bs2, l, n, m),
         IssueMoves(issued, issued2, l, m), HeldMoves(rs, rs2, l, n),
         HeldOfLine(rs, l) + n <= ls2[l].reserved, ls2[l].reserved <= ls2[l].quantity,
         NoneEmpty(rs2)
  PROVE  StockOK(ls2, rs2, bs2, issued2, adjusted)
<1>1. (\A k : HeldOfKey(rs, k) \in Nat) /\ (\A x : HeldOfLine(rs, x) \in Nat)
  BY HeldIsNat
<1>2. \A k : IssuedAt(issued2, k) = IssuedAt(issued, k) + (IF k = KeyOf[l] THEN m ELSE 0)
  BY IssuedMoves DEF IssueMoves
<1>0. /\ \A x \in LineIds \ {l} : ls2[x] = ls[x]
      /\ \A k \in StockKeys \ {KeyOf[l]} : bs2[k] = bs[k]
      /\ bs2[KeyOf[l]].reserved = bs[KeyOf[l]].reserved + n
      /\ bs2[KeyOf[l]].onHand = bs[KeyOf[l]].onHand - m
  BY DEF LineMoves, BalanceMoves
<1>3. ASSUME NEW k \in StockKeys PROVE bs2[k].reserved = HeldOfKey(rs2, k)
  BY <1>0, <1>1 DEF StockOK, HeldMoves
<1>4. ASSUME NEW k \in StockKeys
      PROVE  bs2[k].onHand = InitialStock + adjusted[k] - IssuedAt(issued2, k)
  <2>1. /\ bs[k].onHand = InitialStock + adjusted[k] - IssuedAt(issued, k)
        /\ IssuedAt(issued, k) \in Int /\ InitialStock \in Int /\ adjusted[k] \in Int
    BY IssuedIsInt, BoundsAssumption DEF StockOK
  <2>2. IssuedAt(issued2, k) = IssuedAt(issued, k) + (IF k = KeyOf[l] THEN m ELSE 0)
    BY <1>2
  <2>3. CASE k = KeyOf[l]
    BY <1>0, <2>1, <2>2, <2>3
  <2>4. CASE k # KeyOf[l]
    BY <1>0, <2>1, <2>2, <2>4
  <2> QED
    BY <2>3, <2>4
<1>5. ASSUME NEW x \in LineIds
      PROVE  HeldOfLine(rs2, x) <= ls2[x].reserved /\ ls2[x].reserved <= ls2[x].quantity
  <2>1. HeldOfLine(rs, x) \in Nat /\ HeldOfLine(rs2, x) = HeldOfLine(rs, x) + (IF x = l THEN n ELSE 0)
    BY <1>1 DEF HeldMoves
  <2>2. HeldOfLine(rs, x) <= ls[x].reserved /\ ls[x].reserved <= ls[x].quantity
    BY DEF StockOK
  <2>3. CASE x = l
    BY <2>1, <2>3
  <2>4. CASE x # l
    BY <1>0, <2>1, <2>2, <2>4
  <2> QED
    BY <2>3, <2>4
<1> QED
  BY <1>3, <1>4, <1>5 DEF StockOK, NoneEmpty

\* What happens to the lines and reservations of other orders leaves the
\* status of this one true.
LEMMA StatusKept ==
  ASSUME NEW s, NEW o, NEW ls, NEW ls2, NEW rs, NEW rs2,
         StatusOK(s, ls, rs, o),
         \A l \in LinesOf(o) : ls2[l] = ls[l] /\ HeldOfLine(rs2, l) = HeldOfLine(rs, l),
         HoldsNothing(rs, o) => HoldsNothing(rs2, o)
  PROVE  StatusOK(s, ls2, rs2, o)
<1>1. FullyDelivered(ls, o) => FullyDelivered(ls2, o)
  BY DEF FullyDelivered
<1>2. HoldsReserved(ls, rs, o) => HoldsReserved(ls2, rs2, o)
  BY DEF HoldsReserved
<1> QED
  BY <1>1, <1>2 DEF StatusOK

\* The other orders, when only line l and reservations of it change.
LEMMA OthersKept ==
  ASSUME NEW ls, NEW ls2, NEW rs \in [ReservationIds -> ReservationRow], NEW rs2,
         NEW l \in LineIds, NEW n, HeldMoves(rs, rs2, l, n),
         LineMoves(ls, ls2, l), ReservedFor(rs, rs2, l),
         NEW s, NEW o, o # OrderOf[l], StatusOK(s, ls, rs, o)
  PROVE  StatusOK(s, ls2, rs2, o)
<1>1. \A x \in LinesOf(o) : x \in LineIds \ {l}
  BY DEF LinesOf
<1>2. \A x : HeldOfLine(rs, x) \in Nat
  BY HeldIsNat
<1>3. \A x \in LinesOf(o) : ls2[x] = ls[x] /\ HeldOfLine(rs2, x) = HeldOfLine(rs, x)
  BY <1>1, <1>2 DEF HeldMoves, LineMoves
<1>4. HoldsNothing(rs, o) => HoldsNothing(rs2, o)
  BY DEF HoldsNothing, ReservedFor
<1> QED
  BY <1>3, <1>4, StatusKept

\* An order whose undelivered lines hold what they show still does when line l holds,
\* and shows, n more, or has been delivered.
LEMMA ReservedKept ==
  ASSUME NEW ls, NEW ls2, NEW rs \in [ReservationIds -> ReservationRow], NEW rs2,
         NEW l \in LineIds, NEW n \in Int, HeldMoves(rs, rs2, l, n),
         LineMoves(ls, ls2, l),
         ls2[l].delivered = 0 =>
           ls[l].delivered = 0 /\ ls2[l].reserved = ls[l].reserved + n,
         NEW o, HoldsReserved(ls, rs, o)
  PROVE  HoldsReserved(ls2, rs2, o)
<1>1. \A x : HeldOfLine(rs, x) \in Nat
  BY HeldIsNat
<1>2. ASSUME NEW x \in LinesOf(o), ls2[x].delivered = 0
      PROVE  HeldOfLine(rs2, x) = ls2[x].reserved
  <2>1. x \in LineIds
    BY DEF LinesOf
  <2>2. CASE x = l
    BY <1>1, <1>2, <2>1, <2>2 DEF HeldMoves, HoldsReserved, LineMoves
  <2>3. CASE x # l
    BY <1>1, <1>2, <2>1, <2>3 DEF HeldMoves, HoldsReserved, LineMoves
  <2> QED
    BY <2>2, <2>3
<1> QED
  BY <1>2 DEF HoldsReserved

\* An active reservation of an order shows that its status is no final one.
LEMMA HoldingOrder ==
  ASSUME NEW s, NEW ls, NEW rs, NEW o, StatusOK(s, ls, rs, o),
         NEW i \in ReservationIds, rs[i].status = "ACTIVE", OrderOf[rs[i].line] = o
  PROVE  HoldsReserved(ls, rs, o) /\ s \notin {"DRAFT", "CANCELLED"}
BY DEF StatusOK, HoldsNothing

\* The tables a transaction sees after it has written a row.
LEMMA OverlayPut ==
  ASSUME NEW own, NEW table, NEW id \in DOMAIN table, NEW row
  PROVE  Overlay(Put(own, id, row), table) = [Overlay(own, table) EXCEPT ![id] = row]
BY DEF Overlay, Put

\* A transaction that has written nothing sees the committed tables.
LEMMA SeesCommitted ==
  ASSUME IInv, NEW w \in Workers, pending[w] = NoWrites
  PROVE  /\ LinesSeen(w) = lines /\ ReservationsSeen(w) = reservations
         /\ BalancesSeen(w) = balances
         /\ \A l \in LineIds : IssuedSeen(w)[l] = movements.issued[l]
         /\ IssuedSeen(w) = movements.issued
<1>1. /\ lines \in [LineIds -> LineRow] /\ reservations \in [ReservationIds -> ReservationRow]
      /\ balances \in [StockKeys -> BalanceRow]
      /\ movements.issued \in [LineIds -> Nat]
  BY DEF IInv, TypeOK, Movements
<1>2. LinesSeen(w) = lines
  BY <1>1 DEF LinesSeen, NoWrites, NoRows, Overlay
<1>3. ReservationsSeen(w) = reservations
  BY <1>1 DEF ReservationsSeen, NoWrites, NoRows, Overlay
<1>4. BalancesSeen(w) = balances
  BY <1>1 DEF BalancesSeen, NoWrites, NoRows, Overlay
<1>5. \A l \in LineIds : IssuedSeen(w)[l] = movements.issued[l]
  BY <1>1 DEF IssuedSeen, NoWrites
<1>6. IssuedSeen(w) = [l \in LineIds |-> IssuedSeen(w)[l]]
  BY DEF IssuedSeen
<1>7. IssuedSeen(w) = movements.issued
  BY <1>1, <1>5, <1>6
<1> QED
  BY <1>2, <1>3, <1>4, <1>5, <1>7

-----------------------------------------------------------------------------
(* Requests that only read *)

\* A step that leaves the committed tables as they are.
LEMMA StepKeeps ==
  ASSUME Alone, IInv, SequentialInv, NEW w \in Workers, NEW r, NEW p,
         Goto(w, r), Write(w, p) \/ (UNCHANGED pending /\ p = pending[w]), UNCHANGED db,
         BeliefOK(r, orders, reservations, balances, deliveries),
         IssuesNone(r, p),
         r.pc \in WritingPcs =>
           Consistent(r, orders, Overlay(p.lines, lines), Overlay(p.reservations, reservations),
                      Overlay(p.balances, balances),
                      [l \in LineIds |-> movements.issued[l] + p.issued[l]],
                      movements.adjusted, deliveries)
  PROVE  SequentialInv'
<1>1. \A v \in Workers : requests'[v] = r /\ pending'[v] = p
  BY DEF Goto, Write, IInv, Alone
<1>2. /\ orders' = orders /\ lines' = lines /\ reservations' = reservations
      /\ balances' = balances /\ deliveries' = deliveries /\ movements' = movements
  BY DEF db
<1>3. \A v \in Workers : BeliefOK(requests'[v], orders', reservations', balances', deliveries')
  BY <1>1, <1>2
<1>4. \A v \in Workers : IssuesNone(requests'[v], pending'[v])
  BY <1>1
<1>5. \A v \in Workers : requests'[v].pc \in WritingPcs => TransactionOK(v)'
  BY <1>1, <1>2 DEF TransactionOK, LinesSeen, ReservationsSeen, BalancesSeen, IssuedSeen
<1>6. /\ StockOK(lines', reservations', balances', movements'.issued, movements'.adjusted)
      /\ \A o \in OrderIds : StatusOK(orders'[o], lines', reservations', o)
      /\ \A l \in LineIds : movements'.issued[l] = DeliveredSum(deliveries', l)
      /\ PostedOnce'
  BY <1>2 DEF SequentialInv, PostedOnce
<1> QED
  BY <1>3, <1>4, <1>5, <1>6 DEF SequentialInv

\* A request that has written nothing: it sees the committed tables.
LEMMA ReadKeeps ==
  ASSUME Alone, IInv, SequentialInv, NEW w \in Workers, NEW r, pending[w] = NoWrites,
         Goto(w, r), UNCHANGED <<db, pending>>,
         BeliefOK(r, orders, reservations, balances, deliveries),
         r.pc \in WritingPcs => ProgressOK(r, orders, lines, reservations, balances, deliveries)
  PROVE  SequentialInv'
<1>1. /\ LinesSeen(w) = lines /\ ReservationsSeen(w) = reservations
      /\ BalancesSeen(w) = balances /\ IssuedSeen(w) = movements.issued
  BY SeesCommitted
<1>2. /\ StockOK(lines, reservations, balances, movements.issued, movements.adjusted)
      /\ \A o \in OrderIds : StatusOK(orders[o], lines, reservations, o)
  BY DEF SequentialInv
<1>3. r.pc \in WritingPcs =>
        Consistent(r, orders, lines, reservations, balances, movements.issued,
                   movements.adjusted, deliveries)
  BY <1>2 DEF Consistent
<1>4. IssuesNone(r, pending[w])
  BY DEF IssuesNone, NoWrites
<1> QED
  BY <1>1, <1>3, <1>4, StepKeeps DEF LinesSeen, ReservationsSeen, BalancesSeen, IssuedSeen

LEMMA BeginSequential ==
  ASSUME Alone, IInv, SequentialInv, NEW w \in Workers, NEW r, Begin(w, r),
         BeliefOK(r, orders, reservations, balances, deliveries),
         r.pc \in WritingPcs => ProgressOK(r, orders, lines, reservations, balances, deliveries)
  PROVE  SequentialInv'
<1>1. pending[w] = NoWrites
  BY DEF Begin, Idle, WritingPcs, IInv, WorkerOK
<1> QED
  BY <1>1, ReadKeeps DEF Begin

\* allocate() starts with what the order shows and nothing taken.
LEMMA AllocateStarts ==
  ASSUME IInv, SequentialInv, NEW o \in OrderIds, orders[o] \in Allocatable, NEW r,
         r = [pc |-> "allocate", order |-> o, was |-> orders[o],
              seen |-> [l \in LinesOf(o) |-> lines[l]],
              todo |-> LinesOf(o), took |-> [l \in LinesOf(o) |-> 0]]
  PROVE  /\ BeliefOK(r, orders, reservations, balances, deliveries)
         /\ ProgressOK(r, orders, lines, reservations, balances, deliveries)
<1>1. HoldsReserved(lines, reservations, o)
  BY DEF SequentialInv, StatusOK, Past, Allocatable
<1>2. \A l \in LinesOf(o) : lines[l].reserved = lines[l].reserved + 0
  BY DEF LinesOf, IInv, TypeOK, LineRow
<1>3. BeliefOK(r, orders, reservations, balances, deliveries)
  BY DEF BeliefOK
<1>4. ProgressOK(r, orders, lines, reservations, balances, deliveries)
  BY <1>1, <1>2 DEF ProgressOK
<1> QED
  BY <1>3, <1>4

LEMMA OrderRequestSequential ==
  ASSUME Alone, IInv, SequentialInv, NEW w \in Workers, NEW o \in OrderIds, OrderRequest(w, o)
  PROVE  SequentialInv'
<1> USE BeginSequential
<1>1. CASE BeginUpdate(w, o)
  BY <1>1 DEF BeginUpdate, BeliefOK, WritingPcs
<1>2. ASSUME NEW from, NEW to, BeginStatus(w, o, from, to),
             \/ from \subseteq {"DRAFT", "SUBMITTED"} /\ to \in {"SUBMITTED", "APPROVED", "REJECTED"}
             \/ from = {"FULFILLED"} /\ to = "CLOSED"
      PROVE  SequentialInv'
  BY <1>2 DEF BeginStatus, BeliefOK, WritingPcs
<1>3. CASE Submit(w, o) \/ Approve(w, o) \/ Reject(w, o) \/ Close(w, o)
  BY <1>2, <1>3 DEF Submit, Approve, Reject, Close
<1>4. CASE BeginAllocate(w, o)
  BY <1>4, AllocateStarts DEF BeginAllocate
<1>5. CASE BeginConfirm(w, o)
  BY <1>5 DEF BeginConfirm, BeliefOK, WritingPcs
<1>6. CASE BeginReleaseAllocation(w, o) \/ BeginCancel(w, o)
  BY <1>6 DEF BeginReleaseAllocation, BeginCancel, BeliefOK, Releasable, WritingPcs
<1>7. CASE BeginCreateDelivery(w, o)
  BY <1>7 DEF BeginCreateDelivery, BeliefOK, WritingPcs
<1> QED
  BY <1>1, <1>3, <1>4, <1>5, <1>6, <1>7 DEF OrderRequest

LEMMA DeliveryRequestSequential ==
  ASSUME Alone, IInv, SequentialInv, NEW w \in Workers, NEW d \in DeliveryIds, DeliveryRequest(w, d)
  PROVE  SequentialInv'
<1>1. ASSUME NEW from, NEW to, "DELIVERED" \notin from, BeginDeliveryStatus(w, d, from, to)
      PROVE  SequentialInv'
  BY <1>1, BeginSequential DEF BeginDeliveryStatus, BeliefOK, WritingPcs
<1>2. CASE Ready(w, d) \/ Pick(w, d) \/ Dispatch(w, d) \/ CancelDelivery(w, d)
  BY <1>1, <1>2 DEF Ready, Pick, Dispatch, CancelDelivery
<1>3. CASE BeginDeliver(w, d)
  <2> DEFINE r == [pc |-> "deliver", delivery |-> d, todo |-> DeliveryLines(d)]
  <2>1. deliveries[d].order \in OrderIds
    BY DEF IInv, TypeOK, DeliveryRow
  <2>2. StatusOK(orders[deliveries[d].order], lines, reservations, deliveries[d].order)
    BY <2>1 DEF SequentialInv
  <2>3. ProgressOK(r, orders, lines, reservations, balances, deliveries)
    BY <2>2 DEF ProgressOK, StatusOK
  <2>4. BeliefOK(r, orders, reservations, balances, deliveries)
    BY <1>3 DEF BeliefOK, BeginDeliver
  <2> QED
    BY <1>3, <2>3, <2>4, BeginSequential DEF BeginDeliver
<1> QED
  BY <1>2, <1>3 DEF DeliveryRequest

LEMMA StockRequestSequential ==
  ASSUME Alone, IInv, SequentialInv, NEW w \in Workers,
         \/ \E i \in ReservationIds : BeginRelease(w, i)
         \/ \E key \in StockKeys, n \in Adjustments : BeginAdjust(w, key, n)
  PROVE  SequentialInv'
<1> USE BeginSequential
<1>1. ASSUME NEW i \in ReservationIds, BeginRelease(w, i)
      PROVE  SequentialInv'
  BY <1>1 DEF BeginRelease, BeliefOK, WritingPcs
<1>2. ASSUME NEW key \in StockKeys, NEW n \in Adjustments, BeginAdjust(w, key, n)
      PROVE  SequentialInv'
  BY <1>2 DEF BeginAdjust, BeliefOK, WritingPcs
<1> QED
  BY <1>1, <1>2

LEMMA ConfirmAllocateSequential ==
  ASSUME Alone, IInv, SequentialInv, NEW w \in Workers, ConfirmAllocate(w)
  PROVE  SequentialInv'
<1>1. pending[w] = NoWrites
  BY DEF ConfirmAllocate, WritingPcs, IInv, WorkerOK
<1>2. requests[w].order \in OrderIds
  BY WriterOK DEF ConfirmAllocate, RequestOK, OrderPcs, Known
<1> QED
  BY <1>1, <1>2, AllocateStarts, ReadKeeps DEF ConfirmAllocate

LEMMA ListReservationsSequential ==
  ASSUME Alone, IInv, SequentialInv, NEW w \in Workers, ListReservations(w)
  PROVE  SequentialInv'
<1> DEFINE r == requests[w]
           found == {i \in ReservationIds : /\ reservations[i].status = "ACTIVE"
                                            /\ OrderOf[reservations[i].line] = r.order}
           giving == [pc |-> "giveBack", order |-> r.order, to |-> r.to,
                      todo |-> [i \in found |-> reservations[i]]]
           next == IF found # {} THEN giving
                   ELSE IF r.to = "CANCELLED" THEN CommitOf(r.order, r.to, {})
                   ELSE Idle
<1>1. r.pc = "releaseAll" /\ Goto(w, next) /\ UNCHANGED <<db, pending>>
  BY DEF ListReservations
<1>2. pending[w] = NoWrites
  BY <1>1 DEF WritingPcs, IInv, WorkerOK
<1>3. r.order \in OrderIds
  BY <1>1, WriterOK DEF RequestOK, OrderPcs, Known
<1>4. Releasable(r.to, orders[r.order])
  BY <1>1 DEF SequentialInv, BeliefOK
<1>5. StatusOK(orders[r.order], lines, reservations, r.order)
  BY <1>3 DEF SequentialInv
<1>6. CASE found # {}
  <2>1. r.to = "APPROVED" => HoldsReserved(lines, reservations, r.order)
    BY <1>4, <1>5 DEF Releasable, StatusOK, Past
  <2>2. ProgressOK(giving, orders, lines, reservations, balances, deliveries)
    BY <2>1 DEF ProgressOK
  <2>3. BeliefOK(giving, orders, reservations, balances, deliveries)
    BY <1>4 DEF BeliefOK
  <2> HIDE DEF giving
  <2> QED
    BY <1>1, <1>2, <1>6, <2>2, <2>3, ReadKeeps
<1>7. CASE found = {} /\ r.to = "CANCELLED"
  <2> DEFINE next2 == CommitOf(r.order, r.to, {})
  <2>1. HoldsNothing(reservations, r.order)
    BY <1>7 DEF HoldsNothing
  <2>2. StatusOK("CANCELLED", lines, reservations, r.order)
    BY <2>1 DEF StatusOK, Past
  <2>3. ProgressOK(next2, orders, lines, reservations, balances, deliveries)
    BY <1>7, <2>2 DEF ProgressOK, CommitOf
  <2>4. BeliefOK(next2, orders, reservations, balances, deliveries)
    BY <1>4, <1>7 DEF BeliefOK, Releasable, CommitOf
  <2> HIDE DEF next2
  <2> QED
    BY <1>1, <1>2, <1>7, <2>3, <2>4, ReadKeeps DEF next2
<1>8. CASE found = {} /\ r.to # "CANCELLED"
  BY <1>1, <1>2, <1>8, ReadKeeps DEF Idle, BeliefOK, WritingPcs
<1> QED
  BY <1>6, <1>7, <1>8

\* A request that is given up.
LEMMA AbortSequential ==
  ASSUME Alone, IInv, SequentialInv, NEW w \in Workers, Abort(w)
  PROVE  SequentialInv'
BY StepKeeps DEF Abort, Idle, BeliefOK, IssuesNone, WritingPcs

-----------------------------------------------------------------------------
(* Requests that write *)

\* A transaction with the writes p sees these tables.
Sees(p, ls, rs, bs, issued) ==
  /\ p \in [lines : {p.lines}, reservations : {p.reservations},
             balances : {p.balances}, issued : {p.issued}]
  /\ Overlay(p.lines, lines) = ls
  /\ Overlay(p.reservations, reservations) = rs
  /\ Overlay(p.balances, balances) = bs
  /\ [l \in LineIds |-> movements.issued[l] + p.issued[l]] = issued
  /\ p.issued \in [LineIds -> Nat]

LEMMA SeesOwn ==
  ASSUME IInv, NEW w \in Workers
  PROVE  /\ Sees(pending[w], LinesSeen(w), ReservationsSeen(w), BalancesSeen(w), IssuedSeen(w))
         /\ IssuedSeen(w) \in [LineIds -> Nat]
<1>1. WritesTyped(pending[w])
  BY WriterOK DEF WritesOK
<1>2. movements.issued \in [LineIds -> Nat]
  BY DEF IInv, TypeOK, Movements
<1> QED
  BY <1>1, <1>2 DEF Sees, WritesTyped, LinesSeen, ReservationsSeen, BalancesSeen, IssuedSeen

LEMMA SeesWritten ==
  ASSUME IInv, NEW p, NEW ls, NEW rs, NEW bs, NEW issued, Sees(p, ls, rs, bs, issued)
  PROVE  /\ \A l \in LineIds : \A row :
              /\ Sees(WriteLine(p, l, row), [ls EXCEPT ![l] = row], rs, bs, issued)
              /\ WriteLine(p, l, row).issued = p.issued
         /\ \A i \in ReservationIds : \A row :
              /\ Sees(WriteReservation(p, i, row), ls, [rs EXCEPT ![i] = row], bs, issued)
              /\ WriteReservation(p, i, row).issued = p.issued
         /\ \A k \in StockKeys : \A row :
              /\ Sees(WriteBalance(p, k, row), ls, rs, [bs EXCEPT ![k] = row], issued)
              /\ WriteBalance(p, k, row).issued = p.issued
<1>1. /\ lines \in [LineIds -> LineRow] /\ reservations \in [ReservationIds -> ReservationRow]
      /\ balances \in [StockKeys -> BalanceRow]
  BY DEF IInv, TypeOK
<1>2. ASSUME NEW l \in LineIds, NEW row
      PROVE  /\ Sees(WriteLine(p, l, row), [ls EXCEPT ![l] = row], rs, bs, issued)
             /\ WriteLine(p, l, row).issued = p.issued
  <2>1. WriteLine(p, l, row) \in
          [lines : {Put(p.lines, l, row)}, reservations : {p.reservations},
           balances : {p.balances}, issued : {p.issued}]
    BY DEF Sees, WriteLine
  <2>2. Overlay(Put(p.lines, l, row), lines) = [ls EXCEPT ![l] = row]
    <3>1. lines \in [LineIds -> LineRow]
      BY <1>1
    <3>2. Overlay(Put(p.lines, l, row), lines) = [Overlay(p.lines, lines) EXCEPT ![l] = row]
      BY <3>1, OverlayPut
    <3> QED
      BY <3>2 DEF Sees
  <2> HIDE DEF LineRow
  <2> QED
    BY <2>1, <2>2 DEF Sees
<1>3. ASSUME NEW i \in ReservationIds, NEW row
      PROVE  /\ Sees(WriteReservation(p, i, row), ls, [rs EXCEPT ![i] = row], bs, issued)
             /\ WriteReservation(p, i, row).issued = p.issued
  <2>1. WriteReservation(p, i, row) \in
          [lines : {p.lines}, reservations : {Put(p.reservations, i, row)},
           balances : {p.balances}, issued : {p.issued}]
    BY DEF Sees, WriteReservation
  <2>2. Overlay(Put(p.reservations, i, row), reservations) = [rs EXCEPT ![i] = row]
    <3>1. reservations \in [ReservationIds -> ReservationRow]
      BY <1>1
    <3>2. Overlay(Put(p.reservations, i, row), reservations) = [Overlay(p.reservations, reservations) EXCEPT ![i] = row]
      BY <3>1, OverlayPut
    <3> QED
      BY <3>2 DEF Sees
  <2> QED
    BY <2>1, <2>2 DEF Sees
<1>4. ASSUME NEW k \in StockKeys, NEW row
      PROVE  /\ Sees(WriteBalance(p, k, row), ls, rs, [bs EXCEPT ![k] = row], issued)
             /\ WriteBalance(p, k, row).issued = p.issued
  <2>1. WriteBalance(p, k, row) \in
          [lines : {p.lines}, reservations : {p.reservations},
           balances : {Put(p.balances, k, row)}, issued : {p.issued}]
    BY DEF Sees, WriteBalance
  <2>2. Overlay(Put(p.balances, k, row), balances) = [bs EXCEPT ![k] = row]
    <3>1. balances \in [StockKeys -> BalanceRow]
      BY <1>1
    <3>2. Overlay(Put(p.balances, k, row), balances) = [Overlay(p.balances, balances) EXCEPT ![k] = row]
      BY <3>1, OverlayPut
    <3> QED
      BY <3>2 DEF Sees
  <2> QED
    BY <2>1, <2>2 DEF Sees
<1> QED
  BY <1>2, <1>3, <1>4

LEMMA SeesIssued ==
  ASSUME IInv, NEW p, NEW ls, NEW rs, NEW bs, NEW issued, Sees(p, ls, rs, bs, issued),
         NEW l \in LineIds, NEW n \in Nat
  PROVE  Sees(WriteIssue(p, l, n), ls, rs, bs, [issued EXCEPT ![l] = @ + n])
<1>1. movements.issued \in [LineIds -> Nat] /\ p.issued \in [LineIds -> Nat]
  BY DEF IInv, TypeOK, Movements, Sees
<1>2. WriteIssue(p, l, n) \in
        [lines : {p.lines}, reservations : {p.reservations},
         balances : {p.balances}, issued : {[p.issued EXCEPT ![l] = @ + n]}]
  BY DEF Sees, WriteIssue
<1>3. issued = [x \in LineIds |-> movements.issued[x] + p.issued[x]]
  BY DEF Sees
<1>4. [x \in LineIds |-> movements.issued[x] + [p.issued EXCEPT ![l] = @ + n][x]]
        = [issued EXCEPT ![l] = @ + n]
  <2>1. \A x \in LineIds : movements.issued[x] \in Nat /\ p.issued[x] \in Nat
    BY <1>1
  <2>2. \A x \in LineIds : movements.issued[x] + [p.issued EXCEPT ![l] = @ + n][x]
                             = [issued EXCEPT ![l] = @ + n][x]
    BY <1>1, <1>3, <2>1
  <2> QED
    BY <1>3, <2>2
<1>5. [p.issued EXCEPT ![l] = @ + n] \in [LineIds -> Nat]
  BY <1>1
<1> QED
  BY <1>2, <1>4, <1>5 DEF Sees

\* A statement inside a transaction.
LEMMA WriteKeeps ==
  ASSUME Alone, IInv, SequentialInv, NEW w \in Workers, NEW r, NEW p,
         NEW ls, NEW rs, NEW bs, NEW issued,
         Goto(w, r), Write(w, p), UNCHANGED db, Sees(p, ls, rs, bs, issued),
         BeliefOK(r, orders, reservations, balances, deliveries), IssuesNone(r, p),
         StockOK(ls, rs, bs, issued, movements.adjusted),
         \A o \in OrderIds \ {OrderOfTransaction(r, deliveries)} : StatusOK(orders[o], ls, rs, o),
         ProgressOK(r, orders, ls, rs, bs, deliveries)
  PROVE  SequentialInv'
<1>1. Consistent(r, orders, ls, rs, bs, issued, movements.adjusted, deliveries)
  BY DEF Consistent
<1> QED
  BY <1>1, StepKeeps DEF Sees

\* What is known of a transaction under way.
LEMMA Underway ==
  ASSUME IInv, SequentialInv, NEW w \in Workers, requests[w].pc \in WritingPcs
  PROVE  /\ StockOK(LinesSeen(w), ReservationsSeen(w), BalancesSeen(w), IssuedSeen(w),
                    movements.adjusted)
         /\ \A o \in OrderIds \ {OrderOfTransaction(requests[w], deliveries)} :
              StatusOK(orders[o], LinesSeen(w), ReservationsSeen(w), o)
         /\ ProgressOK(requests[w], orders, LinesSeen(w), ReservationsSeen(w), BalancesSeen(w),
                       deliveries)
         /\ BeliefOK(requests[w], orders, reservations, balances, deliveries)
         /\ IssuesNone(requests[w], pending[w])
         /\ LinesSeen(w) \in [LineIds -> LineRow]
         /\ ReservationsSeen(w) \in [ReservationIds -> ReservationRow]
         /\ BalancesSeen(w) \in [StockKeys -> BalanceRow]
         /\ IssuedSeen(w) \in [LineIds -> Nat]
         /\ movements.adjusted \in [StockKeys -> Int]
<1>1. TransactionOK(w)
  BY DEF SequentialInv
<1>2. movements.adjusted \in [StockKeys -> Int]
  BY DEF IInv, TypeOK, Movements
<1> QED
  BY <1>1, <1>2, SeenTyped, SeesOwn DEF TransactionOK, Consistent, SequentialInv

\* The lines show what was read of them and what has been taken for them since.
Taking(r, todo, took, ls) ==
  \A l \in LinesOf(r.order) :
    /\ ls[l].quantity = r.seen[l].quantity /\ ls[l].delivered = r.seen[l].delivered
    /\ ls[l].reserved = r.seen[l].reserved + took[l]
    /\ l \in todo => took[l] = 0
    /\ ls[l].reserved <= ls[l].quantity

\* allocate() goes on to its next line, or to the status its lines justify.
LEMMA AllocateNextProgress ==
  ASSUME NEW r, NEW todo, NEW took, NEW os, NEW ls \in [LineIds -> LineRow], NEW rs, NEW bs, NEW ds,
         r.was \in Allocatable, os[r.order] = r.was, HoldsReserved(ls, rs, r.order),
         r.seen \in [LinesOf(r.order) -> LineRow], took \in [LinesOf(r.order) -> Nat],
         Taking(r, todo, took, ls)
  PROVE  /\ ProgressOK(AllocateNext(r, todo, took), os, ls, rs, bs, ds)
         /\ BeliefOK(AllocateNext(r, todo, took), os, rs, bs, ds)
         /\ OrderOfTransaction(AllocateNext(r, todo, took), ds) = r.order
<1> DEFINE o == r.order
           was == r.was
           seen == r.seen
<1> HIDE DEF o, was, seen
<1>0. /\ was \in Allocatable /\ os[o] = was /\ HoldsReserved(ls, rs, o)
      /\ seen \in [LinesOf(o) -> LineRow] /\ took \in [LinesOf(o) -> Nat]
      /\ \A l \in LinesOf(o) :
           /\ ls[l].quantity = seen[l].quantity /\ ls[l].delivered = seen[l].delivered
           /\ ls[l].reserved = seen[l].reserved + took[l]
           /\ l \in todo => took[l] = 0
           /\ ls[l].reserved <= ls[l].quantity
  BY DEF o, was, seen, Taking
<1>1. CASE todo # {}
  <2> DEFINE next == [pc |-> "allocate", order |-> o, was |-> was, seen |-> seen,
                      todo |-> todo, took |-> took]
  <2>1. AllocateNext(r, todo, took) = next
    BY <1>1 DEF AllocateNext, o, was, seen
  <2>2. ProgressOK(next, os, ls, rs, bs, ds)
    BY <1>0 DEF ProgressOK
  <2>3. BeliefOK(next, os, rs, bs, ds)
    BY <1>0 DEF BeliefOK
  <2>4. OrderOfTransaction(next, ds) = o
    BY DEF OrderOfTransaction
  <2> QED
    BY <2>1, <2>2, <2>3, <2>4 DEF o
<1>2. CASE todo = {}
  <2> DEFINE s == AllocatedStatus(was, seen, took)
             next == CommitOf(o, s, {})
  <2>1. AllocateNext(r, todo, took) = next
    BY <1>2 DEF AllocateNext, o, was, seen
  <2>2. s \in {"ALLOCATED", "PARTIALLY_RESERVED", "APPROVED", "CONFIRMED"}
    BY DEF AllocatedStatus
  <2>3. s = "ALLOCATED" => FullyReserved(seen, took)
    BY DEF AllocatedStatus
  <2>4. ASSUME s = "ALLOCATED", NEW l \in LinesOf(o), ls[l].delivered = 0
        PROVE  ls[l].reserved = ls[l].quantity
    <3>1. l \in LineIds /\ DOMAIN seen = LinesOf(o)
      BY <1>0 DEF LinesOf
    <3>2. seen[l].reserved + took[l] + seen[l].delivered >= seen[l].quantity
      BY <1>0, <2>3, <2>4, <3>1 DEF FullyReserved
    <3>3. ls[l].reserved \in Nat /\ ls[l].quantity \in Nat
      BY <3>1 DEF LineRow
    <3>4. /\ ls[l].quantity = seen[l].quantity /\ seen[l].delivered = 0
          /\ ls[l].reserved = seen[l].reserved + took[l] /\ ls[l].reserved <= ls[l].quantity
      BY <1>0, <2>4
    <3> QED
      BY <3>2, <3>3, <3>4
  <2>5. StatusOK(s, ls, rs, o)
    BY <1>0, <2>2, <2>4 DEF StatusOK
  <2> HIDE DEF s
  <2>6. ProgressOK(next, os, ls, rs, bs, ds)
    BY <2>2, <2>5 DEF ProgressOK, CommitOf
  <2>7. BeliefOK(next, os, rs, bs, ds)
    BY <1>0 DEF BeliefOK, CommitOf, Allocatable
  <2>8. OrderOfTransaction(next, ds) = o
    BY DEF OrderOfTransaction, CommitOf
  <2> HIDE DEF next
  <2> QED
    BY <2>1, <2>6, <2>7, <2>8 DEF o, next
<1> QED
  BY <1>1, <1>2

\* The read of a balance: how much of the line will be taken.
LEMMA ReadAvailableSequential ==
  ASSUME Alone, IInv, SequentialInv, NEW w \in Workers, ReadAvailable(w)
  PROVE  SequentialInv'
<1> DEFINE r == requests[w]
           ls == LinesSeen(w)
           rs == ReservationsSeen(w)
           bs == BalancesSeen(w)
           o == r.order
           n(l) == AtMost(Needed(r.seen[l]), Available(BalancesSeen(w)[KeyOf[l]]))
           reserve(l) == [pc |-> "reserve", order |-> r.order, was |-> r.was,
                          seen |-> r.seen, todo |-> r.todo \ {l},
                          took |-> [r.took EXCEPT ![l] = n(l)], line |-> l]
<1>1. r.pc = "allocate" /\ UNCHANGED <<db, pending>>
  BY DEF ReadAvailable
<1>2. PICK l \in r.todo :
        Goto(w, IF n(l) = 0 THEN AllocateNext(r, r.todo \ {l}, r.took) ELSE reserve(l))
  BY DEF ReadAvailable
<1>3. r.pc \in WritingPcs
  BY <1>1 DEF WritingPcs
<1>4. /\ StockOK(ls, rs, bs, IssuedSeen(w), movements.adjusted)
      /\ \A x \in OrderIds \ {o} : StatusOK(orders[x], ls, rs, x)
      /\ ProgressOK(r, orders, ls, rs, bs, deliveries)
      /\ BeliefOK(r, orders, reservations, balances, deliveries)
      /\ IssuesNone(r, pending[w])
      /\ ls \in [LineIds -> LineRow]
  BY <1>1, <1>3, Underway DEF OrderOfTransaction
<1>5. /\ o \in OrderIds
      /\ r.seen \in [LinesOf(o) -> LineRow]
      /\ r.took \in [LinesOf(o) -> Nat]
      /\ l \in LinesOf(o) /\ l \in LineIds /\ KeyOf[l] \in StockKeys
  BY <1>1, WriterOK, LinesAssumption DEF RequestOK, OrderPcs, Known, LinesOf
<1>6. orders[o] = r.was /\ r.was \in Allocatable
  BY <1>1, <1>4 DEF BeliefOK
<1>7. /\ HoldsReserved(ls, rs, o)
      /\ \A x \in LinesOf(o) :
           /\ ls[x].quantity = r.seen[x].quantity /\ ls[x].delivered = r.seen[x].delivered
           /\ ls[x].reserved = r.seen[x].reserved + r.took[x]
           /\ x \in r.todo => r.took[x] = 0
  BY <1>1, <1>4 DEF ProgressOK
<1>8. \A x \in LinesOf(o) : ls[x].reserved <= ls[x].quantity
  BY <1>4 DEF StockOK, LinesOf
<1>9. \A x \in LineIds : pending[w].issued[x] = 0
  BY <1>1, <1>4 DEF IssuesNone
<1>10. n(l) \in Nat
  <2>1. r.seen[l] \in LineRow /\ BalancesSeen(w)[KeyOf[l]] \in BalanceRow
    BY <1>5, SeenTyped
  <2> QED
    BY <2>1, AllocatableIsNat
<1>11. CASE n(l) = 0
  <2> DEFINE next == AllocateNext(r, r.todo \ {l}, r.took)
  <2>1. /\ ProgressOK(next, orders, ls, rs, bs, deliveries)
        /\ BeliefOK(next, orders, rs, bs, deliveries)
        /\ OrderOfTransaction(next, deliveries) = o
    <3>1. Taking(r, r.todo \ {l}, r.took, ls)
      BY <1>7, <1>8 DEF Taking
    <3>2. /\ r.was \in Allocatable /\ orders[r.order] = r.was /\ HoldsReserved(ls, rs, r.order)
          /\ r.seen \in [LinesOf(r.order) -> LineRow] /\ r.took \in [LinesOf(r.order) -> Nat]
      BY <1>5, <1>6, <1>7
    <3>3. ls \in [LineIds -> LineRow]
      BY <1>4
    <3> DEFINE todo == r.todo \ {l}
               took == r.took
    <3>4. Taking(r, todo, took, ls) /\ took \in [LinesOf(r.order) -> Nat]
      BY <3>1, <3>2
    <3> HIDE DEF ls, rs, bs, r, todo, took, next
    <3>5. /\ ProgressOK(AllocateNext(r, todo, took), orders, ls, rs, bs, deliveries)
          /\ BeliefOK(AllocateNext(r, todo, took), orders, rs, bs, deliveries)
          /\ OrderOfTransaction(AllocateNext(r, todo, took), deliveries) = r.order
      BY <3>2, <3>3, <3>4, AllocateNextProgress
    <3> QED
      BY <3>5 DEF next, todo, took, o
  <2>2. BeliefOK(next, orders, reservations, balances, deliveries)
    <3>1. next.pc \in {"allocate", "commit"}
      BY DEF AllocateNext, CommitOf
    <3> QED
      BY <2>1, <3>1 DEF BeliefOK
  <2> HIDE DEF next
  <2>3. Consistent(next, orders, ls, rs, bs, IssuedSeen(w), movements.adjusted, deliveries)
    BY <1>4, <2>1 DEF Consistent
  <2>4. Goto(w, next)
    BY <1>2, <1>11 DEF next
  <2>5. IssuesNone(next, pending[w])
    BY <1>9 DEF IssuesNone
  <2> QED
    BY <1>1, <2>2, <2>3, <2>4, <2>5, StepKeeps
       DEF LinesSeen, ReservationsSeen, BalancesSeen, IssuedSeen
<1>12. CASE n(l) # 0
  <2> DEFINE next == reserve(l)
  <2>1. Goto(w, next)
    BY <1>2, <1>12
  <2>2. /\ next.pc = "reserve" /\ next.order = o /\ next.was = r.was /\ next.seen = r.seen
        /\ next.todo = r.todo \ {l} /\ next.line = l
        /\ next.took[l] = n(l) /\ \A x \in LinesOf(o) \ {l} : next.took[x] = r.took[x]
    BY <1>5
  <2>3. n(l) > 0 /\ ls[l].reserved = r.seen[l].reserved
    <3>1. r.took[l] = 0 /\ ls[l].reserved = r.seen[l].reserved + r.took[l]
      BY <1>5, <1>7
    <3>2. r.seen[l].reserved \in Nat
      BY <1>5 DEF LineRow
    <3> QED
      BY <1>10, <1>12, <3>1, <3>2
  <2> HIDE DEF next, n
  <2>4. ProgressOK(next, orders, ls, rs, bs, deliveries)
    <3>1. ASSUME NEW x \in LinesOf(o)
          PROVE  /\ ls[x].quantity = next.seen[x].quantity /\ ls[x].delivered = next.seen[x].delivered
                 /\ ls[x].reserved = next.seen[x].reserved
                                      + (IF next.pc = "reserve" /\ x = next.line THEN 0 ELSE next.took[x])
                 /\ x \in next.todo => next.took[x] = 0
      <4>1. CASE x = l
        <5>1. r.seen[l].reserved \in Nat
          BY <1>5 DEF LineRow
        <5> QED
          BY <1>7, <2>2, <2>3, <4>1, <5>1
      <4>2. CASE x # l
        BY <1>7, <2>2, <4>2
      <4> QED
        BY <4>1, <4>2
    <3> HIDE DEF ls, rs, bs, o
    <3> QED
      BY <1>7, <2>2, <2>3, <3>1 DEF ProgressOK
  <2>5. BeliefOK(next, orders, reservations, balances, deliveries)
    BY <1>6, <2>2 DEF BeliefOK
  <2>6. OrderOfTransaction(next, deliveries) = o /\ IssuesNone(next, pending[w])
    BY <1>9, <2>2 DEF OrderOfTransaction, IssuesNone
  <2>7. Consistent(next, orders, ls, rs, bs, IssuedSeen(w), movements.adjusted, deliveries)
    BY <1>4, <2>4, <2>6 DEF Consistent
  <2> QED
    BY <1>1, <2>1, <2>5, <2>6, <2>7, StepKeeps
       DEF LinesSeen, ReservationsSeen, BalancesSeen, IssuedSeen
<1> QED
  BY <1>11, <1>12

\* What an action of the order's reservations does to the tables a transaction sees:
\* `n` more is held for line l, by reservation i alone.
LEMMA HoldingMoves ==
  ASSUME NEW ls \in [LineIds -> LineRow], NEW rs \in [ReservationIds -> ReservationRow],
         NEW bs \in [StockKeys -> BalanceRow], NEW issued \in [LineIds -> Nat],
         NEW adjusted \in [StockKeys -> Int], StockOK(ls, rs, bs, issued, adjusted),
         NEW i \in ReservationIds, NEW row \in ReservationRow,
         NEW l \in LineIds, row.line = l, rs[i].line = l \/ Weight(rs[i]) = 0,
         NEW n \in Int, n = Weight(row) - Weight(rs[i]), row.status = "ACTIVE" => row.quantity > 0,
         NEW ls2 \in [LineIds -> LineRow], NEW bs2 \in [StockKeys -> BalanceRow],
         NEW issued2 \in [LineIds -> Nat], NEW m \in Nat,
         LineMoves(ls, ls2, l), BalanceMoves(bs, bs2, l, n, m), IssueMoves(issued, issued2, l, m),
         HeldOfLine(rs, l) + n <= ls2[l].reserved, ls2[l].reserved <= ls2[l].quantity
  PROVE  LET rs2 == [rs EXCEPT ![i] = row] IN
         /\ HeldMoves(rs, rs2, l, n)
         /\ StockOK(ls2, rs2, bs2, issued2, adjusted)
         /\ \A s, o : o # OrderOf[l] /\ StatusOK(s, ls, rs, o) => StatusOK(s, ls2, rs2, o)
<1> DEFINE rs2 == [rs EXCEPT ![i] = row]
<1>1. /\ rs2 \in [ReservationIds -> ReservationRow] /\ rs2[i] = row
      /\ \A j \in ReservationIds \ {i} : rs2[j] = rs[j]
  OBVIOUS
<1> HIDE DEF rs2
<1>2. HeldMoves(rs, rs2, rs2[i].line, Weight(rs2[i]) - Weight(rs[i]))
  BY <1>1, ReservationMoves
<1>3. HeldMoves(rs, rs2, l, n)
  BY <1>1, <1>2
<1>4. NoneEmpty(rs2)
  BY <1>1 DEF StockOK, NoneEmpty
<1>5. StockOK(ls2, rs2, bs2, issued2, adjusted)
  BY <1>1, <1>3, <1>4, StockMoves
<1>6. ReservedFor(rs, rs2, l)
  BY <1>1 DEF ReservedFor
<1>7. ASSUME NEW s, NEW o, o # OrderOf[l], StatusOK(s, ls, rs, o)
      PROVE  StatusOK(s, ls2, rs2, o)
  BY <1>3, <1>6, <1>7, OthersKept
<1> QED
  BY <1>3, <1>5, <1>7 DEF rs2

\* A reservation is inserted; its balance and its line show it.
LEMMA ReserveSequential ==
  ASSUME Alone, IInv, SequentialInv, NEW w \in Workers, Reserve(w)
  PROVE  SequentialInv'
<1> DEFINE r == requests[w]
           ls == LinesSeen(w)
           rs == ReservationsSeen(w)
           bs == BalancesSeen(w)
           issued == IssuedSeen(w)
           l == r.line
           key == KeyOf[l]
           n == r.took[l]
           line == Hold(LinesSeen(w)[l], n)
           balance == Hold(BalancesSeen(w)[key], n)
           row == [status |-> "ACTIVE", line |-> l, quantity |-> n]
           p(i) == WriteLine(WriteBalance(WriteReservation(pending[w], i, row), key, balance), l, line)
           next == AllocateNext(r, r.todo, r.took)
           ls2 == [ls EXCEPT ![l] = line]
           bs2 == [bs EXCEPT ![key] = balance]
<1>1. /\ r.pc = "reserve" /\ CheckLine(line) /\ Goto(w, next) /\ UNCHANGED db
  BY DEF Reserve
<1>2. PICK i \in ReservationIds : Free(i) /\ Write(w, p(i))
  BY DEF Reserve
<1>3. r.pc \in WritingPcs
  BY <1>1 DEF WritingPcs
<1>4. /\ StockOK(ls, rs, bs, issued, movements.adjusted)
      /\ \A x \in OrderIds \ {r.order} : StatusOK(orders[x], ls, rs, x)
      /\ ProgressOK(r, orders, ls, rs, bs, deliveries)
      /\ BeliefOK(r, orders, reservations, balances, deliveries)
      /\ IssuesNone(r, pending[w])
      /\ ls \in [LineIds -> LineRow] /\ rs \in [ReservationIds -> ReservationRow]
      /\ bs \in [StockKeys -> BalanceRow] /\ issued \in [LineIds -> Nat]
      /\ movements.adjusted \in [StockKeys -> Int]
  BY <1>1, <1>3, Underway DEF OrderOfTransaction
<1>5. /\ r.order \in OrderIds
      /\ r.seen \in [LinesOf(r.order) -> LineRow]
      /\ r.took \in [LinesOf(r.order) -> Nat]
      /\ l \in LinesOf(r.order) /\ l \in LineIds /\ OrderOf[l] = r.order /\ key \in StockKeys
      /\ n \in Nat
  BY <1>1, WriterOK, LinesAssumption DEF RequestOK, OrderPcs, Known, LinesOf
<1>6. orders[r.order] = r.was /\ r.was \in Allocatable
  BY <1>1, <1>4 DEF BeliefOK
<1>7. /\ HoldsReserved(ls, rs, r.order) /\ n > 0 /\ l \notin r.todo
      /\ \A x \in LinesOf(r.order) :
           /\ ls[x].quantity = r.seen[x].quantity /\ ls[x].delivered = r.seen[x].delivered
           /\ ls[x].reserved = r.seen[x].reserved + (IF x = l THEN 0 ELSE r.took[x])
           /\ x \in r.todo => r.took[x] = 0
  BY <1>1, <1>4 DEF ProgressOK
<1>8. /\ ls2 \in [LineIds -> LineRow] /\ LineMoves(ls, ls2, l)
      /\ ls2[l].quantity = ls[l].quantity /\ ls2[l].delivered = ls[l].delivered
      /\ ls2[l].reserved = ls[l].reserved + n /\ ls2[l].reserved <= ls2[l].quantity
  <2>1. ls[l] \in LineRow
    BY <1>4, <1>5
  <2>2. line \in LineRow
    BY <1>1, <1>5, <2>1, HeldTyped
  <2>3. /\ line.quantity = ls[l].quantity /\ line.delivered = ls[l].delivered
        /\ line.reserved = ls[l].reserved + n /\ line.reserved <= line.quantity
    BY <1>1, <2>1 DEF Hold, LineRow, CheckLine
  <2> HIDE DEF line, ls
  <2>4. ls2[l] = line
    BY <1>4, <1>5
  <2>5. ls2 \in [LineIds -> LineRow] /\ LineMoves(ls, ls2, l)
    BY <1>4, <2>2 DEF LineMoves
  <2> QED
    BY <2>3, <2>4, <2>5
<1>9. bs2 \in [StockKeys -> BalanceRow] /\ BalanceMoves(bs, bs2, l, n, 0)
  <2>1. bs[key] \in BalanceRow
    BY <1>4, <1>5
  <2>2. balance \in BalanceRow
    BY <1>5, <2>1, HeldTyped
  <2>3. balance.reserved = bs[key].reserved + n /\ balance.onHand = bs[key].onHand - 0
    BY <2>1 DEF Hold, BalanceRow
  <2> HIDE DEF balance, bs
  <2>4. bs2[key] = balance /\ \A k \in StockKeys \ {key} : bs2[k] = bs[k]
    BY <1>4, <1>5
  <2>5. bs2 \in [StockKeys -> BalanceRow]
    BY <1>4, <2>2
  <2> QED
    BY <2>3, <2>4, <2>5 DEF BalanceMoves
<1>10. IssueMoves(issued, issued, l, 0)
  <2> HIDE DEF issued
  <2> QED
    BY <1>4, <1>5 DEF IssueMoves
<1>11. Sees(p(i), ls2, [rs EXCEPT ![i] = row], bs2, issued) /\ p(i).issued = pending[w].issued
  <2> DEFINE q == WriteReservation(pending[w], i, row)
             q2 == WriteBalance(q, key, balance)
  <2> HIDE DEF ls, rs, bs, issued, row, balance, line, key, l, q, q2
  <2>1. Sees(pending[w], ls, rs, bs, issued)
    BY SeesOwn DEF ls, rs, bs, issued
  <2>2. Sees(q, ls, [rs EXCEPT ![i] = row], bs, issued) /\ q.issued = pending[w].issued
    BY <2>1, SeesWritten DEF q
  <2>3. Sees(q2, ls, [rs EXCEPT ![i] = row], [bs EXCEPT ![key] = balance], issued)
        /\ q2.issued = q.issued
    BY <1>5, <2>2, SeesWritten DEF q2
  <2>4. /\ Sees(WriteLine(q2, l, line), [ls EXCEPT ![l] = line], [rs EXCEPT ![i] = row],
                [bs EXCEPT ![key] = balance], issued)
        /\ WriteLine(q2, l, line).issued = q2.issued
    BY <1>5, <2>3, SeesWritten
  <2> QED
    BY <2>2, <2>3, <2>4 DEF q, q2
<1>12. rs[i].status = "NONE" /\ Weight(rs[i]) = 0
  <2>1. reservations[i].status = "NONE" /\ i \notin DOMAIN pending[w].reservations
    BY <1>2 DEF Free
  <2>2. rs[i] = reservations[i]
    BY <2>1 DEF ReservationsSeen, Overlay, IInv, TypeOK
  <2> QED
    BY <2>1, <2>2 DEF Weight
<1>13. /\ row \in ReservationRow /\ row.line = l /\ Weight(row) = n
       /\ (row.status = "ACTIVE" => row.quantity > 0) /\ n = Weight(row) - Weight(rs[i])
  <2>1. row \in ReservationRow /\ row.line = l /\ Weight(row) = n
    BY <1>5 DEF ReservationRow, ReservationStatus, Weight
  <2> HIDE DEF rs
  <2> QED
    BY <1>5, <1>7, <1>12, <2>1
<1>14. HeldOfLine(rs, l) + n <= ls2[l].reserved
  <2>1. HeldOfLine(rs, l) <= ls[l].reserved /\ HeldOfLine(rs, l) \in Nat /\ ls[l].reserved \in Nat
    BY <1>4, <1>5, HeldIsNat DEF StockOK, LineRow
  <2> HIDE DEF ls, rs, ls2
  <2> QED
    BY <1>5, <1>8, <2>1
<1> DEFINE rs2 == [rs EXCEPT ![i] = row]
<1>15. /\ HeldMoves(rs, rs2, l, n)
       /\ StockOK(ls2, rs2, bs2, issued, movements.adjusted)
       /\ \A s, o : o # OrderOf[l] /\ StatusOK(s, ls, rs, o) => StatusOK(s, ls2, rs2, o)
  <2>1. n \in Int /\ 0 \in Nat
    BY <1>5
  <2> HIDE DEF ls, rs, bs, issued, row, ls2, bs2, l, n, key
  <2> QED
    BY <1>4, <1>5, <1>8, <1>9, <1>10, <1>12, <1>13, <1>14, <2>1, HoldingMoves
<1>16. HoldsReserved(ls2, rs2, r.order)
  <2>1. ls2[l].delivered = 0 => ls[l].delivered = 0 /\ ls2[l].reserved = ls[l].reserved + n
    BY <1>8
  <2>2. n \in Int
    BY <1>5
  <2> HIDE DEF ls, rs, ls2, rs2, l, n
  <2> QED
    BY <1>4, <1>5, <1>7, <1>8, <1>15, <2>1, <2>2, ReservedKept
<1>17. Taking(r, r.todo, r.took, ls2)
  <2>1. ASSUME NEW x \in LinesOf(r.order)
        PROVE  /\ ls2[x].quantity = r.seen[x].quantity /\ ls2[x].delivered = r.seen[x].delivered
               /\ ls2[x].reserved = r.seen[x].reserved + r.took[x]
               /\ x \in r.todo => r.took[x] = 0
               /\ ls2[x].reserved <= ls2[x].quantity
    <3>1. x \in LineIds /\ ls[x].reserved <= ls[x].quantity
      BY <1>4 DEF LinesOf, StockOK
    <3>2. r.seen[x].reserved \in Nat /\ r.took[x] \in Nat
      BY <1>5 DEF LineRow
    <3> HIDE DEF ls, ls2, n
    <3>3. CASE x = l
      BY <1>7, <1>8, <3>2, <3>3 DEF n
    <3>4. CASE x # l
      BY <1>7, <1>8, <3>1, <3>2, <3>4 DEF LineMoves
    <3> QED
      BY <3>3, <3>4
  <2> QED
    BY <2>1 DEF Taking
<1>18. /\ ProgressOK(next, orders, ls2, rs2, bs2, deliveries)
       /\ BeliefOK(next, orders, reservations, balances, deliveries)
       /\ OrderOfTransaction(next, deliveries) = r.order
  <2> DEFINE todo == r.todo
             took == r.took
  <2>1. /\ Taking(r, todo, took, ls2) /\ r.was \in Allocatable /\ orders[r.order] = r.was
        /\ r.seen \in [LinesOf(r.order) -> LineRow] /\ took \in [LinesOf(r.order) -> Nat]
    BY <1>5, <1>6, <1>17
  <2>2. next = AllocateNext(r, todo, took)
    OBVIOUS
  <2>3. next.pc \in {"allocate", "commit"}
    BY DEF AllocateNext, CommitOf
  <2> HIDE DEF ls2, rs2, bs2, r, todo, took, next
  <2>4. /\ ProgressOK(AllocateNext(r, todo, took), orders, ls2, rs2, bs2, deliveries)
        /\ BeliefOK(AllocateNext(r, todo, took), orders, rs2, bs2, deliveries)
        /\ OrderOfTransaction(AllocateNext(r, todo, took), deliveries) = r.order
    BY <1>8, <1>16, <2>1, AllocateNextProgress
  <2> QED
    BY <2>2, <2>3, <2>4 DEF BeliefOK
<1>19. IssuesNone(next, p(i))
  BY <1>1, <1>4, <1>11 DEF IssuesNone
<1>20. \A x \in OrderIds \ {r.order} : StatusOK(orders[x], ls2, rs2, x)
  <2> HIDE DEF ls, rs, ls2, rs2, l
  <2> QED
    BY <1>4, <1>5, <1>15
<1> HIDE DEF ls, rs, bs, issued, ls2, rs2, bs2, next, p
<1> QED
  BY <1>1, <1>2, <1>11, <1>15, <1>18, <1>19, <1>20, WriteKeeps DEF rs2

\* The tables when reservation i is given back: `whole` says whether its line is told.
Released(rs, i) == [rs EXCEPT ![i] = [rs[i] EXCEPT !.status = "RELEASED"]]
BalanceReleased(rs, bs, i) ==
  [bs EXCEPT ![KeyOf[rs[i].line]] = Unhold(bs[KeyOf[rs[i].line]], rs[i].quantity)]
LineReleased(ls, rs, i) ==
  [ls EXCEPT ![rs[i].line] = Unhold(ls[rs[i].line], rs[i].quantity)]

\* Line l shows q less.
LineGivesBack(ls, ls2, l, q) ==
  /\ ls2 \in [LineIds -> LineRow] /\ LineMoves(ls, ls2, l)
  /\ ls2[l].reserved = ls[l].reserved - q /\ ls2[l].reserved <= ls2[l].quantity
  /\ ls2[l].delivered = ls[l].delivered /\ ls2[l].quantity = ls[l].quantity
  /\ ls2[l].delivered <= ls2[l].reserved

LEMMA ReleasedLine ==
  ASSUME NEW ls \in [LineIds -> LineRow], NEW l \in LineIds, NEW q \in Nat,
         CheckLine(Unhold(ls[l], q))
  PROVE  LineGivesBack(ls, [ls EXCEPT ![l] = Unhold(ls[l], q)], l, q)
<1> DEFINE line == Unhold(ls[l], q)
           ls2 == [ls EXCEPT ![l] = line]
<1>1. ls[l] \in LineRow
  OBVIOUS
<1>2. line \in LineRow
  BY <1>1, HeldTyped
<1>3. /\ line.reserved = ls[l].reserved - q /\ line.reserved <= line.quantity
      /\ line.delivered = ls[l].delivered /\ line.quantity = ls[l].quantity
      /\ line.delivered <= line.reserved
  BY <1>1 DEF CheckLine, Unhold, LineRow
<1> HIDE DEF line
<1>4. ls2 \in [LineIds -> LineRow] /\ ls2[l] = line /\ \A x \in LineIds \ {l} : ls2[x] = ls[x]
  BY <1>2
<1> HIDE DEF ls2
<1>5. LineGivesBack(ls, ls2, l, q)
  BY <1>3, <1>4 DEF LineMoves, LineGivesBack
<1> QED
  BY <1>5 DEF ls2, line

LEMMA ReleasedBalance ==
  ASSUME NEW bs \in [StockKeys -> BalanceRow], NEW l \in LineIds, NEW q \in Nat,
         CheckBalance(Unhold(bs[KeyOf[l]], q)), NEW bs2,
         bs2 = [bs EXCEPT ![KeyOf[l]] = Unhold(bs[KeyOf[l]], q)]
  PROVE  bs2 \in [StockKeys -> BalanceRow] /\ BalanceMoves(bs, bs2, l, 0 - q, 0)
<1> DEFINE key == KeyOf[l]
           balance == Unhold(bs[key], q)
<1>1. key \in StockKeys /\ bs[key] \in BalanceRow
  BY LinesAssumption
<1>2. balance \in BalanceRow
  BY <1>1, HeldTyped
<1>3. balance.reserved = bs[key].reserved + (0 - q) /\ balance.onHand = bs[key].onHand - 0
  BY <1>1 DEF Unhold, BalanceRow
<1> HIDE DEF balance
<1>4. bs2 = [bs EXCEPT ![key] = balance]
  BY DEF balance
<1> QED
  BY <1>1, <1>2, <1>3, <1>4 DEF BalanceMoves

LEMMA Releasing ==
  ASSUME NEW ls \in [LineIds -> LineRow], NEW rs \in [ReservationIds -> ReservationRow],
         NEW bs \in [StockKeys -> BalanceRow], NEW issued \in [LineIds -> Nat],
         NEW adjusted \in [StockKeys -> Int], StockOK(ls, rs, bs, issued, adjusted),
         NEW i \in ReservationIds, rs[i].status = "ACTIVE", NEW l, l = rs[i].line,
         CheckBalance(Unhold(bs[KeyOf[l]], rs[i].quantity)),
         NEW ls2, ls2 = ls \/ (CheckLine(Unhold(ls[l], rs[i].quantity)) /\ ls2 = LineReleased(ls, rs, i))
  PROVE  /\ StockOK(ls2, Released(rs, i), BalanceReleased(rs, bs, i), issued, adjusted)
         /\ \A s, o : o # OrderOf[l] /\ StatusOK(s, ls, rs, o) => StatusOK(s, ls2, Released(rs, i), o)
         /\ HeldMoves(rs, Released(rs, i), l, 0 - rs[i].quantity)
<1> DEFINE q == rs[i].quantity
           row == [rs[i] EXCEPT !.status = "RELEASED"]
           bs2 == BalanceReleased(rs, bs, i)
           rs2 == [rs EXCEPT ![i] = row]
<1>1. /\ l \in LineIds /\ q \in Nat /\ q > 0 /\ Weight(rs[i]) = q
      /\ row \in ReservationRow /\ row.line = l /\ Weight(row) = 0 /\ row.status # "ACTIVE"
  <2>1. rs[i] \in ReservationRow /\ q > 0
    BY DEF StockOK
  <2> QED
    BY <2>1 DEF ReservationRow, ReservationStatus, Weight
<1>2. bs2 \in [StockKeys -> BalanceRow] /\ BalanceMoves(bs, bs2, l, 0 - q, 0)
  <2>1. bs2 = [bs EXCEPT ![KeyOf[l]] = Unhold(bs[KeyOf[l]], q)]
    BY DEF BalanceReleased
  <2> HIDE DEF bs2
  <2> QED
    BY <1>1, <2>1, ReleasedBalance
<1>3. /\ ls2 \in [LineIds -> LineRow] /\ LineMoves(ls, ls2, l)
      /\ HeldOfLine(rs, l) + (0 - q) <= ls2[l].reserved /\ ls2[l].reserved <= ls2[l].quantity
  <2>1. /\ HeldOfLine(rs, l) \in Nat /\ HeldOfLine(rs, l) <= ls[l].reserved
        /\ ls[l].reserved <= ls[l].quantity /\ ls[l].reserved \in Nat
    BY <1>1, HeldIsNat DEF StockOK, LineRow
  <2>2. CASE ls2 = ls
    BY <1>1, <2>1, <2>2 DEF LineMoves
  <2>3. CASE CheckLine(Unhold(ls[l], q)) /\ ls2 = LineReleased(ls, rs, i)
    <3>1. ls2 = [ls EXCEPT ![l] = Unhold(ls[l], q)] /\ CheckLine(Unhold(ls[l], q))
      BY <2>3 DEF LineReleased
    <3> HIDE DEF q
    <3>2. LineGivesBack(ls, ls2, l, q)
      BY <1>1, <3>1, ReleasedLine
    <3> QED
      BY <1>1, <2>1, <3>2 DEF LineGivesBack
  <2> QED
    BY <2>2, <2>3
<1>4. IssueMoves(issued, issued, l, 0)
  BY <1>1 DEF IssueMoves
<1>5. 0 - q = Weight(row) - Weight(rs[i]) /\ 0 - q \in Int /\ 0 \in Nat
  BY <1>1
<1> DEFINE n == 0 - q
<1> HIDE DEF row, q, bs2, n
<1>6. /\ HeldMoves(rs, rs2, l, n)
      /\ StockOK(ls2, rs2, bs2, issued, adjusted)
      /\ \A s, o : o # OrderOf[l] /\ StatusOK(s, ls, rs, o) => StatusOK(s, ls2, rs2, o)
  <2>1. BalanceMoves(bs, bs2, l, n, 0) /\ n \in Int /\ n = Weight(row) - Weight(rs[i])
        /\ HeldOfLine(rs, l) + n <= ls2[l].reserved
    BY <1>2, <1>3, <1>5 DEF n
  <2> QED
    BY <1>1, <1>2, <1>3, <1>4, <1>5, <2>1, HoldingMoves
<1> QED
  BY <1>6 DEF Released, row, q, bs2, n

\* The order's undelivered lines still hold what they show.
LEMMA ReleasingReserved ==
  ASSUME NEW ls \in [LineIds -> LineRow], NEW rs \in [ReservationIds -> ReservationRow],
         NEW i \in ReservationIds, NEW l, l = rs[i].line,
         CheckLine(Unhold(ls[l], rs[i].quantity)),
         HeldMoves(rs, Released(rs, i), l, 0 - rs[i].quantity),
         NEW o, HoldsReserved(ls, rs, o)
  PROVE  HoldsReserved(LineReleased(ls, rs, i), Released(rs, i), o)
<1> DEFINE q == rs[i].quantity
           n == 0 - q
           ls2 == LineReleased(ls, rs, i)
           rs2 == Released(rs, i)
<1>1. l \in LineIds /\ q \in Nat /\ n \in Int
  BY DEF ReservationRow
<1>2. ls2 = [ls EXCEPT ![l] = Unhold(ls[l], q)]
  BY DEF LineReleased
<1> HIDE DEF q, ls2, rs2
<1>3. /\ LineMoves(ls, ls2, l)
      /\ ls2[l].reserved = ls[l].reserved - q /\ ls2[l].delivered = ls[l].delivered
  <2>1. CheckLine(Unhold(ls[l], q))
    BY DEF q
  <2>2. LineGivesBack(ls, ls2, l, q)
    BY <1>1, <1>2, <2>1, ReleasedLine
  <2> QED
    BY <2>2 DEF LineGivesBack
<1>4. ls2[l].delivered = 0 => ls[l].delivered = 0 /\ ls2[l].reserved = ls[l].reserved + n
  <2>1. ls[l].reserved \in Nat
    BY <1>1 DEF LineRow
  <2> QED
    BY <1>1, <1>3, <2>1
<1>5. HeldMoves(rs, rs2, l, n)
  BY DEF rs2, q
<1> HIDE DEF n
<1> QED
  BY <1>1, <1>3, <1>4, <1>5, ReservedKept DEF ls2, rs2

\* The reservation and the balance are written, and then the line.
LEMMA SeesReleased ==
  ASSUME IInv, NEW w \in Workers, NEW i \in ReservationIds, ReservationsSeen(w)[i].line \in LineIds
  PROVE  LET ls == LinesSeen(w)
             rs == ReservationsSeen(w)
             bs == BalancesSeen(w)
             row == [rs[i] EXCEPT !.status = "RELEASED"]
             l == rs[i].line
             p == WriteReservation(WriteBalance(pending[w], KeyOf[l],
                    Unhold(bs[KeyOf[l]], rs[i].quantity)), i, row)
             p2 == WriteLine(p, l, Unhold(ls[l], rs[i].quantity))
         IN  /\ Sees(p, ls, Released(rs, i), BalanceReleased(rs, bs, i), IssuedSeen(w))
             /\ p.issued = pending[w].issued
             /\ Sees(p2, LineReleased(ls, rs, i), Released(rs, i), BalanceReleased(rs, bs, i),
                     IssuedSeen(w))
             /\ p2.issued = pending[w].issued
<1> DEFINE ls == LinesSeen(w)
           rs == ReservationsSeen(w)
           bs == BalancesSeen(w)
           issued == IssuedSeen(w)
           row == [rs[i] EXCEPT !.status = "RELEASED"]
           l == rs[i].line
           key == KeyOf[l]
           balance == Unhold(bs[key], rs[i].quantity)
           line == Unhold(ls[l], rs[i].quantity)
           q == WriteBalance(pending[w], key, balance)
           p == WriteReservation(q, i, row)
<1>1. l \in LineIds /\ key \in StockKeys
  BY LinesAssumption
<1>2. /\ Released(rs, i) = [rs EXCEPT ![i] = row]
      /\ BalanceReleased(rs, bs, i) = [bs EXCEPT ![key] = balance]
      /\ LineReleased(ls, rs, i) = [ls EXCEPT ![l] = line]
  BY DEF Released, BalanceReleased, LineReleased
<1> HIDE DEF ls, rs, bs, issued, row, l, key, balance, line, q, p
<1>3. Sees(pending[w], ls, rs, bs, issued)
  BY SeesOwn DEF ls, rs, bs, issued
<1>4. Sees(q, ls, rs, [bs EXCEPT ![key] = balance], issued) /\ q.issued = pending[w].issued
  BY <1>1, <1>3, SeesWritten DEF q
<1>5. Sees(p, ls, [rs EXCEPT ![i] = row], [bs EXCEPT ![key] = balance], issued) /\ p.issued = q.issued
  BY <1>4, SeesWritten DEF p
<1>6. /\ Sees(WriteLine(p, l, line), [ls EXCEPT ![l] = line], [rs EXCEPT ![i] = row],
              [bs EXCEPT ![key] = balance], issued)
      /\ WriteLine(p, l, line).issued = p.issued
  BY <1>1, <1>5, SeesWritten
<1>7. /\ Sees(p, ls, Released(rs, i), BalanceReleased(rs, bs, i), issued)
      /\ p.issued = pending[w].issued
      /\ Sees(WriteLine(p, l, line), LineReleased(ls, rs, i), Released(rs, i),
              BalanceReleased(rs, bs, i), issued)
      /\ WriteLine(p, l, line).issued = pending[w].issued
  BY <1>2, <1>4, <1>5, <1>6
<1> QED
  BY <1>7 DEF ls, rs, bs, issued, row, l, key, balance, line, q, p

\* releaseAllocation() and cancel() go on to the next reservation, or commit.
GoesOn(r, i, next) ==
  LET todo == [j \in DOMAIN r.todo \ {i} |-> r.todo[j]] IN
  next = IF DOMAIN todo # {}
         THEN [pc |-> "giveBack", order |-> r.order, to |-> r.to, todo |-> todo]
         ELSE CommitOf(r.order, r.to, {})

LEMMA GiveBackNext ==
  ASSUME NEW r, NEW i, NEW os, NEW ls, NEW rs \in [ReservationIds -> ReservationRow],
         NEW ls2, NEW bs, NEW ds, r.pc = "giveBack", i \in ReservationIds,
         Releasable(r.to, os[r.order]), i \in DOMAIN r.todo,
         ProgressOK(r, os, ls, rs, bs, ds),
         r.to = "APPROVED" => HoldsReserved(ls2, Released(rs, i), r.order), NEW bs2,
         DOMAIN r.todo \subseteq ReservationIds, NEW next, GoesOn(r, i, next)
  PROVE  /\ ProgressOK(next, os, ls2, Released(rs, i), bs2, ds)
         /\ BeliefOK(next, os, rs, bs, ds) /\ next.pc \in {"giveBack", "commit"}
         /\ OrderOfTransaction(next, ds) = r.order
<1> DEFINE rs2 == Released(rs, i)
           todo == [j \in DOMAIN r.todo \ {i} |-> r.todo[j]]
<1>0. /\ DOMAIN todo = DOMAIN r.todo \ {i} /\ \A j \in DOMAIN todo : todo[j] = r.todo[j]
      /\ next = IF DOMAIN todo # {}
                THEN [pc |-> "giveBack", order |-> r.order, to |-> r.to, todo |-> todo]
                ELSE CommitOf(r.order, r.to, {})
  BY DEF GoesOn
<1>1. /\ \A j \in ReservationIds \ {i} : rs2[j] = rs[j]
      /\ rs2[i].status = "RELEASED"
  BY DEF Released, ReservationRow
<1>2. /\ \A j \in DOMAIN r.todo : r.todo[j] = rs[j] /\ rs[j].status = "ACTIVE"
      /\ \A j \in ReservationIds :
           rs[j].status = "ACTIVE" /\ OrderOf[rs[j].line] = r.order => j \in DOMAIN r.todo
  BY DEF ProgressOK
<1>3. /\ \A j \in DOMAIN todo : todo[j] = rs2[j] /\ rs2[j].status = "ACTIVE"
      /\ \A j \in ReservationIds :
           rs2[j].status = "ACTIVE" /\ OrderOf[rs2[j].line] = r.order => j \in DOMAIN todo
  BY <1>0, <1>1, <1>2
<1>4. r.to = "APPROVED" => HoldsReserved(ls2, rs2, r.order)
  OBVIOUS
<1>5. r.to \in {"APPROVED", "CANCELLED"} /\ os[r.order] # "FULFILLED"
  BY DEF Releasable
<1> HIDE DEF rs2, todo
<1>6. CASE DOMAIN todo # {}
  <2> DEFINE giving == [pc |-> "giveBack", order |-> r.order, to |-> r.to, todo |-> todo]
  <2>1. next = giving
    BY <1>0, <1>6
  <2>2. ProgressOK(giving, os, ls2, rs2, bs2, ds)
    BY <1>3, <1>4 DEF ProgressOK
  <2>3. BeliefOK(giving, os, rs, bs, ds)
    BY DEF BeliefOK
  <2>4. OrderOfTransaction(giving, ds) = r.order /\ giving.pc = "giveBack"
    BY DEF OrderOfTransaction
  <2> HIDE DEF giving
  <2> QED
    BY <2>1, <2>2, <2>3, <2>4 DEF rs2
<1>7. CASE DOMAIN todo = {}
  <2> DEFINE commit == CommitOf(r.order, r.to, {})
  <2>1. next = commit
    BY <1>0, <1>7
  <2>2. HoldsNothing(rs2, r.order)
    BY <1>3, <1>7 DEF HoldsNothing
  <2>3. StatusOK(r.to, ls2, rs2, r.order)
    BY <1>4, <1>5, <2>2 DEF StatusOK, Past
  <2>4. ProgressOK(commit, os, ls2, rs2, bs2, ds)
    BY <1>5, <2>3 DEF ProgressOK, CommitOf
  <2>5. BeliefOK(commit, os, rs, bs, ds)
    BY <1>5 DEF BeliefOK, CommitOf
  <2>6. OrderOfTransaction(commit, ds) = r.order /\ commit.pc = "commit"
    BY DEF OrderOfTransaction, CommitOf
  <2> HIDE DEF commit
  <2> QED
    BY <2>1, <2>4, <2>5, <2>6 DEF rs2
<1> QED
  BY <1>6, <1>7

\* One reservation is given back; cancel() leaves the line as it is.
LEMMA GiveBackSequential ==
  ASSUME Alone, IInv, SequentialInv, NEW w \in Workers, GiveBack(w)
  PROVE  SequentialInv'
<1> DEFINE r == requests[w]
           ls == LinesSeen(w)
           rs == ReservationsSeen(w)
           bs == BalancesSeen(w)
           issued == IssuedSeen(w)
           rest(i) == [j \in DOMAIN r.todo \ {i} |-> r.todo[j]]
           next(i) == IF DOMAIN rest(i) # {}
                      THEN [pc |-> "giveBack", order |-> r.order, to |-> r.to, todo |-> rest(i)]
                      ELSE CommitOf(r.order, r.to, {})
           p(i) == WriteReservation(WriteBalance(pending[w], KeyOf[rs[i].line],
                     Unhold(bs[KeyOf[rs[i].line]], rs[i].quantity)), i,
                     [rs[i] EXCEPT !.status = "RELEASED"])
           p2(i) == WriteLine(p(i), rs[i].line, Unhold(ls[rs[i].line], rs[i].quantity))
<1>1. r.pc = "giveBack" /\ UNCHANGED db
  BY DEF GiveBack
<1>2. r.pc \in WritingPcs
  BY <1>1 DEF WritingPcs
<1>3. /\ StockOK(ls, rs, bs, issued, movements.adjusted)
      /\ \A x \in OrderIds \ {r.order} : StatusOK(orders[x], ls, rs, x)
      /\ ProgressOK(r, orders, ls, rs, bs, deliveries)
      /\ BeliefOK(r, orders, reservations, balances, deliveries)
      /\ IssuesNone(r, pending[w])
      /\ ls \in [LineIds -> LineRow] /\ rs \in [ReservationIds -> ReservationRow]
      /\ bs \in [StockKeys -> BalanceRow] /\ issued \in [LineIds -> Nat]
      /\ movements.adjusted \in [StockKeys -> Int]
  BY <1>1, <1>2, Underway DEF OrderOfTransaction
<1>4. \A i \in DOMAIN r.todo : r.todo[i] = rs[i] /\ rs[i].status = "ACTIVE"
  BY <1>1, <1>3 DEF ProgressOK
<1>5. PICK i \in DOMAIN r.todo :
        /\ CheckBalance(Unhold(bs[KeyOf[rs[i].line]], rs[i].quantity))
        /\ r.to # "CANCELLED" => CheckLine(Unhold(ls[rs[i].line], rs[i].quantity))
        /\ Write(w, IF r.to = "CANCELLED" THEN p(i) ELSE p2(i))
        /\ Goto(w, next(i))
  BY <1>4 DEF GiveBack
<1>6. /\ i \in ReservationIds /\ OrderOf[rs[i].line] = r.order
      /\ DOMAIN r.todo \subseteq ReservationIds /\ r.to \in {"APPROVED", "CANCELLED"}
      /\ rs[i].line \in LineIds
  BY <1>1, <1>3, <1>4, WriterOK DEF RequestOK, OrderPcs, Taken, ReservationRow
<1>7. Releasable(r.to, orders[r.order])
  BY <1>1, <1>3 DEF BeliefOK
<1>8. r.to = "APPROVED" => HoldsReserved(ls, rs, r.order)
  BY <1>1, <1>3 DEF ProgressOK
<1>9. /\ Sees(p(i), ls, Released(rs, i), BalanceReleased(rs, bs, i), issued)
      /\ p(i).issued = pending[w].issued
      /\ Sees(p2(i), LineReleased(ls, rs, i), Released(rs, i), BalanceReleased(rs, bs, i), issued)
      /\ p2(i).issued = pending[w].issued
  BY <1>6, SeesReleased
<1>10. \A x \in LineIds : pending[w].issued[x] = 0
  BY <1>1, <1>3 DEF IssuesNone
<1> DEFINE ls2 == IF r.to = "CANCELLED" THEN ls ELSE LineReleased(ls, rs, i)
           rs2 == Released(rs, i)
           bs2 == BalanceReleased(rs, bs, i)
           q == IF r.to = "CANCELLED" THEN p(i) ELSE p2(i)
           l == rs[i].line
           r2 == next(i)
<1>11. /\ Write(w, q) /\ Goto(w, r2) /\ Sees(q, ls2, rs2, bs2, issued)
       /\ \A x \in LineIds : q.issued[x] = 0
  BY <1>5, <1>9, <1>10
<1>12. ls2 = ls \/ (CheckLine(Unhold(ls[l], rs[i].quantity)) /\ ls2 = LineReleased(ls, rs, i))
  BY <1>5
<1>13. CheckBalance(Unhold(bs[KeyOf[l]], rs[i].quantity)) /\ rs[i].status = "ACTIVE"
  BY <1>4, <1>5
<1>14. GoesOn(r, i, r2)
  BY DEF GoesOn
<1> HIDE DEF ls2, p, p2, next, rest, q, r2
<1>15. /\ StockOK(ls2, rs2, bs2, issued, movements.adjusted)
       /\ \A s, o : o # OrderOf[l] /\ StatusOK(s, ls, rs, o) => StatusOK(s, ls2, rs2, o)
       /\ HeldMoves(rs, rs2, l, 0 - rs[i].quantity)
  <2> HIDE DEF ls, rs, bs, issued
  <2> QED
    BY <1>3, <1>6, <1>12, <1>13, Releasing
<1>16. r.to = "APPROVED" => HoldsReserved(ls2, rs2, r.order)
  <2>1. ASSUME r.to = "APPROVED"
        PROVE  HoldsReserved(LineReleased(ls, rs, i), Released(rs, i), r.order)
    <3>1. CheckLine(Unhold(ls[l], rs[i].quantity)) /\ HoldsReserved(ls, rs, r.order)
      BY <1>5, <1>8, <2>1
    <3>2. HeldMoves(rs, Released(rs, i), l, 0 - rs[i].quantity)
      BY <1>15
    <3> HIDE DEF ls, rs
    <3> QED
      BY <1>3, <1>6, <3>1, <3>2, ReleasingReserved
  <2> QED
    BY <2>1 DEF ls2
<1>17. /\ ProgressOK(r2, orders, ls2, rs2, bs2, deliveries)
       /\ OrderOfTransaction(r2, deliveries) = r.order
       /\ r2.pc \in {"giveBack", "commit"} /\ BeliefOK(r2, orders, rs, bs, deliveries)
  <2>1. /\ ProgressOK(r, orders, ls, rs, bs, deliveries) /\ rs \in [ReservationIds -> ReservationRow]
        /\ r.pc = "giveBack" /\ i \in DOMAIN r.todo /\ i \in ReservationIds
        /\ DOMAIN r.todo \subseteq ReservationIds
    BY <1>1, <1>3, <1>6
  <2>2. r.to = "APPROVED" => HoldsReserved(ls2, Released(rs, i), r.order)
    BY <1>16
  <2> HIDE DEF ls, rs, bs, bs2, r, l
  <2>3. /\ ProgressOK(r2, orders, ls2, Released(rs, i), bs2, deliveries)
        /\ OrderOfTransaction(r2, deliveries) = r.order
        /\ r2.pc \in {"giveBack", "commit"} /\ BeliefOK(r2, orders, rs, bs, deliveries)
    BY <1>7, <1>14, <2>1, <2>2, GiveBackNext
  <2> QED
    BY <2>3
<1>18. BeliefOK(r2, orders, reservations, balances, deliveries)
  BY <1>17 DEF BeliefOK
<1>19. IssuesNone(r2, q)
  BY <1>11 DEF IssuesNone
<1>20. \A x \in OrderIds \ {r.order} : StatusOK(orders[x], ls2, rs2, x)
  BY <1>3, <1>6, <1>15
<1> HIDE DEF ls, rs, bs, issued, rs2, bs2
<1> QED
  BY <1>1, <1>11, <1>15, <1>17, <1>18, <1>19, <1>20, WriteKeeps

\* ReservationsService.release: an order it is called for is not FULFILLED, for
\* the CHECK on its line would refuse.
LEMMA ReleaseSequential ==
  ASSUME Alone, IInv, SequentialInv, NEW w \in Workers, Release(w)
  PROVE  SequentialInv'
<1> DEFINE r == requests[w]
           i == r.reservation
           ls == lines
           rs == reservations
           bs == balances
           l == rs[i].line
           p == WriteReservation(WriteBalance(pending[w], KeyOf[rs[i].line],
                  Unhold(bs[KeyOf[rs[i].line]], rs[i].quantity)), i,
                  [rs[i] EXCEPT !.status = "RELEASED"])
           p2 == WriteLine(p, rs[i].line, Unhold(ls[rs[i].line], rs[i].quantity))
           ls2 == LineReleased(ls, rs, i)
           rs2 == Released(rs, i)
           bs2 == BalanceReleased(rs, bs, i)
<1>1. r.pc = "release" /\ UNCHANGED db
  BY DEF Release
<1>2. pending[w] = NoWrites
  BY <1>1 DEF WritingPcs, IInv, WorkerOK
<1>3. /\ LinesSeen(w) = ls /\ ReservationsSeen(w) = rs /\ BalancesSeen(w) = bs
      /\ IssuedSeen(w) = movements.issued
  BY <1>2, SeesCommitted
<1>4. r.row = rs[i] /\ rs[i].status = "ACTIVE"
  BY <1>1 DEF SequentialInv, BeliefOK
<1>5. PICK s \in {"CONFIRMED", "PARTIALLY_RESERVED"} :
        /\ Goto(w, CommitOf(OrderOf[l], s, {}))
        /\ CheckBalance(Unhold(bs[KeyOf[l]], rs[i].quantity))
        /\ CheckLine(Unhold(ls[l], rs[i].quantity))
        /\ Write(w, p2)
  <2> DEFINE remaining == {j \in ReservationIds \ {i} :
                      /\ ReservationsSeen(w)[j].status = "ACTIVE"
                      /\ OrderOf[ReservationsSeen(w)[j].line] = OrderOf[l]}
             s == IF remaining = {} THEN "CONFIRMED" ELSE "PARTIALLY_RESERVED"
  <2>1. /\ Goto(w, CommitOf(OrderOf[l], s, {}))
        /\ CheckBalance(Unhold(bs[KeyOf[l]], rs[i].quantity))
        /\ CheckLine(Unhold(ls[l], rs[i].quantity))
        /\ Write(w, p2)
    BY <1>3, <1>4 DEF Release
  <2>2. s \in {"CONFIRMED", "PARTIALLY_RESERVED"}
    OBVIOUS
  <2> HIDE DEF s
  <2> QED
    BY <2>1, <2>2
<1>6. /\ ls \in [LineIds -> LineRow] /\ rs \in [ReservationIds -> ReservationRow]
      /\ bs \in [StockKeys -> BalanceRow] /\ movements.issued \in [LineIds -> Nat]
      /\ movements.adjusted \in [StockKeys -> Int]
  BY DEF IInv, TypeOK, Movements
<1>7. i \in ReservationIds /\ l \in LineIds /\ OrderOf[l] \in OrderIds
  BY <1>1, <1>6, WriterOK, LinesAssumption DEF RequestOK, OrderPcs, Taken, ReservationRow
<1>8. /\ StockOK(ls, rs, bs, movements.issued, movements.adjusted)
      /\ \A o \in OrderIds : StatusOK(orders[o], ls, rs, o)
  BY DEF SequentialInv
<1>9. /\ Sees(p2, ls2, rs2, bs2, movements.issued) /\ p2.issued = pending[w].issued
  BY <1>3, <1>7, SeesReleased
<1>10. rs[i].quantity > 0 /\ rs[i].quantity \in Nat
  BY <1>4, <1>6, <1>7, <1>8 DEF StockOK, ReservationRow
<1>11. orders[OrderOf[l]] # "FULFILLED"
  <2>1. ls[l].delivered < ls[l].quantity
    <3> DEFINE q == rs[i].quantity
    <3>1. ls[l] \in LineRow /\ CheckLine(Unhold(ls[l], q)) /\ q \in Nat /\ q > 0
      BY <1>5, <1>6, <1>7, <1>10
    <3>2. ls[l].reserved <= ls[l].quantity
      BY <1>7, <1>8 DEF StockOK
    <3> HIDE DEF q
    <3>3. ls[l].delivered <= ls[l].reserved - q
      BY <3>1 DEF CheckLine, Unhold, LineRow
    <3> QED
      BY <3>1, <3>2, <3>3 DEF LineRow
  <2>2. l \in LinesOf(OrderOf[l]) /\ ls[l].delivered \in Nat /\ ls[l].quantity \in Nat
    BY <1>6, <1>7 DEF LinesOf, LineRow
  <2>3. ~ FullyDelivered(ls, OrderOf[l])
    BY <2>1, <2>2 DEF FullyDelivered
  <2> QED
    BY <1>7, <1>8, <2>3 DEF StatusOK
<1>12. HoldsReserved(ls, rs, OrderOf[l])
  BY <1>4, <1>7, <1>8, HoldingOrder
<1>13. /\ StockOK(ls2, rs2, bs2, movements.issued, movements.adjusted)
       /\ \A t, o : o # OrderOf[l] /\ StatusOK(t, ls, rs, o) => StatusOK(t, ls2, rs2, o)
       /\ HeldMoves(rs, rs2, l, 0 - rs[i].quantity)
  <2> DEFINE adjusted == movements.adjusted
             issued == movements.issued
  <2>1. /\ adjusted \in [StockKeys -> Int] /\ issued \in [LineIds -> Nat]
        /\ StockOK(ls, rs, bs, issued, adjusted)
    BY <1>6, <1>8
  <2>2. CheckBalance(Unhold(bs[KeyOf[l]], rs[i].quantity)) /\ rs[i].status = "ACTIVE"
    BY <1>4, <1>5
  <2>3. CheckLine(Unhold(ls[l], rs[i].quantity)) /\ ls2 = LineReleased(ls, rs, i)
    BY <1>5
  <2> HIDE DEF i, adjusted, issued, ls2, rs, bs, ls
  <2>4. /\ StockOK(ls2, Released(rs, i), BalanceReleased(rs, bs, i), issued, adjusted)
        /\ \A t, o : o # OrderOf[l] /\ StatusOK(t, ls, rs, o) => StatusOK(t, ls2, Released(rs, i), o)
        /\ HeldMoves(rs, Released(rs, i), l, 0 - rs[i].quantity)
    BY <1>6, <1>7, <2>1, <2>2, <2>3, Releasing
  <2> QED
    BY <2>4 DEF issued, adjusted
<1>14. HoldsReserved(ls2, rs2, OrderOf[l])
  <2>1. CheckLine(Unhold(ls[l], rs[i].quantity)) /\ HeldMoves(rs, Released(rs, i), l, 0 - rs[i].quantity)
    BY <1>5, <1>13
  <2> HIDE DEF i, rs, ls
  <2> QED
    BY <1>6, <1>7, <1>12, <2>1, ReleasingReserved
<1> DEFINE next == CommitOf(OrderOf[l], s, {})
<1>15. ProgressOK(next, orders, ls2, rs2, bs2, deliveries)
  <2>1. StatusOK(s, ls2, rs2, OrderOf[l]) /\ s # "DRAFT"
    BY <1>5, <1>14 DEF StatusOK
  <2> QED
    BY <2>1 DEF ProgressOK, CommitOf
<1>16. /\ BeliefOK(next, orders, rs, bs, deliveries)
       /\ OrderOfTransaction(next, deliveries) = OrderOf[l]
  BY <1>11 DEF BeliefOK, CommitOf, OrderOfTransaction
<1>17. IssuesNone(next, p2)
  <2>2. p2.issued = pending[w].issued
    BY <1>9
  <2> HIDE DEF p2, next
  <2>1. p2.issued = [x \in LineIds |-> 0]
    BY <1>2, <2>2 DEF NoWrites
  <2> QED
    BY <2>1 DEF IssuesNone
<1>18. Goto(w, next) /\ Write(w, p2)
  BY <1>5
<1>19. \A o \in OrderIds \ {OrderOf[l]} : StatusOK(orders[o], ls2, rs2, o)
  BY <1>8, <1>13
<1> HIDE DEF ls2, rs2, bs2, next, p2, l
<1> QED
  BY <1>1, <1>9, <1>13, <1>15, <1>16, <1>17, <1>18, <1>19, WriteKeeps

\* executeDelivery() reads the balance; of a FULFILLED order nothing is left to deliver.
LEMMA ReadOnHandSequential ==
  ASSUME Alone, IInv, SequentialInv, NEW w \in Workers, ReadOnHand(w)
  PROVE  SequentialInv'
<1> DEFINE r == requests[w]
           ls == LinesSeen(w)
           rs == ReservationsSeen(w)
           bs == BalancesSeen(w)
           o == deliveries[r.delivery].order
           n(l) == deliveries[r.delivery].quantity[l]
           issue(l) == [pc |-> "issue", delivery |-> r.delivery, todo |-> r.todo \ {l},
                        line |-> l, onHand |-> bs[KeyOf[l]].onHand - n(l)]
<1>1. r.pc = "deliver" /\ UNCHANGED <<db, pending>>
  BY DEF ReadOnHand
<1>2. PICK l \in r.todo : n(l) <= ls[l].quantity - ls[l].delivered /\ Goto(w, issue(l))
  BY DEF ReadOnHand
<1>3. r.pc \in WritingPcs
  BY <1>1 DEF WritingPcs
<1>4. /\ StockOK(ls, rs, bs, IssuedSeen(w), movements.adjusted)
      /\ \A x \in OrderIds \ {o} : StatusOK(orders[x], ls, rs, x)
      /\ ProgressOK(r, orders, ls, rs, bs, deliveries)
      /\ BeliefOK(r, orders, reservations, balances, deliveries)
      /\ ls \in [LineIds -> LineRow]
  BY <1>1, <1>3, Underway DEF OrderOfTransaction
<1>5. r.delivery \in DeliveryIds /\ l \in LineIds /\ n(l) > 0 /\ n(l) \in Nat /\ OrderOf[l] = o
  <2>1. Exists(r.delivery, deliveries) /\ l \in LineIds /\ n(l) > 0
    BY <1>1, WriterOK DEF RequestOK
  <2>2. deliveries[r.delivery] \in DeliveryRow
    BY <2>1 DEF Exists, IInv, TypeOK
  <2>3. OrderOf[l] = o
    BY <2>1 DEF Exists, IInv, TablesOK
  <2> QED
    BY <2>1, <2>2, <2>3 DEF Exists, DeliveryRow
<1>6. /\ HoldsNothing(rs, o) \/ HoldsReserved(ls, rs, o)
      /\ orders[o] = "FULFILLED" => FullyDelivered(ls, o)
  BY <1>1, <1>4 DEF ProgressOK
<1>7. orders[o] # "FULFILLED"
  <2>1. ls[l].delivered \in Nat /\ ls[l].quantity \in Nat /\ l \in LinesOf(o)
    BY <1>4, <1>5 DEF LineRow, LinesOf
  <2>2. ls[l].delivered < ls[l].quantity
    <3> HIDE DEF n, ls
    <3> QED
      BY <1>2, <1>5, <2>1
  <2> QED
    BY <1>6, <2>1, <2>2 DEF FullyDelivered
<1> DEFINE next == issue(l)
<1>8. /\ next.pc = "issue" /\ next.delivery = r.delivery /\ next.line = l
      /\ next.onHand = bs[KeyOf[l]].onHand - n(l)
  OBVIOUS
<1> HIDE DEF next
<1>9. ProgressOK(next, orders, ls, rs, bs, deliveries)
  BY <1>6, <1>8 DEF ProgressOK
<1>10. BeliefOK(next, orders, reservations, balances, deliveries)
  BY <1>1, <1>4, <1>7, <1>8 DEF BeliefOK
<1>11. OrderOfTransaction(next, deliveries) = o /\ IssuesNone(next, pending[w])
  BY <1>8 DEF OrderOfTransaction, IssuesNone
<1>12. Consistent(next, orders, ls, rs, bs, IssuedSeen(w), movements.adjusted, deliveries)
  BY <1>4, <1>9, <1>11 DEF Consistent
<1>13. Goto(w, next)
  BY <1>2 DEF next
<1> QED
  BY <1>1, <1>10, <1>11, <1>12, <1>13, StepKeeps
     DEF LinesSeen, ReservationsSeen, BalancesSeen, IssuedSeen

\* executeDelivery() goes on to its next line, or to the status its lines justify.
DeliversOn(next, o, seen, rs2, bs2, p) ==
  /\ ProgressOK(next, orders, seen, rs2, bs2, deliveries)
  /\ BeliefOK(next, orders, reservations, balances, deliveries)
  /\ OrderOfTransaction(next, deliveries) = o /\ IssuesNone(next, p)

LEMMA DeliverNextProgress ==
  ASSUME NEW r, NEW seen, NEW rs2, NEW bs2, NEW p, NEW o, o = deliveries[r.delivery].order,
         orders[o] # "FULFILLED", deliveries[r.delivery].status # "DELIVERED",
         HoldsNothing(rs2, o) \/ HoldsReserved(seen, rs2, o)
  PROVE  DeliversOn(DeliverNext(r, seen), o, seen, rs2, bs2, p)
<1> DEFINE going == [pc |-> "deliver", delivery |-> r.delivery, todo |-> r.todo]
           s == IF \A l \in LinesOf(o) : seen[l].delivered >= seen[l].quantity
                THEN "FULFILLED" ELSE "PARTIALLY_FULFILLED"
           commit == CommitOf(o, s, {r.delivery})
<1>1. DeliversOn(going, o, seen, rs2, bs2, p)
  BY DEF DeliversOn, ProgressOK, BeliefOK, OrderOfTransaction, IssuesNone
<1>2. StatusOK(s, seen, rs2, o) /\ s # "DRAFT"
  <2>1. s = "FULFILLED" => FullyDelivered(seen, o)
    BY DEF FullyDelivered
  <2>2. s \in {"FULFILLED", "PARTIALLY_FULFILLED"}
    OBVIOUS
  <2> HIDE DEF s
  <2> QED
    BY <2>1, <2>2 DEF StatusOK, Past
<1> HIDE DEF s
<1>3. DeliversOn(commit, o, seen, rs2, bs2, p)
  <2>1. ProgressOK(commit, orders, seen, rs2, bs2, deliveries)
    BY <1>2 DEF ProgressOK, CommitOf
  <2>2. /\ BeliefOK(commit, orders, reservations, balances, deliveries)
        /\ OrderOfTransaction(commit, deliveries) = o /\ IssuesNone(commit, p)
    BY DEF BeliefOK, CommitOf, OrderOfTransaction, IssuesNone
  <2> QED
    BY <2>1, <2>2 DEF DeliversOn
<1>4. DeliverNext(r, seen) = going \/ DeliverNext(r, seen) = commit
  BY DEF DeliverNext, s
<1> HIDE DEF going, commit
<1> QED
  BY <1>1, <1>3, <1>4

\* A line from which n was issued.
LineIssues(ls, ls2, l, n) ==
  /\ ls2 \in [LineIds -> LineRow] /\ LineMoves(ls, ls2, l)
  /\ ls2[l].reserved = ls[l].reserved /\ ls2[l].quantity = ls[l].quantity
  /\ ls2[l].delivered > 0

LEMMA IssuedLine ==
  ASSUME NEW ls \in [LineIds -> LineRow], NEW l \in LineIds, NEW n \in Nat, n > 0
  PROVE  LineIssues(ls, [ls EXCEPT ![l] = [ls[l] EXCEPT !.delivered = @ + n]], l, n)
<1> DEFINE line == [ls[l] EXCEPT !.delivered = @ + n]
           ls2 == [ls EXCEPT ![l] = line]
<1>1. ls[l] \in LineRow
  OBVIOUS
<1>2. /\ line \in LineRow /\ line.reserved = ls[l].reserved /\ line.quantity = ls[l].quantity
      /\ line.delivered > 0
  BY <1>1 DEF LineRow
<1> HIDE DEF line
<1>3. ls2 \in [LineIds -> LineRow] /\ ls2[l] = line /\ \A x \in LineIds \ {l} : ls2[x] = ls[x]
  BY <1>2
<1> HIDE DEF ls2
<1>4. LineIssues(ls, ls2, l, n)
  BY <1>2, <1>3 DEF LineIssues, LineMoves
<1> QED
  BY <1>4 DEF ls2, line

\* What a reservation still holds once it was drawn on.
LEMMA ConsumedWeight ==
  ASSUME NEW row \in ReservationRow, row.status = "ACTIVE", row.quantity > 0, NEW n \in Nat, n > 0
  PROVE  /\ Consumed(row, n) \in Nat
         /\ 0 - Consumed(row, n) = Weight(Consume(row, n)) - Weight(row)
         /\ Consume(row, n) \in ReservationRow /\ Consume(row, n).line = row.line
         /\ Consume(row, n).status = "ACTIVE" => Consume(row, n).quantity > 0
<1>1. row.quantity \in Nat
  BY DEF ReservationRow
<1>2. /\ Consumed(row, n) \in Nat /\ Consume(row, n) \in ReservationRow
      /\ Consume(row, n).line = row.line
  BY ConsumeTyped
<1>3. CASE row.quantity <= n
  <2>1. Consume(row, n).status = "FULFILLED" /\ Consumed(row, n) = row.quantity
    BY <1>3 DEF Consume, Consumed, ReservationRow
  <2>2. Weight(Consume(row, n)) = 0 /\ Weight(row) = row.quantity
    BY <2>1 DEF Weight
  <2> QED
    BY <1>1, <1>2, <2>1, <2>2
<1>4. CASE ~ (row.quantity <= n)
  <2>1. /\ Consume(row, n).status = "ACTIVE" /\ Consume(row, n).quantity = row.quantity - n
        /\ Consumed(row, n) = n
    BY <1>4 DEF Consume, Consumed, ReservationRow
  <2>2. Weight(Consume(row, n)) = row.quantity - n /\ Weight(row) = row.quantity
    BY <2>1 DEF Weight
  <2> QED
    BY <1>1, <1>2, <1>4, <2>1, <2>2
<1> QED
  BY <1>3, <1>4

\* Only reservations that were active before are, for the same lines.
Fewer(rs, rs2) ==
  \A i \in ReservationIds : rs2[i].status = "ACTIVE" =>
    rs[i].status = "ACTIVE" /\ rs2[i].line = rs[i].line

LEMMA FewerHold ==
  ASSUME NEW rs, NEW rs2, NEW o, Fewer(rs, rs2), HoldsNothing(rs, o)
  PROVE  HoldsNothing(rs2, o)
BY DEF Fewer, HoldsNothing

\* The tables after a line was issued, with `c` less reserved for it.
LEMMA Issuing ==
  ASSUME NEW ls \in [LineIds -> LineRow], NEW rs \in [ReservationIds -> ReservationRow],
         NEW bs \in [StockKeys -> BalanceRow], NEW issued \in [LineIds -> Nat],
         NEW adjusted \in [StockKeys -> Int], StockOK(ls, rs, bs, issued, adjusted),
         NEW l \in LineIds, NEW n \in Nat, NEW c \in Nat, NEW ls2, LineIssues(ls, ls2, l, n),
         NEW rs2 \in [ReservationIds -> ReservationRow], HeldMoves(rs, rs2, l, 0 - c),
         NoneEmpty(rs2), Fewer(rs, rs2),
         NEW bs2 \in [StockKeys -> BalanceRow], BalanceMoves(bs, bs2, l, 0 - c, n)
  PROVE  /\ StockOK(ls2, rs2, bs2, [issued EXCEPT ![l] = @ + n], adjusted)
         /\ \A o : HoldsReserved(ls, rs, o) => HoldsReserved(ls2, rs2, o)
<1> DEFINE d == 0 - c
           issued2 == [issued EXCEPT ![l] = @ + n]
<1>1. d \in Int /\ issued2 \in [LineIds -> Nat]
  OBVIOUS
<1>2. IssueMoves(issued, issued2, l, n)
  BY DEF IssueMoves
<1>3. /\ ls2 \in [LineIds -> LineRow] /\ LineMoves(ls, ls2, l)
      /\ ls2[l].reserved = ls[l].reserved /\ ls2[l].quantity = ls[l].quantity
      /\ ls2[l].delivered > 0
  BY DEF LineIssues
<1>4. HeldOfLine(rs, l) + d <= ls2[l].reserved /\ ls2[l].reserved <= ls2[l].quantity
  <2>1. /\ HeldOfLine(rs, l) \in Nat /\ HeldOfLine(rs, l) <= ls[l].reserved
        /\ ls[l].reserved <= ls[l].quantity /\ ls[l].reserved \in Nat
    BY HeldIsNat DEF StockOK, LineRow
  <2> QED
    BY <1>3, <2>1
<1>5. HeldMoves(rs, rs2, l, d) /\ BalanceMoves(bs, bs2, l, d, n)
  OBVIOUS
<1> HIDE DEF d, issued2
<1>6. StockOK(ls2, rs2, bs2, issued2, adjusted)
  BY <1>1, <1>2, <1>3, <1>4, <1>5, StockMoves
<1>7. ASSUME NEW o, HoldsReserved(ls, rs, o)
      PROVE  HoldsReserved(ls2, rs2, o)
  <2>1. ls2[l].delivered = 0 => ls[l].delivered = 0 /\ ls2[l].reserved = ls[l].reserved + d
    BY <1>3
  <2> QED
    BY <1>1, <1>3, <1>5, <1>7, <2>1, ReservedKept
<1> QED
  BY <1>6, <1>7 DEF issued2

\* executeDelivery() issues a line.
LEMMA IssueSequential ==
  ASSUME Alone, IInv, SequentialInv, NEW w \in Workers, Issue(w)
  PROVE  SequentialInv'
<1> DEFINE r == requests[w]
           ls == LinesSeen(w)
           rs == ReservationsSeen(w)
           bs == BalancesSeen(w)
           issued == IssuedSeen(w)
           adjusted == movements.adjusted
           l == r.line
           key == KeyOf[l]
           o == deliveries[r.delivery].order
           n == deliveries[r.delivery].quantity[l]
           line == [ls[l] EXCEPT !.delivered = @ + n]
           balance == [bs[key] EXCEPT !.onHand = r.onHand]
           ls2 == [ls EXCEPT ![l] = line]
           next == DeliverNext(r, ls2)
<1>1. r.pc = "issue" /\ Goto(w, next) /\ UNCHANGED db
  BY DEF Issue
<1>2. r.pc \in WritingPcs
  BY <1>1 DEF WritingPcs
<1>3. /\ StockOK(ls, rs, bs, issued, adjusted)
      /\ \A x \in OrderIds \ {o} : StatusOK(orders[x], ls, rs, x)
      /\ ProgressOK(r, orders, ls, rs, bs, deliveries)
      /\ BeliefOK(r, orders, reservations, balances, deliveries)
      /\ ls \in [LineIds -> LineRow] /\ rs \in [ReservationIds -> ReservationRow]
      /\ bs \in [StockKeys -> BalanceRow] /\ issued \in [LineIds -> Nat]
      /\ adjusted \in [StockKeys -> Int]
  BY <1>1, <1>2, Underway DEF OrderOfTransaction
<1>4. /\ l \in LineIds /\ key \in StockKeys /\ n > 0 /\ n \in Nat /\ OrderOf[l] = o
      /\ r.onHand \in Nat
  <2>1. Exists(r.delivery, deliveries) /\ l \in LineIds /\ n > 0 /\ r.onHand \in Nat
    BY <1>1, WriterOK DEF RequestOK
  <2>2. deliveries[r.delivery] \in DeliveryRow
    BY <2>1 DEF Exists, IInv, TypeOK
  <2>3. OrderOf[l] = o
    BY <2>1 DEF Exists, IInv, TablesOK
  <2> QED
    BY <2>1, <2>2, <2>3, LinesAssumption DEF DeliveryRow
<1>5. /\ HoldsNothing(rs, o) \/ HoldsReserved(ls, rs, o)
      /\ r.onHand = bs[key].onHand - n
  BY <1>1, <1>3 DEF ProgressOK
<1>6. orders[o] # "FULFILLED" /\ deliveries[r.delivery].status # "DELIVERED"
  BY <1>1, <1>3 DEF BeliefOK
<1>7. LineIssues(ls, ls2, l, n)
  <2> HIDE DEF ls, l, n
  <2> QED
    BY <1>3, <1>4, IssuedLine
<1>8. Sees(pending[w], ls, rs, bs, issued)
  BY SeesOwn
<1> HIDE DEF line, balance
<1>9. ASSUME NEW p, NEW c \in Nat, NEW rs2 \in [ReservationIds -> ReservationRow],
             NEW bs2 \in [StockKeys -> BalanceRow],
             HeldMoves(rs, rs2, l, 0 - c), NoneEmpty(rs2), Fewer(rs, rs2),
             BalanceMoves(bs, bs2, l, 0 - c, n), Sees(p, ls, rs2, bs2, issued),
             Write(w, WriteIssue(WriteLine(p, l, line), l, n))
      PROVE  SequentialInv'
  <2> DEFINE issued2 == [issued EXCEPT ![l] = @ + n]
             q == WriteIssue(WriteLine(p, l, line), l, n)
  <2>1. Sees(q, ls2, rs2, bs2, issued2)
    <3> DEFINE p2 == WriteLine(p, l, line)
    <3> HIDE DEF ls, rs, bs, l, n, issued, p2
    <3>1. Sees(p2, [ls EXCEPT ![l] = line], rs2, bs2, issued)
      BY <1>4, <1>9, SeesWritten DEF p2
    <3>2. Sees(WriteIssue(p2, l, n), [ls EXCEPT ![l] = line], rs2, bs2, [issued EXCEPT ![l] = @ + n])
      BY <1>4, <3>1, SeesIssued
    <3> QED
      BY <3>2 DEF p2
  <2>2. /\ StockOK(ls2, rs2, bs2, issued2, adjusted)
        /\ \A x : HoldsReserved(ls, rs, x) => HoldsReserved(ls2, rs2, x)
    <3> HIDE DEF ls, rs, bs, l, n, issued, adjusted, ls2
    <3> QED
      BY <1>3, <1>4, <1>7, <1>9, Issuing
  <2>3. \A x : HoldsNothing(rs, x) => HoldsNothing(rs2, x)
    BY <1>9, FewerHold
  <2>4. HoldsNothing(rs2, o) \/ HoldsReserved(ls2, rs2, o)
    BY <1>5, <2>2, <2>3
  <2>5. /\ ProgressOK(next, orders, ls2, rs2, bs2, deliveries)
        /\ BeliefOK(next, orders, reservations, balances, deliveries)
        /\ OrderOfTransaction(next, deliveries) = o /\ IssuesNone(next, q)
    <3> HIDE DEF q, ls2
    <3>1. DeliversOn(DeliverNext(r, ls2), o, ls2, rs2, bs2, q)
      BY <1>6, <2>4, DeliverNextProgress
    <3> QED
      BY <3>1 DEF DeliversOn
  <2>6. ASSUME NEW x \in OrderIds \ {o}
        PROVE  StatusOK(orders[x], ls2, rs2, x)
    <3> DEFINE s == orders[x]
               d == 0 - c
    <3>1. StatusOK(s, ls, rs, x) /\ x # OrderOf[l] /\ HeldMoves(rs, rs2, l, d)
      BY <1>3, <1>4, <1>9
    <3>2. LineMoves(ls, ls2, l)
      BY <1>7 DEF LineIssues
    <3>3. \A m \in LinesOf(x) : ls2[m] = ls[m] /\ HeldOfLine(rs2, m) = HeldOfLine(rs, m)
      <4>1. \A m \in LinesOf(x) : m \in LineIds \ {l}
        BY <1>4 DEF LinesOf
      <4>2. \A m : HeldOfLine(rs, m) \in Nat
        BY <1>3, HeldIsNat
      <4> HIDE DEF d
      <4> QED
        BY <3>1, <3>2, <4>1, <4>2 DEF HeldMoves, LineMoves
    <3> HIDE DEF s, ls, ls2, rs
    <3>4. StatusOK(s, ls2, rs2, x)
      BY <2>3, <3>1, <3>3, StatusKept
    <3> QED
      BY <3>4 DEF s
  <2> HIDE DEF ls, rs, bs, issued, adjusted, ls2, issued2, next, q, o
  <2>7. Write(w, q)
    BY <1>9 DEF q
  <2> QED
    BY <1>1, <2>1, <2>2, <2>5, <2>6, <2>7, WriteKeeps DEF adjusted
<1>10. CASE Write(w, WriteIssue(WriteLine(WriteBalance(pending[w], key, balance), l, line), l, n))
  <2> DEFINE p == WriteBalance(pending[w], key, balance)
             bs2 == [bs EXCEPT ![key] = balance]
  <2>1. Sees(p, ls, rs, bs2, issued)
    <3> HIDE DEF ls, rs, bs, issued, key, l
    <3> QED
      BY <1>4, <1>8, SeesWritten
  <2>2. bs2 \in [StockKeys -> BalanceRow] /\ BalanceMoves(bs, bs2, l, 0 - 0, n)
    <3>1. bs[key] \in BalanceRow
      BY <1>3, <1>4
    <3>2. /\ balance \in BalanceRow /\ balance.reserved = bs[key].reserved + (0 - 0)
          /\ balance.onHand = bs[key].onHand - n
      BY <1>4, <1>5, <3>1 DEF balance, BalanceRow
    <3> HIDE DEF bs
    <3> QED
      BY <1>3, <1>4, <3>2 DEF BalanceMoves
  <2>3. HeldMoves(rs, rs, l, 0 - 0)
    BY <1>3, NothingMoves
  <2>4. NoneEmpty(rs) /\ Fewer(rs, rs)
    BY <1>3 DEF StockOK, NoneEmpty, Fewer
  <2>5. 0 \in Nat
    OBVIOUS
  <2> HIDE DEF p, bs2, ls, rs, bs, issued
  <2> QED
    BY <1>3, <1>9, <1>10, <2>1, <2>2, <2>3, <2>4, <2>5 DEF p
<1>11. ASSUME NEW i \in ActiveFor(w, l),
              Write(w, WriteIssue(WriteLine(WriteReservation(WriteBalance(pending[w], key,
                Unhold(balance, Consumed(rs[i], n))), i, Consume(rs[i], n)), l, line), l, n)),
              CheckBalance(Unhold(balance, Consumed(rs[i], n)))
       PROVE  SequentialInv'
  <2> DEFINE c == Consumed(rs[i], n)
             row == Consume(rs[i], n)
             left == Unhold(balance, c)
             q == WriteBalance(pending[w], key, left)
             p == WriteReservation(q, i, row)
             bs2 == [bs EXCEPT ![key] = left]
             rs2 == [rs EXCEPT ![i] = row]
  <2>1. i \in ReservationIds /\ rs[i].status = "ACTIVE" /\ rs[i].line = l /\ rs[i] \in ReservationRow
        /\ rs[i].quantity > 0
    BY <1>3 DEF ActiveFor, StockOK
  <2>2. /\ c \in Nat /\ 0 - c = Weight(row) - Weight(rs[i])
        /\ row \in ReservationRow /\ row.line = l
        /\ row.status = "ACTIVE" => row.quantity > 0
    <3> HIDE DEF n, rs
    <3> QED
      BY <1>4, <2>1, ConsumedWeight
  <2>3. CheckBalance(left)
    BY <1>11
  <2> HIDE DEF c, row
  <2>4. bs2 \in [StockKeys -> BalanceRow] /\ BalanceMoves(bs, bs2, l, 0 - c, n)
    <3>1. bs[key] \in BalanceRow
      BY <1>3, <1>4
    <3>2. /\ balance \in BalanceRow /\ balance.reserved = bs[key].reserved
          /\ balance.onHand = bs[key].onHand - n
      BY <1>4, <1>5, <3>1 DEF balance, BalanceRow
    <3>3. /\ left \in BalanceRow /\ left.reserved = bs[key].reserved + (0 - c)
          /\ left.onHand = bs[key].onHand - n
      <4>1. bs[key].reserved \in Nat
        BY <3>1 DEF BalanceRow
      <4> HIDE DEF bs
      <4> QED
        BY <2>2, <2>3, <3>2, <4>1 DEF Unhold, BalanceRow, CheckBalance
    <3> HIDE DEF left, bs
    <3> QED
      BY <1>3, <1>4, <3>3 DEF BalanceMoves
  <2>5. Sees(p, ls, rs2, bs2, issued)
    <3> HIDE DEF ls, rs, bs, issued, key, l, left, q
    <3>1. Sees(q, ls, rs, [bs EXCEPT ![key] = left], issued)
      BY <1>4, <1>8, SeesWritten DEF q
    <3> QED
      BY <2>1, <3>1, SeesWritten
  <2>6. /\ rs2 \in [ReservationIds -> ReservationRow] /\ rs2[i] = row
        /\ \A j \in ReservationIds \ {i} : rs2[j] = rs[j]
    BY <1>3, <2>1, <2>2
  <2> HIDE DEF rs2
  <2>7. HeldMoves(rs, rs2, l, 0 - c)
    <3>1. HeldMoves(rs, rs2, rs2[i].line, Weight(rs2[i]) - Weight(rs[i]))
      <4> HIDE DEF rs
      <4> QED
        BY <1>3, <2>1, <2>2, <2>6, ReservationMoves
    <3> QED
      BY <2>2, <2>6, <3>1
  <2>8. NoneEmpty(rs2) /\ Fewer(rs, rs2)
    BY <1>3, <2>1, <2>2, <2>6 DEF StockOK, NoneEmpty, Fewer
  <2>9. Write(w, WriteIssue(WriteLine(p, l, line), l, n))
    BY <1>11 DEF c, row
  <2> HIDE DEF p, bs2, ls, rs, bs, issued
  <2> QED
    BY <1>9, <2>2, <2>4, <2>5, <2>6, <2>7, <2>8, <2>9
<1>12. \/ Write(w, WriteIssue(WriteLine(WriteBalance(pending[w], key, balance), l, line), l, n))
       \/ \E i \in ActiveFor(w, l) :
            /\ CheckBalance(Unhold(balance, Consumed(rs[i], n)))
            /\ Write(w, WriteIssue(WriteLine(WriteReservation(WriteBalance(pending[w], key,
                 Unhold(balance, Consumed(rs[i], n))), i, Consume(rs[i], n)), l, line), l, n))
  BY DEF Issue, line, balance
<1> QED
  BY <1>10, <1>11, <1>12

-----------------------------------------------------------------------------
(* Requests that write the tables at once *)

\* The request is over: what is left to show is that the tables agree.
LEMMA EndKeeps ==
  ASSUME Alone, IInv, NEW w \in Workers, Goto(w, Idle),
         StockOK(lines', reservations', balances', movements'.issued, movements'.adjusted),
         \A o \in OrderIds : StatusOK(orders'[o], lines', reservations', o),
         \A l \in LineIds : movements'.issued[l] = DeliveredSum(deliveries', l),
         PostedOnce'
  PROVE  SequentialInv'
<1>1. \A v \in Workers : requests'[v] = Idle
  BY DEF Goto, IInv, Alone
<1>2. ASSUME NEW v \in Workers
      PROVE  /\ BeliefOK(requests'[v], orders', reservations', balances', deliveries')
             /\ requests'[v].pc \notin WritingPcs
             /\ IssuesNone(requests'[v], pending'[v])
  BY <1>1 DEF Idle, BeliefOK, WritingPcs, IssuesNone
<1> QED
  BY <1>2 DEF SequentialInv

\* A delivery order that is not DELIVERED, before and after.
LEMMA UndeliveredChanges ==
  ASSUME NEW ds \in [DeliveryIds -> DeliveryRow], NEW ds2 \in [DeliveryIds -> DeliveryRow],
         NEW d \in DeliveryIds, \A e \in DeliveryIds \ {d} : ds2[e] = ds[e],
         ds[d].status # "DELIVERED", ds2[d].status # "DELIVERED"
  PROVE  \A l \in LineIds : DeliveredSum(ds2, l) = DeliveredSum(ds, l)
<1> SUFFICES ASSUME NEW l \in LineIds PROVE DeliveredSum(ds2, l) = DeliveredSum(ds, l)
  OBVIOUS
<1>1. DeliveredTerms(ds, l)[d] = 0 /\ DeliveredTerms(ds2, l)[d] = 0
  BY DEF DeliveredTerms
<1>2. /\ DeliveredSum(ds, l) \in Nat
      /\ DeliveredSum(ds2, l) = DeliveredSum(ds, l) - DeliveredTerms(ds, l)[d]
                                                    + DeliveredTerms(ds2, l)[d]
  BY DeliveredChanges
<1> QED
  BY <1>1, <1>2

LEMMA UndeliveredWritten ==
  ASSUME Alone, IInv, IInv', SequentialInv, NEW w \in Workers, NEW d \in DeliveryIds,
         \A e \in DeliveryIds \ {d} : deliveries'[e] = deliveries[e],
         deliveries[d].status # "DELIVERED", deliveries'[d].status # "DELIVERED",
         Goto(w, Idle), UNCHANGED <<orders, lines, reservations, balances, movements>>
  PROVE  SequentialInv'
<1>1. deliveries \in [DeliveryIds -> DeliveryRow] /\ deliveries' \in [DeliveryIds -> DeliveryRow]
  BY DEF IInv, TypeOK
<1>2. \A l \in LineIds : DeliveredSum(deliveries', l) = DeliveredSum(deliveries, l)
  BY <1>1, UndeliveredChanges
<1>3. \A l \in LineIds : movements'.issued[l] = DeliveredSum(deliveries', l)
  BY <1>2 DEF SequentialInv
<1>4. PostedOnce'
  BY DEF SequentialInv, PostedOnce
<1>5. /\ StockOK(lines', reservations', balances', movements'.issued, movements'.adjusted)
      /\ \A o \in OrderIds : StatusOK(orders'[o], lines', reservations', o)
  BY DEF SequentialInv
<1> QED
  BY <1>3, <1>4, <1>5, EndKeeps

LEMMA InsertDeliverySequential ==
  ASSUME Alone, IInv, IInv', SequentialInv, NEW w \in Workers, InsertDelivery(w)
  PROVE  SequentialInv'
<1>1. PICK d \in DeliveryIds :
        /\ deliveries[d].status = "NONE"
        /\ deliveries' = [deliveries EXCEPT
             ![d] = [status |-> "DRAFT", order |-> requests[w].order, quantity |-> requests[w].quantity]]
  BY DEF InsertDelivery
<1>2. deliveries \in [DeliveryIds -> DeliveryRow]
  BY DEF IInv, TypeOK
<1>3. deliveries'[d].status = "DRAFT" /\ \A e \in DeliveryIds \ {d} : deliveries'[e] = deliveries[e]
  BY <1>1, <1>2
<1> QED
  BY <1>1, <1>3, UndeliveredWritten DEF InsertDelivery

LEMMA SetDeliverySequential ==
  ASSUME Alone, IInv, IInv', DeliveryInv, SequentialInv, NEW w \in Workers, SetDelivery(w)
  PROVE  SequentialInv'
<1> DEFINE d == requests[w].delivery
           to == requests[w].to
<1>1. /\ d \in DeliveryIds /\ to # "DELIVERED"
      /\ deliveries' = [deliveries EXCEPT ![d].status = to]
  BY WriterOK DEF SetDelivery, RequestOK, Exists, DeliveryInv, Promises
<1>2. deliveries[d].status # "DELIVERED"
  BY DEF SetDelivery, SequentialInv, BeliefOK
<1>3. deliveries \in [DeliveryIds -> DeliveryRow]
  BY DEF IInv, TypeOK
<1>4. deliveries'[d].status = to /\ \A e \in DeliveryIds \ {d} : deliveries'[e] = deliveries[e]
  BY <1>1, <1>3 DEF DeliveryRow
<1> HIDE DEF d, to
<1> QED
  BY <1>1, <1>2, <1>4, UndeliveredWritten DEF SetDelivery

\* Submit, approve, reject and close write over the status they have read.
LEMMA SetOrderSequential ==
  ASSUME Alone, IInv, SequentialInv, NEW w \in Workers, SetOrder(w)
  PROVE  SequentialInv'
<1> DEFINE o == requests[w].order
           to == requests[w].to
<1>1. /\ o \in OrderIds /\ orders' = [orders EXCEPT ![o] = to] /\ Goto(w, Idle)
      /\ UNCHANGED <<lines, reservations, balances, deliveries, movements>>
  BY WriterOK DEF SetOrder, RequestOK, OrderPcs, Known
<1>2. \/ orders[o] \in {"DRAFT", "SUBMITTED"} /\ to \in {"SUBMITTED", "APPROVED", "REJECTED"}
      \/ orders[o] = "FULFILLED" /\ to = "CLOSED"
  BY DEF SetOrder, SequentialInv, BeliefOK
<1>3. orders'[o] = to /\ \A x \in OrderIds \ {o} : orders'[x] = orders[x]
  BY <1>1 DEF IInv, TypeOK
<1>4. StatusOK(orders[o], lines, reservations, o)
  BY <1>1 DEF SequentialInv
<1> HIDE DEF o, to
<1>5. StatusOK(to, lines, reservations, o)
  BY <1>2, <1>4 DEF StatusOK, Past
<1>6. \A x \in OrderIds : StatusOK(orders'[x], lines', reservations', x)
  BY <1>1, <1>3, <1>5 DEF SequentialInv
<1>7. /\ StockOK(lines', reservations', balances', movements'.issued, movements'.adjusted)
      /\ \A l \in LineIds : movements'.issued[l] = DeliveredSum(deliveries', l)
      /\ PostedOnce'
  BY <1>1 DEF SequentialInv, PostedOnce
<1> QED
  BY <1>1, <1>6, <1>7, EndKeeps

\* An adjustment adds to the stock that is on hand now.
LEMMA AdjustSequential ==
  ASSUME Alone, IInv, SequentialInv, NEW w \in Workers, Adjust(w)
  PROVE  SequentialInv'
<1> DEFINE r == requests[w]
<1>1. /\ balances' = [balances EXCEPT ![r.key].onHand = r.onHand]
      /\ movements' = [movements EXCEPT !.adjusted[r.key] = @ + r.delta]
      /\ Goto(w, Idle) /\ UNCHANGED <<orders, lines, reservations, deliveries>>
      /\ r.onHand = balances[r.key].onHand + r.delta
  BY DEF Adjust, SequentialInv, BeliefOK
<1>2. r.key \in StockKeys /\ r.delta \in Int
  BY WriterOK DEF Adjust, RequestOK
<1>3. /\ balances \in [StockKeys -> BalanceRow] /\ movements.adjusted \in [StockKeys -> Int]
      /\ movements \in Movements
  BY DEF IInv, TypeOK, Movements
<1>4. /\ movements'.issued = movements.issued /\ movements'.postings = movements.postings
      /\ movements'.adjusted[r.key] = movements.adjusted[r.key] + r.delta
      /\ \A k \in StockKeys \ {r.key} : movements'.adjusted[k] = movements.adjusted[k]
  BY <1>1, <1>2, <1>3 DEF Movements
<1>5. /\ \A k \in StockKeys : balances'[k].reserved = balances[k].reserved
      /\ balances'[r.key].onHand = balances[r.key].onHand + r.delta
      /\ \A k \in StockKeys \ {r.key} : balances'[k].onHand = balances[k].onHand
  BY <1>1, <1>2, <1>3 DEF BalanceRow
<1> HIDE DEF r
<1>6. ASSUME NEW k \in StockKeys
      PROVE  balances'[k].onHand = InitialStock + movements'.adjusted[k]
                                     - IssuedAt(movements'.issued, k)
  <2>1. balances[k].onHand = InitialStock + movements.adjusted[k] - IssuedAt(movements.issued, k)
    BY DEF SequentialInv, StockOK
  <2>2. /\ IssuedAt(movements.issued, k) \in Int /\ InitialStock \in Int
        /\ movements.adjusted[k] \in Int /\ IssuedAt(movements'.issued, k) = IssuedAt(movements.issued, k)
    BY <1>3, <1>4, IssuedIsInt, BoundsAssumption DEF Movements
  <2>3. CASE k = r.key
    BY <1>2, <1>4, <1>5, <2>1, <2>2, <2>3
  <2>4. CASE k # r.key
    BY <1>4, <1>5, <2>1, <2>2, <2>4
  <2> QED
    BY <2>3, <2>4
<1>7. StockOK(lines', reservations', balances', movements'.issued, movements'.adjusted)
  BY <1>1, <1>5, <1>6 DEF SequentialInv, StockOK
<1>8. /\ \A x \in OrderIds : StatusOK(orders'[x], lines', reservations', x)
      /\ \A l \in LineIds : movements'.issued[l] = DeliveredSum(deliveries', l)
      /\ PostedOnce'
  BY <1>1, <1>4 DEF SequentialInv, PostedOnce
<1> QED
  BY <1>1, <1>7, <1>8, EndKeeps
-----------------------------------------------------------------------------
(* New lines *)

\* Lines whose order has new ones, of which nothing is reserved.
FreshLines(ls, ls2, o) ==
  \A l \in LineIds : IF OrderOf[l] = o THEN ls2[l].reserved = 0 ELSE ls2[l] = ls[l]

LEMMA NothingHeld ==
  ASSUME NEW rs, NEW o, HoldsNothing(rs, o), NEW l \in LinesOf(o)
  PROVE  HeldOfLine(rs, l) = 0
<1> DEFINE f == LineTerms(rs, l)
<1>1. \A i \in ReservationIds : f[i] = 0
  BY DEF LineTerms, Weight, HoldsNothing, LinesOf
<1> HIDE DEF f
<1>2. SumFunctionOnSet(f, ReservationIds) = 0
  BY <1>1, SumZero, FiniteAssumption
<1> QED
  BY <1>2 DEF HeldOfLine, f

LEMMA FreshOrder ==
  ASSUME NEW ls, NEW rs, NEW bs, NEW issued, NEW adjusted,
         StockOK(ls, rs, bs, issued, adjusted), NEW o, HoldsNothing(rs, o),
         NEW ls2 \in [LineIds -> LineRow], FreshLines(ls, ls2, o)
  PROVE  /\ StockOK(ls2, rs, bs, issued, adjusted)
         /\ HoldsReserved(ls2, rs, o)
         /\ StatusOK("DRAFT", ls2, rs, o)
<1>1. \A l \in LinesOf(o) : HeldOfLine(rs, l) = 0 /\ ls2[l].reserved = 0
  BY NothingHeld DEF FreshLines, LinesOf
<1>2. ASSUME NEW l \in LineIds
      PROVE  HeldOfLine(rs, l) <= ls2[l].reserved /\ ls2[l].reserved <= ls2[l].quantity
  <2>1. CASE OrderOf[l] = o
    <3>1. HeldOfLine(rs, l) = 0 /\ ls2[l].reserved = 0 /\ ls2[l].quantity \in Nat
      BY <1>1, <2>1 DEF LinesOf, LineRow
    <3> QED
      BY <3>1
  <2>2. CASE OrderOf[l] # o
    BY <2>2 DEF FreshLines, StockOK
  <2> QED
    BY <2>1, <2>2
<1>3. HoldsReserved(ls2, rs, o)
  BY <1>1 DEF HoldsReserved
<1>4. StatusOK("DRAFT", ls2, rs, o)
  BY <1>3 DEF StatusOK
<1>5. StockOK(ls2, rs, bs, issued, adjusted)
  BY <1>2 DEF StockOK
<1> QED
  BY <1>3, <1>4, <1>5

LEMMA FreshOthers ==
  ASSUME NEW ls, NEW ls2, NEW rs, NEW o, FreshLines(ls, ls2, o), NEW x, x # o, NEW s,
         StatusOK(s, ls, rs, x)
  PROVE  StatusOK(s, ls2, rs, x)
<1>1. \A l \in LinesOf(x) : ls2[l] = ls[l]
  BY DEF FreshLines, LinesOf
<1> QED
  BY <1>1, StatusKept

\* Reservations that are not active do not count.
LEMMA OnlyActiveHold ==
  ASSUME NEW rs, NEW rs2,
         \A i \in ReservationIds : \/ rs2[i] = rs[i]
                                   \/ rs[i].status # "ACTIVE" /\ rs2[i].status # "ACTIVE"
  PROVE  /\ \A k : HeldOfKey(rs2, k) = HeldOfKey(rs, k)
         /\ \A l : HeldOfLine(rs2, l) = HeldOfLine(rs, l)
<1>1. IsFiniteSet(ReservationIds)
  BY FiniteAssumption
<1>2. ASSUME NEW k PROVE HeldOfKey(rs2, k) = HeldOfKey(rs, k)
  <2> DEFINE f == KeyTerms(rs, k)
             g == KeyTerms(rs2, k)
  <2>1. \A i \in ReservationIds : g[i] = f[i]
    BY DEF KeyTerms, Weight
  <2> HIDE DEF f, g
  <2>2. SumFunctionOnSet(g, ReservationIds) = SumFunctionOnSet(f, ReservationIds)
    BY <1>1, <2>1, SumEqual
  <2> QED
    BY <2>2 DEF HeldOfKey, f, g
<1>3. ASSUME NEW l PROVE HeldOfLine(rs2, l) = HeldOfLine(rs, l)
  <2> DEFINE f == LineTerms(rs, l)
             g == LineTerms(rs2, l)
  <2>1. \A i \in ReservationIds : g[i] = f[i]
    BY DEF LineTerms, Weight
  <2> HIDE DEF f, g
  <2>2. SumFunctionOnSet(g, ReservationIds) = SumFunctionOnSet(f, ReservationIds)
    BY <1>1, <2>1, SumEqual
  <2> QED
    BY <2>2 DEF HeldOfLine, f, g
<1> QED
  BY <1>2, <1>3

\* update() replaces the lines of a DRAFT order, for which nothing is reserved.
LEMMA ReplaceLinesSequential ==
  ASSUME Alone, IInv, IInv', SequentialInv, NEW w \in Workers, ReplaceLines(w)
  PROVE  SequentialInv'
<1> DEFINE o == requests[w].order
           rs2 == [i \in ReservationIds |->
             IF /\ reservations[i].status # "NONE"
                /\ OrderOf[reservations[i].line] = o
             THEN [reservations[i] EXCEPT !.status = "DELETED"]
             ELSE reservations[i]]
<1>1. /\ o \in OrderIds /\ lines' = NewLines(o, requests[w].quantity) /\ reservations' = rs2
      /\ Goto(w, Idle) /\ UNCHANGED <<orders, balances, deliveries, movements>>
      /\ orders[o] = "DRAFT"
  BY WriterOK DEF ReplaceLines, RequestOK, OrderPcs, Known, SequentialInv, BeliefOK
<1>2. /\ reservations \in [ReservationIds -> ReservationRow] /\ lines' \in [LineIds -> LineRow]
  BY DEF IInv, TypeOK
<1>3. HoldsNothing(reservations, o)
  BY <1>1 DEF SequentialInv, StatusOK
<1>4. ASSUME NEW i \in ReservationIds
      PROVE  \/ rs2[i] = reservations[i]
             \/ reservations[i].status # "ACTIVE" /\ rs2[i].status # "ACTIVE"
  BY <1>2, <1>3 DEF HoldsNothing, ReservationRow
<1> HIDE DEF rs2, o
<1>5. /\ \A k : HeldOfKey(rs2, k) = HeldOfKey(reservations, k)
      /\ \A l : HeldOfLine(rs2, l) = HeldOfLine(reservations, l)
  BY <1>4, OnlyActiveHold
<1>6. \A x : HoldsNothing(reservations, x) => HoldsNothing(rs2, x)
  BY <1>4 DEF HoldsNothing
<1>7. StockOK(lines, rs2, balances, movements.issued, movements.adjusted)
  BY <1>4, <1>5 DEF SequentialInv, StockOK
<1>8. FreshLines(lines, lines', o)
  BY <1>1 DEF NewLines, FreshLines
<1>9. /\ StockOK(lines', rs2, balances, movements.issued, movements.adjusted)
      /\ StatusOK("DRAFT", lines', rs2, o)
  BY <1>2, <1>3, <1>6, <1>7, <1>8, FreshOrder
<1>10. ASSUME NEW x \in OrderIds PROVE StatusOK(orders[x], lines', rs2, x)
  <2>1. StatusOK(orders[x], lines, reservations, x)
    BY DEF SequentialInv
  <2>2. StatusOK(orders[x], lines, rs2, x)
    BY <1>5, <1>6, <2>1, StatusKept
  <2>3. CASE x = o
    BY <1>1, <1>9, <2>3
  <2>4. CASE x # o
    BY <1>8, <2>2, <2>4, FreshOthers
  <2> QED
    BY <2>3, <2>4
<1>11. /\ StockOK(lines', reservations', balances', movements'.issued, movements'.adjusted)
       /\ \A x \in OrderIds : StatusOK(orders'[x], lines', reservations', x)
       /\ \A l \in LineIds : movements'.issued[l] = DeliveredSum(deliveries', l)
       /\ PostedOnce'
  BY <1>1, <1>9, <1>10 DEF SequentialInv, PostedOnce
<1> QED
  BY <1>1, <1>11, EndKeeps
\* A transaction goes on when nothing of its order has changed.
LEMMA ProgressKept ==
  ASSUME NEW r, NEW os, NEW os2, NEW ls, NEW ls2, NEW rs, NEW bs, NEW ds, NEW x,
         x = OrderOfTransaction(r, ds), ProgressOK(r, os, ls, rs, bs, ds),
         os2[x] = os[x], \A l \in LinesOf(x) : ls2[l] = ls[l]
  PROVE  ProgressOK(r, os2, ls2, rs, bs, ds)
<1>1. /\ HoldsReserved(ls, rs, x) => HoldsReserved(ls2, rs, x)
      /\ FullyDelivered(ls, x) => FullyDelivered(ls2, x)
      /\ \A s : StatusOK(s, ls, rs, x) => StatusOK(s, ls2, rs, x)
  BY DEF HoldsReserved, FullyDelivered, StatusOK
<1>2. CASE r.pc \in {"deliver", "issue"}
  BY <1>1, <1>2 DEF ProgressOK, OrderOfTransaction
<1>3. CASE r.pc \notin {"deliver", "issue"}
  <2>1. x = r.order
    BY <1>3 DEF OrderOfTransaction
  <2>2. CASE r.pc \in {"allocate", "reserve"}
    <3>1. /\ HoldsReserved(ls2, rs, r.order)
          /\ \A l \in LinesOf(r.order) :
            /\ ls2[l].quantity = r.seen[l].quantity /\ ls2[l].delivered = r.seen[l].delivered
            /\ ls2[l].reserved = r.seen[l].reserved
                                 + (IF r.pc = "reserve" /\ l = r.line THEN 0 ELSE r.took[l])
            /\ l \in r.todo => r.took[l] = 0
      BY <1>1, <2>1, <2>2 DEF ProgressOK
    <3> QED
      BY <2>2, <3>1 DEF ProgressOK
  <2>3. CASE r.pc = "giveBack"
    BY <1>1, <2>1, <2>3 DEF ProgressOK
  <2>4. CASE r.pc = "commit"
    BY <1>1, <2>1, <2>4 DEF ProgressOK
  <2>5. CASE r.pc \notin {"allocate", "reserve", "giveBack", "commit"}
    BY <1>3, <2>5 DEF ProgressOK
  <2> QED
    BY <2>2, <2>3, <2>4, <2>5
<1> QED
  BY <1>2, <1>3

LEMMA BeliefKept ==
  ASSUME NEW r, NEW os, NEW os2, NEW rs, NEW bs, NEW ds, BeliefOK(r, os, rs, bs, ds),
         r.pc \in OrderPcs => os2[r.order] = os[r.order],
         r.pc = "issue" => os2[ds[r.delivery].order] = os[ds[r.delivery].order]
  PROVE  BeliefOK(r, os2, rs, bs, ds)
<1>1. CASE r.pc = "issue"
  BY <1>1 DEF BeliefOK
<1>2. CASE r.pc \in OrderPcs
  BY <1>2 DEF BeliefOK, OrderPcs
<1>3. CASE r.pc \notin OrderPcs \cup {"issue"}
  BY <1>3 DEF BeliefOK, OrderPcs
<1> QED
  BY <1>1, <1>2, <1>3

\* create() adds an order; the request under way is about another one.
LEMMA CreateSequential ==
  ASSUME Alone, IInv, IInv', SequentialInv, NEW o \in OrderIds, Create(o)
  PROVE  SequentialInv'
<1>1. /\ orders[o] = "NONE" /\ orders' = [orders EXCEPT ![o] = "DRAFT"]
      /\ \E quantity : lines' = NewLines(o, quantity)
      /\ UNCHANGED <<reservations, balances, deliveries, movements, requests, pending>>
  BY DEF Create
<1>2. /\ orders'[o] = "DRAFT" /\ \A x : Known(x, orders) => x # o /\ orders'[x] = orders[x]
      /\ \A x \in OrderIds \ {o} : orders'[x] = orders[x]
  BY <1>1 DEF IInv, TypeOK, Known
<1>3. FreshLines(lines, lines', o) /\ lines' \in [LineIds -> LineRow] /\ lines \in [LineIds -> LineRow]
  <2>1. lines' \in [LineIds -> LineRow] /\ lines \in [LineIds -> LineRow]
    BY DEF IInv, TypeOK
  <2>2. PICK quantity : lines' = NewLines(o, quantity)
    BY <1>1
  <2>3. FreshLines(lines, lines', o)
    BY <2>2 DEF NewLines, FreshLines
  <2> QED
    BY <2>1, <2>3
<1>4. HoldsNothing(reservations, o)
  BY <1>2 DEF HoldsNothing, IInv, TablesOK
<1>5. /\ StockOK(lines', reservations, balances, movements.issued, movements.adjusted)
      /\ \A x \in OrderIds : StatusOK(orders'[x], lines', reservations, x)
  <2>1. StockOK(lines, reservations, balances, movements.issued, movements.adjusted)
    BY DEF SequentialInv
  <2>2. /\ StockOK(lines', reservations, balances, movements.issued, movements.adjusted)
        /\ StatusOK("DRAFT", lines', reservations, o)
    BY <1>3, <1>4, <2>1, FreshOrder
  <2>3. ASSUME NEW x \in OrderIds, x # o PROVE StatusOK(orders[x], lines', reservations, x)
    <3>1. StatusOK(orders[x], lines, reservations, x)
      BY DEF SequentialInv
    <3> QED
      BY <1>3, <2>3, <3>1, FreshOthers
  <2> QED
    BY <1>2, <2>2, <2>3
<1>6. ASSUME NEW w \in Workers
      PROVE  BeliefOK(requests[w], orders', reservations, balances, deliveries)
  <2>1. BeliefOK(requests[w], orders, reservations, balances, deliveries)
    BY DEF SequentialInv
  <2>2. requests[w].pc \in OrderPcs => Known(requests[w].order, orders)
    BY WriterOK DEF RequestOK
  <2>3. requests[w].pc = "issue" => Known(deliveries[requests[w].delivery].order, orders)
    BY WriterOK DEF RequestOK, IInv, TablesOK, Exists
  <2> QED
    BY <1>2, <2>1, <2>2, <2>3, BeliefKept
<1>7. ASSUME NEW w \in Workers, requests[w].pc \in WritingPcs
      PROVE  TransactionOK(w)'
  <2> DEFINE r == requests[w]
             ls == LinesSeen(w)
             ls2 == Overlay(pending[w].lines, lines')
             rs == ReservationsSeen(w)
             bs == BalancesSeen(w)
             x == OrderOfTransaction(r, deliveries)
  <2>1. /\ StockOK(ls, rs, bs, IssuedSeen(w), movements.adjusted)
        /\ \A y \in OrderIds \ {x} : StatusOK(orders[y], ls, rs, y)
        /\ ProgressOK(r, orders, ls, rs, bs, deliveries)
    BY <1>7, Underway
  <2>2. Known(x, orders)
    <3>1. r.pc \in {"deliver", "issue"} => Known(deliveries[r.delivery].order, orders)
      BY WriterOK DEF RequestOK, IInv, TablesOK, Exists
    <3>2. r.pc \notin {"deliver", "issue"} => Known(r.order, orders)
      BY <1>7, WriterOK DEF RequestOK, OrderPcs, WritingPcs
    <3> QED
      BY <3>1, <3>2 DEF OrderOfTransaction
  <2>3. FreshLines(ls, ls2, o)
    <3>1. \A l \in LineIds : l \in DOMAIN pending[w].lines => Known(OrderOf[l], orders)
      BY WriterOK DEF WritesOK
    <3>2. \A l \in LineIds :
            /\ ls[l] = IF l \in DOMAIN pending[w].lines THEN pending[w].lines[l] ELSE lines[l]
            /\ ls2[l] = IF l \in DOMAIN pending[w].lines THEN pending[w].lines[l] ELSE lines'[l]
      BY <1>3 DEF LinesSeen, Overlay
    <3> HIDE DEF ls, ls2
    <3> QED
      BY <1>2, <1>3, <3>1, <3>2 DEF FreshLines
  <2>4. ls2 \in [LineIds -> LineRow]
    <3>1. LinesSeen(w)' = ls2
      BY <1>1 DEF LinesSeen
    <3>2. (LinesSeen(w) \in [LineIds -> LineRow])'
      <4>1. IsRows(pending[w].lines, LineIds, LineRow)
        BY WriterOK DEF WritesOK, WritesTyped
      <4> QED
        BY <1>1, <1>3, <4>1 DEF LinesSeen, Overlay, IsRows
    <3> QED
      BY <3>1, <3>2
  <2>5. HoldsNothing(rs, o)
    <3>1. \A i \in DOMAIN pending[w].reservations :
            Known(OrderOf[pending[w].reservations[i].line], orders)
      BY WriterOK DEF WritesOK
    <3>2. \A i \in ReservationIds : rs[i] = IF i \in DOMAIN pending[w].reservations
                                            THEN pending[w].reservations[i] ELSE reservations[i]
      BY DEF ReservationsSeen, Overlay, IInv, TypeOK
    <3> HIDE DEF rs
    <3> QED
      BY <1>2, <1>4, <3>1, <3>2 DEF HoldsNothing
  <2> HIDE DEF ls, ls2, rs, bs, r
  <2>6. /\ StockOK(ls2, rs, bs, IssuedSeen(w), movements.adjusted)
        /\ StatusOK("DRAFT", ls2, rs, o)
    BY <2>1, <2>3, <2>4, <2>5, FreshOrder
  <2>7. ASSUME NEW y \in OrderIds \ {x} PROVE StatusOK(orders'[y], ls2, rs, y)
    <3>1. CASE y = o
      BY <1>2, <2>6, <3>1
    <3>2. CASE y # o
      <4>1. StatusOK(orders[y], ls, rs, y)
        BY <2>1
      <4> QED
        BY <1>2, <2>3, <3>2, <4>1, FreshOthers
    <3> QED
      BY <3>1, <3>2
  <2>8. ProgressOK(r, orders', ls2, rs, bs, deliveries)
    <3>1. \A l \in LinesOf(x) : ls2[l] = ls[l]
      BY <1>2, <2>2, <2>3 DEF FreshLines, LinesOf
    <3>2. orders'[x] = orders[x]
      BY <1>2, <2>2
    <3> HIDE DEF x
    <3> QED
      BY <2>1, <3>1, <3>2, ProgressKept DEF x
  <2>9. Consistent(r, orders', ls2, rs, bs, IssuedSeen(w), movements.adjusted, deliveries)
    BY <2>6, <2>7, <2>8 DEF Consistent
  <2> QED
    BY <1>1, <2>9 DEF TransactionOK, LinesSeen, ReservationsSeen, BalancesSeen, IssuedSeen,
                      r, ls2, rs, bs
<1> QED
  BY <1>1, <1>5, <1>6, <1>7 DEF SequentialInv, PostedOnce, WritingPcs
-----------------------------------------------------------------------------
(* The commit *)

\* A delivery order becomes DELIVERED with the movements of all its lines, once.
LEMMA CommitPosts ==
  ASSUME IInv, IInv', DeliveryInv, SequentialInv, NEW w \in Workers, Commit(w)
  PROVE  (\A l \in LineIds : movements'.issued[l] = DeliveredSum(deliveries', l)) /\ PostedOnce'
<1> DEFINE r == requests[w]
           p == pending[w]
<1>1. /\ deliveries' = [d \in DeliveryIds |->
            IF d \in r.delivered THEN [deliveries[d] EXCEPT !.status = "DELIVERED"]
                                 ELSE deliveries[d]]
      /\ \A l \in LineIds : movements'.issued[l] = movements.issued[l] + p.issued[l]
      /\ \A d \in DeliveryIds :
           movements'.postings[d] = IF d \in r.delivered THEN movements.postings[d] + 1
                                                         ELSE movements.postings[d]
  BY DEF Commit, IInv, TypeOK, Movements
<1>2. \/ r.delivered = {}
      \/ \E d \in DeliveryIds :
           r.delivered = {d} /\ \A l \in LineIds : p.issued[l] = deliveries[d].quantity[l]
  BY DEF Commit, DeliveryInv, Promises
<1>3. r.delivered = {} => \A l \in LineIds : p.issued[l] = 0
  BY DEF Commit, SequentialInv, IssuesNone
<1>4. \A d \in r.delivered : deliveries[d].status # "DELIVERED"
  BY DEF Commit, SequentialInv, BeliefOK
<1>5. deliveries \in [DeliveryIds -> DeliveryRow] /\ deliveries' \in [DeliveryIds -> DeliveryRow]
  BY DEF IInv, TypeOK
<1>6. \A l \in LineIds : movements.issued[l] = DeliveredSum(deliveries, l) /\ movements.issued[l] \in Nat
  BY DEF SequentialInv, IInv, TypeOK, Movements
<1>7. \A d \in DeliveryIds :
        /\ deliveries'[d].quantity = deliveries[d].quantity
        /\ deliveries'[d].status = IF d \in r.delivered THEN "DELIVERED" ELSE deliveries[d].status
  BY <1>1, <1>5 DEF DeliveryRow
<1>8. PostedOnce'
  BY <1>1, <1>4, <1>7 DEF SequentialInv, PostedOnce
<1> HIDE DEF r, p
<1>9. ASSUME NEW l \in LineIds
      PROVE  movements'.issued[l] = DeliveredSum(deliveries', l)
  <2>1. CASE r.delivered = {}
    <3>1. deliveries' = deliveries
      BY <1>1, <1>5, <2>1
    <3>2. movements'.issued[l] = movements.issued[l]
      BY <1>1, <1>3, <1>6, <2>1
    <3> QED
      BY <1>6, <3>1, <3>2
  <2>2. ASSUME NEW d \in DeliveryIds, r.delivered = {d}, p.issued[l] = deliveries[d].quantity[l]
        PROVE  movements'.issued[l] = DeliveredSum(deliveries', l)
    <3>1. \A e \in DeliveryIds \ {d} : deliveries'[e] = deliveries[e]
      BY <1>1, <2>2
    <3>2. DeliveredSum(deliveries', l) = DeliveredSum(deliveries, l)
            - DeliveredTerms(deliveries, l)[d] + DeliveredTerms(deliveries', l)[d]
      BY <1>5, <3>1, DeliveredChanges
    <3>3. DeliveredTerms(deliveries, l)[d] = 0 /\ DeliveredTerms(deliveries', l)[d] = p.issued[l]
      BY <1>4, <1>7, <2>2 DEF DeliveredTerms
    <3>4. p.issued[l] \in Nat
      BY <1>5, <2>2 DEF DeliveryRow
    <3> QED
      BY <1>1, <1>6, <3>2, <3>3, <3>4
  <2> QED
    BY <1>2, <2>1, <2>2
<1> QED
  BY <1>8, <1>9

LEMMA CommitSequential ==
  ASSUME Alone, IInv, IInv', DeliveryInv, SequentialInv, NEW w \in Workers, Commit(w)
  PROVE  SequentialInv'
<1> DEFINE r == requests[w]
<1>1. /\ r.pc = "commit" /\ r.pc \in WritingPcs
      /\ orders' = [orders EXCEPT ![r.order] = r.status]
      /\ lines' = LinesSeen(w) /\ reservations' = ReservationsSeen(w) /\ balances' = BalancesSeen(w)
      /\ Goto(w, Idle)
  BY DEF Commit, WritingPcs
<1>2. movements'.issued = IssuedSeen(w) /\ movements'.adjusted = movements.adjusted
  BY DEF Commit, IInv, TypeOK, Movements, IssuedSeen
<1>3. /\ StockOK(lines', reservations', balances', movements'.issued, movements'.adjusted)
      /\ \A x \in OrderIds \ {r.order} : StatusOK(orders[x], lines', reservations', x)
      /\ StatusOK(r.status, lines', reservations', r.order)
  <2>1. /\ StockOK(LinesSeen(w), ReservationsSeen(w), BalancesSeen(w), IssuedSeen(w),
                   movements.adjusted)
        /\ \A x \in OrderIds \ {OrderOfTransaction(r, deliveries)} :
             StatusOK(orders[x], LinesSeen(w), ReservationsSeen(w), x)
        /\ ProgressOK(r, orders, LinesSeen(w), ReservationsSeen(w), BalancesSeen(w), deliveries)
    BY <1>1, Underway
  <2>2. OrderOfTransaction(r, deliveries) = r.order
    BY <1>1 DEF OrderOfTransaction
  <2>3. StatusOK(r.status, LinesSeen(w), ReservationsSeen(w), r.order)
    BY <1>1, <2>1 DEF ProgressOK
  <2> HIDE DEF r
  <2> QED
    BY <1>1, <1>2, <2>1, <2>2, <2>3
<1>4. r.order \in OrderIds /\ orders \in [OrderIds -> OrderStatus]
  BY <1>1, WriterOK DEF RequestOK, OrderPcs, Known, IInv, TypeOK
<1>5. \A x \in OrderIds : StatusOK(orders'[x], lines', reservations', x)
  <2>1. orders'[r.order] = r.status /\ \A x \in OrderIds \ {r.order} : orders'[x] = orders[x]
    BY <1>1, <1>4
  <2> QED
    BY <1>3, <2>1
<1> QED
  BY <1>1, <1>3, <1>5, CommitPosts, EndKeeps

-----------------------------------------------------------------------------
(* The theorems *)

LEMMA SequentialKept ==
  ASSUME Alone, IInv, IInv', DeliveryInv, SequentialInv, [Next]_vars
  PROVE  SequentialInv'
<1>1. ASSUME NEW o \in OrderIds, Create(o) PROVE SequentialInv'
  BY <1>1, CreateSequential
<1>2. ASSUME NEW w \in Workers, NEW o \in OrderIds, OrderRequest(w, o) PROVE SequentialInv'
  BY <1>2, OrderRequestSequential
<1>3. ASSUME NEW w \in Workers, NEW d \in DeliveryIds, DeliveryRequest(w, d) PROVE SequentialInv'
  BY <1>3, DeliveryRequestSequential
<1>4. ASSUME NEW w \in Workers,
             \/ \E i \in ReservationIds : BeginRelease(w, i)
             \/ \E key \in StockKeys, n \in Adjustments : BeginAdjust(w, key, n)
      PROVE  SequentialInv'
  BY <1>4, StockRequestSequential
<1>5. ASSUME NEW w \in Workers, Continue(w) PROVE SequentialInv'
  <2>1. CASE ReplaceLines(w) \/ SetOrder(w) \/ Adjust(w) \/ Commit(w) \/ Abort(w)
    BY <2>1, ReplaceLinesSequential, SetOrderSequential, AdjustSequential, CommitSequential,
       AbortSequential
  <2>2. CASE ConfirmAllocate(w) \/ ReadAvailable(w) \/ Reserve(w)
    BY <2>2, ConfirmAllocateSequential, ReadAvailableSequential, ReserveSequential
  <2>3. CASE ListReservations(w) \/ GiveBack(w) \/ Release(w)
    BY <2>3, ListReservationsSequential, GiveBackSequential, ReleaseSequential
  <2>4. CASE InsertDelivery(w) \/ SetDelivery(w) \/ ReadOnHand(w) \/ Issue(w)
    BY <2>4, InsertDeliverySequential, SetDeliverySequential, ReadOnHandSequential, IssueSequential
  <2> QED
    BY <1>5, <2>1, <2>2, <2>3, <2>4 DEF Continue
<1>6. CASE UNCHANGED vars
  BY <1>6 DEF vars, db, SequentialInv, PostedOnce, TransactionOK, LinesSeen, ReservationsSeen,
              BalancesSeen, IssuedSeen
<1> QED
  BY <1>1, <1>2, <1>3, <1>4, <1>5, <1>6 DEF Next

\* Nothing is ordered, reserved, issued or under way.
LEMMA SequentialInit ==
  ASSUME Init
  PROVE  SequentialInv
<1>1. \A i \in ReservationIds : reservations[i].status = "NONE"
  BY DEF Init, NoReservation
<1>2. (\A k : HeldOfKey(reservations, k) = 0) /\ (\A l : HeldOfLine(reservations, l) = 0)
  <2>1. IsFiniteSet(ReservationIds)
    BY FiniteAssumption
  <2>2. ASSUME NEW k PROVE HeldOfKey(reservations, k) = 0
    <3> DEFINE f == KeyTerms(reservations, k)
    <3>1. \A i \in ReservationIds : f[i] = 0
      BY <1>1 DEF KeyTerms, Weight
    <3> HIDE DEF f
    <3>2. SumFunctionOnSet(f, ReservationIds) = 0
      BY <2>1, <3>1, SumZero
    <3> QED
      BY <3>2 DEF HeldOfKey, f
  <2>3. ASSUME NEW l PROVE HeldOfLine(reservations, l) = 0
    <3> DEFINE f == LineTerms(reservations, l)
    <3>1. \A i \in ReservationIds : f[i] = 0
      BY <1>1 DEF LineTerms, Weight
    <3> HIDE DEF f
    <3>2. SumFunctionOnSet(f, ReservationIds) = 0
      BY <2>1, <3>1, SumZero
    <3> QED
      BY <3>2 DEF HeldOfLine, f
  <2> QED
    BY <2>2, <2>3
<1>3. ASSUME NEW k PROVE IssuedAt(movements.issued, k) = 0
  <2> DEFINE f == IssuedTerms(movements.issued, k)
  <2>1. \A l \in LineIds : f[l] = 0
    BY DEF Init, IssuedTerms
  <2> HIDE DEF f
  <2>2. SumFunctionOnSet(f, LineIds) = 0
    BY <2>1, SumZero, FiniteAssumption
  <2> QED
    BY <2>2 DEF IssuedAt, f
<1>4. ASSUME NEW l \in LineIds PROVE DeliveredSum(deliveries, l) = 0
  <2> DEFINE f == DeliveredTerms(deliveries, l)
  <2>1. \A d \in DeliveryIds : f[d] = 0
    BY DEF Init, DeliveredTerms, NoDelivery
  <2> HIDE DEF f
  <2>2. SumFunctionOnSet(f, DeliveryIds) = 0
    BY <2>1, SumZero, FiniteAssumption
  <2> QED
    BY <2>2 DEF DeliveredSum, f
<1>5. /\ \A k \in StockKeys : balances[k].reserved = 0 /\ balances[k].onHand = InitialStock
      /\ \A k \in StockKeys : movements.adjusted[k] = 0
      /\ \A l \in LineIds : lines[l].reserved = 0 /\ lines[l].quantity = 0 /\ lines[l].delivered = 0
      /\ \A o \in OrderIds : orders[o] = "NONE"
      /\ \A l \in LineIds : movements.issued[l] = 0
  BY DEF Init
<1>6. StockOK(lines, reservations, balances, movements.issued, movements.adjusted)
  BY <1>1, <1>2, <1>3, <1>5, BoundsAssumption DEF StockOK
<1>7. ASSUME NEW o \in OrderIds PROVE StatusOK(orders[o], lines, reservations, o)
  <2>1. HoldsReserved(lines, reservations, o)
    BY <1>2, <1>5 DEF HoldsReserved, LinesOf
  <2> QED
    BY <1>5, <2>1 DEF StatusOK
<1>8. PostedOnce
  BY DEF Init, PostedOnce, NoDelivery
<1>9. ASSUME NEW w \in Workers
      PROVE  /\ BeliefOK(requests[w], orders, reservations, balances, deliveries)
             /\ requests[w].pc \notin WritingPcs
             /\ IssuesNone(requests[w], pending[w])
  <2>1. requests[w] = Idle
    BY DEF Init
  <2> QED
    BY <2>1 DEF Idle, BeliefOK, WritingPcs, IssuesNone
<1> QED
  BY <1>4, <1>5, <1>6, <1>7, <1>8, <1>9 DEF SequentialInv
\* What the properties add up is what the invariant does.
LEMMA HeldOfKeyIsActive ==
  ASSUME IInv, NEW k \in StockKeys
  PROVE  ActiveQuantity(ActiveOfKey(k)) = HeldOfKey(reservations, k)
<1> DEFINE T == ActiveOfKey(k)
           f == [i \in T |-> reservations[i].quantity]
           g == KeyTerms(reservations, k)
<1>1. ActiveQuantity(ActiveOfKey(k)) = SumFunctionOnSet(f, T)
  BY DEF ActiveQuantity, SumFunction
<1>2. \A i \in ReservationIds : g[i] \in Int
  <2>1. reservations \in [ReservationIds -> ReservationRow]
    BY DEF IInv, TypeOK
  <2> QED
    BY <2>1, HeldTermsTyped
<1>3. /\ \A i \in ReservationIds \ T : g[i] = 0
      /\ \A i \in T : f[i] = g[i]
  BY DEF ActiveOfKey, KeyTerms, Weight
<1>4. T \in SUBSET ReservationIds /\ IsFiniteSet(T) /\ IsFiniteSet(ReservationIds)
  BY FiniteAssumption, FS_Subset DEF ActiveOfKey
<1> HIDE DEF T, f, g
<1>5. SumFunctionOnSet(f, T) = SumFunctionOnSet(g, T)
  BY <1>3, <1>4, SumEqual
<1>6. SumFunctionOnSet(g, T) = SumFunctionOnSet(g, ReservationIds)
  BY <1>2, <1>3, <1>4, SumSubset
<1> QED
  BY <1>1, <1>5, <1>6 DEF HeldOfKey, g

LEMMA HeldOfLineIsActive ==
  ASSUME IInv, NEW l \in LineIds
  PROVE  ActiveQuantity(ActiveOfLine(l)) = HeldOfLine(reservations, l)
<1> DEFINE T == ActiveOfLine(l)
           f == [i \in T |-> reservations[i].quantity]
           g == LineTerms(reservations, l)
<1>1. ActiveQuantity(ActiveOfLine(l)) = SumFunctionOnSet(f, T)
  BY DEF ActiveQuantity, SumFunction
<1>2. \A i \in ReservationIds : g[i] \in Int
  <2>1. reservations \in [ReservationIds -> ReservationRow]
    BY DEF IInv, TypeOK
  <2> QED
    BY <2>1, HeldTermsTyped
<1>3. /\ \A i \in ReservationIds \ T : g[i] = 0
      /\ \A i \in T : f[i] = g[i]
  BY DEF ActiveOfLine, LineTerms, Weight
<1>4. T \in SUBSET ReservationIds /\ IsFiniteSet(T) /\ IsFiniteSet(ReservationIds)
  BY FiniteAssumption, FS_Subset DEF ActiveOfLine
<1> HIDE DEF T, f, g
<1>5. SumFunctionOnSet(f, T) = SumFunctionOnSet(g, T)
  BY <1>3, <1>4, SumEqual
<1>6. SumFunctionOnSet(g, T) = SumFunctionOnSet(g, ReservationIds)
  BY <1>2, <1>3, <1>4, SumSubset
<1> QED
  BY <1>1, <1>5, <1>6 DEF HeldOfLine, g

LEMMA IssuedAtIsIssued ==
  ASSUME IInv, NEW k \in StockKeys
  PROVE  IssuedOfKey(k) = IssuedAt(movements.issued, k)
<1> DEFINE T == {m \in LineIds : KeyOf[m] = k}
           f == [l \in T |-> movements.issued[l]]
           g == IssuedTerms(movements.issued, k)
<1>1. IssuedOfKey(k) = SumFunctionOnSet(f, T)
  BY DEF IssuedOfKey, SumFunction
<1>2. \A l \in LineIds : g[l] \in Int
  BY DEF IInv, TypeOK, Movements, IssuedTerms
<1>3. /\ \A l \in LineIds \ T : g[l] = 0
      /\ \A l \in T : f[l] = g[l]
  BY DEF IssuedTerms
<1>4. T \in SUBSET LineIds /\ IsFiniteSet(T) /\ IsFiniteSet(LineIds)
  BY FiniteAssumption, FS_Subset
<1> HIDE DEF T, f, g
<1>5. SumFunctionOnSet(f, T) = SumFunctionOnSet(g, T)
  BY <1>3, <1>4, SumEqual
<1>6. SumFunctionOnSet(g, T) = SumFunctionOnSet(g, LineIds)
  BY <1>2, <1>3, <1>4, SumSubset
<1> QED
  BY <1>1, <1>5, <1>6 DEF IssuedAt, g

\* What holds in every state when requests do not overlap.
THEOREM SequentialInductive ==
  ASSUME Alone
  PROVE  Spec => [](IInv /\ DeliveryInv /\ SequentialInv)
<1>1. Init => IInv /\ DeliveryInv /\ SequentialInv
  BY InitOK, DeliveryInit, SequentialInit
<1>2. IInv /\ DeliveryInv /\ SequentialInv /\ [Next]_vars => (IInv /\ DeliveryInv /\ SequentialInv)'
  <2> SUFFICES ASSUME IInv, DeliveryInv, SequentialInv, [Next]_vars
               PROVE  (IInv /\ DeliveryInv /\ SequentialInv)'
    OBVIOUS
  <2>1. IInv'
    BY NextKeeps
  <2> QED
    BY <2>1, DeliveryKept, SequentialKept
<1> QED
  BY <1>1, <1>2, PTL DEF Spec

\* Requests that do not overlap keep the reserved stock of a balance the sum of
\* the active reservations: allocate, release, cancel and executeDelivery each
\* write both, and executeDelivery writes what is left of a reservation.
THEOREM ReservationSafety ==
  ASSUME Alone
  PROVE  Spec => []ReservedIsActive
<1>1. IInv /\ SequentialInv => ReservedIsActive
  BY HeldOfKeyIsActive DEF ReservedIsActive, SequentialInv, StockOK
<1>2. Spec => [](IInv /\ DeliveryInv /\ SequentialInv)
  BY SequentialInductive
<1> QED
  BY <1>1, <1>2, PTL

\* Requests that do not overlap keep the stock on hand what the ledger says:
\* the balance executeDelivery and adjustments write from an earlier read is
\* still the one they read.
THEOREM LedgerSafety ==
  ASSUME Alone
  PROVE  Spec => []OnHandIsLedger
<1>1. IInv /\ SequentialInv => OnHandIsLedger
  BY IssuedAtIsIssued DEF OnHandIsLedger, SequentialInv, StockOK
<1>2. Spec => [](IInv /\ DeliveryInv /\ SequentialInv)
  BY SequentialInductive
<1> QED
  BY <1>1, <1>2, PTL

\* Requests that do not overlap issue stock once for every delivery order that
\* is DELIVERED, and for no other.
THEOREM IssueSafety ==
  ASSUME Alone
  PROVE  Spec => []IssuedWasDelivered
<1>1. IInv /\ SequentialInv => IssuedWasDelivered
  <2> SUFFICES ASSUME IInv, SequentialInv PROVE IssuedWasDelivered
    OBVIOUS
  <2>1. ASSUME NEW l \in LineIds PROVE movements.issued[l] = DeliveredQuantity(l)
    <3>1. DeliveredQuantity(l) = DeliveredSum(deliveries, l)
      BY DeliveredIsSum DEF DeliveredQuantity, IInv, TypeOK
    <3> QED
      BY <3>1 DEF SequentialInv
  <2>2. PostedOnce
    BY DEF SequentialInv
  <2> QED
    BY <2>1, <2>2 DEF IssuedWasDelivered, PostedOnce
<1>2. Spec => [](IInv /\ DeliveryInv /\ SequentialInv)
  BY SequentialInductive
<1> QED
  BY <1>1, <1>2, PTL

\* Requests that do not overlap leave a cancelled order without stock: cancel()
\* gives back every reservation, and nothing is allocated for it again.
THEOREM CancelSafety ==
  ASSUME Alone
  PROVE  Spec => []CancelledHoldsNothing
<1>1. IInv /\ SequentialInv => CancelledHoldsNothing
  <2> SUFFICES ASSUME IInv, SequentialInv, NEW l \in LineIds, orders[OrderOf[l]] = "CANCELLED"
               PROVE  ActiveOfLine(l) = {}
    BY DEF CancelledHoldsNothing
  <2>1. OrderOf[l] \in OrderIds
    BY LinesAssumption
  <2>2. HoldsNothing(reservations, OrderOf[l])
    BY <2>1 DEF SequentialInv, StatusOK
  <2> QED
    BY <2>2 DEF HoldsNothing, ActiveOfLine
<1>2. Spec => [](IInv /\ DeliveryInv /\ SequentialInv)
  BY SequentialInductive
<1> QED
  BY <1>1, <1>2, PTL

\* Requests that do not overlap leave an order ALLOCATED, of which nothing was
\* delivered yet, with all it ordered reserved.
THEOREM AllocationSafety ==
  ASSUME Alone
  PROVE  Spec => []AllocatedIsReserved
<1>1. IInv /\ SequentialInv => AllocatedIsReserved
  <2> SUFFICES ASSUME IInv, SequentialInv, NEW l \in LineIds,
                      orders[OrderOf[l]] = "ALLOCATED", lines[l].delivered = 0
               PROVE  ActiveQuantity(ActiveOfLine(l)) = lines[l].quantity
    BY DEF AllocatedIsReserved
  <2>1. OrderOf[l] \in OrderIds /\ l \in LinesOf(OrderOf[l])
    BY LinesAssumption DEF LinesOf
  <2>2. HeldOfLine(reservations, l) = lines[l].reserved /\ lines[l].reserved = lines[l].quantity
    BY <2>1 DEF SequentialInv, StatusOK, HoldsReserved, Past
  <2> QED
    BY <2>2, HeldOfLineIsActive
<1>2. Spec => [](IInv /\ DeliveryInv /\ SequentialInv)
  BY SequentialInductive
<1> QED
  BY <1>1, <1>2, PTL

\* Requests that do not overlap keep what is reserved for a line within what the
\* line knows of.
THEOREM LineSafety ==
  ASSUME Alone
  PROVE  Spec => []ActiveWithinLine
<1>1. IInv /\ SequentialInv => ActiveWithinLine
  BY HeldOfLineIsActive DEF ActiveWithinLine, SequentialInv, StockOK
<1>2. Spec => [](IInv /\ DeliveryInv /\ SequentialInv)
  BY SequentialInductive
<1> QED
  BY <1>1, <1>2, PTL

\* No step but close() takes an order out of FULFILLED.
LEMMA FulfilledStays ==
  ASSUME Alone, IInv, SequentialInv, [Next]_vars, NEW o \in OrderIds, orders[o] = "FULFILLED"
  PROVE  orders'[o] \in {"FULFILLED", "CLOSED"}
<1>1. orders \in [OrderIds -> OrderStatus]
  BY DEF IInv, TypeOK
<1>2. ASSUME NEW x \in OrderIds, Create(x) PROVE orders'[o] = orders[o]
  BY <1>1, <1>2 DEF Create
<1>3. ASSUME NEW w \in Workers, SetOrder(w) PROVE orders'[o] \in {"FULFILLED", "CLOSED"}
  <2>1. orders' = [orders EXCEPT ![requests[w].order] = requests[w].to]
    BY <1>3 DEF SetOrder
  <2>2. \/ orders[requests[w].order] \in {"DRAFT", "SUBMITTED"}
        \/ requests[w].to = "CLOSED"
    BY <1>3 DEF SetOrder, SequentialInv, BeliefOK
  <2> QED
    BY <1>1, <2>1, <2>2
<1>4. ASSUME NEW w \in Workers, Commit(w) PROVE orders'[o] = orders[o]
  <2>1. orders' = [orders EXCEPT ![requests[w].order] = requests[w].status]
    BY <1>4 DEF Commit
  <2>2. orders[requests[w].order] # "FULFILLED"
    BY <1>4 DEF Commit, SequentialInv, BeliefOK
  <2> QED
    BY <1>1, <2>1, <2>2
<1>5. ASSUME NEW w \in Workers, Continue(w), ~ SetOrder(w), ~ Commit(w)
      PROVE  orders' = orders
  BY <1>5 DEF Continue, ReplaceLines, ConfirmAllocate, ReadAvailable, Reserve, ListReservations,
              GiveBack, Release, InsertDelivery, SetDelivery, ReadOnHand, Issue, Adjust, Abort, db
<1>6. ASSUME NEW w \in Workers, NEW x \in OrderIds, OrderRequest(w, x) PROVE orders' = orders
  BY <1>6 DEF OrderRequest, BeginUpdate, Submit, Approve, Reject, Close, BeginStatus, BeginAllocate,
              BeginConfirm, BeginReleaseAllocation, BeginCancel, BeginCreateDelivery, Begin, db
<1>7. ASSUME NEW w \in Workers, NEW d \in DeliveryIds, DeliveryRequest(w, d) PROVE orders' = orders
  BY <1>7 DEF DeliveryRequest, Ready, Pick, Dispatch, CancelDelivery, BeginDeliveryStatus,
              BeginDeliver, Begin, db
<1>8. ASSUME NEW w \in Workers,
             \/ \E i \in ReservationIds : BeginRelease(w, i)
             \/ \E key \in StockKeys, n \in Adjustments : BeginAdjust(w, key, n)
      PROVE  orders' = orders
  BY <1>8 DEF BeginRelease, BeginAdjust, Begin, db
<1>9. CASE UNCHANGED vars
  BY <1>9 DEF vars, db
<1> QED
  BY <1>2, <1>3, <1>4, <1>5, <1>6, <1>7, <1>8, <1>9 DEF Next

\* Requests that do not overlap leave an order FULFILLED until it is closed: no
\* release, cancellation or late delivery order takes it back.
THEOREM FulfilledSafety ==
  ASSUME Alone
  PROVE  Spec => FulfilledIsFinal
<1>1. IInv /\ SequentialInv /\ [Next]_vars
        => [\A o \in OrderIds :
              orders[o] = "FULFILLED" => orders'[o] \in {"FULFILLED", "CLOSED"}]_vars
  BY FulfilledStays
<1>2. Spec => [](IInv /\ DeliveryInv /\ SequentialInv)
  BY SequentialInductive
<1> QED
  BY <1>1, <1>2, PTL DEF Spec, FulfilledIsFinal
=============================================================================
