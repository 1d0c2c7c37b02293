------------------------ MODULE MCSalesFulfillment ------------------------
(***************************************************************************)
(* Instances of SalesFulfillment for TLC.                                  *)
(***************************************************************************)
EXTENDS SalesFulfillment, TLC

CONSTANTS o1, o2, l1, l2, k1

\* One order with two lines on one stock key.
OneOrder == l1 :> o1 @@ l2 :> o1

\* Two orders of one line each, competing for one stock key.
TwoOrders == l1 :> o1 @@ l2 :> o2
SharedKey == l1 :> k1 @@ l2 :> k1

\* One order of one line.
OneLine == l1 :> o1
OneKey == l1 :> k1

\* Adjustments by one unit, up and down.
OneUnit == {-1, 1}
NoAdjustments == {}

Interchangeable ==
  Permutations(ReservationIds) \cup Permutations(DeliveryIds) \cup Permutations(Workers)
=============================================================================
