SPECIFICATION Spec
CONSTANTS
  o1 = o1
  o2 = o2
  l1 = l1
  l2 = l2
  k1 = k1
  OrderIds = {o1}
  LineIds = {l1, l2}
  StockKeys = {k1}
  ReservationIds = {r1, r2}
  DeliveryIds = {d1, d2}
  Workers = {w1}
  OrderOf <- OneOrder
  KeyOf <- SharedKey
  Quantities = {1, 2}
  Adjustments <- NoAdjustments
  InitialStock = 2
  MaxOnHand = 2
  MaxVersion = 1
SYMMETRY Interchangeable
INVARIANTS
  AllocatedIsReserved
  IssuedWasDelivered
PROPERTIES
  FulfilledIsFinal
CHECK_DEADLOCK FALSE
