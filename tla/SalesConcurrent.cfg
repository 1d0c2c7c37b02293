SPECIFICATION Spec
CONSTANTS
  o1 = o1
  o2 = o2
  l1 = l1
  l2 = l2
  k1 = k1
  OrderIds = {o1}
  LineIds = {l1}
  StockKeys = {k1}
  ReservationIds = {r1}
  DeliveryIds = {d1, d2}
  Workers = {w1, w2}
  OrderOf <- OneLine
  KeyOf <- OneKey
  Quantities = {1, 2}
  Adjustments <- NoAdjustments
  InitialStock = 2
  MaxOnHand = 2
  MaxVersion = 2
SYMMETRY Interchangeable
INVARIANTS
  TypeOK
  NeverOverDelivered
  DeliveredWasIssued
PROPERTIES
  ReplacedLinesWereUnissued
CHECK_DEADLOCK FALSE
