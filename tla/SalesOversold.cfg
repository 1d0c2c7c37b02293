SPECIFICATION Spec
CONSTANTS
  o1 = o1
  o2 = o2
  l1 = l1
  l2 = l2
  k1 = k1
  OrderIds = {o1, o2}
  LineIds = {l1, l2}
  StockKeys = {k1}
  ReservationIds = {r1, r2}
  DeliveryIds = {d1}
  Workers = {w1, w2}
  OrderOf <- TwoOrders
  KeyOf <- SharedKey
  Quantities = {1}
  Adjustments <- NoAdjustments
  InitialStock = 1
  MaxOnHand = 1
  MaxVersion = 1
SYMMETRY Interchangeable
PROPERTIES
  AllocationFitsStock
CHECK_DEADLOCK FALSE
