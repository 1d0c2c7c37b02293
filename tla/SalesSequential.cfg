SPECIFICATION Spec
CONSTANTS
  o1 = o1
  o2 = o2
  l1 = l1
  l2 = l2
  k1 = k1
  OrderIds = {o1, o2}
  LineIds = {l1, l2}
  StockKeys = {k1}
  ReservationIds = {r1, r2}
  DeliveryIds = {d1}
  Workers = {w1}
  OrderOf <- TwoOrders
  KeyOf <- SharedKey
  Quantities = {1, 2}
  Adjustments <- OneUnit
  InitialStock = 2
  MaxOnHand = 2
  MaxVersion = 1
SYMMETRY Interchangeable
INVARIANTS
  ReservedIsActive
  OnHandIsLedger
  CancelledHoldsNothing
  ActiveWithinLine
CHECK_DEADLOCK FALSE
