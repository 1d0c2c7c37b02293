SPECIFICATION Spec
CONSTANTS
  Workers = {w1}
  Sides <- Both
  InvoiceIds = {i1, i2}
  PaymentIds = {p1}
  NoteIds = {n1}
  RefundIds = {f1}
  MaxAmount = 2
  MaxReversals = 1
SYMMETRY Interchangeable
INVARIANTS
  TypeOK
  PaidIsSettled
  UsedIsAccountedFor
  PostedIsInForce
  SettledWasPosted
PROPERTIES
  
  SettlesAsPromised
CHECK_DEADLOCK FALSE
