SPECIFICATION Spec
CONSTANTS
  w1 = w1
  w2 = w2
  Workers = {w1, w2}
  Domains = {"access"}
  Overlapping = {}
  Lines = {1}
  Samples = {1, 2}
  MaxLayers = 3
  FileRows = {1, 2}
  BatchSizes = {1}
  EntryIds = {1}
  ReversalIds = {2}
  Accounts = {1, 2}
  AccountTypes = {"ASSET", "EQUITY", "EXPENSE"}
  MaxLife = 3
  RmaIds = {1}
  Boms = {1, 2}
  MaxAmount = 2
  InitialStock = 2
INVARIANT
  OwnersReachEveryEndpoint
SYMMETRY SymmetricWorkers
CHECK_DEADLOCK FALSE
