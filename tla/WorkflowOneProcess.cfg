SPECIFICATION Spec
CONSTANTS
  ExecutionIds = {e1}
  ApprovalIds = {a1}
  Users = {u1}
  Processes = {p1}
  Workers = {w1}
  Interpreters = {i1, i2}
  Nodes <- GatedNodes
  KindOf <- GatedKinds
  Edges <- GatedEdges
  StartNode = "start"
  MaxTransitions = 4
  MaxConcurrency = 2
  MaxJobs = 2
  MaxCrashes = 0
  Cancellations = TRUE
  Errors = FALSE
SYMMETRY Interchangeable
INVARIANTS
  OneDriver
  NodesRunOnce
  ApprovedBeforePassing
CHECK_DEADLOCK FALSE
