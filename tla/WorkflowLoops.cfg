SPECIFICATION FairSpec
CONSTANTS
  ExecutionIds = {e1, e2}
  ApprovalIds = {a1, a2}
  Users = {u1}
  Processes = {p1}
  Workers = {w1}
  Interpreters = {i1, i2}
  Nodes <- LoopNodes
  KindOf <- LoopKinds
  Edges <- LoopEdges
  StartNode = "start"
  MaxTransitions = 4
  MaxConcurrency = 1
  MaxJobs = 1
  MaxCrashes = 0
  Cancellations = FALSE
  Errors = FALSE
PROPERTIES
  FollowsLifecycle
  RunsEnd
CHECK_DEADLOCK FALSE
