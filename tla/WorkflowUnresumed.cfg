SPECIFICATION FairSpec
CONSTANTS
  ExecutionIds = {e1}
  ApprovalIds = {a1}
  Users = {u1}
  Processes = {p1}
  Workers = {w1}
  Interpreters = {i1, i2}
  Nodes <- BriefNodes
  KindOf <- BriefKinds
  Edges <- BriefEdges
  StartNode = "start"
  MaxTransitions = 4
  MaxConcurrency = 2
  MaxJobs = 1
  MaxCrashes = 0
  Cancellations = FALSE
  Errors = FALSE
PROPERTIES
  DecisionResumes
CHECK_DEADLOCK FALSE
