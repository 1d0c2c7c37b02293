SPECIFICATION Spec
CONSTANTS
  ExecutionIds = {e1}
  ApprovalIds = {a1}
  Users = {u1, u2}
  Processes = {p1}
  Workers = {w1, w2}
  Interpreters = {i1}
  Nodes <- BriefNodes
  KindOf <- BriefKinds
  Edges <- BriefEdges
  StartNode = "start"
  MaxTransitions = 4
  MaxConcurrency = 2
  MaxJobs = 2
  MaxCrashes = 1
  Cancellations = FALSE
  Errors = TRUE
SYMMETRY Interchangeable
INVARIANTS
  TypeOK
  ResolvedByVote
PROPERTIES
  VoteIsFinal
  
CHECK_DEADLOCK FALSE
