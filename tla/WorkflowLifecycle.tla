------------------------- MODULE WorkflowLifecycle -------------------------
(***************************************************************************)
(* What a workflow execution promises (docs/24-workflows, INV-393 and      *)
(* INV-394): it follows the edges of its graph one node at a time, pauses  *)
(* only at APPROVAL and DELAY nodes, completes only where the graph ends,  *)
(* and a terminal status is final.                                         *)
(***************************************************************************)
CONSTANTS ExecutionIds, Nodes, KindOf, Edges, StartNode

VARIABLE executions

None == "NONE"

Init == executions = [e \in ExecutionIds |-> [status |-> None, node |-> None]]

Become(e, status, node) ==
  executions' = [executions EXCEPT ![e] = [status |-> status, node |-> node]]

In(e, status) == executions[e].status = status

Edge(e, next) == <<executions[e].node, next>> \in Edges

DeadEnd(e) == \A next \in Nodes : ~Edge(e, next)

AtKind(e, kinds) == executions[e].node # None /\ KindOf[executions[e].node] \in kinds

Begin(e) == In(e, None) /\ Become(e, "RUNNING", StartNode)

Move(e, next) ==
  /\ In(e, "RUNNING") /\ ~AtKind(e, {"APPROVAL", "DELAY", "END"})
  /\ Edge(e, next)
  /\ Become(e, "RUNNING", next)

Pause(e) ==
  /\ In(e, "RUNNING") /\ AtKind(e, {"APPROVAL", "DELAY"})
  /\ Become(e, "WAITING", executions[e].node)

Continue(e, next) ==
  /\ In(e, "WAITING")
  /\ Edge(e, next) \/ (DeadEnd(e) /\ next = None)
  /\ Become(e, "RUNNING", next)

Finish(e) ==
  /\ In(e, "RUNNING") /\ ~AtKind(e, {"APPROVAL", "DELAY"})
  /\ executions[e].node # None /\ DeadEnd(e)
  /\ Become(e, "COMPLETED", None)

\* An action failed, the transitions are used up, or the approval was refused.
Fail(e) ==
  /\ In(e, "RUNNING") \/ (In(e, "WAITING") /\ AtKind(e, {"APPROVAL"}))
  /\ Become(e, "FAILED", executions[e].node)

Next ==
  \E e \in ExecutionIds :
    \/ Begin(e) \/ Pause(e) \/ Finish(e) \/ Fail(e)
    \/ \E next \in Nodes : Move(e, next)
    \/ \E next \in Nodes \cup {None} : Continue(e, next)

Spec == Init /\ [][Next]_executions
=============================================================================
