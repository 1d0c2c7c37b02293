------------------------- MODULE MCWorkflowEngine -------------------------
(***************************************************************************)
(* Instances of WorkflowEngine for TLC.                                    *)
(***************************************************************************)
EXTENDS WorkflowEngine, TLC

\* An approval, then an action, then a delay.
GatedNodes == {"start", "approve", "act", "delay", "end"}
GatedKinds ==
  "start" :> "START" @@ "approve" :> "APPROVAL" @@ "act" :> "ACTION" @@
  "delay" :> "DELAY" @@ "end" :> "END"
GatedEdges ==
  {<<"start", "approve">>, <<"approve", "act">>, <<"act", "delay">>, <<"delay", "end">>}

\* An action repeated until a condition holds, then an approval with nothing
\* behind it, or the end.
LoopNodes == {"start", "act", "check", "approve", "end"}
LoopKinds ==
  "start" :> "START" @@ "act" :> "ACTION" @@ "check" :> "CONDITION" @@
  "approve" :> "APPROVAL" @@ "end" :> "END"
LoopEdges ==
  {<<"start", "act">>, <<"act", "check">>, <<"check", "act">>,
   <<"check", "approve">>, <<"check", "end">>}

\* An approval and nothing else.
BriefNodes == {"start", "approve", "end"}
BriefKinds == "start" :> "START" @@ "approve" :> "APPROVAL" @@ "end" :> "END"
BriefEdges == {<<"start", "approve">>, <<"approve", "end">>}

Interchangeable == Permutations(Users) \cup Permutations(Interpreters) \cup Permutations(Workers)
=============================================================================
