----------------------------- MODULE MCWorkflow -----------------------------
(***************************************************************************)
(* Workflow definitions for model checking: every dependency relation over *)
(* three steps (cycles and unknown ids included) with every choice of      *)
(* optional steps, or the few shapes that matter where all would be slow.  *)
(***************************************************************************)
EXTENDS WorkflowEngine, TLC

CONSTANTS a, b, c

MCSteps == {a, b, c}

AllGraphs == [deps: {g \in [MCSteps -> SUBSET MCSteps] : \A s \in MCSteps : s \notin g[s]},
              optional: SUBSET MCSteps]

UnknownDependency ==
  {[deps |-> (a :> {} @@ b :> {a, "unknown"} @@ c :> {a}), optional |-> o] :
     o \in SUBSET MCSteps}

(* a, then b and c, nothing optional.                                      *)
MCChain == {[deps |-> (a :> {} @@ b :> {a} @@ c :> {b}), optional |-> {}]}

MCDefinitions == AllGraphs \cup UnknownDependency

=============================================================================
