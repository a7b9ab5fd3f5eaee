------------------------ MODULE MCOrchestratorGraph ------------------------
(***************************************************************************)
(* A registry of two agents in one category: a1 may use both tools, a2     *)
(* only "read", and a2's descriptor matches the capability of the write    *)
(* step better.  The plans use three steps; the second repeats the first's *)
(* inputs, and the third lacks a required input.                           *)
(***************************************************************************)
EXTENDS OrchestratorRefinement

MCAgents == {"a1", "a2"}
MCTools == {"read", "write"}
MCCategory == [a \in MCAgents |-> "ops"]
MCAllowed == [a1 |-> {"read", "write"}, a2 |-> {"read"}]
MCOverlap == [inspect |-> [a1 |-> 2, a2 |-> 1], change |-> [a1 |-> 1, a2 |-> 2]]

PlanStepOf(cap, tool, inputs, complete) ==
  [category |-> "ops", capability |-> cap, tool |-> tool, inputs |-> inputs,
   complete |-> complete]

MCPlanSteps ==
  { PlanStepOf("inspect", "read", "x", TRUE),
    PlanStepOf("change", "write", "x", TRUE),
    PlanStepOf("inspect", NoTool, "y", FALSE) }
=============================================================================
