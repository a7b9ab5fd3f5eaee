-------------------------- MODULE MCStackDeployment --------------------------
(***************************************************************************)
(* Stacks for model checking.  identity and knowledge are those of the     *)
(* repository, where a foundation stack imports from a platform stack;     *)
(* advisor is a second agent, so that one is not the last; observability   *)
(* is in the lists of destroy.sh and drift-detect.sh only.                 *)
(***************************************************************************)
EXTENDS StackDeployment

MCFoundation == <<"identity">>
MCPlatform == <<"knowledge">>
MCAgents == <<"advisor", "orchestrator">>
MCPlatformTeardown == <<"observability", "knowledge">>
MCFoundationTeardown == <<"identity">>
MCPlatformChecked == <<"knowledge", "observability">>
MCImports ==
  [s \in {"identity", "knowledge", "advisor", "orchestrator", "observability"} |->
     CASE s = "identity" -> {"knowledge"}
       [] s = "advisor" -> {"identity"}
       [] s = "orchestrator" -> {"identity", "knowledge"}
       [] OTHER -> {}]
=============================================================================
