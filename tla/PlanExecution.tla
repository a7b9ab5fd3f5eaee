--------------------------- MODULE PlanExecution ---------------------------
(***************************************************************************)
(* What the orchestrator promises of the execution of a plan, without its  *)
(* nodes: steps are tried one at a time and in order, each at most         *)
(* RetryLimit times and all of them together at most HopLimit times, until *)
(* the run stops and is answered, or fails.  Only a tried step can pass.   *)
(*                                                                         *)
(* OrchestratorGraph implements this specification (see                    *)
(* OrchestratorRefinement).                                                *)
(***************************************************************************)
EXTENDS Integers

CONSTANTS HopLimit, RetryLimit

VARIABLES
  phase,    (* "planning", "running", "answering", "answered", "failed"    *)
  passed,   (* how many steps have passed                                  *)
  tried,    (* how often the step under way was sent to a sub-agent        *)
  hops      (* how many sub-agent calls have come back                     *)

planVars == <<phase, passed, tried, hops>>

PlanInit == phase = "planning" /\ passed = 0 /\ tried = 0 /\ hops = 0

Begin ==
  /\ phase = "planning" /\ phase' = "running"
  /\ UNCHANGED <<passed, tried, hops>>

Try ==
  /\ phase = "running" /\ tried < RetryLimit /\ hops < HopLimit
  /\ tried' = tried + 1 /\ hops' = hops + 1
  /\ UNCHANGED <<phase, passed>>

Pass ==
  /\ phase = "running" /\ tried > 0
  /\ passed' = passed + 1 /\ tried' = 0
  /\ phase' \in {"running", "answering"}
  /\ UNCHANGED hops

Stop ==
  /\ phase = "running" /\ phase' = "answering"
  /\ UNCHANGED <<passed, tried, hops>>

Answer ==
  /\ phase = "answering" /\ phase' = "answered"
  /\ UNCHANGED <<passed, tried, hops>>

(***************************************************************************)
(* The run may die in a sub-agent call, which then never comes back.       *)
(***************************************************************************)
Fail ==
  /\ phase \in {"running", "answering"} /\ phase' = "failed"
  /\ \/ tried' = tried
     \/ phase = "running" /\ tried < RetryLimit /\ hops < HopLimit /\ tried' = tried + 1
  /\ UNCHANGED <<passed, hops>>

PlanNext == Begin \/ Try \/ Pass \/ Stop \/ Answer \/ Fail

PlanSpec == PlanInit /\ [][PlanNext]_planVars

----------------------------------------------------------------------------
PlanTypeOK ==
  /\ phase \in {"planning", "running", "answering", "answered", "failed"}
  /\ passed \in Nat /\ tried \in Nat /\ hops \in Nat

\* Every step that passed, and every attempt at the one under way, was paid for with a
\* sub-agent call that came back, and those are never more than the hop limit.
PaidFor ==
  /\ tried <= RetryLimit /\ hops <= HopLimit
  /\ phase # "failed" => passed + tried <= hops
=============================================================================
