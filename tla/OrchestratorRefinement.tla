----------------------- MODULE OrchestratorRefinement -----------------------
(***************************************************************************)
(* The state graph implements PlanExecution: the phase is read off the     *)
(* node, the steps that passed and the attempts at the step under way off  *)
(* step_results and the calls made for its last entry.  It also implements *)
(* GraphRun, the view that InvocationService has of a run.                 *)
(***************************************************************************)
EXTENDS OrchestratorGraph

PhaseOf ==
  CASE node \in {"validate_step_pre", "invoke_subagent", "validate_step_post"} -> "running"
    [] node \in {"aggregate_results", "scan_output_guardrails", "write_execution_log"} ->
         "answering"
    [] node = "END" -> "answered"
    [] node = "raised" -> "failed"
    [] OTHER -> "planning"

StepUnderWay == results # <<>> /\ ~LastResult.passed

StepsPassed == IF StepUnderWay THEN Len(results) - 1 ELSE Len(results)

Attempts ==
  IF StepUnderWay /\ LastResult.preOk THEN Len(calls[LastResult.step]) ELSE 0

Execution == INSTANCE PlanExecution
  WITH phase <- PhaseOf, passed <- StepsPassed, tried <- Attempts, hops <- hop

\* Every behaviour of the graph is one of the abstract execution: retries, safety halts
\* and crashes of the nodes add up to trying the steps in order within the limits.
ExecutesPlan == Execution!PlanSpec

\* Every passed step and every attempt at the one under way is paid for with a sub-agent
\* call that came back, neither limit is exceeded, whatever halts, retries and failures
\* the nodes went through.
CallsPaidFor == Execution!PaidFor

(***************************************************************************)
(* What InvocationService keeps of the graph.  A step that was given up is *)
(* what the /invocations handler counts as a step failure.                 *)
(***************************************************************************)
GaveUp(r) == ~r.passed /\ r.retries >= RetryLimit

StageOf ==
  CASE node = "write_execution_log" -> "logging"
    [] node = "END" -> "answered"
    [] node = "raised" -> "raised"
    [] OTHER -> "running"

SomeGivenUp == \E i \in 1 .. Len(results) : GaveUp(results[i])

\* Even the empty plan gets one record, of a step that fails its validation.
RecordLimit == IF MaxPlan > 0 THEN MaxPlan ELSE 1

Run == INSTANCE GraphRun
  WITH stage <- StageOf, recorded <- Len(results), gaveUp <- SomeGivenUp,
       entries <- Len(logs), MaxRecords <- RecordLimit

\* The graph keeps what the service relies on: no step is started after one was given up,
\* the log is written last and from records that no longer change, and an answered run has
\* written all of it.
IsGraphRun == Run!RunSpec
=============================================================================
