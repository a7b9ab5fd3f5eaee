-------------------- MODULE OrchestratorRefinement_proofs --------------------
(***************************************************************************)
(* The state graph implements PlanExecution for every registry, every plan *)
(* length and every value of the limits.                                   *)
(***************************************************************************)
EXTENDS OrchestratorRefinement, OrchestratorGraph_proofs

\* A request that has not run any node maps to an execution that has not begun.
LEMMA RefineInit == Init => Execution!PlanInit
BY DEF Init, Execution!PlanInit, PhaseOf, StepsPassed, Attempts, StepUnderWay

\* Nodes that leave the execution alone leave its counts alone.
LEMMA CountsUnchanged ==
  ASSUME UNCHANGED execution
  PROVE  UNCHANGED <<StepsPassed, Attempts, hop>>
BY DEF execution, StepsPassed, Attempts, StepUnderWay, LastResult

\* While a sub-agent is called or its answer is read the step under way is the last
\* result, and its attempts are the calls recorded for it.
LEMMA UnderWay ==
  ASSUME IInv, node \in {"invoke_subagent", "validate_step_post"}
  PROVE  /\ PhaseOf = "running" /\ StepUnderWay
         /\ LastResult.step = idx /\ LastResult.preOk
         /\ StepsPassed = Len(results) - 1 /\ Attempts = Len(calls[idx])
         /\ idx \in DOMAIN calls /\ Attempts \in Nat
         /\ results \in Seq(StepResults) /\ results # <<>> /\ Len(results) = idx + 1
         /\ LastResult \in StepResults /\ idx \in Nat
<1>1. /\ Len(results) = idx + 1 /\ idx \in Nat /\ results \in Seq(StepResults)
      /\ LastResult.preOk /\ ~LastResult.passed /\ idx < Len(plan)
      /\ calls \in [0 .. MaxPlan - 1 -> Seq(Agents \cup {NoAgent})]
      /\ Len(plan) <= MaxPlan /\ plan \in Seq(PlanSteps)
  BY DEF IInv, TypeOK, DuringStepInv
<1>2. /\ results # <<>> /\ LastResult \in StepResults /\ LastResult.step = idx
      /\ results[Len(results)].step = Len(results) - 1
  BY <1>1 DEF LastResult, IInv, Story, ResultsFollowPlan
<1>3. idx \in DOMAIN calls
  BY <1>1, LimitsAssumption
<1>4. Len(calls[idx]) \in Nat
  BY <1>1, <1>3, LenProperties
<1> QED
  BY <1>1, <1>2, <1>3, <1>4 DEF PhaseOf, StepUnderWay, StepsPassed, Attempts

\* Before a step is validated no step is under way.
LEMMA BetweenSteps ==
  ASSUME IInv, node = "validate_step_pre"
  PROVE  ~StepUnderWay /\ StepsPassed = Len(results) /\ Attempts = 0 /\ PhaseOf = "running"
<1>1. results \in Seq(StepResults) /\ \A i \in 1 .. Len(results) : results[i].passed
  BY DEF IInv, TypeOK, BetweenStepsInv
<1>2. ~StepUnderWay
  BY <1>1 DEF StepUnderWay, LastResult
<1> QED
  BY <1>2 DEF StepsPassed, Attempts, PhaseOf

----------------------------------------------------------------------------
(* One lemma per kind of step *)

\* Understanding and planning are the abstract "planning", and present_plan begins.
LEMMA RefinePlanning ==
  ASSUME IInv,
         \/ ClassifyRequest \/ PromptUser \/ RetrieveKnowledge
         \/ DetectMissingInputs \/ GeneratePlan \/ PresentPlan
  PROVE  Execution!Begin \/ UNCHANGED Execution!planVars
<1>1. /\ node \in Planning /\ node' \in Planning \cup {"validate_step_pre"}
      /\ UNCHANGED execution
  BY SuperstepCounts
     DEF ClassifyRequest, PromptUser, RetrieveKnowledge, DetectMissingInputs, GeneratePlan,
         PresentPlan, Planning, RouteClassifyRequest, RouteDetectMissingInputs, RoutePresentPlan
<1>2. UNCHANGED <<StepsPassed, Attempts, hop>>
  BY <1>1, CountsUnchanged
<1>3. PhaseOf = "planning" /\ PhaseOf' \in {"planning", "running"}
  BY <1>1 DEF PhaseOf, Planning
<1> QED
  BY <1>2, <1>3 DEF Execution!Begin, Execution!planVars

\* Pre-validation opens a step no sub-agent was called for, or stops the run.
LEMMA RefineValidateStepPre ==
  ASSUME IInv, ValidateStepPre
  PROVE  Execution!Stop \/ UNCHANGED Execution!planVars
<1> DEFINE r == StepResult(idx, PreValid)
<1>1. /\ node = "validate_step_pre" /\ results' = Append(results, r)
      /\ node' \in {"invoke_subagent", "aggregate_results"}
      /\ UNCHANGED <<idx, hop, calls, plan>>
  BY SuperstepCounts DEF ValidateStepPre, RecordPreValidation, RouteValidateStepPre
<1>2. /\ results \in Seq(StepResults) /\ Len(results) = idx /\ idx \in Nat
      /\ \A s \in DOMAIN calls : s >= idx => calls[s] = <<>>
      /\ calls \in [0 .. MaxPlan - 1 -> Seq(Agents \cup {NoAgent})]
      /\ Len(plan) <= MaxPlan /\ plan \in Seq(PlanSteps)
  BY <1>1 DEF IInv, TypeOK, BetweenStepsInv
<1>3. r.step = idx /\ (r.preOk <=> PreValid) /\ r.passed = FALSE /\ (PreValid => idx < Len(plan))
  BY DEF StepResult, PreValid
<1>4. r \in StepResults
  BY <1>2 DEF StepResult, StepResults, PreValid, NoReply
<1> HIDE DEF r
<1>5. /\ Len(results') = Len(results) + 1 /\ results' # <<>> /\ LastResult' = r
  BY <1>1, <1>2, <1>4, AppendProperties DEF LastResult
<1>6. PreValid => Len(calls[idx]) = 0
  <2> SUFFICES ASSUME PreValid PROVE Len(calls[idx]) = 0
    OBVIOUS
  <2>1. idx \in DOMAIN calls
    BY <1>2, <1>3, LimitsAssumption
  <2>2. calls[idx] = <<>>
    BY <1>2, <2>1
  <2> QED
    BY <2>2
<1>7. StepUnderWay' /\ StepsPassed' = Len(results)
  BY <1>2, <1>3, <1>5 DEF StepUnderWay, StepsPassed
<1>8. Attempts' = 0
  BY <1>1, <1>3, <1>5, <1>6, <1>7 DEF Attempts
<1>9. PhaseOf' \in {"running", "answering"}
  BY <1>1 DEF PhaseOf
<1> QED
  BY <1>1, <1>7, <1>8, <1>9, BetweenSteps DEF Execution!Stop, Execution!planVars

\* A halt is invisible; a call is a try within both limits.
LEMMA RefineInvoke ==
  ASSUME IInv, InvokeSubagent
  PROVE  Execution!Try \/ UNCHANGED Execution!planVars
<1>1. CASE InvokeHalted
  <2>1. node = "invoke_subagent" /\ node' = "validate_step_post" /\ UNCHANGED execution
    BY <1>1, SuperstepCounts DEF InvokeHalted
  <2>2. PhaseOf' = PhaseOf
    BY <2>1 DEF PhaseOf
  <2> QED
    BY <2>1, <2>2, CountsUnchanged DEF Execution!planVars
<1>2. CASE InvokeAgent
  <2>1. node = "invoke_subagent"
    BY DEF InvokeSubagent
  <2>2. /\ node' = "validate_step_post" /\ hop' = hop + 1 /\ SafetyError = "none" /\ idx' = idx
    BY <1>2, SuperstepCounts DEF InvokeAgent
  <2>3. PICK a \in MatchedAgents(CurrentStep), r \in Replies :
          /\ calls' = [calls EXCEPT ![idx] = Append(@, a)]
          /\ results' = [results EXCEPT ![Len(results)].reply = r]
    BY <1>2 DEF InvokeAgent
  <2>4. /\ PhaseOf = "running" /\ StepUnderWay /\ LastResult.step = idx /\ LastResult.preOk
        /\ StepsPassed = Len(results) - 1 /\ Attempts = Len(calls[idx])
        /\ idx \in DOMAIN calls /\ Attempts \in Nat
        /\ results \in Seq(StepResults) /\ results # <<>> /\ Len(results) = idx + 1
        /\ LastResult \in StepResults /\ idx \in Nat
    BY <2>1, UnderWay
  <2>5. hop < HopLimit /\ Attempts < RetryLimit /\ hop \in Nat
    <3>1. hop < HopLimit /\ hop \in Nat
      BY <2>2, LimitsAssumption DEF SafetyError, IInv, TypeOK
    <3>2. LastResult.retries \in Nat
      BY <2>4 DEF StepResults
    <3>3. Len(calls[idx]) <= LastResult.retries /\ LastResult.retries < RetryLimit
      BY <2>1 DEF IInv, InvokeInv, DuringStepInv
    <3> QED
      BY <2>4, <3>1, <3>2, <3>3, LimitsAssumption
  <2>6. calls[idx] \in Seq(Agents \cup {NoAgent}) /\ a \in Agents \cup {NoAgent}
    BY <2>4, MatchedAgentsType DEF IInv, TypeOK
  <2>7. calls'[idx] = Append(calls[idx], a) /\ Len(calls'[idx]) = Attempts + 1
    <3>1. calls'[idx] = Append(calls[idx], a)
      BY <2>3, <2>4
    <3> QED
      BY <2>4, <2>6, <3>1, AppendProperties
  <2>8. /\ results' # <<>> /\ Len(results') = Len(results)
        /\ LastResult'.step = idx /\ LastResult'.preOk /\ ~LastResult'.passed
    <3> DEFINE e == [LastResult EXCEPT !.reply = r]
    <3>1. /\ e \in StepResults /\ e.step = LastResult.step /\ e.preOk = LastResult.preOk
          /\ e.passed = LastResult.passed
      BY <2>4 DEF StepResults
    <3>2. results' = [results EXCEPT ![Len(results)] = e]
      BY <2>3 DEF LastResult
    <3> HIDE DEF e
    <3>3. results' # <<>> /\ Len(results') = Len(results) /\ LastResult' = e
      BY <2>4, <3>1, <3>2, UpdateLast DEF LastResult
    <3> QED
      BY <2>4, <3>1, <3>3 DEF StepUnderWay
  <2>9. /\ StepsPassed' = StepsPassed /\ Attempts' = Attempts + 1 /\ PhaseOf' = "running"
    BY <2>2, <2>4, <2>7, <2>8 DEF StepUnderWay, StepsPassed, Attempts, PhaseOf
  <2> QED
    BY <2>2, <2>4, <2>5, <2>9 DEF Execution!Try
<1> QED
  BY <1>1, <1>2 DEF InvokeSubagent

\* A call that raises, or any node that does, fails the run.
LEMMA RefineRaises ==
  ASSUME IInv, InvokeRaises \/ NodeRaises
  PROVE  Execution!Fail
<1>1. CASE InvokeRaises
  <2>1. /\ node = "invoke_subagent" /\ node' = "raised" /\ SafetyError = "none"
        /\ UNCHANGED <<results, hop, idx>>
    BY <1>1, SuperstepCounts DEF InvokeRaises
  <2>2. /\ PhaseOf = "running" /\ StepUnderWay /\ LastResult.step = idx /\ LastResult.preOk
        /\ StepsPassed = Len(results) - 1 /\ Attempts = Len(calls[idx])
        /\ idx \in DOMAIN calls /\ Attempts \in Nat /\ LastResult \in StepResults
    BY <2>1, UnderWay
  <2>3. PhaseOf' = "failed" /\ StepsPassed' = StepsPassed /\ Attempts' = Len(calls'[idx])
    BY <2>1, <2>2 DEF PhaseOf, StepsPassed, Attempts, StepUnderWay, LastResult
  <2>4. CASE calls' = calls
    BY <2>1, <2>2, <2>3, <2>4 DEF Execution!Fail
  <2>5. CASE calls' # calls
    <3>1. PICK a \in MatchedAgents(CurrentStep) : calls' = [calls EXCEPT ![idx] = Append(@, a)]
      BY <1>1, <2>5 DEF InvokeRaises
    <3>2. calls[idx] \in Seq(Agents \cup {NoAgent}) /\ a \in Agents \cup {NoAgent}
      BY <2>2, MatchedAgentsType DEF IInv, TypeOK
    <3>3. calls'[idx] = Append(calls[idx], a)
      BY <2>2, <3>1
    <3>4. Attempts' = Attempts + 1
      BY <2>2, <2>3, <3>2, <3>3, AppendProperties
    <3>5. hop < HopLimit
      BY <2>1, LimitsAssumption DEF SafetyError, IInv, TypeOK
    <3>6. Attempts < RetryLimit
      <4>1. Len(calls[idx]) <= LastResult.retries /\ LastResult.retries < RetryLimit
        BY <2>1 DEF IInv, InvokeInv, DuringStepInv
      <4>2. LastResult.retries \in Nat
        BY <2>2 DEF StepResults
      <4> QED
        BY <2>2, <4>1, <4>2, LimitsAssumption
    <3> QED
      BY <2>1, <2>2, <2>3, <3>4, <3>5, <3>6 DEF Execution!Fail
  <2> QED
    BY <2>4, <2>5
<1>2. CASE NodeRaises
  <2>1. /\ node \in {"validate_step_pre", "validate_step_post", "aggregate_results",
                     "scan_output_guardrails"}
        /\ node' = "raised" /\ UNCHANGED execution
    BY <1>2, SuperstepCounts DEF NodeRaises
  <2>2. PhaseOf \in {"running", "answering"} /\ PhaseOf' = "failed"
    BY <2>1 DEF PhaseOf
  <2>3. UNCHANGED <<StepsPassed, Attempts, hop>>
    BY <2>1, CountsUnchanged
  <2> QED
    BY <2>2, <2>3 DEF Execution!Fail
<1> QED
  BY <1>1, <1>2

\* An accepted answer passes the step, which has been tried; a rejected one leaves it
\* under way or stops the run.
LEMMA RefineValidateStepPost ==
  ASSUME IInv, ValidateStepPost
  PROVE  Execution!Pass \/ Execution!Stop \/ UNCHANGED Execution!planVars
<1>1. node = "validate_step_post" /\ UNCHANGED <<hop, calls, plan, visited>>
  BY DEF ValidateStepPost
<1>2. /\ PhaseOf = "running" /\ StepUnderWay /\ LastResult.step = idx /\ LastResult.preOk
      /\ StepsPassed = Len(results) - 1 /\ Attempts = Len(calls[idx])
      /\ idx \in DOMAIN calls /\ Attempts \in Nat
      /\ results \in Seq(StepResults) /\ results # <<>> /\ Len(results) = idx + 1
      /\ LastResult \in StepResults /\ idx \in Nat
  BY <1>1, UnderWay
<1>3. CASE AcceptStep
  <2> DEFINE e == Accepted(LastResult)
  <2>1. /\ e \in StepResults /\ e.step = LastResult.step /\ e.preOk = LastResult.preOk
        /\ e.reply = LastResult.reply /\ e.passed
    BY <1>2 DEF StepResults, Accepted
  <2>2. /\ results' = [results EXCEPT ![Len(results)] = e]
        /\ node' = RouteValidateStepPost(e, AdvancedIndex)
        /\ ReplyAccepted(LastResult.reply)
    BY <1>3, SuperstepCounts DEF AcceptStep
  <2> HIDE DEF e
  <2>3. node' \in {"validate_step_pre", "aggregate_results"}
    BY <2>1, <2>2 DEF RouteValidateStepPost
  <2>4. results' # <<>> /\ Len(results') = Len(results) /\ LastResult' = e
    BY <1>2, <2>1, <2>2, UpdateLast DEF LastResult
  <2>5. ~StepUnderWay' /\ StepsPassed' = StepsPassed + 1 /\ Attempts' = 0
    BY <1>2, <2>1, <2>4 DEF StepUnderWay, StepsPassed, Attempts
  <2>6. Attempts > 0
    <3>1. LastResult.reply # NoReply
      BY <2>2 DEF ReplyAccepted, Scored, Score, NoReply
    <3>2. calls[idx] # <<>>
      <4>1. Len(results) \in 1 .. Len(results) /\ Len(results) - 1 = idx
        BY <1>2
      <4> QED
        BY <3>1, <4>1 DEF IInv, Story, LastResult
    <3>3. calls[idx] \in Seq(Agents \cup {NoAgent})
      BY <1>2 DEF IInv, TypeOK
    <3>4. Len(calls[idx]) # 0
      BY <3>2, <3>3, EmptySeq
    <3> QED
      BY <1>2, <3>4
  <2>7. PhaseOf' \in {"running", "answering"}
    BY <2>3 DEF PhaseOf
  <2> QED
    BY <1>1, <1>2, <2>5, <2>6, <2>7 DEF Execution!Pass
<1>4. CASE RejectStep
  <2> DEFINE e == Rejected(LastResult)
  <2>1. /\ e.step = LastResult.step /\ e.preOk = LastResult.preOk /\ e.passed = FALSE
    BY <1>2 DEF StepResults, Rejected
  <2>2. /\ results' = [results EXCEPT ![Len(results)] = e]
        /\ node' = RouteValidateStepPost(e, idx) /\ idx' = idx
    BY <1>4, SuperstepCounts DEF RejectStep
  <2> HIDE DEF e
  <2>3. node' \in {"invoke_subagent", "aggregate_results"}
    BY <2>1, <2>2 DEF RouteValidateStepPost
  <2>4. /\ results' # <<>> /\ Len(results') = Len(results) /\ LastResult' = e
    BY <1>2, <2>2 DEF LastResult
  <2>5. StepUnderWay' /\ StepsPassed' = StepsPassed /\ Attempts' = Attempts
    BY <1>1, <1>2, <2>1, <2>4 DEF StepUnderWay, StepsPassed, Attempts
  <2>6. PhaseOf' \in {"running", "answering"}
    BY <2>3 DEF PhaseOf
  <2> QED
    BY <1>1, <1>2, <2>5, <2>6 DEF Execution!Stop, Execution!planVars
<1> QED
  BY <1>3, <1>4 DEF ValidateStepPost

\* The answering nodes are the abstract "answering"; the log ends or fails it.
LEMMA RefineAnswering ==
  ASSUME IInv, AggregateResults \/ ScanOutputGuardrails \/ WriteExecutionLog
  PROVE  Execution!Answer \/ Execution!Fail \/ UNCHANGED Execution!planVars
<1>1. UNCHANGED <<StepsPassed, Attempts, hop>>
  BY CountsUnchanged DEF AggregateResults, ScanOutputGuardrails, WriteExecutionLog
<1>2. CASE AggregateResults \/ ScanOutputGuardrails
  <2>1. PhaseOf = "answering" /\ PhaseOf' = "answering"
    BY <1>2, SuperstepCounts DEF AggregateResults, ScanOutputGuardrails, PhaseOf
  <2> QED
    BY <1>1, <2>1 DEF Execution!planVars
<1>3. CASE WriteExecutionLog
  <2>1. node = "write_execution_log" /\ node' \in {"END", "raised"}
    BY <1>3, SuperstepCounts DEF WriteExecutionLog
  <2>2. PhaseOf = "answering" /\ PhaseOf' \in {"answered", "failed"}
    BY <2>1 DEF PhaseOf
  <2> QED
    BY <1>1, <2>2 DEF Execution!Answer, Execution!Fail
<1> QED
  BY <1>2, <1>3

----------------------------------------------------------------------------
\* Every step of the graph is a step of the abstract execution, or none.
LEMMA RefineNext ==
  ASSUME IInv, [Next]_vars
  PROVE  [Execution!PlanNext]_(Execution!planVars)
<1>1. CASE \/ ClassifyRequest \/ PromptUser \/ RetrieveKnowledge
           \/ DetectMissingInputs \/ GeneratePlan \/ PresentPlan
  BY <1>1, RefinePlanning DEF Execution!PlanNext
<1>2. CASE ValidateStepPre
  BY <1>2, RefineValidateStepPre DEF Execution!PlanNext
<1>3. CASE InvokeSubagent
  BY <1>3, RefineInvoke DEF Execution!PlanNext
<1>4. CASE InvokeRaises \/ NodeRaises
  BY <1>4, RefineRaises DEF Execution!PlanNext
<1>5. CASE ValidateStepPost
  BY <1>5, RefineValidateStepPost DEF Execution!PlanNext
<1>6. CASE AggregateResults \/ ScanOutputGuardrails \/ WriteExecutionLog
  BY <1>6, RefineAnswering DEF Execution!PlanNext
<1>7. CASE RegistryChange \/ UNCHANGED vars
  <2>1. UNCHANGED execution /\ UNCHANGED node
    BY <1>7 DEF RegistryChange, vars, execution
  <2>2. PhaseOf' = PhaseOf
    BY <2>1 DEF PhaseOf
  <2> QED
    BY <2>1, <2>2, CountsUnchanged DEF Execution!planVars
<1> QED
  BY <1>1, <1>2, <1>3, <1>4, <1>5, <1>6, <1>7 DEF Next, GraphStep

\* The state graph implements the abstract execution of a plan.
THEOREM ExecutesPlanThm == Spec => ExecutesPlan
<1>1. Init => Execution!PlanInit
  BY RefineInit
<1>2. IInv /\ [Next]_vars => [Execution!PlanNext]_(Execution!planVars)
  BY RefineNext
<1> QED
  BY <1>1, <1>2, Invariance, PTL DEF Spec, ExecutesPlan, Execution!PlanSpec

Promises == INSTANCE PlanExecution_proofs
  WITH phase <- PhaseOf, passed <- StepsPassed, tried <- Attempts, hops <- hop

\* What the abstract execution promises of calls and limits holds of the state graph,
\* through the refinement.
THEOREM CallsPaidForThm == Spec => []CallsPaidFor
<1>1. ASSUME HopLimit \in Nat, RetryLimit \in Nat \ {0}
      PROVE  Promises!PlanSpec => []Promises!PaidFor
  BY <1>1, Promises!PaidForThm
<1>2. Promises!PlanSpec => []Promises!PaidFor
  BY <1>1, LimitsAssumption
<1>3. Promises!PlanInit <=> Execution!PlanInit
  BY DEF Promises!PlanInit, Execution!PlanInit
<1>4. [Promises!PlanNext]_(Promises!planVars) <=> [Execution!PlanNext]_(Execution!planVars)
  BY DEF Promises!PlanNext, Promises!Begin, Promises!Try, Promises!Pass, Promises!Stop,
         Promises!Answer, Promises!Fail, Promises!planVars,
         Execution!PlanNext, Execution!Begin, Execution!Try, Execution!Pass, Execution!Stop,
         Execution!Answer, Execution!Fail, Execution!planVars
<1>5. Promises!PaidFor <=> Execution!PaidFor
  BY DEF Promises!PaidFor, Execution!PaidFor
<1> QED
  BY <1>2, <1>3, <1>4, <1>5, ExecutesPlanThm, PTL
     DEF Promises!PlanSpec, Execution!PlanSpec, ExecutesPlan, CallsPaidFor

----------------------------------------------------------------------------
(* The service's view of a run *)

\* Nothing is logged before the last node.
LogComesLast == node \notin Final => logs = <<>>

\* Only the last node writes the log, and it ends the run.
LEMMA NextLogs == IInv /\ LogComesLast /\ [Next]_vars => LogComesLast'
<1> SUFFICES ASSUME IInv, LogComesLast, [Next]_vars PROVE LogComesLast'
  OBVIOUS
<1>1. CASE WriteExecutionLog
  <2>1. node' \in Final
    BY <1>1, SuperstepCounts DEF WriteExecutionLog, Final
  <2> QED
    BY <2>1 DEF LogComesLast
<1>2. CASE ~WriteExecutionLog
  <2>1. logs' = logs
    BY <1>2, Zenon
       DEF Next, GraphStep, ClassifyRequest, PromptUser, RetrieveKnowledge,
           DetectMissingInputs, GeneratePlan, PresentPlan, ValidateStepPre, InvokeSubagent,
           InvokeHalted, InvokeAgent, InvokeRaises, ValidateStepPost, AggregateResults,
           ScanOutputGuardrails, NodeRaises, RegistryChange, outputs, vars
  <2>2. node \in Final => node' = node
    <3>1. GraphStep => node \notin Final
      BY <1>2
         DEF GraphStep, ClassifyRequest, PromptUser, RetrieveKnowledge, DetectMissingInputs,
             GeneratePlan, PresentPlan, ValidateStepPre, InvokeSubagent, InvokeRaises,
             ValidateStepPost, AggregateResults, ScanOutputGuardrails, NodeRaises, Superstep,
             Final
    <3>2. RegistryChange \/ UNCHANGED vars => node' = node
      BY DEF RegistryChange, vars
    <3> QED
      BY <3>1, <3>2 DEF Next
  <2> QED
    BY <2>1, <2>2 DEF LogComesLast
<1> QED
  BY <1>1, <1>2

\* Where results do not change, neither does whether one was given up.
LEMMA SameRecords ==
  ASSUME UNCHANGED results
  PROVE  Len(results') = Len(results) /\ SomeGivenUp' = SomeGivenUp
BY DEF SomeGivenUp, GaveUp

\* While a step is executed none was given up: all before it passed, and its own retries
\* are not used up.
LEMMA NoneGivenUp ==
  ASSUME IInv, node \in {"validate_step_pre", "invoke_subagent", "validate_step_post"}
  PROVE  ~SomeGivenUp
<1>1. results \in Seq(StepResults) /\ \A i \in 1 .. Len(results) - 1 : results[i].passed
  BY DEF IInv, TypeOK, Story, ResultsFollowPlan
<1>2. CASE node = "validate_step_pre"
  BY <1>2 DEF IInv, BetweenStepsInv, SomeGivenUp, GaveUp
<1>3. CASE node \in {"invoke_subagent", "validate_step_post"}
  <2>1. LastResult.retries < RetryLimit /\ Len(results) \in 1 .. Len(results)
    BY <1>1, <1>3 DEF IInv, TypeOK, DuringStepInv
  <2>2. LastResult \in StepResults
    BY <1>1, <2>1 DEF LastResult
  <2>3. LastResult.retries \in Nat
    BY <2>2 DEF StepResults
  <2> QED
    <3>1. ~(LastResult.retries >= RetryLimit)
      BY <2>1, <2>3, LimitsAssumption
    <3>2. \A i \in 1 .. Len(results) : i \in 1 .. Len(results) - 1 \/ i = Len(results)
      BY <1>1
    <3>3. \A i \in 1 .. Len(results) : ~GaveUp(results[i])
      BY <1>1, <3>1, <3>2 DEF GaveUp, LastResult
    <3> QED
      BY <3>3 DEF SomeGivenUp
<1> QED
  BY <1>2, <1>3

\* Pre-validation is the only node that adds a record, and within the limit.
LEMMA RunValidateStepPre ==
  ASSUME IInv, LastStepInv, LogComesLast, ValidateStepPre
  PROVE  Run!RecordStep
<1>1. /\ node = "validate_step_pre" /\ node' \in {"invoke_subagent", "aggregate_results"}
      /\ results' \in Seq(StepResults) /\ Len(results') = idx + 1 /\ idx = Len(results)
      /\ idx \in Nat
  BY PreEffect
<1>2. Len(results) < RecordLimit
  <2>1. (idx = 0 \/ idx < Len(plan) - 1) /\ Len(plan) \in Nat /\ Len(plan) <= MaxPlan
    BY <1>1 DEF LastStepInv, IInv, TypeOK
  <2> QED
    BY <1>1, <2>1, LimitsAssumption DEF RecordLimit
<1>3. StageOf = "running" /\ StageOf' = "running"
  BY <1>1 DEF StageOf
<1>4. ~SomeGivenUp /\ SomeGivenUp' \in BOOLEAN
  BY <1>1, NoneGivenUp DEF SomeGivenUp
<1>5. logs' = logs
  BY DEF ValidateStepPre, outputs
<1> QED
  BY <1>1, <1>2, <1>3, <1>4, <1>5 DEF Run!RecordStep

\* A rejected step is given up or not; nothing else is visible of an execution.
LEMMA RunExecution ==
  ASSUME IInv, LogComesLast, InvokeSubagent \/ ValidateStepPost
  PROVE  Run!GiveUp \/ UNCHANGED Run!runVars
<1>1. /\ node \in {"invoke_subagent", "validate_step_post"} /\ Len(results') = Len(results)
      /\ node' \in {"validate_step_pre", "invoke_subagent", "validate_step_post",
                    "aggregate_results"}
  BY HaltEffect, CallEffect, PostEffect DEF InvokeSubagent, execution
<1>2. StageOf = "running" /\ StageOf' = "running"
  BY <1>1 DEF StageOf
<1>3. logs' = logs
  BY DEF InvokeSubagent, InvokeHalted, InvokeAgent, ValidateStepPost, outputs
<1>4. Len(results) > 0
  <2>1. Len(results) = idx + 1 /\ idx \in Nat
    BY <1>1 DEF IInv, TypeOK, DuringStepInv
  <2> QED
    BY <2>1
<1>5. (SomeGivenUp' = TRUE) \/ (SomeGivenUp' = SomeGivenUp)
  BY <1>1, NoneGivenUp DEF SomeGivenUp
<1>6. CASE SomeGivenUp' = TRUE
  BY <1>1, <1>2, <1>3, <1>4, <1>6 DEF Run!GiveUp
<1>7. CASE SomeGivenUp' = SomeGivenUp
  BY <1>1, <1>2, <1>3, <1>7, Zenon DEF Run!runVars
<1> QED
  BY <1>5, <1>6, <1>7, Zenon

\* The other nodes change no record; the last one writes the log.
LEMMA RunOthers ==
  ASSUME IInv, LogComesLast, [Next]_vars,
         ~ValidateStepPre, ~InvokeSubagent, ~ValidateStepPost
  PROVE  Run!BeginLog \/ Run!WriteLog \/ Run!Raise \/ UNCHANGED Run!runVars
<1>1. UNCHANGED results
  BY RaiseEffect, QuietStep DEF execution
<1>2. Len(results') = Len(results) /\ SomeGivenUp' = SomeGivenUp
  BY <1>1, SameRecords
<1>3. CASE WriteExecutionLog
  <2>1. PICK n \in 0 .. Len(results) :
          /\ logs' = LogEntries(n)
          /\ \/ n = Len(results) /\ node' = "END"
             \/ n < Len(results) /\ node' = "raised"
    BY <1>3, SuperstepCounts DEF WriteExecutionLog, LoggedResults
  <2>2. node = "write_execution_log" /\ Len(logs) = 0 /\ Len(results) \in Nat
    BY <1>3, SuperstepCounts DEF WriteExecutionLog, LogComesLast, Final, IInv, TypeOK
  <2>3. Len(logs') = n
    BY <2>1, <2>2 DEF LogEntries
  <2>4. /\ StageOf = "logging"
        /\ \/ n = Len(results) /\ StageOf' = "answered"
           \/ n < Len(results) /\ StageOf' = "raised"
    BY <2>1, <2>2 DEF StageOf
  <2> QED
    BY <1>2, <2>1, <2>2, <2>3, <2>4 DEF Run!WriteLog
<1>4. CASE ~WriteExecutionLog
  <2>1. logs' = logs
    BY <1>4, Zenon
       DEF Next, GraphStep, ClassifyRequest, PromptUser, RetrieveKnowledge,
           DetectMissingInputs, GeneratePlan, PresentPlan, InvokeRaises, AggregateResults,
           ScanOutputGuardrails, NodeRaises, RegistryChange, outputs, vars
  <2>2. \/ /\ node \notin Final \cup {"write_execution_log"} /\ node' # "END"
        \/ node' = node
    BY <1>4, SuperstepCounts
       DEF Next, GraphStep, ClassifyRequest, PromptUser, RetrieveKnowledge,
           DetectMissingInputs, GeneratePlan, PresentPlan, InvokeRaises, AggregateResults,
           ScanOutputGuardrails, NodeRaises, RegistryChange, vars, Final,
           RouteClassifyRequest, RouteDetectMissingInputs, RoutePresentPlan
  <2>3. \/ StageOf = "running" /\ StageOf' \in {"running", "logging", "raised"}
        \/ StageOf' = StageOf
    BY <2>2 DEF StageOf, Final
  <2> QED
    BY <1>2, <2>1, <2>3 DEF Run!BeginLog, Run!Raise, Run!runVars
<1> QED
  BY <1>3, <1>4

\* Every step of the graph is a step of the run the service sees, or none.
LEMMA RunNextStep ==
  ASSUME IInv, LastStepInv, LogComesLast, [Next]_vars
  PROVE  [Run!RunNext]_(Run!runVars)
BY RunValidateStepPre, RunExecution, RunOthers DEF Run!RunNext

\* The state graph keeps, for every registry, plan and limits, what the service relies on.
THEOREM IsGraphRunThm == Spec => IsGraphRun
<1>1. Init => Run!RunInit
  BY DEF Init, Run!RunInit, StageOf, SomeGivenUp
<1>2. Init => LastStepInv /\ LogComesLast
  BY DEF Init, LastStepInv, LogComesLast
<1>3. IInv /\ LastStepInv /\ LogComesLast /\ [Next]_vars => [Run!RunNext]_(Run!runVars)
  BY RunNextStep
<1> QED
  BY <1>1, <1>2, <1>3, NextLastStep, NextLogs, Invariance, PTL
     DEF Spec, IsGraphRun, Run!RunSpec
=============================================================================
