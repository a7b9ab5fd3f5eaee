----------------------- MODULE OrchestratorGraph_proofs -----------------------
(***************************************************************************)
(* Theorems about OrchestratorGraph for every registry, every plan length  *)
(* and every value of the limits.                                          *)
(***************************************************************************)
EXTENDS OrchestratorGraph, SequenceTheorems, TLAPS

Planning == {"classify_request", "prompt_user", "retrieve_knowledge",
             "detect_missing_inputs", "generate_plan", "present_plan"}
Halted == error \in SafetyErrors

(***************************************************************************)
(* What the history variables and step_results always agree on.            *)
(***************************************************************************)
Story ==
  /\ ResultsFollowPlan
  /\ HopsWithinLimit
  /\ CallsWithinRetries
  /\ CallsWerePreValidated
  /\ \A i \in 1 .. Len(results) :
       /\ results[i].reply # NoReply => i - 1 \in DOMAIN calls /\ calls[i - 1] # <<>>
       /\ results[i].passed => results[i].preOk /\ ReplyAccepted(results[i].reply)

(***************************************************************************)
(* Before the plan is executed nothing has happened.                       *)
(***************************************************************************)
PlanningInv ==
  node \in Planning =>
    /\ idx = 0 /\ hop = 0 /\ visited = <<>> /\ results = <<>>
    /\ \A s \in DOMAIN calls : calls[s] = <<>>
    /\ ~Halted
    /\ node = "classify_request" => supersteps <= 0
    /\ node = "prompt_user" => supersteps <= 1
    /\ node = "retrieve_knowledge" => supersteps <= 2
    /\ node = "detect_missing_inputs" => supersteps <= 3
    /\ node = "generate_plan" => supersteps <= 4
    /\ node = "present_plan" => supersteps <= 5

(***************************************************************************)
(* Between steps every result passed, and each cost at least one hop.      *)
(***************************************************************************)
BetweenStepsInv ==
  node = "validate_step_pre" =>
    /\ Len(results) = idx
    /\ \A i \in 1 .. Len(results) : results[i].passed
    /\ \A s \in DOMAIN calls : s >= idx => calls[s] = <<>>
    /\ ~Halted
    /\ idx <= hop
    /\ supersteps <= 6 + Len(results) + 2 * hop

(***************************************************************************)
(* While a step is executed the last result is its own, it has not passed, *)
(* and each failed attempt was a call or a safety halt.  A halt persists:  *)
(* neither hops nor visited pairs change, so the retry is halted too.      *)
(***************************************************************************)
DuringStepInv ==
  node \in {"invoke_subagent", "validate_step_post"} =>
    /\ Len(results) = idx + 1 /\ idx < Len(plan)
    /\ LastResult.preOk /\ ~LastResult.passed
    /\ LastResult.retries < RetryLimit
    /\ \A s \in DOMAIN calls : s > idx => calls[s] = <<>>
    /\ idx <= hop
    /\ Halted => SafetyError # "none"

InvokeInv ==
  node = "invoke_subagent" =>
    /\ ~ReplyAccepted(LastResult.reply)
    /\ Len(calls[idx]) <= LastResult.retries
    /\ ~Halted => supersteps <= 6 + Len(results) + 2 * hop
    /\ Halted => supersteps <= 6 + Len(results) + 2 * (hop + LastResult.retries)

PostInv ==
  node = "validate_step_post" =>
    /\ ~Halted => /\ Len(calls[idx]) <= LastResult.retries + 1
                  /\ idx + 1 <= hop
                  /\ supersteps <= 5 + Len(results) + 2 * hop
    /\ Halted => /\ ~ReplyAccepted(LastResult.reply)
                 /\ Len(calls[idx]) <= LastResult.retries
                 /\ supersteps <= 7 + Len(results) + 2 * (hop + LastResult.retries)

(***************************************************************************)
(* The last nodes, and what they leave behind.                             *)
(***************************************************************************)
AnswerInv ==
  /\ node = "aggregate_results" => supersteps + 3 <= SuperstepBound
  /\ node = "scan_output_guardrails" => supersteps + 2 <= SuperstepBound
  /\ node = "write_execution_log" => supersteps + 1 <= SuperstepBound
  /\ node \in Final => supersteps <= SuperstepBound

OutcomeInv ==
  /\ response.status # "none" =>
       /\ node \in {"scan_output_guardrails", "write_execution_log"} \cup Final
       /\ response.unverified <=> ~HasLiveData
       /\ response.diagnostic <=> Diagnosed
  /\ response.status = "blocked" <=> violations > 0
  /\ node = "scan_output_guardrails" => response.status \in {"empty", "draft"}
  /\ node \in {"write_execution_log", "END"} /\ GuardrailOn =>
       response.status \in {"clean", "blocked", "empty"}
  /\ node = "END" => logs = LogEntries(Len(results))

IInv ==
  /\ TypeOK /\ Story
  /\ PlanningInv /\ BetweenStepsInv /\ DuringStepInv /\ InvokeInv /\ PostInv
  /\ AnswerInv /\ OutcomeInv

----------------------------------------------------------------------------
(* Lemmas about the data *)

\* Every plan generate_plan can produce is a sequence of at most MaxPlan steps.
LEMMA PlansAreSequences ==
  ASSUME NEW p \in Plans
  PROVE  p \in Seq(PlanSteps) /\ Len(p) <= MaxPlan
<1>1. PICK n \in 0 .. MaxPlan : p \in [1 .. n -> PlanSteps]
  BY LimitsAssumption DEF Plans
<1>2. n \in Nat /\ n <= MaxPlan
  BY LimitsAssumption
<1>3. p \in Seq(PlanSteps)
  BY <1>1, <1>2, IsASeq
<1>4. Len(p) = n
  BY <1>1, <1>2, <1>3, LenProperties
<1> QED
  BY <1>2, <1>3, <1>4

\* invoke_subagent and validate_step_post replace the last step result only.
LEMMA UpdateLast ==
  ASSUME NEW S, NEW s \in Seq(S), s # <<>>, NEW e \in S,
         NEW t, t = [s EXCEPT ![Len(s)] = e]
  PROVE  /\ t \in Seq(S) /\ Len(t) = Len(s) /\ t # <<>>
         /\ t[Len(t)] = e
         /\ \A i \in 1 .. Len(s) - 1 : t[i] = s[i]
<1>1. Len(s) \in Nat /\ Len(s) \in 1 .. Len(s)
  BY EmptySeq, LenProperties
<1> QED
  BY <1>1, ExceptSeq, LenProperties

\* Calls and visited pairs are appended: those before stay.
LEMMA AppendGrows ==
  ASSUME NEW S, NEW s \in Seq(S), NEW e
  PROVE  /\ Len(s) \in Nat /\ Len(Append(s, e)) = Len(s) + 1
         /\ \A i \in 1 .. Len(s) : Append(s, e)[i] = s[i]
         /\ Append(s, e)[Len(s) + 1] = e
         /\ Range(Append(s, e)) = Range(s) \cup {e}
<1>1. /\ DOMAIN s = 1 .. Len(s) /\ Len(s) \in Nat /\ Len(Append(s, e)) = Len(s) + 1
      /\ DOMAIN Append(s, e) = 1 .. Len(s) + 1
      /\ \A i \in 1 .. Len(s) : Append(s, e)[i] = s[i]
      /\ Append(s, e)[Len(s) + 1] = e
  OBVIOUS
<1> QED
  BY <1>1 DEF Range

\* The agent a step is sent to comes from the registry, or is none.
LEMMA MatchedAgentsType ==
  ASSUME healthy \in SUBSET Agents
  PROVE  \A step : MatchedAgents(step) \subseteq Agents \cup {NoAgent}
BY DEF MatchedAgents, ActiveAgents

\* The notices of the answer are Booleans.
LEMMA NoticesAreBoolean ==
  /\ Uncertain \in BOOLEAN
  /\ HasLiveData \in BOOLEAN
  /\ Diagnosed \in BOOLEAN
BY DEF Uncertain, HasLiveData, Diagnosed

----------------------------------------------------------------------------
(* What the invariant says of a state *)

\* What holds of the step whose answer validate_step_post reads.
LEMMA AtPost ==
  ASSUME IInv, node = "validate_step_post"
  PROVE  /\ Len(results) = idx + 1 /\ idx < Len(plan) /\ idx <= hop /\ hop <= HopLimit
         /\ idx \in Nat /\ hop \in Nat /\ supersteps \in Nat /\ Len(plan) \in Nat
         /\ results \in Seq(StepResults) /\ LastResult \in StepResults
         /\ LastResult.preOk /\ LastResult.retries \in Nat
         /\ LastResult.retries < RetryLimit
         /\ DOMAIN calls \subseteq Int
         /\ \A s \in DOMAIN calls : s > idx => calls[s] = <<>>
<1>1. /\ Len(results) = idx + 1 /\ idx < Len(plan) /\ idx <= hop /\ hop <= HopLimit
      /\ idx \in Nat /\ hop \in Nat /\ supersteps \in Nat /\ plan \in Seq(PlanSteps)
      /\ results \in Seq(StepResults)
      /\ LastResult.preOk /\ LastResult.retries < RetryLimit
      /\ DOMAIN calls = 0 .. MaxPlan - 1
      /\ \A s \in DOMAIN calls : s > idx => calls[s] = <<>>
  BY DEF IInv, TypeOK, DuringStepInv, Story, HopsWithinLimit
<1>2. LastResult \in StepResults
  BY <1>1 DEF LastResult
<1>3. LastResult.retries \in Nat
  BY <1>2 DEF StepResults
<1>4. DOMAIN calls \subseteq Int
  BY <1>1, LimitsAssumption
<1> QED
  BY <1>1, <1>2, <1>3, <1>4, LenProperties

\* In every state of the invariant the supersteps are within the bound.
LEMMA BoundFromInv ==
  ASSUME IInv
  PROVE  supersteps <= SuperstepBound
<1>1. supersteps \in Nat /\ hop \in Nat /\ idx \in Nat /\ hop <= HopLimit
      /\ HopLimit \in Nat /\ RetryLimit \in Nat \ {0}
  BY LimitsAssumption DEF IInv, TypeOK, Story, HopsWithinLimit
<1>2. CASE node \in Planning
  BY <1>1, <1>2 DEF IInv, PlanningInv, Planning, SuperstepBound
<1>3. CASE node = "validate_step_pre"
  BY <1>1, <1>3 DEF IInv, BetweenStepsInv, SuperstepBound
<1>4. CASE node = "invoke_subagent"
  <2>1. /\ Len(results) = idx + 1 /\ idx <= hop
        /\ LastResult.retries < RetryLimit /\ results \in Seq(StepResults)
        /\ ~Halted => supersteps <= 6 + Len(results) + 2 * hop
        /\ Halted => supersteps <= 6 + Len(results) + 2 * (hop + LastResult.retries)
    BY <1>4 DEF IInv, TypeOK, DuringStepInv, InvokeInv
  <2>2. LastResult \in StepResults
    BY <1>1, <2>1 DEF LastResult
  <2>3. LastResult.retries \in Nat
    BY <2>2 DEF StepResults
  <2> QED
    BY <1>1, <2>1, <2>3 DEF SuperstepBound
<1>5. CASE node = "validate_step_post"
  <2>1. /\ Len(results) = idx + 1 /\ idx <= hop
        /\ LastResult.retries \in Nat /\ LastResult.retries < RetryLimit
    BY <1>5, AtPost
  <2>2. /\ ~Halted => supersteps <= 5 + Len(results) + 2 * hop
        /\ Halted => supersteps <= 7 + Len(results) + 2 * (hop + LastResult.retries)
    BY <1>5 DEF IInv, PostInv
  <2> QED
    BY <1>1, <2>1, <2>2 DEF SuperstepBound
<1>6. CASE node \in {"aggregate_results", "scan_output_guardrails",
                     "write_execution_log"} \cup Final
  BY <1>1, <1>6 DEF IInv, AnswerInv, SuperstepBound
<1>7. node \in Nodes \cup Final
  BY DEF IInv, TypeOK
<1> QED
  BY <1>2, <1>3, <1>4, <1>5, <1>6, <1>7 DEF Nodes, Planning

\* Within the bound the count of supersteps does not saturate.
LEMMA SuperstepCounts ==
  ASSUME IInv
  PROVE  \A from, to : Superstep(from, to) =>
           node = from /\ node' = to /\ supersteps' = supersteps + 1
<1>1. supersteps \in Nat /\ SuperstepBound \in Nat /\ supersteps <= SuperstepBound
  BY LimitsAssumption, BoundFromInv DEF IInv, TypeOK, SuperstepBound
<1> QED
  BY <1>1 DEF Superstep

----------------------------------------------------------------------------
(* The invariant holds initially *)

\* The initial state of a request satisfies the invariant.
LEMMA InitInv == Init => IInv
<1> SUFFICES ASSUME Init PROVE IInv
  OBVIOUS
<1>1. TypeOK
  <2>1. node \in Nodes \cup Final /\ error \in Errors /\ response \in Responses
    BY DEF Init, Nodes, Errors, Responses, NoResponse
  <2>2. calls \in [0 .. MaxPlan - 1 -> Seq(Agents \cup {NoAgent})]
    BY EmptySeq DEF Init
  <2>3. /\ plan \in Seq(PlanSteps) /\ results \in Seq(StepResults) /\ logs \in Seq(LogEntrySet)
        /\ visited \in Seq((Agents \cup {NoAgent}) \X {s.inputs : s \in PlanSteps})
        /\ Len(plan) <= MaxPlan
    BY EmptySeq, LimitsAssumption DEF Init
  <2>4. idx \in Nat /\ hop \in Nat /\ violations \in Nat /\ supersteps \in Nat
    BY DEF Init
  <2>5. /\ clarifying \in BOOLEAN /\ missing \in BOOLEAN /\ kbDocs \in BOOLEAN
        /\ healthy \in SUBSET Agents
    BY Zenon DEF Init
  <2> QED
    BY <2>1, <2>2, <2>3, <2>4, <2>5 DEF TypeOK
<1>2. Story
  BY LimitsAssumption DEF Init, Story, ResultsFollowPlan, HopsWithinLimit, CallsWithinRetries,
        CallsWerePreValidated
<1>3. PlanningInv /\ BetweenStepsInv /\ DuringStepInv /\ InvokeInv /\ PostInv
  BY DEF Init, PlanningInv, BetweenStepsInv, DuringStepInv, InvokeInv, PostInv, Halted,
         SafetyErrors
<1>4. AnswerInv /\ OutcomeInv
  BY DEF Init, AnswerInv, OutcomeInv, Final, NoResponse
<1> QED
  BY <1>1, <1>2, <1>3, <1>4 DEF IInv

----------------------------------------------------------------------------
(* Every step preserves the invariant *)

\* The nodes before validate_step_pre touch nothing of the execution.
LEMMA PlanningStep ==
  ASSUME IInv,
         \/ ClassifyRequest \/ PromptUser \/ RetrieveKnowledge
         \/ DetectMissingInputs \/ GeneratePlan \/ PresentPlan
  PROVE  IInv'
<1> USE LimitsAssumption, RegistryAssumption
<1>1. /\ node \in Planning /\ node' \in Planning \cup {"validate_step_pre"}
      /\ UNCHANGED <<execution, outputs, healthy>>
      /\ supersteps' = supersteps + 1
  BY SuperstepCounts DEF ClassifyRequest, PromptUser, RetrieveKnowledge, DetectMissingInputs,
         GeneratePlan, PresentPlan, Planning, RouteClassifyRequest,
         RouteDetectMissingInputs, RoutePresentPlan
<1>2. TypeOK'
  <2>1. /\ node' \in Nodes \cup Final /\ idx' \in Nat /\ hop' \in Nat
        /\ supersteps' \in Nat /\ violations' \in Nat /\ healthy' \in SUBSET Agents
    BY <1>1 DEF IInv, TypeOK, Nodes, Planning, execution, outputs
  <2>2. /\ results' \in Seq(StepResults) /\ response' \in Responses
        /\ visited' \in Seq((Agents \cup {NoAgent}) \X {s.inputs : s \in PlanSteps})
        /\ logs' \in Seq(LogEntrySet)
        /\ calls' \in [0 .. MaxPlan - 1 -> Seq(Agents \cup {NoAgent})]
    BY <1>1 DEF IInv, TypeOK, execution, outputs
  <2>3. missing' \in BOOLEAN /\ kbDocs' \in BOOLEAN
    BY Zenon DEF IInv, TypeOK, ClassifyRequest, PromptUser, RetrieveKnowledge,
           DetectMissingInputs, GeneratePlan, PresentPlan, understanding
  <2>6. clarifying' \in BOOLEAN
    <3>1. CASE ClassifyRequest
      <4>1. \E score \in Scores \cup {0} : clarifying' = (score < ConfidenceThreshold)
        BY <3>1 DEF ClassifyRequest
      <4> QED
        BY <4>1 DEF ConfidenceThreshold
    <3>2. CASE PromptUser
      BY <3>2, Zenon DEF PromptUser
    <3> QED
      BY <3>1, <3>2, Zenon DEF IInv, TypeOK, RetrieveKnowledge, DetectMissingInputs,
             GeneratePlan, PresentPlan, understanding
  <2>4. plan' \in Seq(PlanSteps) /\ Len(plan') <= MaxPlan
    BY PlansAreSequences DEF IInv, TypeOK, ClassifyRequest, PromptUser, RetrieveKnowledge,
           DetectMissingInputs, GeneratePlan, PresentPlan
  <2>5. error' \in Errors
    BY DEF IInv, TypeOK, Errors, ClassifyRequest, PromptUser, RetrieveKnowledge,
           DetectMissingInputs, GeneratePlan, PresentPlan
  <2> QED
    BY <2>1, <2>2, <2>3, <2>4, <2>5, <2>6 DEF TypeOK
<1>3. Story'
  BY <1>1 DEF IInv, Story, ResultsFollowPlan, HopsWithinLimit, CallsWithinRetries,
              CallsWerePreValidated, execution
<1>4. ~Halted'
  BY <1>1 DEF IInv, PlanningInv, Halted, SafetyErrors, ClassifyRequest, PromptUser,
              RetrieveKnowledge, DetectMissingInputs, GeneratePlan, PresentPlan
<1>5. PlanningInv' /\ BetweenStepsInv'
  <2>1. /\ idx' = 0 /\ hop' = 0 /\ visited' = <<>> /\ results' = <<>>
        /\ \A s \in DOMAIN calls' : calls'[s] = <<>>
    BY <1>1 DEF IInv, PlanningInv, execution
  <2>2. /\ node' = "classify_request" => supersteps' <= 0
        /\ node' = "prompt_user" => supersteps' <= 1
        /\ node' = "retrieve_knowledge" => supersteps' <= 2
        /\ node' = "detect_missing_inputs" => supersteps' <= 3
        /\ node' = "generate_plan" => supersteps' <= 4
        /\ node' = "present_plan" => supersteps' <= 5
        /\ node' = "validate_step_pre" => supersteps' <= 6
    BY SuperstepCounts DEF IInv, TypeOK, PlanningInv, Planning, ClassifyRequest, PromptUser,
           RetrieveKnowledge, DetectMissingInputs, GeneratePlan, PresentPlan,
           RouteClassifyRequest, RouteDetectMissingInputs, RoutePresentPlan
  <2> QED
    BY <1>4, <2>1, <2>2 DEF PlanningInv, BetweenStepsInv, Halted
<1>6. DuringStepInv' /\ InvokeInv' /\ PostInv' /\ AnswerInv'
  BY <1>1 DEF DuringStepInv, InvokeInv, PostInv, AnswerInv, Planning, Final
<1>7. OutcomeInv'
  BY <1>1 DEF IInv, OutcomeInv, Planning, Final, outputs
<1> QED
  BY <1>2, <1>3, <1>5, <1>6, <1>7 DEF IInv

\* validate_step_pre appends one record, which is about the current step.
LEMMA ValidateStepPreStep ==
  ASSUME IInv, ValidateStepPre
  PROVE  IInv'
<1> USE LimitsAssumption, RegistryAssumption
<1> DEFINE r == StepResult(idx, PreValid)
<1>1. /\ node = "validate_step_pre" /\ supersteps' = supersteps + 1
      /\ UNCHANGED <<understanding, kbDocs, plan, idx, hop, visited, calls, error,
                     outputs, healthy>>
  BY SuperstepCounts DEF ValidateStepPre
<1>2. PreValid \in BOOLEAN /\ (PreValid => idx < Len(plan))
  BY DEF PreValid
<1>3. /\ r \in StepResults /\ r.step = idx /\ r.preOk = PreValid /\ r.reply = NoReply
      /\ r.retries = 0 /\ r.passed = FALSE
  BY <1>2 DEF StepResults, StepResult, IInv, TypeOK
<1>4. /\ results' \in Seq(StepResults) /\ Len(results') = Len(results) + 1
      /\ results'[Len(results')] = r
      /\ \A i \in 1 .. Len(results) : results'[i] = results[i]
  <2>1. results' = Append(results, r) /\ results \in Seq(StepResults)
    BY DEF ValidateStepPre, RecordPreValidation, IInv, TypeOK
  <2> QED
    BY <1>3, <2>1, AppendProperties
<1>5. /\ PreValid => node' = "invoke_subagent"
      /\ ~PreValid => node' = "aggregate_results"
  BY SuperstepCounts, <1>2, <1>3, <1>4 DEF ValidateStepPre, RouteValidateStepPre
<1>6. /\ Len(results) = idx /\ idx \in Nat /\ hop \in Nat /\ idx <= hop
      /\ supersteps <= 6 + Len(results) + 2 * hop /\ supersteps \in Nat
      /\ \A i \in 1 .. Len(results) : results[i].passed
      /\ \A s \in DOMAIN calls : s >= idx => calls[s] = <<>>
      /\ DOMAIN calls \subseteq Int
      /\ ~Halted /\ Story /\ hop <= HopLimit
  BY <1>1 DEF IInv, TypeOK, BetweenStepsInv, Story, HopsWithinLimit
<1>7. TypeOK'
  <2>1. node' \in Nodes \cup Final /\ supersteps' \in Nat
    BY <1>1, <1>2, <1>5, <1>6 DEF Nodes
  <2> QED
    BY <1>1, <1>4, <2>1 DEF IInv, TypeOK, understanding, outputs
<1>8. Story'
  <2>1. ResultsFollowPlan'
    <3>1. \A i \in 1 .. Len(results) : results[i].step = i - 1
      BY <1>6 DEF Story, ResultsFollowPlan
    <3>2. Len(results) \in Nat
      BY <1>6
    <3>3. \A i \in 1 .. Len(results') : results'[i].step = i - 1
      <4> SUFFICES ASSUME NEW i \in 1 .. Len(results') PROVE results'[i].step = i - 1
        OBVIOUS
      <4>1. CASE i \in 1 .. Len(results)
        BY <1>4, <3>1, <4>1
      <4>2. CASE i = Len(results')
        BY <1>3, <1>4, <1>6, <4>2
      <4> QED
        BY <1>4, <3>2, <4>1, <4>2
    <3>4. \A i \in 1 .. Len(results') - 1 : results'[i].passed
      BY <1>4, <1>6, <3>2
    <3> QED
      BY <3>3, <3>4 DEF ResultsFollowPlan
  <2>2. HopsWithinLimit' /\ CallsWithinRetries'
    BY <1>1, <1>6 DEF Story, HopsWithinLimit, CallsWithinRetries
  <2>3. CallsWerePreValidated'
    <3>1. DOMAIN calls = 0 .. MaxPlan - 1
      BY DEF IInv, TypeOK
    <3> QED
      BY <1>1, <1>4, <1>6, <3>1 DEF Story, CallsWerePreValidated
  <2>4. \A i \in 1 .. Len(results') :
          /\ results'[i].reply # NoReply => i - 1 \in DOMAIN calls' /\ calls'[i - 1] # <<>>
          /\ results'[i].passed => results'[i].preOk /\ ReplyAccepted(results'[i].reply)
    BY <1>1, <1>3, <1>4, <1>6 DEF Story
  <2> QED
    BY <2>1, <2>2, <2>3, <2>4 DEF Story
<1>9. PlanningInv' /\ BetweenStepsInv' /\ PostInv'
  BY <1>2, <1>5 DEF PlanningInv, BetweenStepsInv, PostInv, Planning
<1>10. DuringStepInv' /\ InvokeInv'
  <2> SUFFICES ASSUME PreValid PROVE DuringStepInv' /\ InvokeInv'
    BY <1>2, <1>5 DEF DuringStepInv, InvokeInv
  <2>1. /\ LastResult'.preOk /\ ~LastResult'.passed
        /\ LastResult'.retries = 0 /\ LastResult'.reply = NoReply
    BY <1>3, <1>4 DEF LastResult
  <2>2. ~ReplyAccepted(NoReply)
    BY DEF ReplyAccepted, Scored, Score, NoReply
  <2>3. ~Halted' /\ Len(calls[idx]) = 0
    <3>1. idx \in DOMAIN calls
      BY <1>2, <1>6 DEF IInv, TypeOK
    <3> QED
      BY <1>1, <1>6, <3>1 DEF Halted
  <2>4. Len(results') = idx + 1 /\ idx < Len(plan) /\ RetryLimit > 0
    BY <1>2, <1>4, <1>6
  <2>5. \A s \in DOMAIN calls : s > idx => calls[s] = <<>>
    BY <1>6
  <2>6. DuringStepInv'
    BY <1>1, <1>6, <2>1, <2>3, <2>4, <2>5 DEF DuringStepInv
  <2>7. supersteps' <= 6 + Len(results') + 2 * hop
    BY <1>1, <1>4, <1>6
  <2>8. InvokeInv'
    BY <1>1, <2>1, <2>2, <2>3, <2>7 DEF InvokeInv
  <2> QED
    BY <2>6, <2>8
<1>11. AnswerInv'
  BY <1>1, <1>2, <1>4, <1>5, <1>6 DEF AnswerInv, SuperstepBound, Final
<1>12. OutcomeInv'
  BY <1>1, <1>2, <1>5 DEF IInv, OutcomeInv, Final, outputs
<1> QED
  BY <1>7, <1>8, <1>9, <1>10, <1>11, <1>12 DEF IInv

\* A safety halt changes only the error; the current step keeps its last answer.
LEMMA InvokeHaltedStep ==
  ASSUME IInv, InvokeHalted
  PROVE  IInv'
<1> USE LimitsAssumption, RegistryAssumption
<1>1. /\ node = "invoke_subagent" /\ node' = "validate_step_post"
      /\ supersteps' = supersteps + 1 /\ SafetyError # "none" /\ error' = SafetyError
      /\ UNCHANGED <<understanding, kbDocs, plan, execution, outputs, healthy>>
  BY SuperstepCounts DEF InvokeHalted
<1>2. SafetyError \in SafetyErrors /\ SafetyError' = SafetyError /\ Halted'
  BY <1>1 DEF SafetyError, SafetyErrors, CurrentStep, execution, Halted
<1>3. TypeOK'
  BY <1>1, <1>2 DEF IInv, TypeOK, Nodes, Errors, understanding, execution, outputs
<1>4. Story'
  BY <1>1 DEF IInv, Story, ResultsFollowPlan, HopsWithinLimit, CallsWithinRetries,
              CallsWerePreValidated, execution
<1>5. PlanningInv' /\ BetweenStepsInv' /\ InvokeInv' /\ AnswerInv'
  BY <1>1 DEF PlanningInv, BetweenStepsInv, InvokeInv, AnswerInv, Planning, Final
<1>6. DuringStepInv'
  BY <1>1, <1>2 DEF IInv, DuringStepInv, LastResult, execution
<1>7. PostInv'
  <2>1. LastResult \in StepResults /\ LastResult' = LastResult
    BY <1>1 DEF IInv, DuringStepInv, TypeOK, LastResult, execution
  <2>2. LastResult.retries \in Nat
    BY <2>1 DEF StepResults
  <2>3. /\ ~ReplyAccepted(LastResult.reply) /\ Len(calls[idx]) <= LastResult.retries
        /\ ~Halted => supersteps <= 6 + Len(results) + 2 * hop
        /\ Halted => supersteps <= 6 + Len(results) + 2 * (hop + LastResult.retries)
    BY <1>1 DEF IInv, InvokeInv
  <2>4. supersteps' <= 7 + Len(results) + 2 * (hop + LastResult.retries)
    <3>1. supersteps \in Nat /\ hop \in Nat /\ Len(results) \in Nat
      BY DEF IInv, TypeOK
    <3> QED
      BY <1>1, <2>2, <2>3, <3>1
  <2>5. UNCHANGED <<idx, hop, results, calls>>
    BY <1>1 DEF execution
  <2> QED
    BY <1>2, <2>1, <2>3, <2>4, <2>5 DEF PostInv
<1>8. OutcomeInv'
  BY <1>1 DEF IInv, OutcomeInv, Final, outputs
<1> QED
  BY <1>3, <1>4, <1>5, <1>6, <1>7, <1>8 DEF IInv

\* Recording a call for the current step keeps every call within the retry limit
\* and on a step that was pre-validated.
LEMMA CallRecorded ==
  ASSUME IInv, node = "invoke_subagent", ~Halted,
         NEW a \in Agents \cup {NoAgent},
         calls' = [calls EXCEPT ![idx] = Append(@, a)]
  PROVE  /\ calls' \in [0 .. MaxPlan - 1 -> Seq(Agents \cup {NoAgent})]
         /\ idx \in DOMAIN calls /\ calls'[idx] # <<>>
         /\ Len(calls'[idx]) <= LastResult.retries + 1
         /\ \A s \in DOMAIN calls : s # idx => calls'[s] = calls[s]
         /\ CallsWithinRetries'
<1> USE LimitsAssumption
<1>1. /\ idx \in DOMAIN calls /\ calls[idx] \in Seq(Agents \cup {NoAgent})
      /\ DOMAIN calls = 0 .. MaxPlan - 1
      /\ calls \in [0 .. MaxPlan - 1 -> Seq(Agents \cup {NoAgent})]
  BY DEF IInv, TypeOK, DuringStepInv
<1>2. LastResult.retries \in Nat /\ LastResult.retries < RetryLimit
  <2>1. LastResult \in StepResults
    BY DEF IInv, TypeOK, DuringStepInv, LastResult
  <2> QED
    BY <2>1 DEF StepResults, IInv, DuringStepInv
<1>3. Len(calls[idx]) <= LastResult.retries /\ Len(calls[idx]) \in Nat
  BY <1>1, LenProperties DEF IInv, InvokeInv
<1>4. /\ Append(calls[idx], a) \in Seq(Agents \cup {NoAgent})
      /\ Len(Append(calls[idx], a)) = Len(calls[idx]) + 1
      /\ Append(calls[idx], a) # <<>>
  BY <1>1, AppendProperties
<1>5. /\ calls'[idx] = Append(calls[idx], a)
      /\ \A s \in DOMAIN calls : s # idx => calls'[s] = calls[s]
      /\ calls' \in [0 .. MaxPlan - 1 -> Seq(Agents \cup {NoAgent})]
  BY <1>1, <1>4
<1>6. CallsWithinRetries'
  BY <1>1, <1>2, <1>3, <1>4, <1>5 DEF IInv, Story, CallsWithinRetries
<1> QED
  BY <1>1, <1>2, <1>3, <1>4, <1>5, <1>6

\* A call adds a hop, a visited pair and the answer to the last step result.
LEMMA InvokeAgentStep ==
  ASSUME IInv, node = "invoke_subagent", InvokeAgent
  PROVE  IInv'
<1> USE LimitsAssumption, RegistryAssumption
<1>1. PICK a \in MatchedAgents(CurrentStep), r \in Replies :
        /\ calls' = [calls EXCEPT ![idx] = Append(@, a)]
        /\ visited' = Append(visited, StepKey(a, CurrentStep))
        /\ results' = [results EXCEPT ![Len(results)].reply = r]
  BY DEF InvokeAgent
<1>2. /\ node' = "validate_step_post" /\ supersteps' = supersteps + 1 /\ hop' = hop + 1
      /\ SafetyError = "none"
      /\ UNCHANGED <<understanding, kbDocs, plan, idx, error, outputs, healthy>>
  BY SuperstepCounts DEF InvokeAgent
<1>3. /\ ~Halted /\ hop < HopLimit
      /\ Len(results) = idx + 1 /\ idx < Len(plan) /\ idx <= hop
      /\ LastResult.preOk /\ ~LastResult.passed /\ LastResult.retries < RetryLimit
      /\ \A s \in DOMAIN calls : s > idx => calls[s] = <<>>
      /\ ~ReplyAccepted(LastResult.reply)
      /\ supersteps <= 6 + Len(results) + 2 * hop
  <2>1. hop < HopLimit
    BY <1>2 DEF SafetyError, IInv, TypeOK
  <2> QED
    BY <1>2, <2>1 DEF IInv, DuringStepInv, InvokeInv
<1>4. /\ idx \in Nat /\ hop \in Nat /\ supersteps \in Nat
      /\ plan \in Seq(PlanSteps) /\ results \in Seq(StepResults)
      /\ visited \in Seq((Agents \cup {NoAgent}) \X {s.inputs : s \in PlanSteps})
      /\ healthy \in SUBSET Agents
  BY DEF IInv, TypeOK
<1>5. a \in Agents \cup {NoAgent}
  BY <1>4, MatchedAgentsType
<1>6. /\ calls' \in [0 .. MaxPlan - 1 -> Seq(Agents \cup {NoAgent})]
      /\ idx \in DOMAIN calls /\ calls'[idx] # <<>>
      /\ Len(calls'[idx]) <= LastResult.retries + 1
      /\ \A s \in DOMAIN calls : s # idx => calls'[s] = calls[s]
      /\ CallsWithinRetries'
      /\ DOMAIN calls' = DOMAIN calls /\ DOMAIN calls \subseteq Int
  <2>1. DOMAIN calls = 0 .. MaxPlan - 1
    BY DEF IInv, TypeOK
  <2>2. /\ calls' \in [0 .. MaxPlan - 1 -> Seq(Agents \cup {NoAgent})]
        /\ idx \in DOMAIN calls /\ calls'[idx] # <<>>
        /\ Len(calls'[idx]) <= LastResult.retries + 1
        /\ \A s \in DOMAIN calls : s # idx => calls'[s] = calls[s]
        /\ CallsWithinRetries'
    <3>1. calls' = [calls EXCEPT ![idx] = Append(@, a)] /\ ~Halted
      BY <1>1, <1>3
    <3> QED
      BY <1>5, <3>1, CallRecorded
  <2>3. DOMAIN calls' = DOMAIN calls /\ DOMAIN calls \subseteq Int
    BY <2>1, <2>2
  <2> QED
    BY <2>2, <2>3
<1>7. /\ visited' \in Seq((Agents \cup {NoAgent}) \X {s.inputs : s \in PlanSteps})
      /\ Len(visited') = Len(visited) + 1
  <2>1. CurrentStep \in PlanSteps
    BY <1>3, <1>4 DEF CurrentStep
  <2>2. StepKey(a, CurrentStep) \in (Agents \cup {NoAgent}) \X {s.inputs : s \in PlanSteps}
    BY <1>5, <2>1 DEF StepKey
  <2> QED
    BY <1>1, <1>4, <2>2, AppendProperties
<1>8. /\ results' \in Seq(StepResults) /\ Len(results') = Len(results)
      /\ \A i \in 1 .. Len(results) - 1 : results'[i] = results[i]
      /\ LastResult'.preOk /\ ~LastResult'.passed /\ LastResult'.reply = r
      /\ LastResult'.retries = LastResult.retries /\ LastResult'.step = LastResult.step
      /\ LastResult.retries \in Nat
  <2> DEFINE e == [LastResult EXCEPT !.reply = r]
  <2>1. LastResult \in StepResults /\ results # <<>>
    BY <1>3, <1>4 DEF LastResult
  <2>2. /\ e \in StepResults /\ e.reply = r /\ e.retries = LastResult.retries
        /\ e.step = LastResult.step /\ e.preOk = LastResult.preOk
        /\ e.passed = LastResult.passed /\ LastResult.retries \in Nat
    BY <2>1 DEF StepResults
  <2>3. results' = [results EXCEPT ![Len(results)] = e]
    BY <1>1 DEF LastResult
  <2> HIDE DEF e
  <2>4. /\ results' \in Seq(StepResults) /\ Len(results') = Len(results)
        /\ results'[Len(results')] = e
        /\ \A i \in 1 .. Len(results) - 1 : results'[i] = results[i]
    BY <1>4, <2>1, <2>2, <2>3, UpdateLast
  <2> QED
    BY <1>3, <2>2, <2>4 DEF LastResult
<1>9. TypeOK'
  <2>1. node' \in Nodes \cup Final /\ supersteps' \in Nat /\ hop' \in Nat
    BY <1>2, <1>4 DEF Nodes
  <2> QED
    BY <1>2, <1>6, <1>7, <1>8, <2>1 DEF IInv, TypeOK, understanding, outputs
<1>10. Story'
  <2>1. ResultsFollowPlan'
    BY <1>3, <1>4, <1>8 DEF IInv, Story, ResultsFollowPlan, LastResult
  <2>2. HopsWithinLimit'
    BY <1>2, <1>3, <1>4, <1>7 DEF IInv, Story, HopsWithinLimit
  <2>3. \A s \in DOMAIN calls' : calls'[s] # <<>> =>
          s < Len(results') /\ results'[s + 1].step = s /\ results'[s + 1].preOk
    <3> SUFFICES ASSUME NEW s \in DOMAIN calls, calls'[s] # <<>>
                 PROVE  s < Len(results') /\ results'[s + 1].step = s /\ results'[s + 1].preOk
      BY <1>6
    <3>1. CASE s = idx
      BY <1>3, <1>4, <1>8, <2>1, <3>1 DEF ResultsFollowPlan, LastResult
    <3>2. CASE s # idx
      <4>1. s < Len(results) /\ results[s + 1].step = s /\ results[s + 1].preOk
        BY <1>6, <3>2 DEF IInv, Story, CallsWerePreValidated
      <4>2. s + 1 \in 1 .. Len(results) - 1
        <5>1. s \in 0 .. MaxPlan - 1
          BY DEF IInv, TypeOK
        <5> QED
          BY <1>3, <1>4, <3>2, <4>1, <5>1
      <4> QED
        BY <1>8, <4>1, <4>2
    <3> QED
      BY <3>1, <3>2
  <2>4. \A i \in 1 .. Len(results') :
          /\ results'[i].reply # NoReply => i - 1 \in DOMAIN calls' /\ calls'[i - 1] # <<>>
          /\ results'[i].passed => results'[i].preOk /\ ReplyAccepted(results'[i].reply)
    <3> SUFFICES ASSUME NEW i \in 1 .. Len(results)
                 PROVE  /\ results'[i].reply # NoReply =>
                             i - 1 \in DOMAIN calls' /\ calls'[i - 1] # <<>>
                        /\ results'[i].passed =>
                             results'[i].preOk /\ ReplyAccepted(results'[i].reply)
      BY <1>8
    <3>1. CASE i = Len(results)
      BY <1>3, <1>4, <1>6, <1>8, <3>1 DEF LastResult
    <3>2. CASE i # Len(results)
      <4>1. i \in 1 .. Len(results) - 1 /\ results'[i] = results[i] /\ i - 1 # idx
        <5>1. Len(results) = idx + 1 /\ idx \in Nat
          BY <1>3, <1>4
        <5>2. i \in 1 .. Len(results) - 1 /\ i - 1 # idx
          BY <3>2, <5>1
        <5> QED
          BY <1>8, <5>2
      <4>2. /\ results[i].reply # NoReply => i - 1 \in DOMAIN calls /\ calls[i - 1] # <<>>
            /\ results[i].passed => results[i].preOk /\ ReplyAccepted(results[i].reply)
        BY DEF IInv, Story
      <4> QED
        BY <1>6, <4>1, <4>2
    <3> QED
      BY <3>1, <3>2
  <2> QED
    BY <1>6, <2>1, <2>2, <2>3, <2>4 DEF Story, CallsWerePreValidated
<1>11. PlanningInv' /\ BetweenStepsInv' /\ InvokeInv' /\ AnswerInv'
  BY <1>2 DEF PlanningInv, BetweenStepsInv, InvokeInv, AnswerInv, Planning, Final
<1>12. ~Halted'
  BY <1>2, <1>3 DEF Halted
<1>13. DuringStepInv'
  <2>1. \A s \in DOMAIN calls' : s > idx' => calls'[s] = <<>>
    <3> SUFFICES ASSUME NEW s \in DOMAIN calls, s > idx PROVE calls'[s] = <<>>
      BY <1>2, <1>6
    <3>1. s \in Int /\ s # idx
      BY <1>4, <1>6
    <3> QED
      BY <1>3, <1>6, <3>1
  <2>2. Len(results') = idx' + 1 /\ idx' < Len(plan') /\ idx' <= hop'
    BY <1>2, <1>3, <1>4, <1>8
  <2> QED
    BY <1>3, <1>8, <1>12, <2>1, <2>2 DEF DuringStepInv
<1>14. PostInv'
  <2>1. idx' + 1 <= hop' /\ supersteps' <= 5 + Len(results') + 2 * hop'
    <3>1. idx' = idx /\ hop' = hop + 1 /\ supersteps' = supersteps + 1
      BY <1>2
    <3>2. Len(results') = idx + 1 /\ supersteps <= 6 + (idx + 1) + 2 * hop /\ idx <= hop
      BY <1>3, <1>8
    <3> QED
      BY <1>4, <3>1, <3>2
  <2>2. Len(calls'[idx']) <= LastResult'.retries + 1
    BY <1>2, <1>6, <1>8
  <2> QED
    BY <1>12, <2>1, <2>2 DEF PostInv
<1>15. OutcomeInv'
  BY <1>2 DEF IInv, OutcomeInv, Final, outputs
<1> QED
  BY <1>9, <1>10, <1>11, <1>13, <1>14, <1>15 DEF IInv

\* A call that raises may have been made, but leaves no other trace.
LEMMA InvokeRaisesStep ==
  ASSUME IInv, InvokeRaises
  PROVE  IInv'
<1> USE LimitsAssumption, RegistryAssumption
<1>1. /\ node = "invoke_subagent" /\ node' = "raised" /\ supersteps' = supersteps + 1
      /\ SafetyError = "none"
      /\ UNCHANGED <<understanding, kbDocs, plan, idx, hop, visited, results, error, outputs,
                     healthy>>
  BY SuperstepCounts DEF InvokeRaises
<1>2. /\ ~Halted /\ hop < HopLimit
      /\ Len(results) = idx + 1 /\ idx <= hop /\ LastResult.preOk
      /\ supersteps <= 6 + Len(results) + 2 * hop
      /\ idx \in Nat /\ hop \in Nat /\ supersteps \in Nat
      /\ results \in Seq(StepResults) /\ healthy \in SUBSET Agents
  <2>1. hop < HopLimit
    BY <1>1 DEF SafetyError, IInv, TypeOK
  <2> QED
    BY <1>1, <2>1 DEF IInv, TypeOK, DuringStepInv, InvokeInv
<1>3. /\ calls' \in [0 .. MaxPlan - 1 -> Seq(Agents \cup {NoAgent})]
      /\ \A s \in DOMAIN calls : s # idx => calls'[s] = calls[s]
      /\ calls[idx] # <<>> => calls'[idx] # <<>>
      /\ CallsWithinRetries'
  <2>1. CASE calls' = calls
    BY <2>1 DEF IInv, TypeOK, Story, CallsWithinRetries
  <2>2. CASE calls' # calls
    <3>1. PICK a \in MatchedAgents(CurrentStep) : calls' = [calls EXCEPT ![idx] = Append(@, a)]
      BY <2>2 DEF InvokeRaises
    <3>2. a \in Agents \cup {NoAgent}
      BY <1>2, MatchedAgentsType
    <3> QED
      BY <1>1, <1>2, <3>1, <3>2, CallRecorded
  <2> QED
    BY <2>1, <2>2
<1>4. DOMAIN calls' = DOMAIN calls /\ DOMAIN calls = 0 .. MaxPlan - 1
  BY <1>3 DEF IInv, TypeOK
<1>5. TypeOK'
  <2>1. node' \in Nodes \cup Final /\ supersteps' \in Nat
    BY <1>1, <1>2 DEF Final
  <2> QED
    BY <1>1, <1>3, <2>1 DEF IInv, TypeOK, understanding, outputs
<1>6. Story'
  <2>1. ResultsFollowPlan' /\ HopsWithinLimit'
    BY <1>1 DEF IInv, Story, ResultsFollowPlan, HopsWithinLimit
  <2>2. \A s \in DOMAIN calls' : calls'[s] # <<>> =>
          s < Len(results) /\ results[s + 1].step = s /\ results[s + 1].preOk
    <3> SUFFICES ASSUME NEW s \in DOMAIN calls, calls'[s] # <<>>
                 PROVE  s < Len(results) /\ results[s + 1].step = s /\ results[s + 1].preOk
      BY <1>4
    <3>1. CASE s = idx
      <4>1. results[idx + 1].step = idx
        BY <1>2 DEF IInv, Story, ResultsFollowPlan
      <4> QED
        BY <1>2, <3>1, <4>1 DEF LastResult
    <3>2. CASE s # idx
      BY <1>3, <3>2 DEF IInv, Story, CallsWerePreValidated
    <3> QED
      BY <3>1, <3>2
  <2>3. CallsWerePreValidated'
    BY <1>1, <2>2 DEF CallsWerePreValidated
  <2>4. \A i \in 1 .. Len(results) :
          /\ results[i].reply # NoReply => i - 1 \in DOMAIN calls' /\ calls'[i - 1] # <<>>
          /\ results[i].passed => results[i].preOk /\ ReplyAccepted(results[i].reply)
    BY <1>3, <1>4 DEF IInv, Story
  <2> QED
    BY <1>1, <1>3, <2>1, <2>3, <2>4 DEF Story
<1>7. PlanningInv' /\ BetweenStepsInv' /\ DuringStepInv' /\ InvokeInv' /\ PostInv'
  BY <1>1 DEF PlanningInv, BetweenStepsInv, DuringStepInv, InvokeInv, PostInv, Planning
<1>8. AnswerInv'
  <2>1. supersteps' <= SuperstepBound
    BY <1>1, <1>2 DEF SuperstepBound
  <2> QED
    BY <1>1, <2>1 DEF AnswerInv, SuperstepBound
<1>9. OutcomeInv'
  BY <1>1 DEF IInv, OutcomeInv, Final, outputs
<1> QED
  BY <1>5, <1>6, <1>7, <1>8, <1>9 DEF IInv

\* validate_step_post rewrites the last record, and the story stays the same as long
\* as it marks only an accepted answer as passed.
LEMMA VerdictRecorded ==
  ASSUME IInv, node = "validate_step_post",
         NEW e \in StepResults, e.step = LastResult.step, e.preOk = LastResult.preOk,
         e.reply = LastResult.reply, e.passed => ReplyAccepted(e.reply),
         results' = [results EXCEPT ![Len(results)] = e],
         UNCHANGED <<plan, hop, visited, calls>>
  PROVE  /\ results' \in Seq(StepResults) /\ Len(results') = Len(results)
         /\ LastResult' = e
         /\ \A i \in 1 .. Len(results) - 1 : results'[i] = results[i]
         /\ Story'
<1>1. /\ Len(results) = idx + 1 /\ idx \in Nat /\ results \in Seq(StepResults)
      /\ results # <<>> /\ LastResult.preOk /\ Story
  BY DEF IInv, TypeOK, DuringStepInv
<1>2. /\ results' \in Seq(StepResults) /\ Len(results') = Len(results)
      /\ results'[Len(results')] = e
      /\ \A i \in 1 .. Len(results) - 1 : results'[i] = results[i]
  BY <1>1, UpdateLast
<1>3. \A i \in 1 .. Len(results) :
        /\ results'[i].step = results[i].step /\ results'[i].preOk = results[i].preOk
        /\ results'[i].reply = results[i].reply
  <2> SUFFICES ASSUME NEW i \in 1 .. Len(results)
               PROVE  /\ results'[i].step = results[i].step
                      /\ results'[i].preOk = results[i].preOk
                      /\ results'[i].reply = results[i].reply
    OBVIOUS
  <2>1. CASE i = Len(results)
    BY <1>2, <2>1 DEF LastResult
  <2>2. CASE i # Len(results)
    BY <1>1, <1>2, <2>2
  <2> QED
    BY <2>1, <2>2
<1>4. ResultsFollowPlan'
  BY <1>1, <1>2, <1>3 DEF Story, ResultsFollowPlan
<1>5. HopsWithinLimit' /\ CallsWithinRetries'
  BY <1>1 DEF Story, HopsWithinLimit, CallsWithinRetries
<1>6. CallsWerePreValidated'
  <2> SUFFICES ASSUME NEW s \in DOMAIN calls, calls[s] # <<>>
               PROVE  s < Len(results) /\ results'[s + 1].step = s /\ results'[s + 1].preOk
    BY <1>2 DEF CallsWerePreValidated
  <2>1. s < Len(results) /\ results[s + 1].step = s /\ results[s + 1].preOk
    BY <1>1 DEF Story, CallsWerePreValidated
  <2>2. s + 1 \in 1 .. Len(results)
    <3>1. s \in 0 .. MaxPlan - 1
      BY DEF IInv, TypeOK
    <3> QED
      BY <1>1, <2>1, <3>1, LimitsAssumption
  <2> QED
    BY <1>3, <2>1, <2>2
<1>7. \A i \in 1 .. Len(results') :
        /\ results'[i].reply # NoReply => i - 1 \in DOMAIN calls' /\ calls'[i - 1] # <<>>
        /\ results'[i].passed => results'[i].preOk /\ ReplyAccepted(results'[i].reply)
  <2> SUFFICES ASSUME NEW i \in 1 .. Len(results)
               PROVE  /\ results[i].reply # NoReply =>
                           i - 1 \in DOMAIN calls /\ calls[i - 1] # <<>>
                      /\ results'[i].passed =>
                           results[i].preOk /\ ReplyAccepted(results[i].reply)
    BY <1>2, <1>3
  <2>1. results[i].reply # NoReply => i - 1 \in DOMAIN calls /\ calls[i - 1] # <<>>
    BY <1>1 DEF Story
  <2>2. results'[i].passed => results[i].preOk /\ ReplyAccepted(results[i].reply)
    <3>1. CASE i = Len(results)
      BY <1>1, <1>2, <3>1 DEF LastResult
    <3>2. CASE i # Len(results)
      <4>1. results'[i] = results[i]
        BY <1>1, <1>2, <3>2
      <4> QED
        BY <1>1, <4>1 DEF Story
    <3> QED
      BY <3>1, <3>2
  <2> QED
    BY <2>1, <2>2
<1> QED
  BY <1>2, <1>4, <1>5, <1>6, <1>7 DEF LastResult, Story


\* An accepted answer passes the step and moves on to the next one, or to the answer.
LEMMA AcceptStepStep ==
  ASSUME IInv, ValidateStepPost, AcceptStep
  PROVE  IInv'
<1> USE LimitsAssumption, RegistryAssumption
<1> DEFINE e == Accepted(LastResult)
<1>1. /\ node = "validate_step_post" /\ supersteps' = supersteps + 1
      /\ ReplyAccepted(LastResult.reply) /\ idx' = AdvancedIndex
      /\ results' = [results EXCEPT ![Len(results)] = e]
      /\ node' = RouteValidateStepPost(e, AdvancedIndex)
      /\ UNCHANGED <<understanding, kbDocs, plan, hop, visited, calls, error, outputs, healthy>>
  BY SuperstepCounts DEF ValidateStepPost, AcceptStep
<1>2. /\ Len(results) = idx + 1 /\ idx < Len(plan) /\ idx <= hop /\ hop <= HopLimit
      /\ idx \in Nat /\ hop \in Nat /\ supersteps \in Nat /\ Len(plan) \in Nat
      /\ results \in Seq(StepResults) /\ LastResult \in StepResults
      /\ DOMAIN calls \subseteq Int
      /\ \A s \in DOMAIN calls : s > idx => calls[s] = <<>>
  BY <1>1, AtPost
<1>3. ~Halted /\ idx + 1 <= hop /\ supersteps <= 5 + Len(results) + 2 * hop
  BY <1>1 DEF IInv, PostInv
<1>4. /\ e \in StepResults /\ e.step = LastResult.step /\ e.preOk = LastResult.preOk
      /\ e.reply = LastResult.reply /\ e.passed
  BY <1>2 DEF StepResults, Accepted
<1> HIDE DEF e
<1>5. /\ results' \in Seq(StepResults) /\ Len(results') = Len(results)
      /\ LastResult' = e
      /\ \A i \in 1 .. Len(results) - 1 : results'[i] = results[i]
      /\ Story'
  <2>1. e.passed => ReplyAccepted(e.reply)
    BY <1>1, <1>4
  <2>2. UNCHANGED <<plan, hop, visited, calls>>
    BY <1>1
  <2> QED
    BY <1>1, <1>4, <2>1, <2>2, VerdictRecorded
<1>6. /\ idx' \in Nat
      /\ node' \in {"validate_step_pre", "aggregate_results"}
      /\ node' = "validate_step_pre" => idx' = idx + 1
  BY <1>1, <1>2, <1>4 DEF AdvancedIndex, RouteValidateStepPost
<1>7. TypeOK'
  <2>1. node' \in Nodes \cup Final /\ supersteps' \in Nat
    BY <1>1, <1>2, <1>6 DEF Nodes
  <2> QED
    BY <1>1, <1>5, <1>6, <2>1 DEF IInv, TypeOK, understanding, outputs
<1>8. PlanningInv' /\ DuringStepInv' /\ InvokeInv' /\ PostInv'
  BY <1>6 DEF PlanningInv, DuringStepInv, InvokeInv, PostInv, Planning
<1>9. BetweenStepsInv'
  <2> SUFFICES ASSUME node' = "validate_step_pre" PROVE BetweenStepsInv'
    BY DEF BetweenStepsInv
  <2>1. idx' = idx + 1
    BY <1>6
  <2>2. \A i \in 1 .. Len(results') : results'[i].passed
    <3> SUFFICES ASSUME NEW i \in 1 .. Len(results) PROVE results'[i].passed
      BY <1>5
    <3>1. CASE i = Len(results)
      BY <1>4, <1>5, <3>1 DEF LastResult
    <3>2. CASE i # Len(results)
      <4>1. i \in 1 .. Len(results) - 1
        BY <1>2, <3>2
      <4> QED
        BY <1>5, <4>1 DEF IInv, Story, ResultsFollowPlan
    <3> QED
      BY <3>1, <3>2
  <2>3. \A s \in DOMAIN calls' : s >= idx' => calls'[s] = <<>>
    <3> SUFFICES ASSUME NEW s \in DOMAIN calls, s >= idx + 1 PROVE calls[s] = <<>>
      BY <1>1, <2>1
    <3>1. s > idx
      BY <1>2
    <3> QED
      BY <1>2, <3>1
  <2>4. /\ Len(results') = idx' /\ idx' <= hop'
        /\ supersteps' <= 6 + Len(results') + 2 * hop'
    BY <1>1, <1>2, <1>3, <1>5, <2>1
  <2>5. ~Halted'
    BY <1>1, <1>3 DEF Halted
  <2> QED
    BY <2>2, <2>3, <2>4, <2>5 DEF BetweenStepsInv
<1>10. AnswerInv'
  <2>1. supersteps' + 3 <= SuperstepBound
    <3>1. supersteps' = supersteps + 1
      BY <1>1
    <3> QED
      BY <1>2, <1>3, <3>1 DEF SuperstepBound
  <2> QED
    BY <1>6, <2>1 DEF AnswerInv, Final, SuperstepBound
<1>11. OutcomeInv'
  BY <1>1, <1>6 DEF IInv, OutcomeInv, Final, outputs
<1> QED
  BY <1>5, <1>7, <1>8, <1>9, <1>10, <1>11 DEF IInv

\* Rejecting counts a retry and keeps the rest of the record.
LEMMA RejectedRecord ==
  ASSUME NEW r \in StepResults
  PROVE  /\ Rejected(r) \in StepResults /\ Rejected(r).step = r.step
         /\ Rejected(r).preOk = r.preOk /\ Rejected(r).reply = r.reply
         /\ Rejected(r).passed = FALSE
         /\ r.retries \in Nat /\ Rejected(r).retries = r.retries + 1
<1>1. r.retries \in Nat /\ r.retries + 1 \in Nat
  BY DEF StepResults
<1>2. Rejected(r) = [r EXCEPT !.retries = r.retries + 1, !.passed = FALSE]
  BY DEF Rejected
<1>3. Rejected(r) \in StepResults
  BY <1>1, <1>2, Zenon DEF StepResults
<1>4. /\ Rejected(r).step = r.step /\ Rejected(r).preOk = r.preOk
      /\ Rejected(r).reply = r.reply /\ Rejected(r).passed = FALSE
      /\ Rejected(r).retries = r.retries + 1
  BY DEF StepResults, Rejected
<1> QED
  BY <1>1, <1>3, <1>4

\* A rejected answer counts a retry and goes back to invoke_subagent or to the answer.
LEMMA RejectStepStep ==
  ASSUME IInv, ValidateStepPost, RejectStep
  PROVE  IInv'
<1> USE LimitsAssumption, RegistryAssumption
<1> DEFINE e == Rejected(LastResult)
<1>1. /\ node = "validate_step_post" /\ supersteps' = supersteps + 1
      /\ ~ReplyAccepted(LastResult.reply) /\ idx' = idx
      /\ results' = [results EXCEPT ![Len(results)] = e]
      /\ node' = RouteValidateStepPost(e, idx)
      /\ UNCHANGED <<understanding, kbDocs, plan, hop, visited, calls, error, outputs, healthy>>
  BY SuperstepCounts DEF ValidateStepPost, RejectStep
<1>2. /\ Len(results) = idx + 1 /\ idx < Len(plan) /\ idx <= hop /\ hop <= HopLimit
      /\ idx \in Nat /\ hop \in Nat /\ supersteps \in Nat
      /\ LastResult \in StepResults /\ LastResult.preOk
      /\ LastResult.retries \in Nat /\ LastResult.retries < RetryLimit
      /\ \A s \in DOMAIN calls : s > idx => calls[s] = <<>>
  BY <1>1, AtPost
<1>3. /\ ~Halted => /\ Len(calls[idx]) <= LastResult.retries + 1
                    /\ supersteps <= 5 + Len(results) + 2 * hop
      /\ Halted => /\ Len(calls[idx]) <= LastResult.retries
                   /\ supersteps <= 7 + Len(results) + 2 * (hop + LastResult.retries)
  BY <1>1 DEF IInv, PostInv
<1>4. /\ e \in StepResults /\ e.step = LastResult.step /\ e.preOk = LastResult.preOk
      /\ e.reply = LastResult.reply /\ ~e.passed /\ e.retries = LastResult.retries + 1
  BY <1>2, RejectedRecord
<1> HIDE DEF e
<1>5. /\ results' \in Seq(StepResults) /\ Len(results') = Len(results)
      /\ LastResult' = e
      /\ Story'
  <2>1. UNCHANGED <<plan, hop, visited, calls>>
    BY <1>1
  <2> QED
    BY <1>1, <1>4, <2>1, VerdictRecorded
<1>6. /\ node' \in {"invoke_subagent", "aggregate_results"}
      /\ node' = "invoke_subagent" => e.retries < RetryLimit
  BY <1>1, <1>4 DEF RouteValidateStepPost
<1>7. TypeOK'
  <2>1. node' \in Nodes \cup Final /\ supersteps' \in Nat
    BY <1>1, <1>2, <1>6 DEF Nodes
  <2> QED
    BY <1>1, <1>5, <2>1 DEF IInv, TypeOK, understanding, outputs
<1>8. PlanningInv' /\ BetweenStepsInv' /\ PostInv'
  BY <1>6 DEF PlanningInv, BetweenStepsInv, PostInv, Planning
<1>9. Halted' = Halted /\ SafetyError' = SafetyError /\ (Halted => SafetyError # "none")
  BY <1>1 DEF Halted, SafetyError, CurrentStep, IInv, DuringStepInv
<1>10. DuringStepInv'
  <2> SUFFICES ASSUME node' = "invoke_subagent" PROVE DuringStepInv'
    BY <1>6 DEF DuringStepInv
  <2>1. /\ LastResult'.preOk /\ ~LastResult'.passed /\ LastResult'.retries < RetryLimit
    BY <1>2, <1>4, <1>5, <1>6
  <2>2. Len(results') = idx' + 1 /\ idx' < Len(plan') /\ idx' <= hop'
    BY <1>1, <1>2, <1>5
  <2>3. \A s \in DOMAIN calls' : s > idx' => calls'[s] = <<>>
    BY <1>1, <1>2
  <2> QED
    BY <1>9, <2>1, <2>2, <2>3 DEF DuringStepInv
<1>11. InvokeInv'
  <2>1. LastResult'.reply = LastResult.reply /\ LastResult'.retries = LastResult.retries + 1
    BY <1>4, <1>5
  <2>2. Len(calls[idx]) <= LastResult.retries + 1
    <3>1. idx \in DOMAIN calls /\ calls[idx] \in Seq(Agents \cup {NoAgent})
      BY <1>2 DEF IInv, TypeOK
    <3>2. Len(calls[idx]) \in Nat
      BY <3>1, LenProperties
    <3> QED
      BY <1>2, <1>3, <3>2
  <2>3. /\ ~Halted => supersteps' <= 6 + Len(results) + 2 * hop
        /\ Halted => supersteps' <= 6 + Len(results) + 2 * (hop + (LastResult.retries + 1))
    <3>1. supersteps' = supersteps + 1 /\ Len(results) \in Nat
      BY <1>1, <1>2
    <3>2. CASE ~Halted
      <4>1. supersteps <= 5 + Len(results) + 2 * hop
        BY <1>3, <3>2
      <4>2. supersteps' <= 6 + Len(results) + 2 * hop
        BY <1>2, <3>1, <4>1
      <4> QED
        BY <3>2, <4>2
    <3>3. CASE Halted
      <4>1. supersteps <= 7 + Len(results) + 2 * (hop + LastResult.retries)
        BY <1>3, <3>3
      <4>2. \A n, l, h, r \in Nat :
              n <= 7 + l + 2 * (h + r) => n + 1 <= 6 + l + 2 * (h + (r + 1))
        OBVIOUS
      <4>3. supersteps + 1 <= 6 + Len(results) + 2 * (hop + (LastResult.retries + 1))
        BY <1>2, <3>1, <4>1, <4>2
      <4> QED
        BY <3>1, <3>3, <4>3
    <3> QED
      BY <3>2, <3>3
  <2>4. UNCHANGED <<idx, hop, calls>> /\ Len(results') = Len(results)
    BY <1>1, <1>5
  <2> QED
    BY <1>1, <1>9, <2>1, <2>2, <2>3, <2>4 DEF InvokeInv
<1>12. AnswerInv'
  <2>1. supersteps' + 3 <= SuperstepBound
    <3>1. supersteps' = supersteps + 1 /\ SuperstepBound = 10 + 3 * HopLimit + 2 * RetryLimit
      BY <1>1 DEF SuperstepBound
    <3>2. CASE ~Halted
      <4>1. supersteps <= 5 + Len(results) + 2 * hop
        BY <1>3, <3>2
      <4> QED
        BY <1>2, <3>1, <4>1
    <3>3. CASE Halted
      <4>1. supersteps <= 7 + Len(results) + 2 * (hop + LastResult.retries)
        BY <1>3, <3>3
      <4>2. \A n, i, h, r, H, R \in Nat :
              n <= 7 + (i + 1) + 2 * (h + r) /\ i <= h /\ h <= H /\ r < R
                => n + 1 + 3 <= 10 + 3 * H + 2 * R
        OBVIOUS
      <4> QED
        BY <1>2, <3>1, <4>1, <4>2
    <3> QED
      BY <3>2, <3>3
  <2> QED
    BY <1>6, <2>1 DEF AnswerInv, Final, SuperstepBound
<1>13. OutcomeInv'
  BY <1>1, <1>6 DEF IInv, OutcomeInv, Final, outputs
<1> QED
  BY <1>5, <1>7, <1>8, <1>10, <1>11, <1>12, <1>13 DEF IInv

\* The answering nodes leave the execution of the plan alone.
LEMMA StoryUnchanged ==
  ASSUME IInv, UNCHANGED <<execution, plan>>
  PROVE  Story'
BY DEF IInv, Story, ResultsFollowPlan, HopsWithinLimit, CallsWithinRetries,
       CallsWerePreValidated, execution

\* aggregate_results drafts the text and its notices.
LEMMA AggregateResultsStep ==
  ASSUME IInv, AggregateResults
  PROVE  IInv'
<1> USE LimitsAssumption, RegistryAssumption
<1>1. /\ node = "aggregate_results" /\ node' = "scan_output_guardrails"
      /\ supersteps' = supersteps + 1
      /\ UNCHANGED <<understanding, kbDocs, plan, execution, error, logs, violations, healthy>>
  BY SuperstepCounts DEF AggregateResults
<1>2. PICK answered \in BOOLEAN :
        LET crossref == HasLiveData /\ kbDocs
            blank == ~answered /\ HasLiveData /\ ~crossref /\ ~Uncertain /\ ~Diagnosed
        IN  response' = [status |-> IF blank THEN "empty" ELSE "draft",
                         unverified |-> ~HasLiveData, uncertain |-> Uncertain,
                         diagnostic |-> Diagnosed, crossref |-> crossref]
  BY DEF AggregateResults
<1>3. /\ response'.status \in {"empty", "draft"}
      /\ response'.unverified <=> ~HasLiveData
      /\ response'.diagnostic <=> Diagnosed
      /\ response' \in Responses
  <2>1. kbDocs \in BOOLEAN
    BY DEF IInv, TypeOK
  <2> QED
    BY <1>2, <2>1, NoticesAreBoolean, Zenon DEF Responses
<1>4. TypeOK'
  <2>1. node' \in Nodes \cup Final /\ supersteps' \in Nat
    BY <1>1 DEF IInv, TypeOK, Nodes
  <2> QED
    BY <1>1, <1>3, <2>1 DEF IInv, TypeOK, understanding, execution
<1>5. Story'
  BY <1>1, StoryUnchanged
<1>6. PlanningInv' /\ BetweenStepsInv' /\ DuringStepInv' /\ InvokeInv' /\ PostInv'
  BY <1>1 DEF PlanningInv, BetweenStepsInv, DuringStepInv, InvokeInv, PostInv, Planning
<1>7. AnswerInv'
  <2>1. supersteps + 3 <= SuperstepBound /\ supersteps \in Nat /\ SuperstepBound \in Nat
    BY <1>1 DEF IInv, TypeOK, AnswerInv, SuperstepBound
  <2>2. supersteps' + 2 <= SuperstepBound
    BY <1>1, <2>1
  <2> QED
    BY <1>1, <2>2 DEF AnswerInv, Final, SuperstepBound
<1>8. OutcomeInv'
  <2>1. HasLiveData' = HasLiveData /\ Diagnosed' = Diagnosed
    BY <1>1 DEF HasLiveData, Diagnosed, execution
  <2>2. ~(violations' > 0)
    BY <1>1 DEF IInv, OutcomeInv, Final
  <2> QED
    BY <1>1, <1>3, <2>1, <2>2 DEF OutcomeInv, Final
<1> QED
  BY <1>4, <1>5, <1>6, <1>7, <1>8 DEF IInv

\* The scan settles the status; only a withheld text adds a violation.
LEMMA ScanOutputGuardrailsStep ==
  ASSUME IInv, ScanOutputGuardrails
  PROVE  IInv'
<1> USE LimitsAssumption, RegistryAssumption
<1>1. /\ node = "scan_output_guardrails" /\ node' = "write_execution_log"
      /\ supersteps' = supersteps + 1
      /\ UNCHANGED <<understanding, kbDocs, plan, execution, error, logs, healthy>>
  BY SuperstepCounts DEF ScanOutputGuardrails
<1>2. /\ response \in Responses /\ violations \in Nat
      /\ response.status \in {"empty", "draft"} /\ ~(violations > 0)
      /\ response.unverified <=> ~HasLiveData
      /\ response.diagnostic <=> Diagnosed
  BY <1>1 DEF IInv, TypeOK, OutcomeInv
<1>3. /\ response' \in Responses /\ violations' \in Nat
      /\ response'.unverified = response.unverified
      /\ response'.diagnostic = response.diagnostic
      /\ response'.status # "none"
      /\ response'.status = "blocked" <=> violations' > 0
      /\ GuardrailOn => response'.status \in {"clean", "blocked", "empty"}
  <2>1. CASE NothingToScan /\ UNCHANGED <<response, violations>>
    <3>1. GuardrailOn => response.status = "empty"
      BY <2>1 DEF NothingToScan
    <3> QED
      BY <1>2, <2>1, <3>1
  <2>2. CASE response' = [response EXCEPT !.status = "clean"] /\ UNCHANGED violations
    BY <1>2, <2>2 DEF Responses
  <2>3. CASE /\ response' = [response EXCEPT !.status = "blocked"]
             /\ violations' = violations + 1
    <3>1. violations' \in Nat /\ violations' > 0
      BY <1>2, <2>3
    <3> QED
      BY <1>2, <2>3, <3>1 DEF Responses
  <2> QED
    BY <2>1, <2>2, <2>3 DEF ScanOutputGuardrails, RecordViolation
<1>4. TypeOK'
  <2>1. node' \in Nodes \cup Final /\ supersteps' \in Nat
    BY <1>1 DEF IInv, TypeOK, Nodes
  <2> QED
    BY <1>1, <1>3, <2>1 DEF IInv, TypeOK, understanding, execution
<1>5. Story'
  BY <1>1, StoryUnchanged
<1>6. PlanningInv' /\ BetweenStepsInv' /\ DuringStepInv' /\ InvokeInv' /\ PostInv'
  BY <1>1 DEF PlanningInv, BetweenStepsInv, DuringStepInv, InvokeInv, PostInv, Planning
<1>7. AnswerInv'
  <2>1. supersteps + 2 <= SuperstepBound /\ supersteps \in Nat /\ SuperstepBound \in Nat
    BY <1>1 DEF IInv, TypeOK, AnswerInv, SuperstepBound
  <2>2. supersteps' + 1 <= SuperstepBound
    BY <1>1, <2>1
  <2> QED
    BY <1>1, <2>2 DEF AnswerInv, Final, SuperstepBound
<1>8. OutcomeInv'
  <2>1. HasLiveData' = HasLiveData /\ Diagnosed' = Diagnosed
    BY <1>1 DEF HasLiveData, Diagnosed, execution
  <2> QED
    BY <1>1, <1>2, <1>3, <2>1 DEF OutcomeInv
<1> QED
  BY <1>4, <1>5, <1>6, <1>7, <1>8 DEF IInv

\* One log entry per step result, or a prefix of them if a write raises.
LEMMA WriteExecutionLogStep ==
  ASSUME IInv, WriteExecutionLog
  PROVE  IInv'
<1> USE LimitsAssumption, RegistryAssumption
<1>1. PICK n \in 0 .. Len(results) :
        /\ logs' = LogEntries(n)
        /\ node = "write_execution_log" /\ supersteps' = supersteps + 1
        /\ \/ n = Len(results) /\ node' = "END"
           \/ node' = "raised"
  BY SuperstepCounts DEF WriteExecutionLog, LoggedResults
<1>2. /\ UNCHANGED <<understanding, kbDocs, plan, execution, error, response, violations,
                     healthy>>
      /\ node \notin Final
  BY <1>1 DEF WriteExecutionLog, Final
<1>3. /\ results \in Seq(StepResults) /\ supersteps \in Nat /\ n \in Nat
      /\ n <= Len(results)
  BY <1>1 DEF IInv, TypeOK
<1>4. logs' \in Seq(LogEntrySet)
  <2>1. \A i \in 1 .. n : LogEntry(results[i]) \in LogEntrySet
    <3> SUFFICES ASSUME NEW i \in 1 .. n PROVE LogEntry(results[i]) \in LogEntrySet
      OBVIOUS
    <3>1. results[i] \in StepResults
      BY <1>3
    <3>2. results[i].step \in Nat
      BY <3>1 DEF StepResults
    <3>3. ValidationResult(results[i]) \in {"PASS", "RETRY", "FAIL"}
      <4>1. results[i].preOk \in BOOLEAN /\ results[i].passed \in BOOLEAN
            /\ results[i].retries \in Nat
        BY <3>1 DEF StepResults
      <4> DEFINE ok == results[i].preOk
                 done == results[i].passed
                 again == results[i].retries > 0
      <4>2. ValidationResult(results[i]) =
              CASE ~ok -> "FAIL" [] ok /\ done -> "PASS"
                [] ok /\ ~done /\ again -> "RETRY" [] OTHER -> "FAIL"
        BY DEF ValidationResult
      <4> HIDE DEF ok, done, again
      <4>3. CASE ~ok
        BY <4>2, <4>3
      <4>4. CASE ok /\ done
        BY <4>2, <4>4
      <4>5. CASE ok /\ ~done /\ again
        BY <4>2, <4>5
      <4>6. CASE ok /\ ~done /\ ~again
        BY <4>2, <4>6
      <4> QED
        BY <4>3, <4>4, <4>5, <4>6
    <3> QED
      BY <3>2, <3>3 DEF LogEntry, LogEntrySet
  <2>2. logs' = [i \in 1 .. n |-> LogEntry(results[i])]
    BY <1>1 DEF LogEntries, LoggedResults
  <2> HIDE DEF LogEntry
  <2> QED
    BY <1>3, <2>1, <2>2, IsASeq
<1>5. TypeOK'
  <2>1. node' \in Nodes \cup Final /\ supersteps' \in Nat
    BY <1>1, <1>3 DEF Final
  <2> QED
    BY <1>2, <1>4, <2>1 DEF IInv, TypeOK, understanding, execution
<1>6. Story'
  BY <1>2, StoryUnchanged
<1>7. PlanningInv' /\ BetweenStepsInv' /\ DuringStepInv' /\ InvokeInv' /\ PostInv'
  BY <1>1 DEF PlanningInv, BetweenStepsInv, DuringStepInv, InvokeInv, PostInv, Planning
<1>8. AnswerInv'
  <2>1. supersteps + 1 <= SuperstepBound
    BY <1>1 DEF IInv, AnswerInv
  <2> QED
    BY <1>1, <2>1 DEF AnswerInv, Final, SuperstepBound
<1>9. OutcomeInv'
  <2>1. HasLiveData' = HasLiveData /\ Diagnosed' = Diagnosed
    BY <1>2 DEF HasLiveData, Diagnosed, execution
  <2>2. node' = "END" => logs' = LogEntries(Len(results))'
    BY <1>1, <1>2 DEF LogEntries, LoggedResults, execution
  <2> QED
    BY <1>1, <1>2, <2>1, <2>2 DEF IInv, OutcomeInv, Final
<1> QED
  BY <1>5, <1>6, <1>7, <1>8, <1>9 DEF IInv

\* A node that raises leaves everything as it was.
LEMMA NodeRaisesStep ==
  ASSUME IInv, NodeRaises
  PROVE  IInv'
<1> USE LimitsAssumption, RegistryAssumption
<1>1. /\ node \in {"validate_step_pre", "validate_step_post", "aggregate_results",
                   "scan_output_guardrails"}
      /\ node' = "raised" /\ supersteps' = supersteps + 1
      /\ UNCHANGED <<understanding, kbDocs, plan, execution, error, outputs, healthy>>
  BY SuperstepCounts DEF NodeRaises
<1>2. TypeOK'
  <2>1. node' \in Nodes \cup Final /\ supersteps' \in Nat
    BY <1>1 DEF IInv, TypeOK, Final
  <2> QED
    BY <1>1, <2>1 DEF IInv, TypeOK, understanding, execution, outputs
<1>3. Story'
  BY <1>1, StoryUnchanged
<1>4. PlanningInv' /\ BetweenStepsInv' /\ DuringStepInv' /\ InvokeInv' /\ PostInv'
  BY <1>1 DEF PlanningInv, BetweenStepsInv, DuringStepInv, InvokeInv, PostInv, Planning
<1>5. AnswerInv'
  <2>1. supersteps + 1 <= SuperstepBound
    <3>1. CASE node = "validate_step_pre"
      BY <3>1 DEF IInv, TypeOK, BetweenStepsInv, Story, HopsWithinLimit, SuperstepBound
    <3>2. CASE node = "validate_step_post"
      <4>1. /\ Len(results) = idx + 1 /\ idx <= hop /\ hop <= HopLimit
            /\ idx \in Nat /\ hop \in Nat /\ supersteps \in Nat
            /\ LastResult.retries \in Nat /\ LastResult.retries < RetryLimit
        BY <3>2, AtPost
      <4>2. /\ ~Halted => supersteps <= 5 + Len(results) + 2 * hop
            /\ Halted => supersteps <= 7 + Len(results) + 2 * (hop + LastResult.retries)
        BY <3>2 DEF IInv, PostInv
      <4> QED
        BY <4>1, <4>2 DEF SuperstepBound
    <3>3. CASE node \in {"aggregate_results", "scan_output_guardrails"}
      BY <3>3 DEF IInv, TypeOK, AnswerInv, SuperstepBound
    <3> QED
      BY <1>1, <3>1, <3>2, <3>3
  <2> QED
    BY <1>1, <2>1 DEF AnswerInv, Final, SuperstepBound
<1>6. OutcomeInv'
  BY <1>1 DEF IInv, OutcomeInv, Final, outputs, HasLiveData, Diagnosed, execution
<1> QED
  BY <1>2, <1>3, <1>4, <1>5, <1>6 DEF IInv

\* The invariant says nothing about the registry.
LEMMA RegistryStep ==
  ASSUME IInv, healthy' \in SUBSET Agents,
         UNCHANGED <<node, supersteps, understanding, kbDocs, plan, execution, error, outputs>>
  PROVE  IInv'
<1>1. TypeOK'
  BY DEF IInv, TypeOK, understanding, execution, outputs
<1>2. Story'
  BY StoryUnchanged
<1>3. PlanningInv' /\ BetweenStepsInv'
  BY DEF IInv, PlanningInv, BetweenStepsInv, execution, Halted
<1>4. DuringStepInv' /\ InvokeInv' /\ PostInv'
  BY DEF IInv, DuringStepInv, InvokeInv, PostInv, execution, Halted, LastResult, SafetyError,
         CurrentStep
<1>5. AnswerInv' /\ OutcomeInv'
  BY DEF IInv, AnswerInv, OutcomeInv, execution, outputs, HasLiveData, Diagnosed,
         SuperstepBound, LogEntries, LoggedResults
<1> QED
  BY <1>1, <1>2, <1>3, <1>4, <1>5 DEF IInv

\* Every step of the specification preserves the invariant.
LEMMA NextInv == IInv /\ [Next]_vars => IInv'
<1> SUFFICES ASSUME IInv, [Next]_vars PROVE IInv'
  OBVIOUS
<1>1. CASE \/ ClassifyRequest \/ PromptUser \/ RetrieveKnowledge
           \/ DetectMissingInputs \/ GeneratePlan \/ PresentPlan
  BY <1>1, PlanningStep
<1>2. CASE ValidateStepPre
  BY <1>2, ValidateStepPreStep
<1>3. CASE InvokeSubagent
  BY <1>3, InvokeHaltedStep, InvokeAgentStep DEF InvokeSubagent
<1>4. CASE InvokeRaises
  BY <1>4, InvokeRaisesStep
<1>5. CASE ValidateStepPost
  BY <1>5, AcceptStepStep, RejectStepStep DEF ValidateStepPost
<1>6. CASE AggregateResults
  BY <1>6, AggregateResultsStep
<1>7. CASE ScanOutputGuardrails
  BY <1>7, ScanOutputGuardrailsStep
<1>8. CASE WriteExecutionLog
  BY <1>8, WriteExecutionLogStep
<1>9. CASE NodeRaises
  BY <1>9, NodeRaisesStep
<1>10. CASE RegistryChange
  <2>1. healthy \in SUBSET Agents
    BY DEF IInv, TypeOK
  <2>2. healthy' \in SUBSET Agents
    BY <1>10, <2>1 DEF RegistryChange
  <2> QED
    BY <1>10, <2>2, RegistryStep DEF RegistryChange
<1>11. CASE UNCHANGED vars
  <2>1. healthy' \in SUBSET Agents
    BY <1>11 DEF IInv, TypeOK, vars
  <2>2. UNCHANGED <<node, supersteps, understanding, kbDocs, plan, execution, error, outputs>>
    BY <1>11 DEF vars, understanding, execution, outputs
  <2> QED
    BY <2>1, <2>2, RegistryStep
<1> QED
  BY <1>1, <1>2, <1>3, <1>4, <1>5, <1>6, <1>7, <1>8, <1>9, <1>10, <1>11
     DEF Next, GraphStep

----------------------------------------------------------------------------
(* What the invariant says about the log and the notices *)

\* Only a step that passed is logged as PASS.
LEMMA PassIsPassed ==
  ASSUME NEW r, r.preOk \in BOOLEAN, r.passed \in BOOLEAN, ValidationResult(r) = "PASS"
  PROVE  r.passed
<1> SUFFICES ASSUME ~r.passed PROVE FALSE
  OBVIOUS
<1>1. r.preOk /\ r.retries > 0 => ValidationResult(r) = "RETRY"
  BY DEF ValidationResult
<1>2. ~r.preOk => ValidationResult(r) = "FAIL"
  BY DEF ValidationResult
<1>3. r.preOk /\ ~(r.retries > 0) => ValidationResult(r) = "FAIL"
  BY DEF ValidationResult
<1> QED
  BY <1>1, <1>2, <1>3

\* The log written for an answered request mirrors step_results.
LEMMA AuditFromInv == IInv => AuditTrail
<1> SUFFICES ASSUME IInv, node = "END"
             PROVE  /\ \A s \in DOMAIN calls :
                         calls[s] # <<>> => \E e \in Range(logs) : e.step = s
                    /\ \A i, j \in DOMAIN logs : logs[i].step = logs[j].step => i = j
                    /\ \A e \in Range(logs) : e.label = "PASS" => calls[e.step] # <<>>
  BY DEF AuditTrail
<1>1. results \in Seq(StepResults) /\ Len(results) \in Nat
  BY DEF IInv, TypeOK
<1>2. /\ DOMAIN logs = 1 .. Len(results)
      /\ \A i \in DOMAIN logs : logs[i].step = i - 1
      /\ \A i \in DOMAIN logs : logs[i].label = ValidationResult(results[i])
  <2>1. logs = [i \in 1 .. Len(results) |-> LogEntry(results[i])]
    BY DEF IInv, OutcomeInv, LogEntries, LoggedResults
  <2>2. \A i \in 1 .. Len(results) : results[i].step = i - 1
    BY DEF IInv, Story, ResultsFollowPlan
  <2> QED
    BY <2>1, <2>2 DEF LogEntry
<1>3. ASSUME NEW s \in DOMAIN calls, calls[s] # <<>>
      PROVE  \E e \in Range(logs) : e.step = s
  <2>1. s \in Int /\ s >= 0 /\ s < Len(results)
    <3>1. s \in 0 .. MaxPlan - 1
      BY DEF IInv, TypeOK
    <3> QED
      BY <1>3, <3>1, LimitsAssumption DEF IInv, Story, CallsWerePreValidated
  <2>2. s + 1 \in DOMAIN logs
    BY <1>1, <1>2, <2>1
  <2>3. logs[s + 1].step = s
    BY <1>2, <2>1, <2>2
  <2> QED
    BY <2>2, <2>3 DEF Range
<1>4. \A i, j \in DOMAIN logs : logs[i].step = logs[j].step => i = j
  BY <1>1, <1>2
<1>5. ASSUME NEW e \in Range(logs), e.label = "PASS"
      PROVE  calls[e.step] # <<>>
  <2>1. PICK i \in DOMAIN logs : e = logs[i]
    BY DEF Range
  <2>2. results[i] \in StepResults
    BY <1>1, <1>2
  <2>3. results[i].passed
    <3>1. results[i].preOk \in BOOLEAN /\ results[i].passed \in BOOLEAN
      BY <2>2 DEF StepResults
    <3> QED
      BY <1>2, <1>5, <2>1, <3>1, PassIsPassed
  <2>4. ReplyAccepted(results[i].reply)
    BY <1>2, <2>3 DEF IInv, Story
  <2>5. results[i].reply # NoReply
    BY <2>4 DEF ReplyAccepted, Scored, Score, NoReply
  <2>6. calls[i - 1] # <<>>
    BY <1>2, <2>5 DEF IInv, Story
  <2> QED
    BY <1>2, <2>1, <2>6
<1> QED
  BY <1>3, <1>4, <1>5

\* The notices follow from what each step result records of its sub-agent.
LEMMA NoticesFromInv == IInv => NoticesHonest
<1> SUFFICES ASSUME IInv, response.status # "none"
             PROVE  /\ ~response.unverified => \E s \in DOMAIN calls : calls[s] # <<>>
                    /\ response.unverified => \A r \in Range(results) : ~r.passed
                    /\ error # "none" => response.diagnostic
  BY DEF NoticesHonest
<1>1. (response.unverified <=> ~HasLiveData) /\ (response.diagnostic <=> Diagnosed)
  BY DEF IInv, OutcomeInv
<1>2. DOMAIN results = 1 .. Len(results)
  BY DEF IInv, TypeOK
<1>3. ASSUME HasLiveData PROVE \E s \in DOMAIN calls : calls[s] # <<>>
  <2>1. PICK i \in DOMAIN results : results[i].reply # NoReply
    BY <1>3 DEF HasLiveData, Range
  <2>2. i - 1 \in DOMAIN calls /\ calls[i - 1] # <<>>
    BY <1>2, <2>1 DEF IInv, Story
  <2> QED
    BY <2>2
<1>4. ASSUME ~HasLiveData, NEW r \in Range(results) PROVE ~r.passed
  <2> SUFFICES ASSUME r.passed PROVE FALSE
    OBVIOUS
  <2>1. r.preOk /\ ReplyAccepted(r.reply)
    <3>1. PICK i \in DOMAIN results : r = results[i]
      BY DEF Range
    <3> QED
      BY <1>2, <3>1 DEF IInv, Story
  <2>2. r.reply \notin {NoReply, "empty"}
    BY <2>1 DEF ReplyAccepted, Scored, Score, NoReply
  <2> QED
    BY <1>4, <2>1, <2>2 DEF HasLiveData
<1> QED
  BY <1>1, <1>3, <1>4 DEF Diagnosed

----------------------------------------------------------------------------
(* The theorems *)

\* The inductive invariant holds in every reachable state.
THEOREM Invariance == Spec => []IInv
BY InitInv, NextInv, PTL DEF Spec

\* Every field of OrchestratorState keeps its declared type, for every registry and
\* every value of the limits.
THEOREM TypeCorrect == Spec => []TypeOK
<1>1. IInv => TypeOK
  BY DEF IInv
<1> QED
  BY <1>1, Invariance, PTL

\* step_results is always a gap-free record of a prefix of the plan, all passed but
\* possibly the last.
THEOREM ResultsFollowPlanThm == Spec => []ResultsFollowPlan
<1>1. IInv => ResultsFollowPlan
  BY DEF IInv, Story
<1> QED
  BY <1>1, Invariance, PTL

\* The safety check of invoke_subagent bounds the sub-agent calls of a request.
THEOREM HopsWithinLimitThm == Spec => []HopsWithinLimit
<1>1. IInv => HopsWithinLimit
  BY DEF IInv, Story
<1> QED
  BY <1>1, Invariance, PTL

\* No step is sent to sub-agents more often than the retry limit.
THEOREM CallsWithinRetriesThm == Spec => []CallsWithinRetries
<1>1. IInv => CallsWithinRetries
  BY DEF IInv, Story
<1> QED
  BY <1>1, Invariance, PTL

\* Sub-agents are called only for steps that passed pre-validation.
THEOREM CallsWerePreValidatedThm == Spec => []CallsWerePreValidated
<1>1. IInv => CallsWerePreValidated
  BY DEF IInv, Story
<1> QED
  BY <1>1, Invariance, PTL

\* A request runs at most 10 + 3 * HopLimit + 2 * RetryLimit nodes: every superstep of the
\* execution is paid for by a hop, a step result or, once halted, a retry.
THEOREM SuperstepsBoundedThm == Spec => []SuperstepsBounded
<1>1. IInv => SuperstepsBounded
  BY BoundFromInv DEF SuperstepsBounded
<1> QED
  BY <1>1, Invariance, PTL

\* Every step of a request but a change of the registry runs a node, and spends one of the
\* supersteps that SuperstepsBounded allows.
NodesSpendSupersteps == [][supersteps' = supersteps + 1 \/ RegistryChange]_vars

\* No request runs nodes for ever: the safety half of Terminates, which needs no fairness.
THEOREM NodesSpendSuperstepsThm == Spec => NodesSpendSupersteps
<1>1. IInv /\ [Next]_vars => [supersteps' = supersteps + 1 \/ RegistryChange]_vars
  <2> SUFFICES ASSUME IInv, GraphStep PROVE supersteps' = supersteps + 1
    BY DEF Next
  <2>1. \E from, to : Superstep(from, to)
    <3>1. CASE WriteExecutionLog
      BY <3>1 DEF WriteExecutionLog
    <3>2. CASE InvokeSubagent
      BY <3>2 DEF InvokeSubagent, InvokeHalted, InvokeAgent
    <3>3. CASE ValidateStepPost
      BY <3>3 DEF ValidateStepPost, AcceptStep, RejectStep
    <3>4. CASE NodeRaises
      BY <3>4 DEF NodeRaises
    <3>5. CASE ClassifyRequest \/ PromptUser \/ RetrieveKnowledge \/ DetectMissingInputs
      BY <3>5 DEF ClassifyRequest, PromptUser, RetrieveKnowledge, DetectMissingInputs
    <3>6. CASE \/ GeneratePlan \/ PresentPlan \/ ValidateStepPre \/ InvokeRaises
               \/ AggregateResults \/ ScanOutputGuardrails
      BY <3>6 DEF GeneratePlan, PresentPlan, ValidateStepPre, InvokeRaises, AggregateResults,
                  ScanOutputGuardrails
    <3> QED
      BY <3>1, <3>2, <3>3, <3>4, <3>5, <3>6 DEF GraphStep
  <2> QED
    BY <2>1, SuperstepCounts
<1> QED
  BY <1>1, Invariance, PTL DEF Spec, NodesSpendSupersteps

\* An answered request has an audit trail that is complete and claims nothing false.
THEOREM AuditTrailThm == Spec => []AuditTrail
BY AuditFromInv, Invariance, PTL

\* The notices of an answer are true of the execution.
THEOREM NoticesHonestThm == Spec => []NoticesHonest
BY NoticesFromInv, Invariance, PTL

\* With a guardrail configured no answer is delivered unscanned.
THEOREM DeliveredWasScannedThm == Spec => []DeliveredWasScanned
<1>1. IInv => DeliveredWasScanned
  BY DEF IInv, OutcomeInv, DeliveredWasScanned
<1> QED
  BY <1>1, Invariance, PTL

\* Once a safety limit halted the run no sub-agent is called.
THEOREM HaltIsFinalThm == Spec => HaltIsFinal
<1>1. IInv /\ [Next]_vars => [(error \in SafetyErrors) => calls' = calls]_vars
  <2> SUFFICES ASSUME IInv, Next, error \in SafetyErrors PROVE calls' = calls
    BY DEF vars
  <2>1. node = "invoke_subagent" => SafetyError # "none"
    BY DEF IInv, DuringStepInv, Halted
  <2>2. ~InvokeRaises /\ ~(InvokeSubagent /\ InvokeAgent)
    BY <2>1 DEF InvokeRaises, InvokeSubagent, InvokeAgent
  <2> QED
    BY <2>2, Zenon
       DEF Next, GraphStep, RegistryChange, ClassifyRequest, PromptUser, RetrieveKnowledge,
           DetectMissingInputs, GeneratePlan, PresentPlan, ValidateStepPre, InvokeSubagent,
           InvokeHalted, ValidateStepPost, AggregateResults, ScanOutputGuardrails,
           WriteExecutionLog, NodeRaises, execution
<1> QED
  BY <1>1, Invariance, PTL DEF Spec, HaltIsFinal

\* A result that passed is never changed again.
THEOREM PassedResultsFrozenThm == Spec => PassedResultsFrozen
<1> DEFINE Frozen == \A i \in DOMAIN results :
                       results[i].passed => i \in DOMAIN results' /\ results'[i] = results[i]
<1>1. IInv /\ [Next]_vars => [Frozen]_vars
  <2> SUFFICES ASSUME IInv, Next PROVE Frozen
    BY DEF vars
  <2>1. results \in Seq(StepResults)
    BY DEF IInv, TypeOK
  <2>2. CASE ValidateStepPre
    <3>1. \E r : results' = Append(results, r)
      BY <2>2 DEF ValidateStepPre, RecordPreValidation
    <3> QED
      BY <2>1, <3>1
  <2>3. ASSUME node \in {"invoke_subagent", "validate_step_post"},
               NEW e, results' = [results EXCEPT ![Len(results)] = e]
        PROVE  Frozen
    <3>1. ~results[Len(results)].passed
      BY <2>3 DEF IInv, DuringStepInv, LastResult
    <3> QED
      BY <2>1, <2>3, <3>1
  <2>4. CASE InvokeSubagent /\ InvokeAgent
    <3>1. \E r : results' = [results EXCEPT ![Len(results)].reply = r]
      BY <2>4 DEF InvokeAgent
    <3>2. \E e : results' = [results EXCEPT ![Len(results)] = e]
      BY <3>1
    <3> QED
      BY <2>3, <2>4, <3>2 DEF InvokeSubagent
  <2>5. CASE ValidateStepPost
    BY <2>3, <2>5 DEF ValidateStepPost, AcceptStep, RejectStep
  <2>6. CASE ~ValidateStepPre /\ ~(InvokeSubagent /\ InvokeAgent) /\ ~ValidateStepPost
    <3>1. results' = results
      BY <2>6, Zenon
         DEF Next, GraphStep, RegistryChange, ClassifyRequest, PromptUser, RetrieveKnowledge,
             DetectMissingInputs, GeneratePlan, PresentPlan, InvokeSubagent, InvokeHalted,
             InvokeRaises, AggregateResults, ScanOutputGuardrails, WriteExecutionLog,
             NodeRaises, execution
    <3> QED
      BY <3>1
  <2> QED
    BY <2>2, <2>4, <2>5, <2>6
<1> QED
  BY <1>1, Invariance, PTL DEF Spec, PassedResultsFrozen

----------------------------------------------------------------------------
(* What each step does to the execution *)

\* Outside the nodes that execute a step nothing of the execution changes.
LEMMA QuietStep ==
  ASSUME IInv, [Next]_vars,
         ~ValidateStepPre, ~InvokeSubagent, ~InvokeRaises, ~ValidateStepPost
  PROVE  /\ UNCHANGED execution
         /\ \/ node' = node /\ UNCHANGED <<plan, error>>
            \/ /\ node \in Planning /\ node' \in Planning \cup {"validate_step_pre"}
               /\ error' \in {error, "kb_retrieval"}
            \/ /\ node \notin Planning
               /\ node' \in {"scan_output_guardrails", "write_execution_log"} \cup Final
               /\ UNCHANGED <<plan, error>>
<1>1. CASE \/ ClassifyRequest \/ PromptUser \/ RetrieveKnowledge
           \/ DetectMissingInputs \/ GeneratePlan \/ PresentPlan
  BY <1>1, SuperstepCounts
     DEF ClassifyRequest, PromptUser, RetrieveKnowledge, DetectMissingInputs, GeneratePlan,
         PresentPlan, Planning, RouteClassifyRequest, RouteDetectMissingInputs, RoutePresentPlan
<1>2. CASE AggregateResults \/ ScanOutputGuardrails \/ WriteExecutionLog \/ NodeRaises
  BY <1>2, SuperstepCounts
     DEF AggregateResults, ScanOutputGuardrails, WriteExecutionLog, NodeRaises, Planning, Final
<1>3. CASE RegistryChange \/ UNCHANGED vars
  BY <1>3 DEF RegistryChange, vars, execution
<1> QED
  BY <1>1, <1>2, <1>3 DEF Next, GraphStep

\* Pre-validation appends a fresh record for the current step.
LEMMA PreEffect ==
  ASSUME IInv, ValidateStepPre
  PROVE  /\ node = "validate_step_pre" /\ UNCHANGED <<plan, idx, hop, visited, calls, error>>
         /\ results' \in Seq(StepResults) /\ Len(results') = idx + 1 /\ idx = Len(results)
         /\ idx \in Nat /\ \A i \in 1 .. idx : results'[i] = results[i]
         /\ LastResult'.retries = 0 /\ ~LastResult'.passed
         /\ \/ /\ node' = "invoke_subagent" /\ idx < Len(plan)
               /\ idx \in DOMAIN calls /\ calls[idx] = <<>>
            \/ node' = "aggregate_results" /\ ~LastResult'.preOk
<1> DEFINE r == StepResult(idx, PreValid)
<1>1. /\ node = "validate_step_pre" /\ results' = Append(results, r)
      /\ node' = RouteValidateStepPre(LastResult')
      /\ UNCHANGED <<idx, hop, visited, calls, plan, error>>
  BY SuperstepCounts DEF ValidateStepPre, RecordPreValidation, LastResult
<1>2. /\ results \in Seq(StepResults) /\ Len(results) = idx /\ idx \in Nat
      /\ \A s \in DOMAIN calls : s >= idx => calls[s] = <<>>
      /\ calls \in [0 .. MaxPlan - 1 -> Seq(Agents \cup {NoAgent})]
      /\ Len(plan) <= MaxPlan /\ plan \in Seq(PlanSteps)
  BY <1>1 DEF IInv, TypeOK, BetweenStepsInv
<1>3. /\ r \in StepResults /\ r.retries = 0 /\ ~r.passed
      /\ (r.preOk <=> PreValid) /\ (PreValid => idx < Len(plan))
  BY <1>2 DEF StepResult, StepResults, PreValid, NoReply
<1> HIDE DEF r
<1>4. /\ results' \in Seq(StepResults) /\ Len(results') = idx + 1 /\ LastResult' = r
      /\ \A i \in 1 .. idx : results'[i] = results[i]
  BY <1>1, <1>2, <1>3, AppendProperties DEF LastResult
<1>5. node' = IF PreValid THEN "invoke_subagent" ELSE "aggregate_results"
  BY <1>1, <1>3, <1>4 DEF RouteValidateStepPre
<1>6. PreValid => idx \in DOMAIN calls
  BY <1>2, <1>3, LimitsAssumption
<1> QED
  BY <1>1, <1>2, <1>3, <1>4, <1>5, <1>6

\* A safety halt records its error and nothing else.
LEMMA HaltEffect ==
  ASSUME IInv, InvokeSubagent, InvokeHalted
  PROVE  /\ node = "invoke_subagent" /\ node' = "validate_step_post"
         /\ UNCHANGED <<plan, execution>>
         /\ SafetyError # "none" /\ error' = SafetyError /\ Halted'
<1>1. /\ node = "invoke_subagent" /\ node' = "validate_step_post"
      /\ SafetyError # "none" /\ error' = SafetyError /\ UNCHANGED <<plan, execution>>
  BY SuperstepCounts DEF InvokeHalted
<1>2. SafetyError # "none" => SafetyError \in SafetyErrors
  BY DEF SafetyError, SafetyErrors
<1> QED
  BY <1>1, <1>2 DEF Halted

\* A call is recorded for the current step and its answer in the last record.
LEMMA CallEffect ==
  ASSUME IInv, InvokeSubagent, InvokeAgent
  PROVE  /\ node = "invoke_subagent" /\ node' = "validate_step_post"
         /\ SafetyError = "none" /\ ~Halted /\ hop' = hop + 1
         /\ UNCHANGED <<plan, idx, error>>
         /\ idx \in DOMAIN calls /\ DOMAIN calls' = DOMAIN calls
         /\ calls[idx] \in Seq(Agents \cup {NoAgent})
         /\ \A s \in DOMAIN calls : s # idx => calls'[s] = calls[s]
         /\ \E a \in Agents \cup {NoAgent} :
              /\ calls'[idx] = Append(calls[idx], a)
              /\ visited' = Append(visited, StepKey(a, CurrentStep))
         /\ results' \in Seq(StepResults) /\ Len(results') = Len(results)
         /\ Len(results) = idx + 1 /\ idx \in Nat
         /\ \A i \in 1 .. Len(results) - 1 : results'[i] = results[i]
         /\ LastResult'.retries = LastResult.retries /\ LastResult'.passed = LastResult.passed
<1>0. node = "invoke_subagent"
  BY DEF InvokeSubagent
<1>1. PICK a \in MatchedAgents(CurrentStep), r \in Replies :
        /\ calls' = [calls EXCEPT ![idx] = Append(@, a)]
        /\ visited' = Append(visited, StepKey(a, CurrentStep))
        /\ results' = [results EXCEPT ![Len(results)].reply = r]
  BY DEF InvokeAgent
<1>2. /\ node' = "validate_step_post" /\ hop' = hop + 1 /\ SafetyError = "none"
      /\ UNCHANGED <<plan, idx, error>>
  BY SuperstepCounts DEF InvokeAgent
<1>3. /\ ~Halted /\ Len(results) = idx + 1 /\ idx < Len(plan) /\ idx \in Nat
      /\ results \in Seq(StepResults) /\ healthy \in SUBSET Agents
      /\ calls \in [0 .. MaxPlan - 1 -> Seq(Agents \cup {NoAgent})]
      /\ Len(plan) <= MaxPlan /\ plan \in Seq(PlanSteps)
  BY <1>0, <1>2 DEF IInv, TypeOK, DuringStepInv
<1>4. idx \in DOMAIN calls
  BY <1>3, LimitsAssumption
<1>5. a \in Agents \cup {NoAgent}
  BY <1>3, MatchedAgentsType
<1>6. /\ calls'[idx] = Append(calls[idx], a) /\ DOMAIN calls' = DOMAIN calls
      /\ calls[idx] \in Seq(Agents \cup {NoAgent})
      /\ \A s \in DOMAIN calls : s # idx => calls'[s] = calls[s]
  BY <1>1, <1>3, <1>4
<1>7. /\ results' \in Seq(StepResults) /\ Len(results') = Len(results)
      /\ \A i \in 1 .. Len(results) - 1 : results'[i] = results[i]
      /\ LastResult'.retries = LastResult.retries /\ LastResult'.passed = LastResult.passed
  <2> DEFINE e == [LastResult EXCEPT !.reply = r]
  <2>1. LastResult \in StepResults /\ results # <<>>
    BY <1>3 DEF LastResult
  <2>2. e \in StepResults /\ e.retries = LastResult.retries /\ e.passed = LastResult.passed
    BY <2>1 DEF StepResults
  <2>3. results' = [results EXCEPT ![Len(results)] = e]
    BY <1>1 DEF LastResult
  <2> HIDE DEF e
  <2>4. /\ results' \in Seq(StepResults) /\ Len(results') = Len(results)
        /\ results'[Len(results')] = e
        /\ \A i \in 1 .. Len(results) - 1 : results'[i] = results[i]
    BY <1>3, <2>1, <2>2, <2>3, UpdateLast
  <2> QED
    BY <2>2, <2>4 DEF LastResult
<1> QED
  BY <1>0, <1>1, <1>2, <1>3, <1>4, <1>5, <1>6, <1>7

\* A call that raises leaves at most the call behind.
LEMMA RaiseEffect ==
  ASSUME IInv, InvokeRaises
  PROVE  /\ node = "invoke_subagent" /\ node' = "raised"
         /\ UNCHANGED <<plan, idx, hop, visited, results, error>>
         /\ DOMAIN calls' = DOMAIN calls
         /\ \A s \in DOMAIN calls : Range(calls[s]) \subseteq Range(calls'[s])
<1>1. /\ node = "invoke_subagent" /\ node' = "raised"
      /\ UNCHANGED <<plan, idx, hop, visited, results, error>>
  BY SuperstepCounts DEF InvokeRaises
<1>2. calls \in [0 .. MaxPlan - 1 -> Seq(Agents \cup {NoAgent})] /\ healthy \in SUBSET Agents
  BY DEF IInv, TypeOK
<1>3. CASE \E a \in MatchedAgents(CurrentStep) : calls' = [calls EXCEPT ![idx] = Append(@, a)]
  <2>1. PICK a \in MatchedAgents(CurrentStep) : calls' = [calls EXCEPT ![idx] = Append(@, a)]
    BY <1>3
  <2>2. a \in Agents \cup {NoAgent}
    BY <1>2, MatchedAgentsType
  <2>3. ASSUME NEW s \in DOMAIN calls PROVE Range(calls[s]) \subseteq Range(calls'[s])
    <3>1. calls[s] \in Seq(Agents \cup {NoAgent})
      BY <1>2
    <3>2. CASE s = idx
      <4>1. calls'[s] = Append(calls[s], a)
        BY <1>2, <2>1, <3>2
      <4> QED
        BY <2>2, <3>1, <4>1, AppendGrows
    <3>3. CASE s # idx
      BY <1>2, <2>1, <3>3
    <3> QED
      BY <3>2, <3>3
  <2> QED
    BY <1>1, <1>2, <2>1, <2>3
<1>4. CASE calls' = calls
  BY <1>1, <1>4
<1> QED
  BY <1>3, <1>4 DEF InvokeRaises

\* A verdict is written into the last record; it decides where the graph goes on.
LEMMA PostEffect ==
  ASSUME IInv, ValidateStepPost
  PROVE  /\ node = "validate_step_post" /\ UNCHANGED <<plan, hop, visited, calls, error>>
         /\ results' \in Seq(StepResults) /\ Len(results') = Len(results)
         /\ Len(results) = idx + 1 /\ idx \in Nat /\ idx < Len(plan)
         /\ \A i \in 1 .. Len(results) - 1 : results'[i] = results[i]
         /\ LastResult.retries \in Nat /\ LastResult.retries < RetryLimit
         /\ LastResult'.step = idx
         /\ \/ /\ LastResult'.passed
               /\ LastResult'.retries = LastResult.retries
               /\ \/ /\ node' = "validate_step_pre"
                     /\ idx' = idx + 1 /\ idx + 1 < Len(plan) - 1
                  \/ node' = "aggregate_results"
            \/ /\ ~LastResult'.passed /\ idx' = idx
               /\ LastResult'.retries = LastResult.retries + 1
               /\ \/ node' = "invoke_subagent" /\ LastResult'.retries < RetryLimit
                  \/ node' = "aggregate_results" /\ LastResult'.retries >= RetryLimit
<1>1. node = "validate_step_post" /\ UNCHANGED <<plan, hop, visited, calls, error>>
  BY DEF ValidateStepPost
<1>2. /\ Len(results) = idx + 1 /\ idx \in Nat /\ idx < Len(plan) /\ Len(plan) \in Nat
      /\ results \in Seq(StepResults) /\ LastResult \in StepResults /\ results # <<>>
      /\ LastResult.retries \in Nat /\ LastResult.retries < RetryLimit
  BY <1>1, AtPost
<1>3. LastResult.step = idx
  BY <1>2 DEF IInv, Story, ResultsFollowPlan, LastResult
<1>4. ASSUME NEW e \in StepResults, results' = [results EXCEPT ![Len(results)] = e]
      PROVE  /\ results' \in Seq(StepResults) /\ Len(results') = Len(results)
             /\ LastResult' = e
             /\ \A i \in 1 .. Len(results) - 1 : results'[i] = results[i]
  BY <1>2, <1>4, UpdateLast DEF LastResult
<1>5. CASE AcceptStep
  <2> DEFINE e == Accepted(LastResult)
  <2>1. e \in StepResults /\ e.step = idx /\ e.passed /\ e.retries = LastResult.retries
    BY <1>2, <1>3 DEF StepResults, Accepted
  <2>2. /\ results' = [results EXCEPT ![Len(results)] = e] /\ idx' = AdvancedIndex
        /\ node' = RouteValidateStepPost(e, AdvancedIndex)
    BY <1>5, SuperstepCounts DEF AcceptStep
  <2> HIDE DEF e
  <2>3. \/ node' = "validate_step_pre" /\ idx' < Len(plan) - 1
        \/ node' = "aggregate_results"
    BY <2>1, <2>2 DEF RouteValidateStepPost
  <2>4. idx' < Len(plan) - 1 => idx' = idx + 1
    BY <1>2, <2>2 DEF AdvancedIndex
  <2> QED
    BY <1>1, <1>2, <1>4, <2>1, <2>2, <2>3, <2>4
<1>6. CASE RejectStep
  <2> DEFINE e == Rejected(LastResult)
  <2>1. /\ e \in StepResults /\ e.step = idx /\ ~e.passed
        /\ e.retries = LastResult.retries + 1
    BY <1>2, <1>3, RejectedRecord
  <2>2. /\ results' = [results EXCEPT ![Len(results)] = e] /\ idx' = idx
        /\ node' = RouteValidateStepPost(e, idx)
    BY <1>6, SuperstepCounts DEF RejectStep
  <2> HIDE DEF e
  <2>3. IF e.retries < RetryLimit THEN node' = "invoke_subagent"
                                  ELSE node' = "aggregate_results"
    BY <2>1, <2>2 DEF RouteValidateStepPost
  <2>4. /\ results' \in Seq(StepResults) /\ Len(results') = Len(results) /\ LastResult' = e
        /\ \A i \in 1 .. Len(results) - 1 : results'[i] = results[i]
    BY <1>4, <2>1, <2>2
  <2>5. /\ ~LastResult'.passed /\ LastResult'.step = idx
        /\ LastResult'.retries = LastResult.retries + 1
    BY <2>1, <2>4
  <2>6. \/ node' = "invoke_subagent" /\ LastResult'.retries < RetryLimit
        \/ node' = "aggregate_results" /\ LastResult'.retries >= RetryLimit
    BY <1>2, <2>1, <2>3, <2>4, LimitsAssumption
  <2> QED
    BY <1>1, <1>2, <2>2, <2>4, <2>5, <2>6
<1> QED
  BY <1>5, <1>6 DEF ValidateStepPost

----------------------------------------------------------------------------
(* No retry is lost *)

\* Unless a limit halted the run, every try so far was counted.
TriesInv ==
  /\ ~Halted /\ node = "invoke_subagent" => Len(calls[idx]) = LastResult.retries
  /\ ~Halted /\ node = "validate_step_post" => Len(calls[idx]) = LastResult.retries + 1
  /\ GivenUpAfterAllTries

\* A rejected call and its count go together; a halt is the one rejection without a call.
LEMMA NextTries == IInv /\ TriesInv /\ [Next]_vars => TriesInv'
<1> SUFFICES ASSUME IInv, TriesInv, [Next]_vars PROVE TriesInv'
  OBVIOUS
<1>1. CASE ValidateStepPre
  <2>1. /\ UNCHANGED <<idx, calls>> /\ LastResult'.retries = 0
        /\ \/ node' = "invoke_subagent" /\ calls[idx] = <<>>
           \/ node' = "aggregate_results" /\ ~LastResult'.preOk
    BY <1>1, PreEffect
  <2> QED
    BY <2>1 DEF TriesInv, GivenUpAfterAllTries
<1>2. CASE InvokeSubagent
  <2>1. CASE InvokeHalted
    BY <1>2, <2>1, HaltEffect DEF TriesInv, GivenUpAfterAllTries
  <2>2. CASE InvokeAgent
    <3>1. /\ node = "invoke_subagent" /\ node' = "validate_step_post" /\ ~Halted
          /\ idx' = idx /\ calls[idx] \in Seq(Agents \cup {NoAgent})
          /\ \E a \in Agents \cup {NoAgent} : calls'[idx] = Append(calls[idx], a)
          /\ LastResult'.retries = LastResult.retries
      BY <1>2, <2>2, CallEffect
    <3>2. Len(calls'[idx]) = Len(calls[idx]) + 1
      BY <3>1, AppendProperties
    <3> QED
      BY <3>1, <3>2 DEF TriesInv, GivenUpAfterAllTries
  <2> QED
    BY <1>2, <2>1, <2>2 DEF InvokeSubagent
<1>3. CASE InvokeRaises
  BY <1>3, RaiseEffect DEF TriesInv, GivenUpAfterAllTries
<1>4. CASE ValidateStepPost
  <2>1. /\ node = "validate_step_post" /\ UNCHANGED <<calls, error>> /\ LastResult'.step = idx
        /\ LastResult.retries \in Nat /\ LastResult.retries < RetryLimit
        /\ \/ LastResult'.passed /\ node' \in {"validate_step_pre", "aggregate_results"}
           \/ /\ idx' = idx /\ LastResult'.retries = LastResult.retries + 1
              /\ \/ node' = "invoke_subagent"
                 \/ node' = "aggregate_results" /\ LastResult'.retries >= RetryLimit
    BY <1>4, PostEffect
  <2>2. LastResult'.retries = LastResult.retries + 1 /\ LastResult'.retries >= RetryLimit
        => LastResult.retries + 1 = RetryLimit
    BY <2>1, LimitsAssumption
  <2> QED
    BY <2>1, <2>2 DEF TriesInv, GivenUpAfterAllTries, Halted
<1>5. CASE ~ValidateStepPre /\ ~InvokeSubagent /\ ~InvokeRaises /\ ~ValidateStepPost
  <2>1. /\ UNCHANGED execution
        /\ \/ UNCHANGED <<node, error>>
           \/ node' \notin {"invoke_subagent", "validate_step_post", "aggregate_results"}
    BY <1>5, QuietStep DEF Planning, Final
  <2> QED
    BY <2>1 DEF TriesInv, GivenUpAfterAllTries, Halted, LastResult, execution
<1> QED
  BY <1>1, <1>2, <1>3, <1>4, <1>5

\* A step that is given up without a safety halt had all the calls the limit allows.
THEOREM GivenUpAfterAllTriesThm == Spec => []GivenUpAfterAllTries
<1>1. Init => TriesInv
  BY DEF Init, TriesInv, GivenUpAfterAllTries
<1>2. TriesInv => GivenUpAfterAllTries
  BY DEF TriesInv
<1> QED
  BY <1>1, <1>2, NextTries, Invariance, PTL DEF Spec

----------------------------------------------------------------------------
(* Safety errors are true *)

\* Every visited pair is of an agent that was called.
VisitedWereCalled ==
  \A i \in 1 .. Len(visited) : \E s \in DOMAIN calls : visited[i][1] \in Range(calls[s])

HaltsInv == HaltsAreTrue /\ VisitedWereCalled

\* Calls are never forgotten.
LEMMA CalledStaysCalled ==
  ASSUME IInv, [Next]_vars
  PROVE  /\ DOMAIN calls' = DOMAIN calls
         /\ \A s \in DOMAIN calls : Range(calls[s]) \subseteq Range(calls'[s])
<1>1. CASE InvokeSubagent /\ InvokeAgent
  <2>1. /\ DOMAIN calls' = DOMAIN calls /\ calls[idx] \in Seq(Agents \cup {NoAgent})
        /\ \A s \in DOMAIN calls : s # idx => calls'[s] = calls[s]
        /\ \E a \in Agents \cup {NoAgent} : calls'[idx] = Append(calls[idx], a)
    BY <1>1, CallEffect
  <2>2. Range(calls[idx]) \subseteq Range(calls'[idx])
    BY <2>1, AppendGrows
  <2> QED
    BY <2>1, <2>2
<1>2. CASE InvokeRaises
  BY <1>2, RaiseEffect
<1>3. CASE ~(InvokeSubagent /\ InvokeAgent) /\ ~InvokeRaises
  <2>1. calls' = calls
    BY <1>3, PreEffect, HaltEffect, PostEffect, QuietStep DEF InvokeSubagent, execution
  <2> QED
    BY <2>1
<1> QED
  BY <1>1, <1>2, <1>3

\* A halt reads visited and hop_count as they are, and neither ever shrinks.
LEMMA NextHalts == IInv /\ HaltsInv /\ [Next]_vars => HaltsInv'
<1> SUFFICES ASSUME IInv, HaltsInv, [Next]_vars PROVE HaltsInv'
  OBVIOUS
<1>0. /\ DOMAIN calls' = DOMAIN calls
      /\ \A s \in DOMAIN calls : Range(calls[s]) \subseteq Range(calls'[s])
  BY CalledStaysCalled
<1>1. CASE InvokeSubagent /\ InvokeHalted
  <2>1. error' = SafetyError /\ UNCHANGED <<hop, visited, calls>>
    BY <1>1, HaltEffect DEF execution
  <2>2. SafetyError = "hop_limit_exceeded" => hop = HopLimit
    BY LimitsAssumption DEF SafetyError, IInv, TypeOK, Story, HopsWithinLimit
  <2>3. ASSUME SafetyError = "cycle_detected"
        PROVE  \E s \in DOMAIN calls : NoAgent \in Range(calls[s])
    <3>1. StepKey(NoAgent, CurrentStep) \in Range(visited)
      BY <2>3 DEF SafetyError
    <3>2. DOMAIN visited = 1 .. Len(visited)
      BY DEF IInv, TypeOK
    <3>3. PICK i \in 1 .. Len(visited) : visited[i] = StepKey(NoAgent, CurrentStep)
      BY <3>1, <3>2 DEF Range
    <3>4. visited[i][1] = NoAgent
      BY <3>3 DEF StepKey
    <3> QED
      BY <3>4 DEF HaltsInv, VisitedWereCalled
  <2> QED
    BY <2>1, <2>2, <2>3 DEF HaltsInv, HaltsAreTrue, VisitedWereCalled
<1>2. CASE InvokeSubagent /\ InvokeAgent
  <2>1. /\ ~Halted /\ error' = error
        /\ \E a \in Agents \cup {NoAgent} :
             /\ calls'[idx] = Append(calls[idx], a)
             /\ visited' = Append(visited, StepKey(a, CurrentStep))
        /\ idx \in DOMAIN calls /\ calls[idx] \in Seq(Agents \cup {NoAgent})
    BY <1>2, CallEffect
  <2>2. PICK a \in Agents \cup {NoAgent} :
          /\ calls'[idx] = Append(calls[idx], a)
          /\ visited' = Append(visited, StepKey(a, CurrentStep))
    BY <2>1
  <2>3. HaltsAreTrue'
    BY <2>1 DEF Halted, SafetyErrors, HaltsAreTrue
  <2>4. /\ Len(visited') = Len(visited) + 1 /\ Len(visited) \in Nat
        /\ \A i \in 1 .. Len(visited) : visited'[i] = visited[i]
        /\ visited'[Len(visited')] = StepKey(a, CurrentStep)
    <3>1. visited \in Seq((Agents \cup {NoAgent}) \X {s.inputs : s \in PlanSteps})
      BY DEF IInv, TypeOK
    <3> QED
      BY <2>2, <3>1, AppendGrows
  <2>5. StepKey(a, CurrentStep)[1] = a /\ a \in Range(calls'[idx])
    BY <2>1, <2>2, AppendGrows DEF StepKey
  <2>6. VisitedWereCalled'
    <3> SUFFICES ASSUME NEW i \in 1 .. Len(visited')
                 PROVE  \E s \in DOMAIN calls : visited'[i][1] \in Range(calls'[s])
      BY <1>0 DEF VisitedWereCalled
    <3>1. CASE i \in 1 .. Len(visited)
      BY <1>0, <2>4, <3>1 DEF HaltsInv, VisitedWereCalled
    <3>2. CASE i = Len(visited')
      BY <2>1, <2>4, <2>5, <3>2
    <3> QED
      BY <2>4, <3>1, <3>2
  <2> QED
    BY <2>3, <2>6 DEF HaltsInv
<1>3. CASE ~InvokeSubagent
  <2>1. /\ UNCHANGED <<hop, visited>> /\ error' \in {error, "kb_retrieval"}
    BY <1>3, PreEffect, RaiseEffect, PostEffect, QuietStep DEF execution
  <2> QED
    BY <1>0, <2>1 DEF HaltsInv, HaltsAreTrue, VisitedWereCalled
<1> QED
  BY <1>1, <1>2, <1>3 DEF InvokeSubagent

\* The safety error an answer reports is true of the calls that were made.
THEOREM HaltsAreTrueThm == Spec => []HaltsAreTrue
<1>1. Init => HaltsInv
  BY DEF Init, HaltsInv, HaltsAreTrue, VisitedWereCalled
<1>2. HaltsInv => HaltsAreTrue
  BY DEF HaltsInv
<1> QED
  BY <1>1, <1>2, NextHalts, Invariance, PTL DEF Spec

----------------------------------------------------------------------------
(* The last step *)

\* Execution only comes to the last step of a plan that has no other.
LastStepInv ==
  /\ node \in {"validate_step_pre", "invoke_subagent", "validate_step_post"} =>
       idx = 0 \/ idx < Len(plan) - 1
  /\ Len(results) <= 1 \/ Len(results) < Len(plan)

\* Both ways to another step, present_plan and an accepted answer, stop before the last.
LEMMA NextLastStep == IInv /\ LastStepInv /\ [Next]_vars => LastStepInv'
<1> SUFFICES ASSUME IInv, LastStepInv, [Next]_vars PROVE LastStepInv'
  OBVIOUS
<1>0. Len(plan) \in Nat /\ idx \in Nat /\ Len(results) \in Nat
  BY DEF IInv, TypeOK
<1>1. CASE ValidateStepPre
  <2>1. /\ node = "validate_step_pre" /\ UNCHANGED <<plan, idx>> /\ Len(results') = idx + 1
    BY <1>1, PreEffect
  <2> QED
    BY <1>0, <2>1 DEF LastStepInv
<1>2. CASE InvokeSubagent
  <2>1. /\ node = "invoke_subagent" /\ UNCHANGED <<plan, idx>> /\ Len(results') = Len(results)
    BY <1>2, HaltEffect, CallEffect DEF InvokeSubagent, execution
  <2> QED
    BY <2>1 DEF LastStepInv
<1>3. CASE InvokeRaises
  BY <1>3, RaiseEffect DEF LastStepInv
<1>4. CASE ValidateStepPost
  <2>1. /\ node = "validate_step_post" /\ plan' = plan /\ Len(results') = Len(results)
        /\ \/ idx' = idx
           \/ idx' < Len(plan) - 1
           \/ node' = "aggregate_results"
    BY <1>4, PostEffect
  <2> QED
    BY <2>1 DEF LastStepInv
<1>5. CASE ~ValidateStepPre /\ ~InvokeSubagent /\ ~InvokeRaises /\ ~ValidateStepPost
  <2>1. /\ UNCHANGED <<idx, results>>
        /\ \/ UNCHANGED <<node, plan>>
           \/ node \in Planning
           \/ /\ plan' = plan
              /\ node' \notin {"validate_step_pre", "invoke_subagent", "validate_step_post"}
    BY <1>5, QuietStep DEF Planning, Final, execution
  <2>2. node \in Planning => idx = 0 /\ Len(results) = 0
    BY DEF IInv, PlanningInv
  <2> QED
    BY <2>1, <2>2 DEF LastStepInv
<1> QED
  BY <1>1, <1>2, <1>3, <1>4, <1>5

\* The last step of a plan of several steps is never sent to a sub-agent:
\* validate_step_post advances the index before its router compares it with the last one.
LastStepNeverCalled ==
  \A s \in DOMAIN calls : calls[s] # <<>> => s = 0 \/ s < Len(plan) - 1

\* What the run that refutes EveryStepRuns shows for one plan holds of every plan, whatever
\* the answers and the limits.
THEOREM LastStepNeverCalledThm == Spec => []LastStepNeverCalled
<1>1. Init => LastStepInv
  BY DEF Init, LastStepInv
<1>2. IInv /\ LastStepInv => LastStepNeverCalled
  <2> SUFFICES ASSUME IInv, LastStepInv, NEW s \in DOMAIN calls, calls[s] # <<>>
               PROVE  s = 0 \/ s < Len(plan) - 1
    BY DEF LastStepNeverCalled
  <2>1. s \in 0 .. MaxPlan - 1 /\ Len(plan) \in Nat /\ Len(results) \in Nat
    BY DEF IInv, TypeOK
  <2>2. s < Len(results)
    BY DEF IInv, Story, CallsWerePreValidated
  <2> QED
    BY <2>1, <2>2, LimitsAssumption DEF LastStepInv
<1> QED
  BY <1>1, <1>2, NextLastStep, Invariance, PTL DEF Spec

=============================================================================
