------------------------- MODULE OrchestratorGraph -------------------------
(***************************************************************************)
(* One POST /invocations request of the orchestrator: the LangGraph state  *)
(* graph of src/orchestrator/graph.py and its twelve nodes, each node a    *)
(* single action (LangGraph runs one node per superstep and commits its    *)
(* result before it routes).  The language model, the sub-agents and the   *)
(* operators who edit the sub-agent registry are the environment: what     *)
(* they answer is chosen by \E, and the registry may change between any    *)
(* two supersteps.                                                         *)
(*                                                                         *)
(* Indices follow the Python source: current_step_index counts from 0, so  *)
(* the current step is execution_plan[current_step_index + 1] here.        *)
(* Scores are in tenths.                                                   *)
(***************************************************************************)
EXTENDS Integers, SequencesExt

CONSTANTS
  Agents,           (* agentIds in the subagent-registry table             *)
  AgentCategory,    (* agent -> its category                               *)
  AllowedActions,   (* agent -> the tools in its allowedActions            *)
  Overlap,          (* capability -> agent -> words the two texts share    *)
  Tools,            (* tool names                                          *)
  PlanSteps,        (* the steps the language model may put in a plan      *)
  MaxPlan,          (* bound: the longest plan                             *)
  Scores,           (* confidence scores of a classification, in tenths    *)
  Replies,          (* the kinds of sub-agent answer, a subset of ReplyKinds *)
  HopLimit,         (* HOP_LIMIT                                           *)
  RetryLimit,       (* the literal 2 of _route_validate_step_post          *)
  TokenLimit,       (* TOKEN_BUDGET_LIMIT, 0 when there is none            *)
  GuardrailOn,      (* BEDROCK_GUARDRAIL_ID is set                         *)
  NoAgent,          (* agent_id is None                                    *)
  NoTool            (* tool_name is the empty string                       *)

(***************************************************************************)
(* What a sub-agent call can come back with.  "good", "fair" and "low"     *)
(* have a result and a score on either side of the thresholds; "timeout"   *)
(* is the record the executor's timeout handler builds; "malformed" lacks  *)
(* confidence_score, "noresult" the result; "empty" is {}; "badscore" has  *)
(* a confidence_score that is not a number.                                *)
(***************************************************************************)
ReplyKinds == {"good", "fair", "low", "timeout", "malformed", "noresult",
               "empty", "badscore"}
NoReply == "none"

ASSUME LimitsAssumption ==
  /\ HopLimit \in Nat
  /\ RetryLimit \in Nat \ {0}
  /\ TokenLimit \in Nat
  /\ MaxPlan \in Nat
  /\ GuardrailOn \in BOOLEAN

ASSUME RegistryAssumption ==
  /\ NoAgent \notin Agents
  /\ Replies \subseteq ReplyKinds
  /\ Scores \subseteq 0 .. 10
  /\ \A s \in PlanSteps : s.tool \in Tools \cup {NoTool}

VARIABLES
  node,         (* the node LangGraph runs next, or "END" / "raised"       *)
  clarifying,   (* clarifying_question is set                              *)
  missing,      (* missing_inputs is not empty                             *)
  kbDocs,       (* context_window holds knowledge-base documents           *)
  plan,         (* execution_plan                                          *)
  idx,          (* current_step_index                                      *)
  hop,          (* hop_count                                               *)
  visited,      (* visited_steps: (agent, inputs hash) pairs               *)
  results,      (* step_results                                            *)
  error,        (* error["type"], or "none"                                *)
  response,     (* final_response and the notices prepended to it          *)
  logs,         (* the request's items in the execution-logs table         *)
  violations,   (* the request's items in guardrail-violations             *)
  healthy,      (* registry: the agents that are ACTIVE and HEALTHY        *)
  calls,        (* history: step -> agents called for it, oldest first     *)
  supersteps    (* history: how many nodes have run                        *)

understanding == <<clarifying, missing>>
execution == <<idx, hop, visited, results, calls>>
outputs == <<response, logs, violations>>
vars == <<node, clarifying, missing, kbDocs, plan, idx, hop, visited,
          results, error, response, logs, violations, healthy, calls, supersteps>>

Nodes == {"classify_request", "prompt_user", "retrieve_knowledge",
          "detect_missing_inputs", "generate_plan", "present_plan",
          "validate_step_pre", "invoke_subagent", "validate_step_post",
          "aggregate_results", "scan_output_guardrails", "write_execution_log"}
Final == {"END", "raised"}

SafetyErrors == {"hop_limit_exceeded", "cycle_detected", "token_budget_exceeded"}
Errors == {"none", "kb_retrieval"} \cup SafetyErrors

(***************************************************************************)
(* One node runs per superstep; a node that raises ends the graph run, and *)
(* the FastAPI handler answers 500 without a result.  The count saturates  *)
(* just above SuperstepBound.                                              *)
(***************************************************************************)
SuperstepBound == 10 + 3 * HopLimit + 2 * RetryLimit

Superstep(from, to) ==
  /\ node = from
  /\ node' = to
  /\ supersteps' = IF supersteps > SuperstepBound THEN supersteps ELSE supersteps + 1

(***************************************************************************)
(* initial_state of the /invocations handler.                              *)
(***************************************************************************)
NoResponse == [status |-> "none", unverified |-> FALSE, uncertain |-> FALSE,
               diagnostic |-> FALSE, crossref |-> FALSE]

Init ==
  /\ node = "classify_request"
  /\ clarifying = FALSE /\ missing = FALSE
  /\ kbDocs = FALSE /\ plan = <<>>
  /\ idx = 0 /\ hop = 0 /\ visited = <<>> /\ results = <<>>
  /\ error = "none" /\ response = NoResponse
  /\ logs = <<>> /\ violations = 0
  /\ healthy \in SUBSET Agents
  /\ calls = [s \in 0 .. MaxPlan - 1 |-> <<>>]
  /\ supersteps = 0

----------------------------------------------------------------------------
(* Understanding the request *)

ConfidenceThreshold == 7      \* 0.7

RouteClassifyRequest(score) ==
  IF score >= ConfidenceThreshold THEN "retrieve_knowledge" ELSE "prompt_user"

(***************************************************************************)
(* A failed model call counts as score 0; below the threshold there is     *)
(* always a question and no category.  Nothing later reads the score: the  *)
(* field is overwritten by the average that aggregate_results forms.       *)
(***************************************************************************)
ClassifyRequest ==
  \E score \in Scores \cup {0} :
    /\ Superstep("classify_request", RouteClassifyRequest(score))
    /\ clarifying' = (score < ConfidenceThreshold)
    /\ UNCHANGED <<missing, kbDocs, plan, execution, error, outputs, healthy>>

(***************************************************************************)
(* The question stays in the state and the edge leads on to retrieval.     *)
(***************************************************************************)
PromptUser ==
  /\ Superstep("prompt_user", "retrieve_knowledge")
  /\ clarifying' = (clarifying \/ missing)
  /\ missing' = FALSE
  /\ UNCHANGED <<kbDocs, plan, execution, error, outputs, healthy>>

(***************************************************************************)
(* Documents may all fall below the relevance threshold; any exception of  *)
(* the knowledge base is recorded in error and leaves the context alone.   *)
(***************************************************************************)
RetrieveKnowledge ==
  /\ Superstep("retrieve_knowledge", "detect_missing_inputs")
  /\ \/ kbDocs' \in BOOLEAN /\ error' = error
     \/ kbDocs' = kbDocs /\ error' = "kb_retrieval"
  /\ UNCHANGED <<understanding, plan, execution, outputs, healthy>>

RouteDetectMissingInputs == "generate_plan"

DetectMissingInputs ==
  /\ Superstep("detect_missing_inputs", RouteDetectMissingInputs)
  /\ missing' \in BOOLEAN
  /\ UNCHANGED <<clarifying, kbDocs, plan, execution, error, outputs, healthy>>

----------------------------------------------------------------------------
(* Planning *)

Plans == UNION {[1 .. n -> PlanSteps] : n \in 0 .. MaxPlan}

(***************************************************************************)
(* Any failure to call or parse the model gives the empty plan.            *)
(***************************************************************************)
GeneratePlan ==
  /\ Superstep("generate_plan", "present_plan")
  /\ plan' \in Plans
  /\ UNCHANGED <<understanding, kbDocs, execution, error, outputs, healthy>>

RoutePresentPlan_Swapped(pending) == IF pending THEN "validate_step_pre" ELSE "generate_plan"
RoutePresentPlan(pending) == IF pending THEN "generate_plan" ELSE "validate_step_pre"

(***************************************************************************)
(* The node sets pending_approval to False: the plan approves itself.      *)
(***************************************************************************)
PresentPlan ==
  /\ Superstep("present_plan", RoutePresentPlan(FALSE))
  /\ UNCHANGED <<understanding, kbDocs, plan, execution, error, outputs, healthy>>

----------------------------------------------------------------------------
(* Executing one step of the plan *)

CurrentStep == plan[idx + 1]
LastResult == results[Len(results)]

ActiveAgents(step) == {a \in healthy : AgentCategory[a] = step.category}

(***************************************************************************)
(* The three checks.  An empty plan has the empty step, whose category no  *)
(* agent has.                                                              *)
(***************************************************************************)
PreValid ==
  /\ idx < Len(plan)
  /\ CurrentStep.complete
  /\ ActiveAgents(CurrentStep) # {}
  /\ \/ CurrentStep.tool = NoTool
     \/ \E a \in ActiveAgents(CurrentStep) : CurrentStep.tool \in AllowedActions[a]

StepResult(step, ok) ==
  [step |-> step, preOk |-> ok, reply |-> NoReply, retries |-> 0, passed |-> FALSE]

RecordPreValidation_Overwrites(ok) ==
  IF results = <<>> THEN <<StepResult(idx, ok)>>
  ELSE [results EXCEPT ![Len(results)] = StepResult(idx, ok)]
RecordPreValidation(ok) == Append(results, StepResult(idx, ok))

RouteValidateStepPre(last) ==
  IF last.preOk THEN "invoke_subagent" ELSE "aggregate_results"

ValidateStepPre ==
  /\ results' = RecordPreValidation(PreValid)
  /\ Superstep("validate_step_pre", RouteValidateStepPre(results'[Len(results')]))
  /\ UNCHANGED <<understanding, kbDocs, plan, idx, hop, visited, calls, error, outputs, healthy>>

(***************************************************************************)
(* visited_steps holds "agent:hash(tool_inputs)".  The check builds its    *)
(* key from the plan step's agent_id, which generate_plan leaves None; the *)
(* key recorded after a call names the agent the registry supplied.        *)
(***************************************************************************)
StepKey_InputsOnly(agent, step) == <<NoAgent, step.inputs>>
StepKey(agent, step) == <<agent, step.inputs>>

(***************************************************************************)
(* token_budget_used is 0 in the initial state and no node assigns it.     *)
(***************************************************************************)
TokenBudgetUsed == 0

SafetyError_FirstTryOnly ==
  IF hop >= HopLimit THEN "hop_limit_exceeded"
  ELSE IF LastResult.retries = 0 /\ StepKey(NoAgent, CurrentStep) \in Range(visited)
       THEN "cycle_detected"
  ELSE IF TokenLimit > 0 /\ TokenBudgetUsed >= TokenLimit THEN "token_budget_exceeded"
  ELSE "none"
SafetyError_OffByOne ==
  IF hop > HopLimit THEN "hop_limit_exceeded"
  ELSE IF StepKey(NoAgent, CurrentStep) \in Range(visited) THEN "cycle_detected"
  ELSE IF TokenLimit > 0 /\ TokenBudgetUsed >= TokenLimit THEN "token_budget_exceeded"
  ELSE "none"
SafetyError ==
  IF hop >= HopLimit THEN "hop_limit_exceeded"
  ELSE IF StepKey(NoAgent, CurrentStep) \in Range(visited) THEN "cycle_detected"
  ELSE IF TokenLimit > 0 /\ TokenBudgetUsed >= TokenLimit THEN "token_budget_exceeded"
  ELSE "none"

(***************************************************************************)
(* The best match among the active agents of the category, by overlapping  *)
(* words (ties go to the first the query returns, in no fixed order).      *)
(* With no active agent left the call is made all the same, for no agent.  *)
(***************************************************************************)
MatchedAgents(step) ==
  LET active == ActiveAgents(step)
      score == Overlap[step.capability]
  IN  IF active = {} THEN {NoAgent}
      ELSE {a \in active : \A b \in active : score[b] <= score[a]}

InvokeHalted ==
  /\ SafetyError # "none"
  /\ error' = SafetyError
  /\ Superstep("invoke_subagent", "validate_step_post")
  /\ UNCHANGED <<understanding, kbDocs, plan, execution, outputs, healthy>>

InvokeAgent ==
  /\ SafetyError = "none"
  /\ Superstep("invoke_subagent", "validate_step_post")
  /\ \E a \in MatchedAgents(CurrentStep), r \in Replies :
       /\ calls' = [calls EXCEPT ![idx] = Append(@, a)]
       /\ visited' = Append(visited, StepKey(a, CurrentStep))
       /\ results' = [results EXCEPT ![Len(results)].reply = r]
  /\ hop' = hop + 1
  /\ UNCHANGED <<understanding, kbDocs, plan, idx, error, outputs, healthy>>

InvokeSubagent == node = "invoke_subagent" /\ (InvokeHalted \/ InvokeAgent)

(***************************************************************************)
(* The registry query, or the gateway call, raises: the request dies with  *)
(* the call unrecorded, though the sub-agent may have run.                 *)
(***************************************************************************)
InvokeRaises ==
  /\ node = "invoke_subagent" /\ SafetyError = "none"
  /\ Superstep("invoke_subagent", "raised")
  /\ \/ calls' = calls
     \/ \E a \in MatchedAgents(CurrentStep) : calls' = [calls EXCEPT ![idx] = Append(@, a)]
  /\ UNCHANGED <<understanding, kbDocs, plan, idx, hop, visited, results, error, outputs, healthy>>

Score == [good |-> 9, fair |-> 7, low |-> 5, noresult |-> 9, timeout |-> 0]
Scored(reply) == reply \in DOMAIN Score

ReplyAccepted(reply) ==
  reply # "noresult" /\ Scored(reply) /\ Score[reply] >= ConfidenceThreshold

Accepted(last) == [last EXCEPT !.passed = TRUE]

Rejected_Uncounted(last) == [last EXCEPT !.passed = FALSE]
Rejected_CountsDown(last) == [last EXCEPT !.retries = @ - 1, !.passed = FALSE]
Rejected(last) == [last EXCEPT !.retries = @ + 1, !.passed = FALSE]

AdvancedIndex == IF idx < Len(plan) - 1 THEN idx + 1 ELSE idx

RouteValidateStepPost_OneMore(last, index) ==
  IF last.passed
  THEN IF index < Len(plan) - 1 THEN "validate_step_pre" ELSE "aggregate_results"
  ELSE IF last.retries <= RetryLimit THEN "invoke_subagent" ELSE "aggregate_results"
RouteValidateStepPost_SkipsCheck(last, index) ==
  IF last.passed
  THEN IF index < Len(plan) - 1 THEN "invoke_subagent" ELSE "aggregate_results"
  ELSE IF last.retries < RetryLimit THEN "invoke_subagent" ELSE "aggregate_results"
RouteValidateStepPost_CarriesOn(last, index) ==
  IF ~last.passed /\ last.retries < RetryLimit THEN "invoke_subagent"
  ELSE IF index < Len(plan) - 1 THEN "validate_step_pre" ELSE "aggregate_results"
RouteValidateStepPost_GivesUpEarly(last, index) ==
  IF last.passed
  THEN IF index < Len(plan) - 1 THEN "validate_step_pre" ELSE "aggregate_results"
  ELSE IF last.retries + 1 < RetryLimit THEN "invoke_subagent" ELSE "aggregate_results"
(***************************************************************************)
(* Reads the state after the node, so index is the advanced one.           *)
(***************************************************************************)
RouteValidateStepPost(last, index) ==
  IF last.passed
  THEN IF index < Len(plan) - 1 THEN "validate_step_pre" ELSE "aggregate_results"
  ELSE IF last.retries < RetryLimit THEN "invoke_subagent" ELSE "aggregate_results"

AcceptStep ==
  /\ ReplyAccepted(LastResult.reply)
  /\ results' = [results EXCEPT ![Len(results)] = Accepted(LastResult)]
  /\ idx' = AdvancedIndex
  /\ Superstep("validate_step_post", RouteValidateStepPost(Accepted(LastResult), AdvancedIndex))

RejectStep ==
  /\ ~ReplyAccepted(LastResult.reply) /\ LastResult.reply # "badscore"
  /\ results' = [results EXCEPT ![Len(results)] = Rejected(LastResult)]
  /\ idx' = idx
  /\ Superstep("validate_step_post", RouteValidateStepPost(Rejected(LastResult), idx))

ValidateStepPost ==
  /\ node = "validate_step_post"
  /\ AcceptStep \/ RejectStep
  /\ UNCHANGED <<understanding, kbDocs, plan, hop, visited, calls, error, outputs, healthy>>

----------------------------------------------------------------------------
(* Answering *)

ScoredResults == SelectSeq(results, LAMBDA r : Scored(r.reply))

HasLiveData_PreCheckOnly == \E r \in Range(results) : r.preOk
HasLiveData ==
  \E r \in Range(results) : r.preOk /\ r.reply \notin {NoReply, "empty"}

(***************************************************************************)
(* The average score of the answers that have one is below 0.8, or there   *)
(* is none and the score is the default 0.5.                               *)
(***************************************************************************)
Uncertain ==
  LET total == FoldLeft(LAMBDA sum, r : sum + Score[r.reply], 0, ScoredResults)
  IN  ScoredResults = <<>> \/ total < 8 * Len(ScoredResults)

Diagnosed_KbOnly == error = "kb_retrieval"
Diagnosed == error # "none"

(***************************************************************************)
(* The text is empty only if the model's answer is and nothing is put      *)
(* before or after it.                                                     *)
(***************************************************************************)
AggregateResults ==
  /\ Superstep("aggregate_results", "scan_output_guardrails")
  /\ \E answered \in BOOLEAN :
       LET crossref == HasLiveData /\ kbDocs
           blank == ~answered /\ HasLiveData /\ ~crossref /\ ~Uncertain /\ ~Diagnosed
       IN  response' = [status |-> IF blank THEN "empty" ELSE "draft",
                        unverified |-> ~HasLiveData, uncertain |-> Uncertain,
                        diagnostic |-> Diagnosed, crossref |-> crossref]
  /\ UNCHANGED <<understanding, kbDocs, plan, execution, error, logs, violations, healthy>>

NothingToScan_Short == ~GuardrailOn \/ ~response.uncertain
NothingToScan == ~GuardrailOn \/ response.status = "empty"

\* log_violation, one new item in guardrail-violations.
RecordViolation == violations' = violations + 1

ScanOutputGuardrails ==
  /\ Superstep("scan_output_guardrails", "write_execution_log")
  /\ \/ NothingToScan /\ UNCHANGED <<response, violations>>
     \/ /\ ~NothingToScan
        /\ response' = [response EXCEPT !.status = "clean"]
        /\ UNCHANGED violations
     \/ /\ ~NothingToScan
        /\ response' = [response EXCEPT !.status = "blocked"]
        /\ RecordViolation
  /\ UNCHANGED <<understanding, kbDocs, plan, execution, error, logs, healthy>>

ValidationResult(r) ==
  CASE ~r.preOk -> "FAIL"
    [] r.preOk /\ r.passed -> "PASS"
    [] r.preOk /\ ~r.passed /\ r.retries > 0 -> "RETRY"
    [] OTHER -> "FAIL"

LogEntry(r) == [step |-> r.step, label |-> ValidationResult(r)]

LoggedResults_PassedOnly == SelectSeq(results, LAMBDA r : r.passed)
LoggedResults == results

LogEntries(n) == [i \in 1 .. n |-> LogEntry(LoggedResults[i])]

(***************************************************************************)
(* One put_item per step result; the first that raises ends the request    *)
(* and leaves the entries before it in the table.                          *)
(***************************************************************************)
WriteExecutionLog ==
  /\ \E n \in 0 .. Len(LoggedResults) :
       /\ logs' = LogEntries(n)
       /\ \/ n = Len(LoggedResults) /\ Superstep("write_execution_log", "END")
          \/ n < Len(LoggedResults) /\ Superstep("write_execution_log", "raised")
  /\ UNCHANGED <<understanding, kbDocs, plan, execution, error, response, violations, healthy>>

(***************************************************************************)
(* Exceptions no node catches: the registry query (after the inputs check), *)
(* comparing a score that is not a number, the answering model, the        *)
(* guardrail model or its violations table.                                *)
(***************************************************************************)
NodeRaises ==
  /\ \/ /\ Superstep("validate_step_pre", "raised")
        /\ idx < Len(plan) => CurrentStep.complete
     \/ /\ Superstep("validate_step_post", "raised")
        /\ LastResult.reply = "badscore"
     \/ Superstep("aggregate_results", "raised")
     \/ Superstep("scan_output_guardrails", "raised") /\ ~NothingToScan
  /\ UNCHANGED <<understanding, kbDocs, plan, execution, error, outputs, healthy>>

----------------------------------------------------------------------------
(***************************************************************************)
(* An operator (or a health check) edits the registry.                     *)
(***************************************************************************)
RegistryChange ==
  /\ node \notin Final
  /\ \E a \in Agents : healthy' = IF a \in healthy THEN healthy \ {a} ELSE healthy \cup {a}
  /\ UNCHANGED <<node, supersteps, understanding, kbDocs, plan, execution, error, outputs>>

GraphStep ==
  \/ ClassifyRequest \/ PromptUser \/ RetrieveKnowledge \/ DetectMissingInputs
  \/ GeneratePlan \/ PresentPlan
  \/ ValidateStepPre \/ InvokeSubagent \/ InvokeRaises \/ ValidateStepPost
  \/ AggregateResults \/ ScanOutputGuardrails \/ WriteExecutionLog
  \/ NodeRaises

Next == GraphStep \/ RegistryChange

Spec == Init /\ [][Next]_vars

(***************************************************************************)
(* LangGraph runs the next node as long as there is one, and every model,  *)
(* registry and sub-agent call returns.                                    *)
(***************************************************************************)
FairSpec == Spec /\ WF_vars(GraphStep)

----------------------------------------------------------------------------
(* Properties *)

StepResults == [step : Nat, preOk : BOOLEAN, reply : Replies \cup {NoReply},
                retries : Nat, passed : BOOLEAN]
Responses == [status : {"none", "empty", "draft", "clean", "blocked"},
              unverified : BOOLEAN, uncertain : BOOLEAN, diagnostic : BOOLEAN,
              crossref : BOOLEAN]
LogEntrySet == [step : Nat, label : {"PASS", "RETRY", "FAIL"}]

\* Every field of OrchestratorState, and every item written, has its declared type.
TypeOK ==
  /\ node \in Nodes \cup Final
  /\ clarifying \in BOOLEAN /\ missing \in BOOLEAN
  /\ kbDocs \in BOOLEAN
  /\ plan \in Seq(PlanSteps) /\ Len(plan) <= MaxPlan
  /\ idx \in Nat /\ hop \in Nat
  /\ visited \in Seq((Agents \cup {NoAgent}) \X {s.inputs : s \in PlanSteps})
  /\ results \in Seq(StepResults)
  /\ error \in Errors
  /\ response \in Responses
  /\ logs \in Seq(LogEntrySet) /\ violations \in Nat
  /\ healthy \in SUBSET Agents
  /\ calls \in [0 .. MaxPlan - 1 -> Seq(Agents \cup {NoAgent})]
  /\ supersteps \in Nat

\* step_results tells one story: it has one record per step, in plan order and
\* without gaps, and no step is started until the one before it passed
\* (invoke_subagent and validate_step_post write whatever record is last).
ResultsFollowPlan ==
  /\ \A i \in 1 .. Len(results) : results[i].step = i - 1
  /\ \A i \in 1 .. Len(results) - 1 : results[i].passed

\* The hop limit holds and nothing escapes it: hop_count is the length of
\* visited_steps and never exceeds HOP_LIMIT (invoke_subagent's safety check).
HopsWithinLimit == hop = Len(visited) /\ hop <= HopLimit

\* No step is sent to sub-agents more often than the retry limit allows, however
\* failed answers, safety halts and crashes follow each other.
CallsWithinRetries == \A s \in DOMAIN calls : Len(calls[s]) <= RetryLimit

\* A sub-agent is only ever called for a step that passed pre-validation itself:
\* the verdict that _route_validate_step_pre read belongs to the step called.
CallsWerePreValidated ==
  \A s \in DOMAIN calls :
    calls[s] # <<>> => s < Len(results) /\ results[s + 1].step = s /\ results[s + 1].preOk

\* No retry is lost: a step that is given up, and not because of a safety limit, was sent
\* to sub-agents exactly as often as the retry limit allows, whatever came back.
GivenUpAfterAllTries ==
  node = "aggregate_results" /\ error \notin SafetyErrors /\ results # <<>>
    /\ LastResult.preOk /\ ~LastResult.passed
  => Len(calls[LastResult.step]) = RetryLimit

\* A safety error that the answer reports is true: the hop limit was used up by calls that
\* came back, and a cycle is only seen after a call that found no agent.
HaltsAreTrue ==
  /\ error = "hop_limit_exceeded" => hop = HopLimit
  /\ error = "cycle_detected" => \E s \in DOMAIN calls : NoAgent \in Range(calls[s])

\* A request runs a bounded number of nodes, whatever the length of the plan and
\* however retries and safety halts combine: LangGraph's recursion limit can be
\* set once and for all.
SuperstepsBounded == supersteps <= SuperstepBound

\* When the request is answered, the log has exactly one entry per started step;
\* each step that reached a sub-agent has one, and no entry claims PASS for a
\* step that did not.
AuditTrail ==
  node = "END" =>
    /\ \A s \in DOMAIN calls : calls[s] # <<>> => \E e \in Range(logs) : e.step = s
    /\ \A i, j \in DOMAIN logs : logs[i].step = logs[j].step => i = j
    /\ \A e \in Range(logs) : e.label = "PASS" => calls[e.step] # <<>>

\* What the answer says of itself is true: without the unverified notice some
\* sub-agent was called, with it no step passed; an error in the state is never
\* left unmentioned.
NoticesHonest ==
  response.status # "none" =>
    /\ ~response.unverified => \E s \in DOMAIN calls : calls[s] # <<>>
    /\ response.unverified => \A r \in Range(results) : ~r.passed
    /\ error # "none" => response.diagnostic

\* With a guardrail configured no text reaches the user unscanned, and a text is
\* withheld exactly when a violation is on record.
DeliveredWasScanned ==
  node = "END" /\ GuardrailOn =>
    /\ response.status \in {"clean", "blocked", "empty"}
    /\ response.status = "blocked" <=> violations > 0

\* A result that passed is final: no later node changes it.
PassedResultsFrozen ==
  [][\A i \in DOMAIN results :
       results[i].passed => i \in DOMAIN results' /\ results'[i] = results[i]]_vars

\* Once a safety limit has halted the run no sub-agent is called any more, although
\* the graph goes back to invoke_subagent to retry.
HaltIsFinal == [][(error \in SafetyErrors) => calls' = calls]_vars

\* Every request ends: it is answered or fails.
Terminates == <>(node \in Final)

(***************************************************************************)
(* What the documentation says and the code does not do.                   *)
(***************************************************************************)

\* graph.py:129 and the README's edge "pass, more steps": a request that is answered
\* with every step passed and no error ran all the steps of its plan.
EveryStepRuns ==
  node = "END" /\ error = "none" /\ (\A r \in Range(results) : r.passed)
    => Len(results) = Len(plan)

\* graph.py:134, "Fail, retry up to 2 times", and requirement 13.3: a step that is given
\* up, and not because of a safety limit, was called once and retried RetryLimit times.
FailedStepWasRetried ==
  node = "aggregate_results" /\ error \notin SafetyErrors /\ results # <<>>
    /\ LastResult.preOk /\ ~LastResult.passed
  => Len(calls[LastResult.step]) = 1 + RetryLimit

\* README "Cycle detected ((agent_id, inputs_hash) already in visited_steps) -> halt":
\* no pair is visited twice.
NoPairVisitedTwice ==
  \A i, j \in DOMAIN visited : visited[i] = visited[j] => i = j

\* validate_step_pre.py:5, "Action (tool_name) is within the sub-agent's allowedActions
\* list": a sub-agent that is called may use the step's tool.
CalledAgentMayAct ==
  \A s \in DOMAIN calls : \A a \in Range(calls[s]) :
    plan[s + 1].tool = NoTool \/ (a # NoAgent /\ plan[s + 1].tool \in AllowedActions[a])

\* Requirement 13.4, "an immutable execution log entry for every step": however a request
\* ends, the steps that reached a sub-agent are in the log.
EveryCallIsLogged ==
  node \in Final =>
    \A s \in DOMAIN calls : calls[s] # <<>> => \E e \in Range(logs) : e.step = s
=============================================================================
