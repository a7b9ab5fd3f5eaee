# ACE agent: TLA+ models and proofs

This directory specifies the control logic of the ACE cloud-engineering agent
(`src/` of the repository): the LangGraph state machine that plans a request,
sends plan steps to sub-agents, judges their answers and replies; the threads
of a sub-agent call; the service and the chat page around the graph; the
storage helpers with their mock; and the scripts that deploy the stacks. TLC
checks the models on small instances; TLAPS proves the safety properties for
every value of the constants.

All source paths below are relative to the repository; `graph.py`, `main.py`
and `nodes/` stand for `src/orchestrator/graph.py` and so on.

## 1. Inventory

| Component | State it keeps | Operations | Talks to | What is hard, and what makes it correct |
|---|---|---|---|---|
| Orchestration graph (`graph.py`, `nodes/*.py`) | `OrchestratorState`: plan, `current_step_index`, `hop_count`, `visited_steps`, `step_results`, `error`, `final_response`, ... | twelve nodes and five routing functions | language model, registry, sub-agents, guardrail, log tables | retries, safety halts, failed checks and exceptions in any combination; results must belong to the right step, limits must hold, the log and the notices must be true, every request must end |
| Sub-agent call (`nodes/invoke_subagent.py`, `agents/`) | one worker thread and its future per call | submit, wait 120 s, join | sub-agent in the process or over HTTP | a late answer after the timeout, a join that waits past it, a retry that overlaps an unfinished call |
| Invocation service (`main.py`), checkpoint memory (`memory.py`) | process-wide counters, the default thread pool, checkpoints per session | `POST /invocations`, `/ping`, `/metrics` | graph, UI | concurrent requests of one session, a full pool, metrics after an exception |
| Chat UI (`ui/app.py`, `ui/handlers.py`) | session id, message | send, wait 300 s, show | invocation service | an answer that comes after the page gave up, a second message while the first still runs |
| Storage helpers (`storage/dynamodb.py`) | tables, or the in-process mock store | `get_item`, `put_item`, `query`, `update_item` | DynamoDB | mock against table semantics, composite keys |
| Prompt templates (`prompts.py`) | process-wide `lru_cache` | load, validate | registry table, YAML files | a stale cache, three sources |
| Guardrails (`guardrails/bedrock.py`, `nodes/scan_output_guardrails.py`) | `guardrail-violations` items | scan, `log_violation` | Bedrock, storage | two ways to be blocked, and the failure of the violation record itself |
| Knowledge retrieval (`rag/`, `nodes/retrieve_knowledge.py`) | documents in the context window | retrieve, filter, cite, measure | knowledge base, reranker | failure leaves the context untouched |
| Deployment scripts (`cloudformation/scripts`, `Makefile`) | none of their own: the stacks' statuses in CloudFormation | deploy, update an agent, destroy, detect drift | CloudFormation | failure or interruption between two stacks, lookups that fail, exit codes that are masked |
| Rendering, authentication, observability, evaluation stubs, templates, dashboards | none that the program acts on | | | not modelled: formatting, wiring or declarative files |

`PROJECT.json` lists the hazards, each at the line where it bites, with the
properties that cover it or the reason why none does.

## 2. Plan and where it stands

1. **`OrchestratorGraph`**, the request from `classify_request` to `END`, with
   **`PlanExecution`** as the abstract specification it implements
   (**`OrchestratorRefinement`**), and the proofs. *Done.*
   **`GraphRun`**, the part of a run that the service model relies on, is
   implemented by the graph and by every request of the service. *Done.*
2. **`SubAgentCall`**: node thread, worker thread, future, timeout and executor
   join. It implements `PlanExecution` for a plan of one step, so both views of
   a call promise the same thing. *Done, with proofs.*
3. **`InvocationService`**: several requests and sessions, the thread pool,
   counters, checkpoints, the execution log and the chat page. *Done, with
   proofs.*
4. **`StorageTables`** and **`PromptTemplates`**: mock and deployed tables on
   the same calls, and the cached loader that reads from either. *Done, with
   proofs.*
5. **`StackDeployment`**: deploy, destroy and drift detection with a failure or
   an interruption at any point. *Done, with proofs.*

Possible next: the page limit of `query`, and a model of the UI's callback
handler should `app.py` come to register it.

## 3. Modules

| Module | Contents |
|---|---|
| `OrchestratorGraph` | the state graph: one action per node, properties at the end |
| `PlanExecution` | abstract: steps are tried in order within two limits, until the run is answered or fails |
| `GraphRun` | abstract: a run records its steps, may give one up, then logs them all and is answered |
| `OrchestratorRefinement` | the two refinement mappings of the graph, `ExecutesPlan`, `IsGraphRun`, and what carries over from `PaidFor` |
| `SubAgentCall` | the calls of one plan step with their threads and timers; its own refinement of `PlanExecution` |
| `InvocationService` | requests of chat sessions side by side, each reduced to its calling and logging nodes |
| `StorageTables` | the storage helpers over the mock store and the deployed tables at once |
| `PromptTemplates` | extends `StorageTables` with the loader and its cache |
| `StackDeployment` | deployment scripts and CloudFormation |
| `MC...` | constants for TLC (`SubAgentCall` needs only numbers and has none) |
| `..._proofs` | inductive invariants and theorems of the module |

### How `OrchestratorGraph` corresponds to the code

LangGraph runs one node per superstep and commits its returned state before the
route is computed, so a node is one action and a routing function an operator of
the values *after* the node. `node` is the node that runs next; `Superstep(from, to)`
is the edge. The final values are `"END"` and `"raised"`, the latter for an
exception no node catches: `graph.ainvoke` raises and the handler answers 500.

| Variable | Code |
|---|---|
| `clarifying`, `missing` | `clarifying_question` is set, `missing_inputs` is not empty |
| `kbDocs` | `context_window` holds knowledge-base documents |
| `plan`, `idx`, `hop`, `visited`, `results` | `execution_plan`, `current_step_index`, `hop_count`, `visited_steps`, `step_results` |
| `error` | `error["type"]` |
| `response` | `final_response`: how it came about (`draft`, `clean`, `blocked`, `empty`) and which notices it carries |
| `logs`, `violations` | the request's items in `execution-logs`, and how many in `guardrail-violations` |
| `healthy` | the agents of `subagent-registry` that are ACTIVE and HEALTHY |
| `calls`, `supersteps` | history only: agents called per step, nodes run |

A record of `results` has the step index, `preOk` (not `pre_validation_failed`),
the kind of `agent_result` (`reply`), `retry_count` and `post_validation_passed`.

* *Language model*: any classification score, any plan of up to `MaxPlan` steps
  from `PlanSteps`, any answer; a failure of classification or planning is the
  score 0 and the empty plan, as the `except` branches have it.
* *Sub-agents*: a reply of one of the kinds in `ReplyKinds`, the executor's
  timeout record among them, or an exception before or after the agent ran.
* *Registry*: `RegistryChange` flips an agent between any two nodes; the code
  queries the table twice per step, in two nodes.
* *Tables*: a put may raise; `WriteExecutionLog` then leaves a prefix of the
  entries.

The code's strings (questions, texts, citations, redaction) are left out; the
log entry keeps step and verdict. `token_budget_used` is the constant 0, because
no node assigns it. `pending_approval` is FALSE after `present_plan`, so the edge
back to `generate_plan` is never taken. The average confidence that
`aggregate_results` forms is compared in tenths.

Two abstractions a reader should know. A sub-agent call is one step, whatever
its duration (`SubAgentCall` opens it up). LangGraph's own recursion limit is taken to be out
of reach: `main.py:135` sets none, the locked LangGraph version has a default far
above `SuperstepBound`, but `pyproject.toml` admits older versions whose default,
25, is below the 44 nodes a request may need with the code's limits.

### How `SubAgentCall` corresponds to the code

| Variable | Code |
|---|---|
| `transport` | the branch of `nodes/invoke_subagent.py:132`: mock agent in the process, or gateway |
| `caller`, `held` | where the node's thread is: before the call, in `future.result`, in the exit of the `with` block (which joins), in `validate_step_post`; and what it will return |
| `records` | the `agent_result` of each call of this step |
| `worker`, `endedAt` | the executor's thread and its future, per call, and when it ended (history) |
| `agent` | what the sub-agent itself does, per call; behind the gateway it may go on after the connection is gone |
| `elapsed`, `quiet` | the clock of the current call, and of its connection since the last byte |

`FutureDone` and `FutureTimesOut` are the two ways out of `future.result`: the
future is looked at after each wait, so an answer that is there wins. `LeaveBlock`
is the executor's `shutdown(wait=True)`. `Judge` is the part of
`validate_step_post` and its route that decides on another call. Time is
discrete and punctual: it does not pass a timer that is due.

### How `InvocationService` corresponds to the code

A request is the life of one message: `Send`, `GivesUp`, `Receive` are `app.py`;
`Invoke` to `Answer` are `main.py`. LangGraph runs the synchronous nodes of the
coroutine graph on the event loop's default executor, so a node waits for a
thread of that pool (`QueueNode`, `StartNode`) and keeps it while the call runs
on a thread of its own executor (`CallReturns`). `results` stands for
`step_results` with the request each record belongs to; `memory` for the
session's checkpoint, shared when `AGENTCORE_MEMORY_STORE_ID` is set and
private to the request otherwise. `PutEntry` is one turn of the loop of
`write_execution_log`, under the key of the table (`requestId`, which is the
session id, and the timestamp) or of the mock (`requestId`).
`started`, `measured` and `stepFailures` are the Prometheus counters; `failed`,
`put` and `ties` are history.

What `OrchestratorGraph` says about one request is not repeated: here a run is
its calls and its log, with an exception in any node. `GraphRun` is what the two
models of a run have in common (how many steps are recorded, whether one was
given up, how much of the log is written), and both implement it: `IsGraphRun`
in `OrchestratorRefinement` reads it off the nodes, `RequestsAreGraphRuns` off
each request. A step is given up when `main.py:144` would count it, that is, at
two failed calls without a passed post-validation. The service plans at least
one step per request; the graph records one even for an empty plan, whose
missing step fails its pre-validation.

### How `StorageTables` and `PromptTemplates` correspond to the code

`mock` is `_MOCK_STORE`, `table` the deployed tables with the key schemas of
`cloudformation/stacks/foundation/data.yaml`. Every write goes to both, so that
their answers can be compared. `UpdateItem` covers the helper's contract; no
caller in the repository uses it at this commit, and the instance updates only
the registry, whose key is one attribute. `PromptTemplates` adds `cache`, the
`lru_cache` of the loader, `source`, where the process reads from, and `served`
(history). A load that raises is not cached.

Items are values. The mock hands out its own dictionaries, so a caller that
changed one would change the store; none does.

### How `StackDeployment` corresponds to the code

`stack` is the StackStatus of each stack, changed by CloudFormation (`Settle`)
and by the requests of the script that runs: `script`, with the stacks it has
yet to handle in `todo` and its place within the first of them in `phase`.
`prod` selects `deploy-changeset` or `deploy-direct` (`Makefile:124`).
`unchecked` and `drifted` are history: the stacks a script skipped or warned
about, and those that really differ. CREATE_COMPLETE and UPDATE_COMPLETE are one
status, as no script tells them apart; so are the ROLLBACK statuses that the
same `grep` finds, and REVIEW_IN_PROGRESS is left out (no script creates a
stack by change set). *CloudFormation is external*: it refuses to delete a
stack whose exports are in use, fails a stack whose imports are not there, and
may fail any call or operation. Any call of a script may also fail for reasons
of its own: a missing parameters file, a timeout, a lost connection.

## 4. Runs

| Run | Shows |
|---|---|
| `orchestrator` | all safety invariants, action properties, the two refinements and termination of a request |
| `sub_agent_call` | the calls of one step: no overlap, fair records, the wait ends, refinement of `PlanExecution` |
| `service` | two messages of one session on one pool thread, and that each is a run of `GraphRun` |
| `storage` | mock and tables under any puts and updates, with the cached loader |
| `deployment` | deployments, teardowns and drift checks in any order, failing and interrupted anywhere |
| `last_step`, `cycle_detection`, `retries`, `permission`, `lost_audit`, `call_timeout`, `deploy_keeps_stacks` | one documented property each that the code does not have (section 5) |

**Bounds.**

* `orchestrator`: plans of 0 to 3 steps drawn from three (two with the same
  inputs, one with a required input missing), two agents of one category with
  different permissions and different overlap, `HopLimit` 3 and `RetryLimit` 2.
  Three hops with two tries per step make every order of passing, retrying and
  being halted happen within a plan (the code's 10 only lengthens it); three
  steps are the fewest for which the second is neither first nor last. Replies
  are `good`, `low`, `empty` and `badscore`: one that is accepted, one rejected
  but live data, one rejected without data, one that makes the node raise. The
  other kinds differ only in the average. Scores are 0 (a failed call) and 7,
  the threshold itself. `supersteps` saturates just above the bound that is
  claimed, so that an endless request is a cycle of the state graph, which is
  what `Terminates` looks for.
* `sub_agent_call`: `Timeout` 2 and `MaxElapsed` 5 ticks give an answer before,
  at and after the limit and one that comes more than a whole timeout late; two
  calls are the first and the retry.
* `service`: two messages of one session, the second sent while the first runs
  or after it, `PoolSize` 1 (fewer threads than requests), two plan steps
  (so that nodes of the two runs interleave), `MaxNow` 2 (equal and different
  timestamps).
* `storage`: three tables, one keyed by the mock's attribute, one by it and a
  sort key, one by other attributes; two keys and two versions of each item, so
  that every put can be new, an overwrite, or a collision in the mock only.
* `deployment`: one foundation stack, two platform stacks and two agents, with
  the imports of the repository among them: a foundation stack that imports from
  the platform, an agent that is not the last, and a platform stack
  (`observability`) that only the teardown and the drift check list.

No bound is on the proofs.

`CHECK_DEADLOCK FALSE` is in the runs of a request, a call and the service: they
end. In the others something can always be done.

**Fairness.**

* `OrchestratorGraph!FairSpec`: weak fairness of the graph's own steps, none of
  the registry. LangGraph runs the next node as soon as the last returned; the
  assumption is that every call a node makes returns or raises. Boto3 and the
  HTTP client have timeouts; the sub-agent call is `SubAgentCall`'s subject.
* `SubAgentCall!FairSpec`: the node's thread, the clock, and the worker of an
  agent that has finished. That an agent finishes is *not* assumed:
  `StopsWaiting` holds without it, and `ReturnsIfAgentsFinish` states it as a
  premise, because the join has no timeout.
* `InvocationService!FairSpec`: the pool starts the node at the head of its
  queue, and each run's own steps go on (calls return, puts are made). Nothing
  is assumed of the user, the page or the clock.

**The properties**, and the mistake each would catch:

* `ResultsFollowPlan`: records and steps get out of line (`step_results[-1]` is
  written by two nodes).
* `HopsWithinLimit`, `CallsWithinRetries`, `SuperstepsBounded`, `Terminates`: a
  path around one of the limits, or a rejection that is not counted.
* `GivenUpAfterAllTries`: a step that ends a request after fewer calls than the
  retry limit allows, without a safety error to explain it.
* `HaltsAreTrue`: a safety error that reports what did not happen. A cycle can
  only be seen after a call that found no agent (section 5), and the hop count
  it is blamed on must be used up by calls that came back.
* `CallsWerePreValidated`: a call for a step whose own check failed or is missing.
* `AuditTrail`: an answered request without a log entry for a step it called.
* `NoticesHonest`: an answer without live data, or with an error, that does not
  say so; and the converse.
* `DeliveredWasScanned`: a text that bypasses the guardrail, or is blocked
  without a record.
* `PassedResultsFrozen`, `HaltIsFinal`: a later node, a retry or a safety halt
  that undoes what was decided. A halt routes to `validate_step_post`, which
  judges the *old* answer again and sends the run back; that no call follows
  is not visible in any single node.
* `ExecutesPlan`, `CallsPaidFor`: all of it together, as an implementation of
  `PlanExecution`, and what the abstract limits then say of the graph.
* `IsGraphRun`, `RequestsAreGraphRuns`: a step that is started after one was
  given up, a record made or changed while the log is written, an answer before
  the whole log; in the service, because of what another request of the session
  does.
* `AttemptsDoNotOverlap`: a retry while the timed-out attempt's thread still
  runs, which is what an executor without the join would do. Behind the gateway
  only the thread is bounded: the remote agent may go on, and the property says
  so.
* `RecordsAreFair`: an answer in time recorded as a timeout, or recorded for the
  wrong call.
* `StopsWaiting`, `ReturnsIfAgentsFinish`: a poll that misses its timer, a join
  that misses the worker's end.
* `CallsExecutePlan`: a call counted twice or not at all.
* `ResultsAreOwn`: a request of a session that starts on the results of the one
  before (every field of the state is in `main.py`'s input; one left out is read
  from the shared checkpoint).
* `LogKeepsEntries`: entries of concurrent or successive requests of a session
  overwriting each other; the property says when they do.
* `MetricsAddUp`: a counter that is bumped at the wrong place. A run that raised
  is counted as started and nowhere else, and its failed steps are not counted.
* `ShownAnswersAreComplete`, `LateAnswersAreDropped`: an answer shown before the
  log is written, or over the error message of a page that gave up.
* `EveryRequestEnds`: nodes that hold the pool's threads while they wait for
  another thread of the same pool.
* `MockAnswersAsTable`, `MockOnlyForgets`, `RegistryQueryAgrees`: a test against
  the mock that passes or fails for a reason the table does not have.
* `TemplatesAreStable`: two callers of one process with different templates.
* `DirectDeployIsHonest`, `DestroyedMeansGone`, `DriftVerdictHolds`: a script
  whose last line is not true, after any history of runs. `DestroyedMeansGone`
  is not obvious: the agents in a status that is not listed are left standing,
  but each of them keeps its imports alive, and with them the script stops.

## 5. Where code and documentation disagree

Each is shown by a run whose only property is the documented statement, and
described with its lines in `PROJECT.json`.

1. *The last step of a plan is never executed* (`last_step`). The index is
   advanced before the route compares it with the last index.
2. *The cycle check never matches* while an agent is found (`cycle_detection`):
   the plan's `agent_id` is always None.
3. *One retry, not two* (`retries`): the counter counts failures.
4. *The agent called may lack the permission* that was checked (`permission`).
5. *A request that fails late leaves no log of the calls it made* (`lost_audit`).
6. *A call is not cancelled after 120 s* (`call_timeout`): leaving the executor's
   block waits for the worker, and the socket timeout restarts with every byte.
7. *A production deployment deletes a stack whose update was rolled back*
   (`deploy_keeps_stacks`): `grep ROLLBACK_COMPLETE` finds
   UPDATE_ROLLBACK_COMPLETE.

Seen while modelling, without a run:

* Orchestrator. Missing inputs and open questions do not stop execution
  (`design.md:564` and the README's edges say they do; `graph.py:96-98` calls it
  intended for this release). The token budget is never charged, so its limit
  cannot be reached (requirement 4.10, `README.md:178`); the diagnostic of
  `aggregate_results` says "Knowledge retrieval failed" for the safety errors
  too; the log's `promptTemplateId` is always `unknown`; steps are not
  dispatched in parallel (`README.md:180`).
* Storage. The mock's key "mirrors PK behaviour" (`dynamodb.py:280`), but keeps
  one log entry per session where the table keeps one per entry. The nodes query
  the registry without an index name although `category` is not the table's key;
  the deployed table would refuse that. `prompts.py:85` asks for a key
  `templateId` that the deployed table does not have, so with neither mock the
  loader always fails. The helpers use bare table names, the stack prefixes them.
* Deployment. `drift-detect.sh:61-64` goes on with exit code 0 after a failed or
  unfinished detection, which line 8 of its header counts as exit code 1. In
  production every failure of a stack is masked by the `echo` that ends the
  chain, so "All tiers deployed successfully" may be false; elsewhere the loop
  over the agents masks all but the last. `identity.yaml:220` (foundation)
  imports an export of the platform's knowledge stack, so that the first direct
  deployment stops there, and a teardown stops at the knowledge stack.
  `_deploy-one-stack` passes no parameters file, and `deploy-agent`'s arguments
  keep a leading space, so that agent deployments fail; the models let every
  deployment succeed or fail.

## 6. Proofs

The theorems about the graph are about `Spec`, for any registry, any plan length and any limits,
under `LimitsAssumption` (the limits are naturals, `RetryLimit` is positive) and
`RegistryAssumption` (`NoAgent` is no agent, replies, scores and tools come from
their sets). Nothing is assumed of categories, permissions or overlap.

**The inductive invariant.** None of the properties is inductive alone: that a
call is within the retry limit depends on `retry_count` and the number of calls
moving together, which breaks for one step when a halt is rejected without a
call. `IInv` therefore describes the state node by node:

* `TypeOK`, and `Story`: the four history properties, and that a record with a
  reply has a call, and a passed one has an accepted reply;
* `PlanningInv`, up to `present_plan` nothing has happened;
* `BetweenStepsInv`, at `validate_step_pre`: all earlier steps passed, no step
  from `idx` on has been called, and the nodes so far are at most six plus one
  per step and two per call;
* `DuringStepInv` and `InvokeInv`: the last record is that of `idx`, it was
  pre-validated, and no more calls were made than failures counted; if a safety limit
  has halted the run, the limit still stands and the old reply is
  still unacceptable;
* `PostInv`: what `invoke_subagent` leaves for `validate_step_post`;
* `AnswerInv` and `OutcomeInv`: the counts, notices and log from
  `aggregate_results` on.

Each action has a lemma `IInv /\ A => IInv'`. The bound on supersteps needs the
hop count as a potential: each call costs two nodes, each step one.

**Refinement.** `ExecutesPlanThm` maps every action to a step of `PlanExecution`
or a stutter, using `IInv`: `AcceptStep` is `Pass`, `InvokeAgent` is `Try`, a
failed pre-check and exhausted retries are `Stop`, an exception in a call is the
`Fail` that leaves one more attempt. `PaidForThm` is proved of the abstract
execution by its own invariant, and `CallsPaidForThm` brings it back to the
graph. `IsGraphRunThm` does the same for `GraphRun`; it needs that nothing but
the last record can be a step given up, and that the log is empty until the last
node (`LogComesLast`). On the service's side `EachRequestIsGraphRun` holds of
every request by itself, whatever the others do, so what `GraphRun` promises is
what the service model may assume of the graph and no more.

**On top of `IInv`.** Three more invariants are inductive only relative to it,
and each has its own proof over all actions, from lemmas (`PreEffect`,
`CallEffect`, `PostEffect`, ...) that say once what a node does to the last
record and to `calls`:

* `TriesInv`: while no safety limit has halted the run, the failures counted in
  the last record are exactly the calls made for its step.
  `GivenUpAfterAllTriesThm` follows: without a safety error the run gives up at
  the limit, not before.
* `HaltsInv`: every pair in `visited` is of an agent that was called, and a
  safety error was true when it was set and stays so. Hence `HaltsAreTrueThm`.
* `LastStepInv`: while steps are executed the index is 0 or below the last one.
  `LastStepNeverCalledThm` turns the finding of `last_step` into a theorem: in
  *no* run of *any* plan of two or more steps is the last one sent to a
  sub-agent.

`NodesSpendSuperstepsThm` is the safety half of `Terminates`: every step of a
request but a registry change spends one of the `SuperstepBound` supersteps, so
only standing still could keep a request from its end. `token_budget_exceeded`
occurs in no behaviour, since nothing spends the budget.

**`SubAgentCall`** (`CallAssumption`: both limits positive). The invariant ties
the three clocks together: at most the current call's worker runs, only while
the node is in the block, and an in-process agent only under a running worker
(`Threads`); what the node holds while it joins is the worker's own result, or a
timeout that was due before the worker ended (`HeldIsFair`). Without the latter
`RecordsAreFair` is not inductive: the record is made one step after the choice.
`CallsExecutePlanThm` follows from the position of the node alone.

**`InvocationService`** (`ServiceAssumption`: finitely many requests, positive
pool and plan size). `Inv` adds to the types that the pool's queue is exactly
the set of queued runs without repetition (a node started from the queue is
queued and not queued again), and what a run has recorded and put in each of its
stages. `MetricsAddUpThm` then follows by counting: each action moves at most
one request between the three sets. Sessions, turns and timestamps are
arbitrary.

**`StorageTables`, `PromptTemplates`** (`TablesAssumption`: items have their key
attributes, a fixture has one item per first attribute, as the YAML fixtures of
the repository do, and updates leave keys alone). `TablesInv` has three parts.
`Same`: where the key is one attribute the two backends are key by key in the
same state; `MockAnswersAsTableThm` follows because a key of one attribute is
determined by its value. `Contents`: every item of a table is under its
own key, and where nothing is updated both backends hold only items that may be
written. `Backed`: where the key fixes the mock's attribute, each item of the
mock is in the table, under the key of an item with that attribute.
`MockOnlyForgets` alone is not inductive: a put that replaces an item of the
table must be known to replace the mock's copy of it too, which follows from the
key under which `Backed` says the copy is.

The loader never writes, so these theorems hold of its specification too, and
whatever it has served is what is in its cache (`ServedFromCache`).
`LoaderAssumption` names the table of prompts, which nobody updates, and the
registry with its one-attribute key, and takes the values of the registry's
other attributes to be no categories: that is the hazard of the mock's `query`,
stated as the condition under which `RegistryQueryAgreesThm` holds. Its invariant
(`AgentsUndisguised`) is that condition for what is stored, which updates
piece together from items and patches.

**`StackDeployment`** (`StacksAssumption`: the lists hold stacks, the deployment
order has no repetition, the teardown lists cover foundation and platform, and
every agent imports from one of those). A deployment is a walk through
`All`, its position given by the length of `todo`, and behind it everything is
up or an agent before the last (`HonestInv`; a later stack's failure cannot undo
an earlier one, because only `Settle` changes a stack and only the current
stack is in progress or was left so by an earlier run). For the teardown, `ImportsHeld`
says that a running stack's imports exist, and `GoneInv` that a stack behind
the script is gone; together they exclude a running agent. `DriftInv` says that a
drifted stack is found, unchecked or still to come.

**Model-checked only.** The liveness properties (`Terminates`, `StopsWaiting`,
`ReturnsIfAgentsFinish`, `EveryRequestEnds`), out of the prover's reach, and the
violation runs. Every other property of a passing run is a theorem.

## 7. Not modelled

* `ui/handlers.py`: a callback handler that opens and closes UI steps as
  unordered tasks; `app.py` never registers it, so nothing runs it.
* `storage/s3.py`: imported by nothing.
* The contents of retrieval (scores, citations, precision and recall) and of a
  violation record: arithmetic and formatting on one response.
* Pages of a query, the 128 places of the template cache, `validate_rendered_prompt`.
* The `preview` target and the linting of templates.
* Rendering, authentication, observability, the evaluation stubs, dashboards and
  the declarative parts of the templates: no behaviour to step through.

## Running

    tlc -workers 2 -config OrchestratorGraph.cfg MCOrchestratorGraph
    tlc -workers 2 -config SubAgentCall.cfg SubAgentCall
    tlc -workers 2 -config InvocationService.cfg MCInvocationService
    tlc -workers 2 -config PromptTemplates.cfg MCPromptTemplates
    tlc -workers 2 -config StackDeployment.cfg MCStackDeployment
    tlapm OrchestratorGraph_proofs.tla
