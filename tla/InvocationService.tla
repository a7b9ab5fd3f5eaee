-------------------------- MODULE InvocationService --------------------------
(***************************************************************************)
(* The service around the graph: requests of chat sessions run side by     *)
(* side as coroutines whose nodes share the event loop's thread pool, one  *)
(* checkpoint memory per session, one execution log and the process's      *)
(* counters.  The chat page waits for an answer and gives up after a time; *)
(* the graph run goes on, and the user may ask again in the same session.  *)
(*                                                                         *)
(* A graph run is reduced to its nodes that call a sub-agent, one per plan *)
(* step, and the node that writes the log (see OrchestratorGraph for the   *)
(* rest of them).                                                          *)
(***************************************************************************)
EXTENDS Integers, FiniteSets, Sequences, SequencesExt

CONSTANTS
  Requests,     (* messages the users send, in the order Precedes          *)
  SessionOf,    (* the chat session of each                                *)
  Turn,         (* its place among the messages of the session             *)
  PoolSize,     (* threads of the event loop's default executor            *)
  Steps,        (* plan steps of a request                                 *)
  MaxNow        (* bound: the clock of log timestamps stops here           *)

ASSUME ServiceAssumption ==
  /\ IsFiniteSet(Requests)
  /\ PoolSize \in Nat \ {0} /\ Steps \in Nat \ {0} /\ MaxNow \in Nat
  /\ Turn \in [Requests -> Nat]

VARIABLES
  mock,         (* MOCK_STORAGE                                            *)
  shared,       (* AGENTCORE_MEMORY_STORE_ID is set                        *)
  ui,           (* what the chat page shows for a message                  *)
  run,          (* where the graph run of a request is                     *)
  queue,        (* nodes waiting for a thread of the pool                  *)
  results,      (* step_results: the request each recorded call was for    *)
  memory,       (* latest checkpoint of each session's thread_id           *)
  failed,       (* requests with a step given up after its retries         *)
  put,          (* history: log entries each request has put               *)
  log,          (* the execution-logs table: key to entry                  *)
  ties,         (* history: keys of the table that were put twice          *)
  now,          (* the clock the timestamps come from                      *)
  started, measured, stepFailures   (* REQUEST_COUNT, _DURATION, STEP_FAILURES *)

storage == <<put, log, ties>>
counters == <<started, measured, stepFailures>>
serviceVars == <<mock, shared, ui, run, queue, results, memory, failed, storage, now, counters>>

Sessions == {SessionOf[r] : r \in Requests}
OnThread == {r \in Requests : run[r] \in {"calling", "logging"}}
InProgress == {r \in Requests : run[r] \in {"started", "queued", "calling", "logging"}}

Init ==
  /\ mock \in BOOLEAN /\ shared \in BOOLEAN
  /\ ui = [r \in Requests |-> "unsent"]
  /\ run = [r \in Requests |-> "none"]
  /\ queue = <<>>
  /\ results = [r \in Requests |-> <<>>]
  /\ memory = [s \in Sessions |-> <<>>]
  /\ failed = {}
  /\ put = [r \in Requests |-> 0] /\ log = [k \in {} |-> <<>>] /\ ties = {}
  /\ now = 0 /\ started = 0 /\ measured = 0 /\ stepFailures = 0

----------------------------------------------------------------------------
(* The chat page *)

Send(r) ==
  /\ ui[r] = "unsent"
  /\ \A p \in Requests :
       SessionOf[p] = SessionOf[r] /\ Turn[p] < Turn[r] => ui[p] \in {"answer", "error"}
  /\ ui' = [ui EXCEPT ![r] = "waiting"]
  /\ UNCHANGED <<mock, shared, run, queue, results, memory, failed, storage, now, counters>>

(***************************************************************************)
(* A refused connection, the page's own timeout: any exception becomes an  *)
(* error message and ends the handler.                                     *)
(***************************************************************************)
GivesUp(r) ==
  /\ ui[r] = "waiting" /\ run[r] \notin {"answered", "raised"}
  /\ ui' = [ui EXCEPT ![r] = "error"]
  /\ UNCHANGED <<mock, shared, run, queue, results, memory, failed, storage, now, counters>>

StillShown_Always(r) == ui[r] # "unsent"
StillShown(r) == ui[r] = "waiting"

(***************************************************************************)
(* The answer of a run that raised is no JSON and is shown as an error; so *)
(* is one with an error record, its final_response dropped.                *)
(***************************************************************************)
Receive(r) ==
  /\ StillShown(r)
  /\ \/ run[r] = "answered" /\ \E shown \in {"answer", "error"} : ui' = [ui EXCEPT ![r] = shown]
     \/ run[r] = "raised" /\ ui' = [ui EXCEPT ![r] = "error"]
  /\ UNCHANGED <<mock, shared, run, queue, results, memory, failed, storage, now, counters>>

----------------------------------------------------------------------------
(* POST /invocations and the graph run *)

(***************************************************************************)
(* With a shared saver the run starts from the session's checkpoint, over  *)
(* which the input is written: every field of the state is in it.          *)
(***************************************************************************)
InitialResults_Inherited(r) == IF shared THEN memory[SessionOf[r]] ELSE <<>>
InitialResults(r) == <<>>

Invoke(r) ==
  /\ ui[r] = "waiting" /\ run[r] = "none"
  /\ started' = started + 1
  /\ run' = [run EXCEPT ![r] = "started"]
  /\ results' = [results EXCEPT ![r] = InitialResults(r)]
  /\ UNCHANGED <<mock, shared, ui, queue, memory, failed, storage, now, measured, stepFailures>>

QueueNode(r) ==
  /\ run[r] = "started"
  /\ run' = [run EXCEPT ![r] = "queued"]
  /\ queue' = Append(queue, r)
  /\ UNCHANGED <<mock, shared, ui, results, memory, failed, storage, now, counters>>

PlanDone_OffByOne(r) == Len(results[r]) > Steps \/ r \in failed
PlanDone_GoesOn(r) == Len(results[r]) >= Steps
PlanDone(r) == Len(results[r]) >= Steps \/ r \in failed

\* A failed pre-validation or a safety halt ends the plan early.
StartNode ==
  /\ queue # <<>> /\ Cardinality(OnThread) < PoolSize
  /\ \E stage \in {"calling", "logging"} :
       /\ PlanDone(Head(queue)) => stage = "logging"
       /\ run' = [run EXCEPT ![Head(queue)] = stage]
  /\ queue' = Tail(queue)
  /\ UNCHANGED <<mock, shared, ui, results, memory, failed, storage, now, counters>>

(***************************************************************************)
(* A call runs on a thread of an executor of its own, while the node keeps *)
(* its thread of the pool.  Every node ends with a checkpoint.             *)
(***************************************************************************)
CallHasThread_OfPool == Cardinality(OnThread) < PoolSize
CallHasThread == TRUE

CallReturns(r) ==
  /\ run[r] = "calling" /\ CallHasThread
  /\ results' = [results EXCEPT ![r] = Append(@, r)]
  /\ failed' \in {failed, failed \cup {r}}
  /\ memory' = IF shared THEN [memory EXCEPT ![SessionOf[r]] = results'[r]] ELSE memory
  /\ run' = [run EXCEPT ![r] = "started"]
  /\ UNCHANGED <<mock, shared, ui, queue, storage, now, counters>>

NodeRaises(r) ==
  /\ run[r] \in {"calling", "logging"}
  /\ run' = [run EXCEPT ![r] = "raised"]
  /\ UNCHANGED <<mock, shared, ui, queue, results, memory, failed, storage, now, counters>>

(***************************************************************************)
(* The table's key is the session and the time of writing; the mock keeps  *)
(* one item per first attribute, which is the session.                     *)
(***************************************************************************)
LogKey_NoSortKey(r) == <<SessionOf[r]>>
LogKey(r) == IF mock THEN <<SessionOf[r]>> ELSE <<SessionOf[r], now>>

PutEntry(r) ==
  /\ run[r] = "logging" /\ put[r] < Len(results[r])
  /\ put' = [put EXCEPT ![r] = @ + 1]
  /\ log' = [k \in DOMAIN log \cup {LogKey(r)} |->
               IF k = LogKey(r) THEN <<r, put[r] + 1>> ELSE log[k]]
  /\ ties' = IF \E k \in DOMAIN log : k = <<SessionOf[r], now>>
               THEN ties \cup {<<SessionOf[r], now>>} ELSE ties
  /\ UNCHANGED <<mock, shared, ui, run, queue, results, memory, failed, now, counters>>

Complete_BeforeLog(r) == TRUE
Complete(r) == put[r] = Len(results[r])

CountedFailures_Started(r) == IF r \in failed THEN stepFailures + started ELSE stepFailures
CountedFailures(r) == IF r \in failed THEN stepFailures + 1 ELSE stepFailures

Answer(r) ==
  /\ run[r] = "logging" /\ Complete(r)
  /\ run' = [run EXCEPT ![r] = "answered"]
  /\ measured' = measured + 1
  /\ stepFailures' = CountedFailures(r)
  /\ UNCHANGED <<mock, shared, ui, queue, results, memory, failed, storage, now, started>>

Tick ==
  /\ now < MaxNow /\ now' = now + 1
  /\ UNCHANGED <<mock, shared, ui, run, queue, results, memory, failed, storage, counters>>

RunStep(r) == QueueNode(r) \/ CallReturns(r) \/ PutEntry(r) \/ Answer(r)

Next ==
  \/ \E r \in Requests : \/ Send(r) \/ GivesUp(r) \/ Receive(r)
                      \/ Invoke(r) \/ RunStep(r) \/ NodeRaises(r)
  \/ StartNode
  \/ Tick

Spec == Init /\ [][Next]_serviceVars

\* The event loop and the pool go on, and a sub-agent call ends.
FairSpec ==
  /\ Spec
  /\ WF_serviceVars(StartNode)
  /\ \A r \in Requests : WF_serviceVars(RunStep(r))

----------------------------------------------------------------------------
(* Properties *)

\* The pool's queue holds the waiting nodes, each once.
TypeOK ==
  /\ mock \in BOOLEAN /\ shared \in BOOLEAN
  /\ ui \in [Requests -> {"unsent", "waiting", "answer", "error"}]
  /\ run \in [Requests -> {"none", "started", "queued", "calling", "logging",
                           "answered", "raised"}]
  /\ queue \in Seq(Requests) /\ IsInjective(queue)
  /\ ToSet(queue) = {r \in Requests : run[r] = "queued"}
  /\ results \in [Requests -> Seq(Requests)] /\ put \in [Requests -> Nat]
  /\ \A r \in Requests : Len(results[r]) <= Steps /\ put[r] <= Len(results[r])
  /\ failed \subseteq Requests
  /\ {now, started, measured, stepFailures} \subseteq Nat

\* A request works on its own results only, whatever its session's checkpoints hold and
\* however the nodes of two requests of one session interleave.
ResultsAreOwn == \A r \in Requests : ToSet(results[r]) \subseteq {r}

\* In the table every entry a request has put stays, unless two entries of the session
\* were written at the same time.
LogKeepsEntries ==
  ~mock /\ ties = {} =>
    \A r \in Requests : \A i \in 1..put[r] : \E k \in DOMAIN log : log[k] = <<r, i>>

\* A request that was counted is in progress, has been measured, or has raised; the
\* failures counted are those of measured requests, not of the ones that raised.
MetricsAddUp ==
  LET raised == {r \in Requests : run[r] = "raised"}
      answered == {r \in Requests : run[r] = "answered"}
  IN  /\ started = measured + Cardinality(raised) + Cardinality(InProgress)
      /\ stepFailures = Cardinality(failed \cap answered)

\* An answer is shown only when the log entries of all its steps have been written.
ShownAnswersAreComplete ==
  \A r \in Requests : ui[r] = "answer" =>
    run[r] = "answered" /\ put[r] = Len(results[r])

\* What the page has shown for a message stays: the answer of a run it gave up on is
\* dropped.
LateAnswersAreDropped ==
  [][\A r \in Requests : ui[r] \in {"answer", "error"} => ui'[r] = ui[r]]_serviceVars

StageOf(r) == IF run[r] \in {"logging", "answered", "raised"} THEN run[r] ELSE "running"

Run(r) == INSTANCE GraphRun
  WITH stage <- StageOf(r), recorded <- Len(results[r]), gaveUp <- r \in failed,
       entries <- put[r], MaxRecords <- Steps

\* A request among others is a run of the graph: what shares its session, its pool or its
\* log can neither add to its records, nor make it go on after a failed step, nor answer it
\* before its own log is written.
RequestsAreGraphRuns ==
  /\ \A r \in Requests : Run(r)!RunInit
  /\ [][\A r \in Requests : [Run(r)!RunNext]_(Run(r)!runVars)]_serviceVars

\* Every request the service took in ends, with fewer threads than requests and a
\* thread held during every call.
EveryRequestEnds ==
  \A r \in Requests : run[r] = "started" ~> run[r] \in {"answered", "raised"}
=============================================================================
