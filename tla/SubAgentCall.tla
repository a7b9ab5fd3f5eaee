---------------------------- MODULE SubAgentCall ----------------------------
(***************************************************************************)
(* The calls of one plan step, with the threads OrchestratorGraph leaves   *)
(* out.  invoke_subagent hands each call to a fresh executor of one worker *)
(* and waits for its future at most Timeout; leaving the executor's block  *)
(* joins the worker.  The worker runs the agent in the process or holds a  *)
(* connection to the gateway, whose own timeout restarts whenever bytes    *)
(* arrive.  A rejected answer is retried.                                  *)
(***************************************************************************)
EXTENDS Integers, Sequences

CONSTANTS
  Timeout,      (* INVOCATION_TIMEOUT_SECONDS in ticks                     *)
  RetryLimit,   (* calls made for one step before it is given up           *)
  MaxElapsed    (* bound: the clock of one call stops here                 *)

ASSUME CallAssumption ==
  /\ Timeout \in Nat \ {0} /\ RetryLimit \in Nat \ {0} /\ MaxElapsed \in Nat

VARIABLES
  transport,    (* "inprocess" or "gateway", fixed by the environment      *)
  caller,       (* where the node's thread is                              *)
  held,         (* what the node will return once the block is left        *)
  records,      (* the agent_result of each call of this step              *)
  worker,       (* per call: the future of its worker thread               *)
  endedAt,      (* history: when the worker of a call ended                *)
  agent,        (* per call: what the agent itself does                    *)
  elapsed,      (* ticks since the call under way was submitted            *)
  quiet         (* ticks since its connection last made progress           *)

callVars == <<transport, caller, held, records, worker, endedAt, agent, elapsed, quiet>>

Calls == 1..RetryLimit
Call == Len(records) + 1
Answers == {"good", "low"}
Ended == Answers \cup {"raised", "timeout"}
InBlock == caller \in {"waiting", "joining"}

Init ==
  /\ transport \in {"inprocess", "gateway"}
  /\ caller = "ready" /\ held = "nothing" /\ records = <<>>
  /\ worker = [c \in Calls |-> "none"]
  /\ endedAt = [c \in Calls |-> 0]
  /\ agent = [c \in Calls |-> "none"]
  /\ elapsed = 0 /\ quiet = 0

----------------------------------------------------------------------------
(* The node's thread *)

Submit ==
  /\ caller = "ready" /\ caller' = "waiting"
  /\ worker' = [worker EXCEPT ![Call] = "running"]
  /\ agent' = [agent EXCEPT ![Call] = "executing"]
  /\ elapsed' = 0 /\ quiet' = 0
  /\ UNCHANGED <<transport, held, records, endedAt>>

Done_Anyhow == worker[Call] # "none"
Done == worker[Call] \in Ended

(***************************************************************************)
(* future.result looks at the future after every wait, so an answer that   *)
(* is there wins over a timeout that is due.  A TimeoutError the worker    *)
(* raised itself is caught by the same handler.                            *)
(***************************************************************************)
FutureDone ==
  /\ caller = "waiting" /\ caller' = "joining"
  /\ Done
  /\ held' = worker[Call]
  /\ UNCHANGED <<transport, records, worker, endedAt, agent, elapsed, quiet>>

Expired_Never == FALSE
Expired == elapsed >= Timeout

StillPending_Unchecked == TRUE
StillPending == worker[Call] = "running"

FutureTimesOut ==
  /\ caller = "waiting" /\ caller' = "joining"
  /\ Expired /\ StillPending
  /\ held' = "timeout"
  /\ UNCHANGED <<transport, records, worker, endedAt, agent, elapsed, quiet>>

Joined_NoWait == TRUE
Joined_AnsweredOnly == worker[Call] \in Answers
Joined == worker[Call] \in Ended

Recorded_LateToo == records \o <<held, worker[Call]>>
Recorded == Append(records, held)

LeaveBlock ==
  /\ caller = "joining" /\ Joined
  /\ IF held = "raised"
       THEN caller' = "failed" /\ UNCHANGED records
       ELSE caller' = "judging" /\ records' = Recorded
  /\ held' = "nothing"
  /\ UNCHANGED <<transport, worker, endedAt, agent, elapsed, quiet>>

(***************************************************************************)
(* validate_step_post and its route, as far as they concern the calls of   *)
(* this step.                                                              *)
(***************************************************************************)
MayRetry == Len(records) < RetryLimit

Judge ==
  /\ caller = "judging"
  /\ caller' = CASE records[Len(records)] = "good" -> "passed"
                 [] records[Len(records)] # "good" /\ MayRetry -> "ready"
                 [] OTHER -> "givenup"
  /\ UNCHANGED <<transport, held, records, worker, endedAt, agent, elapsed, quiet>>

----------------------------------------------------------------------------
(* The agent, the worker thread and time *)

AgentFinishes(c) ==
  /\ agent[c] = "executing"
  /\ agent' = [agent EXCEPT ![c] = "finished"]
  /\ UNCHANGED <<transport, caller, held, records, worker, endedAt, elapsed, quiet>>

WorkerEnds(c) ==
  /\ worker[c] = "running"
  /\ \E result \in Ended :
       /\ result \in Answers => agent[c] = "finished"
       /\ result = "timeout" =>
            IF transport = "gateway" THEN quiet >= Timeout ELSE agent[c] = "finished"
       /\ result = "raised" => transport = "gateway" \/ agent[c] = "finished"
       /\ worker' = [worker EXCEPT ![c] = result]
  /\ endedAt' = [endedAt EXCEPT ![c] = elapsed]
  /\ UNCHANGED <<transport, caller, held, records, agent, elapsed, quiet>>

ResponseProgress ==
  /\ transport = "gateway" /\ InBlock /\ worker[Call] = "running" /\ quiet > 0
  /\ quiet' = 0
  /\ UNCHANGED <<transport, caller, held, records, worker, endedAt, agent, elapsed>>

\* Timers are punctual: time does not pass a timer that is due.
Tick ==
  /\ InBlock /\ elapsed < MaxElapsed
  /\ ~(caller = "waiting" /\ Expired /\ StillPending)
  /\ ~(transport = "gateway" /\ worker[Call] = "running" /\ quiet >= Timeout)
  /\ elapsed' = elapsed + 1
  /\ quiet' = IF transport = "gateway" THEN quiet + 1 ELSE quiet
  /\ UNCHANGED <<transport, caller, held, records, worker, endedAt, agent>>

CallerStep == Submit \/ FutureDone \/ FutureTimesOut \/ LeaveBlock \/ Judge

Next ==
  \/ CallerStep
  \/ \E c \in Calls : AgentFinishes(c) \/ WorkerEnds(c)
  \/ ResponseProgress
  \/ Tick

Spec == Init /\ [][Next]_callVars

(***************************************************************************)
(* The node's thread and the clock go on, and a worker whose agent has     *)
(* finished ends.  That an agent finishes is not assumed.                  *)
(***************************************************************************)
FairSpec ==
  /\ Spec
  /\ WF_callVars(CallerStep) /\ WF_callVars(Tick)
  /\ \A c \in Calls : WF_callVars(WorkerEnds(c) /\ agent[c] = "finished")

----------------------------------------------------------------------------
(* Properties *)

TypeOK ==
  /\ transport \in {"inprocess", "gateway"}
  /\ caller \in {"ready", "waiting", "joining", "judging", "passed", "givenup", "failed"}
  /\ held \in Ended \cup {"nothing"}
  /\ records \in Seq(Answers \cup {"timeout"}) /\ Len(records) <= RetryLimit
  /\ worker \in [Calls -> Ended \cup {"none", "running"}]
  /\ endedAt \in [Calls -> Nat]
  /\ agent \in [Calls -> {"none", "executing", "finished"}]
  /\ elapsed \in Nat /\ quiet \in Nat

\* No thread outlives its call: the node goes on, and retries, only when the worker has
\* ended, and an agent in the process is then not executing either.  A timed-out attempt
\* and its retry never run together in the process.
AttemptsDoNotOverlap ==
  \A c \in Calls :
    \/ worker[c] = "running"
    \/ transport = "inprocess" /\ agent[c] = "executing"
    => c = Call /\ InBlock

\* A timeout is recorded over an answer only if the answer came after the time limit: an
\* answer in time is never lost, however late the node's thread gets to see it.
\* Any other record is what the worker of the same call brought.
RecordsAreFair ==
  \A c \in 1..Len(records) :
    \/ records[c] = worker[c]
    \/ records[c] = "timeout" /\ endedAt[c] >= Timeout

\* The node stops waiting for an answer even if the agent never finishes.
StopsWaiting == caller = "waiting" ~> caller # "waiting"

\* If agents always finish, the node always returns from its call, or fails.
ReturnsIfAgentsFinish ==
  (\A c \in Calls : agent[c] = "executing" ~> agent[c] = "finished")
    => (InBlock ~> ~InBlock)

\* The documents say a call over the limit is cancelled and that none runs
\* indefinitely; the node is still inside the call when the limit is long over.
EndsWithinTimeout == InBlock => elapsed <= Timeout

\* The calls of one step, threads and late answers included, are a plan of one step being
\* executed: each call that returns is one try, and a step passes only after a try.
Execution == INSTANCE PlanExecution
  WITH phase <- CASE caller = "ready" /\ records = <<>> -> "planning"
                  [] caller \in {"passed", "givenup"} -> "answering"
                  [] caller = "failed" -> "failed"
                  [] OTHER -> "running",
       passed <- IF caller = "passed" THEN 1 ELSE 0,
       tried <- IF caller = "passed" THEN 0 ELSE Len(records),
       hops <- Len(records),
       HopLimit <- RetryLimit

CallsExecutePlan == Execution!PlanSpec
=============================================================================
