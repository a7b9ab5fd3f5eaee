------------------------- MODULE SubAgentCall_proofs -------------------------
(***************************************************************************)
(* The calls of one plan step, for every timeout and retry limit.          *)
(***************************************************************************)
EXTENDS SubAgentCall, SequenceTheorems, TLAPS

\* Where the node's thread is bounds how many calls have returned.
Position ==
  /\ caller = "ready" \/ InBlock => Len(records) < RetryLimit
  /\ caller \in {"judging", "passed"} => Len(records) > 0

\* Only the call under way has a worker that runs, and only a running worker has an agent
\* that executes in the process.
Threads ==
  /\ \A c \in Calls : worker[c] = "running" => c = Call /\ InBlock
  /\ transport = "inprocess" =>
       \A c \in Calls : agent[c] = "executing" => worker[c] = "running"

\* What the node holds while it joins the worker is the worker's own result, or a timeout
\* that was due before the worker ended.
HeldIsFair ==
  caller = "joining" =>
    \/ held = worker[Call]
    \/ /\ held = "timeout" /\ elapsed >= Timeout
       /\ worker[Call] = "running" \/ endedAt[Call] >= Timeout

IInv == TypeOK /\ Position /\ Threads /\ HeldIsFair /\ RecordsAreFair

\* The invariant holds before the first call.
LEMMA InitInv == Init => IInv
<1> SUFFICES ASSUME Init PROVE IInv
  OBVIOUS
<1>1. Len(records) = 0 /\ records \in Seq(Answers \cup {"timeout"})
  BY DEF Init
<1> QED
  BY <1>1, CallAssumption
     DEF Init, IInv, TypeOK, Position, Threads, HeldIsFair, RecordsAreFair, InBlock, Calls,
         Call, Ended, Answers

\* A new call starts with a worker and a clock of its own.
LEMMA SubmitInv == IInv /\ Submit => IInv'
<1> SUFFICES ASSUME IInv, Submit PROVE IInv'
  OBVIOUS
<1>1. Call' = Call /\ Call \in Calls /\ Len(records) \in Nat
  BY CallAssumption DEF Submit, IInv, TypeOK, Position, Call, Calls
<1>2. TypeOK'
  BY <1>1 DEF Submit, IInv, TypeOK, Ended, Answers
<1>3. Position'
  BY DEF Submit, IInv, Position, InBlock
<1>4. Threads'
  BY <1>1 DEF Submit, IInv, TypeOK, Threads, InBlock
<1>5. HeldIsFair'
  BY DEF Submit, HeldIsFair
<1>6. RecordsAreFair'
  <2>1. ASSUME NEW c \in 1..Len(records)
        PROVE  worker'[c] = worker[c] /\ endedAt'[c] = endedAt[c]
    BY <1>1 DEF Submit, IInv, TypeOK, Call, Calls
  <2> QED
    BY <2>1 DEF Submit, IInv, RecordsAreFair
<1> QED
  BY <1>2, <1>3, <1>4, <1>5, <1>6 DEF IInv

\* What the caller takes into the join is fair: the result, or a timeout that was due.
LEMMA FutureInv == IInv /\ (FutureDone \/ FutureTimesOut) => IInv'
<1> SUFFICES ASSUME IInv, FutureDone \/ FutureTimesOut PROVE IInv'
  OBVIOUS
<1>1. /\ caller = "waiting" /\ caller' = "joining" /\ Call' = Call
      /\ UNCHANGED <<transport, records, worker, endedAt, agent, elapsed, quiet>>
  BY DEF FutureDone, FutureTimesOut, Call
<1>2. TypeOK'
  BY <1>1 DEF FutureDone, FutureTimesOut, Done, IInv, TypeOK, Ended, Calls
<1>3. Position' /\ Threads'
  BY <1>1 DEF IInv, Position, Threads, InBlock, Calls
<1>4. HeldIsFair'
  BY <1>1 DEF FutureDone, FutureTimesOut, Expired, StillPending, HeldIsFair
<1>5. RecordsAreFair'
  BY <1>1 DEF IInv, RecordsAreFair
<1> QED
  BY <1>2, <1>3, <1>4, <1>5 DEF IInv

\* Leaving the block adds at most the record of the call under way.
LEMMA LeaveAppends ==
  ASSUME IInv, LeaveBlock, caller' = "judging"
  PROVE  /\ Call \in Calls /\ held \in Answers \cup {"timeout"}
         /\ records' \in Seq(Answers \cup {"timeout"})
         /\ Len(records') = Len(records) + 1
         /\ \A c \in 1..Len(records) : records'[c] = records[c]
         /\ records'[Len(records) + 1] = held
<1>1. Call \in Calls
  BY CallAssumption DEF LeaveBlock, IInv, TypeOK, Position, InBlock, Call, Calls
<1>2. held \in Answers \cup {"timeout"}
  <2>1. held # "raised" /\ Joined
    BY DEF LeaveBlock
  <2>2. held = worker[Call] \/ held = "timeout"
    BY DEF LeaveBlock, IInv, HeldIsFair
  <2> QED
    BY <2>1, <2>2 DEF Joined, Ended
<1>3. records' = Append(records, held)
  BY DEF LeaveBlock, Recorded
<1> QED
  BY <1>1, <1>2, <1>3, AppendProperties DEF IInv, TypeOK

\* The join ends after the worker, and records what is held.
LEMMA LeaveInv == IInv /\ LeaveBlock => IInv'
<1> SUFFICES ASSUME IInv, LeaveBlock PROVE IInv'
  OBVIOUS
<1>1. /\ UNCHANGED <<transport, worker, endedAt, agent, elapsed, quiet>>
      /\ caller = "joining" /\ worker[Call] \in Ended /\ held' = "nothing"
      /\ caller' \in {"failed", "judging"} /\ Len(records) \in Nat
      /\ Len(records) < RetryLimit
  BY DEF LeaveBlock, Joined, IInv, TypeOK, Position, InBlock
<1>2. \A c \in Calls : worker[c] # "running"
  BY <1>1 DEF IInv, Threads, Ended, Answers
<1>3. CASE caller' = "failed"
  <2>1. records' = records
    BY <1>3 DEF LeaveBlock
  <2>2. TypeOK'
    BY <1>1, <1>3, <2>1 DEF IInv, TypeOK, Calls
  <2> QED
    BY <1>1, <1>2, <1>3, <2>1, <2>2
       DEF IInv, Position, Threads, HeldIsFair, RecordsAreFair, InBlock, Calls
<1>4. CASE caller' = "judging"
  <2>1. TypeOK'
    BY <1>1, <1>4, LeaveAppends, CallAssumption DEF IInv, TypeOK, Calls
  <2>2. Position' /\ Threads' /\ HeldIsFair'
    BY <1>1, <1>2, <1>4, LeaveAppends
       DEF IInv, Position, Threads, HeldIsFair, InBlock, Calls
  <2>3. RecordsAreFair'
    <3>1. \/ held = worker[Call]
          \/ held = "timeout" /\ endedAt[Call] >= Timeout
      BY <1>1, <1>4, <1>2, LeaveAppends DEF IInv, HeldIsFair
    <3> QED
      BY <1>1, <1>4, <3>1, LeaveAppends DEF IInv, RecordsAreFair, Call
  <2> QED
    BY <2>1, <2>2, <2>3 DEF IInv
<1> QED
  BY <1>1, <1>3, <1>4

\* Another call is made only with no worker left.
LEMMA JudgeInv == IInv /\ Judge => IInv'
<1> SUFFICES ASSUME IInv, Judge PROVE IInv'
  OBVIOUS
<1>1. /\ UNCHANGED <<transport, held, records, worker, endedAt, agent, elapsed, quiet>>
      /\ caller = "judging" /\ caller' \in {"passed", "ready", "givenup"}
      /\ caller' = "ready" => Len(records) < RetryLimit
  BY DEF Judge, MayRetry
<1> QED
  BY <1>1
     DEF IInv, TypeOK, Position, Threads, HeldIsFair, RecordsAreFair, InBlock, Calls, Call

\* The agent changes nothing the caller has seen.
LEMMA AgentInv ==
  ASSUME NEW c \in Calls, IInv, AgentFinishes(c) PROVE IInv'
<1>1. /\ UNCHANGED <<transport, caller, held, records, worker, endedAt, elapsed, quiet>>
      /\ agent' \in [Calls -> {"none", "executing", "finished"}]
      /\ \A d \in Calls : agent'[d] = "executing" => agent[d] = "executing"
  BY DEF AgentFinishes, IInv, TypeOK
<1> QED
  BY <1>1
     DEF IInv, TypeOK, Position, Threads, HeldIsFair, RecordsAreFair, InBlock, Calls, Call

\* A worker that ends notes the time; a timeout that is held was due by then.
LEMMA WorkerInv ==
  ASSUME NEW c \in Calls, IInv, WorkerEnds(c) PROVE IInv'
<1> DEFINE result == worker'[c]
<1>1. /\ UNCHANGED <<transport, caller, held, records, agent, elapsed, quiet>>
      /\ worker[c] = "running" /\ c = Call /\ InBlock /\ result \in Ended
      /\ worker' = [worker EXCEPT ![c] = result]
      /\ endedAt' = [endedAt EXCEPT ![c] = elapsed]
      /\ transport = "inprocess" => agent[c] = "finished"
      /\ Len(records) \in Nat
  BY DEF WorkerEnds, IInv, TypeOK, Threads, Ended
<1>2. TypeOK'
  BY <1>1 DEF IInv, TypeOK, Calls
<1>3. Position'
  BY <1>1 DEF IInv, Position, InBlock
<1>4. Threads'
  BY <1>1 DEF IInv, TypeOK, Threads, InBlock, Ended, Answers, Calls, Call
<1>5. HeldIsFair'
  <2>1. ASSUME caller = "joining"
        PROVE  \/ held = "timeout" /\ elapsed >= Timeout
               \/ held = "running"
    BY <1>1, <2>1 DEF IInv, HeldIsFair
  <2>2. held # "running"
    BY DEF IInv, TypeOK, Ended, Answers
  <2> QED
    BY <1>1, <2>1, <2>2 DEF IInv, TypeOK, HeldIsFair, Call
<1>6. RecordsAreFair'
  <2>1. ASSUME NEW d \in 1..Len(records)
        PROVE  worker'[d] = worker[d] /\ endedAt'[d] = endedAt[d]
    <3>1. d \in Calls /\ d # c
      BY <1>1, CallAssumption DEF IInv, TypeOK, Call, Calls
    <3> QED
      BY <1>1, <3>1 DEF IInv, TypeOK
  <2> QED
    BY <1>1, <2>1 DEF IInv, RecordsAreFair
<1> QED
  BY <1>2, <1>3, <1>4, <1>5, <1>6 DEF IInv

\* The clocks go on together.
LEMMA ClockInv == IInv /\ (ResponseProgress \/ Tick \/ UNCHANGED callVars) => IInv'
<1> SUFFICES ASSUME IInv, ResponseProgress \/ Tick \/ UNCHANGED callVars PROVE IInv'
  OBVIOUS
<1>1. /\ UNCHANGED <<transport, caller, held, records, worker, endedAt, agent>>
      /\ elapsed' \in Nat /\ elapsed' >= elapsed /\ quiet' \in Nat
  BY DEF ResponseProgress, Tick, callVars, IInv, TypeOK
<1>2. TypeOK'
  BY <1>1 DEF IInv, TypeOK, Calls
<1>3. HeldIsFair'
  BY <1>1, CallAssumption DEF IInv, TypeOK, HeldIsFair, Call
<1> QED
  BY <1>1, <1>2, <1>3 DEF IInv, Position, Threads, RecordsAreFair, InBlock, Calls, Call

\* Every step keeps the invariant.
LEMMA NextInv == IInv /\ [Next]_callVars => IInv'
BY SubmitInv, FutureInv, LeaveInv, JudgeInv, AgentInv, WorkerInv, ClockInv
   DEF Next, CallerStep

\* The inductive invariant holds in every reachable state.
THEOREM CallInvariance == Spec => []IInv
BY InitInv, NextInv, PTL DEF Spec

\* Every part of the state keeps its type, and no step has more records than retries allow.
THEOREM CallTypeCorrect == Spec => []TypeOK
<1>1. IInv => TypeOK
  BY DEF IInv
<1> QED
  BY <1>1, CallInvariance, PTL

\* No worker thread and no agent in the process outlives its call.
THEOREM AttemptsDoNotOverlapThm == Spec => []AttemptsDoNotOverlap
<1>1. IInv => AttemptsDoNotOverlap
  BY DEF IInv, Threads, AttemptsDoNotOverlap
<1> QED
  BY <1>1, CallInvariance, PTL

\* No answer given in time is recorded as a timeout, and no record is of another call.
THEOREM RecordsAreFairThm == Spec => []RecordsAreFair
<1>1. IInv => RecordsAreFair
  BY DEF IInv
<1> QED
  BY <1>1, CallInvariance, PTL

----------------------------------------------------------------------------
\* Every step of the threads is a step of the abstract execution of a plan, or none.
LEMMA CallRefines ==
  ASSUME IInv, [Next]_callVars
  PROVE  [Execution!PlanNext]_(Execution!planVars)
<1> USE DEF Execution!planVars
<1>1. CASE Submit
  <2>1. CASE records = <<>>
    BY <1>1, <2>1 DEF Submit, Execution!PlanNext, Execution!Begin
  <2> QED
    BY <1>1, <2>1 DEF Submit
<1>2. CASE FutureDone \/ FutureTimesOut
  BY <1>2 DEF FutureDone, FutureTimesOut
<1>3. CASE LeaveBlock
  <2>1. CASE caller' = "failed"
    BY <1>3, <2>1 DEF LeaveBlock, Execution!PlanNext, Execution!Fail
  <2>2. CASE caller' = "judging"
    <3>1. Len(records') = Len(records) + 1 /\ Len(records) < RetryLimit
      BY <1>3, <2>2, LeaveAppends DEF LeaveBlock, IInv, Position, InBlock
    <3> QED
      BY <1>3, <2>2, <3>1 DEF LeaveBlock, Execution!PlanNext, Execution!Try
  <2> QED
    BY <1>3, <2>1, <2>2 DEF LeaveBlock
<1>4. CASE Judge
  <2>1. Len(records) > 0 /\ records # <<>> /\ UNCHANGED records /\ caller = "judging"
    BY <1>4 DEF Judge, IInv, Position, TypeOK
  <2>2. CASE caller' = "passed"
    BY <2>1, <2>2 DEF Execution!PlanNext, Execution!Pass
  <2>3. CASE caller' = "givenup"
    BY <2>1, <2>3 DEF Execution!PlanNext, Execution!Stop
  <2>4. CASE caller' = "ready"
    BY <2>1, <2>4
  <2> QED
    BY <1>4, <2>2, <2>3, <2>4 DEF Judge
<1>5. CASE \/ \E c \in Calls : AgentFinishes(c) \/ WorkerEnds(c)
           \/ ResponseProgress \/ Tick \/ UNCHANGED callVars
  BY <1>5 DEF AgentFinishes, WorkerEnds, ResponseProgress, Tick, callVars
<1> QED
  BY <1>1, <1>2, <1>3, <1>4, <1>5 DEF Next, CallerStep

\* The threaded calls of one step implement the abstract execution of a one-step plan.
THEOREM CallsExecutePlanThm == Spec => CallsExecutePlan
<1>1. Init => Execution!PlanInit
  BY DEF Init, Execution!PlanInit
<1> QED
  BY <1>1, CallRefines, CallInvariance, PTL DEF Spec, CallsExecutePlan, Execution!PlanSpec
=============================================================================
