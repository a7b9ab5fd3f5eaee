----------------------- MODULE InvocationService_proofs -----------------------
(***************************************************************************)
(* The service, for any number of requests and sessions, pool size, number *)
(* of plan steps and clock.                                                *)
(***************************************************************************)
EXTENDS InvocationService, SequenceTheorems, FiniteSetTheorems, TLAPS

\* Where a run is bounds what it has recorded and put.
Progress ==
  \A r \in Requests :
    /\ run[r] = "none" => put[r] = 0
    /\ run[r] = "calling" => Len(results[r]) < Steps
    /\ run[r] \in {"queued", "started", "calling"} => put[r] = 0
    /\ run[r] = "answered" => put[r] = Len(results[r])

Inv == TypeOK /\ Progress /\ ResultsAreOwn

\* The invariant holds before the first message.
LEMMA InitInv == Init => Inv
<1> SUFFICES ASSUME Init PROVE Inv
  OBVIOUS
<1>1. queue = <<>> /\ queue \in Seq(Requests) /\ DOMAIN queue = {} /\ ToSet(queue) = {}
  BY DEF Init, ToSet
<1>2. \A r \in Requests : results[r] = <<>> /\ Len(results[r]) = 0 /\ ToSet(results[r]) = {}
  BY DEF Init, ToSet
<1> QED
  BY <1>1, <1>2, ServiceAssumption DEF Init, Inv, TypeOK, Progress, ResultsAreOwn, IsInjective

\* Actions that leave the pool's queue, the results and the runs alone.
LEMMA PageInv ==
  ASSUME Inv, \E r \in Requests : Send(r) \/ GivesUp(r) \/ Receive(r)
  PROVE  Inv' /\ UNCHANGED <<mock, run, results, put, failed>>
<1>1. UNCHANGED <<mock, shared, run, queue, results, failed, put, now, started, measured,
                  stepFailures>>
  BY DEF Send, GivesUp, Receive, storage, counters
<1>2. ui' \in [Requests -> {"unsent", "waiting", "answer", "error"}]
  BY DEF Inv, TypeOK, Send, GivesUp, Receive
<1> QED
  BY <1>1, <1>2 DEF Inv, TypeOK, Progress, ResultsAreOwn

\* A new request has recorded and put nothing.
LEMMA InvokeInv == ASSUME Inv, NEW r \in Requests, Invoke(r) PROVE Inv'
<1>1. results'[r] = <<>> /\ Len(results'[r]) = 0 /\ ToSet(results'[r]) = {}
  BY DEF Invoke, Inv, TypeOK, InitialResults, ToSet
<1>2. \A q \in Requests \ {r} : results'[q] = results[q] /\ run'[q] = run[q]
  BY DEF Invoke, Inv, TypeOK
<1>3. run'[r] = "started" /\ run[r] = "none" /\ put' = put /\ queue' = queue
  BY DEF Invoke, Inv, TypeOK, storage
<1>4. results' \in [Requests -> Seq(Requests)]
  BY DEF Invoke, Inv, TypeOK, InitialResults
<1>5. TypeOK'
  BY <1>1, <1>2, <1>3, <1>4, ServiceAssumption DEF Invoke, Inv, TypeOK, Progress
<1> QED
  BY <1>1, <1>2, <1>3, <1>5, ServiceAssumption DEF Inv, Progress, ResultsAreOwn

\* A node that waits for a thread is put into the queue, where it was not.
LEMMA QueueNodeInv == ASSUME Inv, NEW r \in Requests, QueueNode(r) PROVE Inv'
<1>1. /\ queue \in Seq(Requests) /\ queue' = Append(queue, r)
      /\ UNCHANGED <<mock, shared, ui, results, failed, put, now, started, measured,
                     stepFailures>>
  BY DEF QueueNode, Inv, TypeOK, storage, counters
<1>2. /\ run[r] = "started" /\ run'[r] = "queued"
      /\ \A q \in Requests \ {r} : run'[q] = run[q]
  BY DEF QueueNode, Inv, TypeOK
<1>3. \A i \in DOMAIN queue : queue[i] # r
  BY <1>2 DEF Inv, TypeOK, ToSet
<1>4. /\ queue' \in Seq(Requests) /\ DOMAIN queue' = 1 .. Len(queue) + 1
      /\ DOMAIN queue = 1 .. Len(queue) /\ Len(queue) \in Nat
      /\ queue'[Len(queue) + 1] = r /\ \A i \in DOMAIN queue : queue'[i] = queue[i]
  BY <1>1
<1>5. IsInjective(queue')
  <2> SUFFICES ASSUME NEW i \in DOMAIN queue', NEW j \in DOMAIN queue', queue'[i] = queue'[j]
               PROVE  i = j
    BY DEF IsInjective
  <2>1. \A a, b \in DOMAIN queue : queue[a] = queue[b] => a = b
    BY DEF IsInjective, Inv, TypeOK
  <2>2. \A a \in DOMAIN queue' : a \in DOMAIN queue \/ a = Len(queue) + 1
    BY <1>4
  <2> QED
    BY <1>3, <1>4, <2>1, <2>2
<1>6. ToSet(queue') = ToSet(queue) \cup {r}
  BY <1>4 DEF ToSet
<1>7. ToSet(queue') = {q \in Requests : run'[q] = "queued"}
  BY <1>2, <1>6 DEF Inv, TypeOK
<1>8. TypeOK'
  BY <1>1, <1>4, <1>5, <1>7 DEF QueueNode, Inv, TypeOK
<1> QED
  BY <1>1, <1>2, <1>8 DEF Inv, Progress, ResultsAreOwn

\* A started node leaves the queue; what is behind it stays, each once.
LEMMA StartNodeInv ==
  ASSUME Inv, StartNode
  PROVE  /\ Inv'
         /\ \E r \in Requests : /\ run[r] = "queued" /\ run'[r] \in {"calling", "logging"}
                                /\ r \in failed => run'[r] = "logging"
                                /\ \A q \in Requests \ {r} : run'[q] = run[q]
<1> DEFINE h == Head(queue)
<1>1. /\ queue \in Seq(Requests) /\ queue # <<>> /\ queue' = Tail(queue)
      /\ UNCHANGED <<mock, shared, ui, results, failed, put, now, started, measured,
                     stepFailures>>
  BY DEF StartNode, Inv, TypeOK, storage, counters
<1>2. /\ Len(queue) \in Nat \ {0} /\ DOMAIN queue = 1 .. Len(queue) /\ h = queue[1]
      /\ queue' \in Seq(Requests) /\ DOMAIN queue' = 1 .. Len(queue) - 1
      /\ \A i \in DOMAIN queue' : i + 1 \in DOMAIN queue /\ queue'[i] = queue[i + 1]
  BY <1>1
<1>3. h \in Requests /\ run[h] = "queued"
  <2>1. 1 \in DOMAIN queue
    BY <1>2
  <2>2. h \in ToSet(queue)
    BY <1>2, <2>1 DEF ToSet
  <2> QED
    BY <2>2 DEF Inv, TypeOK
<1>4. PICK stage \in {"calling", "logging"} :
        (PlanDone(h) => stage = "logging") /\ run' = [run EXCEPT ![h] = stage]
  BY DEF StartNode
<1>5. run'[h] = stage /\ \A q \in Requests \ {h} : run'[q] = run[q]
  BY <1>3, <1>4 DEF Inv, TypeOK
<1>6. IsInjective(queue')
  BY <1>2 DEF IsInjective, Inv, TypeOK
<1>7. ToSet(queue') = ToSet(queue) \ {h}
  <2>1. ASSUME NEW q \in ToSet(queue) \ {h} PROVE q \in ToSet(queue')
    <3>1. PICK i \in DOMAIN queue : queue[i] = q
      BY <2>1 DEF ToSet
    <3>2. i # 1 /\ i - 1 \in DOMAIN queue'
      BY <1>2, <2>1, <3>1
    <3>3. queue'[i - 1] = q
      BY <1>2, <3>1, <3>2
    <3> QED
      BY <3>2, <3>3 DEF ToSet
  <2>2. ASSUME NEW q \in ToSet(queue') PROVE q \in ToSet(queue) \ {h}
    <3>1. PICK i \in DOMAIN queue' : queue'[i] = q
      BY <2>2 DEF ToSet
    <3>2. i + 1 \in DOMAIN queue /\ queue[i + 1] = q /\ i + 1 # 1 /\ 1 \in DOMAIN queue
      BY <1>2, <3>1
    <3> QED
      BY <1>2, <3>2 DEF ToSet, IsInjective, Inv, TypeOK
  <2> QED
    BY <2>1, <2>2
<1>8. ToSet(queue') = {q \in Requests : run'[q] = "queued"}
  BY <1>3, <1>4, <1>5, <1>7 DEF Inv, TypeOK
<1>9. run' \in [Requests -> {"none", "started", "queued", "calling", "logging",
                             "answered", "raised"}]
  BY <1>3, <1>4 DEF Inv, TypeOK
<1>10. TypeOK'
  BY <1>1, <1>2, <1>6, <1>8, <1>9 DEF Inv, TypeOK
<1>11. stage = "calling" => Len(results[h]) < Steps
  BY <1>3, <1>4, ServiceAssumption DEF PlanDone, Inv, TypeOK
<1>12. Progress'
  BY <1>1, <1>3, <1>4, <1>5, <1>11 DEF Inv, Progress
<1>13. h \in failed => run'[h] = "logging"
  BY <1>4, <1>5 DEF PlanDone
<1>14. Inv'
  BY <1>1, <1>10, <1>12 DEF Inv, ResultsAreOwn
<1> HIDE DEF h
<1> QED
  BY <1>3, <1>4, <1>5, <1>13, <1>14

\* A returned call adds one record, of its own request.
LEMMA CallReturnsInv == ASSUME Inv, NEW r \in Requests, CallReturns(r) PROVE Inv'
<1>1. /\ run[r] = "calling" /\ run'[r] = "started"
      /\ \A q \in Requests \ {r} : run'[q] = run[q] /\ results'[q] = results[q]
      /\ results[r] \in Seq(Requests) /\ results'[r] = Append(results[r], r)
      /\ UNCHANGED <<mock, shared, ui, queue, put, now, started, measured, stepFailures>>
  BY DEF CallReturns, Inv, TypeOK, storage, counters
<1>2. /\ results'[r] \in Seq(Requests) /\ Len(results'[r]) = Len(results[r]) + 1
      /\ Len(results[r]) \in Nat
      /\ \A i \in 1 .. Len(results[r]) : results'[r][i] = results[r][i]
      /\ results'[r][Len(results[r]) + 1] = r
  BY <1>1
<1>3. ToSet(results'[r]) \subseteq {r}
  <2> SUFFICES ASSUME NEW i \in 1 .. Len(results[r]) + 1 PROVE results'[r][i] = r
    BY <1>2 DEF ToSet
  <2>1. CASE i \in 1 .. Len(results[r])
    <3>1. results[r][i] \in ToSet(results[r])
      BY <1>1, <2>1 DEF ToSet
    <3> QED
      BY <1>2, <2>1, <3>1 DEF Inv, ResultsAreOwn
  <2>2. CASE i = Len(results[r]) + 1
    BY <1>2, <2>2
  <2> QED
    BY <1>2, <2>1, <2>2
<1>4. results' \in [Requests -> Seq(Requests)]
  BY <1>2 DEF CallReturns, Inv, TypeOK
<1>5. \A q \in Requests : Len(results'[q]) <= Steps /\ put[q] <= Len(results'[q])
  <2>1. \A q \in Requests : Len(results[q]) <= Steps /\ put[q] <= Len(results[q])
    BY DEF Inv, TypeOK
  <2>2. Len(results[r]) < Steps /\ put[r] = 0
    BY <1>1 DEF Inv, Progress
  <2>3. Len(results'[r]) <= Steps /\ put[r] <= Len(results'[r])
    BY <1>2, <2>2, ServiceAssumption
  <2> QED
    BY <1>1, <2>1, <2>3
<1>6. failed' \subseteq Requests
  BY DEF CallReturns, Inv, TypeOK
<1>7. run' \in [Requests -> {"none", "started", "queued", "calling", "logging",
                             "answered", "raised"}]
  BY DEF CallReturns, Inv, TypeOK
<1>8. ToSet(queue)' = {q \in Requests : run'[q] = "queued"}
  BY <1>1 DEF Inv, TypeOK
<1>9. TypeOK'
  BY <1>1, <1>4, <1>5, <1>6, <1>7, <1>8 DEF Inv, TypeOK
<1> QED
  BY <1>1, <1>3, <1>9 DEF Inv, Progress, ResultsAreOwn

\* A run that is answered or raised changes nothing but its stage and the counters.
LEMMA EndsInv ==
  ASSUME Inv, NEW r \in Requests, NodeRaises(r) \/ Answer(r)
  PROVE  Inv'
<1>1. /\ run[r] \in {"calling", "logging"} /\ run'[r] \in {"raised", "answered"}
      /\ run'[r] = "answered" => put[r] = Len(results[r])
      /\ \A q \in Requests \ {r} : run'[q] = run[q]
      /\ UNCHANGED <<mock, shared, ui, queue, results, failed, put, now, started>>
  BY DEF NodeRaises, Answer, Complete, Inv, TypeOK, storage, counters
<1>2. measured' \in Nat /\ stepFailures' \in Nat
  BY DEF NodeRaises, Answer, CountedFailures, Inv, TypeOK, counters
<1>3. run' \in [Requests -> {"none", "started", "queued", "calling", "logging",
                             "answered", "raised"}]
  BY DEF NodeRaises, Answer, Inv, TypeOK
<1>4. ToSet(queue)' = {q \in Requests : run'[q] = "queued"}
  BY <1>1 DEF Inv, TypeOK
<1>5. TypeOK'
  BY <1>1, <1>2, <1>3, <1>4 DEF Inv, TypeOK
<1> QED
  BY <1>1, <1>5 DEF Inv, Progress, ResultsAreOwn

\* No more entries are put than there are records.
LEMMA PutEntryInv == ASSUME Inv, NEW r \in Requests, PutEntry(r) PROVE Inv'
<1>1. /\ run[r] = "logging" /\ put[r] \in Nat /\ put[r] < Len(results[r])
      /\ put'[r] = put[r] + 1 /\ \A q \in Requests \ {r} : put'[q] = put[q]
      /\ put' \in [Requests -> Nat] /\ Len(results[r]) \in Nat
      /\ UNCHANGED <<mock, shared, ui, run, queue, results, failed, now, started, measured,
                     stepFailures>>
  BY DEF PutEntry, Inv, TypeOK, counters
<1>2. \A q \in Requests : put'[q] <= Len(results[q])
  <2>1. \A q \in Requests : put[q] <= Len(results[q])
    BY DEF Inv, TypeOK
  <2> QED
    BY <1>1, <2>1
<1>3. TypeOK'
  BY <1>1, <1>2 DEF Inv, TypeOK
<1> QED
  BY <1>1, <1>3 DEF Inv, Progress, ResultsAreOwn

\* The clock touches nothing else.
LEMMA TickInv == ASSUME Inv, Tick PROVE Inv'
  BY DEF Tick, Inv, TypeOK, Progress, ResultsAreOwn, storage, counters

\* Every step keeps the invariant.
LEMMA StepInv == Inv /\ [Next]_serviceVars => Inv'
<1> SUFFICES ASSUME Inv, [Next]_serviceVars PROVE Inv'
  OBVIOUS
<1>1. ASSUME NEW r \in Requests, Send(r) \/ GivesUp(r) \/ Receive(r) PROVE Inv'
  BY <1>1, PageInv
<1>2. ASSUME NEW r \in Requests, Invoke(r) PROVE Inv'
  BY <1>2, InvokeInv
<1>3. ASSUME NEW r \in Requests, RunStep(r) \/ NodeRaises(r) PROVE Inv'
  BY <1>3, QueueNodeInv, CallReturnsInv, PutEntryInv, EndsInv DEF RunStep
<1>4. CASE StartNode
  BY <1>4, StartNodeInv
<1>5. CASE Tick
  BY <1>5, TickInv
<1>6. CASE UNCHANGED serviceVars
  BY <1>6 DEF serviceVars, storage, counters, Inv, TypeOK, Progress, ResultsAreOwn
<1> QED
  BY <1>1, <1>2, <1>3, <1>4, <1>5, <1>6 DEF Next

\* The inductive invariant of the service: types, results of the request itself, and what a
\* run has recorded and put wherever it is.
THEOREM ServiceInvariance == Spec => []Inv
  BY InitInv, StepInv, PTL DEF Spec

\* The service's state keeps its type; the pool's queue holds the waiting nodes, each once.
THEOREM ServiceTypeCorrect == Spec => []TypeOK
  BY ServiceInvariance, PTL DEF Inv

\* A request never works on results of another request, of its session or not.
THEOREM ResultsAreOwnThm == Spec => []ResultsAreOwn
  BY ServiceInvariance, PTL DEF Inv

----------------------------------------------------------------------------
(* What the page shows *)

\* A page shows an answer only of a run that is answered, and that stays so.
LEMMA ShownStep ==
  Inv /\ Inv' /\ ShownAnswersAreComplete /\ [Next]_serviceVars => ShownAnswersAreComplete'
<1> SUFFICES ASSUME Inv, Inv', ShownAnswersAreComplete, [Next]_serviceVars,
                    NEW r \in Requests, ui'[r] = "answer"
             PROVE  run'[r] = "answered"
  BY DEF ShownAnswersAreComplete, Inv, Progress
<1>2. ui[r] = "answer" => run[r] = "answered"
  BY DEF ShownAnswersAreComplete
<1>3. ASSUME NEW q \in Requests, Send(q) \/ GivesUp(q) PROVE run'[r] = "answered"
  BY <1>2, <1>3 DEF Send, GivesUp, Inv, TypeOK
<1>4. ASSUME NEW q \in Requests, Receive(q) PROVE run'[r] = "answered"
  BY <1>2, <1>4 DEF Receive, Inv, TypeOK
<1>5. ASSUME NEW q \in Requests, Invoke(q) \/ RunStep(q) \/ NodeRaises(q)
      PROVE  run'[r] = "answered"
  <2>1. UNCHANGED ui
    BY <1>5 DEF Invoke, RunStep, NodeRaises, QueueNode, CallReturns, PutEntry, Answer
  <2> QED
    BY <1>2, <1>5, <2>1
       DEF Invoke, RunStep, NodeRaises, QueueNode, CallReturns, PutEntry, Answer, Inv, TypeOK
<1>6. CASE StartNode
  <2>1. UNCHANGED ui
    BY <1>6 DEF StartNode
  <2> QED
    BY <1>2, <1>6, <2>1, StartNodeInv
<1>7. CASE Tick \/ UNCHANGED serviceVars
  BY <1>2, <1>7 DEF Tick, serviceVars
<1> QED
  BY <1>3, <1>4, <1>5, <1>6, <1>7 DEF Next

\* The page shows an answer only of a run that ended and has written its log.
THEOREM ShownAnswersAreCompleteThm == Spec => []ShownAnswersAreComplete
<1>1. Init => ShownAnswersAreComplete
  BY DEF Init, ShownAnswersAreComplete
<1> QED
  BY <1>1, ShownStep, ServiceInvariance, PTL DEF Spec

\* The page never replaces what it has shown for a message.
THEOREM LateAnswersAreDroppedThm == Spec => LateAnswersAreDropped
<1>1. Inv /\ [Next]_serviceVars =>
        [\A r \in Requests : ui[r] \in {"answer", "error"} => ui'[r] = ui[r]]_serviceVars
  <2> SUFFICES ASSUME Inv, Next, NEW r \in Requests, ui[r] \in {"answer", "error"}
               PROVE  ui'[r] = ui[r]
    OBVIOUS
  <2>1. ASSUME NEW q \in Requests, Send(q) \/ GivesUp(q) \/ Receive(q) PROVE ui'[r] = ui[r]
    BY <2>1 DEF Send, GivesUp, Receive, StillShown, Inv, TypeOK
  <2>2. CASE ~\E q \in Requests : Send(q) \/ GivesUp(q) \/ Receive(q)
    BY <2>2 DEF Next, Invoke, RunStep, NodeRaises, QueueNode, CallReturns, PutEntry, Answer,
                StartNode, Tick
  <2> QED
    BY <2>1, <2>2
<1> QED
  BY <1>1, ServiceInvariance, PTL DEF Spec, LateAnswersAreDropped

----------------------------------------------------------------------------
(* The execution log *)

\* An entry is replaced only under its own key, which the put records as a tie.
LEMMA LogStep == Inv /\ LogKeepsEntries /\ [Next]_serviceVars => LogKeepsEntries'
<1> SUFFICES ASSUME Inv, LogKeepsEntries, [Next]_serviceVars PROVE LogKeepsEntries'
  OBVIOUS
<1>1. ASSUME NEW r \in Requests, PutEntry(r) PROVE LogKeepsEntries'
  <2> SUFFICES ASSUME ~mock, ties' = {}, NEW q \in Requests, NEW i \in 1 .. put'[q]
               PROVE  \E k \in DOMAIN log' : log'[k] = <<q, i>>
    BY <1>1 DEF PutEntry, LogKeepsEntries
  <2> DEFINE key == <<SessionOf[r], now>>
  <2>1. LogKey(r) = key /\ ties = {} /\ key \notin DOMAIN log
    BY <1>1 DEF PutEntry, LogKey
  <2>2. /\ DOMAIN log' = DOMAIN log \cup {key} /\ log'[key] = <<r, put[r] + 1>>
        /\ \A k \in DOMAIN log : log'[k] = log[k]
    BY <1>1, <2>1 DEF PutEntry
  <2>3. i \in 1 .. put[q] \/ (q = r /\ i = put[r] + 1)
    BY <1>1 DEF PutEntry, Inv, TypeOK
  <2>4. CASE i \in 1 .. put[q]
    <3>1. PICK k \in DOMAIN log : log[k] = <<q, i>>
      BY <2>1, <2>4 DEF LogKeepsEntries
    <3> QED
      BY <2>2, <3>1
  <2> QED
    BY <2>2, <2>3, <2>4
<1>2. ASSUME ~\E r \in Requests : PutEntry(r) PROVE UNCHANGED <<mock, put, log, ties>>
  BY <1>2 DEF Next, serviceVars, storage, Send, GivesUp, Receive, Invoke, RunStep, NodeRaises,
              QueueNode, CallReturns, Answer, StartNode, Tick
<1> QED
  BY <1>1, <1>2 DEF LogKeepsEntries

\* In the table an entry a request has put is never lost, but to one of the same session
\* and time.
THEOREM LogKeepsEntriesThm == Spec => []LogKeepsEntries
<1>1. Init => LogKeepsEntries
  BY DEF Init, LogKeepsEntries
<1> QED
  BY <1>1, LogStep, ServiceInvariance, PTL DEF Spec

----------------------------------------------------------------------------
(* The counters *)

Raised == {r \in Requests : run[r] = "raised"}
Answered == {r \in Requests : run[r] = "answered"}

\* The sets of requests that the counters count are finite.
LEMMA CountsAreFinite ==
  /\ IsFiniteSet(Raised) /\ IsFiniteSet(InProgress) /\ IsFiniteSet(failed \cap Answered)
  /\ {Cardinality(Raised), Cardinality(InProgress), Cardinality(failed \cap Answered)}
       \subseteq Nat
<1>1. /\ Raised \in SUBSET Requests /\ InProgress \in SUBSET Requests
      /\ failed \cap Answered \in SUBSET Requests
  BY DEF Raised, InProgress, Answered
<1>2. IsFiniteSet(Raised) /\ IsFiniteSet(InProgress) /\ IsFiniteSet(failed \cap Answered)
  BY <1>1, FS_Subset, ServiceAssumption
<1> QED
  BY <1>2, FS_CardinalityType

\* A step moves at most one request from one of these sets to another.
LEMMA MetricsStep == Inv /\ MetricsAddUp /\ [Next]_serviceVars => MetricsAddUp'
<1> SUFFICES ASSUME Inv, MetricsAddUp, [Next]_serviceVars PROVE MetricsAddUp'
  OBVIOUS
<1> USE CountsAreFinite
<1> DEFINE cr == Cardinality(Raised)
           cp == Cardinality(InProgress)
           cf == Cardinality(failed \cap Answered)
<1>a. started = measured + cr + cp /\ stepFailures = cf
  BY DEF MetricsAddUp, Raised, Answered
<1>b. started' = measured' + cr' + cp' /\ stepFailures' = cf' => MetricsAddUp'
  BY DEF MetricsAddUp, Raised, Answered
<1>c. {cr, cp, cf, started, measured, stepFailures} \subseteq Nat
  BY DEF Inv, TypeOK
<1>1. ASSUME UNCHANGED <<run, failed, counters>> PROVE MetricsAddUp'
  BY <1>1 DEF MetricsAddUp, InProgress, counters
<1>2. ASSUME UNCHANGED <<InProgress, Raised, failed \cap Answered, counters>>
      PROVE  MetricsAddUp'
  BY <1>2 DEF MetricsAddUp, Raised, Answered, counters
<1>3. ASSUME NEW r \in Requests, Send(r) \/ GivesUp(r) \/ Receive(r) \/ PutEntry(r)
      PROVE  MetricsAddUp'
  BY <1>1, <1>3 DEF Send, GivesUp, Receive, PutEntry
<1>4. ASSUME NEW r \in Requests, Invoke(r) PROVE MetricsAddUp'
  <2>1. /\ run[r] = "none" /\ run'[r] = "started"
        /\ \A q \in Requests \ {r} : run'[q] = run[q]
        /\ UNCHANGED <<failed, measured, stepFailures>> /\ started' = started + 1
    BY <1>4 DEF Invoke, Inv, TypeOK
  <2>2. /\ InProgress' = InProgress \cup {r} /\ r \notin InProgress
        /\ Raised' = Raised /\ (failed \cap Answered)' = failed \cap Answered
    BY <2>1 DEF InProgress, Raised, Answered
  <2>3. Cardinality(InProgress') = Cardinality(InProgress) + 1
    BY <2>2, FS_AddElement
  <2>5. cr' = cr /\ cp' = cp + 1 /\ cf' = cf
    BY <2>2, <2>3
  <2> QED
    <3> HIDE DEF cr, cp, cf
    <3> QED
      BY <1>a, <1>b, <1>c, <2>1, <2>5
<1>5. ASSUME NEW r \in Requests, QueueNode(r) PROVE MetricsAddUp'
  <2>1. /\ run[r] = "started" /\ run'[r] = "queued"
        /\ \A q \in Requests \ {r} : run'[q] = run[q] /\ UNCHANGED <<failed, counters>>
    BY <1>5 DEF QueueNode, Inv, TypeOK
  <2>2. UNCHANGED <<InProgress, Raised, failed \cap Answered, counters>>
    BY <1>5, <2>1 DEF QueueNode, InProgress, Raised, Answered
  <2> QED
    BY <1>2, <2>2
<1>6. ASSUME StartNode PROVE MetricsAddUp'
  <2>1. PICK r \in Requests : /\ run[r] = "queued" /\ run'[r] \in {"calling", "logging"}
                              /\ \A q \in Requests \ {r} : run'[q] = run[q]
    BY <1>6, StartNodeInv
  <2>2. UNCHANGED <<InProgress, Raised, failed \cap Answered, counters>>
    BY <1>6, <2>1 DEF StartNode, InProgress, Raised, Answered
  <2> QED
    BY <1>2, <2>2
<1>7. ASSUME NEW r \in Requests, CallReturns(r) PROVE MetricsAddUp'
  <2>1. /\ run[r] = "calling" /\ run'[r] = "started"
        /\ \A q \in Requests \ {r} : run'[q] = run[q]
        /\ failed' \in {failed, failed \cup {r}}
    BY <1>7 DEF CallReturns, Inv, TypeOK
  <2>2. UNCHANGED <<InProgress, Raised, failed \cap Answered, counters>>
    BY <1>7, <2>1 DEF CallReturns, InProgress, Raised, Answered
  <2> QED
    BY <1>2, <2>2
<1>8. ASSUME NEW r \in Requests, NodeRaises(r) PROVE MetricsAddUp'
  <2>1. /\ run[r] \in {"calling", "logging"} /\ run'[r] = "raised"
        /\ \A q \in Requests \ {r} : run'[q] = run[q]
        /\ UNCHANGED <<failed, measured, stepFailures, started>>
    BY <1>8 DEF NodeRaises, counters, Inv, TypeOK
  <2>2. /\ InProgress' = InProgress \ {r} /\ r \in InProgress
        /\ Raised' = Raised \cup {r} /\ r \notin Raised
        /\ (failed \cap Answered)' = failed \cap Answered
    BY <2>1 DEF InProgress, Raised, Answered
  <2>3. Cardinality(InProgress') = Cardinality(InProgress) - 1
    BY <2>2, FS_RemoveElement
  <2>4. Cardinality(Raised') = Cardinality(Raised) + 1
    BY <2>2, FS_AddElement
  <2>5. cr' = cr + 1 /\ cp' = cp - 1 /\ cf' = cf
    BY <2>2, <2>3, <2>4
  <2> QED
    <3> HIDE DEF cr, cp, cf
    <3> QED
      BY <1>a, <1>b, <1>c, <2>1, <2>5
<1>9. ASSUME NEW r \in Requests, Answer(r) PROVE MetricsAddUp'
  <2>1. /\ run[r] = "logging" /\ run'[r] = "answered"
        /\ \A q \in Requests \ {r} : run'[q] = run[q]
        /\ UNCHANGED <<failed, started>> /\ measured' = measured + 1
        /\ stepFailures' = IF r \in failed THEN stepFailures + 1 ELSE stepFailures
    BY <1>9 DEF Answer, CountedFailures, Inv, TypeOK
  <2>2. /\ InProgress' = InProgress \ {r} /\ r \in InProgress /\ Raised' = Raised
        /\ r \notin failed \cap Answered
        /\ (failed \cap Answered)' = IF r \in failed THEN (failed \cap Answered) \cup {r}
                                                    ELSE failed \cap Answered
    BY <2>1 DEF InProgress, Raised, Answered
  <2>3. Cardinality(InProgress') = Cardinality(InProgress) - 1
    BY <2>2, FS_RemoveElement
  <2>4. Cardinality((failed \cap Answered)')
          = IF r \in failed THEN Cardinality(failed \cap Answered) + 1
                            ELSE Cardinality(failed \cap Answered)
    BY <2>2, FS_AddElement
  <2>5. cr' = cr /\ cp' = cp - 1 /\ cf' = IF r \in failed THEN cf + 1 ELSE cf
    BY <2>2, <2>3, <2>4
  <2> QED
    <3> HIDE DEF cr, cp, cf
    <3> QED
      BY <1>a, <1>b, <1>c, <2>1, <2>5
<1>10. ASSUME Tick \/ UNCHANGED serviceVars PROVE MetricsAddUp'
  BY <1>1, <1>10 DEF Tick, serviceVars
<1> QED
  BY <1>3, <1>4, <1>5, <1>6, <1>7, <1>8, <1>9, <1>10 DEF Next, RunStep

\* Every counted request is in progress, measured or raised, and the step failures counted
\* are those of the measured ones.
THEOREM MetricsAddUpThm == Spec => []MetricsAddUp
<1>1. Init => MetricsAddUp
  <2> SUFFICES ASSUME Init PROVE MetricsAddUp
    OBVIOUS
  <2>1. Raised = {} /\ InProgress = {} /\ failed \cap Answered = {}
    BY DEF Init, Raised, InProgress, Answered
  <2> QED
    BY <2>1, FS_EmptySet DEF Init, MetricsAddUp, Raised, Answered
<1> QED
  BY <1>1, MetricsStep, ServiceInvariance, PTL DEF Spec

----------------------------------------------------------------------------
(* A request is a run of the graph *)

\* A request that gave up a step calls no sub-agent any more; one that has not begun has
\* recorded nothing.
StopsWhenGivenUp ==
  \A r \in Requests : /\ r \in failed => run[r] # "calling"
                      /\ run[r] = "none" => results[r] = <<>>

\* What a step of the service does to a request r, when it is a step of r and when it is
\* one of the requests that share r's session, pool and log.
LEMMA RequestStep ==
  ASSUME Inv, StopsWhenGivenUp, [Next]_serviceVars, NEW r \in Requests
  PROVE  /\ [Run(r)!RunNext]_(Run(r)!runVars)
         /\ r \in failed' => run'[r] # "calling"
         /\ run'[r] = "none" => results'[r] = <<>>
<1>0. /\ r \in failed => run[r] # "calling"
      /\ run[r] = "none" => results[r] = <<>>
  BY DEF StopsWhenGivenUp
<1>1. ASSUME UNCHANGED <<run[r], results[r], put[r]>>, r \in failed' <=> r \in failed
      PROVE  /\ UNCHANGED Run(r)!runVars
             /\ r \in failed' => run'[r] # "calling"
             /\ run'[r] = "none" => results'[r] = <<>>
  BY <1>0, <1>1 DEF StageOf, Run!runVars
<1>2. ASSUME NEW q \in Requests, Send(q) \/ GivesUp(q) \/ Receive(q)
      PROVE  UNCHANGED <<run, results, put, failed>>
  BY <1>2, PageInv
<1>3. CASE Invoke(r) \/ QueueNode(r)
  <2>1. /\ run[r] \in {"none", "started"} /\ run'[r] \in {"started", "queued"}
        /\ results'[r] = results[r] /\ UNCHANGED <<put, failed>>
    BY <1>0, <1>3 DEF Invoke, QueueNode, InitialResults, Inv, TypeOK, storage
  <2>2. UNCHANGED Run(r)!runVars
    BY <2>1 DEF StageOf, Run!runVars
  <2> QED
    BY <2>1, <2>2
<1>4. CASE CallReturns(r)
  <2>1. /\ run[r] = "calling" /\ run'[r] = "started" /\ results'[r] = Append(results[r], r)
        /\ results[r] \in Seq(Requests) /\ UNCHANGED put /\ r \notin failed
    BY <1>0, <1>4 DEF CallReturns, Inv, TypeOK, storage
  <2>2. Len(results'[r]) = Len(results[r]) + 1 /\ Len(results[r]) < Steps
    BY <2>1, AppendProperties DEF Inv, Progress
  <2>3. StageOf(r) = "running" /\ StageOf(r)' = "running"
    BY <2>1 DEF StageOf
  <2>4. (r \in failed') \in BOOLEAN
    OBVIOUS
  <2>5. Run(r)!RecordStep
    BY <2>1, <2>2, <2>3, <2>4 DEF Run!RecordStep
  <2> QED
    BY <2>1, <2>5 DEF Run!RunNext
<1>5. CASE PutEntry(r)
  <2>1. /\ run[r] = "logging" /\ UNCHANGED <<run, results, failed>>
        /\ put'[r] = put[r] + 1 /\ put[r] \in Nat /\ put[r] < Len(results[r])
        /\ Len(results[r]) \in Nat
    BY <1>5 DEF PutEntry, Inv, TypeOK
  <2>2. StageOf(r) = "logging" /\ StageOf(r)' = "logging"
    BY <2>1 DEF StageOf
  <2>3. put'[r] \in put[r] .. Len(results[r])
    BY <2>1
  <2>4. Run(r)!WriteLog
    BY <2>1, <2>2, <2>3 DEF Run!WriteLog
  <2> QED
    BY <1>0, <2>1, <2>4 DEF Run!RunNext
<1>6. CASE Answer(r)
  <2>1. /\ run[r] = "logging" /\ run'[r] = "answered" /\ UNCHANGED <<put, results, failed>>
        /\ put[r] \in Nat /\ put[r] = Len(results[r])
    BY <1>6 DEF Answer, Complete, Inv, TypeOK, storage
  <2>2. StageOf(r) = "logging" /\ StageOf(r)' = "answered"
    BY <2>1 DEF StageOf
  <2>3. Run(r)!WriteLog
    BY <2>1, <2>2 DEF Run!WriteLog
  <2> QED
    BY <2>1, <2>3 DEF Run!RunNext
<1>7. CASE NodeRaises(r)
  <2>1. /\ run[r] \in {"calling", "logging"} /\ run'[r] = "raised"
        /\ UNCHANGED <<put, results, failed>>
    BY <1>7 DEF NodeRaises, Inv, TypeOK, storage
  <2>2. StageOf(r) \in {"running", "logging"} /\ StageOf(r)' = "raised"
    BY <2>1 DEF StageOf
  <2>3. Run(r)!Raise
    BY <2>1, <2>2 DEF Run!Raise
  <2> QED
    BY <2>1, <2>3 DEF Run!RunNext
<1>8. ASSUME NEW q \in Requests \ {r}, Invoke(q) \/ RunStep(q) \/ NodeRaises(q)
      PROVE  /\ UNCHANGED <<run[r], results[r], put[r]>>
             /\ r \in failed' <=> r \in failed
  BY <1>8 DEF Invoke, RunStep, QueueNode, CallReturns, PutEntry, Answer, NodeRaises, Inv, TypeOK,
              storage
<1>9. CASE StartNode
  <2>1. PICK q \in Requests : /\ run[q] = "queued" /\ run'[q] \in {"calling", "logging"}
                              /\ q \in failed => run'[q] = "logging"
                              /\ \A p \in Requests \ {q} : run'[p] = run[p]
    BY <1>9, StartNodeInv
  <2>2. UNCHANGED <<results, put, failed>>
    BY <1>9 DEF StartNode, storage
  <2>3. CASE q = r
    <3>1. StageOf(r) = "running" /\ StageOf(r)' \in {"running", "logging"}
      BY <2>1, <2>3 DEF StageOf
    <3>2. Run(r)!BeginLog \/ UNCHANGED Run(r)!runVars
      BY <2>2, <3>1 DEF Run!BeginLog, Run!runVars
    <3> QED
      BY <2>1, <2>2, <2>3, <3>2 DEF Run!RunNext
  <2>4. CASE q # r
    BY <1>1, <2>1, <2>2, <2>4
  <2> QED
    BY <2>3, <2>4
<1>10. CASE Tick \/ UNCHANGED serviceVars
  BY <1>1, <1>10 DEF Tick, serviceVars, storage
<1> QED
  BY <1>1, <1>2, <1>3, <1>4, <1>5, <1>6, <1>7, <1>8, <1>9, <1>10 DEF Next, RunStep

\* A run with a step given up takes no further one.
LEMMA StopsStep == Inv /\ StopsWhenGivenUp /\ [Next]_serviceVars => StopsWhenGivenUp'
BY RequestStep DEF StopsWhenGivenUp

\* No step is given up at the start.
LEMMA StopsInit == Init => StopsWhenGivenUp
BY DEF Init, StopsWhenGivenUp

\* Each request, among any number of others, implements the run of the graph that
\* OrchestratorGraph implements alone.
THEOREM EachRequestIsGraphRun ==
  ASSUME NEW r \in Requests
  PROVE  Spec => Run(r)!RunSpec
<1>1. Init => Run(r)!RunInit
  BY DEF Init, StageOf, Run!RunInit
<1>2. Inv /\ StopsWhenGivenUp /\ [Next]_serviceVars => [Run(r)!RunNext]_(Run(r)!runVars)
  BY RequestStep
<1> QED
  BY <1>1, <1>2, StopsInit, StopsStep, ServiceInvariance, PTL DEF Spec, Run!RunSpec

\* All requests at once are runs of the graph: this is what the run of the checker tests.
THEOREM RequestsAreGraphRunsThm == Spec => RequestsAreGraphRuns
<1>1. Init => \A r \in Requests : Run(r)!RunInit
  BY DEF Init, StageOf, Run!RunInit
<1>2. Inv /\ StopsWhenGivenUp /\ [Next]_serviceVars
        => [\A r \in Requests : [Run(r)!RunNext]_(Run(r)!runVars)]_serviceVars
  BY RequestStep
<1> QED
  BY <1>1, <1>2, StopsInit, StopsStep, ServiceInvariance, PTL DEF Spec, RequestsAreGraphRuns
=============================================================================
