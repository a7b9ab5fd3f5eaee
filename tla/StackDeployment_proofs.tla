----------------------- MODULE StackDeployment_proofs -----------------------
(***************************************************************************)
(* The deployment scripts, for any stacks, imports and orders that satisfy *)
(* StacksAssumption: what deploy.sh and destroy.sh say is true.            *)
(***************************************************************************)
EXTENDS StackDeployment, SequenceTheorems, FiniteSetTheorems, TLAPS

All == Foundation \o Platform \o Agents

\* A script that waits has a stack to wait for.
SInv == TypeOK /\ (phase # "start" => todo # <<>>)

\* The lists of the scripts are sequences of stacks.
LEMMA OrdersAreSequences ==
  /\ Foundation \in Seq(Stacks) /\ Platform \in Seq(Stacks) /\ Agents \in Seq(Stacks)
  /\ PlatformTeardown \in Seq(Stacks) /\ FoundationTeardown \in Seq(Stacks)
  /\ PlatformChecked \in Seq(Stacks)
BY StacksAssumption

\* The deployment goes over a sequence of stacks that ends with the agents.
LEMMA AllIsSequence == All \in Seq(Stacks) /\ Len(All) >= Len(Agents) /\ Len(Agents) > 0
<1>1. Foundation \o Platform \in Seq(Stacks)
  BY OrdersAreSequences, ConcatProperties
<1>2. /\ All \in Seq(Stacks)
      /\ Len(All) = Len(Foundation \o Platform) + Len(Agents)
  BY <1>1, OrdersAreSequences, ConcatProperties DEF All
<1>3. Len(Agents) \in Nat /\ Len(Foundation \o Platform) \in Nat
  BY <1>1, OrdersAreSequences, LenProperties
<1>4. Len(Agents) # 0
  BY OrdersAreSequences, EmptySeq, StacksAssumption
<1> QED
  BY <1>2, <1>3, <1>4

\* There are finitely many agent stacks.
LEMMA AgentsAreFinite == IsFiniteSet(ToSet(Agents))
<1>1. ToSet(Agents) = {Agents[i] : i \in 1..Len(Agents)} /\ Len(Agents) \in Nat
  BY OrdersAreSequences, LenProperties DEF ToSet
<1>2. IsFiniteSet(1..Len(Agents))
  BY <1>1, FS_Interval
<1> QED
  <2> DEFINE f == [i \in 1..Len(Agents) |-> Agents[i]]
  <2>1. f \in Surjection(1..Len(Agents), ToSet(Agents))
    BY <1>1 DEF Surjection
  <2> QED
    BY <1>2, <2>1, FS_Surjection

\* What list-stacks returns is a sequence of stacks.
LEMMA ListingIsSequence ==
  ASSUME NEW statuses, NEW list \in Listing(statuses)
  PROVE  list \in Seq(Stacks)
<1> DEFINE S == {a \in ToSet(Agents) : stack[a] \in statuses}
<1>1. IsFiniteSet(ToSet(Agents))
  BY AgentsAreFinite
<1>2. IsFiniteSet(S) /\ S \subseteq Stacks
  BY <1>1, FS_Subset DEF Stacks
<1>3. Cardinality(S) \in Nat
  BY <1>2, FS_CardinalityType
<1>4. list \in [1..Cardinality(S) -> S]
  BY DEF Listing, SetToSeqs
<1>5. list \in Seq(S)
  BY <1>3, <1>4, SeqDef
<1> QED
  BY <1>2, <1>5, SeqMonotonic

\* The stack under way and the stacks after it.
LEMMA CurrentAndRest ==
  ASSUME todo \in Seq(Stacks), todo # <<>>
  PROVE  /\ Current \in Stacks /\ Current = todo[1] /\ Tail(todo) \in Seq(Stacks)
         /\ Len(todo) \in Nat \ {0} /\ Len(Tail(todo)) = Len(todo) - 1
         /\ \A i \in 1..Len(Tail(todo)) : Tail(todo)[i] = todo[i + 1]
BY HeadTailProperties, LenProperties, EmptySeq DEF Current

\* A single agent can be deployed.
LEMMA OneAgent == ASSUME NEW a \in ToSet(Agents) PROVE <<a>> \in Seq(Stacks)
BY DEF Stacks

\* Going on to the next stack keeps the types.
LEMMA AdvanceTyped ==
  ASSUME SInv, todo # <<>>, Advance, UNCHANGED <<stack, drift>>, unchecked' \subseteq Stacks
  PROVE  SInv'
BY CurrentAndRest DEF SInv, TypeOK, Advance, drift

\* A script that stops keeps the types.
LEMMA AbortTyped == ASSUME SInv, Abort PROVE SInv'
BY EmptySeq DEF SInv, TypeOK, Abort, AtPrompt

\* Asking CloudFormation for an operation keeps the types.
LEMMA RequestTyped ==
  ASSUME SInv, todo # <<>>, NEW status \in InProgress, NEW next \in {"wait", "deletion"},
         Request(Current, status, next)
  PROVE  SInv'
<1>1. Current \in Stacks
  BY CurrentAndRest DEF SInv, TypeOK
<1>2. status \in Statuses
  BY DEF Statuses
<1> QED
  BY <1>1, <1>2 DEF SInv, TypeOK, Request, drift

\* So does aws cloudformation deploy, whether it works or fails.
LEMMA CreateTyped == ASSUME SInv, todo # <<>>, CreateDirectly PROVE SInv'
<1>1. ASSUME DeployOk PROVE SInv'
  BY <1>1, AdvanceTyped DEF DeployOk, SInv, TypeOK
<1>2. ASSUME DeployFails PROVE SInv'
  BY <1>1, <1>2, AbortTyped DEF DeployFails
<1> QED
  BY <1>1, <1>2, RequestTyped DEF CreateDirectly, InProgress

\* So does the start of a script.
LEMMA StartTyped ==
  ASSUME SInv, NEW name \in {"deploy", "target", "destroy", "drift"}, NEW list \in Seq(Stacks),
         Start(name, list), drifted' \subseteq Stacks
  PROVE  SInv'
BY DEF SInv, TypeOK, Start

\* So does the end of an operation.
LEMMA SettleTyped == ASSUME SInv, NEW s \in Stacks, Settle(s) PROVE SInv'
<1>1. PICK st \in Outcomes(s) : stack' = [stack EXCEPT ![s] = st]
  BY DEF Settle
<1>2. Outcomes(s) \subseteq Statuses
  BY DEF Outcomes, Statuses, WithResources, Up, InProgress
<1> QED
  BY <1>1, <1>2 DEF SInv, TypeOK, Settle, drift

\* The types hold at the start.
LEMMA InitTyped == Init => SInv
BY EmptySeq DEF Init, SInv, TypeOK, Statuses, InProgress, WithResources, Up, AtPrompt

\* Every step keeps the types.
LEMMA NextTyped == SInv /\ [Next]_stackVars => SInv'
<1> SUFFICES ASSUME SInv, [Next]_stackVars PROVE SInv'
  OBVIOUS
<1>0. CASE UNCHANGED stackVars
  BY <1>0 DEF SInv, TypeOK, stackVars, drift
<1>1. CASE Deploy \/ DeployTarget
  <2>1. CASE Deploy
    BY <2>1, StartTyped, AllIsSequence DEF Deploy, StartOther, All
  <2>2. CASE DeployTarget
    BY <2>2, StartTyped, OrdersAreSequences, OneAgent DEF DeployTarget, StartOther
  <2> QED
    BY <1>1, <2>1, <2>2
<1>2. CASE DeployDirect
  BY <1>2, CreateTyped DEF DeployDirect, Working
<1>3. CASE DeployChangeset
  BY <1>3, CreateTyped, RequestTyped DEF DeployChangeset, Working, InProgress
<1>4. CASE RecreateStack
  BY <1>4, CreateTyped DEF RecreateStack, SInv
<1>5. CASE DeployEnds \/ DeletionEnds
  <2>1. todo # <<>>
    BY <1>5 DEF DeployEnds, DeletionEnds, SInv
  <2>2. DeployOk \/ Abort
    BY <1>5 DEF DeployEnds, DeletionEnds, DeployFails
  <2> QED
    BY <2>1, <2>2, AdvanceTyped, AbortTyped DEF DeployOk, SInv, TypeOK
<1>6. CASE Destroy
  <2>1. PICK agents \in {<<>>} \cup Listing(Up \cup {"ROLLBACK_COMPLETE"}) :
          StartOther("destroy", agents \o PlatformTeardown \o FoundationTeardown)
    BY <1>6 DEF Destroy
  <2>2. agents \in Seq(Stacks)
    BY <2>1, ListingIsSequence, EmptySeq
  <2>3. agents \o PlatformTeardown \o FoundationTeardown \in Seq(Stacks)
    BY <2>2, OrdersAreSequences, ConcatProperties
  <2> QED
    BY <2>1, <2>3, StartTyped DEF StartOther
<1>7. CASE DeleteStack
  <2>1. todo # <<>> /\ Current \in Stacks
    BY <1>7, CurrentAndRest DEF DeleteStack, Working, SInv, TypeOK
  <2>2. CASE SkipStack
    BY <2>1, <2>2, AdvanceTyped DEF SkipStack, SInv, TypeOK
  <2> QED
    BY <1>7, <2>1, <2>2, RequestTyped, AbortTyped DEF DeleteStack, InProgress
<1>8. CASE DriftDetect
  <2>1. Foundation \o PlatformChecked \in Seq(Stacks)
    BY OrdersAreSequences, ConcatProperties
  <2> QED
    BY <1>8, <2>1, StartTyped DEF DriftDetect
<1>9. CASE DetectStackDrift
  <2>1. todo # <<>> /\ Current \in Stacks
    BY <1>9, CurrentAndRest DEF DetectStackDrift, Working, SInv, TypeOK
  <2>2. CASE Advance /\ unchecked' = unchecked \cup {Current} /\ UNCHANGED <<stack, drift>>
    BY <2>1, <2>2, AdvanceTyped DEF SInv, TypeOK
  <2>3. CASE /\ Advance /\ driftFound' = DriftFound(Current)
             /\ UNCHANGED <<stack, unchecked, drifted>>
    <3>1. driftFound' \in BOOLEAN
      BY <2>3 DEF DriftFound
    <3> QED
      BY <2>1, <2>3, <3>1, CurrentAndRest DEF SInv, TypeOK, Advance
  <2> QED
    BY <1>9, <2>2, <2>3, AbortTyped DEF DetectStackDrift
<1>10. CASE ListAgents
  <2>1. todo' \in Seq(Stacks)
    BY <1>10, ListingIsSequence, EmptySeq DEF ListAgents
  <2>2. phase = "start"
    BY <1>10 DEF ListAgents, SInv
  <2>3. ToSet(Agents) \subseteq Stacks
    BY DEF Stacks
  <2> QED
    BY <1>10, <2>1, <2>2, <2>3 DEF ListAgents, SInv, TypeOK, drift
<1>11. CASE Conclude
  BY <1>11 DEF Conclude, SInv, TypeOK, AtPrompt, drift
<1>12. CASE Interrupt
  BY <1>12, AbortTyped DEF Interrupt
<1>13. CASE \E s \in Stacks : Settle(s)
  BY <1>13, SettleTyped
<1> QED
  BY <1>0, <1>1, <1>2, <1>3, <1>4, <1>5, <1>6, <1>7, <1>8, <1>9, <1>10, <1>11, <1>12, <1>13
     DEF Next

\* The types hold of every reachable state.
LEMMA ScriptInvariance == Spec => []SInv
BY InitTyped, NextTyped, PTL DEF Spec

\* The variables of the scripts and the statuses of the stacks keep their types.
THEOREM StacksTypeCorrect == Spec => []TypeOK
<1>1. SInv => TypeOK
  BY DEF SInv
<1> QED
  BY <1>1, ScriptInvariance, PTL

(***************************************************************************)
(* deploy.sh is a walk through All.  Outside production it goes past a     *)
(* stack only when that stack is up, or is an agent before the last.       *)
(***************************************************************************)
Handled(i) == stack[All[i]] \in Up \/ (All[i] \in ToSet(Agents) /\ i < Len(All))

AtSuffix ==
  /\ Len(todo) <= Len(All)
  /\ \A i \in 1..Len(todo) : todo[i] = All[Len(All) - Len(todo) + i]

HonestInv ==
  /\ script = "deploy" => AtSuffix
  /\ script = "deploy" /\ ~prod => \A i \in 1..(Len(All) - Len(todo)) : Handled(i)
  /\ script = "deployed" /\ ~prod => \A i \in 1..Len(All) : Handled(i)

\* No stack is deployed twice in one run.
LEMMA AllIsInjective ==
  \A i, j \in 1..Len(All) : All[i] = All[j] => i = j
<1>1. IsInjective(All)
  BY StacksAssumption DEF All
<1>2. DOMAIN All = 1..Len(All)
  BY AllIsSequence, LenProperties
<1> QED
  BY <1>1, <1>2 DEF IsInjective

\* Only a change of the stack itself, while it is up, undoes what was handled.
LEMMA HandledStays ==
  ASSUME SInv, NEW i \in 1..Len(All), Handled(i),
         \/ UNCHANGED stack
         \/ \E s \in Stacks, st \in Statuses :
              /\ stack' = [stack EXCEPT ![s] = st]
              /\ s # All[i] \/ stack[s] \notin Up
  PROVE  Handled(i)'
<1>1. All[i] \in Stacks
  BY AllIsSequence, LenProperties, ElementOfSeq
<1>2. stack[All[i]] \in Up => stack'[All[i]] \in Up
  BY <1>1 DEF SInv, TypeOK
<1> QED
  BY <1>2 DEF Handled, All

\* Going on past a stack that is up, or a masked agent, keeps the deployment honest.
LEMMA PassedOn ==
  ASSUME SInv, HonestInv, script = "deploy", todo # <<>>, DeployOk,
         prod \/ stack[Current] \in Up \/ (Current \in ToSet(Agents) /\ Len(todo) > 1)
  PROVE  HonestInv'
<1> DEFINE k == Len(All) - Len(todo)
<1>1. /\ Len(todo) \in Nat \ {0} /\ Len(Tail(todo)) = Len(todo) - 1
      /\ \A i \in 1..Len(Tail(todo)) : Tail(todo)[i] = todo[i + 1]
      /\ Current = todo[1]
  BY CurrentAndRest DEF SInv, TypeOK
<1>2. todo' = Tail(todo) /\ script' = script /\ prod' = prod /\ stack' = stack
  BY DEF DeployOk, Advance
<1>3. AtSuffix /\ Len(All) \in Nat
  BY AllIsSequence, LenProperties DEF HonestInv
<1>4. Current = All[k + 1] /\ k \in Nat /\ k + 1 \in 1..Len(All)
  BY <1>1, <1>3 DEF AtSuffix
<1>5. AtSuffix'
  BY <1>1, <1>2, <1>3 DEF AtSuffix, All
<1>6. ASSUME ~prod PROVE \A i \in 1..(k + 1) : Handled(i)'
  <2>1. \A i \in 1..k : Handled(i)
    BY <1>6 DEF HonestInv
  <2>2. Handled(k + 1)
    BY <1>1, <1>3, <1>4, <1>6 DEF Handled
  <2>3. \A i \in 1..(k + 1) : Handled(i)
    BY <1>4, <2>1, <2>2
  <2> QED
    BY <1>2, <2>3 DEF Handled, All
<1>7. (Len(All) - Len(todo))' = k + 1
  BY <1>1, <1>2, <1>3 DEF All
<1> QED
  BY <1>2, <1>5, <1>6, <1>7 DEF HonestInv

\* An operation on the current stack leaves the handled ones alone.
LEMMA Requested ==
  ASSUME SInv, HonestInv, Deploying, todo # <<>>, NEW status \in InProgress, NEW next,
         Request(Current, status, next)
  PROVE  HonestInv'
<1>1. CASE script = "target"
  BY <1>1 DEF Request, HonestInv
<1>2. CASE script = "deploy"
  <2> DEFINE k == Len(All) - Len(todo)
  <2>1. Len(todo) \in Nat \ {0} /\ Current = todo[1] /\ Current \in Stacks
    BY CurrentAndRest DEF SInv, TypeOK
  <2>2. AtSuffix /\ Len(All) \in Nat
    BY <1>2, AllIsSequence, LenProperties DEF HonestInv
  <2>3. Current = All[k + 1] /\ k \in Nat /\ k + 1 \in 1..Len(All)
    BY <2>1, <2>2 DEF AtSuffix
  <2>4. UNCHANGED <<script, prod, todo>> /\ stack' = [stack EXCEPT ![Current] = status]
    BY DEF Request
  <2>5. ASSUME ~prod, NEW i \in 1..k PROVE Handled(i)'
    <3>1. i \in 1..Len(All) /\ Handled(i)
      BY <1>2, <2>2, <2>3, <2>5 DEF HonestInv
    <3>2. Current # All[i]
      BY <2>3, <3>1, AllIsInjective
    <3>3. status \in Statuses
      BY DEF Statuses
    <3> QED
      BY <2>1, <2>4, <3>1, <3>2, <3>3, HandledStays
  <2>6. AtSuffix' /\ (Len(All) - Len(todo))' = k
    BY <2>2, <2>4 DEF AtSuffix, All
  <2> QED
    BY <1>2, <2>4, <2>5, <2>6 DEF HonestInv
<1> QED
  BY <1>1, <1>2 DEF Deploying

\* A deployment that stops claims nothing.
LEMMA Aborted == ASSUME Abort PROVE HonestInv'
BY DEF Abort, HonestInv

\* A stack either succeeded and is up, or stops the deployment, or is masked.
LEMMA FailedOrPassed ==
  ASSUME SInv, HonestInv, Deploying, todo # <<>>, DeployFails \/ (DeployOk /\ stack[Current] \in Up)
  PROVE  HonestInv'
<1>1. CASE script = "target" /\ DeployOk
  BY <1>1 DEF DeployOk, Advance, HonestInv
<1>2. CASE script = "deploy" /\ DeployOk
  BY <1>2, PassedOn, Aborted DEF DeployFails, Masked
<1> QED
  BY <1>1, <1>2, Aborted DEF Deploying, DeployFails

\* The same for one call of aws cloudformation deploy.
LEMMA CreatedDirectly ==
  ASSUME SInv, HonestInv, Deploying, todo # <<>>, CreateDirectly
  PROVE  HonestInv'
BY Requested, FailedOrPassed DEF CreateDirectly, MayUpdate, InProgress

\* No deployment has run at the start.
LEMMA InitHonest == Init => HonestInv
BY DEF Init, HonestInv

\* Every step keeps the deployment honest.
LEMMA NextHonest == SInv /\ HonestInv /\ [Next]_stackVars => HonestInv'
<1> SUFFICES ASSUME SInv, HonestInv, [Next]_stackVars PROVE HonestInv'
  OBVIOUS
<1>0. CASE UNCHANGED stackVars
  BY <1>0 DEF HonestInv, AtSuffix, Handled, All, stackVars
<1>1. CASE Deploy
  <2>1. todo' = All /\ script' = "deploy"
    BY <1>1 DEF Deploy, StartOther, Start, All
  <2>2. Len(All) \in Nat /\ Len(todo') = Len(All)
    BY <2>1, AllIsSequence, LenProperties
  <2>3. AtSuffix' /\ (Len(All) - Len(todo))' = 0
    BY <2>1, <2>2 DEF AtSuffix, All
  <2> QED
    BY <2>1, <2>3 DEF HonestInv
<1>2. CASE DeployTarget \/ Destroy \/ DriftDetect \/ ListAgents
  <2>1. script' \notin {"deploy", "deployed"}
    BY <1>2 DEF DeployTarget, Destroy, DriftDetect, ListAgents, StartOther, Start
  <2> QED
    BY <2>1 DEF HonestInv
<1>3. CASE DeployDirect \/ DeployChangeset
  BY <1>3, CreatedDirectly, Requested
     DEF DeployDirect, DeployChangeset, Working, InProgress
<1>4. CASE RecreateStack
  BY <1>4, CreatedDirectly DEF RecreateStack, SInv
<1>5. CASE DeployEnds
  BY <1>5, FailedOrPassed DEF DeployEnds, Up, SInv
<1>6. CASE DeleteStack \/ DeletionEnds \/ DetectStackDrift
  <2>1. script' \notin {"deploy", "deployed"}
    BY <1>6 DEF DeleteStack, DeletionEnds, DetectStackDrift, SkipStack, DeployOk, Advance,
                Request, Abort
  <2> QED
    BY <2>1 DEF HonestInv
<1>7. CASE Conclude
  <2>1. CASE script = "deploy" /\ script' = "deployed"
    <3>1. todo = <<>> /\ Len(todo) = 0 /\ Len(All) \in Nat /\ stack' = stack /\ prod' = prod
      BY <1>7, AllIsSequence, LenProperties DEF Conclude
    <3>2. ~prod => \A i \in 1..Len(All) : Handled(i)
      BY <2>1, <3>1 DEF HonestInv
    <3> QED
      BY <2>1, <3>1, <3>2 DEF HonestInv, Handled, All
  <2>2. CASE script' \notin {"deploy", "deployed"}
    BY <2>2 DEF HonestInv
  <2> QED
    BY <1>7, <2>1, <2>2 DEF Conclude
<1>8. CASE Interrupt
  BY <1>8, Aborted DEF Interrupt
<1>9. CASE \E s \in Stacks : Settle(s)
  <2>1. PICK s \in Stacks : Settle(s)
    BY <1>9
  <2>2. PICK st \in Outcomes(s) : stack' = [stack EXCEPT ![s] = st]
    BY <2>1 DEF Settle
  <2>3. stack[s] \notin Up /\ st \in Statuses
    BY <2>2 DEF Outcomes, Up, Statuses, WithResources, InProgress
  <2>4. \A i \in 1..Len(All) : Handled(i) => Handled(i)'
    BY <2>2, <2>3, HandledStays
  <2>5. UNCHANGED <<script, prod, todo>> /\ (AtSuffix => AtSuffix')
    BY <2>1 DEF Settle, AtSuffix, All
  <2>6. (Len(All) - Len(todo))' = Len(All) - Len(todo) /\ Len(All)' = Len(All)
    BY <2>5 DEF All
  <2>7. Len(todo) \in Nat /\ Len(All) \in Nat
    BY AllIsSequence, LenProperties DEF SInv, TypeOK
  <2>8. \A i \in 1..(Len(All) - Len(todo)) : i \in 1..Len(All)
    BY <2>7
  <2> QED
    BY <2>4, <2>5, <2>6, <2>8 DEF HonestInv
<1> QED
  BY <1>0, <1>1, <1>2, <1>3, <1>4, <1>5, <1>6, <1>7, <1>8, <1>9 DEF Next

\* At the end of the walk everything but the masked agents is behind it.
LEMMA HonestImplies == HonestInv => DirectDeployIsHonest
<1> SUFFICES ASSUME HonestInv, ~prod, script = "deployed",
                    NEW s \in ToSet(Foundation) \cup ToSet(Platform) \cup {Last(Agents)}
             PROVE  stack[s] \in Up
  BY DEF DirectDeployIsHonest
<1> DEFINE F == Len(Foundation)  P == Len(Platform)  A == Len(Agents)
<1>1. F \in Nat /\ P \in Nat /\ A \in Nat \ {0} /\ Len(All) = F + P + A
  BY OrdersAreSequences, AllIsSequence, ConcatProperties, LenProperties DEF All
<1>2. /\ \A i \in 1..F : All[i] = Foundation[i]
      /\ \A i \in 1..P : All[F + i] = Platform[i]
      /\ \A i \in 1..A : All[F + P + i] = Agents[i]
  BY <1>1, OrdersAreSequences, ConcatProperties DEF All
<1>3. \A i \in 1..(F + P) : All[i] \notin ToSet(Agents)
  <2> SUFFICES ASSUME NEW i \in 1..(F + P), NEW j \in 1..A, All[i] = Agents[j] PROVE FALSE
    BY OrdersAreSequences, LenProperties DEF ToSet
  <2> QED
    BY <1>1, <1>2, AllIsInjective
<1>4. \A i \in 1..Len(All) : Handled(i)
  BY DEF HonestInv
<1>5. CASE s = Last(Agents)
  <2>1. s = All[Len(All)]
    BY <1>1, <1>2, <1>5 DEF Last
  <2> QED
    BY <1>1, <1>4, <2>1 DEF Handled
<1>6. CASE s \in ToSet(Foundation) \cup ToSet(Platform)
  <2>1. PICK i \in 1..(F + P) : s = All[i]
    <3>1. CASE s \in ToSet(Foundation)
      BY <1>1, <1>2, <3>1, OrdersAreSequences, LenProperties DEF ToSet
    <3>2. CASE s \in ToSet(Platform)
      <4>1. PICK j \in 1..P : s = Platform[j]
        BY <3>2, OrdersAreSequences, LenProperties DEF ToSet
      <4>2. F + j \in 1..(F + P) /\ s = All[F + j]
        BY <1>1, <1>2, <4>1
      <4> QED
        BY <4>2
    <3> QED
      BY <1>6, <3>1, <3>2
  <2> QED
    BY <1>1, <1>3, <1>4, <2>1 DEF Handled
<1> QED
  BY <1>5, <1>6

\* Outside production "All tiers deployed successfully" is true of the
\* foundation, the platform and the last agent.
THEOREM DirectDeployIsHonestThm == Spec => []DirectDeployIsHonest
BY InitHonest, NextHonest, HonestImplies, ScriptInvariance, PTL DEF Spec

(***************************************************************************)
(* destroy.sh: a stack of its lists is gone once it was handled, and a     *)
(* stack that is up keeps what it imports from in place.                   *)
(***************************************************************************)
Running == Up \cup {"UPDATE_IN_PROGRESS"}

ImportsHeld == \A d \in Stacks : \A b \in Imports[d] : stack[d] \in Running => stack[b] # "NONE"

GoneInv ==
  /\ script = "destroy" /\ unchecked = {} =>
       \A s \in TornDown : (\A i \in 1..Len(todo) : todo[i] # s) => stack[s] = "NONE"
  /\ script = "destroyed" /\ unchecked = {} => \A s \in TornDown : stack[s] = "NONE"

\* Imports are between stacks.
LEMMA ImportsAreStacks == \A d \in Stacks : Imports[d] \subseteq Stacks
BY StacksAssumption

\* Nothing runs at the start, so nothing is imported.
LEMMA InitHeld == Init => ImportsHeld
BY ImportsAreStacks DEF Init, ImportsHeld, Running, Up

\* A script only asks for operations; they never put a stack in the running.
LEMMA RequestHeld ==
  ASSUME SInv, ImportsHeld, NEW s \in Stacks, NEW status \in InProgress, NEW next,
         status = "UPDATE_IN_PROGRESS" => stack[s] \in Up, Request(s, status, next)
  PROVE  ImportsHeld'
<1>1. \A d \in Stacks : stack'[d] = IF d = s THEN status ELSE stack[d]
  BY DEF Request, SInv, TypeOK
<1>2. \A d \in Stacks : stack'[d] \in Running => stack[d] \in Running
  BY <1>1 DEF Running, InProgress, Up
<1>3. \A d \in Stacks : stack[d] # "NONE" => stack'[d] # "NONE"
  BY <1>1 DEF InProgress
<1> QED
  BY <1>2, <1>3, ImportsAreStacks DEF ImportsHeld

\* CloudFormation refuses to delete what a running stack imports.
LEMMA SettleHeld ==
  ASSUME SInv, ImportsHeld, NEW s \in Stacks, Settle(s)
  PROVE  ImportsHeld'
<1>1. PICK st \in Outcomes(s) : stack' = [stack EXCEPT ![s] = st]
  BY DEF Settle
<1>2. \A d \in Stacks : stack'[d] = IF d = s THEN st ELSE stack[d]
  BY <1>1 DEF SInv, TypeOK
<1> SUFFICES ASSUME NEW d \in Stacks, NEW b \in Imports[d], stack'[d] \in Running
             PROVE  stack'[b] # "NONE"
  BY ImportsAreStacks DEF ImportsHeld
<1>3. b \in Stacks
  BY ImportsAreStacks
<1>4. stack[b] # "NONE"
  <2>1. CASE d = s /\ stack[s] = "CREATE_IN_PROGRESS"
    <3>1. HasImports(s)
      BY <1>1, <1>2, <2>1 DEF Outcomes, Running, Up
    <3> QED
      BY <2>1, <3>1 DEF HasImports, Up
  <2>2. CASE stack[d] \in Running
    BY <2>2 DEF ImportsHeld
  <2>3. CASE d = s /\ stack[s] = "DELETE_IN_PROGRESS"
    BY <1>1, <1>2, <2>3 DEF Outcomes, Running, Up
  <2> QED
    BY <1>1, <1>2, <2>1, <2>2, <2>3 DEF Outcomes, Running
<1>5. ASSUME b = s, st = "NONE" PROVE FALSE
  <2>1. stack[s] = "DELETE_IN_PROGRESS" /\ ~IsImported(s)
    BY <1>1, <1>5 DEF Outcomes
  <2>2. stack[d] \notin WithResources
    BY <1>5, <2>1 DEF IsImported
  <2>3. stack'[d] \notin Running
    BY <1>2, <1>5, <2>1, <2>2 DEF Running, WithResources, Up
  <2> QED
    BY <2>3
<1> QED
  BY <1>2, <1>3, <1>4, <1>5

\* Every step keeps a running stack's imports in place.
LEMMA NextHeld == SInv /\ ImportsHeld /\ [Next]_stackVars => ImportsHeld'
<1> SUFFICES ASSUME SInv, ImportsHeld, [Next]_stackVars PROVE ImportsHeld'
  OBVIOUS
<1>1. CASE UNCHANGED stack
  BY <1>1 DEF ImportsHeld
<1>2. CASE \E s \in Stacks : Settle(s)
  BY <1>2, SettleHeld
<1>3. todo # <<>> => Current \in Stacks
  BY CurrentAndRest DEF SInv, TypeOK
<1>4. ASSUME todo # <<>>, CreateDirectly PROVE ImportsHeld'
  <2>1. CASE DeployOk \/ Abort
    BY <1>1, <2>1 DEF DeployOk, Abort
  <2> QED
    BY <1>3, <1>4, <2>1, RequestHeld DEF CreateDirectly, DeployFails, MayUpdate, InProgress
<1>5. CASE DeployDirect \/ DeployChangeset \/ RecreateStack
  BY <1>3, <1>4, <1>5, RequestHeld
     DEF DeployDirect, DeployChangeset, RecreateStack, Working, SInv, InProgress, Up
<1>6. CASE DeleteStack
  BY <1>1, <1>3, <1>6, RequestHeld DEF DeleteStack, SkipStack, Abort, Working, InProgress
<1>7. CASE \/ UNCHANGED stackVars \/ Deploy \/ DeployTarget \/ DeployEnds \/ Destroy
           \/ DeletionEnds \/ DriftDetect \/ DetectStackDrift \/ ListAgents \/ Conclude
           \/ Interrupt
  <2>1. UNCHANGED stack
    BY <1>7 DEF stackVars, Deploy, DeployTarget, DeployEnds, Destroy, DeletionEnds, DriftDetect,
                DetectStackDrift, ListAgents, Conclude, Interrupt, StartOther, Start, DeployOk,
                DeployFails, Abort
  <2> QED
    BY <1>1, <2>1
<1> QED
  BY <1>2, <1>5, <1>6, <1>7 DEF Next

\* No teardown has run at the start.
LEMMA InitGone == Init => GoneInv
BY DEF Init, GoneInv

\* A teardown has all its stacks before it.
LEMMA DestroyGone == ASSUME SInv, Destroy PROVE GoneInv'
<1>1. PICK agents \in {<<>>} \cup Listing(Up \cup {"ROLLBACK_COMPLETE"}) :
        StartOther("destroy", agents \o PlatformTeardown \o FoundationTeardown)
  BY DEF Destroy
<1>2. agents \in Seq(Stacks)
  BY <1>1, ListingIsSequence, EmptySeq
<1> DEFINE g == Len(agents)  p == Len(PlatformTeardown)  f == Len(FoundationTeardown)
<1>3. /\ g \in Nat /\ p \in Nat /\ f \in Nat /\ Len(todo') = g + p + f
      /\ \A i \in 1..p : todo'[g + i] = PlatformTeardown[i]
      /\ \A i \in 1..f : todo'[g + p + i] = FoundationTeardown[i]
  BY <1>1, <1>2, OrdersAreSequences, ConcatProperties, LenProperties DEF StartOther, Start
<1>4. ASSUME NEW s \in TornDown PROVE \E i \in 1..Len(todo') : todo'[i] = s
  <2>1. CASE s \in ToSet(PlatformTeardown)
    <3>1. PICK i \in 1..p : s = PlatformTeardown[i]
      BY <2>1, OrdersAreSequences, LenProperties DEF ToSet
    <3>2. g + i \in 1..Len(todo') /\ todo'[g + i] = s
      BY <1>3, <3>1
    <3> QED
      BY <3>2
  <2>2. CASE s \in ToSet(FoundationTeardown)
    <3>1. PICK i \in 1..f : s = FoundationTeardown[i]
      BY <2>2, OrdersAreSequences, LenProperties DEF ToSet
    <3>2. g + p + i \in 1..Len(todo') /\ todo'[g + p + i] = s
      BY <1>3, <3>1
    <3> QED
      BY <3>2
  <2> QED
    BY <1>4, <2>1, <2>2 DEF TornDown
<1>5. script' = "destroy"
  BY <1>1 DEF StartOther, Start
<1> QED
  BY <1>4, <1>5 DEF GoneInv

\* On to the next stack: the one left behind is gone, or remembered as unchecked.
LEMMA LeftBehind ==
  ASSUME SInv, GoneInv, script = "destroy", todo # <<>>, Advance, UNCHANGED stack,
         unchecked' = {} => unchecked = {} /\ stack[Current] = "NONE"
  PROVE  GoneInv'
<1>1. /\ Len(todo) \in Nat \ {0} /\ Len(todo') = Len(todo) - 1 /\ Current = todo[1]
      /\ \A i \in 1..Len(todo') : todo'[i] = todo[i + 1]
  BY CurrentAndRest DEF SInv, TypeOK, Advance
<1>2. ASSUME unchecked' = {}, NEW s \in TornDown, \A i \in 1..Len(todo') : todo'[i] # s
      PROVE  stack'[s] = "NONE"
  <2>1. CASE s = Current
    BY <1>2, <2>1
  <2>2. CASE s # Current
    <3>1. \A i \in 1..Len(todo) : todo[i] # s
      <4> SUFFICES ASSUME NEW i \in 1..Len(todo), todo[i] = s PROVE FALSE
        OBVIOUS
      <4>1. i # 1 /\ i - 1 \in 1..Len(todo') /\ (i - 1) + 1 = i
        BY <1>1, <2>2
      <4>2. todo'[i - 1] = todo[(i - 1) + 1]
        BY <1>1, <4>1
      <4> QED
        BY <1>2, <4>1, <4>2
    <3> QED
      BY <1>2, <3>1 DEF GoneInv
  <2> QED
    BY <2>1, <2>2
<1>3. script' = "destroy"
  BY DEF Advance
<1> QED
  BY <1>2, <1>3 DEF GoneInv

\* A deletion that was asked for leaves the stacks behind the script alone.
LEMMA DeleteGone ==
  ASSUME SInv, GoneInv, script = "destroy", todo # <<>>, MayDelete(Current),
         Request(Current, "DELETE_IN_PROGRESS", "wait")
  PROVE  GoneInv'
<1>1. Current = todo[1] /\ 1 \in 1..Len(todo) /\ Current \in Stacks
  BY CurrentAndRest DEF SInv, TypeOK
<1>2. \A s \in Stacks : s # Current => stack'[s] = stack[s]
  BY DEF Request, SInv, TypeOK
<1>3. TornDown \subseteq Stacks
  BY DEF TornDown, Stacks
<1> QED
  BY <1>1, <1>2, <1>3 DEF Request, GoneInv

\* Every step keeps what the teardown has passed gone, or skipped.
LEMMA NextGone == SInv /\ GoneInv /\ [Next]_stackVars => GoneInv'
<1> SUFFICES ASSUME SInv, GoneInv, [Next]_stackVars PROVE GoneInv'
  OBVIOUS
<1>0. CASE UNCHANGED stackVars
  BY <1>0 DEF GoneInv, stackVars
<1>1. CASE Destroy
  BY <1>1, DestroyGone
<1>2. CASE \/ Deploy \/ DeployTarget \/ DeployDirect \/ DeployChangeset \/ RecreateStack
           \/ DeployEnds \/ DriftDetect \/ DetectStackDrift \/ ListAgents \/ Interrupt
  <2>1. script' \notin {"destroy", "destroyed"}
    BY <1>2 DEF Deploy, DeployTarget, DeployDirect, DeployChangeset, RecreateStack, DeployEnds,
                DriftDetect, DetectStackDrift, ListAgents, Interrupt, Deploying, CreateDirectly,
                DeployOk, DeployFails, StartOther, Start, Advance, Abort, Request
  <2> QED
    BY <2>1 DEF GoneInv
<1>3. CASE DeleteStack
  <2>1. CASE SkipStack
    BY <1>3, <2>1, LeftBehind DEF DeleteStack, Working, SkipStack
  <2>2. CASE Abort
    BY <2>2 DEF Abort, GoneInv
  <2> QED
    BY <1>3, <2>1, <2>2, DeleteGone DEF DeleteStack, Working
<1>4. CASE DeletionEnds
  <2>1. CASE stack[Current] = "NONE" /\ DeployOk
    BY <1>4, <2>1, LeftBehind DEF DeletionEnds, DeployOk, SInv
  <2>2. CASE Abort
    BY <2>2 DEF Abort, GoneInv
  <2> QED
    BY <1>4, <2>1, <2>2 DEF DeletionEnds
<1>5. CASE Conclude
  <2>1. CASE script = "destroy" /\ script' = "destroyed"
    <3>1. todo = <<>> /\ Len(todo) = 0
      BY <1>5 DEF Conclude
    <3>2. \A s \in TornDown : \A i \in 1..Len(todo) : todo[i] # s
      BY <3>1
    <3> QED
      BY <1>5, <2>1, <3>2 DEF Conclude, GoneInv
  <2>2. CASE script' \notin {"destroy", "destroyed"}
    BY <2>2 DEF GoneInv
  <2> QED
    BY <1>5, <2>1, <2>2 DEF Conclude
<1>6. CASE \E s \in Stacks : Settle(s)
  <2>1. PICK s \in Stacks : Settle(s)
    BY <1>6
  <2>2. \A b \in Stacks : stack[b] = "NONE" => stack'[b] = "NONE"
    BY <2>1 DEF Settle, Outcomes, SInv, TypeOK
  <2>3. TornDown \subseteq Stacks
    BY DEF TornDown, Stacks
  <2> QED
    BY <2>1, <2>2, <2>3 DEF Settle, GoneInv
<1> QED
  BY <1>0, <1>1, <1>2, <1>3, <1>4, <1>5, <1>6 DEF Next

\* An agent still running would have kept its imports, which are gone.
LEMMA GoneImplies == ImportsHeld /\ GoneInv => DestroyedMeansGone
<1> SUFFICES ASSUME ImportsHeld, GoneInv, script = "destroyed", unchecked = {},
                    NEW s \in Stacks
             PROVE  stack[s] \notin Up \cup {"UPDATE_IN_PROGRESS"}
  BY DEF DestroyedMeansGone
<1>1. \A b \in TornDown : stack[b] = "NONE"
  BY DEF GoneInv
<1>2. CASE s \in TornDown
  BY <1>1, <1>2 DEF Up
<1>3. CASE s \in ToSet(Agents)
  <2>1. PICK b \in Imports[s] : b \in TornDown
    BY <1>3, StacksAssumption
  <2> QED
    BY <1>1, <2>1 DEF ImportsHeld, Running
<1> QED
  BY <1>2, <1>3, StacksAssumption DEF Stacks, TornDown

\* "All stacks have been destroyed" is true when every lookup was answered.
THEOREM DestroyedMeansGoneThm == Spec => []DestroyedMeansGone
<1>1. Spec => []ImportsHeld
  BY InitHeld, NextHeld, ScriptInvariance, PTL DEF Spec
<1>2. Spec => []GoneInv
  BY InitGone, NextGone, ScriptInvariance, PTL DEF Spec
<1> QED
  BY <1>1, <1>2, GoneImplies, PTL

(***************************************************************************)
(* drift-detect.sh: a drifted stack is found, or it is unchecked, or it is *)
(* still to come.                                                          *)
(***************************************************************************)
ToCome(s) ==
  \/ \E i \in 1..Len(todo) : todo[i] = s
  \/ s \in ToSet(Agents) /\ script = "drift"

DriftInv ==
  /\ script \in {"drift", "drift agents"} =>
       /\ driftFound => drifted # {}
       /\ ~driftFound => \A s \in drifted : stack[s] \in Up /\ (s \in unchecked \/ ToCome(s))
  /\ DriftVerdictHolds

\* A listing holds every agent that has one of the statuses.
LEMMA ListingIsComplete ==
  ASSUME NEW statuses, NEW list \in Listing(statuses),
         NEW a \in ToSet(Agents), stack[a] \in statuses
  PROVE  \E i \in 1..Len(list) : list[i] = a
<1> DEFINE S == {b \in ToSet(Agents) : stack[b] \in statuses}
<1> DEFINE n == Cardinality(S)
<1>1. IsFiniteSet(S) /\ n \in Nat
  <2>1. IsFiniteSet(S)
    BY AgentsAreFinite, FS_Subset
  <2> QED
    BY <2>1, FS_CardinalityType
<1>2. list \in [1..n -> S] /\ \A i, j \in 1..n : i # j => list[i] # list[j]
  BY DEF Listing, SetToSeqs
<1>3. list \in Injection(1..n, S)
  BY <1>2 DEF Injection, IsInjective
<1>4. Cardinality(1..n) = Cardinality(S)
  BY <1>1, FS_Interval
<1>5. list \in Surjection(1..n, S)
  BY <1>1, <1>3, <1>4, FS_Injection
<1>6. Len(list) = n
  BY <1>1, <1>2
<1> QED
  BY <1>5, <1>6 DEF Surjection

\* No drift check has run at the start.
LEMMA InitDrift == Init => DriftInv
BY DEF Init, DriftInv, DriftVerdictHolds

\* A check has every stack that may have drifted still to come.
LEMMA StartsDrift == ASSUME SInv, DriftDetect PROVE DriftInv'
<1>1. /\ script' = "drift" /\ todo' = Foundation \o PlatformChecked /\ driftFound' = FALSE
      /\ drifted' \subseteq Stacks /\ (\A s \in drifted' : stack'[s] \in Up)
  BY DEF DriftDetect, Start
<1> DEFINE f == Len(Foundation)  p == Len(PlatformChecked)
<1>2. /\ f \in Nat /\ p \in Nat /\ Len(todo') = f + p
      /\ \A i \in 1..f : todo'[i] = Foundation[i]
      /\ \A i \in 1..p : todo'[f + i] = PlatformChecked[i]
  BY <1>1, OrdersAreSequences, ConcatProperties, LenProperties
<1>3. ASSUME NEW s \in drifted' PROVE ToCome(s)'
  <2>1. CASE s \in ToSet(Foundation)
    <3>1. PICK i \in 1..f : s = Foundation[i]
      BY <2>1, OrdersAreSequences, LenProperties DEF ToSet
    <3> QED
      BY <1>2, <3>1 DEF ToCome
  <2>2. CASE s \in ToSet(PlatformChecked)
    <3>1. PICK i \in 1..p : s = PlatformChecked[i]
      BY <2>2, OrdersAreSequences, LenProperties DEF ToSet
    <3>2. f + i \in 1..Len(todo') /\ todo'[f + i] = s
      BY <1>2, <3>1
    <3> QED
      BY <3>2 DEF ToCome
  <2> QED
    BY <1>1, <1>3, <2>1, <2>2, StacksAssumption DEF ToCome
<1> QED
  BY <1>1, <1>3 DEF DriftInv, DriftVerdictHolds

\* A stack that is passed was judged rightly, or warned about.
LEMMA DetectDrift == ASSUME SInv, DriftInv, DetectStackDrift PROVE DriftInv'
<1>1. CASE Abort
  BY <1>1 DEF Abort, DriftInv, DriftVerdictHolds
<1>2. CASE Advance /\ UNCHANGED <<stack, drifted>> /\
           (\/ unchecked' = unchecked \cup {Current} /\ UNCHANGED driftFound
            \/ unchecked' = unchecked /\ driftFound' = DriftFound(Current))
  <2>1. /\ Len(todo) \in Nat \ {0} /\ Len(todo') = Len(todo) - 1 /\ Current = todo[1]
        /\ \A i \in 1..Len(todo') : todo'[i] = todo[i + 1]
    BY <1>2, CurrentAndRest DEF DetectStackDrift, Working, SInv, TypeOK, Advance
  <2>2. script' = script /\ script \in {"drift", "drift agents"} /\ drifted' = drifted
    BY <1>2 DEF Advance, DetectStackDrift
  <2>3. driftFound' => drifted' # {}
    BY <1>2, <2>2 DEF DriftInv, DriftFound
  <2>4. ASSUME ~driftFound', NEW s \in drifted PROVE s \in unchecked' \/ ToCome(s)'
    <3>1. ~driftFound /\ (s = Current => s \in unchecked')
      <4>1. CASE unchecked' = unchecked \cup {Current} /\ UNCHANGED driftFound
        BY <2>4, <4>1, Zenon
      <4>2. CASE driftFound' = DriftFound(Current)
        BY <2>4, <4>2, Zenon DEF DriftFound
      <4> QED
        BY <1>2, <4>1, <4>2, Zenon
    <3>2. s \in unchecked \/ ToCome(s)
      BY <2>2, <2>4, <3>1 DEF DriftInv
    <3>3. ASSUME NEW i \in 1..Len(todo), todo[i] = s, s # Current PROVE ToCome(s)'
      <4>1. i - 1 \in 1..Len(todo') /\ (i - 1) + 1 = i
        BY <2>1, <3>3
      <4>2. todo'[i - 1] = s
        BY <2>1, <3>3, <4>1
      <4> QED
        BY <4>1, <4>2 DEF ToCome
    <3>4. s \in ToSet(Agents) /\ script = "drift" => ToCome(s)'
      BY <2>2 DEF ToCome
    <3>5. unchecked \subseteq unchecked'
      BY <1>2
    <3> QED
      BY <3>1, <3>2, <3>3, <3>4, <3>5 DEF ToCome
  <2>5. ~driftFound' => \A s \in drifted' : stack'[s] \in Up
    <3>1. ~driftFound' => ~driftFound
      BY <1>2, Zenon DEF DriftFound
    <3> QED
      BY <1>2, <2>2, <3>1 DEF DriftInv
  <2> QED
    BY <2>2, <2>3, <2>4, <2>5 DEF DriftInv, DriftVerdictHolds
<1> QED
  BY <1>1, <1>2 DEF DetectStackDrift, drift

\* The agents are listed, or warned about.
LEMMA ListDrift == ASSUME SInv, DriftInv, ListAgents PROVE DriftInv'
<1>1. /\ script = "drift" /\ script' = "drift agents"
      /\ UNCHANGED <<stack, drifted, driftFound>> /\ unchecked \subseteq unchecked'
  BY DEF ListAgents, drift
<1>0. Len(todo) = 0
  BY DEF ListAgents
<1>2. ASSUME ~driftFound, NEW s \in drifted PROVE s \in unchecked' \/ ToCome(s)'
  <2>1. stack[s] \in Up /\ (s \in unchecked \/ s \in ToSet(Agents))
    <3>1. \A i \in 1..Len(todo) : FALSE
      BY <1>0
    <3>2. stack[s] \in Up /\ (s \in unchecked \/ ToCome(s))
      BY <1>1, <1>2 DEF DriftInv
    <3> QED
      BY <3>1, <3>2 DEF ToCome
  <2>2. CASE s \in ToSet(Agents) /\ todo' \in Listing(Up)
    BY <2>1, <2>2, ListingIsComplete DEF ToCome
  <2>3. CASE s \in ToSet(Agents) /\ unchecked' = unchecked \cup ToSet(Agents)
    BY <2>3
  <2> QED
    BY <1>1, <2>1, <2>2, <2>3 DEF ListAgents
<1> QED
  BY <1>1, <1>2 DEF DriftInv, DriftVerdictHolds

\* Every step keeps a drifted stack found, unchecked or still to come.
LEMMA NextDrift == SInv /\ DriftInv /\ [Next]_stackVars => DriftInv'
<1> SUFFICES ASSUME SInv, DriftInv, [Next]_stackVars PROVE DriftInv'
  OBVIOUS
<1>0. CASE UNCHANGED stackVars
  BY <1>0 DEF DriftInv, DriftVerdictHolds, ToCome, stackVars, drift
<1>1. CASE DriftDetect
  BY <1>1, StartsDrift
<1>2. CASE DetectStackDrift
  BY <1>2, DetectDrift
<1>3. CASE ListAgents
  BY <1>3, ListDrift
<1>4. CASE \/ Deploy \/ DeployTarget \/ DeployDirect \/ DeployChangeset \/ RecreateStack
           \/ DeployEnds \/ Destroy \/ DeleteStack \/ DeletionEnds \/ Interrupt
  <2>1. script' \notin {"drift", "drift agents", "clean", "drifted"}
    BY <1>4 DEF Deploy, DeployTarget, DeployDirect, DeployChangeset, RecreateStack, DeployEnds,
                Destroy, DeleteStack, DeletionEnds, Interrupt, Deploying, CreateDirectly,
                SkipStack, DeployOk, DeployFails, StartOther, Start, Advance, Abort, Request
  <2> QED
    BY <2>1 DEF DriftInv, DriftVerdictHolds
<1>5. CASE Conclude
  <2>1. CASE script = "drift agents"
    <3>1. Len(todo) = 0
      BY <1>5 DEF Conclude
    <3>2. ~driftFound => drifted \subseteq unchecked
      <4>1. \A i \in 1..Len(todo) : FALSE
        BY <3>1
      <4>2. \A s \in drifted : ~ToCome(s)
        BY <2>1, <4>1 DEF ToCome
      <4> QED
        BY <2>1, <4>2 DEF DriftInv
    <3> QED
      BY <1>5, <2>1, <3>2 DEF Conclude, DriftInv, DriftVerdictHolds, drift
  <2>2. CASE script' \notin {"drift", "drift agents", "clean", "drifted"}
    BY <2>2 DEF DriftInv, DriftVerdictHolds
  <2> QED
    BY <1>5, <2>1, <2>2 DEF Conclude
<1>6. CASE \E s \in Stacks : Settle(s)
  <2>1. PICK s \in Stacks : Settle(s)
    BY <1>6
  <2>2. \A d \in Stacks : stack[d] \in Up => stack'[d] \in Up
    BY <2>1 DEF Settle, Outcomes, SInv, TypeOK, Up
  <2>3. drifted \subseteq Stacks
    BY DEF SInv, TypeOK
  <2> QED
    BY <2>1, <2>2, <2>3 DEF Settle, DriftInv, DriftVerdictHolds, ToCome, drift
<1> QED
  BY <1>0, <1>1, <1>2, <1>3, <1>4, <1>5, <1>6 DEF Next

\* The verdict of drift-detect.sh is true but for the unchecked stacks.
THEOREM DriftVerdictHoldsThm == Spec => []DriftVerdictHolds
<1>1. DriftInv => DriftVerdictHolds
  BY DEF DriftInv
<1> QED
  BY <1>1, InitDrift, NextDrift, ScriptInvariance, PTL DEF Spec
=============================================================================
