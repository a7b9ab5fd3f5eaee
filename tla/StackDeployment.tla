--------------------------- MODULE StackDeployment ---------------------------
(***************************************************************************)
(* The deployment scripts against CloudFormation: deploy.sh and the make   *)
(* targets, destroy.sh and drift-detect.sh, run one at a time by an        *)
(* operator who may interrupt any of them.  A script works through a list  *)
(* of stacks; each call to CloudFormation may fail, and an operation that  *)
(* was started ends by itself, whether its script is still there or not.   *)
(*                                                                         *)
(* CREATE_COMPLETE and UPDATE_COMPLETE are one status here, "COMPLETE":    *)
(* no script tells them apart.                                             *)
(***************************************************************************)
EXTENDS Naturals, Sequences, SequencesExt

CONSTANTS
  Foundation, Platform, Agents,             (* stacks, in deployment order *)
  PlatformTeardown, FoundationTeardown,     (* and in destroy.sh's order   *)
  PlatformChecked,                          (* and in drift-detect.sh's    *)
  Imports       (* the stacks whose exports each stack imports             *)

VARIABLES
  prod,         (* ENV is prod or production                               *)
  stack,        (* StackStatus of each stack                               *)
  script,       (* what runs, or what the last run said                    *)
  todo,         (* stacks the script has yet to handle                     *)
  phase,        (* where it is with the first of them                      *)
  unchecked,    (* stacks this script skipped, or warned about             *)
  drifted,      (* stacks that differ from their template, in a drift run  *)
  driftFound    (* DRIFT_FOUND                                             *)

drift == <<drifted, driftFound>>
stackVars == <<prod, stack, script, todo, phase, unchecked, drift>>

Stacks == ToSet(Foundation) \cup ToSet(Platform) \cup ToSet(Agents)
            \cup ToSet(PlatformTeardown) \cup ToSet(FoundationTeardown)
            \cup ToSet(PlatformChecked)

TornDown == ToSet(PlatformTeardown) \cup ToSet(FoundationTeardown)

ASSUME StacksAssumption ==
  /\ \A order \in {Foundation, Platform, Agents, PlatformTeardown, FoundationTeardown,
                   PlatformChecked} : order \in Seq(Stacks)
  /\ IsInjective(Foundation \o Platform \o Agents)
  /\ Agents # <<>>
  /\ Imports \in [Stacks -> SUBSET Stacks]
  /\ ToSet(Foundation) \cup ToSet(Platform) \cup ToSet(PlatformChecked) \subseteq TornDown
  /\ \A a \in ToSet(Agents) : Imports[a] \cap TornDown # {}
  /\ Stacks = ToSet(Foundation) \cup ToSet(PlatformChecked) \cup ToSet(Agents)

InProgress == {"CREATE_IN_PROGRESS", "UPDATE_IN_PROGRESS", "DELETE_IN_PROGRESS"}
\* A stack that was created once, and updated or not: its resources exist.
Up == {"COMPLETE", "UPDATE_ROLLBACK_COMPLETE"}
\* Statuses with resources behind them, whose imports CloudFormation holds.
WithResources == Up \cup {"UPDATE_IN_PROGRESS", "DELETE_IN_PROGRESS", "DELETE_FAILED"}
Statuses == InProgress \cup WithResources \cup {"NONE", "ROLLBACK_COMPLETE"}

AtPrompt == {"idle", "deployed", "destroyed", "clean", "drifted"}
Deploying == script \in {"deploy", "target"}

Init ==
  /\ prod \in BOOLEAN
  /\ stack = [s \in Stacks |-> "NONE"]
  /\ script = "idle" /\ todo = <<>> /\ phase = "start"
  /\ unchecked = {} /\ drifted = {} /\ driftFound = FALSE

(***************************************************************************)
(* CloudFormation: operations end, well or badly.  A creation or an update *)
(* needs the exports it imports, a deletion is refused while another stack *)
(* imports from this one.                                                  *)
(***************************************************************************)
HasImports(s) == \A b \in Imports[s] : stack[b] \in Up
IsImported(s) == \E d \in Stacks : s \in Imports[d] /\ stack[d] \in WithResources

Outcomes(s) ==
  CASE stack[s] = "CREATE_IN_PROGRESS" ->
         {"ROLLBACK_COMPLETE"} \cup {st \in {"COMPLETE"} : HasImports(s)}
    [] stack[s] = "UPDATE_IN_PROGRESS" ->
         {"UPDATE_ROLLBACK_COMPLETE"} \cup {st \in {"COMPLETE"} : HasImports(s)}
    [] stack[s] = "DELETE_IN_PROGRESS" ->
         {"DELETE_FAILED"} \cup {st \in {"NONE"} : ~IsImported(s)}
    [] OTHER -> {}

Settle(s) ==
  /\ \E st \in Outcomes(s) : stack' = [stack EXCEPT ![s] = st]
  /\ UNCHANGED <<prod, script, todo, phase, unchecked, drift>>

\* What may become of a stack whose deletion is asked for; a call may also fail.
MayDelete(s) == stack[s] \notin {"NONE", "UPDATE_IN_PROGRESS"}
\* "aws cloudformation deploy": a new stack is created, one that is up updated.
MayCreate(s) == stack[s] = "NONE"
MayUpdate(s) == stack[s] \in Up

(***************************************************************************)
(* Scripts in general: which stack they are at, and how they go on.        *)
(***************************************************************************)
Current == Head(todo)
Working == script \notin AtPrompt /\ todo # <<>>

\* On to the next stack, with what is kept about this one.
Advance ==
  /\ todo' = Tail(todo) /\ phase' = "start"
  /\ UNCHANGED <<prod, script>>

\* set -e, or make at a failing recipe line: the run ends here.
Abort ==
  /\ script' = "idle" /\ todo' = <<>> /\ phase' = "start"
  /\ unchecked' = {} /\ drifted' = {} /\ driftFound' = FALSE
  /\ UNCHANGED <<prod, stack>>

\* A call was accepted, and the script waits for its end.
Request(s, status, next) ==
  /\ stack' = [stack EXCEPT ![s] = status]
  /\ phase' = next
  /\ UNCHANGED <<prod, script, todo, unchecked, drift>>

Interrupt == script \notin AtPrompt /\ Abort

Start(name, list) ==
  /\ script \in AtPrompt
  /\ script' = name /\ todo' = list /\ phase' = "start"
  /\ unchecked' = {} /\ driftFound' = FALSE
  /\ UNCHANGED <<prod, stack>>

StartOther(name, list) == Start(name, list) /\ drifted' = {}

(***************************************************************************)
(* deploy.sh, the make targets and update-agent.sh.                        *)
(***************************************************************************)
Deploy == StartOther("deploy", Foundation \o Platform \o Agents)

\* deploy-foundation, deploy-platform, deploy-agents and deploy-agent.
DeployTarget ==
  \E list \in {Foundation, Platform, Agents} \cup {<<a>> : a \in ToSet(Agents)} :
    StartOther("target", list)

\* The shell's exit status is that of the last command of a chain or a loop:
\* the chain of deploy-changeset ends with an echo, the loop of deploy-agents
\* with its last agent.  A failure before the last is not seen by make.
Masked_Always == TRUE
Masked == prod \/ (Current \in ToSet(Agents) /\ Len(todo) > 1)

DeployOk == Advance /\ UNCHANGED <<stack, unchecked, drift>>
DeployFails ==
  \/ Masked /\ DeployOk
  \/ ~Masked /\ Abort

\* "aws cloudformation deploy", whose empty change set is no failure.
CreateDirectly ==
  \/ MayCreate(Current) /\ Request(Current, "CREATE_IN_PROGRESS", "wait")
  \/ MayUpdate(Current) /\ Request(Current, "UPDATE_IN_PROGRESS", "wait")
  \/ MayUpdate(Current) /\ DeployOk
  \/ DeployFails

DeployDirect ==
  /\ Deploying /\ Working /\ phase = "start" /\ ~prod
  /\ CreateDirectly

\* grep for ROLLBACK_COMPLETE finds it in UPDATE_ROLLBACK_COMPLETE as well.
DeletedFirst == {"ROLLBACK_COMPLETE", "UPDATE_ROLLBACK_COMPLETE"}

\* A lookup that fails is taken for a stack that does not exist.
DeployChangeset ==
  /\ Deploying /\ Working /\ phase = "start" /\ prod
  /\ \/ stack[Current] \in DeletedFirst /\ Request(Current, "DELETE_IN_PROGRESS", "deletion")
     \/ CreateDirectly
     \/ stack[Current] = "COMPLETE" /\ Request(Current, "UPDATE_IN_PROGRESS", "wait")

\* However the deletion went: each of its commands is followed by "|| true".
RecreateStack ==
  /\ Deploying /\ phase = "deletion" /\ stack[Current] # "DELETE_IN_PROGRESS"
  /\ CreateDirectly

DeployEnds ==
  /\ Deploying /\ phase = "wait" /\ stack[Current] \notin InProgress
  /\ \/ stack[Current] = "COMPLETE" /\ DeployOk
     \/ stack[Current] # "COMPLETE" /\ DeployFails

(***************************************************************************)
(* destroy.sh and drift-detect.sh.  Both find the agents by listing stacks *)
(* in certain statuses, in any order; a list that fails is taken for an    *)
(* empty one.                                                              *)
(***************************************************************************)
Listing_Statuses(statuses) ==
  SetToSeqs({stack[a] : a \in {a \in ToSet(Agents) : stack[a] \in statuses}})
Listing(statuses) == SetToSeqs({a \in ToSet(Agents) : stack[a] \in statuses})

Destroy ==
  \E agents \in {<<>>} \cup Listing(Up \cup {"ROLLBACK_COMPLETE"}) :
    StartOther("destroy", agents \o PlatformTeardown \o FoundationTeardown)

\* A stack that is not found is skipped; so is one whose lookup fails.
SkipStack ==
  /\ Advance
  /\ unchecked' = IF stack[Current] = "NONE" THEN unchecked ELSE unchecked \cup {Current}
  /\ UNCHANGED <<stack, drift>>

DeleteStack ==
  /\ script = "destroy" /\ Working /\ phase = "start"
  /\ \/ SkipStack
     \/ MayDelete(Current) /\ Request(Current, "DELETE_IN_PROGRESS", "wait")
     \/ stack[Current] # "NONE" /\ Abort

\* A deletion that fails returns 1, and set -e ends the script.
DeletionEnds_GoesOn ==
  /\ script = "destroy" /\ phase = "wait" /\ stack[Current] # "DELETE_IN_PROGRESS"
  /\ DeployOk
DeletionEnds ==
  /\ script = "destroy" /\ phase = "wait" /\ stack[Current] # "DELETE_IN_PROGRESS"
  /\ \/ stack[Current] = "NONE" /\ DeployOk
     \/ stack[Current] # "NONE" /\ Abort

DriftDetect ==
  /\ Start("drift", Foundation \o PlatformChecked)
  /\ drifted' \in SUBSET {s \in Stacks : stack[s] \in Up}

\* grep COMPLETE
Stable == Up \cup {"ROLLBACK_COMPLETE"}

DriftFound_LastOnly(s) == s \in drifted
DriftFound(s) == driftFound \/ s \in drifted

DetectStackDrift ==
  /\ script \in {"drift", "drift agents"} /\ Working
  /\ \/ \* not there, not stable, or no complete detection in 30 polls
        /\ Advance /\ unchecked' = unchecked \cup {Current} /\ UNCHANGED <<stack, drift>>
     \/ /\ stack[Current] \in Stable
        /\ Advance /\ driftFound' = DriftFound(Current)
        /\ UNCHANGED <<stack, unchecked, drifted>>
     \/ stack[Current] \in Stable /\ Abort

ListAgents ==
  /\ script = "drift" /\ todo = <<>>
  /\ script' = "drift agents"
  /\ \/ todo' \in Listing(Up) /\ UNCHANGED unchecked
     \/ todo' = <<>> /\ unchecked' = unchecked \cup ToSet(Agents)
  /\ UNCHANGED <<prod, stack, phase, drift>>

\* The last line of a script, after its last stack.
Conclude ==
  /\ todo = <<>>
  /\ \/ script = "deploy" /\ script' = "deployed"
     \/ script = "target" /\ script' = "idle"
     \/ script = "destroy" /\ script' = "destroyed"
     \/ script = "drift agents" /\ ~driftFound /\ script' = "clean"
     \/ script = "drift agents" /\ driftFound /\ script' = "drifted"
  /\ UNCHANGED <<prod, stack, todo, phase, unchecked, drift>>

Next ==
  \/ Deploy \/ DeployTarget \/ DeployDirect \/ DeployChangeset \/ RecreateStack \/ DeployEnds
  \/ Destroy \/ DeleteStack \/ DeletionEnds
  \/ DriftDetect \/ DetectStackDrift \/ ListAgents
  \/ Conclude \/ Interrupt
  \/ \E s \in Stacks : Settle(s)

Spec == Init /\ [][Next]_stackVars

(***************************************************************************)
(* Properties.                                                             *)
(***************************************************************************)

\* Each variable has its type.
TypeOK ==
  /\ prod \in BOOLEAN /\ driftFound \in BOOLEAN
  /\ stack \in [Stacks -> Statuses]
  /\ script \in AtPrompt \cup {"deploy", "target", "destroy", "drift", "drift agents"}
  /\ todo \in Seq(Stacks)
  /\ phase \in {"start", "wait", "deletion"}
  /\ unchecked \subseteq Stacks /\ drifted \subseteq Stacks

\* deploy.sh outside production: when it says that all tiers are deployed, the
\* foundation, the platform and the last agent are, whatever failed, was
\* interrupted or was left half done by the runs before.
DirectDeployIsHonest ==
  ~prod /\ script = "deployed" =>
    \A s \in ToSet(Foundation) \cup ToSet(Platform) \cup {Last(Agents)} : stack[s] \in Up

\* destroy.sh: when it says that all stacks are destroyed, and every lookup was
\* answered, no stack is up; an agent it did not list, being updated or stuck in a
\* failed deletion, would have kept its imports from going.
DestroyedMeansGone ==
  script = "destroyed" /\ unchecked = {} =>
    \A s \in Stacks : stack[s] \notin Up \cup {"UPDATE_IN_PROGRESS"}

\* drift-detect.sh: its verdict is true but for the stacks it has warned about,
\* and it raises no false alarm.
DriftVerdictHolds ==
  /\ script = "clean" => drifted \subseteq unchecked
  /\ script = "drifted" => drifted # {}

\* Makefile:46-47, "For existing stacks: creates a change set, shows diff,
\* executes": a deployment deletes no stack that has resources.
DeployKeepsStacks ==
  [][Deploying => \A s \in Stacks : stack[s] \in Up => stack'[s] # "DELETE_IN_PROGRESS"]_stackVars
=============================================================================
