------------------------- MODULE MCPromptTemplates -------------------------
(***************************************************************************)
(* Two agents of two categories, one session's log with two timestamps and *)
(* two steps, and one template with two versions.                          *)
(***************************************************************************)
EXTENDS PromptTemplates

Agent(id, category, status) == [agentId |-> id, category |-> category, status |-> status]
Entry(time, step) == [requestId |-> "session", stepTimestamp |-> time, stepIndex |-> step]
PromptVersion(version, text) ==
  [templateId |-> "deployment-v1", taskCategory |-> "deployment", version |-> version,
   systemPrompt |-> text]

MCItems ==
  [registry |-> {Agent(id, c, "ACTIVE") : id \in {"a1", "a2"}, c \in {"deployment", "review"}},
   logs |-> {Entry(time, step) : time \in {"t1", "t2"}, step \in {"0", "1"}},
   prompts |-> {PromptVersion(v, text) : v \in {"1", "2"}, text \in {"old", "new"}}]
MCTables == DOMAIN MCItems
MCSeed ==
  [registry |-> {Agent("a1", "deployment", "ACTIVE")}, logs |-> {},
   prompts |-> {PromptVersion("1", "old")}]
MCFirstAttr ==
  [registry |-> "agentId", logs |-> "requestId", prompts |-> "templateId"]
MCKeyAttrs ==
  [registry |-> <<"agentId">>, logs |-> <<"requestId", "stepTimestamp">>,
   prompts |-> <<"taskCategory", "version">>]
MCPatches ==
  [registry |-> {[status |-> "ACTIVE"], [status |-> "DOWN"]}, logs |-> {}, prompts |-> {}]

MCTemplateId == [deployment |-> "deployment-v1"]
MCCategories == DOMAIN MCTemplateId
MCTemplateFile == [deployment |-> PromptVersion("1", "file")]
=============================================================================
