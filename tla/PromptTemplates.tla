--------------------------- MODULE PromptTemplates ---------------------------
(***************************************************************************)
(* The prompt loader over the storage helpers: a template is read once per *)
(* process and task category, from a local file or from the registry       *)
(* table, and kept by lru_cache, whose 128 places the categories never     *)
(* fill.  A load that fails is not kept.                                   *)
(***************************************************************************)
EXTENDS StorageTables, FiniteSets

CONSTANTS
  Categories,       (* task categories                                     *)
  TemplateId,       (* the template_id the loader asks for, per category   *)
  TemplateFile,     (* the template in mock_templates, per category        *)
  Prompts,          (* the name of the prompt template table               *)
  Registry          (* the name of the sub-agent table                     *)

\* The registry is keyed by its first attribute, and no other attribute of an agent is
\* called like a category; nothing updates a template.
ASSUME LoaderAssumption ==
  /\ Prompts \in Tables /\ Patches[Prompts] = {}
  /\ DOMAIN TemplateFile = Categories
  /\ Registry \in SingleKeyed
  /\ \A i \in Items[Registry] :
       /\ "category" \in DOMAIN i
       /\ \A x \in Items[Registry] \cup Patches[Registry] : \A a \in DOMAIN x \ {"category"} :
            x[a] # i.category

VARIABLES
  source,       (* "file" with MOCK_PROMPTS, else "mock" or "deployed"     *)
  cache,        (* load_prompt_template's cache: category to template      *)
  served        (* history: the templates each category's callers got      *)

promptVars == <<tableVars, source, cache, served>>

Init ==
  /\ TablesInit
  /\ source \in {"file", "mock", "deployed"}
  /\ cache = [c \in {} |-> NoItem]
  /\ served = [c \in Categories |-> {}]

(***************************************************************************)
(* The key asks for a templateId, which is no key attribute of the         *)
(* deployed table: that get_item raises, and so does a missing template.   *)
(***************************************************************************)
LoadKey(c) == [a \in {"templateId"} |-> TemplateId[c]]

Loaded(c) ==
  CASE source = "file" -> TemplateFile[c]
    [] source = "mock" -> MockGet(Prompts, LoadKey(c))
    [] source = "deployed" ->
         IF DOMAIN LoadKey(c) = Range(KeyAttrs[Prompts]) THEN TableGet(Prompts, LoadKey(c))
                                                        ELSE NoItem

Template_Reloaded(c) == Loaded(c)
Template(c) == IF c \in DOMAIN cache THEN cache[c] ELSE Loaded(c)

Found_EvenNone(c) == TRUE
Found(c) == Template(c) # NoItem

LoadPromptTemplate(c) ==
  /\ Found(c)
  /\ cache' = Stored(cache, c, Template(c))
  /\ served' = [served EXCEPT ![c] = @ \cup {Template(c)}]
  /\ UNCHANGED <<tableVars, source>>

Write == WriteTables /\ UNCHANGED <<source, cache, served>>

Next == Write \/ \E c \in Categories : LoadPromptTemplate(c)

Spec == Init /\ [][Next]_promptVars

----------------------------------------------------------------------------
(* Properties *)

TypeOK ==
  /\ \A t \in Tables : \A k \in DOMAIN table[t] : TableKey(t, table[t][k]) = k
  /\ source \in {"file", "mock", "deployed"}
  /\ DOMAIN cache \subseteq Categories
  /\ served \in [Categories -> SUBSET (Items[Prompts] \cup Range(TemplateFile))]

\* Whatever is written to the registry, all callers of a process get one template for a
\* category: an edit is not seen, and no two requests disagree.
TemplatesAreStable == \A c \in Categories : Cardinality(served[c]) <= 1

\* The registry query of the nodes gets the same agents from the mock, which looks at all
\* attributes, as from the index of the table on the category.
RegistryQueryAgrees ==
  \A i \in Items[Registry] :
    MockQuery(Registry, i.category) = IndexQuery(Registry, "category", i.category)
=============================================================================
