----------------------- MODULE PromptTemplates_proofs -----------------------
(***************************************************************************)
(* The prompt loader, for every set of tables, templates and categories.   *)
(***************************************************************************)
EXTENDS PromptTemplates, StorageTables_proofs, FiniteSetTheorems

\* Every caller of a category got the template that is in the cache.
ServedFromCache ==
  /\ served = [c \in Categories |-> served[c]]
  /\ \A c \in Categories :
       IF c \in DOMAIN cache THEN served[c] \subseteq {cache[c]} ELSE served[c] = {}

\* Before the first load nothing is served or cached.
LEMMA InitServed == Init => ServedFromCache
BY DEF Init, ServedFromCache

\* A load serves what is cached, or caches what it serves.
LEMMA LoadServed ==
  ASSUME ServedFromCache, NEW c \in Categories, LoadPromptTemplate(c)
  PROVE  ServedFromCache'
<1>1. /\ DOMAIN cache' = DOMAIN cache \cup {c} /\ cache'[c] = Template(c)
      /\ \A d \in DOMAIN cache : d # c => cache'[d] = cache[d]
  BY DEF LoadPromptTemplate, Stored, Overridden
<1>2. /\ served' = [d \in Categories |-> served'[d]]
      /\ served'[c] = served[c] \cup {Template(c)}
      /\ \A d \in Categories : d # c => served'[d] = served[d]
  BY DEF LoadPromptTemplate, ServedFromCache
<1>3. served[c] \subseteq {Template(c)}
  BY DEF ServedFromCache, Template
<1> QED
  BY <1>1, <1>2, <1>3 DEF ServedFromCache

\* Every step keeps what was served in the cache.
LEMMA NextServed == ServedFromCache /\ [Next]_promptVars => ServedFromCache'
<1> SUFFICES ASSUME ServedFromCache, [Next]_promptVars PROVE ServedFromCache'
  OBVIOUS
<1>1. CASE \E c \in Categories : LoadPromptTemplate(c)
  BY <1>1, LoadServed
<1>2. CASE Write \/ UNCHANGED promptVars
  BY <1>2 DEF Write, promptVars, ServedFromCache
<1> QED
  BY <1>1, <1>2 DEF Next

\* All callers of a process get one template for a category.
THEOREM TemplatesAreStableThm == Spec => []TemplatesAreStable
<1>1. ServedFromCache => TemplatesAreStable
  <2> SUFFICES ASSUME ServedFromCache, NEW c \in Categories
               PROVE  Cardinality(served[c]) <= 1
    BY DEF TemplatesAreStable
  <2>1. served[c] = {} \/ served[c] = {cache[c]}
    BY DEF ServedFromCache
  <2>2. CASE served[c] = {}
    BY <2>2, FS_EmptySet
  <2>3. CASE served[c] = {cache[c]}
    <3>1. Cardinality({cache[c]}) = 1
      BY FS_Singleton
    <3> QED
      BY <2>3, <3>1
  <2> QED
    BY <2>1, <2>2, <2>3
<1> QED
  BY <1>1, InitServed, NextServed, PTL DEF Spec

----------------------------------------------------------------------------
(* The storage helpers under the loader *)

\* Loading a template writes to no table.
LEMMA LoaderWritesNothing == Spec => TablesSpec
<1>1. Init => TablesInit
  BY DEF Init
<1>2. [Next]_promptVars => [WriteTables]_tableVars
  BY DEF Next, Write, LoadPromptTemplate, promptVars, tableVars
<1> QED
  BY <1>1, <1>2, PTL DEF Spec, TablesSpec

\* Loading templates does not write: the agreement of the backends carries over.
THEOREM LoaderMockAnswersAsTable == Spec => []MockAnswersAsTable
  BY LoaderWritesNothing, MockAnswersAsTableThm, PTL

\* So does what the mock forgets.
THEOREM LoaderMockOnlyForgets == Spec => []MockOnlyForgets
  BY LoaderWritesNothing, MockOnlyForgetsThm, PTL

----------------------------------------------------------------------------
(* Types *)

Templates == Items[Prompts] \cup Range(TemplateFile)

\* What the loader keeps and has handed out are templates that were written or on file.
LoaderTypes ==
  /\ source \in {"file", "mock", "deployed"}
  /\ DOMAIN cache \subseteq Categories /\ \A c \in DOMAIN cache : cache[c] \in Templates
  /\ served \in [Categories -> SUBSET Templates]

\* A load that finds something finds a template.
LEMMA LoadedIsTemplate ==
  ASSUME TablesInv, LoaderTypes, NEW c \in Categories, Found(c)
  PROVE  Template(c) \in Templates
<1>1. Range(mock[Prompts]) \cup Range(table[Prompts]) \subseteq Items[Prompts]
  BY LoaderAssumption DEF TablesInv, Contents
<1>2. CASE c \in DOMAIN cache
  BY <1>2 DEF Template, LoaderTypes
<1>3. CASE c \notin DOMAIN cache
  <2>1. Template(c) = Loaded(c) /\ Loaded(c) # NoItem
    BY <1>3 DEF Template, Found
  <2>2. CASE source = "file"
    <3>1. Loaded(c) = TemplateFile[c]
      BY <2>2 DEF Loaded
    <3> QED
      BY <2>1, <3>1, LoaderAssumption DEF Templates, Range
  <2>3. CASE source = "mock"
    <3> DEFINE hits == Range(LoadKey(c)) \cap DOMAIN mock[Prompts]
    <3>1. Loaded(c) = MockGet(Prompts, LoadKey(c))
      BY <2>3 DEF Loaded
    <3>2. hits # {} /\ Loaded(c) = mock[Prompts][AnyOf(hits)]
      BY <2>1, <3>1 DEF MockGet
    <3>3. AnyOf(hits) \in DOMAIN mock[Prompts]
      BY <3>2 DEF AnyOf
    <3>4. Loaded(c) \in Range(mock[Prompts])
      BY <3>2, <3>3 DEF Range
    <3> QED
      BY <1>1, <2>1, <3>4 DEF Templates
  <2>4. CASE source = "deployed"
    <3>1. Loaded(c) = TableGet(Prompts, LoadKey(c))
      BY <2>1, <2>4 DEF Loaded
    <3>2. Loaded(c) \in Range(table[Prompts])
      BY <2>1, <3>1 DEF TableGet, Range
    <3> QED
      BY <1>1, <2>1, <3>2 DEF Templates
  <2> QED
    BY <2>2, <2>3, <2>4 DEF LoaderTypes
<1> QED
  BY <1>2, <1>3

\* Loads and writes keep the types.
LEMMA NextTypes == TablesInv /\ LoaderTypes /\ [Next]_promptVars => LoaderTypes'
<1> SUFFICES ASSUME TablesInv, LoaderTypes, [Next]_promptVars PROVE LoaderTypes'
  OBVIOUS
<1>1. ASSUME NEW c \in Categories, LoadPromptTemplate(c) PROVE LoaderTypes'
  <2>1. Template(c) \in Templates
    BY <1>1, LoadedIsTemplate DEF LoadPromptTemplate
  <2>2. /\ DOMAIN cache' = DOMAIN cache \cup {c} /\ cache'[c] = Template(c)
        /\ \A d \in DOMAIN cache : d # c => cache'[d] = cache[d]
    BY <1>1 DEF LoadPromptTemplate, Stored, Overridden
  <2>3. served' \in [Categories -> SUBSET Templates] /\ source' = source
    BY <1>1, <2>1 DEF LoadPromptTemplate, LoaderTypes
  <2> QED
    BY <2>1, <2>2, <2>3 DEF LoaderTypes
<1>2. CASE Write \/ UNCHANGED promptVars
  BY <1>2 DEF Write, promptVars, LoaderTypes
<1> QED
  BY <1>1, <1>2 DEF Next

\* Every item of the table stays under its own key, and what is handed out as a template is
\* one: a load that finds nothing is neither kept nor served.
THEOREM LoaderTypeCorrect == Spec => []TypeOK
<1>1. Init => LoaderTypes
  BY DEF Init, LoaderTypes
<1>2. TablesInv /\ LoaderTypes => TypeOK
  BY DEF TablesInv, Contents, Held, LoaderTypes, TypeOK, Templates
<1>3. Spec => []TablesInv
  BY LoaderWritesNothing, TablesInvariance, PTL
<1> QED
  BY <1>1, <1>2, <1>3, NextTypes, PTL DEF Spec

----------------------------------------------------------------------------
(* The query of the registry *)

\* No attribute of an item but its category is called like a category.
Undisguised(item) ==
  \A i \in Items[Registry] : \A a \in DOMAIN item \ {"category"} : item[a] # i.category

AgentsUndisguised ==
  \A item \in Range(mock[Registry]) \cup Range(table[Registry]) : Undisguised(item)

\* An update cannot give an agent a disguise: no patch has one.
LEMMA UpdateUndisguised ==
  ASSUME NEW old, Undisguised(old), NEW patch \in Patches[Registry]
  PROVE  Undisguised(Overridden(old, patch))
BY LoaderAssumption DEF Undisguised, Overridden

\* No write gives an agent a disguise.
LEMMA WriteUndisguised ==
  ASSUME TablesInv, AgentsUndisguised, WriteTables
  PROVE  AgentsUndisguised'
<1>0. Registry \in Tables
  BY LoaderAssumption DEF SingleKeyed
<1>1a. PICK t \in Tables : \E item \in Items[t] :
        \/ PutItem(t, item)
        \/ \E patch \in Patches[t] : UpdateItem(t, TableKey(t, item), patch)
  BY DEF WriteTables
<1>1. PICK item \in Items[t] :
        \/ PutItem(t, item)
        \/ \E patch \in Patches[t] : UpdateItem(t, TableKey(t, item), patch)
  BY <1>1a
<1>2. CASE t # Registry
  <2>1. mock'[Registry] = mock[Registry] /\ table'[Registry] = table[Registry]
    BY <1>0, <1>1, <1>2 DEF PutItem, UpdateItem, TablesInv, Contents
  <2> QED
    BY <2>1 DEF AgentsUndisguised, Undisguised
<1>3. CASE t = Registry
  <2>1. PICK k, key, inMock, inTable :
          /\ mock'[Registry] = Stored(mock[Registry], k, inMock)
          /\ table'[Registry] = Stored(table[Registry], key, inTable)
          /\ Undisguised(inMock) /\ Undisguised(inTable)
    <3>1. CASE PutItem(t, item)
      <4>1. Undisguised(item)
        BY <1>3, LoaderAssumption DEF Undisguised
      <4> QED
        BY <1>0, <1>3, <3>1, <4>1 DEF PutItem, PutInMock, TablesInv, Contents
    <3>2. CASE ~PutItem(t, item)
      <4> DEFINE key == TableKey(t, item)
                 k == key[KeyAttrs[t][1]]
                 oldInMock == IF k \in DOMAIN mock[t] THEN mock[t][k] ELSE key
                 oldInTable == IF key \in DOMAIN table[t] THEN table[t][key] ELSE key
      <4>1. PICK patch \in Patches[t] : UpdateItem(t, key, patch)
        BY <1>1, <3>2
      <4>2. Undisguised(key)
        <5>1. Range(KeyAttrs[t]) \subseteq DOMAIN item
          BY TablesAssumption
        <5>2. DOMAIN key = Range(KeyAttrs[t]) /\ \A a \in DOMAIN key : key[a] = item[a]
          BY DEF TableKey, Restrict
        <5> HIDE DEF key
        <5> QED
          BY <1>3, <5>1, <5>2, LoaderAssumption DEF Undisguised
      <4>3. Undisguised(oldInMock) /\ Undisguised(oldInTable)
        <5> HIDE DEF key, k
        <5> QED
          BY <1>3, <4>2 DEF AgentsUndisguised, Range
      <4>4. /\ mock'[t] = Stored(mock[t], k, Overridden(oldInMock, patch))
            /\ table'[t] = Stored(table[t], key, Overridden(oldInTable, patch))
        BY <4>1 DEF UpdateItem, UpdatedInMock, UpdatedInTable, TablesInv, Contents
      <4> HIDE DEF key, k, oldInMock, oldInTable
      <4>5. /\ Undisguised(Overridden(oldInMock, patch))
            /\ Undisguised(Overridden(oldInTable, patch))
        BY <1>3, <4>3, UpdateUndisguised
      <4> QED
        BY <1>3, <4>4, <4>5
    <3> QED
      BY <3>1, <3>2
  <2>2. /\ Range(mock'[Registry]) \subseteq Range(mock[Registry]) \cup {inMock}
        /\ Range(table'[Registry]) \subseteq Range(table[Registry]) \cup {inTable}
    BY <2>1 DEF Stored, Overridden, Range
  <2> QED
    BY <2>1, <2>2 DEF AgentsUndisguised, Undisguised
<1> QED
  BY <1>2, <1>3

\* Where the first attribute is the whole key the backends hold the same items.
LEMMA SameItems ==
  ASSUME TablesInv, NEW t \in SingleKeyed
  PROVE  Range(mock[t]) = Range(table[t])
<1>1. t \in Tables /\ t \in KeyFixesFirst
  BY SameKeys DEF KeyFixesFirst, SingleKeyed
<1>2. Range(mock[t]) \subseteq Range(table[t])
  BY <1>1 DEF TablesInv, Backed, Range
<1>3. ASSUME NEW key \in DOMAIN table[t] PROVE table[t][key] \in Range(mock[t])
  <2>1. PICK i \in Items[t] : TableKey(t, i) = key
    BY <1>1, <1>3 DEF TablesInv, Contents, Held
  <2>2. SameAt(t, key)
    BY <2>1 DEF TablesInv, Same
  <2> QED
    BY <1>3, <2>2 DEF SameAt, Range
<1> QED
  BY <1>2, <1>3 DEF Range

\* The nodes get the same agents of a category from the mock and from the table's index,
\* after any registrations and updates, as long as no other attribute of an agent is called
\* like a category.
THEOREM RegistryQueryAgreesThm == Spec => []RegistryQueryAgrees
<1>1. TablesInit => AgentsUndisguised
  <2> SUFFICES ASSUME TablesInit PROVE AgentsUndisguised
    OBVIOUS
  <2>1. Registry \in Tables /\ Seed[Registry] \subseteq Items[Registry]
    BY LoaderAssumption, TablesAssumption DEF SingleKeyed
  <2>2. Range(mock[Registry]) \cup Range(table[Registry]) \subseteq Items[Registry]
    BY <2>1, InitSeeds DEF Range
  <2> QED
    BY <2>2, LoaderAssumption DEF AgentsUndisguised, Undisguised
<1>2. TablesInv /\ AgentsUndisguised /\ [WriteTables]_tableVars => AgentsUndisguised'
  BY WriteUndisguised DEF tableVars, AgentsUndisguised, Undisguised
<1>3. TablesInv /\ AgentsUndisguised => RegistryQueryAgrees
  <2> SUFFICES ASSUME TablesInv, AgentsUndisguised, NEW i \in Items[Registry]
               PROVE  MockQuery(Registry, i.category)
                        = IndexQuery(Registry, "category", i.category)
    BY DEF RegistryQueryAgrees
  <2>1. Range(mock[Registry]) = Range(table[Registry])
    BY LoaderAssumption, SameItems
  <2>2. \A item \in Range(mock[Registry]) :
          i.category \in Range(item) <=> "category" \in DOMAIN item /\ item["category"] = i.category
    BY DEF AgentsUndisguised, Undisguised, Range
  <2> QED
    BY <2>1, <2>2 DEF MockQuery, IndexQuery
<1>4. TablesSpec => []RegistryQueryAgrees
  BY <1>1, <1>2, <1>3, TablesInvariance, PTL DEF TablesSpec
<1> QED
  BY <1>4, LoaderWritesNothing, PTL
=============================================================================
