------------------------ MODULE StorageTables_proofs ------------------------
(***************************************************************************)
(* Where the first attribute is the whole key, the in-memory store and the *)
(* deployed table cannot be told apart by get_item, whatever the tables,   *)
(* the items and the sequence of puts and updates.                         *)
(***************************************************************************)
EXTENDS StorageTables, TLAPS

\* One key of a table has the same item in both backends, or is missing from both.
SameAt(t, key) ==
  /\ key[FirstAttr[t]] \in DOMAIN mock[t] <=> key \in DOMAIN table[t]
  /\ key \in DOMAIN table[t] => mock[t][key[FirstAttr[t]]] = table[t][key]

Same ==
  /\ mock = [t \in Tables |-> mock[t]] /\ table = [t \in Tables |-> table[t]]
  /\ \A t \in SingleKeyed : \A item \in Items[t] : SameAt(t, TableKey(t, item))

\* A key of one attribute is determined by its value.
LEMMA KeyOfOne ==
  ASSUME NEW t \in SingleKeyed, NEW i \in Items[t]
  PROVE  /\ Range(KeyAttrs[t]) = {FirstAttr[t]} /\ KeyAttrs[t][1] = FirstAttr[t]
         /\ TableKey(t, i) = [a \in {FirstAttr[t]} |-> MockKey(t, i)]
         /\ TableKey(t, i)[FirstAttr[t]] = MockKey(t, i)
         /\ Range(TableKey(t, i)) = {MockKey(t, i)}
<1>1. KeyAttrs[t] = <<FirstAttr[t]>>
  BY DEF SingleKeyed
<1>2. Range(KeyAttrs[t]) = {FirstAttr[t]} /\ KeyAttrs[t][1] = FirstAttr[t]
  BY <1>1 DEF Range
<1>3. TableKey(t, i) = [a \in {FirstAttr[t]} |-> MockKey(t, i)]
  BY <1>2 DEF TableKey, Restrict, MockKey
<1> QED
  BY <1>2, <1>3 DEF Range

\* Two items have one key in the table exactly when they have one in the mock.
LEMMA SameKeys ==
  ASSUME NEW t \in SingleKeyed, NEW i \in Items[t], NEW j \in Items[t]
  PROVE  TableKey(t, i) = TableKey(t, j) <=> MockKey(t, i) = MockKey(t, j)
<1>1. /\ TableKey(t, i)[FirstAttr[t]] = MockKey(t, i)
      /\ TableKey(t, j)[FirstAttr[t]] = MockKey(t, j)
  BY KeyOfOne
<1>2. /\ TableKey(t, i) = [a \in {FirstAttr[t]} |-> MockKey(t, i)]
      /\ TableKey(t, j) = [a \in {FirstAttr[t]} |-> MockKey(t, j)]
  BY KeyOfOne
<1>3. ASSUME MockKey(t, i) = MockKey(t, j) PROVE TableKey(t, i) = TableKey(t, j)
  BY <1>2, <1>3, Zenon
<1> QED
  BY <1>1, <1>3, Zenon

\* Storing one item under matching keys leaves the backends the same.
LEMMA StoredSame ==
  ASSUME NEW t \in SingleKeyed, NEW i \in Items[t], NEW item, Same,
         mock' = [mock EXCEPT ![t] = Stored(mock[t], MockKey(t, i), item)],
         table' = [table EXCEPT ![t] = Stored(table[t], TableKey(t, i), item)]
  PROVE  Same'
<1>1. t \in Tables
  BY DEF SingleKeyed
<1>2. /\ mock' = [u \in Tables |-> mock'[u]] /\ table' = [u \in Tables |-> table'[u]]
      /\ mock'[t] = Stored(mock[t], MockKey(t, i), item)
      /\ table'[t] = Stored(table[t], TableKey(t, i), item)
      /\ \A u \in Tables : u # t => mock'[u] = mock[u] /\ table'[u] = table[u]
  BY <1>1 DEF Same
<1>3. ASSUME NEW u \in SingleKeyed, NEW j \in Items[u]
      PROVE  SameAt(u, TableKey(u, j))'
  <2>1. SameAt(u, TableKey(u, j)) /\ u \in Tables
    BY DEF Same, SingleKeyed
  <2>2. CASE u # t
    BY <1>2, <2>1, <2>2 DEF SameAt, TableKey
  <2>3. CASE u = t
    <3>1. TableKey(u, j)[FirstAttr[u]] = MockKey(u, j)
      BY KeyOfOne
    <3>2. TableKey(u, j) = TableKey(t, i) <=> MockKey(u, j) = MockKey(t, i)
      BY <2>3, SameKeys
    <3> QED
      BY <1>2, <2>1, <2>3, <3>1, <3>2 DEF SameAt, Stored, Overridden, TableKey, MockKey
  <2> QED
    BY <2>2, <2>3
<1> QED
  BY <1>2, <1>3 DEF Same, SingleKeyed

\* The fixture is loaded into both backends.
LEMMA InitSame == TablesInit => Same
<1> SUFFICES ASSUME TablesInit, NEW t \in SingleKeyed, NEW item \in Items[t]
             PROVE  SameAt(t, TableKey(t, item))
  BY DEF TablesInit, Same
<1>1. t \in Tables /\ Seed[t] \subseteq Items[t]
  BY TablesAssumption DEF SingleKeyed
<1> DEFINE key == TableKey(t, item)
           k == MockKey(t, item)
<1>2. key[FirstAttr[t]] = k
  BY KeyOfOne
<1>3. \A i \in Seed[t] : TableKey(t, i) = key <=> MockKey(t, i) = k
  BY <1>1, SameKeys
<1>4. {i \in Seed[t] : TableKey(t, i) = key} = {i \in Seed[t] : MockKey(t, i) = k}
  BY <1>3
<1>5. /\ DOMAIN mock[t] = {MockKey(t, i) : i \in Seed[t]}
      /\ DOMAIN table[t] = {TableKey(t, i) : i \in Seed[t]}
      /\ k \in DOMAIN mock[t] => mock[t][k] = AnyOf({i \in Seed[t] : MockKey(t, i) = k})
      /\ key \in DOMAIN table[t] =>
           table[t][key] = AnyOf({i \in Seed[t] : TableKey(t, i) = key})
  BY <1>1 DEF TablesInit
<1>6. k \in DOMAIN mock[t] <=> key \in DOMAIN table[t]
  BY <1>3, <1>5
<1> QED
  BY <1>2, <1>4, <1>5, <1>6 DEF SameAt

\* A put or an update keeps the two backends the same.
LEMMA WriteSame == Same /\ [WriteTables]_tableVars => Same'
<1> SUFFICES ASSUME Same, WriteTables PROVE Same'
  BY DEF tableVars, Same, SameAt, TableKey, SingleKeyed
<1>0. PICK t \in Tables : \E item \in Items[t] :
        \/ PutItem(t, item)
        \/ \E patch \in Patches[t] : UpdateItem(t, TableKey(t, item), patch)
  BY DEF WriteTables
<1>1. PICK item \in Items[t] :
        \/ PutItem(t, item)
        \/ \E patch \in Patches[t] : UpdateItem(t, TableKey(t, item), patch)
  BY <1>0
<1>2. CASE t \notin SingleKeyed
  <2>1. /\ mock' = [u \in Tables |-> mock'[u]] /\ table' = [u \in Tables |-> table'[u]]
        /\ \A u \in SingleKeyed : mock'[u] = mock[u] /\ table'[u] = table[u]
    BY <1>1, <1>2 DEF PutItem, UpdateItem, Same, SingleKeyed
  <2> QED
    BY <2>1 DEF Same, SameAt, TableKey, SingleKeyed
<1>3. CASE t \in SingleKeyed /\ PutItem(t, item)
  BY <1>3, StoredSame DEF PutItem, PutInMock
<1>4. CASE t \in SingleKeyed /\ ~PutItem(t, item)
  <2> DEFINE key == TableKey(t, item)
  <2>1. PICK patch \in Patches[t] : UpdateItem(t, key, patch)
    BY <1>1, <1>4
  <2>2. key[KeyAttrs[t][1]] = MockKey(t, item)
    BY <1>4, KeyOfOne
  <2>3. SameAt(t, key) /\ key[FirstAttr[t]] = MockKey(t, item)
    BY <1>4, KeyOfOne DEF Same
  <2>4. UpdatedInMock(t, key, patch) = UpdatedInTable(t, key, patch)
    BY <2>2, <2>3 DEF SameAt, UpdatedInMock, UpdatedInTable
  <2>5. /\ mock' = [mock EXCEPT ![t] =
                      Stored(mock[t], MockKey(t, item), UpdatedInTable(t, key, patch))]
        /\ table' = [table EXCEPT ![t] =
                       Stored(table[t], key, UpdatedInTable(t, key, patch))]
    BY <2>1, <2>2, <2>4 DEF UpdateItem
  <2> HIDE DEF key
  <2>6. key = TableKey(t, item)
    BY DEF key
  <2> QED
    BY <1>4, <2>5, <2>6, StoredSame
<1> QED
  BY <1>2, <1>3, <1>4

\* The two backends answer every get_item alike in the single-keyed tables.
THEOREM MockAnswersAsTableThm == TablesSpec => []MockAnswersAsTable
<1>1. Same => MockAnswersAsTable
  <2> SUFFICES ASSUME Same, NEW t \in SingleKeyed, NEW item \in Items[t]
               PROVE  MockGet(t, TableKey(t, item)) = TableGet(t, TableKey(t, item))
    BY DEF MockAnswersAsTable
  <2> DEFINE key == TableKey(t, item)
             hits == Range(key) \cap DOMAIN mock[t]
  <2>1. SameAt(t, key) /\ Range(key) = {MockKey(t, item)}
        /\ key[FirstAttr[t]] = MockKey(t, item)
    BY KeyOfOne DEF Same
  <2>2. CASE key \in DOMAIN table[t]
    <3>1. hits = {MockKey(t, item)}
      BY <2>1, <2>2 DEF SameAt
    <3>2. AnyOf(hits) = MockKey(t, item)
      BY <3>1 DEF AnyOf
    <3> QED
      BY <2>1, <2>2, <3>1, <3>2 DEF MockGet, TableGet, SameAt
  <2>3. CASE key \notin DOMAIN table[t]
    <3>1. hits = {}
      BY <2>1, <2>3 DEF SameAt
    <3> QED
      BY <2>3, <3>1 DEF MockGet, TableGet
  <2> QED
    BY <2>2, <2>3
<1> QED
  BY <1>1, InitSame, WriteSame, PTL DEF TablesSpec

----------------------------------------------------------------------------
(* What the backends hold, whatever the keys *)

\* An update keeps the key of an item, and the bare key is an item with that key.
LEMMA UpdateKeepsKey ==
  ASSUME NEW t \in Tables, NEW item \in Items[t], NEW patch \in Patches[t], NEW old,
         Range(KeyAttrs[t]) \subseteq DOMAIN old, TableKey(t, old) = TableKey(t, item)
  PROVE  /\ Range(KeyAttrs[t]) \subseteq DOMAIN Overridden(old, patch)
         /\ TableKey(t, Overridden(old, patch)) = TableKey(t, item)
<1>1. DOMAIN patch \cap Range(KeyAttrs[t]) = {}
  BY TablesAssumption
<1>2. \A a \in Range(KeyAttrs[t]) : Overridden(old, patch)[a] = old[a]
  BY <1>1 DEF Overridden
<1>3. TableKey(t, Overridden(old, patch)) = TableKey(t, old)
  BY <1>2 DEF TableKey, Restrict
<1> QED
  BY <1>3 DEF Overridden

\* The key of an item is the key of its bare key.
LEMMA KeyOfKey ==
  ASSUME NEW t \in Tables, NEW item \in Items[t]
  PROVE  /\ DOMAIN TableKey(t, item) = Range(KeyAttrs[t])
         /\ TableKey(t, TableKey(t, item)) = TableKey(t, item)
BY DEF TableKey, Restrict

\* An item of the table is held under its own key, which is that of an item one may write.
Held(t, key, item) ==
  /\ \E i \in Items[t] : TableKey(t, i) = key
  /\ Range(KeyAttrs[t]) \subseteq DOMAIN item /\ TableKey(t, item) = key

\* The tables are in order; without updates the backends hold items that were written.
Contents ==
  /\ mock = [t \in Tables |-> mock[t]] /\ table = [t \in Tables |-> table[t]]
  /\ \A t \in Tables : \A key \in DOMAIN table[t] : Held(t, key, table[t][key])
  /\ \A t \in Tables : Patches[t] = {} => Range(mock[t]) \cup Range(table[t]) \subseteq Items[t]

\* Where a key fixes the mock's, each item of the mock is in the table, under the key of
\* the item that was written last with this key of the mock.
Backed ==
  \A t \in KeyFixesFirst : \A k \in DOMAIN mock[t] : \E i \in Items[t] :
    /\ k = MockKey(t, i)
    /\ TableKey(t, i) \in DOMAIN table[t] /\ table[t][TableKey(t, i)] = mock[t][k]

\* Both backends start with fixture items, each under its key.
LEMMA InitSeeds ==
  ASSUME TablesInit, NEW t \in Tables
  PROVE  /\ \A key \in DOMAIN table[t] : /\ table[t][key] \in Seed[t]
                                         /\ TableKey(t, table[t][key]) = key
         /\ \A k \in DOMAIN mock[t] : mock[t][k] \in Seed[t] /\ MockKey(t, mock[t][k]) = k
<1>1. ASSUME NEW key \in DOMAIN table[t]
      PROVE  table[t][key] \in Seed[t] /\ TableKey(t, table[t][key]) = key
  <2>1. /\ key \in {TableKey(t, i) : i \in Seed[t]}
        /\ table[t][key] = AnyOf({i \in Seed[t] : TableKey(t, i) = key})
    BY <1>1 DEF TablesInit
  <2> QED
    BY <2>1 DEF AnyOf
<1>2. ASSUME NEW k \in DOMAIN mock[t]
      PROVE  mock[t][k] \in Seed[t] /\ MockKey(t, mock[t][k]) = k
  <2>1. /\ k \in {MockKey(t, i) : i \in Seed[t]}
        /\ mock[t][k] = AnyOf({i \in Seed[t] : MockKey(t, i) = k})
    BY <1>2 DEF TablesInit
  <2> QED
    BY <2>1 DEF AnyOf
<1> QED
  BY <1>1, <1>2

\* The fixture has one item per first attribute, so the mock drops none of it.
LEMMA InitContents == TablesInit => Contents /\ Backed
<1> SUFFICES ASSUME TablesInit PROVE Contents /\ Backed
  OBVIOUS
<1>1. ASSUME NEW t \in Tables, NEW key \in DOMAIN table[t]
      PROVE  table[t][key] \in Seed[t] /\ TableKey(t, table[t][key]) = key
  BY <1>1, InitSeeds
<1>2. ASSUME NEW t \in Tables, NEW k \in DOMAIN mock[t]
      PROVE  mock[t][k] \in Seed[t] /\ MockKey(t, mock[t][k]) = k
  BY <1>2, InitSeeds
<1>3. Contents
  <2>1. mock = [t \in Tables |-> mock[t]] /\ table = [t \in Tables |-> table[t]]
    BY DEF TablesInit
  <2>2. ASSUME NEW t \in Tables, NEW key \in DOMAIN table[t]
        PROVE  Held(t, key, table[t][key])
    BY <1>1, <2>2, TablesAssumption DEF Held
  <2>3. \A t \in Tables : Range(mock[t]) \cup Range(table[t]) \subseteq Items[t]
    BY <1>1, <1>2, TablesAssumption DEF Range
  <2> QED
    BY <2>1, <2>2, <2>3 DEF Contents
<1>4. Backed
  <2> SUFFICES ASSUME NEW t \in KeyFixesFirst, NEW k \in DOMAIN mock[t]
               PROVE  \E i \in Items[t] :
                        /\ k = MockKey(t, i)
                        /\ TableKey(t, i) \in DOMAIN table[t]
                        /\ table[t][TableKey(t, i)] = mock[t][k]
    BY DEF Backed
  <2> DEFINE i == mock[t][k]
             key == TableKey(t, i)
  <2>1. t \in Tables /\ Seed[t] \subseteq Items[t]
    BY TablesAssumption DEF KeyFixesFirst
  <2>2. i \in Seed[t] /\ k = MockKey(t, i)
    BY <1>2, <2>1
  <2>3. key \in DOMAIN table[t]
    BY <2>1, <2>2 DEF TablesInit
  <2>4. table[t][key] \in Seed[t] /\ TableKey(t, table[t][key]) = TableKey(t, i)
    BY <1>1, <2>1, <2>3
  <2>5. MockKey(t, table[t][key]) = MockKey(t, i)
    BY <2>1, <2>2, <2>4 DEF KeyFixesFirst
  <2>6. table[t][key] = i
    BY <2>1, <2>2, <2>4, <2>5, TablesAssumption DEF MockKey
  <2> QED
    BY <2>1, <2>2, <2>3, <2>6
<1> QED
  BY <1>3, <1>4

\* Storing one item under the keys of another keeps the items of the mock in the table.
LEMMA StoredBacked ==
  ASSUME Contents, Backed, NEW t \in Tables, NEW i \in Items[t], NEW item,
         mock' = [mock EXCEPT ![t] = Stored(mock[t], MockKey(t, i), item)],
         table' = [table EXCEPT ![t] = Stored(table[t], TableKey(t, i), item)]
  PROVE  Backed'
<1> SUFFICES ASSUME NEW u \in KeyFixesFirst, NEW k \in DOMAIN mock'[u]
             PROVE  \E j \in Items[u] :
                      /\ k = MockKey(u, j)
                      /\ TableKey(u, j) \in DOMAIN table'[u]
                      /\ table'[u][TableKey(u, j)] = mock'[u][k]
  BY DEF Backed, MockKey, TableKey, KeyFixesFirst, SingleKeyed
<1>1. u \in Tables
  BY DEF KeyFixesFirst
<1>2. /\ mock'[t] = Stored(mock[t], MockKey(t, i), item)
      /\ table'[t] = Stored(table[t], TableKey(t, i), item)
      /\ u # t => mock'[u] = mock[u] /\ table'[u] = table[u]
  BY <1>1 DEF Contents
<1> DEFINE key == TableKey(t, i)
           k0 == MockKey(t, i)
<1> HIDE DEF key, k0
<1>0. /\ DOMAIN mock'[t] = DOMAIN mock[t] \cup {k0} /\ mock'[t][k0] = item
      /\ \A x \in DOMAIN mock[t] : x # k0 => mock'[t][x] = mock[t][x]
      /\ DOMAIN table'[t] = DOMAIN table[t] \cup {key} /\ table'[t][key] = item
      /\ \A x \in DOMAIN table[t] : x # key => table'[t][x] = table[t][x]
  <2>1. mock'[t] = Stored(mock[t], k0, item) /\ table'[t] = Stored(table[t], key, item)
    BY <1>2 DEF key, k0
  <2> QED
    BY <2>1 DEF Stored, Overridden
<1>3. CASE u = t /\ k = MockKey(t, i)
  <2>1. mock'[u][k] = item /\ table'[u][TableKey(t, i)] = item
        /\ TableKey(t, i) \in DOMAIN table'[u]
    BY <1>0, <1>3 DEF key, k0
  <2> QED
    BY <1>3, <2>1
<1>4. CASE u = t /\ k # MockKey(t, i)
  <2>1. k \in DOMAIN mock[t] /\ mock'[t][k] = mock[t][k]
    BY <1>0, <1>4 DEF k0
  <2>2. PICK j \in Items[t] : /\ k = MockKey(t, j)
                              /\ TableKey(t, j) \in DOMAIN table[t]
                              /\ table[t][TableKey(t, j)] = mock[t][k]
    BY <1>4, <2>1 DEF Backed
  <2>3. TableKey(t, j) # TableKey(t, i)
    BY <1>4, <2>2 DEF KeyFixesFirst
  <2>4. TableKey(t, j) \in DOMAIN table'[t] /\ table'[t][TableKey(t, j)] = mock[t][k]
    BY <1>0, <2>2, <2>3 DEF key
  <2> QED
    BY <1>4, <2>1, <2>2, <2>4
<1>5. CASE u # t
  BY <1>2, <1>5 DEF Backed
<1> QED
  BY <1>3, <1>4, <1>5

\* A put or an update stores, in both backends, an item with the key it is stored under.
LEMMA WriteContents ==
  ASSUME Same, Contents, Backed, WriteTables
  PROVE  Contents' /\ Backed'
<1>1. PICK t \in Tables : \E item \in Items[t] :
        \/ PutItem(t, item)
        \/ \E patch \in Patches[t] : UpdateItem(t, TableKey(t, item), patch)
  BY DEF WriteTables
<1>2. PICK item \in Items[t] :
        \/ PutItem(t, item)
        \/ \E patch \in Patches[t] : UpdateItem(t, TableKey(t, item), patch)
  BY <1>1
<1> DEFINE key == TableKey(t, item)
<1>3. PICK k, inMock, inTable :
        /\ mock' = [mock EXCEPT ![t] = Stored(mock[t], k, inMock)]
        /\ table' = [table EXCEPT ![t] = Stored(table[t], key, inTable)]
        /\ Held(t, key, inTable)
        /\ Patches[t] = {} => inMock \in Items[t] /\ inTable \in Items[t]
        /\ t \in KeyFixesFirst => k = MockKey(t, item) /\ inMock = inTable
  <2>1. CASE PutItem(t, item)
    <3>1. Held(t, key, item)
      BY TablesAssumption DEF Held
    <3> QED
      BY <2>1, <3>1 DEF PutItem, PutInMock
  <2>2. CASE ~PutItem(t, item)
    <3>1. PICK patch \in Patches[t] : UpdateItem(t, key, patch)
      BY <1>2, <2>2
    <3>2. Held(t, key, UpdatedInTable(t, key, patch))
      <4> DEFINE old == IF key \in DOMAIN table[t] THEN table[t][key] ELSE key
      <4>1. Range(KeyAttrs[t]) \subseteq DOMAIN old /\ TableKey(t, old) = key
        BY KeyOfKey DEF Contents, Held
      <4>2. UpdatedInTable(t, key, patch) = Overridden(old, patch)
        BY DEF UpdatedInTable
      <4> HIDE DEF old
      <4>3. /\ Range(KeyAttrs[t]) \subseteq DOMAIN Overridden(old, patch)
            /\ TableKey(t, Overridden(old, patch)) = key
        BY <4>1, UpdateKeepsKey
      <4> QED
        BY <4>2, <4>3 DEF Held
    <3>3. t \in KeyFixesFirst => /\ key[KeyAttrs[t][1]] = MockKey(t, item)
                                 /\ UpdatedInMock(t, key, patch) = UpdatedInTable(t, key, patch)
      <4> SUFFICES ASSUME t \in KeyFixesFirst
                   PROVE  /\ key[KeyAttrs[t][1]] = MockKey(t, item)
                          /\ UpdatedInMock(t, key, patch) = UpdatedInTable(t, key, patch)
        OBVIOUS
      <4>1. t \in SingleKeyed
        BY DEF KeyFixesFirst
      <4>2. key[KeyAttrs[t][1]] = MockKey(t, item) /\ key[FirstAttr[t]] = MockKey(t, item)
        BY <4>1, KeyOfOne
      <4>3. SameAt(t, key)
        BY <4>1 DEF Same
      <4> QED
        BY <4>2, <4>3 DEF SameAt, UpdatedInMock, UpdatedInTable
    <3> QED
      BY <3>1, <3>2, <3>3 DEF UpdateItem
  <2> QED
    BY <2>1, <2>2
<1>4. /\ mock' = [u \in Tables |-> mock'[u]] /\ table' = [u \in Tables |-> table'[u]]
      /\ mock'[t] = Stored(mock[t], k, inMock) /\ table'[t] = Stored(table[t], key, inTable)
      /\ \A u \in Tables : u # t => mock'[u] = mock[u] /\ table'[u] = table[u]
  BY <1>3 DEF Contents
<1>5. \A u \in Tables : \A x \in DOMAIN table'[u] : Held(u, x, table'[u][x])
  <2> SUFFICES ASSUME NEW u \in Tables, NEW x \in DOMAIN table'[u]
               PROVE  Held(u, x, table'[u][x])
    OBVIOUS
  <2>1. CASE u = t
    <3>1. /\ DOMAIN table'[t] = DOMAIN table[t] \cup {key} /\ table'[t][key] = inTable
          /\ \A y \in DOMAIN table[t] : y # key => table'[t][y] = table[t][y]
      BY <1>4 DEF Stored, Overridden
    <3> HIDE DEF key
    <3> QED
      BY <1>3, <2>1, <3>1 DEF Contents
  <2>2. CASE u # t
    BY <1>4, <2>2 DEF Contents
  <2> QED
    BY <2>1, <2>2
<1>6. \A u \in Tables : Patches[u] = {} => Range(mock'[u]) \cup Range(table'[u]) \subseteq Items[u]
  <2>1. \A f, x, y : Range(Stored(f, x, y)) \subseteq Range(f) \cup {y}
    BY DEF Stored, Overridden, Range
  <2>2. Patches[t] = {} => Range(mock'[t]) \cup Range(table'[t]) \subseteq Items[t]
    BY <1>3, <1>4, <2>1 DEF Contents
  <2> QED
    BY <1>4, <2>2 DEF Contents
<1>7. Contents'
  BY <1>4, <1>5, <1>6 DEF Contents, Held, TableKey
<1>8. CASE t \in KeyFixesFirst
  <2>1. /\ mock' = [mock EXCEPT ![t] = Stored(mock[t], MockKey(t, item), inTable)]
        /\ table' = [table EXCEPT ![t] = Stored(table[t], TableKey(t, item), inTable)]
    BY <1>3, <1>8
  <2>2. Backed'
    BY <2>1, StoredBacked
  <2> QED
    BY <1>7, <2>2
<1>9. CASE t \notin KeyFixesFirst
  <2>1. \A u \in KeyFixesFirst : mock'[u] = mock[u] /\ table'[u] = table[u]
    BY <1>4, <1>9 DEF KeyFixesFirst
  <2>2. Backed'
    BY <2>1 DEF Backed, MockKey, TableKey, KeyFixesFirst, SingleKeyed
  <2> QED
    BY <1>7, <2>2
<1> QED
  BY <1>7, <1>8, <1>9

\* The inductive invariant of the storage helpers.
TablesInv == Same /\ Contents /\ Backed

\* The invariant of the two backends holds after any puts and updates.
THEOREM TablesInvariance == TablesSpec => []TablesInv
<1>1. TablesInit => TablesInv
  BY InitSame, InitContents DEF TablesInv
<1>2. TablesInv /\ [WriteTables]_tableVars => TablesInv'
  <2> SUFFICES ASSUME TablesInv, [WriteTables]_tableVars PROVE TablesInv'
    OBVIOUS
  <2>1. CASE WriteTables
    BY <2>1, WriteSame, WriteContents DEF TablesInv
  <2>2. CASE UNCHANGED tableVars
    BY <2>2, WriteSame
       DEF TablesInv, tableVars, Contents, Held, Backed, MockKey, TableKey, KeyFixesFirst,
           SingleKeyed
  <2> QED
    BY <2>1, <2>2
<1> QED
  BY <1>1, <1>2, PTL DEF TablesSpec

\* Where the key fixes the attribute the mock goes by, the mock shows nothing the table
\* does not hold, after any puts and updates.
THEOREM MockOnlyForgetsThm == TablesSpec => []MockOnlyForgets
<1>1. TablesInv => MockOnlyForgets
  <2> SUFFICES ASSUME Backed, NEW t \in KeyFixesFirst, NEW k \in DOMAIN mock[t]
               PROVE  mock[t][k] \in Range(table[t])
    BY DEF TablesInv, MockOnlyForgets, Range
  <2> QED
    BY DEF Backed, Range
<1> QED
  BY <1>1, TablesInvariance, PTL
=============================================================================
