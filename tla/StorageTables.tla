---------------------------- MODULE StorageTables ----------------------------
(***************************************************************************)
(* The storage helpers over both of their backends, run side by side on    *)
(* the same calls: the in-memory store of MOCK_STORAGE, which keeps one    *)
(* item per value of an item's first attribute, and the deployed tables,   *)
(* whose keys the data stack declares.  Items are records of attributes.   *)
(***************************************************************************)
EXTENDS Sequences, Functions

CONSTANTS
  Tables,       (* table names                                             *)
  Items,        (* per table: the items that may be written                *)
  Seed,         (* per table: the fixture items it starts with             *)
  FirstAttr,    (* per table: the attribute its items list first           *)
  KeyAttrs,     (* per table: the attributes of its primary key, in order  *)
  Patches,      (* per table: the attributes an update may set             *)
  NoItem        (* None                                                    *)

\* Every item has its key, a fixture has one item per first attribute, and an update
\* leaves the key alone.
ASSUME TablesAssumption ==
  \A t \in Tables :
    /\ Seed[t] \subseteq Items[t] /\ KeyAttrs[t] \in Seq(STRING) /\ KeyAttrs[t] # <<>>
    /\ \A i, j \in Seed[t] : i[FirstAttr[t]] = j[FirstAttr[t]] => i = j
    /\ \A i \in Items[t] : Range(KeyAttrs[t]) \cup {FirstAttr[t]} \subseteq DOMAIN i
    /\ \A p \in Patches[t] : DOMAIN p \cap (Range(KeyAttrs[t]) \cup {FirstAttr[t]}) = {}

VARIABLES
  mock,         (* _MOCK_STORE: per table, first attribute's value to item *)
  table         (* the deployed tables: per table, primary key to item     *)

tableVars == <<mock, table>>

MockKey(t, item) == item[FirstAttr[t]]
TableKey(t, item) == Restrict(item, Range(KeyAttrs[t]))

Overridden(f, g) ==
  [x \in DOMAIN f \cup DOMAIN g |-> IF x \in DOMAIN g THEN g[x] ELSE f[x]]
Stored(contents, key, item) == Overridden(contents, [k \in {key} |-> item])

\* The tables whose whole key is the attribute the mock goes by.
SingleKeyed == {t \in Tables : KeyAttrs[t] = <<FirstAttr[t]>>}

AnyOf(items) == CHOOSE item \in items : TRUE

\* Both backends start with the fixture.
TablesInit ==
  /\ mock = [t \in Tables |-> [k \in {MockKey(t, i) : i \in Seed[t]} |->
                                 AnyOf({i \in Seed[t] : MockKey(t, i) = k})]]
  /\ table = [t \in Tables |-> [k \in {TableKey(t, i) : i \in Seed[t]} |->
                                  AnyOf({i \in Seed[t] : TableKey(t, i) = k})]]

----------------------------------------------------------------------------
(* put_item and update_item *)

PutInMock_IfAbsent(t, item) ==
  IF MockKey(t, item) \in DOMAIN mock[t] THEN mock[t] ELSE Stored(mock[t], MockKey(t, item), item)
PutInMock(t, item) == Stored(mock[t], MockKey(t, item), item)

PutItem(t, item) ==
  /\ mock' = [mock EXCEPT ![t] = PutInMock(t, item)]
  /\ table' = [table EXCEPT ![t] = Stored(@, TableKey(t, item), item)]

(***************************************************************************)
(* An item updated before it was put is made of the bare key.  The mock    *)
(* goes by the first value of the key and names the attributes after the   *)
(* placeholders, taken here to be the names the expression sets.           *)
(***************************************************************************)
UpdatedInMock_Afresh(t, key, patch) == Overridden(key, patch)
UpdatedInMock(t, key, patch) ==
  LET k == key[KeyAttrs[t][1]]
  IN  Overridden(IF k \in DOMAIN mock[t] THEN mock[t][k] ELSE key, patch)

UpdatedInTable(t, key, patch) ==
  Overridden(IF key \in DOMAIN table[t] THEN table[t][key] ELSE key, patch)

UpdateItem(t, key, patch) ==
  /\ mock' = [mock EXCEPT ![t] = Stored(@, key[KeyAttrs[t][1]], UpdatedInMock(t, key, patch))]
  /\ table' = [table EXCEPT ![t] = Stored(@, key, UpdatedInTable(t, key, patch))]

WriteTables ==
  \E t \in Tables : \E item \in Items[t] :
    \/ PutItem(t, item)
    \/ \E patch \in Patches[t] : UpdateItem(t, TableKey(t, item), patch)

TablesSpec == TablesInit /\ [][WriteTables]_tableVars

----------------------------------------------------------------------------
(* get_item and query *)

\* The mock tries every value of the key.
MockGet(t, key) ==
  LET hits == Range(key) \cap DOMAIN mock[t]
  IN  IF hits = {} THEN NoItem ELSE mock[t][AnyOf(hits)]
TableGet(t, key) == IF key \in DOMAIN table[t] THEN table[t][key] ELSE NoItem

\* The mock returns the items in which any attribute has the value asked for.
MockQuery_ById(t, value) == {item \in Range(mock[t]) : MockKey(t, item) = value}
MockQuery(t, value) == {item \in Range(mock[t]) : value \in Range(item)}
IndexQuery(t, attr, value) ==
  {item \in Range(table[t]) : attr \in DOMAIN item /\ item[attr] = value}

----------------------------------------------------------------------------
(* Properties *)

\* Where the first attribute is the whole key, the mock answers every get_item as the
\* deployed table would, after any puts and updates.
MockAnswersAsTable ==
  \A t \in SingleKeyed : \A item \in Items[t] :
    MockGet(t, TableKey(t, item)) = TableGet(t, TableKey(t, item))

\* The tables whose key fixes the attribute the mock goes by, and which nobody updates
\* unless that attribute is the whole key.
KeyFixesFirst ==
  {t \in Tables :
     /\ \A i, j \in Items[t] : TableKey(t, i) = TableKey(t, j) => MockKey(t, i) = MockKey(t, j)
     /\ t \in SingleKeyed \/ Patches[t] = {}}

\* Where the mock keeps fewer items than the table, those it keeps are the table's: it
\* forgets entries of a composite key but never shows one the table does not hold.
MockOnlyForgets == \A t \in KeyFixesFirst : Range(mock[t]) \subseteq Range(table[t])
=============================================================================
