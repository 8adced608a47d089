---------------------------- MODULE ChunkingKey ----------------------------
(***************************************************************************)
(* The choice of the unique key by which a table is cut into chunks        *)
(* (writer.go, meta.go).                                                   *)
(*                                                                         *)
(* A table has columns, some of them NOT NULL; its keys as SHOW CREATE     *)
(* TABLE lists them, [tp, cols]; and its index metadata as SHOW INDEX      *)
(* returns it, rows [name, seq, col, unique].  A list of forced columns is *)
(* the setting split at its commas, "" standing for a blank part.  What is  *)
(* left of a list when entries are dropped keeps the others' places.       *)
(***************************************************************************)
EXTENDS Integers, Sequences, FiniteSets, SequencesExt

NoKey == [tp |-> "none", cols |-> <<>>, null |-> <<>>]

KeyTypes == {"primary", "unique"}

KeyWith(tp, cols, table) ==
  [tp |-> tp, cols |-> cols, null |-> [i \in DOMAIN cols |-> cols[i] \notin table.notNull]]

GetPossibleUniqueKeys(table) ==
  LET unique == {i \in DOMAIN table.ddl : table.ddl[i].tp \in KeyTypes}
  IN [i \in unique |-> KeyWith(table.ddl[i].tp, table.ddl[i].cols, table)]

(* The unique rows with the key name of row i, and the columns of such a     *)
(* group in index order.                                                    *)
Group(shown, i) == {j \in DOMAIN shown : shown[j].unique /\ shown[j].name = shown[i].name}

SeqPlace(shown, group, j) == 1 + Cardinality({k \in group : shown[k].seq < shown[j].seq})

ColumnsOf(shown, group) ==
  [n \in 1..Cardinality(group) |->
     shown[CHOOSE j \in group : SeqPlace(shown, group, j) = n].col]

(* A key stands where its name appears first; one with a column the table    *)
(* does not list is dropped.                                                *)
BuildUniqueKeysFromShowIndexRows(shown, table) ==
  LET firsts == {i \in DOMAIN shown : shown[i].unique /\ Group(shown, i) \cap 1..(i - 1) = {}}
      known == {i \in firsts : {shown[j].col : j \in Group(shown, i)} \subseteq table.cols}
  IN [i \in known |-> KeyWith(IF shown[i].name = "PRIMARY" THEN "primary" ELSE "unique",
                              ColumnsOf(shown, Group(shown, i)), table)]

(* The parts that are not blank, at their places. *)
NormalizeForceChunkingColumns(force) ==
  Restrict(force, {i \in DOMAIN force : force[i] # ""})

(* The forced columns in any order, else the primary key, else the first.   *)
SameColumns(force, key) ==
  Cardinality(DOMAIN force) = Len(key.cols) /\ ToSet(force) = ToSet(key.cols)

FirstOf(keys, is) ==
  LET first == {i \in is : is \cap 1..(i - 1) = {}}
  IN IF first = {} THEN NoKey ELSE keys[CHOOSE i \in first : TRUE]

SelectChunkingKey(keys, force) ==
  LET forced == {i \in DOMAIN keys : SameColumns(force, keys[i])}
      primary == {i \in DOMAIN keys : keys[i].tp = "primary"}
  IN IF force # <<>> THEN FirstOf(keys, forced)
     ELSE FirstOf(keys, IF primary = {} THEN DOMAIN keys ELSE primary)

(* On OceanBase the index metadata comes first; if it is unavailable or has  *)
(* no unique key, the DDL is used, but not to match forced columns.          *)
KeysOf(source, table, shown, force) ==
  LET indexed == BuildUniqueKeysFromShowIndexRows(shown, table)
  IN IF source # "oceanbase" THEN GetPossibleUniqueKeys(table)
     ELSE IF DOMAIN indexed # {} THEN indexed
     ELSE IF force # <<>> THEN <<>> ELSE GetPossibleUniqueKeys(table)
=============================================================================
