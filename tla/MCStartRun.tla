----------------------------- MODULE MCStartRun -----------------------------
(* Instances of StartRun for TLC. *)
EXTENDS StartRun

Row(a, b, c) == [a |-> a, b |-> b, c |-> c]

Shown(name, seq, col, unique) == [name |-> name, seq |-> seq, col |-> col, unique |-> unique]

DDL(tp, cols) == [tp |-> tp, cols |-> cols]

(* A primary key of three columns and a unique key of two, their index rows  *)
(* out of order and between those of other indexes, one of them on a column  *)
(* the DDL does not show; b alone tells no rows apart.                       *)
Wide ==
  [cols |-> {"a", "b", "c"}, notNull |-> {"a", "b", "c"}, unsupported |-> {},
   ddl |-> <<DDL("index", <<"b">>), DDL("primary", <<"a", "b", "c">>)>>,
   shown |-> <<Shown("hid", 1, "hidden", TRUE), Shown("idx", 1, "b", FALSE),
               Shown("uk", 2, "c", TRUE), Shown("PRIMARY", 3, "c", TRUE),
               Shown("PRIMARY", 1, "a", TRUE), Shown("uk", 1, "b", TRUE),
               Shown("PRIMARY", 2, "b", TRUE)>>,
   rows |-> {Row(1, 1, 2), Row(1, 2, 1), Row(2, 1, 1), Row(2, 1, 3), Row(2, 2, 2)},
   partitioned |-> TRUE, rowid |-> FALSE]

(* No primary key, and a unique key with a column that may be NULL.          *)
Nullable ==
  [Wide EXCEPT !.notNull = {"a"}, !.ddl = <<DDL("unique", <<"a", "b">>)>>,
               !.shown = <<Shown("uk", 1, "a", TRUE), Shown("uk", 2, "b", TRUE)>>,
               !.rows = {Row(1, 1, 1), Row(1, 2, 1), Row(2, 1, 1)},
               !.partitioned = FALSE, !.rowid = TRUE]

(* A key of a type the scan cannot read. *)
Odd ==
  [Nullable EXCEPT !.notNull = {"a", "b"}, !.unsupported = {"b"}]

Empty == [Wide EXCEPT !.rows = {}]

MCCatalog ==
  (<<"x", "wide">> :> Wide) @@ (<<"y", "wide">> :> Wide) @@ (<<"x", "empty">> :> Empty) @@
  (<<"x", "nullable">> :> Nullable) @@ (<<"x", "odd">> :> Odd)

On(kind, schema, table) ==
  [kind |-> kind, many |-> FALSE, schema |-> schema, first |-> table, target |-> table,
   limit |-> 0]

Setting(stmt, database, chunk, force) ==
  [stmt |-> stmt, database |-> database, chunk |-> chunk, force |-> force, orderBy |-> FALSE,
   index |-> FALSE, cursor |-> FALSE, rowid |-> FALSE, conc |-> 0, rest |-> TRUE]

MCConfigs ==
  { Setting(On("delete", "x", "wide"), "", 2, <<>>),
    Setting(On("delete", "", "wide"), "x", 1, <<"c", "", "b">>),
    Setting(On("update", "y", "wide"), "", 2, <<"c", "b">>),
    Setting(On("update", "", "wide"), "y", 3, <<>>),
    Setting(On("update", "x", "wide"), "x", 1, <<>>),
    Setting(On("delete", "x", "wide"), "", 0, <<>>),
    Setting(On("delete", "y", "wide"), "", 2, <<"b">>),
    Setting(On("delete", "x", "nullable"), "", 2, <<>>),
    Setting(On("update", "x", "nullable"), "", 1, <<>>),
    Setting(On("delete", "x", "odd"), "", 2, <<>>),
    Setting(On("delete", "x", "empty"), "", 2, <<>>),
    Setting(On("delete", "y", "odd"), "", 2, <<>>),
    Setting([On("delete", "x", "wide") EXCEPT !.many = TRUE], "", 2, <<>>),
    Setting(On("insert", "x", "wide"), "", 2, <<"">>) }

Covering(index, cursor) ==
  [opt |-> "covering", orderBy |-> TRUE, index |-> index, cursor |-> cursor]
NoOrder == [opt |-> "covering", orderBy |-> FALSE, index |-> FALSE, cursor |-> TRUE]
Partitions(n) == [opt |-> "partitions", n |-> n]
RowID(on) == [opt |-> "rowid", on |-> on]

MCOptionLists ==
  { <<>>, <<Covering(TRUE, FALSE)>>, <<Covering(FALSE, TRUE), Partitions(2)>>, <<Partitions(2)>>,
    <<NoOrder>>, <<RowID(TRUE)>>, <<RowID(TRUE), Covering(FALSE, FALSE)>>, <<RowID(FALSE)>> }

(* Statements the design forbids: one that names another table first, and   *)
(* one with a LIMIT.                                                        *)
MCForbidden ==
  { Setting([On("delete", "x", "wide") EXCEPT !.target = "nullable"], "", 2, <<>>),
    Setting([On("delete", "x", "wide") EXCEPT !.limit = 1], "", 2, <<>>) }
=============================================================================
