------------------------------ MODULE StartRun ------------------------------
(***************************************************************************)
(* From the caller's Config to the statements that run.  NewExecutor       *)
(* applies its options to the caller's Config and checks it (oak.go,       *)
(* config.go); NewWriter resolves the target, reads the statement and the  *)
(* table's metadata and chooses the chunking key (writer.go, meta.go); Run *)
(* selects the strategy from the Config as it is then (task.go).  The      *)
(* range route is followed to its end over a key of several columns        *)
(* (procedure.go); the other routes end where their strategy takes over.   *)
(*                                                                         *)
(* One Config serves all of the caller's executors, which are built and    *)
(* run one after the other; a table is full again when a run starts.       *)
(*                                                                         *)
(* A definition X_Y right before X is a broken variant of X; no action     *)
(* uses it.  The README says which property finds each of them.            *)
(***************************************************************************)
EXTENDS KeyPredicates, ChunkingKey, FiniteSetsExt

CONSTANTS
  Servers,      \* what the version may say: "mysql", "oceanbase", "tidb"
  Catalog,      \* the tables: a function from <<database, table>>
  Configs,      \* what the caller may put into the Config
  OptionLists,  \* the option lists it may pass to NewExecutor
  PageSize,     \* rows per key fetch when the chunk size is 1 (1000)
  MaxCalls,     \* bound: calls of NewExecutor
  MaxEdits      \* bound: changes the caller makes to the Config

Databases == {place[1] : place \in DOMAIN Catalog} \cup {""}
Tables == {place[2] : place \in DOMAIN Catalog}

(* first is the leftmost table of the statement, target the one it changes. *)
Statement ==
  [kind : {"delete", "update", "insert", "empty"}, many : BOOLEAN, schema : Databases,
   first : Tables, target : Tables, limit : Nat]

(* force: the forced columns; rest: the settings checked for themselves are  *)
(* legal.                                                                    *)
Config ==
  [stmt : Statement, database : Databases, chunk : Int, force : Seq(STRING),
   orderBy : BOOLEAN, index : BOOLEAN, cursor : BOOLEAN, rowid : BOOLEAN, conc : Int,
   rest : BOOLEAN]

Option ==
  [opt : {"covering"}, orderBy : BOOLEAN, index : BOOLEAN, cursor : BOOLEAN]
    \cup [opt : {"partitions"}, n : Int] \cup [opt : {"rowid"}, on : BOOLEAN]

ASSUME StartAssumption ==
  /\ Servers \subseteq {"mysql", "oceanbase", "tidb"}
  /\ Configs \subseteq Config /\ OptionLists \subseteq Seq(Option)
  /\ PageSize \in Nat \ {0} /\ MaxCalls \in Nat /\ MaxEdits \in Nat

(* The server's side: rows have a value in every column, and two of them     *)
(* differ in a unique key of NOT NULL columns, be it read from the DDL or    *)
(* from the index.                                                          *)
TellsApart(table, cols) ==
  cols \subseteq table.notNull =>
    \A r, s \in table.rows : (\A c \in cols : r[c] = s[c]) => r = s

IsTable(table) ==
  /\ IsFiniteSet(table.rows) /\ table.rows \subseteq [table.cols -> Int]
  /\ table.notNull \subseteq table.cols
  /\ \A i \in DOMAIN table.ddl : table.ddl[i].tp \in KeyTypes =>
       /\ table.ddl[i].cols \in Seq(table.cols) \ {<<>>}
       /\ TellsApart(table, ToSet(table.ddl[i].cols))
  /\ table.shown \in Seq([name : STRING, seq : Int, col : STRING, unique : BOOLEAN])
  /\ \A i \in {j \in DOMAIN table.shown : table.shown[j].unique} :
       LET group == Group(table.shown, i)
       IN /\ \A j, k \in group : table.shown[j].seq = table.shown[k].seq => j = k
          /\ TellsApart(table, {table.shown[j].col : j \in group})

ASSUME CatalogAssumption == \A place \in DOMAIN Catalog : IsTable(Catalog[place])

VARIABLES
  server,  \* the server behind the connection
  config,  \* the caller's *conf.Config
  w,       \* the writer NewWriter is building
  built,   \* the executors that were built, in order
  ran,     \* which of them have run
  run,     \* the run under way or the last one
  named,   \* history: the databases the caller or a statement has named
  calls, edits

vars == <<server, config, w, built, ran, run, named, calls, edits>>

NoWriter == [pc |-> "none", cfg |-> <<>>, db |-> "", table |-> "", source |-> "", key |-> NoKey]

NoRun ==
  [pc |-> "none", w |-> NoWriter, cfg |-> <<>>, route |-> "", cursor |-> <<>>, hits |-> <<>>,
   result |-> ""]

Routes == {"range", "covering", "partition", "rowid"}
Results == {"nil", "error", "strategy", "crash"}
WriterPlaces == {"none", "target", "connect", "statement", "keys"}
RunPlaces == {"none", "start", "scan", "done"}

TypeOK ==
  /\ server \in Servers
  /\ config \in Config
  /\ w.pc \in WriterPlaces
  /\ w.pc \in {"statement", "keys"} => <<w.db, w.table>> \in DOMAIN Catalog
  /\ ran \subseteq DOMAIN built
  /\ \A i \in DOMAIN built : built[i].key = NoKey <=> built[i].cfg.rowid
  /\ run.pc \in RunPlaces /\ run.route \in Routes \cup {""}
  /\ (run.pc = "done" <=> run.result \in Results)
  /\ named \subseteq Databases /\ calls \in 0..MaxCalls /\ edits \in 0..MaxEdits

Init ==
  /\ server \in Servers /\ config \in Configs
  /\ w = NoWriter /\ built = <<>> /\ ran = {} /\ run = NoRun
  /\ named = {config.database} /\ calls = 0 /\ edits = 0

Idle == w.pc = "none" /\ run.pc \in {"none", "done"}

(* The caller gives the Config another statement, chunk size or forced       *)
(* columns; what options and NewWriter have put into it stays.              *)
Edit ==
  /\ Idle /\ edits < MaxEdits
  /\ \E c \in Configs :
       config' = [config EXCEPT !.stmt = c.stmt, !.chunk = c.chunk, !.force = c.force]
  /\ edits' = edits + 1
  /\ UNCHANGED <<server, w, built, ran, run, named, calls>>

-----------------------------------------------------------------------------
(* oak.NewExecutor and Config.PreCheck. *)

(* Options are applied in order: the last one of a kind stays. *)
Latest(options, opt, default) ==
  LET is == {i \in DOMAIN options : options[i].opt = opt}
  IN IF is = {} THEN default ELSE options[Max(is)]

Apply(c, options) ==
  LET covering == Latest(options, "covering", c)
  IN [c EXCEPT !.index = covering.index, !.orderBy = covering.orderBy,
               !.cursor = covering.cursor,
               !.conc = Latest(options, "partitions", [n |-> c.conc]).n,
               !.rowid = Latest(options, "rowid", [on |-> c.rowid]).on]

RowIDAllowed(c) ==
  /\ c.stmt.kind = "delete" /\ c.chunk > 0
  /\ ~c.orderBy /\ ~c.cursor /\ ~c.index /\ c.conc <= 1
  /\ c.force \in {<<>>, <<"">>}

FastPathAllowed_AnyStatement(c) == c.chunk > 0
FastPathAllowed(c) == c.stmt.kind = "delete" /\ c.chunk > 0

PreCheck(c) ==
  /\ c.chunk >= 0 /\ c.stmt.kind # "empty" /\ c.rest
  /\ c.rowid => RowIDAllowed(c)
  /\ c.orderBy => FastPathAllowed(c)
  /\ c.cursor \/ c.index \/ c.conc > 1 => c.orderBy
  /\ c.conc >= 0

(* The options stay in the Config also when it is refused.                  *)
NewExecutor(options) ==
  /\ Idle /\ calls < MaxCalls
  /\ LET c == Apply(config, options)
     IN /\ config' = c
        /\ w' = IF PreCheck(c) THEN [NoWriter EXCEPT !.pc = "target", !.cfg = c] ELSE NoWriter
        /\ named' = named \cup {c.stmt.schema}
  /\ calls' = calls + 1
  /\ UNCHANGED <<server, built, ran, run, edits>>

-----------------------------------------------------------------------------
(* mysql.NewWriter: Writer.preCheck. *)

Table(v) == Catalog[<<v.db, v.table>>]

(* "" refuses. *)
ResolveTargetDatabase_ConfigWins(configured, schema) ==
  IF configured = "" THEN schema ELSE configured
ResolveTargetDatabase(configured, schema) ==
  IF configured = "" THEN schema ELSE IF schema \in {"", configured} THEN configured ELSE ""

Refuse == w' = NoWriter /\ UNCHANGED <<config, built>>

Build(v) == built' = Append(built, v) /\ w' = NoWriter /\ UNCHANGED config

ResolveTarget ==
  /\ w.pc = "target"
  /\ LET db == ResolveTargetDatabase(config.database, w.cfg.stmt.schema)
     IN \/ db = "" /\ Refuse
        \/ /\ db # ""
           /\ w' = [w EXCEPT !.pc = "connect", !.db = db, !.table = w.cfg.stmt.first]
           /\ config' = [config EXCEPT !.database = IF @ = "" THEN db ELSE @]
           /\ UNCHANGED built

(* The connection may fail, or the table be missing.                        *)
Connect ==
  /\ w.pc = "connect"
  /\ \/ Refuse
     \/ /\ <<w.db, w.table>> \in DOMAIN Catalog
        /\ w' = [w EXCEPT !.pc = "statement"]
        /\ UNCHANGED <<config, built>>

Parses(c) ==
  /\ c.stmt.kind \in {"delete", "update"} /\ ~c.stmt.many
  /\ c.force # <<>> => NormalizeForceChunkingColumns(c.force) # <<>>

(* The statement is rewritten over w.table with its WHERE clause alone, the  *)
(* version and now() are read; a row id run needs no key.                   *)
ReadStatement ==
  /\ w.pc = "statement"
  /\ \/ Refuse
     \/ Parses(w.cfg) /\ w.cfg.rowid /\ Build([w EXCEPT !.pc = "none", !.source = server])
     \/ /\ Parses(w.cfg) /\ ~w.cfg.rowid
        /\ w' = [w EXCEPT !.pc = "keys", !.source = server]
        /\ UNCHANGED <<config, built>>

(* SHOW INDEX may fail or return nothing.                                   *)
ReadKeys ==
  /\ w.pc = "keys"
  /\ \E shown \in {Table(w).shown, <<>>} :
       LET force == NormalizeForceChunkingColumns(w.cfg.force)
           key == SelectChunkingKey(KeysOf(w.source, Table(w), shown, force), force)
       IN \/ Refuse
          \/ key # NoKey /\ Build([w EXCEPT !.pc = "none", !.key = key])

NewWriter ==
  /\ ResolveTarget \/ Connect \/ ReadStatement \/ ReadKeys
  /\ UNCHANGED <<server, ran, run, named, calls, edits>>

-----------------------------------------------------------------------------
(* Executor.Run. *)

SelectStrategy(c, v) ==
  IF c.rowid THEN "rowid"
  ELSE IF c.conc > 1 /\ v.source = "oceanbase" /\ c.orderBy THEN "partition"
  ELSE IF c.orderBy THEN "covering" ELSE "range"

Run(i) ==
  /\ Idle /\ i \in DOMAIN built \ ran
  /\ run' = [NoRun EXCEPT !.pc = "start", !.w = built[i], !.cfg = config,
                          !.route = SelectStrategy(config, built[i]),
                          !.hits = [row \in Table(built[i]).rows |-> 0]]
  /\ ran' = ran \cup {i}
  /\ UNCHANGED <<server, config, w, built, named, calls, edits>>

Ends(result) == run' = [run EXCEPT !.pc = "done", !.result = result]

(* What a strategy needs of the table, and what the query that asks says.   *)
Applies ==
  CASE run.route = "rowid" -> Table(run.w).rowid
    [] run.route = "partition" -> Table(run.w).partitioned
    [] OTHER -> TRUE

(* A strategy that reads the key of a writer built without one dereferences  *)
(* a nil pointer.                                                           *)
Start ==
  /\ run.pc = "start"
  /\ \/ ~Applies /\ Ends("error")
     \/ Applies /\ run.route # "rowid" /\ run.w.key = NoKey /\ Ends("crash")
     \/ /\ Applies /\ run.route # "range" /\ (run.route = "rowid" \/ run.w.key # NoKey)
        /\ Ends("strategy")
     \/ run.route = "range" /\ run.w.key # NoKey /\ run' = [run EXCEPT !.pc = "scan"]

-----------------------------------------------------------------------------
(* Procedure.BuildSQL with the statements Writer.Write executes. *)

Chunk == run.w.cfg.chunk
Key == run.w.key

(* Rows the WHERE clause matches: a DELETE's are gone, an UPDATE's are not.  *)
Matching ==
  {row \in DOMAIN run.hits : run.w.cfg.stmt.kind = "delete" => run.hits[row] = 0}

PastCursor(row) == BuildSelectWhereClause(Key, ">", GetArgs(run.cursor), row)

Remaining == {row \in Matching : run.cursor = <<>> \/ PastCursor(row)}

PageLimit ==
  IF Chunk > 1 THEN Chunk ELSE IF run.cursor = <<>> THEN 1 ELSE PageSize

(* A row's place in the order of its key. *)
Place(row, rows) == 1 + Cardinality({r \in rows : Precedes(KeyOf(Key, r), KeyOf(Key, row))})

FirstPage(rows) ==
  [i \in 1..Min({PageLimit, Cardinality(rows)}) |-> CHOOSE row \in rows : Place(row, rows) = i]

(* The arguments of a chunk from one row to another.                        *)
ArgsOf(r, s) ==
  GetColumnValue(IF Chunk = 1 THEN KeyOf(Key, r) ELSE KeyOf(Key, r) \o KeyOf(Key, s), Chunk)

(* The driver refuses a statement whose placeholders do not fit its          *)
(* arguments, and handleColumnValue a column type it does not know.         *)
Unusable(page) ==
  \/ \E i \in DOMAIN Key.cols : Key.cols[i] \in Table(run.w).unsupported
  \/ ExecPlaceholders(Key, Chunk) # Len(ArgsOf(Head(page), Last(page)))

Executes(args) == {row \in Matching : ExecWhere(Key, Chunk, args, row)}

(* A page is one chunk, cut off by its LIMIT, or a chunk per row.            *)
Hits(page) ==
  IF Chunk = 1 THEN {UNION {Executes(ArgsOf(row, row)) : row \in ToSet(page)}}
  ELSE UNION {kSubset(Min({Chunk, Cardinality(rows)}), rows) :
                rows \in {Executes(args) : args \in {ArgsOf(Head(page), Last(page))}}}

ScanNothing == Chunk = 0 /\ Ends("nil")

ScanEnds(page) == page = <<>> /\ Ends("nil")

ScanFails(page) == page # <<>> /\ Unusable(page) /\ Ends("error")

(* A row hit twice stays at 2. *)
ScanPage(page) ==
  /\ page # <<>> /\ ~Unusable(page)
  /\ \E hit \in Hits(page) :
       run' = [run EXCEPT !.hits = [row \in DOMAIN @ |->
                                     IF row \in hit THEN Min({2, @[row] + 1}) ELSE @[row]],
                          !.cursor = KeyOf(Key, Last(page))]

Scan ==
  /\ run.pc = "scan"
  /\ \/ ScanNothing
     \/ /\ Chunk # 0
        /\ \E rows \in {Remaining} : \E page \in {FirstPage(rows)} :
             ScanEnds(page) \/ ScanFails(page) \/ ScanPage(page)

Running == (Start \/ Scan) /\ UNCHANGED <<server, config, w, built, ran, named, calls, edits>>

-----------------------------------------------------------------------------
Next ==
  \/ Edit \/ NewWriter \/ Running
  \/ \E options \in OptionLists : NewExecutor(options)
  \/ \E i \in DOMAIN built : Run(i)

Spec == Init /\ [][Next]_vars

-----------------------------------------------------------------------------
(* Properties. *)

(* Nobody has changed the Config between NewExecutor and Run. *)
AsBuilt == [run.cfg EXCEPT !.database = ""] = [run.w.cfg EXCEPT !.database = ""]

Started == run.pc # "none" /\ AsBuilt

(* Three places decide on their own: PreCheck by the statement's first word,  *)
(* NewWriter by its tree, selectStrategy by the settings alone.  Together    *)
(* they never hand an UPDATE to a strategy that deletes, nor a writer        *)
(* without a key to one that chunks by it; and what the caller asks for      *)
(* takes effect or is refused: only the number of workers is ignored, on a   *)
(* server other than OceanBase.                                             *)
RouteFitsWriter ==
  Started =>
    LET c == run.cfg
        force == NormalizeForceChunkingColumns(c.force)
    IN /\ run.route # "range" => run.w.cfg.stmt.kind = "delete"
       /\ run.route # "rowid" => run.w.key # NoKey
       /\ c.rowid => run.route = "rowid"
       /\ c.cursor \/ c.index => run.route \in {"covering", "partition"}
       /\ c.conc > 1 => run.route = IF run.w.source = "oceanbase" THEN "partition" ELSE "covering"
       /\ force # <<>> => ToSet(run.w.key.cols) = ToSet(force)

(* However often the Config is reused, a run goes to the database its        *)
(* statement names, or else to one that was named before.                   *)
TargetIsNamed ==
  run.pc # "none" =>
    /\ run.w.cfg.stmt.schema \in {"", run.w.db}
    /\ run.w.db \in named \ {""}

(* A scan over a key of several columns, chosen from the DDL or put together *)
(* from rows of SHOW INDEX in any order, hits no row twice, and all of them  *)
(* by the time it reports success; with chunk size 0 it hits none.  A key    *)
(* that the predicates cannot serve, for a NULL or its type, is not refused  *)
(* when it is chosen: its run fails before it has executed anything.        *)
ScanIsExact ==
  (run.pc # "none" /\ run.route = "range" /\ Key # NoKey) =>
    /\ \A row \in DOMAIN run.hits : run.hits[row] <= 1
    /\ run.result = "nil" =>
         \A row \in DOMAIN run.hits : run.hits[row] = (IF Chunk = 0 THEN 0 ELSE 1)
    /\ (Chunk # 0 /\ \E i \in DOMAIN Key.cols :
          Key.null[i] \/ Key.cols[i] \in Table(run.w).unsupported) =>
         /\ \A row \in DOMAIN run.hits : run.hits[row] = 0
         /\ DOMAIN run.hits # {} => run.result \in {"", "error"}

(* The design: statements over several tables and statements with a LIMIT    *)
(* are forbidden (doc/design/ob-merge-design.md).  So what runs changes the  *)
(* table the statement changes, and no more rows than it says.              *)
StatementIsKept ==
  (run.route = "range" /\ \E row \in DOMAIN run.hits : run.hits[row] > 0) =>
    LET stmt == run.w.cfg.stmt
    IN /\ run.w.table = stmt.target
       /\ stmt.limit > 0 =>
            MapThenSumSet(LAMBDA row : run.hits[row], DOMAIN run.hits) <= stmt.limit
=============================================================================
