---------------------------- MODULE StartRun_proofs ----------------------------
(***************************************************************************)
(* Proofs about StartRun, for every catalog, every set of Configs and      *)
(* option lists, and any number of executors on one Config.                *)
(*                                                                         *)
(* The inductive invariant IInv follows a writer through NewWriter         *)
(* (Building), says what holds of it from then on (Settled), and that a    *)
(* run keeps the writer and the route it was started with (Routed).  On    *)
(* top of it, Exact says that a writer's key tells its table's rows apart  *)
(* and what a scan has done when its cursor is where it is (Swept).  That  *)
(* takes lemmas about the predicates, for keys of any number of columns,   *)
(* about the choice of a key from any catalog, and about pages.            *)
(***************************************************************************)
EXTENDS StartRun, PageLemmas, SequenceTheorems, TLAPS

IsWriter(v) ==
  v = [pc |-> v.pc, cfg |-> v.cfg, db |-> v.db, table |-> v.table, source |-> v.source,
       key |-> v.key]
IsRun(r) ==
  r = [pc |-> r.pc, w |-> r.w, cfg |-> r.cfg, route |-> r.route, cursor |-> r.cursor,
       hits |-> r.hits, result |-> r.result]

Checked(v) == v.cfg \in Config /\ PreCheck(v.cfg)

Targeted(v) == v.cfg.stmt.schema \in {"", v.db} /\ v.db \in named \ {""}

(* A writer has a key unless it was built for row ids, and it is the one     *)
(* that the forced columns ask for.                                         *)
Keyed(v) ==
  /\ v.key = NoKey <=> v.cfg.rowid
  /\ LET force == NormalizeForceChunkingColumns(v.cfg.force)
     IN ~v.cfg.rowid /\ force # <<>> => ToSet(v.key.cols) = ToSet(force)

Settled(v) == Checked(v) /\ Targeted(v) /\ Keyed(v)

Building ==
  /\ IsWriter(w)
  /\ w.pc # "none" => Checked(w) /\ w.cfg.stmt.schema \in named /\ w.key = NoKey
  /\ w.pc \in {"connect", "statement", "keys"} => Targeted(w)
  /\ w.pc = "keys" => ~w.cfg.rowid

Built ==
  /\ built \in Seq(ToSet(built))
  /\ \A i \in DOMAIN built : Settled(built[i])

Routed ==
  /\ IsRun(run)
  /\ run.pc # "none" => /\ Settled(run.w) /\ run.cfg \in Config
                        /\ run.route = SelectStrategy(run.cfg, run.w)

IInv == TypeOK /\ config.database \in named /\ Building /\ Built /\ Routed

-----------------------------------------------------------------------------
(* Lemmas about the operators of NewExecutor and NewWriter. *)

(* The last option of a kind is one of the list. *)
LEMMA LatestIsOption ==
  ASSUME NEW options \in Seq(Option), NEW opt, NEW default
  PROVE  \/ Latest(options, opt, default) = default
         \/ /\ Latest(options, opt, default) \in Option
            /\ Latest(options, opt, default).opt = opt
<1> DEFINE is == {i \in DOMAIN options : options[i].opt = opt}
<1>1. CASE is = {}
  BY <1>1 DEF Latest
<1>2. CASE is # {}
  <2>1. DOMAIN options = 1..Len(options) /\ Len(options) \in Nat
    OBVIOUS
  <2>2. IsFiniteSet(is) /\ is \subseteq Int
    <3>1. is \subseteq 1..Len(options)
      BY <2>1
    <3>2. IsFiniteSet(1..Len(options)) /\ 1..Len(options) \subseteq Int
      BY <2>1, FS_Interval
    <3> QED BY <3>1, <3>2, FS_Subset
  <2>3. \E x \in is : \A y \in is : y <= x
    BY <1>2, <2>2, MaxExists
  <2>4. \E x \in is : \A y \in is : x >= y
    BY <2>2, <2>3
  <2>5. Max(is) \in is
    BY <2>4 DEF Max
  <2>6. Latest(options, opt, default) = options[Max(is)]
    BY <1>2 DEF Latest
  <2> HIDE DEF is
  <2>7. options[Max(is)] \in Option /\ options[Max(is)].opt = opt
    BY <2>1, <2>5 DEF is
  <2> QED BY <2>6, <2>7
<1> QED BY <1>1, <1>2

(* Options change the three fast paths, and nothing else of a Config. *)
LEMMA ApplyKeeps ==
  ASSUME NEW c \in Config, NEW options \in Seq(Option)
  PROVE  /\ Apply(c, options) \in Config
         /\ Apply(c, options).database = c.database /\ Apply(c, options).stmt = c.stmt
<1> DEFINE covering == Latest(options, "covering", c)
           partitions == Latest(options, "partitions", [n |-> c.conc])
           rowid == Latest(options, "rowid", [on |-> c.rowid])
<1>1. covering.index \in BOOLEAN /\ covering.orderBy \in BOOLEAN /\ covering.cursor \in BOOLEAN
  BY LatestIsOption DEF Option, Config
<1>2. partitions.n \in Int
  BY LatestIsOption DEF Option, Config
<1>3. rowid.on \in BOOLEAN
  BY LatestIsOption DEF Option, Config
<1>4. Apply(c, options) =
        [c EXCEPT !.index = covering.index, !.orderBy = covering.orderBy,
                  !.cursor = covering.cursor, !.conc = partitions.n, !.rowid = rowid.on]
  BY DEF Apply
<1> HIDE DEF covering, partitions, rowid
<1> QED BY <1>1, <1>2, <1>3, <1>4 DEF Config

LEMMA ResolveIsNamed ==
  ASSUME NEW configured, NEW schema,
         ResolveTargetDatabase(configured, schema) # ""
  PROVE  /\ ResolveTargetDatabase(configured, schema) \in {configured, schema}
         /\ schema \in {"", ResolveTargetDatabase(configured, schema)}
BY DEF ResolveTargetDatabase

(* What is chosen under forced columns has those columns. *)
LEMMA ForcedKey ==
  ASSUME NEW keys, NEW force, force # <<>>, SelectChunkingKey(keys, force) # NoKey
  PROVE  ToSet(SelectChunkingKey(keys, force).cols) = ToSet(force)
<1> DEFINE is == {i \in DOMAIN keys : SameColumns(force, keys[i])}
           first == {i \in is : is \cap 1..(i - 1) = {}}
<1>1. SelectChunkingKey(keys, force) = FirstOf(keys, is)
  BY DEF SelectChunkingKey
<1>2. first # {} /\ FirstOf(keys, is) = keys[CHOOSE i \in first : TRUE]
  BY <1>1 DEF FirstOf
<1>3. SameColumns(force, keys[CHOOSE i \in first : TRUE])
  BY <1>2
<1> QED BY <1>1, <1>2, <1>3 DEF SameColumns

LEMMA EmptyFunction ==
  ASSUME NEW g, NEW f, f = [i \in {} |-> g[i]]
  PROVE  f = <<>>
OBVIOUS

LEMMA ShortSequences ==
  ASSUME NEW x, NEW f, f = <<>> \/ f = <<x>>
  PROVE  \A i \in DOMAIN f : f[i] = x
<1>1. CASE f = <<>>
  <2>1. f \in Seq({x})
    BY <1>1
  <2> QED BY <2>1
<1>2. CASE f = <<x>>
  <2>1. f \in Seq({x})
    BY <1>2
  <2> QED BY <2>1
<1> QED BY <1>1, <1>2

(* Blank parts force nothing, and a row id run has only those. *)
LEMMA BlankForcesNothing ==
  ASSUME NEW force, NEW blank, blank = "", \A i \in DOMAIN force : force[i] = blank
  PROVE  NormalizeForceChunkingColumns(force) = <<>>
<1> DEFINE S == {i \in DOMAIN force : force[i] # ""}
<1>1. S = {}
  OBVIOUS
<1>2. NormalizeForceChunkingColumns(force) = [i \in S |-> force[i]]
  BY DEF NormalizeForceChunkingColumns, Restrict
<1> QED BY <1>1, <1>2, EmptyFunction

LEMMA RowIDForcesNothing ==
  ASSUME NEW c, c.rowid, PreCheck(c)
  PROVE  NormalizeForceChunkingColumns(c.force) = <<>>
<1>1. c.force = <<>> \/ c.force = <<"">>
  BY DEF PreCheck, RowIDAllowed
<1>2. \A i \in DOMAIN c.force : c.force[i] = ""
  BY <1>1, ShortSequences
<1> QED BY <1>2, BlankForcesNothing

-----------------------------------------------------------------------------
(* Steps. *)

LEMMA SettledStays ==
  ASSUME named \subseteq named', NEW v, Settled(v)
  PROVE  Settled(v)'
BY DEF Settled, Checked, Targeted, Keyed

LEMMA BuiltStays ==
  ASSUME Built, named \subseteq named', UNCHANGED built
  PROVE  Built'
BY SettledStays DEF Built

LEMMA BuildAppends ==
  ASSUME built \in Seq(ToSet(built)), NEW v, built' = Append(built, v)
  PROVE  /\ built' \in Seq(ToSet(built'))
         /\ DOMAIN built \subseteq DOMAIN built'
         /\ \A i \in DOMAIN built' : built'[i] = v \/ (i \in DOMAIN built /\ built'[i] = built[i])
<1> DEFINE S == ToSet(built) \cup {v}
<1>1. built \in Seq(S) /\ v \in S
  <2>1. ToSet(built) \subseteq S
    OBVIOUS
  <2> HIDE DEF S
  <2>2. built \in Seq(S)
    BY <2>1
  <2> QED BY <2>2 DEF S
<1> HIDE DEF S
<1>2. built' \in Seq(S) /\ Len(built') = Len(built) + 1
      /\ \A i \in 1..Len(built) : built'[i] = built[i]
      /\ built'[Len(built) + 1] = v
  BY <1>1, AppendProperties
<1>3. Len(built) \in Nat /\ DOMAIN built = 1..Len(built) /\ DOMAIN built' = 1..(Len(built) + 1)
  BY <1>1, <1>2
<1>4. \A i \in DOMAIN built' : built'[i] = v \/ (i \in DOMAIN built /\ built'[i] = built[i])
  <2> SUFFICES ASSUME NEW i \in 1..(Len(built) + 1)
               PROVE  built'[i] = v \/ (i \in DOMAIN built /\ built'[i] = built[i])
    BY <1>3
  <2>1. i \in 1..Len(built) \/ i = Len(built) + 1
    BY <1>3
  <2> QED BY <1>2, <1>3, <2>1
<1>5. built' \in Seq(ToSet(built'))
  <2>1. \A i \in 1..Len(built') : built'[i] \in ToSet(built')
    BY <1>2, <1>3 DEF ToSet
  <2> QED BY <1>2, <2>1
<1>6. DOMAIN built \subseteq DOMAIN built'
  BY <1>3
<1> QED BY <1>4, <1>5, <1>6

LEMMA InitIInv == Init => IInv
<1> SUFFICES ASSUME Init PROVE IInv
  OBVIOUS
<1>1. config \in Config /\ config.database \in Databases /\ 0 \in 0..MaxCalls /\ 0 \in 0..MaxEdits
  BY StartAssumption DEF Init, Config
<1>2. built = <<>> /\ DOMAIN built = {}
  BY DEF Init
<1>3. IsWriter(w) /\ w.pc = "none"
  BY DEF Init, NoWriter, IsWriter
<1>4. IsRun(run) /\ run.pc = "none" /\ run.route = "" /\ run.result = ""
  BY DEF Init, NoRun, IsRun
<1>5. TypeOK
  <2>1. run.pc \in RunPlaces /\ run.route \in Routes \cup {""}
        /\ run.pc # "done" /\ run.result \notin Results
    BY <1>4 DEF RunPlaces, Results
  <2>2. w.pc \in WriterPlaces
        /\ (w.pc \in {"statement", "keys"} => <<w.db, w.table>> \in DOMAIN Catalog)
    BY <1>3 DEF WriterPlaces
  <2>3. server \in Servers /\ ran \subseteq DOMAIN built /\ named \subseteq Databases
        /\ calls = 0 /\ edits = 0
    BY <1>1 DEF Init
  <2>4. \A i \in DOMAIN built : built[i].key = NoKey <=> built[i].cfg.rowid
    BY <1>2
  <2> QED BY <1>1, <2>1, <2>2, <2>3, <2>4 DEF TypeOK
<1>6. Building
  BY <1>3 DEF Building
<1>7. Built
  <2>1. built \in Seq(ToSet(built))
    BY <1>2
  <2> QED BY <1>2, <2>1 DEF Built
<1>8. Routed
  BY <1>4 DEF Routed
<1> QED BY <1>5, <1>6, <1>7, <1>8 DEF Init, IInv

LEMMA EditStep ==
  ASSUME IInv, Edit
  PROVE  IInv'
<1> USE DEF IInv
<1>1. PICK c \in Configs :
        config' = [config EXCEPT !.stmt = c.stmt, !.chunk = c.chunk, !.force = c.force]
  BY DEF Edit
<1>2. c \in Config /\ config \in Config
  BY <1>1, StartAssumption DEF TypeOK
<1>3. config' \in Config /\ config'.database = config.database
  BY <1>1, <1>2 DEF Config
<1>4. edits' \in 0..MaxEdits
  <2>1. edits \in 0..MaxEdits /\ edits < MaxEdits /\ edits' = edits + 1
    BY DEF Edit, TypeOK
  <2> QED BY <2>1, StartAssumption
<1>5. UNCHANGED <<server, w, built, ran, run, named, calls>>
  BY DEF Edit
<1>6. TypeOK'
  BY <1>3, <1>4, <1>5 DEF TypeOK
<1>7. Building' /\ Built' /\ Routed'
  BY <1>5, SettledStays DEF Building, Built, Routed, Checked, Targeted, Settled, Keyed
<1> QED BY <1>3, <1>5, <1>6, <1>7

LEMMA NewExecutorStep ==
  ASSUME IInv, NEW options \in OptionLists, NewExecutor(options)
  PROVE  IInv'
<1> USE DEF IInv
<1> DEFINE c == Apply(config, options)
<1>1. config \in Config /\ options \in Seq(Option)
  BY StartAssumption DEF TypeOK
<1>2. c \in Config /\ c.database = config.database
  BY <1>1, ApplyKeeps
<1>3. config' = c /\ named' = named \cup {c.stmt.schema}
      /\ w' = (IF PreCheck(c) THEN [NoWriter EXCEPT !.pc = "target", !.cfg = c] ELSE NoWriter)
  BY DEF NewExecutor
<1> HIDE DEF c
<1>4. UNCHANGED <<server, built, ran, run, edits>>
  BY DEF NewExecutor
<1>5. calls' \in 0..MaxCalls
  <2>1. calls \in 0..MaxCalls /\ calls < MaxCalls /\ calls' = calls + 1
    BY DEF NewExecutor, TypeOK
  <2> QED BY <2>1, StartAssumption
<1>6. c.stmt.schema \in Databases
  BY <1>2 DEF Config, Statement
<1>7. IsWriter(w') /\ w'.pc \in {"none", "target"}
      /\ (w'.pc = "target" => w'.cfg = c /\ PreCheck(c) /\ w'.key = NoKey)
  BY <1>3 DEF NoWriter, IsWriter
<1>8. TypeOK'
  <2>1. w'.pc \in WriterPlaces /\ w'.pc \notin {"statement", "keys"}
    BY <1>7 DEF WriterPlaces
  <2>2. named' \subseteq Databases
    BY <1>3, <1>6 DEF TypeOK
  <2> QED BY <1>2, <1>3, <1>4, <1>5, <2>1, <2>2 DEF TypeOK
<1>9. Building'
  BY <1>2, <1>3, <1>7 DEF Building, Checked, IsWriter
<1>10. named \subseteq named'
  BY <1>3
<1>11. Built' /\ Routed'
  BY <1>4, <1>10, SettledStays, BuiltStays DEF Routed, IsRun
<1> QED BY <1>2, <1>3, <1>8, <1>9, <1>11

(* A step of NewWriter that leaves config's database named and the list of   *)
(* executors as it is. *)
LEMMA WriterStep ==
  ASSUME IInv, UNCHANGED <<server, built, ran, run, named, calls, edits>>,
         config' \in Config, config'.database \in named,
         Building', w'.pc \in WriterPlaces,
         w'.pc \in {"statement", "keys"} => <<w'.db, w'.table>> \in DOMAIN Catalog
  PROVE  IInv'
<1> USE DEF IInv
<1>1. TypeOK'
  BY DEF TypeOK
<1>2. Built' /\ Routed'
  <2>1. named \subseteq named'
    OBVIOUS
  <2> QED BY <2>1, BuiltStays, SettledStays DEF Routed
<1> QED BY <1>1, <1>2

LEMMA RefuseStep ==
  ASSUME IInv, Refuse, UNCHANGED <<server, ran, run, named, calls, edits>>
  PROVE  IInv'
<1>1. IsWriter(w') /\ w'.pc = "none"
  BY DEF Refuse, NoWriter, IsWriter
<1>2. Building'
  BY <1>1 DEF Building, IsWriter
<1>3. w'.pc \in WriterPlaces /\ w'.pc \notin {"statement", "keys"}
  BY <1>1 DEF WriterPlaces
<1>4. config' \in Config /\ config'.database \in named
      /\ UNCHANGED <<server, built, ran, run, named, calls, edits>>
  BY DEF IInv, TypeOK, Refuse
<1> QED BY <1>2, <1>3, <1>4, WriterStep

(* A writer that is done joins the executors. *)
LEMMA BuildStep ==
  ASSUME IInv, NEW v, Build(v), Settled(v), UNCHANGED <<server, ran, run, named, calls, edits>>
  PROVE  IInv'
<1> USE DEF IInv
<1>1. built' = Append(built, v) /\ w' = NoWriter /\ config' = config
  BY DEF Build
<1>2. /\ built' \in Seq(ToSet(built'))
      /\ DOMAIN built \subseteq DOMAIN built'
      /\ \A i \in DOMAIN built' : built'[i] = v \/ (i \in DOMAIN built /\ built'[i] = built[i])
  BY <1>1, BuildAppends DEF Built
<1>3. \A i \in DOMAIN built' : Settled(built'[i])
  BY <1>2 DEF Built
<1>4. \A i \in DOMAIN built' : built'[i].key = NoKey <=> built'[i].cfg.rowid
  BY <1>3 DEF Settled, Keyed
<1>5. named' = named
  OBVIOUS
<1>6. Built'
  BY <1>2, <1>3, <1>5 DEF Built, Settled, Checked, Targeted, Keyed
<1>7. IsWriter(w') /\ w'.pc = "none"
  BY <1>1 DEF NoWriter, IsWriter
<1>8. Building'
  BY <1>7 DEF Building, IsWriter
<1>9. TypeOK'
  <2>1. w'.pc \in WriterPlaces /\ w'.pc \notin {"statement", "keys"}
    BY <1>7 DEF WriterPlaces
  <2>2. ran' \subseteq DOMAIN built'
    BY <1>2 DEF TypeOK
  <2> QED BY <1>1, <1>4, <2>1, <2>2 DEF TypeOK
<1>10. Routed'
  BY <1>5, SettledStays DEF Routed
<1> QED BY <1>1, <1>6, <1>8, <1>9, <1>10

LEMMA ResolveTargetStep ==
  ASSUME IInv, ResolveTarget, UNCHANGED <<server, ran, run, named, calls, edits>>
  PROVE  IInv'
<1> DEFINE db == ResolveTargetDatabase(config.database, w.cfg.stmt.schema)
<1>1. CASE db = "" /\ Refuse
  BY <1>1, RefuseStep
<1>2. CASE /\ db # ""
           /\ w' = [w EXCEPT !.pc = "connect", !.db = db, !.table = w.cfg.stmt.first]
           /\ config' = [config EXCEPT !.database = IF @ = "" THEN db ELSE @]
           /\ UNCHANGED built
  <2>1. IsWriter(w) /\ Checked(w) /\ w.cfg.stmt.schema \in named /\ w.key = NoKey
        /\ w.pc = "target"
    BY DEF IInv, Building, ResolveTarget
  <2>2. config \in Config /\ config.database \in named /\ named \subseteq Databases
    BY DEF IInv, TypeOK
  <2>3. db \in {config.database, w.cfg.stmt.schema} /\ w.cfg.stmt.schema \in {"", db}
    BY <1>2, ResolveIsNamed
  <2> HIDE DEF db
  <2>4. db \in named \ {""} /\ db \in Databases
    BY <1>2, <2>1, <2>2, <2>3
  <2>5. config' \in Config /\ config'.database \in named
    BY <1>2, <2>2, <2>4 DEF Config
  <2>6. IsWriter(w') /\ w'.pc = "connect" /\ w'.cfg = w.cfg /\ w'.db = db /\ w'.key = NoKey
    BY <1>2, <2>1 DEF IsWriter
  <2>7. Building'
    BY <2>1, <2>3, <2>4, <2>6 DEF Building, Checked, Targeted, IsWriter
  <2>8. w'.pc \in WriterPlaces /\ w'.pc \notin {"statement", "keys"}
    BY <2>6 DEF WriterPlaces
  <2> QED BY <1>2, <2>5, <2>7, <2>8, WriterStep
<1> QED BY <1>1, <1>2 DEF ResolveTarget

LEMMA ConnectStep ==
  ASSUME IInv, Connect, UNCHANGED <<server, ran, run, named, calls, edits>>
  PROVE  IInv'
<1>1. CASE Refuse
  BY <1>1, RefuseStep
<1>2. CASE /\ <<w.db, w.table>> \in DOMAIN Catalog
           /\ w' = [w EXCEPT !.pc = "statement"]
           /\ UNCHANGED <<config, built>>
  <2>1. IsWriter(w) /\ Checked(w) /\ w.cfg.stmt.schema \in named /\ w.key = NoKey /\ Targeted(w)
    BY DEF IInv, Building, Connect
  <2>2. IsWriter(w') /\ w'.pc = "statement" /\ w'.cfg = w.cfg /\ w'.db = w.db
        /\ w'.table = w.table /\ w'.key = NoKey
    BY <1>2, <2>1 DEF IsWriter
  <2>3. Building'
    BY <2>1, <2>2 DEF Building, Checked, Targeted, IsWriter
  <2>4. config' \in Config /\ config'.database \in named
    BY <1>2 DEF IInv, TypeOK
  <2>5. w'.pc \in WriterPlaces
    BY <2>2 DEF WriterPlaces
  <2> QED BY <1>2, <2>2, <2>3, <2>4, <2>5, WriterStep
<1> QED BY <1>1, <1>2 DEF Connect

LEMMA ReadStatementStep ==
  ASSUME IInv, ReadStatement, UNCHANGED <<server, ran, run, named, calls, edits>>
  PROVE  IInv'
<1>1. IsWriter(w) /\ Checked(w) /\ w.cfg.stmt.schema \in named /\ w.key = NoKey /\ Targeted(w)
      /\ w.pc = "statement"
  BY DEF IInv, Building, ReadStatement
<1>2. CASE Refuse
  BY <1>2, RefuseStep
<1>3. CASE w.cfg.rowid /\ Build([w EXCEPT !.pc = "none", !.source = server])
  <2> DEFINE v == [w EXCEPT !.pc = "none", !.source = server]
  <2>1. v.cfg = w.cfg /\ v.db = w.db /\ v.key = NoKey
    BY <1>1 DEF IsWriter
  <2> HIDE DEF v
  <2>2. Settled(v)
    BY <1>1, <1>3, <2>1 DEF Settled, Checked, Targeted, Keyed
  <2>3. Build(v)
    BY <1>3 DEF v
  <2> QED BY <2>2, <2>3, BuildStep
<1>4. CASE /\ ~w.cfg.rowid
           /\ w' = [w EXCEPT !.pc = "keys", !.source = server]
           /\ UNCHANGED <<config, built>>
  <2>1. IsWriter(w') /\ w'.pc = "keys" /\ w'.cfg = w.cfg /\ w'.db = w.db
        /\ w'.table = w.table /\ w'.key = NoKey
    BY <1>1, <1>4 DEF IsWriter
  <2>2. Building'
    BY <1>1, <1>4, <2>1 DEF Building, Checked, Targeted, IsWriter
  <2>3. config' \in Config /\ config'.database \in named
        /\ <<w.db, w.table>> \in DOMAIN Catalog
    BY <1>1, <1>4 DEF IInv, TypeOK
  <2>4. w'.pc \in WriterPlaces
    BY <2>1 DEF WriterPlaces
  <2> QED BY <1>4, <2>1, <2>2, <2>3, <2>4, WriterStep
<1> QED BY <1>2, <1>3, <1>4 DEF ReadStatement

LEMMA ReadKeysStep ==
  ASSUME IInv, ReadKeys, UNCHANGED <<server, ran, run, named, calls, edits>>
  PROVE  IInv'
<1>1. IsWriter(w) /\ Checked(w) /\ Targeted(w) /\ ~w.cfg.rowid /\ w.pc = "keys"
  BY DEF IInv, Building, ReadKeys
<1> DEFINE force == NormalizeForceChunkingColumns(w.cfg.force)
           keys(shown) == KeysOf(w.source, Table(w), shown, force)
           key(shown) == SelectChunkingKey(keys(shown), force)
<1>2. CASE Refuse
  BY <1>2, RefuseStep
<1>3. ASSUME NEW shown, key(shown) # NoKey, Build([w EXCEPT !.pc = "none", !.key = key(shown)])
      PROVE  IInv'
  <2>1. force # <<>> => ToSet(key(shown).cols) = ToSet(force)
    BY <1>3, ForcedKey
  <2> HIDE DEF force, keys
  <2> DEFINE k == key(shown)
             v == [w EXCEPT !.pc = "none", !.key = k]
  <2>2. k # NoKey /\ (force # <<>> => ToSet(k.cols) = ToSet(force)) /\ Build(v)
    BY <1>3, <2>1
  <2> HIDE DEF k
  <2>3. v.cfg = w.cfg /\ v.db = w.db /\ v.key = k
    BY <1>1 DEF IsWriter
  <2> HIDE DEF v
  <2>4. Settled(v)
    <3>1. Keyed(v)
      BY <1>1, <2>2, <2>3 DEF Keyed, force
    <3> QED BY <1>1, <2>3, <3>1 DEF Settled, Checked, Targeted
  <2> QED BY <2>2, <2>4, BuildStep
<1>4. Refuse \/ \E shown : key(shown) # NoKey /\ Build([w EXCEPT !.pc = "none", !.key = key(shown)])
  BY DEF ReadKeys
<1> QED BY <1>2, <1>3, <1>4

LEMMA RunStep ==
  ASSUME IInv, NEW i \in DOMAIN built, Run(i)
  PROVE  IInv'
<1> USE DEF IInv
<1> DEFINE route == SelectStrategy(config, built[i])
<1>1. /\ run' = [NoRun EXCEPT !.pc = "start", !.w = built[i], !.cfg = config, !.route = route,
                             !.hits = [row \in Table(built[i]).rows |-> 0]]
      /\ ran' = ran \cup {i} /\ UNCHANGED <<server, config, w, built, named, calls, edits>>
  BY DEF Run
<1>2. route \in Routes
  BY DEF SelectStrategy, Routes
<1>3. IsRun(run') /\ run'.pc = "start" /\ run'.w = built[i] /\ run'.cfg = config
      /\ run'.route = SelectStrategy(config, built[i]) /\ run'.result = ""
  BY <1>1 DEF NoRun, IsRun
<1>4. TypeOK'
  <2>1. run'.pc \in RunPlaces /\ run'.pc # "done" /\ run'.result \notin Results
    BY <1>3 DEF RunPlaces, Results
  <2>2. ran' \subseteq DOMAIN built'
    BY <1>1 DEF TypeOK
  <2> QED BY <1>1, <1>2, <1>3, <2>1, <2>2 DEF TypeOK
<1>5. Building'
  BY <1>1 DEF Building, Checked, Targeted
<1>6. Built'
  BY <1>1, BuiltStays
<1>7. Routed'
  <2>1. Settled(built[i])'
    BY <1>1, SettledStays DEF Built
  <2>2. Settled(built[i]) /\ config \in Config
    BY DEF Built, TypeOK
  <2> QED BY <1>1, <1>3, <2>2 DEF Routed, IsRun, Settled, Checked, Targeted, Keyed
<1> QED BY <1>1, <1>4, <1>5, <1>6, <1>7

(* A run under way changes nothing but its progress and its result. *)
LEMMA RunningShape ==
  ASSUME IInv, Running
  PROVE  /\ IsRun(run') /\ run.pc # "none" /\ run'.pc \in RunPlaces \ {"none"}
         /\ run'.w = run.w /\ run'.cfg = run.cfg /\ run'.route = run.route
         /\ run'.pc = "done" <=> run'.result \in Results
<1>1. IsRun(run) /\ run.pc \in {"start", "scan"} /\ run.result \notin Results
  BY DEF IInv, Routed, Running, Start, Scan, TypeOK
<1>2. ASSUME NEW result \in Results, Ends(result)
      PROVE  /\ IsRun(run') /\ run'.pc = "done" /\ run'.result \in Results
             /\ run'.w = run.w /\ run'.cfg = run.cfg /\ run'.route = run.route
  BY <1>1, <1>2 DEF Ends, IsRun
<1>3. CASE run' = [run EXCEPT !.pc = "scan"]
  <2>1. IsRun(run') /\ run'.pc = "scan" /\ run'.result = run.result
        /\ run'.w = run.w /\ run'.cfg = run.cfg /\ run'.route = run.route
    BY <1>1, <1>3 DEF IsRun
  <2> QED BY <1>1, <2>1 DEF RunPlaces
<1>4. ASSUME NEW hits, NEW cursor, run' = [run EXCEPT !.hits = hits, !.cursor = cursor]
      PROVE  /\ IsRun(run') /\ run'.pc = run.pc /\ run'.result = run.result
             /\ run'.w = run.w /\ run'.cfg = run.cfg /\ run'.route = run.route
  BY <1>1, <1>4 DEF IsRun
<1>5. \/ \E result \in Results : Ends(result)
      \/ run' = [run EXCEPT !.pc = "scan"]
      \/ \E hits, cursor : run' = [run EXCEPT !.hits = hits, !.cursor = cursor]
  <2>1. "nil" \in Results /\ "error" \in Results /\ "strategy" \in Results /\ "crash" \in Results
    BY DEF Results
  <2>2. CASE Start
    BY <2>1, <2>2 DEF Start
  <2>3. CASE Scan
    <3>1. CASE ScanNothing
      BY <2>1, <3>1 DEF ScanNothing
    <3>2. ASSUME NEW page, ScanEnds(page) \/ ScanFails(page)
          PROVE  \E result \in Results : Ends(result)
      BY <2>1, <3>2 DEF ScanEnds, ScanFails
    <3>3. ASSUME NEW page, ScanPage(page)
          PROVE  \E hits, cursor : run' = [run EXCEPT !.hits = hits, !.cursor = cursor]
      BY <3>3 DEF ScanPage
    <3> QED BY <2>3, <3>1, <3>2, <3>3 DEF Scan
  <2> QED BY <2>2, <2>3 DEF Running
<1>6. run.pc \in RunPlaces \ {"none", "done"}
  BY <1>1 DEF RunPlaces
<1>7. "done" \in RunPlaces \ {"none"}
  BY DEF RunPlaces
<1> QED BY <1>1, <1>2, <1>3, <1>4, <1>5, <1>6, <1>7

LEMMA RunningStep ==
  ASSUME IInv, Running
  PROVE  IInv'
<1> USE DEF IInv
<1>1. UNCHANGED <<server, config, w, built, ran, named, calls, edits>>
  BY DEF Running
<1>2. /\ IsRun(run') /\ run.pc # "none" /\ run'.pc \in RunPlaces \ {"none"}
      /\ run'.w = run.w /\ run'.cfg = run.cfg /\ run'.route = run.route
      /\ run'.pc = "done" <=> run'.result \in Results
  BY RunningShape
<1>3. TypeOK'
  BY <1>1, <1>2 DEF TypeOK
<1>4. Building'
  BY <1>1 DEF Building, Checked, Targeted
<1>5. Built'
  BY <1>1, BuiltStays
<1>6. Routed'
  <2>1. Settled(run.w) /\ run.cfg \in Config /\ run.route = SelectStrategy(run.cfg, run.w)
    BY <1>2 DEF Routed
  <2> QED BY <1>1, <1>2, <2>1 DEF Routed, IsRun, Settled, Checked, Targeted, Keyed
<1> QED BY <1>1, <1>3, <1>4, <1>5, <1>6

LEMMA StepIInv == IInv /\ [Next]_vars => IInv'
<1> SUFFICES ASSUME IInv, [Next]_vars PROVE IInv'
  OBVIOUS
<1>1. CASE Edit
  BY <1>1, EditStep
<1>2. CASE NewWriter
  BY <1>2, ResolveTargetStep, ConnectStep, ReadStatementStep, ReadKeysStep DEF NewWriter
<1>3. CASE Running
  BY <1>3, RunningStep
<1>4. ASSUME NEW options \in OptionLists, NewExecutor(options) PROVE IInv'
  BY <1>4, NewExecutorStep
<1>5. ASSUME NEW i \in DOMAIN built, Run(i) PROVE IInv'
  BY <1>5, RunStep
<1>6. CASE UNCHANGED vars
  <2> USE <1>6 DEF vars, IInv
  <2>1. TypeOK'
    BY DEF TypeOK
  <2>2. Building'
    BY DEF Building, Checked, Targeted
  <2>3. Built'
    BY BuiltStays
  <2>4. Routed'
    BY DEF Routed, Settled, Checked, Targeted, Keyed
  <2> QED BY <2>1, <2>2, <2>3, <2>4
<1> QED BY <1>1, <1>2, <1>3, <1>4, <1>5, <1>6 DEF Next

LEMMA Invariance == Spec => []IInv
<1> QED BY InitIInv, StepIInv, PTL DEF Spec

-----------------------------------------------------------------------------
(* Every variable keeps its type; a writer without a key is one for row ids. *)
THEOREM Types == Spec => []TypeOK
<1>1. IInv => TypeOK
  BY DEF IInv
<1> QED BY <1>1, Invariance, PTL

(* A run goes to a database that its statement, the Config or an earlier     *)
(* statement has named, however often NewWriter has written one back into    *)
(* the Config. *)
THEOREM TargetsAreNamed == Spec => []TargetIsNamed
<1>1. IInv => TargetIsNamed
  BY DEF IInv, Routed, Settled, Targeted, TargetIsNamed
<1> QED BY <1>1, Invariance, PTL

(* PreCheck, the parser and selectStrategy agree, as long as nobody changes  *)
(* the Config between NewExecutor and Run. *)
THEOREM RoutesFit == Spec => []RouteFitsWriter
<1>1. IInv => RouteFitsWriter
  <2> SUFFICES ASSUME IInv, Started PROVE RouteFitsWriter
    BY DEF RouteFitsWriter
  <2> DEFINE c == run.cfg
             v == run.w.cfg
             force == NormalizeForceChunkingColumns(c.force)
  <2>1. c \in Config /\ v \in Config /\ PreCheck(v) /\ Keyed(run.w)
        /\ run.route = SelectStrategy(c, run.w)
    BY DEF IInv, Routed, Settled, Checked, Started
  <2>2. [c EXCEPT !.database = ""] = [v EXCEPT !.database = ""]
    BY DEF Started, AsBuilt
  <2> HIDE DEF c, v
  <2>3. /\ c.rowid = v.rowid /\ c.orderBy = v.orderBy /\ c.index = v.index
        /\ c.cursor = v.cursor /\ c.conc = v.conc /\ c.force = v.force
    BY <2>1, <2>2 DEF Config
  <2>4. /\ c.rowid \in BOOLEAN /\ c.orderBy \in BOOLEAN /\ c.index \in BOOLEAN
        /\ c.cursor \in BOOLEAN
    BY <2>1 DEF Config
  <2>5. /\ c.rowid => /\ v.stmt.kind = "delete" /\ ~c.orderBy /\ ~c.cursor /\ ~c.index
                      /\ ~(c.conc > 1) /\ force = <<>>
        /\ c.orderBy => v.stmt.kind = "delete"
        /\ c.cursor \/ c.index \/ c.conc > 1 => c.orderBy
    <3>1. c.rowid => RowIDAllowed(v) /\ force = <<>>
      BY <2>1, <2>3, RowIDForcesNothing DEF PreCheck
    <3>2. c.orderBy => v.stmt.kind = "delete"
      BY <2>1, <2>3 DEF PreCheck, FastPathAllowed
    <3>3. c.cursor \/ c.index \/ c.conc > 1 => c.orderBy
      BY <2>1, <2>3 DEF PreCheck
    <3>4. c.conc \in Int
      BY <2>1 DEF Config
    <3> QED BY <2>3, <3>1, <3>2, <3>3, <3>4 DEF RowIDAllowed
  <2>6. (run.w.key = NoKey <=> c.rowid)
        /\ (~c.rowid /\ force # <<>> => ToSet(run.w.key.cols) = ToSet(force))
    BY <2>1, <2>3 DEF Keyed, v
  <2> HIDE DEF force
  <2>7. /\ run.route # "range" => v.stmt.kind = "delete"
        /\ run.route # "rowid" => run.w.key # NoKey
        /\ c.rowid => run.route = "rowid"
        /\ c.cursor \/ c.index => run.route \in {"covering", "partition"}
        /\ c.conc > 1 => run.route = IF run.w.source = "oceanbase" THEN "partition" ELSE "covering"
        /\ force # <<>> => ToSet(run.w.key.cols) = ToSet(force)
    BY <2>1, <2>5, <2>6 DEF SelectStrategy
  <2> QED BY <2>7 DEF RouteFitsWriter, c, v, force
<1> QED BY <1>1, Invariance, PTL

-----------------------------------------------------------------------------
(* The clauses' arguments. *)

(* Clause i has i placeholders. *)
LEMMA TriangleStep ==
  ASSUME NEW i \in Nat \ {0}
  PROVE  /\ Triangle(i) = Triangle(i - 1) + i
         /\ Triangle(i) \in Nat /\ Triangle(i - 1) \in Nat
<1> DEFINE m == i * i
<1>1. m \in Nat /\ i \in Nat
  OBVIOUS
<1>2. i * (i + 1) = m + i
  OBVIOUS
<1>3. (i - 1) * (i - 1 + 1) = m - i
  OBVIOUS
<1>4. m - i >= 0
  <2>1. (i - 1) * i >= 0
    OBVIOUS
  <2> QED BY <2>1
<1> HIDE DEF m
<1>5. (m + i) \div 2 = (m - i) \div 2 + i
  BY <1>1, <1>4
<1>6. (m - i) \div 2 \in Nat
  BY <1>1, <1>4
<1> QED BY <1>1, <1>2, <1>3, <1>5, <1>6 DEF Triangle

LEMMA TriangleZero == Triangle(0) = 0
BY DEF Triangle

LEMMA TriangleGrows ==
  ASSUME NEW i \in Nat, NEW j \in Nat, i <= j
  PROVE  Triangle(i) <= Triangle(j) /\ Triangle(i) \in Nat /\ Triangle(j) \in Nat
<1>1. i * (i + 1) <= j * (j + 1)
  OBVIOUS
<1>2. i * (i + 1) \in Nat /\ j * (j + 1) \in Nat
  OBVIOUS
<1> DEFINE a == i * (i + 1)
           b == j * (j + 1)
<1>3. Triangle(i) = a \div 2 /\ Triangle(j) = b \div 2
  BY DEF Triangle
<1> HIDE DEF a, b
<1>4. a \in Nat /\ b \in Nat /\ a <= b
  BY <1>1, <1>2 DEF a, b
<1>5. a \div 2 <= b \div 2 /\ a \div 2 \in Nat /\ b \div 2 \in Nat
  BY <1>4
<1> QED BY <1>3, <1>5

(* A place belongs to one clause. *)
LEMMA ClauseIsUnique ==
  ASSUME NEW n \in Nat, NEW i \in 1..n, NEW k \in 1..i
  PROVE  /\ Triangle(i - 1) + k \in (Triangle(i - 1) + 1)..Triangle(i)
         /\ Triangle(i - 1) + k \in 1..Triangle(n)
         /\ \A h \in 1..n :
              Triangle(i - 1) + k \in (Triangle(h - 1) + 1)..Triangle(h) => h = i
<1> DEFINE p == Triangle(i - 1) + k
<1>1. Triangle(i) = Triangle(i - 1) + i /\ Triangle(i) \in Nat /\ Triangle(i - 1) \in Nat
  BY TriangleStep
<1>2. Triangle(i) <= Triangle(n) /\ Triangle(n) \in Nat
  BY TriangleGrows
<1>3. p \in (Triangle(i - 1) + 1)..Triangle(i) /\ p \in 1..Triangle(n)
  BY <1>1, <1>2
<1>4. ASSUME NEW h \in 1..n, p \in (Triangle(h - 1) + 1)..Triangle(h), h # i
      PROVE  FALSE
  <2>1. CASE h < i
    <3>1. Triangle(h) <= Triangle(i - 1) /\ Triangle(h) \in Nat
      BY <2>1, TriangleGrows
    <3> QED BY <1>1, <1>4, <3>1
  <2>2. CASE i < h
    <3>1. Triangle(i) <= Triangle(h - 1) /\ Triangle(h - 1) \in Nat
      BY <2>2, TriangleGrows
    <3> QED BY <1>1, <1>4, <3>1
  <2> QED BY <1>4, <2>1, <2>2
<1> QED BY <1>3, <1>4

(* Clause i finds value k of its row at the place after Triangle(i - 1). *)
LEMMA ArgsAt ==
  ASSUME NEW S, NEW values \in Seq(S)
  PROVE  /\ GetArgs(values) \in Seq(S)
         /\ Len(GetArgs(values)) = Triangle(Len(values))
         /\ \A i \in 1..Len(values) : \A k \in 1..i :
              GetArgs(values)[Triangle(i - 1) + k] = values[k]
<1> DEFINE n == Len(values)
           f == GetArgs(values)
<1>1. n \in Nat /\ DOMAIN values = 1..n /\ \A i \in 1..n : values[i] \in S
  OBVIOUS
<1>2. Triangle(n) \in Nat
  BY <1>1, TriangleGrows
<1>3. ASSUME NEW i \in 1..n, NEW k \in 1..i
      PROVE  /\ ClauseAt(values, Triangle(i - 1) + k) = i
             /\ Triangle(i - 1) + k \in 1..Triangle(n)
             /\ f[Triangle(i - 1) + k] = values[k]
  <2> DEFINE p == Triangle(i - 1) + k
  <2>1. /\ p \in (Triangle(i - 1) + 1)..Triangle(i)
        /\ p \in 1..Triangle(n)
        /\ \A h \in 1..n : p \in (Triangle(h - 1) + 1)..Triangle(h) => h = i
    BY <1>1, ClauseIsUnique
  <2>2. Triangle(i - 1) \in Nat
    <3> i \in Nat \ {0}
      BY <1>1
    <3> QED BY TriangleStep
  <2>3. p - Triangle(i - 1) = k
    BY <2>2
  <2> HIDE DEF p
  <2>4. ClauseAt(values, p) = i
    BY <1>1, <2>1 DEF ClauseAt
  <2>5. f[p] = values[p - Triangle(ClauseAt(values, p) - 1)]
    BY <2>1 DEF GetArgs
  <2> QED BY <2>1, <2>3, <2>4, <2>5 DEF p
<1>4. ASSUME NEW p \in 1..Triangle(n)
      PROVE  f[p] \in S
  <2>1. \E i \in 1..n : p \in (Triangle(i - 1) + 1)..Triangle(i)
    <3> DEFINE T == {i \in 0..n : p <= Triangle(i)}
    <3>1. \E i \in T : \A j \in T : i <= j
      <4>1. n \in T
        BY <1>1
      <4>2. T \subseteq 0..n /\ IsFiniteSet(0..n) /\ 0..n \subseteq Int
        BY <1>1, FS_Interval
      <4>3. IsFiniteSet(T) /\ T \subseteq Int
        BY <4>2, FS_Subset
      <4> HIDE DEF T
      <4> QED BY <4>1, <4>3, MinExists
    <3>2. PICK i \in T : \A j \in T : i <= j
      BY <3>1
    <3>3. i # 0
      BY <3>2, TriangleZero
    <3>4. i - 1 \in 0..n /\ i - 1 \notin T /\ i \in 1..n
      BY <1>1, <3>2, <3>3
    <3>5. Triangle(i - 1) \in Nat /\ Triangle(i) \in Nat
      <4> i \in Nat \ {0}
        BY <1>1, <3>4
      <4> QED BY TriangleStep
    <3> QED BY <3>2, <3>4, <3>5
  <2>2. PICK i \in 1..n : p \in (Triangle(i - 1) + 1)..Triangle(i)
    BY <2>1
  <2>3. Triangle(i) = Triangle(i - 1) + i /\ Triangle(i - 1) \in Nat /\ i \in Nat
    <3> i \in Nat \ {0}
      BY <1>1, <2>2
    <3> QED BY TriangleStep
  <2> DEFINE k == p - Triangle(i - 1)
  <2>4. k \in 1..i /\ p = Triangle(i - 1) + k
    BY <2>2, <2>3
  <2>5. f[p] = values[k] /\ k \in 1..n
    BY <1>1, <1>3, <2>2, <2>4
  <2> QED BY <1>1, <2>5
<1>5. DOMAIN f = 1..Triangle(n)
  BY DEF GetArgs
<1>6. f \in [1..Triangle(n) -> S]
  <2>1. f = [p \in 1..Triangle(n) |-> f[p]]
    BY DEF GetArgs
  <2> HIDE DEF f
  <2> QED BY <1>4, <2>1
<1> HIDE DEF f
<1>7. f \in Seq(S) /\ Len(f) = Triangle(n)
  BY <1>2, <1>6
<1> QED BY <1>3, <1>7 DEF f

-----------------------------------------------------------------------------
(* The order of the key. *)

(* Lists of values of one length are in a strict total order. *)
LEMMA LexTotal ==
  ASSUME NEW n \in Nat, NEW a \in [1..n -> Int], NEW b \in [1..n -> Int], a # b
  PROVE  Precedes(a, b) \/ Precedes(b, a)
<1> DEFINE D == {i \in 1..n : a[i] # b[i]}
<1>1. D # {}
  <2>1. \E i \in 1..n : a[i] # b[i]
    OBVIOUS
  <2> QED BY <2>1
<1>2. IsFiniteSet(D) /\ D \subseteq Int
  <2>1. IsFiniteSet(1..n) /\ D \subseteq 1..n /\ 1..n \subseteq Int
    BY FS_Interval
  <2> QED BY <2>1, FS_Subset
<1>3. PICK i \in D : \A j \in D : i <= j
  <2> HIDE DEF D
  <2> QED BY <1>1, <1>2, MinExists
<1>4. i \in 1..n /\ a[i] # b[i] /\ \A j \in 1..(i - 1) : a[j] = b[j]
  BY <1>3
<1>5. a[i] < b[i] \/ b[i] < a[i]
  BY <1>4
<1> QED BY <1>4, <1>5 DEF Precedes

LEMMA LexTransitive ==
  ASSUME NEW n \in Nat, NEW a \in [1..n -> Int], NEW b \in [1..n -> Int],
         NEW c \in [1..n -> Int], Precedes(a, b), Precedes(b, c)
  PROVE  Precedes(a, c)
<1>1. PICK i \in 1..n : a[i] < b[i] /\ \A j \in 1..(i - 1) : a[j] = b[j]
  BY DEF Precedes
<1>2. PICK h \in 1..n : b[h] < c[h] /\ \A j \in 1..(h - 1) : b[j] = c[j]
  BY DEF Precedes
<1>3. CASE i <= h
  <2>1. b[i] <= c[i]
    BY <1>2, <1>3
  <2>2. a[i] < c[i] /\ \A j \in 1..(i - 1) : a[j] = c[j]
    BY <1>1, <1>2, <1>3, <2>1
  <2> QED BY <2>2 DEF Precedes
<1>4. CASE h < i
  <2>1. a[h] < c[h] /\ \A j \in 1..(h - 1) : a[j] = c[j]
    BY <1>1, <1>2, <1>4
  <2> QED BY <2>1 DEF Precedes
<1> QED BY <1>3, <1>4

LEMMA LexIrreflexive ==
  ASSUME NEW n \in Nat, NEW a \in [1..n -> Int]
  PROVE  ~Precedes(a, a)
BY DEF Precedes

(* Numbers of the rows, in the order of their values K. *)
Numbers(N, S, K) ==
  /\ N \in [S -> Int]
  /\ \A x, y \in S : /\ Precedes(K[x], K[y]) <=> N[x] < N[y]
                     /\ N[x] = N[y] => x = y

(* Rows that a key tells apart have them. *)
LEMMA RowsAreNumbered ==
  ASSUME NEW n \in Nat, NEW S, IsFiniteSet(S), NEW K \in [S -> [1..n -> Int]],
         \A x, y \in S : K[x] = K[y] => x = y
  PROVE  \E N : Numbers(N, S, K)
<1> DEFINE B(x) == {y \in S : Precedes(K[y], K[x])}
           N == [x \in S |-> Cardinality(B(x))]
<1>1. \A x \in S : IsFiniteSet(B(x)) /\ Cardinality(B(x)) \in Nat
  BY FS_Subset, FS_CardinalityType
<1>2. N \in [S -> Int] /\ \A x \in S : N[x] = Cardinality(B(x)) /\ N[x] \in Nat
  <2> HIDE DEF B
  <2> QED BY <1>1
<1>3. ASSUME NEW x \in S, NEW y \in S, Precedes(K[x], K[y])
      PROVE  N[x] < N[y]
  <2>1. \A z \in S : Precedes(K[z], K[x]) => Precedes(K[z], K[y])
    BY <1>3, LexTransitive
  <2>2. ~Precedes(K[x], K[x])
    BY LexIrreflexive
  <2>3. B(x) \subseteq B(y) /\ x \in B(y) /\ x \notin B(x)
    BY <1>3, <2>1, <2>2
  <2> HIDE DEF B
  <2>4. Cardinality(B(x)) <= Cardinality(B(y)) /\ Cardinality(B(x)) # Cardinality(B(y))
    BY <1>1, <2>3, FS_Subset
  <2> HIDE DEF N
  <2> QED BY <1>1, <1>2, <2>4
<1> HIDE DEF N
<1>4. ASSUME NEW x \in S, NEW y \in S
      PROVE  /\ Precedes(K[x], K[y]) <=> N[x] < N[y]
             /\ N[x] = N[y] => x = y
  <2>1. N[x] \in Nat /\ N[y] \in Nat
    BY <1>2
  <2>2. x = y \/ Precedes(K[x], K[y]) \/ Precedes(K[y], K[x])
    BY LexTotal
  <2>3. Precedes(K[x], K[y]) => N[x] < N[y]
    BY <1>3
  <2>4. Precedes(K[y], K[x]) => N[y] < N[x]
    BY <1>3
  <2> QED BY <2>1, <2>2, <2>3, <2>4
<1> QED BY <1>2, <1>4 DEF Numbers

-----------------------------------------------------------------------------
(* What the predicates select, and when their arguments fit. *)

(* The arguments of clause i are the first i values. *)
Arranged(args, a, n) == \A i \in 1..n : \A k \in 1..i : args[Triangle(i - 1) + k] = a[k]

(* One clause: the first values are the same, and the next one compares. *)
LEMMA ClauseMeans ==
  ASSUME NEW key, NEW n \in Nat, NEW C, key.cols \in Seq(C), Len(key.cols) = n,
         NEW a, NEW args, Arranged(args, a, n), NEW row, NEW cmp,
         NEW i \in 1..n, NEW op, op = (IF i = n THEN cmp ELSE Strict(cmp))
  PROVE  Clause(key, cmp, i, args, row) <=>
           /\ \A j \in 1..(i - 1) : KeyOf(key, row)[j] = a[j]
           /\ Compares(op, KeyOf(key, row)[i], a[i])
<1>1. \A j \in 1..n : KeyOf(key, row)[j] = row[key.cols[j]]
  BY DEF KeyOf
<1>0. i \in Nat \ {0}
  OBVIOUS
<1>2. Triangle(i) = Triangle(i - 1) + i /\ Triangle(i - 1) \in Nat
  BY <1>0, TriangleStep
<1>3. args[Triangle(i)] = a[i]
  BY <1>2 DEF Arranged
<1>4. ASSUME NEW j \in 1..(i - 1)
      PROVE  /\ args[Triangle(i - 1) + j] = a[j]
             /\ KeyOf(key, row)[j] = row[key.cols[j]]
  BY <1>1 DEF Arranged
<1>5. (\A j \in 1..(i - 1) : row[key.cols[j]] = args[Triangle(i - 1) + j])
        <=> (\A j \in 1..(i - 1) : KeyOf(key, row)[j] = a[j])
  BY <1>4
<1>6. KeyOf(key, row)[i] = row[key.cols[i]]
  BY <1>1
<1> QED BY <1>3, <1>5, <1>6 DEF Clause

(* The WHERE clause of BuildSelectWhereClause, with the arguments of getArgs, *)
(* over a key of any number of columns: it selects exactly the rows after    *)
(* a row, from it on, or up to it, in the order of the key.                  *)
THEOREM SelectWhereMeans ==
  ASSUME NEW key, NEW n \in Nat, n # 0, NEW C, key.cols \in Seq(C), Len(key.cols) = n,
         NEW a \in [1..n -> Int], NEW args, Arranged(args, a, n),
         NEW row, KeyOf(key, row) \in [1..n -> Int]
  PROVE  LET b == KeyOf(key, row)
         IN /\ BuildSelectWhereClause(key, ">", args, row) <=> Precedes(a, b)
            /\ BuildSelectWhereClause(key, ">=", args, row) <=> a = b \/ Precedes(a, b)
            /\ BuildSelectWhereClause(key, "<=", args, row) <=> a = b \/ Precedes(b, a)
<1> DEFINE b == KeyOf(key, row)
           Same(i) == \A j \in 1..(i - 1) : b[j] = a[j]
           Op(cmp, i) == IF i = n THEN cmp ELSE Strict(cmp)
<1>1. DOMAIN key.cols = 1..n
  OBVIOUS
<1>2. ASSUME NEW cmp
      PROVE  BuildSelectWhereClause(key, cmp, args, row) <=>
               \E i \in 1..n : Same(i) /\ Compares(Op(cmp, i), b[i], a[i])
  <2>1. ASSUME NEW i \in 1..n
        PROVE  Clause(key, cmp, i, args, row) <=> Same(i) /\ Compares(Op(cmp, i), b[i], a[i])
    <3>1. n \in Nat /\ Op(cmp, i) = (IF i = n THEN cmp ELSE Strict(cmp))
      OBVIOUS
    <3> HIDE DEF Op
    <3> DEFINE op == Op(cmp, i)
               D == key.cols
    <3> HIDE DEF op
    <3>2. Clause(key, cmp, i, args, row) <=> (\A j \in 1..(i - 1) : KeyOf(key, row)[j] = a[j])
             /\ Compares(op, KeyOf(key, row)[i], a[i])
      BY <3>1, ClauseMeans DEF op
    <3> QED BY <3>2 DEF op
  <2> HIDE DEF b, Same, Op
  <2> QED BY <1>1, <2>1 DEF BuildSelectWhereClause
<1> HIDE DEF b
<1>3. b \in [1..n -> Int]
  BY DEF b
<1>4. \A i \in 1..n : Compares(Op(">", i), b[i], a[i]) <=> a[i] < b[i]
  BY <1>3 DEF Compares, Strict
<1>5. \A i \in 1..n : Compares(Op(">=", i), b[i], a[i]) <=> a[i] < b[i] \/ (i = n /\ a[i] = b[i])
  BY <1>3 DEF Compares, Strict
<1>6. \A i \in 1..n : Compares(Op("<=", i), b[i], a[i]) <=> b[i] < a[i] \/ (i = n /\ a[i] = b[i])
  BY <1>3 DEF Compares, Strict
<1>7. (\E i \in 1..n : Same(i) /\ a[i] < b[i]) <=> Precedes(a, b)
  BY <1>3 DEF Precedes
<1>8. (\E i \in 1..n : Same(i) /\ b[i] < a[i]) <=> Precedes(b, a)
  BY <1>3 DEF Precedes
<1>9. Same(n) /\ a[n] = b[n] <=> a = b
  <2>1. ASSUME Same(n), a[n] = b[n] PROVE a = b
    <3>1. \A j \in 1..n : a[j] = b[j]
      BY <2>1
    <3> QED BY <1>3, <3>1
  <2> QED BY <2>1
<1>10. n \in 1..n
  OBVIOUS
<1> HIDE DEF Same, Op
<1>11. BuildSelectWhereClause(key, ">", args, row) <=> Precedes(a, b)
  BY <1>2, <1>4, <1>7
<1>12. BuildSelectWhereClause(key, ">=", args, row) <=> a = b \/ Precedes(a, b)
  BY <1>2, <1>5, <1>7, <1>9, <1>10
<1>13. BuildSelectWhereClause(key, "<=", args, row) <=> a = b \/ Precedes(b, a)
  BY <1>2, <1>6, <1>8, <1>9, <1>10
<1> QED BY <1>11, <1>12, <1>13 DEF b

(* What getArgs returns is arranged so. *)
LEMMA GetArgsArranged ==
  ASSUME NEW n \in Nat, NEW S, NEW a \in [1..n -> S]
  PROVE  /\ Arranged(GetArgs(a), a, n)
         /\ GetArgs(a) \in Seq(S) /\ Len(GetArgs(a)) = Triangle(n)
<1>1. a \in Seq(S) /\ Len(a) = n
  OBVIOUS
<1> QED BY <1>1, ArgsAt DEF Arranged

(* The halves of a concatenation. *)
LEMMA Halves ==
  ASSUME NEW S, NEW p \in Seq(S), NEW q \in Seq(S)
  PROVE  /\ SubSeq(p \o q, 1, Len(p)) = p
         /\ SubSeq(p \o q, Len(p) + 1, Len(p \o q)) = q
<1>1. p \o q \in Seq(S) /\ Len(p \o q) = Len(p) + Len(q)
  OBVIOUS
<1> DEFINE h == SubSeq(p \o q, 1, Len(p))
           g == SubSeq(p \o q, Len(p) + 1, Len(p \o q))
<1>2. h = p
  <2>1. h \in Seq(S) /\ Len(h) = Len(p) /\ \A i \in 1..Len(p) : h[i] = p[i]
    BY <1>1
  <2> QED BY <2>1, SeqEqual
<1>3. g = q
  <2>1. Len(g) = Len(q) /\ \A i \in 1..Len(q) : g[i] = q[i]
    BY <1>1
  <2>2. g \in Seq(S)
    BY <1>1
  <2> HIDE DEF g
  <2> QED BY <2>1, <2>2, SeqEqual
<1> QED BY <1>2, <1>3

(* The first and the second half of a chunk's arguments. *)
LEMMA ChunkArgs ==
  ASSUME NEW n \in Nat, n # 0, NEW S, NEW a \in [1..n -> S], NEW b \in [1..n -> S],
         NEW chunk, chunk # 1
  PROVE  LET args == GetColumnValue(a \o b, chunk)
         IN /\ Len(args) = 2 * Triangle(n)
            /\ Arranged(SubSeq(args, 1, Triangle(n)), a, n)
            /\ Arranged(SubSeq(args, Triangle(n) + 1, Len(args)), b, n)
<1> DEFINE v == a \o b
           t == Triangle(n)
           args == GetColumnValue(v, chunk)
<1>1. a \in Seq(S) /\ Len(a) = n /\ b \in Seq(S) /\ Len(b) = n
  OBVIOUS
<1>2. v \in Seq(S) /\ Len(v) = 2 * n
  BY <1>1
<1>3. SubSeq(v, 1, n) = a /\ SubSeq(v, n + 1, Len(v)) = b
  BY <1>1, Halves
<1>4. args = GetArgs(a) \o GetArgs(b)
  <2>1. CASE n = 1
    <3>1. Triangle(1) = 1 /\ Triangle(0) = 0
      BY DEF Triangle
    <3>2. ASSUME NEW c \in [1..n -> S] PROVE GetArgs(c) = c
      <4>0. Len(GetArgs(c)) = Triangle(n) /\ GetArgs(c) \in Seq(S) /\ Arranged(GetArgs(c), c, n)
        BY <3>2, GetArgsArranged
      <4>1. Len(GetArgs(c)) = 1 /\ GetArgs(c) \in Seq(S) /\ Arranged(GetArgs(c), c, 1)
        BY <2>1, <3>1, <4>0
      <4>2. GetArgs(c)[1] = c[1]
        BY <3>1, <4>1 DEF Arranged
      <4>3. c \in Seq(S) /\ Len(c) = n
        BY <3>2
      <4> QED BY <2>1, <4>1, <4>2, <4>3, SeqEqual
    <3>3. args = v
      BY <1>2, <2>1 DEF GetColumnValue
    <3> QED BY <3>2, <3>3
  <2>2. CASE n # 1
    <3>1. Len(v) # 2 /\ Len(v) \div 2 = n
      BY <1>2, <2>2
    <3> HIDE DEF v
    <3>2. args = GetArgs(SubSeq(v, 1, n)) \o GetArgs(SubSeq(v, n + 1, Len(v)))
      BY <3>1 DEF GetColumnValue
    <3> QED BY <1>3, <3>2 DEF v
  <2> QED BY <2>1, <2>2
<1>5. /\ GetArgs(a) \in Seq(S) /\ Len(GetArgs(a)) = t /\ Arranged(GetArgs(a), a, n)
      /\ GetArgs(b) \in Seq(S) /\ Len(GetArgs(b)) = t /\ Arranged(GetArgs(b), b, n)
  BY GetArgsArranged
<1>6. t \in Nat
  BY TriangleGrows
<1> HIDE DEF args, t
<1>7. Len(args) = 2 * t
  <2>1. Len(GetArgs(a) \o GetArgs(b)) = Len(GetArgs(a)) + Len(GetArgs(b))
    BY <1>5, ConcatProperties
  <2>2. t + t = 2 * t
    BY <1>6
  <2> QED BY <1>4, <1>5, <2>1, <2>2
<1>8. SubSeq(args, 1, t) = GetArgs(a) /\ SubSeq(args, t + 1, Len(args)) = GetArgs(b)
  BY <1>4, <1>5, <1>6, Halves
<1> QED BY <1>5, <1>7, <1>8 DEF args, t

(* A key of the table, and one that the predicates and the driver can serve. *)
IsKeyOf(key, table) ==
  /\ key.cols \in Seq(table.cols) \ {<<>>}
  /\ key.null = [i \in DOMAIN key.cols |-> key.cols[i] \notin table.notNull]
  /\ TellsApart(table, ToSet(key.cols))

Serves(key, table) ==
  \A i \in DOMAIN key.cols : ~key.null[i] /\ key.cols[i] \notin table.unsupported

(* A row's values in a key's columns, and when they tell it from others. *)
LEMMA KeyValues ==
  ASSUME NEW table, IsTable(table), NEW key, IsKeyOf(key, table)
  PROVE  /\ Len(key.cols) \in Nat /\ Len(key.cols) # 0
         /\ DOMAIN key.cols = 1..Len(key.cols) /\ key.cols \in Seq(table.cols)
         /\ \A row \in table.rows : KeyOf(key, row) \in [1..Len(key.cols) -> Int]
         /\ Serves(key, table) =>
              \A x, y \in table.rows : KeyOf(key, x) = KeyOf(key, y) => x = y
<1> DEFINE n == Len(key.cols)
<1>1. key.cols \in Seq(table.cols) /\ key.cols # <<>>
  BY DEF IsKeyOf
<1>2. n \in Nat /\ n # 0 /\ DOMAIN key.cols = 1..n /\ \A i \in 1..n : key.cols[i] \in table.cols
  BY <1>1
<1>3. ASSUME NEW row \in table.rows PROVE KeyOf(key, row) \in [1..n -> Int]
  <2>1. row \in [table.cols -> Int]
    BY DEF IsTable
  <2> QED BY <1>2, <2>1 DEF KeyOf
<1>4. ASSUME Serves(key, table), NEW x \in table.rows, NEW y \in table.rows,
             KeyOf(key, x) = KeyOf(key, y)
      PROVE  x = y
  <2>1. ASSUME NEW c \in ToSet(key.cols) PROVE x[c] = y[c] /\ c \in table.notNull
    <3>1. PICK i \in DOMAIN key.cols : c = key.cols[i]
      BY Zenon DEF ToSet
    <3>2. KeyOf(key, x)[i] = x[c] /\ KeyOf(key, y)[i] = y[c]
      BY <3>1 DEF KeyOf
    <3>3. key.null[i] <=> c \notin table.notNull
      BY <3>1 DEF IsKeyOf
    <3>4. ~key.null[i]
      BY <1>4 DEF Serves
    <3> QED BY <1>4, <3>2, <3>3, <3>4
  <2>2. ToSet(key.cols) \subseteq table.notNull
    BY <2>1
  <2>3. TellsApart(table, ToSet(key.cols))
    BY DEF IsKeyOf
  <2> DEFINE cols == ToSet(key.cols)
  <2>4. \A c \in cols : x[c] = y[c]
    BY <2>1
  <2> HIDE DEF cols
  <2> QED BY <2>2, <2>3, <2>4 DEF TellsApart, cols
<1> QED BY <1>1, <1>2, <1>3, <1>4

(* The values that a chunk's arguments are taken from, whatever the rows. *)
LEMMA ArgsFit ==
  ASSUME NEW key, NEW n \in Nat, n # 0, DOMAIN key.cols = 1..n,
         NEW chunk, NEW r, NEW s
  PROVE  LET args == GetColumnValue(IF chunk = 1 THEN KeyOf(key, r)
                                    ELSE KeyOf(key, r) \o KeyOf(key, s), chunk)
         IN Len(args) = IF chunk = 1 THEN n ELSE 2 * Triangle(n)
<1> DEFINE a == KeyOf(key, r)
           b == KeyOf(key, s)
           S == {a[i] : i \in 1..n} \cup {b[i] : i \in 1..n}
<1>1. a \in [1..n -> S] /\ b \in [1..n -> S]
  <2>1. a = [i \in 1..n |-> r[key.cols[i]]] /\ b = [i \in 1..n |-> s[key.cols[i]]]
    BY DEF KeyOf
  <2>2. \A i \in 1..n : a[i] \in S /\ b[i] \in S
    OBVIOUS
  <2> HIDE DEF S
  <2> QED BY <2>1, <2>2
<1> HIDE DEF a, b, S
<1>2. CASE chunk = 1
  <2>1. Len(a) = n
    BY <1>1
  <2>2. GetColumnValue(a, chunk) = a
    BY <1>2 DEF GetColumnValue
  <2> QED BY <1>2, <2>1, <2>2 DEF a
<1>3. CASE chunk # 1
  <2>1. Len(GetColumnValue(a \o b, chunk)) = 2 * Triangle(n)
    BY <1>1, <1>3, ChunkArgs
  <2> QED BY <1>3, <2>1 DEF a, b
<1> QED BY <1>2, <1>3

(* Whatever a key's columns, the chunk size and a page's rows, a statement   *)
(* has as many placeholders as arguments just if no column of the key may    *)
(* be NULL; over a nullable key it has more, and the driver refuses it.      *)
THEOREM PlaceholdersFit ==
  ASSUME NEW key, NEW n \in Nat, n # 0, DOMAIN key.cols = 1..n, Len(key.cols) = n,
         NEW chunk, NEW r, NEW s
  PROVE  LET args == GetColumnValue(IF chunk = 1 THEN KeyOf(key, r)
                                    ELSE KeyOf(key, r) \o KeyOf(key, s), chunk)
         IN /\ ExecPlaceholders(key, chunk) = Len(args) <=> \A i \in DOMAIN key.cols : ~key.null[i]
            /\ ExecPlaceholders(key, chunk) >= Len(args)
<1> DEFINE P == NullPlaces(key)
           Q == {ij \in (DOMAIN key.cols) \X P : ij[2] <= ij[1]}
           args == GetColumnValue(IF chunk = 1 THEN KeyOf(key, r)
                                  ELSE KeyOf(key, r) \o KeyOf(key, s), chunk)
<1>1. P \subseteq 1..n /\ IsFiniteSet(1..n)
  BY FS_Interval DEF NullPlaces
<1>2. IsFiniteSet(P) /\ Cardinality(P) \in Nat
  BY <1>1, FS_Subset, FS_CardinalityType
<1>3. IsFiniteSet(Q) /\ Cardinality(Q) \in Nat
  <2>1. IsFiniteSet((1..n) \X P)
    BY <1>1, <1>2, FS_Product
  <2>2. Q \subseteq (1..n) \X P
    OBVIOUS
  <2> HIDE DEF Q
  <2> QED BY <2>1, <2>2, FS_Subset, FS_CardinalityType
<1>4. Triangle(n) \in Nat
  BY TriangleGrows
<1>5. Len(args) = IF chunk = 1 THEN n ELSE 2 * Triangle(n)
  BY ArgsFit
<1>6. ExecPlaceholders(key, chunk)
        = IF chunk = 1 THEN n + Cardinality(P) ELSE 2 * (Triangle(n) + Cardinality(Q))
  BY DEF ExecPlaceholders, BulkPlaceholders, SelectPlaceholders
<1>7. Cardinality(P) = 0 <=> P = {}
  BY <1>2, FS_EmptySet
<1>8. Cardinality(Q) = 0 <=> P = {}
  <2>1. ASSUME NEW i \in P PROVE <<i, i>> \in Q
    <3>1. i \in 1..n
      BY <1>1
    <3> QED BY <3>1
  <2>2. Q = {} <=> P = {}
    BY <2>1
  <2> HIDE DEF Q
  <2> QED BY <1>3, <2>2, FS_EmptySet
<1>9. P = {} <=> \A i \in DOMAIN key.cols : ~key.null[i]
  BY DEF NullPlaces
<1> HIDE DEF P, Q, args
<1>10. ExecPlaceholders(key, chunk) >= Len(args)
  BY <1>2, <1>3, <1>4, <1>5, <1>6
<1>11. ExecPlaceholders(key, chunk) = Len(args) <=> P = {}
  BY <1>2, <1>3, <1>4, <1>5, <1>6, <1>7, <1>8
<1> QED BY <1>9, <1>10, <1>11 DEF args

(* Between the first and the last values of a chunk. *)
Within(chunk, a, b, c) ==
  IF chunk = 1 THEN c = a
  ELSE (a = c \/ Precedes(a, c)) /\ (b = c \/ Precedes(c, b))

(* What a chunk executes on: one row, or those from its first to its last. *)
LEMMA ExecMeans ==
  ASSUME NEW key, NEW n \in Nat, n # 0, NEW C, key.cols \in Seq(C), Len(key.cols) = n,
         NEW a \in [1..n -> Int], NEW b \in [1..n -> Int],
         NEW row, NEW c, c = KeyOf(key, row), c \in [1..n -> Int], NEW chunk,
         NEW args, chunk = 1 => args = GetColumnValue(a, chunk),
         chunk # 1 => args = GetColumnValue(a \o b, chunk)
  PROVE  ExecWhere(key, chunk, args, row) <=> Within(chunk, a, b, c)
<1>1. DOMAIN key.cols = 1..n
  OBVIOUS
<1>2. CASE chunk = 1
  <2>1. GetColumnValue(a, chunk) = a
    BY <1>2 DEF GetColumnValue
  <2>2. \A i \in 1..n : c[i] = row[key.cols[i]]
    BY <1>1 DEF KeyOf
  <2>3. BuildBulkExecWhereClause(key, a, row) <=> \A i \in 1..n : c[i] = a[i]
    BY <1>1, <2>2 DEF BuildBulkExecWhereClause
  <2>5. (\A i \in 1..n : c[i] = a[i]) <=> c = a
    OBVIOUS
  <2>6. ExecWhere(key, chunk, a, row) <=> c = a
    BY <1>2, <2>3, <2>5 DEF ExecWhere
  <2> QED BY <1>2, <2>1, <2>6 DEF Within
<1>3. CASE chunk # 1
  <2> DEFINE t == Triangle(n)
             first == SubSeq(args, 1, t)
             second == SubSeq(args, t + 1, Len(args))
  <2>1. Arranged(first, a, n) /\ Arranged(second, b, n)
    <3>1. args = GetColumnValue(a \o b, chunk)
      BY <1>3
    <3> QED BY <1>3, <3>1, ChunkArgs
  <2>2. ExecWhere(key, chunk, args, row) <=>
          BuildSelectWhereClause(key, ">=", first, row)
            /\ BuildSelectWhereClause(key, "<=", second, row)
    BY <1>3 DEF ExecWhere
  <2> HIDE DEF first, second, t
  <2>3. BuildSelectWhereClause(key, ">=", first, row) <=> a = c \/ Precedes(a, c)
    BY <2>1, SelectWhereMeans
  <2>4. BuildSelectWhereClause(key, "<=", second, row) <=> b = c \/ Precedes(c, b)
    BY <2>1, SelectWhereMeans
  <2> QED BY <1>3, <2>2, <2>3, <2>4 DEF Within
<1> QED BY <1>2, <1>3

-----------------------------------------------------------------------------
(* The choice of the key. *)

(* The keys the DDL shows are keys of the table. *)
LEMMA DDLKeys ==
  ASSUME NEW table, IsTable(table)
  PROVE  LET keys == GetPossibleUniqueKeys(table)
         IN \A i \in DOMAIN keys : IsKeyOf(keys[i], table)
<1> SUFFICES ASSUME NEW i \in DOMAIN table.ddl, table.ddl[i].tp \in KeyTypes
             PROVE  IsKeyOf(KeyWith(table.ddl[i].tp, table.ddl[i].cols, table), table)
  BY DEF GetPossibleUniqueKeys
<1> DEFINE cols == table.ddl[i].cols
           key == KeyWith(table.ddl[i].tp, cols, table)
<1>1. cols \in Seq(table.cols) \ {<<>>} /\ TellsApart(table, ToSet(cols))
  BY DEF IsTable
<1>2. key.cols = cols /\ key.null = [j \in DOMAIN cols |-> cols[j] \notin table.notNull]
  BY DEF KeyWith
<1> HIDE DEF cols, key
<1>3. IsKeyOf(key, table)
  BY <1>1, <1>2 DEF IsKeyOf
<1> QED BY <1>3 DEF key, cols

(* A group of index rows, in order, has the group's columns. *)
LEMMA ColumnsAreTheGroups ==
  ASSUME NEW shown \in Seq([name : STRING, seq : Int, col : STRING, unique : BOOLEAN]),
         NEW group, group \subseteq DOMAIN shown, group # {},
         \A j, k \in group : shown[j].seq = shown[k].seq => j = k,
         NEW C, {shown[j].col : j \in group} \subseteq C
  PROVE  /\ ColumnsOf(shown, group) \in Seq(C) \ {<<>>}
         /\ ToSet(ColumnsOf(shown, group)) = {shown[j].col : j \in group}
<1> DEFINE K == [j \in group |-> shown[j].seq]
           m == Cardinality(group)
           f == ColumnsOf(shown, group)
<1>1. IsFiniteSet(group) /\ m \in Nat /\ m # 0
  <2>1. DOMAIN shown = 1..Len(shown) /\ Len(shown) \in Nat
    OBVIOUS
  <2>2. IsFiniteSet(group)
    <3>1. IsFiniteSet(1..Len(shown)) /\ group \subseteq 1..Len(shown)
      BY <2>1, FS_Interval
    <3> QED BY <3>1, FS_Subset
  <2> QED BY <2>2, FS_CardinalityType, FS_EmptySet
<1>2. K \in [group -> Int] /\ \A x, y \in group : K[x] = K[y] => x = y
  <2>1. \A j \in group : shown[j] \in [name : STRING, seq : Int, col : STRING, unique : BOOLEAN]
    <3>1. ASSUME NEW R, NEW s \in Seq(R), NEW j \in DOMAIN s PROVE s[j] \in R
      OBVIOUS
    <3> QED BY <3>1
  <2>2. \A j \in group : shown[j].seq \in Int
    BY <2>1
  <2> QED BY <2>2
<1>3. ASSUME NEW j \in group
      PROVE  /\ SeqPlace(shown, group, j) = 1 + Cardinality(RowsBefore(group, K, j))
             /\ Cardinality(RowsBefore(group, K, j)) \in Nat
  <2>1. RowsBefore(group, K, j) = {k \in group : shown[k].seq < shown[j].seq}
    BY DEF RowsBefore
  <2>2. Cardinality(RowsBefore(group, K, j)) \in Nat
    BY <1>1, <1>2, PlacesOrder
  <2> QED BY <2>1, <2>2 DEF SeqPlace
<1> DEFINE at(n) == CHOOSE j \in group : SeqPlace(shown, group, j) = n
<1>4. ASSUME NEW n \in 1..m
      PROVE  at(n) \in group /\ SeqPlace(shown, group, at(n)) = n
  <2> HIDE DEF K
  <2>1. PICK j \in group : Cardinality(RowsBefore(group, K, j)) = n - 1
    BY <1>1, <1>2, NthRowExists
  <2>2. SeqPlace(shown, group, j) = n
    BY <1>3, <2>1
  <2> QED BY <2>2
<1>5. \A n \in 1..m : f[n] = shown[at(n)].col
  BY DEF ColumnsOf
<1>6. DOMAIN f = 1..m /\ f = [n \in 1..m |-> f[n]]
  BY DEF ColumnsOf
<1>7. ASSUME NEW j \in group
      PROVE  \E n \in 1..m : at(n) = j
  <2> HIDE DEF K
  <2>1. Cardinality(RowsBefore(group, K, j)) < m
    <3>1. RowsBefore(group, K, j) \subseteq group /\ j \notin RowsBefore(group, K, j)
      BY <1>2 DEF RowsBefore
    <3>2. /\ Cardinality(RowsBefore(group, K, j)) <= m
          /\ Cardinality(RowsBefore(group, K, j)) # m
      BY <1>1, <3>1, FS_Subset
    <3> QED BY <1>1, <1>3, <3>2
  <2> DEFINE n == SeqPlace(shown, group, j)
             k == at(n)
  <2>2. n \in 1..m /\ n = 1 + Cardinality(RowsBefore(group, K, j))
    BY <1>1, <1>3, <2>1
  <2> HIDE DEF n, at
  <2>3. k \in group /\ SeqPlace(shown, group, k) = n
    BY <1>4, <2>2
  <2> HIDE DEF k
  <2>4. /\ Cardinality(RowsBefore(group, K, k)) = Cardinality(RowsBefore(group, K, j))
        /\ Cardinality(RowsBefore(group, K, k)) \in Nat
    BY <1>3, <2>2, <2>3
  <2>5. ~(K[j] < K[k]) /\ ~(K[k] < K[j])
    BY <1>1, <1>2, <2>3, <2>4, PlacesOrder
  <2>6. K[j] \in Int /\ K[k] \in Int
    BY <1>2, <2>3
  <2>7. k = j
    BY <1>2, <2>3, <2>5, <2>6
  <2> QED BY <2>2, <2>7 DEF k
<1> HIDE DEF K, at, f
<1>8. \A n \in 1..m : f[n] \in C
  BY <1>4, <1>5
<1>9. f \in [1..m -> C]
  BY <1>6, <1>8
<1>10. f \in Seq(C) /\ Len(f) = m
  BY <1>1, <1>9
<1>11. f # <<>>
  BY <1>1, <1>10
<1>12. ToSet(f) = {shown[j].col : j \in group}
  <2>1. ToSet(f) = {f[n] : n \in 1..m}
    BY <1>6, Zenon DEF ToSet
  <2>2. ASSUME NEW n \in 1..m PROVE f[n] \in {shown[j].col : j \in group}
    BY <1>4, <1>5
  <2>3. ASSUME NEW j \in group PROVE shown[j].col \in {f[n] : n \in 1..m}
    BY <1>5, <1>7
  <2> QED BY <2>1, <2>2, <2>3
<1> QED BY <1>10, <1>11, <1>12 DEF f

(* So are the keys put together from SHOW INDEX. *)
LEMMA IndexKeys ==
  ASSUME NEW table, IsTable(table)
  PROVE  LET keys == BuildUniqueKeysFromShowIndexRows(table.shown, table)
         IN \A i \in DOMAIN keys : IsKeyOf(keys[i], table)
<1> DEFINE shown == table.shown
           keys == BuildUniqueKeysFromShowIndexRows(shown, table)
<1> SUFFICES ASSUME NEW i \in DOMAIN keys PROVE IsKeyOf(keys[i], table)
  OBVIOUS
<1> DEFINE group == Group(shown, i)
           tp == IF shown[i].name = "PRIMARY" THEN "primary" ELSE "unique"
           cols == ColumnsOf(shown, group)
<1>1. /\ i \in DOMAIN shown /\ shown[i].unique
      /\ {shown[j].col : j \in group} \subseteq table.cols
      /\ keys[i] = KeyWith(tp, cols, table)
  BY DEF BuildUniqueKeysFromShowIndexRows
<1> HIDE DEF keys, tp
<1>2. i \in group /\ group \subseteq DOMAIN shown
  BY <1>1 DEF Group
<1>3. shown \in Seq([name : STRING, seq : Int, col : STRING, unique : BOOLEAN])
  BY DEF IsTable
<1>4. /\ \A j, k \in group : shown[j].seq = shown[k].seq => j = k
      /\ TellsApart(table, {shown[j].col : j \in group})
  BY <1>1 DEF IsTable
<1> HIDE DEF shown, group
<1>5. cols \in Seq(table.cols) \ {<<>>} /\ ToSet(cols) = {shown[j].col : j \in group}
  BY <1>1, <1>2, <1>3, <1>4, ColumnsAreTheGroups
<1> HIDE DEF cols
<1>6. /\ keys[i].cols = cols
      /\ keys[i].null = [j \in DOMAIN cols |-> cols[j] \notin table.notNull]
  BY <1>1 DEF KeyWith
<1> QED BY <1>4, <1>5, <1>6 DEF IsKeyOf

(* Whatever is chosen is one of the keys. *)
LEMMA ChosenIsAKey ==
  ASSUME NEW keys, NEW force, SelectChunkingKey(keys, force) # NoKey
  PROVE  \E i \in DOMAIN keys : SelectChunkingKey(keys, force) = keys[i]
<1>1. ASSUME NEW is, is \subseteq DOMAIN keys, FirstOf(keys, is) # NoKey
      PROVE  \E i \in DOMAIN keys : FirstOf(keys, is) = keys[i]
  <2> DEFINE first == {i \in is : is \cap 1..(i - 1) = {}}
  <2>1. first # {} /\ FirstOf(keys, is) = keys[CHOOSE i \in first : TRUE]
    BY <1>1 DEF FirstOf
  <2>2. (CHOOSE i \in first : TRUE) \in first
    BY <2>1
  <2> QED BY <1>1, <2>1, <2>2
<1> DEFINE forced == {i \in DOMAIN keys : SameColumns(force, keys[i])}
           primary == {i \in DOMAIN keys : keys[i].tp = "primary"}
<1>2. forced \subseteq DOMAIN keys /\ primary \subseteq DOMAIN keys
  OBVIOUS
<1>3. \E is : is \subseteq DOMAIN keys /\ SelectChunkingKey(keys, force) = FirstOf(keys, is)
  <2> HIDE DEF forced, primary
  <2>1. \/ SelectChunkingKey(keys, force) = FirstOf(keys, forced)
        \/ SelectChunkingKey(keys, force) = FirstOf(keys, primary)
        \/ SelectChunkingKey(keys, force) = FirstOf(keys, DOMAIN keys)
    BY DEF SelectChunkingKey, forced, primary
  <2> QED BY <1>2, <2>1
<1> QED BY <1>1, <1>3

(* The key NewWriter chooses, from the DDL or put together from rows of SHOW *)
(* INDEX in any order, tells the table's rows apart if its columns are NOT   *)
(* NULL, on whatever server and whatever columns the caller forces.          *)
THEOREM KeyIsChosen ==
  ASSUME NEW table, IsTable(table), NEW source, NEW force,
         NEW shown \in {table.shown, <<>>},
         SelectChunkingKey(KeysOf(source, table, shown, force), force) # NoKey
  PROVE  IsKeyOf(SelectChunkingKey(KeysOf(source, table, shown, force), force), table)
<1> DEFINE indexed == BuildUniqueKeysFromShowIndexRows(shown, table)
           ddl == GetPossibleUniqueKeys(table)
           keys == KeysOf(source, table, shown, force)
<1>1. \A i \in DOMAIN indexed : IsKeyOf(indexed[i], table)
  <2>1. CASE shown = table.shown
    BY <2>1, IndexKeys
  <2>2. CASE shown = <<>>
    <3>1. DOMAIN indexed \subseteq DOMAIN shown /\ DOMAIN shown = {}
      BY <2>2 DEF BuildUniqueKeysFromShowIndexRows
    <3> QED BY <3>1
  <2> QED BY <2>1, <2>2
<1>2. \A i \in DOMAIN ddl : IsKeyOf(ddl[i], table)
  BY DDLKeys
<1>3. keys = indexed \/ keys = ddl \/ keys = <<>>
  BY DEF KeysOf
<1> HIDE DEF indexed, ddl, keys
<1>4. PICK i \in DOMAIN keys : SelectChunkingKey(keys, force) = keys[i]
  BY ChosenIsAKey DEF keys
<1>5. keys # <<>>
  BY <1>4
<1> QED BY <1>1, <1>2, <1>3, <1>4, <1>5 DEF keys

-----------------------------------------------------------------------------
(* The pages of a scan. *)

LEMMA MinOfTwo ==
  ASSUME NEW a \in Int, NEW b \in Int
  PROVE  Min({a, b}) = IF a <= b THEN a ELSE b
BY DEF Min

(* The first n rows in order, as a sequence. *)
InOrder(S, K, n, page) ==
  /\ IsFiniteSet(S) /\ K \in [S -> Int] /\ (\A x, y \in S : K[x] = K[y] => x = y)
  /\ n \in Nat /\ n # 0 /\ page \in Seq(S)
  /\ Len(page) <= n /\ Len(page) <= Cardinality(S)
  /\ (Len(page) = n \/ Len(page) = Cardinality(S))
  /\ \A i \in 1..Len(page) : Cardinality(RowsBefore(S, K, page[i])) = i - 1

LEMMA OrderedPage ==
  ASSUME NEW S, NEW K, NEW n, NEW page, InOrder(S, K, n, page)
  PROVE  /\ page = <<>> <=> S = {}
         /\ ToSet(page) = FirstRows(S, K, n)
         /\ page # <<>> =>
              \A x \in S : x \in ToSet(page) =>
                 K[Head(page)] <= K[x] /\ K[x] <= K[Last(page)]
<1> SUFFICES
      ASSUME IsFiniteSet(S), K \in [S -> Int], \A x, y \in S : K[x] = K[y] => x = y,
             n \in Nat, n # 0, page \in Seq(S), NEW m \in Nat, m = Len(page), m <= n,
             m <= Cardinality(S), m = n \/ m = Cardinality(S),
             \A i \in 1..m : Cardinality(RowsBefore(S, K, page[i])) = i - 1
      PROVE  /\ page = <<>> <=> S = {}
             /\ ToSet(page) = FirstRows(S, K, n)
             /\ page # <<>> =>
                  \A x \in S : x \in ToSet(page) =>
                     K[Head(page)] <= K[x] /\ K[x] <= K[Last(page)]
  BY DEF InOrder
<1> DEFINE C(x) == Cardinality(RowsBefore(S, K, x))
           F == FirstRows(S, K, n)
<1>1. Cardinality(S) \in Nat /\ m <= n /\ m <= Cardinality(S)
      /\ (m = n \/ m = Cardinality(S))
  BY FS_CardinalityType
<1>2. ASSUME NEW i \in 1..m PROVE page[i] \in S /\ C(page[i]) = i - 1
  <2>1. page[i] \in S
    OBVIOUS
  <2>2. C(page[i]) = i - 1
    OBVIOUS
  <2> QED BY <2>1, <2>2
<1>3. /\ page = <<>> <=> m = 0
      /\ \A x : x \in ToSet(page) <=> \E i \in 1..m : x = page[i]
      /\ m # 0 => Head(page) = page[1] /\ Last(page) = page[m]
  <2>1. page = <<>> <=> m = 0
    OBVIOUS
  <2>2. \A x : x \in ToSet(page) <=> \E i \in 1..m : x = page[i]
    <3>1. DOMAIN page = 1..m
      OBVIOUS
    <3>2. \A x : x \in {page[i] : i \in DOMAIN page} <=> \E i \in DOMAIN page : x = page[i]
      BY Zenon
    <3> QED BY <3>1, <3>2, Zenon DEF ToSet
  <2>3. m # 0 => Head(page) = page[1] /\ Last(page) = page[m]
    BY DEF Last
  <2> QED BY <2>1, <2>2, <2>3
<1>4. ASSUME NEW x \in F PROVE x \in ToSet(page)
  <2>1. x \in S /\ C(x) \in Nat /\ C(x) < n
    BY PlacesOrder DEF FirstRows
  <2>2. C(x) < Cardinality(S)
    <3>1. RowsBefore(S, K, x) \subseteq S /\ x \in S /\ x \notin RowsBefore(S, K, x)
      BY <2>1 DEF RowsBefore
    <3>2. Cardinality(RowsBefore(S, K, x)) <= Cardinality(S)
          /\ Cardinality(RowsBefore(S, K, x)) # Cardinality(S)
      BY <3>1, FS_Subset
    <3> QED BY <1>1, <2>1, <3>2
  <2>3. C(x) + 1 \in 1..m
    BY <1>1, <2>1, <2>2
  <2>4. page[C(x) + 1] \in S /\ C(page[C(x) + 1]) = C(x)
    <3> DEFINE i == C(x) + 1
    <3>1. i \in 1..m /\ i - 1 = C(x)
      BY <2>1, <2>3
    <3> HIDE DEF i, C
    <3>2. page[i] \in S /\ C(page[i]) = C(x)
      BY <1>2, <3>1
    <3> QED BY <3>2 DEF i
  <2>5. page[C(x) + 1] = x
    <3> DEFINE y == page[C(x) + 1]
    <3>1. y \in S /\ C(y) = C(x)
      BY <2>4
    <3> HIDE DEF y
    <3>2. ~(K[x] < K[y]) /\ ~(K[y] < K[x])
      <4>1. K[x] < K[y] <=> C(x) < C(y)
        BY <2>1, <3>1, PlacesOrder
      <4>2. K[y] < K[x] <=> C(y) < C(x)
        BY <2>1, <3>1, PlacesOrder
      <4> HIDE DEF C
      <4> QED BY <2>1, <3>1, <4>1, <4>2
    <3>3. K[x] = K[y]
      BY <2>1, <3>1, <3>2
    <3>4. x = y
      BY <2>1, <3>1, <3>3
    <3> QED BY <3>4 DEF y
  <2> HIDE DEF C
  <2> QED BY <1>3, <2>3, <2>5
<1>5. ASSUME NEW x \in ToSet(page) PROVE x \in F
  <2>1. PICK i \in 1..m : x = page[i]
    BY <1>3
  <2>2. x \in S /\ C(x) = i - 1
    BY <1>2, <2>1
  <2> HIDE DEF C
  <2>3. C(x) < n
    BY <1>1, <2>1, <2>2
  <2> QED BY <2>2, <2>3 DEF FirstRows, C
<1>6. page = <<>> <=> S = {}
  <2>1. Cardinality(S) = 0 <=> S = {}
    BY FS_EmptySet
  <2>2. m = 0 <=> Cardinality(S) = 0
    BY <1>1
  <2> QED BY <1>3, <2>1, <2>2
<1>7. ASSUME page # <<>>, NEW x \in S, x \in ToSet(page)
      PROVE  K[Head(page)] <= K[x] /\ K[x] <= K[Last(page)]
  <2>1. PICK i \in 1..m : x = page[i]
    BY <1>3, <1>7
  <2>2. 1 \in 1..m /\ m \in 1..m
    BY <1>1, <2>1
  <2>3. Head(page) = page[1] /\ Last(page) = page[m]
    <3>1. m # 0
      BY <2>2
    <3> QED BY <1>3, <3>1
  <2>4. C(page[1]) <= C(x) /\ C(x) <= C(page[m]) /\ page[1] \in S /\ page[m] \in S
    <3>1. C(page[1]) = 1 - 1 /\ page[1] \in S
      BY <1>2, <2>2
    <3>2. C(page[m]) = m - 1 /\ page[m] \in S
      BY <1>2, <2>2
    <3>3. C(x) = i - 1
      BY <1>2, <2>1
    <3> HIDE DEF C
    <3> QED BY <1>1, <2>1, <3>1, <3>2, <3>3
  <2>5. /\ C(page[1]) \in Nat /\ C(x) \in Nat /\ C(page[m]) \in Nat
        /\ K[x] < K[page[1]] <=> C(x) < C(page[1])
        /\ K[page[m]] < K[x] <=> C(page[m]) < C(x)
    BY <1>7, <2>4, PlacesOrder
  <2>6. K[x] \in Int /\ K[page[1]] \in Int /\ K[page[m]] \in Int
    BY <1>7, <2>4
  <2> HIDE DEF C
  <2> QED BY <2>3, <2>4, <2>5, <2>6
<1> HIDE DEF F
<1>8. ToSet(page) = F
  BY <1>4, <1>5
<1> QED BY <1>3, <1>6, <1>7, <1>8 DEF F

(* How long a page is. *)
LEMMA PageLength ==
  ASSUME NEW S, IsFiniteSet(S), PageLimit \in Nat, PageLimit # 0,
         NEW m, m = Min({PageLimit, Cardinality(S)}), NEW page, page = FirstPage(S)
  PROVE  /\ m \in Nat /\ m <= Cardinality(S) /\ DOMAIN page = 1..m
         /\ m = 0 <=> S = {}
         /\ page = <<>> <=> S = {}
<1>1. Cardinality(S) \in Nat /\ (Cardinality(S) = 0 <=> S = {})
  BY FS_CardinalityType, FS_EmptySet
<1>2. m = IF PageLimit <= Cardinality(S) THEN PageLimit ELSE Cardinality(S)
  BY <1>1, MinOfTwo
<1>3. DOMAIN page = 1..m
  BY DEF FirstPage
<1>4. m \in Nat /\ m <= Cardinality(S) /\ (m = 0 <=> S = {})
  BY <1>1, <1>2
<1>5. ASSUME page = <<>> PROVE S = {}
  <2>1. DOMAIN page = {}
    BY <1>5
  <2>2. 1..m = {}
    BY <1>3, <2>1
  <2> QED BY <1>4, <2>2
<1>6. ASSUME S = {} PROVE page = <<>>
  <2> DEFINE g == [i \in 1..m |-> CHOOSE row \in S : Place(row, S) = i]
  <2>1. page = [i \in 1..m |-> g[i]]
    BY DEF FirstPage
  <2> HIDE DEF g
  <2>2. 1..m = {}
    BY <1>4, <1>6
  <2> QED BY <2>1, <2>2, EmptyFunction
<1> QED BY <1>3, <1>4, <1>5, <1>6

(* A page of rows: the first ones in the order of the key, by their numbers. *)
LEMMA PageOfRows ==
  ASSUME NEW T, IsFiniteSet(T), NEW N \in [T -> Int],
         \A x, y \in T : /\ Precedes(KeyOf(Key, x), KeyOf(Key, y)) <=> N[x] < N[y]
                         /\ N[x] = N[y] => x = y,
         NEW S \in SUBSET T, S # {},
         NEW n, n = PageLimit, n \in Nat, n # 0,
         NEW page, page = FirstPage(S), NEW P, P = ToSet(page)
  PROVE  /\ page # <<>> /\ Head(page) \in P /\ Last(page) \in P /\ P \subseteq S
         /\ \A x \in P : N[Head(page)] <= N[x] /\ N[x] <= N[Last(page)]
         /\ \A x \in S \ P : N[Last(page)] < N[x]
         /\ IsFiniteSet(P) /\ Cardinality(P) <= n
<1>0. PICK K, m : K = [x \in S |-> N[x]] /\ m = Min({n, Cardinality(S)})
  OBVIOUS
<1> DEFINE C(x) == Cardinality(RowsBefore(S, K, x))
<1>1. IsFiniteSet(S) /\ K \in [S -> Int] /\ \A x, y \in S : K[x] = K[y] => x = y
  BY <1>0, FS_Subset
<1>2. ASSUME NEW x \in S PROVE Place(x, S) = 1 + C(x)
  <2>1. {r \in S : Precedes(KeyOf(Key, r), KeyOf(Key, x))} = RowsBefore(S, K, x)
    BY <1>0 DEF RowsBefore
  <2> QED BY <2>1 DEF Place
<1>3. m \in Nat /\ m <= Cardinality(S) /\ m # 0 /\ DOMAIN page = 1..m /\ page # <<>>
  BY <1>0, <1>1, PageLength
<1>4. \A i \in 1..m : page[i] = CHOOSE x \in S : Place(x, S) = i
  BY <1>0 DEF FirstPage
<1>5. page = [i \in 1..m |-> page[i]]
  BY <1>0 DEF FirstPage
<1>6. ASSUME NEW i \in 1..m PROVE page[i] \in S /\ C(page[i]) = i - 1
  <2>1. i \in 1..Cardinality(S)
    BY <1>1, <1>3, FS_CardinalityType
  <2>2. PICK x \in S : C(x) = i - 1
    BY <1>1, <2>1, NthRowExists
  <2>3. Place(x, S) = i
    BY <1>2, <1>3, <2>2
  <2>4. page[i] \in S /\ Place(page[i], S) = i
    BY <1>4, <2>3
  <2>5. C(page[i]) \in Nat
    BY <1>1, <2>4, PlacesOrder
  <2> HIDE DEF C
  <2> QED BY <1>2, <1>3, <2>4, <2>5
<1>7. page \in Seq(S) /\ Len(page) = m
  <2>1. page \in [1..m -> S]
    BY <1>5, <1>6
  <2> QED BY <1>3, <2>1
<1>8. /\ ToSet(page) = FirstRows(S, K, n)
      /\ \A x \in S : x \in ToSet(page) => K[Head(page)] <= K[x] /\ K[x] <= K[Last(page)]
  <2>2. \A i \in 1..m : Cardinality(RowsBefore(S, K, page[i])) = i - 1
    BY <1>6
  <2>3. m <= n /\ (m = n \/ m = Cardinality(S))
    BY <1>1, FS_CardinalityType, <1>0, MinOfTwo
  <2>4. InOrder(S, K, n, page)
    BY <1>1, <1>3, <1>7, <2>2, <2>3 DEF InOrder
  <2> QED BY <1>3, <2>4, OrderedPage
<1>9. Head(page) \in P /\ Last(page) \in P
  <2>1. Head(page) = page[1] /\ Last(page) = page[m] /\ 1 \in DOMAIN page /\ m \in DOMAIN page
    BY <1>3, <1>7 DEF Last
  <2>2. \A i \in DOMAIN page : page[i] \in ToSet(page)
    BY DEF ToSet
  <2> QED BY <2>1, <2>2
<1>10. P \subseteq S /\ IsFiniteSet(P) /\ Cardinality(P) <= n
  BY <1>1, <1>8, PageBound
<1>11. \A x \in P : N[Head(page)] <= N[x] /\ N[x] <= N[Last(page)]
  BY <1>0, <1>8, <1>9, <1>10
<1>12. ASSUME NEW x \in S \ P PROVE N[Last(page)] < N[x]
  <2>1. Last(page) \in FirstRows(S, K, n) /\ x \notin FirstRows(S, K, n)
    BY <1>8, <1>9, <1>12
  <2>2. ~(K[x] <= K[Last(page)])
    BY <1>1, <2>1, PageIsPrefix
  <2>3. Last(page) \in S /\ K[x] = N[x] /\ K[Last(page)] = N[Last(page)]
        /\ N[x] \in Int /\ N[Last(page)] \in Int
    BY <1>0, <1>9, <1>10
  <2> QED BY <2>2, <2>3
<1> QED BY <1>3, <1>9, <1>10, <1>11, <1>12

-----------------------------------------------------------------------------
(* The scan. *)

(* A writer has found its table, and a key of it. *)
Placed(v) ==
  /\ <<v.db, v.table>> \in DOMAIN Catalog
  /\ v.key # NoKey => IsKeyOf(v.key, Table(v))

(* The rows up to the cursor have been hit once, the others not at all. *)
Behind(row) == ~Precedes(run.cursor, KeyOf(Key, row))

Swept ==
  /\ DOMAIN run.hits = Table(run.w).rows
  /\ run.pc = "start" => run.cursor = <<>>
  /\ run.pc = "scan" => Key # NoKey
  /\ run.cursor = <<>> => \A row \in DOMAIN run.hits : run.hits[row] = 0
  /\ run.cursor # <<>> =>
       /\ Key # NoKey /\ Chunk # 0 /\ Serves(Key, Table(run.w))
       /\ \E row \in DOMAIN run.hits : run.cursor = KeyOf(Key, row)
       /\ \A row \in DOMAIN run.hits : run.hits[row] = (IF Behind(row) THEN 1 ELSE 0)
  /\ Key # NoKey => run.result \in {"", "nil", "error"}
  /\ run.result = "nil" =>
       IF Chunk = 0 THEN run.cursor = <<>> ELSE \A row \in DOMAIN run.hits : run.hits[row] = 1

(* What a scan under way can rely on. *)
Scanning ==
  Swept /\ Placed(run.w) /\ Key # NoKey /\ Chunk \in Nat /\ Chunk # 0

(* The table it scans and the size of its pages. *)
LEMMA ScanTable ==
  ASSUME Scanning
  PROVE  /\ IsTable(Table(run.w)) /\ IsKeyOf(Key, Table(run.w))
         /\ IsFiniteSet(DOMAIN run.hits) /\ DOMAIN run.hits = Table(run.w).rows
         /\ PageLimit \in Nat /\ PageLimit # 0 /\ (Chunk # 1 => PageLimit = Chunk)
<1>1. IsTable(Table(run.w)) /\ IsKeyOf(Key, Table(run.w))
  BY CatalogAssumption DEF Scanning, Placed, Table, Key
<1>2. DOMAIN run.hits = Table(run.w).rows
  BY DEF Scanning, Swept
<1>3. IsFiniteSet(Table(run.w).rows)
  BY <1>1 DEF IsTable
<1>4. Chunk \in Nat /\ Chunk # 0 /\ PageSize \in Nat \ {0}
  BY StartAssumption DEF Scanning
<1>5. PageLimit \in Nat /\ PageLimit # 0 /\ (Chunk # 1 => PageLimit = Chunk)
  <2>1. Chunk > 1 \/ Chunk = 1
    BY <1>4
  <2> QED BY <1>4, <2>1 DEF PageLimit
<1> QED BY <1>1, <1>2, <1>3, <1>5

(* The rows that are left are those no chunk has executed on. *)
LEMMA RemainingRows ==
  ASSUME Scanning
  PROVE  Remaining = {row \in DOMAIN run.hits : run.hits[row] = 0}
<1>1. DOMAIN run.hits = Table(run.w).rows /\ IsTable(Table(run.w)) /\ IsKeyOf(Key, Table(run.w))
  BY ScanTable
<1>2. CASE run.cursor = <<>>
  <2>1. \A row \in DOMAIN run.hits : run.hits[row] = 0
    BY <1>2 DEF Scanning, Swept
  <2> QED BY <1>2, <2>1 DEF Remaining, Matching
<1>3. CASE run.cursor # <<>>
  <2>1. PICK last \in DOMAIN run.hits : run.cursor = KeyOf(Key, last)
    BY <1>3 DEF Scanning, Swept
  <2>2. \A row \in DOMAIN run.hits : run.hits[row] = (IF Behind(row) THEN 1 ELSE 0)
    BY <1>3 DEF Scanning, Swept
  <2> DEFINE n == Len(Key.cols)
             a == run.cursor
  <2>3. /\ n \in Nat /\ n # 0 /\ Key.cols \in Seq(Table(run.w).cols)
        /\ \A row \in DOMAIN run.hits : KeyOf(Key, row) \in [1..n -> Int]
    <3>1. \A row \in Table(run.w).rows : KeyOf(Key, row) \in [1..n -> Int]
      BY <1>1, KeyValues
    <3>2. n \in Nat /\ n # 0 /\ Key.cols \in Seq(Table(run.w).cols)
      BY <1>1, KeyValues
    <3> QED BY <1>1, <3>1, <3>2
  <2> HIDE DEF n
  <2>4. a \in [1..n -> Int] /\ Arranged(GetArgs(a), a, n)
    BY <2>1, <2>3, GetArgsArranged
  <2>5. ASSUME NEW row \in DOMAIN run.hits
        PROVE  PastCursor(row) <=> Precedes(a, KeyOf(Key, row))
    <3>1. BuildSelectWhereClause(Key, ">", GetArgs(a), row) <=> Precedes(a, KeyOf(Key, row))
      BY <2>3, <2>4, SelectWhereMeans DEF n
    <3> QED BY <3>1 DEF PastCursor
  <2>6. ASSUME NEW row \in DOMAIN run.hits
        PROVE  PastCursor(row) <=> run.hits[row] = 0
    BY <2>2, <2>5 DEF Behind
  <2> QED BY <1>3, <2>6 DEF Remaining, Matching
<1> QED BY <1>2, <1>3

(* A page whose statement the driver takes belongs to a key that serves. *)
LEMMA UsablePage ==
  ASSUME Scanning, NEW page, ~Unusable(page)
  PROVE  Serves(Key, Table(run.w))
<1> DEFINE n == Len(Key.cols)
           r == Head(page)
           s == Last(page)
<1>1. n \in Nat /\ n # 0 /\ DOMAIN Key.cols = 1..n
  BY ScanTable, KeyValues
<1>2. ExecPlaceholders(Key, Chunk) = Len(ArgsOf(r, s))
  BY DEF Unusable
<1> HIDE DEF n, r, s
<1>3. ExecPlaceholders(Key, Chunk) = Len(ArgsOf(r, s))
        <=> \A i \in DOMAIN Key.cols : ~Key.null[i]
  BY <1>1, PlaceholdersFit DEF ArgsOf, n
<1>4. \A i \in DOMAIN Key.cols : ~Key.null[i]
  BY <1>2, <1>3
<1>5. \A i \in DOMAIN Key.cols : Key.cols[i] \notin Table(run.w).unsupported
  BY DEF Unusable
<1> QED BY <1>4, <1>5 DEF Serves

(* Its rows can be numbered. *)
LEMMA Numbering ==
  ASSUME Scanning, Serves(Key, Table(run.w))
  PROVE  LET n == Len(Key.cols)
             T == DOMAIN run.hits
         IN /\ n \in Nat /\ n # 0 /\ Key.cols \in Seq(Table(run.w).cols)
            /\ \A row \in T : KeyOf(Key, row) \in [1..n -> Int]
            /\ \A x, y \in T : KeyOf(Key, x) = KeyOf(Key, y) => x = y
            /\ \E N \in [T -> Int] : \A x, y \in T :
                 /\ Precedes(KeyOf(Key, x), KeyOf(Key, y)) <=> N[x] < N[y]
                 /\ N[x] = N[y] => x = y
<1> DEFINE n == Len(Key.cols)
           T == DOMAIN run.hits
           V == [row \in T |-> KeyOf(Key, row)]
<1>1. /\ T = Table(run.w).rows /\ IsTable(Table(run.w)) /\ IsKeyOf(Key, Table(run.w))
      /\ IsFiniteSet(T)
  BY ScanTable
<1>2. n \in Nat /\ n # 0 /\ Key.cols \in Seq(Table(run.w).cols)
  BY <1>1, KeyValues
<1>3. \A row \in Table(run.w).rows : KeyOf(Key, row) \in [1..n -> Int]
  BY <1>1, KeyValues
<1>4. \A x, y \in Table(run.w).rows : KeyOf(Key, x) = KeyOf(Key, y) => x = y
  BY <1>1, KeyValues
<1> HIDE DEF n, T
<1>5. V \in [T -> [1..n -> Int]] /\ \A x, y \in T : V[x] = V[y] => x = y
  BY <1>1, <1>3, <1>4
<1> HIDE DEF V
<1>6. PICK F : Numbers(F, T, V)
  BY <1>1, <1>2, <1>5, RowsAreNumbered
<1>7. \A x \in T : V[x] = KeyOf(Key, x)
  BY DEF V
<1>8. \E N \in [T -> Int] : \A x, y \in T :
        /\ Precedes(KeyOf(Key, x), KeyOf(Key, y)) <=> N[x] < N[y]
        /\ N[x] = N[y] => x = y
  BY <1>6, <1>7 DEF Numbers
<1> QED BY <1>1, <1>2, <1>3, <1>4, <1>8 DEF n, T

(* What a chunk from one row to another executes on, by their values. *)
LEMMA ExecOnRows ==
  ASSUME NEW n \in Nat, n # 0, n = Len(Key.cols), NEW C, Key.cols \in Seq(C),
         NEW r, NEW s, NEW row, KeyOf(Key, r) \in [1..n -> Int],
         KeyOf(Key, s) \in [1..n -> Int], KeyOf(Key, row) \in [1..n -> Int]
  PROVE  ExecWhere(Key, Chunk, ArgsOf(r, s), row) <=>
           Within(Chunk, KeyOf(Key, r), KeyOf(Key, s), KeyOf(Key, row))
<1>1. PICK a, b, c, args : /\ a = KeyOf(Key, r) /\ b = KeyOf(Key, s) /\ c = KeyOf(Key, row)
                           /\ args = ArgsOf(r, s)
  OBVIOUS
<1>2. /\ Chunk = 1 => args = GetColumnValue(a, Chunk)
      /\ Chunk # 1 => args = GetColumnValue(a \o b, Chunk)
  BY <1>1 DEF ArgsOf
<1>3. a \in [1..n -> Int] /\ b \in [1..n -> Int] /\ c \in [1..n -> Int]
  BY <1>1
<1>4. ExecWhere(Key, Chunk, args, row) <=> Within(Chunk, a, b, c)
  BY <1>1, <1>2, <1>3, ExecMeans
<1> QED BY <1>1, <1>4

(* The rows from one to another are those that a chunk executes on. *)
LEMMA ChunkRows ==
  ASSUME Scanning, Serves(Key, Table(run.w)),
         NEW r \in DOMAIN run.hits, NEW s \in DOMAIN run.hits, NEW row \in DOMAIN run.hits,
         NEW N, Numbers(N, DOMAIN run.hits, [x \in DOMAIN run.hits |-> KeyOf(Key, x)])
  PROVE  row \in Executes(ArgsOf(r, s)) <=>
           /\ row \in Matching
           /\ IF Chunk = 1 THEN row = r ELSE N[r] <= N[row] /\ N[row] <= N[s]
<1> DEFINE n == Len(Key.cols)
           T == DOMAIN run.hits
           a == KeyOf(Key, r)
           b == KeyOf(Key, s)
           c == KeyOf(Key, row)
           V == [x \in T |-> KeyOf(Key, x)]
<1>1. n \in Nat /\ n # 0 /\ Key.cols \in Seq(Table(run.w).cols)
  BY Numbering
<1>2. \A x \in T : KeyOf(Key, x) \in [1..n -> Int]
  BY Numbering
<1>3. \A x, y \in T : KeyOf(Key, x) = KeyOf(Key, y) => x = y
  BY Numbering
<1>4. a \in [1..n -> Int] /\ b \in [1..n -> Int] /\ c \in [1..n -> Int]
  BY <1>2
<1>5. ExecWhere(Key, Chunk, ArgsOf(r, s), row) <=> Within(Chunk, a, b, c)
  BY <1>1, <1>4, ExecOnRows
<1>6. (a = c <=> r = row) /\ (b = c <=> s = row)
  BY <1>3
<1>7. (Precedes(a, c) <=> N[r] < N[row]) /\ (Precedes(c, b) <=> N[row] < N[s])
  BY DEF Numbers
<1>8. /\ N[r] \in Int /\ N[s] \in Int /\ N[row] \in Int
      /\ N[r] = N[row] => r = row
      /\ N[s] = N[row] => s = row
  BY DEF Numbers
<1> HIDE DEF a, b, c, T
<1>9. CASE Chunk = 1
  BY <1>5, <1>6, <1>9 DEF Executes, Matching, T, Within
<1>10. CASE Chunk # 1
  <2>1. ExecWhere(Key, Chunk, ArgsOf(r, s), row) <=> N[r] <= N[row] /\ N[row] <= N[s]
    BY <1>5, <1>6, <1>7, <1>8, <1>10 DEF Within
  <2> QED BY <1>10, <2>1 DEF Executes, Matching, T
<1> QED BY <1>9, <1>10

(* A set of at most so many is its only subset of that size. *)
LEMMA WholeSubset ==
  ASSUME NEW S, IsFiniteSet(S), NEW n \in Nat, Cardinality(S) <= n,
         NEW hit \in kSubset(Min({n, Cardinality(S)}), S)
  PROVE  hit = S
<1>1. Cardinality(S) \in Nat
  BY FS_CardinalityType
<1>2. Min({n, Cardinality(S)}) = Cardinality(S)
  BY <1>1, MinOfTwo
<1>3. hit \in SUBSET S /\ Cardinality(hit) = Cardinality(S)
  BY <1>2 DEF kSubset
<1> QED BY <1>3, FS_Subset

(* What a page's chunks hit: rows not hit before, up to the page's last. *)
Advances(hit, last) ==
  /\ last \in DOMAIN run.hits
  /\ \A row \in DOMAIN run.hits :
       /\ row \in hit => run.hits[row] = 0
       /\ Precedes(KeyOf(Key, last), KeyOf(Key, row)) <=> run.hits[row] = 0 /\ row \notin hit

(* A page's chunks hit the page, and nothing else. *)
LEMMA PageAdvances ==
  ASSUME Scanning, NEW page, page = FirstPage(Remaining), page # <<>>, ~Unusable(page),
         NEW hit \in Hits(page)
  PROVE  Advances(hit, Last(page))
<1>1. PICK T, S, P : T = DOMAIN run.hits /\ S = Remaining /\ P = ToSet(page)
  OBVIOUS
<1>2. Serves(Key, Table(run.w))
  BY UsablePage
<1>3. PICK N : Numbers(N, T, [x \in T |-> KeyOf(Key, x)])
  <2>1. \E N \in [T -> Int] : \A x, y \in T :
          /\ Precedes(KeyOf(Key, x), KeyOf(Key, y)) <=> N[x] < N[y]
          /\ N[x] = N[y] => x = y
    BY <1>1, <1>2, Numbering
  <2> QED BY <2>1 DEF Numbers
<1>4. /\ N \in [T -> Int]
      /\ \A x, y \in T : /\ Precedes(KeyOf(Key, x), KeyOf(Key, y)) <=> N[x] < N[y]
                         /\ N[x] = N[y] => x = y
  BY <1>3 DEF Numbers
<1>5. PICK n : n = PageLimit /\ n \in Nat /\ n # 0 /\ (Chunk # 1 => n = Chunk)
  BY ScanTable
<1>6. S \in SUBSET T /\ IsFiniteSet(T) /\ IsFiniteSet(S)
      /\ \A row \in T : row \in S <=> run.hits[row] = 0
  <2>1. S = {row \in T : run.hits[row] = 0} /\ IsFiniteSet(T)
    BY <1>1, RemainingRows, ScanTable
  <2> QED BY <2>1, FS_Subset
<1>7. S # {}
  <2>1. PageLimit \in Nat /\ PageLimit # 0 /\ page = FirstPage(S)
    BY <1>1, ScanTable
  <2> QED BY <1>6, <2>1, PageLength
<1>8. PICK r, s : r = Head(page) /\ s = Last(page)
  OBVIOUS
<1>9. /\ r \in P /\ s \in P /\ P \subseteq S
      /\ \A x \in P : N[r] <= N[x] /\ N[x] <= N[s]
      /\ \A x \in S \ P : N[s] < N[x]
      /\ IsFiniteSet(P) /\ Cardinality(P) <= n
  BY <1>1, <1>4, <1>5, <1>6, <1>7, <1>8, PageOfRows
<1>10. ASSUME NEW x \in T \ S PROVE N[x] < N[r]
  <2>1. run.cursor # <<>>
    BY <1>1, <1>6, <1>10 DEF Scanning, Swept
  <2>2. PICK last \in T : run.cursor = KeyOf(Key, last)
    BY <1>1, <2>1 DEF Scanning, Swept
  <2>3. \A row \in T : run.hits[row] = (IF Behind(row) THEN 1 ELSE 0)
    BY <1>1, <2>1 DEF Scanning, Swept
  <2>4. Behind(x) /\ ~Behind(r) /\ r \in T
    BY <1>6, <1>9, <1>10, <2>3
  <2>5. ~(N[last] < N[x]) /\ N[last] < N[r]
    BY <1>4, <2>2, <2>4 DEF Behind
  <2>6. N[last] \in Int /\ N[x] \in Int /\ N[r] \in Int
    BY <1>4, <2>4
  <2> QED BY <2>5, <2>6
<1>11. \A row \in S : row \in Matching
  BY <1>1, <1>6 DEF Matching
<1>12. hit = P
  <2>1. CASE Chunk = 1
    <3>1. ASSUME NEW x \in P PROVE Executes(ArgsOf(x, x)) = {x}
      <4>1. x \in T /\ x \in Matching
        BY <1>6, <1>9, <1>11
      <4>2. \A row \in T : row \in Executes(ArgsOf(x, x)) <=> row \in Matching /\ row = x
        BY <1>1, <1>2, <1>3, <2>1, <4>1, ChunkRows
      <4>3. Executes(ArgsOf(x, x)) \subseteq T
        BY <1>1 DEF Executes, Matching
      <4> QED BY <4>1, <4>2, <4>3
    <3>2. hit = UNION {Executes(ArgsOf(x, x)) : x \in P}
      BY <1>1, <2>1 DEF Hits
    <3>3. hit = UNION {{x} : x \in P}
      BY <3>1, <3>2
    <3> QED BY <3>3
  <2>2. CASE Chunk # 1
    <3> DEFINE E == Executes(ArgsOf(r, s))
    <3>1. E = P
      <4>1. r \in T /\ s \in T
        BY <1>6, <1>9
      <4>2. \A row \in T :
              row \in E <=> row \in Matching /\ N[r] <= N[row] /\ N[row] <= N[s]
        BY <1>1, <1>2, <1>3, <2>2, <4>1, ChunkRows
      <4>3. E \subseteq T
        BY <1>1 DEF Executes, Matching
      <4> HIDE DEF E
      <4>4. ASSUME NEW x \in E PROVE x \in P
        <5>1. x \in T /\ N[r] <= N[x] /\ N[x] <= N[s]
          BY <4>2, <4>3
        <5>2. N[r] \in Int /\ N[x] \in Int /\ N[s] \in Int
          BY <1>4, <4>1, <5>1
        <5>3. x \in S
          BY <1>10, <5>1, <5>2
        <5> QED BY <1>9, <5>1, <5>2, <5>3
      <4>5. ASSUME NEW x \in P PROVE x \in E
        BY <1>6, <1>9, <1>11, <4>2
      <4> QED BY <4>3, <4>4, <4>5
    <3> HIDE DEF E
    <3>2. hit \in kSubset(Min({Chunk, Cardinality(E)}), E)
      BY <1>8, <2>2 DEF Hits, E
    <3>3. hit \in kSubset(Min({n, Cardinality(P)}), P)
      BY <1>5, <2>2, <3>1, <3>2
    <3> QED BY <1>5, <1>9, <3>3, WholeSubset
  <2> QED BY <2>1, <2>2
<1>13. ASSUME NEW row \in T
       PROVE  N[s] < N[row] <=> row \in S /\ row \notin P
  <2>1. N[s] \in Int /\ N[row] \in Int /\ N[r] \in Int /\ r \in P /\ s \in P
    BY <1>4, <1>6, <1>9
  <2>2. CASE row \in P
    BY <1>9, <2>1, <2>2
  <2>3. CASE row \in S \ P
    BY <1>9, <2>1, <2>3
  <2>4. CASE row \notin S
    <3>1. N[row] < N[r] /\ N[r] <= N[s]
      BY <1>9, <1>10, <2>1, <2>4
    <3> QED BY <1>9, <2>1, <2>4, <3>1
  <2> QED BY <2>2, <2>3, <2>4
<1>14. s \in T /\ \A row \in T :
         /\ row \in hit => run.hits[row] = 0
         /\ Precedes(KeyOf(Key, s), KeyOf(Key, row)) <=> run.hits[row] = 0 /\ row \notin hit
  BY <1>4, <1>6, <1>9, <1>12, <1>13
<1> QED BY <1>1, <1>8, <1>14 DEF Advances

(* What a step needs of the writers, and of the run if it scans. *)
Exact ==
  /\ \A i \in DOMAIN built : Placed(built[i])
  /\ run.pc # "none" => Placed(run.w) /\ (run.route = "range" => Swept)
  /\ run.pc = "scan" => run.route = "range"

LEMMA InitExact == Init => Exact
<1> SUFFICES ASSUME Init PROVE Exact
  OBVIOUS
<1>1. built = <<>> /\ DOMAIN built = {}
  BY DEF Init
<1>2. run.pc = "none"
  BY DEF Init, NoRun
<1> QED BY <1>1, <1>2 DEF Exact

(* A step that starts no run and goes on with none. *)
LEMMA RunStays ==
  ASSUME Exact, UNCHANGED run, \A i \in DOMAIN built' : Placed(built'[i])
  PROVE  Exact'
<1>1. run.pc # "none" => Placed(run'.w)
  BY DEF Exact
<1>2. Swept => Swept'
  BY DEF Swept, Behind, Key, Chunk
<1> QED BY <1>1, <1>2 DEF Exact

LEMMA BuildExact ==
  ASSUME IInv, Exact, NEW v, Build(v), Placed(v), UNCHANGED run
  PROVE  Exact'
<1>1. \A i \in DOMAIN built' : built'[i] = v \/ (i \in DOMAIN built /\ built'[i] = built[i])
  BY BuildAppends DEF IInv, Built, Build
<1>2. \A i \in DOMAIN built' : Placed(built'[i])
  BY <1>1 DEF Exact
<1> QED BY <1>2, RunStays

LEMMA ReadStatementExact ==
  ASSUME IInv, Exact, ReadStatement, UNCHANGED run
  PROVE  Exact'
<1>1. CASE UNCHANGED built
  <2>1. \A i \in DOMAIN built' : Placed(built'[i])
    BY <1>1 DEF Exact
  <2> QED BY <2>1, RunStays
<1>2. CASE Build([w EXCEPT !.pc = "none", !.source = server])
  <2> DEFINE v == [w EXCEPT !.pc = "none", !.source = server]
  <2>1. IsWriter(w) /\ w.key = NoKey /\ w.pc = "statement"
        /\ <<w.db, w.table>> \in DOMAIN Catalog
    BY DEF IInv, Building, ReadStatement, TypeOK
  <2>2. v.db = w.db /\ v.table = w.table /\ v.key = NoKey
    BY <2>1 DEF IsWriter
  <2>3. Build(v)
    BY <1>2
  <2> HIDE DEF v
  <2>4. Placed(v)
    BY <2>1, <2>2 DEF Placed
  <2> QED BY <2>3, <2>4, BuildExact
<1> QED BY <1>1, <1>2 DEF ReadStatement, Refuse

LEMMA ReadKeysExact ==
  ASSUME IInv, Exact, ReadKeys, UNCHANGED run
  PROVE  Exact'
<1> DEFINE force == NormalizeForceChunkingColumns(w.cfg.force)
           key(shown) == SelectChunkingKey(KeysOf(w.source, Table(w), shown, force), force)
<1>1. CASE UNCHANGED built
  <2>1. \A i \in DOMAIN built' : Placed(built'[i])
    BY <1>1 DEF Exact
  <2> QED BY <2>1, RunStays
<1>2. ASSUME NEW shown \in {Table(w).shown, <<>>}, key(shown) # NoKey,
             Build([w EXCEPT !.pc = "none", !.key = key(shown)])
      PROVE  Exact'
  <2>1. IsWriter(w) /\ w.pc = "keys" /\ <<w.db, w.table>> \in DOMAIN Catalog
    BY DEF IInv, Building, ReadKeys, TypeOK
  <2>2. IsTable(Table(w))
    BY <2>1, CatalogAssumption DEF Table
  <2>3. IsKeyOf(key(shown), Table(w))
    <3> HIDE DEF force
    <3> QED BY <1>2, <2>2, KeyIsChosen
  <2> DEFINE k == key(shown)
             v == [w EXCEPT !.pc = "none", !.key = k]
  <2>4. Build(v) /\ IsKeyOf(k, Table(w))
    BY <1>2, <2>3
  <2> HIDE DEF k
  <2>5. v.db = w.db /\ v.table = w.table /\ v.key = k
    BY <2>1 DEF IsWriter
  <2> HIDE DEF v
  <2>6. Placed(v)
    BY <2>1, <2>4, <2>5 DEF Placed, Table
  <2> QED BY <2>4, <2>6, BuildExact
<1>3. \/ UNCHANGED built
      \/ \E shown \in {Table(w).shown, <<>>} :
           key(shown) # NoKey /\ Build([w EXCEPT !.pc = "none", !.key = key(shown)])
  BY DEF ReadKeys, Refuse
<1> QED BY <1>1, <1>2, <1>3

LEMMA RunExact ==
  ASSUME IInv, Exact, NEW i \in DOMAIN built, Run(i)
  PROVE  Exact'
<1> DEFINE v == built[i]
           T == Table(v).rows
           hits == [row \in T |-> 0]
<1>1. run' = [NoRun EXCEPT !.pc = "start", !.w = v, !.cfg = config,
                          !.route = SelectStrategy(config, v), !.hits = hits]
      /\ built' = built
  BY DEF Run
<1>2. Placed(v)
  BY DEF Exact
<1> HIDE DEF v, hits
<1>3. run'.pc = "start" /\ run'.w = v /\ run'.hits = hits /\ run'.cursor = <<>> /\ run'.result = ""
  BY <1>1 DEF NoRun
<1>4. DOMAIN hits = T /\ \A row \in T : hits[row] = 0
  BY DEF hits
<1>5. Swept'
  BY <1>3, <1>4 DEF Swept, Key, Chunk
<1> QED BY <1>1, <1>2, <1>3, <1>5 DEF Exact

(* A run that ends keeps what it has swept. *)
LEMMA EndsExact ==
  ASSUME IInv, Exact, run.pc # "none", UNCHANGED built, NEW result, Ends(result),
         run.route = "range" =>
           /\ Key # NoKey => result \in {"", "nil", "error"}
           /\ result = "nil" =>
                IF Chunk = 0 THEN run.cursor = <<>>
                ELSE \A row \in DOMAIN run.hits : run.hits[row] = 1
  PROVE  Exact'
<1>1. run' = [run EXCEPT !.pc = "done", !.result = result] /\ IsRun(run)
  BY DEF Ends, IInv, Routed
<1>2. /\ run'.pc = "done" /\ run'.w = run.w /\ run'.hits = run.hits /\ run'.cursor = run.cursor
      /\ run'.route = run.route /\ run'.result = result
  BY <1>1 DEF IsRun
<1>3. Placed(run.w) /\ (run.route = "range" => Swept)
  BY DEF Exact
<1>4. run.route = "range" => Swept'
  BY <1>2, <1>3 DEF Swept, Behind, Key, Chunk
<1>5. \A i \in DOMAIN built' : Placed(built'[i])
  BY DEF Exact
<1> QED BY <1>2, <1>3, <1>4, <1>5 DEF Exact

LEMMA StartExact ==
  ASSUME IInv, Exact, Start, UNCHANGED built
  PROVE  Exact'
<1>1. run.pc = "start" /\ IsRun(run)
  BY DEF Start, IInv, Routed
<1>2. CASE Ends("error")
  BY <1>1, <1>2, EndsExact
<1>3. CASE run.w.key = NoKey /\ Ends("crash")
  BY <1>1, <1>3, EndsExact DEF Key
<1>4. CASE run.route # "range" /\ Ends("strategy")
  BY <1>1, <1>4, EndsExact
<1>5. CASE run.route = "range" /\ run.w.key # NoKey /\ run' = [run EXCEPT !.pc = "scan"]
  <2>1. /\ run'.pc = "scan" /\ run'.w = run.w /\ run'.hits = run.hits
        /\ run'.cursor = run.cursor /\ run'.route = run.route /\ run'.result = run.result
    BY <1>1, <1>5 DEF IsRun
  <2>2. Placed(run.w) /\ Swept
    BY <1>1, <1>5 DEF Exact
  <2>3. Swept'
    <3>1. run.w.key # NoKey /\ run.result \in {"", "nil", "error"}
      BY <1>5, <2>2 DEF Swept, Key
    <3> QED BY <2>1, <2>2, <3>1 DEF Swept, Behind, Key, Chunk
  <2>4. \A i \in DOMAIN built' : Placed(built'[i])
    BY DEF Exact
  <2>5. run.route = "range"
    BY <1>5
  <2> QED BY <2>1, <2>2, <2>3, <2>4, <2>5 DEF Exact
<1> QED BY <1>2, <1>3, <1>4, <1>5 DEF Start

(* A page that a scan executes moves the cursor to its last row. *)
LEMMA ScanPageExact ==
  ASSUME IInv, Exact, Scanning, run.route = "range", run.pc = "scan", UNCHANGED built,
         NEW page, page = FirstPage(Remaining), ScanPage(page)
  PROVE  Exact'
<1>1. IsRun(run) /\ Placed(run.w) /\ Swept
  BY DEF IInv, Routed, Exact, Scanning
<1>2. PICK hit \in Hits(page) :
        run' = [run EXCEPT !.hits = [row \in DOMAIN @ |->
                                      IF row \in hit THEN Min({2, @[row] + 1}) ELSE @[row]],
                           !.cursor = KeyOf(Key, Last(page))]
  BY DEF ScanPage
<1>3. PICK last : last = Last(page)
  OBVIOUS
<1>4. Advances(hit, last) /\ Serves(Key, Table(run.w))
  BY <1>3, PageAdvances, UsablePage DEF ScanPage
<1> DEFINE T == DOMAIN run.hits
           hits == [row \in T |-> IF row \in hit THEN Min({2, run.hits[row] + 1})
                                  ELSE run.hits[row]]
<1>5. run' = [run EXCEPT !.hits = hits, !.cursor = KeyOf(Key, last)]
  BY <1>1, <1>2, <1>3 DEF IsRun
<1>6. DOMAIN hits = T
  OBVIOUS
<1>7. \A row \in T : hits[row] = IF row \in hit THEN Min({2, run.hits[row] + 1})
                                ELSE run.hits[row]
  OBVIOUS
<1> HIDE DEF hits
<1>8. /\ run'.pc = "scan" /\ run'.w = run.w /\ run'.hits = hits /\ run'.route = "range"
      /\ run'.cursor = KeyOf(Key, last) /\ run'.result = run.result
  BY <1>1, <1>5 DEF IsRun
<1>9. last \in T /\ KeyOf(Key, last) # <<>>
  <2>1. last \in T
    BY <1>4 DEF Advances
  <2>2. DOMAIN Key.cols = 1..Len(Key.cols) /\ Len(Key.cols) \in Nat /\ Len(Key.cols) # 0
    BY ScanTable, KeyValues
  <2>3. DOMAIN KeyOf(Key, last) = DOMAIN Key.cols
    BY DEF KeyOf
  <2>4. 1 \in DOMAIN KeyOf(Key, last)
    BY <2>2, <2>3
  <2> QED BY <2>1, <2>4
<1>10. ASSUME NEW row \in T
       PROVE  hits[row] = IF Precedes(KeyOf(Key, last), KeyOf(Key, row)) THEN 0 ELSE 1
  <2>1. /\ row \in hit => run.hits[row] = 0
        /\ Precedes(KeyOf(Key, last), KeyOf(Key, row)) <=> run.hits[row] = 0 /\ row \notin hit
    BY <1>4 DEF Advances
  <2>2. run.hits[row] = 0 \/ run.hits[row] = 1
    BY <1>1 DEF Swept
  <2>3. Min({2, 0 + 1}) = 1
    BY MinOfTwo
  <2>4. CASE row \in hit
    <3>1. hits[row] = Min({2, 0 + 1})
      BY <1>7, <2>1, <2>4
    <3> QED BY <2>1, <2>3, <2>4, <3>1
  <2>5. CASE row \notin hit
    <3>1. hits[row] = run.hits[row]
      BY <1>7, <2>5
    <3> QED BY <2>1, <2>2, <2>5, <3>1
  <2> QED BY <2>4, <2>5
<1>11. run.result \notin {"nil"} /\ run.result \in {"", "nil", "error"}
  BY <1>1 DEF IInv, TypeOK, Results, Swept, Scanning
<1>12. Key # NoKey /\ Chunk # 0
  BY DEF Scanning
<1>13. Swept'
  BY <1>1, <1>4, <1>6, <1>8, <1>9, <1>10, <1>11, <1>12 DEF Swept, Behind, Key, Chunk
<1>14. \A i \in DOMAIN built' : Placed(built'[i])
  BY DEF Exact
<1> QED BY <1>1, <1>8, <1>13, <1>14 DEF Exact

LEMMA ScanExact ==
  ASSUME IInv, Exact, Scan, UNCHANGED built
  PROVE  Exact'
<1>1. run.pc = "scan" /\ run.route = "range" /\ Swept /\ Placed(run.w) /\ Key # NoKey
  BY DEF Scan, Exact, Swept
<1>2. Chunk \in Nat
  <2>1. run.w.cfg \in Config /\ PreCheck(run.w.cfg)
    BY <1>1 DEF IInv, Routed, Settled, Checked
  <2>2. run.w.cfg.chunk \in Int /\ run.w.cfg.chunk >= 0
    BY <2>1 DEF Config, PreCheck
  <2> QED BY <2>2 DEF Chunk
<1>3. CASE ScanNothing
  <2>1. Chunk = 0 /\ Ends("nil") /\ run.cursor = <<>>
    BY <1>1, <1>3 DEF ScanNothing, Swept
  <2> QED BY <1>1, <2>1, EndsExact
<1>4. ASSUME Chunk # 0, NEW page, page = FirstPage(Remaining),
             ScanEnds(page) \/ ScanFails(page) \/ ScanPage(page)
      PROVE  Exact'
  <2>1. Scanning
    BY <1>1, <1>2, <1>4 DEF Scanning
  <2>2. CASE ScanEnds(page)
    <3>1. Ends("nil") /\ page = <<>>
      BY <2>2 DEF ScanEnds
    <3>2. Remaining = {}
      <4>1. PICK S : S = Remaining
        OBVIOUS
      <4>2. IsFiniteSet(S) /\ PageLimit \in Nat /\ PageLimit # 0
        <5>1. S \subseteq DOMAIN run.hits
          BY <4>1 DEF Remaining, Matching
        <5> QED BY <2>1, <5>1, ScanTable, FS_Subset
      <4> QED BY <1>4, <3>1, <4>1, <4>2, PageLength
    <3>3. ASSUME NEW row \in DOMAIN run.hits PROVE run.hits[row] = 1
      <4>1. run.hits[row] # 0
        BY <2>1, <3>2, RemainingRows
      <4> QED BY <1>1, <4>1 DEF Swept
    <3> QED BY <1>1, <1>4, <3>1, <3>3, EndsExact
  <2>3. CASE ScanFails(page)
    <3>1. Ends("error")
      BY <2>3 DEF ScanFails
    <3> QED BY <1>1, <3>1, EndsExact
  <2>4. CASE ScanPage(page)
    BY <1>1, <1>4, <2>1, <2>4, ScanPageExact
  <2> QED BY <1>4, <2>2, <2>3, <2>4
<1>5. \/ ScanNothing
      \/ /\ Chunk # 0
         /\ ScanEnds(FirstPage(Remaining)) \/ ScanFails(FirstPage(Remaining))
              \/ ScanPage(FirstPage(Remaining))
  BY DEF Scan
<1> QED BY <1>3, <1>4, <1>5

LEMMA StepExact == IInv /\ Exact /\ [Next]_vars => Exact'
<1> SUFFICES ASSUME IInv, Exact, [Next]_vars PROVE Exact'
  OBVIOUS
<1>1. ASSUME UNCHANGED <<built, run>> PROVE Exact'
  <2>1. \A i \in DOMAIN built' : Placed(built'[i])
    BY <1>1 DEF Exact
  <2> QED BY <1>1, <2>1, RunStays
<1>2. CASE Edit
  BY <1>1, <1>2 DEF Edit
<1>3. CASE NewWriter
  <2>1. UNCHANGED run
    BY <1>3 DEF NewWriter
  <2>2. CASE ResolveTarget \/ Connect
    BY <1>1, <2>1, <2>2 DEF ResolveTarget, Connect, Refuse
  <2> QED BY <1>3, <2>1, <2>2, ReadStatementExact, ReadKeysExact DEF NewWriter
<1>4. CASE Running
  BY <1>4, StartExact, ScanExact DEF Running
<1>5. ASSUME NEW options \in OptionLists, NewExecutor(options) PROVE Exact'
  BY <1>1, <1>5 DEF NewExecutor
<1>6. ASSUME NEW i \in DOMAIN built, Run(i) PROVE Exact'
  BY <1>6, RunExact
<1>7. CASE UNCHANGED vars
  BY <1>1, <1>7 DEF vars
<1> QED BY <1>2, <1>3, <1>4, <1>5, <1>6, <1>7 DEF Next

LEMMA ExactInvariance == Spec => []Exact
<1> QED BY Invariance, InitExact, StepExact, PTL DEF Spec

(* A scan over a key of any number of columns, in chunks of any size, of a    *)
(* DELETE or an UPDATE, hits no row twice, and all of them by the time       *)
(* BuildSQL reports success; over a key that cannot serve it hits none.      *)
THEOREM ScansAreExact == Spec => []ScanIsExact
<1>1. IInv /\ Exact => ScanIsExact
  <2> SUFFICES ASSUME IInv, Exact, run.pc # "none", run.route = "range", Key # NoKey
               PROVE  ScanIsExact
    BY DEF ScanIsExact
  <2>1. Swept
    BY DEF Exact
  <2>2. \A row \in DOMAIN run.hits : run.hits[row] = 0 \/ run.hits[row] = 1
    BY <2>1 DEF Swept
  <2>3. \A row \in DOMAIN run.hits : run.hits[row] <= 1
    BY <2>2
  <2>4. run.result = "nil" =>
          \A row \in DOMAIN run.hits : run.hits[row] = (IF Chunk = 0 THEN 0 ELSE 1)
    BY <2>1 DEF Swept
  <2>5. ASSUME Chunk # 0, NEW i \in DOMAIN Key.cols,
               Key.null[i] \/ Key.cols[i] \in Table(run.w).unsupported
        PROVE  /\ \A row \in DOMAIN run.hits : run.hits[row] = 0
               /\ DOMAIN run.hits # {} => run.result \in {"", "error"}
    <3>1. ~Serves(Key, Table(run.w))
      BY <2>5 DEF Serves
    <3>2. \A row \in DOMAIN run.hits : run.hits[row] = 0
      BY <2>1, <3>1 DEF Swept
    <3>3. run.result \in {"", "nil", "error"}
      BY <2>1 DEF Swept
    <3>4. run.result = "nil" => \A row \in DOMAIN run.hits : run.hits[row] = 1
      BY <2>1, <2>5 DEF Swept
    <3>5. DOMAIN run.hits # {} => run.result # "nil"
      BY <3>2, <3>4
    <3> QED BY <3>2, <3>3, <3>5
  <2> QED BY <2>3, <2>4, <2>5 DEF ScanIsExact
<1> QED BY <1>1, Invariance, ExactInvariance, PTL
=============================================================================
