---------------------------- MODULE RangeStrategy ----------------------------
(***************************************************************************)
(* The range strategy: RangeStrategy.Run starts Procedure.BuildSQL, which  *)
(* cuts the unique key into chunks and queues them, and Writer.Write, which *)
(* executes queued chunks in transactions of about TxnSize rows.  The      *)
(* first of the two to fail, or the writer's end, cancels the other.       *)
(*                                                                         *)
(* A key of the chunking index stands for its row.  applied[id] counts the *)
(* committed executions of the user's statement on the row: a DELETE's row *)
(* is gone at 1, an UPDATE's row stays and may be hit again.  A chunk is a *)
(* pair of keys, FIN is the queue's end marker.                            *)
(*                                                                         *)
(* A definition X_Y right before X is a broken variant of X; no action     *)
(* uses it.  The README says which property finds each of them.            *)
(***************************************************************************)
EXTENDS Integers, FiniteSets, Sequences, FiniteSetsExt

CONSTANTS
  OldIds,       \* rows that match the WHERE clause when the run starts
  NewIds,       \* rows other clients may insert meanwhile
  NoId,         \* the chunk cursor before the first fetch
  FIN,          \* the end marker in the queue
  Statements,   \* the kinds of statement run: "delete", "update"
  ChunkSizes,   \* values of --chunk-size
  TxnSizes,     \* values of --txn-size
  RowLimits,    \* values of --max-rows; 0 is unlimited
  QueueCap,     \* capacity of Writer.ProducerQueue (1000)
  PageSize,     \* rows per key fetch when the chunk size is 1 (1000)
  MaxAttempts,  \* retry.DefaultPolicy().MaxAttempts (4)
  MaxFaults,    \* bound: statements and COMMITs that fail in a behaviour
  MaxLost       \* bound: retried COMMITs that took effect but lost their reply

Ids == OldIds \cup NewIds

ASSUME RangeAssumption ==
  /\ IsFiniteSet(Ids) /\ Ids \subseteq Int /\ OldIds \cap NewIds = {}
  /\ NoId \notin Ids /\ FIN \notin Ids \X Ids
  /\ Statements \subseteq {"delete", "update"}
  /\ ChunkSizes \subseteq Nat /\ TxnSizes \subseteq Int /\ RowLimits \subseteq Nat
  /\ QueueCap \in Nat \ {0} /\ PageSize \in Nat \ {0} /\ MaxAttempts \in Nat \ {0}
  /\ MaxFaults \in Nat /\ MaxLost \in Nat

VARIABLES
  plan,       \* the run's configuration
  inserted,   \* rows other clients have inserted
  applied,    \* history: committed executions per row
  executed,   \* history: how many these are
  queue,      \* Writer.ProducerQueue
  pcP, page, cursor, errP,        \* BuildSQL
  pcW, chunk, attempt,            \* Writer.Write
  txRows,     \* rows the open transaction executed
  rowAffects, \* the transaction's affected rows, as Write adds them up
  counted,    \* Writer.rowAffects, what GetStatus reports
  finish,     \* Writer.isFinished: the end marker was taken or a limit reached
  errW,       \* what Write returned: "", "nil" or "error"
  exit,       \* history: why Write returned nil
  pcR,        \* RangeStrategy.Run
  result,     \* what Run returned
  canceled,   \* runCtx has ended
  stopped,    \* history: the context given to Run has ended
  faults, lost

table   == <<applied, executed>>
builder == <<pcP, page, cursor, errP>>
writer  == <<pcW, chunk, attempt, txRows, rowAffects, counted, finish, errW, exit>>
runner  == <<pcR, result>>
outside == <<inserted, canceled, stopped, faults, lost>>
vars    == <<plan, table, queue, builder, writer, runner, outside>>

Chunk == Ids \X Ids
Plan == [stmt : Statements, chunk : ChunkSizes, txn : TxnSizes, max : RowLimits]
ProducerState == {"fetch", "enqueue", "done"}
WriterState == {"top", "begin", "take", "exec", "retry", "retrySent",
                "reopen", "commit", "sent", "rate", "done"}
RunState == {"both", "writerOnly", "drainWriter", "drainProducer", "done"}
Result == {"", "nil", "error"}
Exit == {"", "exhausted", "max_rows", "max_duration", "canceled"}

TypeOK ==
  /\ plan \in Plan
  /\ inserted \subseteq NewIds
  /\ applied \in [Ids -> Nat] /\ executed \in Nat
  /\ queue \in Seq(Chunk \cup {FIN}) /\ Len(queue) <= QueueCap
  /\ pcP \in ProducerState
  /\ page \in Seq(Chunk \cup {FIN})
  /\ cursor \in Ids \cup {NoId}
  /\ errP \in Result /\ errW \in Result
  /\ pcW \in WriterState
  /\ chunk \in Chunk \cup {FIN}
  /\ attempt \in 0..MaxAttempts
  /\ txRows \subseteq Ids
  /\ rowAffects \in Nat /\ counted \in Nat
  /\ finish \in BOOLEAN /\ canceled \in BOOLEAN /\ stopped \in BOOLEAN
  /\ exit \in Exit /\ pcR \in RunState /\ result \in Result
  /\ faults \in 0..MaxFaults /\ lost \in 0..MaxLost

Init ==
  /\ plan \in Plan
  /\ inserted = {} /\ applied = [id \in Ids |-> 0] /\ executed = 0 /\ queue = <<>>
  /\ pcP = "fetch" /\ page = <<>> /\ cursor = NoId /\ errP = ""
  /\ pcW = "top" /\ chunk = FIN /\ attempt = 0 /\ txRows = {} /\ rowAffects = 0
  /\ counted = 0 /\ finish = FALSE /\ errW = "" /\ exit = ""
  /\ pcR = "both" /\ result = ""
  /\ canceled = FALSE /\ stopped = FALSE /\ faults = 0 /\ lost = 0

-----------------------------------------------------------------------------
(* The table. *)

(* Rows that match the user's WHERE clause in committed state: an UPDATE does *)
(* not take its rows out of it.                                              *)
Matching ==
  {id \in OldIds \cup inserted : plan.stmt = "update" \/ applied[id] = 0}

(* What one execution of a chunk may hit: the rows of the key range, at most *)
(* chunk-size of them (LIMIT); with chunk-size 1 the one row of the key.     *)
InChunk(c) == {id \in Matching \ txRows : c[1] <= id /\ id <= c[2]}
Hits(c) ==
  IF Cardinality(InChunk(c)) <= plan.chunk THEN {InChunk(c)}
  ELSE kSubset(plan.chunk, InChunk(c))

(* A transaction's executions take effect together. *)
TakesEffect ==
  /\ applied' = [id \in Ids |-> IF id \in txRows THEN applied[id] + 1 ELSE applied[id]]
  /\ executed' = executed + Cardinality(txRows)

(* Another client inserts a row that matches. *)
Insert(id) ==
  /\ id \in NewIds \ inserted
  /\ inserted' = inserted \cup {id}
  /\ UNCHANGED <<plan, table, queue, builder, writer, runner, canceled, stopped, faults, lost>>

(* Stop, a timeout or an error elsewhere ends the context given to Run. *)
Cancel ==
  /\ pcR # "done" /\ ~stopped
  /\ canceled' = TRUE /\ stopped' = TRUE
  /\ UNCHANGED <<plan, table, queue, builder, writer, runner, inserted, faults, lost>>

Fault == faults < MaxFaults /\ faults' = faults + 1 /\ UNCHANGED <<inserted, canceled, stopped, lost>>

-----------------------------------------------------------------------------
(* Procedure.BuildSQL. *)

PastCursor(id) == cursor = NoId \/ id > cursor
Remaining == {id \in Matching : PastCursor(id)}
FirstN(S, n) == {x \in S : Cardinality({y \in S : y < x}) < n}
Nth(S, i) == CHOOSE x \in S : Cardinality({y \in S : y < x}) = i - 1

(* The keys one fetch returns: chunk-size of them, or a page of single keys  *)
(* (the very first fetch is limited to chunk-size in both cases).            *)
FetchLimit == IF plan.chunk > 1 \/ cursor = NoId THEN plan.chunk ELSE PageSize
Fetched == FirstN(Remaining, FetchLimit)

(* fetchFistAndLastData turns a fetch into its first and last key; with      *)
(* chunk-size 1 every key is queued by itself.                               *)
ChunksOf(S) ==
  IF S = {} THEN <<FIN>>
  ELSE IF plan.chunk > 1 THEN << <<Min(S), Max(S)>> >>
  ELSE [i \in 1..Cardinality(S) |-> <<Nth(S, i), Nth(S, i)>>]

ProducerReturns(err) == pcP' = "done" /\ errP' = err

Fetch_ResumesAtFirstKey ==
  /\ pcP = "fetch" /\ plan.chunk # 0
  /\ page' = ChunksOf(Fetched)
  /\ cursor' = IF Fetched = {} THEN cursor ELSE Min(Fetched)
  /\ pcP' = "enqueue"
  /\ UNCHANGED <<plan, table, queue, errP, writer, runner, outside>>

Fetch ==
  /\ pcP = "fetch" /\ plan.chunk # 0
  /\ page' = ChunksOf(Fetched)
  /\ cursor' = IF Fetched = {} THEN cursor ELSE Max(Fetched)
  /\ pcP' = "enqueue"
  /\ UNCHANGED <<plan, table, queue, errP, writer, runner, outside>>

(* chunk-size 0 queues the end marker and nothing else. *)
FetchNothing ==
  /\ pcP = "fetch" /\ plan.chunk = 0
  /\ page' = <<FIN>>
  /\ pcP' = "enqueue"
  /\ UNCHANGED <<plan, table, queue, cursor, errP, writer, runner, outside>>

(* A key read fails, also half-way through a page of single keys; when it    *)
(* fails because the context ended BuildSQL returns nil.                     *)
FetchFails ==
  /\ \/ pcP = "fetch" /\ plan.chunk # 0
     \/ pcP = "enqueue" /\ plan.chunk = 1 /\ page # <<FIN>>
  /\ \/ canceled /\ ProducerReturns("nil") /\ UNCHANGED outside
     \/ ProducerReturns("error") /\ Fault
  /\ UNCHANGED <<plan, table, queue, page, cursor, writer, runner>>

(* enqueueProducer blocks on a full queue until the context ends. *)
Enqueue ==
  /\ pcP = "enqueue" /\ Len(queue) < QueueCap
  /\ queue' = Append(queue, Head(page))
  /\ page' = Tail(page)
  /\ IF Len(page) > 1 THEN UNCHANGED <<pcP, errP>>
     ELSE IF Head(page) = FIN THEN ProducerReturns("nil")
     ELSE pcP' = "fetch" /\ UNCHANGED errP
  /\ UNCHANGED <<plan, table, cursor, writer, runner, outside>>

ProducerStops_OnlyBetweenFetches ==
  /\ pcP = "fetch" /\ canceled
  /\ ProducerReturns("nil")
  /\ UNCHANGED <<plan, table, queue, page, cursor, writer, runner, outside>>

(* The context ended: in enqueueProducer, or in the check between fetches.   *)
ProducerStops ==
  /\ pcP \in {"fetch", "enqueue"} /\ canceled
  /\ ProducerReturns("nil")
  /\ UNCHANGED <<plan, table, queue, page, cursor, writer, runner, outside>>

-----------------------------------------------------------------------------
(* Writer.Write. *)

WriteReturns(err, why) == pcW' = "done" /\ errW' = err /\ exit' = why
WriteFails == WriteReturns("error", "")
WriterAt(pc) == pcW' = pc /\ UNCHANGED <<errW, exit>>

Top ==
  /\ pcW = "top"
  /\ \/ canceled /\ WriteReturns("nil", "canceled")
     \/ ~canceled /\ WriterAt("begin")
  /\ UNCHANGED <<plan, table, queue, builder, chunk, attempt, txRows, rowAffects,
                 counted, finish, runner, outside>>

Begin ==
  /\ pcW = "begin"
  /\ txRows' = {} /\ rowAffects' = 0
  /\ \/ ~canceled /\ WriterAt("take") /\ UNCHANGED outside
     \/ canceled /\ WriteFails /\ UNCHANGED outside
     \/ WriteFails /\ Fault
  /\ UNCHANGED <<plan, table, queue, builder, chunk, attempt, counted, finish, runner>>

TxnIsFull == plan.txn > 0 /\ rowAffects >= plan.txn

(* Between two chunks: the transaction is full, or the context ends, or the  *)
(* next entry is taken (a select with both cases ready picks either).        *)
Full ==
  /\ pcW = "take" /\ TxnIsFull
  /\ WriterAt("commit")
  /\ UNCHANGED <<plan, table, queue, builder, chunk, attempt, txRows, rowAffects,
                 counted, finish, runner, outside>>

TakeCanceled ==
  /\ pcW = "take" /\ ~TxnIsFull /\ canceled
  /\ txRows' = {}
  /\ WriteReturns("nil", "canceled")
  /\ UNCHANGED <<plan, table, queue, builder, chunk, attempt, rowAffects, counted,
                 finish, runner, outside>>

Take ==
  /\ pcW = "take" /\ ~TxnIsFull /\ queue # <<>>
  /\ queue' = Tail(queue)
  /\ IF Head(queue) = FIN THEN finish' = TRUE /\ WriterAt("commit") /\ UNCHANGED chunk
     ELSE chunk' = Head(queue) /\ WriterAt("exec") /\ UNCHANGED finish
  /\ UNCHANGED <<plan, table, builder, attempt, txRows, rowAffects, counted, runner, outside>>

ExecSucceeds ==
  /\ pcW = "exec" /\ ~canceled
  /\ \E S \in Hits(chunk) : txRows' = txRows \cup S /\ rowAffects' = rowAffects + Cardinality(S)
  /\ WriterAt("take")
  /\ UNCHANGED <<plan, table, queue, builder, chunk, attempt, counted, finish, runner, outside>>

ExecFails_RetriesAnyway ==
  /\ pcW = "exec"
  /\ (canceled /\ UNCHANGED outside) \/ Fault
  /\ txRows' = {} /\ attempt' = 1
  /\ WriterAt("retry")
  /\ UNCHANGED <<plan, table, queue, builder, chunk, rowAffects, counted, finish, runner>>

(* The statement fails and the transaction rolls back.  Only the transaction's *)
(* first statement may be retried: the chunks before it are gone from the      *)
(* queue.                                                                      *)
ExecFails ==
  /\ pcW = "exec"
  /\ (canceled /\ UNCHANGED outside) \/ Fault
  /\ txRows' = {}
  /\ IF rowAffects > 0 THEN WriteFails /\ UNCHANGED attempt
     ELSE attempt' = 1 /\ WriterAt("retry")
  /\ UNCHANGED <<plan, table, queue, builder, chunk, rowAffects, counted, finish, runner>>

(* WithRetry: each attempt is a transaction of its own, which ends with a    *)
(* COMMIT on its way to the server.                                          *)
RetryExec ==
  /\ pcW = "retry" /\ ~canceled
  /\ \E S \in Hits(chunk) : txRows' = S
  /\ WriterAt("retrySent")
  /\ UNCHANGED <<plan, table, queue, builder, chunk, attempt, rowAffects, counted, finish,
                 runner, outside>>

RetryCanceled ==
  /\ pcW = "retry" /\ canceled
  /\ WriteFails
  /\ UNCHANGED <<plan, table, queue, builder, chunk, attempt, txRows, rowAffects, counted,
                 finish, runner, outside>>

RetrySucceeds ==
  /\ pcW = "retrySent"
  /\ TakesEffect /\ txRows' = {}
  /\ rowAffects' = rowAffects + Cardinality(txRows)
  /\ attempt' = 0
  /\ WriterAt("reopen")
  /\ UNCHANGED <<plan, queue, builder, chunk, counted, finish, runner, outside>>

(* A transient error is retried while attempts are left, any other is final. *)
NextAttempt ==
  \/ WriteFails /\ UNCHANGED attempt
  \/ attempt < MaxAttempts /\ attempt' = attempt + 1 /\ WriterAt("retry")

RetryFails ==
  /\ \/ pcW = "retry" /\ ~canceled
     \/ pcW = "retrySent"
  /\ Fault /\ NextAttempt
  /\ txRows' = {}
  /\ UNCHANGED <<plan, table, queue, builder, chunk, rowAffects, counted, finish, runner>>

(* The attempt's COMMIT took effect and its reply is lost: errno 2013, a     *)
(* reset or a timeout, all in the transient class.                           *)
RetryReplyLost ==
  /\ pcW = "retrySent" /\ lost < MaxLost
  /\ lost' = lost + 1
  /\ TakesEffect /\ txRows' = {}
  /\ NextAttempt
  /\ UNCHANGED <<plan, queue, builder, chunk, rowAffects, counted, finish, runner,
                 inserted, canceled, stopped, faults>>

Reopen ==
  /\ pcW = "reopen"
  /\ \/ ~canceled /\ WriterAt("take") /\ UNCHANGED outside
     \/ canceled /\ WriteFails /\ UNCHANGED outside
     \/ WriteFails /\ Fault
  /\ UNCHANGED <<plan, table, queue, builder, chunk, attempt, txRows, rowAffects, counted,
                 finish, runner>>

(* Commit refuses a context that has ended; past that check the COMMIT is on *)
(* its way.                                                                  *)
Commit ==
  /\ pcW = "commit"
  /\ IF canceled THEN WriteFails /\ txRows' = {} ELSE WriterAt("sent") /\ UNCHANGED txRows
  /\ UNCHANGED <<plan, table, queue, builder, chunk, attempt, rowAffects, counted, finish,
                 runner, outside>>

CommitSucceeds ==
  /\ pcW = "sent"
  /\ TakesEffect /\ txRows' = {}
  /\ counted' = counted + rowAffects
  /\ WriterAt("rate")
  /\ UNCHANGED <<plan, queue, builder, chunk, attempt, rowAffects, finish, runner, outside>>

(* A COMMIT that fails may have taken effect all the same.                   *)
CommitFails ==
  /\ pcW = "sent" /\ Fault
  /\ TakesEffect \/ UNCHANGED table
  /\ txRows' = {}
  /\ WriteFails
  /\ UNCHANGED <<plan, queue, builder, chunk, attempt, rowAffects, counted, finish, runner>>

RowsReached_Strict == plan.max > 0 /\ counted > plan.max
RowsReached == plan.max > 0 /\ counted >= plan.max

AfterCommit_FlagLeftOut ==
  /\ pcW = "rate"
  /\ \/ canceled /\ WriteReturns("nil", "canceled")
     \/ RowsReached /\ WriteReturns("nil", "max_rows")
     \/ ~RowsReached /\ WriteReturns("nil", "max_duration")
     \/ ~RowsReached /\ finish /\ WriteReturns("nil", "exhausted")
     \/ ~RowsReached /\ ~finish /\ WriterAt("top")
  /\ UNCHANGED <<plan, table, queue, builder, chunk, attempt, txRows, rowAffects, counted,
                 finish, runner, outside>>

(* After the commit: the rate limiter waits (its only error is the context's), *)
(* then the limits are tested, then the end marker.  Whether max-duration has  *)
(* passed is left open.                                                        *)
AfterCommit ==
  /\ pcW = "rate"
  /\ \/ canceled /\ WriteReturns("nil", "canceled") /\ UNCHANGED finish
     \/ RowsReached /\ WriteReturns("nil", "max_rows") /\ finish' = TRUE
     \/ ~RowsReached /\ WriteReturns("nil", "max_duration") /\ finish' = TRUE
     \/ ~RowsReached /\ finish /\ WriteReturns("nil", "exhausted") /\ UNCHANGED finish
     \/ ~RowsReached /\ ~finish /\ WriterAt("top") /\ UNCHANGED finish
  /\ UNCHANGED <<plan, table, queue, builder, chunk, attempt, txRows, rowAffects, counted,
                 runner, outside>>

-----------------------------------------------------------------------------
(* RangeStrategy.Run. *)

(* BuildSQL returned first: its error ends the run, without one the writer   *)
(* goes on.                                                                  *)
TakesProducer ==
  /\ pcR = "both" /\ pcP = "done"
  /\ IF errP = "error" THEN canceled' = TRUE /\ result' = "error" /\ pcR' = "drainWriter"
     ELSE pcR' = "writerOnly" /\ UNCHANGED <<canceled, result>>
  /\ UNCHANGED <<plan, table, queue, builder, writer, inserted, stopped, faults, lost>>

(* Write returned: what it returned is the run's result. *)
TakesWriter ==
  /\ pcR \in {"both", "writerOnly"} /\ pcW = "done"
  /\ canceled' = TRUE /\ result' = errW
  /\ pcR' = IF pcR = "both" THEN "drainProducer" ELSE "done"
  /\ UNCHANGED <<plan, table, queue, builder, writer, inserted, stopped, faults, lost>>

Drained ==
  /\ \/ pcR = "drainWriter" /\ pcW = "done"
     \/ pcR = "drainProducer" /\ pcP = "done"
  /\ pcR' = "done"
  /\ UNCHANGED <<plan, table, queue, builder, writer, result, outside>>

-----------------------------------------------------------------------------
Producing == Fetch \/ FetchNothing \/ FetchFails \/ Enqueue \/ ProducerStops
Consuming ==
  \/ Top \/ Begin \/ Full \/ TakeCanceled \/ Take \/ ExecSucceeds \/ ExecFails
  \/ RetryExec \/ RetryCanceled \/ RetrySucceeds \/ RetryFails \/ RetryReplyLost
  \/ Reopen \/ Commit \/ CommitSucceeds \/ CommitFails \/ AfterCommit
Running == TakesProducer \/ TakesWriter \/ Drained

Next ==
  \/ Producing \/ Consuming \/ Running
  \/ Cancel
  \/ \E id \in NewIds : Insert(id)

Spec == Init /\ [][Next]_vars

(* Each goroutine that can run eventually runs, and each statement returns.  *)
(* Nothing makes a caller cancel, or other clients insert.                   *)
FairSpec == Spec /\ WF_vars(Producing) /\ WF_vars(Consuming) /\ WF_vars(Running)

-----------------------------------------------------------------------------
(* Properties. *)

Untouched == {id \in OldIds : applied[id] = 0}

(* A row already done is executed again only when a retried COMMIT lost its  *)
(* reply, and never deleted twice: retries, cancellation and concurrent      *)
(* inserts do not replay a chunk (the retry loop of Writer.Write).           *)
OnlyLostRepliesReplay ==
  \A id \in Ids : applied[id] <= IF plan.stmt = "update" THEN 1 + lost ELSE 1

(* A run that reports success because the table is exhausted has covered     *)
(* every row that matched at its start, but for one per row inserted         *)
(* meanwhile (a chunk's LIMIT may take the inserted row instead).            *)
FinishedCoversTable ==
  (exit = "exhausted" /\ result = "nil" /\ plan.chunk # 0)
    => Cardinality(Untouched) <= Cardinality(inserted)

(* The rows beyond max-rows are fewer than a transaction and a chunk, plus a *)
(* chunk for every lost reply (the guard after the commit in Writer.Write).  *)
OvershootBounded ==
  (plan.max > 0 /\ plan.txn > 0)
    => executed <= (plan.max - 1) + (plan.txn - 1) + plan.chunk * (1 + lost)

(* Run returns, with both goroutines: not even a writer that stops at        *)
(* max-rows is stuck behind a BuildSQL that waits on a full queue.           *)
RunReturns == <>(pcR = "done" /\ pcP = "done" /\ pcW = "done")

(* Run keeps the contract of a ChunkStrategy: what it counts is committed,   *)
(* and all that is, unless a reply was lost or the caller stopped it; it     *)
(* takes both goroutines with it, and marks the writer finished first.       *)
Contract == INSTANCE ChunkRun WITH
  committed <- executed, finished <- finish, stop <- stopped, doubt <- lost > 0,
  busy <- pcP # "done" \/ pcW # "done",
  result <- IF pcR = "done" THEN result ELSE ""
ImplementsChunkRun == Contract!Spec

(* What classify.go says of transient errors, lost connections among them:   *)
(* they "are safe to retry".                                                 *)
SafeToRetry == \A id \in Ids : applied[id] <= 1
=============================================================================
