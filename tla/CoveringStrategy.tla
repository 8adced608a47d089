-------------------------- MODULE CoveringStrategy --------------------------
(***************************************************************************)
(* The two-step DELETE with one worker: OBCoveringStrategy                 *)
(* (src/mysql/ob_covering_strategy.go) and TiDBRowIDStrategy               *)
(* (src/mysql/tidb_rowid_strategy.go), whose Run, producer and DELETE are  *)
(* the same code over another key.  A producer SELECTs pages of candidate  *)
(* keys and hands them over a channel with room for one; Run deletes each  *)
(* page by key, within the frozen WHERE, in a transaction of its own.      *)
(*                                                                         *)
(* A row is its position in the SELECT's order, NULLs first.               *)
(*                                                                         *)
(* A definition X_Y right before X is a broken variant of X; no action     *)
(* uses it.  The README says which property finds each of them.            *)
(***************************************************************************)
EXTENDS Integers, FiniteSets, Sequences, FiniteSetsExt

CONSTANTS
  OldRows,     \* rows that match the WHERE clause when the run starts
  NewRows,     \* positions other clients may insert rows at
  Plans,       \* configurations of a run, see PlanType
  MaxAttempts, \* retry.DefaultPolicy().MaxAttempts (4)
  MaxFaults,   \* bound: statements that fail in a behaviour
  MaxLost,     \* bound: COMMITs that took effect but lost their reply
  MaxLags,     \* bound: lag signals taken from bucketNum
  MaxTouched   \* bound: rows other clients write

Rows == OldRows \cup NewRows

(* A cursor is a row's order columns and key columns.  For the server to put *)
(* another row behind it, the two must differ before the cursor's first      *)
(* NULL: tied[row] is the last row that does not, which is row itself if     *)
(* nothing in it is NULL, and the last of all if its first column is.        *)
Ties ==
  {tied \in [Rows -> Rows] :
     \A row \in Rows : /\ row <= tied[row]
                       /\ \A other \in Rows : row <= other /\ other <= tied[row]
                                               => tied[other] <= tied[row]}

(* The chunking key is a unique key of any kind; in the rows noKey a column  *)
(* of it is NULL.  The covering index may page with or without a cursor, the *)
(* row ids of TiDB always page by one and are never NULL.                    *)
PlanType ==
  {p \in [kind : {"covering", "rowid"}, chunk : Nat \ {0}, max : Nat, cursor : BOOLEAN,
          tied : Ties, noKey : SUBSET Rows] :
     p.kind = "rowid" => /\ p.cursor /\ p.noKey = {}
                         /\ \A row \in Rows : p.tied[row] = row}

ASSUME CoveringAssumption ==
  /\ IsFiniteSet(Rows) /\ Rows \subseteq Nat \ {0} /\ OldRows \cap NewRows = {}
  /\ Plans \subseteq PlanType
  /\ MaxAttempts \in Nat \ {0}
  /\ MaxFaults \in Nat /\ MaxLost \in Nat /\ MaxLags \in Nat /\ MaxTouched \in Nat

VARIABLES
  plan,       \* the run's configuration
  table,      \* Rows -> absent, out of the WHERE clause, or matching it
  deleted,    \* history: rows the run's transactions removed
  touched,    \* rows other clients have written
  chan,       \* candidatesChan, batchChan: pages not yet received
  pcP, page, pageCursor, producerErr,      \* the producer
  pcC, batch, attempt, hit, affected, ending,  \* Run; hit: rows the open DELETE took
  counted,    \* Writer.rowAffects
  finished,   \* Writer.isFinished
  result,     \* what Run returned
  canceled,   \* runCtx has ended
  stopped,    \* history: the context given to Run has ended
  faults, lost, lags

db       == <<table, deleted, touched>>
producer == <<pcP, page, pageCursor, producerErr>>
consumer == <<pcC, batch, attempt, hit, affected, ending>>
writer   == <<counted, finished>>
context  == <<canceled, stopped>>
bounds   == <<faults, lost, lags>>
vars     == <<plan, db, chan, producer, consumer, writer, result, context, bounds>>

TableState == {"absent", "out", "match"}
ProducerState == {"off", "select", "send", "done"}
ConsumerState == {"start", "receive", "rate", "delete", "sent", "account", "join", "done"}
Ending == {"", "drained", "stop", "error"}
Result == {"", "nil", "error"}

TypeOK ==
  /\ plan \in Plans
  /\ table \in [Rows -> TableState]
  /\ deleted \subseteq Rows /\ touched \subseteq Rows
  /\ chan \in Seq(SUBSET Rows) /\ Len(chan) <= 1
  /\ pcP \in ProducerState
  /\ page \subseteq Rows /\ pageCursor \in Rows \cup {0}
  /\ pcC \in ConsumerState
  /\ batch \subseteq Rows /\ hit \subseteq batch
  /\ attempt \in 0..MaxAttempts /\ affected \in 0..plan.chunk
  /\ ending \in Ending
  /\ counted \in Nat /\ result \in Result
  /\ producerErr \in BOOLEAN /\ finished \in BOOLEAN
  /\ canceled \in BOOLEAN /\ stopped \in BOOLEAN
  /\ faults \in 0..MaxFaults /\ lost \in 0..MaxLost /\ lags \in 0..MaxLags

Init ==
  /\ plan \in Plans
  /\ table = [row \in Rows |-> IF row \in OldRows THEN "match" ELSE "absent"]
  /\ deleted = {} /\ touched = {} /\ chan = <<>>
  /\ pcP = "off" /\ page = {} /\ pageCursor = 0 /\ producerErr = FALSE
  /\ pcC = "start" /\ batch = {} /\ attempt = 0 /\ hit = {} /\ affected = 0 /\ ending = ""
  /\ counted = 0 /\ finished = FALSE /\ result = ""
  /\ canceled = FALSE /\ stopped = FALSE
  /\ faults = 0 /\ lost = 0 /\ lags = 0

-----------------------------------------------------------------------------
(* Around the run. *)

(* Another client inserts, updates or deletes a row that no open transaction *)
(* of the run has locked; the key of a deleted row is not reused.            *)
OtherClientWrites(row, value) ==
  /\ pcC # "done" /\ row \notin deleted \cup hit /\ table[row] # value
  /\ table[row] = "absent" => row \in NewRows \ touched
  /\ Cardinality(touched \cup {row}) <= MaxTouched
  /\ table' = [table EXCEPT ![row] = value]
  /\ touched' = touched \cup {row}
  /\ UNCHANGED <<plan, deleted, chan, producer, consumer, writer, result, context, bounds>>

(* Stop, a timeout or an error elsewhere ends the context given to Run. *)
Cancel ==
  /\ pcC # "done" /\ ~stopped
  /\ canceled' = TRUE /\ stopped' = TRUE
  /\ UNCHANGED <<plan, db, chan, producer, consumer, writer, result, bounds>>

Fault == faults < MaxFaults /\ faults' = faults + 1 /\ UNCHANGED <<lost, lags>>

Matching == {row \in Rows : table[row] = "match"}
FirstN(S, n) == {x \in S : Cardinality({y \in S : y < x}) < n}

-----------------------------------------------------------------------------
(* The producer: selectCandidatePKLoop, selectRowIDLoop. *)

(* The rows a SELECT returns: buildCursorCondition compares tuples, and one  *)
(* that agrees with the cursor up to a NULL in it is not greater.            *)
PastCursor(row) == plan.cursor /\ pageCursor # 0 => row > plan.tied[pageCursor]
Candidates == FirstN({row \in Matching : PastCursor(row)}, plan.chunk)

(* An empty page ends the loop; a page moves the cursor before it is sent.   *)
Select ==
  /\ pcP = "select"
  /\ page' = Candidates
  /\ pageCursor' = IF Candidates = {} THEN pageCursor ELSE Max(Candidates)
  /\ pcP' = IF Candidates = {} THEN "done" ELSE "send"
  /\ UNCHANGED <<plan, db, chan, producerErr, consumer, writer, result, context, bounds>>

SelectFails ==
  /\ pcP = "select" /\ Fault
  /\ pcP' = "done" /\ producerErr' = TRUE
  /\ UNCHANGED <<plan, db, chan, page, pageCursor, consumer, writer, result, context>>

(* A short page is the last one. *)
Send ==
  /\ pcP = "send" /\ chan = <<>>
  /\ chan' = <<page>>
  /\ pcP' = IF Cardinality(page) < plan.chunk THEN "done" ELSE "select"
  /\ UNCHANGED <<plan, db, page, pageCursor, producerErr, consumer, writer, result, context,
                 bounds>>

ProducerStops_NotInSend ==
  /\ pcP = "select" /\ canceled
  /\ pcP' = "done"
  /\ UNCHANGED <<plan, db, chan, page, pageCursor, producerErr, consumer, writer, result,
                 context, bounds>>

(* The context ended: between pages, in a SELECT, or with nobody receiving.  *)
ProducerStops ==
  /\ pcP \in {"select", "send"} /\ canceled
  /\ pcP' = "done"
  /\ UNCHANGED <<plan, db, chan, page, pageCursor, producerErr, consumer, writer, result,
                 context, bounds>>

-----------------------------------------------------------------------------
(* Run, the consumer. *)

Goto(pc) == pcC' = pc /\ UNCHANGED <<ending, canceled>>

(* Run leaves its loop; its own cancel ends the producer. *)
Leave(why) ==
  /\ pcC' = "join" /\ ending' = why
  /\ canceled' = (canceled \/ why # "drained")

(* The row id path first asks whether the table has row ids at all.          *)
Start ==
  /\ pcC = "start"
  /\ pcC' = "receive" /\ pcP' = "select"
  /\ UNCHANGED <<plan, db, chan, page, pageCursor, producerErr, batch, attempt, hit, affected,
                 ending, writer, result, context, bounds>>

NotApplicable ==
  /\ pcC = "start" /\ plan.kind = "rowid"
  /\ pcC' = "done" /\ result' = "error"
  /\ UNCHANGED <<plan, db, chan, producer, batch, attempt, hit, affected, ending, writer,
                 context, bounds>>

Receive ==
  /\ pcC = "receive" /\ chan # <<>>
  /\ batch' = Head(chan) /\ chan' = Tail(chan)
  /\ Goto("rate")
  /\ UNCHANGED <<plan, db, producer, attempt, hit, affected, writer, result, stopped, bounds>>

Drain ==
  /\ pcC = "receive" /\ chan = <<>> /\ pcP = "done"
  /\ Leave("drained")
  /\ UNCHANGED <<plan, db, chan, producer, batch, attempt, hit, affected, writer, result,
                 stopped, bounds>>

TakeSignal_DropsBatch ==
  /\ pcC = "rate" /\ lags < MaxLags
  /\ lags' = lags + 1 /\ UNCHANGED <<faults, lost>>
  /\ IF canceled THEN Leave("stop") ELSE Goto("receive")
  /\ UNCHANGED <<plan, db, chan, producer, batch, attempt, hit, affected, writer, result, stopped>>

(* applyRateLimit: after a lag pause the batch in hand is throttled anew. *)
TakeSignal ==
  /\ pcC = "rate" /\ lags < MaxLags
  /\ lags' = lags + 1 /\ UNCHANGED <<faults, lost>>
  /\ IF canceled THEN Leave("stop") ELSE Goto("rate")
  /\ UNCHANGED <<plan, db, chan, producer, batch, attempt, hit, affected, writer, result, stopped>>

PassRate ==
  /\ pcC = "rate"
  /\ IF canceled THEN Leave("stop") /\ UNCHANGED attempt ELSE Goto("delete") /\ attempt' = 1
  /\ UNCHANGED <<plan, db, chan, producer, batch, hit, affected, writer, result, stopped, bounds>>

Exec_WithoutWhere ==
  /\ pcC = "delete" /\ ~canceled
  /\ hit' = {row \in batch : table[row] # "absent"} \ plan.noKey
  /\ Goto("sent")
  /\ UNCHANGED <<plan, db, chan, producer, batch, attempt, affected, writer, result, stopped,
                 bounds>>

(* execDeletePKBatch: the DELETE takes the batch's rows that match now; no   *)
(* row is IN a list by a key that holds a NULL.  The COMMIT is on its way.   *)
Exec ==
  /\ pcC = "delete" /\ ~canceled
  /\ hit' = (batch \cap Matching) \ plan.noKey
  /\ Goto("sent")
  /\ UNCHANGED <<plan, db, chan, producer, batch, attempt, affected, writer, result, stopped,
                 bounds>>

(* An ended context fails the batch, before an attempt or in it. *)
ExecCanceled ==
  /\ pcC = "delete" /\ canceled
  /\ Leave("error")
  /\ UNCHANGED <<plan, db, chan, producer, batch, attempt, hit, affected, writer, result,
                 stopped, bounds>>

CommitHit ==
  /\ deleted' = deleted \cup hit
  /\ table' = [row \in Rows |-> IF row \in hit THEN "absent" ELSE table[row]]
  /\ UNCHANGED touched

(* WithRetry: a transient error is retried while attempts are left. *)
Retry ==
  /\ hit' = {}
  /\ \/ Leave("error") /\ UNCHANGED attempt
     \/ attempt < MaxAttempts /\ attempt' = attempt + 1 /\ Goto("delete")

AttemptFails ==
  /\ pcC = "sent" /\ Fault
  /\ Retry
  /\ UNCHANGED <<plan, db, chan, producer, batch, affected, writer, result, stopped>>

(* The COMMIT took effect, its reply was lost. *)
ReplyLost ==
  /\ pcC = "sent" /\ lost < MaxLost
  /\ lost' = lost + 1 /\ UNCHANGED <<faults, lags>>
  /\ CommitHit /\ Retry
  /\ UNCHANGED <<plan, chan, producer, batch, affected, writer, result, stopped>>

AttemptSucceeds ==
  /\ pcC = "sent"
  /\ CommitHit
  /\ affected' = Cardinality(hit) /\ hit' = {} /\ attempt' = 0
  /\ Goto("account")
  /\ UNCHANGED <<plan, chan, producer, batch, writer, result, stopped, bounds>>

MaxReached_Strict == plan.max > 0 /\ counted + affected > plan.max
MaxReached == plan.max > 0 /\ counted + affected >= plan.max

(* The rows are counted; then the row rate limiter waits (its only error is  *)
(* the context's) and the guardrails are tested.  Whether max-duration has   *)
(* passed is left open.                                                      *)
Account ==
  /\ pcC = "account"
  /\ counted' = counted + affected
  /\ \/ (canceled \/ MaxReached) /\ Leave("stop")
     \/ ~MaxReached /\ (Leave("stop") \/ Goto("receive"))
  /\ UNCHANGED <<plan, db, chan, producer, batch, attempt, hit, affected, finished, result,
                 stopped, bounds>>

Returns ==
  /\ pcC' = "done"
  /\ LET failed == ending = "error" \/ (ending = "drained" /\ producerErr) IN
     /\ result' = IF failed THEN "error" ELSE "nil"
     /\ finished' = ~failed
  /\ UNCHANGED <<plan, db, chan, producer, batch, attempt, hit, affected, ending, counted,
                 context, bounds>>

Join_NoWait == pcC = "join" /\ Returns

(* producerDone.Wait: only then the producer's error is read. *)
Join == pcC = "join" /\ pcP = "done" /\ Returns

-----------------------------------------------------------------------------
Producing == Select \/ SelectFails \/ Send \/ ProducerStops
Consuming ==
  \/ Start \/ NotApplicable \/ Receive \/ Drain \/ TakeSignal \/ PassRate
  \/ Exec \/ ExecCanceled \/ AttemptFails \/ ReplyLost \/ AttemptSucceeds
  \/ Account \/ Join

Next ==
  \/ Producing \/ Consuming
  \/ Cancel
  \/ \E row \in Rows, value \in TableState : OtherClientWrites(row, value)

Spec == Init /\ [][Next]_vars

(* Both goroutines are scheduled, each statement returns. *)
FairSpec == Spec /\ WF_vars(Producing) /\ WF_vars(Consuming)

-----------------------------------------------------------------------------
(* Properties. *)

Left == OldRows \ (deleted \cup touched)

(* Rows that a cursor at an earlier row of the table may pass over. *)
Hidden(row) ==
  plan.cursor /\ \E last \in OldRows \cup touched : last < row /\ row <= plan.tied[last]

(* A run that comes to the end of the table has deleted every row that       *)
(* matched at its start and that nobody else wrote, whatever failed and was  *)
(* retried or paused in between and however far the producer pages ahead.    *)
(* Only rows without a key stay, and rows that agree, up to a NULL, with an  *)
(* earlier one at which a page may have ended.                               *)
CleanEndIsComplete ==
  (result = "nil" /\ ending = "drained" /\ ~canceled)
    => \A row \in Left : row \in plan.noKey \/ Hidden(row)

(* max-rows is passed by less than a page, and a page per lost reply (the    *)
(* guardrail after a batch looks at what was counted).                       *)
OvershootBounded ==
  plan.max > 0 => Cardinality(deleted) <= plan.max - 1 + plan.chunk * (1 + lost)

(* A row that left the WHERE clause after it was selected is not deleted     *)
(* (the frozen WHERE in buildDeleteSQL).                                     *)
OnlyMatchingRowsGo == [][\A row \in deleted' \ deleted : table[row] = "match"]_vars

(* Run returns, with its producer, whatever fails and however full the       *)
(* channel is.  Without a cursor, a full page of rows that no DELETE hits,   *)
(* as they have no key or others write them every time, is read forever.     *)
RunEnds ==
  (plan.cursor \/ [](Cardinality(plan.noKey \cup touched) < plan.chunk))
    => <>(pcC = "done" /\ pcP \in {"off", "done"})

(* Run keeps the contract of a ChunkStrategy: what it counts is committed,   *)
(* and all that is, unless a reply was lost or the caller stopped it; it     *)
(* takes the producer with it, and marks the writer finished first.          *)
Contract == INSTANCE ChunkRun WITH
  committed <- Cardinality(deleted),
  stop <- stopped, doubt <- lost > 0, busy <- pcP \notin {"off", "done"}
ImplementsChunkRun == Contract!Spec

(* "A short page means we've reached the tail": a run that stops at a short  *)
(* page leaves no row behind it that has a key.                              *)
ShortPageIsTail ==
  (result = "nil" /\ ending = "drained" /\ ~canceled) => Left \subseteq plan.noKey
=============================================================================
