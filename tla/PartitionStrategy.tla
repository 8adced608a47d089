-------------------------- MODULE PartitionStrategy --------------------------
(***************************************************************************)
(* OBPartitionStrategy (src/mysql/ob_partition_strategy.go): a pool of     *)
(* workers deletes the partitions of one table, each partition paged by    *)
(* one worker with a cursor of its own.  The workers share the max-rows    *)
(* budget (partitionRunState), the lag gate, the first error and a context *)
(* that the first error cancels.                                           *)
(*                                                                         *)
(* A row is <<partition, position in the select order, NULLs first>>.  The *)
(* lag gate's instant resumeAt is "closed" until the environment lets time *)
(* pass it.                                                                *)
(*                                                                         *)
(* A definition X_Y right before X is a broken variant of X; no action     *)
(* uses it.  The README says which property finds each of them.            *)
(***************************************************************************)
EXTENDS Integers, FiniteSets, FiniteSetsExt

CONSTANTS
  Partitions,   \* the partitions discoverPartitions finds
  PerPartition, \* rows a partition has room for
  Workers,      \* workerCount: at most one per partition
  Plans,        \* configurations of a run, see PlanType
  MaxAttempts   \* retry.DefaultPolicy().MaxAttempts (4)

Rows == Partitions \X (1..PerPartition)

(* The position the server cannot put behind a cursor at the row: its own if *)
(* none of the cursor's columns is NULL, or else that of the last row of its *)
(* partition that agrees with it in the columns before its first NULL.       *)
Ties ==
  {tied \in [Rows -> 1..PerPartition] :
     \A row \in Rows :
       /\ row[2] <= tied[row]
       /\ \A other \in Rows :
            other[1] = row[1] /\ row[2] <= other[2] /\ other[2] <= tied[row]
              => tied[other] <= tied[row]}

(* A configuration: --chunk-size, --max-rows (0 is unlimited) and            *)
(* --select-cursor, with bounds of the behaviours looked at: statements that *)
(* fail, COMMITs that took effect but lost their reply, lag signals taken    *)
(* from bucketNum, rows other clients write.  The table is tied, and the     *)
(* rows noKey, where a column of the chunking key is NULL.                   *)
PlanType ==
  [chunk : Nat \ {0}, max : Nat, cursor : BOOLEAN, tied : Ties, noKey : SUBSET Rows,
   faults : Nat, lost : Nat, lags : Nat, touched : Nat]

ASSUME PartitionAssumption ==
  /\ Partitions \subseteq Int /\ IsFiniteSet(Partitions) /\ Partitions # {}
  /\ PerPartition \in Nat
  /\ IsFiniteSet(Workers) /\ Workers # {} /\ Cardinality(Workers) <= Cardinality(Partitions)
  /\ Plans \subseteq PlanType
  /\ MaxAttempts \in Nat \ {0}

VARIABLES
  plan,        \* the run's configuration
  table,       \* rows that match the WHERE clause
  deleted,     \* history: rows the run's transactions removed
  touched,     \* rows other clients have written
  main, result, \* Run: where it is, what it returned
  todo,        \* partitions the feeder has not handed out
  pc, part, cursor, batch, attempt, last, \* the workers; last: budgetExhausted
  hit,         \* rows the worker's COMMIT removed and addRows has not counted
  rows, reserved, stopReason,  \* partitionRunState
  gate,        \* partitionRunState.resumeAt is in the future
  late,        \* history: batches a worker started since the gate was closed
  firstErr, canceled, stopped, \* errOnce, gctx; history: the caller's context ended
  expired,     \* max-duration has passed
  finished,    \* Writer.isFinished
  failures,    \* history: real errors handed to fail
  faults, lost, lags

db     == <<table, deleted, touched>>
worker == <<part, cursor, batch, attempt, last, hit>>
state  == <<rows, reserved, stopReason>>
errs   == <<firstErr, canceled, stopped, failures>>
bounds == <<faults, lost, lags>>
vars   == <<plan, db, main, result, todo, pc, worker, state, gate, late, errs, expired,
            finished, bounds>>

PcState == {"idle", "taken", "top", "rate", "paused", "select", "reserve", "delete", "sent",
            "account", "wait", "gone"}
RunState == {"discover", "run", "done"}
Result == {"", "nil", "error"}
StopReason == {"drained", "max-rows", "max-duration"}
FirstErr == {"", "context", "error"}

TypeOK ==
  /\ plan \in Plans
  /\ table \subseteq Rows /\ deleted \subseteq Rows /\ touched \subseteq Rows
  /\ main \in RunState /\ result \in Result
  /\ todo \subseteq Partitions
  /\ pc \in [Workers -> PcState]
  /\ part \in [Workers -> Partitions] /\ cursor \in [Workers -> 0..PerPartition]
  /\ batch \in [Workers -> SUBSET Rows] /\ attempt \in [Workers -> 0..MaxAttempts]
  /\ hit \in [Workers -> SUBSET Rows]
  /\ last \in [Workers -> BOOLEAN] /\ late \in [Workers -> Nat]
  /\ rows \in Nat /\ reserved \in Nat
  /\ stopReason \in StopReason /\ firstErr \in FirstErr
  /\ gate \in BOOLEAN /\ canceled \in BOOLEAN /\ stopped \in BOOLEAN
  /\ expired \in BOOLEAN /\ finished \in BOOLEAN
  /\ failures \in Nat
  /\ faults \in 0..plan.faults /\ lost \in 0..plan.lost /\ lags \in 0..plan.lags

Init ==
  /\ plan \in Plans
  /\ table = Rows /\ deleted = {} /\ touched = {}
  /\ main = "discover" /\ result = "" /\ todo = {}
  /\ pc = [w \in Workers |-> "idle"]
  /\ part = [w \in Workers |-> Min(Partitions)]
  /\ cursor = [w \in Workers |-> 0] /\ batch = [w \in Workers |-> {}]
  /\ hit = [w \in Workers |-> {}]
  /\ attempt = [w \in Workers |-> 0] /\ last = [w \in Workers |-> FALSE]
  /\ late = [w \in Workers |-> 0]
  /\ rows = 0 /\ reserved = 0 /\ stopReason = "drained"
  /\ gate = FALSE /\ firstErr = "" /\ canceled = FALSE /\ stopped = FALSE
  /\ expired = FALSE /\ finished = FALSE /\ failures = 0
  /\ faults = 0 /\ lost = 0 /\ lags = 0

-----------------------------------------------------------------------------
(* Around the run. *)

(* Another client updates, deletes or inserts a row; keys are not reused. *)
OtherClientWrites(row) ==
  /\ main # "done" /\ row \notin deleted
  /\ Cardinality(touched \cup {row}) <= plan.touched
  /\ table' = IF row \in table THEN table \ {row} ELSE table \cup {row}
  /\ touched' = touched \cup {row}
  /\ UNCHANGED <<plan, deleted, main, result, todo, pc, worker, state, gate, late, errs,
                 expired, finished, bounds>>

(* The context given to Run ends. *)
Cancel ==
  /\ main = "run" /\ ~stopped
  /\ stopped' = TRUE /\ canceled' = TRUE
  /\ UNCHANGED <<plan, db, main, result, todo, pc, worker, state, gate, late, firstErr,
                 failures, expired, finished, bounds>>

Expire ==
  /\ main = "run" /\ ~expired
  /\ expired' = TRUE
  /\ UNCHANGED <<plan, db, main, result, todo, pc, worker, state, gate, late, errs,
                 finished, bounds>>

(* Time passes resumeAt. *)
GateOpens ==
  /\ gate
  /\ gate' = FALSE
  /\ UNCHANGED <<plan, db, main, result, todo, pc, worker, state, late, errs, expired,
                 finished, bounds>>

Fault == faults < plan.faults /\ faults' = faults + 1 /\ UNCHANGED <<lost, lags>>

(* An error, or a table without partitions, is final: no worker is started.  *)
Discover ==
  /\ main = "discover"
  /\ \/ main' = "run" /\ todo' = Partitions /\ UNCHANGED <<result, pc>>
     \/ /\ main' = "done" /\ result' = "error" /\ UNCHANGED todo
        /\ pc' = [w \in Workers |-> "gone"]
  /\ UNCHANGED <<plan, db, worker, state, gate, late, errs, expired, finished, bounds>>

-----------------------------------------------------------------------------
(* A worker's control. *)

At(w, l) == main # "discover" /\ pc[w] = l
Goto(w, l) == pc' = [pc EXCEPT ![w] = l]

Fail_LastWins(err) ==
  /\ firstErr' = err
  /\ canceled' = TRUE
  /\ failures' = IF err = "error" THEN failures + 1 ELSE failures
  /\ UNCHANGED stopped

(* fail: the first error is kept and cancels the other workers. *)
Fail(err) ==
  /\ firstErr' = IF firstErr = "" THEN err ELSE firstErr
  /\ canceled' = TRUE
  /\ failures' = IF err = "error" THEN failures + 1 ELSE failures
  /\ UNCHANGED stopped

LimitHit == plan.max > 0 /\ rows >= plan.max

Records(why) == stopReason' = IF stopReason = "drained" THEN why ELSE stopReason

(* shouldStop, under the lock; max-duration need not be set. *)
ShouldStop(yes, no) ==
  \/ canceled /\ yes /\ UNCHANGED state
  \/ /\ ~canceled /\ LimitHit
     /\ yes /\ Records("max-rows") /\ UNCHANGED <<rows, reserved>>
  \/ /\ ~canceled /\ ~LimitHit /\ expired
     /\ yes /\ Records("max-duration") /\ UNCHANGED <<rows, reserved>>
  \/ ~canceled /\ ~LimitHit /\ ~expired /\ no /\ UNCHANGED state

(* The unbuffered partCh, fed in ordinal order; the feeder gives up, and     *)
(* closes it, once the context has ended.                                    *)
TakePartition(w) ==
  /\ At(w, "idle")
  /\ \/ todo # {} /\ part' = [part EXCEPT ![w] = Min(todo)] /\ todo' = todo \ {Min(todo)}
        /\ Goto(w, "taken")
     \/ (todo = {} \/ canceled) /\ Goto(w, "gone") /\ UNCHANGED <<part, todo>>
  /\ UNCHANGED <<plan, db, main, result, cursor, batch, attempt, last, hit, state, gate, late,
                 errs, expired, finished, bounds>>

StartPartition(w) ==
  /\ At(w, "taken")
  /\ ShouldStop(Goto(w, "gone"), Goto(w, "top"))
  /\ cursor' = [cursor EXCEPT ![w] = 0]
  /\ UNCHANGED <<plan, db, main, result, todo, part, batch, attempt, last, hit, gate, late, errs,
                 expired, finished, bounds>>

NextBatch(w) ==
  /\ At(w, "top")
  /\ ShouldStop(Goto(w, "idle"), Goto(w, "rate"))
  /\ UNCHANGED <<plan, db, main, result, todo, worker, gate, late, errs, expired, finished,
                 bounds>>

(* applyPartitionRateLimit: a lag signal taken from bucketNum closes the gate *)
(* for every worker.                                                         *)
TakeSignal(w) ==
  /\ At(w, "rate")
  /\ lags < plan.lags /\ lags' = lags + 1 /\ UNCHANGED <<faults, lost>>
  /\ gate' = TRUE
  /\ late' = IF gate THEN late ELSE [v \in Workers |-> 0]
  /\ Goto(w, "paused")
  /\ UNCHANGED <<plan, db, main, result, todo, worker, state, errs, expired, finished>>

PassGate_OwnSignalOnly(w) ==
  /\ \/ At(w, "rate") /\ Goto(w, "select")
     \/ At(w, "paused") /\ (~gate \/ canceled) /\ Goto(w, "top")
  /\ UNCHANGED <<plan, db, main, result, todo, worker, state, gate, late, errs, expired,
                 finished, bounds>>

(* waitLagGate: a worker that took the signal, or had to wait, starts over.  *)
PassGate(w) ==
  /\ \/ At(w, "rate") /\ Goto(w, IF gate THEN "paused" ELSE "select")
     \/ At(w, "paused") /\ (~gate \/ canceled) /\ Goto(w, "top")
  /\ UNCHANGED <<plan, db, main, result, todo, worker, state, gate, late, errs, expired,
                 finished, bounds>>

-----------------------------------------------------------------------------
(* One batch: SELECT, budget, DELETE with retries.                           *)

(* buildCursorCondition compares tuples: a row that agrees with the cursor   *)
(* up to a NULL in it is not greater.                                        *)
PastCursor(w, row) ==
  plan.cursor /\ cursor[w] # 0 => row[2] > plan.tied[<<part[w], cursor[w]>>]

FirstN(S, n) == {x \in S : Cardinality({y \in S : y[2] < x[2]}) < n}
Page(w) == FirstN({row \in table : row[1] = part[w] /\ PastCursor(w, row)}, plan.chunk)

Select_EmptyContinues(w) ==
  /\ At(w, "select") /\ ~canceled
  /\ batch' = [batch EXCEPT ![w] = Page(w)]
  /\ Goto(w, IF Page(w) = {} THEN "top" ELSE "reserve")
  /\ UNCHANGED <<plan, db, main, result, todo, part, cursor, attempt, last, hit, state, gate,
                 late, errs, expired, finished, bounds>>

(* The context is looked at first: an ended one is an error here.            *)
Select(w) ==
  /\ At(w, "select") /\ ~canceled
  /\ batch' = [batch EXCEPT ![w] = Page(w)]
  /\ Goto(w, IF Page(w) = {} THEN "idle" ELSE "reserve")
  /\ UNCHANGED <<plan, db, main, result, todo, part, cursor, attempt, last, hit, state, gate,
                 late, errs, expired, finished, bounds>>

(* An ended context is an error before the read, and a normal end in it.     *)
SelectFails(w) ==
  /\ At(w, "select")
  /\ \/ canceled /\ Fail("context") /\ Goto(w, "gone") /\ UNCHANGED bounds
     \/ canceled /\ UNCHANGED errs /\ Goto(w, "idle") /\ UNCHANGED bounds
     \/ Fail("error") /\ Goto(w, "gone") /\ Fault
  /\ UNCHANGED <<plan, db, main, result, todo, worker, state, gate, late, expired, finished>>

Remaining_ByCount == plan.max - rows
Remaining == plan.max - reserved
Grant(n) == IF plan.max = 0 \/ n < Remaining THEN n ELSE Remaining

StartsBatch(w) ==
  late' = IF gate THEN [late EXCEPT ![w] = @ + 1] ELSE late

(* reserveBudget, under the lock, and the trim of the batch. *)
Reserve(w) ==
  /\ At(w, "reserve")
  /\ LET want == Cardinality(batch[w]) IN
     IF plan.max > 0 /\ Remaining <= 0
     THEN /\ Goto(w, "idle") /\ Records("max-rows")
          /\ UNCHANGED <<batch, attempt, last, rows, reserved, late>>
     ELSE /\ batch' = [batch EXCEPT ![w] = FirstN(@, Grant(want))]
          /\ last' = [last EXCEPT ![w] = plan.max > 0 /\ want >= Remaining]
          /\ IF last'[w] THEN Records("max-rows") ELSE UNCHANGED stopReason
          /\ reserved' = IF plan.max > 0 THEN reserved + Grant(want) ELSE reserved
          /\ attempt' = [attempt EXCEPT ![w] = 1]
          /\ StartsBatch(w)
          /\ Goto(w, "delete") /\ UNCHANGED rows
  /\ UNCHANGED <<plan, db, main, result, todo, part, cursor, hit, gate, errs, expired, finished,
                 bounds>>

(* The rows of its batch that a worker's DELETE hits, within the frozen      *)
(* WHERE: none is IN a list by a key that holds a NULL.                      *)
Takes(w) == (batch[w] \cap table) \ plan.noKey

(* An attempt: begin, DELETE the batch by its keys, and a COMMIT on its way  *)
(* once the context was looked at.                                           *)
Attempt(w) ==
  /\ At(w, "delete") /\ ~canceled
  /\ Goto(w, "sent")
  /\ UNCHANGED <<plan, db, main, result, todo, worker, state, gate, late, errs, expired,
                 finished, bounds>>

AttemptCanceled(w) ==
  /\ At(w, "delete") /\ canceled
  /\ Goto(w, "idle")
  /\ UNCHANGED <<plan, db, main, result, todo, worker, state, gate, late, errs, expired,
                 finished, bounds>>

GivesUp_Quietly(w) == Goto(w, "idle") /\ UNCHANGED <<attempt, errs>>

(* A real error that is not retried any more fails the run. *)
GivesUp(w) == Fail("error") /\ Goto(w, "gone") /\ UNCHANGED attempt

Retries(w) ==
  /\ attempt[w] < MaxAttempts
  /\ attempt' = [attempt EXCEPT ![w] = @ + 1]
  /\ Goto(w, "delete") /\ UNCHANGED errs

AttemptFails(w) ==
  /\ At(w, "sent")
  /\ Fault
  /\ GivesUp(w) \/ Retries(w)
  /\ UNCHANGED <<plan, db, main, result, todo, part, cursor, batch, last, hit, state, gate, late,
                 expired, finished>>

Commits(w) ==
  /\ deleted' = deleted \cup Takes(w)
  /\ table' = table \ Takes(w)
  /\ UNCHANGED touched

(* The COMMIT took effect, its reply was lost: transient, so it is retried.  *)
ReplyLost(w) ==
  /\ At(w, "sent") /\ lost < plan.lost
  /\ lost' = lost + 1 /\ UNCHANGED <<faults, lags>>
  /\ Commits(w)
  /\ GivesUp(w) \/ Retries(w)
  /\ UNCHANGED <<plan, main, result, todo, part, cursor, batch, last, hit, state, gate, late,
                 expired, finished>>

AttemptSucceeds(w) ==
  /\ At(w, "sent")
  /\ Commits(w)
  /\ hit' = [hit EXCEPT ![w] = Takes(w)]
  /\ attempt' = [attempt EXCEPT ![w] = 0]
  /\ Goto(w, "account")
  /\ UNCHANGED <<plan, main, result, todo, part, cursor, batch, last, state, gate, late, errs,
                 expired, finished, bounds>>

(* The cursor moves to the batch's last row; addRows counts the rows. *)
Account(w) ==
  /\ At(w, "account")
  /\ cursor' = [cursor EXCEPT ![w] = Max({row[2] : row \in batch[w]})]
  /\ rows' = rows + Cardinality(hit[w]) /\ hit' = [hit EXCEPT ![w] = {}]
  /\ Goto(w, "wait")
  /\ UNCHANGED <<plan, db, main, result, todo, part, batch, attempt, last, reserved,
                 stopReason, gate, late, errs, expired, finished, bounds>>

(* The rate limit, whose only error is the context's; then the partition is  *)
(* done when the budget is, or when the page was short.                      *)
AfterBatch(w) ==
  /\ At(w, "wait")
  /\ \/ canceled /\ Goto(w, "idle")
     \/ Goto(w, IF last[w] \/ Cardinality(batch[w]) < plan.chunk THEN "idle" ELSE "top")
  /\ UNCHANGED <<plan, db, main, result, todo, worker, state, gate, late, errs, expired,
                 finished, bounds>>

Returns ==
  /\ main' = "done"
  /\ result' = IF firstErr = "error" THEN "error" ELSE "nil"
  /\ finished' = (firstErr # "error")
  /\ UNCHANGED <<plan, db, todo, pc, worker, state, gate, late, errs, expired, bounds>>

RunReturns_OnFirstError ==
  /\ main = "run"
  /\ firstErr # "" \/ \A w \in Workers : pc[w] = "gone"
  /\ Returns

(* Run waits for every worker; a first error that is the context's is a      *)
(* clean stop.                                                               *)
RunReturns ==
  /\ main = "run" /\ \A w \in Workers : pc[w] = "gone"
  /\ Returns

-----------------------------------------------------------------------------
Work(w) ==
  \/ TakePartition(w) \/ StartPartition(w) \/ NextBatch(w) \/ TakeSignal(w) \/ PassGate(w)
  \/ Select(w) \/ SelectFails(w) \/ Reserve(w)
  \/ Attempt(w) \/ AttemptCanceled(w) \/ AttemptFails(w) \/ ReplyLost(w) \/ AttemptSucceeds(w)
  \/ Account(w) \/ AfterBatch(w)

Next ==
  \/ Discover \/ RunReturns
  \/ \E w \in Workers : Work(w)
  \/ Cancel \/ Expire \/ GateOpens
  \/ \E row \in Rows : OtherClientWrites(row)

Spec == Init /\ [][Next]_vars

(* Goroutines are scheduled, statements return, time passes.                 *)
FairSpec ==
  /\ Spec
  /\ WF_vars(Discover) /\ WF_vars(RunReturns) /\ WF_vars(GateOpens)
  /\ \A w \in Workers : WF_vars(Work(w))

-----------------------------------------------------------------------------
(* Properties. *)

(* max-rows is exact: the workers together never remove more than it, also   *)
(* when a COMMIT loses its reply and the batch is deleted again.             *)
BudgetIsExact == plan.max > 0 => Cardinality(deleted) <= plan.max

(* Rows that a cursor at an earlier row of their partition may pass over. *)
Hidden(row) ==
  plan.cursor /\ \E end \in Rows :
    end[1] = row[1] /\ end[2] < row[2] /\ row[2] <= plan.tied[end]

(* A run that returns nil with nobody cancelling it and no time limit has    *)
(* handed out all of max-rows, or has removed every row that nobody else     *)
(* wrote, but for the rows without a key and those that agree, up to a NULL, *)
(* with an earlier one at which a page may have ended.  If nobody else wrote *)
(* and every row has a key, max-rows rows are gone.                          *)
CleanEndIsComplete ==
  (result = "nil" /\ ~stopped /\ ~expired)
    => \/ \A row \in Rows \ (touched \cup deleted) : row \in plan.noKey \/ Hidden(row)
       \/ /\ plan.max > 0 /\ reserved = plan.max
          /\ touched = {} /\ plan.noKey = {} => Cardinality(deleted) = plan.max

(* A worker whose DELETE or SELECT failed for real makes Run fail, unless    *)
(* the caller ended the context.                                             *)
ErrorsAreReported == (result = "nil" /\ ~stopped) => failures = 0

(* The lag pause is broadcast: once one worker has taken the signal, every   *)
(* worker starts at most the batch it was already past the gate with.        *)
PauseReachesEveryone == \A w \in Workers : late[w] <= 1

(* Run returns whatever fails, also with partitions not handed out.  With    *)
(* neither a cursor nor a limit, a full page of rows that no DELETE hits, as *)
(* they have no key or others write them every time, is read forever.        *)
RunEnds ==
  (\/ plan.cursor \/ plan.max > 0
   \/ [](\A p \in Partitions :
           Cardinality({row \in plan.noKey \cup touched : row[1] = p}) < plan.chunk))
    => <>(main = "done")

(* Run keeps the contract of a ChunkStrategy: what it counts is committed,   *)
(* and all that is, unless a reply was lost or the caller stopped it; it     *)
(* takes the workers with it, and marks the writer finished first.           *)
Contract == INSTANCE ChunkRun WITH
  committed <- Cardinality(deleted), counted <- rows, stop <- stopped, doubt <- lost > 0,
  busy <- \E w \in Workers : pc[w] # "gone"
ImplementsChunkRun == Contract!Spec
=============================================================================
