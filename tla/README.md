# go-oak-chunk: TLA+ models

go-oak-chunk runs one large UPDATE or DELETE in small chunks against MySQL,
TiDB or OceanBase, as a command (`goc run`) and as a library. These modules model
the parts whose correctness depends on the order of things: transactions whose
replies are lost, goroutines that end each other, a budget shared by workers, other
clients that write the same table; and the way from a configuration to the statements
that run, where several places have to agree. TLC checks them on small instances; the
safety of the controlled executor, of every strategy, of the task runner and of the choice of target and
strategy is also proved with TLAPS for every instance.

Paths are relative to the repository, which is under `src/`.

## 1. The system

| Component | Code | State | Operations | Works with |
|---|---|---|---|---|
| Controlled executor | `controlled.go` | row budget, cursor, result, `stopped`, `cancel` | `Run`, `Stop`, `Wait` | one borrowed connection, the caller's two hooks |
| Range strategy | `mysql/range_strategy.go`, `procedure.go`, `writer.go` | queue of chunks, key cursor, counters, `isFinished` | `BuildSQL` (producer), `Write` (consumer), `Run` | retry, rate limiting |
| Retry | `internal/retry` | attempt number | `WithRetry`, `Classify` | range and partition paths |
| Covering strategy | `mysql/ob_covering_strategy.go` | page channel, cursor | producer and consumer of primary keys | retry, rate limiting |
| Partition strategy | `mysql/ob_partition_strategy.go` | `partitionRunState`: budget, lag gate, stop reason; first error | feeder, worker pool | the covering strategy's SQL |
| TiDB rowid strategy | `mysql/tidb_rowid_strategy.go` | page channel, row id cursor | as the covering strategy | retry, rate limiting |
| Task runner | `task/task.go` | four channels, contexts | `Execute`, lag monitor, progress reporters | starts the strategy |
| SDK executor | `oak.go` | `hasRun`, `cancel` | `Run`, `Stop`, `GetStatus`, live updates | the task runner |
| Rate limiting | `task/rate_limiter.go`, `rows_limiter.go` | sleep, lag, correction | signals in `bucketNum`, `Wait` | monitor and consumers |
| Lag checker | `task/lag_checker` | replicas, largest lag | `CheckLag` | monitor |
| Key predicates | `mysql/format.go`, `procedure.go` | none | SQL and arguments for a chunk | range strategy |
| Configuration | `conf/config.go`, options of `oak.go` | the caller's `Config`, shared by its executors | `PreCheck`, options | writer, strategy choice |
| Writer setup | `mysql/writer.go`, `meta.go` | target, rewritten statement, chunking key | `NewWriter` | the server's metadata |
| Preflight, command line, client, logging | rest | none that others race for | | |

How they interact: `Executor.Run` calls `task.Execute`, which starts a goroutine for
the lag monitor and one for the strategy. The monitor sends throttle signals over
`bucketNum`; the strategy's consumers drain it before each transaction. Producer and
consumer of a strategy share a bounded queue. Everything ends through contexts: the
caller's, `Execute`'s, the strategy's own. `Writer.isFinished` tells the monitor that
the work is done. The controlled executor is separate: it uses none of the above.

What is hard, and what each part has to get right:

- **Controlled executor.** The COMMIT may be lost after it took effect, the deadline of
  a statement may pass while a hook thinks, Stop may come before Run has published
  its cancel function. It must never delete more than approved, never delete a row
  that stopped being eligible, know exactly what it deleted or say that it does not,
  and report every batch before the next.
- **Range strategy.** A failed chunk is retried in a transaction of its own, but only
  when it is the only chunk of its transaction; other clients insert into a chunk
  between its key read and its execution; a writer that leaves early leaves a full
  queue behind. Rows must be covered, not repeated, and counted correctly, and
  both goroutines must end.
- **Covering and rowid strategies.** The producer reads up to two pages ahead of the
  deletes and ends at a short page; a batch is held through lag pauses and retries; every
  way out has to take the producer with it. No matching row may be skipped, none
  deleted that left the WHERE clause.
- **Partition strategy.** Workers reserve from one budget, one signal has to pause all
  of them, the first error cancels the others, whose own errors then look like it.
- **Task runner.** Its select has three cases that may be ready together; it ends
  without the strategy after a stop, and must not in any other case.
- **Rate limiting, lag checker.** Signals are stale when used, a replica that fails is
  gone for good, the correction decays only down to a bound.
- **Strategies and their runner.** `Execute` ends on the strategy's return and the lag
  monitor on `isFinished`; the four strategies set and return them in different orders.
- **Key predicates.** The row comparison of a composite key against the
  lexicographic order, with its first and last chunk, and an argument list that fits
  its placeholders.
- **From Config to strategy.** `PreCheck` looks at the statement's first word, `NewWriter`
  at its tree, `selectStrategy` at the settings as they are when Run is called, and
  `NewWriter` writes the database it inferred back into the shared Config.

`PROJECT.json` lists the hazards at their lines with the properties aimed at them, or with
the reason why there is none yet.

## 2. The modules

| Module | What it is |
|---|---|
| `BudgetedDelete` | What a purge promises to the service that approved it |
| `ControlledExecutor` | `controlled.go`; implements `BudgetedDelete` |
| `ControlledExecutor_proofs` | The proofs about it |
| `PageLemmas` | Lemmas about `ORDER BY key LIMIT n`, which all the reads of this program are built from |
| `RangeStrategy` | Producer, writer and retry loop of the range path |
| `PartitionStrategy` | The partition workers |
| `CoveringStrategy` | The covering and rowid strategies: producer and consumer |
| `RangeStrategy_proofs`, `PartitionStrategy_proofs`, `CoveringStrategy_proofs` | The proofs about them |
| `ChunkRun` | What `Execute` relies on in any strategy; `RangeStrategy`, `PartitionStrategy` and `CoveringStrategy` implement it |
| `KeyPredicates` | Predicates, arguments and placeholders over keys of several columns (operators only) |
| `ChunkingKey` | The choice of the chunking key from the table's metadata (operators only) |
| `StartRun` | `NewExecutor`, `NewWriter`, the choice of the strategy, and the range scan over the two modules above |
| `StartRun_proofs` | The proofs about it |
| `TaskExecute` | `task.Execute` and `oak.Executor`, over a strategy reduced to its commits and its end |
| `TaskExecute_proofs` | The proofs about it |
| `ThrottleSignals` | The lag monitor, its signal channel and the goroutine that drains it |
| `ThrottleSignals_proofs` | The proofs about it |
| `MCPartitionStrategy`, `MCCoveringStrategy`, `MCStartRun` | Instances for TLC: plans, configurations, tables |

`ChunkRun` is where the modules meet. It states what `Execute` builds on: a strategy that has
returned has ended its goroutines and neither commits nor counts any more; one that returns nil
without having been stopped has marked the writer finished and counted all that it committed,
unless a reply was lost. `TaskExecute` has a strategy that commits, marks the writer finished and
returns in that way; each of the strategies is shown to do no more. The mapping takes the number
of executions that are committed to `committed`, the goroutines' program counters to `busy`, and a lost
reply to `doubt`.

Conventions. Program counters name the place in the code (`pc`, `pcP`, `pcW`). A call
that blocks on the server or a hook is a pair: the action that sends, and one action
per way it comes back. History variables (`purged`, `approval`, `receipts`, `late`, `failures`, `stopped`,
`executed`, `named`) appear in no guard of the code's actions; `applied`, `deleted` and `touched` do only
where they say what the table holds or what other clients may still do. A definition
`X_Y` right before `X` is a broken variant of `X` that no action uses; section 6
says which property it breaks.

### ControlledExecutor

| Code | Model |
|---|---|
| `Run`: CAS on `started`, publish `cancel`, test `stopped` | `Run`, `Publish`, `CheckStopped` |
| loop head and `min(BatchSize, MaxRows - CommittedRows)` | `LoopHead`, `Limit` |
| `selectIDs` | `SelectReturns`, `SelectFails`, `Candidates` |
| `BeforeStatement`, the deadline test after it | `GuardApproves`, `GuardRefuses`, `HookPanics`, `Recheck` |
| `deleteIDs` | `Begin`, `Exec`, `ExecFails`, `CommitCheck`, `SendCommit`, `CommitAcked`, `CommitAckLost` |
| `rollbackDelete` | `Rollback`, `CommitRollback` |
| `AfterCommit`, rate wait, deferred exit | `ReceiptAccepted`, `ReceiptRefused`, `RateWait`, `Return` |
| `Stop`: store, load, call | `StopStores`, `StopLoads`, `StopCancels` |
| `Wait` | `WaitReturns` |

A row is absent, young (not before the cutoff) or old. The server's side of a
transaction (`tx`, `pending`) and `database/sql`'s own goroutine (`AwaitDone`) are
external: a COMMIT that is sent may take effect or not, before or after the client
has given up waiting for it.

### RangeStrategy

`Fetch`, `Enqueue` and `ProducerStops` are `BuildSQL`; `Top` to `AfterCommit` are
`Write`, with the retry closure in `RetryExec` to `RetryReplyLost` and the reopened
transaction in `Reopen`; `TakesProducer`, `TakesWriter` and `Drained` are
`RangeStrategy.Run`. A key stands for its row; `applied[id]` counts the committed
executions on the row, so that a DELETE's row is gone at 1 while an UPDATE's row can
be hit again, and `executed` adds them all up. `Fetched` is what one fetch returns, `Nth` the row at a
place in its order. The WHERE clause is reduced to "matches": an UPDATE's row goes on
matching, which is the harder case. Whether `max-duration` has passed is open at every test.

### PartitionStrategy

`todo` holds the partitions the feeder has not handed out; which of them a worker gets is left
open. One action per step of `runPartitionWorker`; `hit[w]` are the rows a worker's last COMMIT removed
and it has not counted yet; `Grant` is `reserveBudget`, `ShouldStop`
the stop test, `TakeSignal` and `PassGate` the lag gate (`signalLag`,
`waitLagGate`), `Fail` the `errOnce`. The gate is open or closed; time passes it in
`GateOpens`. A worker may have a SELECT or DELETE fail, be retried, or lose the reply of
a COMMIT that took effect. The SELECT and the DELETE are built by the covering strategy's
functions; `PastCursor` and `Takes` say what NULLs do to them, as described there, within each
partition. A plan holds the settings of a run together with the bounds of the
behaviours looked at under them. Other clients do not reuse the key of a row that was
deleted.

### CoveringStrategy

`Select`, `SelectFails`, `Send` and `ProducerStops` are `selectCandidatePKLoop` and `selectRowIDLoop`;
`Start` to `Join` are the two `Run`s, which are the same code but for `ensureApplicable`
(`NotApplicable`). `TakeSignal` is a lag signal found by `applyRateLimit` while a batch is in hand,
`PassRate` the end of that loop. `Exec` sends the DELETE and its COMMIT; `AttemptSucceeds`,
`AttemptFails` and `ReplyLost` are the ways it comes back, `Retry` is `WithRetry`. A row is its
position in the order of the SELECT, NULLs first, as on the server.

NULLs matter twice, in this module and in `PartitionStrategy`. The cursor is the tuple of the
order columns and the key columns of a page's last row, and `(a, b) > (x, NULL)` is true for
greater `a` and NULL for `a = x`: the rows that agree with the cursor in the columns before its first
NULL are passed over, the whole rest of the table if that is the first column. A plan says in `tied`
for each row which is the last one it would pass over (itself, if it holds no NULL). A row with a NULL
in its key is IN no list, so no DELETE hits it; these are the rows `noKey`. The properties
say what is left then: `Hidden` are the rows that an earlier row passes over if a page ends there.

Other clients insert, change and delete rows
that no open transaction has locked.

### KeyPredicates, ChunkingKey and StartRun

| Code | Model |
|---|---|
| options, `Config.PreCheck`, `ParseSQLType` | `Apply`, `PreCheck`, `RowIDAllowed`, `FastPathAllowed` |
| `NewWriter`, `resolveTarget`, `tableExists`, `getInfoFromTable` | `ResolveTarget`, `Connect`, `ReadStatement`, `ReadKeys` |
| `GetPossibleUniqueKeys`, `buildUniqueKeysFromShowIndexRows`, `selectChunkingKey` | the same names in `ChunkingKey` |
| `selectStrategy` | `SelectStrategy`, `Run`, `Start` |
| `BuildSelectWhereClause`, `BuildBulkExecWhereClause`, `getArgs`, `getColumnValue` | the same names in `KeyPredicates` |
| `BuildSQL` and the execution of its chunks | `Scan` |

The predicates are evaluated on rows as the server would, with the arguments bound to the
placeholders by position, so that a list in the wrong order selects the wrong rows. The
order of the scan is defined independently (`Precedes`): that the predicates describe it is what
`ScanIsExact` checks and `SelectWhereMeans` proves. A value is an integer, its place in
its column's order. `GetArgs` gives the list that `getArgs` appends clause by clause by position:
clause i takes the places after the first i(i-1)/2. `Group` are the rows of SHOW INDEX of one
index, `SeqPlace` where a row's column stands among them. What the server
promises of a table is `IsTable`, assumed of the catalog (`CatalogAssumption`): finitely many rows,
which differ in the columns of a unique index if these are NOT NULL, and index rows numbered apart. A statement is its kind, schema, first and changed table and LIMIT. The caller
builds executors on one Config, may change the Config between two of them, and runs each
once. Whether a metadata query fails is open at each step. The producer's lead over the
writer is in `RangeStrategy`; here a page is executed when it is read.

### TaskExecute

`Run`, `Publish`, `Stop` are `oak.Executor`; `StartMonitor`, `Preflight` and the `Takes...`
actions are `Execute`; `TasksEnd` is the goroutine around `wg.Wait`; `MonitorEnds` is
`getStopTime`, whose signals are left out; `Invoke`, `Tick`, `ReporterEnds` and
`CallbackEnds` are the progress reporters. The strategy commits `Txns`
transactions one at a time; an ended context makes it return nil or the context's
error, as the strategies do. A select with several ready cases takes any of them.

### ThrottleSignals

`MonitorTop` to `Send` are one round of `getStopTime`: `StartCheck` and `CheckReplica` are
`SlaveChecker.CheckLag`, one replica at a time, so that replicas change between two
queries; `Decide` is `ShouldThrottle` or a wait; `Send` puts the signal into
`bucketNum` if it holds fewer than `Cap`. `Look`, `Drain` and `Drained` are the drain loop,
the same code in `Writer.Write` and in the three covering paths; its test compares the
index with the channel's present length. A signal is the lag signal or some wait; how
long the wait is depends on sleep, lag, chance and the correction and is left out.

## 3. The runs

| Run | Bounds | What it shows |
|---|---|---|
| `controlled_batches` | 4 ids in any initial state, batches of 2, budget 3, 2 rows written by others | the safety of the batch loop and the refinement |
| `controlled_stop` | 2 ids, batches of 1; 2 callers, 2 stoppers, 1 waiter | Stop and Wait in every order, and that a run ends |
| `range` | 4 rows, 1 insert, chunks of 0, 1 and 2, transactions of 1 and 3, limit 0 or 3, queue of 1, 2 faults, 1 lost reply | coverage, replays, overshoot, termination, the contract `ChunkRun` |
| `range_safe_to_retry` | as small as the counterexample allows | a disagreement with the documentation, section 7 |
| `partition` | 2 partitions of 2 rows, 2 workers; 2 faults; or limit 3 and 1 fault, in batches of 1 with 1 lag signal; or limit 3, 1 lost reply, 1 row other clients write; or 1 such row with no cursor and no limit; or a NULL in the first row of a partition, in an order column or the key, with and without cursor | errors, pause, completeness, the budget, termination, the contract `ChunkRun` |
| `covering` | 3 rows and an insert, pages of 1 and 2, limits 0 to 3, both kinds, with and without cursor, NULLs in an order column or the key, a page that ends at one, rows tied with it behind; 1 fault, 1 lost reply, 1 lag signal, 1 row other clients write | coverage, overshoot, what is deleted, termination, the contract `ChunkRun` |
| `covering_null_cursor` | 3 rows, 2 of them with a NULL in their first order column | a disagreement with the documentation, section 7 |
| `start` | 3 servers, 5 tables, 14 configurations, 8 option lists; 2 executors, 1 change of the Config; 5 rows, keys of 1 to 3 columns, chunks of 0 to 3 | agreement of the places that decide, the key, the target, the scan |
| `start_forbidden` | 2 statements the design forbids | a disagreement with the documentation, section 7 |
| `execute` | every route and reporter, 2 callers, 1 stopper, 2 transactions | ends and results of `Execute` |
| `throttle` | 2 replicas, one change of a replica or the limit, a channel of 3 | lag reaches the run, a pause ends, a full channel blocks nobody |
| `execute_dry_run` | one caller | a disagreement with the documentation, section 7 |

Why the bounds are enough to be of interest. The controlled run has a second batch cut
by the budget, a row that becomes ineligible after its selection and one that becomes
eligible. The range run has a transaction of several chunks and one of a single
chunk, a chunk an insert falls into, a queue that is full at once and a retry that
uses up its attempts. The partition run has a budget that ends inside a batch while
the other worker holds a reservation. The covering run has a producer that is a page
ahead of the deletes and one blocked on the full channel, a full page at the end of the
table and a short one, and a batch that uses up its attempts. The wide table of
the start run has rows that agree in a prefix of the key at every length, a page that ends
inside such a group, index rows out of order and between those of other indexes, and a
second database with a table of the same name; another table is empty. Two transactions tell a stop between
commits from one during a commit. The real capacities (queue 1000, page 1000, 4
attempts) are constants, here 1, 2 and 2. The throttled run has three signals in the channel, so
that a drain leaves one behind, and a replica that starts or stops lagging or
answering at any step; the properties speak of what holds from some point on, so one
change is enough to tell the two sides of that point apart.

Each module states its variables' types in `TypeOK`. Two runs check it; in the other modules with
proofs it is part of the inductive invariant (section 5).

`CHECK_DEADLOCK FALSE` is given everywhere: every one of these systems runs once and stops.

## 4. Fairness

- Goroutines that can run are scheduled: weak fairness of the producer, the writer,
  the workers, `Execute` and the monitor.
- A statement comes back, with a result or an error, in `RangeStrategy`,
  `PartitionStrategy` and `CoveringStrategy`, whose producer and consumer are weakly fair each;
  `StartRun` states no fairness. The drivers have no timeout of their own, so `RunReturns` and
  `RunEnds` say that the goroutines do not block each other, not that a dead server is noticed.
- In `ControlledExecutor` a statement or a hook may hang until its context ends; both
  deadlines do pass (`WF_vars(OpTimeout)`, `WF_vars(RunCtxEnds("timeout"))`), because
  the code gives every statement and the run a timeout. COMMIT and ROLLBACK come back.
- In `TaskExecute` neither the strategy, nor a callback, nor the confirmation on stdin is fair.
  `StopReturns` therefore holds for a strategy stuck in a statement, and starts
  where `Execute` has reached its select.
- In `ThrottleSignals` the monitor and the executing goroutine are scheduled and their
  statements return; replicas and limits change at most `MaxChanges` times.
- Nobody is obliged to stop, cancel, insert or write.

## 5. The proofs

Every proof module but `PageLemmas` assumes the named assumptions of its component (`StartRun` has two) and nothing else:
finite sets of rows, positive sizes, any number of workers, callers, stoppers, faults, lost replies
and rows that others write. None of the invariants below is inductive alone; each module has an
inductive invariant made of named parts, which was checked with TLC before it was proved, one lemma per
part and group of actions, and theorems that read the property off it.

| Module | Theorem | Property | Parts of the invariant it rests on |
|---|---|---|---|
| `ControlledExecutor_proofs` | `TypeCorrect`, `BudgetIsExact`, `OutcomeIsExact` | `TypeOK`, `BudgetHolds`, `KnownOutcomeIsExact` | `Core` |
| | `OnlyEligible` | `OnlyEligibleRowsGo` | `PendingFits` |
| | `Refinement` | `ImplementsBudgetedDelete` | `Core` |
| | `ApprovalsAreFresh`, `StopHolds`, `WaitIsConclusive` | `DeletesAreFreshlyApproved`, `StopIsNeverLost`, `WaitConfirmsQuiet` | `Control` |
| | `CommitsAreReported` | `EveryCommitIsReported` | `Receipted` |
| | `ExhaustedIsComplete` | `ExhaustedLeavesNothing` | `Sweep` |
| `PartitionStrategy_proofs` | `BudgetHolds` | `BudgetIsExact` | `Owned`, `Batched`, `Budgeted` |
| | `CleanEnds` | `CleanEndIsComplete` | `Spent`, `Progress`, `Stored` |
| | `ErrorsSurface`, `PauseIsShared` | `ErrorsAreReported`, `PauseReachesEveryone` | `Failed`, `Ended`; `Paused` |
| | `KeepsContract` | `ImplementsChunkRun` | `Tallied`, `Ended` |
| `CoveringStrategy_proofs` | `OvershootHolds` | `OvershootBounded` | `Sized`, `Tallied`, `Limited` |
| | `CleanEnds` | `CleanEndIsComplete` | `Staged`, `Stored`, `Known`, `Progress` |
| | `OnlyMatchingGo` | `OnlyMatchingRowsGo` | `Stored` |
| | `KeepsContract` | `ImplementsChunkRun` | `Staged`, `Tallied` |
| `RangeStrategy_proofs` | `ReplaysAreLostReplies` | `OnlyLostRepliesReplay` | `Lined`, `Held`, `Followed`, `Replayed` |
| | `CoversTable` | `FinishedCoversTable` | `Lined`, `Closed`, `Covered` |
| | `OvershootHolds` | `OvershootBounded` | `Tallied`, `Limited` |
| | `KeepsContract` | `ImplementsChunkRun` | `Tallied`, `Ended`, `Joined` |
| `TaskExecute_proofs` | `CallbacksAreSerial`, `FailuresAreReported` | `CallbacksDoNotOverlap`, `FailuresSurface` | `Serial`; `Joined`, `Surfaced` |
| | `OwnEndIsQuiet` | `QuietAfterOwnEnd` | `Joined`, `Quiet` |
| `ThrottleSignals_proofs` | `SignalTypes`, `BacklogHalves` | `TypeOK`, `HalfIsTaken` | `Accounted` |
| `StartRun_proofs` | `RoutesFit` | `RouteFitsWriter` | `Routed`, `Settled` |
| | `TargetsAreNamed` | `TargetIsNamed` | `Building`, `Settled` |
| | `ScansAreExact` | `ScanIsExact` | `Placed`, `Swept` |
| | `SelectWhereMeans`, `PlaceholdersFit`, `KeyIsChosen` | (operators) | |

Each of these modules also proves its `TypeOK` as a theorem.

**Pages.** Every read of this program is `ORDER BY key LIMIT n`: the rows with fewer than n rows before
them. `PageLemmas` says what that is, once: the page has at most n rows, skips none below one it
returns, is full unless it is everything, and its ranks put its rows in order (`PageBound`,
`PageIsPrefix`, `PageIsFull`, `PageIsWhole`, `NthExists`, `RankOrders`). Rows
that are not numbers can be numbered in their order (`NthRowExists`, `PlacesOrder`). A finite set of integers has a maximum by
well-foundedness of inclusion among its finite subsets (`LargestExists`).

**ControlledExecutor.** That `purged` stays within `MaxRows` when a COMMIT takes effect needs to know
that the rows in flight fit into what is left of the budget, and that `committed` counts every row
gone so far. `Core` says which transaction state the server can be in at each place of `Run`
(`TxOfPc`: no earlier COMMIT is under way when a new batch begins), that `committed` is the number of
rows gone except between a COMMIT and its reply (`Counted`), that candidates and deleted rows fit
(`BatchFits`, `PendingFits`, `SelectingHasBudget`), that candidates lie after every row already purged
(`PastPurged`), and that a COMMIT that is sent is that of the batch at hand (`SentBatch`). `Control`
adds that Stop raises its flag before it looks for the cancel function while Run publishes that
function before it reads the flag, so that one of the two finds the other. `Receipted` relates the
receipts to the running total on both sides of the hook. `Sweep` says that an eligible row nobody else
wrote is ahead of the cursor, that the batch holds all of them up to its last row, and that a
committed batch leaves none.

**PartitionStrategy.** `Claimed` is what is deleted and what will be if every batch in flight succeeds;
since a partition has one worker (`Owned`) and a batch lies in its partition (`Batched`), the claims
do not overlap, and `Budgeted` says that they fit what was reserved. `Progress` follows each partition: not
handed out, worked on by somebody who has left no row it owes (`Own`) behind the cursor or a short page,
or done. It owes the rows nobody else wrote that have a key and are not `Hidden`; the worker's cursor is
before such a row or has passed it for good, and it is tied with none before it (`OwnIsPast`).

**CoveringStrategy.** `Progress` says where a row the run owes can be: ahead of the producer, in the page
it holds, in the channel, or in the batch at hand, through pauses and retries. Which rows it owes
(`Owed`) depends on where a page may end: `Known` says that this is at a row of the old table or at one
that another client wrote, so no cursor passes over a row that is not `Hidden` (`OwedIsPast`). `Tallied` is the gap
between the table and the count: what is about to be counted, and a page for each lost reply.

**RangeStrategy.** The page BuildSQL holds and the queue form one `Line` of chunks, apart from each
other, ascending and behind the cursor (`Lined`); the chunk at hand lies before them (`Held`), the
rows executed before that (`Followed`). So a row belongs to one chunk, and only a retry executes it
again (`Replayed`). Coverage is an account: the original rows a finished chunk's LIMIT left out
(`Missed`) are no more than the inserted rows in finished chunks (`Extra`), because a chunk holds at most
chunk-size original rows and an execution that stops short of chunk-size has hit every row of
it (`Covered`). `Closed` says when the end marker may be in the line.

**TaskExecute.** The end of the strategy, of the monitor and of both, and what each implies for the
error that is or is not in the channel (`Joined`); what cannot have happened before the select is
entered (`Early`).

**The contract.** The three `KeepsContract` map every step to `Work`, `Return` or `Stop` of `ChunkRun`, or to a
stutter; `Return` is where the invariant is needed, for the goroutines' end and the count.

**StartRun.** `Building` follows a writer through `NewWriter`: its Config has passed `PreCheck`, its statement's schema
was named, its database is the one the schema asks for. What holds of it at the end (`Settled`) holds of
every executor in the list and of the writer of every run (`Routed`), whatever the caller does to the Config
meanwhile.

The scan has an invariant of its own on top (`Exact`). `Placed` says that a writer's key is a key of its table,
and tells its rows apart if it may not be NULL: `KeyIsChosen` proves it of the key from the DDL
and of one put together from index rows in any order, for every server and every list of forced columns.
`Swept` says that the rows up to the cursor have been hit once and the others not at all, and that there
is no cursor while the key cannot serve. A page keeps it by three facts. `SelectWhereMeans`: the
disjunction of clauses, each with its own share of the argument list, is the order of the tuples. It needs
no induction over the columns, since `GetArgs` says which value stands at which place: of
two different tuples the first place where they differ (a least number) is the only clause that can hold.
`PlaceholdersFit`: a key with a nullable column never has as many arguments as placeholders, one that is not
nullable always has. And the page is a prefix of the rows that are left, so that what lies between its first and
last row is the page, in one chunk or in one per row (`PageAdvances`).

Only model-checked:

- liveness, which the prover cannot reach: `EveryRunEnds`, `RunReturns`, the two `RunEnds`,
  `StopReturns`, `StrategyEndReturns`, `LagReachesWriter`, `PauseEndsWithLag`, `MonitorEnds`.

No property speaks of a Stop before `Run` has published its cancel function (`oak.go:244`): it is
forgotten, which the documentation does not exclude.

## 6. What the properties catch

| Run | Property | Broken variant that violates it |
|---|---|---|
| `controlled_batches` | `TypeOK` | `LastOf_Next` |
| `controlled_batches` | `KnownOutcomeIsExact` | `CommitAckLost_IsFailure` |
| `controlled_batches` | `BudgetHolds` | `Limit_PerBatchOnly` |
| `controlled_batches` | `EveryCommitIsReported` | `CommitAcked_DoneBeforeReceipt` |
| `controlled_batches` | `ExhaustedLeavesNothing` | `LastOf_Next` |
| `controlled_batches` | `OnlyEligibleRowsGo` | `Exec_ForgetsCutoff` |
| `controlled_batches` | `DeletesAreFreshlyApproved` | `Recheck_FreshDeadline` |
| `controlled_batches` | `ImplementsBudgetedDelete` | `Exec_AcceptsFewer` |
| `controlled_stop` | `StopIsNeverLost` | `CheckStopped_Skipped` |
| `controlled_stop` | `WaitConfirmsQuiet` | `WaitReturns_OnStop` |
| `controlled_stop` | `EveryRunEnds` | `Return_NotOnPanic` |
| `range` | `OnlyLostRepliesReplay` | `Fetch_ResumesAtFirstKey` |
| `range` | `FinishedCoversTable` | `ExecFails_RetriesAnyway` |
| `range` | `OvershootBounded` | `RowsReached_Strict` |
| `range` | `RunReturns` | `ProducerStops_OnlyBetweenFetches` |
| `range` | `ImplementsChunkRun` | `AfterCommit_FlagLeftOut` |
| `partition` | `BudgetIsExact` | `Remaining_ByCount` |
| `partition` | `CleanEndIsComplete` | `GivesUp_Quietly` |
| `partition` | `ErrorsAreReported` | `Fail_LastWins` |
| `partition` | `PauseReachesEveryone` | `PassGate_OwnSignalOnly` |
| `partition` | `RunEnds` | `Select_EmptyContinues` |
| `partition` | `ImplementsChunkRun` | `RunReturns_OnFirstError` |
| `covering` | `CleanEndIsComplete` | `TakeSignal_DropsBatch` |
| `covering` | `OvershootBounded` | `MaxReached_Strict` |
| `covering` | `OnlyMatchingRowsGo` | `Exec_WithoutWhere` |
| `covering` | `RunEnds` | `ProducerStops_NotInSend` |
| `covering` | `ImplementsChunkRun` | `Join_NoWait` |
| `start` | `RouteFitsWriter` | `FastPathAllowed_AnyStatement` |
| `start` | `TargetIsNamed` | `ResolveTargetDatabase_ConfigWins` |
| `start` | `ScanIsExact` | `Clause_WithoutPrefix` |
| `execute` | `CallbacksDoNotOverlap` | `Invoke_WithoutToken` |
| `execute` | `FailuresSurface` | `TasksEnd_StrategyOnly` |
| `execute` | `QuietAfterOwnEnd` | `TasksEnd_MonitorOnly` |
| `execute` | `StopReturns` | `TakesContext_AwaitsTasks` |
| `execute` | `StrategyEndReturns` | `MonitorEnds_OnContext` |
| `throttle` | `TypeOK` | `Offers_Always` |
| `throttle` | `HalfIsTaken` | `More_Rounds` |
| `throttle` | `LagReachesWriter` | `ShouldThrottle_Above` |
| `throttle` | `PauseEndsWithLag` | `StartCheck_KeepsMax` |
| `throttle` | `MonitorEnds` | `Send_WaitsForRoom` |

## 7. Disagreements with the documentation

- `range_safe_to_retry` / `SafeToRetry` (`src/mysql/writer.go:257`): The retry closure runs the chunk in a transaction of its own, and an error that only says the connection went away may come from a COMMIT that took effect; the next attempt runs the chunk again, so an UPDATE such as SET n = n + 1 is applied twice to its rows. src/internal/retry/classify.go:18 says of this class: "ClassTransient covers deadlock, lock-wait timeout, OB txn conflict and connection disruption errors that are safe to retry."
- `covering_null_cursor` / `ShortPageIsTail` (`src/mysql/ob_covering_strategy.go:297`): The cursor is the tuple of the page's last row, and the next SELECT asks for (order columns, key) > cursor. A NULL in it makes the comparison NULL for the rows that agree with it in the columns before: here it is the first column, so the next page is empty, and an empty page is taken for the end. Run returns nil with rows left that match and have a key. The workers of the partition path use the same builder. src/mysql/ob_covering_strategy.go:295 says: "A short page means we've reached the tail."
- `start_forbidden` / `StatementIsKept` (`src/mysql/writer.go:355`): The statement is rewritten as DELETE FROM <leftmost table> WHERE (<its WHERE clause>), UPDATE likewise, and nothing rejects what is left out: DELETE b FROM a JOIN b ON ... WHERE a.x = 1 deletes from a, without the join, and DELETE ... LIMIT 1 deletes every matching row. src/doc/design/ob-merge-design.md:198 demands the validation (in Chinese): single table only, multi-table, JOIN, LIMIT and ORDER BY forbidden.
- `execute_dry_run` / `DryRunExecutesNothing` (`src/task/task.go:248`): selectStrategy passes DryRun to the covering, partition and rowid strategies and not to NewRangeStrategy, which executes the statement. src/oak.go:147 says: "WithDryRun enables dry-run mode (prints sample SQL, does not execute)."

Smaller ones, seen while modelling and without a run:

- The confirmation of a large run reads stdin without looking at the context
  (`internal/preflight/preflight.go:190`), so a stop does not interrupt it; nothing promises that it does.
- With chunk-size 0 `BuildSQL` (`mysql/procedure.go:44`) queues only the end marker and the run
  succeeds with nothing done; `README.md:98` says "Zero(0) means all rows updated in one operation."
- The end of the caller's deadline comes back as `context.DeadlineExceeded`
  (`task/task.go:182`); `doc/design/sdk-usage-en.md:486` lists timeouts under `ErrExecutionStopped`.
- `Execute` may return nil for a run whose last COMMIT failed: `isFinished` is set
  before it (`mysql/writer.go:219`), so both channels of the select can be ready. A goroutine that
  is parked in the select gets the error first, so the window is small. `FailuresSurface`
  says that this, and a context that ended, are the only ways.
- Of n queued signals the drain loop (`mysql/writer.go:177` and its copies) takes
  (n + 1) / 2, because it compares its index with a length that shrinks, and acts on the last
  it took; `doc/design/cli-usage-en.md:246` says consumers take the latest value.
  `HalfIsTaken` says what does hold.
- The rows beyond max-rows may be more than one txn-size when a chunk is larger than a
  transaction (`mysql/writer.go:304`; `mysql/writer.go:37` and `:303` say at most one, `README.md:67` "exact and never
  deletes more than the configured limit"). `OvershootBounded` says how many.
- A dry run on the covering, partition and rowid routes returns without setting `isFinished`
  (`mysql/ob_covering_strategy.go:97`); the lag monitor (`task/task.go:296`) ends only on that or on the context, so
  the command shows its sample and waits, though `doc/design/cli-usage-en.md:466` offers it as a preview.
- `mysql/ob_covering_strategy.go:43`, `mysql/tidb_rowid_strategy.go:37`, `doc/design/cli-usage-en.md:444` and
  `doc/design/sdk-usage-en.md:440` say the cursor advances only after the DELETE commits. The cursor
  that pages (`pageCursor`) advances on each read; the one that waits for the commit pages nothing.
- Without a cursor, a full page of rows with a NULL in their key is read for ever: no DELETE hits
  them, and every page finds them again. The covering producer does so, and a partition worker
  without max-rows (with it, every page uses budget up). The two `RunEnds` leave this out, with the
  full pages of rows that other clients change before every DELETE and back after it.
- With a cursor, rows that agree with the last row of a page up to a NULL in it are passed over, on
  the covering and the partition path. `CleanEndIsComplete` excuses these rows (`Hidden`) and no other;
  `covering_null_cursor` shows a run that leaves them.
- A partition worker reserves budget for the rows it selected; what its DELETE does not hit is
  not given back, so a limited run may stop early.
- `selectStrategy` reads the Config when Run is called. A Config that is changed between
  `NewExecutor` and Run, or reused for another executor, can send an UPDATE's writer to a strategy that
  deletes by its WHERE clause, or a rowid writer, which has no key, to a strategy that
  dereferences it. The properties of `StartRun` hold for a Config nobody changed (`AsBuilt`).
- The inferred database and the options stay in the Config, also when `NewExecutor` fails: the next
  statement that names another schema is refused with "database mismatch", and one that
  names none runs on the database inferred before.
- partition-concurrency falls back to one worker in silence on a server other than OceanBase.
- A DELETE without WHERE is a syntax error on the range and covering routes, where the statement
  ends in `WHERE`; the rowid route writes `1=1`.
- The pool of connections stays open when `NewWriter` fails after opening it.
- `CURDATE` and `UTC_TIMESTAMP` are not frozen with `NOW` (`mysql/freeze.go:13`), so the WHERE clause of a
  run may move while it runs.
- An index on an expression has no column in the DDL's tree; `GetPossibleUniqueKeys` reads it.
- After one lag episode the correction stays positive, so a run with sleep 0 and no
  lag waits; `doc/design/cli-usage-en.md:246` says it does not.

## 8. Plan

Done so far: every component of section 1 but those of section 9 is modelled, and every safety property
and refinement the passing runs check is proved. What is left:

1. `TaskExecute` with `ChunkRun` as its strategy by INSTANCE, in place of the strategy it has.
2. The live updates of the SDK (sleep, lag limit) against the monitor's correction.

## 9. Not modelled

The command line, logging, the client's connection strings and session setup, the replacement of
`NOW()` by a literal, EXPLAIN parsing, the terminal progress display and the reading of result
rows: sequential code around I/O with no state that another part races for. Settings that
`PreCheck` tests for themselves are one flag. Table metadata does not change between `NewExecutor`
and Run; the code reads it once and would not notice. Sizes and durations are not modelled as
numbers of seconds: a deadline passes or it does not. SQL text is modelled by the rows
it selects. In `TaskExecute` the three-second limit on the reporter's
shutdown is left open, so `Execute` may return before or after the reporter.
