------------------------- MODULE ControlledExecutor -------------------------
(***************************************************************************)
(* oak.ControlledExecutor (src/controlled.go): a typed DELETE plan run     *)
(* over one borrowed connection.  Run selects candidate ids, asks the      *)
(* BeforeStatement hook, deletes exactly those ids in one transaction,     *)
(* reports the commit to the AfterCommit hook and waits for the rate       *)
(* limit.  Stop, Wait, a second Run, the two deadlines, the other clients  *)
(* of the table and the server's side of a COMMIT run beside it.           *)
(*                                                                         *)
(* Every row is "absent", "young" (not before the cutoff) or "old"         *)
(* (eligible).  A context is "live", "canceled" or "timeout"; the first    *)
(* cause sticks.  A call that blocks on the server or on a hook is one     *)
(* action per way it can come back.                                        *)
(*                                                                         *)
(* A definition X_Y right before X is a broken variant of X; no action     *)
(* uses it.  The README says which property finds each of them.            *)
(***************************************************************************)
EXTENDS Integers, FiniteSets, Sequences

CONSTANTS
  Ids,        \* primary key values the table may hold
  NoId,       \* the cursor before the first batch (lastID == "")
  BatchSize,  \* ControlledConfig.BatchSize
  MaxRows,    \* ControlledConfig.MaxRows
  Callers,    \* goroutines that call Run
  Stoppers,   \* goroutines that call Stop
  Waiters,    \* goroutines that call Wait
  MaxTouched  \* bound: how many rows other clients write during a behaviour

ASSUME PlanAssumption ==
  /\ IsFiniteSet(Ids)
  /\ Ids \subseteq Int
  /\ NoId \notin Ids
  /\ BatchSize \in Nat \ {0}
  /\ MaxRows \in Nat \ {0}
  /\ MaxTouched \in Nat

VARIABLES
  table,      \* the committed state of every row
  touched,    \* rows another client has written
  tx,         \* the server's view of the batch transaction
  pending,    \* rows the uncommitted transaction deleted, and locks
  purged,     \* history: rows removed by committed batches
  caller,     \* how far each Run call is
  pc,         \* where the Run that won the CAS is
  runCtx,     \* the run's context
  opCtx,      \* the current statement's own deadline
  cancelFn,   \* e.cancel is published
  stopped,    \* e.stopped
  stop,       \* how far each Stop call is
  wait,       \* how far each Wait call is
  lastID, ids, committed, batches,
  reason, unknown,
  receipts,   \* history: the running totals AfterCommit was called with
  approval    \* history: "none", "fresh" or "stale"

db   == <<table, touched, tx, pending, purged>>
ctl  == <<caller, cancelFn, stopped, stop, wait>>
ctxs == <<runCtx, opCtx, approval>>
data == <<lastID, ids, committed, batches, receipts>>
res  == <<reason, unknown>>
vars == <<db, ctl, ctxs, data, res, pc>>

RowState  == {"absent", "young", "old"}
CtxState  == {"live", "canceled", "timeout"}
TxState   == {"none", "open", "sent", "committed", "aborted", "orphan"}
Running   == {"publish", "check", "loop", "select", "guard", "armed", "begin",
              "exec", "rollback", "commit", "commitRollback", "send", "ack",
              "receipt", "wait"}
PcState   == Running \cup {"idle", "return", "done"}
Reason    == {"", "exhausted", "budget_reached", "canceled", "timeout",
              "guard_denied", "failed", "outcome_unknown"}

TypeOK ==
  /\ table \in [Ids -> RowState]
  /\ touched \subseteq Ids
  /\ tx \in TxState
  /\ pending \subseteq Ids /\ purged \subseteq Ids /\ ids \subseteq Ids
  /\ caller \in [Callers -> {"idle", "running", "rejected", "returned"}]
  /\ pc \in PcState
  /\ runCtx \in CtxState /\ opCtx \in CtxState
  /\ cancelFn \in BOOLEAN /\ stopped \in BOOLEAN /\ unknown \in BOOLEAN
  /\ stop \in [Stoppers -> {"idle", "stored", "loaded", "returned"}]
  /\ wait \in [Waiters -> {"waiting", "confirmed", "gaveup"}]
  /\ lastID \in Ids \cup {NoId}
  /\ committed \in Nat /\ batches \in Nat
  /\ reason \in Reason
  /\ receipts \in Seq(Nat)
  /\ approval \in {"none", "fresh", "stale"}

Init ==
  /\ table \in [Ids -> RowState]
  /\ touched = {} /\ tx = "none" /\ pending = {} /\ purged = {}
  /\ caller = [c \in Callers |-> "idle"]
  /\ pc = "idle"
  /\ runCtx = "live" /\ opCtx = "live"
  /\ cancelFn = FALSE /\ stopped = FALSE
  /\ stop = [s \in Stoppers |-> "idle"]
  /\ wait = [w \in Waiters |-> "waiting"]
  /\ lastID = NoId /\ ids = {} /\ committed = 0 /\ batches = 0
  /\ reason = "" /\ unknown = FALSE
  /\ receipts = <<>> /\ approval = "none"

-----------------------------------------------------------------------------
(* Contexts. *)

(* The statement context is a child of the run's: it ends by its own         *)
(* deadline or with its parent, whichever comes first.                       *)
OpErr == IF opCtx # "live" THEN opCtx ELSE runCtx

Canceled(c) == IF c = "live" THEN "canceled" ELSE c
Stale(a) == IF a = "fresh" THEN "stale" ELSE a

(* From the creation of a statement context to its stop(). *)
OpWindow == {"select", "guard", "armed", "begin", "exec", "rollback", "commit",
             "commitRollback", "send", "ack", "receipt"}

OpTimeout ==
  /\ pc \in OpWindow
  /\ OpErr = "live"
  /\ opCtx' = "timeout"
  /\ approval' = Stale(approval)
  /\ UNCHANGED <<db, ctl, data, res, pc, runCtx>>

(* MaxDuration expires, or the context handed to Run ends. *)
RunCtxEnds(cause) ==
  /\ pc \in Running
  /\ runCtx = "live"
  /\ runCtx' = cause
  /\ approval' = Stale(approval)
  /\ UNCHANGED <<db, ctl, data, res, pc, opCtx>>

-----------------------------------------------------------------------------
(* How Run leaves its loop: failure, contextFailure and the two successes.   *)

Finish(why) ==
  /\ pc' = "return"
  /\ reason' = why
  /\ unknown' = FALSE

OutcomeUnknown ==
  /\ pc' = "return"
  /\ reason' = "outcome_unknown"
  /\ unknown' = TRUE

Goto(l) == pc' = l /\ UNCHANGED res

-----------------------------------------------------------------------------
(* The start of Run: one caller wins the CAS, the cancel function is         *)
(* published before the stopped flag is read.                                *)

Run(c) ==
  /\ caller[c] = "idle"
  /\ IF pc = "idle"
     THEN caller' = [caller EXCEPT ![c] = "running"] /\ pc' = "publish"
     ELSE caller' = [caller EXCEPT ![c] = "rejected"] /\ UNCHANGED pc
  /\ UNCHANGED <<db, ctxs, data, res, cancelFn, stopped, stop, wait>>

Publish ==
  /\ pc = "publish"
  /\ cancelFn' = TRUE
  /\ Goto("check")
  /\ UNCHANGED <<db, ctxs, data, caller, stopped, stop, wait>>

CheckStopped_Skipped ==
  /\ pc = "check"
  /\ Goto("loop")
  /\ UNCHANGED <<db, ctl, ctxs, data>>

(* A Stop that came before Run cancels the run it finds. *)
CheckStopped ==
  /\ pc = "check"
  /\ runCtx' = IF stopped THEN Canceled(runCtx) ELSE runCtx
  /\ Goto("loop")
  /\ UNCHANGED <<db, ctl, data, opCtx, approval>>

(* The head of the loop; a new statement context for the candidate read. *)
LoopHead ==
  /\ pc = "loop"
  /\ \/ committed >= MaxRows /\ Finish("budget_reached") /\ UNCHANGED opCtx
     \/ committed < MaxRows /\ runCtx # "live" /\ Finish(runCtx) /\ UNCHANGED opCtx
     \/ committed < MaxRows /\ runCtx = "live" /\ Goto("select") /\ opCtx' = "live"
  /\ UNCHANGED <<db, ctl, data, runCtx, approval>>

-----------------------------------------------------------------------------
(* The candidate read. *)

Limit_PerBatchOnly == BatchSize
Limit == IF BatchSize <= MaxRows - committed THEN BatchSize ELSE MaxRows - committed

Eligible == {id \in Ids : table[id] = "old"}
PastCursor(id) == lastID = NoId \/ id > lastID
Candidates == {id \in Eligible : PastCursor(id)}

(* ORDER BY id LIMIT n *)
FirstN(S, n) == {x \in S : Cardinality({y \in S : y < x}) < n}
LastOf_Next(S) == 1 + CHOOSE x \in S : \A y \in S : y <= x
LastOf(S) == CHOOSE x \in S : \A y \in S : y <= x

SelectReturns ==
  /\ pc = "select"
  /\ ids' = FirstN(Candidates, Limit)
  /\ IF ids' = {}
     THEN Finish("exhausted") /\ UNCHANGED <<opCtx, approval>>
     ELSE Goto("guard") /\ opCtx' = "live" /\ approval' = "none"
  /\ UNCHANGED <<db, ctl, runCtx, lastID, committed, batches, receipts>>

(* The read fails with its context's error, or with another error that is   *)
(* put down to the run's context when that has ended.                        *)
SelectFails ==
  /\ pc = "select"
  /\ \/ OpErr # "live" /\ Finish(OpErr)
     \/ Finish(IF runCtx # "live" THEN runCtx ELSE "failed")
  /\ UNCHANGED <<db, ctl, ctxs, data>>

-----------------------------------------------------------------------------
(* The BeforeStatement hook.  Its answer and the DELETE share one statement  *)
(* context: a hook that overran it does not get a fresh one.                 *)

GuardApproves ==
  /\ pc = "guard"
  /\ approval' = IF OpErr = "live" THEN "fresh" ELSE "stale"
  /\ Goto("armed")
  /\ UNCHANGED <<db, ctl, data, runCtx, opCtx>>

(* A hook that returns a context error, its own or an inner one, is not a    *)
(* denial.                                                                   *)
GuardRefuses ==
  /\ pc = "guard"
  /\ \E why \in {"guard_denied", "canceled", "timeout"} : Finish(why)
  /\ UNCHANGED <<db, ctl, ctxs, data>>

(* A panic of a hook is recovered in Run's deferred function. *)
HookPanics ==
  /\ pc \in {"guard", "receipt"}
  /\ receipts' = IF pc = "receipt" THEN Append(receipts, committed) ELSE receipts
  /\ OutcomeUnknown
  /\ UNCHANGED <<db, ctl, ctxs, lastID, ids, committed, batches>>

Recheck_FreshDeadline ==
  /\ pc = "armed"
  /\ opCtx' = "live"
  /\ IF runCtx # "live" THEN Finish(runCtx) ELSE Goto("begin")
  /\ UNCHANGED <<db, ctl, data, runCtx, approval>>

Recheck ==
  /\ pc = "armed"
  /\ IF OpErr # "live" THEN Finish(OpErr) ELSE Goto("begin")
  /\ UNCHANGED <<db, ctl, ctxs, data>>

-----------------------------------------------------------------------------
(* The batch transaction: deleteIDs and rollbackDelete.                      *)

Begin ==
  /\ pc = "begin"
  /\ \/ OpErr = "live" /\ Goto("exec") /\ tx' = "open"
     \/ OpErr # "live" /\ Finish(OpErr) /\ UNCHANGED tx
     \/ Finish("failed") /\ UNCHANGED tx
  /\ UNCHANGED <<table, touched, pending, purged, ctl, ctxs, data>>

(* database/sql rolls an open transaction back by itself once its context    *)
(* has ended (Tx.awaitDone).                                                 *)
AwaitDone ==
  /\ tx = "open"
  /\ OpErr # "live"
  /\ tx' = "aborted"
  /\ pending' = {}
  /\ UNCHANGED <<table, touched, purged, ctl, ctxs, data, res, pc>>

RollbackBecause(why) == pc' = "rollback" /\ reason' = why /\ UNCHANGED unknown

(* The DELETE names the candidates and repeats the cutoff, so it affects     *)
(* those that are still eligible; anything but all of them is rolled back.   *)
Exec_ForgetsCutoff ==
  /\ pc = "exec" /\ tx = "open" /\ OpErr = "live"
  /\ pending' = {id \in ids : table[id] # "absent"}
  /\ IF pending' = ids THEN Goto("commit") ELSE RollbackBecause("failed")
  /\ UNCHANGED <<table, touched, tx, purged, ctl, ctxs, data>>

Exec_AcceptsFewer ==
  /\ pc = "exec" /\ tx = "open" /\ OpErr = "live"
  /\ pending' = ids \cap Eligible
  /\ Goto("commit")
  /\ UNCHANGED <<table, touched, tx, purged, ctl, ctxs, data>>

Exec ==
  /\ pc = "exec" /\ tx = "open" /\ OpErr = "live"
  /\ pending' = ids \cap Eligible
  /\ IF pending' = ids THEN Goto("commit") ELSE RollbackBecause("failed")
  /\ UNCHANGED <<table, touched, tx, purged, ctl, ctxs, data>>

(* The statement fails, or its affected row count is not to be had. *)
ExecFails ==
  /\ pc = "exec"
  /\ \/ OpErr # "live" /\ RollbackBecause(OpErr)
     \/ RollbackBecause("failed")
  /\ UNCHANGED <<db, ctl, ctxs, data>>

(* The server confirms a rollback, or the transport fails and the session's  *)
(* transaction is left to the server to abort.                               *)
TxRolledBack == tx = "open" /\ tx' = "none" /\ pending' = {}
TxOrphaned   == tx = "open" /\ tx' = "orphan" /\ UNCHANGED pending
TxFinished   == tx = "aborted" /\ UNCHANGED <<tx, pending>>

Rollback ==
  /\ pc = "rollback"
  /\ \/ TxRolledBack /\ Finish(reason)
     \/ TxFinished /\ Finish(reason)      \* sql.ErrTxDone: not uncertain here
     \/ TxOrphaned /\ OutcomeUnknown
  /\ UNCHANGED <<table, touched, purged, ctl, ctxs, data>>

(* Tx.Commit looks at the context first and sends nothing when it has ended. *)
CommitCheck ==
  /\ pc = "commit"
  /\ \/ OpErr = "live" /\ tx = "open" /\ Goto("send")
     \/ OpErr # "live" /\ tx = "open"
        /\ pc' = "commitRollback" /\ reason' = OpErr /\ UNCHANGED unknown
     \/ tx = "aborted" /\ OutcomeUnknown  \* ErrTxDone
  /\ UNCHANGED <<db, ctl, ctxs, data>>

(* Only a confirmed ROLLBACK makes the outcome of an unsent COMMIT known. *)
CommitRollback ==
  /\ pc = "commitRollback"
  /\ \/ TxRolledBack /\ Finish(reason)
     \/ TxFinished /\ OutcomeUnknown
     \/ TxOrphaned /\ OutcomeUnknown
  /\ UNCHANGED <<table, touched, purged, ctl, ctxs, data>>

SendCommit ==
  /\ pc = "send"
  /\ \/ tx = "open" /\ tx' = "sent" /\ Goto("ack")
     \/ tx = "aborted" /\ UNCHANGED tx /\ OutcomeUnknown
  /\ UNCHANGED <<table, touched, pending, purged, ctl, ctxs, data>>

CommitAckLost_IsFailure ==
  /\ pc = "ack"
  /\ Finish("failed")
  /\ UNCHANGED <<db, ctl, ctxs, data>>

(* The COMMIT's reply never arrives or is an error. *)
CommitAckLost ==
  /\ pc = "ack"
  /\ OutcomeUnknown
  /\ UNCHANGED <<db, ctl, ctxs, data>>

CommitAcked_DoneBeforeReceipt ==
  /\ pc = "ack" /\ tx = "committed"
  /\ tx' = "none"
  /\ committed' = committed + Cardinality(ids)
  /\ batches' = batches + 1
  /\ opCtx' = "live"
  /\ IF committed' >= MaxRows THEN Finish("budget_reached") ELSE Goto("receipt")
  /\ UNCHANGED <<table, touched, pending, purged, ctl, runCtx, approval,
                 lastID, ids, receipts>>

CommitAcked ==
  /\ pc = "ack" /\ tx = "committed"
  /\ tx' = "none"
  /\ committed' = committed + Cardinality(ids)
  /\ batches' = batches + 1
  /\ opCtx' = "live"
  /\ Goto("receipt")
  /\ UNCHANGED <<table, touched, pending, purged, ctl, runCtx, approval,
                 lastID, ids, receipts>>

-----------------------------------------------------------------------------
(* The AfterCommit hook, the cursor, the rate limit.                         *)

ReceiptAccepted ==
  /\ pc = "receipt"
  /\ receipts' = Append(receipts, committed)
  /\ lastID' = LastOf(ids)
  /\ IF committed >= MaxRows THEN Finish("budget_reached") ELSE Goto("wait")
  /\ UNCHANGED <<db, ctl, ctxs, ids, committed, batches>>

ReceiptRefused ==
  /\ pc = "receipt"
  /\ receipts' = Append(receipts, committed)
  /\ Finish("failed")
  /\ UNCHANGED <<db, ctl, ctxs, lastID, ids, committed, batches>>

RateWait ==
  /\ pc = "wait"
  /\ \/ runCtx # "live" /\ Finish(runCtx)
     \/ Goto("loop")
  /\ UNCHANGED <<db, ctl, ctxs, data>>

Return_NotOnPanic ==
  /\ pc = "return" /\ reason # "outcome_unknown"
  /\ pc' = "done"
  /\ runCtx' = Canceled(runCtx)
  /\ cancelFn' = FALSE
  /\ caller' = [c \in Callers |-> IF caller[c] = "running" THEN "returned" ELSE caller[c]]
  /\ UNCHANGED <<db, data, res, opCtx, approval, stopped, stop, wait>>

(* Run's deferred function: cancel, unpublish, close(done).                  *)
Return ==
  /\ pc = "return"
  /\ pc' = "done"
  /\ runCtx' = Canceled(runCtx)
  /\ cancelFn' = FALSE
  /\ caller' = [c \in Callers |-> IF caller[c] = "running" THEN "returned" ELSE caller[c]]
  /\ UNCHANGED <<db, data, res, opCtx, approval, stopped, stop, wait>>

-----------------------------------------------------------------------------
(* Stop and Wait.                                                            *)

StopStores(s) ==
  /\ stop[s] = "idle"
  /\ stopped' = TRUE
  /\ stop' = [stop EXCEPT ![s] = "stored"]
  /\ UNCHANGED <<db, ctxs, data, res, pc, caller, cancelFn, wait>>

StopLoads(s) ==
  /\ stop[s] = "stored"
  /\ stop' = [stop EXCEPT ![s] = IF cancelFn THEN "loaded" ELSE "returned"]
  /\ UNCHANGED <<db, ctxs, data, res, pc, caller, cancelFn, stopped, wait>>

StopCancels(s) ==
  /\ stop[s] = "loaded"
  /\ stop' = [stop EXCEPT ![s] = "returned"]
  /\ runCtx' = Canceled(runCtx)
  /\ approval' = Stale(approval)
  /\ UNCHANGED <<db, data, res, pc, opCtx, caller, cancelFn, stopped, wait>>

WaitReturns_OnStop(w) ==
  /\ wait[w] = "waiting"
  /\ \/ stopped /\ wait' = [wait EXCEPT ![w] = "confirmed"]
     \/ wait' = [wait EXCEPT ![w] = "gaveup"]
  /\ UNCHANGED <<db, ctxs, data, res, pc, caller, cancelFn, stopped, stop>>

(* Wait returns nil once done is closed, or with its own context's error.    *)
WaitReturns(w) ==
  /\ wait[w] = "waiting"
  /\ \/ pc = "done" /\ wait' = [wait EXCEPT ![w] = "confirmed"]
     \/ wait' = [wait EXCEPT ![w] = "gaveup"]
  /\ UNCHANGED <<db, ctxs, data, res, pc, caller, cancelFn, stopped, stop>>

-----------------------------------------------------------------------------
(* The database: other clients and the server's side of COMMIT.              *)

(* Another client inserts, updates or deletes a row the batch transaction    *)
(* has not locked.                                                           *)
OtherClientWrites(id) ==
  /\ id \notin pending
  /\ Cardinality(touched \cup {id}) <= MaxTouched
  /\ \E state \in RowState \ {table[id]} : table' = [table EXCEPT ![id] = state]
  /\ touched' = touched \cup {id}
  /\ UNCHANGED <<tx, pending, purged, ctl, ctxs, data, res, pc>>

ServerCommits ==
  /\ tx = "sent"
  /\ tx' = "committed"
  /\ table' = [id \in Ids |-> IF id \in pending THEN "absent" ELSE table[id]]
  /\ purged' = purged \cup pending
  /\ pending' = {}
  /\ UNCHANGED <<touched, ctl, ctxs, data, res, pc>>

(* The COMMIT fails at the server or never reaches it; a session whose       *)
(* connection broke is rolled back.                                          *)
ServerAborts ==
  /\ tx \in {"sent", "orphan"}
  /\ tx' = "aborted"
  /\ pending' = {}
  /\ UNCHANGED <<table, touched, purged, ctl, ctxs, data, res, pc>>

-----------------------------------------------------------------------------
Runner ==
  \/ Publish \/ CheckStopped \/ LoopHead
  \/ SelectReturns \/ SelectFails
  \/ GuardApproves \/ GuardRefuses \/ HookPanics \/ Recheck
  \/ Begin \/ Exec \/ ExecFails \/ Rollback
  \/ CommitCheck \/ CommitRollback \/ SendCommit \/ CommitAcked \/ CommitAckLost
  \/ ReceiptAccepted \/ ReceiptRefused \/ RateWait \/ Return

Next ==
  \/ \E c \in Callers : Run(c)
  \/ Runner
  \/ OpTimeout
  \/ \E cause \in {"canceled", "timeout"} : RunCtxEnds(cause)
  \/ AwaitDone
  \/ \E s \in Stoppers : StopStores(s) \/ StopLoads(s) \/ StopCancels(s)
  \/ \E w \in Waiters : WaitReturns(w)
  \/ \E id \in Ids : OtherClientWrites(id)
  \/ ServerCommits \/ ServerAborts

(* Calls that wait for the server or a hook come back once their context has *)
(* ended; COMMIT and ROLLBACK come back by themselves; both deadlines expire; *)
(* the goroutine is scheduled.  Nothing obliges a hook or a statement to     *)
(* answer before its deadline, and nothing obliges anyone to call Stop.      *)
Blocked == pc \in {"select", "guard", "exec", "receipt", "begin"}
Fairness ==
  /\ WF_vars(~Blocked /\ Runner)
  /\ WF_vars(Blocked /\ OpErr # "live" /\ Runner)
  /\ WF_vars(OpTimeout)
  /\ WF_vars(RunCtxEnds("timeout"))

Spec == Init /\ [][Next]_vars
FairSpec == Spec /\ Fairness

-----------------------------------------------------------------------------
(* Properties.                                                               *)

(* Once a run has ended with a known outcome, CommittedRows counts exactly   *)
(* the rows its transactions removed and no COMMIT of it is still under way  *)
(* at the server; an unknown outcome leaves at most one batch in doubt.      *)
KnownOutcomeIsExact ==
  pc \in {"return", "done"} =>
    IF unknown
    THEN Cardinality(purged) \in committed..(committed + BatchSize)
    ELSE tx # "sent" /\ committed = Cardinality(purged)

(* MaxRows bounds the rows that are gone at every moment, whatever was lost, *)
(* timed out or written by others in between.                                *)
BudgetHolds == Cardinality(purged) <= MaxRows

(* AfterCommit is called once per committed batch, in order, with the total  *)
(* so far, and never more than one batch behind: no statement of the next    *)
(* batch runs before the last one was reported.                              *)
EveryCommitIsReported ==
  /\ Len(receipts) = batches - (IF pc = "receipt" THEN 1 ELSE 0)
  /\ \A n \in 1..Len(receipts) :
       receipts[n] - (IF n = 1 THEN 0 ELSE receipts[n - 1]) \in 1..BatchSize
  /\ pc # "receipt" /\ batches > 0 => receipts[batches] = committed

(* A run that reports the target exhausted left behind no eligible row that  *)
(* other clients kept their hands off.                                       *)
ExhaustedLeavesNothing ==
  reason = "exhausted" => \A id \in Ids \ touched : table[id] # "old"

(* A row is removed only while it is before the cutoff, even when it was     *)
(* updated between the candidate read and the DELETE.                        *)
OnlyEligibleRowsGo == [][\A id \in purged' \ purged : table[id] = "old"]_vars

DeleteRuns == pending = {} /\ pending' # {}

(* No DELETE runs on an approval whose statement deadline has passed, and    *)
(* none without an approval given for this very batch.                       *)
DeletesAreFreshlyApproved == [][DeleteRuns => approval = "fresh"]_vars

(* After any Stop has returned no further DELETE runs, also when it raced    *)
(* the start of Run.                                                         *)
StopIsNeverLost == [][DeleteRuns => \A s \in Stoppers : stop[s] # "returned"]_vars

(* After Wait has confirmed a run with a known outcome nothing it did        *)
(* changes the table any more.                                               *)
WaitConfirmsQuiet ==
  [][(\E w \in Waiters : wait[w] = "confirmed") /\ ~unknown => purged' = purged /\ ~DeleteRuns]_vars

(* A started run ends, although hooks and statements may hang until their    *)
(* deadline.                                                                 *)
EveryRunEnds == pc = "publish" ~> pc = "done"

(* The run implements the budgeted purge that was approved.                  *)
PurgeOutcome ==
  IF pc \in {"return", "done"} THEN (IF unknown THEN "unknown" ELSE "exact")
  ELSE "running"
Budgeted == INSTANCE BudgetedDelete WITH acked <- committed, outcome <- PurgeOutcome
ImplementsBudgetedDelete == Budgeted!Spec

=============================================================================
