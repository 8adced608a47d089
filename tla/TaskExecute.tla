---------------------------- MODULE TaskExecute ----------------------------
(***************************************************************************)
(* task.Execute (src/task/task.go) and oak.Executor around it (src/oak.go): *)
(* Execute starts the lag monitor getStopTime, the chosen strategy, a      *)
(* goroutine that waits for both and the progress reporter, and then       *)
(* selects over the context's end, the strategy's error and the end of     *)
(* both.  Stop and the caller's deadline end the context from outside.     *)
(*                                                                         *)
(* The strategy is reduced to what the strategy modules show of it: it     *)
(* commits its transactions one at a time, and an ended context makes it   *)
(* return early, with nil or with the context's error.  A select with      *)
(* several ready cases takes any of them: the goroutine need not have been *)
(* parked in it when the first became ready.                               *)
(*                                                                         *)
(* A definition X_Y right before X is a broken variant of X; no action     *)
(* uses it.  The README says which property finds each of them.            *)
(***************************************************************************)
EXTENDS Naturals, FiniteSets

CONSTANTS
  Routes,     \* what selectStrategy may pick: "range", "covering" (or alike)
  DryRuns,    \* values of --dry-run
  Reporters,  \* progress: "none", "callback", "print"
  Txns,       \* bound: transactions the strategy has to commit
  Callers, Stoppers,  \* goroutines that call Executor.Run and Executor.Stop
  Causes      \* how the caller's context may end: "canceled", "timeout"

ASSUME ExecuteAssumption ==
  /\ Routes \subseteq {"range", "covering"} /\ DryRuns \subseteq BOOLEAN
  /\ Reporters \subseteq {"none", "callback", "print"}
  /\ Txns \in Nat /\ Causes \subseteq {"canceled", "timeout"}

VARIABLES
  plan,
  caller, cancelFn, stop,   \* Executor.Run calls, e.cancel, Stop calls
  ctx,        \* the context Execute was given
  ended,      \* Execute canceled runCtx itself (deferCancelOnce)
  exec, result,             \* Execute and what it returned
  monitor,    \* getStopTime
  strat, outcome, work, flight,  \* the strategy; a COMMIT at the server
  finished,   \* Writer.isFinished
  errChan,    \* executeErrChan
  tasksDone,  \* tasksDoneChan holds its token
  reporter, reported,       \* the progress goroutine, its done token
  token, callbacks          \* callbackToken, callbacks that are running

api    == <<caller, cancelFn, stop>>
main   == <<exec, result, ended>>
chunks == <<strat, outcome, work, flight, finished, errChan>>
report == <<reporter, reported, token, callbacks>>
vars   == <<plan, api, ctx, main, monitor, chunks, tasksDone, report>>

PlanType == [route : Routes, dry : DryRuns, progress : Reporters]
CallerState == {"idle", "running", "rejected", "returned"}
StopState == {"idle", "missed", "effective"}
ContextState == {"live", "canceled", "timeout"}
ExecuteState == {"idle", "publish", "setup", "preflight", "loop", "progress", "returned"}
Result == {"", "nil", "stopped", "timeout", "error"}
Goroutine == {"off", "running", "done"}
Outcome == {"", "nil", "context", "error"}
ErrChan == {"empty", "nil", "context", "error", "taken"}

TypeOK ==
  /\ plan \in PlanType
  /\ caller \in [Callers -> CallerState]
  /\ cancelFn \in BOOLEAN /\ stop \in [Stoppers -> StopState]
  /\ ctx \in ContextState /\ ended \in BOOLEAN
  /\ exec \in ExecuteState /\ result \in Result
  /\ monitor \in Goroutine /\ strat \in Goroutine /\ outcome \in Outcome
  /\ work \in 0..Txns /\ flight \in BOOLEAN /\ finished \in BOOLEAN
  /\ errChan \in ErrChan /\ tasksDone \in BOOLEAN
  /\ reporter \in Goroutine /\ reported \in BOOLEAN
  /\ token \in BOOLEAN /\ callbacks \in Nat

Init ==
  /\ plan \in PlanType
  /\ caller = [c \in Callers |-> "idle"] /\ cancelFn = FALSE
  /\ stop = [s \in Stoppers |-> "idle"]
  /\ ctx = "live" /\ ended = FALSE
  /\ exec = "idle" /\ result = ""
  /\ monitor = "off" /\ strat = "off" /\ outcome = "" /\ work = 0 /\ flight = FALSE
  /\ finished = FALSE /\ errChan = "empty" /\ tasksDone = FALSE
  /\ reporter = "off" /\ reported = FALSE /\ token = TRUE /\ callbacks = 0

RunCtxEnded == ended \/ ctx # "live"

-----------------------------------------------------------------------------
(* oak.Executor. *)

Run(c) ==
  /\ caller[c] = "idle"
  /\ IF exec = "idle"
     THEN caller' = [caller EXCEPT ![c] = "running"] /\ exec' = "publish"
     ELSE caller' = [caller EXCEPT ![c] = "rejected"] /\ UNCHANGED exec
  /\ UNCHANGED <<plan, cancelFn, stop, ctx, result, ended, monitor, chunks, tasksDone, report>>

Publish ==
  /\ exec = "publish"
  /\ cancelFn' = TRUE /\ exec' = "setup"
  /\ UNCHANGED <<plan, caller, stop, ctx, result, ended, monitor, chunks, tasksDone, report>>

(* Stop cancels the run it finds; one that comes before Run has published    *)
(* its cancel function leaves no trace.                                      *)
Stop(s) ==
  /\ stop[s] = "idle"
  /\ stop' = [stop EXCEPT ![s] = IF cancelFn THEN "effective" ELSE "missed"]
  /\ ctx' = IF cancelFn /\ ctx = "live" THEN "canceled" ELSE ctx
  /\ UNCHANGED <<plan, caller, cancelFn, main, monitor, chunks, tasksDone, report>>

CallerEnds(cause) ==
  /\ exec \notin {"idle", "returned"} /\ ctx = "live"
  /\ ctx' = cause
  /\ UNCHANGED <<plan, api, main, monitor, chunks, tasksDone, report>>

-----------------------------------------------------------------------------
(* Execute. *)

StartMonitor ==
  /\ exec = "setup"
  /\ monitor' = "running" /\ exec' = "preflight"
  /\ UNCHANGED <<plan, api, ctx, result, ended, chunks, tasksDone, report>>

ReturnsNow(res) ==
  /\ exec' = "returned" /\ result' = res
  /\ caller' = [c \in Callers |-> IF caller[c] = "running" THEN "returned" ELSE caller[c]]
  /\ cancelFn' = FALSE /\ ended' = TRUE

(* A dry run skips the preflight; an EXPLAIN that fails is passed over; the  *)
(* confirmation may be refused.                                              *)
Preflight ==
  /\ exec = "preflight"
  /\ \/ /\ exec' = "loop" /\ strat' = "running"
        /\ reporter' = IF plan.progress = "none" THEN "off" ELSE "running"
        /\ UNCHANGED <<result, ended, caller, cancelFn>>
     \/ ~plan.dry /\ ReturnsNow("error") /\ UNCHANGED <<strat, reporter>>
  /\ UNCHANGED <<plan, stop, ctx, monitor, outcome, work, flight, finished, errChan,
                 tasksDone, reported, token, callbacks>>

(* The three cases of the select that end Execute: cancel, close the pool,   *)
(* wait for the reporter.                                                    *)
Leaves(res) ==
  /\ exec = "loop"
  /\ exec' = "progress" /\ result' = res /\ ended' = TRUE
  /\ UNCHANGED <<plan, api, ctx, monitor, strat, outcome, work, flight, finished, tasksDone,
                 report>>

Reason == IF ctx = "timeout" THEN "timeout" ELSE "stopped"

TakesContext_AwaitsTasks ==
  /\ ctx # "live" /\ tasksDone /\ Leaves(Reason) /\ UNCHANGED errChan

TakesContext ==
  /\ ctx # "live" /\ Leaves(Reason) /\ UNCHANGED errChan

(* normalizeStopError: the context's end is reported as a stop. *)
TakesError ==
  /\ \/ errChan = "error" /\ Leaves("error")
     \/ errChan = "context" /\ Leaves(Reason)
  /\ errChan' = "taken"

(* No error: the select is entered again without this case. *)
TakesNil ==
  /\ exec = "loop" /\ errChan = "nil"
  /\ errChan' = "taken"
  /\ UNCHANGED <<plan, api, ctx, main, monitor, strat, outcome, work, flight, finished,
                 tasksDone, report>>

TakesTasksDone ==
  /\ tasksDone /\ Leaves("nil") /\ UNCHANGED errChan

(* waitProgressDone: the reporter's token or three seconds. *)
Return ==
  /\ exec = "progress"
  /\ ReturnsNow(result)
  /\ UNCHANGED <<plan, stop, ctx, monitor, chunks, tasksDone, report>>

TasksEnd_MonitorOnly ==
  /\ strat # "off" /\ monitor = "done" /\ ~tasksDone
  /\ tasksDone' = TRUE
  /\ UNCHANGED <<plan, api, ctx, main, monitor, chunks, report>>

TasksEnd_StrategyOnly ==
  /\ strat = "done" /\ ~tasksDone
  /\ tasksDone' = TRUE
  /\ UNCHANGED <<plan, api, ctx, main, monitor, chunks, report>>

(* wg.Wait: monitor and strategy have ended. *)
TasksEnd ==
  /\ strat = "done" /\ monitor = "done" /\ ~tasksDone
  /\ tasksDone' = TRUE
  /\ UNCHANGED <<plan, api, ctx, main, monitor, chunks, report>>

MonitorEnds_OnContext ==
  /\ monitor = "running" /\ RunCtxEnded
  /\ monitor' = "done"
  /\ UNCHANGED <<plan, api, ctx, main, chunks, tasksDone, report>>

(* getStopTime ends with the context or once the writer is finished. *)
MonitorEnds ==
  /\ monitor = "running" /\ (RunCtxEnded \/ finished)
  /\ monitor' = "done"
  /\ UNCHANGED <<plan, api, ctx, main, chunks, tasksDone, report>>

-----------------------------------------------------------------------------
(* The strategy. *)

Executes == ~plan.dry \/ plan.route = "range"

StratReturns(res) == strat' = "done" /\ outcome' = res /\ errChan' = res
StratOnly == UNCHANGED <<plan, api, ctx, main, monitor, tasksDone, report>>

(* The range strategy takes the end marker, and sets isFinished, before it   *)
(* commits the last transaction.                                             *)
SendCommit ==
  /\ strat = "running" /\ Executes /\ ~RunCtxEnded /\ ~flight /\ work < Txns
  /\ flight' = TRUE
  /\ finished' = (finished \/ (plan.route = "range" /\ work = Txns - 1))
  /\ UNCHANGED <<strat, outcome, work, errChan>> /\ StratOnly

CommitSucceeds ==
  /\ flight
  /\ flight' = FALSE /\ work' = work + 1
  /\ UNCHANGED <<strat, outcome, finished, errChan>> /\ StratOnly

(* A COMMIT that fails may have taken effect. *)
CommitFails ==
  /\ flight
  /\ flight' = FALSE /\ work' \in {work, work + 1}
  /\ StratReturns("error")
  /\ UNCHANGED finished /\ StratOnly

StratFails ==
  /\ strat = "running" /\ Executes /\ ~flight
  /\ StratReturns("error")
  /\ UNCHANGED <<work, flight, finished>> /\ StratOnly

(* The context ended: the clean stop of the covering paths sets isFinished.  *)
StratStops ==
  /\ strat = "running" /\ Executes /\ ~flight /\ RunCtxEnded
  /\ \/ StratReturns("context") /\ UNCHANGED finished
     \/ StratReturns("nil") /\ finished' = (finished \/ plan.route = "covering")
  /\ UNCHANGED <<work, flight>> /\ StratOnly

StratCompletes ==
  /\ strat = "running" /\ Executes /\ ~flight /\ work = Txns
  /\ finished' = TRUE
  /\ StratReturns("nil")
  /\ UNCHANGED <<work, flight>> /\ StratOnly

(* PrintDryRunSample: no work, and isFinished stays FALSE. *)
DryRunSample ==
  /\ strat = "running" /\ ~Executes
  /\ StratReturns("nil")
  /\ UNCHANGED <<work, flight, finished>> /\ StratOnly

-----------------------------------------------------------------------------
(* The progress reporter. *)

Invoke_WithoutToken ==
  callbacks' = callbacks + (IF plan.progress = "callback" THEN 1 ELSE 0) /\ UNCHANGED token

(* asyncInvoke: a callback that is still running makes the tick a no-op.     *)
Invoke ==
  IF plan.progress = "callback" /\ token
  THEN callbacks' = callbacks + 1 /\ token' = FALSE
  ELSE UNCHANGED <<callbacks, token>>

Tick ==
  /\ reporter = "running" /\ callbacks < 2
  /\ Invoke
  /\ UNCHANGED <<plan, api, ctx, main, monitor, chunks, tasksDone, reporter, reported>>

ReporterEnds ==
  /\ reporter = "running" /\ RunCtxEnded
  /\ reporter' = "done" /\ reported' = TRUE
  /\ Invoke
  /\ UNCHANGED <<plan, api, ctx, main, monitor, chunks, tasksDone>>

(* The callback returns or panics. *)
CallbackEnds ==
  /\ callbacks > 0
  /\ callbacks' = callbacks - 1 /\ token' = TRUE
  /\ UNCHANGED <<plan, api, ctx, main, monitor, chunks, tasksDone, reporter, reported>>

-----------------------------------------------------------------------------
Executing ==
  \/ Publish \/ StartMonitor \/ TakesContext \/ TakesError \/ TakesNil \/ TakesTasksDone \/ Return
Strategy ==
  SendCommit \/ CommitSucceeds \/ CommitFails \/ StratFails \/ StratStops \/ StratCompletes
    \/ DryRunSample

Next ==
  \/ \E c \in Callers : Run(c)
  \/ \E s \in Stoppers : Stop(s)
  \/ \E cause \in Causes : CallerEnds(cause)
  \/ Executing \/ Preflight \/ TasksEnd \/ MonitorEnds
  \/ Strategy
  \/ Tick \/ ReporterEnds \/ CallbackEnds

Spec == Init /\ [][Next]_vars

(* Execute's own goroutines are scheduled.  The strategy may hang in a       *)
(* statement, the confirmation on stdin and a callback may never come back.  *)
FairSpec ==
  /\ Spec
  /\ WF_vars(Executing) /\ WF_vars(TasksEnd) /\ WF_vars(MonitorEnds) /\ WF_vars(ReporterEnds)

-----------------------------------------------------------------------------
(* Properties. *)

(* The user's callback never runs twice at a time, whatever ticks, the final *)
(* snapshot and slow or panicking callbacks do (runProgressCallback).        *)
CallbacksDoNotOverlap == callbacks <= 1

(* When Execute ends by itself, with nil or with the strategy's error, the   *)
(* strategy has ended and no COMMIT of it is at the server.                  *)
QuietAfterOwnEnd ==
  [][exec = "returned" /\ result \in {"nil", "error"} => UNCHANGED <<work, flight>>]_vars

(* A context that ends makes Execute return even when the strategy hangs in  *)
(* a statement or the callback never comes back.                             *)
StopReturns == (exec = "loop" /\ ctx # "live") ~> exec = "returned"

(* A strategy that has ended makes Execute return, without anyone ending the *)
(* context: the monitor does not keep it.  The dry runs of the covering      *)
(* paths are not among them: there the monitor keeps it.                     *)
StrategyEndReturns == (strat = "done" /\ Executes) ~> exec = "returned"

(* A failure of the strategy is reported unless the context ended or the     *)
(* writer was already marked finished: only then may the end of both         *)
(* goroutines be taken before the error.                                     *)
FailuresSurface == (result = "nil" /\ outcome = "error") => finished \/ ctx # "live"

(* The help on --dry-run: "Print sample SQL without executing".              *)
DryRunExecutesNothing == plan.dry => work = 0
=============================================================================
