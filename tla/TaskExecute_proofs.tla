-------------------------- MODULE TaskExecute_proofs --------------------------
(***************************************************************************)
(* Proofs about TaskExecute, for every number of callers, stoppers and     *)
(* transactions and every route.                                           *)
(*                                                                         *)
(* The inductive invariant IInv has one part per subject.  Serial: the     *)
(* callback token is out while a callback runs.  Joined: the end of the    *)
(* monitor, of the strategy and of both, and what each implies.  Early:    *)
(* what has not happened before Execute enters its select.  Quiet and      *)
(* Surfaced: what holds once Execute has left it.                          *)
(***************************************************************************)
EXTENDS TaskExecute, TLAPS

Serial == callbacks \in {0, 1} /\ (token => callbacks = 0)

Joined ==
  /\ strat # "running" => ~flight
  /\ errChan \in {"nil", "context", "error"} => strat = "done"
  /\ tasksDone => strat = "done" /\ monitor = "done"
  /\ monitor = "done" => RunCtxEnded \/ finished

(* The transaction whose COMMIT is at the server is one of the Txns. *)
InFlight == flight => Executes /\ work < Txns

Early ==
  /\ exec \notin {"progress", "returned"} => ~ended /\ result = ""
  /\ exec \notin {"loop", "progress", "returned"} => strat = "off"

Quiet ==
  exec \in {"progress", "returned"} /\ result \in {"nil", "error"} => strat # "running"

Surfaced == result = "nil" => finished \/ ctx # "live"

IInv == TypeOK /\ Serial /\ InFlight /\ Joined /\ Early /\ Quiet /\ Surfaced

-----------------------------------------------------------------------------
LEMMA InitIInv == Init => IInv
<1> SUFFICES ASSUME Init PROVE IInv
  OBVIOUS
<1>1. TypeOK
  <2>1. 0 \in 0..Txns
    BY ExecuteAssumption
  <2>2. /\ caller \in [Callers -> CallerState] /\ stop \in [Stoppers -> StopState]
        /\ ctx \in ContextState /\ exec \in ExecuteState /\ result \in Result
    BY DEF Init, CallerState, StopState, ContextState, ExecuteState, Result
  <2>3. /\ monitor \in Goroutine /\ strat \in Goroutine /\ reporter \in Goroutine
        /\ outcome \in Outcome /\ errChan \in ErrChan
    BY DEF Init, Goroutine, Outcome, ErrChan
  <2> QED BY <2>1, <2>2, <2>3 DEF Init, TypeOK
<1>2. Serial /\ InFlight
  BY DEF Init, Serial, InFlight
<1>3. Joined /\ Early /\ Quiet /\ Surfaced
  BY DEF Init, Joined, Early, Quiet, Surfaced
<1> QED BY <1>1, <1>2, <1>3 DEF IInv

(* The steps, by the goroutine that takes them. *)
Outside ==
  \/ \E c \in Callers : Run(c)
  \/ \E s \in Stoppers : Stop(s)
  \/ \E cause \in Causes : CallerEnds(cause)
Selecting == TakesContext \/ TakesError \/ TakesNil \/ TakesTasksDone
Reporting == Tick \/ ReporterEnds \/ CallbackEnds

LEMMA StepSplit ==
  [Next]_vars => \/ Outside \/ Selecting \/ Reporting \/ Strategy
                 \/ Publish \/ StartMonitor \/ Preflight \/ Return \/ TasksEnd \/ MonitorEnds
                 \/ UNCHANGED vars
BY DEF Next, Outside, Selecting, Reporting, Executing

(* What a step of the strategy does. *)
LEMMA StrategyFacts ==
  ASSUME TypeOK, InFlight, Strategy
  PROVE  /\ StratOnly
         /\ strat = "running" \/ flight
         /\ \/ UNCHANGED <<strat, outcome, errChan>>
            \/ flight' = FALSE /\ \E res \in {"nil", "context", "error"} : StratReturns(res)
         /\ work' = work \/ (flight /\ work' = work + 1)
         /\ flight' = FALSE \/ (flight' = TRUE /\ work' = work /\ work < Txns /\ Executes)
         /\ finished' = finished \/ finished' = TRUE
<1> USE DEF TypeOK
<1>1. CASE SendCommit
  BY <1>1 DEF SendCommit
<1>2. CASE CommitSucceeds
  BY <1>2 DEF CommitSucceeds
<1>3. CASE CommitFails
  BY <1>3 DEF CommitFails
<1>4. CASE StratFails
  BY <1>4 DEF StratFails
<1>5. CASE StratStops
  BY <1>5 DEF StratStops
<1>6. CASE StratCompletes
  BY <1>6 DEF StratCompletes
<1>7. CASE DryRunSample
  BY <1>7 DEF DryRunSample, InFlight
<1> QED BY <1>1, <1>2, <1>3, <1>4, <1>5, <1>6, <1>7 DEF Strategy

LEMMA StepTypeOK == TypeOK /\ Serial /\ InFlight /\ [Next]_vars => TypeOK'
<1> SUFFICES ASSUME TypeOK, Serial, InFlight, [Next]_vars PROVE TypeOK'
  OBVIOUS
<1> USE DEF TypeOK, api, main, chunks, report
<1>1. ASSUME NEW c \in Callers, Run(c) PROVE TypeOK'
  BY <1>1 DEF Run, CallerState, ExecuteState
<1>2. ASSUME NEW s \in Stoppers, Stop(s) PROVE TypeOK'
  BY <1>2 DEF Stop, StopState, ContextState
<1>3. ASSUME NEW cause \in Causes, CallerEnds(cause) PROVE TypeOK'
  <2>1. ctx' \in ContextState
    BY <1>3, ExecuteAssumption DEF CallerEnds, ContextState
  <2> QED BY <1>3, <2>1 DEF CallerEnds
<1>4. CASE Selecting
  <2>1. exec' \in ExecuteState /\ errChan' \in ErrChan /\ ended' \in BOOLEAN
    BY <1>4 DEF Selecting, TakesContext, TakesError, TakesNil, TakesTasksDone, Leaves,
       ExecuteState, ErrChan
  <2>2. result' \in Result
    BY <1>4 DEF Selecting, TakesContext, TakesError, TakesNil, TakesTasksDone, Leaves, Reason,
       Result
  <2>3. UNCHANGED <<plan, api, ctx, monitor, strat, outcome, work, flight, finished, tasksDone,
                    report>>
    BY <1>4 DEF Selecting, TakesContext, TakesError, TakesNil, TakesTasksDone, Leaves
  <2> QED BY <2>1, <2>2, <2>3
<1>5. CASE Publish \/ StartMonitor
  <2>1. exec' \in ExecuteState /\ monitor' \in Goroutine /\ cancelFn' \in BOOLEAN
    BY <1>5 DEF Publish, StartMonitor, ExecuteState, Goroutine
  <2>2. UNCHANGED <<plan, caller, stop, ctx, result, ended, strat, outcome, work, flight, finished,
                    errChan, tasksDone, reporter, reported, token, callbacks>>
    BY <1>5 DEF Publish, StartMonitor
  <2> QED BY <2>1, <2>2
<1>6. CASE Preflight
  <2>1. exec' \in ExecuteState /\ result' \in Result /\ caller' \in [Callers -> CallerState]
    BY <1>6 DEF Preflight, ReturnsNow, ExecuteState, Result, CallerState
  <2>2. strat' \in Goroutine /\ reporter' \in Goroutine
    BY <1>6 DEF Preflight, Goroutine
  <2> QED BY <1>6, <2>1, <2>2 DEF Preflight, ReturnsNow
<1>7. CASE Return
  <2>1. /\ exec' = "returned" /\ result' = result /\ ended' = TRUE /\ cancelFn' = FALSE
        /\ caller' = [c \in Callers |-> IF caller[c] = "running" THEN "returned" ELSE caller[c]]
        /\ UNCHANGED <<plan, stop, ctx, monitor, chunks, tasksDone, report>>
    BY <1>7 DEF Return, ReturnsNow
  <2>2. exec' \in ExecuteState
    BY <2>1 DEF ExecuteState
  <2>3. caller' \in [Callers -> CallerState]
    BY <2>1 DEF CallerState
  <2> QED BY <2>1, <2>2, <2>3
<1>8. CASE TasksEnd \/ MonitorEnds
  <2>1. CASE TasksEnd
    BY <2>1 DEF TasksEnd
  <2>2. CASE MonitorEnds
    <3>1. monitor' \in Goroutine
      BY <2>2 DEF MonitorEnds, Goroutine
    <3> QED BY <2>2, <3>1 DEF MonitorEnds
  <2> QED BY <1>8, <2>1, <2>2
<1>9. CASE Strategy
  <2>1. work' \in 0..Txns
    <3>1. work' = work \/ (flight /\ work' = work + 1)
      BY <1>9, StrategyFacts
    <3>2. work \in 0..Txns /\ (flight => work < Txns)
      BY DEF InFlight
    <3> QED BY <3>1, <3>2, ExecuteAssumption
  <2>2. strat' \in Goroutine /\ outcome' \in Outcome /\ errChan' \in ErrChan
    BY <1>9, StrategyFacts DEF StratReturns, Goroutine, Outcome, ErrChan
  <2>3. flight' \in BOOLEAN /\ finished' \in BOOLEAN
    BY <1>9, StrategyFacts
  <2> QED BY <1>9, <2>1, <2>2, <2>3, StrategyFacts DEF StratOnly
<1>10. CASE Reporting
  <2>1. callbacks' \in Nat /\ token' \in BOOLEAN
    <3>1. \/ UNCHANGED <<callbacks, token>>
          \/ callbacks' = callbacks + 1 /\ token' = FALSE
          \/ callbacks > 0 /\ callbacks' = callbacks - 1 /\ token' = TRUE
      BY <1>10 DEF Reporting, Tick, ReporterEnds, CallbackEnds, Invoke
    <3>2. callbacks \in Nat /\ token \in BOOLEAN
      OBVIOUS
    <3> HIDE DEF TypeOK
    <3>3. callbacks' \in Nat
      BY <3>1, <3>2
    <3>4. token' \in BOOLEAN
      BY <3>1, <3>2
    <3> QED BY <3>3, <3>4
  <2>2. reporter' \in Goroutine /\ reported' \in BOOLEAN
    BY <1>10 DEF Reporting, Tick, ReporterEnds, CallbackEnds, Goroutine
  <2>3. UNCHANGED <<plan, api, ctx, main, monitor, chunks, tasksDone>>
    BY <1>10 DEF Reporting, Tick, ReporterEnds, CallbackEnds
  <2> QED BY <2>1, <2>2, <2>3
<1>11. CASE UNCHANGED vars
  BY <1>11 DEF vars
<1> QED BY <1>1, <1>2, <1>3, <1>4, <1>5, <1>6, <1>7, <1>8, <1>9, <1>10, <1>11, StepSplit
        DEF Outside

LEMMA StepSerial == Serial /\ [Next]_vars => Serial'
<1> SUFFICES ASSUME Serial, [Next]_vars PROVE Serial'
  OBVIOUS
<1>1. CASE Reporting
  <2>1. \/ UNCHANGED <<callbacks, token>>
        \/ token /\ callbacks' = callbacks + 1 /\ token' = FALSE
        \/ callbacks > 0 /\ callbacks' = callbacks - 1
    BY <1>1 DEF Reporting, Tick, ReporterEnds, CallbackEnds, Invoke
  <2> QED BY <2>1 DEF Serial
<1>2. ASSUME ~Reporting PROVE UNCHANGED <<callbacks, token>>
  <2>1. CASE Outside \/ UNCHANGED vars
    BY <2>1 DEF Outside, Run, Stop, CallerEnds, vars, report
  <2>2. CASE Selecting
    BY <2>2 DEF Selecting, TakesContext, TakesError, TakesNil, TakesTasksDone, Leaves, report
  <2>3. CASE Publish \/ StartMonitor \/ Preflight \/ Return \/ TasksEnd \/ MonitorEnds
    BY <2>3 DEF Publish, StartMonitor, Preflight, Return, TasksEnd, MonitorEnds, report
  <2>4. CASE Strategy
    BY <2>4 DEF Strategy, SendCommit, CommitSucceeds, CommitFails, StratFails, StratStops,
       StratCompletes, DryRunSample, StratOnly, report
  <2> QED BY <1>2, <2>1, <2>2, <2>3, <2>4, StepSplit
<1> QED BY <1>1, <1>2 DEF Serial

Life == InFlight /\ Joined /\ Early /\ Quiet /\ Surfaced

(* Steps around the select and the strategy.  The monitor may be started     *)
(* only before the strategy is.                                              *)
LEMMA FrameLife ==
  ASSUME Life, UNCHANGED <<plan, ended, result, strat, work, flight, errChan, finished>>,
         \/ exec' = exec
         \/ exec \in {"idle", "publish", "setup"} /\ exec' \in {"publish", "setup", "preflight"},
         ctx # "live" => ctx' # "live",
         tasksDone' => tasksDone \/ (strat = "done" /\ monitor = "done"),
         monitor' = "done" => monitor = "done" \/ RunCtxEnded \/ finished,
         monitor = "done" => monitor' = "done" \/ exec = "setup"
  PROVE  Life'
<1>1. InFlight'
  BY DEF Life, InFlight, Executes
<1>2. Early'
  BY DEF Life, Early
<1>3. Joined'
  <2>1. exec = "setup" => strat = "off"
    BY DEF Life, Early
  <2> QED BY <2>1 DEF Life, Joined, RunCtxEnded
<1>4. Quiet'
  BY DEF Life, Quiet, Early
<1>5. Surfaced'
  BY DEF Life, Surfaced
<1> QED BY <1>1, <1>2, <1>3, <1>4, <1>5 DEF Life

LEMMA OutsideLife == Life /\ (Outside \/ Publish \/ StartMonitor) => Life'
<1> SUFFICES ASSUME Life, Outside \/ Publish \/ StartMonitor PROVE Life'
  OBVIOUS
<1>1. ASSUME NEW c \in Callers, Run(c) PROVE Life'
  BY <1>1, FrameLife DEF Run, chunks
<1>2. ASSUME NEW s \in Stoppers, Stop(s) PROVE Life'
  BY <1>2, FrameLife DEF Stop, main, chunks
<1>3. ASSUME NEW cause \in Causes, CallerEnds(cause) PROVE Life'
  <2>1. cause # "live"
    BY ExecuteAssumption
  <2> QED BY <1>3, <2>1, FrameLife DEF CallerEnds, main, chunks
<1>4. CASE Publish
  BY <1>4, FrameLife DEF Publish, chunks
<1>5. CASE StartMonitor
  BY <1>5, FrameLife DEF StartMonitor, chunks
<1> QED BY <1>1, <1>2, <1>3, <1>4, <1>5 DEF Outside

LEMMA WatchingLife ==
  Life /\ (TasksEnd \/ MonitorEnds \/ Reporting \/ UNCHANGED vars) => Life'
<1> SUFFICES ASSUME Life, TasksEnd \/ MonitorEnds \/ Reporting \/ UNCHANGED vars PROVE Life'
  OBVIOUS
<1>1. CASE TasksEnd
  BY <1>1, FrameLife DEF TasksEnd, main, chunks
<1>2. CASE MonitorEnds
  BY <1>2, FrameLife DEF MonitorEnds, main, chunks
<1>3. CASE Reporting
  <2>1. UNCHANGED <<plan, ctx, main, monitor, chunks, tasksDone>>
    BY <1>3 DEF Reporting, Tick, ReporterEnds, CallbackEnds
  <2> QED BY <2>1, FrameLife DEF main, chunks
<1>4. CASE UNCHANGED vars
  BY <1>4, FrameLife DEF vars, main, chunks
<1> QED BY <1>1, <1>2, <1>3, <1>4

LEMMA PreflightLife == Life /\ Preflight => Life'
<1> SUFFICES ASSUME Life, Preflight PROVE Life'
  OBVIOUS
<1>1. /\ UNCHANGED <<plan, ctx, monitor, work, flight, finished, errChan, tasksDone>>
      /\ exec = "preflight"
      /\ \/ exec' = "loop" /\ strat' = "running" /\ UNCHANGED <<result, ended>>
         \/ exec' = "returned" /\ result' = "error" /\ ended' = TRUE /\ strat' = strat
  BY DEF Preflight, ReturnsNow
<1>2. strat = "off" /\ ~ended /\ result = ""
  BY <1>1 DEF Life, Early
<1>3. ~flight /\ ~tasksDone /\ errChan \notin {"nil", "context", "error"}
  BY <1>2 DEF Life, Joined
<1>4. InFlight'
  BY <1>1, <1>3 DEF InFlight
<1>5. Joined'
  BY <1>1, <1>3 DEF Life, Joined, RunCtxEnded
<1>6. Early' /\ Quiet'
  <2>1. exec' = "returned" \/ (exec' = "loop" /\ ~ended' /\ result' = "")
    BY <1>1, <1>2
  <2>2. Early'
    BY <2>1 DEF Early
  <2>3. exec' = "loop" => result' = ""
    BY <2>1
  <2>4. exec' = "returned" => strat' = "off"
    BY <1>1, <1>2
  <2> QED BY <2>1, <2>2, <2>3, <2>4 DEF Quiet
<1>7. Surfaced'
  BY <1>1, <1>2 DEF Surfaced
<1> QED BY <1>4, <1>5, <1>6, <1>7 DEF Life

LEMMA ReturnLife == Life /\ Return => Life'
<1> SUFFICES ASSUME Life, Return PROVE Life'
  OBVIOUS
<1>1. /\ UNCHANGED <<plan, ctx, monitor, strat, work, flight, finished, errChan, tasksDone, result>>
      /\ exec = "progress" /\ exec' = "returned" /\ ended' = TRUE
  BY DEF Return, ReturnsNow, chunks
<1>2. InFlight' /\ Joined'
  BY <1>1 DEF Life, InFlight, Executes, Joined, RunCtxEnded
<1>3. Early'
  BY <1>1 DEF Early
<1>4. Quiet' /\ Surfaced'
  BY <1>1 DEF Life, Quiet, Surfaced
<1> QED BY <1>2, <1>3, <1>4 DEF Life

LEMMA SelectingLife == Life /\ Selecting => Life'
<1> SUFFICES ASSUME Life, Selecting PROVE Life'
  OBVIOUS
<1>1. /\ UNCHANGED <<plan, ctx, strat, work, flight, tasksDone, monitor, finished>>
      /\ exec = "loop" /\ errChan' \in {errChan, "taken"}
  BY DEF Selecting, TakesContext, TakesError, TakesNil, TakesTasksDone, Leaves
<1>2. Joined
  BY DEF Life
<1>3. ~ended /\ result = ""
  BY <1>1 DEF Life, Early
<1>4. \/ UNCHANGED <<exec, result, ended>>
      \/ /\ exec' = "progress" /\ ended' = TRUE
         /\ \/ result' \in {"stopped", "timeout"}
            \/ result' = "error" /\ errChan = "error"
            \/ result' = "nil" /\ tasksDone
  BY DEF Selecting, TakesContext, TakesError, TakesNil, TakesTasksDone, Leaves, Reason, main
<1>5. tasksDone => finished \/ ctx # "live"
  BY <1>2, <1>3 DEF Joined, RunCtxEnded
<1>6. InFlight' /\ Joined'
  BY <1>1, <1>2, <1>3, <1>4 DEF Life, InFlight, Executes, Joined, RunCtxEnded
<1>7. Quiet'
  BY <1>1, <1>2, <1>3, <1>4 DEF Joined, Quiet
<1>8. Early'
  <2>1. exec' = "progress" \/ (exec' = "loop" /\ ended' = ended /\ result' = result)
    BY <1>1, <1>4
  <2>2. exec' = "progress" \/ (exec' = "loop" /\ ~ended' /\ result' = "")
    BY <1>3, <2>1
  <2> QED BY <2>2 DEF Early
<1>9. Surfaced'
  BY <1>1, <1>3, <1>4, <1>5 DEF Surfaced
<1> QED BY <1>6, <1>7, <1>8, <1>9 DEF Life

LEMMA StrategyLife == TypeOK /\ Life /\ Strategy => Life'
<1> SUFFICES ASSUME TypeOK, Life, Strategy PROVE Life'
  OBVIOUS
<1>1. /\ UNCHANGED <<plan, ctx, exec, result, ended, monitor, tasksDone>>
      /\ strat = "running"
      /\ \/ UNCHANGED <<strat, errChan>>
         \/ strat' = "done" /\ flight' = FALSE
      /\ finished => finished'
  BY StrategyFacts DEF StratOnly, StratReturns, main, Life, Joined
<1>2. InFlight'
  BY <1>1, StrategyFacts DEF Life, InFlight, Executes
<1>3. Joined'
  BY <1>1 DEF Life, Joined, RunCtxEnded
<1>4. Early'
  BY <1>1 DEF Life, Early
<1>5. Quiet' /\ Surfaced'
  BY <1>1 DEF Life, Quiet, Surfaced
<1> QED BY <1>2, <1>3, <1>4, <1>5 DEF Life

LEMMA StepLife == TypeOK /\ Life /\ [Next]_vars => Life'
BY OutsideLife, WatchingLife, PreflightLife, ReturnLife, SelectingLife, StrategyLife, StepSplit

LEMMA Invariance == Spec => []IInv
<1>1. IInv /\ [Next]_vars => IInv'
  BY StepTypeOK, StepSerial, StepLife DEF IInv, Life
<1> QED BY <1>1, InitIInv, PTL DEF Spec

-----------------------------------------------------------------------------
(* Every variable has its type. *)
THEOREM Types == Spec => []TypeOK
<1>1. IInv => TypeOK
  BY DEF IInv
<1> QED BY <1>1, Invariance, PTL

(* The callback token keeps the user's callback from running twice at a      *)
(* time, through ticks, the final snapshot and panics.                       *)
THEOREM CallbacksAreSerial == Spec => []CallbacksDoNotOverlap
<1>1. IInv => CallbacksDoNotOverlap
  BY DEF IInv, Serial, CallbacksDoNotOverlap
<1> QED BY <1>1, Invariance, PTL

(* Execute returns nil only after both goroutines ended, and the monitor     *)
(* ends only with the context or with a finished writer: so a failure can be *)
(* passed over only in these two cases.                                      *)
THEOREM FailuresAreReported == Spec => []FailuresSurface
<1>1. IInv => FailuresSurface
  BY DEF IInv, Surfaced, FailuresSurface
<1> QED BY <1>1, Invariance, PTL

(* Once Execute has returned by itself no COMMIT of the strategy is sent or  *)
(* answered any more.                                                        *)
THEOREM OwnEndIsQuiet == Spec => QuietAfterOwnEnd
<1>1. IInv /\ [Next]_vars
        => [exec = "returned" /\ result \in {"nil", "error"} => UNCHANGED <<work, flight>>]_vars
  <2> SUFFICES ASSUME IInv, [Next]_vars, exec = "returned", result \in {"nil", "error"}
               PROVE  UNCHANGED <<work, flight>>
    OBVIOUS
  <2>1. strat # "running" /\ ~flight
    BY DEF IInv, Quiet, Joined
  <2>2. ~Strategy
    BY <2>1 DEF Strategy, SendCommit, CommitSucceeds, CommitFails, StratFails, StratStops,
       StratCompletes, DryRunSample
  <2>3. CASE Outside \/ UNCHANGED vars
    BY <2>3 DEF Outside, Run, Stop, CallerEnds, vars, chunks
  <2>4. CASE Selecting \/ Publish \/ StartMonitor \/ Preflight \/ Return
    BY <2>4 DEF Selecting, TakesContext, TakesError, TakesNil, TakesTasksDone, Leaves, Publish,
       StartMonitor, Preflight, Return, chunks
  <2>5. CASE TasksEnd \/ MonitorEnds \/ Reporting
    BY <2>5 DEF TasksEnd, MonitorEnds, Reporting, Tick, ReporterEnds, CallbackEnds, chunks
  <2> QED BY <2>2, <2>3, <2>4, <2>5, StepSplit
<1> QED BY <1>1, Invariance, PTL DEF Spec, QuietAfterOwnEnd
=============================================================================
