-------------------------- MODULE ThrottleSignals --------------------------
(***************************************************************************)
(* How replica lag slows a run down: getStopTime (src/task/task.go) asks   *)
(* the replicas through SlaveChecker.CheckLag and puts signals into the    *)
(* channel bucketNum; the goroutine that executes chunks (Writer.Write,    *)
(* the covering and rowid strategies) drains it before each of them.  The  *)
(* lag gate that spreads a pause over partition workers is in              *)
(* PartitionStrategy.                                                      *)
(*                                                                         *)
(* A signal is LagThreshold or a wait in milliseconds, which depends on    *)
(* sleep, lag, chance and a correction and is 0 here.  currentLag, which   *)
(* only the status shows, is left out.                                     *)
(*                                                                         *)
(* A definition X_Y right before X is a broken variant of X; no action     *)
(* uses it.  The README says which property finds each of them.            *)
(***************************************************************************)
EXTENDS Integers, FiniteSets, Sequences

CONSTANTS
  Replicas,
  Lags,       \* what SHOW REPLICA STATUS may report, in seconds
  MaxLags,    \* values of --max-lag and UpdateMaxLag; 0 is no limit
  Cap,        \* the length at which the monitor stops sending (500)
  MaxChanges  \* bound: changes of replicas and of the limits in a behaviour

ASSUME ThrottleAssumption ==
  /\ IsFiniteSet(Replicas)
  /\ 0 \in Lags /\ Lags \subseteq Nat /\ MaxLags \subseteq Nat
  /\ Cap \in Nat \ {0} /\ MaxChanges \in Nat

LagThreshold == -1
Signal == {LagThreshold, 0}

VARIABLES
  checker,    \* there is a SlaveChecker: not --no-slaves, and it was created
  lagOf, broken,          \* the replicas: their lag, those that do not answer
  skipped,    \* slaveInfo.canSkip
  maxLag,     \* RateLimiter.maxLag
  pcM, todo, found, token,  \* getStopTime
  channel,    \* bucketNum
  pcW, taken, count,      \* the drain loop's index, bucketCount
  queued,     \* history: the channel's length when the loop was entered
  canceled, finished,     \* the context; Writer.isFinished
  changes

replicas == <<lagOf, broken, changes>>
monitor  == <<pcM, todo, found, token, skipped>>
writer   == <<pcW, taken, count, queued, finished>>
vars     == <<checker, replicas, maxLag, monitor, channel, writer, canceled>>

TypeOK ==
  /\ checker \in BOOLEAN
  /\ lagOf \in [Replicas -> Lags] /\ broken \in SUBSET Replicas
  /\ skipped \in SUBSET Replicas
  /\ maxLag \in MaxLags
  /\ pcM \in {"top", "check", "send", "done"} /\ todo \in SUBSET Replicas
  /\ found \in Lags /\ token \in Signal
  /\ channel \in Seq(Signal) /\ Len(channel) <= Cap
  /\ pcW \in {"look", "drain", "pause", "chunk", "done"}
  /\ taken \in Nat /\ count \in Signal /\ queued \in Nat
  /\ canceled \in BOOLEAN /\ finished \in BOOLEAN
  /\ changes \in 0..MaxChanges

Init ==
  /\ checker \in BOOLEAN
  /\ lagOf \in [Replicas -> Lags] /\ broken = {} /\ skipped = {}
  /\ maxLag \in MaxLags
  /\ pcM = "top" /\ todo = {} /\ found = 0 /\ token = 0
  /\ channel = <<>>
  /\ pcW = "look" /\ taken = 0 /\ count = 0 /\ queued = 0
  /\ canceled = FALSE /\ finished = FALSE /\ changes = 0

-----------------------------------------------------------------------------
(* Around the run: a replica's lag, a replica that stops or starts to        *)
(* answer, Executor.UpdateMaxLag, the end of the context.                    *)

Changes == changes < MaxChanges /\ changes' = changes + 1

ReplicaChanges(r) ==
  /\ Changes
  /\ \/ \E lag \in Lags \ {lagOf[r]} : lagOf' = [lagOf EXCEPT ![r] = lag] /\ UNCHANGED broken
     \/ /\ broken' = IF r \in broken THEN broken \ {r} ELSE broken \cup {r}
        /\ UNCHANGED lagOf
  /\ UNCHANGED <<checker, maxLag, monitor, channel, writer, canceled>>

UpdateMaxLag ==
  /\ Changes
  /\ maxLag' \in MaxLags \ {maxLag}
  /\ UNCHANGED <<checker, lagOf, broken, monitor, channel, writer, canceled>>

Cancel ==
  /\ ~canceled /\ canceled' = TRUE
  /\ UNCHANGED <<checker, replicas, maxLag, monitor, channel, writer>>

-----------------------------------------------------------------------------
(* The monitor. *)

StartCheck_KeepsMax == todo' = Replicas \ skipped /\ UNCHANGED found
StartCheck == todo' = Replicas \ skipped /\ found' = 0

MonitorTop ==
  /\ pcM = "top"
  /\ IF canceled \/ finished THEN pcM' = "done" /\ UNCHANGED <<todo, found>>
     ELSE /\ pcM' = "check"
          /\ IF checker THEN StartCheck ELSE UNCHANGED <<todo, found>>
  /\ UNCHANGED <<checker, replicas, maxLag, token, skipped, channel,
                 writer, canceled>>

(* One replica of CheckLag: an error, the context's too, drops it for good.  *)
CheckReplica(r) ==
  /\ pcM = "check" /\ r \in todo
  /\ todo' = todo \ {r}
  /\ IF r \in broken \/ canceled THEN skipped' = skipped \cup {r} /\ UNCHANGED found
     ELSE UNCHANGED skipped /\ found' = IF lagOf[r] > found THEN lagOf[r] ELSE found
  /\ UNCHANGED <<checker, replicas, maxLag, pcM, token, channel, writer,
                 canceled>>

ShouldThrottle_Above(lag) == maxLag > 0 /\ lag > maxLag
ShouldThrottle(lag) == maxLag > 0 /\ lag >= maxLag

(* CheckLag is done; without a checker nothing was asked. *)
Decide ==
  /\ pcM = "check" /\ todo = {}
  /\ token' = IF checker /\ ShouldThrottle(found) THEN LagThreshold ELSE 0
  /\ pcM' = "send"
  /\ UNCHANGED <<checker, replicas, maxLag, todo, found, skipped, channel, writer, canceled>>

Offers_Always == channel' = Append(channel, token)
Offers == channel' = IF Len(channel) < Cap THEN Append(channel, token) ELSE channel

Send_WaitsForRoom ==
  /\ pcM = "send" /\ Len(channel) < Cap
  /\ Offers /\ pcM' = "top"
  /\ UNCHANGED <<checker, replicas, maxLag, todo, found, token, skipped,
                 writer, canceled>>

(* A full channel drops the signal; then the monitor sleeps.  A context that *)
(* ends during either makes it return.                                       *)
Send ==
  /\ pcM = "send"
  /\ \/ Offers /\ pcM' = "top"
     \/ canceled /\ pcM' = "done" /\ UNCHANGED channel
  /\ UNCHANGED <<checker, replicas, maxLag, todo, found, token, skipped,
                 writer, canceled>>

-----------------------------------------------------------------------------
(* The goroutine that executes chunks. *)

Look ==
  /\ pcW = "look"
  /\ IF canceled THEN pcW' = "done" /\ UNCHANGED <<taken, count, queued>>
     ELSE pcW' = "drain" /\ taken' = 0 /\ count' = 0 /\ queued' = Len(channel)
  /\ UNCHANGED <<checker, replicas, maxLag, monitor, channel, finished, canceled>>

(* The loop compares its index with the channel's present length. *)
More_Rounds == taken + 1 < Len(channel)
More == taken < Len(channel)

Drain ==
  /\ pcW = "drain" /\ More
  /\ count' = Head(channel) /\ channel' = Tail(channel) /\ taken' = taken + 1
  /\ UNCHANGED <<checker, replicas, maxLag, monitor, pcW, queued, finished, canceled>>

Drained ==
  /\ pcW = "drain" /\ ~More
  /\ pcW' = IF count = LagThreshold THEN "pause" ELSE "chunk"
  /\ UNCHANGED <<checker, replicas, maxLag, monitor, channel, taken, count, queued, finished,
                 canceled>>

(* One second, then the signals are looked at again. *)
Pause ==
  /\ pcW = "pause" /\ pcW' = "look"
  /\ UNCHANGED <<checker, replicas, maxLag, monitor, channel, taken, count, queued, finished,
                 canceled>>

(* The wait and the chunk: the last one, one the context ends, or neither.   *)
Chunk ==
  /\ pcW = "chunk"
  /\ \/ pcW' = "look" /\ UNCHANGED finished
     \/ pcW' = "done" /\ finished' = TRUE
     \/ pcW' = "done" /\ canceled /\ UNCHANGED finished
  /\ UNCHANGED <<checker, replicas, maxLag, monitor, channel, taken, count, queued, canceled>>

-----------------------------------------------------------------------------
Monitor == MonitorTop \/ (\E r \in Replicas : CheckReplica(r)) \/ Decide \/ Send
Writing == Look \/ Drain \/ Drained \/ Pause \/ Chunk

Next ==
  \/ Monitor \/ Writing
  \/ \E r \in Replicas : ReplicaChanges(r)
  \/ UpdateMaxLag \/ Cancel

Spec == Init /\ [][Next]_vars

(* Both goroutines are scheduled, and replicas and chunks answer. *)
FairSpec == Spec /\ WF_vars(Monitor) /\ WF_vars(Writing)

-----------------------------------------------------------------------------
(* Properties. *)

Lagging ==
  checker /\ maxLag > 0 /\ \E r \in Replicas \ (broken \cup skipped) : lagOf[r] >= maxLag

(* A replica that answers and stays at the limit makes the run pause, however *)
(* many older signals are queued and whichever other replicas are in step.   *)
LagReachesWriter ==
  <>[]Lagging => []<>(pcW = "pause") \/ <>(pcW = "done")

(* Once no replica is at the limit any more the run stops pausing.           *)
PauseEndsWithLag == <>[](~Lagging) => <>[](pcW # "pause")

(* The monitor ends with the run, also when nobody takes its signals any     *)
(* more and the channel is full.                                             *)
MonitorEnds == (pcW = "done" /\ (finished \/ canceled)) ~> pcM = "done"

(* Of the signals that were queued when it looked, the goroutine has taken   *)
(* at least half before it acts.                                             *)
HalfIsTaken == pcW \in {"pause", "chunk"} => 2 * taken >= queued
=============================================================================
