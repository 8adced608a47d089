----------------------- MODULE PartitionStrategy_proofs -----------------------
(***************************************************************************)
(* Proofs about PartitionStrategy, for every number of partitions, rows    *)
(* and workers, every plan and every number of failures and lost replies.  *)
(*                                                                         *)
(* The inductive invariant IInv has one part per subject.  Owned: a        *)
(* partition is worked on by one worker.  Batched: a batch is a nonempty   *)
(* page of the worker's partition.  Budgeted: what is deleted or about to  *)
(* be is covered by what was reserved.  Tallied: addRows has counted what  *)
(* is deleted, but for the hits the workers still hold.  Failed: how a run *)
(* gets canceled, and what the first error says of the others.  Progress:  *)
(* no row that the run owes is left behind a cursor or by a short page.    *)
(***************************************************************************)
EXTENDS PartitionStrategy, PageLemmas

Active(w) == pc[w] \notin {"idle", "gone"}
Paged(w) == pc[w] \in {"reserve", "delete", "sent", "account", "wait"}
InFlight(w) == pc[w] \in {"delete", "sent"}

Owned ==
  /\ main = "discover" => todo = {} /\ \A w \in Workers : pc[w] = "idle"
  /\ \A w \in Workers : Active(w) => part[w] \notin todo
  /\ \A v, w \in Workers : Active(v) /\ Active(w) /\ part[v] = part[w] => v = w

Batched ==
  \A w \in Workers : Paged(w) =>
    /\ batch[w] # {}
    /\ \A row \in batch[w] : row[1] = part[w]

(* Rows that nobody else wrote are there until the run deletes them. *)
Stored ==
  /\ table \cap deleted = {}
  /\ Rows \ touched \subseteq table \cup deleted

(* The rows that are deleted, or will be if the workers' batches succeed. *)
Claimed == deleted \cup UNION {batch[w] : w \in {v \in Workers : InFlight(v)}}

Budgeted == plan.max > 0 => Cardinality(Claimed) <= reserved /\ reserved <= plan.max

(* While nobody else writes, every row has a key and nothing was given up,   *)
(* no reservation is lost.                                                   *)
Spent ==
  (plan.max > 0 /\ touched = {} /\ plan.noKey = {} /\ ~canceled)
    => /\ reserved = Cardinality(Claimed)
       /\ \A w \in Workers : pc[w] = "reserve" => batch[w] \subseteq table

Uncounted == UNION {hit[w] : w \in Workers}

Tallied ==
  /\ \A w \in Workers : hit[w] \subseteq deleted /\ (pc[w] # "account" => hit[w] = {})
  /\ \A v, w \in Workers : v # w => hit[v] \cap hit[w] = {}
  /\ rows <= Cardinality(deleted \ Uncounted)
  /\ lost = 0 => rows = Cardinality(deleted \ Uncounted)

Failed ==
  /\ canceled => stopped \/ firstErr = "error"
  /\ firstErr = "context" => stopped
  /\ failures > 0 => firstErr # ""

Ended ==
  /\ main # "done" => result = "" /\ finished = FALSE
  /\ main = "done" => /\ result \in {"nil", "error"}
                      /\ result = "nil" => firstErr # "error" /\ finished
                      /\ \A w \in Workers : pc[w] = "gone"

Paused ==
  \A w \in Workers : /\ late[w] <= 1
                     /\ gate /\ late[w] >= 1 => pc[w] \notin {"select", "reserve"}

Exhausted == plan.max > 0 /\ reserved >= plan.max

(* The rows of partition p that the run owes: nobody else wrote them, they   *)
(* have a key, and no cursor passes over them.                               *)
Own(p) ==
  {row \in Rows \ touched : row[1] = p /\ row \notin plan.noKey /\ ~Hidden(row)}

Reaches(w, row) ==
  \/ Cardinality(batch[w]) < plan.chunk
  \/ plan.cursor /\ \E b \in batch[w] : row[2] <= b[2]

(* What a worker has done of its partition. *)
Behind(w) ==
  (Active(w) /\ pc[w] # "taken" /\ plan.cursor)
    => \A row \in Own(part[w]) : row[2] <= cursor[w] => row \in deleted
Covered(w) ==
  Paged(w) => \A row \in Own(part[w]) : Reaches(w, row) => row \in deleted \cup batch[w]
Removed(w) ==
  pc[w] \in {"account", "wait"} => batch[w] \ (touched \cup plan.noKey) \subseteq deleted
Granted(w) == pc[w] \in {"delete", "sent", "account", "wait"} => ~last[w]
Handed(w) == pc[w] = "gone" /\ main # "discover" => todo = {}

Serving(w) == Behind(w) /\ Covered(w) /\ Removed(w) /\ Granted(w) /\ Handed(w)

Served(p) ==
  \/ main = "discover" \/ result = "error" \/ p \in todo
  \/ \E w \in Workers : Active(w) /\ part[w] = p
  \/ Own(p) \subseteq deleted

Unhindered == ~Exhausted /\ ~canceled /\ ~expired

Progress ==
  Unhindered => /\ \A w \in Workers : Serving(w)
                /\ \A p \in Partitions : Served(p)

IInv ==
  /\ TypeOK
  /\ Owned /\ Batched /\ Stored
  /\ Budgeted /\ Spent /\ Tallied
  /\ Failed /\ Ended /\ Paused
  /\ Progress

-----------------------------------------------------------------------------
(* Lemmas about rows and pages.                                              *)

LEMMA RowsFinite ==
  /\ IsFiniteSet(Rows)
  /\ \A S \in SUBSET Rows : IsFiniteSet(S) /\ Cardinality(S) \in Nat
<1>1. IsFiniteSet(1..PerPartition)
  BY PartitionAssumption, FS_Interval
<1>2. IsFiniteSet(Rows)
  BY <1>1, PartitionAssumption, FS_Product DEF Rows
<1> QED BY <1>2, FS_Subset, FS_CardinalityType

(* Within a partition a row is known by its position.                        *)
LEMMA PartitionPage ==
  ASSUME NEW S \in SUBSET Rows, NEW p, \A row \in S : row[1] = p, NEW n \in Nat
  PROVE  /\ FirstN(S, n) \subseteq S
         /\ IsFiniteSet(FirstN(S, n)) /\ Cardinality(FirstN(S, n)) \in Nat
         /\ Cardinality(FirstN(S, n)) <= n
         /\ FirstN(S, n) = S \/ Cardinality(FirstN(S, n)) = n
         /\ Cardinality(S) <= n => FirstN(S, n) = S
         /\ \A x \in FirstN(S, n), y \in S : y[2] <= x[2] => y \in FirstN(S, n)
<1> DEFINE K == [row \in S |-> row[2]]
<1>1. IsFiniteSet(S)
  BY RowsFinite
<1>2. K \in [S -> Int]
  BY DEF Rows
<1>3. \A x, y \in S : K[x] = K[y] => x = y
  BY DEF Rows
<1>4. FirstN(S, n) = FirstRows(S, K, n)
  <2>1. \A x \in S : RowsBefore(S, K, x) = {y \in S : y[2] < x[2]}
    BY DEF RowsBefore
  <2> HIDE DEF K
  <2> QED BY <2>1 DEF FirstN, FirstRows
<1>5. \A x \in FirstRows(S, K, n), y \in S : K[y] <= K[x] => y \in FirstRows(S, K, n)
  <2> HIDE DEF K
  <2> QED BY <1>1, <1>2, PageIsPrefix
<1>6. /\ FirstRows(S, K, n) \subseteq S
      /\ IsFiniteSet(FirstRows(S, K, n)) /\ Cardinality(FirstRows(S, K, n)) \in Nat
      /\ Cardinality(FirstRows(S, K, n)) <= n
  <2> HIDE DEF K
  <2> QED BY <1>1, <1>2, <1>3, PageBound
<1>7. /\ FirstRows(S, K, n) = S \/ Cardinality(FirstRows(S, K, n)) = n
      /\ Cardinality(S) <= n => FirstRows(S, K, n) = S
  <2> HIDE DEF K
  <2> QED BY <1>1, <1>2, <1>3, PageIsWhole
<1>8. \A x, y \in S : K[y] <= K[x] <=> y[2] <= x[2]
  OBVIOUS
<1> HIDE DEF K
<1> QED BY <1>4, <1>5, <1>6, <1>7, <1>8

(* The cursor after a batch is the batch's last position. *)
LEMMA LastPosition ==
  ASSUME NEW B \in SUBSET Rows, B # {}
  PROVE  /\ Max({row[2] : row \in B}) \in 1..PerPartition
         /\ \A row \in B : row[2] <= Max({r[2] : r \in B})
         /\ \E row \in B : row[2] = Max({r[2] : r \in B})
<1> DEFINE P == {row[2] : row \in B}
<1>1. P \subseteq 1..PerPartition /\ P # {}
  BY DEF Rows
<1>2. IsFiniteSet(P)
  <2>1. IsFiniteSet(1..PerPartition)
    BY PartitionAssumption, FS_Interval
  <2> HIDE DEF P
  <2> QED BY <1>1, <2>1, FS_Subset
<1>3. \E x \in P : \A y \in P : y <= x
  <2>1. P \subseteq Int
    BY <1>1
  <2> HIDE DEF P
  <2> QED BY <1>1, <1>2, <2>1, MaxExists
<1>4. Max(P) \in P /\ \A y \in P : y <= Max(P)
  <2>1. \E x \in P : \A y \in P : x >= y
    <3>1. P \subseteq Int
      BY <1>1
    <3> HIDE DEF P
    <3> QED BY <1>3, <3>1
  <2>2. Max(P) \in P /\ \A y \in P : Max(P) >= y
    <3> HIDE DEF P
    <3> QED BY <2>1 DEF Max
  <2>3. P \subseteq Int
    BY <1>1
  <2> HIDE DEF P
  <2> QED BY <2>2, <2>3
<1> QED BY <1>1, <1>4

LEMMA FirstPartition ==
  ASSUME NEW S \in SUBSET Partitions, S # {}
  PROVE  Min(S) \in S
<1>1. IsFiniteSet(S) /\ S \subseteq Int
  BY PartitionAssumption, FS_Subset
<1>2. \E x \in S : \A y \in S : x <= y
  BY <1>1, MinExists
<1> QED BY <1>2 DEF Min

-----------------------------------------------------------------------------
(* Types.                                                                    *)

LEMMA PlanFields ==
  ASSUME plan \in Plans
  PROVE  /\ plan.chunk \in Nat \ {0} /\ plan.max \in Nat /\ plan.cursor \in BOOLEAN
         /\ plan.faults \in Nat /\ plan.lost \in Nat /\ plan.lags \in Nat
         /\ plan.tied \in [Rows -> 1..PerPartition] /\ plan.noKey \in SUBSET Rows
<1>1. plan \in PlanType
  BY PartitionAssumption
<1>2. /\ plan.chunk \in Nat \ {0} /\ plan.max \in Nat /\ plan.cursor \in BOOLEAN
      /\ plan.faults \in Nat /\ plan.lost \in Nat /\ plan.lags \in Nat
      /\ plan.tied \in Ties /\ plan.noKey \in SUBSET Rows
  BY <1>1 DEF PlanType
<1> QED BY <1>2 DEF Ties

LEMMA InitTypeOK == Init => TypeOK
<1>1. Min(Partitions) \in Partitions
  BY FirstPartition, PartitionAssumption
<1> SUFFICES ASSUME Init PROVE TypeOK
  OBVIOUS
<1>2. faults = 0 /\ lost = 0 /\ lags = 0 /\ plan \in Plans
  BY DEF Init
<1>3. faults \in 0..plan.faults /\ lost \in 0..plan.lost /\ lags \in 0..plan.lags
  BY <1>2, PlanFields
<1>4. /\ main \in RunState /\ result \in Result /\ pc \in [Workers -> PcState]
      /\ stopReason \in StopReason /\ firstErr \in FirstErr
  BY DEF Init, RunState, Result, PcState, StopReason, FirstErr
<1>5. attempt \in [Workers -> 0..MaxAttempts] /\ cursor \in [Workers -> 0..PerPartition]
  <2>1. 0 \in 0..MaxAttempts /\ 0 \in 0..PerPartition
    BY PartitionAssumption
  <2> QED BY <2>1 DEF Init
<1> QED BY <1>1, <1>3, <1>4, <1>5 DEF Init, TypeOK

LEMMA StepTypeOK == TypeOK /\ Batched /\ [Next]_vars => TypeOK'
<1> SUFFICES ASSUME TypeOK, Batched, [Next]_vars PROVE TypeOK'
  OBVIOUS
<1> USE PartitionAssumption DEF TypeOK, db, worker, state, errs, bounds, At, Goto
<1>0. plan.faults \in Nat /\ plan.lost \in Nat /\ plan.lags \in Nat /\ plan.max \in Nat
  BY PlanFields
<1>1. CASE Discover
  BY <1>1 DEF Discover, PcState, RunState, Result
<1>2. CASE RunReturns
  BY <1>2 DEF RunReturns, Returns, RunState, Result
<1>3. CASE Cancel
  BY <1>3 DEF Cancel
<1>4. CASE Expire
  BY <1>4 DEF Expire
<1>5. CASE GateOpens
  BY <1>5 DEF GateOpens
<1>6. ASSUME NEW row \in Rows, OtherClientWrites(row) PROVE TypeOK'
  BY <1>6 DEF OtherClientWrites
<1>7. ASSUME NEW w \in Workers, TakePartition(w) PROVE TypeOK'
  <2>1. todo # {} => Min(todo) \in Partitions
    BY FirstPartition
  <2> QED BY <1>7, <2>1 DEF TakePartition, PcState
<1>8. ASSUME NEW w \in Workers, StartPartition(w) PROVE TypeOK'
  BY <1>8 DEF StartPartition, ShouldStop, Records, PcState, StopReason
<1>9. ASSUME NEW w \in Workers, NextBatch(w) PROVE TypeOK'
  BY <1>9 DEF NextBatch, ShouldStop, Records, PcState, StopReason
<1>10. ASSUME NEW w \in Workers, TakeSignal(w) PROVE TypeOK'
  BY <1>0, <1>10 DEF TakeSignal, PcState
<1>11. ASSUME NEW w \in Workers, PassGate(w) PROVE TypeOK'
  BY <1>11 DEF PassGate, PcState
<1>12. ASSUME NEW w \in Workers, Select(w) PROVE TypeOK'
  <2>1. Page(w) \in SUBSET Rows
    BY DEF Page, FirstN
  <2> QED BY <1>12, <2>1 DEF Select, PcState
<1>13. ASSUME NEW w \in Workers, SelectFails(w) PROVE TypeOK'
  <2>1. pc' \in [Workers -> PcState] /\ firstErr' \in FirstErr
    BY <1>13 DEF SelectFails, Fail, PcState, FirstErr
  <2>2. faults' \in 0..plan.faults /\ lost' = lost /\ lags' = lags
    BY <1>0, <1>13 DEF SelectFails, Fault
  <2>3. failures' = failures \/ failures' = failures + 1
    BY <1>13 DEF SelectFails, Fail
  <2>4. canceled' \in BOOLEAN /\ stopped' = stopped
    BY <1>13 DEF SelectFails, Fail
  <2> QED BY <1>13, <2>1, <2>2, <2>3, <2>4 DEF SelectFails
<1>14. ASSUME NEW w \in Workers, Reserve(w) PROVE TypeOK'
  <2> DEFINE want == Cardinality(batch[w])
  <2>1. plan.max \in Nat /\ want \in Nat
    BY <1>0, RowsFinite
  <2>2. FirstN(batch[w], Grant(want)) \in SUBSET Rows
    BY DEF FirstN
  <2>3. batch' \in [Workers -> SUBSET Rows]
    BY <1>14, <2>2 DEF Reserve
  <2>4. plan.max > 0 /\ Remaining > 0 => Grant(want) \in Nat
    BY <2>1 DEF Grant, Remaining
  <2>5. reserved' \in Nat
    BY <1>14, <2>1, <2>4 DEF Reserve, Remaining
  <2>6. pc' \in [Workers -> PcState] /\ stopReason' \in StopReason
    BY <1>14 DEF Reserve, Records, PcState, StopReason
  <2>7. attempt' \in [Workers -> 0..MaxAttempts]
    BY <1>14 DEF Reserve
  <2>8. last' \in [Workers -> BOOLEAN] /\ late' \in [Workers -> Nat]
    <3>1. late' \in [Workers -> Nat]
      BY <1>14 DEF Reserve, StartsBatch
    <3>2. last' = last \/ \E b \in BOOLEAN : last' = [last EXCEPT ![w] = b]
      BY <1>14 DEF Reserve
    <3> QED BY <3>1, <3>2
  <2> QED BY <1>14, <2>3, <2>5, <2>6, <2>7, <2>8 DEF Reserve
<1>15. ASSUME NEW w \in Workers, Attempt(w) PROVE TypeOK'
  BY <1>15 DEF Attempt, PcState
<1>16. ASSUME NEW w \in Workers, AttemptCanceled(w) PROVE TypeOK'
  BY <1>16 DEF AttemptCanceled, PcState
<1>17. ASSUME NEW w \in Workers, AttemptFails(w) PROVE TypeOK'
  <2>1. pc' \in [Workers -> PcState] /\ firstErr' \in FirstErr
    BY <1>17 DEF AttemptFails, GivesUp, Retries, Fail, PcState, FirstErr
  <2>2. faults' \in 0..plan.faults /\ lost' = lost /\ lags' = lags
    BY <1>0, <1>17 DEF AttemptFails, Fault
  <2>3. attempt' \in [Workers -> 0..MaxAttempts] /\ failures' \in Nat
    <3>1. attempt' = attempt \/ (attempt[w] < MaxAttempts /\ attempt' = [attempt EXCEPT ![w] = @ + 1])
      BY <1>17 DEF AttemptFails, GivesUp, Retries
    <3>2. attempt' \in [Workers -> 0..MaxAttempts]
      <4>1. attempt[w] \in 0..MaxAttempts /\ MaxAttempts \in Nat
        OBVIOUS
      <4>2. attempt[w] < MaxAttempts => attempt[w] + 1 \in 0..MaxAttempts
        BY <4>1
      <4> QED BY <3>1, <4>2
    <3>3. failures' = failures \/ failures' = failures + 1
      BY <1>17 DEF AttemptFails, GivesUp, Retries, Fail
    <3> QED BY <3>2, <3>3
  <2> QED BY <1>17, <2>1, <2>2, <2>3 DEF AttemptFails, GivesUp, Retries, Fail
<1>18. ASSUME NEW w \in Workers, ReplyLost(w) PROVE TypeOK'
  <2>1. pc' \in [Workers -> PcState] /\ firstErr' \in FirstErr
    BY <1>18 DEF ReplyLost, GivesUp, Retries, Fail, PcState, FirstErr
  <2>2. lost' \in 0..plan.lost /\ faults' = faults /\ lags' = lags
    BY <1>0, <1>18 DEF ReplyLost
  <2>3. attempt' \in [Workers -> 0..MaxAttempts] /\ failures' \in Nat
    <3>1. attempt' = attempt \/ (attempt[w] < MaxAttempts /\ attempt' = [attempt EXCEPT ![w] = @ + 1])
      BY <1>18 DEF ReplyLost, GivesUp, Retries
    <3>2. attempt' \in [Workers -> 0..MaxAttempts]
      <4>1. attempt[w] \in 0..MaxAttempts /\ MaxAttempts \in Nat
        OBVIOUS
      <4>2. attempt[w] < MaxAttempts => attempt[w] + 1 \in 0..MaxAttempts
        BY <4>1
      <4> QED BY <3>1, <4>2
    <3>3. failures' = failures \/ failures' = failures + 1
      BY <1>18 DEF ReplyLost, GivesUp, Retries, Fail
    <3> QED BY <3>2, <3>3
  <2> QED BY <1>18, <2>1, <2>2, <2>3 DEF ReplyLost, Commits, Takes, GivesUp, Retries, Fail
<1>19. ASSUME NEW w \in Workers, AttemptSucceeds(w) PROVE TypeOK'
  BY <1>19 DEF AttemptSucceeds, Commits, Takes, PcState
<1>20. ASSUME NEW w \in Workers, Account(w) PROVE TypeOK'
  <2>1. Max({row[2] : row \in batch[w]}) \in 0..PerPartition
    <3>1. batch[w] \in SUBSET Rows /\ batch[w] # {}
      BY <1>20 DEF Account, Batched, Paged
    <3>2. Max({row[2] : row \in batch[w]}) \in 1..PerPartition
      BY <3>1, LastPosition
    <3> QED BY <3>2
  <2>2. Cardinality(hit[w]) \in Nat
    BY RowsFinite
  <2> QED BY <1>20, <2>1, <2>2 DEF Account, PcState
<1>21. ASSUME NEW w \in Workers, AfterBatch(w) PROVE TypeOK'
  BY <1>21 DEF AfterBatch, PcState
<1>22. CASE UNCHANGED vars
  BY <1>22 DEF vars
<1> QED
  BY <1>1, <1>2, <1>3, <1>4, <1>5, <1>6, <1>7, <1>8, <1>9, <1>10, <1>11, <1>12, <1>13,
     <1>14, <1>15, <1>16, <1>17, <1>18, <1>19, <1>20, <1>21, <1>22 DEF Next, Work

-----------------------------------------------------------------------------
(* Ownership, batches and the budget.                                        *)

Core == Owned /\ Batched /\ Stored /\ Budgeted /\ Spent /\ Tallied

(* What the counts and the batches are about stays the same. *)
Same ==
  /\ UNCHANGED <<plan, table, deleted, touched, batch, hit, rows, reserved, lost>>
  /\ canceled => canceled'

LEMMA InitCore == Init => Core
<1> SUFFICES ASSUME Init PROVE Core
  OBVIOUS
<1>1. /\ pc = [w \in Workers |-> "idle"] /\ main = "discover" /\ todo = {}
      /\ deleted = {} /\ touched = {} /\ table = Rows /\ hit = [w \in Workers |-> {}]
      /\ rows = 0 /\ reserved = 0 /\ plan \in Plans
  BY DEF Init
<1>2. Owned /\ Batched /\ Stored
  BY <1>1 DEF Owned, Batched, Stored, Active, Paged
<1>3. Claimed = {} /\ Uncounted = {}
  BY <1>1 DEF Claimed, InFlight, Uncounted
<1>4. Cardinality({}) = 0
  BY FS_EmptySet
<1>5. plan.max \in Nat
  BY <1>1, PlanFields
<1>6. Budgeted /\ Spent
  BY <1>1, <1>3, <1>4, <1>5 DEF Budgeted, Spent
<1>7. Tallied
  BY <1>1, <1>3, <1>4 DEF Tallied
<1> QED BY <1>2, <1>6, <1>7 DEF Core

LEMMA ClaimedFinite ==
  ASSUME TypeOK
  PROVE  Claimed \subseteq Rows /\ IsFiniteSet(Claimed) /\ Cardinality(Claimed) \in Nat
<1>1. Claimed \subseteq Rows
  BY DEF Claimed, TypeOK
<1> QED BY <1>1, RowsFinite

(* A step of a worker that keeps its partition. *)
LEMMA KeepsOwned ==
  ASSUME TypeOK, Owned, NEW w \in Workers, NEW l \in PcState, Active(w),
         pc' = [pc EXCEPT ![w] = l], UNCHANGED <<main, todo, part>>
  PROVE  Owned'
<1>1. \A v \in Workers : Active(v)' => Active(v)
  BY DEF Active, TypeOK
<1>2. main # "discover"
  BY DEF Owned, Active
<1> QED BY <1>1, <1>2 DEF Owned

(* Steps that change neither rows, batches nor counts, and move workers.     *)
LEMMA MovesOn ==
  ASSUME TypeOK, Core, Same,
         \A v \in Workers : Paged(v)' => Paged(v) /\ part'[v] = part[v],
         \A v \in Workers : InFlight(v)' => InFlight(v),
         \A v \in Workers : InFlight(v) => InFlight(v)' \/ canceled',
         \A v \in Workers : pc'[v] = "reserve" => pc[v] = "reserve",
         \A v \in Workers : pc[v] = "account" => pc'[v] = "account"
  PROVE  (Batched /\ Stored /\ Budgeted /\ Spent /\ Tallied)'
<1>2. Batched'
  BY DEF Batched, Same, Core
<1>3. Stored'
  BY DEF Stored, Same, Core
<1>4. Claimed' \subseteq Claimed
  BY DEF Claimed, Same
<1>5. ~canceled' => Claimed' = Claimed
  BY DEF Claimed, Same
<1>6. IsFiniteSet(Claimed) /\ Cardinality(Claimed) \in Nat
  BY ClaimedFinite
<1>7. Cardinality(Claimed') <= Cardinality(Claimed) /\ Cardinality(Claimed') \in Nat
  BY <1>4, <1>6, FS_Subset, FS_CardinalityType
<1>8. Budgeted'
  BY <1>6, <1>7 DEF Budgeted, Same, Core, TypeOK
<1>9. Spent'
  BY <1>5 DEF Spent, Same, Core
<1>10. Uncounted' = Uncounted
  BY DEF Uncounted, Same
<1>11. Tallied'
  BY <1>10 DEF Tallied, Same, Core
<1> QED BY <1>2, <1>3, <1>8, <1>9, <1>11

(* So a worker may go on within its batch, or drop it once canceled. *)
LEMMA WorkerMovesOn ==
  ASSUME TypeOK, Core, Same, NEW w \in Workers, NEW l \in PcState, Active(w),
         pc' = [pc EXCEPT ![w] = l], UNCHANGED <<main, todo, part>>,
         pc[w] # "account", l # "reserve",
         l \in {"delete", "sent"} => InFlight(w),
         InFlight(w) => l \in {"delete", "sent"} \/ canceled',
         l \notin {"account", "wait"}
  PROVE  Core'
<1>1. \A v \in Workers : pc'[v] = IF v = w THEN l ELSE pc[v]
  BY DEF TypeOK
<1>2. \A v \in Workers : /\ Paged(v)' => Paged(v)
                         /\ InFlight(v)' => InFlight(v)
                         /\ InFlight(v) => InFlight(v)' \/ canceled'
                         /\ pc'[v] = "reserve" => pc[v] = "reserve"
                         /\ pc[v] = "account" => pc'[v] = "account"
  BY <1>1 DEF Paged, InFlight
<1>3. (Batched /\ Stored /\ Budgeted /\ Spent /\ Tallied)'
  BY <1>2, MovesOn
<1> QED BY <1>3, KeepsOwned DEF Core

LEMMA ControlCore ==
  ASSUME TypeOK, Core,
         Discover \/ RunReturns \/ Cancel \/ Expire \/ GateOpens
  PROVE  Core'
<1> USE DEF db, worker, state, errs, bounds
<1>1. Same
  BY DEF Same, Discover, RunReturns, Returns, Cancel, Expire, GateOpens
<1>2. /\ part' = part
      /\ pc' = pc \/ (main = "discover" /\ pc' = [w \in Workers |-> "gone"])
  BY DEF Discover, RunReturns, Returns, Cancel, Expire, GateOpens
<1>3. main = "discover" => \A w \in Workers : pc[w] = "idle"
  BY DEF Core, Owned
<1>4. (Batched /\ Stored /\ Budgeted /\ Spent /\ Tallied)'
  BY <1>1, <1>2, <1>3, MovesOn DEF Paged, InFlight
<1>5. Owned'
  <2>1. CASE Discover
    BY <2>1, <1>2 DEF Discover, Core, Owned, Active
  <2>2. CASE RunReturns \/ Cancel \/ Expire \/ GateOpens
    BY <2>2 DEF RunReturns, Returns, Cancel, Expire, GateOpens, Core, Owned, Active
  <2> QED BY <2>1, <2>2
<1> QED BY <1>4, <1>5 DEF Core

LEMMA TakePartitionCore ==
  ASSUME TypeOK, Core, NEW w \in Workers, TakePartition(w)
  PROVE  Core'
<1> USE DEF At, Goto
<1>1. Same /\ main' = main /\ main # "discover" /\ pc[w] = "idle"
  BY DEF Same, TakePartition, db, state, errs, bounds
<1>2. \A v \in Workers : v # w => pc'[v] = pc[v] /\ part'[v] = part[v]
  BY DEF TakePartition, TypeOK
<1>3. \/ /\ Min(todo) \in todo /\ todo' = todo \ {Min(todo)}
         /\ pc'[w] = "taken" /\ part'[w] = Min(todo)
      \/ pc'[w] = "gone" /\ todo' = todo
  <2>1. todo # {} => Min(todo) \in todo
    BY FirstPartition DEF TypeOK
  <2> QED BY <2>1 DEF TakePartition, TypeOK
<1>4. (Batched /\ Stored /\ Budgeted /\ Spent /\ Tallied)'
  BY <1>1, <1>2, <1>3, MovesOn DEF Paged, InFlight
<1>5. Owned'
  <2>1. main' # "discover"
    BY <1>1
  <2>2. \A v \in Workers : v # w => (Active(v)' <=> Active(v))
    BY <1>2 DEF Active
  <2> QED BY <1>1, <1>2, <1>3, <2>1, <2>2 DEF Core, Owned, Active
<1> QED BY <1>4, <1>5 DEF Core

LEMMA MoveCore ==
  ASSUME TypeOK, Core, NEW w \in Workers,
         \/ StartPartition(w) \/ NextBatch(w) \/ TakeSignal(w) \/ PassGate(w)
         \/ SelectFails(w) \/ Attempt(w) \/ AttemptCanceled(w) \/ AttemptFails(w)
  PROVE  Core'
<1> USE DEF At, Goto, db, worker, state, errs, bounds
<1> SUFFICES /\ Same /\ UNCHANGED <<main, todo, part>>
             /\ \E l \in PcState :
                  /\ pc' = [pc EXCEPT ![w] = l]
                  /\ l \notin {"reserve", "account", "wait"}
                  /\ l \in {"delete", "sent"} => InFlight(w)
                  /\ InFlight(w) => l \in {"delete", "sent"} \/ canceled'
             /\ Active(w) /\ pc[w] # "account"
  BY WorkerMovesOn
<1> USE DEF Same, InFlight, Active, PcState
<1>1. CASE StartPartition(w)
  BY <1>1 DEF StartPartition, ShouldStop
<1>2. CASE NextBatch(w)
  BY <1>2 DEF NextBatch, ShouldStop
<1>3. CASE TakeSignal(w)
  BY <1>3 DEF TakeSignal
<1>4. CASE PassGate(w)
  BY <1>4 DEF PassGate
<1>5. CASE SelectFails(w)
  <2>1. Same /\ canceled'
    <3>1. UNCHANGED <<plan, table, deleted, touched, batch, hit, rows, reserved, lost>>
      BY <1>5 DEF SelectFails, Fault
    <3>2. (canceled /\ canceled' = canceled) \/ canceled' = TRUE
      BY <1>5 DEF SelectFails, Fail
    <3>3. canceled'
      BY <3>2
    <3> QED BY <3>1, <3>3
  <2>2. pc' = [pc EXCEPT ![w] = "gone"] \/ pc' = [pc EXCEPT ![w] = "idle"]
    BY <1>5 DEF SelectFails
  <2>3. UNCHANGED <<main, todo, part>> /\ pc[w] = "select"
    BY <1>5 DEF SelectFails
  <2> QED BY <2>1, <2>2, <2>3
<1>6. CASE Attempt(w)
  BY <1>6 DEF Attempt
<1>7. CASE AttemptCanceled(w)
  BY <1>7 DEF AttemptCanceled
<1>8. CASE AttemptFails(w)
  <2>1. Same /\ UNCHANGED <<main, todo, part>> /\ pc[w] = "sent"
    <3>1. /\ UNCHANGED <<plan, table, deleted, touched, batch, hit, rows, reserved, lost>>
          /\ UNCHANGED <<main, todo, part>> /\ pc[w] = "sent"
      BY <1>8 DEF AttemptFails, Fault
    <3>2. canceled => canceled'
      BY <1>8 DEF AttemptFails, GivesUp, Retries, Fail
    <3> QED BY <3>1, <3>2
  <2>2. \/ pc' = [pc EXCEPT ![w] = "gone"] /\ canceled'
        \/ pc' = [pc EXCEPT ![w] = "delete"]
    BY <1>8 DEF AttemptFails, GivesUp, Retries, Fail
  <2> QED BY <2>1, <2>2
<1> QED BY <1>1, <1>2, <1>3, <1>4, <1>5, <1>6, <1>7, <1>8

LEMMA OtherClientCore ==
  ASSUME TypeOK, Core, NEW row \in Rows, OtherClientWrites(row)
  PROVE  Core'
<1> USE DEF worker, state, errs, bounds
<1>1. /\ UNCHANGED <<plan, deleted, main, todo, pc, part, batch, hit, rows, reserved, lost, canceled>>
      /\ row \notin deleted /\ touched' = touched \cup {row}
      /\ table' = IF row \in table THEN table \ {row} ELSE table \cup {row}
  BY DEF OtherClientWrites
<1>2. Owned'
  BY <1>1 DEF Core, Owned, Active
<1>3. Batched'
  BY <1>1 DEF Core, Batched, Paged
<1>4. Stored'
  <2>1. table' \subseteq table \cup {row} /\ table \subseteq table' \cup {row}
    BY <1>1
  <2> QED BY <1>1, <2>1 DEF Core, Stored
<1>5. Claimed' = Claimed /\ Uncounted' = Uncounted
  BY <1>1 DEF Claimed, InFlight, Uncounted
<1>6. Budgeted' /\ Spent' /\ Tallied'
  BY <1>1, <1>5 DEF Core, Budgeted, Spent, Tallied
<1> QED BY <1>2, <1>3, <1>4, <1>6 DEF Core

LEMMA PageRows ==
  ASSUME TypeOK, NEW w \in Workers
  PROVE  /\ Page(w) \subseteq table
         /\ \A row \in Page(w) : row[1] = part[w]
BY DEF Page, FirstN

LEMMA SelectCore ==
  ASSUME TypeOK, Core, NEW w \in Workers, Select(w)
  PROVE  Core'
<1> USE DEF At, Goto, state, errs, bounds, db
<1> DEFINE l == IF Page(w) = {} THEN "idle" ELSE "reserve"
<1>1. /\ UNCHANGED <<plan, table, deleted, touched, main, todo, part, hit, rows, reserved, lost,
                     canceled>>
      /\ pc[w] = "select" /\ pc' = [pc EXCEPT ![w] = l]
      /\ batch' = [batch EXCEPT ![w] = Page(w)]
  BY DEF Select
<1>2. /\ pc'[w] = l /\ batch'[w] = Page(w)
      /\ \A v \in Workers : v # w => pc'[v] = pc[v] /\ batch'[v] = batch[v]
  BY <1>1 DEF TypeOK
<1>3. l \in PcState /\ Active(w) /\ l \in {"idle", "reserve"}
  BY <1>1 DEF PcState, Active
<1> HIDE DEF l
<1>4. Owned'
  BY <1>1, <1>3, KeepsOwned DEF Core
<1>5. Batched'
  <2>1. l = "reserve" => Page(w) # {}
    BY DEF l
  <2> QED BY <1>1, <1>2, <1>3, <2>1, PageRows DEF Core, Batched, Paged
<1>6. Stored'
  BY <1>1 DEF Core, Stored
<1>7. Claimed' = Claimed /\ Uncounted' = Uncounted
  BY <1>1, <1>2, <1>3 DEF Claimed, InFlight, Uncounted
<1>8. Budgeted'
  BY <1>1, <1>7 DEF Core, Budgeted
<1>9. Spent'
  BY <1>1, <1>2, <1>7, PageRows DEF Core, Spent
<1>10. Tallied'
  BY <1>1, <1>2, <1>3, <1>7 DEF Core, Tallied
<1> QED BY <1>4, <1>5, <1>6, <1>8, <1>9, <1>10 DEF Core

(* What reserveBudget grants, when it grants anything. *)
LEMMA GrantFacts ==
  ASSUME TypeOK, Batched, Budgeted, NEW w \in Workers, pc[w] = "reserve",
         ~(plan.max > 0 /\ Remaining <= 0)
  PROVE  LET g == Grant(Cardinality(batch[w]))
             B == FirstN(batch[w], g)
         IN  /\ g \in Nat \ {0} /\ g <= Cardinality(batch[w])
             /\ Cardinality(batch[w]) \in Nat /\ reserved \in Nat /\ plan.max \in Nat
             /\ plan.max > 0 => reserved + g <= plan.max
             /\ plan.max > 0 /\ Cardinality(batch[w]) >= Remaining => reserved + g = plan.max
             /\ plan.max = 0 \/ Cardinality(batch[w]) < Remaining => B = batch[w]
             /\ B \subseteq batch[w] /\ B # {} /\ Cardinality(B) = g
             /\ \A x \in B, y \in batch[w] : y[2] <= x[2] => y \in B
<1> DEFINE n == Cardinality(batch[w])
           g == Grant(n)
           B == FirstN(batch[w], g)
<1>1. plan.max \in Nat /\ reserved \in Nat
  BY PlanFields DEF TypeOK
<1>2. batch[w] \in SUBSET Rows /\ IsFiniteSet(batch[w]) /\ n \in Nat
  BY RowsFinite DEF TypeOK
<1>3. batch[w] # {} /\ \A row \in batch[w] : row[1] = part[w]
  BY DEF Batched, Paged
<1>4. n # 0
  BY <1>2, <1>3, FS_EmptySet
<1>5. /\ g \in Nat \ {0} /\ g <= n
      /\ plan.max > 0 => reserved + g <= plan.max
      /\ plan.max > 0 /\ n >= Remaining => reserved + g = plan.max
      /\ plan.max = 0 \/ n < Remaining => g = n
  <2> HIDE DEF n
  <2> QED BY <1>1, <1>2, <1>4 DEF Grant, Remaining
<1>6. /\ B \subseteq batch[w]
      /\ Cardinality(B) \in Nat /\ Cardinality(B) <= g
      /\ B = batch[w] \/ Cardinality(B) = g
      /\ n <= g => B = batch[w]
      /\ \A x \in B, y \in batch[w] : y[2] <= x[2] => y \in B
  <2> HIDE DEF g
  <2> QED BY <1>2, <1>3, <1>5, PartitionPage
<1>7. Cardinality(B) = g
  <2> HIDE DEF g, B, n
  <2>1. B = batch[w] => Cardinality(B) = n
    BY DEF n
  <2> QED BY <1>2, <1>5, <1>6, <2>1
<1>8. B # {}
  <2> HIDE DEF g, B
  <2> QED BY <1>5, <1>7, FS_EmptySet
<1>9. plan.max = 0 \/ n < Remaining => B = batch[w]
  <2> HIDE DEF g, B, n
  <2> QED BY <1>2, <1>5, <1>6
<1> QED BY <1>1, <1>2, <1>5, <1>6, <1>7, <1>8, <1>9

LEMMA ReserveCore ==
  ASSUME TypeOK, Core, NEW w \in Workers, Reserve(w)
  PROVE  Core'
<1> USE DEF At, Goto
<1>0. pc[w] = "reserve"
  BY DEF Reserve
<1>1. CASE plan.max > 0 /\ Remaining <= 0
  <2>1. /\ UNCHANGED <<plan, table, deleted, touched, batch, hit, rows, reserved, lost>>
        /\ UNCHANGED <<main, todo, part>>
        /\ canceled' = canceled /\ pc' = [pc EXCEPT ![w] = "idle"]
    BY <1>1 DEF Reserve, db, errs, bounds
  <2>2. Same
    BY <2>1 DEF Same
  <2> QED BY <1>0, <2>1, <2>2, WorkerMovesOn DEF Active, InFlight, PcState
<1>2. CASE ~(plan.max > 0 /\ Remaining <= 0)
  <2> DEFINE g == Grant(Cardinality(batch[w]))
             B == FirstN(batch[w], g)
  <2>1. /\ UNCHANGED <<plan, table, deleted, touched, main, todo, part, hit, rows, lost, canceled>>
        /\ pc' = [pc EXCEPT ![w] = "delete"]
        /\ batch' = [batch EXCEPT ![w] = B]
        /\ reserved' = IF plan.max > 0 THEN reserved + g ELSE reserved
    BY <1>2 DEF Reserve, db, errs, bounds
  <2>2. /\ pc'[w] = "delete" /\ batch'[w] = B
        /\ \A v \in Workers : v # w => pc'[v] = pc[v] /\ batch'[v] = batch[v]
    BY <2>1 DEF TypeOK
  <2>3. /\ g \in Nat \ {0} /\ reserved \in Nat /\ plan.max \in Nat
        /\ plan.max > 0 => reserved + g <= plan.max
        /\ B \subseteq batch[w] /\ B # {} /\ Cardinality(B) = g
    BY <1>0, <1>2, GrantFacts DEF Core
  <2> HIDE DEF g, B
  <2>4. Active(w) /\ "delete" \in PcState
    BY <1>0 DEF Active, PcState
  <2>5. Owned'
    BY <2>1, <2>4, KeepsOwned DEF Core
  <2>6. Batched'
    BY <1>0, <2>1, <2>2, <2>3 DEF Core, Batched, Paged
  <2>7. Stored'
    BY <2>1 DEF Core, Stored
  <2>8. Claimed' = Claimed \cup B
    BY <1>0, <2>1, <2>2 DEF Claimed, InFlight
  <2>9. /\ IsFiniteSet(Claimed) /\ Cardinality(Claimed) \in Nat
        /\ IsFiniteSet(B) /\ B \subseteq Rows
    <3>1. B \in SUBSET Rows
      BY <2>3 DEF TypeOK
    <3> QED BY <3>1, RowsFinite, ClaimedFinite
  <2>10. /\ Cardinality(Claimed') \in Nat
         /\ Cardinality(Claimed') <= Cardinality(Claimed) + g
         /\ Claimed \cap B = {} => Cardinality(Claimed') = Cardinality(Claimed) + g
    <3>1. /\ IsFiniteSet(Claimed \cap B) /\ Cardinality(Claimed \cap B) \in Nat
          /\ Cardinality(Claimed \cap B) <= Cardinality(Claimed)
      BY <2>9, FS_Intersection, FS_CardinalityType
    <3>2. Cardinality(Claimed') = Cardinality(Claimed) + g - Cardinality(Claimed \cap B)
      BY <2>3, <2>8, <2>9, FS_Union
    <3>3. Claimed \cap B = {} => Cardinality(Claimed \cap B) = 0
      BY FS_EmptySet
    <3> QED BY <2>3, <2>9, <3>1, <3>2, <3>3
  <2>11. Budgeted'
    BY <2>1, <2>3, <2>9, <2>10 DEF Core, Budgeted
  <2>12. Spent'
    <3> SUFFICES ASSUME plan.max > 0, touched = {}, plan.noKey = {}, ~canceled
                 PROVE  /\ reserved' = Cardinality(Claimed')
                        /\ \A v \in Workers : pc'[v] = "reserve" => batch'[v] \subseteq table'
      BY <2>1 DEF Spent
    <3>1. /\ reserved = Cardinality(Claimed)
          /\ \A v \in Workers : pc[v] = "reserve" => batch[v] \subseteq table
      BY DEF Core, Spent
    <3>2. deleted \cap B = {}
      BY <1>0, <2>3, <3>1 DEF Core, Stored
    <3>3. \A v \in Workers : InFlight(v) => batch[v] \cap B = {}
      <4> SUFFICES ASSUME NEW v \in Workers, InFlight(v), NEW row \in batch[v], row \in B
                   PROVE  FALSE
        OBVIOUS
      <4>1. v # w /\ Active(v) /\ Paged(v) /\ Active(w) /\ Paged(w)
        BY <1>0 DEF InFlight, Active, Paged
      <4>2. row[1] = part[v] /\ row[1] = part[w]
        BY <2>3, <4>1 DEF Core, Batched
      <4> QED BY <4>1, <4>2 DEF Core, Owned
    <3>4. Claimed \cap B = {}
      BY <3>2, <3>3 DEF Claimed
    <3>5. reserved' = Cardinality(Claimed')
      BY <2>1, <2>10, <3>1, <3>4
    <3>6. ASSUME NEW v \in Workers, pc'[v] = "reserve" PROVE batch'[v] \subseteq table'
      BY <2>1, <2>2, <3>1, <3>6
    <3> QED BY <3>5, <3>6
  <2>13. Uncounted' = Uncounted
    BY <2>1 DEF Uncounted
  <2>14. Tallied'
    BY <1>0, <2>1, <2>2, <2>13 DEF Core, Tallied
  <2> QED BY <2>5, <2>6, <2>7, <2>11, <2>12, <2>14 DEF Core
<1> QED BY <1>1, <1>2

(* Batches of two workers are of different partitions. *)
LEMMA BatchesDisjoint ==
  ASSUME Core, NEW v \in Workers, NEW w \in Workers, v # w, Paged(v), Paged(w)
  PROVE  batch[v] \cap batch[w] = {}
<1> SUFFICES ASSUME NEW row \in batch[v], row \in batch[w] PROVE FALSE
  OBVIOUS
<1>1. row[1] = part[v] /\ row[1] = part[w]
  BY DEF Core, Batched
<1>2. Active(v) /\ Active(w)
  BY DEF Active, Paged
<1> QED BY <1>1, <1>2 DEF Core, Owned

LEMMA CommitFacts ==
  ASSUME TypeOK, Core, NEW w \in Workers, pc[w] = "sent", Commits(w),
         UNCHANGED <<plan, main, todo, part, batch, rows, reserved>>,
         \A v \in Workers : v # w => pc'[v] = pc[v],
         Paged(w)' => pc'[w] # "reserve",
         InFlight(w)' \/ pc'[w] = "account" \/ canceled',
         canceled => canceled'
  PROVE  /\ (Batched /\ Stored /\ Budgeted /\ Spent)'
         /\ hit[w] = {}
         /\ Takes(w) \cap deleted = {}
         /\ deleted' = deleted \cup Takes(w)
         /\ deleted' \in SUBSET Rows
<1>0. Takes(w) \subseteq batch[w] /\ Takes(w) \subseteq table
  BY DEF Takes
<1>1. /\ deleted' = deleted \cup Takes(w)
      /\ table' = table \ Takes(w) /\ touched' = touched
  BY DEF Commits
<1>2. Takes(w) \cap deleted = {}
  BY <1>0 DEF Core, Stored
<1>3. deleted' \in SUBSET Rows
  BY <1>0, <1>1 DEF TypeOK
<1>4. hit[w] = {}
  BY DEF Core, Tallied
<1>5. Paged(w) /\ InFlight(w)
  BY DEF Paged, InFlight
<1>6. Batched'
  BY <1>5 DEF Core, Batched, Paged
<1>7. Stored'
  BY <1>0, <1>1 DEF Core, Stored
<1>8. Claimed' \subseteq Claimed
  <2>1. \A v \in Workers : InFlight(v)' => InFlight(v)
    BY <1>5 DEF InFlight
  <2> QED BY <1>0, <1>1, <1>5, <2>1 DEF Claimed
<1>9. touched = {} /\ plan.noKey = {} /\ ~canceled' => Claimed' = Claimed
  <2> SUFFICES ASSUME touched = {}, plan.noKey = {}, ~canceled' PROVE Claimed \subseteq Claimed'
    BY <1>8
  <2>1. batch[w] \subseteq table \cup deleted
    BY DEF Core, Stored, TypeOK
  <2>2. batch[w] \subseteq deleted'
    BY <1>1, <2>1 DEF Takes
  <2>3. \A v \in Workers : v # w => (InFlight(v) <=> InFlight(v)')
    BY DEF InFlight
  <2> QED BY <1>1, <2>2, <2>3 DEF Claimed
<1>10. /\ Cardinality(Claimed') <= Cardinality(Claimed)
       /\ Cardinality(Claimed') \in Nat /\ Cardinality(Claimed) \in Nat
  BY <1>8, ClaimedFinite, FS_Subset, FS_CardinalityType
<1>11. Budgeted'
  BY <1>10 DEF Core, Budgeted, TypeOK
<1>12. Spent'
  <2> SUFFICES ASSUME plan.max > 0, touched = {}, plan.noKey = {}, ~canceled'
               PROVE  /\ reserved = Cardinality(Claimed')
                      /\ \A v \in Workers : pc'[v] = "reserve" => batch[v] \subseteq table'
    BY <1>1 DEF Spent
  <2>1. /\ reserved = Cardinality(Claimed)
        /\ \A v \in Workers : pc[v] = "reserve" => batch[v] \subseteq table
    BY DEF Core, Spent
  <2>2. ASSUME NEW v \in Workers, pc'[v] = "reserve" PROVE batch[v] \subseteq table'
    <3>1. v # w /\ pc[v] = "reserve"
      BY <2>2 DEF Paged
    <3>2. batch[v] \cap batch[w] = {}
      BY <1>5, <3>1, BatchesDisjoint DEF Paged
    <3> QED BY <1>0, <1>1, <2>1, <3>1, <3>2
  <2> QED BY <1>9, <2>1, <2>2
<1> QED BY <1>1, <1>2, <1>3, <1>4, <1>6, <1>7, <1>11, <1>12

LEMMA SucceedsCore ==
  ASSUME TypeOK, Core, NEW w \in Workers, AttemptSucceeds(w)
  PROVE  Core'
<1> USE DEF At, Goto, state, errs, bounds
<1> DEFINE h == Takes(w)
<1>1. /\ UNCHANGED <<plan, main, todo, part, batch, rows, reserved, lost, canceled>>
      /\ pc[w] = "sent" /\ Commits(w)
      /\ pc' = [pc EXCEPT ![w] = "account"]
      /\ hit' = [hit EXCEPT ![w] = h]
  BY DEF AttemptSucceeds
<1>2. /\ pc'[w] = "account" /\ hit'[w] = h
      /\ \A v \in Workers : v # w => pc'[v] = pc[v] /\ hit'[v] = hit[v]
  BY <1>1 DEF TypeOK
<1>3. /\ (Batched /\ Stored /\ Budgeted /\ Spent)'
      /\ hit[w] = {} /\ h \cap deleted = {} /\ deleted' = deleted \cup h
  BY <1>1, <1>2, CommitFacts
<1>4. Owned'
  BY <1>1, KeepsOwned DEF Core, Active, PcState
<1>5. Tallied'
  <2> HIDE DEF h
  <2>1. /\ \A v \in Workers : hit[v] \subseteq deleted /\ (pc[v] # "account" => hit[v] = {})
        /\ \A u, v \in Workers : u # v => hit[u] \cap hit[v] = {}
    BY DEF Core, Tallied
  <2>2. Uncounted' = Uncounted \cup h
    BY <1>2, <1>3 DEF Uncounted
  <2>3. deleted' \ Uncounted' = deleted \ Uncounted
    BY <1>3, <2>2
  <2>4. \A v \in Workers : hit'[v] \subseteq deleted' /\ (pc'[v] # "account" => hit'[v] = {})
    BY <1>2, <1>3, <2>1
  <2>5. \A u, v \in Workers : u # v => hit'[u] \cap hit'[v] = {}
    BY <1>2, <1>3, <2>1
  <2> QED BY <1>1, <2>3, <2>4, <2>5 DEF Core, Tallied
<1> QED BY <1>3, <1>4, <1>5 DEF Core

LEMMA ReplyLostCore ==
  ASSUME TypeOK, Core, NEW w \in Workers, ReplyLost(w)
  PROVE  Core'
<1> USE DEF At, Goto, state, errs
<1>1. /\ UNCHANGED <<plan, main, todo, part, batch, hit, rows, reserved>>
      /\ pc[w] = "sent" /\ Commits(w) /\ lost' = lost + 1
  BY DEF ReplyLost
<1>2. \/ pc' = [pc EXCEPT ![w] = "gone"] /\ canceled'
      \/ pc' = [pc EXCEPT ![w] = "delete"]
  BY DEF ReplyLost, GivesUp, Retries, Fail
<1>3. canceled => canceled'
  BY DEF ReplyLost, GivesUp, Retries, Fail
<1>4. PICK l \in {"gone", "delete"} :
        /\ pc' = [pc EXCEPT ![w] = l]
        /\ l = "gone" => canceled'
  BY <1>2
<1>5. pc'[w] = l /\ \A v \in Workers : v # w => pc'[v] = pc[v]
  BY <1>4 DEF TypeOK
<1>6. /\ (Batched /\ Stored /\ Budgeted /\ Spent)'
      /\ deleted \subseteq deleted' /\ deleted' \in SUBSET Rows
  <2>1. Paged(w)' => pc'[w] # "reserve"
    BY <1>5
  <2>2. InFlight(w)' \/ pc'[w] = "account" \/ canceled'
    BY <1>4, <1>5 DEF InFlight
  <2> QED BY <1>1, <1>3, <1>5, <2>1, <2>2, CommitFacts
<1>7. Owned'
  BY <1>1, <1>4, KeepsOwned DEF Core, Active, PcState
<1>8. Tallied'
  <2>1. Uncounted' = Uncounted
    BY <1>1 DEF Uncounted
  <2>2. deleted \ Uncounted \subseteq deleted' \ Uncounted
    BY <1>6
  <2>3. deleted' \ Uncounted \in SUBSET Rows
    BY <1>6
  <2>4. /\ Cardinality(deleted \ Uncounted) <= Cardinality(deleted' \ Uncounted)
        /\ Cardinality(deleted \ Uncounted) \in Nat /\ Cardinality(deleted' \ Uncounted) \in Nat
    BY <2>2, <2>3, RowsFinite, FS_Subset, FS_CardinalityType
  <2>5. rows \in Nat /\ lost \in Nat
    BY PlanFields DEF TypeOK
  <2>6. \A v \in Workers : hit[v] \subseteq deleted' /\ (pc'[v] # "account" => hit[v] = {})
    BY <1>1, <1>5, <1>6 DEF Core, Tallied
  <2> QED BY <1>1, <2>1, <2>4, <2>5, <2>6 DEF Core, Tallied
<1> QED BY <1>6, <1>7, <1>8 DEF Core

LEMMA AccountCore ==
  ASSUME TypeOK, Core, NEW w \in Workers, Account(w)
  PROVE  Core'
<1> USE DEF At, Goto, db, errs, bounds
<1>1. /\ UNCHANGED <<plan, table, deleted, touched, main, todo, part, batch, reserved, lost,
                     canceled>>
      /\ pc[w] = "account" /\ pc' = [pc EXCEPT ![w] = "wait"]
      /\ rows' = rows + Cardinality(hit[w]) /\ hit' = [hit EXCEPT ![w] = {}]
  BY DEF Account
<1>2. /\ pc'[w] = "wait" /\ hit'[w] = {}
      /\ \A v \in Workers : v # w => pc'[v] = pc[v] /\ hit'[v] = hit[v]
  BY <1>1 DEF TypeOK
<1>3. Owned'
  BY <1>1, KeepsOwned DEF Core, Active, PcState
<1>4. Batched' /\ Stored'
  BY <1>1, <1>2 DEF Core, Batched, Stored, Paged
<1>5. Claimed' = Claimed
  BY <1>1, <1>2 DEF Claimed, InFlight
<1>6. Budgeted' /\ Spent'
  BY <1>1, <1>2, <1>5 DEF Core, Budgeted, Spent
<1>7. Tallied'
  <2>1. /\ \A v \in Workers : hit[v] \subseteq deleted /\ (pc[v] # "account" => hit[v] = {})
        /\ \A u, v \in Workers : u # v => hit[u] \cap hit[v] = {}
    BY DEF Core, Tallied
  <2>2. Uncounted' = Uncounted \ hit[w]
    BY <1>2, <2>1 DEF Uncounted
  <2>3. /\ deleted \ Uncounted' = (deleted \ Uncounted) \cup hit[w]
        /\ (deleted \ Uncounted) \cap hit[w] = {}
    BY <2>1, <2>2 DEF Uncounted
  <2>4. /\ IsFiniteSet(deleted \ Uncounted) /\ IsFiniteSet(hit[w])
        /\ Cardinality(deleted \ Uncounted) \in Nat /\ Cardinality(hit[w]) \in Nat
    <3>1. deleted \ Uncounted \in SUBSET Rows /\ hit[w] \in SUBSET Rows
      BY DEF TypeOK
    <3> QED BY <3>1, RowsFinite
  <2>5. Cardinality(deleted \ Uncounted') = Cardinality(deleted \ Uncounted) + Cardinality(hit[w])
    <3> DEFINE D == deleted \ Uncounted
               H == hit[w]
    <3>1. /\ D \cap H = {} /\ IsFiniteSet(D) /\ IsFiniteSet(H)
          /\ Cardinality(D) \in Nat /\ Cardinality(H) \in Nat
      BY <2>3, <2>4
    <3>2. deleted \ Uncounted' = D \cup H
      BY <2>3
    <3> HIDE DEF D, H
    <3>3. Cardinality(D \cap H) = 0
      BY <3>1, FS_EmptySet
    <3>4. Cardinality(D \cup H) = Cardinality(D) + Cardinality(H) - Cardinality(D \cap H)
      BY <3>1, FS_Union
    <3>5. Cardinality(D \cup H) = Cardinality(D) + Cardinality(H)
      BY <3>1, <3>3, <3>4
    <3> QED BY <3>2, <3>5 DEF D, H
  <2>6. /\ rows \in Nat /\ rows <= Cardinality(deleted \ Uncounted)
        /\ lost = 0 => rows = Cardinality(deleted \ Uncounted)
    BY DEF Core, Tallied, TypeOK
  <2>7. \A v \in Workers : hit'[v] \subseteq deleted /\ (pc'[v] # "account" => hit'[v] = {})
    BY <1>2, <2>1
  <2>8. \A u, v \in Workers : u # v => hit'[u] \cap hit'[v] = {}
    BY <1>2, <2>1
  <2> QED BY <1>1, <2>4, <2>5, <2>6, <2>7, <2>8 DEF Tallied
<1> QED BY <1>3, <1>4, <1>6, <1>7 DEF Core

LEMMA AfterBatchCore ==
  ASSUME TypeOK, Core, NEW w \in Workers, AfterBatch(w)
  PROVE  Core'
<1>1. /\ Same /\ UNCHANGED <<main, todo, part>> /\ pc[w] = "wait"
      /\ pc' = [pc EXCEPT ![w] = "idle"] \/ pc' = [pc EXCEPT ![w] = "top"]
  BY DEF AfterBatch, At, Goto, Same, db, worker, state, errs, bounds
<1> QED BY <1>1, WorkerMovesOn DEF Active, InFlight, PcState

LEMMA StepCore == TypeOK /\ Core /\ [Next]_vars => Core'
<1> SUFFICES ASSUME TypeOK, Core, [Next]_vars PROVE Core'
  OBVIOUS
<1>1. CASE UNCHANGED vars
  BY <1>1 DEF vars, db, worker, state, errs, bounds, Core, Owned, Batched, Stored, Budgeted, Spent,
              Tallied, Claimed, Uncounted, Active, Paged, InFlight
<1> QED BY <1>1, ControlCore, TakePartitionCore, MoveCore, OtherClientCore, SelectCore,
           ReserveCore, SucceedsCore, ReplyLostCore, AccountCore, AfterBatchCore DEF Next, Work

-----------------------------------------------------------------------------
(* How the run is canceled and ends, and the lag gate.                       *)

Outcome == Failed /\ Ended /\ Paused

LEMMA WorkFrame ==
  ASSUME NEW w \in Workers, Work(w)
  PROVE  /\ UNCHANGED <<plan, touched, main, result, expired, finished, stopped>>
         /\ main # "discover" /\ pc[w] # "gone"
<1> USE DEF At, db, worker, state, errs
<1>1. CASE TakePartition(w) \/ StartPartition(w) \/ NextBatch(w) \/ TakeSignal(w) \/ PassGate(w)
  BY <1>1 DEF TakePartition, StartPartition, NextBatch, TakeSignal, PassGate
<1>2. CASE Select(w) \/ Reserve(w) \/ Attempt(w) \/ AttemptCanceled(w) \/ Account(w) \/ AfterBatch(w)
  BY <1>2 DEF Select, Reserve, Attempt, AttemptCanceled, Account, AfterBatch
<1>3. CASE SelectFails(w) \/ AttemptFails(w)
  BY <1>3 DEF SelectFails, AttemptFails, GivesUp, Retries, Fail
<1>4. CASE ReplyLost(w) \/ AttemptSucceeds(w)
  BY <1>4 DEF ReplyLost, AttemptSucceeds, Commits, GivesUp, Retries, Fail
<1> QED BY <1>1, <1>2, <1>3, <1>4 DEF Work

(* What a step does to the first error and the shared context. *)
LEMMA ErrorSteps ==
  ASSUME [Next]_vars
  PROVE  \/ UNCHANGED errs
         \/ stopped' = TRUE /\ canceled' = TRUE /\ UNCHANGED <<firstErr, failures>>
         \/ Fail("error")
         \/ canceled /\ Fail("context")
<1>1. CASE Discover \/ RunReturns \/ Expire \/ GateOpens \/ UNCHANGED vars
  BY <1>1 DEF Discover, RunReturns, Returns, Expire, GateOpens, vars, errs
<1>2. CASE Cancel
  BY <1>2 DEF Cancel
<1>3. CASE \E row \in Rows : OtherClientWrites(row)
  BY <1>3 DEF OtherClientWrites
<1>4. ASSUME NEW w \in Workers, Work(w)
      PROVE  UNCHANGED errs \/ Fail("error") \/ (canceled /\ Fail("context"))
  <2>1. CASE TakePartition(w) \/ StartPartition(w) \/ NextBatch(w) \/ TakeSignal(w) \/ PassGate(w)
    BY <2>1 DEF TakePartition, StartPartition, NextBatch, TakeSignal, PassGate
  <2>2. CASE Select(w) \/ Reserve(w) \/ Attempt(w) \/ AttemptCanceled(w) \/ Account(w) \/ AfterBatch(w)
    BY <2>2 DEF Select, Reserve, Attempt, AttemptCanceled, Account, AfterBatch
  <2>3. CASE SelectFails(w)
    BY <2>3 DEF SelectFails
  <2>4. CASE AttemptFails(w) \/ ReplyLost(w) \/ AttemptSucceeds(w)
    BY <2>4 DEF AttemptFails, ReplyLost, AttemptSucceeds, GivesUp, Retries
  <2> QED BY <1>4, <2>1, <2>2, <2>3, <2>4 DEF Work
<1> QED BY <1>1, <1>2, <1>3, <1>4 DEF Next

LEMMA StepFailed == TypeOK /\ Failed /\ [Next]_vars => Failed'
<1> SUFFICES ASSUME TypeOK, Failed, [Next]_vars PROVE Failed'
  OBVIOUS
<1>0. failures \in Nat /\ firstErr \in {"", "context", "error"}
  BY DEF TypeOK, FirstErr
<1>1. CASE UNCHANGED errs
  BY <1>1 DEF Failed, errs
<1>2. CASE stopped' = TRUE /\ canceled' = TRUE /\ UNCHANGED <<firstErr, failures>>
  BY <1>2 DEF Failed
<1>3. CASE Fail("error")
  BY <1>0, <1>3 DEF Failed, Fail
<1>4. CASE canceled /\ Fail("context")
  BY <1>0, <1>4 DEF Failed, Fail
<1> QED BY <1>1, <1>2, <1>3, <1>4, ErrorSteps

LEMMA StepEnded == TypeOK /\ Ended /\ [Next]_vars => Ended'
<1> SUFFICES ASSUME TypeOK, Ended, [Next]_vars PROVE Ended'
  OBVIOUS
<1>1. ASSUME NEW w \in Workers, Work(w) PROVE Ended'
  BY <1>1, WorkFrame DEF Ended
<1>2. CASE Discover
  BY <1>2 DEF Discover, Ended
<1>3. CASE RunReturns
  BY <1>3 DEF RunReturns, Returns, Ended, errs
<1>4. CASE Cancel \/ Expire
  BY <1>4 DEF Cancel, Expire, Ended, errs
<1>5. CASE GateOpens
  BY <1>5 DEF GateOpens, Ended, errs
<1>6. ASSUME NEW row \in Rows, OtherClientWrites(row) PROVE Ended'
  BY <1>6 DEF OtherClientWrites, Ended, errs
<1>7. CASE UNCHANGED vars
  BY <1>7 DEF vars, Ended, errs
<1> QED BY <1>1, <1>2, <1>3, <1>4, <1>5, <1>6, <1>7 DEF Next

LEMMA StepPaused == TypeOK /\ Owned /\ Paused /\ [Next]_vars => Paused'
<1> SUFFICES ASSUME TypeOK, Owned, Paused, [Next]_vars PROVE Paused'
  OBVIOUS
<1> USE DEF At, Goto
<1>0. \A w \in Workers : late[w] \in Nat
  BY DEF TypeOK
<1>1. CASE Discover \/ RunReturns \/ Cancel \/ Expire \/ GateOpens \/ UNCHANGED vars
  <2>1. /\ UNCHANGED late
        /\ gate' => gate
        /\ pc' = pc \/ pc' = [w \in Workers |-> "gone"]
    BY <1>1 DEF Discover, RunReturns, Returns, Cancel, Expire, GateOpens, vars
  <2> QED BY <2>1 DEF Paused
<1>2. ASSUME NEW row \in Rows, OtherClientWrites(row) PROVE Paused'
  BY <1>2 DEF OtherClientWrites, Paused
<1>3. ASSUME NEW w \in Workers, TakeSignal(w) PROVE Paused'
  <2>1. /\ pc' = [pc EXCEPT ![w] = "paused"]
        /\ late' = IF gate THEN late ELSE [v \in Workers |-> 0]
    BY <1>3 DEF TakeSignal
  <2>2. CASE gate
    BY <2>1, <2>2 DEF Paused, TypeOK
  <2>3. CASE ~gate
    BY <2>1, <2>3 DEF Paused, TypeOK
  <2> QED BY <2>2, <2>3
<1>4. ASSUME NEW w \in Workers, PassGate(w) PROVE Paused'
  <2>1. /\ UNCHANGED <<gate, late>>
        /\ \/ pc' = [pc EXCEPT ![w] = IF gate THEN "paused" ELSE "select"]
           \/ pc' = [pc EXCEPT ![w] = "top"]
    BY <1>4 DEF PassGate
  <2>2. /\ gate => pc'[w] \notin {"select", "reserve"}
        /\ \A v \in Workers : v # w => pc'[v] = pc[v]
    BY <2>1 DEF TypeOK
  <2> QED BY <2>1, <2>2 DEF Paused
<1>5. ASSUME NEW w \in Workers, Select(w) PROVE Paused'
  <2>1. /\ UNCHANGED <<gate, late>> /\ pc[w] = "select"
        /\ pc' = [pc EXCEPT ![w] = "idle"] \/ pc' = [pc EXCEPT ![w] = "reserve"]
    BY <1>5 DEF Select
  <2> QED BY <2>1 DEF Paused, TypeOK
<1>6. ASSUME NEW w \in Workers, Reserve(w) PROVE Paused'
  <2>1. /\ UNCHANGED gate /\ pc[w] = "reserve"
        /\ \/ pc' = [pc EXCEPT ![w] = "idle"] /\ late' = late
           \/ /\ pc' = [pc EXCEPT ![w] = "delete"]
              /\ late' = IF gate THEN [late EXCEPT ![w] = @ + 1] ELSE late
    BY <1>6 DEF Reserve, StartsBatch
  <2>2. gate => late[w] = 0
    BY <1>0, <2>1 DEF Paused
  <2> QED BY <2>1, <2>2 DEF Paused, TypeOK
<1>7. ASSUME NEW w \in Workers,
             \/ TakePartition(w) \/ StartPartition(w) \/ NextBatch(w) \/ SelectFails(w)
             \/ Attempt(w) \/ AttemptCanceled(w) \/ AttemptFails(w) \/ ReplyLost(w)
             \/ AttemptSucceeds(w) \/ Account(w) \/ AfterBatch(w)
      PROVE  Paused'
  <2>1. UNCHANGED <<gate, late>>
    BY <1>7 DEF TakePartition, StartPartition, NextBatch, SelectFails, Attempt, AttemptCanceled,
                AttemptFails, ReplyLost, AttemptSucceeds, Account, AfterBatch
  <2>2. \E l \in PcState \ {"select", "reserve"} : pc' = [pc EXCEPT ![w] = l]
    <3>1. CASE TakePartition(w) \/ StartPartition(w) \/ NextBatch(w) \/ SelectFails(w)
      BY <3>1 DEF TakePartition, StartPartition, NextBatch, SelectFails, ShouldStop, PcState
    <3>2. CASE Attempt(w) \/ AttemptCanceled(w) \/ AttemptFails(w) \/ ReplyLost(w)
      BY <3>2 DEF Attempt, AttemptCanceled, AttemptFails, ReplyLost, GivesUp, Retries, PcState
    <3>3. CASE AttemptSucceeds(w) \/ Account(w) \/ AfterBatch(w)
      BY <3>3 DEF AttemptSucceeds, Account, AfterBatch, PcState
    <3> QED BY <1>7, <3>1, <3>2, <3>3
  <2> QED BY <2>1, <2>2 DEF Paused, TypeOK
<1> QED BY <1>1, <1>2, <1>3, <1>4, <1>5, <1>6, <1>7 DEF Next, Work

-----------------------------------------------------------------------------
(* Progress: no row is left behind.                                          *)

LEMMA BudgetLeft ==
  ASSUME TypeOK, Core, ~Exhausted
  PROVE  /\ ~LimitHit
         /\ ~(plan.max > 0 /\ Remaining <= 0)
<1>1. plan.max \in Nat /\ reserved \in Nat /\ rows \in Nat
  BY PlanFields DEF TypeOK
<1>2. Cardinality(deleted \ Uncounted) <= Cardinality(Claimed)
  BY ClaimedFinite, FS_Subset DEF Claimed
<1>3. Cardinality(deleted \ Uncounted) \in Nat /\ Cardinality(Claimed) \in Nat
  <2>1. deleted \ Uncounted \in SUBSET Rows
    BY DEF TypeOK
  <2> QED BY <2>1, RowsFinite, ClaimedFinite
<1>4. plan.max > 0 => rows <= reserved
  BY <1>1, <1>2, <1>3 DEF Core, Tallied, Budgeted
<1> QED BY <1>1, <1>4 DEF Exhausted, LimitHit, Remaining

(* A run that is unhindered after a step was so before it. *)
LEMMA HindranceStays ==
  ASSUME TypeOK, Core, [Next]_vars, Unhindered'
  PROVE  Unhindered
<1>1. plan' = plan /\ plan.max \in Nat /\ reserved \in Nat
  <2>1. plan' = plan
    BY WorkFrame DEF Next, Discover, RunReturns, Returns, Cancel, Expire, GateOpens,
       OtherClientWrites, vars
  <2> QED BY <2>1, PlanFields DEF TypeOK
<1>2. reserved' = reserved \/ reserved <= reserved'
  <2>1. ASSUME NEW w \in Workers, Work(w) PROVE reserved' = reserved \/ reserved <= reserved'
    <3>1. CASE Reserve(w)
      <4>1. CASE plan.max > 0 /\ Remaining <= 0
        BY <3>1, <4>1 DEF Reserve
      <4>2. CASE ~(plan.max > 0 /\ Remaining <= 0)
        <5>1. pc[w] = "reserve"
          BY <3>1 DEF Reserve, At
        <5>2. Grant(Cardinality(batch[w])) \in Nat
          BY <4>2, <5>1, GrantFacts DEF Core
        <5>3. \/ reserved' = reserved + Grant(Cardinality(batch[w]))
              \/ reserved' = reserved
          BY <3>1, <4>2 DEF Reserve
        <5> QED BY <1>1, <5>2, <5>3
      <4> QED BY <4>1, <4>2
    <3>2. CASE TakePartition(w) \/ TakeSignal(w) \/ PassGate(w)
      BY <3>2 DEF TakePartition, TakeSignal, PassGate, state
    <3>3. CASE StartPartition(w) \/ NextBatch(w)
      BY <3>3 DEF StartPartition, NextBatch, ShouldStop, state
    <3>4. CASE Select(w) \/ Attempt(w) \/ AttemptCanceled(w) \/ Account(w) \/ AfterBatch(w)
      BY <3>4 DEF Select, Attempt, AttemptCanceled, Account, AfterBatch, state
    <3>5. CASE SelectFails(w) \/ AttemptFails(w) \/ ReplyLost(w) \/ AttemptSucceeds(w)
      BY <3>5 DEF SelectFails, AttemptFails, ReplyLost, AttemptSucceeds, state
    <3> QED BY <2>1, <3>1, <3>2, <3>3, <3>4, <3>5 DEF Work
  <2>2. CASE Discover \/ RunReturns \/ Cancel \/ Expire \/ GateOpens \/ UNCHANGED vars
    BY <2>2 DEF Discover, RunReturns, Returns, Cancel, Expire, GateOpens, vars, state
  <2>3. CASE \E row \in Rows : OtherClientWrites(row)
    BY <2>3 DEF OtherClientWrites, state
  <2> QED BY <2>1, <2>2, <2>3 DEF Next
<1>3. ~Exhausted
  <2>1. reserved' \in Nat
    BY StepTypeOK DEF Core, TypeOK
  <2> QED BY <1>1, <1>2, <2>1 DEF Unhindered, Exhausted
<1>4. ~canceled
  BY ErrorSteps DEF Unhindered, errs, Fail
<1>5. ~expired
  <2>1. expired' = expired \/ expired' = TRUE
    BY WorkFrame DEF Next, Discover, RunReturns, Returns, Cancel, Expire, GateOpens,
       OtherClientWrites, vars
  <2> QED BY <2>1 DEF Unhindered
<1> QED BY <1>3, <1>4, <1>5 DEF Unhindered

(* A worker's cursor passes over no row it owes, which is not tied with any  *)
(* row before it.                                                            *)
LEMMA OwnIsPast ==
  ASSUME TypeOK, NEW w \in Workers, Behind(w), Active(w), pc[w] # "taken",
         NEW row \in Own(part[w]), row \notin deleted
  PROVE  PastCursor(w, row)
<1> DEFINE end == <<part[w], cursor[w]>>
<1> SUFFICES ASSUME plan.cursor, cursor[w] # 0 PROVE row[2] > plan.tied[end]
  BY DEF PastCursor
<1>1. row \in Rows /\ row[1] = part[w] /\ ~Hidden(row)
  BY DEF Own
<1>2. row[2] \in Int /\ cursor[w] \in 1..PerPartition /\ part[w] \in Partitions
  BY <1>1, PartitionAssumption DEF Rows, TypeOK
<1>3. end \in Rows /\ end[1] = part[w] /\ end[2] = cursor[w]
  BY <1>2 DEF Rows
<1> HIDE DEF end
<1>4. plan.tied[end] \in Int
  BY <1>3, PlanFields DEF TypeOK
<1>5. ~(row[2] <= cursor[w])
  BY DEF Behind
<1>6. end[2] < row[2]
  BY <1>2, <1>3, <1>5
<1>7. ~(row[2] <= plan.tied[end])
  BY <1>1, <1>3, <1>6 DEF Hidden
<1> QED BY <1>2, <1>4, <1>7

(* The page of a worker has every row it owes and reaches.                   *)
LEMMA PageCovers ==
  ASSUME TypeOK, Core, NEW w \in Workers, Behind(w), Active(w), pc[w] # "taken",
         NEW row \in Own(part[w]),
         \/ Cardinality(Page(w)) < plan.chunk
         \/ plan.cursor /\ \E b \in Page(w) : row[2] <= b[2]
  PROVE  row \in deleted \cup Page(w)
<1> DEFINE S == {r \in table : r[1] = part[w] /\ PastCursor(w, r)}
<1>1. plan.chunk \in Nat
  BY PlanFields DEF TypeOK
<1>2. Page(w) = FirstN(S, plan.chunk)
  BY DEF Page
<1>3. S \in SUBSET Rows /\ \A r \in S : r[1] = part[w]
  BY DEF TypeOK
<1>4. row \in Rows /\ row \notin touched /\ row[1] = part[w] /\ ~Hidden(row)
  BY DEF Own
<1>5. row \notin deleted => row \in S
  <2>1. row \in table \cup deleted
    BY <1>4 DEF Core, Stored
  <2>2. ASSUME row \notin deleted PROVE PastCursor(w, row)
    BY <1>4, <2>2, OwnIsPast
  <2> QED BY <1>4, <2>1, <2>2
<1> HIDE DEF S
<1>6. /\ FirstN(S, plan.chunk) = S \/ Cardinality(FirstN(S, plan.chunk)) = plan.chunk
      /\ \A x \in FirstN(S, plan.chunk), y \in S : y[2] <= x[2] => y \in FirstN(S, plan.chunk)
  BY <1>1, <1>3, PartitionPage
<1> QED BY <1>1, <1>2, <1>5, <1>6

(* A worker that neither moves nor loses anything goes on serving.           *)
LEMMA OthersServe ==
  ASSUME NEW v \in Workers, Serving(v), main # "discover", todo' \subseteq todo,
         plan' = plan, deleted \subseteq deleted', touched \subseteq touched',
         pc'[v] = pc[v], part'[v] = part[v], cursor'[v] = cursor[v], batch'[v] = batch[v],
         last'[v] = last[v]
  PROVE  Serving(v)'
<1>1. \A p : Own(p)' \subseteq Own(p)
  BY DEF Own, Hidden
<1>2. Behind(v)'
  BY <1>1 DEF Serving, Behind, Active
<1>3. Covered(v)'
  BY <1>1 DEF Serving, Covered, Reaches, Paged
<1>4. Removed(v)'
  BY DEF Serving, Removed
<1> QED BY <1>2, <1>3, <1>4 DEF Serving, Granted, Handed

(* A worker goes on within its partition and its batch. *)
LEMMA ServingKept ==
  ASSUME TypeOK, NEW w \in Workers, Serving(w), Active(w), pc[w] # "taken",
         UNCHANGED <<plan, touched>>, deleted \subseteq deleted',
         part'[w] = part[w], cursor'[w] = cursor[w], batch'[w] = batch[w],
         Paged(w)' => Paged(w),
         pc'[w] \in {"account", "wait"} =>
           pc[w] \in {"account", "wait"} \/ batch[w] \ (touched \cup plan.noKey) \subseteq deleted',
         Granted(w)', pc'[w] # "gone"
  PROVE  Serving(w)'
<1>1. \A p : Own(p)' = Own(p)
  BY DEF Own, Hidden
<1>2. Behind(w)'
  BY <1>1 DEF Serving, Behind, Active
<1>3. Covered(w)'
  BY <1>1 DEF Serving, Covered, Reaches, Paged
<1>4. Removed(w)'
  BY DEF Serving, Removed
<1> QED BY <1>2, <1>3, <1>4 DEF Serving, Handed

(* One worker moves, and leaves its partition only when it is done. *)
LEMMA WorkerProgress ==
  ASSUME TypeOK, Unhindered, Progress, NEW w \in Workers, main # "discover",
         UNCHANGED <<plan, main, result, touched, part, todo>>, deleted \subseteq deleted',
         \A v \in Workers : v # w =>
           /\ pc'[v] = pc[v] /\ cursor'[v] = cursor[v] /\ batch'[v] = batch[v]
           /\ last'[v] = last[v],
         Serving(w)',
         Active(w) => Active(w)' \/ Own(part[w]) \subseteq deleted'
  PROVE  Progress'
<1>1. ASSUME NEW v \in Workers PROVE Serving(v)'
  <2>1. CASE v = w
    BY <2>1
  <2>2. CASE v # w
    <3>1. Serving(v)
      BY DEF Progress
    <3> QED BY <2>2, <3>1, OthersServe
  <2> QED BY <2>1, <2>2
<1>2. ASSUME NEW p \in Partitions PROVE Served(p)'
  <2>1. Own(p)' = Own(p)
    BY DEF Own, Hidden
  <2>2. \A v \in Workers : v # w => (Active(v)' <=> Active(v))
    BY DEF Active
  <2>3. Served(p)
    BY DEF Progress
  <2> QED BY <2>1, <2>2, <2>3 DEF Served
<1> QED BY <1>1, <1>2 DEF Progress

(* No worker moves. *)
LEMMA FrameProgress ==
  ASSUME Unhindered, Progress, main # "discover" \/ UNCHANGED <<main, touched, deleted>>,
         UNCHANGED <<plan, deleted, worker, pc, todo>>, touched \subseteq touched',
         result = "error" => result' = "error", main' = "discover" => main = "discover"
  PROVE  Progress'
<1> USE DEF worker
<1>1. ASSUME NEW v \in Workers PROVE Serving(v)'
  <2>1. Serving(v)
    BY DEF Progress
  <2>2. CASE main # "discover"
    BY <2>1, <2>2, OthersServe
  <2>3. CASE UNCHANGED <<main, touched, deleted>>
    BY <2>1, <2>3 DEF Serving, Behind, Covered, Removed, Granted, Handed, Active, Paged, Reaches,
       Own, Hidden
  <2> QED BY <2>2, <2>3
<1>2. ASSUME NEW p \in Partitions PROVE Served(p)'
  <2>1. Own(p)' \subseteq Own(p)
    BY DEF Own, Hidden
  <2>2. Served(p)
    BY DEF Progress
  <2>3. main = "discover" => main' = "discover"
    OBVIOUS
  <2> QED BY <2>1, <2>2, <2>3 DEF Served, Active
<1> QED BY <1>1, <1>2 DEF Progress

LEMMA ControlProgress ==
  ASSUME TypeOK, Core, Ended, Unhindered, Progress, Unhindered',
         \/ Discover \/ RunReturns \/ Cancel \/ Expire \/ GateOpens
         \/ \E row \in Rows : OtherClientWrites(row)
  PROVE  Progress'
<1> USE DEF db, worker, state, errs, bounds
<1>1. CASE Discover
  <2>1. \A w \in Workers : pc[w] = "idle" /\ pc'[w] \in {"idle", "gone"}
    BY <1>1 DEF Discover, Core, Owned
  <2>2. \/ main' = "run" /\ pc' = pc /\ todo' = Partitions
        \/ result' = "error" /\ todo' = {}
    BY <1>1 DEF Discover, Core, Owned
  <2>3. ASSUME NEW w \in Workers PROVE Serving(w)'
    BY <2>1, <2>2 DEF Serving, Behind, Covered, Removed, Granted, Handed, Active, Paged
  <2>4. ASSUME NEW p \in Partitions PROVE Served(p)'
    BY <2>2 DEF Served
  <2> QED BY <2>3, <2>4 DEF Progress
<1>2. CASE RunReturns
  <2>1. /\ main = "run" /\ main' = "done" /\ result = ""
        /\ UNCHANGED <<plan, deleted, worker, pc, todo, touched>>
    BY <1>2 DEF RunReturns, Returns, Ended
  <2> QED BY <2>1, FrameProgress
<1>3. CASE Cancel \/ Expire
  BY <1>3 DEF Cancel, Expire, Unhindered
<1>4. CASE GateOpens
  <2>1. UNCHANGED <<plan, deleted, touched, worker, pc, todo, main, result>>
    BY <1>4 DEF GateOpens
  <2> QED BY <2>1, FrameProgress
<1>5. ASSUME NEW row \in Rows, OtherClientWrites(row) PROVE Progress'
  <2>1. UNCHANGED <<plan, deleted, worker, pc, todo, main, result>> /\ touched \subseteq touched'
    BY <1>5 DEF OtherClientWrites
  <2>2. CASE main # "discover"
    BY <2>1, <2>2, FrameProgress
  <2>3. CASE main = "discover"
    <3>1. \A w \in Workers : pc[w] = "idle"
      BY <2>3 DEF Core, Owned
    <3>2. ASSUME NEW w \in Workers PROVE Serving(w)'
      BY <2>1, <2>3, <3>1 DEF Serving, Behind, Covered, Removed, Granted, Handed, Active, Paged
    <3> QED BY <2>1, <2>3, <3>2 DEF Progress, Served
  <2> QED BY <2>2, <2>3
<1> QED BY <1>1, <1>2, <1>3, <1>4, <1>5

LEMMA TakePartitionProgress ==
  ASSUME TypeOK, Core, Unhindered, Progress, NEW w \in Workers, TakePartition(w)
  PROVE  Progress'
<1> USE DEF At, Goto, db, state, errs, bounds
<1>1. /\ UNCHANGED <<plan, deleted, touched, main, result, cursor, batch, last>>
      /\ main # "discover" /\ pc[w] = "idle"
  BY DEF TakePartition
<1>2. \A v \in Workers : v # w => pc'[v] = pc[v] /\ part'[v] = part[v]
  BY DEF TakePartition, TypeOK
<1>3. \/ /\ todo' = todo \ {Min(todo)}
         /\ pc'[w] = "taken" /\ part'[w] = Min(todo)
      \/ pc'[w] = "gone" /\ todo' = todo /\ todo = {}
  BY DEF TakePartition, TypeOK, Unhindered
<1>4. ASSUME NEW v \in Workers PROVE Serving(v)'
  <2>1. CASE v = w
    BY <1>3, <2>1 DEF Serving, Behind, Covered, Removed, Granted, Handed, Active, Paged
  <2>2. CASE v # w
    <3>1. Serving(v)
      BY DEF Progress
    <3> QED BY <1>1, <1>2, <1>3, <2>2, <3>1, OthersServe
  <2> QED BY <2>1, <2>2
<1>5. ASSUME NEW p \in Partitions PROVE Served(p)'
  <2>1. Own(p)' = Own(p)
    BY <1>1 DEF Own, Hidden
  <2>2. \A v \in Workers : Active(v) => v # w /\ Active(v)'
    BY <1>1, <1>2 DEF Active
  <2>3. p \in todo => p \in todo' \/ (Active(w)' /\ part'[w] = p)
    BY <1>3 DEF Active
  <2>4. Served(p)
    BY DEF Progress
  <2> QED BY <1>1, <1>2, <2>1, <2>2, <2>3, <2>4 DEF Served
<1> QED BY <1>4, <1>5 DEF Progress

LEMMA WalkProgress ==
  ASSUME TypeOK, Core, Unhindered, Progress, Unhindered', NEW w \in Workers,
         \/ StartPartition(w) \/ NextBatch(w) \/ TakeSignal(w) \/ PassGate(w) \/ Attempt(w)
  PROVE  Progress'
<1> USE DEF At, Goto, db, worker, state, errs, bounds
<1>1. ~LimitHit /\ ~canceled /\ ~expired
  BY BudgetLeft DEF Unhindered
<1>2. Serving(w)
  BY DEF Progress
<1>3. CASE StartPartition(w)
  <2>1. /\ UNCHANGED <<plan, deleted, touched, main, result, part, todo, batch, last>>
        /\ main # "discover" /\ pc[w] = "taken"
        /\ pc' = [pc EXCEPT ![w] = "top"] /\ cursor' = [cursor EXCEPT ![w] = 0]
    BY <1>1, <1>3 DEF StartPartition, ShouldStop
  <2>2. /\ pc'[w] = "top" /\ cursor'[w] = 0
        /\ \A v \in Workers : v # w => pc'[v] = pc[v] /\ cursor'[v] = cursor[v]
    BY <2>1 DEF TypeOK
  <2>3. Serving(w)'
    <3>1. \A row \in Own(part[w])' : ~(row[2] <= 0)
      BY DEF Own, Rows
    <3> QED BY <2>1, <2>2, <3>1 DEF Serving, Behind, Covered, Removed, Granted, Handed, Paged
  <2>4. Active(w)'
    BY <2>2 DEF Active
  <2> QED BY <2>1, <2>2, <2>3, <2>4, WorkerProgress
<1>4. CASE NextBatch(w) \/ TakeSignal(w) \/ PassGate(w) \/ Attempt(w)
  <2>1. UNCHANGED <<plan, deleted, touched, main, result, part, todo, batch, last, cursor>>
    BY <1>4 DEF NextBatch, TakeSignal, PassGate, Attempt
  <2>2. /\ main # "discover"
        /\ \/ /\ pc[w] \in {"top", "rate", "paused"}
              /\ \E l \in {"top", "rate", "paused", "select"} : pc' = [pc EXCEPT ![w] = l]
           \/ pc[w] = "delete" /\ pc' = [pc EXCEPT ![w] = "sent"]
    BY <1>1, <1>4 DEF NextBatch, TakeSignal, PassGate, Attempt, ShouldStop
  <2>3. /\ \A v \in Workers : v # w => pc'[v] = pc[v]
        /\ Active(w) /\ Active(w)' /\ pc[w] # "taken"
        /\ Paged(w)' => Paged(w)
        /\ pc'[w] \notin {"account", "wait", "gone"}
        /\ pc'[w] = "sent" => pc[w] = "delete"
        /\ pc'[w] # "delete"
    BY <2>2 DEF TypeOK, Active, Paged
  <2>4. Granted(w)'
    BY <1>2, <2>1, <2>3 DEF Serving, Granted
  <2>5. Serving(w)'
    BY <1>2, <2>1, <2>3, <2>4, ServingKept
  <2> QED BY <2>1, <2>2, <2>3, <2>5, WorkerProgress
<1> QED BY <1>3, <1>4

LEMMA SelectProgress ==
  ASSUME TypeOK, Core, Unhindered, Progress, NEW w \in Workers, Select(w)
  PROVE  Progress'
<1> USE DEF At, Goto, db, state, errs, bounds
<1> DEFINE l == IF Page(w) = {} THEN "idle" ELSE "reserve"
<1>1. /\ UNCHANGED <<plan, deleted, touched, main, result, part, todo, last, cursor>>
      /\ main # "discover" /\ pc[w] = "select"
      /\ pc' = [pc EXCEPT ![w] = l] /\ batch' = [batch EXCEPT ![w] = Page(w)]
  BY DEF Select
<1>2. /\ pc'[w] = l /\ batch'[w] = Page(w)
      /\ \A v \in Workers : v # w => pc'[v] = pc[v] /\ batch'[v] = batch[v]
  BY <1>1 DEF TypeOK
<1>3. Serving(w) /\ Active(w) /\ pc[w] # "taken" /\ Behind(w)
  BY <1>1 DEF Progress, Active, Serving
<1>4. \A row \in Own(part[w]) :
        \/ Cardinality(Page(w)) < plan.chunk
        \/ plan.cursor /\ \E b \in Page(w) : row[2] <= b[2]
        => row \in deleted \cup Page(w)
  BY <1>3, PageCovers
<1>5. l \in {"idle", "reserve"} /\ (l = "idle" => Page(w) = {})
  OBVIOUS
<1> HIDE DEF l
<1>6. \A p : Own(p)' = Own(p)
  BY <1>1 DEF Own, Hidden
<1>7. Serving(w)'
  <2>1. Behind(w)'
    BY <1>1, <1>3, <1>6 DEF Behind
  <2>2. Covered(w)'
    BY <1>1, <1>2, <1>4, <1>6 DEF Covered, Reaches
  <2> QED BY <1>2, <1>5, <2>1, <2>2 DEF Serving, Removed, Granted, Handed
<1>8. ~Active(w)' => Own(part[w]) \subseteq deleted'
  <2>1. ~Active(w)' => Page(w) = {}
    BY <1>2, <1>5 DEF Active
  <2>2. Cardinality({}) = 0 /\ plan.chunk \in Nat \ {0}
    BY FS_EmptySet, PlanFields DEF TypeOK
  <2>3. Page(w) = {} => Cardinality(Page(w)) < plan.chunk
    BY <2>2
  <2> QED BY <1>1, <1>4, <2>1, <2>3
<1> QED BY <1>1, <1>2, <1>7, <1>8, WorkerProgress

LEMMA ReserveProgress ==
  ASSUME TypeOK, Core, Unhindered, Progress, Unhindered', NEW w \in Workers, Reserve(w)
  PROVE  Progress'
<1> USE DEF At, Goto, db, errs, bounds
<1> DEFINE n == Cardinality(batch[w])
           g == Grant(n)
           B == FirstN(batch[w], g)
<1>1. ~(plan.max > 0 /\ Remaining <= 0)
  BY BudgetLeft DEF Unhindered
<1>2. /\ UNCHANGED <<plan, deleted, touched, main, result, part, todo, cursor>>
      /\ main # "discover" /\ pc[w] = "reserve"
      /\ pc' = [pc EXCEPT ![w] = "delete"] /\ batch' = [batch EXCEPT ![w] = B]
      /\ last' = [last EXCEPT ![w] = plan.max > 0 /\ n >= Remaining]
      /\ reserved' = IF plan.max > 0 THEN reserved + g ELSE reserved
  BY <1>1 DEF Reserve
<1>3. /\ g \in Nat \ {0} /\ reserved \in Nat /\ plan.max \in Nat /\ n \in Nat
      /\ plan.max > 0 /\ n >= Remaining => reserved + g = plan.max
      /\ plan.max = 0 \/ n < Remaining => B = batch[w]
  BY <1>1, <1>2, GrantFacts DEF Core
<1> HIDE DEF n, g, B
<1>4. ~(plan.max > 0 /\ n >= Remaining)
  BY <1>2, <1>3 DEF Unhindered, Exhausted
<1>5. B = batch[w]
  BY <1>3, <1>4 DEF Remaining
<1>6. /\ pc'[w] = "delete" /\ batch' = batch /\ ~last'[w]
      /\ \A v \in Workers : v # w => pc'[v] = pc[v] /\ last'[v] = last[v]
  BY <1>2, <1>4, <1>5 DEF TypeOK
<1>7. Serving(w)'
  <2>1. Serving(w) /\ Active(w) /\ pc[w] # "taken" /\ Paged(w) /\ Granted(w)'
    BY <1>2, <1>6 DEF Progress, Active, Paged, Granted
  <2> QED BY <1>2, <1>6, <2>1, ServingKept
<1> QED BY <1>2, <1>6, <1>7, WorkerProgress DEF Active

LEMMA DeleteProgress ==
  ASSUME TypeOK, Core, Unhindered, Progress, Unhindered', NEW w \in Workers,
         AttemptFails(w) \/ ReplyLost(w) \/ AttemptSucceeds(w)
  PROVE  Progress'
<1> USE DEF At, Goto
<1>1. /\ UNCHANGED <<plan, touched, main, result, part, todo, cursor, batch, last>>
      /\ deleted \subseteq deleted' /\ main # "discover" /\ pc[w] = "sent"
  BY DEF AttemptFails, ReplyLost, AttemptSucceeds, Commits, db
<1>2. \/ pc' = [pc EXCEPT ![w] = "delete"]
      \/ /\ pc' = [pc EXCEPT ![w] = "account"]
         /\ batch[w] \ (touched \cup plan.noKey) \subseteq deleted'
  <2>1. CASE AttemptFails(w) \/ ReplyLost(w)
    <3>1. GivesUp(w) \/ Retries(w)
      BY <2>1 DEF AttemptFails, ReplyLost
    <3>2. ~GivesUp(w)
      BY DEF GivesUp, Fail, Unhindered
    <3> QED BY <3>1, <3>2 DEF Retries
  <2>2. CASE AttemptSucceeds(w)
    <3>1. batch[w] \ touched \subseteq table \cup deleted
      BY DEF Core, Stored, TypeOK
    <3> QED BY <2>2, <3>1 DEF AttemptSucceeds, Commits, Takes
  <2> QED BY <2>1, <2>2
<1>3. /\ pc'[w] \in {"delete", "account"}
      /\ pc'[w] = "account" => batch[w] \ (touched \cup plan.noKey) \subseteq deleted'
      /\ \A v \in Workers : v # w => pc'[v] = pc[v]
  BY <1>2 DEF TypeOK
<1>4. Serving(w)'
  <2>1. Serving(w) /\ Active(w) /\ pc[w] # "taken" /\ Paged(w)
    BY <1>1 DEF Progress, Active, Paged
  <2>2. Granted(w)'
    BY <1>1, <2>1 DEF Serving, Granted
  <2> QED BY <1>1, <1>3, <2>1, <2>2, ServingKept
<1> QED BY <1>1, <1>3, <1>4, WorkerProgress DEF Active

LEMMA AccountProgress ==
  ASSUME TypeOK, Core, Unhindered, Progress, NEW w \in Workers, Account(w)
  PROVE  Progress'
<1> USE DEF At, Goto, db, errs, bounds
<1> DEFINE m == Max({row[2] : row \in batch[w]})
<1>1. /\ UNCHANGED <<plan, deleted, touched, main, result, part, todo, batch, last>>
      /\ main # "discover" /\ pc[w] = "account"
      /\ pc' = [pc EXCEPT ![w] = "wait"] /\ cursor' = [cursor EXCEPT ![w] = m]
  BY DEF Account
<1>2. batch[w] \in SUBSET Rows /\ batch[w] # {}
  BY <1>1 DEF TypeOK, Core, Batched, Paged
<1>3. \E b \in batch[w] : b[2] = m
  BY <1>2, LastPosition
<1> HIDE DEF m
<1>4. /\ pc'[w] = "wait" /\ cursor'[w] = m
      /\ \A v \in Workers : v # w => pc'[v] = pc[v] /\ cursor'[v] = cursor[v]
  BY <1>1 DEF TypeOK
<1>5. Serving(w) /\ Paged(w)
  BY <1>1 DEF Progress, Paged
<1>6. \A p : Own(p)' = Own(p)
  BY <1>1 DEF Own, Hidden
<1>7. ASSUME plan.cursor, NEW row \in Own(part[w]), row[2] <= m PROVE row \in deleted
  <2>1. Reaches(w, row)
    BY <1>3, <1>7 DEF Reaches
  <2>2. row \in deleted \cup batch[w]
    BY <1>5, <2>1 DEF Serving, Covered
  <2> QED BY <1>1, <1>5, <2>2 DEF Serving, Removed, Own
<1>8. Serving(w)'
  <2>1. Behind(w)'
    BY <1>1, <1>4, <1>6, <1>7 DEF Behind
  <2>2. Covered(w)'
    BY <1>1, <1>5, <1>6 DEF Serving, Covered, Reaches
  <2> QED BY <1>1, <1>4, <1>5, <2>1, <2>2 DEF Serving, Removed, Granted, Handed
<1> QED BY <1>1, <1>4, <1>8, WorkerProgress DEF Active

LEMMA AfterBatchProgress ==
  ASSUME TypeOK, Core, Unhindered, Progress, NEW w \in Workers, AfterBatch(w)
  PROVE  Progress'
<1> USE DEF At, Goto, db, worker, state, errs, bounds
<1>1. /\ UNCHANGED <<plan, deleted, touched, main, result, part, todo, cursor, batch, last>>
      /\ main # "discover" /\ pc[w] = "wait"
  BY DEF AfterBatch
<1>2. Serving(w) /\ Paged(w) /\ ~last[w] /\ ~canceled
  BY <1>1 DEF Progress, Paged, Serving, Granted, Unhindered
<1>3. \/ pc' = [pc EXCEPT ![w] = "top"]
      \/ pc' = [pc EXCEPT ![w] = "idle"] /\ Cardinality(batch[w]) < plan.chunk
  BY <1>2 DEF AfterBatch
<1>4. /\ pc'[w] = "top" \/ (pc'[w] = "idle" /\ Cardinality(batch[w]) < plan.chunk)
      /\ \A v \in Workers : v # w => pc'[v] = pc[v]
  BY <1>3 DEF TypeOK
<1>5. Serving(w)'
  <2>1. Active(w) /\ ~Paged(w)' /\ Granted(w)'
    BY <1>1, <1>4 DEF Active, Paged, Granted
  <2> QED BY <1>1, <1>2, <1>4, <2>1, ServingKept
<1>6. ~Active(w)' => Own(part[w]) \subseteq deleted'
  <2> SUFFICES ASSUME Cardinality(batch[w]) < plan.chunk, NEW row \in Own(part[w])
               PROVE  row \in deleted
    BY <1>1, <1>4 DEF Active
  <2>1. row \in deleted \cup batch[w]
    BY <1>2 DEF Serving, Covered, Reaches
  <2> QED BY <1>1, <1>2, <2>1 DEF Serving, Removed, Own
<1> QED BY <1>1, <1>4, <1>5, <1>6, WorkerProgress

LEMMA StepProgress == TypeOK /\ Core /\ Ended /\ Progress /\ [Next]_vars => Progress'
<1> SUFFICES ASSUME TypeOK, Core, Ended, Progress, [Next]_vars, Unhindered' PROVE Progress'
  BY DEF Progress
<1>1. Unhindered
  BY HindranceStays
<1>2. CASE UNCHANGED vars
  <2>1. UNCHANGED <<plan, deleted, touched, worker, pc, todo, main, result>>
    BY <1>2 DEF vars, db
  <2> QED BY <1>1, <2>1, FrameProgress
<1>3. ASSUME NEW w \in Workers, Work(w) PROVE Progress'
  <2>1. ~SelectFails(w) /\ ~AttemptCanceled(w)
    BY <1>1 DEF SelectFails, AttemptCanceled, Fail, Unhindered
  <2> QED BY <1>1, <1>3, <2>1, TakePartitionProgress, WalkProgress, SelectProgress, ReserveProgress,
             DeleteProgress, AccountProgress, AfterBatchProgress DEF Work
<1> QED BY <1>1, <1>2, <1>3, ControlProgress DEF Next

-----------------------------------------------------------------------------
(* The invariant, and what follows from it.                                  *)

LEMMA InitOutcome == Init => Outcome /\ Progress
<1> SUFFICES ASSUME Init PROVE Outcome /\ Progress
  OBVIOUS
<1>1. Failed /\ Ended
  <2>1. /\ main = "discover" /\ result = "" /\ firstErr = "" /\ finished = FALSE
        /\ canceled = FALSE
    BY DEF Init
  <2>2. failures = 0
    BY DEF Init
  <2>3. ~(failures > 0)
    BY <2>2
  <2> QED BY <2>1, <2>3, Zenon DEF Failed, Ended
<1>2. Paused
  <2>1. gate = FALSE /\ \A w \in Workers : late[w] = 0
    BY DEF Init
  <2> QED BY <2>1 DEF Paused
<1>3. \A w \in Workers : Serving(w)
  BY DEF Init, Serving, Behind, Covered, Removed, Granted, Handed, Active, Paged
<1>4. \A p \in Partitions : Served(p)
  BY DEF Init, Served
<1> QED BY <1>1, <1>2, <1>3, <1>4 DEF Outcome, Progress

LEMMA Invariance == Spec => []IInv
<1>1. Init => IInv
  BY InitTypeOK, InitCore, InitOutcome DEF IInv, Core, Outcome
<1>2. IInv /\ [Next]_vars => IInv'
  <2> SUFFICES ASSUME IInv, [Next]_vars PROVE IInv'
    OBVIOUS
  <2>1. TypeOK /\ Core /\ Failed /\ Ended /\ Paused /\ Progress
    BY DEF IInv, Core
  <2>2. TypeOK'
    BY <2>1, StepTypeOK DEF Core
  <2>3. Core'
    BY <2>1, StepCore
  <2>4. Failed' /\ Ended'
    BY <2>1, StepFailed, StepEnded
  <2>5. Paused'
    BY <2>1, StepPaused DEF Core
  <2>6. Progress'
    BY <2>1, StepProgress
  <2> QED BY <2>2, <2>3, <2>4, <2>5, <2>6 DEF IInv, Core
<1> QED BY <1>1, <1>2, PTL DEF Spec

(* Every variable has its type, and the bounded histories keep their bounds. *)
THEOREM Types == Spec => []TypeOK
<1>1. IInv => TypeOK
  BY DEF IInv
<1> QED BY <1>1, Invariance, PTL

(* reserveBudget makes max-rows exact: the workers together never remove     *)
(* more, although a batch whose reply was lost is deleted again.             *)
THEOREM BudgetHolds == Spec => []BudgetIsExact
<1>1. IInv => BudgetIsExact
  <2> SUFFICES ASSUME IInv, plan.max > 0 PROVE Cardinality(deleted) <= plan.max
    BY DEF BudgetIsExact
  <2>1. Cardinality(Claimed) <= reserved /\ reserved <= plan.max
    BY DEF IInv, Budgeted
  <2>2. /\ Cardinality(deleted) <= Cardinality(Claimed)
        /\ Cardinality(deleted) \in Nat /\ Cardinality(Claimed) \in Nat
    <3>1. deleted \in SUBSET Rows /\ deleted \subseteq Claimed
      BY DEF IInv, TypeOK, Claimed
    <3> QED BY <3>1, RowsFinite, ClaimedFinite, FS_Subset DEF IInv
  <2>3. plan.max \in Nat /\ reserved \in Nat
    BY PlanFields DEF IInv, TypeOK
  <2> QED BY <2>1, <2>2, <2>3
<1> QED BY <1>1, Invariance, PTL

(* A run that nobody stopped and that no time limit cut short returns nil    *)
(* only with all of max-rows used, or with nothing left behind but rows that *)
(* others wrote, rows without a key, and rows that agree, up to a NULL, with *)
(* an earlier one at which a page may have ended.                            *)
THEOREM CleanEnds == Spec => []CleanEndIsComplete
<1>1. IInv => CleanEndIsComplete
  <2> SUFFICES ASSUME IInv, result = "nil", ~stopped, ~expired
               PROVE  \/ \A row \in Rows \ (touched \cup deleted) :
                            row \in plan.noKey \/ Hidden(row)
                      \/ /\ plan.max > 0 /\ reserved = plan.max
                         /\ touched = {} /\ plan.noKey = {} => Cardinality(deleted) = plan.max
    BY DEF CleanEndIsComplete
  <2>1. main = "done" /\ firstErr # "error" /\ \A w \in Workers : pc[w] = "gone"
    BY DEF IInv, Ended
  <2>2. ~canceled
    BY <2>1 DEF IInv, Failed
  <2>3. CASE Exhausted
    <3>1. plan.max > 0 /\ reserved = plan.max
      BY <2>3, PlanFields DEF IInv, TypeOK, Budgeted, Exhausted
    <3>2. Claimed = deleted
      BY <2>1 DEF Claimed, InFlight
    <3> QED BY <2>2, <3>1, <3>2 DEF IInv, Spent
  <2>4. CASE ~Exhausted
    <3>1. /\ \A w \in Workers : Serving(w)
          /\ \A p \in Partitions : Served(p)
      BY <2>2, <2>4 DEF IInv, Progress, Unhindered
    <3>2. todo = {}
      BY <2>1, <3>1, PartitionAssumption DEF Serving, Handed
    <3>3. \A p \in Partitions : Own(p) \subseteq deleted
      BY <2>1, <3>1, <3>2 DEF Served, Active
    <3> QED BY <3>3 DEF Own, Rows
  <2> QED BY <2>3, <2>4
<1> QED BY <1>1, Invariance, PTL

(* A statement that failed for good in any worker makes Run fail, unless the *)
(* caller ended the context.                                                 *)
THEOREM ErrorsSurface == Spec => []ErrorsAreReported
<1>1. IInv => ErrorsAreReported
  <2> SUFFICES ASSUME IInv, result = "nil", ~stopped PROVE failures = 0
    BY DEF ErrorsAreReported
  <2>1. firstErr # "error" /\ firstErr # "context"
    BY DEF IInv, Ended, Failed
  <2>2. firstErr \in {"", "context", "error"} /\ failures \in Nat
    BY DEF IInv, TypeOK, FirstErr
  <2>3. failures > 0 => firstErr # ""
    BY DEF IInv, Failed
  <2>4. firstErr = ""
    BY <2>1, <2>2
  <2>5. failures \in Nat /\ ~(failures > 0)
    BY <2>2, <2>3, <2>4
  <2> QED BY <2>5
<1> QED BY <1>1, Invariance, PTL

(* One worker's lag signal stops all of them after at most one more batch.   *)
THEOREM PauseIsShared == Spec => []PauseReachesEveryone
<1>1. IInv => PauseReachesEveryone
  BY DEF IInv, Paused, PauseReachesEveryone
<1> QED BY <1>1, Invariance, PTL

-----------------------------------------------------------------------------
(* The contract of a ChunkStrategy.                                          *)

LEMMA CountsGrow ==
  ASSUME TypeOK, NEW w \in Workers, Work(w)
  PROVE  deleted \subseteq deleted' /\ rows <= rows' /\ lost <= lost'
<1> USE DEF db, state, bounds
<1>1. rows \in Nat /\ lost \in Nat /\ Cardinality(hit[w]) \in Nat
  BY RowsFinite, PlanFields DEF TypeOK
<1>2. CASE TakePartition(w) \/ TakeSignal(w) \/ PassGate(w)
  BY <1>1, <1>2 DEF TakePartition, TakeSignal, PassGate
<1>3. CASE StartPartition(w) \/ NextBatch(w)
  BY <1>1, <1>3 DEF StartPartition, NextBatch, ShouldStop
<1>4. CASE Select(w) \/ Reserve(w) \/ Attempt(w) \/ AttemptCanceled(w) \/ AfterBatch(w)
  BY <1>1, <1>4 DEF Select, Reserve, Attempt, AttemptCanceled, AfterBatch
<1>5. CASE SelectFails(w) \/ AttemptFails(w)
  BY <1>1, <1>5 DEF SelectFails, AttemptFails, Fault
<1>6. CASE ReplyLost(w)
  BY <1>1, <1>6 DEF ReplyLost, Commits
<1>7. CASE AttemptSucceeds(w)
  BY <1>1, <1>7 DEF AttemptSucceeds, Commits
<1>8. CASE Account(w)
  BY <1>1, <1>8 DEF Account
<1> QED BY <1>2, <1>3, <1>4, <1>5, <1>6, <1>7, <1>8 DEF Work

LEMMA CountsAgree ==
  ASSUME TypeOK, Tallied
  PROVE  /\ rows <= Cardinality(deleted) /\ rows \in Nat /\ Cardinality(deleted) \in Nat
         /\ (\A w \in Workers : pc[w] = "gone") /\ lost = 0 => rows = Cardinality(deleted)
<1>1. rows \in Nat /\ IsFiniteSet(deleted) /\ Cardinality(deleted) \in Nat
  BY RowsFinite DEF TypeOK
<1>2. /\ Cardinality(deleted \ Uncounted) <= Cardinality(deleted)
      /\ Cardinality(deleted \ Uncounted) \in Nat
  BY <1>1, FS_Subset, FS_CardinalityType
<1>3. (\A w \in Workers : pc[w] = "gone") => deleted \ Uncounted = deleted
  BY DEF Tallied, Uncounted
<1> QED BY <1>1, <1>2, <1>3 DEF Tallied

LEMMA ContractInit == Init => Contract!Init
<1> SUFFICES ASSUME Init PROVE Contract!Init
  OBVIOUS
<1>1. deleted = {} /\ Cardinality({}) = 0
  BY FS_EmptySet DEF Init
<1>2. (\E w \in Workers : pc[w] # "gone") \in BOOLEAN
  OBVIOUS
<1>3. (lost > 0) = FALSE
  <2>1. lost = 0
    BY DEF Init
  <2>2. ~(lost > 0)
    BY <2>1
  <2> QED BY <2>2
<1> QED BY <1>1, <1>2, <1>3 DEF Init, Contract!Init

LEMMA ContractStep == IInv /\ [Next]_vars => [Contract!Next]_(Contract!vars)
<1> SUFFICES ASSUME IInv, [Next]_vars PROVE [Contract!Next]_(Contract!vars)
  OBVIOUS
<1> USE DEF db, worker, state, errs, bounds
<1>1. TypeOK /\ Core /\ Tallied /\ Ended
  BY DEF IInv, Core
<1>2. CASE Discover
  <2>1. CASE main' = "run"
    BY <1>2, <2>1 DEF Discover, Contract!vars
  <2>2. CASE main' # "run"
    BY <1>1, <1>2, <2>2 DEF Discover, Ended, Contract!Next, Contract!Return
  <2> QED BY <2>1, <2>2
<1>3. CASE RunReturns
  <2>1. rows = Cardinality(deleted) \/ lost > 0
    BY <1>1, <1>3, CountsAgree, PlanFields DEF RunReturns, TypeOK
  <2> QED BY <1>1, <1>3, <2>1 DEF RunReturns, Returns, Ended, Contract!Next, Contract!Return
<1>4. CASE Cancel
  BY <1>4 DEF Cancel, Contract!Next, Contract!Stop
<1>5. CASE Expire \/ GateOpens \/ UNCHANGED vars
  BY <1>5 DEF Expire, GateOpens, vars, Contract!vars
<1>6. ASSUME NEW row \in Rows, OtherClientWrites(row) PROVE UNCHANGED Contract!vars
  BY <1>6 DEF OtherClientWrites, Contract!vars
<1>7. ASSUME NEW w \in Workers, Work(w) PROVE Contract!Next
  <2>1. TypeOK' /\ Tallied'
    BY <1>1, StepTypeOK, StepCore DEF Core
  <2>2. /\ rows \in Nat /\ Cardinality(deleted) \in Nat
        /\ rows' \in Nat /\ Cardinality(deleted') \in Nat /\ rows' <= Cardinality(deleted')
    <3>1. rows \in Nat /\ Cardinality(deleted) \in Nat
      BY <1>1, CountsAgree
    <3>2. deleted' \in SUBSET Rows /\ Uncounted' \in SUBSET Rows /\ rows' \in Nat
      BY <2>1 DEF TypeOK, Uncounted
    <3>3. /\ Cardinality(deleted' \ Uncounted') <= Cardinality(deleted')
          /\ Cardinality(deleted' \ Uncounted') \in Nat /\ Cardinality(deleted') \in Nat
      <4>1. deleted' \ Uncounted' \in SUBSET Rows
        BY <3>2
      <4> QED BY <3>2, <4>1, RowsFinite, FS_Subset
    <3> QED BY <2>1, <3>1, <3>2, <3>3 DEF Tallied
  <2>3. /\ deleted \subseteq deleted' /\ rows <= rows' /\ lost <= lost'
        /\ lost \in Nat /\ lost' \in Nat
    BY <1>1, <1>7, <2>1, CountsGrow, PlanFields DEF TypeOK
  <2>4. Cardinality(deleted) <= Cardinality(deleted')
    BY <2>1, <2>3, RowsFinite, FS_Subset DEF TypeOK
  <2>5. Contract!Commit
    <3>1. (lost' > 0) = (lost > 0) \/ (lost' > 0) = TRUE
      BY <2>3
    <3> QED BY <2>2, <2>3, <2>4, <3>1 DEF Contract!Commit
  <2>6. UNCHANGED <<result, finished, stopped>> /\ result = ""
    BY <1>1, <1>7, WorkFrame DEF Ended
  <2> QED BY <2>5, <2>6 DEF Contract!Next, Contract!Work
<1> QED BY <1>2, <1>3, <1>4, <1>5, <1>6, <1>7 DEF Next

(* Run keeps the contract that task.Execute relies on: what it counts is     *)
(* committed, and all that is when it returns nil, unless a reply was lost   *)
(* or the caller stopped it; its workers end with it.                        *)
THEOREM KeepsContract == Spec => ImplementsChunkRun
<1>1. Init => Contract!Init
  BY ContractInit
<1>2. IInv /\ [Next]_vars => [Contract!Next]_(Contract!vars)
  BY ContractStep
<1> QED BY <1>1, <1>2, Invariance, PTL DEF Spec, ImplementsChunkRun, Contract!Spec
=============================================================================
