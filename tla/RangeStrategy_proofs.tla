------------------------- MODULE RangeStrategy_proofs -------------------------
(***************************************************************************)
(* Proofs about RangeStrategy, for every table, plan and queue length.     *)
(*                                                                         *)
(* The chunks on their way from BuildSQL to Write, in the page and in the  *)
(* queue, form one line: Lined keeps them apart and in ascending order,    *)
(* behind the cursor; Held keeps the chunk Write has in hand before them,  *)
(* and Followed the chunks the open transaction and the finished ones      *)
(* came from.  So no row belongs to two chunks, and only a retry executes  *)
(* one again (Replayed).  Covered accounts for the rows the finished       *)
(* chunks' LIMITs left out, Tallied and Limited keep the books, Ended says *)
(* why each goroutine has returned, Joined when Run has.                   *)
(***************************************************************************)
EXTENDS RangeStrategy, PageLemmas, SequenceTheorems, TLAPS

(* The steps of Write: those that put no execution into effect and take no   *)
(* chunk, and those that put the transaction's executions into effect.       *)
Passing ==
  \/ Top \/ Begin \/ Full \/ TakeCanceled \/ ExecFails \/ RetryCanceled \/ RetryFails
  \/ Reopen \/ Commit \/ AfterCommit
Effects == RetrySucceeds \/ RetryReplyLost \/ CommitSucceeds \/ CommitFails

LEMMA StepSplit ==
  ASSUME [Next]_vars
  PROVE  \/ Fetch \/ FetchNothing \/ FetchFails \/ Enqueue \/ ProducerStops
         \/ Passing \/ Effects \/ Take \/ ExecSucceeds \/ RetryExec
         \/ Running \/ Cancel \/ UNCHANGED vars
         \/ \E id \in NewIds : Insert(id)
BY DEF Next, Producing, Consuming, Passing, Effects

-----------------------------------------------------------------------------
(* Rows and pages. *)

LEMMA Finite ==
  ASSUME NEW S \in SUBSET Ids
  PROVE  IsFiniteSet(S) /\ Cardinality(S) \in Nat /\ S \subseteq Int
BY RangeAssumption, FS_Subset, FS_CardinalityType

LEMMA Rows ==
  ASSUME TypeOK
  PROVE  Matching \subseteq Ids /\ Remaining \subseteq Ids /\ plan.chunk \in Nat
         /\ plan.txn \in Int /\ plan.max \in Nat
BY RangeAssumption DEF TypeOK, Matching, Remaining, Ids, Plan

Covers(c) == {id \in Ids : c[1] <= id /\ id <= c[2]}

(* An execution of a chunk hits matching rows of its range, none of them     *)
(* twice in the transaction, and at most chunk-size; fewer only if there are *)
(* no more.                                                                  *)
LEMMA HitsBound ==
  ASSUME TypeOK, NEW c \in Chunk, NEW S \in Hits(c)
  PROVE  /\ S \subseteq Covers(c) /\ S \subseteq Matching /\ S \cap txRows = {}
         /\ Cardinality(S) \in Nat /\ Cardinality(S) <= plan.chunk
         /\ S = InChunk(c) \/ Cardinality(S) = plan.chunk
<1>1. InChunk(c) \subseteq Covers(c) /\ InChunk(c) \subseteq Matching /\ InChunk(c) \cap txRows = {}
  BY Rows DEF InChunk, Covers
<1>2. plan.chunk \in Nat
  BY Rows
<1>3. S \subseteq InChunk(c) /\ Cardinality(S) <= plan.chunk
      /\ (S = InChunk(c) \/ Cardinality(S) = plan.chunk)
  <2>1. CASE Cardinality(InChunk(c)) <= plan.chunk
    BY <2>1 DEF Hits
  <2>2. CASE ~(Cardinality(InChunk(c)) <= plan.chunk)
    BY <1>2, <2>2 DEF Hits, kSubset
  <2> QED BY <2>1, <2>2
<1>4. S \in SUBSET Ids
  BY <1>1, <1>3, Rows
<1> QED BY <1>1, <1>3, <1>4, Finite

(* A fetch returns the lowest remaining rows. *)
LEMMA FetchedIsPage ==
  ASSUME TypeOK, plan.chunk # 0
  PROVE  /\ Fetched \subseteq Remaining /\ Fetched \in SUBSET Ids
         /\ plan.chunk > 1 => Cardinality(Fetched) <= plan.chunk
         /\ \A x \in Fetched, y \in Remaining : y <= x => y \in Fetched
         /\ Fetched = {} => Remaining = {}
<1>1. FetchLimit \in Nat \ {0} /\ FetchLimit \in Nat /\ (plan.chunk > 1 => FetchLimit = plan.chunk)
  BY Rows, RangeAssumption DEF FetchLimit
<1>2. Remaining \in SUBSET Ids /\ IsFiniteSet(Remaining) /\ Remaining \subseteq Int
  BY Rows, Finite
<1>3. Fetched = Lowest(Remaining, FetchLimit)
  BY DEF Fetched, FirstN, Lowest
<1>4. Fetched \subseteq Remaining /\ Cardinality(Fetched) <= FetchLimit
  BY <1>1, <1>2, <1>3, LowestBound
<1>5. \A x \in Fetched, y \in Remaining : y <= x => y \in Fetched
  BY <1>1, <1>2, <1>3, LowestPrefix
<1>6. Fetched = {} => Remaining = {}
  BY <1>1, <1>2, <1>3, LowestEmpty
<1> QED BY <1>1, <1>2, <1>4, <1>5, <1>6

LEMMA MaxIsMax ==
  ASSUME NEW S \in SUBSET Ids, S # {}
  PROVE  Max(S) \in S /\ Max(S) \in Int /\ \A y \in S : y <= Max(S)
<1>1. \E x \in S : \A y \in S : x >= y
  BY Finite, MaxExists
<1> QED BY <1>1, Finite DEF Max

LEMMA MinIsMin ==
  ASSUME NEW S \in SUBSET Ids, S # {}
  PROVE  Min(S) \in S /\ Min(S) \in Int /\ \A y \in S : Min(S) <= y
<1>1. \E x \in S : \A y \in S : x <= y
  BY Finite, MinExists
<1> QED BY <1>1, Finite DEF Min

LEMMA NthIsNth ==
  ASSUME NEW S \in SUBSET Ids, NEW i \in 1..Cardinality(S)
  PROVE  Nth(S, i) \in S /\ Rank(S, Nth(S, i)) = i - 1
<1>1. \E x \in S : Rank(S, x) = i - 1
  BY Finite, NthExists
<1> QED BY <1>1 DEF Nth, Rank

(* A fetch becomes chunks in ascending order, apart from each other, which   *)
(* start and end on its rows and hold all of them.                           *)
Cut(S, s) ==
  /\ s \in Seq(Chunk) /\ Len(s) >= 1
  /\ \A i \in 1..Len(s) :
       s[i][1] \in S /\ s[i][2] \in S /\ s[i][1] <= s[i][2]
       /\ Cardinality(Covers(s[i]) \cap S) <= plan.chunk
  /\ \A i, j \in 1..Len(s) : i < j => s[i][2] < s[j][1]
  /\ \A x \in S : \E i \in 1..Len(s) : x \in Covers(s[i])

LEMMA OneChunk ==
  ASSUME TypeOK, NEW S \in SUBSET Ids, S # {}, plan.chunk > 1, Cardinality(S) <= plan.chunk
  PROVE  Cut(S, ChunksOf(S))
<1> DEFINE c == <<Min(S), Max(S)>>
<1>1. /\ Min(S) \in S /\ Max(S) \in S /\ Min(S) <= Max(S)
      /\ \A x \in S : Min(S) <= x /\ x <= Max(S)
  BY MinIsMin, MaxIsMax
<1>2. ChunksOf(S) = <<c>>
  BY DEF ChunksOf
<1>3. c \in Chunk /\ c[1] = Min(S) /\ c[2] = Max(S)
  BY <1>1 DEF Chunk
<1>4. \A x \in S : x \in Covers(c)
  BY <1>1, <1>3 DEF Covers
<1>5. Cardinality(Covers(c) \cap S) <= plan.chunk
  <2>1. Covers(c) \cap S = S
    BY <1>4
  <2> QED BY <2>1
<1> HIDE DEF c
<1>6. ChunksOf(S) \in Seq(Chunk) /\ Len(ChunksOf(S)) = 1 /\ ChunksOf(S)[1] = c
  BY <1>2, <1>3
<1> DEFINE s == ChunksOf(S)
<1>7. s \in Seq(Chunk) /\ Len(s) = 1 /\ s[1] = c /\ \A i \in 1..Len(s) : i = 1
  BY <1>6
<1> HIDE DEF s
<1>8. \A i \in 1..Len(s) : s[i] = c
  BY <1>7
<1>9. \A i \in 1..Len(s) :
        s[i][1] \in S /\ s[i][2] \in S /\ s[i][1] <= s[i][2]
        /\ Cardinality(Covers(s[i]) \cap S) <= plan.chunk
  BY <1>1, <1>3, <1>5, <1>8
<1>10. \A i, j \in 1..Len(s) : ~(i < j)
  BY <1>7
<1>11. \A x \in S : \E i \in 1..Len(s) : x \in Covers(s[i])
  BY <1>4, <1>7
<1>12. Cut(S, s)
  BY <1>7, <1>9, <1>10, <1>11 DEF Cut
<1> QED BY <1>12 DEF s

LEMMA ChunkPerRow ==
  ASSUME TypeOK, NEW S \in SUBSET Ids, S # {}, plan.chunk = 1
  PROVE  Cut(S, ChunksOf(S))
<1> DEFINE n == Cardinality(S)
           s == [i \in 1..n |-> <<Nth(S, i), Nth(S, i)>>]
<1>1. ChunksOf(S) = s
  BY DEF ChunksOf
<1>2. IsFiniteSet(S) /\ S \subseteq Int /\ n \in Nat /\ n # 0
  BY Finite, FS_EmptySet
<1>3. \A i \in 1..n : Nth(S, i) \in S /\ Nth(S, i) \in Int /\ Rank(S, Nth(S, i)) = i - 1
  BY <1>2, NthIsNth
<1>4. s \in Seq(Chunk) /\ Len(s) = n
  <2>1. \A i \in 1..n : <<Nth(S, i), Nth(S, i)>> \in Chunk
    BY <1>3 DEF Chunk
  <2> HIDE DEF n
  <2> QED BY <1>2, <2>1
<1>5. \A i \in 1..n : s[i][1] = Nth(S, i) /\ s[i][2] = Nth(S, i)
  OBVIOUS
<1> HIDE DEF s, n
<1>6. ASSUME NEW i \in 1..n
      PROVE  /\ s[i][1] \in S /\ s[i][2] \in S /\ s[i][1] <= s[i][2]
             /\ Cardinality(Covers(s[i]) \cap S) <= plan.chunk
  <2>1. s[i][1] \in S /\ s[i][2] \in S /\ s[i][1] <= s[i][2]
    BY <1>3, <1>5
  <2>2. Covers(s[i]) \cap S \subseteq {Nth(S, i)}
    <3> SUFFICES ASSUME NEW x \in S, s[i][1] <= x, x <= s[i][2] PROVE x = Nth(S, i)
      BY DEF Covers
    <3>1. x \in Int /\ Nth(S, i) \in Int /\ Nth(S, i) <= x /\ x <= Nth(S, i)
      BY <1>2, <1>3, <1>5
    <3> QED BY <3>1
  <2>3. IsFiniteSet({Nth(S, i)}) /\ Cardinality({Nth(S, i)}) = 1
    BY FS_Singleton
  <2>4. Cardinality(Covers(s[i]) \cap S) <= 1
    BY <2>2, <2>3, FS_Subset
  <2> QED BY <2>1, <2>4
<1>7. ASSUME NEW i \in 1..n, NEW j \in 1..n, i < j
      PROVE  s[i][2] < s[j][1]
  <2>1. Rank(S, Nth(S, i)) < Rank(S, Nth(S, j))
    BY <1>2, <1>3, <1>7
  <2>2. ~(Rank(S, Nth(S, j)) < Rank(S, Nth(S, i))) /\ Rank(S, Nth(S, j)) # Rank(S, Nth(S, i))
    BY <1>2, <1>3, <1>7
  <2>3. ~(Nth(S, j) < Nth(S, i)) /\ Nth(S, j) # Nth(S, i)
    BY <1>2, <1>3, <2>2, RankOrders
  <2> QED BY <1>3, <1>5, <2>3
<1>8. ASSUME NEW x \in S
      PROVE  \E i \in 1..n : x \in Covers(s[i])
  <2>1. Rank(S, x) \in Nat /\ Rank(S, x) < n
    <3>1. {y \in S : y < x} \subseteq S \ {x}
      BY <1>2
    <3>2. IsFiniteSet(S \ {x}) /\ Cardinality(S \ {x}) = n - 1
      BY <1>2, FS_RemoveElement DEF n
    <3>3. Rank(S, x) <= n - 1
      BY <3>1, <3>2, FS_Subset DEF Rank
    <3>4. Rank(S, x) \in Nat
      BY <1>2, RankOrders
    <3> QED BY <1>2, <3>3, <3>4
  <2> DEFINE i == Rank(S, x) + 1
  <2>2. i \in 1..n /\ i - 1 = Rank(S, x)
    BY <1>2, <2>1
  <2> HIDE DEF i
  <2>3. Rank(S, Nth(S, i)) = Rank(S, x)
    BY <1>3, <2>2
  <2>4. Nth(S, i) = x
    BY <1>2, <1>3, <2>2, <2>3, RankOrders
  <2>5. x \in Covers(s[i])
    BY <1>2, <1>5, <2>2, <2>4 DEF Covers
  <2> QED BY <2>2, <2>5
<1> QED BY <1>1, <1>2, <1>4, <1>6, <1>7, <1>8 DEF Cut

LEMMA ChunksShape ==
  ASSUME TypeOK, plan.chunk # 0, NEW S \in SUBSET Ids, S # {},
         plan.chunk > 1 => Cardinality(S) <= plan.chunk
  PROVE  Cut(S, ChunksOf(S))
<1>1. plan.chunk = 1 \/ plan.chunk > 1
  BY Rows
<1> QED BY <1>1, OneChunk, ChunkPerRow

-----------------------------------------------------------------------------
(* Types. *)

LEMMA InitTypeOK == Init => TypeOK
<1> SUFFICES ASSUME Init PROVE TypeOK
  OBVIOUS
<1>1. pcP \in ProducerState /\ pcW \in WriterState /\ pcR \in RunState
  BY DEF Init, ProducerState, WriterState, RunState
<1>2. errP \in Result /\ errW \in Result /\ result \in Result /\ exit \in Exit
  BY DEF Init, Result, Exit
<1>3. /\ queue \in Seq(Chunk \cup {FIN}) /\ Len(queue) <= QueueCap
      /\ page \in Seq(Chunk \cup {FIN})
  <2>1. queue = <<>> /\ page = <<>>
    BY DEF Init
  <2>2. 0 <= QueueCap
    BY RangeAssumption
  <2> QED BY <2>1, <2>2, EmptySeq
<1>4. applied \in [Ids -> Nat] /\ executed \in Nat /\ rowAffects \in Nat /\ counted \in Nat
      /\ attempt \in 0..MaxAttempts /\ faults \in 0..MaxFaults /\ lost \in 0..MaxLost
  <2>1. /\ applied = [id \in Ids |-> 0] /\ executed = 0 /\ rowAffects = 0 /\ counted = 0
        /\ attempt = 0 /\ faults = 0 /\ lost = 0
    BY DEF Init
  <2>2. 0 \in 0..MaxAttempts /\ 0 \in 0..MaxFaults /\ 0 \in 0..MaxLost
    BY RangeAssumption
  <2> QED BY <2>1, <2>2
<1>5. plan \in Plan /\ inserted \subseteq NewIds /\ cursor \in Ids \cup {NoId}
      /\ chunk \in Chunk \cup {FIN} /\ txRows \subseteq Ids
  BY DEF Init
<1>6. finish \in BOOLEAN /\ canceled \in BOOLEAN /\ stopped \in BOOLEAN
  BY DEF Init
<1> QED BY <1>1, <1>2, <1>3, <1>4, <1>5, <1>6 DEF TypeOK

(* The parts of the type by who changes them. *)
BuilderOK ==
  /\ pcP \in ProducerState /\ errP \in Result
  /\ page \in Seq(Chunk \cup {FIN}) /\ cursor \in Ids \cup {NoId}
QueueOK == queue \in Seq(Chunk \cup {FIN}) /\ Len(queue) <= QueueCap
TableOK == applied \in [Ids -> Nat] /\ executed \in Nat
EndsOK == pcW \in WriterState /\ errW \in Result /\ exit \in Exit /\ finish \in BOOLEAN
WriterOK ==
  /\ chunk \in Chunk \cup {FIN} /\ attempt \in 0..MaxAttempts
  /\ txRows \subseteq Ids /\ rowAffects \in Nat /\ counted \in Nat
OutsideOK ==
  /\ inserted \subseteq NewIds /\ canceled \in BOOLEAN /\ stopped \in BOOLEAN
  /\ faults \in 0..MaxFaults /\ lost \in 0..MaxLost
RunnerOK == pcR \in RunState /\ result \in Result

LEMMA TypeParts ==
  TypeOK <=> /\ plan \in Plan
             /\ BuilderOK /\ QueueOK /\ TableOK /\ EndsOK /\ WriterOK /\ OutsideOK /\ RunnerOK
BY DEF TypeOK, BuilderOK, QueueOK, TableOK, EndsOK, WriterOK, OutsideOK, RunnerOK

LEMMA TypeJoin ==
  ASSUME plan' \in Plan,
         BuilderOK', QueueOK', TableOK', EndsOK', WriterOK', OutsideOK', RunnerOK'
  PROVE  TypeOK'
<1>1. pcP' \in ProducerState /\ errP' \in Result
      /\ page' \in Seq(Chunk \cup {FIN}) /\ cursor' \in Ids \cup {NoId}
  BY DEF BuilderOK
<1>2. /\ queue' \in Seq(Chunk \cup {FIN}) /\ Len(queue') <= QueueCap
      /\ applied' \in [Ids -> Nat] /\ executed' \in Nat
  BY DEF QueueOK, TableOK
<1>3. pcW' \in WriterState /\ errW' \in Result /\ exit' \in Exit /\ finish' \in BOOLEAN
  BY DEF EndsOK
<1>4. /\ chunk' \in Chunk \cup {FIN} /\ attempt' \in 0..MaxAttempts
      /\ txRows' \subseteq Ids /\ rowAffects' \in Nat /\ counted' \in Nat
  BY DEF WriterOK
<1>5. /\ inserted' \subseteq NewIds /\ canceled' \in BOOLEAN /\ stopped' \in BOOLEAN
      /\ faults' \in 0..MaxFaults /\ lost' \in 0..MaxLost
  BY DEF OutsideOK
<1>6. pcR' \in RunState /\ result' \in Result
  BY DEF RunnerOK
<1> QED BY <1>1, <1>2, <1>3, <1>4, <1>5, <1>6, Zenon DEF TypeOK

(* Parts that a step leaves alone. *)
LEMMA TypeFrames ==
  /\ BuilderOK /\ UNCHANGED builder => BuilderOK'
  /\ QueueOK /\ UNCHANGED queue => QueueOK'
  /\ TableOK /\ UNCHANGED table => TableOK'
  /\ EndsOK /\ WriterOK /\ UNCHANGED writer => EndsOK' /\ WriterOK'
  /\ OutsideOK /\ UNCHANGED outside => OutsideOK'
  /\ RunnerOK /\ UNCHANGED runner => RunnerOK'
BY DEF BuilderOK, QueueOK, TableOK, EndsOK, WriterOK, OutsideOK, RunnerOK, builder, table, writer,
   outside, runner

LEMMA FaultOK == OutsideOK /\ Fault => OutsideOK'
BY RangeAssumption DEF OutsideOK, Fault

LEMMA TakesEffectOK == TableOK /\ WriterOK /\ TakesEffect => TableOK'
<1> SUFFICES ASSUME TableOK, WriterOK, TakesEffect PROVE TableOK'
  OBVIOUS
<1>1. Cardinality(txRows) \in Nat
  BY Finite DEF WriterOK
<1> QED BY <1>1 DEF TableOK, TakesEffect

(* BuildSQL queues what it has fetched. *)
Filled == pcP = "enqueue" => page # <<>>

LEMMA BuilderTypes ==
  TypeOK /\ Filled /\ (Fetch \/ FetchNothing \/ FetchFails \/ Enqueue \/ ProducerStops) => TypeOK'
<1> SUFFICES ASSUME TypeOK, Filled, Fetch \/ FetchNothing \/ FetchFails \/ Enqueue \/ ProducerStops
             PROVE  TypeOK'
  OBVIOUS
<1>1. pcP' \in ProducerState /\ errP' \in Result
  BY TypeParts DEF Fetch, FetchNothing, FetchFails, Enqueue, ProducerStops, ProducerReturns,
     BuilderOK, ProducerState, Result
<1>2. CASE Fetch
  <2>1. plan.chunk # 0 /\ page' = ChunksOf(Fetched) /\ queue' = queue
        /\ cursor' = (IF Fetched = {} THEN cursor ELSE Max(Fetched))
        /\ UNCHANGED <<plan, table, queue, writer, runner, outside>>
    BY <1>2 DEF Fetch
  <2>2. Fetched \in SUBSET Ids /\ (plan.chunk > 1 => Cardinality(Fetched) <= plan.chunk)
    BY <2>1, FetchedIsPage
  <2>3. page' \in Seq(Chunk \cup {FIN})
    <3>1. CASE Fetched = {}
      BY <2>1, <3>1 DEF ChunksOf
    <3>2. CASE Fetched # {}
      <4>1. Cut(Fetched, ChunksOf(Fetched))
        BY <2>1, <2>2, <3>2, ChunksShape
      <4>2. page' \in Seq(Chunk)
        BY <2>1, <4>1 DEF Cut
      <4> QED BY <4>2, SeqMonotonic
    <3> QED BY <3>1, <3>2
  <2>4. cursor' \in Ids \cup {NoId}
    BY <2>1, <2>2, MaxIsMax, TypeParts DEF BuilderOK
  <2>5. BuilderOK'
    BY <1>1, <2>3, <2>4 DEF BuilderOK
  <2> QED BY <2>1, <2>5, TypeParts, TypeFrames, TypeJoin
<1>3. CASE Enqueue
  <2>1. /\ pcP = "enqueue" /\ Len(queue) < QueueCap
        /\ queue' = Append(queue, Head(page)) /\ page' = Tail(page)
        /\ UNCHANGED <<plan, table, cursor, writer, runner, outside>>
    BY <1>3 DEF Enqueue
  <2>2. page \in Seq(Chunk \cup {FIN}) /\ page # <<>> /\ queue \in Seq(Chunk \cup {FIN})
    BY <2>1, TypeParts DEF Filled, BuilderOK, QueueOK
  <2>3. Head(page) \in Chunk \cup {FIN} /\ page' \in Seq(Chunk \cup {FIN})
    BY <2>1, <2>2, HeadTailProperties
  <2>4. QueueOK'
    <3>1. queue' \in Seq(Chunk \cup {FIN}) /\ Len(queue') = Len(queue) + 1
      BY <2>1, <2>2, <2>3, AppendProperties
    <3>2. Len(queue) \in Nat /\ QueueCap \in Nat
      BY <2>2, RangeAssumption
    <3> QED BY <2>1, <3>1, <3>2 DEF QueueOK
  <2>5. BuilderOK'
    BY <1>1, <2>1, <2>3, TypeParts DEF BuilderOK
  <2> QED BY <2>1, <2>4, <2>5, TypeParts, TypeFrames, TypeJoin
<1>4. CASE FetchNothing \/ FetchFails \/ ProducerStops
  <2>1. /\ UNCHANGED <<plan, table, queue, cursor, writer, runner>>
        /\ page' = page \/ page' = <<FIN>>
        /\ Fault \/ UNCHANGED outside
    BY <1>4 DEF FetchNothing, FetchFails, ProducerStops
  <2>2. page \in Seq(Chunk \cup {FIN}) /\ <<FIN>> \in Seq(Chunk \cup {FIN})
        /\ cursor \in Ids \cup {NoId}
    BY TypeParts DEF BuilderOK
  <2>3. OutsideOK'
    BY <2>1, FaultOK, TypeParts, TypeFrames
  <2>4. page' \in Seq(Chunk \cup {FIN})
    BY <2>1, <2>2
  <2>5. BuilderOK'
    BY <1>1, <2>1, <2>2, <2>4 DEF BuilderOK
  <2> QED BY <2>1, <2>3, <2>5, TypeParts, TypeFrames, TypeJoin
<1> QED BY <1>2, <1>3, <1>4

LEMMA EndsTypes == EndsOK /\ Consuming => EndsOK'
<1> SUFFICES ASSUME EndsOK, Consuming PROVE EndsOK'
  OBVIOUS
<1>1. CASE Top \/ Begin \/ Full \/ TakeCanceled \/ Take \/ ExecSucceeds \/ ExecFails
  BY <1>1 DEF Top, Begin, Full, TakeCanceled, Take, ExecSucceeds, ExecFails, WriteReturns,
     WriteFails, WriterAt, EndsOK, WriterState, Result, Exit
<1>2. CASE RetryExec \/ RetryCanceled \/ RetrySucceeds \/ RetryFails \/ RetryReplyLost \/ Reopen
  BY <1>2 DEF RetryExec, RetryCanceled, RetrySucceeds, RetryFails, RetryReplyLost, Reopen,
     NextAttempt, WriteReturns, WriteFails, WriterAt, EndsOK, WriterState, Result, Exit
<1>3. CASE Commit \/ CommitSucceeds \/ CommitFails \/ AfterCommit
  BY <1>3 DEF Commit, CommitSucceeds, CommitFails, AfterCommit, WriteReturns, WriteFails,
     WriterAt, EndsOK, WriterState, Result, Exit
<1> QED BY <1>1, <1>2, <1>3 DEF Consuming

(* What the steps of Write leave alone. *)
LEMMA PassingFrame ==
  Passing => /\ UNCHANGED <<plan, table, queue, builder, chunk, counted, runner>>
             /\ txRows' = {} \/ txRows' = txRows
             /\ rowAffects' = 0 \/ rowAffects' = rowAffects
             /\ attempt' = attempt \/ attempt' = 1 \/ (attempt < MaxAttempts /\ attempt' = attempt + 1)
             /\ Fault \/ UNCHANGED outside
<1>1. Top \/ Begin \/ Full \/ TakeCanceled \/ RetryCanceled \/ Reopen \/ Commit \/ AfterCommit
        => /\ UNCHANGED <<plan, table, queue, builder, chunk, counted, runner>>
           /\ txRows' = {} \/ txRows' = txRows
           /\ rowAffects' = 0 \/ rowAffects' = rowAffects
           /\ attempt' = attempt
           /\ Fault \/ UNCHANGED outside
  BY DEF Top, Begin, Full, TakeCanceled, RetryCanceled, Reopen, Commit, AfterCommit
<1>2. ExecFails \/ RetryFails
        => /\ UNCHANGED <<plan, table, queue, builder, chunk, counted, runner>>
           /\ txRows' = {} /\ rowAffects' = rowAffects
           /\ attempt' = attempt \/ attempt' = 1 \/ (attempt < MaxAttempts /\ attempt' = attempt + 1)
           /\ Fault \/ UNCHANGED outside
  BY DEF ExecFails, RetryFails, NextAttempt
<1> QED BY <1>1, <1>2 DEF Passing

LEMMA EffectsFrame ==
  Effects => /\ UNCHANGED <<plan, queue, builder, chunk, runner, inserted, canceled, stopped>>
             /\ TakesEffect \/ UNCHANGED table
             /\ txRows' = {}
             /\ rowAffects' = rowAffects + Cardinality(txRows) \/ rowAffects' = rowAffects
             /\ counted' = counted + rowAffects \/ counted' = counted
             /\ \/ attempt' = attempt \/ attempt' = 0
                \/ attempt < MaxAttempts /\ attempt' = attempt + 1
             /\ Fault \/ (lost < MaxLost /\ lost' = lost + 1 /\ faults' = faults) \/ UNCHANGED outside
<1>1. RetrySucceeds \/ CommitSucceeds \/ CommitFails
        => /\ UNCHANGED <<plan, queue, builder, chunk, runner, inserted, canceled, stopped>>
           /\ TakesEffect \/ UNCHANGED table
           /\ txRows' = {}
           /\ rowAffects' = rowAffects + Cardinality(txRows) \/ rowAffects' = rowAffects
           /\ counted' = counted + rowAffects \/ counted' = counted
           /\ attempt' = attempt \/ attempt' = 0
           /\ Fault \/ UNCHANGED outside
  BY DEF RetrySucceeds, CommitSucceeds, CommitFails, outside, Fault
<1>2. RetryReplyLost
        => /\ UNCHANGED <<plan, queue, builder, chunk, runner, inserted, canceled, stopped>>
           /\ TakesEffect /\ txRows' = {} /\ rowAffects' = rowAffects /\ counted' = counted
           /\ attempt' = attempt \/ (attempt < MaxAttempts /\ attempt' = attempt + 1)
           /\ lost < MaxLost /\ lost' = lost + 1 /\ faults' = faults
  BY DEF RetryReplyLost, NextAttempt
<1> QED BY <1>1, <1>2 DEF Effects

LEMMA AttemptsBound ==
  ASSUME NEW a \in 0..MaxAttempts, NEW b,
         b = a \/ b = 0 \/ b = 1 \/ (a < MaxAttempts /\ b = a + 1)
  PROVE  b \in 0..MaxAttempts
BY RangeAssumption

(* A statement runs on the chunk Write has taken. *)
InHand == pcW \in {"exec", "retry", "retrySent"}
Handed == InHand => chunk \in Chunk

LEMMA WriterTypes ==
  TypeOK /\ Handed /\ (Passing \/ Effects \/ Take \/ ExecSucceeds \/ RetryExec) => TypeOK'
<1> SUFFICES ASSUME TypeOK, Handed, Passing \/ Effects \/ Take \/ ExecSucceeds \/ RetryExec
             PROVE  TypeOK'
  OBVIOUS
<1>1. EndsOK'
  <2>1. Consuming
    BY DEF Consuming, Passing, Effects
  <2> QED BY <2>1, EndsTypes, TypeParts
<1>2. /\ plan \in Plan /\ chunk \in Chunk \cup {FIN} /\ attempt \in 0..MaxAttempts
      /\ txRows \subseteq Ids /\ rowAffects \in Nat /\ counted \in Nat
      /\ Cardinality(txRows) \in Nat
  BY TypeParts, Finite DEF WriterOK
<1>3. CASE Passing
  <2>1. OutsideOK'
    BY <1>3, PassingFrame, FaultOK, TypeParts, TypeFrames
  <2>2. attempt' \in 0..MaxAttempts
    BY <1>2, <1>3, PassingFrame, AttemptsBound
  <2>3. WriterOK'
    BY <1>2, <1>3, <2>2, PassingFrame DEF WriterOK
  <2>4. plan' \in Plan /\ BuilderOK' /\ QueueOK' /\ TableOK' /\ RunnerOK'
    BY <1>2, <1>3, PassingFrame, TypeParts, TypeFrames
  <2> QED BY <1>1, <2>1, <2>3, <2>4, TypeJoin
<1>4. CASE Effects
  <2>1. OutsideOK'
    <3>1. CASE Fault \/ UNCHANGED outside
      BY <3>1, FaultOK, TypeParts, TypeFrames
    <3>2. CASE lost < MaxLost /\ lost' = lost + 1 /\ faults' = faults
      <4>1. /\ inserted \subseteq NewIds /\ canceled \in BOOLEAN /\ stopped \in BOOLEAN
            /\ faults \in 0..MaxFaults /\ lost \in 0..MaxLost
        BY TypeParts DEF OutsideOK
      <4>2. lost' \in 0..MaxLost
        BY <3>2, <4>1, RangeAssumption
      <4>3. inserted' = inserted /\ canceled' = canceled /\ stopped' = stopped
        BY <1>4, EffectsFrame
      <4> QED BY <3>2, <4>1, <4>2, <4>3 DEF OutsideOK
    <3> QED BY <1>4, <3>1, <3>2, EffectsFrame
  <2>2. attempt' \in 0..MaxAttempts
    BY <1>2, <1>4, EffectsFrame, AttemptsBound
  <2>3. rowAffects' \in Nat /\ counted' \in Nat
    BY <1>2, <1>4, EffectsFrame
  <2>4. WriterOK'
    BY <1>2, <1>4, <2>2, <2>3, EffectsFrame DEF WriterOK
  <2>5. TableOK'
    BY <1>4, EffectsFrame, TakesEffectOK, TypeParts, TypeFrames
  <2>6. plan' \in Plan /\ BuilderOK' /\ QueueOK' /\ RunnerOK'
    BY <1>2, <1>4, EffectsFrame, TypeParts, TypeFrames
  <2> QED BY <1>1, <2>1, <2>4, <2>5, <2>6, TypeJoin
<1>5. CASE Take
  <2>1. /\ queue # <<>> /\ queue' = Tail(queue)
        /\ chunk' = chunk \/ (chunk' = Head(queue))
        /\ UNCHANGED <<plan, table, builder, attempt, txRows, rowAffects, counted, runner, outside>>
    BY <1>5 DEF Take
  <2>2. queue \in Seq(Chunk \cup {FIN}) /\ Len(queue) <= QueueCap
    BY TypeParts DEF QueueOK
  <2>3. Head(queue) \in Chunk \cup {FIN} /\ queue' \in Seq(Chunk \cup {FIN})
        /\ Len(queue') = Len(queue) - 1 /\ Len(queue) \in Nat
    BY <2>1, <2>2, HeadTailProperties
  <2>4. QueueOK'
    BY <2>2, <2>3, RangeAssumption DEF QueueOK
  <2>5. WriterOK'
    BY <1>2, <2>1, <2>3 DEF WriterOK
  <2> QED BY <1>1, <2>1, <2>4, <2>5, TypeParts, TypeFrames, TypeJoin
<1>6. CASE ExecSucceeds \/ RetryExec
  <2>1. chunk \in Chunk
    BY <1>6 DEF ExecSucceeds, RetryExec, Handed, InHand
  <2>2. \E S \in Hits(chunk) :
          /\ txRows' = txRows \cup S \/ txRows' = S
          /\ rowAffects' = rowAffects + Cardinality(S) \/ rowAffects' = rowAffects
    BY <1>6 DEF ExecSucceeds, RetryExec
  <2>3. UNCHANGED <<plan, table, queue, builder, chunk, attempt, counted, runner, outside>>
    BY <1>6 DEF ExecSucceeds, RetryExec
  <2>4. PICK S \in Hits(chunk) :
          /\ txRows' = txRows \cup S \/ txRows' = S
          /\ rowAffects' = rowAffects + Cardinality(S) \/ rowAffects' = rowAffects
    BY <2>2
  <2>5. S \subseteq Ids /\ Cardinality(S) \in Nat
    BY <2>1, <2>4, HitsBound DEF Covers
  <2>6. WriterOK'
    BY <1>2, <2>3, <2>4, <2>5 DEF WriterOK
  <2> QED BY <1>1, <2>3, <2>6, TypeParts, TypeFrames, TypeJoin
<1> QED BY <1>3, <1>4, <1>5, <1>6

LEMMA RunnerTypes ==
  TypeOK /\ (Running \/ Cancel \/ (\E id \in NewIds : Insert(id)) \/ UNCHANGED vars) => TypeOK'
<1> SUFFICES ASSUME TypeOK, Running \/ Cancel \/ (\E id \in NewIds : Insert(id)) \/ UNCHANGED vars
             PROVE  TypeOK'
  OBVIOUS
<1>1. UNCHANGED <<plan, table, queue, builder, writer>>
  BY DEF Running, TakesProducer, TakesWriter, Drained, Cancel, Insert, vars
<1>2. plan' \in Plan /\ BuilderOK' /\ QueueOK' /\ TableOK' /\ EndsOK' /\ WriterOK'
  BY <1>1, TypeParts, TypeFrames
<1>3. RunnerOK'
  <2>1. pcR \in RunState /\ result \in Result /\ errW \in Result
    BY TypeParts DEF RunnerOK, EndsOK
  <2>2. pcR' \in RunState
    BY <2>1 DEF Running, TakesProducer, TakesWriter, Drained, Cancel, Insert, vars, runner,
       RunState
  <2>3. result' \in Result
    BY <2>1 DEF Running, TakesProducer, TakesWriter, Drained, Cancel, Insert, vars, runner,
       Result
  <2> QED BY <2>2, <2>3 DEF RunnerOK
<1>4. OutsideOK'
  <2>1. /\ inserted \subseteq NewIds /\ canceled \in BOOLEAN /\ stopped \in BOOLEAN
        /\ faults \in 0..MaxFaults /\ lost \in 0..MaxLost
    BY TypeParts DEF OutsideOK
  <2>2. inserted' \subseteq NewIds /\ faults' = faults /\ lost' = lost
    BY <2>1 DEF Running, TakesProducer, TakesWriter, Drained, Cancel, Insert, vars, outside
  <2>3. canceled' \in BOOLEAN /\ stopped' \in BOOLEAN
    BY <2>1 DEF Running, TakesProducer, TakesWriter, Drained, Cancel, Insert, vars, outside
  <2> QED BY <2>1, <2>2, <2>3 DEF OutsideOK
<1> QED BY <1>2, <1>3, <1>4, TypeJoin

LEMMA StepTypeOK == TypeOK /\ Filled /\ Handed /\ [Next]_vars => TypeOK'
BY StepSplit, BuilderTypes, WriterTypes, RunnerTypes

-----------------------------------------------------------------------------
(* The inductive invariant. *)

(* The chunks still to be taken. *)
Line == queue \o page
Scanned == plan.chunk # 0 => \A id \in OldIds : ~PastCursor(id)

Sized(c) ==
  /\ c \in Chunk /\ c[1] <= c[2] /\ cursor # NoId /\ c[2] <= cursor
  /\ Cardinality(Covers(c) \cap OldIds) <= plan.chunk

Lined ==
  /\ \A i \in 1..Len(Line) : Line[i] # FIN => Sized(Line[i])
  /\ \A i, j \in 1..Len(Line) :
       i < j => Line[i] # FIN /\ (Line[j] # FIN => Line[i][2] < Line[j][1])

(* The end marker follows the last chunk. *)
Closed ==
  /\ Filled
  /\ pcP = "fetch" => page = <<>> /\ \A i \in 1..Len(Line) : Line[i] # FIN
  /\ (\E i \in 1..Len(Line) : Line[i] = FIN) => Scanned
  /\ (finish /\ pcW # "done") \/ exit = "exhausted" => Line = <<>> /\ pcP = "done" /\ Scanned

Behind(id) == \A i \in 1..Len(Line) : Line[i] # FIN => id < Line[i][1]
Held == InHand => Sized(chunk) /\ Behind(chunk[2])

(* A row is reached when it is executed, committed or not. *)
Reached(id) == applied[id] > 0 \/ id \in txRows
Followed ==
  \A id \in Ids : Reached(id) =>
    /\ ~PastCursor(id) /\ Behind(id)
    /\ InHand => id < chunk[1] \/ (pcW # "exec" /\ id \in Covers(chunk))

(* Only a retry executes a row that is done. *)
Replayed ==
  /\ txRows # {} => pcW \in {"take", "exec", "retrySent", "commit", "sent"}
  /\ \A id \in txRows : applied[id] = 0 \/ (pcW = "retrySent" /\ plan.stmt = "update")
  /\ pcW \in {"retry", "retrySent"} => \A id \in Covers(chunk) : applied[id] <= lost
  /\ pcW = "retrySent" => txRows \subseteq Covers(chunk)
  /\ OnlyLostRepliesReplay

(* The rows of the chunks that are done, those a LIMIT has left out, and     *)
(* those that can have taken their place.                                    *)
Passed(id) ==
  /\ ~PastCursor(id)
  /\ \A i \in 1..Len(Line) : Line[i] # FIN => id \notin Covers(Line[i])
  /\ InHand => id \notin Covers(chunk)
Missed == {id \in OldIds : Passed(id) /\ ~Reached(id)}
Extra == {id \in inserted : Passed(id)}
Left(c) == {id \in OldIds \cap Covers(c) : ~Reached(id)}

(* The run is still going, or has come to the end of the table. *)
Whole == pcW # "done" \/ exit = "exhausted"

Covered ==
  /\ Whole => Cardinality(Missed) <= Cardinality(Extra)
  /\ pcW = "retrySent" => Cardinality(Left(chunk)) <= Cardinality(inserted \cap Covers(chunk))

(* The books: what is committed or about to be, and what is counted of it. *)
Excess == plan.chunk * lost
InTransaction == pcW \in {"take", "exec", "reopen", "commit", "sent"}
Limits == plan.max > 0 /\ plan.txn > 0
CleanExits == {"exhausted", "max_rows", "max_duration"}

Tallied ==
  /\ counted <= executed
  /\ InTransaction => /\ counted + rowAffects <= executed + Cardinality(txRows)
                      /\ executed + Cardinality(txRows) <= counted + rowAffects + Excess
                      /\ Cardinality(txRows) <= rowAffects
  /\ pcW \in {"top", "begin", "retry", "retrySent", "rate"} \/ exit \in CleanExits
       => executed <= counted + Excess
  /\ pcW \in {"retry", "retrySent"} => rowAffects = 0
  /\ pcW = "retrySent" => Cardinality(txRows) <= plan.chunk

Gauge ==
  Limits => /\ pcW \notin {"rate", "done"} => counted <= plan.max - 1
            /\ pcW = "exec" => rowAffects <= plan.txn - 1
            /\ InTransaction => rowAffects <= (plan.txn - 1) + plan.chunk
Limited == Gauge /\ OvershootBounded

(* Why each goroutine has ended. *)
Ended ==
  /\ pcW # "done" => errW = "" /\ exit = ""
  /\ pcW = "done" => /\ errW \in {"nil", "error"}
                     /\ errW = "nil" => exit = "canceled" \/ (exit \in CleanExits /\ finish)
  /\ exit = "canceled" => stopped \/ result = "error"
  /\ canceled => stopped \/ result = "error" \/ pcW = "done"
Joined ==
  /\ pcR = "both" => result = ""
  /\ pcR = "writerOnly" => result = "" /\ pcP = "done"
  /\ pcR = "drainWriter" => result = "error" /\ pcP = "done"
  /\ pcR = "drainProducer" => result = errW /\ pcW = "done"
  /\ pcR = "done" => pcP = "done" /\ pcW = "done" /\ result \in {errW, "error"}

IInv ==
  /\ TypeOK /\ Lined /\ Closed /\ Held /\ Followed /\ Replayed /\ Covered
  /\ Tallied /\ Limited /\ Ended /\ Joined

-----------------------------------------------------------------------------
(* The line of chunks. *)

LEMMA ShiftConcat ==
  ASSUME NEW T, NEW q \in Seq(T), NEW p \in Seq(T), p # <<>>
  PROVE  Append(q, Head(p)) \o Tail(p) = q \o p
<1>1. Head(p) \in T /\ Tail(p) \in Seq(T) /\ Len(Tail(p)) = Len(p) - 1 /\ Len(p) \in Nat \ {0}
      /\ Head(p) = p[1] /\ \A i \in 1..Len(Tail(p)) : Tail(p)[i] = p[i + 1]
  BY HeadTailProperties
<1>2. Len(q) \in Nat
  OBVIOUS
<1> QED BY <1>1, <1>2

LEMMA TailConcat ==
  ASSUME NEW T, NEW q \in Seq(T), NEW p \in Seq(T), q # <<>>
  PROVE  /\ Tail(q) \o p = Tail(q \o p) /\ Head(q) = (q \o p)[1] /\ q \o p # <<>>
         /\ Len(Tail(q \o p)) = Len(q \o p) - 1
         /\ \A i \in 1..Len(Tail(q \o p)) : Tail(q \o p)[i] = (q \o p)[i + 1]
<1>1. Len(q) \in Nat \ {0} /\ Len(p) \in Nat /\ Head(q) = q[1]
  BY HeadTailProperties
<1>2. q \o p \in Seq(T) /\ Len(q \o p) = Len(q) + Len(p) /\ (q \o p)[1] = q[1]
  BY <1>1
<1>3. q \o p # <<>>
  BY <1>1, <1>2
<1>4. /\ Len(Tail(q \o p)) = Len(q \o p) - 1
      /\ \A i \in 1..Len(Tail(q \o p)) : Tail(q \o p)[i] = (q \o p)[i + 1]
  BY <1>2, <1>3, HeadTailProperties
<1>5. Tail(q) \o p = Tail(q \o p)
  BY <1>1
<1> QED BY <1>1, <1>2, <1>3, <1>4, <1>5

LEMMA LineIsSeq ==
  ASSUME TypeOK
  PROVE  /\ Line \in Seq(Chunk \cup {FIN}) /\ Len(Line) = Len(queue) + Len(page)
         /\ Len(queue) \in Nat /\ Len(page) \in Nat
         /\ \A i \in 1..Len(queue) : Line[i] = queue[i]
         /\ \A i \in 1..Len(page) : Line[Len(queue) + i] = page[i]
<1>1. queue \in Seq(Chunk \cup {FIN}) /\ page \in Seq(Chunk \cup {FIN})
  BY TypeParts DEF QueueOK, BuilderOK
<1> QED BY <1>1 DEF Line

(* A step extends the line at its end, takes its head or leaves it alone.    *)
Takes == Take /\ Line # <<>> /\ Head(queue) = Line[1] /\ Line' = Tail(Line)

LEMMA LineSteps ==
  ASSUME TypeOK, Closed, [Next]_vars
  PROVE  \/ Fetch /\ Line' = Line \o page'
         \/ FetchNothing /\ Line' = Line \o page'
         \/ Takes
         \/ Line' = Line /\ ~Fetch /\ ~FetchNothing /\ ~Take
<1>1. queue \in Seq(Chunk \cup {FIN}) /\ page \in Seq(Chunk \cup {FIN})
  BY TypeParts DEF QueueOK, BuilderOK
<1>2. CASE Fetch \/ FetchNothing
  <2>1. page = <<>> /\ queue' = queue
    BY <1>2 DEF Fetch, FetchNothing, Closed
  <2>2. Line = queue
    BY <1>1, <2>1, ConcatEmptySeq DEF Line
  <2> QED BY <1>2, <2>1, <2>2 DEF Line
<1>3. CASE Enqueue
  <2>1. page # <<>> /\ queue' = Append(queue, Head(page)) /\ page' = Tail(page)
    BY <1>3 DEF Enqueue, Closed, Filled
  <2>2. Line' = Line
    BY <1>1, <2>1, ShiftConcat DEF Line
  <2> QED BY <1>3, <2>2 DEF Enqueue, Fetch, FetchNothing, Take, writer
<1>4. CASE Take
  <2>1. queue # <<>> /\ queue' = Tail(queue) /\ page' = page
    BY <1>4 DEF Take, builder
  <2> QED BY <1>1, <1>4, <2>1, TailConcat DEF Line, Takes
<1>5. ASSUME FetchFails \/ ProducerStops \/ Passing \/ Effects \/ ExecSucceeds \/ RetryExec
             \/ Running \/ Cancel \/ UNCHANGED vars \/ (\E id \in NewIds : Insert(id)),
             ~Fetch, ~FetchNothing, ~Take
      PROVE  Line' = Line
  <2>1. queue' = queue /\ page' = page
    BY <1>5, PassingFrame, EffectsFrame DEF FetchFails, ProducerStops, ExecSucceeds, RetryExec, Running,
       TakesProducer, TakesWriter, Drained, Cancel, Insert, vars, builder
  <2> QED BY <2>1 DEF Line
<1> QED BY <1>2, <1>3, <1>4, <1>5, StepSplit

LEMMA CursorIsInt ==
  ASSUME TypeOK
  PROVE  /\ cursor # NoId => cursor \in Ids /\ cursor \in Int
         /\ Ids \subseteq Int /\ OldIds \subseteq Ids /\ \A id \in Ids : id # NoId
         /\ \A c \in Chunk : c # FIN /\ c[1] \in Int /\ c[2] \in Int /\ c[1] \in Ids /\ c[2] \in Ids
BY RangeAssumption, TypeParts DEF BuilderOK, Ids, Chunk

(* An old row past the cursor still matches: no chunk has come to it. *)
LEMMA OldRemain ==
  ASSUME TypeOK, Followed, NEW id \in OldIds, PastCursor(id)
  PROVE  id \in Remaining
<1>1. id \in Ids /\ applied[id] \in Nat /\ ~(applied[id] > 0)
  BY CursorIsInt, TypeParts DEF Followed, Reached, TableOK
<1>2. applied[id] = 0
  BY <1>1
<1> QED BY <1>2 DEF Remaining, Matching

(* A fetch moves the cursor to the last key it returns; the old rows it      *)
(* passes are in its chunks.                                                 *)
Advance ==
  /\ cursor' \in Ids /\ (cursor # NoId => cursor < cursor')
  /\ page' \in Seq(Chunk)
  /\ \A i \in 1..Len(page') :
       /\ PastCursor(page'[i][1]) /\ page'[i][1] <= page'[i][2] /\ page'[i][2] <= cursor'
       /\ Cardinality(Covers(page'[i]) \cap OldIds) <= plan.chunk
  /\ \A i, j \in 1..Len(page') : i < j => page'[i][2] < page'[j][1]
  /\ \A id \in OldIds : PastCursor(id) /\ id <= cursor' => \E i \in 1..Len(page') : id \in Covers(page'[i])

LEMMA FetchShape ==
  ASSUME TypeOK, Followed, Fetch
  PROVE  \/ page' = <<FIN>> /\ cursor' = cursor /\ Scanned
         \/ Advance
<1>1. plan.chunk # 0 /\ page' = ChunksOf(Fetched)
      /\ cursor' = (IF Fetched = {} THEN cursor ELSE Max(Fetched))
  BY DEF Fetch
<1>2. /\ Fetched \subseteq Remaining /\ Fetched \in SUBSET Ids
      /\ plan.chunk > 1 => Cardinality(Fetched) <= plan.chunk
      /\ \A x \in Fetched, y \in Remaining : y <= x => y \in Fetched
      /\ Fetched = {} => Remaining = {}
  BY <1>1, FetchedIsPage
<1>3. CASE Fetched = {}
  <2>1. page' = <<FIN>> /\ cursor' = cursor
    BY <1>1, <1>3 DEF ChunksOf
  <2>2. Scanned
    BY <1>2, <1>3, OldRemain DEF Scanned
  <2> QED BY <2>1, <2>2
<1>4. CASE Fetched # {}
  <2>1. /\ cursor' \in Fetched /\ cursor' \in Int /\ \A y \in Fetched : y <= cursor'
    BY <1>1, <1>2, <1>4, MaxIsMax
  <2>2. Cut(Fetched, page')
    BY <1>1, <1>2, <1>4, ChunksShape
  <2>3. \A x \in Fetched : PastCursor(x) /\ x \in Ids
    BY <1>2 DEF Remaining
  <2>4. cursor' \in Ids /\ (cursor # NoId => cursor < cursor')
    BY <2>1, <2>3, CursorIsInt DEF PastCursor
  <2>5. \A id \in OldIds : PastCursor(id) /\ id <= cursor' => id \in Fetched
    BY <1>2, <2>1, OldRemain
  <2>6. ASSUME NEW i \in 1..Len(page')
        PROVE  /\ PastCursor(page'[i][1]) /\ page'[i][1] <= page'[i][2] /\ page'[i][2] <= cursor'
               /\ Cardinality(Covers(page'[i]) \cap OldIds) <= plan.chunk
    <3>1. page'[i][1] \in Fetched /\ page'[i][2] \in Fetched /\ page'[i][1] <= page'[i][2]
          /\ Cardinality(Covers(page'[i]) \cap Fetched) <= plan.chunk
      BY <2>2 DEF Cut
    <3>2. PastCursor(page'[i][1]) /\ page'[i][2] <= cursor'
      BY <2>1, <2>3, <3>1
    <3>3. Covers(page'[i]) \cap OldIds \subseteq Covers(page'[i]) \cap Fetched
      <4> SUFFICES ASSUME NEW id \in OldIds, page'[i][1] <= id, id <= page'[i][2]
                   PROVE  id \in Fetched
        BY DEF Covers
      <4>1. id \in Int /\ page'[i][1] \in Int /\ page'[i][2] \in Int /\ page'[i][1] \in Ids
        BY <2>3, <3>1, CursorIsInt
      <4>2. PastCursor(id)
        BY <3>2, <4>1, CursorIsInt DEF PastCursor
      <4>3. id <= cursor'
        BY <2>1, <3>2, <4>1
      <4> QED BY <2>5, <4>2, <4>3
    <3>4. /\ Cardinality(Covers(page'[i]) \cap OldIds) \in Nat
          /\ Cardinality(Covers(page'[i]) \cap Fetched) \in Nat /\ plan.chunk \in Nat
          /\ Cardinality(Covers(page'[i]) \cap OldIds) <= Cardinality(Covers(page'[i]) \cap Fetched)
      <5>1. Covers(page'[i]) \cap Fetched \in SUBSET Ids /\ Covers(page'[i]) \cap OldIds \in SUBSET Ids
        BY DEF Covers
      <5>2. IsFiniteSet(Covers(page'[i]) \cap Fetched)
        BY <5>1, Finite
      <5> QED BY <3>3, <5>1, <5>2, Finite, FS_Subset, Rows
    <3> QED BY <3>1, <3>2, <3>4
  <2>7. page' \in Seq(Chunk) /\ \A i, j \in 1..Len(page') : i < j => page'[i][2] < page'[j][1]
    BY <2>2 DEF Cut
  <2>8. \A id \in OldIds : PastCursor(id) /\ id <= cursor' => \E i \in 1..Len(page') : id \in Covers(page'[i])
    BY <2>2, <2>5 DEF Cut
  <2> QED BY <2>4, <2>6, <2>7, <2>8 DEF Advance
<1> QED BY <1>3, <1>4

LEMMA PlanStays == [Next]_vars => plan' = plan
<1> SUFFICES ASSUME [Next]_vars PROVE plan' = plan
  OBVIOUS
<1>1. CASE Fetch \/ FetchNothing \/ FetchFails \/ Enqueue \/ ProducerStops
  BY <1>1 DEF Fetch, FetchNothing, FetchFails, Enqueue, ProducerStops
<1>2. CASE Passing \/ Effects \/ Take \/ ExecSucceeds \/ RetryExec
  BY <1>2, PassingFrame, EffectsFrame DEF Take, ExecSucceeds, RetryExec
<1>3. CASE Running \/ Cancel \/ UNCHANGED vars \/ (\E id \in NewIds : Insert(id))
  BY <1>3 DEF Running, TakesProducer, TakesWriter, Drained, Cancel, Insert, vars
<1> QED BY <1>1, <1>2, <1>3, StepSplit

LEMMA CursorStays == [Next]_vars /\ ~Fetch => cursor' = cursor
<1> SUFFICES ASSUME [Next]_vars, ~Fetch PROVE cursor' = cursor
  OBVIOUS
<1>1. CASE FetchNothing \/ FetchFails \/ Enqueue \/ ProducerStops
  BY <1>1 DEF FetchNothing, FetchFails, Enqueue, ProducerStops
<1>2. CASE Passing \/ Effects \/ Take \/ ExecSucceeds \/ RetryExec
  BY <1>2, PassingFrame, EffectsFrame DEF Take, ExecSucceeds, RetryExec, builder
<1>3. CASE Running \/ Cancel \/ UNCHANGED vars \/ (\E id \in NewIds : Insert(id))
  BY <1>3 DEF Running, TakesProducer, TakesWriter, Drained, Cancel, Insert, vars, builder
<1> QED BY <1>1, <1>2, <1>3, StepSplit

LEMMA LineElements ==
  ASSUME TypeOK, NEW i \in 1..Len(Line)
  PROVE  Line[i] \in Chunk \cup {FIN} /\ (Line[i] # FIN => Line[i] \in Chunk)
BY LineIsSeq

LEMMA TakesShape ==
  ASSUME TypeOK, Takes
  PROVE  /\ Len(Line) \in Nat /\ 1 \in 1..Len(Line) /\ Len(Line') = Len(Line) - 1
         /\ Line' \in Seq(Chunk \cup {FIN})
         /\ \A i \in 1..Len(Line') : Line'[i] = Line[i + 1] /\ i + 1 \in 1..Len(Line)
<1>1. Line \in Seq(Chunk \cup {FIN}) /\ Line # <<>> /\ Line' = Tail(Line)
  BY LineIsSeq DEF Takes
<1>2. /\ Len(Line) \in Nat /\ Len(Line') = Len(Line) - 1 /\ Len(Line) # 0
      /\ Line' \in Seq(Chunk \cup {FIN})
      /\ \A i \in 1..Len(Line') : Line'[i] = Line[i + 1]
  BY <1>1, HeadTailProperties
<1> QED BY <1>2

LEMMA ExtendShape ==
  ASSUME NEW T, NEW l \in Seq(T), NEW p \in Seq(T)
  PROVE  /\ Len(l) \in Nat /\ Len(p) \in Nat /\ Len(l \o p) = Len(l) + Len(p)
         /\ \A i \in 1..Len(l) : (l \o p)[i] = l[i]
         /\ \A i \in 1..Len(p) : (l \o p)[Len(l) + i] = p[i]
         /\ \A i \in 1..Len(l \o p) :
              i \in 1..Len(l) \/ \E k \in 1..Len(p) : i = Len(l) + k
<1>1. /\ Len(l) \in Nat /\ Len(p) \in Nat /\ Len(l \o p) = Len(l) + Len(p)
      /\ \A i \in 1..Len(l) : (l \o p)[i] = l[i]
      /\ \A i \in 1..Len(p) : (l \o p)[Len(l) + i] = p[i]
  OBVIOUS
<1>2. ASSUME NEW i \in 1..Len(l \o p), i \notin 1..Len(l)
      PROVE  \E k \in 1..Len(p) : i = Len(l) + k
  <2>1. i - Len(l) \in 1..Len(p) /\ i = Len(l) + (i - Len(l))
    BY <1>1, <1>2
  <2> QED BY <2>1
<1> QED BY <1>1, <1>2

(* The line after a fetch: the chunks it had, then those of the page. *)
LEMMA FetchedLine ==
  ASSUME TypeOK, Closed, Fetch, Advance, Line' = Line \o page'
  PROVE  /\ Len(Line) \in Nat
         /\ \A i \in 1..Len(Line) : Line'[i] = Line[i] /\ Line[i] # FIN /\ Line[i] \in Chunk
         /\ \A k \in 1..Len(page') :
              Line'[Len(Line) + k] = page'[k] /\ page'[k] # FIN /\ page'[k] \in Chunk
              /\ Len(Line) + k \in 1..Len(Line')
         /\ \A i \in 1..Len(Line') :
              i \in 1..Len(Line) \/ \E k \in 1..Len(page') : i = Len(Line) + k
         /\ \A i \in 1..Len(Line) : i \in 1..Len(Line')
<1>1. Line \in Seq(Chunk \cup {FIN}) /\ page' \in Seq(Chunk)
  BY LineIsSeq DEF Advance
<1>2. page' \in Seq(Chunk \cup {FIN})
  BY <1>1, SeqMonotonic
<1>3. \A i \in 1..Len(Line) : Line[i] # FIN /\ Line[i] \in Chunk
  BY LineElements DEF Closed, Fetch
<1>4. \A k \in 1..Len(page') : page'[k] \in Chunk /\ page'[k] # FIN
  BY <1>1, CursorIsInt
<1>5. /\ Len(Line) \in Nat /\ Len(page') \in Nat /\ Len(Line') = Len(Line) + Len(page')
      /\ \A i \in 1..Len(Line) : Line'[i] = Line[i]
      /\ \A k \in 1..Len(page') : Line'[Len(Line) + k] = page'[k]
      /\ \A i \in 1..Len(Line') : i \in 1..Len(Line) \/ \E k \in 1..Len(page') : i = Len(Line) + k
  <2> DEFINE T == Chunk \cup {FIN}
             line == Line \o page'
  <2>1. Line \in Seq(T) /\ page' \in Seq(T)
    BY <1>1, <1>2
  <2> HIDE DEF T
  <2>2. /\ Len(Line) \in Nat /\ Len(page') \in Nat /\ Len(line) = Len(Line) + Len(page')
        /\ \A i \in 1..Len(Line) : line[i] = Line[i]
        /\ \A k \in 1..Len(page') : line[Len(Line) + k] = page'[k]
        /\ \A i \in 1..Len(line) : i \in 1..Len(Line) \/ \E k \in 1..Len(page') : i = Len(Line) + k
    BY <2>1, ExtendShape
  <2>3. Line' = line
    OBVIOUS
  <2> HIDE DEF line
  <2> QED BY <2>2, <2>3
<1>6. \A i \in 1..Len(Line) : i \in 1..Len(Line')
  BY <1>5
<1>7. \A k \in 1..Len(page') : Len(Line) + k \in 1..Len(Line')
  BY <1>5
<1> QED BY <1>3, <1>4, <1>5, <1>6, <1>7

(* The line with the end marker behind it. *)
LEMMA MarkedLine ==
  ASSUME TypeOK, Closed, pcP = "fetch", page' = <<FIN>>, Line' = Line \o page'
  PROVE  /\ Len(Line) \in Nat /\ Len(Line') = Len(Line) + 1 /\ Line'[Len(Line) + 1] = FIN
         /\ \A i \in 1..Len(Line) : Line'[i] = Line[i] /\ Line[i] # FIN /\ i \in 1..Len(Line')
         /\ \A i \in 1..Len(Line') : i \in 1..Len(Line) \/ i = Len(Line) + 1
<1>1. Line \in Seq(Chunk \cup {FIN}) /\ page' \in Seq(Chunk \cup {FIN})
      /\ Len(page') = 1 /\ page'[1] = FIN
  BY LineIsSeq
<1>2. \A i \in 1..Len(Line) : Line[i] # FIN
  BY DEF Closed
<1>3. /\ Len(Line) \in Nat /\ Len(Line') = Len(Line) + 1
      /\ \A i \in 1..Len(Line) : Line'[i] = Line[i]
      /\ Line'[Len(Line) + 1] = page'[1]
  BY <1>1, ExtendShape
<1>4. \A i \in 1..Len(Line) : i \in 1..Len(Line')
  BY <1>3
<1>5. \A i \in 1..Len(Line') : i \in 1..Len(Line) \/ i = Len(Line) + 1
  BY <1>3
<1> QED BY <1>1, <1>2, <1>3, <1>4, <1>5

LEMMA LinedStep ==
  ASSUME TypeOK, Lined, Closed, Followed, [Next]_vars
  PROVE  Lined'
<1>1. plan' = plan /\ (~Fetch => cursor' = cursor)
  BY PlanStays, CursorStays
<1>2. CASE Fetch /\ Advance /\ Line' = Line \o page'
  <2>1. /\ \A i \in 1..Len(Line) : Line'[i] = Line[i] /\ Line[i] # FIN /\ Line[i] \in Chunk
        /\ \A k \in 1..Len(page') :
             Line'[Len(Line) + k] = page'[k] /\ page'[k] # FIN /\ page'[k] \in Chunk
        /\ \A i \in 1..Len(Line') :
             i \in 1..Len(Line) \/ \E k \in 1..Len(page') : i = Len(Line) + k
        /\ Len(Line) \in Nat
    BY <1>2, FetchedLine
  <2>2. cursor' \in Ids /\ cursor' \in Int /\ cursor' # NoId /\ (cursor # NoId => cursor \in Int /\ cursor < cursor')
    BY <1>2, CursorIsInt DEF Advance
  <2>3. \A i \in 1..Len(Line) : Sized(Line[i])
    BY <2>1 DEF Lined
  <2>4. ASSUME NEW i \in 1..Len(Line') PROVE Sized(Line[i])' /\ Line'[i] # FIN
    <3>1. CASE i \in 1..Len(Line)
      <4>1. Line'[i] = Line[i] /\ Sized(Line[i]) /\ Line[i] \in Chunk /\ Line[i] # FIN
        BY <2>1, <2>3, <3>1
      <4>2. Line[i][2] <= cursor'
        BY <2>2, <4>1, CursorIsInt DEF Sized
      <4> QED BY <1>1, <2>2, <4>1, <4>2 DEF Sized
    <3>2. ASSUME NEW k \in 1..Len(page'), i = Len(Line) + k PROVE Sized(Line[i])' /\ Line'[i] # FIN
      <4>1. Line'[i] = page'[k] /\ page'[k] # FIN /\ page'[k] \in Chunk
        BY <2>1, <3>2
      <4>2. /\ page'[k][1] <= page'[k][2] /\ page'[k][2] <= cursor'
            /\ Cardinality(Covers(page'[k]) \cap OldIds) <= plan.chunk
        BY <1>2 DEF Advance
      <4> QED BY <1>1, <2>2, <4>1, <4>2 DEF Sized
    <3> QED BY <2>1, <3>1, <3>2
  <2>5. ASSUME NEW i \in 1..Len(Line'), NEW j \in 1..Len(Line'), i < j
        PROVE  Line'[i][2] < Line'[j][1]
    <3>1. CASE i \in 1..Len(Line) /\ j \in 1..Len(Line)
      BY <2>1, <2>5, <3>1 DEF Lined
    <3>2. ASSUME i \in 1..Len(Line), NEW k \in 1..Len(page'), j = Len(Line) + k
          PROVE  Line'[i][2] < Line'[j][1]
      <4>1. /\ Line'[i] = Line[i] /\ Line[i] \in Chunk /\ Sized(Line[i])
            /\ Line'[j] = page'[k] /\ page'[k] \in Chunk /\ PastCursor(page'[k][1])
        BY <1>2, <2>1, <2>3, <3>2 DEF Advance
      <4>2. Line[i][2] \in Int /\ page'[k][1] \in Int /\ cursor # NoId /\ Line[i][2] <= cursor
            /\ page'[k][1] > cursor
        BY <4>1, CursorIsInt DEF Sized, PastCursor
      <4> QED BY <2>2, <4>1, <4>2
    <3>3. ASSUME NEW h \in 1..Len(page'), i = Len(Line) + h, NEW k \in 1..Len(page'), j = Len(Line) + k
          PROVE  Line'[i][2] < Line'[j][1]
      <4>1. h < k
        BY <2>1, <2>5, <3>3
      <4>2. page'[h][2] < page'[k][1]
        BY <1>2, <4>1 DEF Advance
      <4> QED BY <2>1, <3>3, <4>2
    <3>4. ~(i \notin 1..Len(Line) /\ j \in 1..Len(Line))
      BY <2>1, <2>5
    <3> QED BY <2>1, <3>1, <3>2, <3>3, <3>4
  <2> QED BY <2>4, <2>5 DEF Lined
<1>3. CASE pcP = "fetch" /\ page' = <<FIN>> /\ Line' = Line \o page' /\ cursor' = cursor
  <2>1. /\ Len(Line) \in Nat /\ Len(Line') = Len(Line) + 1 /\ Line'[Len(Line) + 1] = FIN
        /\ \A i \in 1..Len(Line) : Line'[i] = Line[i] /\ Line[i] # FIN
        /\ \A i \in 1..Len(Line') : i \in 1..Len(Line) \/ i = Len(Line) + 1
    BY <1>3, MarkedLine
  <2>2. ASSUME NEW i \in 1..Len(Line'), Line'[i] # FIN PROVE Sized(Line[i])'
    <3>1. i \in 1..Len(Line) /\ Line'[i] = Line[i] /\ Line[i] # FIN
      BY <2>1, <2>2
    <3>2. Sized(Line[i])
      BY <3>1 DEF Lined
    <3> QED BY <1>1, <1>3, <3>1, <3>2 DEF Sized
  <2>3. ASSUME NEW i \in 1..Len(Line'), NEW j \in 1..Len(Line'), i < j
        PROVE  Line'[i] # FIN /\ (Line'[j] # FIN => Line'[i][2] < Line'[j][1])
    <3>1. i \in 1..Len(Line) /\ Line'[i] = Line[i] /\ Line[i] # FIN
      BY <2>1, <2>3
    <3>2. ASSUME Line'[j] # FIN PROVE Line'[i][2] < Line'[j][1]
      <4>1. j \in 1..Len(Line) /\ Line'[j] = Line[j] /\ Line[j] # FIN
        BY <2>1, <3>2
      <4> QED BY <2>3, <3>1, <4>1 DEF Lined
    <3> QED BY <3>1, <3>2
  <2> QED BY <2>2, <2>3 DEF Lined
<1>4. CASE Takes
  <2>1. /\ \A i \in 1..Len(Line') : Line'[i] = Line[i + 1] /\ i + 1 \in 1..Len(Line)
        /\ Len(Line') \in Nat
    BY <1>4, TakesShape
  <2>2. cursor' = cursor
    BY <1>4 DEF Takes, Take, builder
  <2>3. ASSUME NEW i \in 1..Len(Line'), Line'[i] # FIN PROVE Sized(Line[i])'
    <3>1. Sized(Line[i + 1]) /\ Line'[i] = Line[i + 1]
      BY <2>1, <2>3 DEF Lined
    <3> QED BY <1>1, <2>2, <3>1 DEF Sized
  <2>4. ASSUME NEW i \in 1..Len(Line'), NEW j \in 1..Len(Line'), i < j
        PROVE  Line'[i] # FIN /\ (Line'[j] # FIN => Line'[i][2] < Line'[j][1])
    <3>1. i + 1 < j + 1
      BY <2>1, <2>4
    <3> QED BY <2>1, <3>1 DEF Lined
  <2> QED BY <2>3, <2>4 DEF Lined
<1>5. CASE Line' = Line /\ cursor' = cursor
  <2>1. ASSUME NEW i \in 1..Len(Line'), Line'[i] # FIN PROVE Sized(Line[i])'
    <3>1. Sized(Line[i]) /\ Line'[i] = Line[i]
      BY <1>5, <2>1 DEF Lined
    <3> QED BY <1>1, <1>5, <3>1 DEF Sized
  <2> QED BY <1>5, <2>1 DEF Lined
<1>6. FetchNothing => pcP = "fetch" /\ page' = <<FIN>> /\ cursor' = cursor
  BY DEF FetchNothing
<1>7. Fetch => pcP = "fetch" /\ ((page' = <<FIN>> /\ cursor' = cursor) \/ Advance)
  BY FetchShape DEF Fetch
<1> QED BY <1>1, <1>2, <1>3, <1>4, <1>5, <1>6, <1>7, LineSteps

LEMMA ScannedStays ==
  ASSUME Scanned, cursor' = cursor, plan' = plan
  PROVE  Scanned'
BY DEF Scanned, PastCursor

LEMMA OverStays ==
  ASSUME Ended, Passing \/ Effects \/ ExecSucceeds \/ RetryExec,
         (finish' /\ pcW' # "done") \/ exit' = "exhausted"
  PROVE  (finish /\ pcW # "done") \/ exit = "exhausted"
<1>1. CASE Top \/ Begin \/ Full \/ TakeCanceled \/ ExecFails \/ RetryCanceled \/ RetryFails
  BY <1>1 DEF Top, Begin, Full, TakeCanceled, ExecFails, RetryCanceled, RetryFails, NextAttempt,
     WriteReturns, WriteFails, WriterAt
<1>2. CASE Reopen \/ Commit \/ ExecSucceeds \/ RetryExec
  <2>1. finish' = finish /\ pcW # "done"
    BY <1>2 DEF Reopen, Commit, ExecSucceeds, RetryExec
  <2>2. exit' = exit \/ exit' = ""
    BY <1>2 DEF Reopen, Commit, ExecSucceeds, RetryExec, WriteReturns, WriteFails, WriterAt
  <2> QED BY <2>1, <2>2
<1>4. CASE Effects
  <2>1. finish' = finish /\ pcW # "done"
    BY <1>4 DEF Effects, RetrySucceeds, RetryReplyLost, CommitSucceeds, CommitFails
  <2>2. exit' = exit \/ exit' = ""
    BY <1>4 DEF Effects, RetrySucceeds, RetryReplyLost, CommitSucceeds, CommitFails, NextAttempt,
       WriteReturns, WriteFails, WriterAt
  <2> QED BY <2>1, <2>2
<1>3. CASE AfterCommit
  <2>1. /\ pcW = "rate"
        /\ \/ exit' = "canceled" /\ pcW' = "done"
           \/ exit' = "max_rows" /\ pcW' = "done"
           \/ exit' = "max_duration" /\ pcW' = "done"
           \/ finish
           \/ exit' = exit /\ (finish' => finish)
    BY <1>3 DEF AfterCommit, WriteReturns, WriterAt
  <2> QED BY <2>1
<1> QED BY <1>1, <1>2, <1>3, <1>4 DEF Passing

LEMMA ClosedStep ==
  ASSUME TypeOK, Lined, Closed, Followed, Ended, [Next]_vars
  PROVE  Closed'
<1>1. plan' = plan /\ (~Fetch => cursor' = cursor)
  BY PlanStays, CursorStays
<1> DEFINE Over == (finish /\ pcW # "done") \/ exit = "exhausted"
           End == Line = <<>> /\ pcP = "done" /\ Scanned
<1>2. CASE (Fetch \/ FetchNothing) /\ Line' = Line \o page'
  <2>1. /\ pcP = "fetch" /\ pcP' = "enqueue" /\ UNCHANGED writer
        /\ (page' = <<FIN>> /\ Scanned /\ cursor' = cursor) \/ (Fetch /\ Advance)
    <3>1. CASE FetchNothing
      BY <3>1 DEF FetchNothing, Scanned
    <3>2. CASE Fetch
      BY <3>2, FetchShape DEF Fetch
    <3> QED BY <1>2, <3>1, <3>2
  <2>2. ~Over'
    BY <2>1 DEF Closed, writer
  <2>3. CASE page' = <<FIN>> /\ Scanned /\ cursor' = cursor
    <3>1. page' # <<>> /\ Scanned'
      BY <1>1, <2>3, ScannedStays
    <3> QED BY <2>1, <2>2, <3>1 DEF Closed, Filled
  <2>4. CASE Fetch /\ Advance
    <3>1. /\ \A i \in 1..Len(Line) : Line'[i] = Line[i] /\ Line[i] # FIN
          /\ \A k \in 1..Len(page') : Line'[Len(Line) + k] = page'[k] /\ page'[k] # FIN
          /\ \A i \in 1..Len(Line') :
               i \in 1..Len(Line) \/ \E k \in 1..Len(page') : i = Len(Line) + k
      BY <1>2, <2>4, FetchedLine
    <3>2. \A i \in 1..Len(Line') : Line'[i] # FIN
      BY <3>1
    <3>3. page' # <<>>
      <4>1. CASE Fetched = {}
        BY <2>4, <4>1 DEF Fetch, ChunksOf
      <4>2. CASE Fetched # {}
        <5>1. Cut(Fetched, page')
          BY <2>4, <4>2, FetchedIsPage, ChunksShape DEF Fetch
        <5> QED BY <5>1 DEF Cut
      <4> QED BY <4>1, <4>2
    <3> QED BY <2>1, <2>2, <3>2, <3>3 DEF Closed, Filled
  <2> QED BY <2>1, <2>3, <2>4
<1>3. CASE Takes
  <2>1. /\ Len(Line) \in Nat /\ Len(Line') = Len(Line) - 1
        /\ \A i \in 1..Len(Line') : Line'[i] = Line[i + 1] /\ i + 1 \in 1..Len(Line)
        /\ 1 \in 1..Len(Line) /\ Line' \in Seq(Chunk \cup {FIN})
    BY <1>3, TakesShape
  <2>2. /\ queue # <<>> /\ Head(queue) = Line[1] /\ UNCHANGED <<plan, builder, exit>> /\ pcW' # "done"
        /\ Line[1] = FIN \/ finish' = finish
        /\ Line[1] # FIN => pcW' = "exec" /\ finish' = finish
        /\ pcW = "take"
    BY <1>3 DEF Takes, Take, WriterAt
  <2>3. Scanned => Scanned'
    BY <1>1, <2>2, ScannedStays DEF builder
  <2>4. exit = ""
    BY <2>2 DEF Ended
  <2>5. ASSUME Over' PROVE End'
    <3>1. CASE finish
      <4>1. Line = <<>>
        BY <2>2, <3>1 DEF Closed
      <4> QED BY <1>3, <4>1 DEF Takes
    <3>2. CASE Line[1] = FIN
      <4>1. Len(Line) = 1
        <5>1. ASSUME Len(Line) # 1 PROVE FALSE
          <6>1. 2 \in 1..Len(Line) /\ 1 < 2
            BY <2>1, <5>1
          <6> QED BY <2>1, <3>2, <6>1 DEF Lined
        <5> QED BY <5>1
      <4>2. Line' = <<>>
        BY <2>1, <4>1
      <4>3. Scanned
        BY <2>1, <3>2 DEF Closed
      <4>4. page = <<>>
        <5>1. Len(queue) >= 1 /\ Len(page) = 0
          BY <2>2, <4>1, LineIsSeq, EmptySeq, TypeParts DEF QueueOK
        <5> QED BY <5>1, TypeParts DEF BuilderOK
      <4>5. pcP = "done"
        BY <2>1, <3>2, <4>4, TypeParts DEF Closed, Filled, BuilderOK, ProducerState
      <4> QED BY <2>2, <2>3, <4>2, <4>3, <4>5 DEF builder
    <3>3. exit' = "" /\ finish'
      BY <2>2, <2>4, <2>5
    <3>4. finish \/ Line[1] = FIN
      BY <2>2, <3>3
    <3> QED BY <3>1, <3>2, <3>4
  <2>6. Filled' /\ (pcP' = "fetch" => page' = <<>> /\ \A i \in 1..Len(Line') : Line'[i] # FIN)
    BY <2>1, <2>2 DEF Closed, Filled, builder
  <2>7. (\E i \in 1..Len(Line') : Line'[i] = FIN) => Scanned'
    BY <2>1, <2>3 DEF Closed
  <2> QED BY <2>5, <2>6, <2>7 DEF Closed
<1>4. CASE Line' = Line /\ ~Fetch /\ ~FetchNothing /\ ~Take
  <2>1. Scanned => Scanned'
    BY <1>1, <1>4, ScannedStays
  <2>2. /\ pcP = "done" => pcP' = "done"
        /\ pcP' = "enqueue" => page' # <<>>
        /\ pcP' = "fetch" => page' = <<>> /\ \A i \in 1..Len(Line') : Line'[i] # FIN
    <3>1. CASE Enqueue
      <4>1. page \in Seq(Chunk \cup {FIN}) /\ page # <<>> /\ Len(page) \in Nat \ {0}
        BY <3>1, TypeParts DEF BuilderOK, Enqueue, Closed, Filled
      <4>2. /\ pcP = "enqueue" /\ page' = Tail(page)
            /\ Len(page) > 1 => pcP' = "enqueue"
            /\ ~(Len(page) > 1) => (pcP' = "done" \/ (pcP' = "fetch" /\ Head(page) # FIN))
        BY <3>1 DEF Enqueue, ProducerReturns
      <4>3. ASSUME pcP' = "fetch"
            PROVE  page' = <<>> /\ \A i \in 1..Len(Line') : Line'[i] # FIN
        <5>1. Len(page) = 1 /\ page[1] # FIN /\ page' = <<>>
          <6>1. Len(page) = 1 /\ Head(page) # FIN
            <7>1. ~(Len(page) > 1) /\ Head(page) # FIN
              BY <4>2, <4>3
            <7>2. \A n \in Nat \ {0} : ~(n > 1) => n = 1
              OBVIOUS
            <7> QED BY <4>1, <7>1, <7>2
          <6>2. Len(page') = 0 /\ page' \in Seq(Chunk \cup {FIN}) /\ Head(page) = page[1]
            BY <4>1, <4>2, <6>1, HeadTailProperties
          <6> QED BY <6>1, <6>2, EmptySeq
        <5>2. Len(Line) = Len(queue) + 1 /\ Line[Len(queue) + 1] = page[1] /\ Len(queue) \in Nat
          BY <5>1, LineIsSeq
        <5>3. \A i \in 1..Len(Line) : i < Len(Line) \/ i = Len(queue) + 1
          BY <5>2
        <5>4. \A i \in 1..Len(Line) : Line[i] # FIN
          <6> SUFFICES ASSUME NEW i \in 1..Len(Line), i < Len(Line) PROVE Line[i] # FIN
            BY <5>1, <5>2, <5>3
          <6>1. Len(Line) \in 1..Len(Line)
            BY <5>2
          <6> QED BY <6>1 DEF Lined
        <5> QED BY <1>4, <5>1, <5>4
      <4>4. ASSUME pcP' = "enqueue" PROVE page' # <<>>
        <5>1. Len(page) > 1 /\ Len(page') = Len(page) - 1
          BY <4>1, <4>2, <4>4, HeadTailProperties
        <5> QED BY <5>1, <4>1
      <4> QED BY <4>2, <4>3, <4>4
    <3>2. CASE FetchFails \/ ProducerStops
      BY <3>2 DEF FetchFails, ProducerStops, ProducerReturns
    <3>3. ASSUME pcP' = pcP, page' = page
          PROVE  /\ pcP = "done" => pcP' = "done"
                 /\ pcP' = "enqueue" => page' # <<>>
                 /\ pcP' = "fetch" => page' = <<>> /\ \A i \in 1..Len(Line') : Line'[i] # FIN
      BY <1>4, <3>3 DEF Closed, Filled
    <3>4. Passing \/ Effects \/ ExecSucceeds \/ RetryExec => pcP' = pcP /\ page' = page
      BY PassingFrame, EffectsFrame DEF ExecSucceeds, RetryExec, builder
    <3>5. Running \/ Cancel \/ UNCHANGED vars \/ (\E id \in NewIds : Insert(id))
            => pcP' = pcP /\ page' = page
      BY DEF Running, TakesProducer, TakesWriter, Drained, Cancel, Insert, vars, builder
    <3> QED BY <1>4, <3>1, <3>2, <3>3, <3>4, <3>5, StepSplit
  <2>3. Over' => Over
    <3>1. Passing \/ Effects \/ ExecSucceeds \/ RetryExec => (Over' => Over)
      BY OverStays
    <3>2. UNCHANGED writer => (Over' => Over)
      BY DEF writer
    <3>3. FetchFails \/ Enqueue \/ ProducerStops \/ Running \/ Cancel \/ UNCHANGED vars
            \/ (\E id \in NewIds : Insert(id)) => UNCHANGED writer
      BY DEF FetchFails, Enqueue, ProducerStops, Running, TakesProducer, TakesWriter, Drained,
         Cancel, Insert, vars
    <3> QED BY <1>4, <3>1, <3>2, <3>3, StepSplit
  <2>4. Over' => End'
    BY <1>4, <2>1, <2>2, <2>3 DEF Closed
  <2> QED BY <1>4, <2>1, <2>2, <2>4 DEF Closed, Filled
<1> QED BY <1>2, <1>3, <1>4, LineSteps

-----------------------------------------------------------------------------
(* What is in hand, and what has been reached. *)

(* What the line leaves behind stays behind. *)
LEMMA BehindStep ==
  ASSUME TypeOK, Closed, Followed, [Next]_vars, NEW k \in Ids, ~PastCursor(k), Behind(k)
  PROVE  /\ cursor' # NoId /\ ~(k > cursor')
         /\ \A i \in 1..Len(Line') : Line'[i] # FIN => k < Line'[i][1]
<1>1. cursor # NoId /\ cursor \in Int /\ k \in Int /\ ~(k > cursor)
  BY CursorIsInt DEF PastCursor
<1>2. CASE Fetch /\ Advance /\ Line' = Line \o page'
  <2>1. /\ \A i \in 1..Len(Line) : Line'[i] = Line[i] /\ Line[i] # FIN /\ Line[i] \in Chunk
        /\ \A h \in 1..Len(page') :
             Line'[Len(Line) + h] = page'[h] /\ page'[h] # FIN /\ page'[h] \in Chunk
        /\ \A i \in 1..Len(Line') :
             i \in 1..Len(Line) \/ \E h \in 1..Len(page') : i = Len(Line) + h
    BY <1>2, FetchedLine
  <2>2. cursor' \in Int /\ cursor' # NoId /\ cursor < cursor'
    BY <1>1, <1>2, CursorIsInt DEF Advance
  <2>3. \A h \in 1..Len(page') : page'[h][1] > cursor /\ page'[h][1] \in Int
    BY <1>1, <1>2, <2>1, CursorIsInt DEF Advance, PastCursor
  <2>4. \A h \in 1..Len(page') : k < page'[h][1]
    BY <1>1, <2>3
  <2>5. \A i \in 1..Len(Line) : k < Line[i][1]
    BY <2>1 DEF Behind
  <2>6. ASSUME NEW i \in 1..Len(Line') PROVE k < Line'[i][1]
    <3>1. CASE i \in 1..Len(Line)
      BY <2>1, <2>5, <3>1
    <3>2. ASSUME NEW h \in 1..Len(page'), i = Len(Line) + h PROVE k < Line'[i][1]
      BY <2>1, <2>4, <3>2
    <3> QED BY <2>1, <3>1, <3>2
  <2> QED BY <1>1, <2>2, <2>6
<1>3. CASE pcP = "fetch" /\ page' = <<FIN>> /\ Line' = Line \o page' /\ cursor' = cursor
  <2>1. /\ Line'[Len(Line) + 1] = FIN
        /\ \A i \in 1..Len(Line) : Line'[i] = Line[i]
        /\ \A i \in 1..Len(Line') : i \in 1..Len(Line) \/ i = Len(Line) + 1
    BY <1>3, MarkedLine
  <2> QED BY <1>1, <1>3, <2>1 DEF Behind
<1>4. CASE Takes
  <2>1. \A i \in 1..Len(Line') : Line'[i] = Line[i + 1] /\ i + 1 \in 1..Len(Line)
    BY <1>4, TakesShape
  <2>2. cursor' = cursor
    BY <1>4 DEF Takes, Take, builder
  <2> QED BY <1>1, <2>1, <2>2 DEF Behind
<1>5. CASE Line' = Line /\ cursor' = cursor
  BY <1>1, <1>5 DEF Behind
<1>6. FetchNothing => pcP = "fetch" /\ page' = <<FIN>> /\ cursor' = cursor
  BY DEF FetchNothing
<1>7. Fetch => pcP = "fetch" /\ ((page' = <<FIN>> /\ cursor' = cursor) \/ Advance)
  BY FetchShape DEF Fetch
<1>8. ~Fetch => cursor' = cursor
  BY CursorStays
<1> QED BY <1>2, <1>3, <1>4, <1>5, <1>6, <1>7, <1>8, LineSteps

(* Only Take puts a chunk into Write's hand, and the statement that is       *)
(* retried is the one that failed.                                           *)
LEMMA HandStays ==
  ASSUME [Next]_vars, ~Take, InHand'
  PROVE  InHand /\ chunk' = chunk /\ (pcW' = "exec" => pcW = "exec")
<1>1. CASE Top \/ Begin \/ Full \/ TakeCanceled \/ RetryCanceled \/ Reopen \/ Commit \/ AfterCommit
  <2>1. pcW' \notin {"exec", "retry", "retrySent"}
    BY <1>1 DEF Top, Begin, Full, TakeCanceled, RetryCanceled, Reopen, Commit, AfterCommit,
       WriteReturns, WriteFails, WriterAt
  <2> QED BY <2>1 DEF InHand
<1>2. CASE ExecFails \/ RetryFails \/ RetryExec
  BY <1>2 DEF ExecFails, RetryFails, RetryExec, NextAttempt, WriteReturns, WriteFails, WriterAt,
     InHand
<1>3. CASE ExecSucceeds \/ RetrySucceeds \/ RetryReplyLost \/ CommitSucceeds \/ CommitFails
  BY <1>3 DEF ExecSucceeds, RetrySucceeds, RetryReplyLost, CommitSucceeds, CommitFails,
     NextAttempt, WriteReturns, WriteFails, WriterAt, InHand
<1>4. UNCHANGED writer => InHand /\ chunk' = chunk /\ (pcW' = "exec" => pcW = "exec")
  BY DEF writer, InHand
<1>5. Fetch \/ FetchNothing \/ FetchFails \/ Enqueue \/ ProducerStops \/ Running \/ Cancel
        \/ UNCHANGED vars \/ (\E id \in NewIds : Insert(id)) => UNCHANGED writer
  BY DEF Fetch, FetchNothing, FetchFails, Enqueue, ProducerStops, Running, TakesProducer, TakesWriter,
     Drained, Cancel, Insert, vars
<1> QED BY <1>1, <1>2, <1>3, <1>4, <1>5, StepSplit DEF Passing, Effects

LEMMA TakesChunk ==
  ASSUME TypeOK, Lined, Takes, InHand'
  PROVE  /\ chunk' = Line[1] /\ Line[1] # FIN /\ Line[1] \in Chunk /\ Sized(Line[1])
         /\ pcW = "take" /\ pcW' = "exec"
         /\ UNCHANGED <<plan, builder, table, txRows>>
<1>1. 1 \in 1..Len(Line) /\ Head(queue) = Line[1]
  BY TakesShape DEF Takes
<1>2. /\ UNCHANGED <<plan, builder, table, txRows>> /\ pcW = "take"
      /\ \/ Line[1] = FIN /\ pcW' = "commit"
         \/ Line[1] # FIN /\ pcW' = "exec" /\ chunk' = Line[1]
  BY <1>1 DEF Takes, Take, WriterAt
<1>3. pcW' # "commit"
  BY DEF InHand
<1> QED BY <1>1, <1>2, <1>3, LineElements DEF Lined

LEMMA HeldStep ==
  ASSUME TypeOK, Lined, Closed, Followed, Held, [Next]_vars
  PROVE  Held'
<1> SUFFICES ASSUME InHand' PROVE Sized(chunk)' /\ Behind(chunk[2])'
  BY DEF Held
<1>1. plan' = plan /\ (~Fetch => cursor' = cursor)
  BY PlanStays, CursorStays
<1>2. CASE Takes
  <2>1. chunk' = Line[1] /\ Line[1] # FIN /\ Sized(Line[1]) /\ cursor' = cursor
    BY <1>2, TakesChunk DEF builder
  <2>2. Sized(chunk)'
    BY <1>1, <2>1 DEF Sized
  <2>3. /\ \A i \in 1..Len(Line') : Line'[i] = Line[i + 1] /\ i + 1 \in 1..Len(Line)
        /\ 1 \in 1..Len(Line) /\ Len(Line') \in Nat
    BY <1>2, TakesShape
  <2>4. \A i \in 1..Len(Line') : Line'[i] # FIN => Line[1][2] < Line'[i][1]
    BY <2>3 DEF Lined
  <2> QED BY <2>1, <2>2, <2>4 DEF Behind
<1>3. CASE ~Take
  <2>1. chunk' = chunk /\ Sized(chunk) /\ Behind(chunk[2]) /\ InHand
    BY <1>3, HandStays DEF Held
  <2>2. chunk \in Chunk /\ chunk[2] \in Ids /\ chunk[2] \in Int /\ ~PastCursor(chunk[2])
    BY <2>1, CursorIsInt DEF Sized, PastCursor
  <2>3. /\ cursor' # NoId /\ ~(chunk[2] > cursor')
        /\ \A i \in 1..Len(Line') : Line'[i] # FIN => chunk[2] < Line'[i][1]
    BY <2>1, <2>2, BehindStep
  <2>4. cursor' \in Int
    <3>1. CASE Fetch
      BY <2>1, <3>1, FetchShape, CursorIsInt DEF Advance, Sized
    <3> QED BY <1>1, <2>1, <3>1, CursorIsInt DEF Sized
  <2>5. chunk[2] <= cursor'
    BY <2>2, <2>3, <2>4
  <2> QED BY <1>1, <2>1, <2>3, <2>5 DEF Sized, Behind
<1>4. Fetch \/ FetchNothing => ~Take
  BY DEF Fetch, FetchNothing, Take, WriterAt, writer
<1> QED BY <1>2, <1>3, <1>4, LineSteps

(* Only a statement reaches rows, and only those of its chunk. *)
LEMMA TxRowsSteps ==
  ASSUME TypeOK, [Next]_vars, ~ExecSucceeds, ~RetryExec
  PROVE  \/ TakesEffect /\ txRows' = {}
         \/ applied' = applied /\ (txRows' = {} \/ txRows' = txRows)
<1>1. CASE Passing \/ Effects
  BY <1>1, PassingFrame, EffectsFrame DEF table
<1>2. UNCHANGED <<table, txRows>> => applied' = applied /\ txRows' = txRows
  BY DEF table
<1>3. Fetch \/ FetchNothing \/ FetchFails \/ Enqueue \/ ProducerStops \/ Take \/ Running \/ Cancel
        \/ UNCHANGED vars \/ (\E id \in NewIds : Insert(id)) => UNCHANGED <<table, txRows>>
  BY DEF Fetch, FetchNothing, FetchFails, Enqueue, ProducerStops, Take, Running, TakesProducer,
     TakesWriter, Drained, Cancel, Insert, vars, writer
<1> QED BY <1>1, <1>2, <1>3, StepSplit

LEMMA ReachedSteps ==
  ASSUME TypeOK, Held, [Next]_vars, NEW id \in Ids, Reached(id)', ~Reached(id)
  PROVE  /\ ExecSucceeds \/ RetryExec
         /\ chunk \in Chunk /\ id \in Covers(chunk) /\ InHand
<1>1. applied[id] \in Nat /\ applied[id] = 0 /\ id \notin txRows
  <2>1. applied[id] \in Nat /\ ~(applied[id] > 0) /\ id \notin txRows
    BY TypeParts DEF TableOK, Reached
  <2> QED BY <2>1
<1>2. CASE ~ExecSucceeds /\ ~RetryExec
  <2>1. CASE TakesEffect /\ txRows' = {}
    <3>1. applied'[id] = 0
      BY <1>1, <2>1 DEF TakesEffect
    <3> QED BY <2>1, <3>1 DEF Reached
  <2>2. CASE applied' = applied /\ (txRows' = {} \/ txRows' = txRows)
    BY <1>1, <2>2 DEF Reached
  <2> QED BY <1>2, <2>1, <2>2, TxRowsSteps
<1>3. CASE ExecSucceeds \/ RetryExec
  <2>1. /\ applied' = applied /\ InHand
        /\ \E S \in Hits(chunk) : txRows' = txRows \cup S \/ txRows' = S
    BY <1>3 DEF ExecSucceeds, RetryExec, table, InHand
  <2>2. chunk \in Chunk
    BY <2>1 DEF Held, Sized
  <2>3. id \in txRows'
    BY <1>1, <2>1 DEF Reached
  <2>4. id \in Covers(chunk)
    BY <1>1, <2>1, <2>2, <2>3, HitsBound
  <2> QED BY <1>3, <2>1, <2>2, <2>4
<1> QED BY <1>2, <1>3

LEMMA FollowedStep ==
  ASSUME TypeOK, Lined, Closed, Held, Followed, [Next]_vars
  PROVE  Followed'
<1> SUFFICES ASSUME NEW id \in Ids, Reached(id)'
             PROVE  /\ ~PastCursor(id)' /\ Behind(id)'
                    /\ InHand' => id < chunk'[1] \/ (pcW' # "exec" /\ id \in Covers(chunk'))
  BY DEF Followed
<1>1. CASE Reached(id)
  <2>1. ~PastCursor(id) /\ Behind(id)
        /\ (InHand => id < chunk[1] \/ (pcW # "exec" /\ id \in Covers(chunk)))
    BY <1>1 DEF Followed
  <2>2. ~PastCursor(id)' /\ Behind(id)'
    BY <2>1, BehindStep DEF PastCursor, Behind
  <2>3. ASSUME InHand' PROVE id < chunk'[1] \/ (pcW' # "exec" /\ id \in Covers(chunk'))
    <3>1. CASE ~Take
      BY <2>1, <2>3, <3>1, HandStays
    <3>2. CASE Takes
      <4>1. chunk' = Line[1] /\ Line[1] # FIN /\ 1 \in 1..Len(Line)
        BY <2>3, <3>2, TakesChunk, TakesShape
      <4> QED BY <2>1, <4>1 DEF Behind
    <3>3. Fetch \/ FetchNothing => ~Take
      BY DEF Fetch, FetchNothing, Take, WriterAt, writer
    <3> QED BY <3>1, <3>2, <3>3, LineSteps
  <2> QED BY <2>2, <2>3
<1>2. CASE ~Reached(id)
  <2>1. (ExecSucceeds \/ RetryExec) /\ chunk \in Chunk /\ id \in Covers(chunk) /\ InHand
    BY <1>2, ReachedSteps
  <2>2. Sized(chunk) /\ Behind(chunk[2])
    BY <2>1 DEF Held
  <2>3. id <= chunk[2] /\ id \in Int /\ chunk[2] \in Int /\ cursor # NoId /\ cursor \in Int /\ chunk[2] <= cursor
    BY <2>1, <2>2, CursorIsInt DEF Covers, Sized
  <2>4. ~PastCursor(id)
    BY <2>3 DEF PastCursor
  <2>5. Behind(id)
    <3> SUFFICES ASSUME NEW i \in 1..Len(Line), Line[i] # FIN PROVE id < Line[i][1]
      BY DEF Behind
    <3>1. chunk[2] < Line[i][1] /\ Line[i][1] \in Int
      BY <2>2, LineElements, CursorIsInt DEF Behind
    <3> QED BY <2>3, <3>1
  <2>6. ~PastCursor(id)' /\ Behind(id)'
    BY <2>4, <2>5, BehindStep DEF PastCursor, Behind
  <2>7. ASSUME InHand' PROVE pcW' # "exec" /\ id \in Covers(chunk')
    <3>1. pcW' # "exec" /\ chunk' = chunk
      BY <2>1 DEF ExecSucceeds, RetryExec, WriterAt
    <3> QED BY <2>1, <3>1
  <2> QED BY <2>6, <2>7
<1> QED BY <1>1, <1>2

-----------------------------------------------------------------------------
(* What a retry may execute again. *)

(* Where Write goes from each of its steps. *)
Transacting == {"take", "exec", "retrySent", "commit", "sent"}

LEMMA PassingPlaces ==
  ASSUME Passing
  PROVE  /\ pcW \notin {"retrySent", "sent", "done"} \/ RetryFails
         /\ pcW' # "retrySent"
         /\ pcW' = "retry" => (ExecFails /\ pcW = "exec") \/ RetryFails
         /\ txRows' = {} \/ (txRows' = txRows /\ (pcW \in Transacting => pcW' \in Transacting))
<1>1. CASE Top \/ Begin \/ Full \/ TakeCanceled \/ RetryCanceled
  BY <1>1 DEF Top, Begin, Full, TakeCanceled, RetryCanceled, WriteReturns, WriteFails,
     WriterAt, Transacting
<1>2. CASE ExecFails \/ RetryFails
  BY <1>2 DEF ExecFails, RetryFails, NextAttempt, WriteReturns, WriteFails, WriterAt
<1>3. CASE Reopen \/ Commit \/ AfterCommit
  BY <1>3 DEF Reopen, Commit, AfterCommit, WriteReturns, WriteFails, WriterAt, Transacting
<1> QED BY <1>1, <1>2, <1>3 DEF Passing

LEMMA EffectsPlaces ==
  ASSUME Effects
  PROVE  /\ txRows' = {} /\ (TakesEffect \/ UNCHANGED table)
         /\ pcW \in {"retrySent", "sent"} /\ pcW' \notin {"exec", "retrySent"}
         /\ pcW' = "retry" => pcW = "retrySent" /\ TakesEffect /\ lost' = lost + 1
         /\ lost' = lost \/ lost' = lost + 1
<1>1. CASE RetrySucceeds \/ CommitSucceeds \/ CommitFails
  BY <1>1 DEF RetrySucceeds, CommitSucceeds, CommitFails, WriteReturns, WriteFails, WriterAt,
     outside, Fault
<1>2. CASE RetryReplyLost
  BY <1>2 DEF RetryReplyLost, NextAttempt, WriteReturns, WriteFails, WriterAt
<1> QED BY <1>1, <1>2 DEF Effects

LEMMA LostGrows ==
  ASSUME TypeOK, [Next]_vars
  PROVE  lost \in Nat /\ lost' \in Nat /\ (lost' = lost \/ lost' = lost + 1) /\ (~Effects => lost' = lost)
<1>1. lost \in Nat
  BY RangeAssumption, TypeParts DEF OutsideOK
<1>2. Passing => lost' = lost
  BY PassingFrame DEF Fault, outside
<1>3. Fetch \/ FetchNothing \/ FetchFails \/ Enqueue \/ ProducerStops => lost' = lost
  BY DEF Fetch, FetchNothing, FetchFails, Enqueue, ProducerStops, outside, Fault
<1>4. Take \/ ExecSucceeds \/ RetryExec \/ Running \/ Cancel \/ UNCHANGED vars
        \/ (\E id \in NewIds : Insert(id)) => lost' = lost
  BY DEF Take, ExecSucceeds, RetryExec, Running, TakesProducer, TakesWriter, Drained, Cancel,
     Insert, vars, outside
<1>5. Effects => lost' = lost \/ lost' = lost + 1
  BY EffectsPlaces
<1> QED BY <1>1, <1>2, <1>3, <1>4, <1>5, StepSplit

(* Outside a transaction's effects the rows and the books stay as they are.  *)
LEMMA ElsewhereFrame ==
  Fetch \/ FetchNothing \/ FetchFails \/ Enqueue \/ ProducerStops \/ Running \/ Cancel
    \/ UNCHANGED vars \/ (\E id \in NewIds : Insert(id)) => UNCHANGED <<table, writer>>
BY DEF Fetch, FetchNothing, FetchFails, Enqueue, ProducerStops, Running, TakesProducer, TakesWriter,
   Drained, Cancel, Insert, vars

LEMMA EffectOnRow ==
  ASSUME TypeOK, TakesEffect, NEW id \in Ids
  PROVE  /\ applied[id] \in Nat
         /\ id \in txRows => applied'[id] = applied[id] + 1
         /\ id \notin txRows => applied'[id] = applied[id]
BY TypeParts DEF TableOK, TakesEffect

LEMMA ReplayedStep ==
  ASSUME TypeOK, Held, Followed, Replayed, [Next]_vars
  PROVE  Replayed'
<1>1. plan' = plan /\ lost \in Nat /\ lost' \in Nat /\ (lost' = lost \/ lost' = lost + 1)
      /\ (~Effects => lost' = lost)
  BY PlanStays, LostGrows
<1>2. \A id \in Ids : applied[id] \in Nat
  BY TypeParts DEF TableOK
<1>3. applied' = applied => OnlyLostRepliesReplay'
  <2>1. \A id \in Ids : applied[id] <= (IF plan.stmt = "update" THEN 1 + lost ELSE 1)
    BY DEF Replayed, OnlyLostRepliesReplay
  <2>2. ASSUME applied' = applied, NEW id \in Ids
        PROVE  applied'[id] <= (IF plan'.stmt = "update" THEN 1 + lost' ELSE 1)
    <3>1. CASE plan.stmt = "update"
      BY <1>1, <1>2, <2>1, <2>2, <3>1
    <3>2. CASE plan.stmt # "update"
      BY <1>1, <1>2, <2>1, <2>2, <3>2
    <3> QED BY <3>1, <3>2
  <2> QED BY <2>2 DEF OnlyLostRepliesReplay
<1>4. CASE UNCHANGED <<table, writer>>
  <2>1. UNCHANGED <<applied, txRows, pcW, chunk>>
    BY <1>4 DEF table, writer
  <2>2. \A id \in Covers(chunk) : id \in Ids
    BY DEF Covers
  <2>3. pcW' \in {"retry", "retrySent"} => \A id \in Covers(chunk') : applied'[id] <= lost'
    BY <1>1, <1>2, <2>1, <2>2 DEF Replayed
  <2> QED BY <1>1, <1>3, <2>1, <2>3 DEF Replayed
<1>5. CASE Passing
  <2>1. UNCHANGED <<applied, chunk>> /\ lost' = lost
    BY <1>5, PassingFrame, LostGrows, EffectsPlaces DEF table, Fault, outside
  <2>2. pcW' # "retrySent" /\ (txRows' = {} \/ txRows' = txRows)
    BY <1>5, PassingPlaces
  <2>3. txRows' # {} => pcW' \in Transacting
    BY <1>5, PassingPlaces DEF Replayed, Transacting
  <2>4. \A id \in txRows' : applied'[id] = 0
    <3>1. CASE RetryFails
      BY <3>1 DEF RetryFails
    <3>2. CASE txRows' = txRows /\ pcW # "retrySent"
      BY <2>1, <3>2 DEF Replayed
    <3> QED BY <1>5, <2>2, <3>1, <3>2, PassingPlaces
  <2>5. ASSUME pcW' = "retry", NEW id \in Covers(chunk) PROVE applied[id] <= lost
    <3>1. CASE RetryFails
      BY <3>1 DEF RetryFails, Replayed
    <3>2. CASE ExecFails /\ pcW = "exec"
      <4>1. InHand /\ chunk \in Chunk /\ id \in Ids /\ chunk[1] <= id
        BY <3>2 DEF InHand, Held, Sized, Covers
      <4>2. ~Reached(id)
        BY <3>2, <4>1, CursorIsInt DEF Followed
      <4> QED BY <1>1, <1>2, <4>1, <4>2 DEF Reached
    <3> QED BY <1>5, <2>5, <3>1, <3>2, PassingPlaces
  <2> QED BY <1>3, <2>1, <2>2, <2>3, <2>4, <2>5 DEF Replayed, Transacting
<1>6. CASE Take
  BY <1>1, <1>3, <1>6 DEF Take, WriterAt, Replayed, table
<1>7. CASE ExecSucceeds
  <2>1. /\ UNCHANGED <<applied, chunk>> /\ pcW' = "take" /\ pcW = "exec" /\ InHand /\ chunk \in Chunk
        /\ \E S \in Hits(chunk) : txRows' = txRows \cup S
    BY <1>7 DEF ExecSucceeds, WriterAt, table, InHand, Held, Sized
  <2>2. PICK S \in Hits(chunk) : txRows' = txRows \cup S
    BY <2>1
  <2>3. ASSUME NEW id \in txRows' PROVE applied'[id] = 0
    <3>1. CASE id \in S
      <4>1. id \in Covers(chunk) /\ id \in Ids /\ chunk[1] <= id
        BY <2>1, <3>1, HitsBound DEF Covers
      <4>2. ~Reached(id)
        BY <2>1, <4>1, CursorIsInt DEF Followed
      <4>3. ~(applied[id] > 0) /\ applied[id] \in Nat
        BY <1>2, <4>1, <4>2 DEF Reached
      <4> QED BY <2>1, <4>3
    <3>2. CASE id \in txRows
      BY <2>1, <3>2 DEF Replayed
    <3> QED BY <2>2, <2>3, <3>1, <3>2
  <2> QED BY <1>3, <2>1, <2>3 DEF Replayed
<1>8. CASE RetryExec
  <2>1. /\ UNCHANGED <<applied, chunk>> /\ pcW' = "retrySent" /\ pcW = "retry" /\ InHand
        /\ \E S \in Hits(chunk) : txRows' = S
        /\ chunk \in Chunk
    BY <1>8 DEF RetryExec, WriterAt, table, InHand, Held, Sized
  <2>2. txRows' \subseteq Covers(chunk) /\ txRows' \subseteq Matching
    BY <2>1, HitsBound
  <2>3. \A id \in txRows' : applied'[id] = 0 \/ plan'.stmt = "update"
    BY <1>1, <2>1, <2>2 DEF Matching
  <2>4. lost' = lost
    BY <1>8, LostGrows DEF RetryExec, outside
  <2>5. \A id \in Covers(chunk') : applied'[id] <= lost'
    BY <2>1, <2>4 DEF Replayed
  <2> QED BY <1>3, <2>1, <2>2, <2>3, <2>5 DEF Replayed
<1>9. CASE Effects
  <2>1. /\ txRows' = {} /\ (TakesEffect \/ applied' = applied)
        /\ pcW \in {"retrySent", "sent"} /\ pcW' \notin {"exec", "retrySent"}
        /\ pcW' = "retry" => pcW = "retrySent" /\ TakesEffect /\ lost' = lost + 1
        /\ chunk' = chunk
    BY <1>9, EffectsPlaces, EffectsFrame DEF table
  <2>2. ASSUME TakesEffect PROVE OnlyLostRepliesReplay'
    <3> SUFFICES ASSUME NEW id \in Ids
                 PROVE  applied'[id] <= (IF plan'.stmt = "update" THEN 1 + lost' ELSE 1)
      BY DEF OnlyLostRepliesReplay
    <3>1. /\ applied[id] \in Nat
          /\ id \in txRows => applied'[id] = applied[id] + 1
          /\ id \notin txRows => applied'[id] = applied[id]
      BY <2>2, EffectOnRow
    <3>2. applied[id] <= (IF plan.stmt = "update" THEN 1 + lost ELSE 1)
      BY DEF Replayed, OnlyLostRepliesReplay
    <3>3. CASE plan.stmt = "update"
      <4>1. applied[id] <= 1 + lost
        BY <3>2, <3>3
      <4>2. id \in txRows => applied[id] <= lost
        <5> SUFFICES ASSUME id \in txRows PROVE applied[id] <= lost
          OBVIOUS
        <5>1. CASE applied[id] = 0
          BY <1>1, <5>1
        <5>2. CASE pcW = "retrySent"
          BY <5>2 DEF Replayed
        <5> QED BY <5>1, <5>2 DEF Replayed
      <4>3. applied'[id] <= 1 + lost'
        BY <1>1, <3>1, <4>1, <4>2
      <4> QED BY <1>1, <3>3, <4>3
    <3>4. CASE plan.stmt # "update"
      <4>1. applied[id] <= 1
        BY <3>2, <3>4
      <4>2. id \in txRows => applied[id] = 0
        BY <3>4 DEF Replayed
      <4>3. applied'[id] <= 1
        BY <3>1, <4>1, <4>2
      <4> QED BY <1>1, <3>4, <4>3
    <3> QED BY <3>3, <3>4
  <2>3. ASSUME pcW' = "retry", NEW id \in Covers(chunk') PROVE applied'[id] <= lost'
    <3>1. id \in Ids /\ applied[id] <= lost /\ TakesEffect /\ lost' = lost + 1
      BY <2>1, <2>3 DEF Covers, Replayed
    <3>2. applied'[id] = applied[id] + 1 \/ applied'[id] = applied[id]
      BY <3>1, EffectOnRow
    <3> QED BY <1>1, <1>2, <3>1, <3>2
  <2> QED BY <1>3, <2>1, <2>2, <2>3 DEF Replayed
<1> QED BY <1>4, <1>5, <1>6, <1>7, <1>8, <1>9, ElsewhereFrame, StepSplit

-----------------------------------------------------------------------------
(* The books. *)

LEMMA Products ==
  /\ \A a, b \in Nat : a * b \in Nat /\ a * (b + 1) = a * b + a /\ a * (1 + b) = a * b + a
  /\ \A a \in Nat : a * 0 = 0
OBVIOUS

LEMMA Amounts ==
  ASSUME TypeOK
  PROVE  /\ executed \in Nat /\ counted \in Nat /\ rowAffects \in Nat /\ Cardinality(txRows) \in Nat
         /\ plan.chunk \in Nat /\ plan.txn \in Int /\ plan.max \in Nat /\ lost \in Nat
         /\ Excess \in Nat /\ IsFiniteSet(txRows)
<1>1. lost \in Nat
  BY RangeAssumption, TypeParts DEF OutsideOK
<1>2. plan.chunk \in Nat /\ plan.txn \in Int /\ plan.max \in Nat
  BY Rows
<1>3. Excess \in Nat
  BY <1>1, <1>2, Products DEF Excess
<1> QED BY <1>1, <1>2, <1>3, Finite, TypeParts DEF TableOK, WriterOK

LEMMA ExcessGrows ==
  ASSUME TypeOK, [Next]_vars
  PROVE  /\ Excess' \in Nat /\ Excess <= Excess'
         /\ lost' = lost => Excess' = Excess
         /\ lost' = lost + 1 => Excess' = Excess + plan.chunk
         /\ ~Effects => Excess' = Excess
<1>1. plan' = plan /\ lost' \in Nat /\ (lost' = lost \/ lost' = lost + 1) /\ (~Effects => lost' = lost)
  BY PlanStays, LostGrows
<1>2. plan.chunk \in Nat /\ lost \in Nat /\ Excess \in Nat
  BY Amounts
<1>3. lost' = lost => Excess' = Excess
  BY <1>1 DEF Excess
<1>4. lost' = lost + 1 => Excess' = Excess + plan.chunk
  BY <1>1, <1>2, Products DEF Excess
<1> QED BY <1>1, <1>2, <1>3, <1>4

(* A transaction's executions and its effect, as amounts.                    *)
LEMMA HitAmounts ==
  ASSUME TypeOK, Held, InHand, NEW S \in Hits(chunk)
  PROVE  /\ Cardinality(S) \in Nat /\ Cardinality(S) <= plan.chunk
         /\ Cardinality(txRows \cup S) = Cardinality(txRows) + Cardinality(S)
<1>1. /\ S \subseteq Covers(chunk) /\ S \cap txRows = {} /\ Cardinality(S) \in Nat
      /\ Cardinality(S) <= plan.chunk
  BY HitsBound DEF Held, Sized
<1>2. IsFiniteSet(S) /\ IsFiniteSet(txRows)
  <2>1. S \in SUBSET Ids
    BY <1>1 DEF Covers
  <2> QED BY <2>1, Finite, Amounts
<1>3. txRows \cap S = {} /\ Cardinality({}) = 0
  BY <1>1, FS_EmptySet
<1>4. Cardinality(txRows \cup S) = Cardinality(txRows) + Cardinality(S) - Cardinality(txRows \cap S)
  BY <1>2, FS_Union
<1>5. Cardinality(txRows \cap S) = 0
  BY <1>3
<1> QED BY <1>1, <1>4, <1>5, Amounts

LEMMA EmptyAmount == Cardinality({}) = 0
BY FS_EmptySet

LEMMA TalliedPassing ==
  ASSUME TypeOK, Tallied, Ended, Passing, Excess' = Excess
  PROVE  Tallied'
<1>1. /\ executed \in Nat /\ counted \in Nat /\ rowAffects \in Nat /\ Cardinality(txRows) \in Nat
      /\ plan.chunk \in Nat /\ Excess \in Nat
  BY Amounts
<1>2. executed' = executed /\ counted' = counted /\ plan' = plan
  BY PassingFrame DEF table
<1>3. ASSUME pcW' = "done", exit' \notin CleanExits PROVE Tallied'
  BY <1>1, <1>2, <1>3 DEF Tallied, InTransaction
<1>4. CASE Top \/ Full \/ TakeCanceled \/ Reopen \/ Commit
  <2>1. \/ /\ txRows' = txRows /\ rowAffects' = rowAffects /\ exit' = exit
           /\ \/ pcW = "top" /\ pcW' = "begin"
              \/ pcW = "take" /\ pcW' = "commit"
              \/ pcW = "reopen" /\ pcW' = "take"
              \/ pcW = "commit" /\ pcW' = "sent"
        \/ pcW' = "done" /\ exit' \in {"canceled", ""}
    BY <1>4 DEF Top, Full, TakeCanceled, Reopen, Commit, WriteReturns, WriteFails, WriterAt
  <2>2. CASE pcW' = "done" /\ exit' \in {"canceled", ""}
    BY <1>3, <2>2 DEF CleanExits
  <2>3. CASE /\ txRows' = txRows /\ rowAffects' = rowAffects /\ exit' = exit
             /\ \/ pcW = "top" /\ pcW' = "begin"
                \/ pcW = "take" /\ pcW' = "commit"
                \/ pcW = "reopen" /\ pcW' = "take"
                \/ pcW = "commit" /\ pcW' = "sent"
    <3>1. Cardinality(txRows') = Cardinality(txRows) /\ exit' \notin CleanExits
      BY <2>3 DEF Ended, CleanExits
    <3> QED BY <1>1, <1>2, <2>3, <3>1 DEF Tallied, InTransaction
  <2> QED BY <2>1, <2>2, <2>3
<1>5. CASE Begin
  <2>1. /\ pcW = "begin" /\ txRows' = {} /\ rowAffects' = 0
        /\ \/ pcW' = "take" /\ exit' = exit
           \/ pcW' = "done" /\ exit' = ""
    BY <1>5 DEF Begin, WriteReturns, WriteFails, WriterAt
  <2>2. Cardinality(txRows') = 0
    BY <2>1, EmptyAmount
  <2>3. exit' \notin CleanExits
    BY <2>1 DEF Ended, CleanExits
  <2>4. executed <= counted + Excess /\ counted <= executed
    BY <2>1 DEF Tallied
  <2>5. CASE pcW' = "take"
    <3>1. /\ counted' <= executed' /\ counted' + rowAffects' <= executed' + 0
          /\ executed' + 0 <= counted' + rowAffects' + Excess' /\ 0 <= rowAffects'
      <4>1. \A e, c, x \in Nat :
              c <= e /\ e <= c + x => c + 0 <= e + 0 /\ e + 0 <= c + 0 + x
        OBVIOUS
      <4>2. counted + 0 <= executed + 0 /\ executed + 0 <= counted + 0 + Excess
        BY <1>1, <2>4, <4>1
      <4>3. rowAffects' = 0 /\ executed' = executed /\ counted' = counted /\ Excess' = Excess
        BY <1>2, <2>1
      <4>4. 0 <= 0
        OBVIOUS
      <4> QED BY <2>4, <4>2, <4>3, <4>4, Zenon
    <3> QED BY <2>2, <2>3, <2>5, <3>1 DEF Tallied, InTransaction
  <2> QED BY <1>3, <2>1, <2>3, <2>5
<1>6. CASE ExecFails
  <2>1. /\ pcW = "exec" /\ rowAffects' = rowAffects
        /\ \/ pcW' = "done" /\ exit' = ""
           \/ ~(rowAffects > 0) /\ pcW' = "retry" /\ exit' = exit
    BY <1>6 DEF ExecFails, WriteReturns, WriteFails, WriterAt
  <2>2. exit' \notin CleanExits
    BY <2>1 DEF Ended, CleanExits
  <2>3. /\ counted <= executed /\ executed + Cardinality(txRows) <= counted + rowAffects + Excess
    BY <2>1 DEF Tallied, InTransaction
  <2>4. CASE ~(rowAffects > 0) /\ pcW' = "retry"
    <3>1. rowAffects' = 0 /\ executed' <= counted' + Excess' /\ counted' <= executed'
      BY <1>1, <1>2, <2>1, <2>3, <2>4
    <3> QED BY <2>4, <2>2, <3>1 DEF Tallied, InTransaction
  <2> QED BY <1>3, <2>1, <2>2, <2>4
<1>7. CASE RetryCanceled \/ RetryFails
  <2>1. /\ pcW \in {"retry", "retrySent"} /\ rowAffects' = rowAffects
        /\ \/ pcW' = "done" /\ exit' = ""
           \/ pcW' = "retry" /\ exit' = exit
    BY <1>7 DEF RetryCanceled, RetryFails, NextAttempt, WriteReturns, WriteFails, WriterAt
  <2>2. exit' \notin CleanExits
    BY <2>1 DEF Ended, CleanExits
  <2>3. counted <= executed /\ executed <= counted + Excess /\ rowAffects = 0
    BY <2>1 DEF Tallied
  <2> QED BY <1>1, <1>2, <1>3, <2>1, <2>2, <2>3 DEF Tallied, InTransaction
<1>8. CASE AfterCommit
  <2>1. pcW = "rate" /\ (pcW' = "done" \/ pcW' = "top")
    BY <1>8 DEF AfterCommit, WriteReturns, WriterAt
  <2>2. counted <= executed /\ executed <= counted + Excess
    BY <2>1 DEF Tallied
  <2> QED BY <1>1, <1>2, <2>1, <2>2 DEF Tallied, InTransaction
<1> QED BY <1>4, <1>5, <1>6, <1>7, <1>8 DEF Passing

LEMMA TalliedEffects ==
  ASSUME TypeOK, Tallied, Ended, [Next]_vars, Effects
  PROVE  Tallied'
<1>1. /\ executed \in Nat /\ counted \in Nat /\ rowAffects \in Nat /\ Cardinality(txRows) \in Nat
      /\ plan.chunk \in Nat /\ Excess \in Nat
  BY Amounts
<1>2. /\ Excess' \in Nat /\ Excess <= Excess' /\ plan' = plan
      /\ lost' = lost + 1 => Excess' = Excess + plan.chunk
  BY ExcessGrows, PlanStays
<1>3. txRows' = {} /\ Cardinality(txRows') = 0 /\ exit = ""
  BY EffectsPlaces, EmptyAmount DEF Ended
<1>4. TakesEffect => executed' = executed + Cardinality(txRows)
  BY DEF TakesEffect
<1>5. CASE RetrySucceeds
  <2>1. /\ pcW = "retrySent" /\ pcW' = "reopen" /\ exit' = exit /\ TakesEffect
        /\ rowAffects' = rowAffects + Cardinality(txRows) /\ counted' = counted
    BY <1>5 DEF RetrySucceeds, WriterAt
  <2>2. counted <= executed /\ executed <= counted + Excess /\ rowAffects = 0
    BY <2>1 DEF Tallied
  <2>3. /\ counted' + rowAffects' <= executed' + 0 /\ executed' + 0 <= counted' + rowAffects' + Excess'
        /\ 0 <= rowAffects' /\ counted' <= executed'
    BY <1>1, <1>2, <1>4, <2>1, <2>2
  <2>4. exit' \notin CleanExits
    BY <1>3, <2>1 DEF CleanExits
  <2> QED BY <1>3, <2>1, <2>3, <2>4 DEF Tallied, InTransaction
<1>6. CASE RetryReplyLost
  <2>1. /\ pcW = "retrySent" /\ TakesEffect /\ lost' = lost + 1
        /\ rowAffects' = rowAffects /\ counted' = counted
        /\ \/ pcW' = "done" /\ exit' = ""
           \/ pcW' = "retry" /\ exit' = exit
    BY <1>6 DEF RetryReplyLost, NextAttempt, WriteReturns, WriteFails, WriterAt
  <2>2. counted <= executed /\ executed <= counted + Excess /\ rowAffects = 0
        /\ Cardinality(txRows) <= plan.chunk
    BY <2>1 DEF Tallied
  <2>3. counted' <= executed' /\ executed' <= counted' + Excess' /\ rowAffects' = 0
    <3>1. executed' = executed + Cardinality(txRows) /\ Excess' = Excess + plan.chunk
      BY <1>2, <1>4, <2>1
    <3>2. \A e, t, c, k, x \in Nat :
            c <= e /\ e <= c + x /\ t <= k => c <= e + t /\ e + t <= c + (x + k)
      OBVIOUS
    <3>3. counted <= executed + Cardinality(txRows)
          /\ executed + Cardinality(txRows) <= counted + (Excess + plan.chunk)
      BY <1>1, <2>2, <3>2
    <3> QED BY <2>1, <2>2, <3>1, <3>3
  <2>4. exit' \notin CleanExits
    BY <1>3, <2>1 DEF CleanExits
  <2> QED BY <2>1, <2>3, <2>4 DEF Tallied, InTransaction
<1>7. CASE CommitSucceeds
  <2>1. /\ pcW = "sent" /\ pcW' = "rate" /\ exit' = exit /\ TakesEffect /\ counted' = counted + rowAffects
    BY <1>7 DEF CommitSucceeds, WriterAt
  <2>2. /\ counted + rowAffects <= executed + Cardinality(txRows)
        /\ executed + Cardinality(txRows) <= counted + rowAffects + Excess
    BY <2>1 DEF Tallied, InTransaction
  <2>3. counted' <= executed' /\ executed' <= counted' + Excess'
    BY <1>1, <1>2, <1>4, <2>1, <2>2
  <2> QED BY <2>1, <2>3 DEF Tallied, InTransaction
<1>8. CASE CommitFails
  <2>1. pcW' = "done" /\ exit' = "" /\ counted' = counted /\ (TakesEffect \/ executed' = executed)
    BY <1>8 DEF CommitFails, WriteReturns, WriteFails, table
  <2>2. counted' <= executed'
    <3>1. executed' = executed \/ executed' = executed + Cardinality(txRows)
      BY <1>4, <2>1
    <3>2. counted <= executed /\ counted' = counted
      BY <2>1 DEF Tallied
    <3> QED BY <1>1, <3>1, <3>2
  <2>3. exit' \notin CleanExits
    BY <2>1 DEF CleanExits
  <2> QED BY <2>1, <2>2, <2>3 DEF Tallied, InTransaction
<1> QED BY <1>5, <1>6, <1>7, <1>8 DEF Effects

LEMMA TalliedStep ==
  ASSUME TypeOK, Held, Tallied, Ended, [Next]_vars
  PROVE  Tallied'
<1>1. /\ executed \in Nat /\ counted \in Nat /\ rowAffects \in Nat /\ Cardinality(txRows) \in Nat
      /\ plan.chunk \in Nat /\ Excess \in Nat
  BY Amounts
<1>2. Excess' \in Nat /\ Excess <= Excess' /\ plan' = plan /\ (~Effects => Excess' = Excess)
  BY ExcessGrows, PlanStays
<1>3. CASE UNCHANGED <<table, writer>>
  <2>1. UNCHANGED <<executed, pcW, exit, counted, rowAffects, txRows>>
    BY <1>3 DEF table, writer
  <2>2. Cardinality(txRows') = Cardinality(txRows)
    BY <2>1
  <2>3. /\ executed <= counted + Excess => executed <= counted + Excess'
        /\ executed + Cardinality(txRows) <= counted + rowAffects + Excess
             => executed + Cardinality(txRows) <= counted + rowAffects + Excess'
    <3>1. \A e, t, c, r, x, y \in Nat :
            x <= y => /\ e <= c + x => e <= c + y
                      /\ e + t <= c + r + x => e + t <= c + r + y
      OBVIOUS
    <3>2. Excess <= Excess' /\ Excess' \in Nat
      BY <1>2
    <3> QED BY <1>1, <3>1, <3>2
  <2> QED BY <1>2, <2>1, <2>2, <2>3 DEF Tallied, InTransaction
<1>4. CASE Effects
  BY <1>4, TalliedEffects
<1>5. CASE Passing /\ ~Effects
  BY <1>2, <1>5, TalliedPassing
<1>6. CASE Take /\ ~Effects
  <2>1. /\ UNCHANGED <<executed, counted, rowAffects, txRows, exit>> /\ pcW = "take"
        /\ pcW' = "commit" \/ pcW' = "exec"
    BY <1>6 DEF Take, WriterAt, table
  <2>2. Cardinality(txRows') = Cardinality(txRows) /\ exit' \notin CleanExits
    BY <2>1 DEF Ended, CleanExits
  <2> QED BY <1>1, <1>2, <1>6, <2>1, <2>2 DEF Tallied, InTransaction
<1>7. CASE ExecSucceeds /\ ~Effects
  <2>1. /\ UNCHANGED <<executed, counted, exit>> /\ pcW = "exec" /\ pcW' = "take" /\ InHand
        /\ \E S \in Hits(chunk) : txRows' = txRows \cup S /\ rowAffects' = rowAffects + Cardinality(S)
    BY <1>7 DEF ExecSucceeds, WriterAt, table, InHand
  <2>2. \E n \in Nat : Cardinality(txRows') = Cardinality(txRows) + n /\ rowAffects' = rowAffects + n
    BY <2>1, HitAmounts
  <2>3. exit' \notin CleanExits
    BY <2>1 DEF Ended, CleanExits
  <2> QED BY <1>1, <1>2, <1>7, <2>1, <2>2, <2>3 DEF Tallied, InTransaction
<1>8. CASE RetryExec /\ ~Effects
  <2>1. /\ UNCHANGED <<executed, counted, exit, rowAffects>> /\ pcW = "retry" /\ pcW' = "retrySent" /\ InHand
        /\ \E S \in Hits(chunk) : txRows' = S
    BY <1>8 DEF RetryExec, WriterAt, table, InHand
  <2>2. Cardinality(txRows') <= plan'.chunk
    BY <1>2, <2>1, HitAmounts
  <2>3. exit' \notin CleanExits
    BY <2>1 DEF Ended, CleanExits
  <2> QED BY <1>1, <1>2, <1>8, <2>1, <2>2, <2>3 DEF Tallied, InTransaction
<1> QED BY <1>3, <1>4, <1>5, <1>6, <1>7, <1>8, ElsewhereFrame, StepSplit

LEMMA GaugeStep ==
  ASSUME TypeOK, Held, Tallied, Gauge, Ended, [Next]_vars
  PROVE  Gauge'
<1>1. /\ executed \in Nat /\ counted \in Nat /\ rowAffects \in Nat /\ Cardinality(txRows) \in Nat
      /\ plan.chunk \in Nat /\ plan.txn \in Int /\ plan.max \in Nat
  BY Amounts
<1>2. plan' = plan
  BY PlanStays
<1> SUFFICES ASSUME plan.max > 0, plan.txn > 0
             PROVE  /\ pcW' \notin {"rate", "done"} => counted' <= plan.max - 1
                    /\ pcW' = "exec" => rowAffects' <= plan.txn - 1
                    /\ InTransaction' => rowAffects' <= (plan.txn - 1) + plan.chunk
  BY <1>2 DEF Gauge, Limits
<1>3. /\ pcW \notin {"rate", "done"} => counted <= plan.max - 1
      /\ pcW = "exec" => rowAffects <= plan.txn - 1
      /\ InTransaction => rowAffects <= (plan.txn - 1) + plan.chunk
  BY DEF Gauge, Limits
<1>4. CASE UNCHANGED <<table, writer>>
  BY <1>3, <1>4 DEF writer, InTransaction
<1>5. CASE Top \/ Full \/ TakeCanceled \/ Reopen \/ Commit \/ CommitSucceeds \/ CommitFails
  <2>1. \/ pcW' \in {"rate", "done"}
        \/ /\ rowAffects' = rowAffects /\ counted' = counted
           /\ \/ pcW = "top" /\ pcW' = "begin"
              \/ pcW = "take" /\ pcW' = "commit"
              \/ pcW = "reopen" /\ pcW' = "take"
              \/ pcW = "commit" /\ pcW' = "sent"
    BY <1>5 DEF Top, Full, TakeCanceled, Reopen, Commit, CommitSucceeds, CommitFails, WriteReturns,
       WriteFails, WriterAt
  <2> QED BY <1>3, <2>1 DEF InTransaction
<1>6. CASE Begin \/ ExecFails \/ RetryCanceled \/ RetryFails \/ RetryReplyLost \/ RetryExec
  <2>1. /\ counted' = counted /\ pcW \notin {"rate", "done"}
        /\ pcW' \in {"done", "retry", "retrySent"} \/ (pcW' = "take" /\ rowAffects' = 0)
    BY <1>6 DEF Begin, ExecFails, RetryCanceled, RetryFails, RetryReplyLost, RetryExec, NextAttempt,
       WriteReturns, WriteFails, WriterAt
  <2>2. 0 <= (plan.txn - 1) + plan.chunk
    BY <1>1
  <2> QED BY <1>3, <2>1, <2>2 DEF InTransaction
<1>7. CASE Take
  <2>1. /\ counted' = counted /\ rowAffects' = rowAffects /\ pcW = "take"
        /\ pcW' = "commit" \/ pcW' = "exec"
        /\ ~TxnIsFull
    BY <1>7 DEF Take, WriterAt
  <2>2. rowAffects <= plan.txn - 1
    BY <1>1, <2>1 DEF TxnIsFull
  <2> QED BY <1>3, <2>1, <2>2 DEF InTransaction
<1>8. CASE ExecSucceeds
  <2>1. /\ counted' = counted /\ pcW = "exec" /\ pcW' = "take" /\ InHand
        /\ \E S \in Hits(chunk) : rowAffects' = rowAffects + Cardinality(S)
    BY <1>8 DEF ExecSucceeds, WriterAt, InHand
  <2>2. PICK n \in Nat : n <= plan.chunk /\ rowAffects' = rowAffects + n
    BY <2>1, HitAmounts
  <2>3. rowAffects' <= (plan.txn - 1) + plan.chunk
    <3>1. rowAffects <= plan.txn - 1
      BY <1>3, <2>1
    <3> QED BY <1>1, <2>2, <3>1
  <2> QED BY <1>3, <2>1, <2>3
<1>9. CASE RetrySucceeds
  <2>1. /\ counted' = counted /\ pcW = "retrySent" /\ pcW' = "reopen"
        /\ rowAffects' = rowAffects + Cardinality(txRows)
    BY <1>9 DEF RetrySucceeds, WriterAt
  <2>2. rowAffects = 0 /\ Cardinality(txRows) <= plan.chunk
    BY <2>1 DEF Tallied
  <2>3. rowAffects' <= (plan.txn - 1) + plan.chunk
    BY <1>1, <2>1, <2>2
  <2> QED BY <1>3, <2>1, <2>3
<1>10. CASE AfterCommit
  <2>1. pcW' = "done" \/ (pcW' = "top" /\ ~RowsReached /\ counted' = counted)
    BY <1>10 DEF AfterCommit, WriteReturns, WriterAt
  <2>2. ~RowsReached => counted <= plan.max - 1
    BY <1>1 DEF RowsReached
  <2> QED BY <2>1, <2>2 DEF InTransaction
<1> QED BY <1>4, <1>5, <1>6, <1>7, <1>8, <1>9, <1>10, ElsewhereFrame, StepSplit
    DEF Passing, Effects

LEMMA OvershootStep ==
  ASSUME TypeOK, Tallied, Gauge, OvershootBounded, Ended, [Next]_vars
  PROVE  OvershootBounded'
<1>1. /\ executed \in Nat /\ counted \in Nat /\ rowAffects \in Nat /\ Cardinality(txRows) \in Nat
      /\ plan.chunk \in Nat /\ plan.txn \in Int /\ plan.max \in Nat /\ lost \in Nat /\ Excess \in Nat
  BY Amounts
<1>2. plan' = plan /\ lost' \in Nat /\ Excess' \in Nat /\ Excess <= Excess'
      /\ (lost' = lost + 1 => Excess' = Excess + plan.chunk)
  BY PlanStays, LostGrows, ExcessGrows
<1> SUFFICES ASSUME plan.max > 0, plan.txn > 0
             PROVE  executed' <= (plan.max - 1) + (plan.txn - 1) + plan.chunk * (1 + lost')
  BY <1>2 DEF OvershootBounded
<1>3. plan.chunk * (1 + lost) = Excess + plan.chunk /\ plan.chunk * (1 + lost') = Excess' + plan.chunk
  BY <1>1, <1>2, Products DEF Excess
<1>4. executed <= (plan.max - 1) + (plan.txn - 1) + (Excess + plan.chunk)
  BY <1>3 DEF OvershootBounded
<1> SUFFICES executed' <= (plan.max - 1) + (plan.txn - 1) + (Excess' + plan.chunk)
  BY <1>3
<1> DEFINE room == (plan.max - 1) + (plan.txn - 1)
<1>5. room \in Nat /\ plan.max - 1 \in Nat /\ plan.txn - 1 \in Nat
  BY <1>1
<1>6. CASE executed' = executed
  <2>1. \A e, r, k, x, y \in Nat : e <= r + (x + k) /\ x <= y => e <= r + (y + k)
    OBVIOUS
  <2> HIDE DEF room
  <2>2. executed <= room + (Excess' + plan.chunk)
    BY <1>1, <1>2, <1>4, <1>5, <2>1 DEF room
  <2> QED BY <1>6, <2>2 DEF room
<1>7. CASE Effects /\ executed' = executed + Cardinality(txRows)
  <2>1. CASE pcW = "sent"
    <3>1. /\ executed + Cardinality(txRows) <= counted + rowAffects + Excess
          /\ counted <= plan.max - 1 /\ rowAffects <= (plan.txn - 1) + plan.chunk
      BY <2>1 DEF Tallied, Gauge, Limits, InTransaction
    <3>2. \A e, t, c, r, x, y, k, m, n \in Nat :
            e + t <= c + r + x /\ c <= m /\ r <= n + k /\ x <= y => e + t <= m + n + (y + k)
      OBVIOUS
    <3>3. executed + Cardinality(txRows) <= (plan.max - 1) + (plan.txn - 1) + (Excess' + plan.chunk)
      BY <1>1, <1>2, <1>5, <3>1, <3>2
    <3> QED BY <1>7, <3>3
  <2>2. CASE pcW = "retrySent"
    <3>1. executed <= counted + Excess /\ Cardinality(txRows) <= plan.chunk
          /\ counted <= plan.max - 1
      BY <2>2 DEF Tallied, Gauge, Limits
    <3>2. \A e, t, c, x, y, k, m, n \in Nat :
            e <= c + x /\ t <= k /\ c <= m /\ x <= y => e + t <= m + n + (y + k)
      OBVIOUS
    <3>3. executed + Cardinality(txRows) <= (plan.max - 1) + (plan.txn - 1) + (Excess' + plan.chunk)
      BY <1>1, <1>2, <1>5, <3>1, <3>2
    <3> QED BY <1>7, <3>3
  <2> QED BY <1>7, <2>1, <2>2, EffectsPlaces
<1>8. executed' = executed \/ (Effects /\ executed' = executed + Cardinality(txRows))
  <2>1. Effects => TakesEffect \/ executed' = executed
    BY EffectsPlaces DEF table
  <2>2. Passing \/ Take \/ ExecSucceeds \/ RetryExec => executed' = executed
    BY PassingFrame DEF Take, ExecSucceeds, RetryExec, table
  <2>3. UNCHANGED <<table, writer>> => executed' = executed
    BY DEF table
  <2> QED BY <2>1, <2>2, <2>3, ElsewhereFrame, StepSplit DEF TakesEffect
<1> QED BY <1>6, <1>7, <1>8

LEMMA LimitedStep ==
  ASSUME TypeOK, Held, Tallied, Limited, Ended, [Next]_vars
  PROVE  Limited'
BY GaugeStep, OvershootStep DEF Limited

-----------------------------------------------------------------------------
(* How the goroutines end. *)

(* A step of Write goes on, fails, or returns nil for a reason. *)
LEMMA WriteEnds ==
  ASSUME Ended, Consuming
  PROVE  /\ pcW # "done" /\ errW = "" /\ exit = ""
         /\ \/ pcW' # "done" /\ errW' = "" /\ exit' = ""
            \/ pcW' = "done" /\ errW' = "error" /\ exit' = ""
            \/ pcW' = "done" /\ errW' = "nil" /\ exit' = "canceled" /\ canceled
            \/ pcW' = "done" /\ errW' = "nil" /\ exit' \in CleanExits /\ finish'
         /\ UNCHANGED <<builder, runner, canceled, stopped>>
<1>1. pcW # "done" /\ UNCHANGED <<builder, runner, canceled, stopped>>
  <2>1. CASE Top \/ Begin \/ Full \/ TakeCanceled \/ Take \/ ExecSucceeds \/ ExecFails
    BY <2>1 DEF Top, Begin, Full, TakeCanceled, Take, ExecSucceeds, ExecFails, outside, Fault
  <2>2. CASE RetryExec \/ RetryCanceled \/ RetrySucceeds \/ RetryFails \/ RetryReplyLost \/ Reopen
    BY <2>2 DEF RetryExec, RetryCanceled, RetrySucceeds, RetryFails, RetryReplyLost, Reopen, outside,
       Fault
  <2>3. CASE Commit \/ CommitSucceeds \/ CommitFails \/ AfterCommit
    BY <2>3 DEF Commit, CommitSucceeds, CommitFails, AfterCommit, outside, Fault
  <2> QED BY <2>1, <2>2, <2>3 DEF Consuming
<1>2. errW = "" /\ exit = ""
  BY <1>1 DEF Ended
<1>3. \/ pcW' # "done" /\ errW' = errW /\ exit' = exit
      \/ pcW' = "done" /\ errW' = "error" /\ exit' = ""
      \/ pcW' = "done" /\ errW' = "nil" /\ exit' = "canceled" /\ canceled
      \/ pcW' = "done" /\ errW' = "nil" /\ exit' \in CleanExits /\ finish'
  <2>1. CASE Top \/ Begin \/ Full \/ TakeCanceled \/ Take \/ ExecSucceeds \/ ExecFails
    BY <2>1 DEF Top, Begin, Full, TakeCanceled, Take, ExecSucceeds, ExecFails, WriteReturns,
       WriteFails, WriterAt
  <2>2. CASE RetryExec \/ RetryCanceled \/ RetrySucceeds \/ RetryFails \/ RetryReplyLost
    BY <2>2 DEF RetryExec, RetryCanceled, RetrySucceeds, RetryFails, RetryReplyLost, NextAttempt,
       WriteReturns, WriteFails, WriterAt
  <2>3. CASE Reopen \/ Commit \/ CommitSucceeds \/ CommitFails
    BY <2>3 DEF Reopen, Commit, CommitSucceeds, CommitFails, WriteReturns, WriteFails, WriterAt
  <2>4. CASE AfterCommit
    <3>1. \/ pcW' = "done" /\ errW' = "nil" /\ exit' = "canceled" /\ canceled
          \/ pcW' = "done" /\ errW' = "nil" /\ exit' = "max_rows" /\ finish'
          \/ pcW' = "done" /\ errW' = "nil" /\ exit' = "max_duration" /\ finish'
          \/ pcW' = "done" /\ errW' = "nil" /\ exit' = "exhausted" /\ finish'
          \/ pcW' = "top" /\ errW' = errW /\ exit' = exit
      BY <2>4 DEF AfterCommit, WriteReturns, WriterAt
    <3> QED BY <3>1 DEF CleanExits
  <2> QED BY <2>1, <2>2, <2>3, <2>4 DEF Consuming
<1> QED BY <1>1, <1>2, <1>3

LEMMA EndedFrame ==
  ASSUME Ended, pcW' = pcW, errW' = errW, exit' = exit, finish => finish',
         stopped \/ result = "error" => stopped' \/ result' = "error",
         canceled' => canceled \/ stopped' \/ result' = "error" \/ pcW = "done"
  PROVE  Ended'
<1>1. pcW' # "done" => errW' = "" /\ exit' = ""
  BY DEF Ended
<1>2. pcW' = "done" => /\ errW' \in {"nil", "error"}
                       /\ errW' = "nil" => exit' = "canceled" \/ (exit' \in CleanExits /\ finish')
  BY DEF Ended
<1>3. exit' = "canceled" => stopped' \/ result' = "error"
  BY DEF Ended
<1>4. canceled' => stopped' \/ result' = "error" \/ pcW' = "done"
  BY DEF Ended
<1> QED BY <1>1, <1>2, <1>3, <1>4 DEF Ended, CleanExits

LEMMA EndedStep ==
  ASSUME Ended, Joined, [Next]_vars
  PROVE  Ended'
<1> USE DEF CleanExits
<1>1. CASE Consuming
  <2>0. UNCHANGED <<runner, canceled, stopped>>
    BY <1>1, WriteEnds
  <2>1. result' = result /\ canceled' = canceled /\ stopped' = stopped
    BY <2>0 DEF runner
  <2>2. canceled' => stopped' \/ result' = "error"
    BY <1>1, <2>1, WriteEnds DEF Ended
  <2>3. \/ pcW' # "done" /\ errW' = "" /\ exit' = ""
        \/ pcW' = "done" /\ errW' = "error" /\ exit' = ""
        \/ pcW' = "done" /\ errW' = "nil" /\ exit' = "canceled" /\ (stopped' \/ result' = "error")
        \/ pcW' = "done" /\ errW' = "nil" /\ exit' \in CleanExits /\ finish'
    BY <1>1, <2>1, <2>2, WriteEnds
  <2> QED BY <2>2, <2>3 DEF Ended
<1>2. UNCHANGED writer => pcW' = pcW /\ errW' = errW /\ exit' = exit /\ (finish => finish')
  BY DEF writer
<1>3. CASE Fetch \/ FetchNothing \/ FetchFails \/ Enqueue \/ ProducerStops
  <2>1. UNCHANGED <<writer, runner, canceled, stopped>>
    BY <1>3 DEF Fetch, FetchNothing, FetchFails, Enqueue, ProducerStops, outside, Fault
  <2> QED BY <1>2, <2>1, EndedFrame DEF runner
<1>4. CASE Cancel \/ UNCHANGED vars \/ (\E id \in NewIds : Insert(id))
  <2>1. /\ UNCHANGED <<writer, runner>>
        /\ (canceled' = canceled /\ stopped' = stopped) \/ stopped'
    BY <1>4 DEF Cancel, Insert, vars, outside
  <2> QED BY <1>2, <2>1, EndedFrame DEF runner
<1>5. CASE TakesProducer
  <2>1. UNCHANGED <<writer, stopped>> /\ ((result' = "error") \/ UNCHANGED <<canceled, result>>)
    BY <1>5 DEF TakesProducer
  <2> QED BY <1>2, <2>1, EndedFrame
<1>6. CASE TakesWriter
  <2>1. UNCHANGED <<writer, stopped>> /\ pcW = "done" /\ result = ""
    BY <1>6 DEF TakesWriter, Joined
  <2> QED BY <1>2, <2>1, EndedFrame
<1>7. CASE Drained
  <2>1. UNCHANGED <<writer, result, canceled, stopped>>
    BY <1>7 DEF Drained, outside
  <2> QED BY <1>2, <2>1, EndedFrame
<1> QED BY <1>1, <1>3, <1>4, <1>5, <1>6, <1>7, StepSplit DEF Consuming, Passing, Effects, Running

LEMMA JoinedStep ==
  ASSUME Ended, Joined, [Next]_vars
  PROVE  Joined'
<1>1. CASE Consuming
  <2>1. pcW # "done" /\ pcP' = pcP /\ pcR' = pcR /\ result' = result
    BY <1>1, WriteEnds DEF runner, builder
  <2>2. pcR \in {"drainProducer", "done"} => FALSE
    BY <2>1 DEF Joined
  <2> QED BY <2>1, <2>2 DEF Joined
<1>2. CASE Fetch \/ FetchNothing \/ FetchFails \/ Enqueue \/ ProducerStops
  <2>1. UNCHANGED <<writer, runner>> /\ pcP # "done"
    BY <1>2 DEF Fetch, FetchNothing, FetchFails, Enqueue, ProducerStops
  <2> QED BY <2>1 DEF Joined, writer, runner
<1>3. CASE Cancel \/ UNCHANGED vars \/ (\E id \in NewIds : Insert(id))
  <2>1. UNCHANGED <<writer, runner, builder>>
    BY <1>3 DEF Cancel, Insert, vars
  <2>2. UNCHANGED <<pcW, errW, pcR, result, pcP>>
    BY <2>1 DEF writer, runner, builder
  <2> QED BY <2>2 DEF Joined
<1>4. CASE TakesProducer
  <2>1. UNCHANGED <<pcW, errW, pcP>> /\ pcP = "done"
    BY <1>4 DEF TakesProducer, writer, builder
  <2>2. (pcR' = "drainWriter" /\ result' = "error") \/ (pcR' = "writerOnly" /\ result' = "")
    BY <1>4 DEF TakesProducer, Joined
  <2> QED BY <2>1, <2>2 DEF Joined
<1>5. CASE TakesWriter
  <2>1. /\ UNCHANGED <<pcW, errW, pcP>> /\ pcR \in {"both", "writerOnly"} /\ pcW = "done"
        /\ result' = errW
        /\ pcR' = (IF pcR = "both" THEN "drainProducer" ELSE "done")
    BY <1>5 DEF TakesWriter, writer, builder
  <2> QED BY <2>1 DEF Joined
<1>6. CASE Drained
  <2>1. /\ UNCHANGED <<pcW, errW, pcP, result>> /\ pcR' = "done"
        /\ \/ pcR = "drainWriter" /\ pcW = "done"
           \/ pcR = "drainProducer" /\ pcP = "done"
    BY <1>6 DEF Drained, writer, builder
  <2>2. pcP = "done" /\ pcW = "done" /\ result \in {errW, "error"}
    BY <2>1 DEF Joined
  <2> QED BY <2>1, <2>2 DEF Joined
<1> QED BY <1>1, <1>2, <1>3, <1>4, <1>5, <1>6, StepSplit DEF Consuming, Passing, Effects, Running

-----------------------------------------------------------------------------
(* The rows that chunks leave out. *)

LEMMA PassedStays ==
  ASSUME TypeOK, Lined, Closed, Followed, [Next]_vars, NEW id \in Ids, Passed(id)
  PROVE  Passed(id)'
<1>1. /\ ~PastCursor(id) /\ (InHand => id \notin Covers(chunk))
      /\ \A i \in 1..Len(Line) : Line[i] # FIN => id \notin Covers(Line[i])
  BY DEF Passed
<1>2. cursor # NoId /\ cursor \in Int /\ id \in Int /\ ~(id > cursor)
  BY <1>1, CursorIsInt DEF PastCursor
<1>3. InHand' /\ ~Take => id \notin Covers(chunk')
  BY <1>1, HandStays
<1>4. Fetch \/ FetchNothing => ~Take
  BY DEF Fetch, FetchNothing, Take, WriterAt, writer
<1>5. CASE Fetch /\ Advance /\ Line' = Line \o page'
  <2>1. /\ \A i \in 1..Len(Line) : Line'[i] = Line[i] /\ Line[i] # FIN
        /\ \A h \in 1..Len(page') :
             Line'[Len(Line) + h] = page'[h] /\ page'[h] # FIN /\ page'[h] \in Chunk
        /\ \A i \in 1..Len(Line') :
             i \in 1..Len(Line) \/ \E h \in 1..Len(page') : i = Len(Line) + h
    BY <1>5, FetchedLine
  <2>2. cursor' \in Int /\ cursor' # NoId /\ cursor < cursor'
    BY <1>2, <1>5, CursorIsInt DEF Advance
  <2>3. ~PastCursor(id)'
    BY <1>2, <2>2 DEF PastCursor
  <2>4. ASSUME NEW h \in 1..Len(page') PROVE id \notin Covers(page'[h])
    <3>1. page'[h][1] > cursor /\ page'[h][1] \in Int
      BY <1>2, <1>5, <2>1, CursorIsInt DEF Advance, PastCursor
    <3>2. ~(page'[h][1] <= id)
      BY <1>2, <3>1
    <3> QED BY <3>2 DEF Covers
  <2>5. \A i \in 1..Len(Line') : id \notin Covers(Line'[i])
    BY <1>1, <2>1, <2>4
  <2> QED BY <1>3, <1>4, <1>5, <2>3, <2>5 DEF Passed
<1>6. CASE pcP = "fetch" /\ page' = <<FIN>> /\ Line' = Line \o page' /\ cursor' = cursor /\ ~Take
  <2>1. /\ Line'[Len(Line) + 1] = FIN
        /\ \A i \in 1..Len(Line) : Line'[i] = Line[i]
        /\ \A i \in 1..Len(Line') : i \in 1..Len(Line) \/ i = Len(Line) + 1
    BY <1>6, MarkedLine
  <2>2. \A i \in 1..Len(Line') : Line'[i] # FIN => id \notin Covers(Line'[i])
    BY <1>1, <2>1
  <2> QED BY <1>1, <1>3, <1>6, <2>2 DEF Passed, PastCursor
<1>7. CASE Takes
  <2>1. /\ \A i \in 1..Len(Line') : Line'[i] = Line[i + 1] /\ i + 1 \in 1..Len(Line)
        /\ 1 \in 1..Len(Line)
    BY <1>7, TakesShape
  <2>2. cursor' = cursor
    BY <1>7 DEF Takes, Take, builder
  <2>3. InHand' => id \notin Covers(chunk')
    BY <1>1, <1>7, <2>1, TakesChunk
  <2>4. \A i \in 1..Len(Line') : Line'[i] # FIN => id \notin Covers(Line'[i])
    BY <1>1, <2>1
  <2> QED BY <1>1, <2>2, <2>3, <2>4 DEF Passed, PastCursor
<1>8. CASE Line' = Line /\ cursor' = cursor /\ ~Take
  BY <1>1, <1>3, <1>8 DEF Passed, PastCursor
<1>9. FetchNothing => pcP = "fetch" /\ page' = <<FIN>> /\ cursor' = cursor
  BY DEF FetchNothing
<1>10. Fetch => pcP = "fetch" /\ ((page' = <<FIN>> /\ cursor' = cursor) \/ Advance)
  BY FetchShape DEF Fetch
<1>11. ~Fetch => cursor' = cursor
  BY CursorStays
<1> QED BY <1>4, <1>5, <1>6, <1>7, <1>8, <1>9, <1>10, <1>11, LineSteps

(* An old row passes only with the chunk that covers it.                     *)
LEMMA PassesWithChunk ==
  ASSUME TypeOK, Lined, Closed, Followed, [Next]_vars, NEW id \in OldIds, Passed(id)', ~Passed(id)
  PROVE  InHand /\ ~InHand' /\ id \in Covers(chunk)
<1>1. /\ ~PastCursor(id)' /\ (InHand' => id \notin Covers(chunk'))
      /\ \A i \in 1..Len(Line') : Line'[i] # FIN => id \notin Covers(Line'[i])
  BY DEF Passed
<1>2. id \in Ids /\ id \in Int
  BY CursorIsInt
<1>3. ASSUME \/ PastCursor(id)
             \/ \E i \in 1..Len(Line) : Line[i] # FIN /\ id \in Covers(Line[i])
      PROVE  FALSE
  <2>1. CASE Fetch /\ Advance /\ Line' = Line \o page'
    <3>1. /\ \A i \in 1..Len(Line) : Line'[i] = Line[i] /\ Line[i] # FIN /\ i \in 1..Len(Line')
          /\ \A h \in 1..Len(page') :
               Line'[Len(Line) + h] = page'[h] /\ page'[h] # FIN /\ Len(Line) + h \in 1..Len(Line')
      BY <2>1, FetchedLine
    <3>2. CASE PastCursor(id)
      <4>1. id <= cursor'
        BY <1>1, <1>2, <2>1, CursorIsInt DEF PastCursor, Advance
      <4>2. PICK h \in 1..Len(page') : id \in Covers(page'[h])
        BY <2>1, <3>2, <4>1 DEF Advance
      <4> QED BY <1>1, <3>1, <4>2
    <3>3. CASE \E i \in 1..Len(Line) : Line[i] # FIN /\ id \in Covers(Line[i])
      BY <1>1, <3>1, <3>3
    <3> QED BY <1>3, <3>2, <3>3
  <2>2. CASE pcP = "fetch" /\ page' = <<FIN>> /\ Line' = Line \o page' /\ cursor' = cursor
    <3>1. \A i \in 1..Len(Line) : Line'[i] = Line[i] /\ i \in 1..Len(Line')
      BY <2>2, MarkedLine
    <3> QED BY <1>1, <1>3, <2>2, <3>1 DEF PastCursor
  <2>3. CASE Takes
    <3>1. cursor' = cursor
      BY <2>3 DEF Takes, Take, builder
    <3>2. ~PastCursor(id)
      BY <1>1, <3>1 DEF PastCursor
    <3>3. PICK i \in 1..Len(Line) : Line[i] # FIN /\ id \in Covers(Line[i])
      BY <1>3, <3>2
    <3>4. /\ Len(Line) \in Nat /\ Len(Line') = Len(Line) - 1
          /\ \A j \in 1..Len(Line') : Line'[j] = Line[j + 1]
      BY <2>3, TakesShape
    <3>5. CASE i = 1
      <4>1. InHand' /\ chunk' = Line[1]
        <5>1. Head(queue) = Line[1] /\ Line[1] # FIN
          BY <2>3, <3>3, <3>5 DEF Takes
        <5> QED BY <2>3, <5>1 DEF Takes, Take, WriterAt, InHand
      <4> QED BY <1>1, <3>3, <3>5, <4>1
    <3>6. CASE i # 1
      <4>1. i - 1 \in 1..Len(Line') /\ (i - 1) + 1 = i
        BY <3>3, <3>4, <3>6
      <4>2. Line'[i - 1] = Line[i]
        BY <3>4, <4>1
      <4> QED BY <1>1, <3>3, <4>1, <4>2
    <3> QED BY <3>5, <3>6
  <2>4. CASE Line' = Line /\ cursor' = cursor
    BY <1>1, <1>3, <2>4 DEF PastCursor
  <2>5. FetchNothing => pcP = "fetch" /\ page' = <<FIN>> /\ cursor' = cursor
    BY DEF FetchNothing
  <2>6. Fetch => pcP = "fetch" /\ ((page' = <<FIN>> /\ cursor' = cursor) \/ Advance)
    BY FetchShape DEF Fetch
  <2>7. ~Fetch => cursor' = cursor
    BY CursorStays
  <2> QED BY <2>1, <2>2, <2>3, <2>4, <2>5, <2>6, <2>7, LineSteps
<1>4. InHand /\ id \in Covers(chunk)
  BY <1>3 DEF Passed
<1>5. ~InHand'
  <2>1. Take => ~InHand
    BY DEF Take, InHand
  <2> QED BY <1>1, <1>4, <2>1, HandStays
<1> QED BY <1>4, <1>5

(* What an execution leaves of its chunk's old rows is at most what other    *)
(* clients have inserted there: its LIMIT is the size of the chunk.          *)
LEMMA LeftByLimit ==
  ASSUME TypeOK, Held, InHand, NEW S \in Hits(chunk)
  PROVE  Cardinality({id \in OldIds \cap Covers(chunk) : ~Reached(id) /\ id \notin S})
           <= Cardinality(inserted \cap Covers(chunk))
<1> DEFINE A == OldIds \cap Covers(chunk)
           I == inserted \cap Covers(chunk)
           L == {id \in A : ~Reached(id) /\ id \notin S}
<1>1. chunk \in Chunk /\ Cardinality(A) <= plan.chunk
  BY DEF Held, Sized
<1>2. /\ S \subseteq Covers(chunk) /\ S \subseteq Matching
      /\ Cardinality(S) \in Nat /\ (S = InChunk(chunk) \/ Cardinality(S) = plan.chunk)
  BY <1>1, HitsBound
<1>3. inserted \subseteq Ids
  BY TypeParts DEF OutsideOK, Ids
<1>4. A \in SUBSET Ids /\ I \in SUBSET Ids /\ L \in SUBSET Ids /\ S \in SUBSET Ids
  BY <1>2 DEF Covers
<1>5. IsFiniteSet(A) /\ IsFiniteSet(I) /\ IsFiniteSet(L) /\ IsFiniteSet(S)
      /\ Cardinality(A) \in Nat /\ Cardinality(I) \in Nat /\ Cardinality(L) \in Nat
  BY <1>4, Finite
<1>6. CASE S = InChunk(chunk)
  <2>1. L = {}
    <3> SUFFICES ASSUME NEW id \in L PROVE FALSE
      OBVIOUS
    <3>1. id \in OldIds /\ id \in Covers(chunk) /\ ~Reached(id) /\ id \notin S /\ id \in Ids
      BY <1>4
    <3>2. applied[id] = 0 /\ id \notin txRows
      <4>1. applied[id] \in Nat /\ ~(applied[id] > 0) /\ id \notin txRows
        BY <3>1, TypeParts DEF Reached, TableOK
      <4> QED BY <4>1
    <3>3. id \in Matching \ txRows
      BY <3>1, <3>2 DEF Matching
    <3> QED BY <1>6, <3>1, <3>3 DEF InChunk, Covers
  <2>2. Cardinality(L) = 0
    BY <2>1, FS_EmptySet
  <2>3. Cardinality(L) <= Cardinality(I)
    BY <1>5, <2>2
  <2> QED BY <2>3
<1>7. CASE Cardinality(S) = plan.chunk
  <2>1. S \ A \subseteq I
    BY <1>2 DEF Matching
  <2>2. L \subseteq A \ S
    OBVIOUS
  <2> HIDE DEF A, I, L
  <2>3. /\ Cardinality(A \ S) = Cardinality(A) - Cardinality(A \cap S)
        /\ Cardinality(S \ A) = Cardinality(S) - Cardinality(S \cap A)
        /\ IsFiniteSet(A \ S) /\ Cardinality(A \ S) \in Nat /\ Cardinality(S \ A) \in Nat
    BY <1>5, FS_Difference, FS_CardinalityType
  <2>4. A \cap S = S \cap A /\ Cardinality(A \cap S) \in Nat
    BY <1>5, FS_Intersection, FS_CardinalityType
  <2>5. Cardinality(S \ A) <= Cardinality(I) /\ Cardinality(L) <= Cardinality(A \ S)
    BY <1>5, <2>1, <2>2, <2>3, FS_Subset
  <2>6. Cardinality(A) <= Cardinality(S)
    BY <1>1, <1>7 DEF A
  <2>7. Cardinality(A \ S) <= Cardinality(S \ A)
    BY <1>2, <1>5, <2>3, <2>4, <2>6
  <2>8. Cardinality(L) <= Cardinality(I)
    BY <1>5, <2>3, <2>5, <2>7
  <2> QED BY <2>8 DEF L, I, A
<1> QED BY <1>2, <1>6, <1>7

LEMMA InsertedGrows == [Next]_vars => inserted \subseteq inserted'
<1> SUFFICES ASSUME [Next]_vars PROVE inserted \subseteq inserted'
  OBVIOUS
<1>1. Passing \/ Effects => inserted' = inserted
  BY PassingFrame, EffectsFrame DEF Fault, outside
<1>2. Fetch \/ FetchNothing \/ FetchFails \/ Enqueue \/ ProducerStops => inserted' = inserted
  BY DEF Fetch, FetchNothing, FetchFails, Enqueue, ProducerStops, outside, Fault
<1>3. Take \/ ExecSucceeds \/ RetryExec \/ Running \/ Cancel \/ UNCHANGED vars => inserted' = inserted
  BY DEF Take, ExecSucceeds, RetryExec, Running, TakesProducer, TakesWriter, Drained, Cancel, vars,
     outside
<1>4. (\E id \in NewIds : Insert(id)) => inserted \subseteq inserted'
  BY DEF Insert
<1> QED BY <1>1, <1>2, <1>3, <1>4, StepSplit

LEMMA WholeStays ==
  ASSUME Ended, [Next]_vars, Whole'
  PROVE  Whole
<1>1. CASE Consuming
  BY <1>1, WriteEnds DEF Whole
<1>2. UNCHANGED writer => Whole
  BY DEF Whole, writer
<1> QED BY <1>1, <1>2, ElsewhereFrame, StepSplit DEF Consuming, Passing, Effects

(* A row is forgotten only with the transaction that executed it: of a run   *)
(* that goes on, with the chunk that is retried.                             *)
LEMMA Forgets ==
  ASSUME TypeOK, Tallied, Replayed, Ended, [Next]_vars, Whole', NEW id \in Ids, Reached(id), ~Reached(id)'
  PROVE  InHand /\ InHand' /\ chunk' = chunk /\ id \in Covers(chunk)
<1>1. applied[id] \in Nat /\ IsFiniteSet(txRows) /\ Cardinality(txRows) \in Nat /\ rowAffects \in Nat
  BY Amounts, TypeParts DEF TableOK
<1>2. CASE UNCHANGED <<table, writer>>
  BY <1>2 DEF table, writer, Reached
<1>3. CASE Take \/ ExecSucceeds
  BY <1>3 DEF Take, ExecSucceeds, table, Reached
<1>4. CASE RetryExec
  <2>1. pcW = "retry" /\ applied' = applied
    BY <1>4 DEF RetryExec, table
  <2>2. txRows = {}
    BY <2>1 DEF Replayed
  <2> QED BY <2>1, <2>2 DEF Reached
<1>5. CASE TakesEffect /\ txRows' = {}
  <2>1. applied'[id] > 0
    BY <1>1, <1>5, EffectOnRow DEF Reached
  <2> QED BY <2>1 DEF Reached
<1>6. CASE Passing
  <2>1. applied' = applied /\ chunk' = chunk
    BY <1>6, PassingFrame DEF table
  <2>2. txRows # {} /\ id \in txRows /\ txRows' # txRows
    BY <2>1 DEF Reached
  <2>3. CASE Top \/ Begin \/ Full \/ Reopen \/ AfterCommit
    <3>1. txRows' = txRows \/ pcW = "begin"
      BY <2>3 DEF Top, Begin, Full, Reopen, AfterCommit
    <3> QED BY <2>2, <3>1 DEF Replayed
  <2>4. CASE TakeCanceled \/ RetryCanceled \/ Commit
    <3>1. txRows' = txRows \/ (pcW' = "done" /\ exit' # "exhausted")
      BY <2>4 DEF TakeCanceled, RetryCanceled, Commit, WriteReturns, WriteFails
    <3> QED BY <2>2, <3>1 DEF Whole
  <2>5. CASE ExecFails
    <3>1. pcW = "exec" /\ (~(rowAffects > 0) \/ (pcW' = "done" /\ exit' # "exhausted"))
      BY <2>5 DEF ExecFails, WriteReturns, WriteFails
    <3>2. Cardinality(txRows) <= rowAffects /\ ~(rowAffects > 0)
      BY <3>1 DEF Whole, Tallied, InTransaction
    <3>3. Cardinality(txRows) = 0
      BY <1>1, <3>2
    <3> QED BY <1>1, <2>2, <3>3, FS_EmptySet
  <2>6. CASE RetryFails
    <3>1. pcW \in {"retry", "retrySent"} /\ (pcW' = "retry" \/ (pcW' = "done" /\ exit' # "exhausted"))
      BY <2>6 DEF RetryFails, NextAttempt, WriteReturns, WriteFails, WriterAt
    <3>2. pcW' = "retry"
      BY <3>1 DEF Whole
    <3>3. pcW = "retrySent" /\ txRows \subseteq Covers(chunk)
      BY <2>2, <3>1 DEF Replayed
    <3> QED BY <2>1, <2>2, <3>2, <3>3 DEF InHand
  <2> QED BY <1>6, <2>3, <2>4, <2>5, <2>6 DEF Passing
<1>7. CASE Effects /\ ~TakesEffect
  <2>1. CommitFails
    BY <1>7 DEF Effects, RetrySucceeds, RetryReplyLost, CommitSucceeds
  <2>2. pcW' = "done" /\ exit' # "exhausted"
    BY <2>1 DEF CommitFails, WriteReturns, WriteFails
  <2> QED BY <2>2 DEF Whole
<1> QED BY <1>2, <1>3, <1>4, <1>5, <1>6, <1>7, ElsewhereFrame, EffectsPlaces, StepSplit

(* A chunk that leaves the hand of a run that goes on has been executed. *)
LEMMA LeavesHand ==
  ASSUME Ended, [Next]_vars, Whole', InHand, ~InHand'
  PROVE  (ExecSucceeds \/ RetrySucceeds) /\ pcW' # "done"
         /\ UNCHANGED <<queue, builder, plan, inserted>>
<1>1. CASE ExecSucceeds \/ RetrySucceeds
  BY <1>1 DEF ExecSucceeds, RetrySucceeds, WriterAt, outside
<1>2. CASE UNCHANGED writer
  BY <1>2 DEF writer, InHand
<1>3. CASE ExecFails \/ RetryCanceled \/ RetryFails \/ RetryReplyLost \/ RetryExec
  <2>1. pcW' \in {"retry", "retrySent"} \/ (pcW' = "done" /\ exit' = "")
    BY <1>3 DEF ExecFails, RetryCanceled, RetryFails, RetryReplyLost, RetryExec, NextAttempt, WriteReturns,
       WriteFails, WriterAt
  <2> QED BY <2>1 DEF InHand, Whole
<1>4. CASE Top \/ Begin \/ Full \/ TakeCanceled \/ Take \/ Reopen \/ Commit \/ CommitSucceeds
           \/ CommitFails \/ AfterCommit
  <2>1. pcW \notin {"exec", "retry", "retrySent"}
    BY <1>4 DEF Top, Begin, Full, TakeCanceled, Take, Reopen, Commit, CommitSucceeds, CommitFails,
       AfterCommit
  <2> QED BY <2>1 DEF InHand
<1> QED BY <1>1, <1>2, <1>3, <1>4, ElsewhereFrame, StepSplit DEF Passing, Effects

(* What a statement on the chunk in hand leaves of it. *)
LEMMA LeavesFew ==
  ASSUME TypeOK, Held, Replayed, Covered, [Next]_vars, ExecSucceeds \/ RetryExec \/ RetrySucceeds
  PROVE  Cardinality({id \in OldIds \cap Covers(chunk) : ~Reached(id)'})
           <= Cardinality(inserted \cap Covers(chunk))
<1>1. CASE ExecSucceeds \/ RetryExec
  <2>1. InHand /\ applied' = applied /\ (RetryExec => pcW = "retry")
        /\ \E S \in Hits(chunk) : txRows' = txRows \cup S \/ (RetryExec /\ txRows' = S)
    BY <1>1 DEF ExecSucceeds, RetryExec, InHand, table
  <2>2. RetryExec => txRows = {}
    BY <2>1 DEF Replayed
  <2>3. PICK S \in Hits(chunk) : txRows' = txRows \cup S
    BY <2>1, <2>2
  <2>4. {id \in OldIds \cap Covers(chunk) : ~Reached(id)'}
          = {id \in OldIds \cap Covers(chunk) : ~Reached(id) /\ id \notin S}
    BY <2>1, <2>3 DEF Reached
  <2> QED BY <2>1, <2>4, LeftByLimit
<1>2. CASE RetrySucceeds
  <2>1. pcW = "retrySent" /\ TakesEffect /\ txRows' = {}
    BY <1>2 DEF RetrySucceeds
  <2>2. ASSUME NEW id \in Ids PROVE Reached(id)' <=> Reached(id)
    <3>1. /\ applied[id] \in Nat
          /\ id \in txRows => applied'[id] = applied[id] + 1
          /\ id \notin txRows => applied'[id] = applied[id]
      BY <2>1, EffectOnRow
    <3> QED BY <2>1, <3>1 DEF Reached
  <2>3. {id \in OldIds \cap Covers(chunk) : ~Reached(id)'} = Left(chunk)
    BY <2>2 DEF Left, Covers
  <2> QED BY <2>1, <2>3 DEF Covered
<1> QED BY <1>1, <1>2

LEMMA InsertedIsRows ==
  ASSUME TypeOK
  PROVE  inserted \in SUBSET Ids /\ OldIds \in SUBSET Ids /\ inserted \cap OldIds = {}
BY RangeAssumption, TypeParts DEF OutsideOK, Ids

LEMMA MissedStep ==
  ASSUME TypeOK, TypeOK', Lined, Closed, Held, Followed, Replayed, Covered, Tallied, Ended,
         [Next]_vars, Whole'
  PROVE  Cardinality(Missed') <= Cardinality(Extra')
<1> DEFINE L == {id \in OldIds \cap Covers(chunk) : ~Reached(id)'}
           I == inserted \cap Covers(chunk)
<1>1. /\ inserted \in SUBSET Ids /\ OldIds \in SUBSET Ids /\ inserted \subseteq inserted'
      /\ inserted' \in SUBSET Ids
  <2>1. inserted' \subseteq NewIds
    BY DEF TypeOK
  <2> QED BY <2>1, InsertedIsRows, InsertedGrows DEF Ids
<1>2. /\ Missed \in SUBSET Ids /\ Missed' \in SUBSET Ids /\ Extra \in SUBSET Ids
      /\ Extra' \in SUBSET Ids /\ L \in SUBSET Ids /\ I \in SUBSET Ids
  BY <1>1 DEF Missed, Extra
<1>3. /\ IsFiniteSet(Missed) /\ IsFiniteSet(Missed') /\ IsFiniteSet(Extra) /\ IsFiniteSet(Extra')
      /\ IsFiniteSet(L) /\ IsFiniteSet(I)
      /\ Cardinality(Missed) \in Nat /\ Cardinality(Missed') \in Nat /\ Cardinality(Extra) \in Nat
      /\ Cardinality(Extra') \in Nat /\ Cardinality(L) \in Nat /\ Cardinality(I) \in Nat
  BY <1>2, Finite
<1>4. Cardinality(Missed) <= Cardinality(Extra)
  BY WholeStays DEF Covered
<1>5. Extra \subseteq Extra'
  BY <1>1, PassedStays DEF Extra
<1>6. ASSUME NEW id \in Missed'
      PROVE  id \in Missed \/ (InHand /\ ~InHand' /\ id \in L)
  <2>1. id \in OldIds /\ id \in Ids /\ Passed(id)' /\ ~Reached(id)'
    BY <1>1 DEF Missed
  <2>2. CASE Passed(id)
    <3>1. CASE Reached(id)
      <4>1. InHand /\ id \in Covers(chunk)
        BY <2>1, <3>1, Forgets
      <4> QED BY <2>2, <4>1 DEF Passed
    <3> QED BY <2>1, <2>2, <3>1 DEF Missed
  <2>3. CASE ~Passed(id)
    <3>1. InHand /\ ~InHand' /\ id \in Covers(chunk)
      BY <2>1, <2>3, PassesWithChunk
    <3> QED BY <2>1, <3>1
  <2> QED BY <2>2, <2>3
<1>7. CASE ~(InHand /\ ~InHand')
  <2>1. Missed' \subseteq Missed
    BY <1>6, <1>7
  <2>2. Cardinality(Missed') <= Cardinality(Missed) /\ Cardinality(Extra) <= Cardinality(Extra')
    BY <1>3, <1>5, <2>1, FS_Subset
  <2> HIDE DEF L, I
  <2> QED BY <1>3, <1>4, <2>2
<1>8. CASE InHand /\ ~InHand'
  <2>1. (ExecSucceeds \/ RetrySucceeds) /\ UNCHANGED <<queue, builder, plan, inserted>>
    BY <1>8, LeavesHand
  <2>2. Cardinality(L) <= Cardinality(I)
    BY <2>1, LeavesFew
  <2>3. Sized(chunk) /\ Behind(chunk[2]) /\ chunk \in Chunk
    BY <1>8 DEF Held, Sized
  <2>4. ASSUME NEW id \in I PROVE id \in Extra' /\ id \notin Extra
    <3>1. id \in Ids /\ id \in Int /\ id <= chunk[2] /\ id \in inserted' /\ id \in Covers(chunk)
      BY <1>1, CursorIsInt DEF Covers
    <3>2. chunk[2] \in Int /\ cursor # NoId /\ cursor \in Int /\ chunk[2] <= cursor
      BY <2>3, CursorIsInt DEF Sized
    <3>3. Line' = Line /\ cursor' = cursor
      BY <2>1 DEF Line, builder
    <3>4. ~PastCursor(id)'
      BY <3>1, <3>2, <3>3 DEF PastCursor
    <3>5. ASSUME NEW i \in 1..Len(Line'), Line'[i] # FIN PROVE id \notin Covers(Line'[i])
      <4>1. i \in 1..Len(Line) /\ Line'[i] = Line[i] /\ Line[i] # FIN /\ Line[i] \in Chunk
        BY <3>3, <3>5, LineElements
      <4>2. chunk[2] < Line[i][1] /\ Line[i][1] \in Int
        BY <2>3, <4>1, CursorIsInt DEF Behind
      <4>3. ~(Line[i][1] <= id)
        BY <3>1, <3>2, <4>2
      <4> QED BY <4>1, <4>3 DEF Covers
    <3>6. Passed(id)'
      BY <1>8, <3>4, <3>5 DEF Passed
    <3> QED BY <1>8, <3>1, <3>6 DEF Extra, Passed
  <2>5. Missed' \subseteq Missed \cup L /\ Extra \cup I \subseteq Extra' /\ Extra \cap I = {}
    BY <1>5, <1>6, <2>4
  <2> HIDE DEF L, I
  <2>6. /\ IsFiniteSet(Missed \cup L) /\ IsFiniteSet(Extra \cup I)
        /\ Cardinality(Missed \cup L) = Cardinality(Missed) + Cardinality(L) - Cardinality(Missed \cap L)
        /\ Cardinality(Extra \cup I) = Cardinality(Extra) + Cardinality(I) - Cardinality(Extra \cap I)
    BY <1>3, FS_Union
  <2>7. Cardinality(Extra \cap I) = 0 /\ Cardinality(Missed \cap L) \in Nat
        /\ Cardinality(Missed \cup L) \in Nat /\ Cardinality(Extra \cup I) \in Nat
    BY <1>3, <2>5, <2>6, FS_EmptySet, FS_Intersection, FS_CardinalityType
  <2>8. Cardinality(Missed') <= Cardinality(Missed \cup L) /\ Cardinality(Extra \cup I) <= Cardinality(Extra')
    BY <1>3, <2>5, <2>6, FS_Subset
  <2> QED BY <1>3, <1>4, <2>2, <2>6, <2>7, <2>8
<1> QED BY <1>7, <1>8

LEMMA CoveredStep ==
  ASSUME TypeOK, TypeOK', Lined, Closed, Held, Followed, Replayed, Covered, Tallied, Ended,
         [Next]_vars
  PROVE  Covered'
<1>1. Whole' => Cardinality(Missed') <= Cardinality(Extra')
  BY MissedStep
<1>2. ASSUME pcW' = "retrySent"
      PROVE  Cardinality(Left(chunk)') <= Cardinality(inserted' \cap Covers(chunk'))
  <2>1. RetryExec \/ UNCHANGED <<table, writer>>
    <3>1. CASE Top \/ Begin \/ Full \/ TakeCanceled \/ Take \/ ExecSucceeds \/ ExecFails
      BY <1>2, <3>1 DEF Top, Begin, Full, TakeCanceled, Take, ExecSucceeds, ExecFails, WriteReturns,
         WriteFails, WriterAt
    <3>2. CASE RetryCanceled \/ RetrySucceeds \/ RetryFails \/ RetryReplyLost \/ Reopen
      BY <1>2, <3>2 DEF RetryCanceled, RetrySucceeds, RetryFails, RetryReplyLost, Reopen, NextAttempt,
         WriteReturns, WriteFails, WriterAt
    <3>3. CASE Commit \/ CommitSucceeds \/ CommitFails \/ AfterCommit
      BY <1>2, <3>3 DEF Commit, CommitSucceeds, CommitFails, AfterCommit, WriteReturns, WriteFails, WriterAt
    <3> QED BY <3>1, <3>2, <3>3, ElsewhereFrame, StepSplit DEF Passing, Effects
  <2>2. chunk' = chunk
    BY <2>1 DEF RetryExec, writer
  <2>3. Left(chunk)' = {id \in OldIds \cap Covers(chunk) : ~Reached(id)'}
    BY <2>2 DEF Left
  <2>4. Cardinality(Left(chunk)') <= Cardinality(inserted \cap Covers(chunk))
    <3>1. CASE RetryExec
      BY <2>3, <3>1, LeavesFew
    <3>2. CASE UNCHANGED <<table, writer>>
      <4>1. UNCHANGED <<applied, txRows, pcW>>
        BY <3>2 DEF table, writer
      <4>2. Left(chunk)' = Left(chunk)
        BY <2>3, <4>1 DEF Left, Reached
      <4> QED BY <1>2, <4>1, <4>2 DEF Covered
    <3> QED BY <2>1, <3>1, <3>2
  <2>5. /\ inserted \cap Covers(chunk) \subseteq inserted' \cap Covers(chunk')
        /\ inserted' \cap Covers(chunk') \in SUBSET Ids /\ Left(chunk)' \in SUBSET Ids
        /\ inserted \cap Covers(chunk) \in SUBSET Ids
    BY <2>2, <2>3, InsertedGrows DEF Covers
  <2>6. /\ IsFiniteSet(inserted' \cap Covers(chunk'))
        /\ Cardinality(inserted \cap Covers(chunk)) <= Cardinality(inserted' \cap Covers(chunk'))
        /\ Cardinality(inserted \cap Covers(chunk)) \in Nat
        /\ Cardinality(inserted' \cap Covers(chunk')) \in Nat /\ Cardinality(Left(chunk)') \in Nat
    BY <2>5, Finite, FS_Subset
  <2> QED BY <2>4, <2>6
<1> QED BY <1>1, <1>2 DEF Covered

-----------------------------------------------------------------------------
(* The invariant holds. *)

LEMMA InitIInv == Init => IInv
<1> SUFFICES ASSUME Init PROVE IInv
  OBVIOUS
<1>1. TypeOK
  BY InitTypeOK
<1>2. /\ queue = <<>> /\ page = <<>> /\ pcP = "fetch" /\ cursor = NoId
      /\ pcW = "top" /\ chunk = FIN /\ txRows = {} /\ rowAffects = 0 /\ counted = 0 /\ finish = FALSE
      /\ errW = "" /\ exit = "" /\ pcR = "both" /\ result = "" /\ canceled = FALSE
      /\ executed = 0 /\ applied = [id \in Ids |-> 0] /\ lost = 0
  BY DEF Init
<1>3. Line = <<>> /\ Len(Line) = 0
  <2>1. Line \in Seq(Chunk \cup {FIN}) /\ Len(Line) = Len(queue) + Len(page)
    BY <1>1, LineIsSeq
  <2>2. Len(queue) = 0 /\ Len(page) = 0
    BY <1>2
  <2>3. Len(Line) = 0
    BY <2>1, <2>2
  <2> QED BY <2>1, <2>3, EmptySeq
<1>4. ~InHand
  BY <1>2 DEF InHand
<1>5. Lined /\ Closed /\ Held
  <2>1. \A i \in 1..Len(Line) : FALSE
    BY <1>3
  <2> QED BY <1>2, <1>4, <2>1 DEF Lined, Closed, Filled, Held
<1>6. Followed
  <2>1. ASSUME NEW id \in Ids PROVE ~Reached(id)
    <3>1. applied[id] = 0 /\ id \notin txRows
      BY <1>2
    <3>2. ~(0 > 0)
      OBVIOUS
    <3> QED BY <3>1, <3>2 DEF Reached
  <2> QED BY <2>1 DEF Followed
<1>7. lost \in Nat /\ Excess \in Nat /\ plan.chunk \in Nat /\ plan.txn \in Int /\ plan.max \in Nat
  BY <1>1, Amounts
<1>8. Replayed
  <2>1. OnlyLostRepliesReplay
    <3> SUFFICES ASSUME NEW id \in Ids
                 PROVE  applied[id] <= (IF plan.stmt = "update" THEN 1 + lost ELSE 1)
      BY DEF OnlyLostRepliesReplay
    <3>1. applied[id] = 0
      BY <1>2
    <3>2. CASE plan.stmt = "update"
      <4>1. 0 <= 1 + lost
        BY <1>7
      <4> QED BY <3>1, <3>2, <4>1
    <3>3. CASE plan.stmt # "update"
      BY <3>1, <3>3
    <3> QED BY <3>2, <3>3
  <2> QED BY <1>2, <2>1 DEF Replayed
<1>9. Covered
  <2>1. Missed = {} /\ Extra = {}
    BY <1>2 DEF Missed, Extra, Passed, PastCursor
  <2>2. Cardinality(Missed) <= Cardinality(Extra)
    <3>1. Cardinality({}) <= Cardinality({})
      BY FS_EmptySet
    <3> QED BY <2>1, <3>1
  <2> QED BY <1>2, <2>2 DEF Covered
<1>10. Tallied
  <2>1. executed <= counted + Excess /\ counted <= executed
    <3>1. 0 <= 0 + Excess /\ 0 <= 0
      BY <1>7
    <3> QED BY <1>2, <3>1
  <2> QED BY <1>2, <2>1 DEF Tallied, InTransaction, CleanExits
<1>11. Limited
  <2>1. Gauge
    <3>1. Limits => 0 <= plan.max - 1
      BY <1>7 DEF Limits
    <3> QED BY <1>2, <3>1 DEF Gauge, InTransaction
  <2>2. OvershootBounded
    <3> SUFFICES ASSUME plan.max > 0, plan.txn > 0
                 PROVE  executed <= (plan.max - 1) + (plan.txn - 1) + plan.chunk * (1 + lost)
      BY DEF OvershootBounded
    <3>1. plan.chunk * (1 + lost) \in Nat
      BY <1>7, Products
    <3>2. plan.max - 1 \in Nat /\ plan.txn - 1 \in Nat
      BY <1>7
    <3>3. \A a, b, c \in Nat : 0 <= a + b + c
      OBVIOUS
    <3> QED BY <1>2, <3>1, <3>2, <3>3
  <2> QED BY <2>1, <2>2 DEF Limited
<1>12. Ended /\ Joined
  BY <1>2 DEF Ended, Joined
<1> QED BY <1>1, <1>5, <1>6, <1>8, <1>9, <1>10, <1>11, <1>12 DEF IInv

LEMMA StepIInv == IInv /\ [Next]_vars => IInv'
<1> SUFFICES ASSUME IInv, [Next]_vars PROVE IInv'
  OBVIOUS
<1>1. /\ TypeOK /\ Lined /\ Closed /\ Held /\ Followed /\ Replayed /\ Covered
      /\ Tallied /\ Limited /\ Ended /\ Joined
  BY DEF IInv
<1>2. Filled /\ Handed
  BY <1>1 DEF Closed, Held, Sized, Handed
<1>3. TypeOK'
  BY <1>1, <1>2, StepTypeOK
<1>4. Lined' /\ Closed' /\ Held' /\ Followed'
  BY <1>1, LinedStep, ClosedStep, HeldStep, FollowedStep
<1>5. Replayed' /\ Covered'
  BY <1>1, <1>3, ReplayedStep, CoveredStep
<1>6. Tallied' /\ Limited'
  BY <1>1, TalliedStep, LimitedStep
<1>7. Ended' /\ Joined'
  BY <1>1, EndedStep, JoinedStep
<1> QED BY <1>3, <1>4, <1>5, <1>6, <1>7 DEF IInv

THEOREM Invariance == Spec => []IInv
<1> QED BY InitIInv, StepIInv, PTL DEF Spec

(* Every variable has its type; the queue never exceeds its capacity. *)
THEOREM Types == Spec => []TypeOK
<1>1. IInv => TypeOK
  BY DEF IInv
<1> QED BY <1>1, Invariance, PTL

(* However chunks, retries, cancellation and inserts interleave, a row that  *)
(* is done is executed again only after a COMMIT whose reply was lost.       *)
THEOREM ReplaysAreLostReplies == Spec => []OnlyLostRepliesReplay
<1>1. IInv => OnlyLostRepliesReplay
  BY DEF IInv, Replayed
<1> QED BY <1>1, Invariance, PTL

(* A run that comes to the end of the table has covered it, but for a row    *)
(* per row inserted meanwhile: no chunk is skipped between two fetches, in   *)
(* the queue or by a transaction that fails.                                 *)
THEOREM CoversTable == Spec => []FinishedCoversTable
<1>1. IInv => FinishedCoversTable
  <2> SUFFICES ASSUME IInv, exit = "exhausted", plan.chunk # 0
               PROVE  Cardinality(Untouched) <= Cardinality(inserted)
    BY DEF FinishedCoversTable
  <2>1. TypeOK /\ Closed /\ Replayed /\ Covered /\ Ended
    BY DEF IInv
  <2>2. pcW = "done"
    BY <2>1 DEF Ended
  <2>3. Line = <<>> /\ \A id \in OldIds : ~PastCursor(id)
    BY <2>1 DEF Closed, Scanned
  <2>4. txRows = {} /\ ~InHand
    BY <2>1, <2>2 DEF Replayed, InHand
  <2>5. \A id \in OldIds : Passed(id)
    <3>1. \A i \in 1..Len(Line) : FALSE
      BY <2>3
    <3> QED BY <2>3, <2>4, <3>1 DEF Passed
  <2>6. Untouched \subseteq Missed
    BY <2>4, <2>5 DEF Untouched, Missed, Reached
  <2>7. Extra \subseteq inserted
    BY DEF Extra
  <2>8. inserted \in SUBSET Ids /\ Missed \in SUBSET Ids /\ Untouched \in SUBSET Ids /\ Extra \in SUBSET Ids
    BY <2>1, <2>7, InsertedIsRows DEF Missed, Untouched
  <2>9. Cardinality(Missed) <= Cardinality(Extra)
    BY <2>1 DEF Covered, Whole
  <2>10. /\ Cardinality(Untouched) <= Cardinality(Missed) /\ Cardinality(Extra) <= Cardinality(inserted)
         /\ Cardinality(Untouched) \in Nat /\ Cardinality(Missed) \in Nat
         /\ Cardinality(Extra) \in Nat /\ Cardinality(inserted) \in Nat
    BY <2>6, <2>7, <2>8, Finite, FS_Subset
  <2> QED BY <2>9, <2>10
<1> QED BY <1>1, Invariance, PTL

(* What a run executes beyond max-rows is less than a transaction and a      *)
(* chunk, and a chunk more for every reply that was lost.                    *)
THEOREM OvershootHolds == Spec => []OvershootBounded
<1>1. IInv => OvershootBounded
  BY DEF IInv, Limited
<1> QED BY <1>1, Invariance, PTL

-----------------------------------------------------------------------------
(* The contract of a ChunkStrategy. *)

LEMMA ContractInit == Init => Contract!Init
<1> SUFFICES ASSUME Init PROVE Contract!Init
  OBVIOUS
<1>1. /\ executed = 0 /\ counted = 0 /\ finish = FALSE /\ stopped = FALSE
      /\ pcR = "both" /\ lost = 0
  BY DEF Init
<1>2. (pcP # "done" \/ pcW # "done") \in BOOLEAN
  OBVIOUS
<1>3. (lost > 0) = FALSE
  <2>1. ~(lost > 0)
    BY <1>1
  <2> QED BY <2>1
<1>4. (IF pcR = "done" THEN result ELSE "") = ""
  BY <1>1
<1> QED BY <1>1, <1>2, <1>3, <1>4 DEF Contract!Init

LEMMA FinishStays == Consuming => finish' = finish \/ finish' = TRUE
<1>1. Top \/ Begin \/ Full \/ TakeCanceled \/ ExecSucceeds \/ ExecFails \/ RetryExec \/ RetryCanceled
        \/ RetrySucceeds => finish' = finish
  BY DEF Top, Begin, Full, TakeCanceled, ExecSucceeds, ExecFails, RetryExec, RetryCanceled, RetrySucceeds
<1>2. RetryFails \/ RetryReplyLost \/ Reopen \/ Commit \/ CommitSucceeds \/ CommitFails => finish' = finish
  BY DEF RetryFails, RetryReplyLost, Reopen, Commit, CommitSucceeds, CommitFails
<1>3. Take \/ AfterCommit => finish' = finish \/ finish' = TRUE
  BY DEF Take, AfterCommit
<1> QED BY <1>1, <1>2, <1>3 DEF Consuming

(* A run that returns nil without having been stopped has marked the writer  *)
(* finished and counted all it committed, unless a reply was lost.           *)
LEMMA CleanReturn ==
  ASSUME IInv, pcW = "done", errW = "nil", ~stopped, result # "error"
  PROVE  finish /\ (lost > 0 \/ counted = executed)
<1>1. TypeOK /\ Tallied /\ Ended
  BY DEF IInv
<1>2. exit \in CleanExits /\ finish
  BY <1>1 DEF Ended
<1>3. counted <= executed /\ executed <= counted + Excess
  BY <1>1, <1>2 DEF Tallied
<1>4. /\ counted \in Nat /\ executed \in Nat /\ lost \in Nat /\ plan.chunk \in Nat
  BY <1>1, Amounts
<1>5. lost = 0 => counted = executed
  <2> SUFFICES ASSUME lost = 0 PROVE counted = executed
    OBVIOUS
  <2>1. Excess = 0
    BY <1>4, Products DEF Excess
  <2> QED BY <1>3, <1>4, <2>1
<1> QED BY <1>2, <1>4, <1>5

LEMMA CommitGrows ==
  ASSUME TypeOK, TypeOK', Tallied', [Next]_vars
  PROVE  Contract!Commit
<1>1. executed \in Nat /\ counted \in Nat /\ executed' \in Nat /\ counted' \in Nat
  BY Amounts DEF TypeOK
<1>2. lost \in Nat /\ lost' \in Nat /\ (lost' = lost \/ lost' = lost + 1)
  BY LostGrows
<1>3. (lost' > 0) = (lost > 0) \/ (lost' > 0) = TRUE
  BY <1>2
<1>4. counted' <= executed'
  BY DEF Tallied
<1>5. executed <= executed' /\ counted <= counted'
  <2>1. CASE Effects
    <3>1. /\ Cardinality(txRows) \in Nat /\ rowAffects \in Nat
          /\ executed' = executed \/ executed' = executed + Cardinality(txRows)
          /\ counted' = counted \/ counted' = counted + rowAffects
      BY <2>1, Amounts, EffectsFrame DEF TakesEffect, table
    <3> QED BY <1>1, <3>1
  <2>2. Passing \/ Take \/ ExecSucceeds \/ RetryExec => executed' = executed /\ counted' = counted
    BY PassingFrame DEF Take, ExecSucceeds, RetryExec, table
  <2>3. UNCHANGED <<table, writer>> => executed' = executed /\ counted' = counted
    BY DEF table, writer
  <2>4. executed' = executed /\ counted' = counted => executed <= executed' /\ counted <= counted'
    BY <1>1
  <2> QED BY <2>1, <2>2, <2>3, <2>4, ElsewhereFrame, StepSplit
<1> QED BY <1>1, <1>3, <1>4, <1>5 DEF Contract!Commit

LEMMA ContractStep == IInv /\ IInv' /\ [Next]_vars => [Contract!Next]_(Contract!vars)
<1> SUFFICES ASSUME IInv, IInv', [Next]_vars PROVE [Contract!Next]_(Contract!vars)
  OBVIOUS
<1>1. TypeOK /\ TypeOK' /\ Tallied' /\ Ended /\ Joined
  BY DEF IInv
<1>2. Contract!Commit
  BY <1>1, CommitGrows
<1>3. CASE Producing \/ Consuming
  <2>1. stopped' = stopped /\ pcR' = pcR /\ pcR # "done" /\ (finish' = finish \/ finish' = TRUE)
    <3>1. CASE Consuming
      <4>1. pcW # "done" /\ pcR' = pcR /\ stopped' = stopped
        BY <1>1, <3>1, WriteEnds DEF runner
      <4> QED BY <1>1, <3>1, <4>1, FinishStays DEF Joined
    <3>2. CASE Producing
      <4>1. pcP # "done" /\ pcR' = pcR /\ stopped' = stopped /\ finish' = finish
        BY <3>2 DEF Producing, Fetch, FetchNothing, FetchFails, Enqueue, ProducerStops, outside, Fault,
           writer, runner
      <4> QED BY <1>1, <4>1 DEF Joined
    <3> QED BY <1>3, <3>1, <3>2
  <2>2. (IF pcR = "done" THEN result ELSE "") = "" /\ (IF pcR' = "done" THEN result' ELSE "") = ""
    BY <2>1
  <2>3. (pcP' # "done" \/ pcW' # "done") \in BOOLEAN
    OBVIOUS
  <2>4. Contract!Work
    BY <1>2, <2>1, <2>2, <2>3 DEF Contract!Work
  <2> QED BY <2>4 DEF Contract!Next
<1>4. CASE Cancel
  <2>1. stopped' = TRUE /\ UNCHANGED <<executed, counted, finish, lost, pcP, pcW, pcR, result>>
    BY <1>4 DEF Cancel, table, writer, builder, runner
  <2>2. Contract!Stop
    BY <2>1 DEF Contract!Stop
  <2> QED BY <2>2 DEF Contract!Next
<1>5. CASE (\E id \in NewIds : Insert(id)) \/ UNCHANGED vars
  <2>1. UNCHANGED <<executed, counted, finish, lost, stopped, pcP, pcW, pcR, result>>
    BY <1>5 DEF Insert, vars, table, writer, builder, runner, outside
  <2> QED BY <2>1 DEF Contract!vars
<1>6. CASE TakesProducer \/ (TakesWriter /\ pcR = "both")
  <2>1. UNCHANGED <<executed, counted, finish, lost, stopped, pcP, pcW>> /\ pcR = "both" /\ pcR' # "done"
    BY <1>6 DEF TakesProducer, TakesWriter, table, writer, builder
  <2>2. (IF pcR' = "done" THEN result' ELSE "") = (IF pcR = "done" THEN result ELSE "")
    BY <2>1
  <2> QED BY <2>1, <2>2 DEF Contract!vars
<1>7. CASE Drained \/ (TakesWriter /\ pcR = "writerOnly")
  <2>1. /\ UNCHANGED <<executed, counted, finish, lost, stopped, pcP, pcW>>
        /\ pcR # "done" /\ pcR' = "done" /\ pcP = "done" /\ pcW = "done"
        /\ result' = "error" \/ (result' = errW /\ result # "error")
    <3>1. CASE TakesWriter /\ pcR = "writerOnly"
      BY <1>1, <3>1 DEF TakesWriter, Joined, table, writer, builder
    <3>2. CASE Drained
      <4>1. /\ UNCHANGED <<executed, counted, finish, lost, stopped, pcP, pcW, result>> /\ pcR' = "done"
            /\ \/ pcR = "drainWriter" /\ pcW = "done"
               \/ pcR = "drainProducer" /\ pcP = "done"
        BY <3>2 DEF Drained, table, writer, builder, outside
      <4> QED BY <1>1, <4>1 DEF Joined
    <3> QED BY <1>7, <3>1, <3>2
  <2>2. errW \in {"nil", "error"}
    BY <1>1, <2>1 DEF Ended
  <2>3. result' \in {"nil", "error"}
    BY <2>1, <2>2
  <2>4. result' = "nil" /\ ~stopped => finish /\ (lost > 0 \/ counted = executed)
    BY <2>1, CleanReturn
  <2>5. ~(pcP' # "done" \/ pcW' # "done")
    BY <2>1
  <2>6. Contract!Return
    BY <2>1, <2>3, <2>4, <2>5 DEF Contract!Return
  <2> QED BY <2>6 DEF Contract!Next
<1>8. TakesWriter => pcR = "both" \/ pcR = "writerOnly"
  BY DEF TakesWriter
<1> QED BY <1>3, <1>4, <1>5, <1>6, <1>7, <1>8 DEF Next, Running

(* Run keeps the contract that task.Execute relies on: what it counts is     *)
(* committed, it returns with both goroutines, and after a nil that nobody   *)
(* asked for the writer is marked finished and, but for lost replies, all    *)
(* that is committed is counted.                                             *)
THEOREM KeepsContract == Spec => ImplementsChunkRun
<1>1. Init => Contract!Init
  BY ContractInit
<1>2. IInv /\ IInv' /\ [Next]_vars => [Contract!Next]_(Contract!vars)
  BY ContractStep
<1> QED BY <1>1, <1>2, Invariance, PTL DEF Spec, ImplementsChunkRun, Contract!Spec
=============================================================================
