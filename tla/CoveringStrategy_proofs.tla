----------------------- MODULE CoveringStrategy_proofs -----------------------
(***************************************************************************)
(* Proofs about CoveringStrategy, for every table, every set of rows that  *)
(* other clients write, every plan and every number of failures, lost      *)
(* replies and lag signals.                                                *)
(*                                                                         *)
(* The inductive invariant IInv has one part per subject.  Staged: the two *)
(* goroutines start and end together.  Sized: no page exceeds chunk-size.  *)
(* Stored: what the table says of the rows that are deleted, hit or nobody *)
(* else's.  Known: rows match because they did at the start or others      *)
(* wrote them, and the producer's cursor is at such a row.  Tallied: what  *)
(* is deleted is counted, about to be, or was deleted by an attempt that   *)
(* lost its reply.  Limited: the guardrail was not passed before the last  *)
(* batch.  Progress: no row that the run owes is left behind the           *)
(* producer's cursor but on its way to the consumer.                       *)
(***************************************************************************)
EXTENDS CoveringStrategy, PageLemmas, SequenceTheorems

(* Run is in its loop; it has a batch in hand. *)
Looping == pcC \in {"start", "receive", "rate", "delete", "sent", "account"}
Holding == pcC \in {"rate", "delete", "sent"}

Staged ==
  /\ pcC = "start" => pcP = "off"
  /\ pcC = "done" => pcP \in {"off", "done"}
  /\ pcP = "off" => pageCursor = 0
  /\ pcC # "done" => result = "" /\ finished = FALSE
  /\ Looping => ending = ""
  /\ ending = "drained" => pcP = "done" /\ chan = <<>> /\ pcC \in {"join", "done"}
  /\ result = "nil" /\ ending = "drained" => ~producerErr

Sized ==
  /\ Cardinality(page) <= plan.chunk /\ Cardinality(batch) <= plan.chunk
  /\ chan # <<>> => Cardinality(Head(chan)) <= plan.chunk

Stored ==
  /\ \A row \in deleted : table[row] = "absent"
  /\ \A row \in hit : table[row] = "match"
  /\ \A row \in Left : table[row] = "match"
  /\ pcC # "sent" => hit = {}

Known ==
  /\ pageCursor \in {0} \cup OldRows \cup touched
  /\ \A row \in Rows : table[row] = "match" => row \in OldRows \cup touched

(* The rows of a committed batch that Run has not counted yet. *)
Pending == IF pcC = "account" THEN affected ELSE 0

Tallied ==
  /\ counted + Pending <= Cardinality(deleted)
  /\ Cardinality(deleted) <= counted + Pending + plan.chunk * lost

Limited ==
  plan.max > 0 => /\ counted <= plan.max - 1 + plan.chunk
                  /\ Looping => counted <= plan.max - 1

Unhindered == ~canceled /\ ~producerErr

(* The rows the run owes, and those that will reach the DELETE. *)
Owed == {row \in Left : row \notin plan.noKey /\ ~Hidden(row)}
OnTheWay(row) == (chan # <<>> /\ row \in Head(chan)) \/ (Holding /\ row \in batch)

Followed(row) ==
  /\ pcC = "sent" /\ row \in batch => row \in hit
  /\ pcP = "select" /\ plan.cursor /\ row <= pageCursor => OnTheWay(row)
  /\ pcP = "send" /\ (Cardinality(page) < plan.chunk \/ (plan.cursor /\ row <= pageCursor))
       => OnTheWay(row) \/ row \in page
  /\ pcP = "done" => OnTheWay(row)

Progress == Unhindered => \A row \in Owed : Followed(row)

IInv ==
  /\ TypeOK
  /\ Staged /\ Sized /\ Stored /\ Known
  /\ Tallied /\ Limited
  /\ Progress

-----------------------------------------------------------------------------
(* Lemmas about rows, pages and the channel.                                 *)

LEMMA RowsFinite ==
  /\ IsFiniteSet(Rows)
  /\ \A S \in SUBSET Rows : IsFiniteSet(S) /\ Cardinality(S) \in Nat
BY CoveringAssumption, FS_Subset, FS_CardinalityType

LEMMA PlanFields ==
  ASSUME plan \in Plans
  PROVE  /\ plan.chunk \in Nat \ {0} /\ plan.max \in Nat /\ plan.cursor \in BOOLEAN
         /\ plan.tied \in [Rows -> Rows] /\ plan.noKey \in SUBSET Rows
<1>1. plan \in PlanType
  BY CoveringAssumption
<1>2. /\ plan.chunk \in Nat \ {0} /\ plan.max \in Nat /\ plan.cursor \in BOOLEAN
      /\ plan.tied \in Ties /\ plan.noKey \in SUBSET Rows
  BY <1>1 DEF PlanType
<1> QED BY <1>2 DEF Ties

(* A page is at most n of the rows, the first ones, and all if it is short. *)
LEMMA PageFacts ==
  ASSUME NEW S \in SUBSET Rows, NEW n \in Nat
  PROVE  /\ FirstN(S, n) \subseteq S
         /\ Cardinality(FirstN(S, n)) \in Nat /\ Cardinality(FirstN(S, n)) <= n
         /\ FirstN(S, n) = S \/ Cardinality(FirstN(S, n)) = n
         /\ \A x \in FirstN(S, n), y \in S : y <= x => y \in FirstN(S, n)
<1> DEFINE K == [row \in S |-> row]
<1>1. IsFiniteSet(S)
  BY RowsFinite
<1>2. K \in [S -> Int]
  BY CoveringAssumption
<1>3. \A x \in S : K[x] = x
  OBVIOUS
<1> HIDE DEF K
<1>4. FirstN(S, n) = FirstRows(S, K, n)
  <2>1. \A x \in S : RowsBefore(S, K, x) = {y \in S : y < x}
    BY <1>3 DEF RowsBefore
  <2> QED BY <2>1 DEF FirstN, FirstRows
<1>5. \A x \in FirstRows(S, K, n), y \in S : K[y] <= K[x] => y \in FirstRows(S, K, n)
  BY <1>1, <1>2, PageIsPrefix
<1>6. /\ FirstRows(S, K, n) \subseteq S
      /\ Cardinality(FirstRows(S, K, n)) \in Nat /\ Cardinality(FirstRows(S, K, n)) <= n
  BY <1>1, <1>2, <1>3, PageBound
<1>7. FirstRows(S, K, n) = S \/ Cardinality(FirstRows(S, K, n)) = n
  BY <1>1, <1>2, <1>3, PageIsWhole
<1> QED BY <1>3, <1>4, <1>5, <1>6, <1>7

LEMMA LastRow ==
  ASSUME NEW S \in SUBSET Rows, S # {}
  PROVE  Max(S) \in S /\ \A row \in S : row <= Max(S)
<1>1. IsFiniteSet(S) /\ S \subseteq Int
  BY RowsFinite, CoveringAssumption
<1>2. \E x \in S : \A y \in S : x >= y
  BY <1>1, MaxExists
<1>3. Max(S) \in S /\ \A y \in S : Max(S) >= y
  BY <1>2 DEF Max
<1> QED BY <1>1, <1>3

LEMMA ChannelOfOne ==
  ASSUME NEW c \in Seq(SUBSET Rows), Len(c) <= 1, c # <<>>
  PROVE  Head(c) \in SUBSET Rows /\ Tail(c) = <<>>
<1>1. /\ Head(c) \in SUBSET Rows
      /\ Tail(c) \in Seq(SUBSET Rows) /\ Len(Tail(c)) = Len(c) - 1
  BY HeadTailProperties
<1>2. Len(c) \in Nat /\ Len(c) # 0
  BY LenProperties, EmptySeq
<1>3. Len(Tail(c)) = 0
  BY <1>1, <1>2
<1> QED BY <1>1, <1>3, EmptySeq

LEMMA PutOne ==
  ASSUME NEW S \in SUBSET Rows
  PROVE  /\ <<S>> \in Seq(SUBSET Rows) /\ Len(<<S>>) = 1
         /\ <<S>> # <<>> /\ Head(<<S>>) = S
OBVIOUS

-----------------------------------------------------------------------------
(* What the helpers leave alone.                                             *)

LEMMA RetryFacts ==
  ASSUME Retry
  PROVE  /\ hit' = {}
         /\ \/ pcC' = "join" /\ ending' = "error" /\ canceled' /\ attempt' = attempt
            \/ /\ pcC' = "delete" /\ UNCHANGED <<ending, canceled>>
               /\ attempt < MaxAttempts /\ attempt' = attempt + 1
BY DEF Retry, Leave, Goto

(* The producer's steps, as the rest of the state sees them. *)
LEMMA ProducerFrame ==
  ASSUME Producing
  PROVE  /\ UNCHANGED <<plan, table, deleted, touched, consumer, writer, result, context, lost>>
         /\ pcP \in {"select", "send"} /\ pcP' \in {"select", "send", "done"}
BY DEF Producing, Select, SelectFails, Send, ProducerStops, Fault, db, bounds

LEMMA InitTypeOK == Init => TypeOK
<1> SUFFICES ASSUME Init PROVE TypeOK
  OBVIOUS
<1>1. /\ table \in [Rows -> TableState] /\ pcP \in ProducerState /\ pcC \in ConsumerState
      /\ ending \in Ending /\ result \in Result
  BY DEF Init, TableState, ProducerState, ConsumerState, Ending, Result
<1>2. chan \in Seq(SUBSET Rows) /\ Len(chan) <= 1
  <2>1. chan = <<>>
    BY DEF Init
  <2> QED BY <2>1, EmptySeq
<1>3. /\ attempt \in 0..MaxAttempts
      /\ faults \in 0..MaxFaults /\ lost \in 0..MaxLost /\ lags \in 0..MaxLags
  <2>1. attempt = 0 /\ faults = 0 /\ lost = 0 /\ lags = 0
    BY DEF Init
  <2> QED BY <2>1, CoveringAssumption
<1>4. affected \in 0..plan.chunk
  <2>1. affected = 0 /\ plan \in Plans
    BY DEF Init
  <2>2. plan.chunk \in Nat
    BY <2>1, PlanFields
  <2> QED BY <2>1, <2>2
<1> QED BY <1>1, <1>2, <1>3, <1>4 DEF Init, TypeOK

LEMMA CandidateFacts ==
  ASSUME TypeOK
  PROVE  /\ Candidates \in SUBSET Rows /\ Candidates \subseteq Matching
         /\ Cardinality(Candidates) <= plan.chunk
         /\ Candidates # {} => Max(Candidates) \in Rows
<1> DEFINE S == {row \in Matching : PastCursor(row)}
<1>1. S \in SUBSET Rows /\ S \subseteq Matching
  BY DEF Matching
<1>2. plan.chunk \in Nat
  BY PlanFields DEF TypeOK
<1>3. Candidates = FirstN(S, plan.chunk)
  BY DEF Candidates
<1> HIDE DEF S
<1>4. Candidates \subseteq S /\ Cardinality(Candidates) <= plan.chunk
  BY <1>1, <1>2, <1>3, PageFacts
<1>5. Candidates \in SUBSET Rows
  BY <1>1, <1>4
<1> QED BY <1>1, <1>4, <1>5, LastRow

LEMMA ProducerTypeOK == TypeOK /\ Producing => TypeOK'
<1> SUFFICES ASSUME TypeOK, Producing PROVE TypeOK'
  OBVIOUS
<1> USE DEF TypeOK, db, producer, consumer, writer, context, bounds
<1>1. CASE Select
  BY <1>1, CandidateFacts DEF Select, ProducerState
<1>2. CASE SelectFails
  <2>1. faults' \in 0..MaxFaults
    BY <1>2, CoveringAssumption DEF SelectFails, Fault
  <2> QED BY <1>2, <2>1 DEF SelectFails, Fault, ProducerState
<1>3. CASE Send
  <2>1. chan' \in Seq(SUBSET Rows) /\ Len(chan') <= 1
    BY <1>3, PutOne DEF Send
  <2>2. pcP' \in ProducerState
    BY <1>3 DEF Send, ProducerState
  <2> QED BY <1>3, <2>1, <2>2 DEF Send
<1>4. CASE ProducerStops
  BY <1>4 DEF ProducerStops, ProducerState
<1> QED BY <1>1, <1>2, <1>3, <1>4 DEF Producing

LEMMA HitSize ==
  ASSUME TypeOK, Sized
  PROVE  /\ Cardinality(hit) \in Nat /\ IsFiniteSet(hit) /\ Cardinality(hit) <= plan.chunk
<1>1. hit \subseteq batch /\ batch \in SUBSET Rows /\ hit \in SUBSET Rows
  BY DEF TypeOK
<1>2. Cardinality(hit) <= Cardinality(batch) /\ Cardinality(hit) \in Nat /\ Cardinality(batch) \in Nat
  BY <1>1, RowsFinite, FS_Subset
<1>3. plan.chunk \in Nat
  BY PlanFields DEF TypeOK
<1> QED BY <1>1, <1>2, <1>3, RowsFinite DEF Sized

LEMMA ConsumerTypeOK == TypeOK /\ Sized /\ Stored /\ Consuming => TypeOK'
<1> SUFFICES ASSUME TypeOK, Sized, Stored, Consuming PROVE TypeOK'
  OBVIOUS
<1> USE DEF TypeOK, db, producer, consumer, writer, context, bounds, Goto, Leave
<1>1. CASE Start \/ NotApplicable
  BY <1>1 DEF Start, NotApplicable, ProducerState, ConsumerState, Result
<1>2. CASE Receive
  <2>1. Head(chan) \in SUBSET Rows /\ Tail(chan) = <<>>
    BY <1>2, ChannelOfOne DEF Receive
  <2>2. chan' \in Seq(SUBSET Rows) /\ Len(chan') <= 1
    BY <1>2, <2>1 DEF Receive
  <2>3. batch' \in SUBSET Rows /\ hit' \subseteq batch'
    BY <1>2, <2>1 DEF Receive, Stored
  <2> QED BY <1>2, <2>2, <2>3 DEF Receive, ConsumerState
<1>3. CASE Drain
  BY <1>3 DEF Drain, ConsumerState, Ending
<1>4. CASE TakeSignal
  <2>1. lags' \in 0..MaxLags
    BY <1>4, CoveringAssumption DEF TakeSignal
  <2>2. pcC' \in ConsumerState /\ ending' \in Ending /\ canceled' \in BOOLEAN
    BY <1>4 DEF TakeSignal, ConsumerState, Ending
  <2> QED BY <1>4, <2>1, <2>2 DEF TakeSignal
<1>5. CASE PassRate
  <2>1. attempt' \in 0..MaxAttempts
    BY <1>5, CoveringAssumption DEF PassRate
  <2>2. pcC' \in ConsumerState /\ ending' \in Ending /\ canceled' \in BOOLEAN
    BY <1>5 DEF PassRate, ConsumerState, Ending
  <2> QED BY <1>5, <2>1, <2>2 DEF PassRate
<1>6. CASE Exec \/ ExecCanceled
  BY <1>6 DEF Exec, ExecCanceled, ConsumerState, Ending
<1>7. CASE AttemptFails \/ ReplyLost
  <2>1. Retry
    BY <1>7 DEF AttemptFails, ReplyLost
  <2>2. attempt' \in 0..MaxAttempts
    <3>1. attempt \in 0..MaxAttempts /\ MaxAttempts \in Nat
      BY CoveringAssumption
    <3> QED BY <2>1, <3>1, RetryFacts
  <2>3. pcC' \in ConsumerState /\ ending' \in Ending /\ canceled' \in BOOLEAN /\ hit' = {}
    BY <2>1, RetryFacts DEF ConsumerState, Ending
  <2>4. faults' \in 0..MaxFaults /\ lost' \in 0..MaxLost /\ lags' = lags
    BY <1>7, CoveringAssumption DEF AttemptFails, ReplyLost, Fault
  <2>5. table' \in [Rows -> TableState] /\ deleted' \subseteq Rows /\ touched' = touched
    BY <1>7 DEF AttemptFails, ReplyLost, CommitHit, TableState
  <2>6. UNCHANGED <<plan, chan, producer, batch, affected, writer, result, stopped>>
    BY <1>7 DEF AttemptFails, ReplyLost
  <2> QED BY <2>2, <2>3, <2>4, <2>5, <2>6
<1>8. CASE AttemptSucceeds
  <2>1. affected' \in 0..plan.chunk
    <3>1. Cardinality(hit) \in Nat /\ Cardinality(hit) <= plan.chunk /\ plan.chunk \in Nat
      BY HitSize, PlanFields
    <3>2. affected' = Cardinality(hit) /\ plan' = plan
      BY <1>8 DEF AttemptSucceeds
    <3> QED BY <3>1, <3>2
  <2>2. table' \in [Rows -> TableState] /\ deleted' \subseteq Rows
    BY <1>8 DEF AttemptSucceeds, CommitHit, TableState
  <2> QED BY <1>8, <2>1, <2>2, CoveringAssumption DEF AttemptSucceeds, CommitHit, ConsumerState
<1>9. CASE Account
  <2>1. counted' \in Nat
    BY <1>9 DEF Account
  <2>2. pcC' \in ConsumerState /\ ending' \in Ending /\ canceled' \in BOOLEAN
    BY <1>9 DEF Account, ConsumerState, Ending
  <2> QED BY <1>9, <2>1, <2>2 DEF Account
<1>10. CASE Join
  BY <1>10 DEF Join, Returns, ConsumerState, Result
<1> QED BY <1>1, <1>2, <1>3, <1>4, <1>5, <1>6, <1>7, <1>8, <1>9, <1>10 DEF Consuming

LEMMA StepTypeOK == TypeOK /\ Sized /\ Stored /\ [Next]_vars => TypeOK'
<1> SUFFICES ASSUME TypeOK, Sized, Stored, [Next]_vars PROVE TypeOK'
  OBVIOUS
<1>1. CASE Cancel
  BY <1>1 DEF Cancel, TypeOK, db, producer, consumer, writer, bounds
<1>2. ASSUME NEW row \in Rows, NEW value \in TableState, OtherClientWrites(row, value)
      PROVE  TypeOK'
  BY <1>2 DEF OtherClientWrites, TypeOK, producer, consumer, writer, context, bounds
<1>3. CASE UNCHANGED vars
  BY <1>3 DEF vars, TypeOK, db, producer, consumer, writer, context, bounds
<1> QED BY <1>1, <1>2, <1>3, ProducerTypeOK, ConsumerTypeOK DEF Next

-----------------------------------------------------------------------------
(* Control, pages and the table.                                             *)

Environment ==
  Cancel \/ UNCHANGED vars
    \/ \E row \in Rows, value \in TableState : OtherClientWrites(row, value)

LEMMA EnvironmentFrame ==
  ASSUME Environment
  PROVE  /\ UNCHANGED <<plan, chan, producer, consumer, writer, deleted, result, lost>>
         /\ touched \subseteq touched' /\ (canceled => canceled')
<1>1. CASE Cancel
  BY <1>1 DEF Cancel, db, bounds
<1>2. ASSUME NEW row \in Rows, NEW value \in TableState, OtherClientWrites(row, value)
      PROVE  /\ UNCHANGED <<plan, chan, producer, consumer, writer, deleted, result, lost>>
             /\ touched' = touched \cup {row} /\ canceled' = canceled
  BY <1>2 DEF OtherClientWrites, context, bounds
<1>3. CASE UNCHANGED vars
  BY <1>3 DEF vars, db, context, bounds
<1> QED BY <1>1, <1>2, <1>3 DEF Environment

LEMMA StepSplit == [Next]_vars => Producing \/ Consuming \/ Environment
BY DEF Next, Environment

LEMMA StepStaged == TypeOK /\ Staged /\ [Next]_vars => Staged'
<1> SUFFICES ASSUME TypeOK, Staged, [Next]_vars PROVE Staged'
  OBVIOUS
<1> USE DEF consumer, writer
<1>1. CASE Producing
  <2>1. /\ UNCHANGED <<pcC, ending, result, finished>>
        /\ pcP \in {"select", "send"} /\ pcP' \in {"select", "send", "done"}
    BY <1>1, ProducerFrame
  <2>2. pcC \notin {"start", "done"} /\ ending # "drained"
    BY <2>1 DEF Staged
  <2>3. pcC # "done" => result = "" /\ finished = FALSE
    BY DEF Staged
  <2>4. Looping' => ending' = ""
    BY <2>1 DEF Staged, Looping
  <2> QED BY <2>1, <2>2, <2>3, <2>4 DEF Staged
<1>2. CASE Environment
  <2>1. UNCHANGED <<chan, pcP, pageCursor, producerErr, pcC, ending, result, finished>>
    BY <1>2, EnvironmentFrame DEF producer
  <2> QED BY <2>1 DEF Staged, Looping
<1>3. CASE Start \/ NotApplicable
  <2>1. /\ UNCHANGED <<pageCursor, ending, finished>> /\ pcC = "start"
        /\ \/ pcC' = "receive" /\ pcP' = "select" /\ result' = result
           \/ pcC' = "done" /\ pcP' = pcP /\ result' = "error"
    BY <1>3 DEF Start, NotApplicable, producer
  <2>2. pcP = "off" /\ ending = "" /\ result = "" /\ finished = FALSE /\ pageCursor = 0
    BY <2>1 DEF Staged, Looping
  <2> QED BY <2>1, <2>2 DEF Staged, Looping
<1>4. CASE Receive \/ Drain
  <2>1. /\ UNCHANGED <<pcP, pageCursor, producerErr, result, finished>>
        /\ pcC = "receive" /\ ending = ""
        /\ \/ pcC' = "rate" /\ ending' = ending
           \/ pcC' = "join" /\ ending' = "drained" /\ chan' = <<>> /\ pcP = "done"
    BY <1>4 DEF Receive, Drain, Goto, Leave, producer, Staged, Looping
  <2> QED BY <2>1 DEF Staged, Looping
<1>5. CASE TakeSignal \/ PassRate \/ Exec \/ ExecCanceled \/ AttemptFails \/ ReplyLost
           \/ AttemptSucceeds \/ Account
  <2>1. UNCHANGED <<pcP, pageCursor, producerErr, result, finished, chan>>
    BY <1>5 DEF TakeSignal, PassRate, Exec, ExecCanceled, AttemptFails, ReplyLost, AttemptSucceeds,
                Account, producer
  <2>2. pcC \in {"rate", "delete", "sent", "account"}
    BY <1>5 DEF TakeSignal, PassRate, Exec, ExecCanceled, AttemptFails, ReplyLost, AttemptSucceeds,
                Account
  <2>3. \/ pcC' \in {"receive", "rate", "delete", "sent", "account"} /\ ending' = ending
        \/ pcC' = "join" /\ ending' \in {"stop", "error"}
    <3>1. CASE TakeSignal \/ PassRate \/ Exec \/ ExecCanceled
      BY <3>1 DEF TakeSignal, PassRate, Exec, ExecCanceled, Goto, Leave
    <3>2. CASE AttemptFails \/ ReplyLost
      BY <3>2, RetryFacts DEF AttemptFails, ReplyLost
    <3>3. CASE AttemptSucceeds \/ Account
      BY <3>3 DEF AttemptSucceeds, Account, Goto, Leave
    <3> QED BY <1>5, <3>1, <3>2, <3>3
  <2> QED BY <2>1, <2>2, <2>3 DEF Staged, Looping
<1>6. CASE Join
  BY <1>6 DEF Join, Returns, Staged, Looping, producer
<1> QED BY <1>1, <1>2, <1>3, <1>4, <1>5, <1>6, StepSplit DEF Consuming

LEMMA StepSized == TypeOK /\ Sized /\ [Next]_vars => Sized'
<1> SUFFICES ASSUME TypeOK, Sized, [Next]_vars PROVE Sized'
  OBVIOUS
<1> USE DEF producer, consumer
<1>1. CASE Select
  BY <1>1, CandidateFacts DEF Select, Sized
<1>2. CASE Send
  <2>1. chan' = <<page>> /\ Head(<<page>>) = page
    BY <1>2, PutOne DEF Send, TypeOK
  <2> QED BY <1>2, <2>1 DEF Send, Sized
<1>3. CASE SelectFails \/ ProducerStops
  BY <1>3 DEF SelectFails, ProducerStops, Sized
<1>4. CASE Receive
  <2>1. chan' = <<>> /\ batch' = Head(chan) /\ chan # <<>>
    BY <1>4, ChannelOfOne DEF Receive, TypeOK
  <2> QED BY <1>4, <2>1 DEF Receive, Sized
<1>5. ASSUME Consuming, ~Receive PROVE Sized'
  <2>1. UNCHANGED <<plan, page, batch, chan>>
    BY <1>5 DEF Consuming, Start, NotApplicable, Drain, TakeSignal, PassRate, Exec, ExecCanceled,
                AttemptFails, ReplyLost, AttemptSucceeds, Account, Join, Returns
  <2> QED BY <2>1 DEF Sized
<1>6. CASE Environment
  BY <1>6, EnvironmentFrame DEF Sized
<1> QED BY <1>1, <1>2, <1>3, <1>4, <1>5, <1>6, StepSplit DEF Producing

LEMMA StepStored == TypeOK /\ Stored /\ [Next]_vars => Stored'
<1> SUFFICES ASSUME TypeOK, Stored, [Next]_vars PROVE Stored'
  OBVIOUS
<1> USE DEF db, consumer
<1>1. CASE Producing
  BY <1>1, ProducerFrame DEF Stored, Left
<1>2. CASE Exec
  BY <1>2 DEF Exec, Goto, Stored, Left, Matching
<1>3. CASE AttemptFails
  BY <1>3, RetryFacts DEF AttemptFails, Stored, Left
<1>4. CASE ReplyLost \/ AttemptSucceeds
  <2>1. CommitHit /\ hit' = {}
    BY <1>4, RetryFacts DEF ReplyLost, AttemptSucceeds
  <2>2. deleted \in SUBSET Rows /\ hit \in SUBSET Rows /\ Left \subseteq Rows
    BY DEF TypeOK, Left, Rows
  <2> QED BY <2>1, <2>2 DEF CommitHit, Stored, Left
<1>5. ASSUME Consuming, ~Exec, ~AttemptFails, ~ReplyLost, ~AttemptSucceeds PROVE Stored'
  <2>1. UNCHANGED <<table, deleted, touched, hit>>
    BY <1>5 DEF Consuming, Start, NotApplicable, Receive, Drain, TakeSignal, PassRate, ExecCanceled,
                Account, Join, Returns
  <2>2. pcC # "sent"
    BY <1>5 DEF Consuming, Start, NotApplicable, Receive, Drain, TakeSignal, PassRate, ExecCanceled,
                Account, Join, Returns
  <2> QED BY <2>1, <2>2 DEF Stored, Left
<1>6. ASSUME NEW row \in Rows, NEW value \in TableState, OtherClientWrites(row, value)
      PROVE  Stored'
  <2>1. /\ row \notin deleted \cup hit /\ UNCHANGED <<deleted, hit, pcC>>
        /\ table' = [table EXCEPT ![row] = value] /\ touched' = touched \cup {row}
    BY <1>6 DEF OtherClientWrites
  <2>2. \A r \in Rows : r # row => table'[r] = table[r]
    BY <2>1 DEF TypeOK
  <2>3. deleted \in SUBSET Rows /\ hit \in SUBSET Rows /\ Left \subseteq Rows
    BY DEF TypeOK, Left, Rows
  <2> QED BY <2>1, <2>2, <2>3 DEF Stored, Left
<1>7. CASE Cancel \/ UNCHANGED vars
  BY <1>7 DEF Cancel, vars, Stored, Left
<1> QED BY <1>1, <1>2, <1>3, <1>4, <1>5, <1>6, <1>7 DEF Next

LEMMA StepKnown == TypeOK /\ Known /\ [Next]_vars => Known'
<1> SUFFICES ASSUME TypeOK, Known, [Next]_vars PROVE Known'
  OBVIOUS
<1> USE DEF db, producer, consumer
<1>1. CASE Producing
  <2>1. UNCHANGED <<table, touched>>
    BY <1>1, ProducerFrame
  <2>2. pageCursor' \in {0} \cup OldRows \cup touched
    <3>1. CASE Select /\ Candidates # {}
      <4>1. Candidates \in SUBSET Rows /\ Candidates \subseteq Matching
        BY CandidateFacts
      <4>2. Max(Candidates) \in Candidates
        BY <3>1, <4>1, LastRow
      <4>3. pageCursor' \in Matching
        BY <3>1, <4>1, <4>2 DEF Select
      <4> QED BY <4>3 DEF Matching, Known
    <3>2. CASE ~(Select /\ Candidates # {})
      <4>1. pageCursor' = pageCursor
        BY <1>1, <3>2 DEF Producing, Select, SelectFails, Send, ProducerStops
      <4> QED BY <4>1 DEF Known
    <3> QED BY <3>1, <3>2
  <2> QED BY <2>1, <2>2 DEF Known
<1>2. CASE Consuming
  <2>1. pageCursor' = pageCursor /\ touched' = touched
    BY <1>2 DEF Consuming, Start, NotApplicable, Receive, Drain, TakeSignal, PassRate, Exec,
       ExecCanceled, AttemptFails, ReplyLost, AttemptSucceeds, Account, Join, Returns, CommitHit
  <2>2. \A row \in Rows : table'[row] = "match" => table[row] = "match"
    BY <1>2 DEF Consuming, Start, NotApplicable, Receive, Drain, TakeSignal, PassRate, Exec,
       ExecCanceled, AttemptFails, ReplyLost, AttemptSucceeds, Account, Join, Returns, CommitHit
  <2> QED BY <2>1, <2>2 DEF Known
<1>3. ASSUME NEW row \in Rows, NEW value \in TableState, OtherClientWrites(row, value)
      PROVE  Known'
  <2>1. /\ pageCursor' = pageCursor /\ touched' = touched \cup {row}
        /\ table' = [table EXCEPT ![row] = value]
    BY <1>3 DEF OtherClientWrites
  <2>2. \A r \in Rows : r # row => table'[r] = table[r]
    BY <2>1 DEF TypeOK
  <2> QED BY <2>1, <2>2 DEF Known
<1>4. CASE Cancel \/ UNCHANGED vars
  BY <1>4 DEF Cancel, vars, Known
<1> QED BY <1>1, <1>2, <1>3, <1>4 DEF Next

-----------------------------------------------------------------------------
(* What is deleted and what is counted.                                      *)

LEMMA CommitCount ==
  ASSUME TypeOK, Sized, Stored, CommitHit
  PROVE  /\ Cardinality(deleted') = Cardinality(deleted) + Cardinality(hit)
         /\ Cardinality(deleted) \in Nat /\ Cardinality(hit) \in Nat
         /\ Cardinality(hit) <= plan.chunk
<1>1. deleted \in SUBSET Rows /\ hit \in SUBSET Rows
  BY DEF TypeOK
<1>2. /\ IsFiniteSet(deleted) /\ IsFiniteSet(hit)
      /\ Cardinality(deleted) \in Nat /\ Cardinality(hit) \in Nat /\ Cardinality(hit) <= plan.chunk
  BY <1>1, RowsFinite, HitSize
<1>3. deleted \cap hit = {}
  BY DEF Stored
<1>4. Cardinality(deleted \cap hit) = 0
  BY <1>3, FS_EmptySet
<1>5. Cardinality(deleted \cup hit) = Cardinality(deleted) + Cardinality(hit) - Cardinality(deleted \cap hit)
  BY <1>2, FS_Union
<1>6. Cardinality(deleted \cup hit) = Cardinality(deleted) + Cardinality(hit)
  BY <1>2, <1>4, <1>5
<1> QED BY <1>2, <1>6 DEF CommitHit

LEMMA Numbers ==
  ASSUME TypeOK
  PROVE  /\ plan.chunk \in Nat \ {0} /\ plan.max \in Nat /\ counted \in Nat /\ affected \in Nat
         /\ affected <= plan.chunk /\ lost \in Nat /\ Pending \in Nat
         /\ plan.chunk * lost \in Nat
         /\ plan.chunk * (lost + 1) = plan.chunk * lost + plan.chunk
<1>1. plan.chunk \in Nat \ {0} /\ plan.max \in Nat /\ counted \in Nat
  BY PlanFields DEF TypeOK
<1>2. affected \in 0..plan.chunk /\ lost \in 0..MaxLost
  BY DEF TypeOK
<1>3. /\ affected \in Nat /\ affected <= plan.chunk /\ lost \in Nat
  BY <1>1, <1>2, CoveringAssumption
<1>4. \A a, b \in Nat : a * b \in Nat /\ a * (b + 1) = a * b + a
  OBVIOUS
<1>5. plan.chunk \in Nat
  BY <1>1
<1>6. Pending \in Nat
  BY <1>3 DEF Pending
<1>7. plan.chunk * lost \in Nat /\ plan.chunk * (lost + 1) = plan.chunk * lost + plan.chunk
  BY <1>3, <1>4, <1>5
<1> QED BY <1>1, <1>3, <1>6, <1>7

LEMMA StepTallied == TypeOK /\ Sized /\ Stored /\ Tallied /\ [Next]_vars => Tallied'
<1> SUFFICES ASSUME TypeOK, Sized, Stored, Tallied, [Next]_vars PROVE Tallied'
  OBVIOUS
<1> USE DEF db, producer, consumer, writer, bounds
<1>1. CASE Producing
  BY <1>1, ProducerFrame DEF Tallied, Pending
<1>2. CASE Environment
  BY <1>2, EnvironmentFrame DEF Tallied, Pending
<1>3. CASE ReplyLost
  <2>1. /\ pcC = "sent" /\ pcC' # "account" /\ CommitHit
        /\ lost' = lost + 1 /\ UNCHANGED <<plan, counted>>
    BY <1>3, RetryFacts DEF ReplyLost
  <2>2. Pending = 0 /\ Pending' = 0
    BY <2>1 DEF Pending
  <2>3. /\ Cardinality(deleted') = Cardinality(deleted) + Cardinality(hit)
        /\ Cardinality(deleted) \in Nat /\ Cardinality(hit) \in Nat
        /\ Cardinality(hit) <= plan.chunk
    BY <2>1, CommitCount
  <2>4. plan'.chunk * lost' = plan.chunk * lost + plan.chunk
    BY <2>1, Numbers
  <2>5. plan.chunk \in Nat /\ plan.chunk * lost \in Nat /\ counted \in Nat
    BY Numbers
  <2> QED BY <2>1, <2>2, <2>3, <2>4, <2>5 DEF Tallied
<1>4. CASE AttemptSucceeds
  <2>1. /\ pcC = "sent" /\ pcC' = "account" /\ CommitHit /\ affected' = Cardinality(hit)
        /\ UNCHANGED <<plan, counted, lost>>
    BY <1>4 DEF AttemptSucceeds, Goto
  <2>2. Pending = 0 /\ Pending' = Cardinality(hit)
    BY <2>1 DEF Pending
  <2>3. /\ Cardinality(deleted') = Cardinality(deleted) + Cardinality(hit)
        /\ Cardinality(deleted) \in Nat /\ Cardinality(hit) \in Nat
    BY <2>1, CommitCount
  <2>4. plan.chunk * lost \in Nat /\ counted \in Nat
    BY Numbers
  <2> QED BY <2>1, <2>2, <2>3, <2>4 DEF Tallied
<1>5. CASE Account
  <2>1. /\ pcC = "account" /\ pcC' # "account" /\ counted' = counted + affected
        /\ UNCHANGED <<plan, deleted, lost>>
    BY <1>5 DEF Account, Goto, Leave
  <2>2. Pending = affected /\ Pending' = 0
    BY <2>1 DEF Pending
  <2>3. counted \in Nat /\ affected \in Nat
    BY Numbers
  <2>4. counted' + Pending' = counted + Pending
    BY <2>1, <2>2, <2>3
  <2> QED BY <2>1, <2>4 DEF Tallied
<1>6. ASSUME Consuming, ~ReplyLost, ~AttemptSucceeds, ~Account PROVE Tallied'
  <2>1. /\ UNCHANGED <<plan, deleted, counted, lost>>
        /\ pcC # "account"
    BY <1>6 DEF Consuming, Start, NotApplicable, Receive, Drain, TakeSignal, PassRate, Exec,
                ExecCanceled, AttemptFails, Fault, Join, Returns
  <2>2. pcC' # "account"
    BY <1>6, RetryFacts DEF Consuming, Start, NotApplicable, Receive, Drain, TakeSignal, PassRate,
                Exec, ExecCanceled, AttemptFails, Join, Returns, Goto, Leave
  <2> QED BY <2>1, <2>2 DEF Tallied, Pending
<1> QED BY <1>1, <1>2, <1>3, <1>4, <1>5, <1>6, StepSplit

LEMMA StepLimited == TypeOK /\ Limited /\ [Next]_vars => Limited'
<1> SUFFICES ASSUME TypeOK, Limited, [Next]_vars PROVE Limited'
  OBVIOUS
<1> USE DEF consumer, writer
<1>1. CASE Producing \/ Environment
  BY <1>1, ProducerFrame, EnvironmentFrame DEF Limited, Looping
<1>2. CASE Account
  <2>1. /\ pcC = "account" /\ counted' = counted + affected /\ plan' = plan
        /\ Looping' => ~MaxReached
    BY <1>2 DEF Account, Leave, Goto, Looping
  <2>2. /\ plan.max \in Nat /\ plan.chunk \in Nat /\ counted \in Nat /\ affected \in Nat
        /\ affected <= plan.chunk
    BY Numbers
  <2>3. plan.max > 0 => counted <= plan.max - 1
    BY <2>1 DEF Limited, Looping
  <2> QED BY <2>1, <2>2, <2>3 DEF Limited, MaxReached
<1>3. ASSUME Consuming, ~Account PROVE Limited'
  <2>1. UNCHANGED <<plan, counted>>
    BY <1>3 DEF Consuming, Start, NotApplicable, Receive, Drain, TakeSignal, PassRate, Exec,
                ExecCanceled, AttemptFails, ReplyLost, AttemptSucceeds, Join, Returns
  <2>2. Looping \/ ~Looping'
    BY <1>3 DEF Consuming, Start, NotApplicable, Receive, Drain, TakeSignal, PassRate, Exec,
                ExecCanceled, AttemptFails, ReplyLost, AttemptSucceeds, Join, Returns, Looping
  <2> QED BY <2>1, <2>2 DEF Limited
<1> QED BY <1>1, <1>2, <1>3, StepSplit

-----------------------------------------------------------------------------
(* Progress: no row is left behind.                                          *)

(* A row that is owed after a step was owed before it. *)
LEMMA OwedShrinks ==
  ASSUME plan' = plan, deleted \subseteq deleted', touched \subseteq touched'
  PROVE  Owed' \subseteq Owed
BY DEF Owed, Left, Hidden

LEMMA HistoryGrows ==
  ASSUME [Next]_vars
  PROVE  /\ plan' = plan /\ deleted \subseteq deleted' /\ touched \subseteq touched'
         /\ (canceled => canceled') /\ (producerErr => producerErr')
<1>1. CASE Producing
  <2>1. producerErr => producerErr'
    BY <1>1 DEF Producing, Select, SelectFails, Send, ProducerStops
  <2> QED BY <1>1, <2>1, ProducerFrame DEF context
<1>2. CASE Environment
  BY <1>2, EnvironmentFrame DEF producer
<1>3. CASE Consuming
  <2>1. plan' = plan /\ producerErr' = producerErr
    BY <1>3 DEF Consuming, Start, NotApplicable, Receive, Drain, TakeSignal, PassRate, Exec,
       ExecCanceled, AttemptFails, ReplyLost, AttemptSucceeds, Account, Join, Returns, producer
  <2>2. deleted \subseteq deleted' /\ touched' = touched
    BY <1>3 DEF Consuming, Start, NotApplicable, Receive, Drain, TakeSignal, PassRate, Exec,
       ExecCanceled, AttemptFails, ReplyLost, AttemptSucceeds, Account, Join, Returns, db, CommitHit
  <2>3. canceled => canceled'
    BY <1>3, RetryFacts DEF Consuming, Start, NotApplicable, Receive, Drain, TakeSignal, PassRate,
       Exec, ExecCanceled, AttemptFails, ReplyLost, AttemptSucceeds, Account, Join, Returns,
       context, Leave, Goto
  <2> QED BY <2>1, <2>2, <2>3
<1> QED BY <1>1, <1>2, <1>3, StepSplit

(* No cursor hides an owed row behind it, for it is not tied with any row    *)
(* before it at which a page may end.                                        *)
LEMMA OwedIsPast ==
  ASSUME TypeOK, Known, NEW row \in Owed, ~(plan.cursor /\ row <= pageCursor)
  PROVE  PastCursor(row)
<1> SUFFICES ASSUME plan.cursor, pageCursor # 0 PROVE row > plan.tied[pageCursor]
  BY DEF PastCursor
<1>1. row \in Rows /\ ~Hidden(row)
  BY DEF Owed, Left, Rows
<1>2. pageCursor \in OldRows \cup touched /\ pageCursor \in Rows
  BY DEF Known, TypeOK
<1>3. plan.tied[pageCursor] \in Rows
  BY <1>2, PlanFields DEF TypeOK
<1>4. row \in Nat /\ pageCursor \in Nat /\ plan.tied[pageCursor] \in Nat
  BY <1>1, <1>2, <1>3, CoveringAssumption
<1>5. pageCursor < row
  BY <1>4
<1>6. ~(row <= plan.tied[pageCursor])
  BY <1>1, <1>2, <1>5 DEF Hidden
<1> QED BY <1>4, <1>6

(* An owed row that is past the cursor belongs to a page that is short, or   *)
(* that reaches it.                                                          *)
LEMMA PageTakes ==
  ASSUME TypeOK, Stored, Known, NEW row \in Owed, ~(plan.cursor /\ row <= pageCursor),
         \/ Cardinality(Candidates) < plan.chunk
         \/ \E r \in Candidates : row <= r
  PROVE  row \in Candidates
<1> DEFINE S == {r \in Matching : PastCursor(r)}
<1>1. row \in Rows /\ row \in Matching /\ row \in Nat \ {0}
  BY CoveringAssumption DEF Owed, Left, Rows, Stored, Matching
<1>2. plan.chunk \in Nat
  BY PlanFields DEF TypeOK
<1>3. PastCursor(row)
  BY OwedIsPast
<1>4. row \in S /\ S \in SUBSET Rows
  BY <1>1, <1>3 DEF Matching
<1>5. Candidates = FirstN(S, plan.chunk)
  BY DEF Candidates
<1> HIDE DEF S
<1>6. /\ FirstN(S, plan.chunk) = S \/ Cardinality(FirstN(S, plan.chunk)) = plan.chunk
      /\ \A x \in FirstN(S, plan.chunk), y \in S : y <= x => y \in FirstN(S, plan.chunk)
  BY <1>2, <1>4, PageFacts
<1> QED BY <1>2, <1>4, <1>5, <1>6

LEMMA SelectProgress ==
  ASSUME TypeOK, Stored, Known, Progress, Unhindered, Select
  PROVE  Progress'
<1> SUFFICES ASSUME NEW row \in Owed' PROVE Followed(row)'
  BY DEF Progress
<1>1. /\ UNCHANGED <<plan, deleted, touched, chan, pcC, batch, hit>> /\ pcP = "select"
      /\ page' = Candidates
      /\ Candidates = {} => pcP' = "done"
      /\ Candidates # {} => pcP' = "send" /\ pageCursor' = Max(Candidates)
  BY DEF Select, db, consumer
<1>2. row \in Owed
  BY <1>1, OwedShrinks
<1>3. Followed(row) /\ (OnTheWay(row)' <=> OnTheWay(row))
  BY <1>1, <1>2 DEF Progress, OnTheWay, Holding
<1>4. plan.chunk \in Nat \ {0} /\ Candidates \in SUBSET Rows
  BY PlanFields, CandidateFacts DEF TypeOK
<1>5. plan.cursor /\ row <= pageCursor => OnTheWay(row)
  BY <1>1, <1>3 DEF Followed
<1>6. CASE Candidates = {}
  <2>1. Cardinality(Candidates) < plan.chunk
    BY <1>4, <1>6, FS_EmptySet
  <2>2. OnTheWay(row)
    BY <1>2, <1>5, <1>6, <2>1, PageTakes
  <2> QED BY <1>1, <1>3, <1>6, <2>2 DEF Followed
<1>7. CASE Candidates # {}
  <2>1. Max(Candidates) \in Candidates
    BY <1>4, <1>7, LastRow
  <2>2. ASSUME Cardinality(Candidates) < plan.chunk \/ row <= Max(Candidates)
        PROVE  OnTheWay(row) \/ row \in Candidates
    BY <1>2, <1>5, <2>1, <2>2, PageTakes
  <2> QED BY <1>1, <1>3, <1>7, <2>2 DEF Followed
<1> QED BY <1>6, <1>7

LEMMA SendProgress ==
  ASSUME TypeOK, Unhindered, Progress, Send
  PROVE  Progress'
<1> SUFFICES ASSUME NEW row \in Owed' PROVE Followed(row)'
  BY DEF Progress
<1>1. /\ UNCHANGED <<plan, deleted, touched, pageCursor, pcC, batch, hit>> /\ pcP = "send"
      /\ chan = <<>> /\ chan' = <<page>>
      /\ (pcP' = "done" /\ Cardinality(page) < plan.chunk) \/ pcP' = "select"
  BY DEF Send, db, consumer
<1>2. row \in Owed
  BY <1>1, OwedShrinks
<1>3. chan' # <<>> /\ Head(chan') = page
  BY <1>1, PutOne DEF TypeOK
<1>4. Followed(row) /\ (OnTheWay(row)' <=> OnTheWay(row) \/ row \in page)
  BY <1>1, <1>2, <1>3 DEF Progress, OnTheWay, Holding
<1> QED BY <1>1, <1>4 DEF Followed

(* The consumer moves and the producer stays where it is. *)
LEMMA ConsumerProgress ==
  ASSUME Unhindered, Progress, [Next]_vars, UNCHANGED <<pcP, page, pageCursor>>,
         \A row \in Owed' : Followed(row) =>
           /\ pcC' = "sent" /\ row \in batch' => row \in hit'
           /\ OnTheWay(row) => OnTheWay(row)'
  PROVE  Progress'
<1> SUFFICES ASSUME NEW row \in Owed' PROVE Followed(row)'
  BY DEF Progress
<1>1. row \in Owed /\ plan' = plan
  BY HistoryGrows, OwedShrinks
<1>2. Followed(row)
  BY <1>1 DEF Progress
<1> QED BY <1>1, <1>2 DEF Followed

LEMMA StepProgress == TypeOK /\ Staged /\ Stored /\ Known /\ Progress /\ [Next]_vars => Progress'
<1> SUFFICES ASSUME TypeOK, Staged, Stored, Known, Progress, [Next]_vars, Unhindered' PROVE Progress'
  BY DEF Progress
<1>1. Unhindered
  BY HistoryGrows DEF Unhindered
<1>2. CASE Producing
  BY <1>1, <1>2, SelectProgress, SendProgress DEF Producing, SelectFails, ProducerStops, Unhindered
<1>3. CASE Environment
  <2>1. UNCHANGED <<chan, pcP, page, pageCursor, pcC, batch, hit>>
    BY <1>3, EnvironmentFrame DEF producer, consumer
  <2> QED BY <1>1, <2>1, ConsumerProgress DEF Followed, OnTheWay, Holding
<1>4. CASE Start
  <2> SUFFICES ASSUME NEW row \in Owed' PROVE Followed(row)'
    BY DEF Progress
  <2>1. pcP' = "select" /\ pcC' = "receive" /\ pageCursor' = 0
    BY <1>4 DEF Start, Staged
  <2>2. row \in Nat \ {0}
    BY CoveringAssumption DEF Owed, Left, Rows
  <2> QED BY <2>1, <2>2 DEF Followed
<1>5. CASE Receive
  <2>1. /\ UNCHANGED <<pcP, page, pageCursor>>
        /\ pcC = "receive" /\ pcC' = "rate" /\ batch' = Head(chan)
    BY <1>5 DEF Receive, Goto, producer
  <2> QED BY <1>1, <2>1, ConsumerProgress DEF OnTheWay, Holding
<1>6. CASE NotApplicable \/ Drain \/ Account \/ Join
  <2>1. UNCHANGED <<chan, pcP, page, pageCursor>> /\ ~Holding /\ pcC' # "sent"
    BY <1>6 DEF NotApplicable, Drain, Account, Join, Returns, Goto, Leave, producer, Holding
  <2> QED BY <1>1, <2>1, ConsumerProgress DEF OnTheWay
<1>7. CASE TakeSignal \/ PassRate
  <2>1. UNCHANGED <<chan, pcP, page, pageCursor, batch>> /\ pcC' \in {"rate", "delete"}
    BY <1>1, <1>7 DEF TakeSignal, PassRate, Goto, producer, Unhindered
  <2> QED BY <1>1, <2>1, ConsumerProgress DEF OnTheWay, Holding
<1>8. CASE Exec
  <2>1. /\ UNCHANGED <<chan, pcP, page, pageCursor, batch, table>> /\ pcC' = "sent"
        /\ hit' = (batch \cap Matching) \ plan.noKey
    BY <1>8 DEF Exec, Goto, producer, db
  <2>2. ASSUME NEW row \in Owed', row \in batch PROVE row \in hit'
    <3>1. row \in Owed
      BY HistoryGrows, OwedShrinks
    <3>2. row \in Matching /\ row \notin plan.noKey
      BY <3>1 DEF Owed, Left, Rows, Stored, Matching
    <3> QED BY <2>1, <2>2, <3>2
  <2> QED BY <1>1, <2>1, <2>2, ConsumerProgress DEF OnTheWay, Holding
<1>9. CASE ExecCanceled
  BY <1>1, <1>9 DEF ExecCanceled, Unhindered
<1>10. CASE AttemptFails \/ ReplyLost
  <2>1. UNCHANGED <<chan, pcP, page, pageCursor, batch>> /\ pcC' = "delete"
    BY <1>10, RetryFacts DEF AttemptFails, ReplyLost, producer, Unhindered
  <2> QED BY <1>1, <2>1, ConsumerProgress DEF OnTheWay, Holding
<1>11. CASE AttemptSucceeds
  <2>1. /\ UNCHANGED <<chan, pcP, page, pageCursor, batch>> /\ pcC = "sent" /\ pcC' = "account"
        /\ deleted' = deleted \cup hit
    BY <1>11 DEF AttemptSucceeds, CommitHit, Goto, producer
  <2>2. ASSUME NEW row \in Owed', Followed(row) PROVE row \notin batch
    BY <2>1, <2>2 DEF Followed, Owed, Left
  <2> QED BY <1>1, <2>1, <2>2, ConsumerProgress DEF OnTheWay, Holding
<1> QED BY <1>2, <1>3, <1>4, <1>5, <1>6, <1>7, <1>8, <1>9, <1>10, <1>11, StepSplit DEF Consuming

-----------------------------------------------------------------------------
(* The invariant, and what follows from it.                                  *)

LEMMA InitParts == Init => Staged /\ Sized /\ Stored /\ Known /\ Tallied /\ Limited /\ Progress
<1> SUFFICES ASSUME Init PROVE Staged /\ Sized /\ Stored /\ Known /\ Tallied /\ Limited /\ Progress
  OBVIOUS
<1>1. /\ pcP = "off" /\ pcC = "start" /\ ending = "" /\ result = "" /\ pageCursor = 0
      /\ page = {} /\ batch = {} /\ hit = {} /\ deleted = {} /\ touched = {} /\ chan = <<>>
      /\ finished = FALSE
  BY DEF Init
<1>2. counted = 0 /\ lost = 0 /\ plan \in Plans
  BY DEF Init
<1>3. table = [row \in Rows |-> IF row \in OldRows THEN "match" ELSE "absent"]
  BY DEF Init
<1>4. Cardinality({}) = 0
  BY FS_EmptySet
<1>5. plan.chunk \in Nat \ {0} /\ plan.max \in Nat
  BY <1>2, PlanFields
<1>6. Staged
  BY <1>1 DEF Staged, Looping
<1>7. Sized
  <2>1. 0 <= plan.chunk
    BY <1>5
  <2> QED BY <1>1, <1>4, <2>1 DEF Sized
<1>8. Stored
  BY <1>1, <1>3 DEF Stored, Left, Rows
<1>9. Tallied
  <2>1. plan.chunk * 0 = 0
    BY <1>5
  <2>2. Pending = 0
    BY <1>1 DEF Pending
  <2>3. plan.chunk * lost = 0
    BY <1>2, <2>1
  <2>4. Cardinality(deleted) = 0
    BY <1>1, <1>4
  <2>5. counted = 0
    BY <1>2
  <2> QED BY <2>2, <2>3, <2>4, <2>5 DEF Tallied
<1>10. Limited
  BY <1>2, <1>5 DEF Limited
<1>11. Progress
  BY <1>1 DEF Progress, Followed
<1>12. Known
  BY <1>1, <1>3 DEF Known
<1> QED BY <1>6, <1>7, <1>8, <1>9, <1>10, <1>11, <1>12

LEMMA Invariance == Spec => []IInv
<1>1. Init => IInv
  BY InitTypeOK, InitParts DEF IInv
<1>2. IInv /\ [Next]_vars => IInv'
  <2> SUFFICES ASSUME IInv, [Next]_vars PROVE IInv'
    OBVIOUS
  <2>1. TypeOK /\ Staged /\ Sized /\ Stored /\ Known /\ Tallied /\ Limited /\ Progress
    BY DEF IInv
  <2> QED BY <2>1, StepTypeOK, StepStaged, StepSized, StepStored, StepKnown, StepTallied,
             StepLimited, StepProgress DEF IInv
<1> QED BY <1>1, <1>2, PTL DEF Spec

(* Every variable has its type; the channel never holds more than one page.  *)
THEOREM Types == Spec => []TypeOK
<1>1. IInv => TypeOK
  BY DEF IInv
<1> QED BY <1>1, Invariance, PTL

(* The guardrail that is tested after a batch lets max-rows be passed by     *)
(* less than a page, and by a page per lost reply.                           *)
THEOREM OvershootHolds == Spec => []OvershootBounded
<1>1. IInv => OvershootBounded
  <2> SUFFICES ASSUME IInv, plan.max > 0
               PROVE  Cardinality(deleted) <= plan.max - 1 + plan.chunk * (1 + lost)
    BY DEF OvershootBounded
  <2>1. /\ plan.chunk \in Nat /\ plan.max \in Nat /\ counted \in Nat /\ affected \in Nat
        /\ affected <= plan.chunk /\ lost \in Nat /\ Pending \in Nat
        /\ plan.chunk * lost \in Nat
        /\ plan.chunk * (lost + 1) = plan.chunk * lost + plan.chunk
    BY Numbers DEF IInv
  <2>2. lost + 1 = 1 + lost
    BY <2>1
  <2>3. plan.chunk * (1 + lost) = plan.chunk * lost + plan.chunk
    BY <2>1, <2>2
  <2>4. counted + Pending <= plan.max - 1 + plan.chunk
    <3>1. CASE pcC = "account"
      <4>1. counted <= plan.max - 1
        BY <3>1 DEF IInv, Limited, Looping
      <4>2. Pending = affected
        BY <3>1 DEF Pending
      <4> QED BY <2>1, <4>1, <4>2
    <3>2. CASE pcC # "account"
      <4>1. counted <= plan.max - 1 + plan.chunk
        BY DEF IInv, Limited
      <4>2. Pending = 0
        BY <3>2 DEF Pending
      <4> QED BY <2>1, <4>1, <4>2
    <3> QED BY <3>1, <3>2
  <2>5. Cardinality(deleted) <= counted + Pending + plan.chunk * lost
    BY DEF IInv, Tallied
  <2>6. Cardinality(deleted) \in Nat
    BY RowsFinite DEF IInv, TypeOK
  <2> QED BY <2>1, <2>3, <2>4, <2>5, <2>6
<1> QED BY <1>1, Invariance, PTL

(* A run that comes to the end of the table, though the producer pages ahead *)
(* of the deletes, has deleted every row that nobody else wrote, but for     *)
(* rows without a key and rows that agree, up to a NULL, with an earlier one *)
(* at which a page may have ended.                                           *)
THEOREM CleanEnds == Spec => []CleanEndIsComplete
<1>1. IInv => CleanEndIsComplete
  <2> SUFFICES ASSUME IInv, result = "nil", ending = "drained", ~canceled
               PROVE  \A row \in Left : row \in plan.noKey \/ Hidden(row)
    BY DEF CleanEndIsComplete
  <2>1. /\ pcP = "done" /\ chan = <<>> /\ pcC \in {"join", "done"} /\ ~producerErr
    BY DEF IInv, Staged
  <2>2. Unhindered
    BY <2>1 DEF Unhindered
  <2>3. \A row \in Owed : OnTheWay(row)
    BY <2>1, <2>2 DEF IInv, Progress, Followed
  <2>4. \A row : ~OnTheWay(row)
    BY <2>1 DEF OnTheWay, Holding
  <2> QED BY <2>3, <2>4 DEF Owed
<1> QED BY <1>1, Invariance, PTL

(* The frozen WHERE in the DELETE: no step removes a row that does not match *)
(* any more, however long ago it was selected.                               *)
THEOREM OnlyMatchingGo == Spec => OnlyMatchingRowsGo
<1>1. IInv /\ [Next]_vars => [\A row \in deleted' \ deleted : table[row] = "match"]_vars
  <2> SUFFICES ASSUME IInv, [Next]_vars, NEW row \in deleted' \ deleted
               PROVE  table[row] = "match"
    OBVIOUS
  <2>1. deleted' = deleted \/ deleted' = deleted \cup hit
    <3>1. CASE Producing \/ Environment
      BY <3>1, ProducerFrame, EnvironmentFrame
    <3>2. CASE Consuming
      BY <3>2 DEF Consuming, Start, NotApplicable, Receive, Drain, TakeSignal, PassRate, Exec,
         ExecCanceled, AttemptFails, ReplyLost, AttemptSucceeds, Account, Join, Returns, db, CommitHit
    <3> QED BY <3>1, <3>2, StepSplit
  <2> QED BY <2>1 DEF IInv, Stored
<1> QED BY <1>1, Invariance, PTL DEF Spec, OnlyMatchingRowsGo

-----------------------------------------------------------------------------
(* The contract of a ChunkStrategy.                                          *)

LEMMA ContractInit == Init => Contract!Init
<1> SUFFICES ASSUME Init PROVE Contract!Init
  OBVIOUS
<1>1. deleted = {} /\ Cardinality({}) = 0
  BY FS_EmptySet DEF Init
<1>2. (pcP \notin {"off", "done"}) \in BOOLEAN
  OBVIOUS
<1>3. (lost > 0) = FALSE
  <2>1. lost = 0
    BY DEF Init
  <2>2. ~(lost > 0)
    BY <2>1
  <2> QED BY <2>2
<1> QED BY <1>1, <1>2, <1>3 DEF Init, Contract!Init

LEMMA CountsAgree ==
  ASSUME TypeOK, Tallied
  PROVE  /\ counted \in Nat /\ Cardinality(deleted) \in Nat /\ counted <= Cardinality(deleted)
         /\ pcC = "join" /\ lost = 0 => counted = Cardinality(deleted)
<1>1. Cardinality(deleted) \in Nat /\ counted \in Nat /\ Pending \in Nat
  BY RowsFinite, Numbers DEF TypeOK
<1>2. lost = 0 => plan.chunk * lost = 0
  <2>1. \A a \in Nat : a * 0 = 0
    OBVIOUS
  <2> QED BY <2>1, Numbers
<1>3. pcC = "join" => Pending = 0
  BY DEF Pending
<1> QED BY <1>1, <1>2, <1>3 DEF Tallied

LEMMA ContractStep == IInv /\ IInv' /\ [Next]_vars => [Contract!Next]_(Contract!vars)
<1> SUFFICES ASSUME IInv, IInv', [Next]_vars PROVE [Contract!Next]_(Contract!vars)
  OBVIOUS
<1>1. TypeOK /\ Tallied /\ Staged
  BY DEF IInv
<1>2. CASE Producing
  <2>1. UNCHANGED <<deleted, counted, finished, result, stopped, lost>>
    BY <1>2, ProducerFrame DEF writer, context
  <2>2. result = ""
    BY <1>1, <1>2, ProducerFrame DEF Staged
  <2>3. counted \in Nat /\ Cardinality(deleted) \in Nat /\ counted <= Cardinality(deleted)
    BY <1>1, CountsAgree
  <2>4. Contract!Commit
    BY <2>1, <2>3 DEF Contract!Commit
  <2> QED BY <2>1, <2>2, <2>4 DEF Contract!Next, Contract!Work
<1>3. CASE Cancel
  BY <1>3 DEF Cancel, db, producer, writer, bounds, Contract!Next, Contract!Stop
<1>4. ASSUME NEW row \in Rows, NEW value \in TableState, OtherClientWrites(row, value)
      PROVE  UNCHANGED Contract!vars
  BY <1>4 DEF OtherClientWrites, producer, writer, context, bounds, Contract!vars
<1>5. CASE UNCHANGED vars
  BY <1>5 DEF vars, db, producer, writer, context, bounds, Contract!vars
<1>6. CASE Join
  <2>1. counted = Cardinality(deleted) \/ lost > 0
    BY <1>1, <1>6, CountsAgree, Numbers DEF Join
  <2>2. /\ UNCHANGED <<deleted, counted, stopped, lost, pcP>> /\ pcP = "done"
        /\ result' \in {"nil", "error"} /\ finished' \in BOOLEAN
        /\ result' = "nil" => finished' = TRUE
        /\ finished' = TRUE => result' = "nil"
    BY <1>6 DEF Join, Returns, db, producer, context, bounds
  <2>3. result = "" /\ finished = FALSE
    BY <1>1, <1>6 DEF Join, Staged
  <2> QED BY <2>1, <2>2, <2>3 DEF Contract!Next, Contract!Return
<1>7. CASE NotApplicable
  BY <1>1, <1>7 DEF NotApplicable, Staged, db, producer, writer, context, bounds, Contract!Next,
     Contract!Return
<1>8. ASSUME Consuming, ~Join, ~NotApplicable PROVE Contract!Next
  <2>1. UNCHANGED <<finished, result, stopped>> /\ pcC # "done"
    BY <1>8 DEF Consuming, Start, Receive, Drain, TakeSignal, PassRate, Exec, ExecCanceled,
       AttemptFails, ReplyLost, AttemptSucceeds, Account, writer, context
  <2>2. result = ""
    BY <1>1, <2>1 DEF Staged
  <2>3. /\ counted' = counted \/ counted' = counted + affected
        /\ lost' = lost \/ lost' = lost + 1
    BY <1>8 DEF Consuming, Start, Receive, Drain, TakeSignal, PassRate, Exec, ExecCanceled,
       AttemptFails, ReplyLost, AttemptSucceeds, Account, writer, bounds, Fault
  <2>4. counted \in Nat /\ affected \in Nat /\ lost \in Nat
    BY <1>1, Numbers
  <2>5. counted' \in Nat /\ counted <= counted' /\ lost \in Nat /\ lost' \in Nat /\ lost <= lost'
    BY <2>3, <2>4
  <2>6. /\ Cardinality(deleted) \in Nat /\ Cardinality(deleted') \in Nat
        /\ Cardinality(deleted) <= Cardinality(deleted')
    BY HistoryGrows, RowsFinite, FS_Subset DEF IInv, TypeOK
  <2>7. counted' <= Cardinality(deleted')
    <3>1. counted' + Pending' <= Cardinality(deleted')
      BY DEF IInv, Tallied
    <3>2. Pending' \in Nat
      <4>1. affected' \in 0..plan'.chunk /\ plan' = plan
        BY HistoryGrows DEF IInv, TypeOK
      <4>2. affected' \in Nat
        BY <1>1, <4>1, Numbers
      <4> QED BY <4>2 DEF Pending
    <3> QED BY <2>5, <2>6, <3>1, <3>2
  <2>8. Contract!Commit
    <3>1. (lost' > 0) = (lost > 0) \/ (lost' > 0) = TRUE
      BY <2>5
    <3> QED BY <2>5, <2>6, <2>7, <3>1 DEF Contract!Commit
  <2> QED BY <2>1, <2>2, <2>8 DEF Contract!Next, Contract!Work
<1> QED BY <1>2, <1>3, <1>4, <1>5, <1>6, <1>7, <1>8 DEF Next

(* Run keeps the contract that task.Execute relies on: what it counts is     *)
(* committed, and all that is when it returns nil, unless a reply was lost   *)
(* or the caller stopped it; the producer ends with it.                      *)
THEOREM KeepsContract == Spec => ImplementsChunkRun
<1>1. Init => Contract!Init
  BY ContractInit
<1>2. IInv /\ IInv' /\ [Next]_vars => [Contract!Next]_(Contract!vars)
  BY ContractStep
<1> QED BY <1>1, <1>2, Invariance, PTL DEF Spec, ImplementsChunkRun, Contract!Spec
=============================================================================
