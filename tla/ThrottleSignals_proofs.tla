------------------------ MODULE ThrottleSignals_proofs ------------------------
(***************************************************************************)
(* Proofs about ThrottleSignals: the types, and that a drain of the signal *)
(* channel takes at least half of what was queued, whatever the monitor    *)
(* adds to it meanwhile.                                                   *)
(*                                                                         *)
(* While the loop runs, what it has taken and what is left make up at      *)
(* least what was queued (Accounted); it ends when it has taken as much as *)
(* is left.                                                                *)
(***************************************************************************)
EXTENDS ThrottleSignals, SequenceTheorems, TLAPS

Accounted == pcW = "drain" => taken + Len(channel) >= queued

IInv == TypeOK /\ Accounted /\ HalfIsTaken

LEMMA InitIInv == Init => IInv
<1> SUFFICES ASSUME Init PROVE IInv
  OBVIOUS
<1>1. channel \in Seq(Signal) /\ Len(channel) <= Cap
  BY ThrottleAssumption DEF Init
<1>2. TypeOK
  <2>1. 0 \in 0..MaxChanges /\ 0 \in Signal
    BY ThrottleAssumption DEF Signal
  <2> QED BY <1>1, <2>1, ThrottleAssumption DEF Init, TypeOK
<1> QED BY <1>2 DEF Init, IInv, Accounted, HalfIsTaken

(* Steps that leave the channel and the executing goroutine alone. *)
LEMMA Frame ==
  ASSUME IInv, UNCHANGED <<channel, writer>>
  PROVE  Accounted' /\ HalfIsTaken'
BY DEF IInv, Accounted, HalfIsTaken, writer

LEMMA MonitorStep == ASSUME IInv, Monitor PROVE IInv'
<1> USE ThrottleAssumption DEF IInv
<1>1. CASE MonitorTop
  <2>1. TypeOK'
    BY <1>1 DEF MonitorTop, StartCheck, TypeOK, replicas, writer
  <2> QED BY <1>1, <2>1, Frame DEF MonitorTop
<1>2. ASSUME NEW r \in Replicas, CheckReplica(r) PROVE IInv'
  <2>1. TypeOK'
    BY <1>2 DEF CheckReplica, TypeOK, replicas, writer
  <2> QED BY <1>2, <2>1, Frame DEF CheckReplica
<1>3. CASE Decide
  <2>1. TypeOK'
    BY <1>3 DEF Decide, TypeOK, Signal, replicas, writer
  <2> QED BY <1>3, <2>1, Frame DEF Decide
<1>4. CASE Send
  <2>1. channel' \in Seq(Signal) /\ Len(channel') <= Cap /\ Len(channel') >= Len(channel)
    BY <1>4 DEF Send, Offers, TypeOK
  <2>2. TypeOK'
    BY <1>4, <2>1 DEF Send, TypeOK, replicas, writer
  <2>3. Accounted' /\ HalfIsTaken'
    <3>1. taken \in Nat /\ queued \in Nat /\ Len(channel) \in Nat /\ Len(channel') \in Nat
      BY <2>1 DEF TypeOK
    <3> QED BY <1>4, <2>1, <3>1 DEF Send, Accounted, HalfIsTaken, writer
  <2> QED BY <2>2, <2>3
<1> QED BY <1>1, <1>2, <1>3, <1>4 DEF Monitor

LEMMA WriterStep == ASSUME IInv, Writing PROVE IInv'
<1> USE ThrottleAssumption DEF IInv
<1>0. taken \in Nat /\ queued \in Nat /\ Len(channel) \in Nat
  BY DEF TypeOK
<1>1. CASE Look
  <2>1. TypeOK'
    BY <1>0, <1>1 DEF Look, TypeOK, Signal, replicas, monitor
  <2>2. Accounted' /\ HalfIsTaken'
    BY <1>0, <1>1 DEF Look, Accounted, HalfIsTaken
  <2> QED BY <2>1, <2>2
<1>2. CASE Drain
  <2>1. channel # <<>>
    BY <1>0, <1>2 DEF Drain, More
  <2>2. /\ Head(channel) \in Signal /\ Tail(channel) \in Seq(Signal)
        /\ Len(Tail(channel)) = Len(channel) - 1
    BY <2>1, HeadTailProperties DEF TypeOK
  <2>3. TypeOK'
    BY <1>0, <1>2, <2>2 DEF Drain, TypeOK, replicas, monitor
  <2>4. Accounted' /\ HalfIsTaken'
    BY <1>0, <1>2, <2>2 DEF Drain, Accounted, HalfIsTaken
  <2> QED BY <2>3, <2>4
<1>3. CASE Drained
  <2>1. TypeOK'
    BY <1>3 DEF Drained, TypeOK, replicas, monitor
  <2>2. 2 * taken >= queued
    BY <1>0, <1>3 DEF Drained, More, Accounted
  <2> QED BY <1>3, <2>1, <2>2 DEF Drained, Accounted, HalfIsTaken
<1>4. CASE Pause
  BY <1>4 DEF Pause, TypeOK, Accounted, HalfIsTaken, replicas, monitor
<1>5. CASE Chunk
  BY <1>5 DEF Chunk, TypeOK, Accounted, HalfIsTaken, replicas, monitor
<1> QED BY <1>1, <1>2, <1>3, <1>4, <1>5 DEF Writing

LEMMA OutsideStep ==
  ASSUME IInv, (\E r \in Replicas : ReplicaChanges(r)) \/ UpdateMaxLag \/ Cancel
  PROVE  IInv'
<1> USE ThrottleAssumption DEF IInv
<1>1. UNCHANGED <<channel, writer>>
  BY DEF ReplicaChanges, UpdateMaxLag, Cancel
<1>2. ASSUME NEW r \in Replicas, ReplicaChanges(r) PROVE TypeOK'
  BY <1>2 DEF ReplicaChanges, Changes, TypeOK, monitor, writer
<1>3. ASSUME UpdateMaxLag PROVE TypeOK'
  BY <1>3 DEF UpdateMaxLag, Changes, TypeOK, monitor, writer
<1>4. ASSUME Cancel PROVE TypeOK'
  BY <1>4 DEF Cancel, TypeOK, replicas, monitor, writer
<1>5. TypeOK'
  BY <1>2, <1>3, <1>4
<1> QED BY <1>1, <1>5, Frame

LEMMA Invariance == Spec => []IInv
<1>1. IInv /\ [Next]_vars => IInv'
  <2> SUFFICES ASSUME IInv, [Next]_vars PROVE IInv'
    OBVIOUS
  <2>1. CASE UNCHANGED vars
    <3>1. TypeOK'
      BY <2>1 DEF IInv, TypeOK, vars, replicas, monitor, writer
    <3> QED BY <2>1, <3>1, Frame DEF IInv, vars
  <2> QED BY <2>1, MonitorStep, WriterStep, OutsideStep DEF Next
<1> QED BY <1>1, InitIInv, PTL DEF Spec

-----------------------------------------------------------------------------
(* Every variable keeps its type; in particular the channel never holds more *)
(* than Cap signals.                                                         *)
THEOREM SignalTypes == Spec => []TypeOK
<1>1. IInv => TypeOK
  BY DEF IInv
<1> QED BY <1>1, Invariance, PTL

(* For every channel length, every number of replicas and every interleaving *)
(* with the monitor, a goroutine that acts has taken at least half of the    *)
(* signals that were queued when it looked (the loop of Writer.Write and of  *)
(* the covering strategies).                                                 *)
THEOREM BacklogHalves == Spec => []HalfIsTaken
<1>1. IInv => HalfIsTaken
  BY DEF IInv
<1> QED BY <1>1, Invariance, PTL
=============================================================================
