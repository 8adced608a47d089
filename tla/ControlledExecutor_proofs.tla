---------------------- MODULE ControlledExecutor_proofs ----------------------
(***************************************************************************)
(* Proofs about ControlledExecutor, for every plan and every table.        *)
(*                                                                         *)
(* The argument is one inductive invariant, IInv.  It ties the server's    *)
(* view of the transaction to where the runner is (TxOfPc), keeps the      *)
(* candidates within the batch and the remaining budget (BatchFits), and   *)
(* keeps them past every row already purged (PastPurged), so that a batch  *)
(* never counts a row twice.  Three invariants stand on it: Control says   *)
(* what Stop, Wait and the deadlines have done so far (Approved, StopHeld, *)
(* Confirmed), Receipted follows a batch from its COMMIT to its receipt,   *)
(* Sweep says where the rows are that are neither purged nor ahead.        *)
(***************************************************************************)
EXTENDS ControlledExecutor, PageLemmas, SequenceTheorems, TLAPS

(* Where the runner holds the ids of a batch that is not acknowledged. *)
Holding == {"guard", "armed", "begin", "exec", "rollback", "commit",
            "commitRollback", "send", "ack"}

Quiet == {"idle", "publish", "check", "loop", "select", "guard", "armed",
          "begin", "receipt", "wait"}

(* The rows the transaction deleted are still eligible and locked, and they  *)
(* fit the budget.                                                           *)
PendingFits ==
  /\ \A id \in pending : table[id] = "old"
  /\ pending \subseteq ids
  /\ Cardinality(pending) <= BatchSize
  /\ committed + Cardinality(pending) <= MaxRows
  /\ pending \cap purged = {}

TxOfPc ==
  /\ pc \in Quiet => tx = "none"
  /\ pc \in {"exec", "rollback", "commit", "commitRollback", "send"} =>
       tx \in {"open", "aborted"}
  /\ pc \in {"commit", "commitRollback", "send"} /\ tx = "open" => pending = ids
  /\ pc = "exec" => pending = {}
  /\ pc = "ack" => tx \in {"sent", "committed", "aborted"}
  /\ tx = "sent" => pending = ids
  /\ tx = "open" => pc \notin {"return", "done"}
  /\ tx \in {"none", "committed", "aborted"} => pending = {}
  /\ pc \in {"return", "done"} /\ ~unknown => tx \in {"none", "aborted"}

Counted ==
  /\ tx # "committed" => committed = Cardinality(purged)
  /\ tx = "committed" =>
       /\ Cardinality(purged) = committed + Cardinality(ids)
       /\ Cardinality(purged) <= MaxRows

BatchFits ==
  pc \in Holding => /\ ids # {}
                    /\ Cardinality(ids) <= BatchSize
                    /\ committed + Cardinality(ids) <= MaxRows

PastPurged ==
  /\ pc \notin {"receipt", "return", "done"} /\ tx # "committed" =>
       \A p \in purged : lastID # NoId /\ p <= lastID
  /\ pc \in Holding => \A id \in ids : PastCursor(id)
  /\ pc = "receipt" \/ tx = "committed" =>
       /\ ids # {}
       /\ Cardinality(ids) <= BatchSize
       /\ \A p \in purged : \E q \in ids : p <= q

SentBatch ==
  tx = "sent" =>
    /\ ids # {}
    /\ Cardinality(ids) <= BatchSize
    /\ \A p \in purged, q \in ids : p <= q

SelectingHasBudget == pc = "select" => committed < MaxRows

Core ==
  /\ committed <= MaxRows
  /\ TxOfPc
  /\ Counted
  /\ BatchFits
  /\ PendingFits
  /\ PastPurged
  /\ SentBatch
  /\ SelectingHasBudget

IInv == TypeOK /\ Core

-----------------------------------------------------------------------------
(* Lemmas about the candidate read.                                          *)

LEMMA LastOfIsMax ==
  ASSUME NEW S, IsFiniteSet(S), S \subseteq Int, S # {}
  PROVE  LastOf(S) \in S /\ \A y \in S : y <= LastOf(S)
BY MaxExists DEF LastOf

(* ORDER BY id LIMIT n returns at most n rows, skips none below one it       *)
(* returns, and returns nothing only when there is nothing.                  *)
LEMMA FirstNBound ==
  ASSUME NEW S, IsFiniteSet(S), S \subseteq Int, NEW n \in Nat
  PROVE  /\ FirstN(S, n) \subseteq S
         /\ IsFiniteSet(FirstN(S, n))
         /\ Cardinality(FirstN(S, n)) <= n
BY LowestBound DEF FirstN, Lowest

LEMMA FirstNPrefix ==
  ASSUME NEW S, IsFiniteSet(S), S \subseteq Int, NEW n \in Nat,
         NEW x \in FirstN(S, n), NEW y \in S, y <= x
  PROVE  y \in FirstN(S, n)
BY LowestPrefix DEF FirstN, Lowest

LEMMA FirstNEmpty ==
  ASSUME NEW S, IsFiniteSet(S), S \subseteq Int, NEW n \in Nat \ {0}, FirstN(S, n) = {}
  PROVE  S = {}
BY LowestEmpty DEF FirstN, Lowest

-----------------------------------------------------------------------------
(* Types.                                                                    *)

(* Every set the invariant counts is finite. *)
LEMMA Finite ==
  ASSUME NEW S \in SUBSET Ids
  PROVE  IsFiniteSet(S) /\ Cardinality(S) \in Nat /\ S \subseteq Int
BY PlanAssumption, FS_Subset, FS_CardinalityType

LEMMA InitTypeOK == Init => TypeOK
<1> SUFFICES ASSUME Init PROVE TypeOK
  OBVIOUS
<1>1. receipts \in Seq(Nat)
  BY EmptySeq DEF Init
<1> QED
  BY <1>1 DEF Init, TypeOK, PcState, CtxState, TxState, Reason, RowState

LEMMA NextTypeOK == IInv /\ [Next]_vars => TypeOK'
<1> SUFFICES ASSUME IInv, [Next]_vars PROVE TypeOK'
  OBVIOUS
<1> USE PlanAssumption DEF IInv
<1>1. ASSUME NEW c \in Callers, Run(c) PROVE TypeOK'
  BY <1>1 DEF Run, TypeOK, db, ctl, ctxs, data, res, PcState, Running, Goto
<1>2. CASE Publish
  BY <1>2 DEF Publish, TypeOK, db, ctl, ctxs, data, res, PcState, Running,
      Goto
<1>3. CASE CheckStopped
  BY <1>3 DEF CheckStopped, TypeOK, db, ctl, ctxs, data, res, PcState,
      Running, Goto, CtxState, Canceled, Stale
<1>4. CASE LoopHead
  <2>1. /\ pc' \in PcState /\ reason' \in Reason /\ unknown' \in BOOLEAN
    BY <1>4 DEF LoopHead, Finish, Goto, TypeOK, PcState, Running, Reason,
        CtxState, res
  <2>2. opCtx' \in CtxState
    BY <1>4 DEF LoopHead, TypeOK, CtxState
  <2> QED
    BY <2>1, <2>2, <1>4 DEF LoopHead, TypeOK, db, ctl, data
<1>5. CASE SelectReturns
  <2>1. ids' \subseteq Ids
    BY <1>5 DEF SelectReturns, FirstN, Candidates, Eligible
  <2>2. /\ pc' \in PcState /\ reason' \in Reason /\ unknown' \in BOOLEAN
        /\ opCtx' \in CtxState /\ approval' \in {"none", "fresh", "stale"}
    BY <1>5 DEF SelectReturns, Finish, Goto, TypeOK, PcState, Running, Reason,
        CtxState, res
  <2> QED
    BY <2>1, <2>2, <1>5 DEF SelectReturns, TypeOK, db, ctl
<1>6. CASE SelectFails
  <2>1. /\ pc' \in PcState /\ reason' \in Reason /\ unknown' \in BOOLEAN
    BY <1>6 DEF SelectFails, Finish, TypeOK, PcState, Reason, OpErr, CtxState
  <2> QED
    BY <2>1, <1>6 DEF SelectFails, TypeOK, db, ctl, ctxs, data
<1>7. CASE GuardApproves
  BY <1>7 DEF GuardApproves, TypeOK, db, ctl, ctxs, data, res, PcState,
      Running, Goto, OpErr
<1>8. CASE GuardRefuses
  BY <1>8 DEF GuardRefuses, TypeOK, db, ctl, ctxs, data, res, PcState,
      Running, Goto, Finish, OutcomeUnknown, Reason
<1>9. CASE HookPanics
  <2>1. /\ pc' \in PcState /\ reason' \in Reason /\ unknown' \in BOOLEAN
    BY <1>9 DEF HookPanics, OutcomeUnknown, PcState, Reason
  <2>2. receipts' \in Seq(Nat)
    BY <1>9, AppendProperties DEF HookPanics, TypeOK
  <2> QED
    BY <2>1, <2>2, <1>9 DEF HookPanics, TypeOK, db, ctl, ctxs
<1>10. CASE Recheck
  <2>1. /\ pc' \in PcState /\ reason' \in Reason /\ unknown' \in BOOLEAN
    BY <1>10 DEF Recheck, Finish, Goto, TypeOK, PcState, Running, Reason, OpErr,
        CtxState, res
  <2> QED
    BY <2>1, <1>10 DEF Recheck, TypeOK, db, ctl, ctxs, data
<1>11. CASE Begin
  <2>1. /\ pc' \in PcState /\ reason' \in Reason /\ unknown' \in BOOLEAN
    BY <1>11 DEF Begin, Finish, Goto, TypeOK, PcState, Running, Reason, OpErr,
        CtxState, res
  <2>2. tx' \in TxState
    BY <1>11 DEF Begin, TypeOK, TxState
  <2> QED
    BY <2>1, <2>2, <1>11 DEF Begin, TypeOK, ctl, ctxs, data
<1>12. CASE Exec
  <2>1. /\ pc' \in PcState /\ reason' \in Reason /\ unknown' \in BOOLEAN
    BY <1>12 DEF Exec, RollbackBecause, Goto, TypeOK, PcState, Running, Reason, res
  <2>2. pending' \subseteq Ids
    BY <1>12 DEF Exec, Eligible
  <2> QED
    BY <2>1, <2>2, <1>12 DEF Exec, TypeOK, ctl, ctxs, data
<1>13. CASE ExecFails
  <2>1. /\ pc' \in PcState /\ reason' \in Reason /\ unknown' \in BOOLEAN
    BY <1>13 DEF ExecFails, RollbackBecause, TypeOK, PcState, Running, Reason,
        OpErr, CtxState
  <2> QED
    BY <2>1, <1>13 DEF ExecFails, TypeOK, db, ctl, ctxs, data
<1>14. CASE Rollback
  <2>1. /\ pc' \in PcState /\ reason' \in Reason /\ unknown' \in BOOLEAN
    BY <1>14 DEF Rollback, Finish, OutcomeUnknown, TypeOK, PcState, Reason
  <2>2. tx' \in TxState /\ pending' \subseteq Ids
    BY <1>14 DEF Rollback, TxRolledBack, TxOrphaned, TxFinished, TypeOK, TxState
  <2> QED
    BY <2>1, <2>2, <1>14 DEF Rollback, TypeOK, ctl, ctxs, data
<1>15. CASE CommitCheck
  <2>1. /\ pc' \in PcState /\ reason' \in Reason /\ unknown' \in BOOLEAN
    BY <1>15 DEF CommitCheck, Goto, OutcomeUnknown, TypeOK, PcState, Running,
        Reason, OpErr, CtxState, res
  <2> QED
    BY <2>1, <1>15 DEF CommitCheck, TypeOK, db, ctl, ctxs, data
<1>16. CASE CommitRollback
  <2>1. /\ pc' \in PcState /\ reason' \in Reason /\ unknown' \in BOOLEAN
    BY <1>16 DEF CommitRollback, Finish, OutcomeUnknown, TypeOK, PcState, Reason
  <2>2. tx' \in TxState /\ pending' \subseteq Ids
    BY <1>16 DEF CommitRollback, TxRolledBack, TxOrphaned, TxFinished, TypeOK,
        TxState
  <2> QED
    BY <2>1, <2>2, <1>16 DEF CommitRollback, TypeOK, ctl, ctxs, data
<1>17. CASE SendCommit
  <2>1. /\ pc' \in PcState /\ reason' \in Reason /\ unknown' \in BOOLEAN
    BY <1>17 DEF SendCommit, Goto, OutcomeUnknown, TypeOK, PcState, Running,
        Reason, res
  <2>2. tx' \in TxState
    BY <1>17 DEF SendCommit, TypeOK, TxState
  <2> QED
    BY <2>1, <2>2, <1>17 DEF SendCommit, TypeOK, ctl, ctxs, data
<1>18. CASE CommitAcked
  BY <1>18, Finite DEF CommitAcked, TypeOK, db, ctl, ctxs, data, res,
      PcState, Running, Goto, TxState, CtxState
<1>19. CASE CommitAckLost
  BY <1>19 DEF CommitAckLost, TypeOK, db, ctl, ctxs, data, res, PcState,
      Running, Goto, Finish, OutcomeUnknown, Reason
<1>20. CASE ReceiptAccepted
  <2>1. /\ pc' \in PcState /\ reason' \in Reason /\ unknown' \in BOOLEAN
    BY <1>20 DEF ReceiptAccepted, Finish, Goto, TypeOK, PcState, Running, Reason, res
  <2>2. receipts' \in Seq(Nat)
    BY <1>20, AppendProperties DEF ReceiptAccepted, TypeOK
  <2>3. lastID' \in Ids \cup {NoId}
    BY <1>20, LastOfIsMax, Finite DEF ReceiptAccepted, TypeOK, Core, PastPurged
  <2> QED
    BY <2>1, <2>2, <2>3, <1>20 DEF ReceiptAccepted, TypeOK, db, ctl, ctxs
<1>21. CASE ReceiptRefused
  <2>1. /\ pc' \in PcState /\ reason' \in Reason /\ unknown' \in BOOLEAN
    BY <1>21 DEF ReceiptRefused, Finish, TypeOK, PcState, Reason
  <2>2. receipts' \in Seq(Nat)
    BY <1>21, AppendProperties DEF ReceiptRefused, TypeOK
  <2> QED
    BY <2>1, <2>2, <1>21 DEF ReceiptRefused, TypeOK, db, ctl, ctxs
<1>22. CASE RateWait
  <2>1. /\ pc' \in PcState /\ reason' \in Reason /\ unknown' \in BOOLEAN
    BY <1>22 DEF RateWait, Finish, Goto, TypeOK, PcState, Running, Reason,
        CtxState, res
  <2> QED
    BY <2>1, <1>22 DEF RateWait, TypeOK, db, ctl, ctxs, data
<1>23. CASE Return
  BY <1>23 DEF Return, TypeOK, db, ctl, ctxs, data, res, PcState, Running,
      Goto, CtxState, Canceled, Stale
<1>24. CASE OpTimeout
  BY <1>24 DEF OpTimeout, TypeOK, db, ctl, ctxs, data, res, CtxState,
      Canceled, Stale
<1>25. CASE AwaitDone
  BY <1>25 DEF AwaitDone, TypeOK, db, ctl, ctxs, data, res, TxState
<1>26. CASE ServerCommits
  BY <1>26 DEF ServerCommits, TypeOK, db, ctl, ctxs, data, res, TxState,
      RowState
<1>27. CASE ServerAborts
  BY <1>27 DEF ServerAborts, TypeOK, db, ctl, ctxs, data, res, TxState
<1>28. ASSUME NEW s \in Stoppers, StopStores(s) PROVE TypeOK'
  BY <1>28 DEF StopStores, TypeOK, db, ctl, ctxs, data, res
<1>29. ASSUME NEW s \in Stoppers, StopLoads(s) PROVE TypeOK'
  BY <1>29 DEF StopLoads, TypeOK, db, ctl, ctxs, data, res
<1>30. ASSUME NEW s \in Stoppers, StopCancels(s) PROVE TypeOK'
  BY <1>30 DEF StopCancels, TypeOK, db, ctl, ctxs, data, res, CtxState,
      Canceled, Stale
<1>31. ASSUME NEW w \in Waiters, WaitReturns(w) PROVE TypeOK'
  BY <1>31 DEF WaitReturns, TypeOK, db, ctl, ctxs, data, res
<1>32. ASSUME NEW id \in Ids, OtherClientWrites(id) PROVE TypeOK'
  BY <1>32 DEF OtherClientWrites, TypeOK, db, ctl, ctxs, data, res, RowState
<1>33. ASSUME NEW cause \in {"canceled", "timeout"}, RunCtxEnds(cause) PROVE TypeOK'
  BY <1>33 DEF RunCtxEnds, TypeOK, db, ctl, ctxs, data, res, CtxState,
      Canceled, Stale
<1>34. CASE UNCHANGED vars
  BY <1>34 DEF vars, TypeOK, db, ctl, ctxs, data, res
<1> QED
  BY <1>1, <1>2, <1>3, <1>4, <1>5, <1>6, <1>7, <1>8, <1>9, <1>10, <1>11,
      <1>12, <1>13, <1>14, <1>15, <1>16, <1>17, <1>18, <1>19, <1>20, <1>21,
      <1>22, <1>23, <1>24, <1>25, <1>26, <1>27, <1>28, <1>29, <1>30, <1>31,
      <1>32, <1>33, <1>34 DEF Next, Runner

-----------------------------------------------------------------------------
(* The rest of the invariant.                                                *)

LEMMA InitCore == Init => Core
<1> SUFFICES ASSUME Init PROVE Core
  OBVIOUS
<1>1. Cardinality({}) = 0
  BY FS_EmptySet
<1>2. /\ pc = "idle" /\ tx = "none" /\ pending = {} /\ purged = {}
      /\ committed = 0 /\ unknown = FALSE
  BY DEF Init
<1>3. TxOfPc /\ SentBatch /\ SelectingHasBudget
  BY <1>2 DEF TxOfPc, SentBatch, SelectingHasBudget
<1>4. Counted
  BY <1>1, <1>2 DEF Counted
<1>5. PendingFits /\ committed <= MaxRows
  BY <1>1, <1>2, PlanAssumption DEF PendingFits
<1>6. BatchFits /\ PastPurged
  BY <1>2 DEF BatchFits, PastPurged, Holding
<1> QED BY <1>3, <1>4, <1>5, <1>6 DEF Core

(* Steps that change neither the rows, the batch nor the position of the     *)
(* runner do not disturb it.                                                 *)
LEMMA Frame ==
  ASSUME Core, UNCHANGED <<db, data, pc, unknown>>
  PROVE  Core'
BY DEF Core, TxOfPc, Counted, BatchFits, PendingFits, PastPurged, PastCursor,
       SentBatch, SelectingHasBudget, db, data

LEMMA NextCore == IInv /\ [Next]_vars => Core'
<1> SUFFICES ASSUME IInv, [Next]_vars PROVE Core'
  OBVIOUS
<1> USE PlanAssumption DEF IInv
<1>0. Cardinality({}) = 0
  BY FS_EmptySet
<1>1. ASSUME NEW c \in Callers, Run(c) PROVE Core'
  BY <1>1 DEF Run, Core, TypeOK, TxOfPc, Counted, BatchFits, PendingFits,
      PastPurged, SentBatch, SelectingHasBudget, PastCursor, Holding, Quiet,
      db, ctl, ctxs, data, res, Goto, Finish, OutcomeUnknown
<1>2. CASE Publish
  BY <1>2 DEF Publish, Core, TypeOK, TxOfPc, Counted, BatchFits,
      PendingFits, PastPurged, SentBatch, SelectingHasBudget, PastCursor,
      Holding, Quiet, db, ctl, ctxs, data, res, Goto, Finish, OutcomeUnknown
<1>3. CASE CheckStopped
  BY <1>3 DEF CheckStopped, Core, TypeOK, TxOfPc, Counted, BatchFits,
      PendingFits, PastPurged, SentBatch, SelectingHasBudget, PastCursor,
      Holding, Quiet, db, ctl, ctxs, data, res, Goto, Finish, OutcomeUnknown
<1>4. CASE LoopHead
  BY <1>4 DEF LoopHead, Core, TypeOK, TxOfPc, Counted, BatchFits,
      PendingFits, PastPurged, SentBatch, SelectingHasBudget, PastCursor,
      Holding, Quiet, db, ctl, ctxs, data, res, Goto, Finish, OutcomeUnknown
<1>5. CASE SelectReturns
  <2>1. /\ Candidates \in SUBSET Ids
        /\ Limit \in Nat
        /\ Limit <= BatchSize /\ committed + Limit <= MaxRows
    BY DEF Candidates, Eligible, Limit, TypeOK, Core
  <2>2. CASE ids' = {}
    BY <2>2, <1>5 DEF SelectReturns, Core, TypeOK, TxOfPc, Counted, BatchFits,
        PendingFits, PastPurged, SentBatch, SelectingHasBudget, PastCursor, Holding, Quiet, db, ctl, Finish
  <2>3. CASE ids' # {}
    <3>1. pc = "select" /\ pc' = "guard" /\ ids' = FirstN(Candidates, Limit)
      BY <2>3, <1>5 DEF SelectReturns, Goto
    <3>2. committed < MaxRows
      BY <3>1 DEF Core, SelectingHasBudget
    <3>3. Limit \in Nat \ {0}
      BY <2>1, <3>2 DEF Limit, TypeOK
    <3>4. /\ ids' \subseteq Candidates
          /\ Cardinality(ids') <= Limit
      BY <2>1, <3>1, <3>3, Finite, FirstNBound
    <3>5. Cardinality(ids') \in Nat
      BY <2>1, <3>4, Finite
    <3>6. \A id \in ids' : PastCursor(id)
      BY <3>4 DEF Candidates
    <3>7. Cardinality(ids') <= BatchSize /\ committed + Cardinality(ids') <= MaxRows
      BY <2>1, <3>4, <3>5 DEF TypeOK
    <3> QED
      BY <2>3, <3>1, <3>6, <3>7, <1>5 DEF SelectReturns, Core, TypeOK, TxOfPc,
          Counted, BatchFits, PendingFits, PastPurged, SentBatch, SelectingHasBudget, PastCursor, Holding,
          Quiet, db, ctl, Goto
  <2> QED BY <2>2, <2>3
<1>6. CASE SelectFails
  BY <1>6 DEF SelectFails, Core, TypeOK, TxOfPc, Counted, BatchFits,
      PendingFits, PastPurged, SentBatch, SelectingHasBudget, PastCursor,
      Holding, Quiet, db, ctl, ctxs, data, res, Goto, Finish, OutcomeUnknown
<1>7. CASE GuardApproves
  BY <1>7 DEF GuardApproves, Core, TypeOK, TxOfPc, Counted, BatchFits,
      PendingFits, PastPurged, SentBatch, SelectingHasBudget, PastCursor,
      Holding, Quiet, db, ctl, ctxs, data, res, Goto, Finish, OutcomeUnknown
<1>8. CASE GuardRefuses
  BY <1>8 DEF GuardRefuses, Core, TypeOK, TxOfPc, Counted, BatchFits,
      PendingFits, PastPurged, SentBatch, SelectingHasBudget, PastCursor,
      Holding, Quiet, db, ctl, ctxs, data, res, Goto, Finish, OutcomeUnknown
<1>9. CASE HookPanics
  BY <1>9 DEF HookPanics, Core, TypeOK, TxOfPc, Counted, BatchFits,
      PendingFits, PastPurged, SentBatch, SelectingHasBudget, PastCursor,
      Holding, Quiet, db, ctl, ctxs, data, res, Goto, Finish, OutcomeUnknown
<1>10. CASE Recheck
  BY <1>10 DEF Recheck, Core, TypeOK, TxOfPc, Counted, BatchFits,
      PendingFits, PastPurged, SentBatch, SelectingHasBudget, PastCursor,
      Holding, Quiet, db, ctl, ctxs, data, res, Goto, Finish, OutcomeUnknown
<1>11. CASE Begin
  BY <1>11 DEF Begin, Core, TypeOK, TxOfPc, Counted, BatchFits, PendingFits,
      PastPurged, SentBatch, SelectingHasBudget, PastCursor, Holding, Quiet,
      db, ctl, ctxs, data, res, Goto, Finish, OutcomeUnknown
<1>12. CASE Exec
  <2>1. /\ pending' \subseteq ids
        /\ \A id \in pending' : table[id] = "old"
    BY <1>12 DEF Exec, Eligible
  <2>2. Cardinality(pending') <= Cardinality(ids)
    BY <2>1, Finite, FS_Subset DEF TypeOK
  <2>3. Cardinality(pending') \in Nat /\ Cardinality(ids) \in Nat
    BY <2>1, Finite DEF TypeOK
  <2>4. \A p \in purged : p \notin ids
    BY <1>12 DEF Exec, Core, TypeOK, PastPurged, SentBatch, SelectingHasBudget, PastCursor, Holding
  <2>5. /\ tx' = "open" /\ committed' = committed /\ purged' = purged
        /\ ids' = ids /\ lastID' = lastID /\ table' = table
        /\ pc' \in {"commit", "rollback"}
        /\ pc' = "commit" => pending' = ids
    BY <1>12 DEF Exec, RollbackBecause, Goto, data
  <2>6. /\ ids # {} /\ Cardinality(ids) <= BatchSize
        /\ committed + Cardinality(ids) <= MaxRows
        /\ \A id \in ids : PastCursor(id)
        /\ \A p \in purged : lastID # NoId /\ p <= lastID
        /\ committed = Cardinality(purged)
        /\ tx = "open"
    BY <1>12 DEF Exec, Core, BatchFits, PastPurged, Holding, Counted
  <2>7. PendingFits'
    BY <2>1, <2>2, <2>3, <2>4, <2>5, <2>6 DEF PendingFits, TypeOK
  <2>8. TxOfPc'
    BY <2>5 DEF TxOfPc, Quiet
  <2>9. PastPurged'
    BY <2>5, <2>6 DEF PastPurged, PastCursor, Holding
  <2>10. (BatchFits /\ Counted /\ SentBatch /\ SelectingHasBudget)'
    BY <2>5, <2>6 DEF BatchFits, Counted, SentBatch, SelectingHasBudget, Holding
  <2> QED
    BY <2>5, <2>7, <2>8, <2>9, <2>10 DEF Core
<1>13. CASE ExecFails
  BY <1>13 DEF ExecFails, RollbackBecause, Core, TypeOK, TxOfPc, Counted,
      BatchFits, PendingFits, PastPurged, SentBatch, SelectingHasBudget,
      PastCursor, Holding, Quiet, db, ctl, ctxs, data, res, Goto, Finish,
      OutcomeUnknown
<1>14. CASE Rollback
  <2>1. /\ tx' \in {"none", "aborted", "orphan"}
        /\ pc' = "return"
        /\ ~unknown' => tx' \in {"none", "aborted"}
        /\ pending' = {} \/ (tx' = "orphan" /\ pending' = pending)
        /\ committed' = committed /\ purged' = purged /\ ids' = ids
        /\ lastID' = lastID /\ table' = table /\ tx # "committed"
    BY <1>14 DEF Rollback, TxRolledBack, TxFinished, TxOrphaned, Finish,
        OutcomeUnknown, data, Core, TxOfPc
  <2>2. TxOfPc'
    BY <2>1 DEF TxOfPc, Quiet
  <2>3. PendingFits'
    <3>1. CASE pending' = pending
      BY <2>1, <3>1 DEF PendingFits, Core
    <3>2. CASE pending' = {}
      BY <1>0, <2>1, <3>2 DEF PendingFits, Core, TypeOK
    <3> QED BY <2>1, <3>1, <3>2
  <2>4. (Counted /\ BatchFits /\ PastPurged /\ SentBatch /\ SelectingHasBudget)'
    BY <2>1 DEF Core, Counted, BatchFits, PastPurged, SentBatch,
        SelectingHasBudget, Holding
  <2> QED
    BY <2>1, <2>2, <2>3, <2>4 DEF Core
<1>15. CASE CommitCheck
  BY <1>15 DEF CommitCheck, Core, TypeOK, TxOfPc, Counted, BatchFits,
      PendingFits, PastPurged, SentBatch, SelectingHasBudget, PastCursor,
      Holding, Quiet, db, ctl, ctxs, data, res, Goto, Finish, OutcomeUnknown
<1>16. CASE CommitRollback
  <2>1. /\ tx' \in {"none", "aborted", "orphan"}
        /\ pc' = "return"
        /\ ~unknown' => tx' \in {"none", "aborted"}
        /\ pending' = {} \/ (tx' = "orphan" /\ pending' = pending)
        /\ committed' = committed /\ purged' = purged /\ ids' = ids
        /\ lastID' = lastID /\ table' = table /\ tx # "committed"
    BY <1>16 DEF CommitRollback, TxRolledBack, TxFinished, TxOrphaned, Finish,
        OutcomeUnknown, data, Core, TxOfPc
  <2>2. TxOfPc'
    BY <2>1 DEF TxOfPc, Quiet
  <2>3. PendingFits'
    <3>1. CASE pending' = pending
      BY <2>1, <3>1 DEF PendingFits, Core
    <3>2. CASE pending' = {}
      BY <1>0, <2>1, <3>2 DEF PendingFits, Core, TypeOK
    <3> QED BY <2>1, <3>1, <3>2
  <2>4. (Counted /\ BatchFits /\ PastPurged /\ SentBatch /\ SelectingHasBudget)'
    BY <2>1 DEF Core, Counted, BatchFits, PastPurged, SentBatch,
        SelectingHasBudget, Holding
  <2> QED
    BY <2>1, <2>2, <2>3, <2>4 DEF Core
<1>17. CASE SendCommit
  BY <1>17 DEF SendCommit, Core, TypeOK, TxOfPc, Counted, BatchFits,
      PendingFits, PastPurged, SentBatch, SelectingHasBudget, PastCursor,
      Holding, Quiet, db, ctl, ctxs, data, res, Goto, Finish, OutcomeUnknown
<1>18. CASE CommitAcked
  <2>1. Cardinality(ids) \in Nat /\ Cardinality(purged) \in Nat
    BY Finite DEF TypeOK
  <2>2. /\ tx' = "none" /\ pc' = "receipt" /\ pending' = pending /\ pending = {}
        /\ purged' = purged /\ ids' = ids /\ lastID' = lastID /\ table' = table
        /\ committed' = committed + Cardinality(ids)
        /\ pc = "ack" /\ tx = "committed"
    BY <1>18 DEF CommitAcked, Goto, Core, TxOfPc
  <2>3. committed' = Cardinality(purged) /\ committed' <= MaxRows
    BY <2>2 DEF Core, Counted
  <2>4. /\ ids # {} /\ Cardinality(ids) <= BatchSize
        /\ \A p \in purged : \E q \in ids : p <= q
    BY <2>2 DEF Core, PastPurged
  <2>5. PendingFits'
    BY <1>0, <2>1, <2>2, <2>3 DEF PendingFits
  <2>6. TxOfPc'
    BY <2>2 DEF TxOfPc, Quiet
  <2>7. PastPurged'
    BY <2>2, <2>4 DEF PastPurged, Holding
  <2>8. (Counted /\ BatchFits /\ SentBatch /\ SelectingHasBudget)'
    BY <2>2, <2>3 DEF Counted, BatchFits, SentBatch, SelectingHasBudget, Holding
  <2> QED
    BY <2>3, <2>5, <2>6, <2>7, <2>8 DEF Core
<1>19. CASE CommitAckLost
  BY <1>19 DEF CommitAckLost, Core, TypeOK, TxOfPc, Counted, BatchFits,
      PendingFits, PastPurged, SentBatch, SelectingHasBudget, PastCursor,
      Holding, Quiet, db, ctl, ctxs, data, res, Goto, Finish, OutcomeUnknown
<1>20. CASE ReceiptAccepted
  <2>1. ids # {}
    BY <1>20 DEF ReceiptAccepted, Core, PastPurged
  <2>2. LastOf(ids) \in ids /\ \A q \in ids : q <= LastOf(ids)
    BY <2>1, Finite, LastOfIsMax DEF TypeOK
  <2>3. \A p \in purged : p <= LastOf(ids)
    <3>1. \A p \in purged : \E q \in ids : p <= q
      BY <1>20 DEF ReceiptAccepted, Core, PastPurged
    <3>2. \A p \in purged : p \in Int
      BY DEF TypeOK
    <3>3. \A q \in ids : q \in Int
      BY DEF TypeOK
    <3> QED BY <2>2, <3>1, <3>2, <3>3
  <2>4. lastID' \in Ids /\ lastID' # NoId
    BY <2>2, <1>20 DEF ReceiptAccepted, TypeOK
  <2> QED
    BY <2>3, <2>4, <1>20 DEF ReceiptAccepted, Core, TypeOK, TxOfPc, Counted,
        BatchFits, PendingFits, PastPurged, SentBatch, SelectingHasBudget, PastCursor, Holding, Quiet, db,
        ctl, ctxs, Goto, Finish
<1>21. CASE ReceiptRefused
  BY <1>21 DEF ReceiptRefused, Core, TypeOK, TxOfPc, Counted, BatchFits,
      PendingFits, PastPurged, SentBatch, SelectingHasBudget, PastCursor,
      Holding, Quiet, db, ctl, ctxs, data, res, Goto, Finish, OutcomeUnknown
<1>22. CASE RateWait
  BY <1>22 DEF RateWait, Core, TypeOK, TxOfPc, Counted, BatchFits,
      PendingFits, PastPurged, SentBatch, SelectingHasBudget, PastCursor,
      Holding, Quiet, db, ctl, ctxs, data, res, Goto, Finish, OutcomeUnknown
<1>23. CASE Return
  BY <1>23 DEF Return, Core, TypeOK, TxOfPc, Counted, BatchFits,
      PendingFits, PastPurged, SentBatch, SelectingHasBudget, PastCursor,
      Holding, Quiet, db, ctl, ctxs, data, res, Goto, Finish, OutcomeUnknown
<1>24. CASE OpTimeout
  BY <1>24, Frame DEF OpTimeout, res
<1>25. CASE AwaitDone
  BY <1>25, <1>0 DEF AwaitDone, Core, TypeOK, TxOfPc, Counted, BatchFits,
      PendingFits, PastPurged, SentBatch, SelectingHasBudget, PastCursor, Holding, Quiet, ctl, ctxs, data, res
<1>26. CASE ServerCommits
  <2>1. /\ IsFiniteSet(purged) /\ IsFiniteSet(pending)
        /\ Cardinality(purged) \in Nat /\ Cardinality(pending) \in Nat
    BY Finite DEF TypeOK
  <2>2. pending \cap purged = {} /\ pending = ids /\ committed = Cardinality(purged)
    BY <1>26 DEF ServerCommits, Core, PendingFits, TxOfPc, Counted
  <2>3. Cardinality(purged \cup pending) = Cardinality(purged) + Cardinality(pending)
    <3>1. Cardinality(purged \cap pending) = 0
      BY <1>0, <2>2
    <3>2. Cardinality(purged \cup pending) =
            Cardinality(purged) + Cardinality(pending) - Cardinality(purged \cap pending)
      BY <2>1, FS_Union
    <3> QED BY <2>1, <3>1, <3>2
  <2>4. ids # {} /\ \A p \in purged : \E q \in ids : p <= q
    BY <1>26 DEF ServerCommits, Core, TypeOK, PastPurged, SentBatch
  <2> QED
    BY <1>0, <2>1, <2>2, <2>3, <2>4, <1>26 DEF ServerCommits, Core, TypeOK,
        TxOfPc, Counted, BatchFits, PendingFits, PastPurged, SentBatch, SelectingHasBudget, PastCursor,
        Holding, Quiet, ctl, ctxs, data, res
<1>27. CASE ServerAborts
  BY <1>27, <1>0 DEF ServerAborts, Core, TypeOK, TxOfPc, Counted, BatchFits,
      PendingFits, PastPurged, SentBatch, SelectingHasBudget, PastCursor, Holding, Quiet, ctl, ctxs, data, res
<1>28. ASSUME NEW s \in Stoppers, StopStores(s) PROVE Core'
  BY <1>28, Frame DEF StopStores, res
<1>29. ASSUME NEW s \in Stoppers, StopLoads(s) PROVE Core'
  BY <1>29, Frame DEF StopLoads, res
<1>30. ASSUME NEW s \in Stoppers, StopCancels(s) PROVE Core'
  BY <1>30, Frame DEF StopCancels, res
<1>31. ASSUME NEW w \in Waiters, WaitReturns(w) PROVE Core'
  BY <1>31, Frame DEF WaitReturns, res
<1>32. ASSUME NEW id \in Ids, OtherClientWrites(id) PROVE Core'
  BY <1>32 DEF OtherClientWrites, Core, TypeOK, TxOfPc, Counted, BatchFits,
      PendingFits, PastPurged, SentBatch, SelectingHasBudget, PastCursor,
      Holding, Quiet, db, ctl, ctxs, data, res, Goto, Finish, OutcomeUnknown
<1>33. ASSUME NEW cause \in {"canceled", "timeout"}, RunCtxEnds(cause) PROVE Core'
  BY <1>33, Frame DEF RunCtxEnds, res
<1>34. CASE UNCHANGED vars
  BY <1>34, Frame DEF vars, res
<1> QED
  BY <1>1, <1>2, <1>3, <1>4, <1>5, <1>6, <1>7, <1>8, <1>9, <1>10, <1>11,
      <1>12, <1>13, <1>14, <1>15, <1>16, <1>17, <1>18, <1>19, <1>20, <1>21,
      <1>22, <1>23, <1>24, <1>25, <1>26, <1>27, <1>28, <1>29, <1>30, <1>31,
      <1>32, <1>33, <1>34 DEF Next, Runner

LEMMA Invariance == Spec => []IInv
<1>1. Init => IInv
  BY InitTypeOK, InitCore DEF IInv
<1>2. IInv /\ [Next]_vars => IInv'
  BY NextTypeOK, NextCore DEF IInv
<1> QED BY <1>1, <1>2, PTL DEF Spec

-----------------------------------------------------------------------------
(* The theorems.                                                             *)

(* Every variable keeps its type. *)
THEOREM TypeCorrect == Spec => []TypeOK
<1>1. IInv => TypeOK
  BY DEF IInv
<1> QED BY <1>1, Invariance, PTL

(* MaxRows bounds the rows the run removes, whatever replies are lost,       *)
(* deadlines pass or rows other clients write, for every batch size.         *)
THEOREM BudgetIsExact == Spec => []BudgetHolds
<1>1. IInv => BudgetHolds
  BY DEF IInv, TypeOK, Core, Counted, BudgetHolds
<1> QED BY <1>1, Invariance, PTL

(* A known outcome counts exactly the rows that are gone, and no COMMIT is   *)
(* under way any more; an unknown one leaves at most one batch in doubt.     *)
THEOREM OutcomeIsExact == Spec => []KnownOutcomeIsExact
<1>1. ASSUME IInv PROVE KnownOutcomeIsExact
  <2> USE PlanAssumption, <1>1 DEF IInv, TypeOK
  <2>1. Cardinality(ids) \in Nat /\ Cardinality(purged) \in Nat
    BY Finite
  <2>2. CASE pc \in {"return", "done"} /\ ~unknown
    BY <2>2 DEF Core, TxOfPc, Counted, KnownOutcomeIsExact
  <2>3. CASE pc \in {"return", "done"} /\ unknown
    <3>1. CASE tx = "committed"
      BY <2>1, <2>3, <3>1 DEF Core, Counted, PastPurged, KnownOutcomeIsExact
    <3>2. CASE tx # "committed"
      BY <2>1, <2>3, <3>2 DEF Core, Counted, KnownOutcomeIsExact
    <3> QED BY <3>1, <3>2
  <2> QED BY <2>2, <2>3 DEF KnownOutcomeIsExact
<1> QED BY <1>1, Invariance, PTL

-----------------------------------------------------------------------------
(* Refinement of BudgetedDelete.                                             *)

Ended == pc \in {"return", "done"}

(* Only the server's COMMIT removes rows, only its acknowledgement counts    *)
(* them, and a run that has ended stays ended with the outcome it has.       *)
LEMMA StepShape ==
  ASSUME [Next]_vars
  PROVE  /\ ServerCommits \/ CommitAcked \/ UNCHANGED <<purged, committed>>
         /\ ServerCommits => UNCHANGED <<committed, pc, unknown>>
         /\ Ended => Ended' /\ unknown' = unknown
         /\ CommitAcked => ~Ended /\ ~Ended' /\ purged' = purged
BY DEF Ended, Next, Runner, vars, db, ctl, ctxs, data, res, Goto, Finish,
   OutcomeUnknown, RollbackBecause, Run, Publish, CheckStopped, LoopHead,
   SelectReturns, SelectFails, GuardApproves, GuardRefuses, HookPanics,
   Recheck, Begin, Exec, ExecFails, Rollback, CommitCheck, CommitRollback,
   SendCommit, CommitAcked, CommitAckLost, ReceiptAccepted, ReceiptRefused,
   RateWait, Return, OpTimeout, RunCtxEnds, AwaitDone, StopStores, StopLoads,
   StopCancels, WaitReturns, OtherClientWrites, ServerCommits, ServerAborts,
   Running, OpWindow

LEMMA SameCardinality ==
  ASSUME NEW S
  PROVE  Budgeted!Cardinality(S) = Cardinality(S)
BY DEF Cardinality, Budgeted!Cardinality

(* The COMMIT taking effect at the server is the abstract purge of a batch,  *)
(* in a run that is under way or has given up on the batch's outcome.        *)
LEMMA CommitIsPurge ==
  ASSUME IInv, [Next]_vars, ServerCommits
  PROVE  Budgeted!Next
<1> USE PlanAssumption DEF IInv, TypeOK
<1>1. UNCHANGED <<committed, pc, unknown>>
  BY StepShape
<1>2. /\ tx = "sent" /\ purged' = purged \cup pending /\ pending = ids
      /\ committed = Cardinality(purged)
  BY DEF ServerCommits, Core, TxOfPc, Counted
<1>3. pending # {} /\ Cardinality(pending) \in 1..BatchSize
  <2>1. pending # {} /\ Cardinality(pending) \in Nat /\ IsFiniteSet(pending)
    BY <1>2, Finite DEF Core, SentBatch
  <2>2. Cardinality(pending) # 0
    BY <2>1, FS_EmptySet
  <2> QED BY <2>1, <2>2 DEF Core, PendingFits
<1>4. /\ committed + Cardinality(pending) <= MaxRows
      /\ pending \in SUBSET (Ids \ purged)
  BY DEF Core, PendingFits
<1>5. PurgeOutcome # "exact" /\ PurgeOutcome' = PurgeOutcome
  BY <1>1, <1>2 DEF PurgeOutcome, Core, TxOfPc
<1>6. Budgeted!Purge(pending)
  BY <1>1, <1>2, <1>3, <1>4, <1>5, SameCardinality DEF Budgeted!Purge
<1> QED BY <1>4, <1>6 DEF Budgeted!Next

(* Its acknowledgement is the abstract one. *)
LEMMA AckIsAcknowledge ==
  ASSUME IInv, [Next]_vars, CommitAcked
  PROVE  Budgeted!Next
<1> USE PlanAssumption DEF IInv, TypeOK
<1>1. ~Ended /\ ~Ended' /\ purged' = purged
  BY StepShape
<1>2. tx = "committed" /\ pc = "ack" /\ committed' = committed + Cardinality(ids)
  BY DEF CommitAcked
<1>3. committed' = Cardinality(purged)
  BY <1>2 DEF Core, Counted
<1>4. Cardinality(ids) \in Nat \ {0}
  <2>1. ids # {} /\ Cardinality(ids) \in Nat /\ IsFiniteSet(ids)
    BY <1>2, Finite DEF Core, PastPurged
  <2> QED BY <2>1, FS_EmptySet
<1>5. committed < Cardinality(purged)
  BY <1>2, <1>3, <1>4
<1>6. PurgeOutcome = "running" /\ PurgeOutcome' = "running"
  BY <1>1 DEF PurgeOutcome, Ended
<1> QED
  BY <1>1, <1>3, <1>5, <1>6, SameCardinality DEF Budgeted!Next, Budgeted!Acknowledge

(* Every other step closes the run or is invisible. *)
LEMMA OtherIsCloseOrStutter ==
  ASSUME IInv, IInv', [Next]_vars, UNCHANGED <<purged, committed>>
  PROVE  Budgeted!Next \/ UNCHANGED Budgeted!vars
<1> USE DEF IInv, TypeOK
<1>1. CASE Ended
  <2>1. PurgeOutcome' = PurgeOutcome
    BY <1>1, StepShape DEF PurgeOutcome, Ended
  <2> QED BY <2>1 DEF Budgeted!vars
<1>2. CASE ~Ended /\ ~Ended'
  BY <1>2 DEF PurgeOutcome, Ended, Budgeted!vars
<1>3. CASE ~Ended /\ Ended' /\ unknown'
  BY <1>3 DEF PurgeOutcome, Ended, Budgeted!Next, Budgeted!Close
<1>4. CASE ~Ended /\ Ended' /\ ~unknown'
  <2>1. tx' # "committed"
    BY <1>4 DEF Core, TxOfPc, Ended
  <2>2. committed = Cardinality(purged)
    BY <2>1 DEF Core, Counted
  <2> QED
    BY <1>4, <2>2, SameCardinality DEF PurgeOutcome, Ended, Budgeted!Next, Budgeted!Close
<1> QED BY <1>1, <1>2, <1>3, <1>4

(* A controlled run implements the budgeted purge: every COMMIT it sends is  *)
(* a purge within the budget, and it claims exactness only when it has it.   *)
THEOREM Refinement == Spec => ImplementsBudgetedDelete
<1>1. Init => Budgeted!Init
  BY DEF Init, Budgeted!Init, PurgeOutcome
<1>2. IInv /\ IInv' /\ [Next]_vars => [Budgeted!Next]_(Budgeted!vars)
  <2> SUFFICES ASSUME IInv, IInv', [Next]_vars
               PROVE  Budgeted!Next \/ UNCHANGED Budgeted!vars
    OBVIOUS
  <2>1. CASE ServerCommits
    BY <2>1, CommitIsPurge
  <2>2. CASE CommitAcked
    BY <2>2, AckIsAcknowledge
  <2>3. CASE UNCHANGED <<purged, committed>>
    BY <2>3, OtherIsCloseOrStutter
  <2> QED BY <2>1, <2>2, <2>3, StepShape
<1> QED
  BY <1>1, <1>2, Invariance, PTL DEF Spec, ImplementsBudgetedDelete, Budgeted!Spec

(* Only rows before the cutoff go, also when they were written between the   *)
(* candidate read and the DELETE.                                            *)
THEOREM OnlyEligible == Spec => OnlyEligibleRowsGo
<1>1. ASSUME IInv, [Next]_vars PROVE \A id \in purged' \ purged : table[id] = "old"
  <2>1. CASE ServerCommits
    BY <2>1, <1>1 DEF ServerCommits, IInv, Core, PendingFits
  <2>2. CASE CommitAcked
    BY <2>2, <1>1, StepShape
  <2>3. CASE UNCHANGED <<purged, committed>>
    BY <2>3
  <2> QED BY <1>1, <2>1, <2>2, <2>3, StepShape
<1>2. IInv /\ [Next]_vars => [\A id \in purged' \ purged : table[id] = "old"]_vars
  BY <1>1
<1> QED BY <1>2, Invariance, PTL DEF Spec, OnlyEligibleRowsGo

-----------------------------------------------------------------------------
(* Approvals, Stop and Wait.                                                 *)

(* While a statement's deadline has not passed, the approval it was armed    *)
(* with is fresh. *)
Approved == pc \in {"armed", "begin", "exec"} /\ OpErr = "live" => approval = "fresh"

(* A Stop has raised its flag before it looks for the cancel function, and   *)
(* Run publishes that function before it reads the flag: one of the two      *)
(* finds the other.                                                          *)
StopHeld ==
  /\ \A s \in Stoppers : stop[s] # "idle" => stopped
  /\ pc \notin {"idle", "publish", "done"} => cancelFn
  /\ pc = "done" => runCtx # "live"
  /\ pc \notin {"idle", "publish", "check"} =>
       \A s \in Stoppers : stop[s] = "returned" => runCtx # "live"

Confirmed == \A w \in Waiters : wait[w] = "confirmed" => pc = "done"

Control == Approved /\ StopHeld /\ Confirmed

(* A DELETE is the Exec of an open transaction within its deadline. *)
LEMMA DeleteIsExec ==
  ASSUME [Next]_vars, DeleteRuns
  PROVE  Exec
BY DEF DeleteRuns, Next, Runner, vars, db, Run, Publish, CheckStopped, LoopHead, SelectReturns,
   SelectFails, GuardApproves, GuardRefuses, HookPanics, Recheck, Begin, ExecFails, Rollback,
   TxRolledBack, TxOrphaned, TxFinished, CommitCheck, CommitRollback, SendCommit, CommitAcked,
   CommitAckLost, ReceiptAccepted, ReceiptRefused, RateWait, Return, OpTimeout, RunCtxEnds,
   AwaitDone, StopStores, StopLoads, StopCancels, WaitReturns, OtherClientWrites, ServerCommits,
   ServerAborts

(* Which steps end a context, approve a batch or move the flags. *)
LEMMA ApprovalShape ==
  ASSUME TypeOK, [Next]_vars
  PROVE  \/ GuardApproves
         \/ OpErr' # "live"
         \/ pc' \notin {"armed", "begin", "exec"}
         \/ /\ UNCHANGED <<approval, runCtx, opCtx>>
            /\ pc' \in {"armed", "begin", "exec"} => pc \in {"armed", "begin", "exec"}
<1> USE DEF Goto, Finish, OutcomeUnknown, RollbackBecause, OpErr, ctxs
<1>1. CASE Runner
  BY <1>1 DEF Runner, Publish, CheckStopped, LoopHead, SelectReturns, SelectFails, GuardApproves,
     GuardRefuses, HookPanics, Recheck, Begin, Exec, ExecFails, Rollback, CommitCheck,
     CommitRollback, SendCommit, CommitAcked, CommitAckLost, ReceiptAccepted, ReceiptRefused,
     RateWait, Return
<1>2. CASE ~Runner
  BY <1>2 DEF Next, vars, Run, OpTimeout, RunCtxEnds, AwaitDone, StopStores, StopLoads,
     StopCancels, Canceled, Stale, WaitReturns, OtherClientWrites, ServerCommits, ServerAborts,
     TypeOK, CtxState
<1> QED BY <1>1, <1>2

LEMMA StepApproved == TypeOK /\ Approved /\ [Next]_vars => Approved'
<1> SUFFICES ASSUME TypeOK, Approved, [Next]_vars PROVE Approved'
  OBVIOUS
<1>1. CASE GuardApproves
  BY <1>1 DEF GuardApproves, Approved, OpErr
<1>2. CASE OpErr' # "live" \/ pc' \notin {"armed", "begin", "exec"}
  BY <1>2 DEF Approved
<1>3. CASE UNCHANGED <<approval, runCtx, opCtx>>
           /\ (pc' \in {"armed", "begin", "exec"} => pc \in {"armed", "begin", "exec"})
  BY <1>3 DEF Approved, OpErr
<1> QED BY <1>1, <1>2, <1>3, ApprovalShape

(* The steps of the run and the server leave Stop and Wait alone. *)
LEMMA ControlShape ==
  ASSUME TypeOK, [Next]_vars
  PROVE  \/ \E c \in Callers : Run(c)
         \/ Publish \/ CheckStopped \/ Return
         \/ \E s \in Stoppers : StopStores(s) \/ StopLoads(s) \/ StopCancels(s)
         \/ \E w \in Waiters : WaitReturns(w)
         \/ /\ UNCHANGED <<cancelFn, stopped, stop, wait>>
            /\ runCtx # "live" => runCtx' # "live"
            /\ pc' = pc \/ (pc \notin {"idle", "publish", "check", "done"}
                            /\ pc' \notin {"idle", "publish", "check", "done"})
<1> USE DEF Goto, Finish, OutcomeUnknown, RollbackBecause, ctl, ctxs, res
<1>1. CASE Runner
  BY <1>1 DEF Runner, LoopHead, SelectReturns, SelectFails, GuardApproves,
     GuardRefuses, HookPanics, Recheck, Begin, Exec, ExecFails, Rollback, CommitCheck,
     CommitRollback, SendCommit, CommitAcked, CommitAckLost, ReceiptAccepted, ReceiptRefused,
     RateWait
<1>2. CASE ~Runner
  BY <1>2 DEF Next, vars, OpTimeout, RunCtxEnds, AwaitDone, OtherClientWrites, ServerCommits,
     ServerAborts
<1> QED BY <1>1, <1>2

LEMMA StepStopHeld == TypeOK /\ StopHeld /\ [Next]_vars => StopHeld'
<1> SUFFICES ASSUME TypeOK, StopHeld, [Next]_vars PROVE StopHeld'
  OBVIOUS
<1> USE DEF StopHeld
<1>1. ASSUME NEW c \in Callers, Run(c) PROVE StopHeld'
  BY <1>1 DEF Run, ctxs
<1>2. CASE Publish
  BY <1>2 DEF Publish, Goto, ctxs
<1>3. CASE CheckStopped
  BY <1>3 DEF CheckStopped, Goto, Canceled, ctl
<1>4. CASE Return
  BY <1>4 DEF Return, Canceled
<1>5. ASSUME NEW s \in Stoppers, StopStores(s) PROVE StopHeld'
  BY <1>5 DEF StopStores, ctxs, TypeOK
<1>6. ASSUME NEW s \in Stoppers, StopLoads(s) PROVE StopHeld'
  BY <1>6 DEF StopLoads, ctxs, TypeOK
<1>7. ASSUME NEW s \in Stoppers, StopCancels(s) PROVE StopHeld'
  BY <1>7 DEF StopCancels, Canceled, TypeOK
<1>8. ASSUME NEW w \in Waiters, WaitReturns(w) PROVE StopHeld'
  BY <1>8 DEF WaitReturns, ctxs
<1>9. CASE /\ UNCHANGED <<cancelFn, stopped, stop, wait>>
           /\ runCtx # "live" => runCtx' # "live"
           /\ pc' = pc \/ (pc \notin {"idle", "publish", "check", "done"}
                            /\ pc' \notin {"idle", "publish", "check", "done"})
  BY <1>9
<1> QED BY <1>1, <1>2, <1>3, <1>4, <1>5, <1>6, <1>7, <1>8, <1>9, ControlShape

LEMMA StepConfirmed == TypeOK /\ Confirmed /\ [Next]_vars => Confirmed'
<1> SUFFICES ASSUME TypeOK, Confirmed, [Next]_vars PROVE Confirmed'
  OBVIOUS
<1>1. pc = "done" => pc' = "done"
  BY ControlShape DEF Run, Publish, CheckStopped, Return, StopStores, StopLoads, StopCancels,
     WaitReturns
<1>2. wait' = wait \/ \E w \in Waiters : WaitReturns(w)
  BY ControlShape DEF Run, Publish, CheckStopped, Return, StopStores, StopLoads, StopCancels, ctl
<1>3. CASE wait' = wait
  BY <1>1, <1>3 DEF Confirmed
<1>4. ASSUME NEW w \in Waiters, WaitReturns(w) PROVE Confirmed'
  BY <1>1, <1>4 DEF WaitReturns, Confirmed, TypeOK
<1> QED BY <1>2, <1>3, <1>4

LEMMA ControlInvariance == Spec => []Control
<1>1. Init => Control
  BY DEF Init, Control, Approved, StopHeld, Confirmed
<1>2. IInv /\ Control /\ [Next]_vars => Control'
  BY StepApproved, StepStopHeld, StepConfirmed DEF IInv, Control
<1> QED BY <1>1, <1>2, Invariance, PTL DEF Spec

(* Every DELETE runs on an approval for this batch whose statement deadline  *)
(* has not passed.                                                           *)
THEOREM ApprovalsAreFresh == Spec => DeletesAreFreshlyApproved
<1>1. Control /\ [Next]_vars => [DeleteRuns => approval = "fresh"]_vars
  BY DeleteIsExec DEF Control, Approved, Exec
<1> QED BY <1>1, ControlInvariance, PTL DEF Spec, DeletesAreFreshlyApproved

(* No DELETE follows a Stop that has returned, wherever Run was when it came. *)
THEOREM StopHolds == Spec => StopIsNeverLost
<1>1. ASSUME Control, [Next]_vars, DeleteRuns, NEW s \in Stoppers
      PROVE  stop[s] # "returned"
  <2>1. pc = "exec" /\ runCtx = "live"
    BY <1>1, DeleteIsExec DEF Exec, OpErr
  <2> QED BY <1>1, <2>1 DEF Control, StopHeld
<1>2. Control /\ [Next]_vars => [DeleteRuns => \A s \in Stoppers : stop[s] # "returned"]_vars
  BY <1>1
<1> QED BY <1>2, ControlInvariance, PTL DEF Spec, StopIsNeverLost

(* Wait confirms only runs that are over; one with a known outcome has no    *)
(* COMMIT at the server that could still take effect.                        *)
THEOREM WaitIsConclusive == Spec => WaitConfirmsQuiet
<1>1. ASSUME IInv, Control, [Next]_vars, NEW w \in Waiters, wait[w] = "confirmed", ~unknown
      PROVE  purged' = purged /\ ~DeleteRuns
  <2>1. pc = "done" /\ tx # "sent"
    BY <1>1 DEF Control, Confirmed, IInv, Core, TxOfPc
  <2>2. ~ServerCommits /\ ~CommitAcked /\ ~Exec
    BY <2>1 DEF ServerCommits, CommitAcked, Exec
  <2> QED BY <1>1, <2>2, StepShape, DeleteIsExec
<1>2. IInv /\ Control /\ [Next]_vars
        => [(\E w \in Waiters : wait[w] = "confirmed") /\ ~unknown
              => purged' = purged /\ ~DeleteRuns]_vars
  BY <1>1
<1> QED BY <1>2, Invariance, ControlInvariance, PTL DEF Spec, WaitConfirmsQuiet

-----------------------------------------------------------------------------
(* Receipts. *)

Total(r) == IF r = <<>> THEN 0 ELSE r[Len(r)]

(* The receipts name totals that grow by at most a batch, and the last one   *)
(* is the running total, but for the batch that is being reported.           *)
Receipted ==
  /\ \A n \in 1..Len(receipts) :
       /\ n = 1 => receipts[n] \in 1..BatchSize
       /\ n > 1 => receipts[n] - receipts[n - 1] \in 1..BatchSize
  /\ pc # "receipt" => Len(receipts) = batches /\ committed = Total(receipts)
  /\ pc = "receipt" =>
       Len(receipts) + 1 = batches /\ committed - Total(receipts) \in 1..BatchSize

(* The hook is called with the running total. *)
LEMMA ReceiptStep ==
  ASSUME TypeOK, Receipted, pc = "receipt", pc' # "receipt",
         receipts' = Append(receipts, committed), UNCHANGED <<committed, batches>>
  PROVE  Receipted'
<1> DEFINE m == Len(receipts)
<1>1. receipts \in Seq(Nat) /\ committed \in Nat /\ m \in Nat /\ BatchSize \in Nat
  BY PlanAssumption DEF TypeOK
<1>2. Len(receipts') = m + 1 /\ receipts'[m + 1] = committed
      /\ \A n \in 1..m : receipts'[n] = receipts[n]
  BY <1>1
<1>3. Total(receipts') = committed
  BY <1>1, <1>2 DEF Total
<1>4. m + 1 = batches /\ committed - Total(receipts) \in 1..BatchSize
  BY DEF Receipted
<1>5. ASSUME NEW n \in 1..(m + 1)
      PROVE  /\ n = 1 => receipts'[n] \in 1..BatchSize
             /\ n > 1 => receipts'[n] - receipts'[n - 1] \in 1..BatchSize
  <2>1. CASE n \in 1..m
    BY <1>1, <1>2, <2>1 DEF Receipted
  <2>2. CASE n = m + 1 /\ m = 0
    BY <1>1, <1>2, <1>4, <2>2 DEF Total
  <2>3. CASE n = m + 1 /\ m # 0
    <3>1. Total(receipts) = receipts[m] /\ m \in 1..m
      BY <1>1, <2>3 DEF Total
    <3> QED BY <1>1, <1>2, <1>4, <2>3, <3>1
  <2> QED BY <1>1, <2>1, <2>2, <2>3
<1> QED BY <1>2, <1>3, <1>4, <1>5 DEF Receipted

LEMMA ReceiptShape ==
  ASSUME [Next]_vars
  PROVE  \/ CommitAcked
         \/ /\ pc = "receipt" /\ pc' # "receipt" /\ receipts' = Append(receipts, committed)
            /\ UNCHANGED <<committed, batches>>
         \/ UNCHANGED <<receipts, committed, batches>> /\ (pc' = "receipt" <=> pc = "receipt")
BY DEF Next, Runner, vars, data, res, Goto, Finish, OutcomeUnknown, RollbackBecause, Run, Publish,
   CheckStopped, LoopHead, SelectReturns, SelectFails, GuardApproves, GuardRefuses, HookPanics,
   Recheck, Begin, Exec, ExecFails, Rollback, CommitCheck, CommitRollback, SendCommit,
   CommitAckLost, ReceiptAccepted, ReceiptRefused, RateWait, Return, OpTimeout, RunCtxEnds,
   AwaitDone, StopStores, StopLoads, StopCancels, WaitReturns, OtherClientWrites, ServerCommits,
   ServerAborts

LEMMA StepReceipted == IInv /\ Receipted /\ [Next]_vars => Receipted'
<1> SUFFICES ASSUME IInv, Receipted, [Next]_vars PROVE Receipted'
  OBVIOUS
<1>1. CASE CommitAcked
  <2>1. /\ pc = "ack" /\ pc' = "receipt" /\ tx = "committed" /\ receipts' = receipts
        /\ committed' = committed + Cardinality(ids) /\ batches' = batches + 1
    BY <1>1 DEF CommitAcked, Goto
  <2>2. ids \in SUBSET Ids /\ ids # {} /\ Cardinality(ids) <= BatchSize
    BY <2>1 DEF IInv, TypeOK, Core, PastPurged
  <2>3. Cardinality(ids) \in 1..BatchSize
    BY <2>2, Finite, FS_EmptySet, PlanAssumption
  <2>4. committed \in Nat /\ committed = Total(receipts) /\ Len(receipts) = batches
    BY <2>1 DEF IInv, TypeOK, Receipted
  <2>5. committed' - Total(receipts') \in 1..BatchSize
    BY <2>1, <2>3, <2>4, PlanAssumption
  <2> QED BY <2>1, <2>4, <2>5 DEF Receipted
<1>2. CASE /\ pc = "receipt" /\ pc' # "receipt" /\ receipts' = Append(receipts, committed)
           /\ UNCHANGED <<committed, batches>>
  BY <1>2, ReceiptStep DEF IInv
<1>3. CASE UNCHANGED <<receipts, committed, batches>> /\ (pc' = "receipt" <=> pc = "receipt")
  BY <1>3 DEF Receipted
<1> QED BY <1>1, <1>2, <1>3, ReceiptShape

(* AfterCommit hears of every batch, in order, with the total so far, before *)
(* the next batch begins.                                                    *)
THEOREM CommitsAreReported == Spec => []EveryCommitIsReported
<1>1. Init => Receipted
  <2> SUFFICES ASSUME Init PROVE Receipted
    OBVIOUS
  <2>1. receipts = <<>> /\ pc = "idle" /\ committed = 0 /\ batches = 0
    BY DEF Init
  <2> QED BY <2>1 DEF Receipted, Total
<1>2. Spec => []Receipted
  BY <1>1, StepReceipted, Invariance, PTL DEF Spec
<1>3. ASSUME IInv, Receipted PROVE EveryCommitIsReported
  <2>1. receipts \in Seq(Nat) /\ batches \in Nat /\ Len(receipts) \in Nat
    BY <1>3 DEF IInv, TypeOK
  <2>2. Len(receipts) = batches - (IF pc = "receipt" THEN 1 ELSE 0)
    <3>1. CASE pc = "receipt"
      BY <1>3, <2>1, <3>1 DEF Receipted
    <3>2. CASE pc # "receipt"
      BY <1>3, <2>1, <3>2 DEF Receipted
    <3> QED BY <3>1, <3>2
  <2>3. ASSUME NEW n \in 1..Len(receipts)
        PROVE  receipts[n] - (IF n = 1 THEN 0 ELSE receipts[n - 1]) \in 1..BatchSize
    <3>1. receipts[n] \in Nat
      BY <2>1
    <3>2. CASE n = 1
      BY <1>3, <3>1, <3>2 DEF Receipted
    <3>3. CASE n # 1
      <4>1. n > 1
        BY <2>1, <3>3
      <4> QED BY <1>3, <3>3, <4>1 DEF Receipted
    <3> QED BY <3>2, <3>3
  <2>4. pc # "receipt" /\ batches > 0 => receipts[batches] = committed
    BY <1>3, <2>1 DEF Receipted, Total
  <2> QED BY <2>2, <2>3, <2>4 DEF EveryCommitIsReported
<1> QED BY <1>2, <1>3, Invariance, PTL

-----------------------------------------------------------------------------
(* The sweep. *)

Kept == Ids \ touched
Held == pc \in Holding \cup {"receipt"}

(* An eligible row nobody else wrote is still ahead of the cursor; the batch *)
(* holds all of them up to its last row, and none is left of it once it is   *)
(* committed.                                                                *)
Swept == \A id \in Kept : table[id] = "old" => PastCursor(id)
HoldsAll == Held => \A id \in Kept, q \in ids : table[id] = "old" /\ id <= q => id \in ids
Gone == pc = "receipt" \/ tx = "committed" => \A id \in ids \cap Kept : table[id] # "old"

Sweep == Swept /\ HoldsAll /\ Gone /\ ExhaustedLeavesNothing

LEMMA SweepShape ==
  ASSUME TypeOK, [Next]_vars
  PROVE  \/ SelectReturns \/ CommitAcked \/ ReceiptAccepted \/ ServerCommits
         \/ \E id \in Ids : OtherClientWrites(id)
         \/ /\ UNCHANGED <<table, touched, ids, lastID>>
            /\ Held' => Held
            /\ pc' = "receipt" => pc = "receipt"
            /\ tx' = "committed" => tx = "committed"
            /\ reason' = "exhausted" => reason = "exhausted"
<1> USE DEF Goto, Finish, OutcomeUnknown, RollbackBecause, OpErr, db, data, res, Held, Holding
<1>1. CASE Runner
  BY <1>1 DEF Runner, Publish, CheckStopped, LoopHead, SelectFails, GuardApproves, GuardRefuses,
     HookPanics, Recheck, Begin, Exec, ExecFails, Rollback, TxRolledBack, TxOrphaned, TxFinished,
     CommitCheck, CommitRollback, SendCommit, CommitAckLost, ReceiptRefused, RateWait, Return,
     TypeOK, CtxState
<1>2. CASE ~Runner
  BY <1>2 DEF Next, vars, Run, OpTimeout, RunCtxEnds, AwaitDone, StopStores, StopLoads,
     StopCancels, WaitReturns, ServerAborts
<1> QED BY <1>1, <1>2

(* The candidate read takes the lowest eligible rows past the cursor; when   *)
(* it finds none, none is left.                                              *)
LEMMA SelectSweeps ==
  ASSUME IInv, Sweep, SelectReturns
  PROVE  Sweep'
<1> USE PlanAssumption DEF IInv
<1>1. /\ pc = "select" /\ ids' = FirstN(Candidates, Limit) /\ tx = "none"
      /\ UNCHANGED <<table, touched, lastID, tx>> /\ pc' # "receipt"
      /\ ids' # {} => reason' = reason
  BY DEF SelectReturns, db, Core, TxOfPc, Quiet, Finish, Goto, res
<1>2. Limit \in Nat \ {0} /\ Limit \in Nat
  BY <1>1 DEF Limit, TypeOK, Core, SelectingHasBudget
<1>3. Candidates \in SUBSET Ids /\ IsFiniteSet(Candidates) /\ Candidates \subseteq Int
  BY Finite DEF Candidates, Eligible
<1>4. \A id \in Kept : table[id] = "old" => id \in Candidates
  BY DEF Sweep, Swept, Kept, Candidates, Eligible
<1>5. Swept' /\ Gone'
  BY <1>1 DEF Sweep, Swept, Gone, Kept, PastCursor
<1>6. HoldsAll'
  <2> SUFFICES ASSUME NEW id \in Kept, NEW q \in ids', table[id] = "old", id <= q
               PROVE  id \in ids'
    BY <1>1 DEF HoldsAll, Kept
  <2> QED BY <1>1, <1>2, <1>3, <1>4, FirstNPrefix
<1>7. ExhaustedLeavesNothing'
  <2>1. CASE ids' = {}
    <3>1. Candidates = {}
      BY <1>1, <1>2, <1>3, <2>1, FirstNEmpty
    <3> QED BY <1>1, <1>4, <3>1 DEF ExhaustedLeavesNothing, Kept
  <2>2. CASE ids' # {}
    BY <1>1, <2>2 DEF Sweep, ExhaustedLeavesNothing
  <2> QED BY <2>1, <2>2
<1> QED BY <1>5, <1>6, <1>7 DEF Sweep

LEMMA ReceiptSweeps ==
  ASSUME IInv, Sweep, ReceiptAccepted
  PROVE  Sweep'
<1> USE PlanAssumption DEF IInv
<1>1. /\ pc = "receipt" /\ lastID' = LastOf(ids) /\ tx = "none" /\ pc' \in {"return", "wait"}
      /\ UNCHANGED <<table, touched, ids, tx>>
      /\ reason' = reason \/ reason' = "budget_reached"
  BY DEF ReceiptAccepted, db, Core, TxOfPc, Quiet, Finish, Goto, res
<1>2. ids \in SUBSET Ids /\ ids # {}
  BY <1>1 DEF TypeOK, Core, PastPurged
<1>3. LastOf(ids) \in ids /\ LastOf(ids) \in Int /\ \A q \in ids : q <= LastOf(ids)
  BY <1>2, Finite, LastOfIsMax
<1>4. ASSUME NEW id \in Kept, table[id] = "old" PROVE id > LastOf(ids)
  <2>1. id \notin ids
    BY <1>1, <1>4 DEF Sweep, Gone
  <2>2. ~(id <= LastOf(ids))
    BY <1>1, <1>3, <1>4, <2>1 DEF Sweep, HoldsAll, Held
  <2>3. id \in Int
    BY DEF Kept
  <2> QED BY <1>3, <2>2, <2>3
<1>5. Swept'
  BY <1>1, <1>4 DEF Swept, Kept, PastCursor
<1>6. HoldsAll' /\ Gone'
  BY <1>1 DEF HoldsAll, Gone, Held, Holding
<1>7. ExhaustedLeavesNothing'
  BY <1>1 DEF Sweep, ExhaustedLeavesNothing
<1> QED BY <1>5, <1>6, <1>7 DEF Sweep

LEMMA StepSweep == IInv /\ Sweep /\ [Next]_vars => Sweep'
<1> SUFFICES ASSUME IInv, Sweep, [Next]_vars PROVE Sweep'
  OBVIOUS
<1>1. CASE SelectReturns
  BY <1>1, SelectSweeps
<1>2. CASE CommitAcked
  <2>1. /\ UNCHANGED <<table, touched, ids, lastID, reason>> /\ pc = "ack" /\ tx = "committed"
        /\ tx' = "none"
    BY <1>2 DEF CommitAcked, Goto, res
  <2> QED BY <2>1 DEF Sweep, Swept, HoldsAll, Gone, ExhaustedLeavesNothing, Kept, Held, Holding,
             PastCursor
<1>3. CASE ReceiptAccepted
  BY <1>3, ReceiptSweeps
<1>4. CASE ServerCommits
  <2>1. /\ UNCHANGED <<touched, ids, lastID, reason, pc>> /\ pending = ids
        /\ table' = [id \in Ids |-> IF id \in pending THEN "absent" ELSE table[id]]
    BY <1>4 DEF ServerCommits, data, res, IInv, Core, TxOfPc
  <2>2. \A id \in Ids : table'[id] = "old" => table[id] = "old" /\ id \notin ids
    BY <2>1
  <2>3. Swept' /\ HoldsAll'
    BY <2>1, <2>2 DEF Sweep, Swept, HoldsAll, Kept, Held, PastCursor
  <2>4. Gone'
    BY <2>1, <2>2 DEF Gone, Kept
  <2>5. ExhaustedLeavesNothing'
    BY <2>1, <2>2 DEF Sweep, ExhaustedLeavesNothing
  <2> QED BY <2>3, <2>4, <2>5 DEF Sweep
<1>5. ASSUME NEW id \in Ids, OtherClientWrites(id) PROVE Sweep'
  <2>1. /\ UNCHANGED <<ids, lastID, reason, pc, tx>> /\ touched' = touched \cup {id}
        /\ \A other \in Ids \ {id} : table'[other] = table[other]
    BY <1>5 DEF OtherClientWrites, data, res, IInv, TypeOK
  <2>2. Kept' \subseteq Kept /\ \A k \in Kept' : table'[k] = table[k]
    BY <2>1 DEF Kept
  <2>3. Swept' /\ HoldsAll' /\ Gone'
    BY <2>1, <2>2 DEF Sweep, Swept, HoldsAll, Gone, Held, PastCursor
  <2>4. ExhaustedLeavesNothing'
    BY <2>1, <2>2 DEF Sweep, ExhaustedLeavesNothing, Kept
  <2> QED BY <2>3, <2>4 DEF Sweep
<1>6. CASE /\ UNCHANGED <<table, touched, ids, lastID>>
           /\ Held' => Held
           /\ pc' = "receipt" => pc = "receipt"
           /\ tx' = "committed" => tx = "committed"
           /\ reason' = "exhausted" => reason = "exhausted"
  <2>1. Swept' /\ HoldsAll' /\ Gone'
    BY <1>6 DEF Sweep, Swept, HoldsAll, Gone, Kept, PastCursor
  <2>2. ExhaustedLeavesNothing'
    BY <1>6 DEF Sweep, ExhaustedLeavesNothing
  <2> QED BY <2>1, <2>2 DEF Sweep
<1> QED BY <1>1, <1>2, <1>3, <1>4, <1>5, <1>6, SweepShape DEF IInv

(* A run that calls the target exhausted has passed and removed every        *)
(* eligible row that nobody else wrote.                                      *)
THEOREM ExhaustedIsComplete == Spec => []ExhaustedLeavesNothing
<1>1. Init => Sweep
  BY DEF Init, Sweep, Swept, HoldsAll, Gone, ExhaustedLeavesNothing, Held, Holding, PastCursor
<1>2. Sweep => ExhaustedLeavesNothing
  BY DEF Sweep
<1> QED BY <1>1, <1>2, StepSweep, Invariance, PTL DEF Spec
=============================================================================
