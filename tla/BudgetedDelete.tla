--------------------------- MODULE BudgetedDelete ---------------------------
(***************************************************************************)
(* What a controlled purge promises to the service that approved it:       *)
(* rows go away in batches, never more of them than the approved budget,   *)
(* a batch is acknowledged before the next one takes effect, and a run     *)
(* that ends with a known outcome acknowledged exactly the rows that are   *)
(* gone and removes nothing afterwards.  A run may also end with an        *)
(* unknown outcome; then at most one unacknowledged batch is in doubt.     *)
(***************************************************************************)
EXTENDS Integers, FiniteSets

CONSTANTS
  Ids,        \* the identities of the rows of the target table
  MaxRows,    \* the approved number of rows
  BatchSize   \* the largest number of rows one batch removes

VARIABLES
  purged,     \* the rows the purge removed for good
  acked,      \* how many of them it knows it removed
  outcome     \* "running", "exact" or "unknown"

vars == <<purged, acked, outcome>>

TypeOK ==
  /\ purged \in SUBSET Ids
  /\ acked \in 0..MaxRows
  /\ outcome \in {"running", "exact", "unknown"}

Init ==
  /\ purged = {}
  /\ acked = 0
  /\ outcome = "running"

(* One batch takes effect; the one before it has been acknowledged. *)
Purge(S) ==
  /\ outcome # "exact"
  /\ acked = Cardinality(purged)
  /\ Cardinality(S) \in 1..BatchSize
  /\ acked + Cardinality(S) <= MaxRows
  /\ purged' = purged \cup S
  /\ UNCHANGED <<acked, outcome>>

Acknowledge ==
  /\ outcome = "running"
  /\ acked < Cardinality(purged)
  /\ acked' = Cardinality(purged)
  /\ UNCHANGED <<purged, outcome>>

Close ==
  /\ outcome = "running"
  /\ \/ acked = Cardinality(purged) /\ outcome' = "exact"
     \/ outcome' = "unknown"
  /\ UNCHANGED <<purged, acked>>

Next ==
  \/ \E S \in SUBSET (Ids \ purged) : Purge(S)
  \/ Acknowledge
  \/ Close

Spec == Init /\ [][Next]_vars

=============================================================================
