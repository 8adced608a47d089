------------------------------ MODULE ChunkRun ------------------------------
(***************************************************************************)
(* What task.Execute relies on in a ChunkStrategy: its Run commits         *)
(* executions of the user's statement on rows, counts them at the earliest *)
(* when they are committed, and then returns.  A Run that has returned has *)
(* ended its goroutines, so that the pool can be closed, and neither       *)
(* commits nor counts any more.  One that returns nil without having been  *)
(* stopped has marked the writer finished, on which the lag monitor ends,  *)
(* and has counted all it committed, if it knows.                          *)
(***************************************************************************)
EXTENDS Integers

VARIABLES
  committed,  \* rows on which executions of the statement were committed
  counted,    \* the affected rows GetStatus reports
  finished,   \* Writer.isFinished
  doubt,      \* the reply to a COMMIT that is retried was lost
  busy,       \* a goroutine that Run has started is still there
  stop,       \* the caller's context has ended
  result      \* "" while Run is under way, then "nil" or "error"

vars == <<committed, counted, finished, doubt, busy, stop, result>>

Init ==
  /\ committed = 0 /\ counted = 0 /\ finished = FALSE /\ doubt = FALSE
  /\ busy \in BOOLEAN /\ stop = FALSE /\ result = ""

(* A transaction takes effect on some rows, possibly with nobody to tell. *)
Commit ==
  /\ committed' \in Nat /\ counted' \in Nat
  /\ committed <= committed' /\ counted <= counted' /\ counted' <= committed'
  /\ doubt' \in {doubt, TRUE}

(* Run or a goroutine of it does some of its work. *)
Work ==
  /\ result = ""
  /\ Commit
  /\ finished' \in {finished, TRUE} /\ busy' \in BOOLEAN
  /\ UNCHANGED <<stop, result>>

Return ==
  /\ result = ""
  /\ result' \in {"nil", "error"} /\ ~busy'
  /\ finished' \in {finished, TRUE}
  /\ (result' = "nil" /\ ~stop) => finished' /\ (doubt \/ counted = committed)
  /\ UNCHANGED <<committed, counted, doubt, stop>>

Stop == stop' = TRUE /\ UNCHANGED <<committed, counted, finished, doubt, busy, result>>

Next == Work \/ Return \/ Stop

Spec == Init /\ [][Next]_vars
=============================================================================
