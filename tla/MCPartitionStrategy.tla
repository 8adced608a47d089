------------------------- MODULE MCPartitionStrategy -------------------------
(* Instances of PartitionStrategy for TLC. *)
EXTENDS PartitionStrategy

(* Those rows agree with the ones up to end, as far as they hold no NULL. *)
Tying(those, end) == [row \in Rows |-> IF row \in those THEN end ELSE row[2]]

Configurations(chunks, maxima, cursors, tied, noKey, bounded) ==
  [chunk : chunks, max : maxima, cursor : cursors, tied : {tied}, noKey : {noKey},
   faults : {bounded[1]}, lost : {bounded[2]}, lags : {bounded[3]}, touched : {bounded[4]}]

Plain(chunks, maxima, cursors, bounded) ==
  Configurations(chunks, maxima, cursors, Tying({}, 0), {}, bounded)

(* A batch that uses up its attempts, or two workers that fail; a failing    *)
(* statement under a limit that ends inside a batch, and one around a lag    *)
(* pause with several batches; under that limit a lost reply and a row other *)
(* clients write; and such a row with no cursor and no limit.                *)
MCPlainPlans ==
  Plain({2}, {0}, {TRUE}, <<2, 0, 0, 0>>)
    \cup Plain({2}, {3}, {TRUE}, <<1, 0, 0, 0>>)
    \cup Plain({1}, {3}, {TRUE}, <<1, 0, 1, 0>>)
    \cup Plain({2}, {3}, {TRUE}, <<0, 1, 0, 1>>)
    \cup Plain({2}, {0}, {FALSE}, <<0, 0, 0, 1>>)

(* A NULL in the first row of a partition, as an order column or as a column *)
(* of the key, passed over by a cursor; and with no cursor, as the key of    *)
(* one row of a page or of the whole page, where only a limit ends the run.  *)
First == {<<1, 1>>}
MCNullPlans ==
  Configurations({1}, {0}, {TRUE}, Tying(First, 2), {}, <<0, 0, 0, 0>>)
    \cup Configurations({1}, {0}, {TRUE}, Tying(First, 2), First, <<0, 1, 0, 0>>)
    \cup Configurations({2}, {0}, {FALSE}, Tying(First, 2), First, <<0, 0, 0, 0>>)
    \cup Configurations({1}, {0, 3}, {FALSE}, Tying(First, 2), First, <<0, 0, 0, 0>>)

MCPlans == MCPlainPlans \cup MCNullPlans
=============================================================================
