------------------------- MODULE MCCoveringStrategy -------------------------
(* Instances of CoveringStrategy for TLC. *)
EXTENDS CoveringStrategy

(* Those rows agree with the ones up to last, as far as they hold no NULL. *)
Tying(those, last) == [row \in Rows |-> IF row \in those THEN last ELSE row]

Configuration(kind, chunk, max, cursor, tied, noKey) ==
  [kind |-> kind, chunk |-> chunk, max |-> max, cursor |-> cursor, tied |-> tied,
   noKey |-> noKey]

Plain(kind, chunk, max, cursor) ==
  Configuration(kind, chunk, max, cursor, Tying({}, 0), {})

(* Both kinds, pages of 2 with and without a limit, single rows, both ways   *)
(* to page.                                                                  *)
MCPlainPlans ==
  { Plain("covering", 2, 0, TRUE), Plain("covering", 2, 3, FALSE),
    Plain("rowid", 2, 1, TRUE), Plain("rowid", 1, 2, TRUE) }

(* The first rows have a NULL in their first order column. *)
NullOrder == Configuration("covering", 2, 0, TRUE, Tying({1, 2}, 4), {})

(* NULLs in the key: a row that ends a page, with a row that agrees with it  *)
(* in the order columns behind it; and with no cursor, a row within a page.  *)
MCNullPlans ==
  { NullOrder,
    Configuration("covering", 1, 0, TRUE,  Tying({1}, 2), {1}),
    Configuration("covering", 2, 0, FALSE, Tying({1}, 4), {1}) }

MCPlans == MCPlainPlans \cup MCNullPlans

MCNullOrder == {NullOrder}
=============================================================================
