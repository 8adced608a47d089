--------------------------- MODULE KeyPredicates ---------------------------
(***************************************************************************)
(* The predicates with which the range path cuts a unique key of several   *)
(* columns into chunks (format.go), and the arguments bound to them        *)
(* (procedure.go).                                                         *)
(*                                                                         *)
(* A key is [tp, cols, null]: its columns in order, and which of them may  *)
(* be NULL.  A row is a function from columns to values.  An argument list *)
(* is the flat sequence the driver binds to the placeholders in order.     *)
(***************************************************************************)
EXTENDS Integers, Sequences, FiniteSets

KeyOf(key, row) == [i \in DOMAIN key.cols |-> row[key.cols[i]]]

(* ORDER BY over the key's columns. *)
Precedes(a, b) == \E i \in DOMAIN a : a[i] < b[i] /\ \A j \in 1..(i - 1) : a[j] = b[j]

Triangle(n) == (n * (n + 1)) \div 2

(* One value for the first clause, two for the second, and so on: clause i   *)
(* has the places after the first Triangle(i - 1).                          *)
ClauseAt(values, p) == CHOOSE i \in DOMAIN values : p \in (Triangle(i - 1) + 1)..Triangle(i)

GetArgs(values) ==
  [p \in 1..Triangle(Len(values)) |-> values[p - Triangle(ClauseAt(values, p) - 1)]]

GetColumnValue(values, chunk) ==
  LET half == Len(values) \div 2
  IN IF Len(values) = 2 \/ chunk = 1 THEN values
     ELSE GetArgs(SubSeq(values, 1, half)) \o GetArgs(SubSeq(values, half + 1, Len(values)))

-----------------------------------------------------------------------------
Strict(cmp) == IF cmp \in {">", ">="} THEN ">" ELSE "<"

Compares(cmp, a, b) ==
  \/ cmp \in {">", ">="} /\ a > b
  \/ cmp \in {"<", "<="} /\ a < b
  \/ cmp \in {">=", "<="} /\ a = b

(* Clause i: the columns before the i-th are equal and the i-th compares;    *)
(* only the last clause keeps the "=" of cmp.                                *)
Clause_WithoutPrefix(key, cmp, i, args, row) ==
  Compares(IF i = Len(key.cols) THEN cmp ELSE Strict(cmp), row[key.cols[i]], args[Triangle(i)])
Clause(key, cmp, i, args, row) ==
  /\ \A j \in 1..(i - 1) : row[key.cols[j]] = args[Triangle(i - 1) + j]
  /\ Compares(IF i = Len(key.cols) THEN cmp ELSE Strict(cmp), row[key.cols[i]], args[Triangle(i)])

BuildSelectWhereClause(key, cmp, args, row) ==
  \E i \in DOMAIN key.cols : Clause(key, cmp, i, args, row)

BuildBulkExecWhereClause(key, args, row) ==
  \A i \in DOMAIN key.cols : row[key.cols[i]] = args[i]

(* What a chunk executes on: one row by its key, or all from first to last. *)
ExecWhere(key, chunk, args, row) ==
  LET n == Triangle(Len(key.cols))
  IN IF chunk = 1 THEN BuildBulkExecWhereClause(key, args, row)
     ELSE /\ BuildSelectWhereClause(key, ">=", SubSeq(args, 1, n), row)
          /\ BuildSelectWhereClause(key, "<=", SubSeq(args, n + 1, Len(args)), row)

-----------------------------------------------------------------------------
(* A comparison with a column that may be NULL has two placeholders; the    *)
(* argument lists above have one value for it.                              *)
NullPlaces(key) == {i \in DOMAIN key.cols : key.null[i]}

BulkPlaceholders(key) == Len(key.cols) + Cardinality(NullPlaces(key))

SelectPlaceholders(key) ==
  Triangle(Len(key.cols))
    + Cardinality({ij \in (DOMAIN key.cols) \X NullPlaces(key) : ij[2] <= ij[1]})

ExecPlaceholders(key, chunk) ==
  IF chunk = 1 THEN BulkPlaceholders(key) ELSE 2 * SelectPlaceholders(key)
=============================================================================
