----------------------------- MODULE KAnonymity ------------------------------
(***************************************************************************)
(* suppressAggregate (packages/k-anonymity), behind aggregates/publish-    *)
(* preview of beneficiary-service: which counts of a table a donor is      *)
(* shown.  The tables are those with a count for every row and column.     *)
(***************************************************************************)
EXTENDS Integers, FiniteSets, FiniteSetsExt

CONSTANTS Rows, Columns,  \* how many; columns have an order
          K,              \* K_THRESHOLD
          MaxCount,       \* bound: counts
          NoTable         \* "nothing was published"

Cells == (1 .. Rows) \X (1 .. Columns)
Tables == [Cells -> 0 .. MaxCount]

VARIABLE table  \* the table that was published, or NoTable

KInit == table = NoTable

Row(r) == {x \in Cells : x[1] = r}
Column(c) == {x \in Cells : x[2] = c}

\* "fewer than k"
Few(t) == {x \in Cells : t[x] > 0 /\ t[x] < K}

\* The smallest of the others that are not 0, the first of equals.
NextSmallest(t, r) ==
  LET rest == {x \in Row(r) \ Few(t) : t[x] > 0}
  IN {x \in rest : \A y \in rest : t[x] < t[y] \/ (t[x] = t[y] /\ x[2] <= y[2])}

\* A row that hides one count hides the next smallest with it.
Complement(t) ==
  UNION {NextSmallest(t, r) :
           r \in {s \in 1 .. Rows : Cardinality(Row(s) \cap Few(t)) = 1}}

Hidden(t) == Few(t) \cup Complement(t)

Total(t, cells) == SumFunction(Restrict(t, cells))

\* Mutant: the totals of the columns count what is hidden.
FullColumnTotals(t) == [c \in 1 .. Columns |-> Total(t, Column(c))]

ColumnTotals(t) == [c \in 1 .. Columns |-> Total(t, Column(c) \ Hidden(t))]

\* All that is published.
Suppressed(t) ==
  LET whole == {r \in 1 .. Rows : Row(r) \cap Hidden(t) = {}}
  IN [few |-> Few(t), suppressed |-> Complement(t),
      counts |-> [x \in Cells \ Hidden(t) |-> t[x]],
      row_totals |-> [r \in whole |-> Total(t, Row(r))],
      col_totals |-> ColumnTotals(t),
      grand_total |-> Total(t, Cells \ Hidden(t))]

PublishPreview(t) == table = NoTable /\ table' = t

KNext == \E t \in Tables : PublishPreview(t)

-----------------------------------------------------------------------------
\* Type invariant.
KTypeOK == table \in Tables \cup {NoTable}

(* No count below the threshold can be worked out from what is published,  *)
(* the totals included: with any other small count in its place everything *)
(* that is published would be the same.                                    *)
NotDerivable ==
  table # NoTable =>
    LET published == Suppressed(table)
    IN \A x \in Few(table) : \A n \in (1 .. K - 1) \ {table[x]} :
         Suppressed([table EXCEPT ![x] = n]) = published
=============================================================================
