----------------------------- MODULE RaggedRows -----------------------------
(***************************************************************************)
(* What jagged::Array<T> promises its caller, without offsets: an array IS *)
(* a sequence of rows, and every call says what becomes of the rows or     *)
(* that the call is refused and why.  Each operator is the whole step of   *)
(* one call, defined on rows alone and, where the code collects rows one   *)
(* after the other, by what the result is and not by how it is collected.  *)
(***************************************************************************)
EXTENDS Integers, Sequences, FiniteSets, Functions

CONSTANTS
  Handles,   \* the caller's variables
  Nullopt    \* the missing element

VARIABLES
  live,     \* the handles that hold an array
  rows,     \* the rows of every handle
  call,     \* the last call, with its arguments
  outcome   \* how it ended

vars == <<live, rows, call, outcome>>

Done(h, rs) ==
  /\ rows' = [rows EXCEPT ![h] = rs]
  /\ live' = live \cup {h}
  /\ outcome' = "ok"

Refused(error) ==
  /\ outcome' = error
  /\ UNCHANGED <<live, rows>>

-----------------------------------------------------------------------------
(***************************************************************************)
(* The life of an array.                                                   *)
(***************************************************************************)
Destroy(h) ==
  /\ rows' = [rows EXCEPT ![h] = <<>>]
  /\ live' = live \ {h}
  /\ outcome' = "ok"

\* Offsets of n values: non-empty, from zero, monotonic, up to n.
Offsets(o, n) ==
  /\ o # <<>>
  /\ o[1] = 0
  /\ \A i, j \in DOMAIN o : i <= j => o[i] <= o[j]
  /\ o[Len(o)] = n

\* v holds the elements of the rows rs one after the other, and o says how many
\* there are before each row.
Describe(v, o, rs) ==
  /\ Len(rs) = Len(o) - 1
  /\ \A i \in DOMAIN rs :
       /\ o[i+1] = o[i] + Len(rs[i])
       /\ \A j \in DOMAIN rs[i] : v[o[i] + j] = rs[i][j]

FromFlat(h, v, o) ==
  \/ Offsets(o, Len(v))  /\ Done(h, rows'[h]) /\ Describe(v, o, rows'[h])
  \/ ~Offsets(o, Len(v)) /\ Refused("invalid_argument")

AppendRow(h, row) == Done(h, Append(rows[h], row))
Clear(h)          == Done(h, <<>>)
Copy(g, h)        == Done(h, rows[g])
ConcatRows(a, b, h) == Done(h, rows[a] \o rows[b])

\* A move hands the rows over and leaves an empty array behind; to move an array
\* to itself does nothing.
Move(g, h) ==
  /\ rows' = IF g = h THEN rows ELSE [rows EXCEPT ![h] = rows[g], ![g] = <<>>]
  /\ live' = live \cup {h}
  /\ outcome' = "ok"

-----------------------------------------------------------------------------
(***************************************************************************)
(* Arrays made of arrays.                                                  *)
(***************************************************************************)
FromRows(h, rs) == Done(h, rs)

TakeRows(a, indices, h) ==
  IF \A k \in DOMAIN indices : indices[k] < Len(rows[a])
  THEN Done(h, [k \in DOMAIN indices |-> rows[a][indices[k] + 1]])
  ELSE Refused("out_of_range")

MaskRows(a, keep, h) ==
  LET kept   == {i \in DOMAIN rows[a] : keep[i]}
      nth(k) == CHOOSE i \in kept : Cardinality({j \in kept : j <= i}) = k
  IN  IF Len(keep) = Len(rows[a])
      THEN Done(h, [k \in 1..Cardinality(kept) |-> rows[a][nth(k)]])
      ELSE Refused("invalid_argument")

Count(s, x) == Cardinality({i \in DOMAIN s : s[i] = x})

SameElements(s, t) ==
  /\ Len(s) = Len(t)
  /\ \A i \in DOMAIN s : Count(s, s[i]) = Count(t, s[i])

Sorted(s) == \A i, j \in DOMAIN s : i < j => s[i] <= s[j]

SortRows(a, h) ==
  /\ Len(rows'[h]) = Len(rows[a])
  /\ \A i \in DOMAIN rows[a] : Sorted(rows'[h][i]) /\ SameElements(rows[a][i], rows'[h][i])
  /\ Done(h, rows'[h])

IsNone(a, h) ==
  Done(h, [i \in DOMAIN rows[a] |->
             [k \in DOMAIN rows[a][i] |-> IF rows[a][i][k] = Nullopt THEN 1 ELSE 0]])

\* Every row keeps its present elements, in their order.
DropNone(a, h) ==
  LET present(r) == {k \in DOMAIN r : r[k] # Nullopt}
      nth(r, k)  == CHOOSE i \in present(r) : Cardinality({j \in present(r) : j <= i}) = k
  IN  Done(h, [i \in DOMAIN rows[a] |->
                 [k \in 1..Cardinality(present(rows[a][i])) |-> rows[a][i][nth(rows[a][i], k)]]])

FillNone(a, fill, h) ==
  Done(h, [i \in DOMAIN rows[a] |->
             [k \in DOMAIN rows[a][i] |->
                IF rows[a][i][k] = Nullopt THEN fill ELSE rows[a][i][k]]])

\* Every row is at least as long as the target, and no element moves.
PadNone(a, target, h) ==
  LET length(r) == IF Len(r) < target THEN target ELSE Len(r)
  IN  Done(h, [i \in DOMAIN rows[a] |->
                 [k \in 1..length(rows[a][i]) |->
                    IF k <= Len(rows[a][i]) THEN rows[a][i][k] ELSE Nullopt]])

-----------------------------------------------------------------------------
(***************************************************************************)
(* Reductions, by what makes a number the one that is asked for.  The      *)
(* variance is the mean of the squares without the square of the mean.     *)
(***************************************************************************)
Sum(r) == FoldFunction(+, 0, r)

IsLeast(x, r) ==
  /\ \E k \in DOMAIN r : r[k] = x
  /\ \A k \in DOMAIN r : x <= r[k]

IsReduction(kind, x, r) ==
  LET n    == Len(r)
      some == r # <<>>
  IN  CASE kind = "sum"     -> x = <<Sum(r)>>
        [] kind = "product" -> x = <<FoldFunction(LAMBDA i, j : i * j, 1, r)>>
        [] kind = "min"     -> IF some THEN IsLeast(x[1], r) ELSE x = <<>>
        [] kind = "max"     -> IF some THEN IsLeast(-x[1], [k \in DOMAIN r |-> -r[k]]) ELSE x = <<>>
        [] kind = "mean"    -> IF some THEN x[1] * n = Sum(r) * x[2] ELSE x = <<>>
        [] OTHER            ->
             IF some THEN x[1] * n * n = (n * Sum([k \in DOMAIN r |-> r[k] * r[k]]) - Sum(r) * Sum(r)) * x[2]
             ELSE x = <<>>

Reduce(a, kind, results) ==
  /\ DOMAIN results = DOMAIN rows[a]
  /\ \A i \in DOMAIN rows[a] : IsReduction(kind, results[i], rows[a][i])
  /\ Refused("ok")

-----------------------------------------------------------------------------
Init ==
  /\ live    = {}
  /\ rows    = [h \in Handles |-> <<>>]
  /\ call    = [op |-> "none"]
  /\ outcome = "ok"

\* The step that the call, with its arguments, demands.
Next ==
  LET c == call'
  IN  \/ c.op = "Default"    /\ Done(c.to, <<>>)
      \/ c.op = "FromFlat"   /\ FromFlat(c.to, c.values, c.offsets)
      \/ c.op = "AppendRow"  /\ AppendRow(c.to, c.row)
      \/ c.op = "Clear"      /\ Clear(c.to)
      \/ c.op = "Reserve"    /\ Refused("ok")
      \/ c.op = "Destroy"    /\ Destroy(c.to)
      \/ c.op = "Copy"       /\ Copy(c.of, c.to)
      \/ c.op = "Move"       /\ Move(c.of, c.to)
      \/ c.op = "ConcatRows" /\ ConcatRows(c.of, c.with, c.to)
      \/ c.op = "FromRows"   /\ FromRows(c.to, c.rows)
      \/ c.op = "TakeRows"   /\ TakeRows(c.of, c.indices, c.to)
      \/ c.op = "MaskRows"   /\ MaskRows(c.of, c.keep, c.to)
      \/ c.op = "SortRows"   /\ SortRows(c.of, c.to)
      \/ c.op = "IsNone"     /\ IsNone(c.of, c.to)
      \/ c.op = "DropNone"   /\ DropNone(c.of, c.to)
      \/ c.op = "FillNone"   /\ FillNone(c.of, c.fill, c.to)
      \/ c.op = "PadNone"    /\ PadNone(c.of, c.target, c.to)
      \/ c.op = "Reduce"     /\ Reduce(c.of, c.kind, c.results)

Spec == Init /\ [][Next]_vars
=============================================================================
