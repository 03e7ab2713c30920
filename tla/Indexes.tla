------------------------------ MODULE Indexes -------------------------------
(***************************************************************************)
(* The indexes of include/awkward/index.hpp: an index selects positions of *)
(* a dimension of n, or is refused.  Positions are counted from zero.      *)
(*                                                                         *)
(* This is what the layouts compute with; the steps by which the code gets *)
(* there, in the width it has for them, are those of IndexSlice.           *)
(***************************************************************************)
EXTENDS Integers, Sequences

\* A bound of a slice is a set of one integer, or empty.
SliceOf(start, stop, step) == [kind |-> "slice", start |-> start, stop |-> stop, step |-> step]
IntegersOf(v) == [kind |-> "integers", values |-> v]
BooleansOf(v) == [kind |-> "booleans", values |-> v]

Refusal(x, n) ==
  CASE x.kind = "slice"    -> IF x.step = 0 THEN "invalid_argument" ELSE "ok"
    [] x.kind = "integers" ->
         IF \A k \in DOMAIN x.values : -n <= x.values[k] /\ x.values[k] < n
         THEN "ok" ELSE "out_of_range"
    [] x.kind = "booleans" -> IF Len(x.values) = n THEN "ok" ELSE "invalid_argument"

\* A bound or its default, counted from the front and clamped.
Bound(b, default, low, high) ==
  IF b = {} THEN default
  ELSE LET given == CHOOSE i \in b : TRUE
           front == IF given < 0 THEN given + high - low ELSE given
       IN  IF front < low THEN low ELSE IF front > high THEN high ELSE front

\* indices_for_slice: the ascending loop runs over 0 .. n, the descending one over
\* -1 .. n - 1.
FirstPosition(x, n) == IF x.step > 0 THEN Bound(x.start, 0, 0, n) ELSE Bound(x.start, n - 1, -1, n - 1)
EndPosition(x, n)   == IF x.step > 0 THEN Bound(x.stop, n, 0, n) ELSE Bound(x.stop, -1, -1, n - 1)

Stepped(start, stop, step) ==
  LET pace  == IF step > 0 THEN step ELSE -step
      reach == IF step > 0 THEN stop - start ELSE start - stop
  IN  [k \in 1..(IF reach > 0 THEN (reach + pace - 1) \div pace ELSE 0) |-> start + (k - 1) * step]

SlicePositions(x, n) == Stepped(FirstPosition(x, n), EndPosition(x, n), x.step)

\* normalize_integer
CountedFromFront(i, n) == IF i < 0 THEN n + i ELSE i

IntegerPositions(values, n) == [k \in DOMAIN values |-> CountedFromFront(values[k], n)]

\* The positions first .. last - 1.
Span(first, last) == [k \in 1..(last - first) |-> first + k - 1]

MaskPositions(values, n) == SelectSeq(Span(0, n), LAMBDA i : values[i + 1])

Positions(x, n) ==
  CASE x.kind = "slice"    -> SlicePositions(x, n)
    [] x.kind = "integers" -> IntegerPositions(x.values, n)
    [] x.kind = "booleans" -> MaskPositions(x.values, n)

\* s at the positions p.
Pick(s, p) == [k \in DOMAIN p |-> s[p[k] + 1]]
=============================================================================
