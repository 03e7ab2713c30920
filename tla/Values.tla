------------------------------- MODULE Values -------------------------------
(***************************************************************************)
(* ak::Value (include/awkward/value.hpp): what a layout's elements look    *)
(* like outside of it, and the arithmetic on them.                         *)
(*                                                                         *)
(* A value is none, a scalar, a list or a record.  A number is a reduced   *)
(* fraction n / d: a real one may also be n / 0, which is an infinity or,  *)
(* for n = 0, not a number.  A string is its place n in the alphabetical   *)
(* order.  A call that throws has a failure for its value.                 *)
(***************************************************************************)
EXTENDS Integers, Sequences, FiniteSets, SequencesExt, FiniteSetsExt

None       == [none |-> TRUE]
List(s)    == [list |-> s]
Failure(e) == [failure |-> e]
Invalid    == Failure("invalid_argument")

IsNone(v)    == "none" \in DOMAIN v
IsList(v)    == "list" \in DOMAIN v
IsRecord(v)  == "fields" \in DOMAIN v
IsScalar(v)  == "scalar" \in DOMAIN v
IsFailure(v) == "failure" \in DOMAIN v

Record(fields, values) == [fields |-> fields, values |-> values]

\* A list of computed values, or the first failure among them.
Listed(s) ==
  IF \E k \in DOMAIN s : IsFailure(s[k]) THEN SelectSeq(s, IsFailure)[1] ELSE List(s)

Columns(fields, values) ==
  IF \E k \in DOMAIN values : IsFailure(values[k])
  THEN SelectSeq(values, IsFailure)[1] ELSE Record(fields, values)

-----------------------------------------------------------------------------
(***************************************************************************)
(* Scalars.                                                                *)
(***************************************************************************)
Abs(i) == IF i < 0 THEN -i ELSE i

RECURSIVE Gcd(_, _)
Gcd(m, n) == IF n = 0 THEN m ELSE Gcd(n, m % n)

Divisor(n, d) == IF n = 0 /\ d = 0 THEN 1 ELSE Gcd(Abs(n), Abs(d))

Scalar(kind, n, d) == [scalar |-> [kind |-> kind, n |-> n, d |-> d]]
Integer(i) == Scalar("integer", i, 1)
Truth(b)   == Scalar("boolean", IF b THEN 1 ELSE 0, 1)
String(i)  == Scalar("string", i, 1)

\* The real n / d, by the rules of IEEE 754 for a zero divisor.
Real(n, d) ==
  LET sign == IF d < 0 THEN -1 ELSE 1
  IN  Scalar("real", sign * (n \div Divisor(n, d)), (sign * d) \div Divisor(n, d))

NaN == Real(0, 0)

Kind(v)    == v.scalar.kind
HasKind(v, kinds) == IsScalar(v) /\ Kind(v) \in kinds
IsBoolean(v) == HasKind(v, {"boolean"})
IsReal(v)    == HasKind(v, {"real"})
IsString(v)  == HasKind(v, {"string"})
IsNumber(v)  == HasKind(v, {"boolean", "integer", "real"})
IsNaN(v)     == IsReal(v) /\ v.scalar.n = 0 /\ v.scalar.d = 0

\* numeric_as_double, of a number
AsReal(v) == Scalar("real", v.scalar.n, v.scalar.d)

Less(v, w) ==
  /\ ~IsNaN(v) /\ ~IsNaN(w)
  /\ IF v.scalar.d = 0 /\ w.scalar.d = 0 THEN v.scalar.n < w.scalar.n
     ELSE v.scalar.n * w.scalar.d < w.scalar.n * v.scalar.d

Equal(v, w) == ~IsNaN(v) /\ v.scalar.n = w.scalar.n /\ v.scalar.d = w.scalar.d

Sum2(v, w) ==
  IF v.scalar.d = 0 /\ w.scalar.d = 0
  THEN IF v.scalar = w.scalar THEN v ELSE NaN
  ELSE Real(v.scalar.n * w.scalar.d + w.scalar.n * v.scalar.d, v.scalar.d * w.scalar.d)

Negative(v)     == Scalar("real", -v.scalar.n, v.scalar.d)
Difference(v, w) == Sum2(v, Negative(w))
Product2(v, w)  == Real(v.scalar.n * w.scalar.n, v.scalar.d * w.scalar.d)
Quotient(v, w)  == Real(v.scalar.n * w.scalar.d, v.scalar.d * w.scalar.n)

\* numeric_result: a whole number when nothing real went into it
Numeric(v, real) == IF real THEN v ELSE Integer(v.scalar.n)

\* value_truthy, of a number
Truthy(v) == v.scalar.n # 0 \/ v.scalar.d = 0

-----------------------------------------------------------------------------
(***************************************************************************)
(* Nested lists.                                                           *)
(***************************************************************************)
\* array_depth: the lists around the innermost value, records and none closed.
RECURSIVE Depth(_)
Depth(v) ==
  IF IsList(v) THEN 1 + Max({0} \cup {Depth(v.list[k]) : k \in DOMAIN v.list}) ELSE 0

\* The values that are no lists, from left to right.
RECURSIVE Ravel(_)
Ravel(v) == IF IsList(v) THEN FlattenSeq([k \in DOMAIN v.list |-> Ravel(v.list[k])]) ELSE <<v>>

ContainsReal(v) == \E k \in DOMAIN Ravel(v) : IsReal(Ravel(v)[k])
=============================================================================
