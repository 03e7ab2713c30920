--------------------------- MODULE AxisOperations ---------------------------
(***************************************************************************)
(* The operations of include/awkward/operations.hpp that walk one value to *)
(* an axis, or to its leaves: structure, missing values, reductions, order.*)
(*                                                                         *)
(* The code repeats one walk per operation.  Here the walks are AtAxis and *)
(* Leafwise, and what is done at their end is told by a record ask.        *)
(***************************************************************************)
EXTENDS FromValues

Counted(axis, depth) == IF axis < 0 THEN axis + depth ELSE axis

Width(rows) == Max({0} \cup {Len(rows[k].list) : k \in DOMAIN rows})

-----------------------------------------------------------------------------
(***************************************************************************)
(* Structure.                                                              *)
(***************************************************************************)
\* flatten_at_axis at the list above its axis: missing rows go.
JoinRows(rows) ==
  LET there == SelectSeq(rows, LAMBDA v : ~IsNone(v))
  IN  IF \E k \in DOMAIN there : ~IsList(there[k]) THEN Invalid
      ELSE List(FlattenSeq([k \in DOMAIN there |-> there[k].list]))

\* firsts_value at the list above its axis
FirstOfRows(rows) ==
  Listed([k \in DOMAIN rows |->
            IF IsNone(rows[k]) THEN None
            ELSE IF ~IsList(rows[k]) THEN Invalid
            ELSE IF rows[k].list = <<>> THEN None ELSE rows[k].list[1]])

\* pad_none_value at its axis
PadNone(items, target, clip) ==
  LET size == IF clip \/ Len(items) < target THEN target ELSE Len(items)
  IN  List([k \in 1..size |-> IF k <= Len(items) THEN items[k] ELSE None])

\* concatenate_values
RECURSIVE Concatenated(_, _)
Concatenated(values, axis) ==
  IF \E k \in DOMAIN values : ~IsList(values[k]) THEN Invalid
  ELSE IF axis = 0 THEN List(FlattenSeq([k \in DOMAIN values |-> values[k].list]))
  ELSE IF \E k \in DOMAIN values : Len(values[k].list) # Len(values[1].list) THEN Invalid
  ELSE Listed([i \in DOMAIN values[1].list |->
                 Concatenated([k \in DOMAIN values |-> values[k].list[i]], axis - 1)])

\* is_none_value: the axis is looked at before the value.
RECURSIVE IsNoneAt(_, _)
IsNoneAt(v, axis) ==
  IF axis = 0 THEN Truth(IsNone(v))
  ELSE IF IsNone(v) THEN None
  ELSE IF ~IsList(v) THEN Invalid
  ELSE Listed([k \in DOMAIN v.list |-> IsNoneAt(v.list[k], axis - 1)])

\* Mutant: the missing lists above the axis go as well.
RECURSIVE DropNoneDownTo(_, _)
DropNoneDownTo(v, axis) ==
  IF ~IsList(v) THEN v
  ELSE LET kept == IF axis = {} \/ \E a \in axis : a >= 0
                   THEN SelectSeq(v.list, LAMBDA w : ~IsNone(w)) ELSE v.list
       IN  List([k \in DOMAIN kept |-> DropNoneDownTo(kept[k], {a - 1 : a \in axis})])

\* drop_none_value and should_drop_at_axis: at every depth, or at the one of axis.
RECURSIVE DropNone(_, _)
DropNone(v, axis) ==
  IF ~IsList(v) THEN v
  ELSE LET kept == IF axis = {} \/ 0 \in axis
                   THEN SelectSeq(v.list, LAMBDA w : ~IsNone(w)) ELSE v.list
       IN  List([k \in DOMAIN kept |-> DropNone(kept[k], {a - 1 : a \in axis})])

\* Mutant: what the mask says about validity is not asked.
RECURSIVE MaskedWhenFalse(_, _, _)
MaskedWhenFalse(v, m, valid_when) ==
  IF IsBoolean(m) THEN IF Truthy(m) THEN v ELSE None
  ELSE IF ~IsList(v) \/ ~IsList(m) THEN Invalid
  ELSE IF Len(v.list) # Len(m.list) THEN Invalid
  ELSE Listed([k \in DOMAIN v.list |-> MaskedWhenFalse(v.list[k], m.list[k], valid_when)])

\* mask_value: a truth value decides about whatever is at its place.
RECURSIVE Masked(_, _, _)
Masked(v, m, valid_when) ==
  IF IsBoolean(m) THEN IF Truthy(m) = valid_when THEN v ELSE None
  ELSE IF ~IsList(v) \/ ~IsList(m) THEN Invalid
  ELSE IF Len(v.list) # Len(m.list) THEN Invalid
  ELSE Listed([k \in DOMAIN v.list |-> Masked(v.list[k], m.list[k], valid_when)])

\* singletons_value
Singletons(v) ==
  List([k \in DOMAIN v.list |-> IF IsNone(v.list[k]) THEN List(<<>>) ELSE List(<<v.list[k]>>)])

\* fill_none_value, nan_to_none_value, nan_to_num_value, logical_not_value at a leaf
OnLeaf(v, ask) ==
  CASE ask.op = "fill_none"   -> IF IsNone(v) THEN ask.fill ELSE v
    [] ask.op = "nan_to_none" -> IF IsNaN(v) THEN None ELSE v
    [] ask.op = "nan_to_num"  ->
         IF ~IsReal(v) \/ v.scalar.d # 0 THEN v
         ELSE IF IsNaN(v) THEN ask.nan
         ELSE IF v.scalar.n > 0 THEN ask.posinf ELSE ask.neginf
    [] ask.op = "logical_not" ->
         IF IsNone(v) THEN None ELSE IF IsNumber(v) THEN Truth(~Truthy(v)) ELSE Invalid

RECURSIVE Leafwise(_, _)
Leafwise(v, ask) ==
  IF IsList(v) THEN Listed([k \in DOMAIN v.list |-> Leafwise(v.list[k], ask)]) ELSE OnLeaf(v, ask)

-----------------------------------------------------------------------------
(***************************************************************************)
(* Reductions.  s is ReduceSettings.                                       *)
(***************************************************************************)
Skipping == [nansum |-> "sum", nanprod |-> "prod", nanmin |-> "min", nanmax |-> "max",
             nanargmin |-> "argmin", nanargmax |-> "argmax",
             nanmean |-> "mean", nanvar |-> "var", nanstd |-> "std"]
KindOf(name) == IF name \in DOMAIN Skipping THEN Skipping[name] ELSE name

Statistics == {"mean", "moment", "var", "std", "ptp"}

\* What the public reducer of that name asks for: StatisticOptions know no initial value,
\* and ddof, always one of them, reaches the variances only.
SettingsOf(name, o) ==
  [op |-> "reduce", kind |-> KindOf(name), skip_nan |-> name \in DOMAIN Skipping,
   mask_identity |-> o.mask_identity, keepdims |-> o.keepdims, order |-> o.order,
   initial |-> IF KindOf(name) \in Statistics THEN {} ELSE o.initial,
   ddof |-> IF KindOf(name) \in {"var", "std"} THEN o.ddof ELSE 0]

Missing(v, s) == IsNone(v) \/ (s.skip_nan /\ IsNaN(v))

Total(numbers)   == FoldSeq(LAMBDA v, sum : Sum2(AsReal(v), sum), Real(0, 1), numbers)
Product(numbers) == FoldSeq(LAMBDA v, p : Product2(AsReal(v), p), Real(1, 1), numbers)

\* The scan for the first least or greatest number: the position it ends at.  A number
\* that compares with nothing stays where it is first and is passed over elsewhere.
Best(numbers, greatest) ==
  LET beats(v, w) == IF greatest THEN Less(w, v) ELSE Less(v, w)
  IN  FoldLeftDomain(LAMBDA best, k : IF beats(numbers[k], numbers[best]) THEN k ELSE best,
                     1, numbers)

\* The mean of (v - mean)^order, over n - ddof; none unless that is positive.
RECURSIVE Power(_, _)
Power(v, order) == IF order = 0 THEN Real(1, 1) ELSE Product2(v, Power(v, order - 1))

Moment(numbers, order, ddof) ==
  LET mean    == Quotient(Total(numbers), Real(Len(numbers), 1))
      powered == [k \in DOMAIN numbers |-> Power(Difference(AsReal(numbers[k]), mean), order)]
  IN  IF Len(numbers) <= ddof THEN None
      ELSE Quotient(Total(powered), Real(Len(numbers) - ddof, 1))

\* std::any_of and all_of stop at the first value that decides; value_truthy throws.
Decide(values, verdict) ==
  LET stops == {k \in DOMAIN values : IsNumber(values[k]) => Truthy(values[k]) = verdict}
  IN  IF stops = {} THEN Truth(~verdict)
      ELSE IF IsNumber(values[Min(stops)]) THEN Truth(verdict) ELSE Invalid

\* A reduction of values, real if any of them is.
ReduceValues(values, s, real) ==
  CASE /\ values = <<>>
       /\ s.mask_identity \/ s.kind \notin {"count", "count_nonzero", "sum", "prod", "any", "all"}
                          -> None
    [] s.kind = "count"   -> Integer(Len(values))
    [] s.kind \in {"any", "all"} -> Decide(values, s.kind = "any")
    [] \E k \in DOMAIN values : ~IsNumber(values[k]) -> Invalid
    [] s.kind = "count_nonzero" -> Integer(Len(SelectSeq(values, Truthy)))
    [] s.kind = "sum"     -> Numeric(Total(values), real)
    [] s.kind = "prod"    -> Numeric(Product(values), real)
    [] s.kind \in {"min", "max"}       -> Numeric(AsReal(values[Best(values, s.kind = "max")]), real)
    [] s.kind \in {"argmin", "argmax"} -> Integer(Best(values, s.kind = "argmax") - 1)
    [] s.kind = "mean"    -> Quotient(Total(values), Real(Len(values), 1))
    [] s.kind = "ptp"     -> Difference(AsReal(values[Best(values, TRUE)]), AsReal(values[Best(values, FALSE)]))
    [] s.kind = "moment"  -> Moment(values, s.order, 0)
    [] s.kind \in {"var", "std"} -> Moment(values, 2, s.ddof)

\* reduce_scalars; the square root of stddev is left out, which is monotone.
ReduceScalars(present, s, real_result) ==
  LET values == IF s.initial = {} \/ \E v \in s.initial : IsNone(v) THEN present
                ELSE <<CHOOSE v \in s.initial : TRUE>> \o present
  IN  ReduceValues(values, s, real_result \/ \E k \in DOMAIN values : IsReal(values[k]))

\* reduce_present_list: a skipped number still makes the result real.
ReducePresent(items, s) ==
  LET there == SelectSeq(items, LAMBDA v : ~Missing(v, s))
  IN  IF \E k \in DOMAIN there : IsList(there[k]) THEN Invalid
      ELSE ReduceScalars(there, s, \E k \in DOMAIN items : IsNaN(items[k]))

\* Mutant: a short row ends the column.
ColumnBeforeShort(rows, c) ==
  LET short == {k \in DOMAIN rows : Len(rows[k].list) < c}
      above == IF short = {} THEN rows ELSE SubSeq(rows, 1, Min(short) - 1)
  IN  [k \in DOMAIN above |-> above[k].list[c]]

\* The c-th elements of the rows that have so many.
Column(rows, c) ==
  LET long == SelectSeq(rows, LAMBDA row : Len(row.list) >= c)
  IN  [k \in DOMAIN long |-> long[k].list[c]]

\* reduce_axis_zero: column by column where the items are lists.
RECURSIVE ReduceColumns(_, _)
ReduceColumns(items, s) ==
  LET there == SelectSeq(items, LAMBDA v : ~Missing(v, s))
  IN  IF \A k \in DOMAIN there : ~IsList(there[k]) THEN ReducePresent(items, s)
      ELSE IF \E k \in DOMAIN there : ~IsList(there[k]) THEN Invalid
      ELSE Listed([c \in 1..Width(there) |-> ReduceColumns(Column(there, c), s)])

\* keepdims: a list of one for every dimension that went.
RECURSIVE Nested(_, _)
Nested(v, depth) == IF depth = 0 THEN v ELSE List(<<Nested(v, depth - 1)>>)

InDimensions(result, depth, s) ==
  IF s.keepdims /\ ~IsFailure(result) THEN Nested(result, depth) ELSE result

\* reduce_at_axis at its axis
ReduceLine(items, s) == InDimensions(ReduceColumns(items, s), 1, s)

-----------------------------------------------------------------------------
(***************************************************************************)
(* Order.                                                                  *)
(***************************************************************************)
\* sortable_less throws for two values that are neither numbers nor strings.
Comparable(v, w) == (IsNumber(v) /\ IsNumber(w)) \/ (IsString(v) /\ IsString(w))

\* Mutant: the descending order is the ascending one read backwards.
PrecedesMirrored(v, w, ascending) ==
  LET before(a, b) == ~IsNone(a) /\ (IsNone(b) \/ Less(a, b))
  IN  IF ascending THEN before(v, w) ELSE before(w, v)

\* sortable_compare: missing values last in either direction.
Precedes(v, w, ascending) ==
  /\ ~IsNone(v)
  /\ IsNone(w) \/ (IF ascending THEN Less(v, w) ELSE Less(w, v))

Orderable(items) ==
  \A i, j \in DOMAIN items :
    i # j /\ ~IsNone(items[i]) /\ ~IsNone(items[j]) => Comparable(items[i], items[j])

\* argsort_list: the positions in a stable order.
Order(items, ascending) ==
  LET before(i, j) == \/ Precedes(items[i], items[j], ascending)
                      \/ ~Precedes(items[j], items[i], ascending) /\ i < j
  IN  SetToSortSeq(DOMAIN items, before)

\* sort_list, or argsort_list with the positions counted from zero in places.
SortLine(items, ascending, places) ==
  LET order == Order(items, ascending)
  IN  IF ~Orderable(items) THEN Invalid
      ELSE List([k \in DOMAIN order |-> IF places = <<>> THEN items[order[k]]
                                        ELSE Integer(places[order[k]] - 1)])

\* Mutant: the column's own positions are left in place of the rows'.
PlacesInColumn(rows) == [k \in DOMAIN rows |-> k]

\* The rows that a column's positions stand for: target_rows.
Places(rows) == rows

\* The rows that every column is made of.
RowsOfColumns(rows) ==
  LET lists == SelectSeq([r \in DOMAIN rows |-> r], LAMBDA r : IsList(rows[r]))
  IN  [c \in 1..Width([k \in DOMAIN lists |-> rows[lists[k]]]) |->
         SelectSeq(lists, LAMBDA r : Len(rows[r].list) >= c)]

\* The rows with their sorted columns in place of their own.
PutBack(rows, targets, sorted) ==
  IF \E c \in DOMAIN sorted : IsFailure(sorted[c]) THEN Invalid
  ELSE List([r \in DOMAIN rows |->
               IF ~IsList(rows[r]) THEN rows[r]
               ELSE List([c \in DOMAIN rows[r].list |->
                            sorted[c].list[SelectInSeq(targets[c], LAMBDA t : t = r)]])])

\* sort_axis_zero_ragged: only a column of values is told which rows it is made of.
RECURSIVE SortColumns(_, _, _)
SortColumn(column, rows, ascending, indices) ==
  IF \E k \in DOMAIN column : IsList(column[k]) THEN SortColumns(column, ascending, indices)
  ELSE SortLine(column, ascending, IF indices THEN Places(rows) ELSE <<>>)

SortColumns(rows, ascending, indices) ==
  LET targets == RowsOfColumns(rows)
  IN  PutBack(rows, targets, [c \in DOMAIN targets |->
        SortColumn([k \in DOMAIN targets[c] |-> rows[targets[c][k]].list[c]],
                   targets[c], ascending, indices)])

\* sort_value at its axis
SortAtAxis(items, ascending, indices) ==
  IF \E k \in DOMAIN items : IsList(items[k]) THEN SortColumns(items, ascending, indices)
  ELSE SortLine(items, ascending, IF indices THEN [k \in DOMAIN items |-> k] ELSE <<>>)

\* softmax_list, with powers of two for those of e; whole numbers only.
SoftmaxLine(items) ==
  LET present == {k \in DOMAIN items : ~IsNone(items[k]) /\ ~IsNaN(items[k])}
      top     == Max({items[k].scalar.n : k \in present})
      weight(k) == Real(1, 2^(top - items[k].scalar.n))
      whole   == FoldSet(LAMBDA k, sum : Sum2(weight(k), sum), Real(0, 1), present)
  IN  IF \E k \in present : ~IsNumber(items[k]) THEN Invalid
      ELSE List([k \in DOMAIN items |->
                   IF IsNone(items[k]) THEN None
                   ELSE IF k \in present THEN Quotient(weight(k), whole) ELSE NaN])

-----------------------------------------------------------------------------
OnList(items, ask) ==
  CASE ask.op = "num"         -> Integer(Len(items))
    [] ask.op = "local_index" -> List([k \in DOMAIN items |-> Integer(k - 1)])
    [] ask.op = "flatten"     -> JoinRows(items)
    [] ask.op = "firsts"      -> FirstOfRows(items)
    [] ask.op = "pad_none"    -> PadNone(items, ask.target, ask.clip)
    [] ask.op = "reduce"      -> ReduceLine(items, ask)
    [] ask.op = "sort"        -> SortAtAxis(items, ask.ascending, ask.indices)
    [] ask.op = "softmax"     -> SoftmaxLine(items)

\* The walk to an axis: num_at_axis and its like.  Missing lists stay missing.
RECURSIVE AtAxis(_, _, _)
AtAxis(v, axis, ask) ==
  IF IsNone(v) THEN None
  ELSE IF ~IsList(v) THEN Invalid
  ELSE IF axis = 0 THEN OnList(v.list, ask)
  ELSE Listed([k \in DOMAIN v.list |-> AtAxis(v.list[k], axis - 1, ask)])

\* The axis, counted by the given depth, must be one of low .. depth - 1.
Along(v, axis, depth, low, above, ask) ==
  IF Counted(axis, depth) \in low..(depth - 1)
  THEN AtAxis(v, Counted(axis, depth) - above, ask) ELSE Invalid

\* reduce_array_value: axis is a set of one, or empty for all values at once.
Reduce(v, axis, s) ==
  LET leaves == SelectSeq(Ravel(v), LAMBDA w : ~Missing(w, s))
  IN  IF axis # {} THEN Along(v, CHOOSE a \in axis : TRUE, Depth(v), 0, 0, s)
      ELSE InDimensions(ReduceScalars(leaves, s, s.skip_nan /\ ContainsReal(v)), Depth(v), s)
=============================================================================
