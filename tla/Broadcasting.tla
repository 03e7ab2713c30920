---------------------------- MODULE Broadcasting ----------------------------
(***************************************************************************)
(* The operations of include/awkward/operations.hpp on several values at   *)
(* once: broadcasting, elementwise operations, records; and kernels.hpp,   *)
(* which computes some of them on the layouts and not on the values.       *)
(***************************************************************************)
EXTENDS AxisOperations

-----------------------------------------------------------------------------
(***************************************************************************)
(* Broadcasting.                                                           *)
(***************************************************************************)
IsNestedList(v) == IsList(v) /\ \E k \in DOMAIN v.list : IsList(v.list[k])

\* broadcast_flat_columns: every innermost list of the shape takes the first columns.
RECURSIVE FlatColumns(_, _)
FlatColumns(flat, shape) ==
  IF IsNone(shape) THEN None
  ELSE IF ~IsList(shape) THEN Invalid
  ELSE IF IsNestedList(shape)
  THEN Listed([k \in DOMAIN shape.list |-> FlatColumns(flat, shape.list[k])])
  ELSE IF Len(shape.list) > Len(flat.list) THEN Invalid
  ELSE List(SubSeq(flat.list, 1, Len(shape.list)))

\* Mutant: a flat list of one length with the nested one is taken for columns too.
ColumnsAlways(values, shape) ==
  {k \in DOMAIN values : k # shape /\ IsList(values[k]) /\ ~IsNestedList(values[k])}

\* The flat lists that are columns: those of another length than the nested list.
ColumnsOf(values, shape) ==
  {k \in DOMAIN values : /\ k # shape /\ IsList(values[k]) /\ ~IsNestedList(values[k])
                         /\ Len(values[k].list) # Len(values[shape].list)}

\* broadcast_value_list: the list of the values in one shape.  Lists of different
\* lengths follow the last nested one.
RECURSIVE Broadcast(_)
Broadcast(values) ==
  LET lists   == {k \in DOMAIN values : IsList(values[k])}
      nested  == {k \in lists : IsNestedList(values[k])}
      columns == ColumnsOf(values, Max(nested))
      spread  == [k \in DOMAIN values |-> IF k \in columns
                                          THEN FlatColumns(values[k], values[Max(nested)])
                                          ELSE values[k]]
      cells   == [i \in DOMAIN values[Min(lists)].list |->
                    Broadcast([k \in DOMAIN values |->
                                 IF k \in lists THEN values[k].list[i] ELSE values[k]])]
  IN  IF \E k \in DOMAIN values : IsNone(values[k]) THEN List([k \in DOMAIN values |-> None])
      ELSE IF lists = {} THEN List(values)
      ELSE IF Cardinality({Len(values[k].list) : k \in lists}) = 1
      THEN IF \E i \in DOMAIN cells : IsFailure(cells[i]) THEN Invalid
           ELSE List([k \in DOMAIN values |-> List([i \in DOMAIN cells |-> cells[i].list[k]])])
      ELSE IF nested = {} THEN Invalid
      ELSE IF columns = {} \/ \E k \in DOMAIN spread : IsFailure(spread[k]) THEN Invalid
      ELSE Broadcast(spread)

-----------------------------------------------------------------------------
(***************************************************************************)
(* Elementwise operations.                                                 *)
(***************************************************************************)
Magnitude(v) == IF v.scalar.n < 0 THEN Negative(v) ELSE AsReal(v)

\* The tolerance of isclose and almost_equal.
Close(v, w, ask) ==
  IF IsNaN(v) \/ IsNaN(w) THEN ask.equal_nan /\ IsNaN(v) /\ IsNaN(w)
  ELSE LET bound    == Sum2(ask.atol, Product2(ask.rtol, Magnitude(w)))
           distance == Magnitude(Difference(AsReal(v), AsReal(w)))
       IN  Less(distance, bound) \/ Equal(distance, bound)

\* binary_scalar_value
BinaryScalar(v, w, ask) ==
  LET numbers == IsNumber(v) /\ IsNumber(w)
      real    == IsReal(v) \/ IsReal(w)
  IN
  CASE ask.op = "isclose" -> IF numbers THEN Truth(Close(v, w, ask)) ELSE Invalid
    [] ask.op \in {"equal", "not_equal"} ->
         Truth((ask.op = "equal") = (IF numbers THEN Equal(v, w) ELSE v = w))
    [] ask.op \in {"logical_and", "logical_or"} ->
         IF ~IsNumber(v) THEN Invalid
         ELSE IF Truthy(v) = (ask.op = "logical_or") THEN Truth(Truthy(v))
         ELSE IF ~IsNumber(w) THEN Invalid ELSE Truth(Truthy(w))
    [] ask.op \in {"less", "less_equal", "greater", "greater_equal"} ->
         IF ~Comparable(v, w) THEN Invalid
         ELSE CASE ask.op = "less"       -> Truth(Less(v, w))
                [] ask.op = "less_equal" -> Truth(~Less(w, v))
                [] ask.op = "greater"    -> Truth(Less(w, v))
                [] OTHER                 -> Truth(~Less(v, w))
    [] ~numbers             -> Invalid
    [] ask.op = "add"       -> Numeric(Sum2(AsReal(v), AsReal(w)), real)
    [] ask.op = "subtract"  -> Numeric(Difference(AsReal(v), AsReal(w)), real)
    [] ask.op = "multiply"  -> Numeric(Product2(v, w), real)
    [] ask.op = "divide"    -> Quotient(v, w)

\* validate_matching_record_fields: the order may differ.
SameFields(r, s) == Len(r.fields) = Len(s.fields) /\ ToSet(r.fields) = ToSet(s.fields)

\* record_field_index
FieldOf(r, name) == r.values[SelectInSeq(r.fields, LAMBDA f : f = name)]

\* binary_value and isclose_value
RECURSIVE Binary(_, _, _)
Binary(v, w, ask) ==
  LET both == Broadcast(<<v, w>>)
  IN  IF IsNone(v) \/ IsNone(w) THEN None
      ELSE IF IsList(v) \/ IsList(w)
      THEN IF IsFailure(both) THEN Invalid
           ELSE Listed([i \in DOMAIN both.list[1].list |->
                          Binary(both.list[1].list[i], both.list[2].list[i], ask)])
      ELSE IF ~IsRecord(v) /\ ~IsRecord(w) THEN BinaryScalar(v, w, ask)
      ELSE IF ask.op = "isclose" \/ ~IsRecord(v) \/ ~IsRecord(w) THEN Invalid
      ELSE IF ~SameFields(v, w) THEN Invalid
      ELSE Columns(v.fields, [f \in DOMAIN v.fields |->
                                Binary(v.values[f], FieldOf(w, v.fields[f]), ask)])

\* where_value
RECURSIVE Where(_, _, _)
Where(c, v, w) ==
  LET all == Broadcast(<<c, v, w>>)
  IN  IF IsNone(c) THEN None
      ELSE IF IsList(c) \/ IsList(v) \/ IsList(w)
      THEN IF IsFailure(all) THEN Invalid
           ELSE IF IsNone(all.list[1]) THEN Failure("bad_variant_access")
           ELSE Listed([i \in DOMAIN all.list[1].list |->
                          Where(all.list[1].list[i], all.list[2].list[i], all.list[3].list[i])])
      ELSE IF ~IsBoolean(c) THEN Invalid ELSE IF Truthy(c) THEN v ELSE w

\* broadcast_fields_value: its first value or its second.
RECURSIVE Aligned(_, _, _)
Aligned(v, w, side) ==
  LET both == Broadcast(<<v, w>>)
  IN  IF IsNone(v) \/ IsNone(w) THEN None
      ELSE IF IsList(v) \/ IsList(w)
      THEN IF IsFailure(both) THEN Invalid
           ELSE Listed([i \in DOMAIN both.list[1].list |->
                          Aligned(both.list[1].list[i], both.list[2].list[i], side)])
      ELSE IF ~IsRecord(v) \/ ~IsRecord(w) THEN <<v, w>>[side]
      ELSE IF ~SameFields(v, w) THEN Invalid
      ELSE Columns(v.fields, [f \in DOMAIN v.fields |->
                                Aligned(v.values[f], FieldOf(w, v.fields[f]), side)])

\* equal_value, or almost_equal_value
RECURSIVE EqualValues(_, _, _)
EqualValues(v, w, ask) ==
  CASE IsList(v) /\ IsList(w) ->
         /\ Len(v.list) = Len(w.list)
         /\ \A k \in DOMAIN v.list : EqualValues(v.list[k], w.list[k], ask)
    [] IsRecord(v) /\ IsRecord(w) ->
         /\ v.fields = w.fields
         /\ \A k \in DOMAIN v.values : EqualValues(v.values[k], w.values[k], ask)
    [] IsNumber(v) /\ IsNumber(w) ->
         IF ask.op = "almost_equal" THEN Close(v, w, ask)
         ELSE Equal(v, w) \/ (ask.equal_nan /\ IsNaN(v) /\ IsNaN(w))
    [] OTHER -> DOMAIN v = DOMAIN w /\ v = w

\* zeros_like_value, ones_like_value, like_value
RECURSIVE LikeValue(_, _)
LikeValue(v, ask) ==
  CASE IsNone(v)   -> None
    [] IsList(v)   -> Listed([k \in DOMAIN v.list |-> LikeValue(v.list[k], ask)])
    [] IsRecord(v) -> Columns(v.fields, [k \in DOMAIN v.values |-> LikeValue(v.values[k], ask)])
    [] ask.op = "full_like" -> ask.fill
    [] IsNumber(v) -> Scalar(Kind(v), IF ask.op = "ones_like" THEN 1 ELSE 0, 1)
    [] OTHER       -> Invalid

-----------------------------------------------------------------------------
(***************************************************************************)
(* Records.                                                                *)
(***************************************************************************)
\* zip_values: lists of one length are zipped element by element down to the limit, a
\* set of one depth or empty.
RECURSIVE ZipValues(_, _, _, _)
ZipValues(names, values, limit, depth) ==
  IF \/ \E most \in limit : depth >= most
     \/ \E k \in DOMAIN values : ~IsList(values[k])
     \/ \E k \in DOMAIN values : Len(values[k].list) # Len(values[1].list)
  THEN Record(names, values)
  ELSE List([i \in DOMAIN values[1].list |->
               ZipValues(names, [k \in DOMAIN values |-> values[k].list[i]], limit, depth + 1)])

\* with_field_value
RECURSIVE WithFieldValue(_, _, _)
WithFieldValue(v, what, name) ==
  IF IsNone(v) THEN None
  ELSE IF IsList(v)
  THEN IF ~IsList(what) THEN Invalid
       ELSE IF Len(v.list) # Len(what.list) THEN Invalid
       ELSE Listed([k \in DOMAIN v.list |-> WithFieldValue(v.list[k], what.list[k], name)])
  ELSE IF ~IsRecord(v) THEN Invalid
  ELSE IF name \notin ToSet(v.fields)
  THEN Record(Append(v.fields, name), Append(v.values, what))
  ELSE Record(v.fields, [v.values EXCEPT ![Position(v.fields, name)] = what])

\* Mutant: the name goes, and the first value.
WithoutFirst(r, name) == Record(RemoveAt(r.fields, Position(r.fields, name)), Tail(r.values))

\* A record without one of its fields, the others in their order.
Without(r, name) ==
  LET at == Position(r.fields, name)
  IN  Record(RemoveAt(r.fields, at), RemoveAt(r.values, at))

\* without_field_value
RECURSIVE WithoutFieldValue(_, _)
WithoutFieldValue(v, name) ==
  IF IsNone(v) THEN None
  ELSE IF IsList(v)
  THEN Listed([k \in DOMAIN v.list |-> WithoutFieldValue(v.list[k], name)])
  ELSE IF ~IsRecord(v) THEN Invalid
  ELSE IF name \notin ToSet(v.fields) THEN Failure("out_of_range")
  ELSE Without(v, name)

-----------------------------------------------------------------------------
(***************************************************************************)
(* kernels.hpp.                                                            *)
(***************************************************************************)
\* numeric_layout: the classes over numbers.
IsNumeric(l) == l.class = "numpy" \/ (l.class \in {"list_offset", "regular"} /\ l.typed)

Numbers(l) == IF l.class = "numpy" THEN l.values ELSE l.content.values

\* same_shape
SameShape(l, m) ==
  /\ l.class = m.class
  /\ Len(Numbers(l)) = Len(Numbers(m))
  /\ l.class = "list_offset" => l.offsets = m.offsets
  /\ l.class = "regular" => l.size = m.size /\ l.length = m.length

\* apply: the comparisons are those of the processor.
KernelApply(v, w, ask) ==
  CASE ask.op = "less_equal"    -> Truth(Less(v, w) \/ Equal(v, w))
    [] ask.op = "greater_equal" -> Truth(Less(w, v) \/ Equal(v, w))
    [] OTHER                    -> BinaryScalar(v, w, ask)

\* boolean_result
Comparisons == {"equal", "not_equal", "less", "less_equal", "greater", "greater_equal"}
TruthOps    == Comparisons \cup {"logical_and", "logical_or"}

\* The layout of the given shape around other numbers.
Reshaped(shape, numbers) ==
  IF shape.class = "numpy" THEN numbers ELSE Made([shape EXCEPT !.content = numbers])

\* The type of a typed layout's elements.
Primitive(l) == IF l.class = "numpy" THEN l.primitive ELSE l.content.primitive

HasReals(l) == Primitive(l) = "float64"

\* build_layout: the operator and the types of the operands decide the type of the results.
BuildLayout(shape, results, real, ask) ==
  LET type == IF ask.op \in TruthOps THEN "bool"
              ELSE IF real \/ ask.op = "divide" THEN "float64" ELSE "int64"
      cell(v) == IF type = "float64" THEN AsReal(v).scalar ELSE v.scalar
  IN  Reshaped(shape, NumpyArray([k \in DOMAIN results |-> cell(results[k])], type))

\* apply_numeric
KernelResult(shape, left, right, real, ask) ==
  LET result(k) == KernelApply([scalar |-> left[k]], [scalar |-> right[k]], ask)
  IN  BuildLayout(shape, [k \in DOMAIN left |-> result(k)], real, ask)

\* binary of two layouts, of a layout and a scalar, or of a scalar and a layout.
HasKernel(l, m) == IsNumeric(l) /\ IsNumeric(m) /\ SameShape(l, m)

KernelBinary(l, m, ask) ==
  KernelResult(l, Numbers(l), Numbers(m), HasReals(l) \/ HasReals(m), ask)

KernelWithScalar(l, v, left, ask) ==
  LET scalars == [k \in DOMAIN Numbers(l) |-> v.scalar]
      real    == HasReals(l) \/ IsReal(v)
  IN  IF left THEN KernelResult(l, scalars, Numbers(l), real, ask)
      ELSE KernelResult(l, Numbers(l), scalars, real, ask)

\* logical_not
KernelNot(l) ==
  LET numbers == [k \in DOMAIN Numbers(l) |-> Truth(~Truthy([scalar |-> Numbers(l)[k]])).scalar]
  IN  Reshaped(l, NumpyArray(numbers, "bool"))

\* concatenate_typed: two typed layouts of one kind of number.
SameTyped(l, m) ==
  /\ l.class = m.class
  /\ l.class = "numpy" \/ (l.class = "list_offset" /\ l.typed /\ m.typed)
  /\ Primitive(l) = Primitive(m)

\* Mutant: the offsets of the second are not shifted by the length of the first.
JoinUnshifted(l, m) ==
  LET numbers == NumpyArray(Numbers(l) \o Numbers(m), Primitive(l))
  IN  IF l.class = "numpy" THEN numbers
      ELSE [l EXCEPT !.content = numbers, !.offsets = @ \o Tail(m.offsets)]

\* The values of both, and the offsets of the second counted on from the first's last.
Join(l, m) ==
  LET numbers == NumpyArray(Numbers(l) \o Numbers(m), Primitive(l))
      shifted == [k \in DOMAIN Tail(m.offsets) |-> Last(l.offsets) + Tail(m.offsets)[k]]
  IN  IF l.class = "numpy" THEN numbers
      ELSE ListOffsetArray(numbers, l.offsets \o shifted, TRUE)

\* concatenate_axis0: anything else becomes a union of the whole arrays.
ConcatenateRows(l, m) ==
  IF SameTyped(l, m) THEN Join(l, m)
  ELSE UnionArray([k \in 1..(Length(l) + Length(m)) |-> IF k <= Length(l) THEN 0 ELSE 1],
                  Span(0, Length(l)) \o Span(0, Length(m)), <<l, m>>)
=============================================================================
