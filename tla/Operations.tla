----------------------------- MODULE Operations -----------------------------
(***************************************************************************)
(* The life of one ak::Array in the hands of the free functions of         *)
(* include/awkward/operations.hpp: the caller holds an array, calls one    *)
(* function after the other on it and keeps what they return.  A function  *)
(* that throws, or that returns a value, leaves the array as it is.        *)
(*                                                                         *)
(* Nearly every function converts its arrays to values, computes on those  *)
(* and builds a layout from the result, and then puts the metadata of its  *)
(* inputs on it, which may be refused in turn.                             *)
(***************************************************************************)
EXTENDS Slices, Broadcasting, Metadata, Strings

CONSTANTS
  Arrays,      \* the arrays the caller starts with
  Others,      \* the arrays he gives as second operands
  Conditions,  \* the arrays he gives to where
  Fillers,     \* the values he gives
  Axes,        \* the axes he names
  Targets,     \* lengths to pad to
  Reducers,    \* settings of a reduction, with its axis: a set of one or empty
  Selections,  \* sequences of slice items
  Tallies,     \* counts to unflatten
  Questions,   \* what is asked of strings, or done to them
  Separators,  \* bytes to put between joined strings
  MaxCalls     \* bound: calls whose result is kept

ASSUME MaxCallsAssumption == MaxCalls \in Nat

VARIABLES
  array,    \* the array held: layout, attrs and axes
  request,  \* the last call, with its arguments (history)
  outcome,  \* how it ended (history)
  answer,   \* the value, or the several arrays, it returned (history)
  calls     \* how many results were kept (bound)

vars == <<array, request, outcome, answer, calls>>

ToValue(a) == List(ToList(a.layout))
Ndim(l)    == Dimensions(l) + 1

-----------------------------------------------------------------------------
(***************************************************************************)
(* Metadata of results.                                                    *)
(***************************************************************************)
Refused(e) == [layout |-> Error(e), attrs |-> Nothing, axes |-> Nothing]

\* The constructor of Array.
ArrayOf(l, attrs, axes) ==
  IF IsError(l) THEN Refused(l.is)
  ELSE IF ~InRange(axes, Ndim(l)) THEN Refused("invalid_argument")
  ELSE [layout |-> l, attrs |-> attrs, axes |-> axes]

\* attach_metadata, and Array::with_layout
Attach(l, a) == ArrayOf(l, a.attrs, a.axes)

\* remove_axis_metadata
AttachWithout(l, a, removed) == ArrayOf(l, a.attrs, WithoutAxis(a.axes, Ndim(a.layout), removed))

\* attach_merged_metadata
AttachMerged(l, a, b) ==
  IF IsError(l) THEN Refused(l.is)
  ELSE IF Conflict(a.attrs, b.attrs) \/ Conflict(a.axes, b.axes) THEN Refused("invalid_argument")
  ELSE ArrayOf(l, Merged(a.attrs, b.attrs), Merged(a.axes, b.axes))

\* metadata_from_inputs, of three
AttachFrom(l, a, b, c) ==
  LET all(m, n, o) == Conflict(m, n) \/ Conflict(Merged(m, n), o)
  IN  IF IsError(l) THEN Refused(l.is)
      ELSE IF all(a.attrs, b.attrs, c.attrs) \/ all(a.axes, b.axes, c.axes)
      THEN Refused("invalid_argument")
      ELSE ArrayOf(l, Merged(Merged(a.attrs, b.attrs), c.attrs), Merged(Merged(a.axes, b.axes), c.axes))

-----------------------------------------------------------------------------
(***************************************************************************)
(* How calls end.                                                          *)
(***************************************************************************)
\* With an array, which is kept.
Keep(call, result) ==
  /\ calls < MaxCalls
  /\ request' = call
  /\ answer'  = None
  /\ outcome' = IF IsError(result.layout) THEN result.layout.is ELSE "ok"
  /\ array'   = IF IsError(result.layout) THEN array ELSE result
  /\ calls'   = IF IsError(result.layout) THEN calls ELSE calls + 1

\* With something else.
Tell(call, value) ==
  /\ calls < MaxCalls
  /\ request' = call
  /\ answer'  = value
  /\ outcome' = IF IsFailure(value) THEN value.failure ELSE "ok"
  /\ UNCHANGED <<array, calls>>

\* With two arrays; the one in the place of the held array is kept.
KeepOneOf(call, first, second) ==
  /\ calls < MaxCalls
  /\ request' = call
  /\ LET failed == {a \in {first, second} : IsError(a.layout)}
     IN  /\ outcome' = IF failed = {} THEN "ok" ELSE (CHOOSE a \in failed : TRUE).layout.is
         /\ array'   = IF failed = {} THEN first ELSE array
         /\ answer'  = IF failed = {} THEN ToValue(second) ELSE None
         /\ calls'   = IF failed = {} THEN calls + 1 ELSE calls

\* The array of a computed value, with the metadata of the held array.
Computed(v) == Attach(LayoutFrom(v), array)

-----------------------------------------------------------------------------
(***************************************************************************)
(* Metadata.                                                               *)
(***************************************************************************)
DoWithNamedAxis(name, axis) ==
  Keep([op |-> "with_named_axis", name |-> name, axis |-> axis],
       ArrayOf(array.layout, array.attrs, WithName(array.axes, name, axis)))

DoWithoutNamedAxis(name) ==
  Keep([op |-> "without_named_axis", name |-> name],
       ArrayOf(array.layout, array.attrs, WithoutName(array.axes, name)))

DoWithAttrs(other) ==
  Keep([op |-> "with_attrs"], ArrayOf(array.layout, other.attrs, array.axes))

-----------------------------------------------------------------------------
(***************************************************************************)
(* Selection and structure.                                                *)
(***************************************************************************)
DoSlice(items) ==
  Keep([op |-> "slice", items |-> items], Attach(SliceLayout(array.layout, items), array))

\* at(index), at(outer, inner)
DoAt(index) ==
  Tell([op |-> "at", items |-> <<IntegerOf(index)>>], ElementAt(array.layout, <<index>>))

DoAtInner(outer, inner) ==
  Tell([op |-> "at", items |-> <<IntegerOf(outer), IntegerOf(inner)>>],
       ElementAt(array.layout, <<outer, inner>>))

DoNum(axis) ==
  Tell([op |-> "num", axis |-> axis],
       Along(ToValue(array), axis, Ndim(array.layout), 0, 0, [op |-> "num"]))

DoFlattenOuter ==
  Keep([op |-> "flatten_outer"], AttachWithout(Flatten(array.layout), array, 1))

DoFlatten(axis) ==
  Keep([op |-> "flatten", axis |-> axis],
       AttachWithout(
         LayoutFrom(Along(ToValue(array), axis, Ndim(array.layout), 1, 1, [op |-> "flatten"])),
         array, Place(axis, Ndim(array.layout))))

DoRavel ==
  Keep([op |-> "ravel"], ArrayOf(LayoutFromList(Ravel(ToValue(array))), array.attrs, Nothing))

DoUnflatten(counts) ==
  Keep([op |-> "unflatten", counts |-> counts], Attach(Unflatten(array.layout, counts), array))

DoToPacked == Keep([op |-> "to_packed"], Attach(Packed(array.layout), array))

DoConcatenate(other, axis) ==
  LET depth  == Ndim(array.layout)
      layout == IF depth # Ndim(other.layout) \/ Place(axis, depth) \notin 0..(depth - 1)
                THEN Error("invalid_argument")
                ELSE IF Place(axis, depth) = 0 THEN ConcatenateRows(array.layout, other.layout)
                ELSE LayoutFrom(Concatenated(<<ToValue(array), ToValue(other)>>, Place(axis, depth)))
  IN  Keep([op |-> "concatenate", other |-> other, axis |-> axis], AttachMerged(layout, array, other))

DoLocalIndex(axis) ==
  Keep([op |-> "local_index", axis |-> axis],
       Computed(Along(ToValue(array), axis, Ndim(array.layout), 0, 0, [op |-> "local_index"])))

DoFirsts(axis) ==
  Keep([op |-> "firsts", axis |-> axis],
       AttachWithout(
         LayoutFrom(Along(ToValue(array), axis, Ndim(array.layout), 1, 1, [op |-> "firsts"])),
         array, Place(axis, Ndim(array.layout))))

DoSingletons == Keep([op |-> "singletons"], Computed(Singletons(ToValue(array))))

-----------------------------------------------------------------------------
(***************************************************************************)
(* Missing values.                                                         *)
(***************************************************************************)
HasAxis(axis) == Place(axis, Ndim(array.layout)) \in 0..(Ndim(array.layout) - 1)

DoIsNone(axis) ==
  LET at == Place(axis, Ndim(array.layout))
  IN  Keep([op |-> "is_none", axis |-> axis],
           Computed(IF HasAxis(axis)
                    THEN Listed([k \in DOMAIN ToList(array.layout) |->
                                   IsNoneAt(ToList(array.layout)[k], at)])
                    ELSE Invalid))

\* axis is a set of one, or empty for all.
DoDropNone(axis) ==
  Keep([op |-> IF axis = {} THEN "drop_every_none" ELSE "drop_none", axis |-> axis],
       Computed(IF \A a \in axis : HasAxis(a)
                THEN DropNone(ToValue(array), {Place(a, Ndim(array.layout)) : a \in axis})
                ELSE Invalid))

DoFillNone(fill) ==
  Keep([op |-> "fill_none", fill |-> fill],
       Computed(Leafwise(ToValue(array), [op |-> "fill_none", fill |-> fill])))

DoPadNone(target, axis, clip) ==
  Keep([op |-> "pad_none", target |-> target, axis |-> axis, clip |-> clip],
       Computed(Along(ToValue(array), axis, Ndim(array.layout), 0, 0,
                      [op |-> "pad_none", target |-> target, clip |-> clip])))

DoNanToNone ==
  Keep([op |-> "nan_to_none"], Computed(Leafwise(ToValue(array), [op |-> "nan_to_none"])))

\* The numbers given for NaN, for an infinity and for a negative one.
DoNanToNum(nan, posinf, neginf) ==
  Keep([op |-> "nan_to_num"],
       Computed(Leafwise(ToValue(array),
                         [op |-> "nan_to_num", nan |-> nan, posinf |-> posinf, neginf |-> neginf])))

\* A flat mask is put around the layout, another one is followed value by value.
DoMask(mask, valid_when) ==
  LET bytes == [k \in DOMAIN mask.layout.values |-> mask.layout.values[k].n]
      layout == IF ~IsFlatMask(mask.layout)
                THEN LayoutFrom(Masked(ToValue(array), ToValue(mask), valid_when))
                ELSE IF Len(bytes) # Length(array.layout) THEN Error("invalid_argument")
                ELSE Made([class |-> "byte_masked", mask |-> bytes, content |-> array.layout,
                           valid_when |-> valid_when])
  IN  Keep([op |-> "mask", mask |-> mask, valid_when |-> valid_when],
           AttachMerged(layout, array, mask))

-----------------------------------------------------------------------------
(***************************************************************************)
(* Reductions and order.                                                   *)
(***************************************************************************)
\* The reducer of that name with options o.
DoReduce(name, o) ==
  Tell([op |-> "reduce", axis |-> o.axis, settings |-> SettingsOf(name, o)],
       IF name = "moment" /\ o.order < 0 THEN Invalid
       ELSE Reduce(ToValue(array), o.axis, SettingsOf(name, o)))

\* reducer_result: a list has the metadata of the array, without the axis that went.
ReducerResult(v, a, axis, keepdims) ==
  IF axis # {} /\ ~keepdims
  THEN AttachWithout(LayoutFrom(v), a, Place(CHOOSE i \in axis : TRUE, Ndim(a.layout)))
  ELSE Attach(LayoutFrom(v), a)

\* sum_result, mean_result
DoReduceResult(name, o) ==
  LET v    == Reduce(ToValue(array), o.axis, SettingsOf(name, o))
      call == [op |-> "reduce_result", axis |-> o.axis, settings |-> SettingsOf(name, o)]
  IN  IF IsList(v) THEN Keep(call, ReducerResult(v, array, o.axis, o.keepdims)) ELSE Tell(call, v)

\* The axis of these is counted by the depth of the values.  NaN is no value that
\* std::stable_sort can order: what it does to a list with one is left open.
DoSort(axis, ascending, indices) ==
  /\ \A v \in ToSet(Ravel(ToValue(array))) : ~IsNaN(v)
  /\ Keep([op |-> IF indices THEN "argsort" ELSE "sort", axis |-> axis, ascending |-> ascending],
          Computed(Along(ToValue(array), axis, Depth(ToValue(array)), 0, 0,
                         [op |-> "sort", ascending |-> ascending, indices |-> indices])))

\* Given whole numbers only.
DoSoftmax(axis) ==
  /\ \A v \in ToSet(Ravel(ToValue(array))) : IsNumber(v) => v.scalar.d = 1
  /\ Keep([op |-> "softmax", axis |-> axis],
          Computed(Along(ToValue(array), axis, Depth(ToValue(array)), 0, 0, [op |-> "softmax"])))

-----------------------------------------------------------------------------
(***************************************************************************)
(* Records.                                                                *)
(***************************************************************************)
\* With names, or as a tuple, whose fields have their places for names.
DoZip(other, names, limit) ==
  LET left   == ToList(array.layout)
      right  == ToList(other.layout)
      layout == IF Len(left) # Len(right) THEN Error("invalid_argument")
                ELSE LayoutFrom(Listed([k \in DOMAIN left |->
                       ZipValues(names, <<left[k], right[k]>>, limit, 1)]))
  IN  Keep([op |-> "zip", other |-> other, names |-> names, limit |-> limit], AttachMerged(layout, array, other))

DoField(names, single) ==
  Keep([op |-> "field", names |-> names, single |-> single],
       Attach(FieldsOf(array.layout, names, single), array))

\* One array for each field, or none at all if one of them is refused.
DoUnzip ==
  LET names  == FieldNames(array.layout)
      parts  == [k \in DOMAIN names |-> Attach(FieldsOf(array.layout, <<names[k]>>, TRUE), array)]
      failed == SelectSeq(parts, LAMBDA a : IsError(a.layout))
  IN  Tell([op |-> "unzip"],
           IF names = <<>> THEN Invalid
           ELSE IF failed # <<>> THEN Failure(failed[1].layout.is)
           ELSE List([k \in DOMAIN parts |-> ToValue(parts[k])]))

DoWithField(other, name) ==
  Keep([op |-> "with_field", other |-> other, name |-> name],
       AttachMerged(LayoutFrom(WithFieldValue(ToValue(array), ToValue(other), name)), array, other))

DoWithoutField(name) ==
  Keep([op |-> "without_field", name |-> name],
       Computed(WithoutFieldValue(ToValue(array), name)))

-----------------------------------------------------------------------------
(***************************************************************************)
(* Elementwise operations.                                                 *)
(***************************************************************************)
BinaryOps == TruthOps \cup {"add", "subtract", "multiply", "divide"}

DoBroadcast(other) ==
  LET both == Broadcast(<<ToValue(array), ToValue(other)>>)
  IN  KeepOneOf([op |-> "broadcast_arrays", other |-> other],
                IF IsFailure(both) THEN Refused(both.failure) ELSE Attach(LayoutFrom(both.list[1]), array),
                IF IsFailure(both) THEN Refused(both.failure) ELSE Attach(LayoutFrom(both.list[2]), other))

DoBroadcastScalar(v) ==
  LET both == Broadcast(<<ToValue(array), v>>)
  IN  KeepOneOf([op |-> "broadcast_scalar", value |-> v],
                IF IsFailure(both) THEN Refused(both.failure) ELSE Computed(both.list[1]),
                IF IsFailure(both) THEN Refused(both.failure) ELSE Computed(both.list[2]))

DoBroadcastFields(other) ==
  LET side(k) == AttachMerged(LayoutFrom(Aligned(ToValue(array), ToValue(other), k)), array, other)
  IN  KeepOneOf([op |-> "broadcast_fields", other |-> other], side(1), side(2))

\* elementwise_binary of two arrays
DoBinary(other, op) ==
  LET layout == IF Length(array.layout) = 0 /\ Length(other.layout) = 0
                   /\ Ndim(array.layout) = Ndim(other.layout)
                THEN array.layout
                ELSE IF HasKernel(array.layout, other.layout)
                THEN KernelBinary(array.layout, other.layout, [op |-> op])
                ELSE LayoutFrom(Binary(ToValue(array), ToValue(other), [op |-> op]))
  IN  Keep([op |-> op, other |-> other], AttachMerged(layout, array, other))

\* elementwise_binary of an array and a value, on either side
DoBinaryScalar(v, op, left) ==
  LET layout == IF Length(array.layout) = 0 THEN array.layout
                ELSE IF IsNumeric(array.layout) /\ IsNumber(v)
                THEN KernelWithScalar(array.layout, v, left, [op |-> op])
                ELSE LayoutFrom(IF left THEN Binary(v, ToValue(array), [op |-> op])
                                        ELSE Binary(ToValue(array), v, [op |-> op]))
  IN  Keep([op |-> op, value |-> v, left |-> left], Attach(layout, array))

DoLogicalNot ==
  LET layout == IF Length(array.layout) = 0 THEN array.layout
                ELSE IF IsNumeric(array.layout) THEN KernelNot(array.layout)
                ELSE LayoutFrom(Leafwise(ToValue(array), [op |-> "logical_not"]))
  IN  Keep([op |-> "logical_not"], Attach(layout, array))

\* where with two arrays, and with an array and a value
DoWhere(condition, other) ==
  Keep([op |-> "where", condition |-> condition, other |-> other],
       AttachFrom(LayoutFrom(Where(ToValue(condition), ToValue(array), ToValue(other))),
                  condition, array, other))

DoWhereScalar(condition, v, left) ==
  Keep([op |-> "where", condition |-> condition, value |-> v, left |-> left],
       AttachMerged(LayoutFrom(IF left THEN Where(ToValue(condition), v, ToValue(array))
                                       ELSE Where(ToValue(condition), ToValue(array), v)),
                    condition, array))

\* CloseOptions: one tolerance absolute, one relative.
Tolerance(op, equal_nan) ==
  [op |-> op, atol |-> Real(1, 4), rtol |-> Real(1, 4), equal_nan |-> equal_nan]

DoIsClose(other, equal_nan) ==
  Keep([op |-> "isclose", other |-> other],
       AttachMerged(LayoutFrom(Binary(ToValue(array), ToValue(other), Tolerance("isclose", equal_nan))),
                    array, other))

DoAlmostEqual(other, equal_nan) ==
  Tell([op |-> "almost_equal", other |-> other, equal_nan |-> equal_nan],
       Truth(EqualValues(ToValue(array), ToValue(other), Tolerance("almost_equal", equal_nan))))

DoArrayEqual(other, equal_nan) ==
  Tell([op |-> "array_equal", other |-> other, equal_nan |-> equal_nan],
       Truth(EqualValues(ToValue(array), ToValue(other),
                         [op |-> "array_equal", equal_nan |-> equal_nan])))

DoLike(ask) == Keep([op |-> ask.op], Computed(LikeValue(ToValue(array), ask)))

-----------------------------------------------------------------------------
(***************************************************************************)
(* Strings.                                                                *)
(***************************************************************************)
DoString(ask) ==
  Keep([op |-> "string", ask |-> ask],
       Computed(IF ask.name = "split_pattern" /\ ask.pattern = <<>> THEN Invalid
                ELSE MapStrings(ToValue(array), ask)))

DoJoin(separator) ==
  Keep([op |-> "join", separator |-> separator], Computed(JoinRowsOf(ToValue(array), separator)))

-----------------------------------------------------------------------------
Init ==
  /\ array \in Arrays
  /\ request = [op |-> "none"]
  /\ outcome = "ok"
  /\ answer = None
  /\ calls = 0

Next ==
  \/ \E name \in {"a", "b"}, axis \in Axes : DoWithNamedAxis(name, axis)
  \/ \E name \in {"a", "b"} : DoWithoutNamedAxis(name)
  \/ \E other \in Others : DoWithAttrs(other)
  \/ \E items \in Selections : DoSlice(items)
  \/ \E axis \in Axes :
       \/ DoNum(axis) \/ DoFlatten(axis) \/ DoLocalIndex(axis) \/ DoFirsts(axis)
       \/ DoIsNone(axis) \/ DoDropNone({axis}) \/ DoSoftmax(axis)
       \/ \E target \in Targets, clip \in BOOLEAN : DoPadNone(target, axis, clip)
       \/ \E ascending, indices \in BOOLEAN : DoSort(axis, ascending, indices)
       \/ \E other \in Others : DoConcatenate(other, axis)
  \/ \E outer, inner \in Axes : DoAt(outer) \/ DoAtInner(outer, inner)
  \/ \E names \in {<<"x">>, <<"y", "x">>}, single \in BOOLEAN :
       /\ single => Len(names) = 1
       /\ DoField(names, single)
  \/ DoUnzip
  \/ DoFlattenOuter
  \/ DoRavel
  \/ \E counts \in Tallies : DoUnflatten(counts)
  \/ DoToPacked
  \/ DoSingletons
  \/ DoDropNone({})
  \/ DoNanToNone
  \/ DoNanToNum(Real(0, 1), Real(9, 1), Real(-9, 1))
  \/ \E o \in Reducers : DoReduce(o.name, o)
  \/ \E o \in Reducers : o.name \in {"sum", "mean"} /\ DoReduceResult(o.name, o)
  \/ DoLogicalNot
  \/ \E ask \in Questions : DoString(ask)
  \/ \E separator \in Separators : DoJoin(separator)
  \/ \E name \in {"x", "y", "z"} : DoWithoutField(name)
  \/ \E ask \in {[op |-> "zeros_like"], [op |-> "ones_like"]} : DoLike(ask)
  \/ \E v \in Fillers :
       \/ DoFillNone(v) \/ DoBroadcastScalar(v)
       \/ DoLike([op |-> "full_like", fill |-> v])
       \/ \E op \in BinaryOps, left \in BOOLEAN : DoBinaryScalar(v, op, left)
       \/ \E condition \in Conditions, left \in BOOLEAN : DoWhereScalar(condition, v, left)
  \/ \E other \in Others :
       \/ DoBroadcast(other)
       \/ DoBroadcastFields(other)
       \/ \E valid_when \in BOOLEAN : DoMask(other, valid_when)
       \/ \E names \in {<<"x", "y">>, <<"0", "1">>}, limit \in {{}, {1}} : DoZip(other, names, limit)
       \/ \E name \in {"x", "z"} : DoWithField(other, name)
       \/ \E op \in BinaryOps : DoBinary(other, op)
       \/ \E condition \in Conditions : DoWhere(condition, other)
       \/ \E equal_nan \in BOOLEAN :
            DoIsClose(other, equal_nan) \/ DoAlmostEqual(other, equal_nan) \/ DoArrayEqual(other, equal_nan)

Spec == Init /\ [][Next]_vars
=============================================================================
