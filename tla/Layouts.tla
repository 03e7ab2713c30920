------------------------------ MODULE Layouts ------------------------------
(***************************************************************************)
(* The life of one awkward::Array: a layout that the caller wraps in other *)
(* nodes and selects from.  Layouts are immutable and shared, so a call    *)
(* that throws leaves the caller with the layout he had.                   *)
(*                                                                         *)
(* Every action is one constructor or one method of Content; the caller's  *)
(* arguments, good and bad, come from the constants.                       *)
(***************************************************************************)
EXTENDS LayoutTrees

CONSTANTS
  Leaves,      \* the lengths of primitive layouts
  Offsets,     \* offsets of a list layout
  Ranges,      \* pairs of starts and stops
  Sizes,       \* pairs of a regular size and a length
  Indexes,     \* indexes into a content, negative entries included
  Presents,    \* which values a mask keeps
  Names,       \* the names of a record's one or two fields
  Tags,        \* pairs of a union's tags and index
  Counts,      \* counts to unflatten
  RowItems,    \* indexes of rows
  ColumnItems, \* indexes of columns
  Masks,       \* array masks, flat or ragged or not boolean
  Projections, \* names to project
  MaxWraps,      \* bound: nodes put around the leaf
  MaxSelections  \* bound: selections that succeed

ASSUME MaxWrapsAssumption      == MaxWraps \in Nat
ASSUME MaxSelectionsAssumption == MaxSelections \in Nat

VARIABLES
  layout,     \* the array's layout
  request,    \* the last call, with its arguments (history)
  outcome,    \* how it ended
  wraps,      \* how many nodes were put around the leaf (bound)
  selections  \* how many selections succeeded (bound)

vars == <<layout, request, outcome, wraps, selections>>

Leaf(first, n) == NumpyArray(Span(first, first + n), "int64")

\* The call ends with a layout or throws.
Answer(result) ==
  /\ outcome' = IF IsError(result) THEN result.is ELSE "ok"
  /\ layout'  = IF IsError(result) THEN layout ELSE result

Wrap(call, result) ==
  /\ wraps < MaxWraps
  /\ request' = call
  /\ Answer(result)
  /\ wraps' = IF IsError(result) THEN wraps ELSE wraps + 1
  /\ UNCHANGED selections

Select(call, result) ==
  /\ selections < MaxSelections
  /\ request' = call
  /\ Answer(result)
  /\ selections' = IF IsError(result) THEN selections ELSE selections + 1
  /\ UNCHANGED wraps

\* The classes over a NumpyArray take nothing else.
Typable(typed) == typed => layout.class = "numpy"

-----------------------------------------------------------------------------
(***************************************************************************)
(* Constructors.                                                           *)
(***************************************************************************)
MakeListOffset(o, typed) ==
  /\ Typable(typed)
  /\ Wrap([op |-> "Cut", offsets |-> o], ListOffsetArray(layout, o, typed))

MakeList(r) ==
  Wrap([op |-> "Nest", starts |-> r[1], stops |-> r[2]], ListArray(r[1], r[2], layout))

MakeRegular(s, typed) ==
  /\ Typable(typed)
  /\ Wrap([op |-> "Chop", size |-> s[1], length |-> s[2]],
          RegularArray(layout, s[1], s[2], typed))

MakeIndexed(x) == Wrap([op |-> "PickAll", index |-> x], IndexedArray(x, layout))

MakeIndexedOption(x) == Wrap([op |-> "PickOrNone", index |-> x], IndexedOptionArray(x, layout))

\* Any byte but zero is set.
MakeByteMasked(present, valid_when) ==
  Wrap([op |-> "Hide", present |-> present, enough |-> TRUE],
       Made([class |-> "byte_masked", content |-> layout, valid_when |-> valid_when,
             mask |-> [k \in DOMAIN present |-> IF present[k] = valid_when THEN k ELSE 0]]))

\* The caller's packing of the bits, the first value's in the lowest place or in the
\* highest, and the length he states: the values', or more than there are bits.
MaskBytes(present, valid_when, lsb_order) ==
  LET place(k) == IF lsb_order THEN (k - 1) % ByteBits ELSE ByteBits - 1 - ((k - 1) % ByteBits)
      bits(b)  == {k \in DOMAIN present : (k - 1) \div ByteBits = b - 1 /\ present[k] = valid_when}
      byte(b)  == FoldSeq(+, 0, [k \in DOMAIN present |-> IF k \in bits(b) THEN 2^place(k) ELSE 0])
  IN  [b \in 1..((Len(present) + ByteBits - 1) \div ByteBits) |-> byte(b)]

MakeBitMasked(present, valid_when, lsb_order, enough) ==
  LET bytes == MaskBytes(present, valid_when, lsb_order)
  IN  Wrap([op |-> "Hide", present |-> present, enough |-> enough],
           Made([class |-> "bit_masked", content |-> layout, mask |-> bytes,
                 length |-> IF enough THEN Len(present) ELSE Len(bytes) * ByteBits + 1,
                 valid_when |-> valid_when, lsb_order |-> lsb_order]))

MakeUnmasked == Wrap([op |-> "Keep"], Made([class |-> "unmasked", content |-> layout]))

MakeRecord(names, others) ==
  Wrap([op |-> "Zip", names |-> names, others |-> [k \in DOMAIN others |-> ToList(others[k])]],
       RecordArray(names, <<layout>> \o others, Length(layout)))

MakeUnion(t, other) ==
  Wrap([op |-> "Merge", tags |-> t[1], index |-> t[2], other |-> ToList(other)],
       UnionArray(t[1], t[2], <<layout, other>>))

-----------------------------------------------------------------------------
(***************************************************************************)
(* Methods.                                                                *)
(***************************************************************************)
TakeRows(x) == Select([op |-> "SelectRows", rows |-> x], SelectRows(layout, x))

\* One row or one column is dropped; without that, two ranges or two arrays.
TakeInner(rows, columns, drop) ==
  /\ IF drop THEN /\ rows.kind = "integers"
                  /\ \/ Len(rows.values) = 1
                     \/ columns.kind = "integers" /\ Len(columns.values) = 1
             ELSE rows.kind = columns.kind
  /\ Select([op |-> "Inner", rows |-> rows, columns |-> columns, drop |-> drop],
            Inner(layout, rows, columns, drop))

MaskLayout(mask) ==
  CASE mask.kind = "flat"   -> NumpyArray(mask.values, "bool")
    [] mask.kind = "ragged" ->
         ListOffsetArray(NumpyArray(FlattenSeq(mask.values), "bool"), OffsetsOf(mask.values), TRUE)
    [] mask.kind = "other"  -> NumpyArray(<<0>>, "int64")

MaskWith(mask) ==
  Select([op |-> "MaskAsArray", mask |-> mask], MaskAsArray(layout, MaskLayout(mask)))

FlattenRows     == Select([op |-> "Flatten"], Flatten(layout))
UnflattenBy(n)  == Select([op |-> "Unflatten", counts |-> n], Unflatten(layout, n))
ToPacked        == Select([op |-> "Keep"], Packed(layout))
NewOuterAxis    == Select([op |-> "OuterAxis"], OuterAxis(layout))
NewInnerAxis    == Select([op |-> "InnerAxis"], SingletonAxis(layout))
Field(name)     == Select([op |-> "Fields", names |-> <<name>>, single |-> TRUE],
                          FieldsOf(layout, <<name>>, TRUE))
ProjectFields(names) == Select([op |-> "Fields", names |-> names, single |-> FALSE],
                               FieldsOf(layout, names, FALSE))

-----------------------------------------------------------------------------
Init ==
  /\ layout \in {[class |-> "empty"], StringArray(<<1, 2>>)} \cup {Leaf(1, n) : n \in Leaves}
  /\ request = [op |-> "none"]
  /\ outcome = "ok"
  /\ wraps = 0
  /\ selections = 0

Next ==
  \/ \E o \in Offsets, typed \in BOOLEAN : MakeListOffset(o, typed)
  \/ \E r \in Ranges : MakeList(r)
  \/ \E s \in Sizes, typed \in BOOLEAN : MakeRegular(s, typed)
  \/ \E x \in Indexes : MakeIndexed(x) \/ MakeIndexedOption(x)
  \/ \E p \in Presents, valid_when \in BOOLEAN : MakeByteMasked(p, valid_when)
  \/ \E p \in Presents, valid_when, lsb_order, enough \in BOOLEAN :
       MakeBitMasked(p, valid_when, lsb_order, enough)
  \/ MakeUnmasked
  \/ \E names \in Names :
       MakeRecord(names, <<>>) \/ \E n \in Leaves : MakeRecord(names, <<Leaf(11, n)>>)
  \/ \E t \in Tags, n \in Leaves : MakeUnion(t, Leaf(11, n))
  \/ \E x \in RowItems : TakeRows(x)
  \/ \E x \in RowItems, y \in ColumnItems, drop \in BOOLEAN : TakeInner(x, y, drop)
  \/ \E mask \in Masks : MaskWith(mask)
  \/ FlattenRows
  \/ \E n \in Counts : UnflattenBy(n)
  \/ ToPacked
  \/ NewOuterAxis
  \/ NewInnerAxis
  \/ \E name \in {"x", "z"} : Field(name)
  \/ \E names \in Projections : ProjectFields(names)

Spec == Init /\ [][Next]_vars
=============================================================================
