---------------------------- MODULE LayoutTrees ----------------------------
(***************************************************************************)
(* The layouts of awkward::Array, include/awkward/contents: immutable      *)
(* trees of columnar nodes, and what the methods of Content compute on     *)
(* them.  A method of the code that throws yields an error node here.      *)
(*                                                                         *)
(* A node is a record with the members of its C++ class and the name of    *)
(* its LayoutKind as class; where two C++ classes share a kind's name,     *)
(* typed tells the template over a NumpyArray from the class that holds    *)
(* any content.  Positions are counted from zero, as in the code.          *)
(***************************************************************************)
EXTENDS ListRows

CONSTANTS
  ByteBits,  \* the bits of a byte, eight in the code
  SizeMax,   \* the greatest std::size_t, 2^64 - 1 in the code
  True       \* the scalar true

ASSUME ByteBitsAssumption == ByteBits \in Nat \ {0}
ASSUME SizeMaxAssumption  == SizeMax \in Nat \ {0}

Error(e)   == [class |-> "error", is |-> e]
IsError(l) == l.class = "error"

ListClasses == {"list_offset", "list", "regular"}

Children(l) ==
  IF "contents" \in DOMAIN l THEN l.contents
  ELSE IF "content" \in DOMAIN l THEN <<l.content>> ELSE <<>>

\* length()
RECURSIVE Length(_)
Length(l) ==
  CASE l.class = "empty"                           -> 0
    [] l.class \in {"numpy", "string"}             -> Len(l.values)
    [] l.class = "list_offset"                     -> Len(l.offsets) - 1
    [] l.class = "list"                            -> Len(l.starts)
    [] l.class \in {"indexed", "indexed_option"}   -> Len(l.index)
    [] l.class = "byte_masked"                     -> Len(l.mask)
    [] l.class \in {"regular", "bit_masked", "record"} -> l.length
    [] l.class = "unmasked"                        -> Length(l.content)
    [] l.class = "union"                           -> Len(l.tags)

-----------------------------------------------------------------------------
(***************************************************************************)
(* Construction.                                                           *)
(***************************************************************************)
\* Mutant: the product of length and size is not guarded.
SoundRegularWrapped(l) ==
  IF l.size = 0 THEN Length(l.content) = 0
  ELSE (l.length * l.size) % (SizeMax + 1) = Length(l.content)

SoundRegular(l) ==
  IF l.size = 0 THEN Length(l.content) = 0
  ELSE l.length <= SizeMax \div l.size /\ l.length * l.size = Length(l.content)

SoundByteMask(l) == Len(l.mask) <= Length(l.content)

SoundBitMask(l) == l.length <= Length(l.content) /\ l.length <= Len(l.mask) * ByteBits

SoundRecord(l) ==
  /\ Len(l.fields) = Len(l.contents)
  /\ \A i, j \in DOMAIN l.fields : l.fields[i] = l.fields[j] => i = j
  /\ \A i \in DOMAIN l.contents : Length(l.contents[i]) = l.length

SoundUnion(l) ==
  /\ Len(l.tags) = Len(l.index)
  /\ l.contents # <<>>
  /\ \A i \in DOMAIN l.tags :
       /\ l.tags[i] < Len(l.contents)
       /\ 0 <= l.index[i] /\ l.index[i] < Length(l.contents[l.tags[i] + 1])

\* validate() of every class, for a node whose contents are valid.
Sound(l) ==
  CASE l.class = "list_offset"    -> SoundOffsets(l.offsets, Length(l.content))
    [] l.class = "list"           -> SoundRanges(l.starts, l.stops, Length(l.content))
    [] l.class = "regular"        -> SoundRegular(l)
    [] l.class = "indexed"        -> SoundIndex(l.index, Length(l.content))
    [] l.class = "indexed_option" -> SoundOptionIndex(l.index, Length(l.content))
    [] l.class = "byte_masked"    -> SoundByteMask(l)
    [] l.class = "bit_masked"     -> SoundBitMask(l)
    [] l.class = "record"         -> SoundRecord(l)
    [] l.class = "union"          -> SoundUnion(l)
    [] OTHER                      -> TRUE

\* Mutant: a constructor that does not validate.
MadeUnchecked(l) ==
  LET failed == {i \in DOMAIN Children(l) : IsError(Children(l)[i])}
  IN  IF failed # {} THEN Children(l)[Min(failed)] ELSE l

\* A constructor: the error of a content that was not computed, or an own one.
Made(l) ==
  LET failed == {i \in DOMAIN Children(l) : IsError(Children(l)[i])}
  IN  IF failed # {} THEN Children(l)[Min(failed)]
      ELSE IF Sound(l) THEN l ELSE Error("invalid_argument")

NumpyArray(v, primitive) == [class |-> "numpy", values |-> v, primitive |-> primitive]
\* A string is one value; that it lies in the array as bytes between offsets is left out.
StringArray(v) == [class |-> "string", values |-> v]
IndexedArray(x, c)  == Made([class |-> "indexed", index |-> x, content |-> c])
IndexedOptionArray(x, c) == Made([class |-> "indexed_option", index |-> x, content |-> c])
ListOffsetArray(c, o, typed) ==
  Made([class |-> "list_offset", typed |-> typed, content |-> c, offsets |-> o])
ListArray(a, b, c) == Made([class |-> "list", starts |-> a, stops |-> b, content |-> c])
RegularArray(c, size, n, typed) ==
  Made([class |-> "regular", typed |-> typed, content |-> c, size |-> size, length |-> n])
RecordArray(fields, cs, n) ==
  Made([class |-> "record", fields |-> fields, contents |-> cs, length |-> n])
UnionArray(tags, x, cs) ==
  Made([class |-> "union", tags |-> tags, index |-> x, contents |-> cs])

-----------------------------------------------------------------------------
(***************************************************************************)
(* The values of a layout.                                                 *)
(***************************************************************************)
\* The positions in the content that row i of a list layout holds.
Row(l, i) ==
  CASE l.class = "list_offset" -> OffsetRow(l.offsets, i)
    [] l.class = "list"        -> RangeRow(l.starts, l.stops, i)
    [] l.class = "regular"     -> RegularRow(l.size, i)

Rows(l) == [k \in 1..Length(l) |-> Row(l, k - 1)]

ByteIsSet(l, i) == l.mask[i + 1] # 0

\* Mutant: the bit order is ignored.
BitIsSetLowFirst(l, i) == (l.mask[i \div ByteBits + 1] \div 2^(i % ByteBits)) % 2 # 0

\* The bit of position i, counted from the lowest bit of its byte or from the highest.
BitIsSet(l, i) ==
  LET bit == IF l.lsb_order THEN i % ByteBits ELSE ByteBits - 1 - (i % ByteBits)
  IN  (l.mask[i \div ByteBits + 1] \div 2^bit) % 2 # 0

\* valid_at: is the value at position i of a masked layout there?
ValidAt(l, i) == (IF l.class = "byte_masked" THEN ByteIsSet(l, i) ELSE BitIsSet(l, i)) = l.valid_when

\* at(i) for a position of the layout, as a value of value.hpp.
RECURSIVE At(_, _)

RowAt(l, i)      == [list |-> [k \in DOMAIN Row(l, i) |-> At(l.content, Row(l, i)[k])]]
OptionAt(l, i)   == IF l.index[i + 1] < 0 THEN [none |-> TRUE] ELSE At(l.content, l.index[i + 1])
MaskedAt(l, i)   == IF ValidAt(l, i) THEN At(l.content, i) ELSE [none |-> TRUE]
RecordAt(l, i)   ==
  [fields |-> l.fields, values |-> [k \in DOMAIN l.contents |-> At(l.contents[k], i)]]
UnionAt(l, i)    == At(l.contents[l.tags[i + 1] + 1], l.index[i + 1])

At(l, i) ==
  CASE l.class \in {"numpy", "string"}         -> [scalar |-> l.values[i + 1]]
    [] l.class \in ListClasses                 -> RowAt(l, i)
    [] l.class = "indexed"                     -> At(l.content, l.index[i + 1])
    [] l.class = "indexed_option"              -> OptionAt(l, i)
    [] l.class \in {"byte_masked", "bit_masked"} -> MaskedAt(l, i)
    [] l.class = "unmasked"                    -> At(l.content, i)
    [] l.class = "record"                      -> RecordAt(l, i)
    [] l.class = "union"                       -> UnionAt(l, i)

ToList(l) == [k \in 1..Length(l) |-> At(l, k - 1)]

-----------------------------------------------------------------------------
(***************************************************************************)
(* Selection of rows.                                                      *)
(***************************************************************************)
\* Mutant: the loop over the rows counts from one.
AsListOffsetFromOne(l) ==
  ListOffsetArray(l.content, [k \in 1..(l.length + 1) |-> k * l.size], l.typed)

AsListOffset(l) ==
  ListOffsetArray(l.content, [k \in 1..(l.length + 1) |-> (k - 1) * l.size], l.typed)

AsIndexedOption(l) ==
  IndexedOptionArray([k \in 1..Length(l) |-> IF ValidAt(l, k - 1) THEN k - 1 ELSE -1], l.content)

\* The list layout whose rows are the given positions of l's content: the template
\* copies the elements, the others refer to them.
IsTemplate(l) == l.class = "list_offset" /\ l.typed

Gathered(l, p) ==
  IF IsTemplate(l) THEN NumpyArray(Pick(l.content.values, p), l.content.primitive)
                   ELSE IndexedArray(p, l.content)

Gather(l, rows) == ListOffsetArray(Gathered(l, FlattenSeq(rows)), OffsetsOf(rows), IsTemplate(l))

\* take, select, select_rows: the values at positions p of the layout.
RECURSIVE Take(_, _)

TakeValues(l, p)  == [l EXCEPT !.values = Pick(@, p)]
TakeRanges(l, p)  == ListArray(Pick(l.starts, p), Pick(l.stops, p), l.content)
TakeIndexed(l, p) == Made([l EXCEPT !.index = Pick(@, p)])
TakeOption(l, p)  == Made([l EXCEPT !.index = Pick(@, p)])
TakeUnmasked(l, p) == Made([l EXCEPT !.content = Take(@, p)])
TakeRecord(l, p)  ==
  RecordArray(l.fields, [k \in DOMAIN l.contents |-> Take(l.contents[k], p)], Len(p))
TakeUnion(l, p)   == UnionArray(Pick(l.tags, p), Pick(l.index, p), l.contents)

Take(l, p) ==
  CASE l.class \in {"numpy", "string"}         -> TakeValues(l, p)
    [] l.class = "list_offset"                 -> Gather(l, Pick(Rows(l), p))
    [] l.class = "list"                        -> TakeRanges(l, p)
    [] l.class = "regular"                     -> Take(AsListOffset(l), p)
    [] l.class = "indexed"                     -> TakeIndexed(l, p)
    [] l.class = "indexed_option"              -> TakeOption(l, p)
    [] l.class \in {"byte_masked", "bit_masked"} -> Take(AsIndexedOption(l), p)
    [] l.class = "unmasked"                    -> TakeUnmasked(l, p)
    [] l.class = "record"                      -> TakeRecord(l, p)
    [] l.class = "union"                       -> TakeUnion(l, p)
    [] OTHER                                   -> l

\* slice_rows, take_rows, mask_rows.
SelectRows(l, x) ==
  IF Refusal(x, Length(l)) = "ok" THEN Take(l, Positions(x, Length(l)))
                                  ELSE Error(Refusal(x, Length(l)))

\* flat_bool_mask, ragged_bool_mask.
IsFlatMask(m)   == m.class = "numpy" /\ m.primitive = "bool"
IsRaggedMask(m) == m.class = "list_offset" /\ m.typed /\ m.content.primitive = "bool"

\* apply_ragged_mask.
MaskElements(l, m) ==
  LET kept(k) == SelectSeq(Span(0, Len(Rows(l)[k])),
                           LAMBDA i : m.content.values[Rows(m)[k][i + 1] + 1] = True)
  IN  IF Len(Rows(m)) = Len(Rows(l)) /\ \A k \in DOMAIN Rows(l) : Len(Rows(m)[k]) = Len(Rows(l)[k])
      THEN Gather(l, [k \in DOMAIN Rows(l) |-> Pick(Rows(l)[k], kept(k))])
      ELSE Error("invalid_argument")

RECURSIVE MaskAsArray(_, _)
MaskAsArray(l, m) ==
  CASE l.class = "regular"  -> MaskAsArray(AsListOffset(l), m)
    [] l.class = "unmasked" -> Made([l EXCEPT !.content = MaskAsArray(@, m)])
    [] l.class \in {"byte_masked", "bit_masked"} -> MaskAsArray(AsIndexedOption(l), m)
    [] /\ IsFlatMask(m)
       /\ \/ l.class \in {"numpy", "string", "list", "indexed", "indexed_option", "record", "union"}
          \/ l.class = "list_offset" /\ l.typed ->
         SelectRows(l, BooleansOf([k \in DOMAIN m.values |-> m.values[k] = True]))
    [] IsRaggedMask(m) /\ l.class = "list_offset" /\ l.typed -> MaskElements(l, m)
    [] OTHER -> Error("invalid_argument")

-----------------------------------------------------------------------------
(***************************************************************************)
(* Packing, and the rows inside the rows.                                  *)
(***************************************************************************)
\* How many entries before the k-th have its tag, or its presence.
PackedIndex(tags) ==
  [k \in DOMAIN tags |-> Len(SelectSeq(SubSeq(tags, 1, k - 1), LAMBDA t : t = tags[k]))]

\* to_packed
RECURSIVE Packed(_)

PackedList(l) ==
  ListOffsetArray(Packed(Take(l.content, FlattenSeq(Rows(l)))), OffsetsOf(Rows(l)), FALSE)

PackedIndexed(l) == Packed(Take(l.content, l.index))

PackedOption(l) ==
  LET there  == SelectSeq(l.index, LAMBDA i : i >= 0)
      before == PackedIndex([k \in DOMAIN l.index |-> l.index[k] >= 0])
  IN  IndexedOptionArray([k \in DOMAIN l.index |-> IF l.index[k] < 0 THEN -1 ELSE before[k]],
                         Take(l.content, there))

PackedMasked(l) == Made([l EXCEPT !.content = Take(@, Span(0, Length(l)))])

PackedRecord(l) == Made([l EXCEPT !.contents = [k \in DOMAIN @ |-> Packed(@[k])]])

PackedUnion(l) ==
  LET selected(c) == Pick(l.index, SelectSeq(Span(0, Len(l.tags)), LAMBDA i : l.tags[i + 1] = c - 1))
  IN  UnionArray(l.tags, PackedIndex(l.tags),
                 [c \in DOMAIN l.contents |-> Take(l.contents[c], selected(c))])

PackedContent(l) == Made([l EXCEPT !.content = Packed(@)])

Packed(l) ==
  CASE l.class = "list"           -> PackedList(l)
    [] l.class = "unmasked" \/ (l.class \in {"list_offset", "regular"} /\ ~l.typed) -> PackedContent(l)
    [] l.class = "indexed"        -> PackedIndexed(l)
    [] l.class = "indexed_option" -> PackedOption(l)
    [] l.class \in {"byte_masked", "bit_masked"} -> PackedMasked(l)
    [] l.class = "record"         -> PackedRecord(l)
    [] l.class = "union"          -> PackedUnion(l)
    [] OTHER                      -> l

\* flatten
RECURSIVE Flatten(_)
Flatten(l) ==
  CASE l.class \in {"list_offset", "regular"} -> l.content
    [] l.class = "list"    -> Packed(Take(l.content, FlattenSeq(Rows(l))))
    [] l.class = "indexed" -> Flatten(Packed(l))
    [] OTHER               -> Error("invalid_argument")

\* Mutant: the index of an indexed array is passed over.
RECURSIVE NumUnpicked(_)
NumUnpicked(l) ==
  IF l.class = "indexed" THEN NumUnpicked(l.content) ELSE [k \in 1..Length(l) |-> Len(Row(l, k - 1))]

\* num: the lengths of the rows of a list layout.
RECURSIVE Num(_)
Num(l) == IF l.class = "indexed" THEN Num(Packed(l)) ELSE [k \in 1..Length(l) |-> Len(Row(l, k - 1))]

\* local_index: the position of every value, or in a list layout of every element.
ElementPositions(l) == FlattenSeq([k \in 1..Length(l) |-> Span(0, Len(Row(l, k - 1)))])

LocalIndexOfRegular(l) == RegularArray(NumpyArray(ElementPositions(l), "int64"), l.size, l.length, l.typed)

LocalIndexOfRows(l) ==
  ListOffsetArray(NumpyArray(ElementPositions(l), "int64"), OffsetsOf(Rows(l)),
                  l.class = "list_offset" /\ l.typed)

RECURSIVE LocalIndex(_)
LocalIndex(l) ==
  CASE l.class = "empty"                   -> l
    [] l.class = "unmasked"                -> LocalIndex(l.content)
    [] l.class = "regular"                 -> LocalIndexOfRegular(l)
    [] l.class \in {"list_offset", "list"} -> LocalIndexOfRows(l)
    [] OTHER                               -> NumpyArray(Span(0, Length(l)), "int64")

\* unflatten
Unflatten(l, counts) ==
  IF l.class = "numpy"
  THEN ListOffsetArray(l, OffsetsOf([k \in DOMAIN counts |-> Span(0, counts[k])]), TRUE)
  ELSE Error("invalid_argument")

\* The list layout of the columns that are selected in each of the chosen rows.
SelectEach(l, chosen, columns) ==
  LET refused == {k \in DOMAIN chosen : Refusal(columns, Len(chosen[k])) # "ok"}
  IN  IF refused # {} THEN Error(Refusal(columns, Len(chosen[Min(refused)])))
      ELSE Gather(l, [k \in DOMAIN chosen |-> Pick(chosen[k], Positions(columns, Len(chosen[k])))])

Unwrapped(drop, l) == IF drop /\ ~IsError(l) THEN l.content ELSE l

\* slice_inner, slice_one_inner, take_inner, take_inner_array, take_one_inner_array:
\* an index into the selected rows; drop keeps the elements and not the rows.
RECURSIVE Inner(_, _, _, _)
Inner(l, rows, columns, drop) ==
  CASE l.class = "regular" -> Inner(AsListOffset(l), rows, columns, drop)
    [] l.class = "indexed" -> Inner(Packed(l), rows, columns, drop)
    [] l.class \in {"list_offset", "list"} ->
         IF Refusal(rows, Length(l)) # "ok" THEN Error(Refusal(rows, Length(l)))
         ELSE Unwrapped(drop, SelectEach(l, Pick(Rows(l), Positions(rows, Length(l))), columns))
    [] OTHER -> Error("invalid_argument")

\* add_outer_axis, add_singleton_axis
OuterAxis(l)     == ListOffsetArray(Packed(l), <<0, Length(l)>>, FALSE)
SingletonAxis(l) == ListOffsetArray(l, Span(0, Length(l) + 1), FALSE)

-----------------------------------------------------------------------------
(***************************************************************************)
(* Fields.                                                                 *)
(***************************************************************************)
Position(fields, name) == CHOOSE i \in DOMAIN fields : fields[i] = name

\* fields: of the record that is met first on the way inside.
RECURSIVE FieldNames(_)
FieldNames(l) ==
  IF l.class = "record" THEN l.fields
  ELSE IF "content" \in DOMAIN l THEN FieldNames(l.content) ELSE <<>>

\* field (of the one name), project_fields.
RECURSIVE FieldsOf(_, _, _)
FieldsOf(l, names, single) ==
  LET found == [k \in DOMAIN names |-> l.contents[Position(l.fields, names[k])]]
  IN  CASE l.class = "record" ->
             IF ~(ToSet(names) \subseteq ToSet(l.fields)) THEN Error("out_of_range")
             ELSE IF single THEN found[1] ELSE RecordArray(names, found, l.length)
        [] \/ l.class \in {"list", "indexed", "indexed_option", "byte_masked", "bit_masked", "unmasked"}
           \/ l.class \in {"list_offset", "regular"} /\ ~l.typed ->
             Made([l EXCEPT !.content = FieldsOf(@, names, single)])
        [] OTHER -> Error("invalid_argument")
=============================================================================
