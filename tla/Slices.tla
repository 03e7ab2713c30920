------------------------------- MODULE Slices -------------------------------
(***************************************************************************)
(* Array::slice with several items: slice_layout of include/awkward/       *)
(* array.hpp.  One item or two are answered by the layout's own methods;   *)
(* more, and two on a layout that is no list, by its values.               *)
(*                                                                         *)
(* An item is an index of LayoutTrees, or one of those below.              *)
(***************************************************************************)
EXTENDS FromValues

IntegerOf(i) == [kind |-> "integer", at |-> i]
NewAxis      == [kind |-> "newaxis"]
Ellipsis     == [kind |-> "ellipsis"]
FieldItem(name)   == [kind |-> "field", names |-> <<name>>]
FieldsItem(names) == [kind |-> "fields", names |-> names]
MaskOf(l)    == [kind |-> "mask", layout |-> l]

EveryRow == SliceOf({}, {}, 1)

\* An integer selects one position and its dimension goes.
AsIndex(x) == IF x.kind = "integer" THEN IntegersOf(<<x.at>>) ELSE x

\* normalize_slice_items: the ellipsis stands for the dimensions nobody names.  A refusal
\* is an item of its own.
SpelledOut(l, items) ==
  LET places   == {k \in DOMAIN items : items[k].kind = "ellipsis"}
      naming   == {k \in DOMAIN items : items[k].kind \notin {"newaxis", "field", "fields", "ellipsis"}}
      dims     == Dimensions(l) + 1
      at       == Min(places)
      unnamed  == [k \in 1..(dims - Cardinality(naming)) |-> EveryRow]
  IN  IF places = {} THEN items
      ELSE IF Cardinality(places) > 1 \/ Cardinality(naming) > dims THEN <<[kind |-> "refused"]>>
      ELSE SubSeq(items, 1, at - 1) \o unnamed \o SubSeq(items, at + 1, Len(items))

\* project_value_field
RECURSIVE ProjectValue(_, _, _)
ProjectValue(v, names, single) ==
  IF IsNone(v) THEN None
  ELSE IF IsList(v)
  THEN Listed([k \in DOMAIN v.list |-> ProjectValue(v.list[k], names, single)])
  ELSE IF ~IsRecord(v) THEN Invalid
  ELSE IF ~(ToSet(names) \subseteq ToSet(v.fields)) THEN Failure("out_of_range")
  ELSE LET found == [k \in DOMAIN names |-> v.values[Position(v.fields, names[k])]]
       IN  IF single THEN found[1] ELSE Record(names, found)

\* at of one index or of two, counted from the end when negative; two only where the rows
\* are lists, or an index of such.
RECURSIVE ElementAt(_, _)
ElementAt(l, at) ==
  LET inside(i, n) == CountedFromFront(i, n) \in 0..(n - 1)
      first == CountedFromFront(at[1], Length(l))
      row   == Row(l, first)
  IN  IF ~inside(at[1], Length(l)) THEN Failure("out_of_range")
      ELSE IF Len(at) = 1 THEN At(l, first)
      ELSE IF l.class = "indexed" THEN ElementAt(l.content, <<l.index[first + 1], at[2]>>)
      ELSE IF l.class \notin ListClasses \/ ~inside(at[2], Len(row)) THEN Failure("out_of_range")
      ELSE At(l.content, row[CountedFromFront(at[2], Len(row)) + 1])

\* slice_value_recursive
RECURSIVE SliceValue(_, _)
SliceValue(v, items) ==
  IF items = <<>> \/ IsFailure(v) THEN v
  ELSE LET x    == Head(items)
           rest == Tail(items)
           at   == Positions(AsIndex(x), Len(v.list))
       IN  IF x.kind \in {"field", "fields"}
           THEN SliceValue(ProjectValue(v, x.names, x.kind = "field"), rest)
           ELSE IF x.kind = "newaxis" THEN Listed(<<SliceValue(v, rest)>>)
           ELSE IF IsNone(v) THEN None
           ELSE IF ~IsList(v) THEN Invalid
           ELSE IF Refusal(AsIndex(x), Len(v.list)) # "ok"
           THEN Failure(Refusal(AsIndex(x), Len(v.list)))
           ELSE IF x.kind = "integer" THEN SliceValue(v.list[at[1] + 1], rest)
           ELSE Listed([k \in DOMAIN at |-> SliceValue(v.list[at[k] + 1], rest)])

\* Any scalar result is given a list of its own.
SliceByValues(l, items) ==
  LET v == SliceValue(List(ToList(l)), items)
  IN  LayoutFrom(IF IsList(v) \/ IsFailure(v) THEN v ELSE List(<<v>>))

SliceByOne(l, x) ==
  CASE x.kind = "newaxis" -> OuterAxis(l)
    [] x.kind \in {"field", "fields"} -> FieldsOf(l, x.names, x.kind = "field")
    [] x.kind = "mask"    -> MaskAsArray(l, x.layout)
    [] x.kind = "refused" -> Error("invalid_argument")
    [] OTHER              -> SelectRows(l, AsIndex(x))

\* Mutant: of a row that is chosen alone the elements are kept as a row.
InnerKept(l, x, y) == Inner(l, AsIndex(x), AsIndex(y), FALSE)

\* slice_one_inner, slice_inner, take_inner, take_one_inner_array, take_inner_array: an
\* integer drops the row or the column.
InnerOf(l, x, y) == Inner(l, AsIndex(x), AsIndex(y), "integer" \in {x.kind, y.kind})

\* The rows, all in one list unless an integer chose them.
Outermost(rows, y) == IF IsError(rows) \/ y.kind = "integer" THEN rows ELSE OuterAxis(rows)

\* The second item, on the rows that the first has chosen.
SliceChosen(rows, y) ==
  IF IsError(rows) THEN rows
  ELSE CASE y.kind = "newaxis" -> SingletonAxis(rows)
         [] y.kind = "slice"   -> InnerOf(rows, EveryRow, y)
         [] OTHER              -> FieldsOf(rows, y.names, y.kind = "field")

\* The two items of a list layout; rows are told by an integer, integers or a range.
SliceByTwo(l, x, y) ==
  LET chooses(item) == item.kind \in {"integer", "slice", "integers"}
  IN  CASE x.kind = "newaxis" ->
             IF chooses(y) THEN Outermost(SliceByOne(l, y), y) ELSE Error("invalid_argument")
        [] \/ x.kind # "newaxis" /\ y.kind \in {"newaxis", "field", "fields"}
           \/ x.kind = "integers" /\ y.kind = "slice" -> SliceChosen(SliceByOne(l, x), y)
        [] chooses(x) /\ chooses(y) /\ <<x.kind, y.kind>> # <<"integers", "slice">> -> InnerOf(l, x, y)
        [] OTHER -> Error("invalid_argument")

\* The layouts on which a second item goes by the values.
ByValues == {"indexed", "indexed_option", "byte_masked", "bit_masked", "unmasked", "union"}

\* slice_layout; an array mask among several items splits them: those before it select
\* from the mask as well, those after it from what it leaves.
RECURSIVE SliceLayout(_, _)
MaskSelected(l, m) == IF IsError(l) THEN l ELSE IF IsError(m) THEN m ELSE MaskAsArray(l, m)
SliceFurther(l, items) == IF IsError(l) \/ items = <<>> THEN l ELSE SliceLayout(l, items)

SliceByMask(l, items) ==
  LET at     == Min({k \in DOMAIN items : items[k].kind = "mask"})
      before == SubSeq(items, 1, at - 1)
  IN  SliceFurther(MaskSelected(SliceLayout(l, before), SliceLayout(items[at].layout, before)),
                   SubSeq(items, at + 1, Len(items)))

SliceItems(l, items) ==
  IF items = <<>> THEN Packed(l)
  ELSE IF Len(items) = 1 THEN SliceByOne(l, items[1])
  ELSE IF \E k \in DOMAIN items : items[k].kind = "mask" THEN SliceByMask(l, items)
  ELSE IF Len(items) > 2 \/ l.class \in ByValues THEN SliceByValues(l, items)
  ELSE SliceByTwo(l, items[1], items[2])

SliceLayout(l, given) == SliceItems(l, SpelledOut(l, given))
=============================================================================
