----------------------------- MODULE FromValues -----------------------------
(***************************************************************************)
(* Layouts made of values: layout_from_list of include/awkward/            *)
(* operations.hpp.  Almost every operation reads its arrays with to_list,  *)
(* computes values and comes back through here.                            *)
(***************************************************************************)
EXTENDS LayoutTrees, Values

CONSTANT MaxContents   \* the contents a union can tag, 256 in the code

ASSUME MaxContentsAssumption == MaxContents \in Nat \ {0}

EmptyArray == [class |-> "empty"]

\* Where the present values are among themselves, -1 for a missing one.
PresentIndex(values) ==
  [k \in DOMAIN values |->
     IF IsNone(values[k]) THEN -1
     ELSE Cardinality({j \in 1..(k - 1) : ~IsNone(values[j])})]

\* union_group_key: values with one key share a content.
Key(v) ==
  CASE IsList(v)   -> <<"list">>
    [] IsRecord(v) -> <<"record">> \o v.fields
    [] IsNumber(v) /\ ~IsBoolean(v) -> <<"number">>
    [] OTHER       -> <<Kind(v)>>

\* The keys of present values, in the order they are met.
Keys(values) ==
  LET Add(keys, v) == IF Key(v) \in ToSet(keys) THEN keys ELSE Append(keys, Key(v))
  IN  FoldLeft(Add, <<>>, values)

\* primitive_layout_from_values of present values with one key: integers among real
\* numbers become real.
Scalars(values) ==
  LET real == \E k \in DOMAIN values : IsReal(values[k])
      cell(v) == IF real THEN AsReal(v).scalar ELSE v.scalar
      cells == [k \in DOMAIN values |-> cell(values[k])]
  IN  IF IsString(values[1]) THEN StringArray(cells)
      ELSE IF IsBoolean(values[1]) THEN NumpyArray(cells, "bool")
      ELSE NumpyArray(cells, IF real THEN "float64" ELSE "int64")

RECURSIVE LayoutFromList(_), LayoutOfPresent(_)

\* Mutant: more kinds of value than tags are let in, and the tag wraps.
UnionWrapped(values, keys) ==
  LET group(c) == SelectSeq(values, LAMBDA v : Key(v) = keys[c])
      tags == [k \in DOMAIN values |->
                 (SelectInSeq(keys, LAMBDA key : key = Key(values[k])) - 1) % MaxContents]
  IN  UnionArray(tags, [k \in DOMAIN tags |-> 0], [c \in DOMAIN keys |-> LayoutFromList(group(c))])

\* union_layout_from_values
UnionFromValues(values, keys) ==
  LET group(c) == SelectSeq(values, LAMBDA v : Key(v) = keys[c])
      tags == [k \in DOMAIN values |-> SelectInSeq(keys, LAMBDA key : key = Key(values[k])) - 1]
  IN  IF Len(keys) > MaxContents THEN Error("invalid_argument")
      ELSE UnionArray(tags, PackedIndex(tags), [c \in DOMAIN keys |-> LayoutFromList(group(c))])

\* layout_from_list_rows: only numbers and truth values get the typed class.
RowsFromValues(values) ==
  LET content == LayoutFromList(FlattenSeq([k \in DOMAIN values |-> values[k].list]))
  IN  ListOffsetArray(content, OffsetsOf([k \in DOMAIN values |-> values[k].list]),
                      content.class = "numpy")

\* layout_from_record_values
RecordsFromValues(values) ==
  RecordArray(values[1].fields,
              [f \in DOMAIN values[1].fields |->
                 LayoutFromList([k \in DOMAIN values |-> values[k].values[f]])],
              Len(values))

LayoutOfPresent(values) ==
  IF values = <<>>              THEN EmptyArray
  ELSE IF Len(Keys(values)) > 1 THEN UnionFromValues(values, Keys(values))
  ELSE IF IsList(values[1])     THEN RowsFromValues(values)
  ELSE IF IsRecord(values[1])   THEN RecordsFromValues(values)
  ELSE Scalars(values)

\* layout_from_list; missing values are an option around the layout of the present ones.
LayoutFromList(values) ==
  LET present == SelectSeq(values, LAMBDA v : ~IsNone(v))
  IN  IF present = values THEN LayoutOfPresent(values)
      ELSE IndexedOptionArray(PresentIndex(values), LayoutOfPresent(present))

\* The layout of a computed list, or the error of its computation; as_list of anything
\* else throws by itself.
LayoutFrom(v) ==
  IF IsFailure(v) THEN Error(v.failure)
  ELSE IF ~IsList(v) THEN Error("bad_variant_access") ELSE LayoutFromList(v.list)

\* from_iter of values, of rows and of fixed-size rows of one type; there is at least one
\* value.  from_iter of optional values is LayoutFromList.
FromIter(values)     == Scalars(values)
FromIterRegular(values, size) == RegularArray(Scalars(values), size, Len(values) \div size, TRUE)
FromIterRows(rows)   ==
  LET content == Scalars(FlattenSeq(rows))
  IN  ListOffsetArray(content, OffsetsOf(rows), content.class = "numpy")

\* ndim of the type of a layout's elements (types.hpp), records and unions by the deepest.
RECURSIVE Dimensions(_)
Dimensions(l) ==
  LET inner == Max({0} \cup {Dimensions(Children(l)[k]) : k \in DOMAIN Children(l)})
  IN  IF l.class \in ListClasses THEN inner + 1 ELSE inner

\* A layout all of whose nodes are valid.
RECURSIVE WellFormed(_)
WellFormed(l) ==
  /\ ~IsError(l)
  /\ \A k \in DOMAIN Children(l) : WellFormed(Children(l)[k])
  /\ Sound(l)
=============================================================================
