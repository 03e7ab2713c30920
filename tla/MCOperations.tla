---------------------------- MODULE MCOperations ----------------------------
(***************************************************************************)
(* Instances of the operations for TLC.                                    *)
(***************************************************************************)
EXTENDS OperationsReference

MCTrue == Truth(TRUE).scalar

Ints(s)  == [k \in DOMAIN s |-> Integer(s[k])]
Truths(s) == [k \in DOMAIN s |-> Truth(s[k])]
Nest1(rows) == [k \in DOMAIN rows |-> List(rows[k])]

Texts(s) == [k \in DOMAIN s |-> Text(s[k])]
Word == Text(<<Upper, Lower>>)

Axis(name, i) == [k \in {name} |-> i]
AxesAB(i, j)  == [k \in {"a", "b"} |-> IF k = "a" THEN i ELSE j]
Key1(i)       == [k \in {"k"} |-> i]

Plainly(l) == [layout |-> l, attrs |-> Nothing, axes |-> Nothing]
FromList(s) == Plainly(LayoutFromList(s))

RaggedInts == FromIterRows(<<Ints(<<3, 1>>), <<>>, Ints(<<2, 5, 4>>)>>)

MCArrays ==
  {Plainly(FromIter(Ints(<<3, 1, 2>>))),
   [layout |-> RaggedInts, attrs |-> Key1(1), axes |-> AxesAB(0, 1)],
   [layout |-> LayoutFromList(<<List(<<Integer(1), None>>), None, List(<<Integer(2)>>)>>),
    attrs |-> Nothing, axes |-> AxesAB(-2, -1)],
   FromList(<<List(<<NaN, Real(3, 2)>>), List(<<Real(1, 0)>>)>>),
   [layout |-> LayoutFromList(<<List(Nest1(<<Ints(<<3, 1>>), Ints(<<2>>)>>)),
                                List(Nest1(<<Ints(<<4>>), <<>>, Ints(<<0, 5>>)>>))>>),
    attrs |-> Nothing, axes |-> AxesAB(1, 2)],
   FromList(<<Record(<<"x", "y">>, <<Integer(1), List(Ints(<<1, 2>>))>>),
              Record(<<"x", "y">>, <<Integer(2), List(<<>>)>>)>>),
   FromList(<<Integer(1), Word, List(<<Integer(2), None>>)>>),
   FromList(<<Text(<<Lower, Comma, Upper, Space, Lower>>), None, Text(<<>>), Text(<<Comma, Comma, Comma, Digit>>)>>),
   FromList(<<Word, None, Record(<<"x">>, <<Integer(1)>>), Truth(TRUE)>>),
   Plainly(EmptyArray),
   [layout |-> FromIterRegular(Ints(<<4, 2, 3, 1>>), 2), attrs |-> Key1(2), axes |-> Axis("b", 1)],
   FromList(<<List(<<>>), List(<<>>)>>),
   [layout |-> Made([class |-> "byte_masked", mask |-> <<1, 0, 2>>, content |-> FromIter(Ints(<<3, 1, 2>>)),
                     valid_when |-> TRUE]), attrs |-> Key1(1), axes |-> Axis("b", -1)],
   [layout |-> ListArray(<<3, 0, 1>>, <<4, 2, 1>>, FromIter(Ints(<<5, 2, 7, 1>>))),
    attrs |-> Nothing, axes |-> AxesAB(0, -1)],
   Plainly(IndexedArray(<<1, 0, 1>>, RaggedInts)),
   Plainly(Made([class |-> "unmasked", content |-> LayoutFromList(<<
     Record(<<"x", "y">>, <<Integer(1), Word>>), Record(<<"x", "y">>, <<Integer(2), Text(<<Digit>>)>>)>>)])),
   [layout |-> LayoutFromList(<<List(<<List(<<Integer(1), None>>), List(<<Integer(2)>>)>>), None,
                                List(<<List(<<Integer(0), Integer(3)>>)>>)>>),
    attrs |-> Nothing, axes |-> AxesAB(0, 2)],
   FromList(<<List(Texts(<<(<<Wide>>), <<Upper, Lower, Tab, Upper>>>>)), List(<<None, Text(<<Space>>)>>), None>>),
   FromList(<<List(Nest1(<<Texts(<<(<<>>), <<Lower>>>>), <<>>>>)), List(Nest1(<<Texts(<<(<<Comma, Lower, Lower>>)>>)>>))>>),
   FromList(<<Record(<<"x", "y">>, <<Text(<<Digit, Lower>>), List(Texts(<<(<<Lower, Comma>>)>>))>>)>>),
   Plainly(ConcatenateRows(FromIter(Ints(<<2, 1>>)), StringArray(<<Word.scalar>>)))}

MCOthers ==
  {[layout |-> FromIter(Ints(<<1, 2, 0>>)), attrs |-> Key1(1), axes |-> Axis("a", 0)],
   Plainly(FromIterRows(<<Ints(<<1, 1>>), <<>>, Ints(<<2, 0, 4>>)>>)),
   [layout |-> FromIter(Truths(<<TRUE, FALSE, TRUE>>)), attrs |-> Key1(2), axes |-> Axis("a", -1)],
   Plainly(FromIterRows(<<Truths(<<TRUE, FALSE>>), <<>>, Truths(<<FALSE, TRUE, TRUE>>)>>)),
   FromList(<<Record(<<"y", "x">>, <<Integer(1), Integer(3)>>), Record(<<"y", "x">>, <<Integer(2), Integer(0)>>)>>),
   FromList(<<None, Real(5, 2)>>)}

MCConditions ==
  {Plainly(FromIter(Truths(<<TRUE, FALSE, TRUE>>))),
   FromList(<<List(<<Truth(TRUE), None>>), List(<<>>), List(Truths(<<FALSE, TRUE, TRUE>>))>>)}

MCFillers == {Integer(0), Real(5, 2), None, Word, Truth(TRUE)}
MCAxes    == {-1, 0, 1, 2}
MCTargets == {0, 2}

Asked(name, axis) == [name |-> name, axis |-> axis, initial |-> {}, mask_identity |-> FALSE,
                      keepdims |-> FALSE, order |-> 2, ddof |-> 0]
MCReducers ==
  {Asked(name, {axis}) : name \in {"count", "sum", "max", "argmin"}, axis \in {-1, 0, 1}}
  \cup {Asked(name, {}) : name \in {"prod", "any", "all", "count_nonzero", "argmax", "moment", "nanargmax"}}
  \cup {[Asked(name, {axis}) EXCEPT !.keepdims = TRUE, !.mask_identity = TRUE] :
          name \in {"nansum", "nanmin"}, axis \in {0, 1}}
  \cup {[Asked("var", {0}) EXCEPT !.ddof = 1], Asked("mean", {-1}), Asked("ptp", {0}),
        [Asked("nanstd", {-1}) EXCEPT !.ddof = 1], Asked("nanmean", {}),
        [Asked("moment", {0}) EXCEPT !.order = -1],
        [Asked("prod", {}) EXCEPT !.keepdims = TRUE, !.initial = {Integer(3)}],
        [Asked("max", {0}) EXCEPT !.initial = {Integer(4)}]}

MCSelections ==
  {<<>>, <<EveryRow, IntegerOf(0)>>, <<IntegerOf(0), IntegerOf(-1)>>, <<IntegerOf(1), SliceOf({}, {}, -1)>>,
   <<SliceOf({1}, {}, 1), IntegersOf(<<-1, 0>>)>>, <<IntegersOf(<<1, 0>>), IntegersOf(<<0>>)>>,
   <<IntegerOf(0), IntegersOf(<<0, 0>>)>>, <<IntegersOf(<<1, 0>>), SliceOf({}, {1}, 1)>>,
   <<NewAxis, IntegerOf(0)>>, <<NewAxis, SliceOf({1}, {}, 1)>>, <<IntegersOf(<<1>>), NewAxis>>,
   <<EveryRow, FieldItem("x")>>, <<IntegerOf(1), FieldsItem(<<"y">>)>>, <<Ellipsis, IntegerOf(0)>>,
   <<IntegerOf(0), EveryRow, IntegerOf(0)>>, <<EveryRow, EveryRow, SliceOf({}, {}, -1), NewAxis>>,
   <<Ellipsis, Ellipsis>>, <<SliceOf({}, {}, -1), SliceOf({}, {}, 0)>>, <<FieldItem("y"), EveryRow, IntegerOf(0)>>,
   <<BooleansOf(<<TRUE, FALSE, TRUE>>), EveryRow>>, <<IntegerOf(-2)>>,
   <<IntegersOf(<<0, 1>>), MaskOf(FromIter(Truths(<<TRUE, FALSE>>)))>>}

MCTallies == {<<2, 0, 1>>}

Ask(name) == [name |-> name]
Cut(pattern, max) == [name |-> "split_pattern", pattern |-> pattern, max |-> max]

MCQuestions ==
  {Ask(name) : name \in Predicates \cup Transforms}
  \cup {[name |-> name, pattern |-> <<Comma>>] : name \in {"contains", "starts_with", "ends_with"}}
  \cup {[name |-> "slice", slice |-> SliceOf(b[1], b[2], b[3])] :
          b \in {<<{1}, {-1}, 2>>, <<{}, {}, -2>>, <<{-1}, {-4}, -1>>, <<{}, {}, 0>>}}
  \cup {Cut(<<Comma>>, {}), Cut(<<Comma>>, {0}), Cut(<<Comma>>, {1}), Cut(<<Comma, Comma>>, {}), Cut(<<>>, {})}

MCSeparators == {<<>>, <<Comma, Space>>}

\* The state that calls leave.
Held == <<array, calls>>
=============================================================================
