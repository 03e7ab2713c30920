------------------------- MODULE OperationsReference -------------------------
(***************************************************************************)
(* What the free functions promise, said about paths: a path is the        *)
(* sequence of positions that leads through the lists of a value to what   *)
(* is inside.  None of this follows the code's recursion.                  *)
(***************************************************************************)
EXTENDS Operations

\* The paths to the values that are no lists.
RECURSIVE LeafPaths(_)
LeafPaths(v) ==
  IF IsList(v) THEN UNION {{<<k>> \o p : p \in LeafPaths(v.list[k])} : k \in DOMAIN v.list}
  ELSE {<<>>}

RECURSIVE HasPath(_, _)
HasPath(v, p) ==
  p = <<>> \/ (IsList(v) /\ p[1] \in DOMAIN v.list /\ HasPath(v.list[p[1]], Tail(p)))

RECURSIVE Inside(_, _)
Inside(v, p) == IF p = <<>> THEN v ELSE Inside(v.list[p[1]], Tail(p))

\* The paths of the given length that lead to a list.
RECURSIVE ListPaths(_, _)
ListPaths(v, n) ==
  IF ~IsList(v) THEN {}
  ELSE IF n = 0 THEN {<<>>}
  ELSE UNION {{<<k>> \o p : p \in ListPaths(v.list[k], n - 1)} : k \in DOMAIN v.list}

\* A value without the difference between whole and real numbers, which a layout may lose.
RECURSIVE Plain(_)
Plain(v) ==
  IF IsList(v) THEN [list |-> [k \in DOMAIN v.list |-> Plain(v.list[k])]]
  ELSE IF IsRecord(v) THEN [v EXCEPT !.values = [k \in DOMAIN @ |-> Plain(@[k])]]
  ELSE IF HasKind(v, {"integer", "real"}) THEN AsReal(v) ELSE v

Alike(v, w) == Plain(v) = Plain(w)

\* Every value is as deep as the others; a missing one may stand for a list.
Even(v) == \A p \in LeafPaths(v) : Len(p) = Depth(v) \/ IsNone(Inside(v, p))

AllLeaves(v) == {Inside(v, p) : p \in LeafPaths(v)}
FreeOfNaN(v) == \A w \in AllLeaves(v) : ~IsNaN(w)

Called(op) == request'.op = op /\ outcome' = "ok"
Before     == ToValue(array)
After      == ToValue(array')

-----------------------------------------------------------------------------
(***************************************************************************)
(* Type and values.                                                        *)
(***************************************************************************)
\* Every node of the layout the caller holds is valid, and his named axes are axes of it.
TypeOK ==
  /\ WellFormed(array.layout)
  /\ \A name \in DOMAIN array.axes :
       Place(array.axes[name], Ndim(array.layout)) \in 0..(Ndim(array.layout) - 1)
  /\ calls \in 0..MaxCalls
  /\ outcome \in {"ok", "invalid_argument", "out_of_range", "bad_variant_access", "length_error"}

\* The kinds of values anywhere in a value.
RECURSIVE Kinds(_)
Kinds(v) ==
  IF IsList(v) THEN {<<"list">>} \cup UNION {Kinds(v.list[k]) : k \in DOMAIN v.list}
  ELSE IF IsRecord(v) THEN {Key(v)} \cup UNION {Kinds(v.values[k]) : k \in DOMAIN v.values}
  ELSE IF IsNone(v) THEN {} ELSE {Key(v)}

\* layout_from_list loses nothing: the layout built from an array's values has the same
\* values, and is refused only if they are of more kinds than a union can tag.
ValuesSurvive ==
  LET rebuilt == LayoutFromList(ToList(array.layout))
  IN  IF IsError(rebuilt) THEN Cardinality(Kinds(ToValue(array))) > MaxContents
      ELSE WellFormed(rebuilt) /\ Alike(List(ToList(rebuilt)), ToValue(array))

-----------------------------------------------------------------------------
(***************************************************************************)
(* Lines: the values that differ in their place along one axis only.       *)
(***************************************************************************)
OnLine(p, axis, i) == [p EXCEPT ![axis + 1] = i]

\* The places along the axis that the line through p has, and the values there.
LinePlaces(v, axis, p) ==
  SetToSortSeq({i \in 1..Max({q[axis + 1] : q \in {q \in LeafPaths(v) : Len(q) > axis}}) :
                  OnLine(p, axis, i) \in LeafPaths(v)}, <)

Line(v, axis, p) ==
  [k \in DOMAIN LinePlaces(v, axis, p) |-> Inside(v, OnLine(p, axis, LinePlaces(v, axis, p)[k]))]

FullPaths(v) == {p \in LeafPaths(v) : Len(p) = Depth(v)}

\* Missing values come last, whatever the direction.
IsOrdered(line, ascending) ==
  \A i, j \in DOMAIN line :
    i < j => \/ IsNone(line[j])
             \/ /\ ~IsNone(line[i])
                /\ IF ascending THEN ~Less(line[j], line[i]) ELSE ~Less(line[i], line[j])

HaveSameItems(s, t) ==
  \A w \in ToSet(s) \cup ToSet(t) :
    Cardinality({k \in DOMAIN s : s[k] = w}) = Cardinality({k \in DOMAIN t : t[k] = w})

\* sort leaves every list as long as it is, and every line along the axis has its own
\* values in order, the missing ones last, however ragged the rows are.
SortsEveryLine ==
  [][(Called("sort") /\ Even(Before) /\ FreeOfNaN(Before)) =>
       /\ LeafPaths(After) = LeafPaths(Before)
       /\ \A p \in FullPaths(Before) :
            LET axis == Place(request'.axis, Depth(Before))
                line == Line(Plain(After), axis, p)
            IN  /\ IsOrdered(line, request'.ascending)
                /\ HaveSameItems(line, Line(Plain(Before), axis, p))]_vars

\* What argsort returns for the line through p names places of the line, each of them
\* once, in the order of their values.
NamesTheOrder(v, indices, axis, ascending, p) ==
  LET places == Line(indices, axis, p)
      named  == [k \in DOMAIN places |-> places[k].scalar.n + 1]
  IN  /\ HaveSameItems(named, LinePlaces(v, axis, p))
      /\ IsOrdered([k \in DOMAIN named |-> Inside(v, OnLine(p, axis, named[k]))], ascending)

ArgsortNamesTheOrder(v, indices, axis, ascending) ==
  LeafPaths(indices) = LeafPaths(v) /\ \A p \in FullPaths(v) : NamesTheOrder(v, indices, axis, ascending, p)

\* argsort says where the sorted values of every line come from, for the innermost axis
\* and for the outermost of two.
ArgsortPointsAtRows ==
  [][(/\ Called("argsort") /\ Even(Before) /\ FreeOfNaN(Before)
      /\ Place(request'.axis, Depth(Before)) > 0 \/ Depth(Before) < 3) =>
       ArgsortNamesTheOrder(Before, After, Place(request'.axis, Depth(Before)), request'.ascending)]_vars

\* The same for every axis, as docs/awkward-compatibility.md says: "Stable ordering supports
\* recursive scalar-list axes, ragged column-wise axis 0".
ArgsortIsRecursive ==
  [][(Called("argsort") /\ Even(Before) /\ FreeOfNaN(Before)) =>
       ArgsortNamesTheOrder(Before, After, Place(request'.axis, Depth(Before)), request'.ascending)]_vars

-----------------------------------------------------------------------------
(***************************************************************************)
(* Reductions.                                                             *)
(***************************************************************************)
SumOf(s) == FoldSeq(LAMBDA v, sum : Sum2(AsReal(v), sum), Real(0, 1), s)

\* w is the least, or the greatest, of s.
IsExtreme(w, s, greatest) ==
  /\ w \in ToSet(s)
  /\ \A v \in ToSet(s) : IF greatest THEN ~Less(w, v) ELSE ~Less(v, w)

\* Is w the reduction of the numbers of s?  Spreads are taken from the sum of the squares.
IsReduction(w, s, r) ==
  LET n       == Len(s)
      squares == SumOf([k \in DOMAIN s |-> Product2(s[k], s[k])])
      spread  == Difference(squares, Quotient(Product2(SumOf(s), SumOf(s)), Real(n, 1)))
      picked  == s[w.scalar.n + 1]
      none    == \/ s = <<>> /\ (r.mask_identity \/ r.kind \notin {"count", "count_nonzero", "sum", "prod", "any", "all"})
                 \/ r.kind \in {"var", "std"} /\ n <= r.ddof
  IN
  /\ IsNone(w) <=> none
  /\ ~none =>
     CASE r.kind = "count"          -> w = Integer(n)
       [] r.kind = "count_nonzero"  -> w = Integer(Cardinality({k \in DOMAIN s : Truthy(s[k])}))
       [] r.kind = "any"            -> w = Truth(\E k \in DOMAIN s : Truthy(s[k]))
       [] r.kind = "all"            -> w = Truth(\A k \in DOMAIN s : Truthy(s[k]))
       [] r.kind = "sum"            -> Alike(w, SumOf(s))
       [] r.kind = "prod"           -> Alike(w, FoldSeq(LAMBDA v, p : Product2(v, p), Real(1, 1), s))
       [] r.kind \in {"min", "max"} -> IsExtreme(AsReal(w), [k \in DOMAIN s |-> AsReal(s[k])], r.kind = "max")
       [] r.kind \in {"argmin", "argmax"} ->
            /\ IsExtreme(picked, s, r.kind = "argmax")
            /\ \A k \in 1..w.scalar.n : ~Equal(s[k], picked)
       [] r.kind = "mean"           -> Alike(Product2(w, Real(n, 1)), SumOf(s))
       [] r.kind = "ptp"            -> \E v, u \in ToSet(s) : /\ IsExtreme(v, s, TRUE) /\ IsExtreme(u, s, FALSE)
                                                              /\ w = Difference(AsReal(v), AsReal(u))
       [] r.kind \in {"var", "std", "moment"} ->
            Alike(Product2(w, Real(n - (IF r.kind = "moment" THEN 0 ELSE r.ddof), 1)), spread)

\* What is reduced of a line: the present values, after the initial one.
Reduced(line, r) ==
  SetToSeq(r.initial) \o SelectSeq(line, LAMBDA v : ~IsNone(v) /\ ~(r.skip_nan /\ IsNaN(v)))

\* The place of a line's result.
Result(w, axis, p, r) ==
  Inside(w, IF r.keepdims THEN OnLine(p, axis, 1) ELSE RemoveAt(p, axis + 1))

\* A reduction of order two along an axis gives, in the place of each line, the
\* reduction of that line's present values, however ragged the rows are; without an axis
\* it gives that of all of them.
ReducesEveryLine ==
  [][(Called("reduce") /\ Even(Before)) =>
       LET r == request'.settings
           comparable(s) == r.kind \in {"count", "count_nonzero", "any", "all"}
                            \/ \A k \in DOMAIN s : ~IsNaN(s[k])
           judge(w, line) == comparable(Reduced(line, r)) => IsReduction(w, Reduced(line, r), r)
       IN  IF request'.axis = {}
           THEN judge(Inside(answer', [k \in 1..(IF r.keepdims THEN Depth(Before) ELSE 0) |-> 1]), Ravel(Before))
           ELSE LET axis == Place(CHOOSE a \in request'.axis : TRUE, Depth(Before))
                IN  \A p \in FullPaths(Before) :
                      judge(Result(answer', axis, p, r), Line(Before, axis, p))]_vars

-----------------------------------------------------------------------------
(***************************************************************************)
(* Structure.                                                              *)
(***************************************************************************)
Items(v, p) == Inside(v, p).list

\* What becomes of the items of a list that is reached.
Becomes(old, r) ==
  CASE r.op = "num"         -> Integer(Len(old))
    [] r.op = "local_index" -> List([k \in DOMAIN old |-> Integer(k - 1)])
    [] r.op = "is_none"     -> List([k \in DOMAIN old |-> Truth(IsNone(old[k]))])
    [] r.op = "drop_none"   -> List(SelectSeq(old, LAMBDA v : ~IsNone(v)))
    [] r.op = "pad_none"    ->
         List([k \in 1..(IF r.clip \/ Len(old) < r.target THEN r.target ELSE Len(old)) |->
                 IF k <= Len(old) THEN old[k] ELSE None])
    [] r.op = "firsts"      ->
         List([k \in DOMAIN old |-> IF IsNone(old[k]) THEN None ELSE Head(old[k].list \o <<None>>)])
    [] r.op = "flatten"     ->
         List(FoldLeft(LAMBDA s, v : IF IsNone(v) THEN s ELSE s \o v.list, <<>>, old))

StructureOps == {"num", "local_index", "is_none", "drop_none", "pad_none", "firsts", "flatten"}

\* The functions with an axis change the lists there, each as it is asked for, wherever
\* lists are missing or empty above them, and change nothing elsewhere.
ActsOnItsAxis ==
  [][(request'.op \in StructureOps /\ outcome' = "ok") =>
       LET r      == request'
           result == IF r.op = "num" THEN answer' ELSE After
           asked  == IF r.op = "drop_none" THEN CHOOSE a \in r.axis : TRUE ELSE r.axis
           axis   == Place(asked, Ndim(array.layout)) - (IF r.op \in {"firsts", "flatten"} THEN 1 ELSE 0)
           other(v) == {p \in LeafPaths(v) : Len(p) <= axis}
       IN  /\ \A p \in ListPaths(Before, axis) :
                HasPath(result, p) /\ Alike(Inside(result, p), Becomes(Items(Before, p), r))
           /\ other(Before) \subseteq LeafPaths(result)
           /\ \A p \in other(Before) : Alike(Inside(result, p), Inside(Before, p))]_vars

\* The functions on leaves leave the lists alone.
BecomesLeaf(v, r) ==
  CASE r.op = "fill_none"   -> IF IsNone(v) THEN r.fill ELSE v
    [] r.op = "nan_to_none" -> IF IsNaN(v) THEN None ELSE v
    [] r.op = "nan_to_num"  -> IF IsReal(v) /\ v.scalar.d = 0 THEN Real(9 * v.scalar.n, 1) ELSE v
    [] r.op = "logical_not" -> IF IsNone(v) THEN v ELSE Truth(Equal(AsReal(v), Real(0, 1)))

\* What mask keeps: the place of a value in the mask is the value's or that of a list
\* around it.
Kept(m, p, valid_when) ==
  \A n \in 0..Len(p) :
    SubSeq(p, 1, n) \in LeafPaths(m) => Truthy(Inside(m, SubSeq(p, 1, n))) = valid_when

-----------------------------------------------------------------------------
(***************************************************************************)
(* Strings.                                                                *)
(***************************************************************************)
\* Strings one after the other, with the separator between them.
Interleaved(strings, separator) ==
  FlattenSeq([k \in 1..(2 * Len(strings) - 1) |->
                IF k % 2 = 1 THEN Bytes(strings[(k + 1) \div 2]) ELSE separator])

\* The pieces are cut at the first places there are, as many as are asked for.
AreCut(pieces, s, pattern, max) ==
  LET last == Len(pieces)
  IN  /\ Interleaved(pieces, pattern) = s
      /\ \A k \in 1..(last - 1) :
           Found(Bytes(pieces[k]) \o pattern, pattern) = {Len(Bytes(pieces[k])) + 1}
      /\ \A n \in max : last <= n + 1
      /\ Found(Bytes(pieces[last]), pattern) # {} => \E n \in max : last = n + 1

\* Every k-th byte between bounds counted from either end.
IsSlice(t, s, slice) ==
  LET n       == Len(s)
      back(b) == {IF i < 0 THEN i + n ELSE i : i \in b}
      pace    == slice.step
      first   == IF pace > 0 THEN Max({0} \cup back(slice.start)) ELSE Min({n - 1} \cup back(slice.start))
      asked   == {i \in 0..(n - 1) :
                    /\ IF pace > 0 THEN i >= first ELSE i <= first
                    /\ (i - first) % Abs(pace) = 0
                    /\ \A stop \in back(slice.stop) : IF pace > 0 THEN i < stop ELSE i > stop}
      order   == SetToSortSeq(asked, LAMBDA i, j : IF pace > 0 THEN i < j ELSE i > j)
  IN  t = [k \in DOMAIN order |-> s[order[k] + 1]]

\* Cased as asked: lower and upper leave no other case, titles start with a capital after
\* anything that is no letter, and no byte but a letter changes.
IsCased(t, s, name) ==
  /\ Len(t) = Len(s)
  /\ \A k \in DOMAIN s : IF s[k] \in Letters THEN t[k] \in Letters ELSE t[k] = s[k]
  /\ \A k \in DOMAIN s : s[k] \in Letters =>
       (t[k] = Upper <=> \/ name = "upper"
                         \/ name = "capitalize" /\ k = 1
                         \/ name = "title" /\ (k = 1 \/ s[k-1] \notin Letters))

\* A string has a case if changing it to that case does nothing, to another something.
HasCase(s, to) ==
  /\ Wide \notin ToSet(s)
  /\ Changed(to, s) = s
  /\ \E other \in {"lower", "upper"} : Changed(other, s) # s

BecomesText(w, s, ask) ==
  CASE ask.name = "split_pattern" -> AreCut(w.list, s, ask.pattern, ask.max)
    [] ask.name = "slice"         -> IsSlice(Bytes(w), s, ask.slice)
    [] ask.name = "reverse"       -> \A k \in DOMAIN s : Bytes(w)[Len(s) + 1 - k] = s[k]
    [] ask.name \in Transforms \ {"reverse"} -> IsCased(Bytes(w), s, ask.name)
    [] ask.name = "is_lower"      -> w = Truth(HasCase(s, "lower"))
    [] ask.name = "is_upper"      -> w = Truth(HasCase(s, "upper"))
    [] ask.name = "is_title"      -> w = Truth(HasCase(s, "title"))
    [] ask.name = "contains"      -> w = Truth(\E i \in 0..Len(s) : IsPrefix(ask.pattern, SubSeq(s, i + 1, Len(s))))
    [] OTHER                      -> w = Truth(TRUE) \/ w = Truth(FALSE)

IsStrings(v) == IsList(v) /\ v.list # <<>> /\ \A k \in DOMAIN v.list : IsString(v.list[k])

\* The lists of strings inside an array.
JoinedPaths(v) == {p \in UNION {ListPaths(v, n) : n \in 1..Depth(v)} : IsStrings(Inside(v, p))}

\* Strings stay where they are, whatever is made of them; joining what a pattern has cut
\* gives the strings back.  An empty list or one of missing strings does not come back,
\* since join makes a string, or nothing, of it.
StringsStayInPlace ==
  /\ Called("string") =>
       \A p \in LeafPaths(Before) :
         /\ HasPath(After, p)
         /\ IsNone(Inside(Before, p)) => IsNone(Inside(After, p))
         /\ IsString(Inside(Before, p)) => BecomesText(Inside(After, p), Bytes(Inside(Before, p)), request'.ask)
  /\ Called("join") =>
       \A p \in JoinedPaths(Before) :
         Bytes(Inside(After, p)) = Interleaved(Items(Before, p), request'.separator)
  /\ (/\ Called("string") /\ request'.ask.name = "split_pattern" /\ Even(Before)
      /\ \A p \in ListPaths(Before, Depth(Before) - 1) : \E k \in DOMAIN Items(Before, p) : IsString(Items(Before, p)[k])) =>
       Alike(JoinRowsOf(After, request'.ask.pattern), Before)

\* No function on leaves moves a value: what stands at a path comes from the same path,
\* and a masked value or list is missing there and nowhere else.
LeavesStayInPlace ==
  [][outcome' = "ok" =>
       /\ request'.op \in {"fill_none", "nan_to_none", "nan_to_num", "logical_not"} =>
            /\ LeafPaths(After) = LeafPaths(Before)
            /\ \A p \in LeafPaths(Before) : Alike(Inside(After, p), BecomesLeaf(Inside(Before, p), request'))
       /\ request'.op = "mask" =>
            \A p \in LeafPaths(Before) :
              LET kept == Kept(ToValue(request'.mask), p, request'.valid_when)
              IN  IF kept THEN p \in LeafPaths(After) /\ Alike(Inside(After, p), Inside(Before, p))
                          ELSE \E n \in 0..Len(p) : IsNone(Inside(After, SubSeq(p, 1, n)))
       /\ StringsStayInPlace]_vars

-----------------------------------------------------------------------------
(***************************************************************************)
(* Several arrays.                                                         *)
(***************************************************************************)
\* The value of values[k] that a broadcast puts at path p.  Lists of one length go
\* together; otherwise the flat ones of another length than the last nested one are columns.
RECURSIVE Source(_, _, _)
Source(values, k, p) ==
  LET lists  == {j \in DOMAIN values : IsList(values[j])}
      uneven == Cardinality({Len(values[j].list) : j \in lists}) > 1
      shape  == Max({j \in lists : IsNestedList(values[j])})
      column(j) == /\ uneven /\ ~IsNestedList(values[j])
                   /\ Len(values[j].list) # Len(values[shape].list)
      below  == [j \in DOMAIN values |-> IF j \notin lists THEN values[j]
                                         ELSE IF column(j) THEN Truth(TRUE)
                                         ELSE values[j].list[p[1]]]
  IN  IF p = <<>> \/ ~IsList(values[k]) THEN values[k]
      ELSE IF column(k) THEN values[k].list[Last(p)]
      ELSE Source(below, k, Tail(p))

\* A broadcast value: missing where one of the sources is.
IsBroadcast(w, values, k, p) ==
  IF \E j \in DOMAIN values : IsNone(Source(values, j, p)) THEN IsNone(w)
  ELSE Alike(w, Source(values, k, p))

\* broadcast_arrays gives two arrays of one shape whose values come from the place in
\* their own array that the lengths determine; where picks among such places.
BroadcastKeepsPlaces ==
  [][/\ Called("broadcast_arrays") =>
          LET values == <<Before, ToValue(request'.other)>>
          IN  /\ LeafPaths(After) = LeafPaths(answer')
              /\ \A p \in LeafPaths(After) : /\ IsBroadcast(Inside(After, p), values, 1, p)
                                             /\ IsBroadcast(Inside(answer', p), values, 2, p)
     /\ (Called("where") /\ "other" \in DOMAIN request') =>
          LET values == <<ToValue(request'.condition), Before, ToValue(request'.other)>>
          IN  \A p \in LeafPaths(After) :
                IF \E j \in 1..3 : IsNone(Source(values, j, p)) THEN IsNone(Inside(After, p))
                ELSE Alike(Inside(After, p),
                           Source(values, IF Truthy(Source(values, 1, p)) THEN 2 ELSE 3, p))]_vars

\* An array that is computed in one go from the buffers of its inputs has the values that
\* the walk through their values computes.  Comparisons with NaN are left out, and so are
\* empty arrays, which are returned as they are.
KernelsAgree ==
  [][outcome' = "ok" =>
       LET r      == request'
           right  == IF "other" \in DOMAIN r THEN ToValue(r.other) ELSE r.value
           walked == IF "left" \in DOMAIN r /\ r.left THEN Binary(right, Before, r)
                                                      ELSE Binary(Before, right, r)
       IN  /\ (/\ r.op \in BinaryOps /\ IsNumeric(array.layout) /\ Before.list # <<>>
               /\ FreeOfNaN(Before) /\ FreeOfNaN(right)) => Alike(After, walked)
           /\ (r.op = "concatenate" /\ Place(r.axis, Ndim(array.layout)) = 0) =>
                Alike(After, List(Before.list \o right.list))]_vars

\* A selection means the same whether a layout answers it or its values are walked through;
\* a layout keeps a result that is no list, or no longer one, in a list of one.  at finds
\* the same value as the selection of its integers.
SlicesAgree ==
  [][/\ Called("at") => answer' = SliceValue(Before, request'.items)
     /\ (Called("slice") /\ \A k \in DOMAIN request'.items : request'.items[k].kind # "mask") =>
       LET walked == SliceValue(Before, SpelledOut(array.layout, request'.items))
       IN  Alike(After, walked) \/ Alike(After, List(<<walked>>))]_vars

-----------------------------------------------------------------------------
(***************************************************************************)
(* Records and metadata.                                                   *)
(***************************************************************************)
FieldIn(v, name) == ProjectValue(v, <<name>>, TRUE)

\* The value at p if it is not missing, nor in something that is.
IsPresent(v, p) == \A n \in 0..Len(p) : SubSeq(p, 1, n) \in LeafPaths(v) => ~IsNone(Inside(v, SubSeq(p, 1, n)))

\* A field comes back as the array that was put into it: both of zip, whatever depth they
\* are zipped to, the new one of with_field and every old one.  unzip and field take out
\* what is there.
FieldsComeBack ==
  [][outcome' = "ok" =>
       LET r == request'
           same(name) == IsFailure(FieldIn(Before, name)) \/ Alike(FieldIn(After, name), FieldIn(Before, name))
       IN  /\ r.op = "zip" => /\ Alike(FieldIn(After, r.names[1]), Before)
                              /\ Alike(FieldIn(After, r.names[2]), ToValue(r.other))
           /\ r.op = "unzip" =>
                \A k \in DOMAIN answer'.list : Alike(answer'.list[k], FieldIn(Before, FieldNames(array.layout)[k]))
           /\ r.op = "field" => Alike(After, ProjectValue(Before, r.names, r.single))
           /\ r.op = "with_field" =>
                /\ \A p \in LeafPaths(Before) :
                     IsPresent(Before, p) => Alike(Inside(FieldIn(After, r.name), p), Inside(ToValue(r.other), p))
                /\ \A name \in {"x", "y", "z"} \ {r.name} : same(name)
           /\ r.op = "without_field" => \A name \in {"x", "y", "z"} \ {r.name} : same(name)]_vars

\* No attribute and no named axis of any input is overruled by another input's.
NoInputIsOverruled ==
  [][(outcome' = "ok" /\ array' # array /\ "other" \in DOMAIN request' /\ request'.op # "broadcast_arrays") =>
       \A a \in {array, request'.other} :
         /\ \A k \in DOMAIN a.attrs : array'.attrs[k] = a.attrs[k]
         /\ \A k \in DOMAIN a.axes : array'.axes[k] = a.axes[k]]_vars

TotalAsked == [op |-> "reduce", kind |-> "sum", initial |-> {}, skip_nan |-> TRUE,
               mask_identity |-> FALSE, keepdims |-> FALSE]

\* The sum over one named axis, and then over the other of the result.
SumOver(first, second) ==
  LET v == Reduce(ToValue(array), {array.axes[first]}, TotalAsked)
      a == ReducerResult(v, array, {array.axes[first]}, FALSE)
  IN  IF IsError(a.layout) THEN Failure(a.layout.is) ELSE Reduce(ToValue(a), {a.axes[second]}, TotalAsked)

\* A named axis goes on naming its data when another axis is reduced: the sums over two
\* named axes commute.  Left out are an empty list of lists, which is reduced to a number,
\* and a missing list, which a sum over the lists skips and a sum inside them keeps.
NamedAxesFollow ==
  \A first, second \in DOMAIN array.axes :
    LET v    == ToValue(array)
        dims == Ndim(array.layout)
    IN  (/\ Place(array.axes[first], dims) # Place(array.axes[second], dims)
         /\ \A p \in LeafPaths(v) : /\ Len(p) = dims
                                    /\ IsNone(Inside(v, p)) \/ IsNumber(Inside(v, p))
         /\ \A n \in 0..(dims - 2) : \A p \in ListPaths(v, n) : Items(v, p) # <<>>) =>
          Alike(SumOver(first, second), SumOver(second, first))
=============================================================================
