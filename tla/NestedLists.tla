---------------------------- MODULE NestedLists ----------------------------
(***************************************************************************)
(* What a layout of awkward::Array promises, whatever its class: it IS a   *)
(* list of values, and every call says which list it makes of that one or  *)
(* that it is refused and why.  A value is a scalar, none, a list or a     *)
(* record.  Indexes and masks are defined here by what they ask for, and a *)
(* class may refuse a request it does not implement.                       *)
(***************************************************************************)
EXTENDS Integers, Sequences, FiniteSets, SequencesExt

VARIABLES
  list,     \* the values
  request,  \* the last call, with its arguments
  outcome   \* how it ended

vars == <<list, request, outcome>>

IsList(v) == "list" \in DOMAIN v
None      == [none |-> TRUE]

Answer(values) == list' = values /\ outcome' = "ok"
Refused(e)     == outcome' = e /\ UNCHANGED list
AnswerIf(valid, values) == IF valid THEN Answer(values) ELSE Refused("invalid_argument")
NotImplemented == Refused("invalid_argument")

Exists(p) == 0 <= p /\ p < Len(list)

-----------------------------------------------------------------------------
(***************************************************************************)
(* Lists made of the list.                                                 *)
(***************************************************************************)
Part(a, b) == [list |-> SubSeq(list, a + 1, b)]

\* Rows from a to b; the rows may overlap, leave values out or be out of order.
Nest(starts, stops) ==
  AnswerIf(/\ Len(starts) = Len(stops)
           /\ \A k \in DOMAIN starts : starts[k] <= stops[k] /\ stops[k] <= Len(list),
           [k \in DOMAIN starts |-> Part(starts[k], stops[k])])

\* Consecutive rows that together hold every value.
Cut(o) ==
  AnswerIf(/\ o # <<>>
           /\ o[1] = 0 /\ o[Len(o)] = Len(list)
           /\ \A k \in 1..(Len(o) - 1) : o[k] <= o[k + 1],
           [k \in 1..(Len(o) - 1) |-> Part(o[k], o[k + 1])])

\* Rows of one size.
Chop(size, n) ==
  AnswerIf(size * n = Len(list), [k \in 1..n |-> Part((k - 1) * size, k * size)])

PickAll(index) ==
  AnswerIf(\A k \in DOMAIN index : Exists(index[k]), [k \in DOMAIN index |-> list[index[k] + 1]])

PickOrNone(index) ==
  AnswerIf(\A k \in DOMAIN index : index[k] < 0 \/ Exists(index[k]),
           [k \in DOMAIN index |-> IF index[k] < 0 THEN None ELSE list[index[k] + 1]])

\* The first values, those that are not present replaced by none.
Hide(present, enough) ==
  AnswerIf(enough /\ Len(present) <= Len(list),
           [k \in DOMAIN present |-> IF present[k] THEN list[k] ELSE None])

Zipped(names, others) ==
  LET columns == <<list>> \o others
  IN  AnswerIf(/\ Len(names) = Len(columns) /\ Cardinality(ToSet(names)) = Len(names)
               /\ \A c \in DOMAIN columns : Len(columns[c]) = Len(list),
               [k \in DOMAIN list |-> [fields |-> names,
                                       values |-> [c \in DOMAIN columns |-> columns[c][k]]]])

\* Values of the list (tag 0) and of another (tag 1).
Merge(tags, index, other) ==
  LET columns == <<list, other>>
  IN  AnswerIf(/\ Len(tags) = Len(index)
               /\ \A k \in DOMAIN tags :
                    tags[k] \in {0, 1} /\ index[k] \in 0..(Len(columns[tags[k] + 1]) - 1),
               [k \in DOMAIN tags |-> columns[tags[k] + 1][index[k] + 1]])

-----------------------------------------------------------------------------
(***************************************************************************)
(* Indexes: the positions of a dimension of n that one asks for, in order. *)
(***************************************************************************)
Given(b, n) == LET i == CHOOSE i \in b : TRUE IN IF i < 0 THEN i + n ELSE i

\* Up from start, or from the front, and before stop; down from start, or from the
\* back, and after stop.
SliceAsks(x, n) ==
  LET first == IF x.start = {} THEN (IF x.step > 0 THEN 0 ELSE n - 1)
               ELSE IF x.step > 0 THEN (IF Given(x.start, n) < 0 THEN 0 ELSE Given(x.start, n))
               ELSE IF Given(x.start, n) >= n THEN n - 1 ELSE Given(x.start, n)
      all   == [k \in 1..n |-> k - 1]
      up(p)   == /\ p >= first /\ (p - first) % x.step = 0
                 /\ x.stop = {} \/ p < Given(x.stop, n)
      down(p) == /\ p <= first /\ (first - p) % (-x.step) = 0
                 /\ x.stop = {} \/ p > Given(x.stop, n)
  IN  IF x.step > 0 THEN SelectSeq(all, up) ELSE Reverse(SelectSeq(all, down))

Asks(x, n) ==
  CASE x.kind = "slice"    -> SliceAsks(x, n)
    [] x.kind = "integers" -> [k \in DOMAIN x.values |-> (x.values[k] + n) % n]
    [] x.kind = "booleans" -> SelectSeq([k \in 1..n |-> k - 1], LAMBDA p : x.values[p + 1])

\* Why an index of a dimension of n is refused, or "ok".
Verdict(x, n) ==
  CASE x.kind = "slice"    -> IF x.step # 0 THEN "ok" ELSE "invalid_argument"
    [] x.kind = "integers" -> IF ToSet(x.values) \subseteq -n..(n - 1) THEN "ok" ELSE "out_of_range"
    [] x.kind = "booleans" -> IF Len(x.values) = n THEN "ok" ELSE "invalid_argument"

Chosen(values, x) == [k \in DOMAIN Asks(x, Len(values)) |-> values[Asks(x, Len(values))[k] + 1]]

SelectRows(x) ==
  IF Verdict(x, Len(list)) = "ok" THEN Answer(Chosen(list, x))
                                  ELSE Refused(Verdict(x, Len(list)))

\* The rows first, then the elements of each; drop joins the chosen rows.
Inner(rows, columns, drop) ==
  LET chosen    == Chosen(list, rows)
      verdict   == {Verdict(columns, Len(chosen[k].list)) : k \in DOMAIN chosen} \ {"ok"}
      narrow(v) == Chosen(v.list, columns)
  IN  \/ NotImplemented
      \/ /\ \A k \in DOMAIN list : IsList(list[k])
         /\ IF Verdict(rows, Len(list)) # "ok" THEN Refused(Verdict(rows, Len(list)))
            ELSE IF verdict # {} THEN \E e \in verdict : Refused(e)
            ELSE IF drop THEN Answer(FlattenSeq([k \in DOMAIN chosen |-> narrow(chosen[k])]))
            ELSE Answer([k \in DOMAIN chosen |-> [list |-> narrow(chosen[k])]])

Flatten ==
  \/ NotImplemented
  \/ /\ \A k \in DOMAIN list : IsList(list[k])
     /\ Answer(FlattenSeq([k \in DOMAIN list |-> list[k].list]))

\* A flat mask keeps values, a ragged one elements of every value.
MaskAsArray(mask) ==
  LET keeps(v, m) == Len(v) = Len(m)
      kept(v, m)  == Chosen(v, [kind |-> "booleans", values |-> m])
  IN  \/ NotImplemented
      \/ /\ mask.kind = "flat" /\ keeps(list, mask.values)
         /\ Answer(kept(list, mask.values))
      \/ /\ mask.kind = "ragged" /\ keeps(list, mask.values)
         /\ \A k \in DOMAIN list : IsList(list[k]) /\ keeps(list[k].list, mask.values[k])
         /\ Answer([k \in DOMAIN list |-> [list |-> kept(list[k].list, mask.values[k])]])

Unflatten(counts) ==
  LET end(k) == FoldSeq(+, 0, SubSeq(counts, 1, k))
  IN  \/ NotImplemented
      \/ end(Len(counts)) = Len(list) /\ Answer([k \in DOMAIN counts |-> Part(end(k - 1), end(k))])

-----------------------------------------------------------------------------
(***************************************************************************)
(* Fields.  A field is taken out of every record, through lists and none.  *)
(***************************************************************************)
RECURSIVE Projected(_, _, _)
Projected(v, names, single) ==
  LET at(name) == v.values[CHOOSE i \in DOMAIN v.fields : v.fields[i] = name]
  IN  CASE "none" \in DOMAIN v -> v
        [] IsList(v) -> [list |-> [k \in DOMAIN v.list |-> Projected(v.list[k], names, single)]]
        [] "fields" \in DOMAIN v ->
             IF single THEN at(names[1])
             ELSE [fields |-> names, values |-> [k \in DOMAIN names |-> at(names[k])]]

\* What is left of a value without its lists and nones.
RECURSIVE Inside(_)
Inside(v) ==
  CASE "none" \in DOMAIN v -> {}
    [] IsList(v)           -> UNION {Inside(v.list[k]) : k \in DOMAIN v.list}
    [] OTHER               -> {v}

HasFields(v, names) == "fields" \in DOMAIN v /\ ToSet(names) \subseteq ToSet(v.fields)

Fields(names, single) ==
  LET records == UNION {Inside(list[k]) : k \in DOMAIN list}
  IN
  \/ NotImplemented
  \/ Refused("out_of_range") /\ \A v \in records : ~HasFields(v, names)
  \/ /\ \A v \in records : HasFields(v, names)
     /\ Answer([k \in DOMAIN list |-> Projected(list[k], names, single)])

-----------------------------------------------------------------------------
Init ==
  /\ \A k \in DOMAIN list : "scalar" \in DOMAIN list[k]
  /\ request = [op |-> "none"]
  /\ outcome = "ok"

Next ==
  LET r == request'
  IN  \/ r.op = "Cut"         /\ Cut(r.offsets)
      \/ r.op = "Nest"        /\ Nest(r.starts, r.stops)
      \/ r.op = "Chop"        /\ Chop(r.size, r.length)
      \/ r.op = "PickAll"     /\ PickAll(r.index)
      \/ r.op = "PickOrNone"  /\ PickOrNone(r.index)
      \/ r.op = "Hide"        /\ Hide(r.present, r.enough)
      \/ r.op = "Zip"         /\ Zipped(r.names, r.others)
      \/ r.op = "Merge"       /\ Merge(r.tags, r.index, r.other)
      \/ r.op = "SelectRows"  /\ SelectRows(r.rows)
      \/ r.op = "Inner"       /\ Inner(r.rows, r.columns, r.drop)
      \/ r.op = "MaskAsArray" /\ MaskAsArray(r.mask)
      \/ r.op = "Flatten"     /\ Flatten
      \/ r.op = "Unflatten"   /\ Unflatten(r.counts)
      \/ r.op = "Fields"      /\ Fields(r.names, r.single)
      \/ r.op = "Keep"        /\ Answer(list)
      \/ r.op = "OuterAxis"   /\ Answer(<<[list |-> list]>>)
      \/ r.op = "InnerAxis"   /\ Answer([k \in DOMAIN list |-> [list |-> <<list[k]>>]])

Spec == Init /\ [][Next]_vars
=============================================================================
