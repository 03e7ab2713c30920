------------------------- MODULE LayoutsRefinement -------------------------
(***************************************************************************)
(* What the layouts of awkward::Array are checked for.                     *)
(***************************************************************************)
EXTENDS Layouts

RECURSIVE Nodes(_)
Nodes(l) == {l} \cup UNION {Nodes(Children(l)[i]) : i \in DOMAIN Children(l)}

\* Where in its content, or in which content, a node looks for its values.
Refers(l) ==
  CASE l.class \in ListClasses -> UNION {{<<l.content, p>> : p \in ToSet(Row(l, i))} : i \in 0..(Length(l) - 1)}
    [] l.class \in {"indexed", "indexed_option"} -> {<<l.content, p>> : p \in ToSet(l.index) \ {-1}}
    [] l.class \in {"byte_masked", "bit_masked"} -> {<<l.content, i>> : i \in 0..(Length(l) - 1)}
    [] l.class = "record" -> {<<c, i>> : c \in ToSet(l.contents), i \in 0..(l.length - 1)}
    [] l.class = "union"  -> {<<l.contents[l.tags[i] + 1], l.index[i]>> : i \in DOMAIN l.tags}
    [] OTHER -> {}

\* Every node of the array's layout looks only at values that its contents have,
\* whatever calls made it: no read of a method is out of bounds (the classes'
\* validate(), and the unchecked reads of their at, take and to_list).
TypeOK ==
  /\ outcome \in {"ok", "invalid_argument", "out_of_range"}
  /\ \A l \in Nodes(layout) : \A r \in Refers(l) : r[2] \in 0..(Length(r[1]) - 1)

RECURSIVE HoldsLists(_)
HoldsLists(l) == l.class \in ListClasses \/ (l.class = "indexed" /\ HoldsLists(l.content))

\* num and local_index of a list layout, which read offsets, starts and stops or a
\* size, count the rows that to_list gives (list_array.hpp:122-153 and the like).
RowsAreCounted ==
  HoldsLists(layout) =>
    /\ Num(layout) = [k \in 1..Length(layout) |-> Len(ToList(layout)[k].list)]
    /\ layout.class \in ListClasses =>
         ToList(LocalIndex(layout))
           = [k \in 1..Length(layout) |->
                [list |-> [i \in 1..Num(layout)[k] |-> [scalar |-> i - 1]]]]

Nested == INSTANCE NestedLists WITH list <- ToList(layout)

\* Every constructor and every selection, on every class of layout, makes of the
\* array's values what the call asks for, or is refused when it must be
\* (contents/*.hpp, array.hpp:69-79).
ImplementsNestedLists == Nested!Spec

\* An index of slices with steps into the rows, or flattening.
AsksForRows(r) ==
  \/ r.op = "Flatten"
  \/ r.op = "Inner" /\ \A x \in {r.rows, r.columns} : x.kind = "slice" => x.step # 0

\* A layout of lists, direct or through an index, is never refused an index into its
\* rows or flattening for want of an implementation (the overrides of slice_inner,
\* take_inner and flatten; indexed_array.hpp:87-120).
ListsAnswer ==
  [][AsksForRows(request') /\ HoldsLists(layout) => outcome' # "invalid_argument"]_vars

\* docs/awkward-compatibility.md:73: "flat/ragged boolean masks uniformly across
\* implemented layouts".  A flat boolean mask of the array's length is not refused.
MasksAreUniform ==
  [][(request'.op = "MaskAsArray" /\ request'.mask.kind = "flat"
        /\ Len(request'.mask.values) = Length(layout))
     => outcome' = "ok"]_vars
=============================================================================
