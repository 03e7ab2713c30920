------------------------------ MODULE Buffers ------------------------------
(***************************************************************************)
(* A layout taken apart into a form and a map of buffers, and put together *)
(* again: include/awkward/buffers.hpp, to_buffers of every class in        *)
(* include/awkward/contents and content_from_buffers of operations.hpp.    *)
(*                                                                         *)
(* A name is a string; the key of a buffer is the name of its node and of  *)
(* its part in it.                                                         *)
(***************************************************************************)
EXTENDS LayoutTrees, BufferMaps, FiniteSetsExt, Functions

CONSTANT Nodes  \* the keys node0, node1, ... that next_key hands out

FormKinds == {"empty", "numpy", "list", "list_offset", "regular", "indexed", "indexed_option",
              "byte_masked", "bit_masked", "unmasked", "record", "union"}

\* Form, with the defaults of its members.
Form(kind, key, length) ==
  [kind |-> kind, key |-> key, primitive |-> "", contents |-> <<>>, fields |-> <<>>,
   is_tuple |-> FALSE, record_name |-> "", length |-> length, size |-> 0,
   valid_when |-> TRUE, lsb_order |-> TRUE, parameters |-> <<>>]

\* parameters.find(name), of a form: the parameters are pairs in a sequence.
HasParameter(f, name, value) == <<name, value>> \in ToSet(f.parameters)
IsStringForm(f) == HasParameter(f, "__array__", "string")

-----------------------------------------------------------------------------
(***************************************************************************)
(* to_buffers.  Nodes are numbered on the way down, the node before its    *)
(* contents.                                                               *)
(***************************************************************************)
\* Strings of either class are stored as offsets and bytes, in two nodes.
IsText(l) == l.class = "string" \/ (l.class = "numpy" /\ l.primitive = "string")

RECURSIVE NodeCount(_)
NodeCount(l) ==
  IF IsText(l) THEN 2
  ELSE 1 + SumFunction([k \in DOMAIN Children(l) |-> NodeCount(Children(l)[k])])

\* The number of the k-th content of node n.
NodeOf(l, n, k) ==
  n + 1 + SumFunction([j \in 1..(k - 1) |-> NodeCount(Children(l)[j])])

\* primitive_type_name: the unsigned types have one name.
PrimitiveName(p) == IF p = "uint8" THEN "uint64" ELSE p

Bytes(l) == FlattenSeq(l.values)

TextForm(l, n) ==
  [Form("list_offset", Nodes[n + 1], Length(l)) EXCEPT
     !.contents   = <<[Form("numpy", Nodes[n + 2], Len(Bytes(l))) EXCEPT
                         !.primitive = "uint8", !.parameters = << <<"__array__", "char">> >>]>>,
     !.parameters = << <<"__array__", "string">> >>]

\* The form of layout l, whose node is the n-th.
RECURSIVE FormOf(_, _)
FormOf(l, n) ==
  LET form     == Form(l.class, Nodes[n + 1], Length(l))
      contents == [k \in DOMAIN Children(l) |-> FormOf(Children(l)[k], NodeOf(l, n, k))]
  IN  CASE IsText(l)                 -> TextForm(l, n)
        [] l.class = "numpy" /\ ~IsText(l) -> [form EXCEPT !.primitive = PrimitiveName(l.primitive)]
        [] l.class = "regular"       -> [form EXCEPT !.contents = contents, !.size = l.size]
        [] l.class = "byte_masked"   -> [form EXCEPT !.contents = contents, !.valid_when = l.valid_when]
        [] l.class = "bit_masked"    ->
             [form EXCEPT !.contents = contents, !.valid_when = l.valid_when, !.lsb_order = l.lsb_order]
        [] l.class = "record"        -> [form EXCEPT !.contents = contents, !.fields = l.fields]
        [] OTHER                     -> [form EXCEPT !.contents = contents]

\* What the node itself puts in the map, part by part.
Parts(l) ==
  CASE l.class = "list_offset" -> [p \in {"-offsets"} |-> BufferOf("int64", l.offsets)]
    [] l.class = "list" ->
         [p \in {"-starts", "-stops"} |-> BufferOf("int64", IF p = "-starts" THEN l.starts ELSE l.stops)]
    [] l.class \in {"indexed", "indexed_option"} -> [p \in {"-index"} |-> BufferOf("int64", l.index)]
    [] l.class \in {"byte_masked", "bit_masked"} -> [p \in {"-mask"} |-> BufferOf("uint8", l.mask)]
    [] l.class = "union" ->
         [p \in {"-tags", "-index"} |->
            IF p = "-tags" THEN BufferOf("uint8", l.tags) ELSE BufferOf("int64", l.index)]
    [] l.class = "numpy" -> [p \in {"-data"} |-> BufferOf(PrimitiveName(l.primitive), l.values)]
    [] OTHER -> [p \in {} |-> 0]

Keyed(n, parts) == [key \in {<<Nodes[n + 1], p>> : p \in DOMAIN parts} |-> parts[key[2]]]

TextParts(l, n) ==
  Keyed(n, [p \in {"-offsets"} |-> BufferOf("int64", OffsetsOf(l.values))])
    @@ Keyed(n + 1, [p \in {"-data"} |-> BufferOf("uint8", Bytes(l))])

RECURSIVE BuffersOf(_, _)
BuffersOf(l, n) ==
  IF IsText(l) THEN TextParts(l, n)
  ELSE FoldFunction(@@, Keyed(n, Parts(l)),
                    [k \in DOMAIN Children(l) |-> BuffersOf(Children(l)[k], NodeOf(l, n, k))])

-----------------------------------------------------------------------------
(***************************************************************************)
(* from_buffers.  Every refusal is an invalid_argument.                    *)
(***************************************************************************)
Refuse == Error("invalid_argument")

\* require_buffer, a condition
HasBuffer(f, part, type, bs) == <<f.key, part>> \in DOMAIN bs /\ bs[<<f.key, part>>].type = type

Buffer(f, part, bs) == bs[<<f.key, part>>].values

\* offsets_from_buffer, a condition
HasOffsets(f, part, bs) ==
  HasBuffer(f, part, "int64", bs) /\ \A k \in DOMAIN Buffer(f, part, bs) : Buffer(f, part, bs)[k] >= 0

\* Mutant: the buffer's own length counts.
NumpyFromUnmeasured(f, bs) ==
  IF f.primitive \in ToSet(BufferTypes) /\ HasBuffer(f, "-data", f.primitive, bs)
  THEN NumpyArray(Buffer(f, "-data", bs), f.primitive) ELSE Refuse

\* primitive_content_from_buffers
NumpyFrom(f, bs) ==
  IF /\ f.primitive \in ToSet(BufferTypes)
     /\ HasBuffer(f, "-data", f.primitive, bs)
     /\ Len(Buffer(f, "-data", bs)) = f.length
  THEN NumpyArray(Buffer(f, "-data", bs), f.primitive) ELSE Refuse

\* The types a list over a NumpyArray has a class of its own for.
TypedLists == {"bool", "int64", "uint64", "float32", "float64", "string"}
IsTyped(c) == c.class = "numpy" /\ c.primitive \in TypedLists

IsMonotonic(offsets) == \A i, j \in DOMAIN offsets : i <= j => offsets[i] <= offsets[j]

\* The string branch of a list-offset form.
TextFrom(f, offsets, bs) ==
  LET c     == f.contents[1]
      bytes == Buffer(c, "-data", bs)
  IN  IF /\ c.kind = "numpy" /\ c.primitive = "uint8"
         /\ HasBuffer(c, "-data", "uint8", bs)
         /\ Len(bytes) = c.length /\ Last(offsets) = Len(bytes)
      THEN StringArray([k \in 1..(Len(offsets) - 1) |->
                          SubSeq(bytes, offsets[k] + 1, offsets[k + 1])])
      ELSE Refuse

RECURSIVE ContentFrom(_, _, _)

\* The sums and products are those of std::size_t.
ListOffsetFrom(f, n, bs) ==
  LET offsets == Buffer(f, "-offsets", bs)
      content == ContentFrom(f.contents[1], Last(offsets), bs)
  IN  IF /\ HasOffsets(f, "-offsets", bs)
         /\ Len(offsets) = (n + 1) % (SizeMax + 1)
         /\ offsets # <<>> /\ offsets[1] = 0 /\ IsMonotonic(offsets)
      THEN IF IsStringForm(f) THEN TextFrom(f, offsets, bs)
           ELSE ListOffsetArray(content, offsets, IsTyped(content))
      ELSE Refuse

RegularFrom(f, n, bs) ==
  LET content == ContentFrom(f.contents[1], (n * f.size) % (SizeMax + 1), bs)
  IN  IF content.class = "string"
      THEN RegularArray(NumpyArray(content.values, "string"), f.size, n, TRUE)
      ELSE RegularArray(content, f.size, n, IsTyped(content))

ListFrom(f, n, bs) ==
  LET starts == Buffer(f, "-starts", bs)
      stops  == Buffer(f, "-stops", bs)
  IN  IF /\ HasOffsets(f, "-starts", bs) /\ HasOffsets(f, "-stops", bs)
         /\ Len(starts) = n /\ Len(stops) = n
      THEN ListArray(starts, stops, ContentFrom(f.contents[1], f.contents[1].length, bs))
      ELSE Refuse

\* indexed and indexed_option
IndexedFrom(f, n, bs) ==
  IF HasBuffer(f, "-index", "int64", bs) /\ Len(Buffer(f, "-index", bs)) = n
  THEN Made([class |-> f.kind, index |-> Buffer(f, "-index", bs),
             content |-> ContentFrom(f.contents[1], f.contents[1].length, bs)])
  ELSE Refuse

ByteMaskedFrom(f, n, bs) ==
  IF HasBuffer(f, "-mask", "uint8", bs) /\ Len(Buffer(f, "-mask", bs)) = n
  THEN Made([class |-> "byte_masked", mask |-> Buffer(f, "-mask", bs), valid_when |-> f.valid_when,
             content |-> ContentFrom(f.contents[1], f.contents[1].length, bs)])
  ELSE Refuse

BitMaskedFrom(f, n, bs) ==
  IF HasBuffer(f, "-mask", "uint8", bs) /\ n <= Len(Buffer(f, "-mask", bs)) * ByteBits
  THEN Made([class |-> "bit_masked", mask |-> Buffer(f, "-mask", bs), length |-> n,
             valid_when |-> f.valid_when, lsb_order |-> f.lsb_order,
             content |-> ContentFrom(f.contents[1], f.contents[1].length, bs)])
  ELSE Refuse

RecordFrom(f, n, bs) ==
  IF Len(f.fields) = Len(f.contents)
  THEN RecordArray(f.fields, [k \in DOMAIN f.contents |-> ContentFrom(f.contents[k], n, bs)], n)
  ELSE Refuse

UnionFrom(f, n, bs) ==
  IF /\ HasBuffer(f, "-tags", "uint8", bs) /\ HasBuffer(f, "-index", "int64", bs)
     /\ Len(Buffer(f, "-tags", bs)) = n /\ Len(Buffer(f, "-index", bs)) = n
  THEN UnionArray(Buffer(f, "-tags", bs), Buffer(f, "-index", bs),
                  [k \in DOMAIN f.contents |-> ContentFrom(f.contents[k], f.contents[k].length, bs)])
  ELSE Refuse

\* The kinds over one content, of the buffers and the length n asked for.
WrapperFrom(f, n, bs) ==
  CASE f.kind = "list"        -> ListFrom(f, n, bs)
    [] f.kind = "list_offset" -> ListOffsetFrom(f, n, bs)
    [] f.kind = "regular"     -> RegularFrom(f, n, bs)
    [] f.kind = "byte_masked" -> ByteMaskedFrom(f, n, bs)
    [] f.kind = "bit_masked"  -> BitMaskedFrom(f, n, bs)
    [] f.kind = "unmasked"    -> Made([class |-> "unmasked", content |-> ContentFrom(f.contents[1], n, bs)])
    [] f.kind \in {"indexed", "indexed_option"} -> IndexedFrom(f, n, bs)

\* content_from_buffers, with require_form_length and require_single_content
ContentFrom(f, n, bs) ==
  CASE f.length # n         -> Refuse
    [] f.length = n /\ f.kind = "empty"  -> IF n = 0 THEN [class |-> "empty"] ELSE Refuse
    [] f.length = n /\ f.kind = "numpy"  -> NumpyFrom(f, bs)
    [] f.length = n /\ f.kind = "record" -> RecordFrom(f, n, bs)
    [] f.length = n /\ f.kind = "union"  -> UnionFrom(f, n, bs)
    [] OTHER -> IF Len(f.contents) = 1 THEN WrapperFrom(f, n, bs) ELSE Refuse

-----------------------------------------------------------------------------
(***************************************************************************)
(* types.hpp: the type of a form.                                          *)
(***************************************************************************)
\* type_from_form, of a form of as many contents as its kind takes.
RECURSIVE TypeFrom(_)
TypeFrom(f) ==
  LET contents == [k \in DOMAIN f.contents |-> TypeFrom(f.contents[k])]
  IN  CASE IsStringForm(f) -> <<"numpy", "string">>
        [] ~IsStringForm(f) /\ f.kind = "empty"   -> <<"unknown">>
        [] ~IsStringForm(f) /\ f.kind = "numpy"   -> <<"numpy", f.primitive>>
        [] ~IsStringForm(f) /\ f.kind \in {"list", "list_offset"} -> <<"list", contents[1]>>
        [] ~IsStringForm(f) /\ f.kind = "regular" -> <<"regular", contents[1], f.size>>
        [] ~IsStringForm(f) /\ f.kind = "indexed" -> contents[1]
        [] ~IsStringForm(f) /\ f.kind = "record"  -> <<"record", f.fields, contents>>
        [] ~IsStringForm(f) /\ f.kind = "union"   -> <<"union", contents>>
        [] OTHER                                  -> <<"option", contents[1]>>

\* Content::type, which goes by the layout's own form.
TypeOf(l) == <<"array", TypeFrom(FormOf(l, 0)), Length(l)>>
=============================================================================
