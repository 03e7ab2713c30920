-------------------------- MODULE MCBufferExchange --------------------------
(***************************************************************************)
(* Instances of the buffer exchange for TLC: bytes of four bits, numbers   *)
(* of two bytes.                                                           *)
(***************************************************************************)
EXTENDS BufferExchange

MCNodes   == <<"node0", "node1", "node2", "node3", "node4", "node5", "node6">>
MCLetters == MCNodes \o <<"-data", "-index", "-mask", "-offsets", "-starts", "-stops", "-tags", "x", "y">>

Whole(s)  == NumpyArray(s, "int64")
Ragged    == ListOffsetArray(Whole(<<3, -1, 2>>), <<0, 2, 2, 3>>, TRUE)
Strings   == StringArray(<< <<1, 2>>, <<>>, <<7>> >>)

MCArrays ==
  {NumpyArray(<<1, 0>>, "bool"), NumpyArray(<<255>>, "uint64"), NumpyArray(<<>>, "float32"),
   ListOffsetArray(NumpyArray(<<200, 1>>, "float64"), <<0, 0, 2>>, TRUE),
   Ragged, Strings, [class |-> "empty"],
   ListOffsetArray([class |-> "empty"], <<0, 0>>, FALSE),
   RegularArray(Whole(<<1, 2, 3, 4>>), 2, 2, TRUE),
   RegularArray(Whole(<<>>), 0, 3, TRUE),
   RegularArray(NumpyArray(<< <<1>>, <<>> >>, "string"), 1, 2, TRUE),
   ListArray(<<2, 0>>, <<4, 1>>, Whole(<<5, 6, 7, 8>>)),
   IndexedArray(<<2, 0, 2>>, Ragged),
   ListOffsetArray(IndexedOptionArray(<<1, -1, 0>>, Whole(<<4, 5>>)), <<0, 1, 3>>, FALSE),
   Made([class |-> "byte_masked", mask |-> <<1, 0, 2>>, valid_when |-> FALSE, content |-> Strings]),
   Made([class |-> "bit_masked", mask |-> <<5, 1>>, length |-> 3, valid_when |-> TRUE,
         lsb_order |-> FALSE, content |-> Whole(<<7, 8, 9, 10>>)]),
   Made([class |-> "unmasked", content |-> Whole(<<1, 2>>)]),
   RecordArray(<<"x", "y">>, <<Whole(<<1, 2, 3>>), Ragged>>, 3),
   UnionArray(<<0, 1, 0>>, <<1, 0, 0>>, <<Whole(<<6, 7>>), Strings>>)}

MCFragile == {NumpyArray(<<1, 0>>, "bool"), Strings, RecordArray(<<"x", "y">>, <<Whole(<<1, 2, 3>>), Ragged>>, 3)}

\* Alternatives of Buffer that no layout's form names.
MCHandmade ==
  {[form |-> [Form("numpy", "node0", 2) EXCEPT !.primitive = "string"],
    buffers |-> [key \in {<<"node0", "-data">>} |-> BufferOf("string", << <<3>>, <<>> >>)]],
   [form |-> [Form("numpy", "node0", 2) EXCEPT !.primitive = "uint8"],
    buffers |-> [key \in {<<"node0", "-data">>} |-> BufferOf("uint8", <<9, 0>>)]]}

MCBytesPut  == {0, 1, 6, 7, 15}
MCTokens    ==
  {<<"{">>, <<"}">>, <<"[">>, <<"]">>, <<",">>, <<"true">>, <<"false">>, Number(-1), Number(0), Number(1), Number(2),
   Number(Word), Text("key"), Text("length"), Text("node0"), Text("string"), Text("list_offset"), Text("unmasked")}
MCFormEdits ==
  {[member |-> "length", value |-> n] : n \in {0, 1, 2, 3, 64, 128, 255}}
  \cup {[member |-> "size", value |-> n] : n \in {0, 1, 2, 4, 128}}
  \cup {[member |-> "kind", value |-> kind] : kind \in FormKinds}
  \cup {[member |-> "primitive", value |-> p] : p \in {"int64", "uint8", "string", "int32"}}
  \cup {[member |-> "key", value |-> "node1"], [member |-> "valid_when", value |-> TRUE],
        [member |-> "contents", value |-> <<>>], [member |-> "fields", value |-> <<"x">>],
        [member |-> "parameters", value |-> << <<"__array__", "string">> >>]}
MCNumbersPut == {-1, 0, 2, 127}
=============================================================================
