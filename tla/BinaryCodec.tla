---------------------------- MODULE BinaryCodec ----------------------------
(***************************************************************************)
(* The binary of a map of buffers, byte by byte: to_binary and             *)
(* buffers_from_binary of include/awkward/buffers.hpp.                     *)
(*                                                                         *)
(* A number of the binary takes WordBytes bytes, the lowest first; so do   *)
(* the version, which has four bytes in the code where a count has eight,  *)
(* and a floating point number, which stands for its bits.                 *)
(***************************************************************************)
EXTENDS BufferMaps, SequencesExt

-----------------------------------------------------------------------------
(***************************************************************************)
(* BufferBinaryWriter and to_binary.                                       *)
(***************************************************************************)
\* unsigned_integer, of an integer by its two's complement
NumberBytes(i) ==
  [k \in 1..WordBytes |-> ((i % Word) \div PlaceValue[k-1]) % ByteSize]

LetterByte(c) == CHOOSE b \in Byte : Letters[b + 1] = c

TextBytes(name) == NumberBytes(Len(name)) \o [k \in DOMAIN name |-> LetterByte(name[k])]

Magic == <<1, 2, 3, 4>>

\* The bytes of one element.
ElementBytes(type, v) ==
  CASE type \in {"bool", "uint8"} -> <<v>>
    [] type = "string"            -> NumberBytes(Len(v)) \o v
    [] OTHER                      -> NumberBytes(v)

\* index(), of the alternative
Tag(type) == CHOOSE t \in 0..6 : BufferTypes[t + 1] = type

\* write_buffer
BufferBytes(b) ==
  <<Tag(b.type)>> \o NumberBytes(Len(b.values))
    \o FlattenSeq([k \in DOMAIN b.values |-> ElementBytes(b.type, b.values[k])])

EntryBytes(key, b) == TextBytes(key) \o BufferBytes(b)

\* to_binary, for a map whose keys are met in the given order
BinaryInOrder(bs, order) ==
  Magic \o NumberBytes(1) \o NumberBytes(Len(order))
    \o FlattenSeq([n \in DOMAIN order |-> EntryBytes(order[n], bs[order[n]])])

\* The orders in which the members of a set can be met.
Enumerations(S) ==
  {order \in [1..Cardinality(S) -> S] : \A x \in S : \E n \in DOMAIN order : order[n] = x}

\* The order of std::map: that of std::string, byte by byte.
Before(a, b) ==
  \E n \in DOMAIN b :
    /\ n <= Len(a) + 1
    /\ \A j \in 1..(n - 1) : a[j] = b[j]
    /\ n <= Len(a) => LetterByte(a[n]) < LetterByte(b[n])

Ascending(order) == \A m, n \in DOMAIN order : m < n => Before(order[m], order[n])

-----------------------------------------------------------------------------
(***************************************************************************)
(* BufferBinaryReader and buffers_from_binary.  What is read is a value    *)
(* and the position behind it, or the exception thrown.  A loop is a       *)
(* recursive function: its value at k is what k rounds have read.          *)
(***************************************************************************)
Read(v, at)  == [is |-> "ok", value |-> v, at |-> at]
Throw(e)     == [is |-> e]
IsRead(r)    == r.is = "ok"

\* Mutant: the sum of position and count wraps.
HasBytesWrapped(s, at, count) == (at + count) % Word <= Len(s)

\* require; at bytes are behind the reader.
HasBytes(s, at, count) == count <= Len(s) - at

\* The next count bytes, read without looking: those past the end are anyone's.
Undefined == Throw("undefined")
Taken(s, at, count) == IF at + count <= Len(s) THEN Read(SubSeq(s, at + 1, at + count), at + count) ELSE Undefined

\* byte(), unsigned_integer(), string() and their elements: count bytes, checked
ReadBytes(s, at, count) ==
  IF HasBytes(s, at, count) THEN Taken(s, at, count) ELSE Throw("invalid_argument")

\* Mutant: the highest byte first.
NumberOfBytesReversed(b) ==
  LET sum[k \in 0..Len(b)] == IF k = 0 THEN 0 ELSE sum[k-1] + b[Len(b) + 1 - k] * PlaceValue[k-1]
  IN  sum[Len(b)]

\* The bytes from the lowest on, each shifted to its place.
NumberOfBytes(b) ==
  LET sum[k \in 0..Len(b)] == IF k = 0 THEN 0 ELSE sum[k-1] + b[k] * PlaceValue[k-1]
  IN  sum[Len(b)]

\* What goes on with a value read; an exception ends it.
Then(r, Go(_, _)) == IF IsRead(r) THEN Go(r.value, r.at) ELSE r

ReadNumber(s, at) ==
  Then(ReadBytes(s, at, WordBytes), LAMBDA b, next : Read(NumberOfBytes(b), next))

ReadString(s, at) ==
  Then(ReadNumber(s, at), LAMBDA size, next : ReadBytes(s, next, size))

\* bit_cast of a number read.
Signed(i) == IF 2 * i >= Word THEN i - Word ELSE i

\* One element: the bytes of a bool are zero and one.
ReadElement(s, at, type) ==
  CASE type = "string" -> ReadString(s, at)
    [] type \in {"bool", "uint8"} ->
         Then(ReadBytes(s, at, 1), LAMBDA b, next :
           IF type = "bool" /\ b[1] > 1 THEN Throw("invalid_argument") ELSE Read(b[1], next))
    [] OTHER ->
         Then(ReadNumber(s, at), LAMBDA i, next : Read(IF type = "int64" THEN Signed(i) ELSE i, next))

\* One element more than those read before.
OneMoreElement(s, sofar, type) ==
  Then(sofar, LAMBDA vs, next :
    Then(ReadElement(s, next, type), LAMBDA v, end : Read(Append(vs, v), end)))

ReadElements(s, at, type, count) ==
  LET after[k \in 0..count] ==
        IF k = 0 THEN Read(<<>>, at) ELSE OneMoreElement(s, after[k-1], type)
  IN  after[count]

\* The rest of read_buffer: room is made before the first element is read.
ReadValues(s, at, tag, count) ==
  LET type == BufferTypes[tag + 1]
  IN  IF tag >= Len(BufferTypes) THEN Throw("invalid_argument")
      ELSE IF count > Capacity(type) THEN Throw("length_error")
      ELSE Then(ReadElements(s, at, type, count), LAMBDA values, next : Read(BufferOf(type, values), next))

\* read_buffer, read_numeric_vector
ReadBuffer(s, at) ==
  Then(ReadBytes(s, at, 1), LAMBDA tag, start :
    Then(ReadNumber(s, start), LAMBDA count, next : ReadValues(s, next, tag[1], count)))

NameOf(bytes) == [k \in DOMAIN bytes |-> Letters[bytes[k] + 1]]

\* emplace, of a key that is not there
WithEntry(bs, key, buffer) ==
  [k \in DOMAIN bs \cup {key} |-> IF k = key THEN buffer ELSE bs[k]]

NoBuffers == [k \in {} |-> 0]

\* One entry more than those read before.
OneMoreEntry(s, sofar) ==
  Then(sofar, LAMBDA bs, at :
    Then(ReadString(s, at), LAMBDA name, start :
      Then(ReadBuffer(s, start), LAMBDA buffer, next :
        IF NameOf(name) \in DOMAIN bs THEN Throw("invalid_argument")
        ELSE Read(WithEntry(bs, NameOf(name), buffer), next))))

\* The loop over count entries.
ReadEntries(s, at, count) ==
  LET after[k \in 0..count] ==
        IF k = 0 THEN Read(NoBuffers, at) ELSE OneMoreEntry(s, after[k-1])
  IN  after[count]

\* The version and the entries.
ReadHeader(s) ==
  IF ~HasBytes(s, 0, Len(Magic)) \/ ~IsPrefix(Magic, s) THEN Throw("invalid_argument")
  ELSE Then(ReadNumber(s, Len(Magic)), LAMBDA version, start :
         IF version # 1 THEN Throw("invalid_argument")
         ELSE Then(ReadNumber(s, start), LAMBDA count, next : ReadEntries(s, next, count)))

\* Mutant: what follows the last entry is left alone.
BuffersOfUnclosed(s) == ReadHeader(s)

\* buffers_from_binary
BuffersOfBinary(s) ==
  Then(ReadHeader(s), LAMBDA bs, end : IF end # Len(s) THEN Throw("invalid_argument") ELSE Read(bs, end))
=============================================================================
