----------------------------- MODULE BufferMaps -----------------------------
(***************************************************************************)
(* Buffer and BufferMap of include/awkward/buffers.hpp: what a map of      *)
(* buffers is, and which of them memory can hold.                          *)
(*                                                                         *)
(* A string value is the sequence of its bytes, a number the integer its   *)
(* bits make, so a floating point number is the unsigned number of its     *)
(* bits.  A key is a sequence of letters; several characters of a name are *)
(* one letter.                                                             *)
(***************************************************************************)
EXTENDS Integers, Sequences, FiniteSets

CONSTANTS
  ByteSize,   \* the values of a byte, 256 in the code
  WordBytes,  \* the bytes of a number, eight in the code
  Letters     \* the letter that each byte stands for, in their order

Byte   == 0..(ByteSize - 1)
Letter == {Letters[k] : k \in DOMAIN Letters}

ASSUME ByteSizeAssumption  == ByteSize \in Nat /\ ByteSize > 6
ASSUME WordBytesAssumption == WordBytes \in Nat \ {0}
ASSUME LettersAssumption   ==
  DOMAIN Letters = 1..ByteSize /\ \A j, k \in 1..ByteSize : Letters[j] = Letters[k] => j = k

\* What the k-th byte of a number counts, and the numbers that there are.
PlaceValue[k \in 0..WordBytes] == IF k = 0 THEN 1 ELSE ByteSize * PlaceValue[k-1]
Word == PlaceValue[WordBytes]

\* The alternatives of Buffer, in their order.
BufferTypes == <<"bool", "uint8", "int64", "uint64", "float32", "float64", "string">>

BufferOf(type, values) == [type |-> type, values |-> values]

\* The elements of a vector; those of vector<bool> are zero and one.
Elements(type) ==
  CASE type = "bool"   -> {0, 1}
    [] type = "uint8"  -> Byte
    [] type = "int64"  -> {i \in Int : -Word <= 2 * i /\ 2 * i < Word}
    [] type = "string" -> {v \in Seq(Byte) : Len(v) < Word}
    [] OTHER           -> 0..(Word - 1)

\* max_size() of the vector, in elements; a string takes four words.
Capacity(type) ==
  LET size == CASE type \in {"bool", "uint8"} -> 1 [] type = "string" -> 4 * WordBytes [] OTHER -> WordBytes
  IN  (Word \div 2 - 1) \div size

IsBuffer(b) ==
  /\ b = BufferOf(b.type, b.values)
  /\ \E t \in DOMAIN BufferTypes : b.type = BufferTypes[t]
  /\ b.values \in Seq(Elements(b.type))
  /\ Len(b.values) <= Capacity(b.type)

IsBufferMap(bs) ==
  /\ bs = [key \in DOMAIN bs |-> bs[key]]
  /\ IsFiniteSet(DOMAIN bs) /\ Cardinality(DOMAIN bs) < Word
  /\ \A key \in DOMAIN bs : key \in Seq(Letter) /\ Len(key) < Word /\ IsBuffer(bs[key])
=============================================================================
