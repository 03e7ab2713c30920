--------------------------- MODULE BinaryExchange ---------------------------
(***************************************************************************)
(* A map of buffers on its way from one program to another as binary:      *)
(* written with to_binary, kept or sent, read with buffers_from_binary.    *)
(* The environment cuts the text, repeats, drops or changes a byte of it,  *)
(* or puts entries together in another order or twice.                     *)
(*                                                                         *)
(* The array that the map belongs to goes other ways too; of those this    *)
(* module knows only what they leave alone.                                *)
(***************************************************************************)
EXTENDS BinaryCodec

CONSTANTS
  BytesPut,    \* bytes that come in place of others
  MaxDamages   \* bound: changes of texts

ASSUME BytesPutAssumption == BytesPut \subseteq Byte
ASSUME MaxDamagesAssumption == MaxDamages \in Nat

VARIABLES
  medium,   \* where the array is: in memory, in json or binary, in a form or a map that
            \* was read from them, received, or lost
  buffers,  \* its buffers in memory
  text,     \* the buffers' bytes, or the tokens of its form
  outcome,  \* how reading it ended: ok or the exception
  damages   \* how much was changed on the way (bound)

binaryVars == <<medium, buffers, text, outcome, damages>>

\* Any map of buffers that memory can hold.
BinaryInit ==
  /\ medium = "memory"
  /\ IsBufferMap(buffers)
  /\ text = <<>>
  /\ outcome = "ok"
  /\ damages = 0

\* to_binary, of what was not changed in memory
ToBinary ==
  /\ medium = "memory" /\ damages = 0
  /\ medium' = "binary"
  /\ \E order \in Enumerations(DOMAIN buffers) :
       Ascending(order) /\ text' = BinaryInOrder(buffers, order)
  /\ UNCHANGED <<buffers, outcome, damages>>

\* buffers_from_binary; a text that is not read leaves no map.
FromBinary ==
  LET read == BuffersOfBinary(text)
  IN  /\ medium = "binary"
      /\ IF IsRead(read)
         THEN medium' = "map" /\ buffers' = read.value /\ outcome' = outcome
         ELSE medium' = "lost" /\ buffers' = buffers /\ outcome' = read.is
      /\ UNCHANGED <<text, damages>>

-----------------------------------------------------------------------------
(***************************************************************************)
(* What may happen on the way.                                             *)
(***************************************************************************)
Damaged(limit) == damages < limit /\ damages' = damages + 1

\* What a text can become by one cut, loss, repetition or change.
Damages(s, others) ==
  {SubSeq(s, 1, k - 1) : k \in DOMAIN s}
  \cup {RemoveAt(s, k) : k \in DOMAIN s}
  \cup {InsertAt(s, k, s[k]) : k \in DOMAIN s}
  \cup {ReplaceAt(s, k, t) : k \in DOMAIN s, t \in others}
  \cup {Append(s, t) : t \in others}

DamageBinary ==
  /\ Damaged(MaxDamages)
  /\ medium = "binary"
  /\ text' \in Damages(text, BytesPut)
  /\ UNCHANGED <<medium, buffers, outcome>>

\* The entries come in another order, or one of them comes twice and is counted twice.
RepeatEntry ==
  /\ Damaged(MaxDamages)
  /\ medium = "binary"
  /\ \E order \in Enumerations(DOMAIN buffers), more \in {<<>>} \cup {<<key>> : key \in DOMAIN buffers} :
       text' = BinaryInOrder(buffers, order \o more)
  /\ UNCHANGED <<medium, buffers, outcome>>

\* What else happens to the array: it never makes a text or a map of one, the map that
\* was read is as it was, and one in memory stays one that memory can hold.
Elsewhere ==
  /\ medium # "binary"
  /\ medium' \notin {"binary", "map"}
  /\ outcome' # "undefined"
  /\ IsBufferMap(buffers) => IsBufferMap(buffers')
  /\ damages' \in Nat

BinaryNext == ToBinary \/ FromBinary \/ DamageBinary \/ RepeatEntry \/ Elsewhere

BinarySpec == BinaryInit /\ [][BinaryNext]_binaryVars

-----------------------------------------------------------------------------
(***************************************************************************)
(* Properties.                                                             *)
(***************************************************************************)
\* The reader of the binary never reads behind the last byte, whatever lengths the text
\* announces (buffers.hpp:495).
ReadsStayInside == outcome # "undefined"

\* buffers_from_binary takes a text only if it is the binary of what it returns, its
\* entries in any order: "rejects malformed or trailing input" (README.md:227).
BinarySaysTheBuffers ==
  medium = "map" => \E order \in Enumerations(DOMAIN buffers) : text = BinaryInOrder(buffers, order)
=============================================================================
