--------------------------- MODULE BufferExchange ---------------------------
(***************************************************************************)
(* An array on its way from one program to another: taken apart with       *)
(* to_buffers, its form written as JSON and its buffers as binary, kept or *)
(* sent, read and put together with from_buffers.                          *)
(*                                                                         *)
(* On the way anything may happen to the texts: the environment cuts,      *)
(* repeats, drops or changes a byte or a token.  The receiver may have     *)
(* made the form and the buffers himself, so members of forms and numbers  *)
(* in buffers change too, and he asks for any length.                      *)
(***************************************************************************)
EXTENDS FormCodec, BinaryExchange

CONSTANTS
  Arrays,        \* the layouts that are sent
  Fragile,       \* those of them whose JSON is damaged
  Handmade,      \* forms with their buffers that no layout made
  Tokens,        \* tokens that come in place of others
  FormEdits,     \* changes of a form's node: a member and its new value
  NumbersPut,    \* numbers that come in place of others in a buffer
  MaxEdits       \* bound: changes of texts, forms and buffers

ASSUME MaxEditsAssumption == MaxEdits \in Nat
ASSUME SizesAssumption    == ByteSize = 2^ByteBits /\ SizeMax = Word - 1

VARIABLES
  sent,     \* the layout sent
  form,     \* its form in memory
  layout,   \* the layout received
  asked     \* the length asked of from_buffers (history)

arrayVars == <<sent, form, layout, asked>>
vars      == <<binaryVars, arrayVars>>

Nowhere == [class |-> "none"]

\* Every kind of array, packed by to_buffers or as it stands.
Init ==
  /\ \/ /\ sent \in Arrays \cup {Packed(l) : l \in Arrays}
        /\ form = FormOf(sent, 0)
        /\ buffers = BuffersOf(sent, 0)
     \/ \E h \in Handmade :
          /\ sent = ContentFrom(h.form, h.form.length, h.buffers)
          /\ form = h.form
          /\ buffers = h.buffers
  /\ medium = "memory"
  /\ text = <<>>
  /\ layout = Nowhere
  /\ outcome = "ok"
  /\ asked = 0
  /\ damages = 0

-----------------------------------------------------------------------------
\* to_json, of what was not changed in memory
ToJson ==
  /\ medium = "memory" /\ damages = 0
  /\ medium' = "json" /\ text' = JsonOf(form)
  /\ UNCHANGED <<arrayVars, buffers, outcome, damages>>

\* form_from_json; a form that is not read leaves none.
FromJson ==
  LET read == FormOfJson(text)
  IN  /\ medium = "json"
      /\ IF IsRead(read)
         THEN medium' = "form" /\ form' = read.value /\ outcome' = outcome
         ELSE medium' = "lost" /\ form' = form /\ outcome' = read.is
      /\ UNCHANGED <<sent, buffers, text, layout, asked, damages>>

\* from_buffers, of the length the form has or of another
FromBuffers(n) ==
  LET read == ContentFrom(form, n, buffers)
  IN  /\ medium \in {"memory", "form", "map"}
      /\ asked' = n
      /\ IF IsError(read)
         THEN medium' = "lost" /\ layout' = layout /\ outcome' = read.is
         ELSE medium' = "received" /\ layout' = read /\ outcome' = outcome
      /\ UNCHANGED <<sent, form, buffers, text, damages>>

-----------------------------------------------------------------------------
(***************************************************************************)
(* What may happen on the way.                                             *)
(***************************************************************************)
DamageJson ==
  /\ Damaged(MaxDamages)
  /\ medium = "json" /\ sent \in Fragile
  /\ text' \in Damages(text, Tokens)
  /\ UNCHANGED <<arrayVars, medium, buffers, outcome>>

\* A member of an object, with its comma, comes twice.
RepeatMember ==
  /\ Damaged(MaxDamages)
  /\ medium = "json" /\ sent \in Fragile
  /\ \E k \in 1..(Len(text) - 3) :
       text' = SubSeq(text, 1, k + 3) \o SubSeq(text, k, Len(text))
  /\ UNCHANGED <<arrayVars, medium, buffers, outcome>>

Edited(f, edit) == [f EXCEPT ![edit.member] = edit.value]

\* A member of the form, or of its first content, is another.
EditForm(edit) ==
  /\ Damaged(MaxEdits)
  /\ medium = "memory"
  /\ \/ form' = Edited(form, edit)
     \/ form.contents # <<>> /\ form' = [form EXCEPT !.contents[1] = Edited(@, edit)]
  /\ UNCHANGED <<medium, buffers, text, outcome, sent, layout, asked>>

\* A buffer is missing, shorter, longer, of another type or has another number in it.
EditBuffer(key) ==
  /\ Damaged(MaxEdits)
  /\ medium = "memory"
  /\ \/ buffers' = [k \in DOMAIN buffers \ {key} |-> buffers[k]]
     \/ /\ buffers[key].type # "string"
        /\ \A k \in DOMAIN buffers[key].values : buffers[key].values[k] \in Byte
        /\ buffers' = [buffers EXCEPT ![key].type = "uint8"]
     \/ /\ buffers[key].values # <<>>
        /\ \/ buffers' = [buffers EXCEPT ![key].values = Front(@)]
           \/ buffers' = [buffers EXCEPT ![key].values = Append(@, Last(@))]
           \/ \E k \in DOMAIN buffers[key].values, i \in NumbersPut :
                /\ buffers[key].type # "string" /\ i \in Elements(buffers[key].type)
                /\ buffers' = [buffers EXCEPT ![key].values[k] = i]
  /\ UNCHANGED <<arrayVars, medium, text, outcome>>

Lengths == {form.length} \cup {edit.value : edit \in {x \in FormEdits : x.member = "length"}}

Next ==
  \/ ToBinary /\ UNCHANGED arrayVars
  \/ FromBinary /\ UNCHANGED arrayVars
  \/ DamageBinary /\ UNCHANGED arrayVars
  \/ RepeatEntry /\ UNCHANGED arrayVars
  \/ ToJson \/ FromJson \/ DamageJson \/ RepeatMember
  \/ \E n \in Lengths : FromBuffers(n)
  \/ \E edit \in FormEdits : EditForm(edit)
  \/ \E key \in DOMAIN buffers : EditBuffer(key)

Spec == Init /\ [][Next]_vars

-----------------------------------------------------------------------------
(***************************************************************************)
(* Properties.                                                             *)
(***************************************************************************)
\* Every position that a node of l refers to is in its content; a negative index of an
\* option is None and refers to nothing.
RECURSIVE InBounds(_)
InBounds(l) ==
  LET below(p, c) == \A k \in DOMAIN p : p[k] < Length(c)
      inside(p, c) == below(p, c) /\ \A k \in DOMAIN p : p[k] >= 0
      size(k) == Length(l.contents[l.tags[k] + 1])
  IN  /\ \A k \in DOMAIN Children(l) : InBounds(Children(l)[k])
      /\ l.class \in ListClasses => \A k \in DOMAIN Rows(l) : inside(Rows(l)[k], l.content)
      /\ l.class = "indexed" => inside(l.index, l.content)
      /\ l.class = "indexed_option" => below(l.index, l.content)
      /\ l.class \in {"byte_masked", "bit_masked", "unmasked"} => Length(l) <= Length(l.content)
      /\ l.class = "record" => \A k \in DOMAIN l.contents : Length(l.contents[k]) = Length(l)
      /\ l.class = "union" => \A k \in DOMAIN l.tags : l.index[k] >= 0 /\ l.index[k] < size(k)

\* Types.  No array is received whose rows, entries or fields lie outside of its contents,
\* whatever lengths and sizes the form and the caller give, although content_from_buffers
\* computes with sums and products that wrap (operations.hpp:2229, 2269).
TypeOK ==
  /\ medium \in {"memory", "json", "binary", "form", "map", "received", "lost"}
  /\ damages \in 0..Max({MaxDamages, MaxEdits})
  /\ IsBufferMap(buffers)
  /\ medium = "received" => InBounds(layout)

\* What was not changed on the way comes back: the values, the type, the form and the
\* buffers, by every way, and it is refused only when another length is asked for.
ComesBack ==
  damages = 0 =>
    /\ medium = "lost" => asked # form.length
    /\ medium = "received" =>
         /\ ToList(layout) = ToList(sent)
         /\ TypeOf(layout) = TypeOf(sent)
         /\ form = FormOf(sent, 0) => BuffersOf(layout, 0) = buffers /\ FormOf(layout, 0) = form

Times(t, s) == Cardinality({k \in DOMAIN s : s[k] = t})
SameTokens(s, r) == Len(s) = Len(r) /\ \A k \in DOMAIN s : Times(s[k], s) = Times(s[k], r)

\* form_from_json takes a text only if it is the JSON of what it returns, members in any
\* order: "rejects missing, duplicate, and unknown members" (README.md:225).
JsonSaysTheForm == medium = "form" => SameTokens(text, JsonOf(form))

\* The unsigned types of a form under the one name they have in a layout's own.
RECURSIVE Widened(_)
Widened(f) ==
  [f EXCEPT !.primitive = PrimitiveName(@), !.contents = [k \in DOMAIN @ |-> Widened(@[k])]]

\* The string parameter stands only where from_buffers looks for it.
RECURSIVE IsPlain(_)
IsPlain(f) ==
  /\ IsStringForm(f) => f.kind = "list_offset"
  /\ \A k \in DOMAIN f.contents : IsPlain(f.contents[k])

\* What from_buffers accepts has the length that the form says and the caller asks for,
\* and the type of the form, however form and buffers were changed.
FormDecides ==
  medium = "received" =>
    /\ Length(layout) = asked /\ form.length = asked
    /\ IsPlain(form) => TypeFrom(FormOf(layout, 0)) = TypeFrom(Widened(form))
=============================================================================
