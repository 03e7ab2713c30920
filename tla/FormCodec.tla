----------------------------- MODULE FormCodec -----------------------------
(***************************************************************************)
(* The JSON of a form, token by token: append_form_json and FormJsonParser *)
(* of include/awkward/buffers.hpp.  What the parser returns is a value and *)
(* the position behind it, or the exception, as for the binary.            *)
(***************************************************************************)
EXTENDS Buffers, BinaryCodec

-----------------------------------------------------------------------------
(***************************************************************************)
(* append_form_json.  A token is a sequence: what it is, and a text's      *)
(* letters or a number's value.                                            *)
(***************************************************************************)
Text(c)    == <<"text", c>>
Number(i)  == <<"number", i>>
Flag(b)    == <<IF b THEN "true" ELSE "false">>

Sign(c)    == << <<c>> >>

\* Texts, each several tokens, with commas between them.
Commas(texts) ==
  FlattenSeq([k \in DOMAIN texts |-> IF k = 1 THEN texts[k] ELSE Sign(",") \o texts[k]])

Bracketed(texts) == Sign("[") \o Commas(texts) \o Sign("]")
Braced(texts)    == Sign("{") \o Commas(texts) \o Sign("}")

Member(name, text) == <<Text(name)>> \o Sign(":") \o text

RECURSIVE JsonOf(_)
JsonOf(f) ==
  Braced(<<
    Member("schema_version", <<Number(1)>>),
    Member("kind", <<Text(f.kind)>>),
    Member("key", <<Text(f.key)>>),
    Member("primitive", <<Text(f.primitive)>>),
    Member("contents", Bracketed([k \in DOMAIN f.contents |-> JsonOf(f.contents[k])])),
    Member("fields", Bracketed([k \in DOMAIN f.fields |-> <<Text(f.fields[k])>>])),
    Member("is_tuple", <<Flag(f.is_tuple)>>),
    Member("record_name", <<Text(f.record_name)>>),
    Member("length", <<Number(f.length)>>),
    Member("size", <<Number(f.size)>>),
    Member("valid_when", <<Flag(f.valid_when)>>),
    Member("lsb_order", <<Flag(f.lsb_order)>>),
    Member("parameters", Braced([k \in DOMAIN f.parameters |->
                                   Member(f.parameters[k][1], <<Text(f.parameters[k][2])>>)]))>>)

-----------------------------------------------------------------------------
(***************************************************************************)
(* FormJsonParser.  Every refusal is an invalid_argument.                  *)
(***************************************************************************)
Fail == Throw("invalid_argument")

\* The token behind position at is the sign c, or of the kind c.
IsNext(s, at, c) == at < Len(s) /\ s[at + 1][1] = c

\* The members of a form object, and what stands in them.
RequiredMembers == {"schema_version", "kind", "key", "primitive", "contents", "fields", "is_tuple",
                    "record_name", "length", "size", "valid_when", "lsb_order", "parameters"}

Holds(name) ==
  CASE name \in {"schema_version", "length", "size"}     -> "number"
    [] name \in {"kind", "key", "primitive", "record_name"} -> "text"
    [] name \in {"is_tuple", "valid_when", "lsb_order"}  -> "flag"
    [] OTHER                                             -> name

RECURSIVE Parse(_, _, _)

\* Items up to the closing sign, at least one of them.
RECURSIVE ParseItems(_, _, _, _)
ParseItems(s, at, what, close) ==
  LET item == Parse(s, at, what)
      rest == ParseItems(s, item.at + 1, what, close)
  IN  IF ~IsRead(item) THEN item
      ELSE IF IsNext(s, item.at, close) THEN Read(<<item.value>>, item.at + 1)
      ELSE IF ~IsNext(s, item.at, ",") THEN Fail
      ELSE IF IsRead(rest) THEN Read(<<item.value>> \o rest.value, rest.at) ELSE rest

\* parse_strings, parse_contents, parse_parameters, and the loop of parse_form
ParseList(s, at, open, what, close) ==
  IF ~IsNext(s, at, open) THEN Fail
  ELSE IF IsNext(s, at + 1, close) THEN Read(<<>>, at + 2)
  ELSE ParseItems(s, at + 1, what, close)

\* A name, a colon, and what the name calls for.
ParseMember(s, at, parameter) ==
  LET name  == s[at + 1][2]
      value == Parse(s, at + 2, IF parameter THEN "text" ELSE Holds(name))
  IN  IF ~IsNext(s, at, "text") \/ ~IsNext(s, at + 1, ":") THEN Fail
      ELSE IF ~parameter /\ name \notin RequiredMembers THEN Fail
      ELSE IF IsRead(value) THEN Read(<<name, value.value>>, value.at) ELSE value

Names(members) == [k \in DOMAIN members |-> members[k][1]]

ValueOf(members, name) == members[SelectInSeq(members, LAMBDA m : m[1] = name)][2]

\* Mutant: a later member replaces an earlier one of its name.
CompleteUnlessMissing(members) ==
  RequiredMembers \subseteq ToSet(Names(members)) /\ ValueOf(members, "schema_version") = 1

\* What the members of a form object must be together.
Complete(members) ==
  /\ IsInjective(Names(members))
  /\ ToSet(Names(members)) = RequiredMembers
  /\ ValueOf(members, "schema_version") = 1

\* parse_form
ParseForm(s, at) ==
  LET object == ParseList(s, at, "{", "member", "}")
      form   == [name \in RequiredMembers \ {"schema_version"} |-> ValueOf(object.value, name)]
  IN  IF ~IsRead(object) THEN object
      ELSE IF Complete(object.value) /\ form.kind \in FormKinds THEN Read(form, object.at) ELSE Fail

ParseParameters(s, at) ==
  LET object == ParseList(s, at, "{", "parameter", "}")
  IN  IF IsRead(object) /\ ~IsInjective(Names(object.value)) THEN Fail ELSE object

\* One thing of a kind: parse_string, parse_size, parse_bool and the rest.
Parse(s, at, what) ==
  CASE what = "text" ->
         IF IsNext(s, at, "text") THEN Read(s[at + 1][2], at + 1) ELSE Fail
    [] what = "number" ->
         IF IsNext(s, at, "number") /\ s[at + 1][2] \in 0..SizeMax
         THEN Read(s[at + 1][2], at + 1) ELSE Fail
    [] what = "flag" ->
         IF IsNext(s, at, "true") \/ IsNext(s, at, "false")
         THEN Read(IsNext(s, at, "true"), at + 1) ELSE Fail
    [] what = "fields"     -> ParseList(s, at, "[", "text", "]")
    [] what = "contents"   -> ParseList(s, at, "[", "form", "]")
    [] what = "parameters" -> ParseParameters(s, at)
    [] what = "parameter"  -> ParseMember(s, at, TRUE)
    [] what = "member"     -> ParseMember(s, at, FALSE)
    [] what = "form"       -> ParseForm(s, at)

\* form_from_json
FormOfJson(s) ==
  LET form == Parse(s, 0, "form")
  IN  IF IsRead(form) /\ form.at # Len(s) THEN Fail ELSE form
=============================================================================
