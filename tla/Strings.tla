------------------------------ MODULE Strings ------------------------------
(***************************************************************************)
(* ak::str, include/awkward/strings.hpp: predicates, case, pieces.  Each   *)
(* function walks through the lists and records of an array's values and   *)
(* asks or changes the strings there, byte by byte.                        *)
(*                                                                         *)
(* One byte stands for each class that the code tells apart, in the order  *)
(* of ASCII.                                                               *)
(***************************************************************************)
EXTENDS FromValues

CONSTANT MaxText   \* the bytes a string can hold

ASSUME MaxTextAssumption == MaxText \in Nat

Tab   == 1
Space == 2
Comma == 3
Digit == 4
Upper == 5
Lower == 6
Wide  == 7   \* not ASCII

Letters == {Upper, Lower}

\* A string's bytes as the digits of its place in the alphabetical order, and back.
Text(s) == String(FoldLeft(LAMBDA n, c : 8 * n + c, 0, s) * 8^(MaxText - Len(s)))

Bytes(v) ==
  SelectSeq([k \in 1..MaxText |-> (v.scalar.n \div 8^(MaxText - k)) % 8], LAMBDA c : c # 0)

-----------------------------------------------------------------------------
(***************************************************************************)
(* Strings.                                                                *)
(***************************************************************************)
ToLower(c) == IF c = Upper THEN Lower ELSE c
ToUpper(c) == IF c = Lower THEN Upper ELSE c

StartsWord(s, k) == k = 1 \/ s[k-1] \notin Letters

Holds(name, s) ==
  LET used == ToSet(s)
  IN  CASE name = "is_alpha"     -> s # <<>> /\ used \subseteq Letters
        [] name = "is_alnum"     -> s # <<>> /\ used \subseteq Letters \cup {Digit}
        [] name \in {"is_decimal", "is_digit", "is_numeric"} -> s # <<>> /\ used \subseteq {Digit}
        [] name = "is_space"     -> s # <<>> /\ used \subseteq {Tab, Space}
        [] name = "is_ascii"     -> Wide \notin used
        [] name = "is_printable" -> used \cap {Tab, Wide} = {}
        [] name = "is_lower"     -> used \cap {Upper, Wide} = {} /\ Lower \in used
        [] name = "is_upper"     -> used \cap {Lower, Wide} = {} /\ Upper \in used
        [] name = "is_title"     ->
             /\ Wide \notin used
             /\ used \cap Letters # {}
             /\ \A k \in DOMAIN s : s[k] \in Letters => (StartsWord(s, k) <=> s[k] = Upper)

Predicates == {"is_alpha", "is_alnum", "is_decimal", "is_digit", "is_numeric", "is_space",
               "is_ascii", "is_printable", "is_lower", "is_upper", "is_title"}

Changed(name, s) ==
  CASE name = "lower"      -> [k \in DOMAIN s |-> ToLower(s[k])]
    [] name = "upper"      -> [k \in DOMAIN s |-> ToUpper(s[k])]
    [] name = "capitalize" -> [k \in DOMAIN s |-> IF k = 1 THEN ToUpper(s[k]) ELSE ToLower(s[k])]
    [] name = "title"      -> [k \in DOMAIN s |-> IF StartsWord(s, k) THEN ToUpper(s[k]) ELSE ToLower(s[k])]
    [] name = "reverse"    -> Reverse(s)

Transforms == {"lower", "upper", "capitalize", "title", "reverse"}

\* The places at which a pattern stands in a string.
Found(s, pattern) ==
  {k \in 1..(Len(s) - Len(pattern) + 1) : SubSeq(s, k, k + Len(pattern) - 1) = pattern}

\* The pieces of a string: max is a set of one, or empty for as many as there are.
RECURSIVE Pieces(_, _, _)
Pieces(s, pattern, max) ==
  IF max = {0} \/ Found(s, pattern) = {} THEN <<s>>
  ELSE LET at == Min(Found(s, pattern))
       IN  <<SubSeq(s, 1, at - 1)>>
             \o Pieces(SubSeq(s, at + Len(pattern), Len(s)), pattern, {n - 1 : n \in max})

OnText(v, ask) ==
  LET s == Bytes(v)
  IN  CASE ask.name \in Predicates  -> Truth(Holds(ask.name, s))
        [] ask.name \in Transforms  -> Text(Changed(ask.name, s))
        [] ask.name = "contains"    -> Truth(Found(s, ask.pattern) # {})
        [] ask.name = "starts_with" -> Truth(IsPrefix(ask.pattern, s))
        [] ask.name = "ends_with"   -> Truth(IsSuffix(ask.pattern, s))
        [] ask.name = "slice"       ->
             IF Refusal(ask.slice, Len(s)) # "ok" THEN Failure(Refusal(ask.slice, Len(s)))
             ELSE Text([k \in DOMAIN Positions(ask.slice, Len(s)) |-> s[Positions(ask.slice, Len(s))[k] + 1]])
        [] ask.name = "split_pattern" ->
             List([k \in DOMAIN Pieces(s, ask.pattern, ask.max) |-> Text(Pieces(s, ask.pattern, ask.max)[k])])

-----------------------------------------------------------------------------
(***************************************************************************)
(* Values.                                                                 *)
(***************************************************************************)
RECURSIVE MapStrings(_, _)
MapStrings(v, ask) ==
  IF IsNone(v) THEN None
  ELSE IF IsString(v) THEN OnText(v, ask)
  ELSE IF IsList(v) THEN Listed([k \in DOMAIN v.list |-> MapStrings(v.list[k], ask)])
  ELSE IF IsRecord(v) THEN Columns(v.fields, [k \in DOMAIN v.values |-> MapStrings(v.values[k], ask)])
  ELSE Invalid

\* join_strings
Joined(strings, separator) ==
  LET joined == FlattenSeq([k \in DOMAIN strings |->
                  (IF k = 1 THEN <<>> ELSE separator) \o Bytes(strings[k])])
  IN  IF Len(joined) > MaxText THEN Failure("length_error") ELSE Text(joined)

\* join_value: a list of nothing but strings, an empty one too, becomes a string.
RECURSIVE JoinValue(_, _)
JoinValue(v, separator) ==
  IF IsNone(v) THEN None
  ELSE IF IsRecord(v)
  THEN Columns(v.fields, [k \in DOMAIN v.values |-> JoinValue(v.values[k], separator)])
  ELSE IF ~IsList(v) THEN Invalid
  ELSE IF \A k \in DOMAIN v.list : IsNone(v.list[k]) \/ IsString(v.list[k])
  THEN IF \E k \in DOMAIN v.list : IsNone(v.list[k]) THEN None ELSE Joined(v.list, separator)
  ELSE Listed([k \in DOMAIN v.list |-> JoinValue(v.list[k], separator)])

\* The lists of the array itself are joined, never the array.
JoinRowsOf(v, separator) == Listed([k \in DOMAIN v.list |-> JoinValue(v.list[k], separator)])
=============================================================================
