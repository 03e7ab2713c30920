----------------------- MODULE ArrayBuilderRefinement -----------------------
(***************************************************************************)
(* ArrayBuilder implements BuilderDocument.                                *)
(*                                                                         *)
(* The document of a builder state is read off its finished values and its *)
(* stack: an open container stands in the slot that the container around   *)
(* it holds for it, and the outermost one is the list of finished values.  *)
(***************************************************************************)
EXTENDS ArrayBuilder, FiniteSets

Position(k)    == [pos |-> k, name |-> None]
Named(k, name) == [pos |-> k, name |-> Some(name)]
Filled(s, v)   == [slot |-> s, value |-> v]

LabelOf(v) ==
  CASE v.kind = "scalar" -> [kind |-> "scalar", scalar |-> v.scalar]
    [] v.kind = "tuple"  -> [kind |-> "tuple", size |-> Cardinality(DOMAIN v.values)]
    [] OTHER             -> [kind |-> v.kind]

\* The slots of a value, with what is in them.
Slots(v) ==
  CASE v.kind = "scalar" -> {}
    [] v.kind = "record" -> {Filled(Named(i, v.fields[i]), v.values[i]) : i \in DOMAIN v.values}
    [] OTHER             -> {Filled(Position(i), v.values[i]) : i \in DOMAIN v.values}

(***************************************************************************)
(* A place is a value with its address and the name it has there.  What is *)
(* inside a value is found level by level.  No value is inside more than   *)
(* MaxValues containers and the builder, so no address is longer than      *)
(* MaxDepth.                                                               *)
(***************************************************************************)
Place(a, s) == [at |-> Append(a, s.slot.pos), name |-> s.slot.name, value |-> s.value]
Parts(p)    == {Place(p.at, s) : s \in Slots(p.value)}
CellAt(p)   == [at |-> p.at, name |-> p.name, is |-> LabelOf(p.value)]

MaxDepth == MaxValues + 1

\* p and the places at most n levels inside it.
Inside(p) ==
  LET inside[n \in 0..MaxDepth] ==
        IF n = 0 THEN {p} ELSE {p} \cup UNION {Parts(q) : q \in inside[n-1]}
  IN  inside

CellsOf(p) == {CellAt(q) : q \in Inside(p)[MaxDepth - Len(p.at)]}

(***************************************************************************)
(* The containers that are open, from the outermost one at 0.              *)
(***************************************************************************)
StackOf(vs, st) == [k \in 0..Len(st) |-> IF k = 0 THEN ListContext(vs) ELSE st[k]]

ContextLabel(c) ==
  IF c.kind = "tuple" THEN [kind |-> "tuple", size |-> c.size] ELSE [kind |-> c.kind]

\* The slots of an open container that are filled.
OpenSlots(c) ==
  IF c.kind = "tuple"
  THEN {Filled(Position(i), Get(c.values[i])) : i \in {j \in DOMAIN c.values : HasValue(c.values[j])}}
  ELSE Slots(c)

\* The slot a context holds for its next value, as an option.
ReservedSlot(c) ==
  CASE c.kind = "list"   -> Some(Position(Len(c.values) + 1))
    [] c.kind = "tuple"  -> IF HasValue(c.selected) THEN Some(Position(Get(c.selected))) ELSE None
    [] c.kind = "record" -> IF HasValue(c.pending_field)
                            THEN Some(Named(Len(c.values) + 1, Get(c.pending_field)))
                            ELSE None

Address(st, k) == [j \in 1..k |-> Get(ReservedSlot(st[j-1])).pos]
NameAt(st, k)  == IF k = 0 THEN None ELSE Get(ReservedSlot(st[k-1])).name

OpenCell(st, k)   == [at |-> Address(st, k), name |-> NameAt(st, k), is |-> ContextLabel(st[k])]
OpenPlaces(st, k) == {Place(Address(st, k), s) : s \in OpenSlots(st[k])}

CellsAt(st, k) == {OpenCell(st, k)} \cup UNION {CellsOf(p) : p \in OpenPlaces(st, k)}
CellsIn(st)    == UNION {CellsAt(st, k) : k \in DOMAIN st}

-----------------------------------------------------------------------------
Stack == StackOf(values, contexts)
Cells == CellsIn(Stack)

Cursor == Address(Stack, Len(contexts))

ChosenSlot ==
  LET top == Stack[Len(contexts)]
  IN  IF top.kind = "list" THEN None ELSE ReservedSlot(top)

Document == INSTANCE BuilderDocument
              WITH cells <- Cells, cursor <- Cursor, slot <- ChosenSlot

\* Every accepted call writes exactly what it says at the place it was begun,
\* and every refused call writes nothing: the document only grows, and the late
\* delivery of a closed container never shows (builder.hpp:45-134, 187-206).
ImplementsDocument == Document!Spec

-----------------------------------------------------------------------------
\* How many of the values and containers added so far the builder still holds.
Held == Cardinality({c.at : c \in Cells}) - 1

\* Nothing is ever held twice, and what the builder was given goes missing only
\* in a call that reports bad_alloc: no refused or successful call drops a
\* value (builder.hpp:50-55, 87-97, 128-133, 187-206).
LossIsReported ==
  [][/\ Held' <= appended'
     /\ appended' - Held' > appended - Held => outcome' = "bad_alloc"]_vars
=============================================================================
