-------------------- MODULE ArrayBuilderRefinementProofs --------------------
(***************************************************************************)
(* ArrayBuilder implements BuilderDocument, and holds what it was given,   *)
(* for every set of values and names and every nesting.                    *)
(***************************************************************************)
EXTENDS ArrayBuilderRefinement, ArrayBuilderProofs, Loops

(***************************************************************************)
(* What is inside a place.  Inside is a recursion over values that have no *)
(* common type, so that it has a function is shown here, level by level.   *)
(***************************************************************************)
\* One level more.
Deeper(p, places) == {p} \cup UNION {Parts(q) : q \in places}

\* f has the places within p up to m levels deep.
IsInside(f, p, m) == f = [n \in 0..m |-> IF n = 0 THEN {p} ELSE Deeper(p, f[n-1])]

LEMMA MaxDepthIsNat == MaxDepth \in Nat \ {0}
BY MaxValuesAssumption DEF MaxDepth

LEMMA InsideExists ==
  ASSUME NEW p, NEW m \in Nat
  PROVE  \E f : IsInside(f, p, m)
<1> DEFINE T == {n \in 0..m : \E f : IsInside(f, p, n)}
<1>1. 0 \in T
  <2>1. IsInside([n \in 0..0 |-> {p}], p, 0)
    BY DEF IsInside
  <2> QED BY <2>1
<1>2. ASSUME NEW n \in 1..m, n - 1 \in T PROVE n \in T
  <2>1. PICK f : IsInside(f, p, n - 1)
    BY <1>2
  <2> DEFINE g == [k \in 0..n |-> IF k = n THEN Deeper(p, f[n-1]) ELSE f[k]]
  <2>2. \A k \in 0..n-1 : g[k] = f[k]
    OBVIOUS
  <2>3. \A k \in 0..n-1 : f[k] = IF k = 0 THEN {p} ELSE Deeper(p, f[k-1])
    BY <2>1 DEF IsInside
  <2>4. \A k \in 0..n : g[k] = IF k = 0 THEN {p} ELSE Deeper(p, g[k-1])
    <3> TAKE k \in 0..n
    <3>1. CASE k = 0
      BY <2>2, <2>3, <3>1
    <3>2. CASE k \in 1..n-1
      <4>1. g[k] = f[k] /\ g[k-1] = f[k-1] /\ k # 0
        BY <2>2, <3>2
      <4> HIDE DEF g
      <4> QED BY <2>3, <3>2, <4>1
    <3>3. CASE k = n
      <4>1. g[k] = Deeper(p, f[n-1]) /\ g[k-1] = f[n-1] /\ k # 0
        BY <2>2, <3>3
      <4> HIDE DEF g
      <4> QED BY <4>1
    <3> QED BY <3>1, <3>2, <3>3
  <2>5. g = [k \in 0..n |-> g[k]]
    OBVIOUS
  <2> HIDE DEF g
  <2>6. IsInside(g, p, n)
    BY <2>4, <2>5 DEF IsInside
  <2> QED BY <2>6
<1> HIDE DEF T
<1>3. \A n \in 0..m : n \in T
  BY <1>1, <1>2, UpTo
<1> QED BY <1>3 DEF T

LEMMA InsideLoop ==
  ASSUME NEW p
  PROVE  /\ Inside(p)[0] = {p}
         /\ \A n \in 1..MaxDepth :
              Inside(p)[n] = Deeper(p, Inside(p)[n-1])
<1> DEFINE f == CHOOSE f : IsInside(f, p, MaxDepth)
<1>1. Inside(p) = f
  BY DEF Inside, IsInside, Deeper
<1>2. IsInside(f, p, MaxDepth)
  BY InsideExists, MaxDepthIsNat
<1> HIDE DEF f
<1>3. \A n \in 0..MaxDepth : f[n] = IF n = 0 THEN {p} ELSE Deeper(p, f[n-1])
  BY <1>2 DEF IsInside
<1>4. 0 \in 0..MaxDepth /\ \A n \in 1..MaxDepth : n \in 0..MaxDepth /\ n # 0
  BY MaxDepthIsNat
<1>5. f[0] = {p}
  BY <1>3, <1>4
<1>6. \A n \in 1..MaxDepth : f[n] = Deeper(p, f[n-1])
  BY <1>3, <1>4
<1> QED BY <1>1, <1>5, <1>6

\* The places inside p are p and the places inside its parts.
LEMMA InsideParts ==
  ASSUME NEW p
  PROVE  \A n \in 1..MaxDepth :
           Inside(p)[n] = {p} \cup UNION {Inside(q)[n-1] : q \in Parts(p)}
<1> DEFINE Level(n) == UNION {Inside(q)[n] : q \in Parts(p)}
           T == {n \in 0..MaxDepth-1 : Inside(p)[n+1] = {p} \cup Level(n)}
<1>0. MaxDepth - 1 \in Nat /\ 1 \in 1..MaxDepth
  BY MaxDepthIsNat
<1>1. 0 \in T
  <2>0. Inside(p)[1] = Deeper(p, Inside(p)[1-1]) /\ 0 + 1 = 1 /\ 1 - 1 = 0
    BY <1>0, InsideLoop
  <2>1. Inside(p)[0+1] = Deeper(p, {p})
    BY <2>0, InsideLoop
  <2>2. Deeper(p, {p}) = {p} \cup Parts(p)
    BY DEF Deeper
  <2>3. \A q \in Parts(p) : Inside(q)[0] = {q}
    BY InsideLoop
  <2>4. Level(0) = Parts(p)
    BY <2>3
  <2>5. 0 \in 0..MaxDepth-1
    BY <1>0
  <2> HIDE DEF Level
  <2>6. Inside(p)[0+1] = {p} \cup Level(0)
    BY <2>1, <2>2, <2>4
  <2> QED BY <2>5, <2>6
<1>2. ASSUME NEW n \in 1..MaxDepth-1, n - 1 \in T PROVE n \in T
  <2>1. /\ n \in 0..MaxDepth-1
        /\ n \in 1..MaxDepth /\ n + 1 \in 1..MaxDepth
        /\ (n - 1) + 1 = n /\ (n + 1) - 1 = n
    BY MaxDepthIsNat
  <2>2. Inside(p)[n] = {p} \cup Level(n-1)
    BY <1>2, <2>1
  <2>3. Inside(p)[n+1] = Deeper(p, Inside(p)[n])
    BY <2>1, InsideLoop
  <2>4. \A q \in Parts(p) : Inside(q)[n] = Deeper(q, Inside(q)[n-1])
    BY <2>1, InsideLoop
  <2>5. ASSUME NEW x, x \in Deeper(p, Inside(p)[n]) PROVE x \in {p} \cup Level(n)
    <3>1. CASE x = p
      BY <3>1
    <3>2. CASE \E r \in Inside(p)[n] : x \in Parts(r)
      <4>1. PICK r \in Inside(p)[n] : x \in Parts(r)
        BY <3>2
      <4>2. CASE r = p
        <5>1. x \in Deeper(x, Inside(x)[n-1])
          BY DEF Deeper
        <5>2. x \in Inside(x)[n]
          BY <2>4, <4>1, <4>2, <5>1
        <5> QED BY <4>1, <4>2, <5>2
      <4>3. CASE r \in Level(n-1)
        <5>1. PICK q \in Parts(p) : r \in Inside(q)[n-1]
          BY <4>3
        <5>2. x \in Deeper(q, Inside(q)[n-1])
          BY <4>1, <5>1 DEF Deeper
        <5>3. x \in Inside(q)[n]
          BY <2>4, <5>1, <5>2
        <5> QED BY <5>1, <5>3
      <4> QED BY <2>2, <4>1, <4>2, <4>3
    <3> QED BY <2>5, <3>1, <3>2 DEF Deeper
  <2>6. ASSUME NEW x, x \in {p} \cup Level(n) PROVE x \in Deeper(p, Inside(p)[n])
    <3>1. CASE x = p
      BY <3>1 DEF Deeper
    <3>2. CASE x \in Level(n)
      <4>1. PICK q \in Parts(p) : x \in Inside(q)[n]
        BY <3>2
      <4>2. x \in Deeper(q, Inside(q)[n-1])
        BY <2>4, <4>1
      <4>3. CASE x = q
        <5>1. p \in Inside(p)[n]
          BY <2>2
        <5> QED BY <4>1, <4>3, <5>1 DEF Deeper
      <4>4. CASE \E r \in Inside(q)[n-1] : x \in Parts(r)
        <5>1. PICK r \in Inside(q)[n-1] : x \in Parts(r)
          BY <4>4
        <5>2. r \in Inside(p)[n]
          BY <2>2, <4>1, <5>1
        <5> QED BY <5>1, <5>2 DEF Deeper
      <4> QED BY <4>2, <4>3, <4>4 DEF Deeper
    <3> QED BY <2>6, <3>1, <3>2
  <2>7. Inside(p)[n+1] = {p} \cup Level(n)
    <3> HIDE DEF Level
    <3> QED BY <2>3, <2>5, <2>6
  <2> QED BY <2>1, <2>7
<1> HIDE DEF T
<1>3. \A n \in 0..MaxDepth-1 : n \in T
  BY <1>0, <1>1, <1>2, UpTo
<1> SUFFICES ASSUME NEW n \in 1..MaxDepth
             PROVE  Inside(p)[n] = {p} \cup Level(n-1)
  OBVIOUS
<1>4. n - 1 \in 0..MaxDepth-1 /\ (n - 1) + 1 = n
  BY MaxDepthIsNat
<1>5. n - 1 \in T
  BY <1>3, <1>4
<1> HIDE DEF Level
<1> QED BY <1>4, <1>5 DEF T

LEMMA SelfInside ==
  ASSUME NEW p, NEW n \in 0..MaxDepth
  PROVE  p \in Inside(p)[n]
<1>1. CASE n = 0
  BY <1>1, InsideLoop
<1>2. CASE n \in 1..MaxDepth
  BY <1>2, InsideLoop DEF Deeper
<1> QED BY <1>1, <1>2, MaxDepthIsNat

\* The cells of a container are its own cell and those of its parts.
LEMMA CellsOfParts ==
  ASSUME NEW p, IsSequence(p.at), Len(p.at) < MaxDepth
  PROVE  CellsOf(p) = {CellAt(p)} \cup UNION {CellsOf(q) : q \in Parts(p)}
<1> DEFINE n == MaxDepth - Len(p.at)
<1>1. n \in 1..MaxDepth /\ Len(p.at) \in Nat
  BY SequenceFacts, MaxDepthIsNat
<1>2. Inside(p)[n] = {p} \cup UNION {Inside(q)[n-1] : q \in Parts(p)}
  BY <1>1, InsideParts
<1>3. \A q \in Parts(p) : MaxDepth - Len(q.at) = n - 1
  <2> TAKE q \in Parts(p)
  <2>1. PICK s \in Slots(p.value) : q = Place(p.at, s)
    BY DEF Parts
  <2>2. Len(q.at) = Len(p.at) + 1
    BY <2>1, AppendSequence DEF Place
  <2> QED BY <1>1, <2>2, MaxDepthIsNat
<1>4. CellsOf(p) = {CellAt(q) : q \in Inside(p)[n]}
  BY DEF CellsOf
<1>5. \A q \in Parts(p) : CellsOf(q) = {CellAt(r) : r \in Inside(q)[n-1]}
  BY <1>3 DEF CellsOf
<1> HIDE DEF n
<1> QED BY <1>2, <1>4, <1>5

\* A value without parts has its own cell only.
LEMMA CellsOfLeaf ==
  ASSUME NEW p, IsSequence(p.at), Len(p.at) <= MaxDepth, Parts(p) = {}
  PROVE  CellsOf(p) = {CellAt(p)}
<1> DEFINE n == MaxDepth - Len(p.at)
<1>1. n \in 0..MaxDepth
  BY SequenceFacts, MaxDepthIsNat
<1>2. Inside(p)[n] = {p}
  <2>1. CASE n = 0
    BY <2>1, InsideLoop
  <2>2. CASE n \in 1..MaxDepth
    <3> HIDE DEF n
    <3> QED BY <2>2, InsideParts
  <2> QED BY <1>1, <2>1, <2>2, MaxDepthIsNat
<1> QED BY <1>2 DEF CellsOf

(***************************************************************************)
(* Where the cells of a place are: at its address, or beyond it.           *)
(***************************************************************************)
Beyond(b, a) ==
  /\ IsSequence(b)
  /\ Len(b) > Len(a)
  /\ \A i \in 1..Len(a) : b[i] = a[i]

LEMMA AppendBeyond ==
  ASSUME NEW a, NEW b, NEW x, IsSequence(a), b = a \/ Beyond(b, a)
  PROVE  Beyond(Append(b, x), a)
<1>1. IsSequence(b) /\ Len(a) \in Nat /\ Len(b) \in Nat /\ Len(b) >= Len(a)
  BY SequenceFacts DEF Beyond
<1>2. /\ IsSequence(Append(b, x))
      /\ Len(Append(b, x)) = Len(b) + 1
      /\ \A i \in 1..Len(b) : Append(b, x)[i] = b[i]
  BY <1>1, AppendSequence
<1>3. \A i \in 1..Len(a) : i \in 1..Len(b) /\ b[i] = a[i]
  BY <1>1 DEF Beyond
<1> QED BY <1>1, <1>2, <1>3 DEF Beyond

LEMMA CellsBeyond ==
  ASSUME NEW p, IsSequence(p.at), Len(p.at) <= MaxDepth, NEW c \in CellsOf(p)
  PROVE  c = CellAt(p) \/ Beyond(c.at, p.at)
<1> DEFINE T == {n \in 0..MaxDepth : \A q \in Inside(p)[n] : q = p \/ Beyond(q.at, p.at)}
<1>1. 0 \in T
  BY InsideLoop, MaxDepthIsNat
<1>2. ASSUME NEW n \in 1..MaxDepth, n - 1 \in T PROVE n \in T
  <2>1. Inside(p)[n] = Deeper(p, Inside(p)[n-1])
    BY InsideLoop
  <2>2. ASSUME NEW r \in Inside(p)[n-1], NEW q \in Parts(r) PROVE Beyond(q.at, p.at)
    <3>1. r = p \/ Beyond(r.at, p.at)
      BY <1>2
    <3>2. PICK s \in Slots(r.value) : q = Place(r.at, s)
      BY DEF Parts
    <3>3. q.at = Append(r.at, s.slot.pos)
      BY <3>2 DEF Place
    <3>4. r.at = p.at \/ Beyond(r.at, p.at)
      BY <3>1
    <3> QED BY <3>3, <3>4, AppendBeyond
  <2>3. \A q \in Inside(p)[n] : q = p \/ Beyond(q.at, p.at)
    BY <2>1, <2>2 DEF Deeper
  <2>4. n \in 0..MaxDepth
    BY MaxDepthIsNat
  <2> QED BY <2>3, <2>4
<1> HIDE DEF T
<1>3. \A n \in 0..MaxDepth : n \in T
  BY <1>1, <1>2, MaxDepthIsNat, UpTo
<1>4. MaxDepth - Len(p.at) \in 0..MaxDepth
  BY SequenceFacts, MaxDepthIsNat
<1>5. PICK q \in Inside(p)[MaxDepth - Len(p.at)] : c = CellAt(q)
  BY DEF CellsOf
<1>6. q = p \/ Beyond(q.at, p.at)
  BY <1>3, <1>4 DEF T
<1> QED BY <1>5, <1>6 DEF CellAt

-----------------------------------------------------------------------------
(***************************************************************************)
(* Open containers and their slots.                                        *)
(***************************************************************************)
\* What every container keeps, also when allocations fail.
Sound(c) ==
  /\ IsContext(c)
  /\ c.kind = "tuple" /\ HasValue(c.selected) => ~HasValue(c.values[Get(c.selected)])
  /\ c.kind = "record" => Len(c.values) <= Len(c.fields)

Free(c) == Get(ReservedSlot(c))

LEMMA SlotFacts ==
  /\ \A k : Position(k).pos = k /\ Position(k).name = None
  /\ \A k, name : Named(k, name).pos = k /\ Named(k, name).name = Some(name)
  /\ \A s, v : Filled(s, v).slot = s /\ Filled(s, v).value = v
BY DEF Position, Named, Filled

\* d is c with v in addition, in the slot that c holds.
Gained(d, c, v) ==
  \E name : /\ OpenSlots(d) = OpenSlots(c)
                                \cup {Filled([pos |-> Free(c).pos, name |-> name], v)}
            /\ IsFresh(c) => name = Free(c).name

LEMMA ListSlots ==
  ASSUME NEW c, IsContext(c), c.kind = "list"
  PROVE  /\ IsSequence(c.values)
         /\ OpenSlots(c) = {Filled(Position(i), c.values[i]) : i \in 1..Len(c.values)}
         /\ HasSlot(c)
         /\ ReservedSlot(c) = Some(Position(Len(c.values) + 1))
         /\ Free(c) = Position(Len(c.values) + 1)
<1>1. IsListContext(c)
  BY DEF IsContext
<1>2. IsSequence(c.values) /\ DOMAIN c.values = 1..Len(c.values)
  BY <1>1, SequenceFacts DEF IsListContext
<1>3. ReservedSlot(c) = Some(Position(Len(c.values) + 1)) /\ HasSlot(c)
  BY DEF ReservedSlot, HasSlot
<1>4. OpenSlots(c) = Slots(c) /\ Slots(c) = {Filled(Position(i), c.values[i]) : i \in DOMAIN c.values}
  BY DEF OpenSlots, Slots
<1> QED BY <1>2, <1>3, <1>4 DEF Free, Get, Some

LEMMA TupleSlots ==
  ASSUME NEW c, IsContext(c), c.kind = "tuple"
  PROVE  /\ c.size \in Nat
         /\ c.values = [i \in 0..c.size-1 |-> c.values[i]]
         /\ \A s : s \in OpenSlots(c)
                    <=> \E i \in 0..c.size-1 : /\ HasValue(c.values[i])
                                              /\ s = Filled(Position(i), Get(c.values[i]))
         /\ HasSlot(c) <=> HasValue(c.selected)
         /\ HasSlot(c) => /\ Get(c.selected) \in 0..c.size-1
                          /\ ReservedSlot(c) = Some(Position(Get(c.selected)))
                          /\ Free(c) = Position(Get(c.selected))
         /\ ~HasSlot(c) => ReservedSlot(c) = None
<1>1. IsTupleContext(c)
  BY DEF IsContext
<1>2. c.values = [i \in 0..c.size-1 |-> c.values[i]] /\ c.size \in Nat
  BY <1>1, MaxTupleAssumption DEF IsTupleContext
<1>3. DOMAIN c.values = 0..c.size-1
  BY <1>2
<1>4. HasSlot(c) <=> HasValue(c.selected)
  BY DEF HasSlot
<1>5. HasValue(c.selected) => \E i \in 0..c.size-1 : c.selected = Some(i)
  BY <1>1 DEF IsTupleContext, HasValue
<1>6. HasSlot(c) => /\ Get(c.selected) \in 0..c.size-1
                    /\ ReservedSlot(c) = Some(Position(Get(c.selected)))
                    /\ Free(c) = Position(Get(c.selected))
  BY <1>4, <1>5 DEF ReservedSlot, Free, Get, Some
<1>7. ~HasSlot(c) => ReservedSlot(c) = None
  BY <1>4 DEF ReservedSlot
<1>8. OpenSlots(c) = {Filled(Position(i), Get(c.values[i])) :
                              i \in {j \in 0..c.size-1 : HasValue(c.values[j])}}
  BY <1>3 DEF OpenSlots
<1>9. \A s : s \in OpenSlots(c)
              <=> \E i \in 0..c.size-1 : /\ HasValue(c.values[i])
                                        /\ s = Filled(Position(i), Get(c.values[i]))
  BY <1>8
<1> QED BY <1>2, <1>4, <1>6, <1>7, <1>9

LEMMA RecordSlots ==
  ASSUME NEW c, IsContext(c), c.kind = "record"
  PROVE  /\ IsSequence(c.values)
         /\ c.fields \in Seq(Names \cup {EmptyName})
         /\ OpenSlots(c) = {Filled(Named(i, c.fields[i]), c.values[i]) : i \in 1..Len(c.values)}
         /\ HasSlot(c) <=> HasValue(c.pending_field)
         /\ HasSlot(c) => /\ ReservedSlot(c) = Some(Named(Len(c.values) + 1, Get(c.pending_field)))
                          /\ Free(c) = Named(Len(c.values) + 1, Get(c.pending_field))
         /\ ~HasSlot(c) => ReservedSlot(c) = None
<1>1. IsRecordContext(c)
  BY DEF IsContext
<1>2. IsSequence(c.values) /\ DOMAIN c.values = 1..Len(c.values)
  BY <1>1, SequenceFacts DEF IsRecordContext
<1>3. c.fields \in Seq(Names \cup {EmptyName})
  BY <1>1 DEF IsRecordContext
<1>4. HasSlot(c) <=> HasValue(c.pending_field)
  BY DEF HasSlot
<1>5. HasSlot(c) => /\ ReservedSlot(c) = Some(Named(Len(c.values) + 1, Get(c.pending_field)))
                    /\ Free(c) = Named(Len(c.values) + 1, Get(c.pending_field))
  BY <1>4 DEF ReservedSlot, Free, Get, Some
<1>6. ~HasSlot(c) => ReservedSlot(c) = None
  BY <1>4 DEF ReservedSlot
<1>7. OpenSlots(c) = Slots(c)
        /\ Slots(c) = {Filled(Named(i, c.fields[i]), c.values[i]) : i \in DOMAIN c.values}
  BY DEF OpenSlots, Slots
<1> QED BY <1>2, <1>3, <1>4, <1>5, <1>6, <1>7

LEMMA ThreeKinds ==
  ASSUME NEW c, IsContext(c)
  PROVE  c.kind \in {"list", "tuple", "record"}
BY DEF IsContext

\* The slot that a container holds has no value.
LEMMA FreeIsFree ==
  ASSUME NEW c, Sound(c), HasSlot(c), NEW s \in OpenSlots(c)
  PROVE  s.slot.pos # Free(c).pos
<1>0. IsContext(c)
  BY DEF Sound
<1>1. CASE c.kind = "list"
  <2>1. PICK i \in 1..Len(c.values) : s = Filled(Position(i), c.values[i])
    BY <1>0, <1>1, ListSlots
  <2>2. i # Len(c.values) + 1
    BY <1>0, <1>1, ListSlots, SequenceFacts
  <2>3. s.slot.pos = i /\ Free(c).pos = Len(c.values) + 1
    BY <1>0, <1>1, <2>1, ListSlots, SlotFacts
  <2> QED BY <2>2, <2>3
<1>2. CASE c.kind = "tuple"
  <2>1. PICK i \in 0..c.size-1 : HasValue(c.values[i]) /\ s = Filled(Position(i), Get(c.values[i]))
    BY <1>0, <1>2, TupleSlots
  <2>2. i # Get(c.selected)
    BY <1>0, <1>2, <2>1, TupleSlots DEF Sound
  <2>3. s.slot.pos = i /\ Free(c).pos = Get(c.selected)
    BY <1>0, <1>2, <2>1, TupleSlots, SlotFacts
  <2> QED BY <2>2, <2>3
<1>3. CASE c.kind = "record"
  <2>1. PICK i \in 1..Len(c.values) : s = Filled(Named(i, c.fields[i]), c.values[i])
    BY <1>0, <1>3, RecordSlots
  <2>2. i # Len(c.values) + 1
    BY <1>0, <1>3, RecordSlots, SequenceFacts
  <2>3. s.slot.pos = i /\ Free(c).pos = Len(c.values) + 1
    BY <1>0, <1>3, <2>1, RecordSlots, SlotFacts
  <2> QED BY <2>2, <2>3
<1> QED BY <1>0, <1>1, <1>2, <1>3, ThreeKinds

\* A value that is received fills the slot that was held for it.
LEMMA ReceivedGains ==
  ASSUME NEW c, NEW v, Sound(c), HasSlot(c)
  PROVE  /\ Gained(Received(c, v), c, v)
         /\ ContextLabel(Received(c, v)) = ContextLabel(c)
         /\ Sound(Received(c, v))
         /\ Received(c, v).kind = c.kind
         /\ c.kind # "list" => ReservedSlot(Received(c, v)) = None
<1> DEFINE d == Received(c, v)
<1>0. IsContext(c) /\ IsContext(d)
  BY ReceivedIsContext DEF Sound
<1>1. CASE c.kind = "list"
  <2> DEFINE vs == Append(c.values, v)
             n == Len(c.values)
  <2>1. d = ListContext(vs)
    BY <1>1 DEF Received
  <2>2. d.kind = "list" /\ d.values = vs
    BY <2>1 DEF ListContext
  <2>3. n \in Nat /\ Len(vs) = n + 1 /\ vs[n + 1] = v /\ \A i \in 1..n : vs[i] = c.values[i]
    BY <1>0, <1>1, ListSlots, AppendSequence, SequenceFacts
  <2>4. OpenSlots(d) = {Filled(Position(i), vs[i]) : i \in 1..Len(vs)}
    <3> HIDE DEF vs, d
    <3> QED BY <1>0, <2>2, ListSlots
  <2>5. OpenSlots(c) = {Filled(Position(i), c.values[i]) : i \in 1..n} /\ Free(c) = Position(n + 1)
    BY <1>0, <1>1, ListSlots
  <2> HIDE DEF vs, n
  <2>6. 1..Len(vs) = 1..n \cup {n + 1}
    BY <2>3
  <2>7. OpenSlots(d) = OpenSlots(c) \cup {Filled(Position(n + 1), v)}
    BY <2>3, <2>4, <2>5, <2>6
  <2>8. Gained(d, c, v)
    BY <2>5, <2>7 DEF Gained, Position
  <2>9. ContextLabel(d) = ContextLabel(c) /\ Sound(d)
    BY <1>0, <1>1, <2>2 DEF ContextLabel, Sound
  <2> QED BY <1>1, <2>2, <2>8, <2>9
<1>2. CASE c.kind = "tuple"
  <2> DEFINE i == Get(c.selected)
             vs == [c.values EXCEPT ![i] = Some(v)]
  <2>1. d = TupleContext(c.size, vs, None)
    BY <1>2 DEF Received
  <2>2. d.kind = "tuple" /\ d.values = vs /\ d.size = c.size /\ d.selected = None
    BY <2>1 DEF TupleContext
  <2>3. i \in 0..c.size-1 /\ Free(c) = Position(i) /\ DOMAIN c.values = 0..c.size-1
    BY <1>0, <1>2, TupleSlots
  <2>4. \A j \in 0..c.size-1 : vs[j] = IF j = i THEN Some(v) ELSE c.values[j]
    BY <2>3
  <2>5. \A s : s \in OpenSlots(d)
                <=> \E j \in 0..c.size-1 : HasValue(vs[j]) /\ s = Filled(Position(j), Get(vs[j]))
    <3> HIDE DEF vs, d, i
    <3>1. \A s : s \in OpenSlots(d)
                  <=> \E j \in 0..d.size-1 : HasValue(d.values[j]) /\ s = Filled(Position(j), Get(d.values[j]))
      BY <1>0, <2>2, TupleSlots
    <3> QED BY <2>2, <3>1
  <2>6. \A s : s \in OpenSlots(c)
                <=> \E j \in 0..c.size-1 : HasValue(c.values[j]) /\ s = Filled(Position(j), Get(c.values[j]))
    BY <1>0, <1>2, TupleSlots
  <2> HIDE DEF vs
  <2>7. HasValue(vs[i]) /\ Get(vs[i]) = v
    BY <2>3, <2>4 DEF Some, None, HasValue, Get
  <2>8. ~HasValue(c.values[i])
    BY <1>0, <1>2, TupleSlots DEF Sound
  <2> HIDE DEF i
  <2>9. \A j \in 0..c.size-1 : j # i => vs[j] = c.values[j]
    BY <2>4
  <2>10. OpenSlots(d) \subseteq OpenSlots(c) \cup {Filled(Position(i), v)}
    BY <2>5, <2>6, <2>7, <2>9
  <2>11. OpenSlots(c) \subseteq OpenSlots(d)
    BY <2>5, <2>6, <2>8, <2>9
  <2>12. Filled(Position(i), v) \in OpenSlots(d)
    BY <2>3, <2>5, <2>7
  <2>13. Gained(d, c, v)
    BY <2>3, <2>10, <2>11, <2>12 DEF Gained, Position
  <2>14. ContextLabel(d) = ContextLabel(c) /\ Sound(d)
    BY <1>0, <1>2, <2>2 DEF ContextLabel, Sound, HasValue
  <2>15. ReservedSlot(d) = None
    BY <1>0, <2>2, TupleSlots DEF HasValue
  <2> QED BY <1>2, <2>2, <2>13, <2>14, <2>15
<1>3. CASE c.kind = "record"
  <2> DEFINE name == Get(c.pending_field)
             fs == Append(c.fields, name)
             vs == Append(c.values, v)
             n == Len(c.values)
  <2>1. d = RecordContext(fs, vs, None)
    BY <1>3 DEF Received
  <2>2. d.kind = "record" /\ d.values = vs /\ d.fields = fs /\ d.pending_field = None
    BY <2>1 DEF RecordContext
  <2>3. n \in Nat /\ Len(vs) = n + 1 /\ vs[n + 1] = v /\ \A i \in 1..n : vs[i] = c.values[i]
    BY <1>0, <1>3, RecordSlots, AppendSequence, SequenceFacts
  <2>4. /\ Len(c.fields) \in Nat /\ n <= Len(c.fields)
        /\ Len(fs) = Len(c.fields) + 1 /\ fs[Len(c.fields) + 1] = name
        /\ \A i \in 1..Len(c.fields) : fs[i] = c.fields[i]
    BY <1>0, <1>3, RecordSlots, TypedIsSequence, AppendSequence, SequenceFacts DEF Sound
  <2>5. OpenSlots(d) = {Filled(Named(i, fs[i]), vs[i]) : i \in 1..Len(vs)}
    <3> HIDE DEF fs, vs, d
    <3> QED BY <1>0, <2>2, RecordSlots
  <2>6. /\ OpenSlots(c) = {Filled(Named(i, c.fields[i]), c.values[i]) : i \in 1..n}
        /\ Free(c) = Named(n + 1, name)
    BY <1>0, <1>3, RecordSlots
  <2> HIDE DEF fs, vs, n, name
  <2>7. 1..Len(vs) = 1..n \cup {n + 1} /\ \A i \in 1..n : fs[i] = c.fields[i]
    BY <2>3, <2>4
  <2>8. OpenSlots(d) = OpenSlots(c) \cup {Filled(Named(n + 1, fs[n + 1]), v)}
    BY <2>3, <2>5, <2>6, <2>7
  <2>9. IsFresh(c) => fs[n + 1] = name
    BY <1>3, <2>4 DEF IsFresh, n
  <2>10. Gained(d, c, v)
    <3>1. Named(n + 1, fs[n + 1]) = [pos |-> Free(c).pos, name |-> Some(fs[n + 1])]
      BY <2>6, SlotFacts DEF Named
    <3>2. Free(c).name = Some(name)
      BY <2>6, SlotFacts
    <3> QED BY <2>8, <2>9, <3>1, <3>2 DEF Gained
  <2>11. ContextLabel(d) = ContextLabel(c) /\ Sound(d)
    BY <1>0, <1>3, <2>2, <2>3, <2>4 DEF ContextLabel, Sound
  <2>12. ReservedSlot(d) = None
    BY <1>0, <2>2, RecordSlots DEF HasValue
  <2> QED BY <1>3, <2>2, <2>10, <2>11, <2>12
<1> QED BY <1>0, <1>1, <1>2, <1>3, ThreeKinds

-----------------------------------------------------------------------------
(***************************************************************************)
(* Stacks.  A stack st of height n has the finished values at 0 and the    *)
(* open containers at 1..n.                                                *)
(***************************************************************************)
IsStack(st, n) ==
  /\ n \in Nat
  /\ DOMAIN st = 0..n
  /\ \A k \in 0..n : Sound(st[k])
  /\ \A k \in 0..n-1 : HasSlot(st[k])

\* up and st have the same containers below n.
SameBelow(up, st, n) == \A k \in 0..n-1 : up[k] = st[k]

LEMMA AddressFacts ==
  ASSUME NEW st, NEW n \in Nat
  PROVE  /\ IsSequence(Address(st, n))
         /\ Len(Address(st, n)) = n
         /\ \A k \in 1..n : Address(st, n)[k] = Free(st[k-1]).pos
<1> DEFINE a == [k \in 1..n |-> Free(st[k-1]).pos]
           R == {a[k] : k \in 1..n}
<1>1. Address(st, n) = a
  BY DEF Address, Free
<1>2. a = [k \in 1..n |-> a[k]] /\ \A k \in 1..n : a[k] = Free(st[k-1]).pos
  OBVIOUS
<1> HIDE DEF a
<1>3. a \in [1..n -> R]
  BY <1>2
<1> HIDE DEF R
<1>5. a \in Seq(R) /\ Len(a) = n
  BY <1>3
<1>4. IsSequence(a)
  BY <1>5, TypedIsSequence
<1> QED BY <1>1, <1>2, <1>4, <1>5

LEMMA SequenceExtensional ==
  ASSUME NEW a, NEW b, IsSequence(a), IsSequence(b), Len(a) = Len(b),
         \A k \in 1..Len(a) : a[k] = b[k]
  PROVE  a = b
<1> DEFINE R == {a[k] : k \in DOMAIN a} \cup {b[k] : k \in DOMAIN b}
<1>1. a \in Seq({a[k] : k \in DOMAIN a})
  BY DEF IsSequence
<1>2. b \in Seq({b[k] : k \in DOMAIN b})
  BY DEF IsSequence
<1>3. a \in Seq(R)
  BY <1>1, SeqMonotonic
<1>4. b \in Seq(R)
  BY <1>2, SeqMonotonic
<1> HIDE DEF R
<1> QED BY <1>3, <1>4, SeqEqual

\* A container is opened in the slot that the one below it holds.
LEMMA AddressNext ==
  ASSUME NEW st, NEW n \in Nat
  PROVE  Address(st, n + 1) = Append(Address(st, n), Free(st[n]).pos)
<1> DEFINE a == Address(st, n)
           x == Free(st[n]).pos
<1>1. /\ IsSequence(a) /\ Len(a) = n
      /\ \A k \in 1..n : a[k] = Free(st[k-1]).pos
  BY AddressFacts
<1>2. /\ IsSequence(Address(st, n + 1)) /\ Len(Address(st, n + 1)) = n + 1
      /\ \A k \in 1..n+1 : Address(st, n + 1)[k] = Free(st[k-1]).pos
  BY AddressFacts
<1> HIDE DEF a
<1>3. /\ IsSequence(Append(a, x)) /\ Len(Append(a, x)) = n + 1
      /\ \A k \in 1..n : Append(a, x)[k] = a[k]
      /\ Append(a, x)[n + 1] = x
  BY <1>1, AppendSequence
<1>4. \A k \in 1..n+1 : Address(st, n + 1)[k] = Append(a, x)[k]
  <2> TAKE k \in 1..n+1
  <2>1. CASE k \in 1..n
    BY <1>1, <1>2, <1>3, <2>1
  <2>2. CASE k = n + 1
    <3>1. k - 1 = n
      BY <2>2
    <3>2. Address(st, n + 1)[k] = Free(st[k-1]).pos
      BY <1>2
    <3>3. Append(a, x)[k] = x
      BY <1>3, <2>2
    <3> QED BY <3>1, <3>2, <3>3
  <2>3. k \in 1..n \/ k = n + 1
    OBVIOUS
  <2> HIDE DEF x
  <2> QED BY <2>1, <2>2, <2>3
<1> QED BY <1>2, <1>3, <1>4, SequenceExtensional DEF a

LEMMA SameAddress ==
  ASSUME NEW st, NEW up, NEW n \in Nat, SameBelow(up, st, n)
  PROVE  /\ \A k \in 0..n : Address(up, k) = Address(st, k)
         /\ \A k \in 0..n : NameAt(up, k) = NameAt(st, k)
<1>1. ASSUME NEW k \in 0..n PROVE Address(up, k) = Address(st, k)
  <2>1. \A j \in 1..k : j - 1 \in 0..n-1
    OBVIOUS
  <2>2. \A j \in 1..k : up[j-1] = st[j-1]
    BY <2>1 DEF SameBelow
  <2> QED BY <2>2 DEF Address
<1>2. ASSUME NEW k \in 0..n PROVE NameAt(up, k) = NameAt(st, k)
  <2>1. CASE k = 0
    BY <2>1 DEF NameAt
  <2>2. CASE k # 0
    <3>1. k - 1 \in 0..n-1
      BY <2>2
    <3>2. up[k-1] = st[k-1]
      BY <3>1 DEF SameBelow
    <3> QED BY <2>2, <3>2 DEF NameAt
  <2> QED BY <2>1, <2>2
<1> QED BY <1>1, <1>2

LEMMA SameCells ==
  ASSUME NEW st, NEW up, NEW n \in Nat, SameBelow(up, st, n), NEW k \in 0..n-1
  PROVE  CellsAt(up, k) = CellsAt(st, k)
<1>1. Address(up, k) = Address(st, k) /\ NameAt(up, k) = NameAt(st, k) /\ up[k] = st[k]
  BY SameAddress DEF SameBelow
<1>2. OpenCell(up, k) = OpenCell(st, k) /\ OpenPlaces(up, k) = OpenPlaces(st, k)
  BY <1>1 DEF OpenCell, OpenPlaces
<1> QED BY <1>2 DEF CellsAt

-----------------------------------------------------------------------------
(***************************************************************************)
(* What a change of the stack does to its cells.                           *)
(***************************************************************************)
LEMMA PlaceFacts ==
  ASSUME NEW a, NEW s, NEW v
  PROVE  /\ Place(a, Filled(s, v)).at = Append(a, s.pos)
         /\ Place(a, Filled(s, v)).name = s.name
         /\ Place(a, Filled(s, v)).value = v
BY DEF Place, Filled

\* A container whose filled slots stay the same keeps its cells.
LEMMA KeptCells ==
  ASSUME NEW st, NEW up, NEW n \in Nat, SameBelow(up, st, n),
         ContextLabel(up[n]) = ContextLabel(st[n]),
         OpenSlots(up[n]) = OpenSlots(st[n])
  PROVE  CellsAt(up, n) = CellsAt(st, n)
<1>1. Address(up, n) = Address(st, n) /\ NameAt(up, n) = NameAt(st, n)
  BY SameAddress
<1>2. OpenCell(up, n) = OpenCell(st, n) /\ OpenPlaces(up, n) = OpenPlaces(st, n)
  BY <1>1 DEF OpenCell, OpenPlaces
<1> QED BY <1>2 DEF CellsAt

\* A container with one more slot filled has the cells of that in addition.
LEMMA GrownCells ==
  ASSUME NEW st, NEW up, NEW n \in Nat, SameBelow(up, st, n),
         ContextLabel(up[n]) = ContextLabel(st[n]),
         NEW s, OpenSlots(up[n]) = OpenSlots(st[n]) \cup {s}
  PROVE  CellsAt(up, n) = CellsAt(st, n) \cup CellsOf(Place(Address(st, n), s))
<1>1. Address(up, n) = Address(st, n) /\ NameAt(up, n) = NameAt(st, n)
  BY SameAddress
<1>2. OpenCell(up, n) = OpenCell(st, n)
  BY <1>1 DEF OpenCell
<1>3. OpenPlaces(up, n) = OpenPlaces(st, n) \cup {Place(Address(st, n), s)}
  BY <1>1 DEF OpenPlaces
<1> QED BY <1>2, <1>3 DEF CellsAt

\* A closed container has the cells in the slot held for it that it had while
\* it was open.
LEMMA ClosedCells ==
  ASSUME NEW st, NEW n \in Nat, n < MaxValues,
         NEW v, Slots(v) = OpenSlots(st[n+1]), LabelOf(v) = ContextLabel(st[n+1])
  PROVE  CellsOf(Place(Address(st, n), Filled(Free(st[n]), v))) = CellsAt(st, n + 1)
<1> DEFINE p == Place(Address(st, n), Filled(Free(st[n]), v))
<1>1. p.at = Address(st, n + 1) /\ p.name = Free(st[n]).name /\ p.value = v
  <2>1. p.at = Append(Address(st, n), Free(st[n]).pos)
    BY PlaceFacts
  <2>2. p.name = Free(st[n]).name
    BY PlaceFacts
  <2>3. p.value = v
    BY PlaceFacts
  <2> HIDE DEF p
  <2> QED BY <2>1, <2>2, <2>3, AddressNext
<1>2. p.name = NameAt(st, n + 1)
  <2>1. n + 1 # 0 /\ (n + 1) - 1 = n
    OBVIOUS
  <2> HIDE DEF p
  <2> QED BY <1>1, <2>1 DEF NameAt, Free
<1> HIDE DEF p
<1>3. IsSequence(p.at) /\ Len(p.at) < MaxDepth
  BY <1>1, AddressFacts, MaxValuesAssumption DEF MaxDepth
<1>4. CellAt(p) = OpenCell(st, n + 1)
  BY <1>1, <1>2 DEF CellAt, OpenCell
<1>5. Parts(p) = OpenPlaces(st, n + 1)
  BY <1>1 DEF Parts, OpenPlaces
<1>6. CellsOf(p) = {CellAt(p)} \cup UNION {CellsOf(q) : q \in Parts(p)}
  BY <1>3, CellsOfParts
<1> QED BY <1>4, <1>5, <1>6 DEF CellsAt, p

\* A value without parts is one cell.
LEMMA ScalarCells ==
  ASSUME NEW st, NEW n \in Nat, n <= MaxValues, NEW v, Slots(v) = {}
  PROVE  CellsOf(Place(Address(st, n), Filled(Free(st[n]), v)))
           = {[at |-> Address(st, n + 1), name |-> Free(st[n]).name, is |-> LabelOf(v)]}
<1> DEFINE p == Place(Address(st, n), Filled(Free(st[n]), v))
<1>1. p.at = Address(st, n + 1) /\ p.name = Free(st[n]).name /\ p.value = v
  <2>1. p.at = Append(Address(st, n), Free(st[n]).pos)
    BY PlaceFacts
  <2>2. p.name = Free(st[n]).name
    BY PlaceFacts
  <2>3. p.value = v
    BY PlaceFacts
  <2> HIDE DEF p
  <2> QED BY <2>1, <2>2, <2>3, AddressNext
<1> HIDE DEF p
<1>2. IsSequence(p.at) /\ Len(p.at) <= MaxDepth
  BY <1>1, AddressFacts, MaxValuesAssumption DEF MaxDepth
<1>3. Parts(p) = {}
  BY <1>1 DEF Parts
<1>4. CellsOf(p) = {CellAt(p)}
  BY <1>2, <1>3, CellsOfLeaf
<1> QED BY <1>1, <1>4 DEF CellAt, p

LowerCells(st, n) == UNION {CellsAt(st, k) : k \in 0..n-1}

\* The cells of a stack and of one that differs at the top only.
LEMMA SplitCells ==
  ASSUME NEW st, NEW n, IsStack(st, n)
  PROVE  CellsIn(st) = LowerCells(st, n) \cup CellsAt(st, n)
<1>1. DOMAIN st = 0..n /\ n \in Nat
  BY DEF IsStack
<1>2. \A k : k \in 0..n <=> k \in 0..n-1 \/ k = n
  BY <1>1
<1>3. \A c : c \in CellsIn(st) <=> \E k \in 0..n : c \in CellsAt(st, k)
  BY <1>1 DEF CellsIn
<1>4. \A c : c \in LowerCells(st, n) <=> \E k \in 0..n-1 : c \in CellsAt(st, k)
  BY DEF LowerCells
<1>5. \A c : c \in CellsIn(st) <=> c \in LowerCells(st, n) \/ c \in CellsAt(st, n)
  BY <1>2, <1>3, <1>4
<1> QED BY <1>5

LEMMA SameLowerCells ==
  ASSUME NEW st, NEW up, NEW n \in Nat, SameBelow(up, st, n)
  PROVE  LowerCells(up, n) = LowerCells(st, n)
BY SameCells DEF LowerCells

\* The top is replaced by a container with one more slot filled.
LEMMA GrownStack ==
  ASSUME NEW st, NEW up, NEW n, IsStack(st, n), IsStack(up, n), SameBelow(up, st, n),
         ContextLabel(up[n]) = ContextLabel(st[n]),
         NEW s, OpenSlots(up[n]) = OpenSlots(st[n]) \cup {s}
  PROVE  CellsIn(up) = CellsIn(st) \cup CellsOf(Place(Address(st, n), s))
<1>1. n \in Nat
  BY DEF IsStack
<1>2. CellsAt(up, n) = CellsAt(st, n) \cup CellsOf(Place(Address(st, n), s))
  BY <1>1, GrownCells
<1>3. CellsIn(up) = LowerCells(up, n) \cup CellsAt(up, n)
  BY SplitCells
<1>4. CellsIn(st) = LowerCells(st, n) \cup CellsAt(st, n)
  BY SplitCells
<1>5. LowerCells(up, n) = LowerCells(st, n)
  BY <1>1, SameLowerCells
<1> QED BY <1>2, <1>3, <1>4, <1>5

\* The top is replaced by a container with the same slots filled.
LEMMA KeptStack ==
  ASSUME NEW st, NEW up, NEW n, IsStack(st, n), IsStack(up, n), SameBelow(up, st, n),
         ContextLabel(up[n]) = ContextLabel(st[n]),
         OpenSlots(up[n]) = OpenSlots(st[n])
  PROVE  CellsIn(up) = CellsIn(st)
<1>1. n \in Nat
  BY DEF IsStack
<1>2. CellsAt(up, n) = CellsAt(st, n)
  BY <1>1, KeptCells
<1>3. CellsIn(up) = LowerCells(up, n) \cup CellsAt(up, n)
  BY SplitCells
<1>4. CellsIn(st) = LowerCells(st, n) \cup CellsAt(st, n)
  BY SplitCells
<1>5. LowerCells(up, n) = LowerCells(st, n)
  BY <1>1, SameLowerCells
<1> QED BY <1>2, <1>3, <1>4, <1>5

\* An empty container is opened.
LEMMA OpenedStack ==
  ASSUME NEW st, NEW up, NEW n, IsStack(st, n), IsStack(up, n + 1), SameBelow(up, st, n + 1),
         OpenSlots(up[n+1]) = {}
  PROVE  CellsIn(up) = CellsIn(st)
           \cup {[at |-> Address(st, n + 1), name |-> Free(st[n]).name,
                  is |-> ContextLabel(up[n+1])]}
<1>1. n \in Nat /\ n + 1 \in Nat /\ (n + 1) - 1 = n
  BY DEF IsStack
<1>2. CellsIn(up) = LowerCells(up, n + 1) \cup CellsAt(up, n + 1)
  BY <1>1, SplitCells
<1>3. LowerCells(up, n + 1) = LowerCells(st, n + 1)
  BY <1>1, SameLowerCells
<1>4. CellsIn(st) = LowerCells(st, n + 1)
  BY <1>1 DEF CellsIn, LowerCells, IsStack
<1>5. CellsAt(up, n + 1) = {OpenCell(up, n + 1)}
  BY DEF CellsAt, OpenPlaces
<1>6. Address(up, n + 1) = Address(st, n + 1) /\ up[n] = st[n]
  <2>1. n + 1 \in 0..n+1 /\ n \in 0..(n+1)-1
    BY <1>1
  <2> QED BY <1>1, <2>1, SameAddress DEF SameBelow
<1>7. NameAt(up, n + 1) = Free(st[n]).name
  BY <1>1, <1>6 DEF NameAt, Free
<1>8. OpenCell(up, n + 1) = [at |-> Address(st, n + 1), name |-> Free(st[n]).name,
                             is |-> ContextLabel(up[n+1])]
  BY <1>6, <1>7 DEF OpenCell
<1> QED BY <1>2, <1>3, <1>4, <1>5, <1>8

\* The top is closed and delivered to the container below it.
LEMMA ClosedStack ==
  ASSUME NEW st, NEW up, NEW n, IsStack(st, n + 1), IsStack(up, n), SameBelow(up, st, n),
         n < MaxValues,
         NEW v, Slots(v) = OpenSlots(st[n+1]), LabelOf(v) = ContextLabel(st[n+1]),
         ContextLabel(up[n]) = ContextLabel(st[n]),
         OpenSlots(up[n]) = OpenSlots(st[n]) \cup {Filled(Free(st[n]), v)}
  PROVE  CellsIn(up) = CellsIn(st)
<1>1. n \in Nat /\ (n + 1) - 1 = n
  BY DEF IsStack
<1>2. CellsIn(st) = LowerCells(st, n + 1) \cup CellsAt(st, n + 1)
  BY <1>1, SplitCells
<1>3. LowerCells(st, n + 1) = LowerCells(st, n) \cup CellsAt(st, n)
  <2>1. \A k : k \in 0..(n+1)-1 <=> k \in 0..n-1 \/ k = n
    BY <1>1
  <2>2. \A c : c \in LowerCells(st, n + 1) <=> \E k \in 0..(n+1)-1 : c \in CellsAt(st, k)
    BY DEF LowerCells
  <2>3. \A c : c \in LowerCells(st, n) <=> \E k \in 0..n-1 : c \in CellsAt(st, k)
    BY DEF LowerCells
  <2>4. \A c : c \in LowerCells(st, n + 1) <=> c \in LowerCells(st, n) \/ c \in CellsAt(st, n)
    BY <2>1, <2>2, <2>3
  <2> QED BY <2>4
<1>4. CellsIn(up) = LowerCells(up, n) \cup CellsAt(up, n)
  BY SplitCells
<1>5. LowerCells(up, n) = LowerCells(st, n)
  BY <1>1, SameLowerCells
<1>6. CellsAt(up, n) = CellsAt(st, n) \cup CellsAt(st, n + 1)
  BY <1>1, GrownCells, ClosedCells
<1> QED BY <1>2, <1>3, <1>4, <1>5, <1>6

-----------------------------------------------------------------------------
(***************************************************************************)
(* Which cells are at the cursor and directly inside it.                   *)
(***************************************************************************)
LEMMA Located ==
  ASSUME NEW st, NEW k \in 0..MaxValues, NEW c \in CellsAt(st, k)
  PROVE  \/ c = OpenCell(st, k)
         \/ \E s \in OpenSlots(st[k]) :
              \/ c = CellAt(Place(Address(st, k), s))
              \/ Beyond(c.at, Append(Address(st, k), s.slot.pos))
<1>0. k \in Nat /\ k + 1 <= MaxDepth
  BY MaxValuesAssumption DEF MaxDepth
<1>1. CASE c = OpenCell(st, k)
  BY <1>1
<1>2. CASE \E p \in OpenPlaces(st, k) : c \in CellsOf(p)
  <2>1. PICK p \in OpenPlaces(st, k) : c \in CellsOf(p)
    BY <1>2
  <2>2. PICK s \in OpenSlots(st[k]) : p = Place(Address(st, k), s)
    BY <2>1 DEF OpenPlaces
  <2>3. p.at = Append(Address(st, k), s.slot.pos)
    BY <2>2 DEF Place
  <2>4. IsSequence(p.at) /\ Len(p.at) = k + 1
    BY <1>0, <2>3, AddressFacts, AppendSequence
  <2>5. c = CellAt(p) \/ Beyond(c.at, p.at)
    BY <1>0, <2>1, <2>4, CellsBeyond
  <2> QED BY <2>2, <2>3, <2>5
<1> QED BY <1>1, <1>2 DEF CellsAt

\* No cell of a container is in the slot that it holds.
LEMMA Elsewhere ==
  ASSUME NEW st, NEW k \in 0..MaxValues, Sound(st[k]), HasSlot(st[k]), NEW c \in CellsAt(st, k)
  PROVE  /\ c.at # Address(st, k + 1)
         /\ ~Beyond(c.at, Address(st, k + 1))
<1> DEFINE a == Address(st, k)
           b == Address(st, k + 1)
<1>0. k \in Nat /\ k + 1 \in Nat
  BY MaxValuesAssumption
<1>1. IsSequence(a) /\ Len(a) = k /\ IsSequence(b) /\ Len(b) = k + 1
  BY <1>0, AddressFacts
<1>2. b = Append(a, Free(st[k]).pos)
  BY <1>0, AddressNext
<1>3. b[k + 1] = Free(st[k]).pos
  BY <1>1, <1>2, AppendSequence
<1> HIDE DEF b
<1>4. CASE c = OpenCell(st, k)
  <2>1. c.at = a
    BY <1>4 DEF OpenCell
  <2>2. Len(c.at) = k
    BY <1>1, <2>1
  <2>3. ~(Len(c.at) > Len(b)) /\ Len(c.at) # Len(b)
    BY <1>0, <1>1, <2>2
  <2> QED BY <2>3 DEF Beyond, b
<1>5. ASSUME NEW s \in OpenSlots(st[k]),
             \/ c = CellAt(Place(a, s))
             \/ Beyond(c.at, Append(a, s.slot.pos))
      PROVE  c.at # b /\ ~Beyond(c.at, b)
  <2>1. s.slot.pos # Free(st[k]).pos
    BY FreeIsFree
  <2> DEFINE d == Append(a, s.slot.pos)
  <2>2. Len(d) = k + 1 /\ d[k + 1] = s.slot.pos
    BY <1>1, AppendSequence
  <2>3. c.at = d \/ Beyond(c.at, d)
    BY <1>5 DEF CellAt, Place
  <2> HIDE DEF d, a
  <2>4. c.at[k + 1] = d[k + 1]
    <3>1. k + 1 \in 1..Len(d)
      BY <1>0, <2>2
    <3> QED BY <2>3, <3>1 DEF Beyond
  <2>5. c.at = b \/ Beyond(c.at, b) => c.at[k + 1] = b[k + 1]
    <3>1. k + 1 \in 1..Len(b)
      BY <1>0, <1>1
    <3> QED BY <3>1 DEF Beyond
  <2> QED BY <1>3, <2>1, <2>2, <2>4, <2>5
<1> QED BY <1>4, <1>5, Located DEF b

LEMMA BeyondBeyond ==
  ASSUME NEW a, NEW b, NEW c, IsSequence(a), Beyond(b, a), Beyond(c, b)
  PROVE  Beyond(c, a)
<1>1. Len(a) \in Nat /\ Len(b) \in Nat /\ Len(c) \in Nat /\ Len(b) > Len(a) /\ Len(c) > Len(b)
  BY SequenceFacts DEF Beyond
<1>2. \A i \in 1..Len(a) : i \in 1..Len(b)
  BY <1>1
<1> QED BY <1>1, <1>2 DEF Beyond

\* A container is inside every one that was opened before it.
LEMMA AddressBeyond ==
  ASSUME NEW st, NEW n \in Nat, NEW k \in 0..n-1
  PROVE  Beyond(Address(st, n), Address(st, k))
<1>1. k \in Nat /\ k < n /\ \A i \in 1..k : i \in 1..n
  OBVIOUS
<1>2. /\ IsSequence(Address(st, n)) /\ Len(Address(st, n)) = n
      /\ \A i \in 1..n : Address(st, n)[i] = Free(st[i-1]).pos
  BY AddressFacts
<1>3. /\ Len(Address(st, k)) = k
      /\ \A i \in 1..k : Address(st, k)[i] = Free(st[i-1]).pos
  BY <1>1, AddressFacts
<1> QED BY <1>1, <1>2, <1>3 DEF Beyond

\* The cells of the containers below are neither at the cursor nor inside it.
LEMMA BelowElsewhere ==
  ASSUME NEW st, NEW n, IsStack(st, n), n <= MaxValues, NEW k \in 0..n-1, NEW c \in CellsAt(st, k)
  PROVE  /\ c.at # Address(st, n)
         /\ ~Beyond(c.at, Address(st, n))
<1>0. n \in Nat /\ k \in 0..MaxValues /\ k \in 0..n /\ k + 1 \in Nat /\ (k + 1 = n \/ k + 1 \in 0..n-1)
  BY MaxValuesAssumption DEF IsStack
<1>1. Sound(st[k]) /\ HasSlot(st[k])
  BY <1>0 DEF IsStack
<1>2. c.at # Address(st, k + 1) /\ ~Beyond(c.at, Address(st, k + 1))
  BY <1>0, <1>1, Elsewhere
<1>3. CASE k + 1 = n
  BY <1>2, <1>3
<1>4. CASE k + 1 \in 0..n-1
  <2>1. Beyond(Address(st, n), Address(st, k + 1)) /\ IsSequence(Address(st, k + 1))
    BY <1>0, <1>4, AddressBeyond, AddressFacts
  <2> QED BY <1>2, <2>1, BeyondBeyond
<1> QED BY <1>0, <1>3, <1>4

\* The cell at the cursor is that of the innermost open container.
LEMMA CursorCell ==
  ASSUME NEW st, NEW n, IsStack(st, n), n <= MaxValues
  PROVE  /\ OpenCell(st, n) \in CellsIn(st)
         /\ OpenCell(st, n).at = Address(st, n)
         /\ \A c \in CellsIn(st) : c.at = Address(st, n) => c = OpenCell(st, n)
<1>0. n \in Nat /\ n \in DOMAIN st /\ n \in 0..MaxValues
  BY MaxValuesAssumption DEF IsStack
<1>1. OpenCell(st, n) \in CellsIn(st)
  BY <1>0 DEF CellsIn, CellsAt
<1>2. OpenCell(st, n).at = Address(st, n)
  BY DEF OpenCell
<1>3. ASSUME NEW c \in CellsIn(st), c.at = Address(st, n), c # OpenCell(st, n) PROVE FALSE
  <2>1. c \in LowerCells(st, n) \/ c \in CellsAt(st, n)
    BY SplitCells
  <2>2. c \notin LowerCells(st, n)
    BY <1>3, BelowElsewhere DEF LowerCells
  <2>3. PICK s \in OpenSlots(st[n]) : \/ c = CellAt(Place(Address(st, n), s))
                                      \/ Beyond(c.at, Append(Address(st, n), s.slot.pos))
    BY <1>0, <1>3, <2>1, <2>2, Located
  <2> DEFINE d == Append(Address(st, n), s.slot.pos)
  <2>4. Len(d) = n + 1 /\ Len(Address(st, n)) = n
    BY <1>0, AddressFacts, AppendSequence
  <2>5. c.at = d \/ Beyond(c.at, d)
    BY <2>3 DEF CellAt, Place
  <2>6. Len(c.at) = n
    BY <1>3, <2>4
  <2> HIDE DEF d
  <2> QED BY <1>0, <2>4, <2>5, <2>6 DEF Beyond
<1> QED BY <1>1, <1>2, <1>3

\* The cells directly inside the cursor are those of the filled slots.
LEMMA ChildCells ==
  ASSUME NEW st, NEW n, IsStack(st, n), n <= MaxValues
  PROVE  {c \in CellsIn(st) : c.at # <<>> /\ c.at = Append(Address(st, n), c.at[Len(c.at)])}
           = {CellAt(p) : p \in OpenPlaces(st, n)}
<1> DEFINE a == Address(st, n)
           Child(c) == c.at # <<>> /\ c.at = Append(a, c.at[Len(c.at)])
<1>0. n \in Nat /\ n \in DOMAIN st /\ n \in 0..MaxValues
  BY MaxValuesAssumption DEF IsStack
<1>1. IsSequence(a) /\ Len(a) = n
  BY <1>0, AddressFacts
<1>2. ASSUME NEW c \in CellsIn(st), Child(c) PROVE \E p \in OpenPlaces(st, n) : c = CellAt(p)
  <2>1. PICK x : c.at = Append(a, x)
    BY <1>2
  <2>2. Beyond(c.at, a) /\ Len(c.at) = n + 1
    BY <1>1, <2>1, AppendBeyond, AppendSequence
  <2>3. c \in CellsAt(st, n)
    <3>1. c \in LowerCells(st, n) \/ c \in CellsAt(st, n)
      BY SplitCells
    <3>2. c \notin LowerCells(st, n)
      BY <2>2, BelowElsewhere DEF LowerCells
    <3> QED BY <3>1, <3>2
  <2>4. c # OpenCell(st, n)
    BY <1>0, <1>1, <2>2 DEF OpenCell
  <2>5. PICK s \in OpenSlots(st[n]) : \/ c = CellAt(Place(a, s))
                                      \/ Beyond(c.at, Append(a, s.slot.pos))
    BY <1>0, <2>3, <2>4, Located
  <2>6. Len(Append(a, s.slot.pos)) = n + 1
    BY <1>1, AppendSequence
  <2>7. c = CellAt(Place(a, s))
    BY <1>0, <2>2, <2>5, <2>6 DEF Beyond
  <2> QED BY <2>7 DEF OpenPlaces
<1>3. ASSUME NEW p \in OpenPlaces(st, n) PROVE CellAt(p) \in CellsIn(st) /\ Child(CellAt(p))
  <2>1. PICK s \in OpenSlots(st[n]) : p = Place(a, s)
    BY DEF OpenPlaces
  <2>2. CellAt(p).at = Append(a, s.slot.pos) /\ p.at = Append(a, s.slot.pos)
    BY <2>1 DEF CellAt, Place
  <2> DEFINE d == Append(a, s.slot.pos)
  <2>3. IsSequence(d) /\ Len(d) = n + 1 /\ d[n + 1] = s.slot.pos
    BY <1>1, AppendSequence
  <2>4. d # <<>>
    <3>1. Len(<<>>) = 0
      OBVIOUS
    <3> HIDE DEF d
    <3> QED BY <1>0, <2>3, <3>1
  <2>5. Child(CellAt(p))
    <3>1. d[Len(d)] = s.slot.pos
      BY <2>3
    <3>2. d = Append(a, d[Len(d)])
      BY <3>1
    <3> HIDE DEF d
    <3> QED BY <2>2, <2>4, <3>2 DEF d
  <2>6. CellAt(p) \in CellsOf(p)
    <3>1. Len(p.at) = n + 1 /\ IsSequence(p.at)
      BY <2>2, <2>3
    <3>2. MaxDepth - Len(p.at) \in 0..MaxDepth
      BY <1>0, <3>1, MaxValuesAssumption DEF MaxDepth
    <3>3. p \in Inside(p)[MaxDepth - Len(p.at)]
      BY <3>2, SelfInside
    <3> QED BY <3>3 DEF CellsOf
  <2>7. CellAt(p) \in CellsAt(st, n)
    BY <2>6 DEF CellsAt
  <2>8. CellAt(p) \in CellsIn(st)
    BY <1>0, <2>7 DEF CellsIn
  <2> QED BY <2>5, <2>8
<1> QED BY <1>2, <1>3

-----------------------------------------------------------------------------
(***************************************************************************)
(* How many cells are directly inside the cursor.                          *)
(***************************************************************************)
LEMMA CellsCounted ==
  ASSUME NEW a, IsSequence(a), NEW n \in Nat, NEW g,
         \A i, j \in 1..n : g[i].slot.pos = g[j].slot.pos => i = j
  PROVE  Cardinality({CellAt(Place(a, g[i])) : i \in 1..n}) = n
<1> DEFINE f == [i \in 1..n |-> CellAt(Place(a, g[i]))]
           T == {CellAt(Place(a, g[i])) : i \in 1..n}
<1>1. \A i \in 1..n : f[i] = CellAt(Place(a, g[i]))
  OBVIOUS
<1>2. f \in [1..n -> T]
  OBVIOUS
<1>3. \A i \in 1..n : f[i].at = Append(a, g[i].slot.pos)
  BY <1>1 DEF CellAt, Place
<1>4. \A x, y : Append(a, x) = Append(a, y) => x = y
  BY AppendSequence
<1>5. \A i, j \in 1..n : f[i] = f[j] => i = j
  <2> HIDE DEF f, T
  <2> QED BY <1>3, <1>4
<1>6. \A t \in T : \E i \in 1..n : f[i] = t
  BY <1>1
<1> HIDE DEF f, T
<1>7. f \in Bijection(1..n, T)
  BY <1>2, <1>5, <1>6 DEF Bijection, Injection, Surjection, IsInjective
<1>8. ExistsBijection(1..n, T)
  BY <1>7 DEF ExistsBijection
<1>9. Cardinality(T) = n
  BY <1>8, FS_CountingElements
<1> QED BY <1>9 DEF T

ChildrenOf(st, n) == {CellAt(p) : p \in OpenPlaces(st, n)}

Complete(c) == \A i \in 0..c.size-1 : HasValue(c.values[i])

LEMMA ChildrenCounted ==
  ASSUME NEW st, NEW n, IsStack(st, n)
  PROVE  /\ st[n].kind \in {"list", "record"}
              => Cardinality(ChildrenOf(st, n)) = Len(st[n].values)
         /\ st[n].kind = "tuple" /\ Complete(st[n])
              => Cardinality(ChildrenOf(st, n)) = st[n].size
<1> DEFINE c == st[n]
           a == Address(st, n)
<1>0. n \in Nat /\ IsContext(c) /\ IsSequence(a)
  BY AddressFacts DEF IsStack, Sound
<1> HIDE DEF c, a
<1>1. ASSUME NEW m \in Nat, NEW g, OpenSlots(c) = {g[i] : i \in 1..m},
             \A i, j \in 1..m : g[i].slot.pos = g[j].slot.pos => i = j
      PROVE  Cardinality(ChildrenOf(st, n)) = m
  <2>1. \A x : x \in ChildrenOf(st, n) <=> \E s \in OpenSlots(c) : x = CellAt(Place(a, s))
    BY DEF ChildrenOf, OpenPlaces, c, a
  <2>2. ChildrenOf(st, n) = {CellAt(Place(a, g[i])) : i \in 1..m}
    BY <1>1, <2>1
  <2>3. Cardinality({CellAt(Place(a, g[i])) : i \in 1..m}) = m
    BY <1>0, <1>1, CellsCounted
  <2> QED BY <2>2, <2>3
<1>2. CASE c.kind = "list"
  <2> DEFINE m == Len(c.values)
             g == [i \in 1..m |-> Filled(Position(i), c.values[i])]
  <2>1. m \in Nat
    BY <1>0, <1>2, ListSlots, SequenceFacts
  <2>2. OpenSlots(c) = {Filled(Position(i), c.values[i]) : i \in 1..m}
    BY <1>0, <1>2, ListSlots
  <2>3. \A i \in 1..m : g[i] = Filled(Position(i), c.values[i]) /\ g[i].slot.pos = i
    BY SlotFacts
  <2> HIDE DEF m, g
  <2>4. OpenSlots(c) = {g[i] : i \in 1..m}
    BY <2>2, <2>3
  <2>5. Cardinality(ChildrenOf(st, n)) = m
    <3>1. \A i, j \in 1..m : g[i].slot.pos = g[j].slot.pos => i = j
      BY <2>3
    <3> QED BY <1>1, <2>1, <2>4, <3>1
  <2>6. Cardinality(ChildrenOf(st, n)) = Len(c.values)
    BY <2>5 DEF m
  <2> QED BY <1>2, <2>6 DEF c
<1>3. CASE c.kind = "record"
  <2> DEFINE m == Len(c.values)
             g == [i \in 1..m |-> Filled(Named(i, c.fields[i]), c.values[i])]
  <2>1. m \in Nat
    BY <1>0, <1>3, RecordSlots, SequenceFacts
  <2>2. OpenSlots(c) = {Filled(Named(i, c.fields[i]), c.values[i]) : i \in 1..m}
    BY <1>0, <1>3, RecordSlots
  <2>3. \A i \in 1..m : g[i] = Filled(Named(i, c.fields[i]), c.values[i]) /\ g[i].slot.pos = i
    BY SlotFacts
  <2> HIDE DEF m, g
  <2>4. OpenSlots(c) = {g[i] : i \in 1..m}
    BY <2>2, <2>3
  <2>5. Cardinality(ChildrenOf(st, n)) = m
    <3>1. \A i, j \in 1..m : g[i].slot.pos = g[j].slot.pos => i = j
      BY <2>3
    <3> QED BY <1>1, <2>1, <2>4, <3>1
  <2> QED BY <1>3, <2>5 DEF m, c
<1>4. CASE c.kind = "tuple" /\ Complete(c)
  <2> DEFINE m == c.size
             g == [i \in 1..m |-> Filled(Position(i - 1), Get(c.values[i - 1]))]
  <2>1. m \in Nat
    BY <1>0, <1>4, TupleSlots
  <2>2. \A s : s \in OpenSlots(c)
                 <=> \E i \in 0..m-1 : s = Filled(Position(i), Get(c.values[i]))
    BY <1>0, <1>4, TupleSlots DEF Complete
  <2>3. \A i \in 1..m : g[i] = Filled(Position(i - 1), Get(c.values[i - 1])) /\ g[i].slot.pos = i - 1
    BY SlotFacts
  <2> HIDE DEF m, g
  <2>4. \A s : s \in OpenSlots(c) <=> \E i \in 1..m : s = g[i]
    <3>1. ASSUME NEW s, NEW i \in 0..m-1, s = Filled(Position(i), Get(c.values[i]))
          PROVE  \E k \in 1..m : s = g[k]
      <4>1. i + 1 \in 1..m /\ (i + 1) - 1 = i
        BY <2>1
      <4>2. g[i+1] = Filled(Position(i), Get(c.values[i]))
        BY <2>3, <4>1
      <4> QED BY <3>1, <4>1, <4>2
    <3>2. \A k \in 1..m : k - 1 \in 0..m-1
      BY <2>1
    <3> QED BY <2>2, <2>3, <3>1, <3>2
  <2>5. OpenSlots(c) = {g[i] : i \in 1..m}
    BY <2>4
  <2>6. \A i, j \in 1..m : g[i].slot.pos = g[j].slot.pos => i = j
    BY <2>1, <2>3
  <2>7. Cardinality(ChildrenOf(st, n)) = m
    BY <1>1, <2>1, <2>5, <2>6
  <2> QED BY <1>4, <2>7 DEF m, c
<1>5. c = st[n]
  BY DEF c
<1> QED BY <1>2, <1>3, <1>4, <1>5

-----------------------------------------------------------------------------
(***************************************************************************)
(* The stack of a builder.                                                 *)
(***************************************************************************)
SoundStack(cs) == \A k \in 1..Len(cs) : Sound(cs[k])

LEMMA FinishedValues ==
  ASSUME NEW vs, IsSequence(vs)
  PROVE  /\ Sound(ListContext(vs))
         /\ HasSlot(ListContext(vs))
BY DEF Sound, HasSlot, IsContext, IsListContext, ListContext

LEMMA StackFacts ==
  ASSUME NEW vs, NEW cs, IsSequence(cs)
  PROVE  /\ Len(cs) \in Nat
         /\ DOMAIN StackOf(vs, cs) = 0..Len(cs)
         /\ StackOf(vs, cs)[0] = ListContext(vs)
         /\ \A k \in 1..Len(cs) : StackOf(vs, cs)[k] = cs[k]
BY SequenceFacts DEF StackOf

LEMMA StackIsStack ==
  ASSUME NEW vs, NEW cs, IsSequence(vs), GoodStack(cs), SoundStack(cs)
  PROVE  IsStack(StackOf(vs, cs), Len(cs))
<1>0. IsSequence(cs)
  BY DEF GoodStack
<1>1. /\ Len(cs) \in Nat
      /\ DOMAIN StackOf(vs, cs) = 0..Len(cs)
      /\ StackOf(vs, cs)[0] = ListContext(vs)
      /\ \A k \in 1..Len(cs) : StackOf(vs, cs)[k] = cs[k]
  BY <1>0, StackFacts
<1>2. ASSUME NEW k \in 0..Len(cs) PROVE Sound(StackOf(vs, cs)[k])
  BY <1>1, FinishedValues DEF SoundStack
<1>3. ASSUME NEW k \in 0..Len(cs)-1 PROVE HasSlot(StackOf(vs, cs)[k])
  BY <1>1, FinishedValues DEF GoodStack
<1> QED BY <1>1, <1>2, <1>3 DEF IsStack

\* What append_value does to the stack, the finished values included.
LEMMA Accepted ==
  ASSUME NEW cs, NEW v, GoodStack(cs), IsSequence(values), AppendValue(cs, v), outcome' = "ok"
  PROVE  /\ Len(contexts') = Len(cs)
         /\ SameBelow(StackOf(values', contexts'), StackOf(values, cs), Len(cs))
         /\ HasSlot(StackOf(values, cs)[Len(cs)])
         /\ StackOf(values', contexts')[Len(cs)] = Received(StackOf(values, cs)[Len(cs)], v)
<1>0. IsSequence(cs) /\ Len(cs) \in Nat
  BY SequenceFacts DEF GoodStack
<1>1. CASE cs = <<>> /\ values' = Append(values, v) /\ contexts' = cs
  <2>1. Len(cs) = 0
    BY <1>1
  <2>2. StackOf(values, cs)[0] = ListContext(values) /\ StackOf(values', contexts')[0] = ListContext(values')
    BY <1>0, <1>1, StackFacts
  <2>3. Received(ListContext(values), v) = ListContext(values')
    BY <1>1 DEF Received, ListContext
  <2> QED BY <1>1, <2>1, <2>2, <2>3, FinishedValues DEF SameBelow
<1>2. CASE /\ cs # <<>>
           /\ EnsureAcceptsValue(cs)
           /\ contexts' = SetTop(cs, Received(Last(cs), v))
           /\ UNCHANGED values
  <2> DEFINE d == Received(Last(cs), v)
  <2>1. /\ IsSequence(contexts') /\ Len(contexts') = Len(cs)
        /\ \A k \in 1..Len(cs)-1 : contexts'[k] = cs[k]
        /\ contexts'[Len(cs)] = d
    BY <1>0, <1>2, SetTopSequence
  <2>2. Len(cs) > 0 /\ Last(cs) = cs[Len(cs)]
    BY <1>0, <1>2, SequenceFacts DEF Last
  <2>3. StackOf(values, cs)[0] = ListContext(values) /\ StackOf(values', contexts')[0] = ListContext(values)
    BY <1>0, <1>2, <2>1, StackFacts
  <2>4. /\ \A k \in 1..Len(cs) : StackOf(values, cs)[k] = cs[k]
        /\ \A k \in 1..Len(cs) : StackOf(values', contexts')[k] = contexts'[k]
    BY <1>0, <2>1, StackFacts
  <2>5. ASSUME NEW k \in 0..Len(cs)-1
        PROVE  StackOf(values', contexts')[k] = StackOf(values, cs)[k]
    BY <1>0, <2>1, <2>3, <2>4
  <2>6. StackOf(values', contexts')[Len(cs)] = d /\ StackOf(values, cs)[Len(cs)] = Last(cs)
    BY <1>0, <2>1, <2>2, <2>4
  <2>7. HasSlot(Last(cs))
    BY <1>2 DEF EnsureAcceptsValue
  <2> QED BY <2>1, <2>5, <2>6, <2>7 DEF SameBelow
<1> QED BY <1>1, <1>2 DEF AppendValue, Report, OutOfMemory

-----------------------------------------------------------------------------
(***************************************************************************)
(* What the document sees of a builder state.                              *)
(***************************************************************************)
Depth == Len(contexts)
Top   == Stack[Depth]

ReadableState == IsStack(Stack, Depth) /\ Depth <= MaxValues

LEMMA LabelAtCursor ==
  ASSUME ReadableState
  PROVE  Document!LabelAt(Cursor) = ContextLabel(Top)
<1>1. /\ OpenCell(Stack, Depth) \in Cells
      /\ OpenCell(Stack, Depth).at = Cursor
      /\ \A c \in Cells : c.at = Cursor => c = OpenCell(Stack, Depth)
  BY CursorCell DEF ReadableState, Cells, Cursor, Depth
<1>2. (CHOOSE c \in Cells : c.at = Cursor) = OpenCell(Stack, Depth)
  BY <1>1
<1>3. Document!LabelAt(Cursor) = (CHOOSE c \in Cells : c.at = Cursor).is
  BY DEF Document!LabelAt
<1>4. OpenCell(Stack, Depth).is = ContextLabel(Top)
  BY DEF OpenCell, Top
<1> QED BY <1>2, <1>3, <1>4

LEMMA ChildrenOfCursor ==
  ASSUME ReadableState
  PROVE  Document!Children(Cursor) = ChildrenOf(Stack, Depth)
BY ChildCells DEF ReadableState, Document!Children, ChildrenOf, Cells, Cursor, Depth

\* The two modules count with the same operator.
LEMMA SameCount ==
  ASSUME NEW S
  PROVE  Document!Cardinality(S) = Cardinality(S)
BY DEF Document!Cardinality, Cardinality

LEMMA NextSlotOfTop ==
  ASSUME ReadableState
  PROVE  Document!NextSlot = ReservedSlot(Top)
<1>0. IsContext(Top)
  BY DEF ReadableState, Top, IsStack, Sound
<1>1. Document!LabelAt(Cursor).kind = Top.kind
  BY <1>0, LabelAtCursor, ThreeKinds DEF ContextLabel
<1>2. CASE Top.kind = "list"
  <2>1. Document!Cardinality(Document!Children(Cursor)) = Len(Top.values)
    BY <1>2, ChildrenOfCursor, ChildrenCounted, SameCount DEF ReadableState, Top
  <2>2. ReservedSlot(Top) = Some(Position(Len(Top.values) + 1))
    BY <1>0, <1>2, ListSlots
  <2> QED BY <1>1, <1>2, <2>1, <2>2 DEF Document!NextSlot, Document!Position, Position, Some, None
<1>3. CASE Top.kind # "list"
  BY <1>1, <1>3 DEF Document!NextSlot, ChosenSlot, Top, Depth
<1> QED BY <1>2, <1>3

\* One cell more, in the slot that the innermost open container holds.
LEMMA AddsCell ==
  ASSUME ReadableState, HasSlot(Top), NEW label, NEW opens \in BOOLEAN,
         Cells' = Cells \cup {[at |-> Address(Stack, Depth + 1), name |-> Free(Top).name, is |-> label]},
         Cursor' = IF opens THEN Address(Stack, Depth + 1) ELSE Cursor,
         ChosenSlot' = None
  PROVE  Document!Add(label, opens)
<1>1. Document!NextSlot # <<>> /\ Document!NextSlot[1] = Free(Top)
  <2>1. ReservedSlot(Top) # None
    BY DEF ReservedSlot, HasSlot, Some, None
  <2> QED BY <2>1, NextSlotOfTop DEF None, Free, Get
<1>2. Address(Stack, Depth + 1) = Append(Cursor, Free(Top).pos)
  BY AddressNext DEF ReadableState, IsStack, Cursor, Top, Depth
<1> QED BY <1>1, <1>2 DEF Document!Add, None

-----------------------------------------------------------------------------
(***************************************************************************)
(* What is needed to read a document off a builder, also when allocations  *)
(* fail: no chosen slot has a value, and no more containers are open than  *)
(* were begun.                                                             *)
(***************************************************************************)
ReadableInv ==
  /\ BuilderInv
  /\ SoundStack(contexts)
  /\ Len(contexts) <= appended

LEMMA InvIsReadable ==
  ASSUME ReadableInv
  PROVE  /\ ReadableState
         /\ GoodStack(contexts) /\ IsSequence(contexts) /\ IsSequence(values)
         /\ Depth \in Nat
         /\ appended \in Nat
<1>1. GoodStack(contexts) /\ IsSequence(values) /\ IsSequence(contexts)
  BY InvIsGoodStack DEF ReadableInv, GoodStack
<1>2. Depth \in Nat /\ Depth <= appended /\ appended \in Nat /\ appended <= MaxValues
  BY <1>1, SequenceFacts, MaxValuesAssumption DEF ReadableInv, Depth, BuilderInv, TypeOK
<1>3. IsStack(Stack, Depth)
  BY <1>1, StackIsStack DEF ReadableInv, Stack, Depth
<1> QED BY <1>1, <1>2, <1>3, MaxValuesAssumption DEF ReadableState

LEMMA ReadableAfter == ReadableInv' => ReadableState'
<1>1. ReadableInv => ReadableState
  BY InvIsReadable
<1> QED BY <1>1, PTL

LEMMA SoundTop ==
  ASSUME NEW st, NEW c, GoodStack(st), st # <<>>, SoundStack(st), Sound(c)
  PROVE  SoundStack(SetTop(st, c)) /\ Len(SetTop(st, c)) = Len(st)
BY SetTopSequence, SequenceFacts DEF SoundStack, GoodStack

LEMMA SoundLast ==
  ASSUME NEW st, GoodStack(st), st # <<>>, SoundStack(st)
  PROVE  Sound(Last(st))
BY TopIsContext, SequenceFacts DEF SoundStack, GoodStack

LEMMA NameWithoutValueIsSound ==
  ASSUME NEW c, Sound(c), HasSlot(c), c.kind = "record"
  PROVE  /\ Sound(NameWithoutValue(c))
         /\ OpenSlots(NameWithoutValue(c)) = OpenSlots(c)
         /\ ContextLabel(NameWithoutValue(c)) = ContextLabel(c)
<1> DEFINE d == NameWithoutValue(c)
           name == Get(c.pending_field)
           fs == Append(c.fields, name)
<1>0. IsContext(c) /\ IsContext(d)
  BY NameWithoutValueIsContext DEF Sound
<1>1. d.kind = "record" /\ d.fields = fs /\ d.values = c.values
  BY DEF NameWithoutValue, RecordContext
<1>2. /\ Len(c.values) \in Nat /\ Len(c.fields) \in Nat /\ Len(c.values) <= Len(c.fields)
      /\ Len(fs) = Len(c.fields) + 1
      /\ \A i \in 1..Len(c.fields) : fs[i] = c.fields[i]
  BY <1>0, RecordSlots, TypedIsSequence, AppendSequence, SequenceFacts DEF Sound
<1>3. OpenSlots(d) = {Filled(Named(i, fs[i]), c.values[i]) : i \in 1..Len(c.values)}
  <2> HIDE DEF d, fs
  <2> QED BY <1>0, <1>1, RecordSlots
<1>4. OpenSlots(c) = {Filled(Named(i, c.fields[i]), c.values[i]) : i \in 1..Len(c.values)}
  BY <1>0, RecordSlots
<1> HIDE DEF d, fs
<1>5. \A i \in 1..Len(c.values) : fs[i] = c.fields[i]
  BY <1>2
<1>6. OpenSlots(d) = OpenSlots(c)
  BY <1>3, <1>4, <1>5
<1>7. Sound(d)
  BY <1>0, <1>1, <1>2 DEF Sound
<1>8. ContextLabel(d) = ContextLabel(c)
  BY <1>1 DEF ContextLabel
<1> QED BY <1>6, <1>7, <1>8 DEF d

LEMMA SoundAppendValue ==
  ASSUME NEW st, NEW v, GoodStack(st), SoundStack(st), AppendValue(st, v)
  PROVE  SoundStack(contexts') /\ Len(contexts') = Len(st)
<1>1. CASE contexts' = st
  BY <1>1
<1>2. CASE /\ st # <<>>
           /\ EnsureAcceptsValue(st)
           /\ contexts' = SetTop(st, Received(Last(st), v))
  BY <1>2, SoundLast, ReceivedGains, SoundTop DEF EnsureAcceptsValue
<1>3. CASE /\ TopIs(st, "record")
           /\ EnsureAcceptsValue(st)
           /\ contexts' = SetTop(st, NameWithoutValue(Last(st)))
  BY <1>3, SoundLast, NameWithoutValueIsSound, SoundTop DEF EnsureAcceptsValue, TopIs
<1> QED BY <1>1, <1>2, <1>3 DEF AppendValue

LEMMA SoundFront ==
  ASSUME NEW st, GoodStack(st), SoundStack(st), st # <<>>
  PROVE  /\ GoodStack(Front(st)) /\ SoundStack(Front(st))
         /\ Len(Front(st)) = Len(st) - 1
<1>1. /\ GoodStack(Front(st)) /\ Len(st) \in Nat
      /\ Len(Front(st)) = Len(st) - 1
      /\ \A k \in 1..Len(st)-1 : Front(st)[k] = st[k]
  BY PoppedStack, FrontSequence, SequenceFacts DEF GoodStack
<1>2. \A k \in 1..Len(st)-1 : k \in 1..Len(st)
  BY <1>1
<1> QED BY <1>1, <1>2 DEF SoundStack

LEMMA NewContextsAreSound ==
  /\ Sound(ListContext(<<>>)) /\ OpenSlots(ListContext(<<>>)) = {}
  /\ \A n \in 0..MaxTupleSize : Sound(NewTuple(n)) /\ OpenSlots(NewTuple(n)) = {}
  /\ Sound(NewRecord) /\ OpenSlots(NewRecord) = {}
<1>1. Sound(ListContext(<<>>)) /\ OpenSlots(ListContext(<<>>)) = {}
  <2>1. Sound(ListContext(<<>>))
    BY NewContexts DEF Sound, ListContext
  <2>2. OpenSlots(ListContext(<<>>)) = {}
    BY DEF OpenSlots, Slots, ListContext
  <2> QED BY <2>1, <2>2
<1>2. ASSUME NEW n \in 0..MaxTupleSize PROVE Sound(NewTuple(n)) /\ OpenSlots(NewTuple(n)) = {}
  <2> DEFINE c == NewTuple(n)
             vs == [i \in 0..n-1 |-> None]
  <2>1. c.kind = "tuple" /\ c.selected = None /\ c.values = vs /\ c.size = n
    BY DEF NewTuple, TupleContext
  <2>2. Sound(c)
    BY <2>1, NewContexts DEF Sound, HasValue
  <2>3. \A i \in 0..n-1 : ~HasValue(vs[i])
    BY DEF HasValue
  <2> HIDE DEF c, vs
  <2>4. \A s : s \notin OpenSlots(c)
    <3>1. IsContext(c)
      BY <2>2 DEF Sound
    <3>2. \A s : s \in OpenSlots(c)
                  <=> \E i \in 0..c.size-1 : HasValue(c.values[i]) /\ s = Filled(Position(i), Get(c.values[i]))
      BY <2>1, <3>1, TupleSlots
    <3> QED BY <2>1, <2>3, <3>2
  <2> QED BY <2>2, <2>4 DEF c
<1>3. Sound(NewRecord)
  BY NewContexts DEF Sound, NewRecord, RecordContext
<1>4. OpenSlots(NewRecord) = {}
  BY DEF OpenSlots, Slots, NewRecord, RecordContext
<1> QED BY <1>1, <1>2, <1>3, <1>4

LEMMA SoundBegin ==
  ASSUME ReadableInv, NEW c, Sound(c), Begin(c)
  PROVE  SoundStack(contexts') /\ Len(contexts') <= appended'
<1>0. GoodStack(contexts) /\ IsSequence(contexts) /\ Len(contexts) \in Nat /\ appended \in Nat
  BY InvIsReadable DEF Depth
<1>1. CASE UNCHANGED <<contexts, appended>>
  BY <1>1 DEF ReadableInv, SoundStack
<1>2. CASE contexts' = Append(contexts, c) /\ appended' = appended + 1
  <2>1. /\ Len(contexts') = Len(contexts) + 1
        /\ \A k \in 1..Len(contexts) : contexts'[k] = contexts[k]
        /\ contexts'[Len(contexts) + 1] = c
    BY <1>0, <1>2, AppendSequence
  <2>2. \A k \in 1..Len(contexts') : k \in 1..Len(contexts) \/ k = Len(contexts) + 1
    BY <1>0, <2>1
  <2>3. SoundStack(contexts')
    BY <2>1, <2>2 DEF ReadableInv, SoundStack
  <2>4. Len(contexts') <= appended'
    BY <1>0, <1>2, <2>1 DEF ReadableInv
  <2> QED BY <2>3, <2>4
<1> QED BY <1>1, <1>2 DEF Begin, Throw, ThrowOutOfMemory

\* The tuple with a slot chosen, the record with a name.
LEMMA ChosenIndex ==
  ASSUME NEW c, Sound(c), c.kind = "tuple", NEW i \in Nat, i < c.size,
         ~HasValue(c.selected), ~HasValue(c.values[i]),
         NEW d, d = TupleContext(c.size, c.values, Some(i))
  PROVE  /\ Sound(d) /\ d.kind = "tuple"
         /\ OpenSlots(d) = OpenSlots(c)
         /\ ContextLabel(d) = ContextLabel(c)
         /\ ReservedSlot(d) = Some(Position(i))
<1>1. d.kind = "tuple" /\ d.values = c.values /\ d.size = c.size /\ d.selected = Some(i)
  BY DEF TupleContext
<1>2. IsTupleContext(c)
  BY DEF Sound, IsContext
<1>3. i \in 0..c.size-1
  BY <1>2, MaxTupleAssumption DEF IsTupleContext
<1>4. IsContext(d)
  BY <1>2, <1>3 DEF IsContext, IsTupleContext, TupleContext
<1>5. HasValue(d.selected) /\ Get(d.selected) = i
  BY <1>1 DEF HasValue, Some, None, Get
<1>6. Sound(d)
  BY <1>1, <1>4, <1>5 DEF Sound
<1>7. OpenSlots(d) = OpenSlots(c) /\ ContextLabel(d) = ContextLabel(c)
  BY <1>1 DEF OpenSlots, ContextLabel
<1>8. ReservedSlot(d) = Some(Position(i))
  BY <1>1, <1>5 DEF ReservedSlot
<1> QED BY <1>1, <1>6, <1>7, <1>8

LEMMA ChosenField ==
  ASSUME NEW c, Sound(c), c.kind = "record", NEW name \in Names \cup {EmptyName},
         NEW d, d = RecordContext(c.fields, c.values, Some(name))
  PROVE  /\ Sound(d) /\ d.kind = "record"
         /\ OpenSlots(d) = OpenSlots(c)
         /\ ContextLabel(d) = ContextLabel(c)
         /\ ReservedSlot(d) = Some(Named(Len(c.values) + 1, name))
<1>1. d.kind = "record" /\ d.values = c.values /\ d.fields = c.fields /\ d.pending_field = Some(name)
  BY DEF RecordContext
<1>2. IsRecordContext(c)
  BY DEF Sound, IsContext
<1>3. IsContext(d)
  BY <1>2 DEF IsContext, IsRecordContext, RecordContext
<1>4. HasValue(d.pending_field) /\ Get(d.pending_field) = name
  <2>1. HasValue(Some(name)) /\ Get(Some(name)) = name
    BY DEF HasValue, Some, None, Get
  <2> QED BY <1>1, <2>1
<1>5. Sound(d)
  BY <1>1, <1>3 DEF Sound
<1>6. OpenSlots(d) = OpenSlots(c) /\ ContextLabel(d) = ContextLabel(c)
  BY <1>1 DEF OpenSlots, Slots, ContextLabel
<1>7. ReservedSlot(d) = Some(Named(Len(c.values) + 1, name))
  BY <1>1, <1>4 DEF ReservedSlot
<1> QED BY <1>1, <1>5, <1>6, <1>7

LEMMA SoundNext ==
  ASSUME ReadableInv, Next
  PROVE  SoundStack(contexts') /\ Len(contexts') <= appended'
<1> DEFINE Kept == SoundStack(contexts') /\ Len(contexts') <= appended'
<1>0. /\ GoodStack(contexts) /\ SoundStack(contexts) /\ Len(contexts) <= appended
      /\ Len(contexts) \in Nat /\ appended \in Nat
  BY InvIsReadable DEF Depth, ReadableInv
<1>1. ASSUME UNCHANGED <<contexts, appended>> PROVE Kept
  BY <1>0, <1>1 DEF SoundStack
<1>2. ASSUME ThrowOutOfMemory \/ \E e : Throw(e) PROVE Kept
  BY <1>1, <1>2 DEF Throw, ThrowOutOfMemory
<1>3. ASSUME NEW v, contexts # <<>>, Deliver(v) PROVE Kept
  BY <1>0, <1>3, SoundFront, SoundAppendValue DEF Deliver
<1>4. ASSUME NEW x \in Scalars, Scalar(x) PROVE Kept
  <2>1. CASE AppendValue(contexts, ScalarValue(x)) /\ CountIfAdded
    BY <1>0, <2>1, SoundAppendValue DEF CountIfAdded
  <2> QED BY <1>2, <1>4, <2>1 DEF Scalar
<1>5. ASSUME NEW c, Sound(c), Begin(c) PROVE Kept
  BY <1>5, SoundBegin
<1>6. CASE EndList
  BY <1>2, <1>3, <1>6 DEF EndList, TopIs
<1>7. ASSUME NEW i \in 0..MaxTupleSize, Index(i) PROVE Kept
  <2> DEFINE c == Last(contexts)
             d == TupleContext(c.size, c.values, Some(i))
  <2>1. CASE /\ TopIs(contexts, "tuple")
             /\ i < c.size /\ ~HasValue(c.selected) /\ ~HasValue(c.values[i])
             /\ contexts' = SetTop(contexts, d)
             /\ UNCHANGED appended
    <3>1. Sound(c) /\ c.kind = "tuple" /\ contexts # <<>>
      BY <1>0, <2>1, SoundLast DEF TopIs
    <3>2. Sound(d)
      BY <2>1, <3>1, ChosenIndex, MaxTupleAssumption
    <3> HIDE DEF c, d
    <3> QED BY <1>0, <2>1, <3>1, <3>2, SoundTop
  <2> QED BY <1>2, <1>7, <2>1 DEF Index
<1>8. CASE EndTuple
  <2>1. CASE TopIs(contexts, "tuple") /\ contexts' = Front(contexts) /\ UNCHANGED appended
    BY <1>0, <2>1, SoundFront DEF TopIs
  <2> QED BY <1>2, <1>3, <1>8, <2>1 DEF EndTuple, TopIs
<1>9. ASSUME NEW name \in Names \cup {EmptyName}, Field(name) PROVE Kept
  <2> DEFINE c == Last(contexts)
             d == RecordContext(c.fields, c.values, Some(name))
  <2>1. CASE /\ TopIs(contexts, "record")
             /\ contexts' = SetTop(contexts, d)
             /\ UNCHANGED appended
    <3>1. Sound(c) /\ c.kind = "record" /\ contexts # <<>>
      BY <1>0, <2>1, SoundLast DEF TopIs
    <3>2. Sound(d)
      BY <3>1, ChosenField
    <3> HIDE DEF c, d
    <3> QED BY <1>0, <2>1, <3>1, <3>2, SoundTop
  <2> QED BY <1>2, <1>9, <2>1 DEF Field
<1>10. CASE EndRecord
  BY <1>2, <1>3, <1>10 DEF EndRecord, TopIs
<1>11. CASE Snapshot
  BY <1>1, <1>2, <1>11 DEF Snapshot
<1> QED BY <1>4, <1>5, <1>6, <1>7, <1>8, <1>9, <1>10, <1>11, NewContextsAreSound
        DEF Next, BeginList, BeginTuple, BeginRecord

LEMMA ReadableInit == Init => ReadableInv
<1> SUFFICES ASSUME Init PROVE ReadableInv
  OBVIOUS
<1>1. contexts = <<>> /\ Len(<<>>) = 0 /\ appended = 0
  BY DEF Init
<1> QED BY <1>1, InitInv DEF ReadableInv, SoundStack

LEMMA ReadableNext == ReadableInv /\ [Next]_vars => ReadableInv'
<1> SUFFICES ASSUME ReadableInv, [Next]_vars PROVE ReadableInv'
  OBVIOUS
<1>1. BuilderInv'
  BY NextInv DEF ReadableInv
<1>2. CASE Next
  BY <1>1, <1>2, SoundNext DEF ReadableInv
<1>3. CASE UNCHANGED vars
  BY <1>1, <1>3 DEF vars, ReadableInv, SoundStack
<1> QED BY <1>2, <1>3

LEMMA ReadableHolds == Spec => []ReadableInv
BY ReadableInit, ReadableNext, PTL DEF Spec

-----------------------------------------------------------------------------
(***************************************************************************)
(* Every call writes what the document says.                               *)
(***************************************************************************)
\* The states before and after a step.
Readable == ReadableInv /\ ReadableInv'

LEMMA FreshTopOfStack ==
  ASSUME ReadableInv, SlotsAreFresh
  PROVE  \A k \in 0..Depth : IsFresh(Stack[k])
<1>1. /\ Stack[0] = ListContext(values)
      /\ \A k \in 1..Depth : Stack[k] = contexts[k]
  BY InvIsReadable, StackFacts DEF Stack, Depth
<1>2. IsFresh(ListContext(values))
  BY DEF IsFresh, ListContext
<1> QED BY <1>1, <1>2, InvIsReadable DEF SlotsAreFresh, Depth

LEMMA TopOfContexts ==
  ASSUME ReadableInv, contexts # <<>>
  PROVE  /\ Depth \in Nat \ {0}
         /\ Top = Last(contexts)
         /\ Sound(Top)
<1>1. Depth \in Nat \ {0} /\ Last(contexts) = contexts[Depth]
  BY InvIsReadable, SequenceFacts DEF Depth, Last
<1>2. Stack[Depth] = contexts[Depth]
  BY <1>1, InvIsReadable, StackFacts DEF Stack, Depth
<1>3. Sound(Top)
  BY <1>1, InvIsReadable DEF ReadableState, IsStack, Top
<1> QED BY <1>1, <1>2, <1>3 DEF Top

LEMMA FreeIsSlot ==
  ASSUME NEW c, IsContext(c), HasSlot(c)
  PROVE  Free(c) = [pos |-> Free(c).pos, name |-> Free(c).name]
<1>1. (\E k : Free(c) = Position(k)) \/ \E k, name : Free(c) = Named(k, name)
  <2>1. CASE c.kind = "list"
    BY <2>1, ListSlots
  <2>2. CASE c.kind = "tuple"
    BY <2>2, TupleSlots
  <2>3. CASE c.kind = "record"
    BY <2>3, RecordSlots
  <2> QED BY <2>1, <2>2, <2>3, ThreeKinds
<1> QED BY <1>1 DEF Position, Named

\* A fresh container gains the value under the name chosen for it.
LEMMA FreshGains ==
  ASSUME NEW c, NEW v, Sound(c), HasSlot(c), IsFresh(c)
  PROVE  OpenSlots(Received(c, v)) = OpenSlots(c) \cup {Filled(Free(c), v)}
<1>1. Gained(Received(c, v), c, v)
  BY ReceivedGains
<1>2. PICK name : /\ OpenSlots(Received(c, v)) = OpenSlots(c)
                        \cup {Filled([pos |-> Free(c).pos, name |-> name], v)}
                  /\ name = Free(c).name
  BY <1>1 DEF Gained
<1>3. Free(c) = [pos |-> Free(c).pos, name |-> Free(c).name]
  BY FreeIsSlot DEF Sound
<1> QED BY <1>2, <1>3

\* Nothing is chosen in a container that has just received a value.
LEMMA NothingChosen ==
  ASSUME NEW c, NEW v, Sound(c), HasSlot(c), NEW d, d = Received(c, v)
  PROVE  (IF d.kind = "list" THEN None ELSE ReservedSlot(d)) = None
BY ReceivedGains

LEMMA SlotOfTop == ChosenSlot = IF Top.kind = "list" THEN None ELSE ReservedSlot(Top)
BY DEF ChosenSlot, Top, Depth

LEMMA SlotOfTopAfter == ChosenSlot' = IF Top'.kind = "list" THEN None ELSE ReservedSlot(Top')
BY DEF ChosenSlot, Top, Depth

LEMMA ScalarWrites ==
  ASSUME Readable, SlotsAreFresh, NEW x \in Scalars, AppendValue(contexts, ScalarValue(x)), outcome' = "ok"
  PROVE  Document!Add(Document!ScalarLabel(x), FALSE)
<1> DEFINE v == ScalarValue(x)
<1>0. /\ ReadableState /\ ReadableState' /\ GoodStack(contexts) /\ IsSequence(values)
      /\ Depth \in Nat /\ Depth <= MaxValues
  <2>1. ReadableState'
    BY ReadableAfter DEF Readable
  <2> QED BY <2>1, InvIsReadable DEF Readable, ReadableState
<1>1. /\ Depth' = Depth
      /\ SameBelow(Stack', Stack, Depth)
      /\ HasSlot(Top)
      /\ Stack'[Depth] = Received(Top, v)
  BY <1>0, Accepted DEF Stack, Depth, Top
<1>2. Sound(Top) /\ IsFresh(Top)
  BY <1>0, FreshTopOfStack DEF Readable, ReadableState, IsStack, Top
<1>3. /\ OpenSlots(Stack'[Depth]) = OpenSlots(Stack[Depth]) \cup {Filled(Free(Top), v)}
      /\ ContextLabel(Stack'[Depth]) = ContextLabel(Stack[Depth])
  BY <1>1, <1>2, FreshGains, ReceivedGains DEF Top
<1>4. IsStack(Stack, Depth) /\ IsStack(Stack', Depth)
  BY <1>0, <1>1 DEF ReadableState
<1>5. Cells' = Cells \cup CellsOf(Place(Address(Stack, Depth), Filled(Free(Top), v)))
  BY <1>1, <1>3, <1>4, GrownStack DEF Cells
<1>6. CellsOf(Place(Address(Stack, Depth), Filled(Free(Top), v)))
        = {[at |-> Address(Stack, Depth + 1), name |-> Free(Top).name, is |-> Document!ScalarLabel(x)]}
  <2>1. Slots(v) = {} /\ LabelOf(v) = Document!ScalarLabel(x)
    BY DEF Slots, LabelOf, ScalarValue, Document!ScalarLabel
  <2> QED BY <1>0, <2>1, ScalarCells DEF Top
<1>7. Cursor' = Cursor
  BY <1>0, <1>1, SameAddress DEF Cursor, Depth
<1>8. ChosenSlot' = None
  <2>1. Top' = Received(Top, v)
    BY <1>1 DEF Top
  <2> QED BY <1>1, <1>2, <2>1, NothingChosen, SlotOfTopAfter
<1> QED BY <1>0, <1>1, <1>5, <1>6, <1>7, <1>8, AddsCell

LEMMA BeginWrites ==
  ASSUME Readable, NEW c, Sound(c), OpenSlots(c) = {}, ReservedSlot(c) = None \/ c.kind = "list",
         EnsureAcceptsValue(contexts), contexts' = Append(contexts, c), UNCHANGED values
  PROVE  /\ Document!Add(ContextLabel(c), TRUE)
         /\ HasSlot(Top)
         /\ Cells' = Cells \cup {[at |-> Address(Stack, Depth + 1), name |-> Free(Top).name,
                                 is |-> ContextLabel(c)]}
<1>0. /\ ReadableState /\ ReadableState' /\ IsSequence(contexts)
      /\ Depth \in Nat /\ Depth <= MaxValues
  <2>1. ReadableState'
    BY ReadableAfter DEF Readable
  <2> QED BY <2>1, InvIsReadable DEF Readable, ReadableState
<1>1. /\ IsSequence(contexts') /\ Depth' = Depth + 1
      /\ \A k \in 1..Depth : contexts'[k] = contexts[k]
      /\ contexts'[Depth + 1] = c
  BY <1>0, AppendSequence DEF Depth
<1>2. /\ Stack[0] = ListContext(values)
      /\ \A k \in 1..Depth : Stack[k] = contexts[k]
      /\ Stack'[0] = ListContext(values)
      /\ \A k \in 1..Depth+1 : Stack'[k] = contexts'[k]
  <2>1. Stack'[0] = ListContext(values') /\ \A k \in 1..Len(contexts') : Stack'[k] = contexts'[k]
    BY <1>1, StackFacts DEF Stack
  <2>3. Len(contexts') = Depth + 1
    BY <1>1 DEF Depth
  <2>2. Stack[0] = ListContext(values) /\ \A k \in 1..Depth : Stack[k] = contexts[k]
    BY <1>0, StackFacts DEF Stack, Depth
  <2> QED BY <2>1, <2>2, <2>3
<1>3. SameBelow(Stack', Stack, Depth + 1) /\ Stack'[Depth + 1] = c
  <2>1. ASSUME NEW k \in 0..(Depth+1)-1 PROVE Stack'[k] = Stack[k]
    <3>1. k = 0 \/ k \in 1..Depth
      BY <1>0
    <3>2. k \in 1..Depth => k \in 1..Depth+1
      BY <1>0
    <3> QED BY <1>1, <1>2, <3>1, <3>2
  <2>2. Depth + 1 \in 1..Depth+1
    BY <1>0
  <2> QED BY <1>1, <1>2, <2>1, <2>2 DEF SameBelow
<1>4. HasSlot(Top)
  <2>1. CASE contexts = <<>>
    <3>1. Depth = 0
      BY <2>1 DEF Depth
    <3> QED BY <1>2, <3>1, InvIsReadable, FinishedValues DEF Readable, Top
  <2>2. CASE contexts # <<>>
    BY <2>2, TopOfContexts DEF Readable, EnsureAcceptsValue
  <2> QED BY <2>1, <2>2
<1>5. IsStack(Stack, Depth) /\ IsStack(Stack', Depth + 1)
  BY <1>0, <1>1 DEF ReadableState
<1>6. Cells' = Cells \cup {[at |-> Address(Stack, Depth + 1), name |-> Free(Top).name,
                            is |-> ContextLabel(c)]}
  BY <1>3, <1>5, OpenedStack DEF Cells, Top
<1>7. Cursor' = Address(Stack, Depth + 1)
  <2>1. Cursor' = Address(Stack', Depth + 1)
    BY <1>1 DEF Cursor, Depth
  <2>2. Depth + 1 \in Nat /\ Depth + 1 \in 0..Depth+1
    BY <1>0
  <2> QED BY <1>3, <2>1, <2>2, SameAddress
<1>8. ChosenSlot' = None
  <2>1. Top' = c
    BY <1>1, <1>3 DEF Top
  <2> QED BY <2>1, SlotOfTopAfter
<1> QED BY <1>0, <1>4, <1>6, <1>7, <1>8, AddsCell

\* A call that replaces the innermost container only.
LEMMA TopReplaced ==
  ASSUME ReadableInv, contexts # <<>>, NEW d, contexts' = SetTop(contexts, d), UNCHANGED values
  PROVE  /\ Depth' = Depth
         /\ SameBelow(Stack', Stack, Depth)
         /\ Stack'[Depth] = d /\ Top' = d
<1>0. IsSequence(contexts) /\ Depth \in Nat \ {0}
  BY InvIsReadable, TopOfContexts
<1>1. /\ IsSequence(contexts') /\ Len(contexts') = Depth
      /\ \A k \in 1..Depth-1 : contexts'[k] = contexts[k]
      /\ contexts'[Depth] = d
  BY <1>0, SetTopSequence DEF Depth
<1>2. /\ Stack[0] = ListContext(values)
      /\ \A k \in 1..Depth : Stack[k] = contexts[k]
  BY <1>0, StackFacts DEF Stack, Depth
<1>3. /\ Stack'[0] = ListContext(values)
      /\ \A k \in 1..Depth : Stack'[k] = contexts'[k]
  BY <1>1, StackFacts DEF Stack
<1>4. ASSUME NEW k \in 0..Depth-1 PROVE Stack'[k] = Stack[k]
  <2>1. k = 0 \/ (k \in 1..Depth-1 /\ k \in 1..Depth)
    BY <1>0
  <2> QED BY <1>1, <1>2, <1>3, <2>1
<1>5. Stack'[Depth] = d
  BY <1>0, <1>1, <1>3
<1>6. Depth' = Depth
  BY <1>1 DEF Depth
<1> QED BY <1>4, <1>5, <1>6 DEF SameBelow, Top

\* A slot is chosen; the cells and the cursor stay.
LEMMA ChoosesSlot ==
  ASSUME Readable, contexts # <<>>, UNCHANGED values,
         Top.kind # "list", ~HasSlot(Top),
         NEW d, contexts' = SetTop(contexts, d),
         d.kind # "list", OpenSlots(d) = OpenSlots(Top), ContextLabel(d) = ContextLabel(Top),
         NEW s, ReservedSlot(d) = Some(s)
  PROVE  Document!Choose(s)
<1>0. ReadableState /\ ReadableState' /\ Depth \in Nat /\ Sound(Top)
  <2>1. ReadableState'
    BY ReadableAfter DEF Readable
  <2> QED BY <2>1, InvIsReadable, TopOfContexts DEF Readable
<1>1. Depth' = Depth /\ SameBelow(Stack', Stack, Depth) /\ Stack'[Depth] = d /\ Top' = d
  BY TopReplaced DEF Readable
<1>2. IsStack(Stack, Depth) /\ IsStack(Stack', Depth)
  BY <1>0, <1>1 DEF ReadableState
<1>3. Cells' = Cells
  BY <1>1, <1>2, KeptStack DEF Cells, Top
<1>4. Cursor' = Cursor
  BY <1>0, <1>1, SameAddress DEF Cursor, Depth
<1>5. ChosenSlot = None
  <2>1. ReservedSlot(Top) = None
    BY <1>0, ThreeKinds, TupleSlots, RecordSlots DEF Sound
  <2> QED BY <2>1, SlotOfTop
<1>6. ChosenSlot' = Some(s)
  BY <1>1, SlotOfTopAfter
<1> QED BY <1>3, <1>4, <1>5, <1>6 DEF Document!Choose, Some, None

LEMMA AppendIsOneToOne ==
  ASSUME NEW a, IsSequence(a), NEW x, NEW y, Append(a, x) = Append(a, y)
  PROVE  x = y
BY AppendSequence

LEMMA IndexWrites ==
  ASSUME Readable, NEW i \in Nat, TopIs(contexts, "tuple"),
         i < Last(contexts).size, ~HasValue(Last(contexts).selected),
         ~HasValue(Last(contexts).values[i]),
         contexts' = SetTop(contexts, TupleContext(Last(contexts).size, Last(contexts).values, Some(i))),
         UNCHANGED values
  PROVE  Document!ChooseIndex(i)
<1> DEFINE d == TupleContext(Last(contexts).size, Last(contexts).values, Some(i))
<1>0. contexts # <<>> /\ Top = Last(contexts) /\ Top.kind = "tuple" /\ Sound(Top) /\ ReadableState
  BY TopOfContexts, InvIsReadable DEF Readable, TopIs
<1>1. ~HasSlot(Top)
  BY <1>0 DEF HasSlot
<1>2. /\ d.kind = "tuple"
      /\ OpenSlots(d) = OpenSlots(Top)
      /\ ContextLabel(d) = ContextLabel(Top)
      /\ ReservedSlot(d) = Some(Position(i))
  BY <1>0, ChosenIndex
<1> HIDE DEF d
<1>3. Document!Choose(Position(i))
  BY <1>0, <1>1, <1>2, ChoosesSlot DEF d
<1>4. Document!LabelAt(Cursor).kind = "tuple" /\ Document!LabelAt(Cursor).size = Top.size
  BY <1>0, LabelAtCursor DEF ContextLabel
<1>5. ASSUME NEW c \in Document!Children(Cursor) PROVE c.at # Append(Cursor, i)
  <2>1. c \in ChildrenOf(Stack, Depth)
    BY <1>0, ChildrenOfCursor
  <2>2. PICK s \in OpenSlots(Top) : c = CellAt(Place(Cursor, s))
    BY <2>1 DEF ChildrenOf, OpenPlaces, Cursor, Top, Depth
  <2>3. PICK j \in 0..Top.size-1 : HasValue(Top.values[j]) /\ s = Filled(Position(j), Get(Top.values[j]))
    BY <1>0, <2>2, TupleSlots DEF Sound
  <2>4. c.at = Append(Cursor, j)
    BY <2>2, <2>3 DEF CellAt, Place, Filled, Position
  <2>5. j # i
    BY <1>0, <2>3
  <2>6. IsSequence(Cursor)
    BY InvIsReadable, AddressFacts DEF Readable, Cursor, Depth
  <2> QED BY <2>4, <2>5, <2>6, AppendIsOneToOne
<1>6. Document!Position(i) = Position(i)
  BY DEF Document!Position, Position, None
<1> QED BY <1>0, <1>3, <1>4, <1>5, <1>6 DEF Document!ChooseIndex

LEMMA FieldWrites ==
  ASSUME Readable, NEW name \in Names, TopIs(contexts, "record"),
         ~HasValue(Last(contexts).pending_field),
         \A i \in 1..Len(Last(contexts).fields) : Last(contexts).fields[i] # name,
         contexts' = SetTop(contexts, RecordContext(Last(contexts).fields, Last(contexts).values, Some(name))),
         UNCHANGED values
  PROVE  Document!ChooseField(name)
<1> DEFINE d == RecordContext(Last(contexts).fields, Last(contexts).values, Some(name))
           n == Len(Top.values)
<1>0. contexts # <<>> /\ Top = Last(contexts) /\ Top.kind = "record" /\ Sound(Top) /\ ReadableState
  BY TopOfContexts, InvIsReadable DEF Readable, TopIs
<1>1. ~HasSlot(Top)
  BY <1>0 DEF HasSlot
<1>2. /\ d.kind = "record"
      /\ OpenSlots(d) = OpenSlots(Top)
      /\ ContextLabel(d) = ContextLabel(Top)
      /\ ReservedSlot(d) = Some(Named(n + 1, name))
  BY <1>0, ChosenField
<1> HIDE DEF d
<1>3. Document!Choose(Named(n + 1, name))
  BY <1>0, <1>1, <1>2, ChoosesSlot DEF d
<1>4. Document!LabelAt(Cursor).kind = "record"
  BY <1>0, LabelAtCursor DEF ContextLabel
<1>5. ASSUME NEW c \in Document!Children(Cursor) PROVE c.name # <<name>>
  <2>1. c \in ChildrenOf(Stack, Depth)
    BY <1>0, ChildrenOfCursor
  <2>2. PICK s \in OpenSlots(Top) : c = CellAt(Place(Cursor, s))
    BY <2>1 DEF ChildrenOf, OpenPlaces, Cursor, Top, Depth
  <2>3. PICK j \in 1..n : s = Filled(Named(j, Top.fields[j]), Top.values[j])
    BY <1>0, <2>2, RecordSlots DEF Sound
  <2>4. c.name = <<Top.fields[j]>>
    BY <2>2, <2>3 DEF CellAt, Place, Filled, Named, Some
  <2>5. j \in 1..Len(Top.fields)
    <3>1. n \in Nat /\ Len(Top.fields) \in Nat /\ n <= Len(Top.fields)
      BY <1>0, RecordSlots, TypedIsSequence, SequenceFacts DEF Sound
    <3> QED BY <3>1
  <2>6. Top.fields[j] # name
    BY <1>0, <2>5
  <2> QED BY <2>4, <2>6
<1>6. Document!Cardinality(Document!Children(Cursor)) = n
  BY <1>0, ChildrenOfCursor, ChildrenCounted, SameCount DEF ReadableState, Top
<1>7. Document!Named(n + 1, name) = Named(n + 1, name)
  BY DEF Document!Named, Named, Some
<1> QED BY <1>3, <1>4, <1>5, <1>6, <1>7 DEF Document!ChooseField

\* The innermost container, which is whole, is closed with the value v.
Closes(v) ==
  /\ contexts # <<>>
  /\ Deliver(v)
  /\ Slots(v) = OpenSlots(Top)
  /\ LabelOf(v) = ContextLabel(Top)
  /\ Top.kind = "list" \/ ~HasSlot(Top)
  /\ Top.kind = "tuple" => Complete(Top)

\* A container that is closed goes to the place where it was begun.
LEMMA CloseWrites ==
  ASSUME Readable, SlotsAreFresh, NEW v, Closes(v), outcome' = "ok"
  PROVE  Document!Close
<1> DEFINE cs == Front(contexts)
           n  == Depth - 1
           st == StackOf(values, cs)
<1>0. /\ ReadableState /\ ReadableState' /\ GoodStack(contexts) /\ IsSequence(values)
      /\ SoundStack(contexts) /\ Depth \in Nat \ {0} /\ Depth <= MaxValues /\ Sound(Top)
  <2>1. ReadableState'
    BY ReadableAfter DEF Readable
  <2> QED BY <2>1, InvIsReadable, TopOfContexts DEF Readable, ReadableState, ReadableInv, Closes
<1>1. n \in Nat /\ n + 1 = Depth /\ n < MaxValues
  BY <1>0, MaxValuesAssumption
<1>2. /\ GoodStack(cs) /\ IsSequence(cs) /\ Len(cs) = n
      /\ \A k \in 1..n : cs[k] = contexts[k]
  BY <1>0, SoundFront, FrontSequence DEF GoodStack, Depth, Closes
<1>3. \A k \in 0..n : st[k] = Stack[k]
  <2>1. st[0] = ListContext(values) /\ \A k \in 1..n : st[k] = cs[k]
    BY <1>2, StackFacts
  <2>2. Stack[0] = ListContext(values) /\ \A k \in 1..Depth : Stack[k] = contexts[k]
    BY <1>0, StackFacts DEF Stack, Depth, GoodStack
  <2>3. \A k \in 0..n : k = 0 \/ (k \in 1..n /\ k \in 1..Depth)
    BY <1>1
  <2> QED BY <1>2, <2>1, <2>2, <2>3
<1>4. /\ Depth' = n
      /\ SameBelow(Stack', st, n)
      /\ HasSlot(st[n])
      /\ Stack'[n] = Received(st[n], v)
  <2>1. AppendValue(cs, v)
    BY DEF Deliver, Closes
  <2> HIDE DEF cs
  <2> QED BY <1>0, <1>2, <2>1, Accepted DEF Stack, Depth
<1> HIDE DEF st, cs, n
<1>5. n \in 0..n /\ st[n] = Stack[n] /\ SameBelow(Stack', Stack, n)
  BY <1>1, <1>3, <1>4 DEF SameBelow
<1>6. Sound(Stack[n]) /\ IsFresh(Stack[n])
  <2>1. n \in 0..Depth
    BY <1>1
  <2> QED BY <1>0, <2>1, FreshTopOfStack DEF Readable, ReadableState, IsStack
<1>7. /\ OpenSlots(Stack'[n]) = OpenSlots(Stack[n]) \cup {Filled(Free(Stack[n]), v)}
      /\ ContextLabel(Stack'[n]) = ContextLabel(Stack[n])
  BY <1>4, <1>5, <1>6, FreshGains, ReceivedGains
<1>8. IsStack(Stack, n + 1) /\ IsStack(Stack', n)
  BY <1>0, <1>1, <1>4 DEF ReadableState
<1>9. Cells' = Cells
  BY <1>1, <1>5, <1>7, <1>8, ClosedStack DEF Cells, Top, Closes
<1>10. Cursor # <<>> /\ Cursor' = SubSeq(Cursor, 1, Len(Cursor) - 1)
  <2>1. Cursor' = Address(Stack, n)
    <3>1. Cursor' = Address(Stack', n)
      BY <1>4 DEF Cursor, Depth
    <3> QED BY <1>1, <1>5, <3>1, SameAddress
  <2>2. Cursor = Address(Stack, n + 1)
    BY <1>1 DEF Cursor, Depth
  <2>3. /\ IsSequence(Cursor) /\ Len(Cursor) = n + 1
        /\ \A k \in 1..n+1 : Cursor[k] = Free(Stack[k-1]).pos
    BY <1>1, <2>2, AddressFacts
  <2>4. /\ IsSequence(Cursor') /\ Len(Cursor') = n
        /\ \A k \in 1..n : Cursor'[k] = Free(Stack[k-1]).pos
    BY <1>1, <2>1, AddressFacts
  <2>5. Cursor # <<>>
    <3>1. Len(<<>>) = 0
      OBVIOUS
    <3> QED BY <1>1, <2>3, <3>1
  <2>6. /\ IsSequence(Front(Cursor)) /\ Len(Front(Cursor)) = n
        /\ \A k \in 1..n : Front(Cursor)[k] = Cursor[k]
    <3>1. Len(Cursor) - 1 = n
      BY <1>1, <2>3
    <3>2. /\ IsSequence(Front(Cursor)) /\ Len(Front(Cursor)) = Len(Cursor) - 1
          /\ \A k \in 1..Len(Cursor)-1 : Front(Cursor)[k] = Cursor[k]
      BY <2>3, <2>5, FrontSequence
    <3> QED BY <3>1, <3>2
  <2>7. \A k \in 1..n : Front(Cursor)[k] = Cursor'[k]
    BY <1>1, <2>3, <2>4, <2>6
  <2>8. Cursor' = Front(Cursor)
    BY <2>4, <2>6, <2>7, SequenceExtensional
  <2> QED BY <2>5, <2>8 DEF Front
<1>11. ChosenSlot = None
  <2>1. Top.kind # "list" => ReservedSlot(Top) = None
    BY <1>0, ThreeKinds, TupleSlots, RecordSlots DEF Sound, Closes
  <2> QED BY <2>1, SlotOfTop
<1>12. ChosenSlot' = None
  <2>1. Top' = Received(Stack[n], v)
    BY <1>4, <1>5 DEF Top
  <2> QED BY <1>4, <1>5, <1>6, <2>1, NothingChosen, SlotOfTopAfter
<1>13. Document!LabelAt(Cursor).kind = "tuple"
         => Document!Cardinality(Document!Children(Cursor)) = Document!LabelAt(Cursor).size
  <2>1. Document!LabelAt(Cursor).kind = Top.kind
    BY <1>0, LabelAtCursor, ThreeKinds DEF ContextLabel, Sound
  <2>2. Top.kind = "tuple" => Document!LabelAt(Cursor).size = Top.size
    BY <1>0, LabelAtCursor DEF ContextLabel
  <2>3. Top.kind = "tuple" => Document!Cardinality(Document!Children(Cursor)) = Top.size
    BY <1>0, ChildrenOfCursor, ChildrenCounted, SameCount DEF ReadableState, Top, Closes
  <2> QED BY <2>1, <2>2, <2>3
<1> QED BY <1>9, <1>10, <1>11, <1>12, <1>13 DEF Document!Close, None

LEMMA EndTupleCells ==
  ASSUME NEW c, Sound(c), c.kind = "tuple", Complete(c),
         NEW v, v = TupleValue([i \in 0..c.size-1 |-> Get(c.values[i])])
  PROVE  Slots(v) = OpenSlots(c) /\ LabelOf(v) = ContextLabel(c)
<1> DEFINE vs == [i \in 0..c.size-1 |-> Get(c.values[i])]
<1>0. IsContext(c) /\ c.size \in Nat
  BY TupleSlots DEF Sound
<1>1. v.kind = "tuple" /\ v.values = vs /\ DOMAIN vs = 0..c.size-1
  BY DEF TupleValue
<1>2. \A i \in 0..c.size-1 : vs[i] = Get(c.values[i])
  OBVIOUS
<1> HIDE DEF vs
<1>3. Slots(v) = {Filled(Position(i), vs[i]) : i \in 0..c.size-1}
  BY <1>1 DEF Slots
<1>4. \A s : s \in OpenSlots(c)
              <=> \E i \in 0..c.size-1 : s = Filled(Position(i), Get(c.values[i]))
  BY <1>0, TupleSlots DEF Complete
<1>5. Slots(v) = OpenSlots(c)
  BY <1>2, <1>3, <1>4
<1>6. Cardinality(0..c.size-1) = c.size
  BY <1>0, FS_Interval
<1>7. LabelOf(v) = ContextLabel(c)
  BY <1>1, <1>6 DEF LabelOf, ContextLabel
<1> QED BY <1>5, <1>7

LEMMA EndListCells ==
  ASSUME NEW c, c.kind = "list"
  PROVE  Slots(ListValue(c.values)) = OpenSlots(c) /\ LabelOf(ListValue(c.values)) = ContextLabel(c)
BY DEF Slots, OpenSlots, LabelOf, ContextLabel, ListValue

LEMMA EndRecordCells ==
  ASSUME NEW c, c.kind = "record"
  PROVE  /\ Slots(RecordValue(c.fields, c.values)) = OpenSlots(c)
         /\ LabelOf(RecordValue(c.fields, c.values)) = ContextLabel(c)
BY DEF Slots, OpenSlots, LabelOf, ContextLabel, RecordValue

LEMMA NewContextLabels ==
  /\ ContextLabel(ListContext(<<>>)) = Document!ListLabel
  /\ \A n : ContextLabel(NewTuple(n)) = Document!TupleLabel(n)
  /\ ContextLabel(NewRecord) = Document!RecordLabel
  /\ ListContext(<<>>).kind = "list"
  /\ \A n : ReservedSlot(NewTuple(n)) = None
  /\ ReservedSlot(NewRecord) = None
BY DEF ContextLabel, ReservedSlot, ListContext, NewTuple, TupleContext, NewRecord, RecordContext,
       Document!ListLabel, Document!TupleLabel, Document!RecordLabel, HasValue

Stays == UNCHANGED <<Cells, Cursor, ChosenSlot>>

LEMMA NothingWritten ==
  ASSUME UNCHANGED <<values, contexts>>
  PROVE  Stays
<1>1. Stack' = Stack
  BY DEF Stack
<1> QED BY <1>1 DEF Stays, Cells, Cursor, ChosenSlot

(***************************************************************************)
(* What a call does, by how it ends.                                       *)
(***************************************************************************)
IsNew(c) ==
  \/ c = ListContext(<<>>)
  \/ \E n \in 0..MaxTupleSize : c = NewTuple(n)
  \/ c = NewRecord

Opens(c) ==
  /\ IsNew(c)
  /\ EnsureAcceptsValue(contexts)
  /\ contexts' = Append(contexts, c)
  /\ UNCHANGED values
  /\ appended' = appended + 1

LEMMA HowCallsEnd ==
  ASSUME Next
  PROVE  /\ outcome' \in {"ok", "bad_alloc"} \/ Refused
         /\ outcome' # "ok" => appended' = appended
BY DEF Next, Scalar, AppendValue, CountIfAdded, Report, Throw, ThrowOutOfMemory, OutOfMemory,
       Refused, BeginList, BeginTuple, BeginRecord, Begin, EndList, Deliver, Index, EndTuple,
       Field, EndRecord, Snapshot

LEMMA NotFailedWithMemory ==
  ASSUME Next, ~OutOfMemory
  PROVE  outcome' # "bad_alloc"
BY DEF Next, Scalar, AppendValue, Report, Throw, ThrowOutOfMemory,
       BeginList, BeginTuple, BeginRecord, Begin, EndList, Deliver, Index, EndTuple, Field,
       EndRecord, Snapshot

LEMMA NewIsSound ==
  ASSUME NEW c, IsNew(c)
  PROVE  Sound(c) /\ OpenSlots(c) = {} /\ (ReservedSlot(c) = None \/ c.kind = "list")
BY NewContextsAreSound, NewContextLabels DEF IsNew

LEMMA OkCalls ==
  ASSUME Readable, Next, outcome' = "ok"
  PROVE  \/ \E x \in Scalars : /\ AppendValue(contexts, ScalarValue(x))
                               /\ appended < MaxValues
                               /\ appended' = appended + 1
         \/ \E c : Opens(c)
         \/ \E v : Closes(v)
         \/ UNCHANGED appended /\ \E i \in 0..MaxTupleSize : Document!ChooseIndex(i)
         \/ UNCHANGED appended /\ \E name \in Names : Document!ChooseField(name)
         \/ UNCHANGED <<values, contexts, appended>>
<1> DEFINE Opened == \E c : Opens(c)
           Closed == \E v : Closes(v)
           Added  == \E x \in Scalars : /\ AppendValue(contexts, ScalarValue(x))
                                       /\ appended < MaxValues
                                       /\ appended' = appended + 1
           Indexed == UNCHANGED appended /\ \E i \in 0..MaxTupleSize : Document!ChooseIndex(i)
           NamedField == UNCHANGED appended /\ \E name \in Names : Document!ChooseField(name)
<1>0. ReadableInv
  BY DEF Readable
<1>1. ASSUME NEW x \in Scalars, Scalar(x)
      PROVE  AppendValue(contexts, ScalarValue(x)) /\ appended < MaxValues /\ appended' = appended + 1
  BY <1>1 DEF Scalar, ThrowOutOfMemory, OutOfMemory, CountIfAdded
<1>2. ASSUME NEW c, IsNew(c), Begin(c) PROVE Opened
  <2>1. Opens(c)
    BY <1>2 DEF Opens, Begin, Throw, ThrowOutOfMemory, OutOfMemory, Report
  <2> QED BY <2>1
<1>3. ASSUME BeginList \/ BeginRecord \/ \E n \in 0..MaxTupleSize : BeginTuple(n) PROVE Opened
  BY <1>2, <1>3 DEF BeginList, BeginRecord, BeginTuple, IsNew
<1>4. ASSUME EndList PROVE Closed
  <2> DEFINE v == ListValue(Last(contexts).values)
  <2>1. TopIs(contexts, "list") /\ Deliver(v)
    BY <1>4 DEF EndList, Throw, Report
  <2>2. contexts # <<>> /\ Top = Last(contexts) /\ Top.kind = "list"
    BY <1>0, <2>1, TopOfContexts DEF TopIs
  <2>3. Slots(v) = OpenSlots(Top) /\ LabelOf(v) = ContextLabel(Top)
    BY <2>2, EndListCells
  <2> HIDE DEF v
  <2>4. Closes(v)
    BY <2>1, <2>2, <2>3 DEF Closes
  <2> QED BY <2>4
<1>5. ASSUME NEW i \in 0..MaxTupleSize, Index(i)
      PROVE  UNCHANGED appended /\ Document!ChooseIndex(i)
  <2>1. /\ TopIs(contexts, "tuple")
        /\ i < Last(contexts).size /\ ~HasValue(Last(contexts).selected)
        /\ ~HasValue(Last(contexts).values[i])
        /\ contexts' = SetTop(contexts, TupleContext(Last(contexts).size, Last(contexts).values, Some(i)))
        /\ UNCHANGED <<values, appended>>
    BY <1>5 DEF Index, Throw, Report
  <2>2. i \in Nat
    BY MaxTupleAssumption
  <2> QED BY <2>1, <2>2, IndexWrites
<1>6. ASSUME EndTuple PROVE Closed
  <2> DEFINE c == Last(contexts)
             v == TupleValue([i \in 0..c.size-1 |-> Get(c.values[i])])
  <2>1. TopIs(contexts, "tuple") /\ ~HasValue(c.selected) /\ Complete(c) /\ Deliver(v)
    BY <1>6 DEF EndTuple, Throw, Report, OutOfMemory, Complete
  <2>2. contexts # <<>> /\ Top = c /\ Top.kind = "tuple" /\ Sound(Top)
    BY <1>0, <2>1, TopOfContexts DEF TopIs
  <2>3. Slots(v) = OpenSlots(Top) /\ LabelOf(v) = ContextLabel(Top)
    BY <2>1, <2>2, EndTupleCells
  <2>4. ~HasSlot(Top)
    BY <2>1, <2>2 DEF HasSlot
  <2> HIDE DEF c, v
  <2>5. Closes(v)
    BY <2>1, <2>2, <2>3, <2>4 DEF Closes
  <2> QED BY <2>5
<1>7. ASSUME NEW name \in Names \cup {EmptyName}, Field(name)
      PROVE  name \in Names /\ UNCHANGED appended /\ Document!ChooseField(name)
  <2>1. /\ TopIs(contexts, "record") /\ name # EmptyName
        /\ ~HasValue(Last(contexts).pending_field)
        /\ \A i \in 1..Len(Last(contexts).fields) : Last(contexts).fields[i] # name
        /\ contexts' = SetTop(contexts, RecordContext(Last(contexts).fields, Last(contexts).values, Some(name)))
        /\ UNCHANGED <<values, appended>>
    BY <1>7 DEF Field, Throw, ThrowOutOfMemory, OutOfMemory, Report
  <2> QED BY <2>1, FieldWrites
<1>8. ASSUME EndRecord PROVE Closed
  <2> DEFINE v == RecordValue(Last(contexts).fields, Last(contexts).values)
  <2>1. TopIs(contexts, "record") /\ ~HasValue(Last(contexts).pending_field) /\ Deliver(v)
    BY <1>8 DEF EndRecord, Throw, Report
  <2>2. contexts # <<>> /\ Top = Last(contexts) /\ Top.kind = "record"
    BY <1>0, <2>1, TopOfContexts DEF TopIs
  <2>3. ~HasSlot(Top)
    BY <2>1, <2>2 DEF HasSlot
  <2>4. Slots(v) = OpenSlots(Top) /\ LabelOf(v) = ContextLabel(Top)
    BY <2>2, EndRecordCells
  <2> HIDE DEF v
  <2>5. Closes(v)
    BY <2>1, <2>2, <2>3, <2>4 DEF Closes
  <2> QED BY <2>5
<1>9. ASSUME Snapshot PROVE UNCHANGED <<values, contexts, appended>>
  BY <1>9 DEF Snapshot, Throw, ThrowOutOfMemory
<1>10. (\E x \in Scalars : Scalar(x)) => Added
  BY <1>1
<1>11. (\E i \in 0..MaxTupleSize : Index(i)) => Indexed
  BY <1>5
<1>12. (\E name \in Names \cup {EmptyName} : Field(name)) => NamedField
  BY <1>7
<1> HIDE DEF Opened, Closed, Added, Indexed, NamedField
<1>13. Opened \/ Closed \/ Added \/ Indexed \/ NamedField \/ UNCHANGED <<values, contexts, appended>>
  BY <1>3, <1>4, <1>6, <1>8, <1>9, <1>10, <1>11, <1>12 DEF Next
<1> QED BY <1>13 DEF Opened, Closed, Added, Indexed, NamedField

LEMMA StepWrites ==
  ASSUME Readable, SlotsAreFresh, ~OutOfMemory, Next
  PROVE  Document!Next \/ Stays
<1>1. CASE Refused
  BY <1>1, StepRefuses, NothingWritten DEF Readable, ReadableInv
<1>2. CASE outcome' = "ok"
  <2>1. ASSUME NEW x \in Scalars, AppendValue(contexts, ScalarValue(x)) PROVE Document!Next
    BY <1>2, <2>1, ScalarWrites DEF Document!Next
  <2>2. ASSUME NEW c, Opens(c) PROVE Document!Next
    <3>1. Document!Add(ContextLabel(c), TRUE)
      BY <2>2, NewIsSound, BeginWrites DEF Opens
    <3>2. \/ ContextLabel(c) = Document!ListLabel
          \/ \E n \in 0..MaxTupleSize : ContextLabel(c) = Document!TupleLabel(n)
          \/ ContextLabel(c) = Document!RecordLabel
      BY <2>2, NewContextLabels DEF Opens, IsNew
    <3> QED BY <3>1, <3>2 DEF Document!Next
  <2>3. ASSUME NEW v, Closes(v) PROVE Document!Next
    BY <1>2, <2>3, CloseWrites DEF Document!Next
  <2>4. ASSUME NEW i \in 0..MaxTupleSize, Document!ChooseIndex(i) PROVE Document!Next
    BY <2>4 DEF Document!Next
  <2>5. ASSUME NEW name \in Names, Document!ChooseField(name) PROVE Document!Next
    BY <2>5 DEF Document!Next
  <2>6. CASE UNCHANGED <<values, contexts>>
    BY <2>6, NothingWritten
  <2> QED BY <1>2, <2>1, <2>2, <2>3, <2>4, <2>5, <2>6, OkCalls
<1>3. CASE outcome' = "bad_alloc"
  BY <1>3, NotFailedWithMemory
<1> QED BY <1>1, <1>2, <1>3, HowCallsEnd

LEMMA DocumentInit == Init => Document!Init
<1> SUFFICES ASSUME Init PROVE Document!Init
  OBVIOUS
<1>1. ReadableInv
  BY ReadableInit
<1>2. Depth = 0 /\ contexts = <<>> /\ values = <<>>
  BY DEF Init, Depth
<1>3. Stack[0] = ListContext(<<>>) /\ DOMAIN Stack = 0..0
  BY <1>1, <1>2, InvIsReadable, StackFacts DEF Stack, Depth
<1>4. Address(Stack, 0) = <<>>
  BY AddressFacts, SequenceFacts
<1>5. Cells = CellsAt(Stack, 0)
  BY <1>3 DEF Cells, CellsIn
<1>6. OpenPlaces(Stack, 0) = {}
  BY <1>3, NewContextsAreSound DEF OpenPlaces
<1>7. Cells = {OpenCell(Stack, 0)}
  BY <1>5, <1>6 DEF CellsAt
<1>8. OpenCell(Stack, 0) = [at |-> <<>>, name |-> <<>>, is |-> Document!ListLabel]
  BY <1>3, <1>4, NewContextLabels DEF OpenCell, NameAt, None
<1>9. Cursor = <<>>
  BY <1>2, <1>4 DEF Cursor, Depth
<1>10. ChosenSlot = <<>>
  BY <1>2, <1>3, NewContextLabels, SlotOfTop DEF Top, None
<1> QED BY <1>7, <1>8, <1>9, <1>10 DEF Document!Init

\* As long as no allocation fails, every call of any program writes exactly
\* what it says at the place it was begun and every refused call nothing: a
\* container that is delivered late appears where it was opened, with all it
\* holds, however deep and in whatever order (builder.hpp:45-134, 187-206).
THEOREM BuilderWritesDocument == MaxFailures = 0 /\ Spec => ImplementsDocument
<1> SUFFICES ASSUME MaxFailures = 0 PROVE Spec => Document!Spec
  BY DEF ImplementsDocument
<1>1. Init => Document!Init
  BY DocumentInit
<1>2. ReadableInv /\ ReadableInv' /\ SlotsAreFresh /\ [Next]_vars
        => [Document!Next]_(Document!docVars)
  <2> SUFFICES ASSUME Readable, SlotsAreFresh, [Next]_vars PROVE Document!Next \/ Stays
    BY DEF Readable, Stays, Document!docVars
  <2>1. ~OutOfMemory
    BY DEF OutOfMemory, Readable, ReadableInv, BuilderInv, TypeOK
  <2>2. CASE Next
    BY <2>1, <2>2, StepWrites
  <2>3. CASE UNCHANGED vars
    BY <2>3, NothingWritten DEF vars
  <2> QED BY <2>2, <2>3
<1>3. Spec => []SlotsAreFresh
  BY ChosenSlotsAreFree
<1> QED BY <1>1, <1>2, <1>3, ReadableHolds, PTL DEF Spec, Document!Spec

-----------------------------------------------------------------------------
(***************************************************************************)
(* What the builder holds, also when allocations fail.  A failed call may  *)
(* leave a record with a name too many, and the next value then stands     *)
(* under another name: the addresses are right still, so these are what is *)
(* counted.                                                                *)
(***************************************************************************)
At(C) == {c.at : c \in C}

LEMMA AtUnion ==
  ASSUME NEW C, NEW D
  PROVE  At(C \cup D) = At(C) \cup At(D)
BY DEF At

\* The name of a value does not change the addresses inside it.
LEMMA NameAside ==
  ASSUME NEW p, NEW q, p.at = q.at, p.value = q.value, IsSequence(p.at), Len(p.at) < MaxDepth
  PROVE  At(CellsOf(p)) = At(CellsOf(q))
<1>1. CellsOf(p) = {CellAt(p)} \cup UNION {CellsOf(r) : r \in Parts(p)}
  BY CellsOfParts
<1>2. CellsOf(q) = {CellAt(q)} \cup UNION {CellsOf(r) : r \in Parts(q)}
  BY CellsOfParts
<1>3. Parts(p) = Parts(q)
  BY DEF Parts
<1> DEFINE rest == UNION {CellsOf(r) : r \in Parts(p)}
<1>4. CellsOf(p) = {CellAt(p)} \cup rest /\ CellsOf(q) = {CellAt(q)} \cup rest
  BY <1>1, <1>2, <1>3
<1> HIDE DEF rest
<1>5. At({CellAt(p)}) = {p.at} /\ At({CellAt(q)}) = {p.at}
  BY DEF At, CellAt
<1>6. At(CellsOf(p)) = At({CellAt(p)}) \cup At(rest)
  BY <1>4, AtUnion
<1>7. At(CellsOf(q)) = At({CellAt(q)}) \cup At(rest)
  BY <1>4, AtUnion
<1> QED BY <1>5, <1>6, <1>7

\* The slot that a container holds is at an address that nothing is at.
LEMMA FreeAddress ==
  ASSUME NEW st, NEW n, IsStack(st, n), n <= MaxValues, HasSlot(st[n])
  PROVE  Address(st, n + 1) \notin At(CellsIn(st))
<1>0. n \in Nat /\ n + 1 \in Nat /\ n \in 0..MaxValues /\ n \in 0..(n+1)-1
  BY MaxValuesAssumption DEF IsStack
<1> SUFFICES ASSUME NEW c \in CellsIn(st), c.at = Address(st, n + 1) PROVE FALSE
  BY DEF At
<1>1. c \in LowerCells(st, n) \/ c \in CellsAt(st, n)
  BY SplitCells
<1>2. c \notin CellsAt(st, n)
  BY <1>0, Elsewhere DEF IsStack
<1>3. Beyond(c.at, Address(st, n))
  BY <1>0, AddressBeyond
<1>4. c \notin LowerCells(st, n)
  BY <1>3, BelowElsewhere DEF LowerCells
<1> QED BY <1>1, <1>2, <1>4

\* A container that receives a value gains the addresses inside that value.
LEMMA GainedAddresses ==
  ASSUME NEW st, NEW up, NEW n, IsStack(st, n), IsStack(up, n), SameBelow(up, st, n),
         n < MaxValues, HasSlot(st[n]), NEW v, up[n] = Received(st[n], v)
  PROVE  At(CellsIn(up)) = At(CellsIn(st)) \cup At(CellsOf(Place(Address(st, n), Filled(Free(st[n]), v))))
<1>0. n \in Nat /\ Sound(st[n])
  BY DEF IsStack
<1>1. Gained(up[n], st[n], v) /\ ContextLabel(up[n]) = ContextLabel(st[n])
  BY <1>0, ReceivedGains
<1>2. PICK name : OpenSlots(up[n]) = OpenSlots(st[n])
                        \cup {Filled([pos |-> Free(st[n]).pos, name |-> name], v)}
  BY <1>1 DEF Gained
<1> DEFINE s == [pos |-> Free(st[n]).pos, name |-> name]
           p == Place(Address(st, n), Filled(s, v))
           q == Place(Address(st, n), Filled(Free(st[n]), v))
<1>3. CellsIn(up) = CellsIn(st) \cup CellsOf(p)
  BY <1>1, <1>2, GrownStack
<1>4. p.at = Address(st, n + 1) /\ q.at = Address(st, n + 1) /\ p.value = v /\ q.value = v
  <2>1. s.pos = Free(st[n]).pos
    OBVIOUS
  <2> HIDE DEF s
  <2>2. p.at = Append(Address(st, n), Free(st[n]).pos) /\ p.value = v
    BY <2>1, PlaceFacts
  <2>3. q.at = Append(Address(st, n), Free(st[n]).pos) /\ q.value = v
    BY PlaceFacts
  <2> HIDE DEF p, q
  <2> QED BY <1>0, <2>2, <2>3, AddressNext
<1> HIDE DEF p, q
<1>5. IsSequence(p.at) /\ Len(p.at) < MaxDepth
  BY <1>0, <1>4, AddressFacts, MaxValuesAssumption DEF MaxDepth
<1>6. At(CellsOf(p)) = At(CellsOf(q))
  BY <1>4, <1>5, NameAside
<1> QED BY <1>3, <1>6, AtUnion DEF q

\* The cells of a stack and of the stack below its top.
LEMMA CellsBelowTop ==
  ASSUME NEW st, NEW lo, NEW n, IsStack(st, n + 1), IsStack(lo, n), SameBelow(lo, st, n + 1)
  PROVE  CellsIn(st) = CellsIn(lo) \cup CellsAt(st, n + 1)
<1>1. n \in Nat /\ n + 1 \in Nat /\ (n + 1) - 1 = n
  BY DEF IsStack
<1>2. CellsIn(lo) = LowerCells(lo, n + 1)
  BY <1>1 DEF CellsIn, LowerCells, IsStack
<1>3. LowerCells(lo, n + 1) = LowerCells(st, n + 1)
  BY <1>1, SameLowerCells
<1> QED BY <1>2, <1>3, SplitCells

Addresses == At(Cells)

\* The stack without its top.
Underneath == StackOf(values, Front(contexts))

LEMMA UnderneathFacts ==
  ASSUME ReadableInv, contexts # <<>>
  PROVE  /\ Depth - 1 \in Nat /\ (Depth - 1) + 1 = Depth /\ Depth - 1 < MaxValues
         /\ GoodStack(Front(contexts)) /\ SoundStack(Front(contexts))
         /\ Len(Front(contexts)) = Depth - 1
         /\ IsStack(Underneath, Depth - 1)
         /\ SameBelow(Underneath, Stack, Depth)
         /\ Cells = CellsIn(Underneath) \cup CellsAt(Stack, Depth)
<1> DEFINE n == Depth - 1
           cs == Front(contexts)
<1>0. /\ GoodStack(contexts) /\ IsSequence(contexts) /\ SoundStack(contexts) /\ IsSequence(values)
      /\ Depth \in Nat \ {0} /\ IsStack(Stack, Depth) /\ Depth <= MaxValues
  BY InvIsReadable, TopOfContexts DEF ReadableInv, ReadableState
<1>1. n \in Nat /\ n + 1 = Depth /\ n < MaxValues
  BY <1>0, MaxValuesAssumption
<1>2. /\ GoodStack(cs) /\ SoundStack(cs) /\ IsSequence(cs) /\ Len(cs) = n
      /\ \A k \in 1..n : cs[k] = contexts[k]
  BY <1>0, SoundFront, FrontSequence DEF GoodStack, Depth
<1>3. IsStack(Underneath, n)
  <2> HIDE DEF n, cs
  <2>1. IsStack(StackOf(values, cs), n)
    BY <1>0, <1>2, StackIsStack
  <2> QED BY <2>1 DEF Underneath, cs
<1>4. SameBelow(Underneath, Stack, Depth)
  <2>1. Underneath[0] = ListContext(values) /\ \A k \in 1..n : Underneath[k] = cs[k]
    BY <1>2, StackFacts DEF Underneath
  <2>2. Stack[0] = ListContext(values) /\ \A k \in 1..Depth : Stack[k] = contexts[k]
    BY <1>0, StackFacts DEF Stack, Depth
  <2>3. \A k \in 0..Depth-1 : k = 0 \/ (k \in 1..n /\ k \in 1..Depth)
    BY <1>1
  <2> HIDE DEF n, cs
  <2> QED BY <1>2, <2>1, <2>2, <2>3 DEF SameBelow
<1>5. Cells = CellsIn(Underneath) \cup CellsAt(Stack, Depth)
  <2> HIDE DEF n
  <2> QED BY <1>0, <1>1, <1>3, <1>4, CellsBelowTop DEF Cells
<1> QED BY <1>1, <1>2, <1>3, <1>4, <1>5

LEMMA AddsAddress ==
  ASSUME Readable, NEW x, AppendValue(contexts, ScalarValue(x)), outcome' = "ok",
         appended < MaxValues
  PROVE  \E a : a \notin Addresses /\ Addresses' = Addresses \cup {a}
<1> DEFINE v == ScalarValue(x)
           a == Address(Stack, Depth + 1)
<1>0. /\ ReadableState /\ ReadableState' /\ GoodStack(contexts) /\ IsSequence(values)
      /\ Depth \in Nat /\ Depth < MaxValues /\ Depth <= MaxValues
  <2>1. ReadableState'
    BY ReadableAfter DEF Readable
  <2>2. Depth <= appended /\ appended \in Nat /\ Depth \in Nat
    BY InvIsReadable DEF Readable, ReadableInv, Depth
  <2> QED BY <2>1, <2>2, InvIsReadable, MaxValuesAssumption DEF Readable
<1>1. /\ Depth' = Depth
      /\ SameBelow(Stack', Stack, Depth)
      /\ HasSlot(Stack[Depth])
      /\ Stack'[Depth] = Received(Stack[Depth], v)
  BY <1>0, Accepted DEF Stack, Depth
<1>2. IsStack(Stack, Depth) /\ IsStack(Stack', Depth)
  BY <1>0, <1>1 DEF ReadableState
<1>3. At(CellsIn(Stack')) = At(CellsIn(Stack))
                              \cup At(CellsOf(Place(Address(Stack, Depth), Filled(Free(Stack[Depth]), v))))
  BY <1>0, <1>1, <1>2, GainedAddresses
<1>4. CellsOf(Place(Address(Stack, Depth), Filled(Free(Stack[Depth]), v)))
        = {[at |-> a, name |-> Free(Stack[Depth]).name, is |-> LabelOf(v)]}
  <2>1. Slots(v) = {}
    BY DEF Slots, ScalarValue
  <2> QED BY <1>0, <2>1, ScalarCells
<1>5. At({[at |-> a, name |-> Free(Stack[Depth]).name, is |-> LabelOf(v)]}) = {a}
  BY DEF At
<1>6. a \notin At(CellsIn(Stack))
  BY <1>0, <1>1, <1>2, FreeAddress
<1>7. Addresses' = Addresses \cup {a} /\ a \notin Addresses
  BY <1>3, <1>4, <1>5, <1>6 DEF Addresses, Cells
<1> QED BY <1>7

LEMMA OpensAddress ==
  ASSUME Readable, NEW c, Opens(c)
  PROVE  \E a : a \notin Addresses /\ Addresses' = Addresses \cup {a}
<1> DEFINE a == Address(Stack, Depth + 1)
           new == [at |-> a, name |-> Free(Top).name, is |-> ContextLabel(c)]
<1>0. IsStack(Stack, Depth) /\ Depth <= MaxValues
  BY InvIsReadable DEF Readable, ReadableState
<1>1. HasSlot(Top) /\ Cells' = Cells \cup {new}
  BY NewIsSound, BeginWrites DEF Opens
<1>2. At({new}) = {a}
  BY DEF At
<1>3. a \notin At(Cells)
  BY <1>0, <1>1, FreeAddress DEF Top, Cells
<1> HIDE DEF new, a
<1>4. Addresses' = Addresses \cup {a}
  BY <1>1, <1>2, AtUnion DEF Addresses
<1> QED BY <1>3, <1>4 DEF Addresses

LEMMA ClosesAddresses ==
  ASSUME Readable, NEW v, Closes(v), outcome' = "ok"
  PROVE  Addresses' = Addresses
<1> DEFINE n == Depth - 1
           lo == Underneath
<1>0. /\ n \in Nat /\ n + 1 = Depth /\ n < MaxValues
      /\ GoodStack(Front(contexts)) /\ Len(Front(contexts)) = n
      /\ IsStack(lo, n) /\ SameBelow(lo, Stack, Depth)
      /\ Cells = CellsIn(lo) \cup CellsAt(Stack, Depth)
      /\ IsSequence(values)
  BY UnderneathFacts, InvIsReadable DEF Readable, Closes
<1>1. /\ Depth' = n
      /\ SameBelow(Stack', lo, n)
      /\ HasSlot(lo[n])
      /\ Stack'[n] = Received(lo[n], v)
  <2>1. AppendValue(Front(contexts), v)
    BY DEF Deliver, Closes
  <2> HIDE DEF n
  <2> QED BY <1>0, <2>1, Accepted DEF Stack, Depth, Underneath
<1> HIDE DEF n, lo
<1>2. IsStack(Stack', n)
  BY <1>1, ReadableAfter DEF Readable, ReadableState
<1>3. At(CellsIn(Stack')) = At(CellsIn(lo)) \cup At(CellsOf(Place(Address(lo, n), Filled(Free(lo[n]), v))))
  BY <1>0, <1>1, <1>2, GainedAddresses
<1>4. Address(lo, n) = Address(Stack, n) /\ lo[n] = Stack[n]
  <2>1. n \in 0..Depth /\ n \in 0..Depth-1
    BY <1>0
  <2> QED BY <1>0, <2>1, SameAddress DEF SameBelow
<1>5. CellsOf(Place(Address(Stack, n), Filled(Free(Stack[n]), v))) = CellsAt(Stack, Depth)
  <2>1. CellsOf(Place(Address(Stack, n), Filled(Free(Stack[n]), v))) = CellsAt(Stack, n + 1)
    BY <1>0, ClosedCells DEF Closes, Top
  <2> QED BY <1>0, <2>1
<1> QED BY <1>0, <1>3, <1>4, <1>5, AtUnion DEF Addresses, Cells

(***************************************************************************)
(* A failed call: it may drop the container that it was about to deliver,  *)
(* and leave the name of a record without its value.                       *)
(***************************************************************************)
LostName(cs) ==
  /\ TopIs(cs, "record") /\ HasSlot(Last(cs))
  /\ contexts' = SetTop(cs, NameWithoutValue(Last(cs)))

LEMMA FailedAppend ==
  ASSUME NEW cs, NEW v, AppendValue(cs, v), outcome' = "bad_alloc"
  PROVE  UNCHANGED values /\ (contexts' = cs \/ LostName(cs))
<1>1. CASE UNCHANGED values /\ contexts' = cs
  BY <1>1
<1>2. CASE /\ EnsureAcceptsValue(cs) /\ TopIs(cs, "record")
           /\ contexts' = SetTop(cs, NameWithoutValue(Last(cs)))
           /\ UNCHANGED values
  BY <1>2 DEF LostName, EnsureAcceptsValue, TopIs
<1>3. CASE Report("ok")
  BY <1>3 DEF Report
<1> QED BY <1>1, <1>2, <1>3 DEF AppendValue

LEMMA FailedCalls ==
  ASSUME Next, outcome' = "bad_alloc"
  PROVE  /\ UNCHANGED values
         /\ \/ contexts' = contexts \/ LostName(contexts)
            \/ contexts # <<>> /\ (contexts' = Front(contexts) \/ LostName(Front(contexts)))
<1> DEFINE Ended ==
             /\ UNCHANGED values
             /\ \/ contexts' = contexts \/ LostName(contexts)
                \/ contexts # <<>> /\ (contexts' = Front(contexts) \/ LostName(Front(contexts)))
<1>1. ASSUME NEW x \in Scalars, Scalar(x) PROVE Ended
  BY <1>1, FailedAppend DEF Scalar, ThrowOutOfMemory
<1>2. ASSUME NEW v, contexts # <<>>, Deliver(v) PROVE Ended
  BY <1>2, FailedAppend DEF Deliver
<1>3. ASSUME NEW c, Begin(c) PROVE Ended
  BY <1>3 DEF Begin, Throw, Report, ThrowOutOfMemory
<1>4. ASSUME NEW i \in 0..MaxTupleSize, Index(i) PROVE Ended
  BY <1>4 DEF Index, Throw, Report
<1>5. ASSUME NEW name \in Names \cup {EmptyName}, Field(name) PROVE Ended
  BY <1>5 DEF Field, Throw, Report, ThrowOutOfMemory
<1>6. ASSUME Snapshot PROVE Ended
  BY <1>6 DEF Snapshot, Throw, Report, ThrowOutOfMemory
<1>7. ASSUME EndList PROVE Ended
  <2>1. \/ UNCHANGED <<values, contexts>>
        \/ TopIs(contexts, "list") /\ Deliver(ListValue(Last(contexts).values))
    BY <1>7 DEF EndList, Throw
  <2> HIDE DEF Ended
  <2>2. UNCHANGED <<values, contexts>> => Ended
    BY DEF Ended
  <2> QED BY <1>2, <2>1, <2>2 DEF TopIs
<1>8. ASSUME EndRecord PROVE Ended
  <2>1. \/ UNCHANGED <<values, contexts>>
        \/ /\ TopIs(contexts, "record")
           /\ Deliver(RecordValue(Last(contexts).fields, Last(contexts).values))
    BY <1>8 DEF EndRecord, Throw
  <2> HIDE DEF Ended
  <2>2. UNCHANGED <<values, contexts>> => Ended
    BY DEF Ended
  <2> QED BY <1>2, <2>1, <2>2 DEF TopIs
<1>9. ASSUME EndTuple PROVE Ended
  <2> DEFINE v == TupleValue([i \in 0..Last(contexts).size-1 |-> Get(Last(contexts).values[i])])
  <2>1. \/ UNCHANGED <<values, contexts>>
        \/ TopIs(contexts, "tuple") /\ Deliver(v)
        \/ TopIs(contexts, "tuple") /\ contexts' = Front(contexts) /\ UNCHANGED values
    BY <1>9 DEF EndTuple, Throw
  <2> HIDE DEF Ended, v
  <2>2. UNCHANGED <<values, contexts>> => Ended
    BY DEF Ended
  <2>3. contexts # <<>> /\ contexts' = Front(contexts) /\ UNCHANGED values => Ended
    BY DEF Ended
  <2> QED BY <1>2, <2>1, <2>2, <2>3 DEF TopIs
<1> HIDE DEF Ended
<1>10. Ended
  BY <1>1, <1>3, <1>4, <1>5, <1>6, <1>7, <1>8, <1>9
     DEF Next, BeginList, BeginTuple, BeginRecord
<1> QED BY <1>10 DEF Ended

\* A name without its value changes nothing that the stack holds.
LEMMA LostNameKeepsCells ==
  ASSUME NEW cs, IsSequence(values), IsSequence(values'), UNCHANGED values,
         GoodStack(cs), SoundStack(cs), LostName(cs),
         GoodStack(contexts'), SoundStack(contexts')
  PROVE  CellsIn(StackOf(values', contexts')) = CellsIn(StackOf(values, cs))
<1> DEFINE n == Len(cs)
           st == StackOf(values, cs)
           up == StackOf(values', contexts')
           d  == NameWithoutValue(Last(cs))
<1>0. /\ cs # <<>> /\ IsSequence(cs) /\ Sound(Last(cs)) /\ HasSlot(Last(cs))
      /\ Last(cs).kind = "record" /\ contexts' = SetTop(cs, d)
  BY SoundLast DEF LostName, TopIs, GoodStack
<1>1. n \in Nat \ {0} /\ Last(cs) = cs[n]
  BY <1>0, SequenceFacts DEF Last
<1>2. /\ Len(contexts') = n
      /\ \A k \in 1..n-1 : contexts'[k] = cs[k]
      /\ contexts'[n] = d
  <2> HIDE DEF d
  <2> QED BY <1>0, SetTopSequence
<1> HIDE DEF d
<1>3. /\ st[0] = ListContext(values)
      /\ \A k \in 1..n : st[k] = cs[k]
  BY <1>0, StackFacts
<1>4. /\ up[0] = ListContext(values')
      /\ \A k \in 1..n : up[k] = contexts'[k]
  BY <1>2, StackFacts DEF GoodStack
<1>5. IsStack(st, n)
  BY StackIsStack
<1>6. IsStack(up, n)
  BY <1>2, StackIsStack
<1> HIDE DEF n, st, up
<1>7. SameBelow(up, st, n)
  <2>1. \A k \in 0..n-1 : k = 0 \/ (k \in 1..n /\ k \in 1..n-1)
    BY <1>1
  <2> QED BY <1>2, <1>3, <1>4, <2>1 DEF SameBelow
<1>8. up[n] = d /\ st[n] = Last(cs)
  BY <1>1, <1>2, <1>3, <1>4
<1>9. OpenSlots(up[n]) = OpenSlots(st[n]) /\ ContextLabel(up[n]) = ContextLabel(st[n])
  BY <1>0, <1>8, NameWithoutValueIsSound DEF d
<1>10. CellsIn(up) = CellsIn(st)
  BY <1>5, <1>6, <1>7, <1>9, KeptStack
<1> QED BY <1>10 DEF up, st

LEMMA GoodAfter ==
  ReadableInv' => IsSequence(values') /\ GoodStack(contexts') /\ SoundStack(contexts')
<1>1. ReadableInv => IsSequence(values) /\ GoodStack(contexts) /\ SoundStack(contexts)
  BY InvIsReadable DEF ReadableInv
<1>2. (IsSequence(values) /\ GoodStack(contexts) /\ SoundStack(contexts))'
        <=> IsSequence(values') /\ GoodStack(contexts') /\ SoundStack(contexts')
  OBVIOUS
<1> QED BY <1>1, <1>2, PTL

LEMMA FailedCallAddsNothing ==
  ASSUME Readable, Next, outcome' = "bad_alloc"
  PROVE  Addresses' \subseteq Addresses
<1>0. /\ GoodStack(contexts) /\ SoundStack(contexts) /\ IsSequence(values)
      /\ IsSequence(values') /\ GoodStack(contexts') /\ SoundStack(contexts')
  BY InvIsReadable, GoodAfter DEF Readable, ReadableInv
<1>1. Cells = CellsIn(StackOf(values, contexts))
  BY DEF Cells, Stack
<1>2. Cells' = CellsIn(StackOf(values', contexts'))
  BY DEF Cells, Stack
<1>3. contexts # <<>> => /\ GoodStack(Front(contexts)) /\ SoundStack(Front(contexts))
                         /\ CellsIn(StackOf(values, Front(contexts))) \subseteq Cells
  BY UnderneathFacts DEF Readable, Underneath
<1>4. UNCHANGED values
  BY FailedCalls
<1>5. CASE contexts' = contexts
  BY <1>1, <1>2, <1>4, <1>5 DEF Addresses, At
<1>6. CASE LostName(contexts)
  <2>1. Cells' = Cells
    BY <1>0, <1>1, <1>2, <1>4, <1>6, LostNameKeepsCells
  <2> QED BY <2>1 DEF Addresses
<1>7. CASE contexts # <<>> /\ contexts' = Front(contexts)
  <2>1. Cells' \subseteq Cells
    BY <1>2, <1>3, <1>4, <1>7
  <2> QED BY <2>1 DEF Addresses, At
<1>8. CASE contexts # <<>> /\ LostName(Front(contexts))
  <2>1. Cells' \subseteq Cells
    BY <1>0, <1>2, <1>3, <1>4, <1>8, LostNameKeepsCells
  <2> QED BY <2>1 DEF Addresses, At
<1> QED BY <1>5, <1>6, <1>7, <1>8, FailedCalls

(***************************************************************************)
(* The invariant: no more addresses than calls that added something, and   *)
(* the one of the document itself.                                         *)
(***************************************************************************)
HeldInv ==
  /\ ReadableInv
  /\ IsFiniteSet(Addresses)
  /\ Cardinality(Addresses) <= appended + 1

AddsOne  == (\E a : a \notin Addresses /\ Addresses' = Addresses \cup {a}) /\ appended' = appended + 1
KeepsAll == Addresses' = Addresses /\ appended' = appended
Loses    == Addresses' \subseteq Addresses /\ appended' = appended /\ outcome' = "bad_alloc"

LEMMA AddressStep ==
  ASSUME Readable, Next
  PROVE  AddsOne \/ KeepsAll \/ Loses
<1>1. CASE Refused
  <2>1. UNCHANGED <<values, contexts>>
    BY <1>1, StepRefuses DEF Readable, ReadableInv
  <2>2. Addresses' = Addresses
    BY <2>1, NothingWritten DEF Stays, Addresses
  <2>3. outcome' # "ok"
    BY <1>1 DEF Refused
  <2> QED BY <2>2, <2>3, HowCallsEnd DEF KeepsAll
<1>2. CASE outcome' = "ok"
  <2>1. ASSUME NEW x \in Scalars, AppendValue(contexts, ScalarValue(x)),
               appended < MaxValues, appended' = appended + 1
        PROVE  AddsOne
    BY <1>2, <2>1, AddsAddress DEF AddsOne
  <2>2. ASSUME NEW c, Opens(c) PROVE AddsOne
    BY <2>2, OpensAddress DEF AddsOne, Opens
  <2>3. ASSUME NEW v, Closes(v) PROVE KeepsAll
    BY <1>2, <2>3, ClosesAddresses DEF KeepsAll, Closes, Deliver
  <2>4. ASSUME UNCHANGED appended, NEW i \in 0..MaxTupleSize, Document!ChooseIndex(i) PROVE KeepsAll
    BY <2>4 DEF KeepsAll, Addresses, Document!ChooseIndex, Document!Choose
  <2>5. ASSUME UNCHANGED appended, NEW name \in Names, Document!ChooseField(name) PROVE KeepsAll
    BY <2>5 DEF KeepsAll, Addresses, Document!ChooseField, Document!Choose
  <2>6. CASE UNCHANGED <<values, contexts, appended>>
    BY <2>6, NothingWritten DEF KeepsAll, Stays, Addresses
  <2> QED BY <1>2, <2>1, <2>2, <2>3, <2>4, <2>5, <2>6, OkCalls
<1>3. CASE outcome' = "bad_alloc"
  BY <1>3, FailedCallAddsNothing, HowCallsEnd DEF Loses
<1> QED BY <1>1, <1>2, <1>3, HowCallsEnd

LEMMA HeldInit == Init => HeldInv
<1> SUFFICES ASSUME Init PROVE HeldInv
  OBVIOUS
<1>1. Cells = {[at |-> <<>>, name |-> <<>>, is |-> Document!ListLabel]}
  BY DocumentInit DEF Document!Init
<1>2. Addresses = {<<>>}
  BY <1>1 DEF Addresses, At
<1>3. IsFiniteSet({<<>>}) /\ Cardinality({<<>>}) = 1
  BY FS_Singleton
<1>4. appended = 0
  BY DEF Init
<1> QED BY <1>2, <1>3, <1>4, ReadableInit DEF HeldInv

LEMMA CountedAddresses ==
  ASSUME HeldInv
  PROVE  Cardinality(Addresses) \in Nat /\ appended \in Nat
BY FS_CardinalityType, InvIsReadable DEF HeldInv

LEMMA CountedAfter == HeldInv' => Cardinality(Addresses') \in Nat /\ appended' \in Nat
<1>1. HeldInv => Cardinality(Addresses) \in Nat /\ appended \in Nat
  BY CountedAddresses
<1>2. (Cardinality(Addresses) \in Nat /\ appended \in Nat)'
        <=> Cardinality(Addresses') \in Nat /\ appended' \in Nat
  OBVIOUS
<1> QED BY <1>1, <1>2, PTL

LEMMA HeldStep ==
  ASSUME HeldInv, Readable, [Next]_vars
  PROVE  /\ IsFiniteSet(Addresses') /\ Cardinality(Addresses') <= appended' + 1
         /\ appended' - Cardinality(Addresses') > appended - Cardinality(Addresses)
              => outcome' = "bad_alloc"
<1>0. /\ Cardinality(Addresses) \in Nat /\ appended \in Nat
      /\ IsFiniteSet(Addresses) /\ Cardinality(Addresses) <= appended + 1
  BY CountedAddresses DEF HeldInv
<1>1. CASE AddsOne
  <2>1. PICK a : a \notin Addresses /\ Addresses' = Addresses \cup {a}
    BY <1>1 DEF AddsOne
  <2>2. IsFiniteSet(Addresses') /\ Cardinality(Addresses') = Cardinality(Addresses) + 1
    BY <1>0, <2>1, FS_AddElement
  <2>3. appended' = appended + 1
    BY <1>1 DEF AddsOne
  <2> QED BY <1>0, <2>2, <2>3
<1>2. CASE KeepsAll
  BY <1>0, <1>2 DEF KeepsAll
<1>3. CASE Loses
  <2>1. IsFiniteSet(Addresses') /\ Cardinality(Addresses') <= Cardinality(Addresses)
    BY <1>0, <1>3, FS_Subset DEF Loses
  <2>2. Cardinality(Addresses') \in Nat
    BY <2>1, FS_CardinalityType
  <2> QED BY <1>0, <1>3, <2>1, <2>2 DEF Loses
<1>4. CASE UNCHANGED vars
  <2>1. KeepsAll
    BY <1>4, NothingWritten DEF vars, KeepsAll, Stays, Addresses
  <2> QED BY <1>2, <2>1
<1> QED BY <1>1, <1>2, <1>3, <1>4, AddressStep

LEMMA HeldNext == HeldInv /\ ReadableInv' /\ [Next]_vars => HeldInv'
<1> SUFFICES ASSUME HeldInv, ReadableInv', [Next]_vars PROVE HeldInv'
  OBVIOUS
<1>1. IsFiniteSet(Addresses') /\ Cardinality(Addresses') <= appended' + 1
  BY HeldStep DEF Readable, HeldInv
<1> QED BY <1>1 DEF HeldInv

\* Of all the values and containers that the calls of any program add, also when
\* allocations fail, nothing is held twice, and one goes missing only in a call
\* that reports bad_alloc: never in a call that succeeds, and never in a refused
\* one (builder.hpp:50-55, 87-97, 128-133, 187-206).
THEOREM LossesAreReported == Spec => LossIsReported
<1>1. HeldInv /\ HeldInv' /\ [Next]_vars
        => [/\ Held' <= appended'
            /\ appended' - Held' > appended - Held => outcome' = "bad_alloc"]_vars
  <2> SUFFICES ASSUME HeldInv, HeldInv', [Next]_vars
               PROVE  /\ Held' <= appended'
                      /\ appended' - Held' > appended - Held => outcome' = "bad_alloc"
    OBVIOUS
  <2>1. Held = Cardinality(Addresses) - 1
    BY DEF Held, Addresses, At
  <2>2. Held' = Cardinality(Addresses') - 1
    BY DEF Held, Addresses, At
  <2>3. /\ Cardinality(Addresses') <= appended' + 1
        /\ appended' - Cardinality(Addresses') > appended - Cardinality(Addresses)
             => outcome' = "bad_alloc"
    BY HeldStep DEF Readable, HeldInv
  <2>4. Cardinality(Addresses) \in Nat /\ appended \in Nat
    BY CountedAddresses
  <2>5. Cardinality(Addresses') \in Nat /\ appended' \in Nat
    BY CountedAfter
  <2> QED BY <2>1, <2>2, <2>3, <2>4, <2>5
<1> QED BY <1>1, HeldInit, HeldNext, ReadableHolds, PTL DEF Spec, LossIsReported

=============================================================================
