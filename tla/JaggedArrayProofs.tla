------------------------- MODULE JaggedArrayProofs -------------------------
(***************************************************************************)
(* What holds of the storage of jagged::Array for every type of element,   *)
(* any number of arrays of any size, and any number of failed allocations. *)
(***************************************************************************)
EXTENDS JaggedArray, SequenceTheorems, TLAPS

(***************************************************************************)
(* Vectors.                                                                *)
(***************************************************************************)
LEMMA VectorsAreSequences ==
  ASSUME NEW S, NEW n \in Nat, NEW v \in Vectors(S, n)
  PROVE  v \in Seq(S)
<1>1. PICK k \in 0..n : v \in [1..k -> S]
  BY DEF Vectors
<1> QED BY <1>1, SeqDef

LEMMA InputTypes ==
  /\ \A v \in Vectors(Elements, MaxValues) : v \in Seq(Elements)
  /\ \A o \in OffsetVectors : o \in Seq(Nat)
<1>1. ASSUME NEW v \in Vectors(Elements, MaxValues) PROVE v \in Seq(Elements)
  BY MaxValuesAssumption, VectorsAreSequences
<1>2. ASSUME NEW o \in OffsetVectors PROVE o \in Seq(Nat)
  <2>1. o \in Seq(0..MaxValues)
    BY MaxRowsAssumption, VectorsAreSequences DEF OffsetVectors
  <2>2. 0..MaxValues \subseteq Nat
    BY MaxValuesAssumption
  <2> QED BY <2>1, <2>2, SeqMonotonic
<1> QED BY <1>1, <1>2

\* The offsets of concat_rows.
Shifted(o, n) == [i \in 1..Len(o)-1 |-> n + o[i+1]]

LEMMA ShiftedOffsets ==
  ASSUME NEW o \in Seq(Nat), NEW n \in Nat
  PROVE  /\ Shifted(o, n) \in Seq(Nat)
         /\ Len(Shifted(o, n)) = IF o = <<>> THEN 0 ELSE Len(o) - 1
         /\ \A i \in 1..Len(o)-1 : Shifted(o, n)[i] = n + o[i+1]
<1>1. Len(o) \in Nat /\ (o # <<>> => Len(o) > 0)
  OBVIOUS
<1> DEFINE k == IF o = <<>> THEN 0 ELSE Len(o) - 1
<1>2. k \in Nat /\ 1..Len(o)-1 = 1..k
  BY <1>1
<1>3. \A i \in 1..k : n + o[i+1] \in Nat
  BY <1>1
<1>4. Shifted(o, n) \in [1..k -> Nat]
  BY <1>2, <1>3 DEF Shifted
<1>5. Shifted(o, n) \in Seq(Nat) /\ Len(Shifted(o, n)) = k
  <2> HIDE DEF k
  <2> QED BY <1>2, <1>4
<1> QED BY <1>5 DEF Shifted

-----------------------------------------------------------------------------
(***************************************************************************)
(* Steps.                                                                  *)
(***************************************************************************)
Typed == values \in [Handles -> Seq(Elements)] /\ offsets \in [Handles -> Seq(Nat)]

LEMMA StoreEffect ==
  ASSUME Typed, NEW h \in Handles, NEW v \in Seq(Elements), NEW o \in Seq(Nat),
         Store(h, v, o)
  PROVE  /\ Typed'
         /\ values'[h] = v /\ offsets'[h] = o
         /\ \A g \in Handles \ {h} : values'[g] = values[g] /\ offsets'[g] = offsets[g]
BY DEF Typed, Store

LEMMA MovedEffect ==
  ASSUME Typed, NEW g \in Handles, NEW h \in Handles, g # h, NEW left \in Seq(Nat),
         Moved(g, h, left)
  PROVE  /\ Typed'
         /\ values'[h] = values[g] /\ offsets'[h] = offsets[g]
         /\ values'[g] = <<>> /\ offsets'[g] = left
         /\ \A f \in Handles \ {g, h} : values'[f] = values[f] /\ offsets'[f] = offsets[f]
<1>1. <<>> \in Seq(Elements)
  OBVIOUS
<1> QED BY <1>1 DEF Typed, Moved

LEMMA EmptyArray ==
  /\ <<>> \in Seq(Elements)
  /\ <<0>> \in Seq(Nat) /\ <<>> \in Seq(Nat)
  /\ ValidOffsets(Len(<<>>), <<0>>)
BY DEF ValidOffsets, Ascending

\* The arguments of concat_rows' constructor call.
LEMMA ConcatTypes ==
  ASSUME Typed, NEW a \in Handles, NEW b \in Handles
  PROVE  /\ values[a] \o values[b] \in Seq(Elements)
         /\ offsets[a] \o Shifted(offsets[b], Len(values[a])) \in Seq(Nat)
<1>1. Len(values[a]) \in Nat
  BY DEF Typed
<1>2. Shifted(offsets[b], Len(values[a])) \in Seq(Nat)
  BY <1>1, ShiftedOffsets DEF Typed
<1> QED BY <1>2, ConcatProperties DEF Typed

\* Every step keeps the vectors' types and the set of arrays among the handles.
LEMMA TypedNext ==
  ASSUME Typed, live \subseteq Handles, Next
  PROVE  Typed' /\ live' \subseteq Handles
<1>1. ASSUME NEW h \in Handles, NEW v \in Seq(Elements), NEW o \in Seq(Nat), Result(h, v, o)
      PROVE  Typed' /\ live' \subseteq Handles
  BY <1>1, StoreEffect DEF Result, Deliver, Throw, ThrowOutOfMemory, Typed
<1>2. ASSUME NEW h \in Handles, Default(h) PROVE Typed' /\ live' \subseteq Handles
  <2>1. CASE ThrowOutOfMemory
    BY <2>1 DEF ThrowOutOfMemory, Typed
  <2>2. CASE ~ThrowOutOfMemory
    BY <1>2, <2>2, StoreEffect, EmptyArray DEF Default
  <2> QED BY <2>1, <2>2
<1>3. ASSUME NEW h \in Handles, NEW v \in Vectors(Elements, MaxValues),
             NEW o \in OffsetVectors, FromFlat(h, v, o)
      PROVE  Typed' /\ live' \subseteq Handles
  BY <1>1, <1>3, InputTypes DEF FromFlat
<1>4. ASSUME NEW h \in Handles, NEW row \in Vectors(Elements, MaxValues), AppendRow(h, row)
      PROVE  Typed' /\ live' \subseteq Handles
  <2> DEFINE v == values[h] \o row
             o == Append(offsets[h], Len(v))
  <2>1. v \in Seq(Elements) /\ Len(v) \in Nat
    BY InputTypes, ConcatProperties DEF Typed
  <2>2. o \in Seq(Nat) /\ offsets[h] \in Seq(Nat)
    BY <2>1, AppendProperties DEF Typed
  <2>3. Store(h, v, o) \/ UNCHANGED <<values, offsets>> \/ Store(h, v, offsets[h])
    BY <1>4 DEF AppendRow
  <2>4. live' = live
    BY <1>4 DEF AppendRow
  <2> HIDE DEF v, o
  <2> QED BY <2>1, <2>2, <2>3, <2>4, StoreEffect DEF Typed
<1>5. ASSUME NEW h \in Handles, Clear(h) PROVE Typed' /\ live' \subseteq Handles
  BY <1>5, StoreEffect, EmptyArray DEF Clear
<1>6. ASSUME NEW h \in Handles, Reserve(h) PROVE Typed' /\ live' \subseteq Handles
  BY <1>6 DEF Reserve, Throw, ThrowOutOfMemory, Typed
<1>7. ASSUME NEW h \in Handles, Destroy(h) PROVE Typed' /\ live' \subseteq Handles
  BY <1>7, StoreEffect, EmptyArray DEF Destroy
<1>8. ASSUME NEW g \in Handles, NEW h \in Handles, CopyConstruct(g, h) \/ CopyAssign(g, h)
      PROVE  Typed' /\ live' \subseteq Handles
  <2>1. /\ values[g] \in Seq(Elements)
        /\ offsets[g] \in Seq(Nat) /\ offsets[h] \in Seq(Nat)
    BY DEF Typed
  <2>2. \/ Store(h, values[g], offsets[g])
        \/ Store(h, values[g], offsets[h])
        \/ UNCHANGED <<values, offsets>>
    BY <1>8 DEF CopyConstruct, CopyAssign, ThrowOutOfMemory
  <2>3. live' \subseteq Handles
    BY <1>8 DEF CopyConstruct, CopyAssign, ThrowOutOfMemory
  <2> QED BY <2>1, <2>2, <2>3, StoreEffect DEF Typed
<1>9. ASSUME NEW g \in Handles, NEW h \in Handles, MoveAssign(g, h) \/ MoveConstruct(g, h)
      PROVE  Typed' /\ live' \subseteq Handles
  <2>1. live' \subseteq Handles
    BY <1>9 DEF MoveAssign, MoveConstruct, Throw
  <2>2. CASE g = h
    BY <1>9, <2>1, <2>2, EmptyArray, StoreEffect DEF MoveAssign, MoveConstruct, Throw, Typed
  <2>3. CASE g # h
    BY <1>9, <2>1, <2>3, EmptyArray, StoreEffect, MovedEffect DEF MoveAssign, MoveConstruct
  <2> QED BY <2>2, <2>3
<1>10. ASSUME NEW a \in Handles, NEW b \in Handles, NEW h \in Handles, ConcatRows(a, b, h)
       PROVE  Typed' /\ live' \subseteq Handles
  <2>1. CASE Joinable(a, b)
    <3>1. Result(h, values[a] \o values[b], offsets[a] \o Shifted(offsets[b], Len(values[a])))
      BY <1>10, <2>1 DEF ConcatRows, Shifted
    <3> QED BY <1>1, <3>1, ConcatTypes
  <2>2. CASE ~Joinable(a, b)
    BY <1>10, <2>2 DEF ConcatRows, Throw, ThrowOutOfMemory, Typed
  <2> QED BY <2>1, <2>2
<1> QED BY <1>2, <1>3, <1>4, <1>5, <1>6, <1>7, <1>8, <1>9, <1>10 DEF Next

\* A call ends in one of the four ways, and allocations are counted.
LEMMA EndedNext ==
  ASSUME outcome \in Outcomes, failures \in 0..MaxFailures, Next
  PROVE  outcome' \in Outcomes /\ failures' \in 0..MaxFailures
<1>1. \/ \E e \in Outcomes : Report(e)
      \/ OutOfMemory
  BY DEF Next, Default, FromFlat, Result, Deliver, AppendRow, Clear, Reserve, Destroy,
         CopyConstruct, CopyAssign, MoveAssign, MoveConstruct, ConcatRows,
         Throw, ThrowOutOfMemory, Outcomes
<1> QED BY <1>1, MaxFailuresAssumption DEF Report, OutOfMemory, Outcomes

\* Every handle keeps a vector of elements and a vector of sizes.
THEOREM TypeCorrect == Spec => []TypeOK
<1>1. Init => TypeOK
  BY EmptyArray, MaxFailuresAssumption DEF Init, TypeOK, Outcomes
<1>2. TypeOK /\ [Next]_vars => TypeOK'
  <2> SUFFICES ASSUME TypeOK, [Next]_vars PROVE TypeOK'
    OBVIOUS
  <2>1. CASE Next
    <3>1. Typed' /\ live' \subseteq Handles
      BY <2>1, TypedNext DEF TypeOK, Typed
    <3>2. outcome' \in Outcomes /\ failures' \in 0..MaxFailures
      BY <2>1, EndedNext DEF TypeOK
    <3> QED BY <3>1, <3>2 DEF TypeOK, Typed
  <2>2. CASE UNCHANGED vars
    BY <2>2 DEF vars, TypeOK
  <2> QED BY <2>1, <2>2
<1> QED BY <1>1, <1>2, PTL DEF Spec

-----------------------------------------------------------------------------
(***************************************************************************)
(* Offsets.                                                                *)
(***************************************************************************)
LEMMA AppendValid ==
  ASSUME NEW o \in Seq(Nat), NEW n \in Nat, NEW m \in Nat, n <= m, ValidOffsets(n, o)
  PROVE  ValidOffsets(m, Append(o, m))
<1> DEFINE p == Append(o, m)
<1>1. /\ p \in Seq(Nat) /\ Len(p) = Len(o) + 1
      /\ \A i \in 1..Len(o) : p[i] = o[i]
      /\ p[Len(o) + 1] = m
  BY AppendProperties
<1>2. /\ Len(o) \in Nat \ {0}
      /\ o[1] = 0 /\ o[Len(o)] = n
      /\ \A i, j \in 1..Len(o) : i <= j => o[i] <= o[j]
  BY DEF ValidOffsets, Ascending
<1> HIDE DEF p
<1>3. p # <<>> /\ p[1] = 0 /\ p[Len(p)] = m
  <2>1. 1 \in 1..Len(o) /\ Len(p) # 0
    BY <1>1, <1>2
  <2>2. p # <<>>
    BY <2>1
  <2> QED BY <1>1, <1>2, <2>1, <2>2
<1>4. ASSUME NEW i \in 1..Len(p), NEW j \in 1..Len(p), i <= j PROVE p[i] <= p[j]
  <2>1. CASE j = Len(o) + 1 /\ i = j
    BY <1>1, <2>1
  <2>2. CASE j = Len(o) + 1 /\ i # j
    <3>1. i \in 1..Len(o) /\ Len(o) \in 1..Len(o) /\ i <= Len(o)
      BY <1>1, <1>2, <2>2
    <3>2. o[i] <= n /\ o[i] \in Nat
      BY <1>2, <3>1
    <3> QED BY <1>1, <2>2, <3>1, <3>2
  <2>3. CASE j # Len(o) + 1
    <3>1. i \in 1..Len(o) /\ j \in 1..Len(o)
      BY <1>1, <1>2, <1>4, <2>3
    <3> QED BY <1>1, <1>2, <1>4, <3>1
  <2> QED BY <2>1, <2>2, <2>3
<1>5. ValidOffsets(m, p)
  BY <1>3, <1>4 DEF ValidOffsets, Ascending
<1> QED BY <1>5 DEF p

\* A store of well-formed vectors leaves every array well formed.
LEMMA StoreWellFormed ==
  ASSUME Typed, live \subseteq Handles, OffsetsWellFormed,
         NEW h \in Handles, NEW v \in Seq(Elements), NEW o \in Seq(Nat),
         Store(h, v, o), ValidOffsets(Len(v), o), live' \subseteq live \cup {h}
  PROVE  OffsetsWellFormed'
<1> SUFFICES ASSUME NEW g \in live' PROVE ValidOffsets(Len(values'[g]), offsets'[g])
  BY DEF OffsetsWellFormed, WellFormed
<1>1. CASE g = h
  BY <1>1, StoreEffect
<1>2. CASE g # h
  BY <1>2, StoreEffect DEF OffsetsWellFormed, WellFormed
<1> QED BY <1>1, <1>2

LEMMA SameWellFormed ==
  ASSUME OffsetsWellFormed, UNCHANGED <<values, offsets>>, live' \subseteq live
  PROVE  OffsetsWellFormed'
BY DEF OffsetsWellFormed, WellFormed

LEMMA MovedWellFormed ==
  ASSUME Typed, live \subseteq Handles, OffsetsWellFormed,
         NEW g \in live, NEW h \in Handles, g # h,
         Moved(g, h, << 0 >>), live' \subseteq live \cup {h}
  PROVE  OffsetsWellFormed'
<1> SUFFICES ASSUME NEW f \in live' PROVE ValidOffsets(Len(values'[f]), offsets'[f])
  BY DEF OffsetsWellFormed, WellFormed
<1>1. /\ values'[h] = values[g] /\ offsets'[h] = offsets[g]
      /\ values'[g] = <<>> /\ offsets'[g] = <<0>>
      /\ \A e \in Handles \ {g, h} : values'[e] = values[e] /\ offsets'[e] = offsets[e]
  BY MovedEffect, EmptyArray
<1>2. CASE f = g
  BY <1>1, <1>2, EmptyArray
<1>3. CASE f = h
  BY <1>1, <1>3 DEF OffsetsWellFormed, WellFormed
<1>4. CASE f \notin {g, h}
  BY <1>1, <1>4 DEF OffsetsWellFormed, WellFormed
<1> QED BY <1>2, <1>3, <1>4

LEMMA WellFormedNext ==
  ASSUME Typed, live \subseteq Handles, OffsetsWellFormed, Next, outcome' # "bad_alloc"
  PROVE  OffsetsWellFormed'
<1>1. ~OutOfMemory
  BY DEF OutOfMemory
<1>2. ASSUME NEW h \in Handles, NEW v \in Seq(Elements), NEW o \in Seq(Nat), Result(h, v, o)
      PROVE  OffsetsWellFormed'
  <2>1. CASE Throw("invalid_argument")
    BY <2>1, SameWellFormed DEF Throw
  <2>2. CASE ValidOffsets(Len(v), o) /\ Deliver(h, v, o)
    BY <2>2, StoreWellFormed DEF Deliver
  <2> QED BY <1>1, <1>2, <2>1, <2>2 DEF Result, ThrowOutOfMemory
<1>3. ASSUME NEW h \in Handles, NEW v \in Vectors(Elements, MaxValues),
             NEW o \in OffsetVectors, FromFlat(h, v, o)
      PROVE  OffsetsWellFormed'
  BY <1>2, <1>3, InputTypes DEF FromFlat
<1>4. ASSUME NEW h \in Handles, NEW row \in Vectors(Elements, MaxValues), AppendRow(h, row)
      PROVE  OffsetsWellFormed'
  <2> DEFINE v == values[h] \o row
             o == Append(offsets[h], Len(v))
  <2>1. /\ v \in Seq(Elements) /\ Len(v) \in Nat
        /\ Len(values[h]) \in Nat /\ Len(values[h]) <= Len(v)
    BY InputTypes, ConcatProperties DEF Typed
  <2>2. o \in Seq(Nat) /\ offsets[h] \in Seq(Nat)
    BY <2>1, AppendProperties DEF Typed
  <2>3. Store(h, v, o) /\ live' = live /\ h \in live
    BY <1>1, <1>4 DEF AppendRow
  <2>4. ValidOffsets(Len(v), o)
    <3>1. ValidOffsets(Len(values[h]), offsets[h])
      BY <2>3 DEF OffsetsWellFormed, WellFormed
    <3> QED BY <2>1, <2>2, <3>1, AppendValid
  <2> HIDE DEF v, o
  <2> QED BY <2>1, <2>2, <2>3, <2>4, StoreWellFormed
<1>5. ASSUME NEW h \in Handles, Default(h) \/ Clear(h) \/ Destroy(h) PROVE OffsetsWellFormed'
  BY <1>1, <1>5, StoreWellFormed, EmptyArray DEF Default, ThrowOutOfMemory, Clear, Destroy
<1>6. ASSUME NEW h \in Handles, Reserve(h) PROVE OffsetsWellFormed'
  BY <1>1, <1>6, SameWellFormed DEF Reserve, Throw, ThrowOutOfMemory
<1>7. ASSUME NEW g \in Handles, NEW h \in Handles, CopyConstruct(g, h) \/ CopyAssign(g, h)
      PROVE  OffsetsWellFormed'
  <2>1. /\ g \in live
        /\ Store(h, values[g], offsets[g])
        /\ live' \subseteq live \cup {h}
    BY <1>1, <1>7 DEF CopyConstruct, CopyAssign, ThrowOutOfMemory
  <2>2. ValidOffsets(Len(values[g]), offsets[g])
    BY <2>1 DEF OffsetsWellFormed, WellFormed
  <2> QED BY <2>1, <2>2, StoreWellFormed DEF Typed
<1>8. ASSUME NEW g \in Handles, NEW h \in Handles, MoveAssign(g, h) \/ MoveConstruct(g, h)
      PROVE  OffsetsWellFormed'
  BY <1>1, <1>8, MovedWellFormed, SameWellFormed DEF MoveAssign, MoveConstruct, Throw
<1>9. ASSUME NEW a \in Handles, NEW b \in Handles, NEW h \in Handles, ConcatRows(a, b, h)
      PROVE  OffsetsWellFormed'
  <2>1. CASE Joinable(a, b)
    <3>1. Result(h, values[a] \o values[b], offsets[a] \o Shifted(offsets[b], Len(values[a])))
      BY <1>9, <2>1 DEF ConcatRows, Shifted
    <3> QED BY <1>2, <3>1, ConcatTypes
  <2>2. CASE ~Joinable(a, b)
    BY <1>9, <2>2, SameWellFormed DEF ConcatRows, Throw, ThrowOutOfMemory
  <2> QED BY <2>1, <2>2
<1> QED BY <1>3, <1>4, <1>5, <1>6, <1>7, <1>8, <1>9 DEF Next

\* Only a call that reports bad_alloc can damage an array: append_row, clear, a
\* copy, a move and concat_rows that succeed, and every refused call, keep every
\* array's offsets valid (array.hpp:63-87, 174-208).
THEOREM DamageReported == Spec => DamageIsReported
<1>1. TypeOK /\ [Next]_vars
        => (OffsetsWellFormed /\ outcome' # "bad_alloc" => OffsetsWellFormed')
  <2> SUFFICES ASSUME TypeOK, [Next]_vars, OffsetsWellFormed, outcome' # "bad_alloc"
               PROVE  OffsetsWellFormed'
    OBVIOUS
  <2>1. CASE Next
    BY <2>1, WellFormedNext DEF TypeOK, Typed
  <2>2. CASE UNCHANGED vars
    BY <2>2 DEF vars, OffsetsWellFormed, WellFormed
  <2> QED BY <2>1, <2>2
<1> QED BY <1>1, TypeCorrect, PTL DEF Spec, DamageIsReported

\* While memory lasts the offsets of every array start at zero, never decrease
\* and end at the number of its values, whatever was done to it.
THEOREM OffsetsStayWellFormed == MaxFailures = 0 /\ Spec => []OffsetsWellFormed
<1> SUFFICES ASSUME MaxFailures = 0 PROVE Spec => []OffsetsWellFormed
  OBVIOUS
<1>1. Init => OffsetsWellFormed
  BY DEF Init, OffsetsWellFormed
<1>2. TypeOK /\ OffsetsWellFormed /\ [Next]_vars => OffsetsWellFormed'
  <2> SUFFICES ASSUME TypeOK, OffsetsWellFormed, [Next]_vars PROVE OffsetsWellFormed'
    OBVIOUS
  <2>1. CASE Next
    <3>1. outcome' # "bad_alloc" \/ OutOfMemory
      BY <2>1 DEF Next, Default, FromFlat, Result, Deliver, AppendRow, Clear, Reserve, Destroy,
            CopyConstruct, CopyAssign, MoveAssign, MoveConstruct, ConcatRows,
            Throw, ThrowOutOfMemory, Report
    <3>2. ~OutOfMemory
      BY DEF OutOfMemory, TypeOK
    <3> QED BY <2>1, <3>1, <3>2, WellFormedNext DEF TypeOK, Typed
  <2>2. CASE UNCHANGED vars
    BY <2>2 DEF vars, OffsetsWellFormed, WellFormed
  <2> QED BY <2>1, <2>2
<1> QED BY <1>1, <1>2, TypeCorrect, PTL DEF Spec

-----------------------------------------------------------------------------
(***************************************************************************)
(* Rows.                                                                   *)
(***************************************************************************)
LEMMA CutOfFirst ==
  ASSUME NEW v \in Seq(Elements), NEW w \in Seq(Elements),
         NEW a \in Nat, NEW b \in Nat, a <= b, b <= Len(v)
  PROVE  SubSeq(v \o w, a + 1, b) = SubSeq(v, a + 1, b)
<1>1. CASE a = b
  <2>1. a + 1 \in Int /\ b \in Int /\ b < a + 1
    BY <1>1
  <2> QED BY <2>1, SubSeqEmpty
<1>2. CASE a # b
  <2>1. a + 1 \in 1..Len(v) /\ b \in 1..Len(v)
    BY <1>2
  <2> QED BY <2>1, SubSeqOfConcat1
<1> QED BY <1>1, <1>2

LEMMA CutOfSecond ==
  ASSUME NEW v \in Seq(Elements), NEW w \in Seq(Elements),
         NEW a \in Nat, NEW b \in Nat, a <= b, b <= Len(w)
  PROVE  SubSeq(v \o w, Len(v) + a + 1, Len(v) + b) = SubSeq(w, a + 1, b)
<1>0. Len(v) \in Nat
  OBVIOUS
<1>1. CASE a = b
  <2>1. /\ a + 1 \in Int /\ b \in Int /\ b < a + 1
        /\ Len(v) + a + 1 \in Int /\ Len(v) + b \in Int /\ Len(v) + b < Len(v) + a + 1
    BY <1>0, <1>1
  <2>2. SubSeq(v \o w, Len(v) + a + 1, Len(v) + b) = <<>>
    BY <2>1, SubSeqEmpty
  <2>3. SubSeq(w, a + 1, b) = <<>>
    BY <2>1, SubSeqEmpty
  <2> QED BY <2>2, <2>3
<1>2. CASE a # b
  <2>1. /\ Len(v) + a + 1 \in Len(v)+1 .. Len(v)+Len(w)
        /\ Len(v) + b \in Len(v)+1 .. Len(v)+Len(w)
        /\ (Len(v) + a + 1) - Len(v) = a + 1
        /\ (Len(v) + b) - Len(v) = b
    BY <1>0, <1>2
  <2> QED BY <2>1, SubSeqOfConcat2
<1> QED BY <1>1, <1>2

LEMMA ValidIsReadable ==
  ASSUME NEW v \in Seq(Elements), NEW o \in Seq(Nat), ValidOffsets(Len(v), o)
  PROVE  Readable(v, o)
<1>1. /\ Len(o) \in Nat \ {0}
      /\ o[Len(o)] = Len(v)
      /\ Ascending(o)
  BY DEF ValidOffsets
<1>2. ASSUME NEW i \in 1..Len(o) PROVE o[i] <= Len(v)
  BY <1>1 DEF Ascending
<1> QED BY <1>1, <1>2 DEF Readable

\* A cut that begins in the first sequence and ends in the second.
LEMMA CutAcross ==
  ASSUME NEW v \in Seq(Elements), NEW w \in Seq(Elements),
         NEW a \in Nat, NEW b \in Nat, a <= Len(v), b <= Len(w)
  PROVE  SubSeq(v \o w, a + 1, Len(v) + b) = SubSeq(v, a + 1, Len(v)) \o SubSeq(w, 1, b)
<1> DEFINE m == Len(v)
           u == v \o w
           s == SubSeq(u, a + 1, m + b)
           x == SubSeq(v, a + 1, m)
           y == SubSeq(w, 1, b)
<1>1. /\ m \in Nat /\ Len(w) \in Nat
      /\ u \in Seq(Elements) /\ Len(u) = m + Len(w)
      /\ \A i \in 1..m + Len(w) : u[i] = IF i <= m THEN v[i] ELSE w[i - m]
  BY ConcatProperties
<1>2. /\ \A k \in a + 1 .. m + b : u[k] \in Elements
      /\ \A k \in a + 1 .. m : v[k] \in Elements
      /\ \A k \in 1..b : w[k] \in Elements
      /\ a + 1 \in Int /\ m + b \in Int /\ m \in Int /\ 1 \in Int /\ b \in Int
  <2>1. \A k \in a + 1 .. m + b : k \in 1..Len(u)
    BY <1>1
  <2> HIDE DEF u
  <2> QED BY <1>1, <2>1
<1>6. a <= m
  OBVIOUS
<1> HIDE DEF u, m
<1>3. /\ s \in Seq(Elements)
      /\ Len(s) = IF a + 1 <= m + b THEN m + b - (a + 1) + 1 ELSE 0
      /\ \A i \in 1..m + b - (a + 1) + 1 : s[i] = u[a + 1 + i - 1]
  BY <1>2, SubSeqProperties
<1>4. /\ x \in Seq(Elements)
      /\ Len(x) = IF a + 1 <= m THEN m - (a + 1) + 1 ELSE 0
      /\ \A i \in 1..m - (a + 1) + 1 : x[i] = v[a + 1 + i - 1]
  BY <1>2, SubSeqProperties
<1>5. /\ y \in Seq(Elements)
      /\ Len(y) = IF 1 <= b THEN b - 1 + 1 ELSE 0
      /\ \A i \in 1..b - 1 + 1 : y[i] = w[1 + i - 1]
  BY <1>2, SubSeqProperties
<1> HIDE DEF s, x, y
<1>7. Len(s) = m - a + b /\ Len(x) = m - a /\ Len(y) = b /\ m - a \in Nat
  BY <1>1, <1>3, <1>4, <1>5, <1>6
<1>8. /\ x \o y \in Seq(Elements) /\ Len(x \o y) = m - a + b
      /\ \A i \in 1..m - a + b : (x \o y)[i] = IF i <= m - a THEN x[i] ELSE y[i - (m - a)]
  <2>1. /\ x \o y \in Seq(Elements) /\ Len(x \o y) = Len(x) + Len(y)
        /\ \A i \in 1..Len(x) + Len(y) : (x \o y)[i] = IF i <= Len(x) THEN x[i] ELSE y[i - Len(x)]
    BY <1>4, <1>5, ConcatProperties
  <2> QED BY <1>7, <2>1
<1>9. ASSUME NEW i \in 1..m - a + b PROVE s[i] = (x \o y)[i]
  <2>1. s[i] = u[a + i]
    <3>1. i \in 1..m + b - (a + 1) + 1 /\ a + 1 + i - 1 = a + i
      BY <1>1, <1>7
    <3> QED BY <1>3, <3>1
  <2>2. CASE i <= m - a
    <3>1. a + i \in 1..m + Len(w) /\ a + i <= m /\ i \in 1..m - (a + 1) + 1 /\ a + 1 + i - 1 = a + i
      BY <1>1, <1>7, <2>2
    <3> QED BY <1>1, <1>4, <1>8, <2>1, <2>2, <3>1
  <2>3. CASE ~(i <= m - a)
    <3> DEFINE j == i - (m - a)
    <3>1. /\ a + i \in 1..m + Len(w) /\ ~(a + i <= m) /\ (a + i) - m = j
          /\ j \in 1..b - 1 + 1 /\ 1 + j - 1 = j
      BY <1>1, <1>6, <1>7, <2>3
    <3>2. (x \o y)[i] = y[j]
      BY <1>8, <2>3
    <3> HIDE DEF j
    <3> QED BY <1>1, <1>5, <2>1, <3>1, <3>2
  <2> QED BY <2>2, <2>3
<1>10. s = x \o y
  <2>1. Len(s) = Len(x \o y)
    BY <1>7, <1>8
  <2> QED BY <1>3, <1>7, <1>8, <1>9, <2>1, SeqEqual
<1> QED BY <1>10 DEF s, x, y, u, m

\* A cut from the front, cut in two.
LEMMA CutApart ==
  ASSUME NEW w \in Seq(Elements), NEW a \in Nat, NEW b \in Nat, a <= b, b <= Len(w)
  PROVE  SubSeq(w, 1, b) = SubSeq(w, 1, a) \o SubSeq(w, a + 1, b)
<1> DEFINE v == SubSeq(w, 1, b)
           x == SubSeq(w, 1, a)
           y == SubSeq(w, a + 1, b)
<1>1. /\ Len(w) \in Nat /\ 1 \in Int /\ a \in Int /\ b \in Int /\ a + 1 \in Int
      /\ \A k \in 1..b : w[k] \in Elements
      /\ \A k \in 1..a : w[k] \in Elements
      /\ \A k \in a + 1 .. b : w[k] \in Elements
  OBVIOUS
<1>2. /\ v \in Seq(Elements) /\ Len(v) = IF 1 <= b THEN b - 1 + 1 ELSE 0
      /\ \A i \in 1..b - 1 + 1 : v[i] = w[1 + i - 1]
  BY <1>1, SubSeqProperties
<1>3. /\ x \in Seq(Elements) /\ Len(x) = IF 1 <= a THEN a - 1 + 1 ELSE 0
      /\ \A i \in 1..a - 1 + 1 : x[i] = w[1 + i - 1]
  BY <1>1, SubSeqProperties
<1>4. /\ y \in Seq(Elements) /\ Len(y) = IF a + 1 <= b THEN b - (a + 1) + 1 ELSE 0
      /\ \A i \in 1..b - (a + 1) + 1 : y[i] = w[a + 1 + i - 1]
  BY <1>1, SubSeqProperties
<1> HIDE DEF v, x, y
<1>5. Len(v) = b /\ Len(x) = a /\ Len(y) = b - a
  BY <1>2, <1>3, <1>4
<1>6. /\ x \o y \in Seq(Elements) /\ Len(x \o y) = a + (b - a)
      /\ \A i \in 1..a + (b - a) : (x \o y)[i] = IF i <= a THEN x[i] ELSE y[i - a]
  <2>1. /\ x \o y \in Seq(Elements) /\ Len(x \o y) = Len(x) + Len(y)
        /\ \A i \in 1..Len(x) + Len(y) : (x \o y)[i] = IF i <= Len(x) THEN x[i] ELSE y[i - Len(x)]
    BY <1>3, <1>4, ConcatProperties
  <2> QED BY <1>5, <2>1
<1>7. ASSUME NEW i \in 1..b PROVE v[i] = (x \o y)[i]
  <2>1. v[i] = w[i] /\ i \in 1..a + (b - a)
    BY <1>2
  <2>2. CASE i <= a
    <3>1. i \in 1..a - 1 + 1 /\ 1 + i - 1 = i
      BY <2>2
    <3> QED BY <1>3, <1>6, <2>1, <2>2, <3>1
  <2>3. CASE ~(i <= a)
    <3> DEFINE j == i - a
    <3>1. j \in 1..b - (a + 1) + 1 /\ a + 1 + j - 1 = i
      BY <2>3
    <3>2. (x \o y)[i] = y[j]
      BY <1>6, <2>1, <2>3
    <3> HIDE DEF j
    <3> QED BY <1>4, <2>1, <3>1, <3>2
  <2> QED BY <2>2, <2>3
<1>8. v = x \o y
  <2>1. Len(x \o y) = b
    BY <1>6
  <2> QED BY <1>2, <1>5, <1>6, <1>7, <2>1, SeqEqual
<1> QED BY <1>8 DEF v, x, y

\* The rows of a readable array stay what they are when values are added behind
\* its own, and offsets behind its own.
LEMMA RowsStay ==
  ASSUME NEW v \in Seq(Elements), NEW w \in Seq(Elements),
         NEW o \in Seq(Nat), NEW p \in Seq(Nat), Readable(v, o),
         Len(o) <= Len(p), \A i \in 1..Len(o) : p[i] = o[i]
  PROVE  /\ DOMAIN RowsOf(v, o) = 1..Len(o)-1
         /\ \A i \in 1..Len(o)-1 : RowsOf(v \o w, p)[i] = RowsOf(v, o)[i]
<1>1. DOMAIN RowsOf(v, o) = 1..Len(o)-1
  BY DEF RowsOf
<1>2. ASSUME NEW i \in 1..Len(o)-1 PROVE RowsOf(v \o w, p)[i] = RowsOf(v, o)[i]
  <2>1. /\ i \in 1..Len(o) /\ i + 1 \in 1..Len(o) /\ i <= i + 1
        /\ i \in 1..Len(p)-1
    OBVIOUS
  <2>2. o[i] \in Nat /\ o[i+1] \in Nat
    BY <2>1
  <2>3. o[i] <= o[i+1]
    BY <2>1 DEF Readable, Ascending
  <2>4. o[i+1] <= Len(v)
    BY <2>1 DEF Readable
  <2>5. SubSeq(v \o w, o[i] + 1, o[i+1]) = SubSeq(v, o[i] + 1, o[i+1])
    BY <2>2, <2>3, <2>4, CutOfFirst
  <2> QED BY <2>1, <2>5 DEF RowsOf
<1> QED BY <1>1, <1>2

\* What AppendKeepsRows says of one step.
AppendKept ==
  call'.op = "AppendRow" =>
    LET h == call'.to
        before == RowsOf(values[h], offsets[h])
    IN  Readable(values[h], offsets[h])
          => \A i \in DOMAIN before : RowsOf(values'[h], offsets'[h])[i] = before[i]

LEMMA AppendStepKeeps ==
  ASSUME TypeOK, Next
  PROVE  AppendKept
<1> SUFFICES ASSUME call'.op = "AppendRow",
                    Readable(values[call'.to], offsets[call'.to]),
                    NEW i \in DOMAIN RowsOf(values[call'.to], offsets[call'.to])
             PROVE  RowsOf(values'[call'.to], offsets'[call'.to])[i]
                      = RowsOf(values[call'.to], offsets[call'.to])[i]
  BY DEF AppendKept
<1>1. PICK h \in Handles, row \in Vectors(Elements, MaxValues) : AppendRow(h, row)
  <2>1. ASSUME NEW h \in Handles,
               \/ Default(h) \/ Clear(h) \/ Reserve(h) \/ Destroy(h)
               \/ \E v \in Vectors(Elements, MaxValues), o \in OffsetVectors : FromFlat(h, v, o)
        PROVE  FALSE
    BY <2>1 DEF Default, Clear, Reserve, Destroy, FromFlat
  <2>2. ASSUME NEW g \in Handles, NEW h \in Handles,
               \/ CopyConstruct(g, h) \/ CopyAssign(g, h)
               \/ MoveAssign(g, h) \/ MoveConstruct(g, h)
        PROVE  FALSE
    BY <2>2 DEF CopyConstruct, CopyAssign, MoveAssign, MoveConstruct
  <2>3. ASSUME NEW a \in Handles, NEW b \in Handles, NEW h \in Handles, ConcatRows(a, b, h)
        PROVE  FALSE
    BY <2>3 DEF ConcatRows
  <2> QED BY <2>1, <2>2, <2>3 DEF Next
<1> DEFINE v == values[h]
           o == offsets[h]
<1>2. call'.to = h
  BY <1>1 DEF AppendRow
<1>3. v \in Seq(Elements) /\ o \in Seq(Nat) /\ row \in Seq(Elements) /\ Typed
  BY InputTypes DEF TypeOK, Typed
<1>4. i \in 1..Len(o)-1 /\ Readable(v, o)
  BY <1>2 DEF RowsOf
<1>5. v \o row \in Seq(Elements) /\ Len(v \o row) \in Nat
  BY <1>3, ConcatProperties
<1>6. CASE Store(h, v \o row, Append(o, Len(v \o row)))
  <2> DEFINE p == Append(o, Len(v \o row))
  <2>1. p \in Seq(Nat) /\ Len(o) <= Len(p) /\ \A k \in 1..Len(o) : p[k] = o[k]
    BY <1>3, <1>5, AppendProperties
  <2>2. values'[h] = v \o row /\ offsets'[h] = p
    BY <1>3, <1>5, <1>6, <2>1, StoreEffect
  <2>3. RowsOf(v \o row, p)[i] = RowsOf(v, o)[i]
    <3> HIDE DEF p, v, o
    <3> QED BY <1>3, <1>4, <2>1, RowsStay
  <2> QED BY <1>2, <2>2, <2>3
<1>7. CASE Store(h, v \o row, o)
  <2>1. values'[h] = v \o row /\ offsets'[h] = o
    BY <1>3, <1>5, <1>7, StoreEffect
  <2>2. RowsOf(v \o row, o)[i] = RowsOf(v, o)[i]
    <3> HIDE DEF v, o
    <3>1. Len(o) \in Nat /\ Len(o) <= Len(o)
      BY <1>3
    <3> QED BY <1>3, <1>4, <3>1, RowsStay
  <2> QED BY <1>2, <2>1, <2>2
<1>8. CASE UNCHANGED <<values, offsets>>
  BY <1>8
<1> QED BY <1>1, <1>6, <1>7, <1>8 DEF AppendRow

\* append_row keeps every row that could be read, whether it succeeds, fails to
\* take the values or fails to take the offset after them.
THEOREM AppendKeepsEarlierRows == Spec => AppendKeepsRows
<1>1. TypeOK /\ [Next]_vars => [AppendKept]_vars
  BY AppendStepKeeps
<1>2. Spec => [][AppendKept]_vars
  BY <1>1, TypeCorrect, PTL DEF Spec
<1> QED BY <1>2 DEF AppendKept, AppendKeepsRows

-----------------------------------------------------------------------------
(***************************************************************************)
(* What the rows of new vectors are.                                       *)
(***************************************************************************)
LEMMA RowsOfEmpty == RowsOf(<<>>, <<0>>) = <<>>
BY DEF RowsOf

LEMMA FunctionIsSeq ==
  ASSUME NEW S, NEW n \in Nat, NEW f \in [1..n -> S]
  PROVE  f \in Seq(S) /\ Len(f) = n
OBVIOUS

\* A readable array has one row for every offset but the first.
LEMMA ReadableRows ==
  ASSUME NEW v \in Seq(Elements), NEW o \in Seq(Nat), Readable(v, o)
  PROVE  /\ Len(o) - 1 \in Nat
         /\ RowsOf(v, o) \in Seq(Seq(Elements))
         /\ Len(RowsOf(v, o)) = Len(o) - 1
<1>1. Len(o) - 1 \in Nat
  BY DEF Readable
<1>2. ASSUME NEW i \in 1..Len(o)-1 PROVE SubSeq(v, o[i] + 1, o[i+1]) \in Seq(Elements)
  <2>1. i \in 1..Len(o) /\ i + 1 \in 1..Len(o)
    BY <1>1
  <2>2. o[i] \in Nat /\ o[i+1] \in Nat /\ o[i+1] <= Len(v)
    BY <2>1 DEF Readable
  <2>3. o[i] + 1 \in Int /\ o[i+1] \in Int /\ \A k \in o[i] + 1 .. o[i+1] : v[k] \in Elements
    BY <2>2
  <2> QED BY <2>3, SubSeqProperties
<1>3. RowsOf(v, o) \in [1..Len(o)-1 -> Seq(Elements)]
  BY <1>2 DEF RowsOf
<1> QED BY <1>1, <1>3, FunctionIsSeq, Zenon

LEMMA RowsType ==
  ASSUME NEW v \in Seq(Elements), NEW o \in Seq(Nat), ValidOffsets(Len(v), o)
  PROVE  /\ RowsOf(v, o) \in Seq(Seq(Elements))
         /\ Len(RowsOf(v, o)) = Len(o) - 1
BY ValidIsReadable, ReadableRows

LEMMA RowsOfAppended ==
  ASSUME NEW v \in Seq(Elements), NEW row \in Seq(Elements), NEW o \in Seq(Nat),
         ValidOffsets(Len(v), o)
  PROVE  RowsOf(v \o row, Append(o, Len(v \o row))) = Append(RowsOf(v, o), row)
<1> DEFINE w == v \o row
           p == Append(o, Len(w))
           n == Len(o)
<1>1. w \in Seq(Elements) /\ Len(w) = Len(v) + Len(row) /\ Len(v) \in Nat /\ Len(row) \in Nat
  BY ConcatProperties
<1>2. /\ p \in Seq(Nat) /\ Len(p) = n + 1
      /\ \A i \in 1..n : p[i] = o[i]
      /\ p[n + 1] = Len(w)
  BY <1>1, AppendProperties
<1>3. n \in Nat \ {0} /\ o[n] = Len(v)
  BY DEF ValidOffsets
<1>4. ValidOffsets(Len(w), p)
  BY <1>1, AppendValid
<1>5. /\ RowsOf(w, p) \in Seq(Seq(Elements)) /\ Len(RowsOf(w, p)) = n
      /\ RowsOf(v, o) \in Seq(Seq(Elements)) /\ Len(RowsOf(v, o)) = n - 1
  <2> HIDE DEF w, p, n
  <2>1. Len(p) - 1 = n
    BY <1>2, <1>3
  <2> QED BY <1>1, <1>2, <1>4, <2>1, RowsType DEF n
<1>6. /\ Append(RowsOf(v, o), row) \in Seq(Seq(Elements))
      /\ Len(Append(RowsOf(v, o), row)) = n
      /\ \A i \in 1..n-1 : Append(RowsOf(v, o), row)[i] = RowsOf(v, o)[i]
      /\ Append(RowsOf(v, o), row)[n] = row
  <2> HIDE DEF n
  <2>1. (n - 1) + 1 = n
    BY <1>3
  <2> QED BY <1>5, <2>1, AppendProperties
<1>7. ASSUME NEW i \in 1..n PROVE RowsOf(w, p)[i] = Append(RowsOf(v, o), row)[i]
  <2>1. CASE i = n
    <3>1. RowsOf(w, p)[n] = SubSeq(w, p[n] + 1, p[n + 1])
      <4>1. n \in 1..Len(p)-1
        BY <1>2, <1>3
      <4> HIDE DEF w, p, n
      <4> QED BY <4>1 DEF RowsOf
    <3>2. p[n] = Len(v) /\ p[n + 1] = Len(v) + Len(row)
      BY <1>1, <1>2, <1>3
    <3>3. SubSeq(w, Len(v) + 0 + 1, Len(v) + Len(row)) = SubSeq(row, 0 + 1, Len(row))
      BY <1>1, CutOfSecond
    <3>4. SubSeq(row, 1, Len(row)) = row
      BY SubSeqFull
    <3>5. Len(v) + 0 + 1 = Len(v) + 1 /\ 0 + 1 = 1
      BY <1>1
    <3> HIDE DEF w, p, n
    <3> QED BY <1>6, <2>1, <3>1, <3>2, <3>3, <3>4, <3>5
  <2>2. CASE i # n
    <3>1. i \in 1..n-1
      BY <1>3, <2>2
    <3>2. Len(o) <= Len(p) /\ Readable(v, o)
      BY <1>2, <1>3, ValidIsReadable
    <3>3. RowsOf(v \o row, p)[i] = RowsOf(v, o)[i]
      <4> HIDE DEF p
      <4> QED BY <1>2, <3>1, <3>2, RowsStay
    <3> QED BY <1>6, <3>1, <3>3
  <2> QED BY <2>1, <2>2
<1> HIDE DEF w, p, n
<1>8. RowsOf(w, p) = Append(RowsOf(v, o), row)
  BY <1>3, <1>5, <1>6, <1>7, SeqEqual
<1> QED BY <1>8 DEF w, p, n

LEMMA AscendingAt ==
  ASSUME NEW o \in Seq(Nat), Ascending(o), NEW i \in 1..Len(o), NEW j \in 1..Len(o), i <= j
  PROVE  o[i] <= o[j] /\ o[i] \in Nat /\ o[j] \in Nat
BY DEF Ascending

LEMMA BelowSum ==
  ASSUME NEW a \in Nat, NEW b \in Nat, NEW c \in Nat, a <= b
  PROVE  a <= b + c
OBVIOUS

LEMMA SumsInOrder ==
  ASSUME NEW a \in Nat, NEW b \in Nat, NEW c \in Nat, a <= b
  PROVE  c + a <= c + b
OBVIOUS

LEMMA RowsOfJoined ==
  ASSUME NEW v1 \in Seq(Elements), NEW v2 \in Seq(Elements),
         NEW o1 \in Seq(Nat), NEW o2 \in Seq(Nat),
         ValidOffsets(Len(v1), o1), ValidOffsets(Len(v2), o2)
  PROVE  /\ ValidOffsets(Len(v1 \o v2), o1 \o Shifted(o2, Len(v1)))
         /\ RowsOf(v1 \o v2, o1 \o Shifted(o2, Len(v1))) = RowsOf(v1, o1) \o RowsOf(v2, o2)
<1> DEFINE m  == Len(v1)
           n1 == Len(o1)
           n2 == Len(o2)
           w  == v1 \o v2
           p  == o1 \o Shifted(o2, m)
<1>1. /\ m \in Nat /\ Len(v2) \in Nat
      /\ w \in Seq(Elements) /\ Len(w) = m + Len(v2)
  BY ConcatProperties
<1>2. /\ n1 \in Nat \ {0} /\ o1[1] = 0 /\ o1[n1] = m /\ Ascending(o1)
      /\ n2 \in Nat \ {0} /\ o2[1] = 0 /\ o2[n2] = Len(v2) /\ Ascending(o2)
  BY DEF ValidOffsets
<1>3. /\ Shifted(o2, m) \in Seq(Nat) /\ Len(Shifted(o2, m)) = n2 - 1
      /\ \A i \in 1..n2-1 : Shifted(o2, m)[i] = m + o2[i+1]
  BY <1>1, <1>2, ShiftedOffsets
<1>4. /\ p \in Seq(Nat) /\ Len(p) = n1 + n2 - 1
      /\ \A i \in 1..n1 : p[i] = o1[i]
      /\ \A k \in 1..n2 : p[n1 - 1 + k] = m + o2[k]
  <2> HIDE DEF m, n1, n2
  <2>1. /\ p \in Seq(Nat) /\ Len(p) = Len(o1) + Len(Shifted(o2, m))
        /\ \A i \in 1..Len(o1) + Len(Shifted(o2, m)) :
             p[i] = IF i <= Len(o1) THEN o1[i] ELSE Shifted(o2, m)[i - Len(o1)]
    BY <1>3, ConcatProperties
  <2>2. \A i \in 1..n1 + (n2 - 1) : p[i] = IF i <= n1 THEN o1[i] ELSE Shifted(o2, m)[i - n1]
    BY <1>3, <2>1 DEF n1
  <2> HIDE DEF p
  <2>3. ASSUME NEW k \in 1..n2 PROVE p[n1 - 1 + k] = m + o2[k]
    <3>1. CASE k = 1
      <4>1. n1 - 1 + k = n1 /\ n1 \in 1..n1 + (n2 - 1)
        BY <1>2, <3>1
      <4> QED BY <1>1, <1>2, <2>2, <3>1, <4>1
    <3>2. CASE k # 1
      <4>1. /\ n1 - 1 + k \in 1..n1 + (n2 - 1) /\ ~(n1 - 1 + k <= n1)
            /\ (n1 - 1 + k) - n1 = k - 1 /\ k - 1 \in 1..n2-1 /\ (k - 1) + 1 = k
        BY <1>2, <3>2
      <4> QED BY <1>3, <2>2, <4>1
    <3> QED BY <3>1, <3>2
  <2>4. \A i \in 1..n1 : p[i] = o1[i]
    BY <1>2, <2>2
  <2> QED BY <1>2, <1>3, <2>1, <2>3, <2>4 DEF n1
<1> HIDE DEF m, n1, n2, w, p
<1>5. ValidOffsets(Len(w), p)
  <2>1. p # <<>> /\ p[1] = 0 /\ p[Len(p)] = Len(w)
    <3>1. 1 \in 1..n1 /\ Len(p) # 0 /\ n2 \in 1..n2 /\ n1 - 1 + n2 = Len(p)
      BY <1>2, <1>4
    <3>2. p # <<>>
      BY <3>1
    <3> QED BY <1>1, <1>2, <1>4, <3>1, <3>2
  <2>2. ASSUME NEW i \in 1..Len(p), NEW j \in 1..Len(p), i <= j PROVE p[i] <= p[j]
    <3>1. CASE i \in 1..n1 /\ j \in 1..n1
      BY <1>2, <1>4, <2>2, <3>1 DEF Ascending, n1
    <3>2. CASE i \in 1..n1 /\ j \notin 1..n1
      <4> DEFINE k == j - n1 + 1
      <4>1. k \in 1..n2 /\ n1 - 1 + k = j
        BY <1>2, <1>4, <3>2
      <4>2. p[i] = o1[i] /\ p[j] = m + o2[k]
        BY <1>4, <3>2, <4>1
      <4> HIDE DEF k
      <4>3. n1 \in 1..n1 /\ i <= n1
        BY <1>2, <3>2
      <4>4. o1[i] <= o1[n1] /\ o1[i] \in Nat
        BY <3>2, <4>3, <1>2, AscendingAt DEF n1
      <4>5. o2[k] \in Nat
        BY <4>1 DEF n2
      <4>6. o1[i] <= m /\ o1[i] \in Nat /\ m \in Nat
        BY <1>1, <1>2, <4>4, Zenon
      <4>7. o1[i] <= m + o2[k]
        BY <4>5, <4>6, BelowSum, Zenon
      <4> QED BY <4>2, <4>7, Zenon
    <3>3. CASE i \notin 1..n1 /\ j \notin 1..n1
      <4> DEFINE k == i - n1 + 1
                 l == j - n1 + 1
      <4>1. /\ k \in 1..n2 /\ n1 - 1 + k = i
            /\ l \in 1..n2 /\ n1 - 1 + l = j /\ k <= l
        BY <1>2, <1>4, <2>2, <3>3
      <4>2. p[i] = m + o2[k] /\ p[j] = m + o2[l]
        BY <1>4, <4>1
      <4>3. o2[k] <= o2[l] /\ o2[k] \in Nat /\ o2[l] \in Nat
        <5> HIDE DEF k, l
        <5> QED BY <4>1, <1>2, AscendingAt DEF n2
      <4>4. m \in Nat
        BY <1>1
      <4> HIDE DEF k, l
      <4>5. m + o2[k] <= m + o2[l]
        BY <4>3, <4>4, SumsInOrder, Zenon
      <4> QED BY <4>2, <4>5, Zenon
    <3>4. ~(i \notin 1..n1 /\ j \in 1..n1)
      BY <1>2, <1>4, <2>2
    <3> QED BY <3>1, <3>2, <3>3, <3>4
  <2> QED BY <2>1, <2>2 DEF ValidOffsets, Ascending
<1>6. /\ RowsOf(v1, o1) \in Seq(Seq(Elements)) /\ Len(RowsOf(v1, o1)) = n1 - 1
      /\ RowsOf(v2, o2) \in Seq(Seq(Elements)) /\ Len(RowsOf(v2, o2)) = n2 - 1
      /\ RowsOf(w, p) \in Seq(Seq(Elements)) /\ Len(RowsOf(w, p)) = (n1 - 1) + (n2 - 1)
  <2>1. Len(p) - 1 = (n1 - 1) + (n2 - 1)
    BY <1>2, <1>4
  <2> QED BY <1>1, <1>4, <1>5, <2>1, RowsType DEF n1, n2
<1> DEFINE joined == RowsOf(v1, o1) \o RowsOf(v2, o2)
<1>7. /\ joined \in Seq(Seq(Elements)) /\ Len(joined) = (n1 - 1) + (n2 - 1)
      /\ \A i \in 1..(n1 - 1) + (n2 - 1) :
           joined[i] = IF i <= n1 - 1 THEN RowsOf(v1, o1)[i] ELSE RowsOf(v2, o2)[i - (n1 - 1)]
  <2> DEFINE r1 == RowsOf(v1, o1)
             r2 == RowsOf(v2, o2)
  <2>1. r1 \in Seq(Seq(Elements)) /\ r2 \in Seq(Seq(Elements))
    BY <1>6
  <2>2. Len(r1) = n1 - 1 /\ Len(r2) = n2 - 1
    BY <1>6
  <2> HIDE DEF r1, r2
  <2>3. /\ r1 \o r2 \in Seq(Seq(Elements))
        /\ Len(r1 \o r2) = Len(r1) + Len(r2)
        /\ \A i \in 1..Len(r1) + Len(r2) :
             (r1 \o r2)[i] = IF i <= Len(r1) THEN r1[i] ELSE r2[i - Len(r1)]
    BY <2>1, ConcatProperties
  <2> QED BY <2>2, <2>3 DEF r1, r2
<1> HIDE DEF joined
<1>8. ASSUME NEW i \in 1..(n1 - 1) + (n2 - 1) PROVE RowsOf(w, p)[i] = joined[i]
  <2>1. CASE i <= n1 - 1
    <3>1. i \in 1..n1-1 /\ n1 <= Len(p) /\ Readable(v1, o1)
      BY <1>2, <1>4, <2>1, ValidIsReadable
    <3>2. RowsOf(v1 \o v2, p)[i] = RowsOf(v1, o1)[i]
      BY <1>4, <3>1, RowsStay DEF n1
    <3> QED BY <1>7, <2>1, <3>2 DEF w
  <2>2. CASE ~(i <= n1 - 1)
    <3> DEFINE k == i - (n1 - 1)
    <3>1. /\ k \in 1..n2-1 /\ k \in 1..n2 /\ k + 1 \in 1..n2 /\ k <= k + 1
          /\ n1 - 1 + k = i /\ n1 - 1 + (k + 1) = i + 1
          /\ i \in 1..Len(p)-1
      BY <1>2, <1>4, <2>2
    <3> HIDE DEF k
    <3>2. p[i] = m + o2[k] /\ p[i+1] = m + o2[k+1]
      BY <1>4, <3>1
    <3>3. o2[k] \in Nat /\ o2[k+1] \in Nat /\ o2[k] <= o2[k+1] /\ o2[k+1] <= Len(v2)
      <4>1. Readable(v2, o2)
        BY ValidIsReadable
      <4>2. o2[k+1] <= Len(v2)
        BY <3>1, <4>1 DEF Readable, n2
      <4> QED BY <1>2, <3>1, <4>2, AscendingAt DEF n2
    <3>4. SubSeq(w, m + o2[k] + 1, m + o2[k+1]) = SubSeq(v2, o2[k] + 1, o2[k+1])
      BY <3>3, CutOfSecond DEF w, m
    <3>5. RowsOf(w, p)[i] = SubSeq(w, p[i] + 1, p[i+1])
      BY <3>1 DEF RowsOf
    <3>6. RowsOf(v2, o2)[k] = SubSeq(v2, o2[k] + 1, o2[k+1])
      BY <3>1 DEF RowsOf, n2
    <3> QED BY <1>7, <2>2, <3>2, <3>4, <3>5, <3>6 DEF k
  <2> QED BY <2>1, <2>2
<1>9. RowsOf(w, p) = joined
  <2>1. (n1 - 1) + (n2 - 1) \in Nat
    BY <1>2
  <2> QED BY <1>6, <1>7, <1>8, <2>1, SeqEqual
<1> QED BY <1>5, <1>9 DEF w, p, m, joined
=============================================================================
