------------------------- MODULE ArrayBuilderProofs -------------------------
(***************************************************************************)
(* What holds of ArrayBuilder for every set of values and names, every     *)
(* nesting depth, every tuple size and any number of failed allocations.   *)
(***************************************************************************)
EXTENDS ArrayBuilder, SequenceTheorems, TLAPS

(***************************************************************************)
(* Sequences whose elements have no common type: the values of a builder   *)
(* nest without end, so their set cannot be written down.  IsSequence only *)
(* says that a value is a sequence, and these lemmas say what Append,      *)
(* Front and SetTop make of one.                                           *)
(***************************************************************************)
LEMMA SequenceFacts ==
  ASSUME NEW s, IsSequence(s)
  PROVE  /\ Len(s) \in Nat
         /\ DOMAIN s = 1..Len(s)
         /\ s # <<>> => Len(s) > 0
BY DEF IsSequence

LEMMA TypedIsSequence ==
  ASSUME NEW S, NEW s \in Seq(S)
  PROVE  IsSequence(s)
<1> DEFINE R == {s[i] : i \in DOMAIN s}
<1>1. s \in [1..Len(s) -> R] /\ Len(s) \in Nat
  OBVIOUS
<1>2. s \in Seq(R)
  BY <1>1
<1> QED BY <1>2 DEF IsSequence

LEMMA AppendSequence ==
  ASSUME NEW s, NEW v, IsSequence(s)
  PROVE  /\ IsSequence(Append(s, v))
         /\ Len(Append(s, v)) = Len(s) + 1
         /\ \A i \in 1..Len(s) : Append(s, v)[i] = s[i]
         /\ Append(s, v)[Len(s) + 1] = v
<1> DEFINE R == {s[i] : i \in DOMAIN s}
           T == R \cup {v}
<1>1. s \in Seq(R)
  BY DEF IsSequence
<1>2. s \in Seq(T) /\ v \in T
  BY <1>1, SeqMonotonic
<1>3. Append(s, v) \in Seq(T)
  BY <1>2, AppendProperties
<1>4. IsSequence(Append(s, v))
  BY <1>3, TypedIsSequence
<1> HIDE DEF T, R
<1> QED BY <1>2, <1>4, AppendProperties

LEMMA FrontSequence ==
  ASSUME NEW s, IsSequence(s), s # <<>>
  PROVE  /\ IsSequence(Front(s))
         /\ Len(Front(s)) = Len(s) - 1
         /\ \A i \in 1..Len(s)-1 : Front(s)[i] = s[i]
<1> DEFINE R == {s[i] : i \in DOMAIN s}
<1>1. s \in Seq(R) /\ Len(s) \in Nat \ {0}
  BY DEF IsSequence
<1> DEFINE n == Len(s) - 1
<1>2. n \in Int /\ \A i \in 1..n : s[i] \in R
  BY <1>1
<1>3. /\ SubSeq(s, 1, n) \in Seq(R)
      /\ Len(SubSeq(s, 1, n)) = IF 1 <= n THEN n-1+1 ELSE 0
      /\ \A i \in 1..n-1+1 : SubSeq(s, 1, n)[i] = s[1+i-1]
  <2> HIDE DEF R, n
  <2> QED BY <1>2, SubSeqProperties
<1>4. /\ Len(Front(s)) = n
      /\ \A i \in 1..n : Front(s)[i] = s[i]
  BY <1>1, <1>3 DEF Front
<1>5. IsSequence(Front(s))
  BY <1>3, TypedIsSequence DEF Front
<1> QED BY <1>4, <1>5

LEMMA SetTopSequence ==
  ASSUME NEW s, NEW c, IsSequence(s), s # <<>>
  PROVE  /\ IsSequence(SetTop(s, c))
         /\ Len(SetTop(s, c)) = Len(s)
         /\ \A i \in 1..Len(s)-1 : SetTop(s, c)[i] = s[i]
         /\ SetTop(s, c)[Len(s)] = c
<1> DEFINE R == {s[i] : i \in DOMAIN s}
           T == R \cup {c}
<1>1. s \in Seq(R) /\ Len(s) \in Nat \ {0}
  BY DEF IsSequence
<1>2. s \in Seq(T) /\ c \in T
  BY <1>1, SeqMonotonic
<1> HIDE DEF T, R
<1>3. /\ SetTop(s, c) \in Seq(T)
      /\ Len(SetTop(s, c)) = Len(s)
      /\ \A i \in 1..Len(s) : SetTop(s, c)[i] = IF i = Len(s) THEN c ELSE s[i]
  BY <1>1, <1>2, ExceptSeq DEF SetTop
<1> QED BY <1>1, <1>3, TypedIsSequence
-----------------------------------------------------------------------------
(***************************************************************************)
(* Contexts.                                                               *)
(***************************************************************************)
LEMMA ReceivedIsContext ==
  ASSUME NEW c, NEW v, IsContext(c), HasSlot(c)
  PROVE  IsContext(Received(c, v))
<1>1. CASE c.kind = "list"
  <2>1. IsListContext(c)
    BY <1>1 DEF IsContext
  <2>2. Received(c, v) = ListContext(Append(c.values, v))
    BY <1>1 DEF Received
  <2>3. IsSequence(Append(c.values, v))
    BY <2>1, AppendSequence DEF IsListContext
  <2> QED BY <2>2, <2>3 DEF IsContext, IsListContext, ListContext
<1>2. CASE c.kind = "tuple"
  <2>1. IsTupleContext(c) /\ HasValue(c.selected)
    BY <1>2 DEF IsContext, HasSlot
  <2>2. PICK i \in 0..c.size-1 : c.selected = Some(i)
    BY <2>1 DEF IsTupleContext, HasValue
  <2> DEFINE vs == [c.values EXCEPT ![i] = Some(v)]
  <2>3. Received(c, v) = TupleContext(c.size, vs, None)
    BY <1>2, <2>2 DEF Received, Get, Some
  <2>4. vs = [j \in 0..c.size-1 |-> IF j = i THEN Some(v) ELSE c.values[j]]
    BY <2>1, <2>2 DEF IsTupleContext
  <2>5. /\ vs = [j \in 0..c.size-1 |-> vs[j]]
        /\ \A j \in 0..c.size-1 : IsOption(vs[j])
    BY <2>1, <2>4 DEF IsTupleContext, IsOption, Some, Get
  <2> HIDE DEF vs
  <2> QED BY <2>1, <2>3, <2>5 DEF IsContext, IsTupleContext, TupleContext
<1>3. CASE c.kind = "record"
  <2>1. IsRecordContext(c) /\ HasValue(c.pending_field)
    BY <1>3 DEF IsContext, HasSlot
  <2>2. PICK name \in Names \cup {EmptyName} : c.pending_field = Some(name)
    BY <2>1 DEF IsRecordContext, HasValue
  <2> DEFINE fs == Append(c.fields, name)
             vs == Append(c.values, v)
  <2>3. Received(c, v) = RecordContext(fs, vs, None)
    BY <1>3, <2>2 DEF Received, Get, Some
  <2>4. fs \in Seq(Names \cup {EmptyName})
    BY <2>1, <2>2 DEF IsRecordContext
  <2>5. IsSequence(vs)
    BY <2>1, AppendSequence DEF IsRecordContext
  <2> HIDE DEF fs, vs
  <2> QED BY <2>3, <2>4, <2>5 DEF IsContext, IsRecordContext, RecordContext
<1> QED BY <1>1, <1>2, <1>3 DEF IsContext

LEMMA NameWithoutValueIsContext ==
  ASSUME NEW c, IsContext(c), HasSlot(c), c.kind = "record"
  PROVE  /\ IsContext(NameWithoutValue(c))
         /\ HasSlot(NameWithoutValue(c))
<1>1. IsRecordContext(c) /\ HasValue(c.pending_field)
  BY DEF IsContext, HasSlot
<1>2. PICK name \in Names \cup {EmptyName} : c.pending_field = Some(name)
  BY <1>1 DEF IsRecordContext, HasValue
<1> DEFINE fs == Append(c.fields, name)
<1>3. NameWithoutValue(c) = RecordContext(fs, c.values, Some(EmptyName))
  BY <1>2 DEF NameWithoutValue, Get, Some
<1>4. fs \in Seq(Names \cup {EmptyName})
  BY <1>1, <1>2 DEF IsRecordContext
<1> HIDE DEF fs
<1>5. IsSequence(c.values)
  BY <1>1 DEF IsRecordContext
<1> QED BY <1>3, <1>4, <1>5
        DEF IsContext, IsRecordContext, RecordContext, HasSlot, HasValue, Some, None

-----------------------------------------------------------------------------
(***************************************************************************)
(* Stacks.  AllAccept is what a good stack becomes when its top is popped: *)
(* every context that is left holds a slot for the container it enclosed.  *)
(***************************************************************************)
GoodStack(st) ==
  /\ IsSequence(st)
  /\ \A k \in 1..Len(st) : IsContext(st[k])
  /\ \A k \in 1..Len(st)-1 : HasSlot(st[k])

AllAccept(st) == \A k \in 1..Len(st) : HasSlot(st[k])

LEMMA PoppedStack ==
  ASSUME NEW st, GoodStack(st), st # <<>>
  PROVE  /\ GoodStack(Front(st))
         /\ AllAccept(Front(st))
         /\ Len(st) \in Nat \ {0}
         /\ Len(Front(st)) = Len(st) - 1
BY FrontSequence, SequenceFacts DEF GoodStack, AllAccept

LEMMA SetTopStack ==
  ASSUME NEW st, NEW c, GoodStack(st), st # <<>>, IsContext(c)
  PROVE  GoodStack(SetTop(st, c))
BY SetTopSequence, SequenceFacts DEF GoodStack

LEMMA PushedStack ==
  ASSUME NEW st, NEW c, GoodStack(st), EnsureAcceptsValue(st), IsContext(c)
  PROVE  GoodStack(Append(st, c))
<1>1. Len(st) \in Nat /\ (st # <<>> => Last(st) = st[Len(st)])
  BY SequenceFacts DEF GoodStack, Last
<1>2. \A k \in 1..Len(st) : HasSlot(st[k])
  <2> TAKE k \in 1..Len(st)
  <2>1. st # <<>>
    BY SequenceFacts, <1>1 DEF GoodStack
  <2> QED BY <1>1, <2>1 DEF GoodStack, EnsureAcceptsValue
<1> QED BY <1>1, <1>2, AppendSequence DEF GoodStack

LEMMA TopIsContext ==
  ASSUME NEW st, GoodStack(st), st # <<>>
  PROVE  /\ IsContext(Last(st))
         /\ Last(st) = st[Len(st)]
BY SequenceFacts DEF GoodStack, Last

\* append_value leaves a good stack, and refuses a value only for want of a slot.
LEMMA AppendValueStack ==
  ASSUME NEW st, NEW v, GoodStack(st), IsSequence(values), AppendValue(st, v)
  PROVE  /\ GoodStack(contexts')
         /\ IsSequence(values')
         /\ outcome' \in {"ok", "invalid_argument", "bad_alloc"}
         /\ outcome' = "invalid_argument" => ~EnsureAcceptsValue(st)
         /\ failures' \in {failures, failures + 1}
         /\ failures' # failures => failures < MaxFailures
<1>1. CASE ~EnsureAcceptsValue(st) /\ contexts' = st /\ Report("invalid_argument") /\ UNCHANGED values
  BY <1>1 DEF Report
<1>2. CASE st = <<>> /\ values' = Append(values, v) /\ contexts' = st /\ Report("ok")
  BY <1>2, AppendSequence DEF Report
<1>3. CASE /\ st # <<>>
           /\ EnsureAcceptsValue(st)
           /\ contexts' = SetTop(st, Received(Last(st), v))
           /\ Report("ok")
           /\ UNCHANGED values
  <2>1. IsContext(Received(Last(st), v))
    BY <1>3, TopIsContext, ReceivedIsContext DEF EnsureAcceptsValue
  <2>2. GoodStack(contexts')
    BY <1>3, <2>1, SetTopStack
  <2> QED BY <1>3, <2>2 DEF Report
<1>4. CASE OutOfMemory /\ contexts' = st /\ UNCHANGED values
  BY <1>4 DEF OutOfMemory
<1>5. CASE /\ OutOfMemory
           /\ EnsureAcceptsValue(st)
           /\ TopIs(st, "record")
           /\ contexts' = SetTop(st, NameWithoutValue(Last(st)))
           /\ UNCHANGED values
  <2>1. IsContext(NameWithoutValue(Last(st)))
    BY <1>5, TopIsContext, NameWithoutValueIsContext DEF EnsureAcceptsValue, TopIs
  <2>2. GoodStack(contexts')
    BY <1>5, <2>1, SetTopStack DEF TopIs
  <2> QED BY <1>5, <2>2 DEF OutOfMemory
<1> QED BY <1>1, <1>2, <1>3, <1>4, <1>5 DEF AppendValue
-----------------------------------------------------------------------------
(***************************************************************************)
(* The inductive invariant.  TypeOK alone is not inductive: to know that a *)
(* delivered value goes into a tuple slot or a record field that exists,   *)
(* the contexts below the top must hold one, which is SlotReserved.        *)
(***************************************************************************)
BuilderInv == TypeOK /\ SlotReserved

LEMMA InvIsGoodStack ==
  BuilderInv <=> /\ GoodStack(contexts)
                 /\ IsSequence(values)
                 /\ outcome \in Outcomes
                 /\ appended \in 0..MaxValues
                 /\ failures \in 0..MaxFailures
BY DEF BuilderInv, TypeOK, SlotReserved, GoodStack

LEMMA InitInv == Init => BuilderInv
<1> SUFFICES ASSUME Init PROVE BuilderInv
  OBVIOUS
<1>1. IsSequence(<<>>) /\ Len(<<>>) = 0
  BY DEF IsSequence
<1>2. GoodStack(<<>>)
  BY <1>1 DEF GoodStack
<1> QED BY <1>1, <1>2, InvIsGoodStack, MaxValuesAssumption, MaxFailuresAssumption
        DEF Init, Outcomes

\* What each method that adds or delivers a value through append_value keeps.
LEMMA AppendValueInv ==
  ASSUME BuilderInv, NEW st, NEW v, GoodStack(st), AppendValue(st, v),
         appended' \in 0..MaxValues
  PROVE  BuilderInv'
<1>1. /\ GoodStack(contexts')
      /\ IsSequence(values')
      /\ outcome' \in Outcomes
      /\ failures' \in {failures, failures + 1}
      /\ failures' # failures => failures < MaxFailures
  BY AppendValueStack, InvIsGoodStack DEF Outcomes
<1>2. failures' \in 0..MaxFailures
  BY <1>1, InvIsGoodStack, MaxFailuresAssumption
<1> QED BY <1>1, <1>2 DEF BuilderInv, TypeOK, SlotReserved, GoodStack

LEMMA ThrowInv ==
  ASSUME BuilderInv,
         ThrowOutOfMemory \/ \E e \in Outcomes : Throw(e)
  PROVE  BuilderInv'
<1>1. UNCHANGED <<values, contexts, appended>> /\ outcome' \in Outcomes
  BY DEF ThrowOutOfMemory, OutOfMemory, Throw, Report, Outcomes
<1>2. failures' \in 0..MaxFailures
  BY MaxFailuresAssumption DEF ThrowOutOfMemory, OutOfMemory, Throw, Report, BuilderInv, TypeOK
<1> QED BY <1>1, <1>2 DEF BuilderInv, TypeOK, SlotReserved

\* What a method that only replaces the top, or opens or drops a context, keeps.
LEMMA StackInv ==
  ASSUME BuilderInv, NEW st, GoodStack(st), contexts' = st, UNCHANGED values,
         outcome' \in Outcomes, appended' \in 0..MaxValues,
         failures' = failures \/ OutOfMemory
  PROVE  BuilderInv'
<1>1. failures' \in 0..MaxFailures
  BY MaxFailuresAssumption DEF OutOfMemory, BuilderInv, TypeOK
<1> QED BY <1>1 DEF BuilderInv, TypeOK, SlotReserved, GoodStack

LEMMA ScalarInv ==
  ASSUME BuilderInv, NEW x \in Scalars, Scalar(x)
  PROVE  BuilderInv'
<1>1. CASE AppendValue(contexts, ScalarValue(x)) /\ CountIfAdded
  <2>1. appended' \in 0..MaxValues
    BY <1>1, MaxValuesAssumption DEF Scalar, CountIfAdded, BuilderInv, TypeOK
  <2> QED BY <1>1, <2>1, AppendValueInv, InvIsGoodStack
<1>2. CASE ThrowOutOfMemory
  BY <1>2, ThrowInv
<1> QED BY <1>1, <1>2 DEF Scalar

LEMMA BeginInv ==
  ASSUME BuilderInv, NEW c, IsContext(c), Begin(c)
  PROVE  BuilderInv'
<1>1. CASE Throw("invalid_argument")
  BY <1>1, ThrowInv DEF Outcomes
<1>2. CASE /\ EnsureAcceptsValue(contexts)
           /\ contexts' = Append(contexts, c)
           /\ Report("ok")
           /\ appended' = appended + 1
           /\ UNCHANGED values
  <2>1. GoodStack(Append(contexts, c))
    BY <1>2, PushedStack, InvIsGoodStack
  <2>2. appended' \in 0..MaxValues
    BY <1>2, MaxValuesAssumption DEF Begin, BuilderInv, TypeOK
  <2> QED BY <1>2, <2>1, <2>2, StackInv DEF Report, Outcomes
<1>3. CASE ThrowOutOfMemory
  BY <1>3, ThrowInv
<1> QED BY <1>1, <1>2, <1>3 DEF Begin

LEMMA NewContexts ==
  /\ IsContext(ListContext(<<>>))
  /\ \A n \in 0..MaxTupleSize : IsContext(NewTuple(n))
  /\ IsContext(NewRecord)
<1>1. IsSequence(<<>>)
  BY DEF IsSequence
<1>2. IsContext(ListContext(<<>>))
  BY <1>1 DEF IsContext, IsListContext, ListContext
<1>3. ASSUME NEW n \in 0..MaxTupleSize
      PROVE  IsContext(NewTuple(n))
  <2> DEFINE vs == [i \in 0..n-1 |-> None]
  <2>1. vs = [i \in 0..n-1 |-> vs[i]] /\ \A i \in 0..n-1 : IsOption(vs[i])
    BY DEF IsOption
  <2>2. NewTuple(n) = TupleContext(n, vs, None)
    BY DEF NewTuple
  <2> HIDE DEF vs
  <2> QED BY <2>1, <2>2 DEF IsContext, IsTupleContext, TupleContext
<1>4. IsContext(NewRecord)
  BY <1>1 DEF NewRecord, IsContext, IsRecordContext, RecordContext, None
<1> QED BY <1>2, <1>3, <1>4

LEMMA DeliverInv ==
  ASSUME BuilderInv, NEW v, contexts # <<>>, Deliver(v)
  PROVE  BuilderInv'
<1>1. GoodStack(Front(contexts))
  BY PoppedStack, InvIsGoodStack
<1> QED BY <1>1, AppendValueInv DEF Deliver, BuilderInv, TypeOK

LEMMA IndexInv ==
  ASSUME BuilderInv, NEW i \in 0..MaxTupleSize, Index(i)
  PROVE  BuilderInv'
<1> DEFINE c == Last(contexts)
<1>1. CASE \E e \in Outcomes : Throw(e)
  BY <1>1, ThrowInv
<1>2. CASE /\ TopIs(contexts, "tuple")
           /\ i < c.size
           /\ contexts' = SetTop(contexts, TupleContext(c.size, c.values, Some(i)))
           /\ Report("ok")
           /\ UNCHANGED <<values, appended>>
  <2>1. IsTupleContext(c)
    BY <1>2, TopIsContext, InvIsGoodStack DEF TopIs, IsContext
  <2>2. i \in 0..c.size-1
    BY <1>2, <2>1, MaxTupleAssumption DEF IsTupleContext
  <2>3. IsContext(TupleContext(c.size, c.values, Some(i)))
    BY <2>1, <2>2 DEF IsContext, IsTupleContext, TupleContext
  <2>4. GoodStack(contexts')
    BY <1>2, <2>3, SetTopStack, InvIsGoodStack DEF TopIs
  <2> QED BY <1>2, <2>4, StackInv DEF Report, Outcomes, BuilderInv, TypeOK
<1> QED BY <1>1, <1>2 DEF Index, Outcomes

LEMMA EndTupleInv ==
  ASSUME BuilderInv, EndTuple
  PROVE  BuilderInv'
<1>1. CASE \E e \in Outcomes : Throw(e)
  BY <1>1, ThrowInv
<1>2. CASE TopIs(contexts, "tuple") /\ \E v : Deliver(v)
  BY <1>2, DeliverInv DEF TopIs
<1>3. CASE /\ TopIs(contexts, "tuple")
           /\ OutOfMemory
           /\ contexts' = Front(contexts)
           /\ UNCHANGED <<values, appended>>
  <2>1. GoodStack(contexts')
    BY <1>3, PoppedStack, InvIsGoodStack DEF TopIs
  <2> QED BY <1>3, <2>1, StackInv DEF OutOfMemory, Outcomes, BuilderInv, TypeOK
<1> QED BY <1>1, <1>2, <1>3 DEF EndTuple, Outcomes

LEMMA FieldInv ==
  ASSUME BuilderInv, NEW name \in Names \cup {EmptyName}, Field(name)
  PROVE  BuilderInv'
<1> DEFINE c == Last(contexts)
<1>1. CASE ThrowOutOfMemory \/ \E e \in Outcomes : Throw(e)
  BY <1>1, ThrowInv
<1>2. CASE /\ TopIs(contexts, "record")
           /\ contexts' = SetTop(contexts, RecordContext(c.fields, c.values, Some(name)))
           /\ Report("ok")
           /\ UNCHANGED <<values, appended>>
  <2>1. IsRecordContext(c)
    BY <1>2, TopIsContext, InvIsGoodStack DEF TopIs, IsContext
  <2>2. IsContext(RecordContext(c.fields, c.values, Some(name)))
    BY <2>1 DEF IsContext, IsRecordContext, RecordContext
  <2>3. GoodStack(contexts')
    BY <1>2, <2>2, SetTopStack, InvIsGoodStack DEF TopIs
  <2> QED BY <1>2, <2>3, StackInv DEF Report, Outcomes, BuilderInv, TypeOK
<1> QED BY <1>1, <1>2 DEF Field, Outcomes

LEMMA NextInv == BuilderInv /\ [Next]_vars => BuilderInv'
<1> SUFFICES ASSUME BuilderInv, [Next]_vars PROVE BuilderInv'
  OBVIOUS
<1>1. ASSUME NEW x \in Scalars, Scalar(x) PROVE BuilderInv'
  BY <1>1, ScalarInv
<1>2. CASE BeginList
  BY <1>2, BeginInv, NewContexts DEF BeginList
<1>3. CASE EndList
  BY <1>3, DeliverInv, ThrowInv DEF EndList, TopIs, Outcomes
<1>4. ASSUME NEW n \in 0..MaxTupleSize, BeginTuple(n) PROVE BuilderInv'
  BY <1>4, BeginInv, NewContexts DEF BeginTuple
<1>5. ASSUME NEW i \in 0..MaxTupleSize, Index(i) PROVE BuilderInv'
  BY <1>5, IndexInv
<1>6. CASE EndTuple
  BY <1>6, EndTupleInv
<1>7. CASE BeginRecord
  BY <1>7, BeginInv, NewContexts DEF BeginRecord
<1>8. ASSUME NEW name \in Names \cup {EmptyName}, Field(name) PROVE BuilderInv'
  BY <1>8, FieldInv
<1>9. CASE EndRecord
  BY <1>9, DeliverInv, ThrowInv DEF EndRecord, TopIs, Outcomes
<1>10. CASE Snapshot
  <2>1. CASE ThrowOutOfMemory \/ \E e \in Outcomes : Throw(e)
    BY <2>1, ThrowInv
  <2>2. CASE Report("ok") /\ UNCHANGED <<values, contexts, appended>>
    BY <2>2 DEF Report, Outcomes, BuilderInv, TypeOK, SlotReserved
  <2> QED BY <1>10, <2>1, <2>2 DEF Snapshot, Outcomes
<1>11. CASE UNCHANGED vars
  BY <1>11 DEF vars, BuilderInv, TypeOK, SlotReserved
<1> QED BY <1>1, <1>2, <1>3, <1>4, <1>5, <1>6, <1>7, <1>8, <1>9, <1>10, <1>11 DEF Next

LEMMA InvHolds == Spec => []BuilderInv
BY InitInv, NextInv, PTL DEF Spec

-----------------------------------------------------------------------------
(***************************************************************************)
(* The results.                                                            *)
(***************************************************************************)

\* Every reachable builder has well-shaped values and contexts, whatever calls
\* were made and whichever allocations failed (builder.hpp:146-209).
THEOREM TypeCorrect == Spec => []TypeOK
<1>1. BuilderInv => TypeOK
  BY DEF BuilderInv
<1> QED BY <1>1, InvHolds, PTL

\* The slot a container was begun in stays reserved until it is closed, also
\* across failed allocations (builder.hpp:45-134).
THEOREM SlotsStayReserved == Spec => []SlotReserved
<1>1. BuilderInv => SlotReserved
  BY DEF BuilderInv
<1> QED BY <1>1, InvHolds, PTL

(***************************************************************************)
(* A call that throws changes nothing.  For most calls the guards stand    *)
(* before the first change; end_* pops first, and there it is SlotReserved *)
(* that leaves append_value no reason to refuse.                           *)
(***************************************************************************)
Refused == outcome' \in {"invalid_argument", "out_of_range"}

LEMMA DeliverIsNotRefused ==
  ASSUME BuilderInv, NEW v, contexts # <<>>, Deliver(v)
  PROVE  ~Refused
<1>1. GoodStack(Front(contexts)) /\ AllAccept(Front(contexts))
  BY PoppedStack, InvIsGoodStack
<1>2. EnsureAcceptsValue(Front(contexts))
  BY <1>1, SequenceFacts DEF GoodStack, AllAccept, EnsureAcceptsValue, Last
<1>3. IsSequence(values)
  BY InvIsGoodStack
<1> QED BY <1>1, <1>2, <1>3, AppendValueStack DEF Deliver, Refused

LEMMA ReportedThrow ==
  ASSUME (\E e : Throw(e)) \/ ThrowOutOfMemory
  PROVE  UNCHANGED <<values, contexts>>
BY DEF Throw, ThrowOutOfMemory

LEMMA NotRefused ==
  ASSUME Report("ok") \/ OutOfMemory
  PROVE  ~Refused
BY DEF Report, OutOfMemory, Refused

LEMMA AppendValueRefuses ==
  ASSUME NEW st, NEW v, AppendValue(st, v), st = contexts, Refused
  PROVE  UNCHANGED <<values, contexts>>
BY NotRefused DEF AppendValue

LEMMA StepRefuses ==
  ASSUME BuilderInv, Next, Refused
  PROVE  UNCHANGED <<values, contexts>>
<1>1. ASSUME NEW x \in Scalars, Scalar(x) PROVE UNCHANGED <<values, contexts>>
  BY <1>1, AppendValueRefuses, ReportedThrow DEF Scalar
<1>2. ASSUME NEW c, Begin(c) PROVE UNCHANGED <<values, contexts>>
  BY <1>2, NotRefused, ReportedThrow DEF Begin
<1>3. CASE EndList
  BY <1>3, DeliverIsNotRefused, ReportedThrow DEF EndList, TopIs
<1>4. ASSUME NEW i, Index(i) PROVE UNCHANGED <<values, contexts>>
  BY <1>4, NotRefused, ReportedThrow DEF Index
<1>5. CASE EndTuple
  BY <1>5, DeliverIsNotRefused, NotRefused, ReportedThrow DEF EndTuple, TopIs
<1>6. ASSUME NEW name, Field(name) PROVE UNCHANGED <<values, contexts>>
  BY <1>6, NotRefused, ReportedThrow DEF Field
<1>7. CASE EndRecord
  BY <1>7, DeliverIsNotRefused, ReportedThrow DEF EndRecord, TopIs
<1>8. CASE Snapshot
  BY <1>8, ReportedThrow DEF Snapshot
<1> QED BY <1>1, <1>2, <1>3, <1>4, <1>5, <1>6, <1>7, <1>8
        DEF Next, BeginList, BeginTuple, BeginRecord

\* Whatever was called before, a call that ends in invalid_argument or
\* out_of_range leaves the values and the open containers exactly as they were
\* (builder.hpp:25-134).
THEOREM ThrowsLeaveBuilderUnchanged == Spec => ThrowsChangeNothing
<1>1. BuilderInv /\ [Next]_vars
        => [Refused => UNCHANGED <<values, contexts>>]_vars
  BY StepRefuses DEF vars
<1> QED BY <1>1, InvHolds, PTL DEF Spec, ThrowsChangeNothing, Refused

-----------------------------------------------------------------------------
(***************************************************************************)
(* A call that runs out of memory leaves every finished value and every    *)
(* container below the one on top alone.                                   *)
(***************************************************************************)
Failed == outcome' = "bad_alloc"

\* The stack after the call is st, but perhaps for its top.
OnlyTopChanged(st) ==
  /\ Len(contexts') = Len(st)
  /\ \A k \in 1..Len(st)-1 : contexts'[k] = st[k]

LEMMA NotFailed ==
  ASSUME Report("ok") \/ \E e \in {"invalid_argument", "out_of_range"} : Throw(e)
  PROVE  ~Failed
BY DEF Report, Throw, Failed

LEMMA FailedAppendValue ==
  ASSUME NEW st, NEW v, GoodStack(st), AppendValue(st, v), Failed
  PROVE  UNCHANGED values /\ OnlyTopChanged(st)
<1>1. CASE contexts' = st /\ UNCHANGED values
  BY <1>1 DEF OnlyTopChanged
<1>2. CASE /\ TopIs(st, "record")
           /\ contexts' = SetTop(st, NameWithoutValue(Last(st)))
           /\ UNCHANGED values
  BY <1>2, SetTopSequence DEF TopIs, GoodStack, OnlyTopChanged
<1>3. CASE Report("ok") \/ Report("invalid_argument")
  BY <1>3 DEF Report, Failed
<1> QED BY <1>1, <1>2, <1>3 DEF AppendValue

LEMMA FailedDeliver ==
  ASSUME BuilderInv, NEW v, contexts # <<>>, Deliver(v), Failed
  PROVE  UNCHANGED values /\ OnlyTopChanged(Front(contexts))
BY PoppedStack, InvIsGoodStack, FailedAppendValue DEF Deliver

LEMMA FailedThrow ==
  ASSUME ThrowOutOfMemory
  PROVE  UNCHANGED values /\ OnlyTopChanged(contexts)
BY DEF ThrowOutOfMemory, OnlyTopChanged

\* Only end_* leaves a shorter stack behind: the container it was closing is
\* gone, and what it could not deliver with it.
LEMMA StepFails ==
  ASSUME BuilderInv, Next, Failed
  PROVE  /\ UNCHANGED values
         /\ \/ OnlyTopChanged(contexts)
            \/ contexts # <<>> /\ OnlyTopChanged(Front(contexts))
<1> DEFINE Local == /\ UNCHANGED values
                    /\ \/ OnlyTopChanged(contexts)
                       \/ contexts # <<>> /\ OnlyTopChanged(Front(contexts))
<1>0. GoodStack(contexts)
  BY InvIsGoodStack
<1>1. ASSUME NEW x \in Scalars, Scalar(x) PROVE Local
  BY <1>0, <1>1, FailedAppendValue, FailedThrow DEF Scalar
<1>2. ASSUME NEW c, Begin(c) PROVE Local
  BY <1>2, NotFailed, FailedThrow DEF Begin
<1>3. CASE EndList
  BY <1>3, FailedDeliver, NotFailed DEF EndList, TopIs
<1>4. ASSUME NEW i, Index(i) PROVE Local
  BY <1>4, NotFailed DEF Index
<1>5. CASE EndTuple
  <2>1. CASE \E e \in {"invalid_argument", "out_of_range"} : Throw(e)
    BY <2>1, NotFailed
  <2>2. CASE TopIs(contexts, "tuple") /\ \E v : Deliver(v)
    BY <2>2, FailedDeliver DEF TopIs
  <2>3. CASE TopIs(contexts, "tuple") /\ contexts' = Front(contexts) /\ UNCHANGED values
    BY <2>3 DEF TopIs, OnlyTopChanged
  <2> QED BY <1>5, <2>1, <2>2, <2>3 DEF EndTuple
<1>6. ASSUME NEW name, Field(name) PROVE Local
  BY <1>6, NotFailed, FailedThrow DEF Field
<1>7. CASE EndRecord
  BY <1>7, FailedDeliver, NotFailed DEF EndRecord, TopIs
<1>8. CASE Snapshot
  BY <1>8, NotFailed, FailedThrow DEF Snapshot
<1> QED BY <1>1, <1>2, <1>3, <1>4, <1>5, <1>6, <1>7, <1>8
        DEF Next, BeginList, BeginTuple, BeginRecord

\* Whichever allocation of whichever call fails, the finished values stay as
\* they were, and so does every open container but the top one of the stack
\* the call worked on (builder.hpp:25-134, 187-206).
THEOREM FailuresAreLocal == Spec => FailureIsLocal
<1> DEFINE Local == /\ values' = values
                    /\ Len(contexts') \in {Len(contexts) - 1, Len(contexts)}
                    /\ \A k \in 1..Len(contexts')-1 : contexts'[k] = contexts[k]
<1>1. ASSUME BuilderInv, Next, Failed PROVE Local
  <2>1. GoodStack(contexts)
    BY <1>1, InvIsGoodStack
  <2>2. CASE OnlyTopChanged(contexts)
    BY <1>1, <2>2, StepFails DEF OnlyTopChanged
  <2>3. CASE contexts # <<>> /\ OnlyTopChanged(Front(contexts))
    <3>1. /\ Len(contexts) \in Nat
          /\ Len(Front(contexts)) = Len(contexts) - 1
          /\ \A k \in 1..Len(contexts)-1 : Front(contexts)[k] = contexts[k]
      BY <2>1, <2>3, FrontSequence, SequenceFacts DEF GoodStack
    <3> QED BY <1>1, <2>3, <3>1, StepFails DEF OnlyTopChanged
  <2> QED BY <1>1, <2>2, <2>3, StepFails
<1>2. BuilderInv /\ [Next]_vars => [Failed => Local]_vars
  BY <1>1 DEF vars
<1> QED BY <1>2, InvHolds, PTL DEF Spec, FailureIsLocal, Failed

-----------------------------------------------------------------------------
(***************************************************************************)
(* While memory lasts, a chosen slot is free.                              *)
(***************************************************************************)
FreshStack(st) == \A k \in 1..Len(st) : IsFresh(st[k])

LEMMA ReceivedIsFresh ==
  ASSUME NEW c, NEW v, IsContext(c), HasSlot(c), IsFresh(c)
  PROVE  IsFresh(Received(c, v))
<1>1. CASE c.kind = "list"
  <2>1. Received(c, v) = ListContext(Append(c.values, v))
    BY <1>1 DEF Received
  <2> QED BY <2>1 DEF IsFresh, ListContext
<1>2. CASE c.kind = "tuple"
  <2> DEFINE vs == [c.values EXCEPT ![Get(c.selected)] = Some(v)]
  <2>1. Received(c, v) = TupleContext(c.size, vs, None)
    BY <1>2 DEF Received
  <2> HIDE DEF vs
  <2> QED BY <2>1 DEF IsFresh, TupleContext, HasValue
<1>3. CASE c.kind = "record"
  <2>1. IsRecordContext(c) /\ HasValue(c.pending_field)
    BY <1>3 DEF IsContext, HasSlot
  <2>2. PICK name \in Names \cup {EmptyName} : c.pending_field = Some(name)
    BY <2>1 DEF IsRecordContext, HasValue
  <2>3. Get(c.pending_field) = name
    BY <2>2 DEF Get, Some
  <2> DEFINE fs == Append(c.fields, name)
             vs == Append(c.values, v)
  <2>4. Received(c, v) = RecordContext(fs, vs, None)
    BY <1>3, <2>3 DEF Received
  <2>5. /\ Len(c.fields) \in Nat
        /\ Len(fs) = Len(c.fields) + 1
        /\ \A i \in 1..Len(c.fields) : fs[i] = c.fields[i] /\ fs[i] # name
        /\ fs[Len(c.fields) + 1] = name
        /\ \A i, j \in 1..Len(c.fields) : c.fields[i] = c.fields[j] => i = j
    BY <1>3, <2>1, <2>2, <2>3, AppendProperties DEF IsRecordContext, IsFresh
  <2>6. \A i, j \in 1..Len(fs) : fs[i] = fs[j] => i = j
    <3> HIDE DEF fs
    <3> QED BY <2>5
  <2>7. Len(fs) = Len(vs)
    BY <1>3, <2>1, <2>5, AppendSequence DEF IsRecordContext, IsFresh
  <2> HIDE DEF fs, vs
  <2> QED BY <2>4, <2>6, <2>7 DEF IsFresh, RecordContext, HasValue
<1> QED BY <1>1, <1>2, <1>3 DEF IsContext

LEMMA FreshTop ==
  ASSUME NEW st, NEW c, GoodStack(st), st # <<>>, FreshStack(st), IsFresh(c)
  PROVE  FreshStack(SetTop(st, c))
BY SetTopSequence, SequenceFacts DEF FreshStack, GoodStack

LEMMA FreshAppendValue ==
  ASSUME NEW st, NEW v, GoodStack(st), FreshStack(st), AppendValue(st, v), ~OutOfMemory
  PROVE  FreshStack(contexts')
<1>1. CASE contexts' = st
  BY <1>1
<1>2. CASE /\ st # <<>>
           /\ EnsureAcceptsValue(st)
           /\ contexts' = SetTop(st, Received(Last(st), v))
  <2>1. /\ IsContext(Last(st))
        /\ IsFresh(Last(st))
    BY <1>2, TopIsContext, SequenceFacts DEF FreshStack, GoodStack
  <2>2. IsFresh(Received(Last(st), v))
    BY <1>2, <2>1, ReceivedIsFresh DEF EnsureAcceptsValue
  <2> QED BY <1>2, <2>2, FreshTop
<1> QED BY <1>1, <1>2 DEF AppendValue

LEMMA FreshDeliver ==
  ASSUME BuilderInv, FreshStack(contexts), ~OutOfMemory, contexts # <<>>, NEW v, Deliver(v)
  PROVE  FreshStack(contexts')
<1>1. GoodStack(contexts)
  BY InvIsGoodStack
<1>2. GoodStack(Front(contexts))
  BY <1>1, PoppedStack
<1>3. FreshStack(Front(contexts))
  BY <1>1, FrontSequence, SequenceFacts DEF FreshStack, GoodStack
<1> QED BY <1>2, <1>3, FreshAppendValue DEF Deliver

LEMMA FreshBegin ==
  ASSUME BuilderInv, FreshStack(contexts), ~OutOfMemory, NEW c, IsFresh(c), Begin(c)
  PROVE  FreshStack(contexts')
<1>1. CASE UNCHANGED contexts
  BY <1>1 DEF FreshStack
<1>2. CASE contexts' = Append(contexts, c)
  BY <1>2, AppendSequence, SequenceFacts, InvIsGoodStack DEF FreshStack, GoodStack
<1> QED BY <1>1, <1>2 DEF Begin, Throw, ThrowOutOfMemory

LEMMA FreshNext ==
  ASSUME BuilderInv, FreshStack(contexts), ~OutOfMemory, Next
  PROVE  FreshStack(contexts')
<1>0. GoodStack(contexts)
  BY InvIsGoodStack
<1>1. ASSUME NEW x \in Scalars, Scalar(x) PROVE FreshStack(contexts')
  BY <1>0, <1>1, FreshAppendValue DEF Scalar, ThrowOutOfMemory
<1>2. ASSUME NEW c, IsFresh(c), Begin(c) PROVE FreshStack(contexts')
  BY <1>2, FreshBegin
<1>3. IsFresh(ListContext(<<>>)) /\ IsFresh(NewRecord) /\ \A n : IsFresh(NewTuple(n))
  BY DEF IsFresh, ListContext, NewRecord, RecordContext, NewTuple, TupleContext, HasValue, None
<1>4. ASSUME NEW e, Throw(e) PROVE FreshStack(contexts')
  BY <1>4 DEF Throw, FreshStack
<1>5. CASE EndList
  BY <1>4, <1>5, FreshDeliver DEF EndList, TopIs
<1>6. ASSUME NEW i, Index(i) PROVE FreshStack(contexts')
  <2> DEFINE c == Last(contexts)
             d == TupleContext(c.size, c.values, Some(i))
  <2>1. CASE \E e : Throw(e)
    BY <1>4, <2>1
  <2>2. CASE /\ TopIs(contexts, "tuple")
             /\ ~HasValue(c.values[i])
             /\ contexts' = SetTop(contexts, d)
    <3>1. IsFresh(d)
      BY <2>2 DEF IsFresh, TupleContext, HasValue, Some, Get
    <3> HIDE DEF c, d
    <3> QED BY <1>0, <2>2, <3>1, FreshTop DEF TopIs
  <2> QED BY <1>6, <2>1, <2>2 DEF Index
<1>7. CASE EndTuple
  BY <1>4, <1>7, FreshDeliver DEF EndTuple, TopIs
<1>8. ASSUME NEW name, Field(name) PROVE FreshStack(contexts')
  <2> DEFINE c == Last(contexts)
             d == RecordContext(c.fields, c.values, Some(name))
  <2>1. CASE (\E e : Throw(e)) \/ ThrowOutOfMemory
    BY <1>4, <2>1 DEF ThrowOutOfMemory
  <2>2. CASE /\ TopIs(contexts, "record")
             /\ \A i \in 1..Len(c.fields) : c.fields[i] # name
             /\ contexts' = SetTop(contexts, d)
    <3>1. IsFresh(c) /\ c.kind = "record"
      BY <1>0, <2>2, TopIsContext, SequenceFacts DEF FreshStack, GoodStack, TopIs
    <3>2. IsFresh(d)
      BY <2>2, <3>1 DEF IsFresh, RecordContext, HasValue, Some, Get
    <3> HIDE DEF c, d
    <3> QED BY <1>0, <2>2, <3>2, FreshTop DEF TopIs
  <2> QED BY <1>8, <2>1, <2>2 DEF Field
<1>9. CASE EndRecord
  BY <1>4, <1>9, FreshDeliver DEF EndRecord, TopIs
<1>10. CASE Snapshot
  BY <1>4, <1>10 DEF Snapshot, ThrowOutOfMemory, FreshStack
<1> QED BY <1>1, <1>2, <1>3, <1>5, <1>6, <1>7, <1>8, <1>9, <1>10
        DEF Next, BeginList, BeginTuple, BeginRecord

\* As long as no allocation fails, a value never overwrites a tuple element and
\* a record never has two fields of one name or a field without a value
\* (builder.hpp:62-74, 105-120, 187-206).
THEOREM ChosenSlotsAreFree == MaxFailures = 0 /\ Spec => []SlotsAreFresh
<1> SUFFICES ASSUME MaxFailures = 0 PROVE Spec => []SlotsAreFresh
  OBVIOUS
<1>1. Init => SlotsAreFresh
  BY DEF Init, SlotsAreFresh
<1>2. BuilderInv /\ SlotsAreFresh /\ [Next]_vars => SlotsAreFresh'
  <2> SUFFICES ASSUME BuilderInv, SlotsAreFresh, [Next]_vars PROVE SlotsAreFresh'
    OBVIOUS
  <2>1. ~OutOfMemory
    BY DEF OutOfMemory, BuilderInv, TypeOK
  <2>2. CASE Next
    BY <2>1, <2>2, FreshNext DEF SlotsAreFresh, FreshStack
  <2>3. CASE UNCHANGED vars
    BY <2>3 DEF vars, SlotsAreFresh
  <2> QED BY <2>2, <2>3
<1> QED BY <1>1, <1>2, InvHolds, PTL DEF Spec
=============================================================================
