---------------------------- MODULE ArrayBuilder ----------------------------
(***************************************************************************)
(* ak::ArrayBuilder, include/awkward/builder.hpp.                          *)
(*                                                                         *)
(* The builder keeps the finished top-level values and a stack of open     *)
(* containers.  A container is kept on the stack while it is open; end_*   *)
(* pops it, makes a value of it and hands that to append_value, which      *)
(* looks at the NEW top of the stack and may refuse it.  Every public      *)
(* method is one action, its exceptions included, and `outcome' is what    *)
(* the caller sees of the last call.                                       *)
(*                                                                         *)
(* A call may also stop at any allocation it makes (std::bad_alloc), at    *)
(* most MaxFailures times; the standard library's containers then          *)
(* guarantee that the vector that was growing is unchanged, and no more.   *)
(* That an exception's own message may fail to allocate is left out.       *)
(***************************************************************************)
EXTENDS Naturals, Sequences, SequencesExt

CONSTANTS
  Scalars,       \* what null, boolean, integer, real and string may add
  Names,         \* non-empty field names
  EmptyName,     \* "", refused by field() and left behind by a moved-from name
  MaxTupleSize,  \* bound: the largest tuple a caller opens
  MaxValues,     \* bound: how many values and containers a caller adds
  MaxFailures    \* bound: how many allocations fail (0: memory never runs out)

ASSUME EmptyNameAssumption   == EmptyName \notin Names
ASSUME MaxTupleAssumption    == MaxTupleSize \in Nat
ASSUME MaxValuesAssumption   == MaxValues \in Nat
ASSUME MaxFailuresAssumption == MaxFailures \in Nat

VARIABLES
  values,    \* values_: the finished top-level values
  contexts,  \* contexts_: the open containers, the innermost one last
  outcome,   \* how the last call ended
  appended,  \* how many values and containers were added (history and bound)
  failures   \* how many allocations failed (bound)

vars == <<values, contexts, outcome, appended, failures>>

Outcomes == {"ok", "invalid_argument", "out_of_range", "bad_alloc"}

(***************************************************************************)
(* std::optional: <<>> when empty, <<x>> when it holds x.                  *)
(***************************************************************************)
None        == <<>>
Some(x)     == <<x>>
HasValue(o) == o # None
Get(o)      == o[1]

(***************************************************************************)
(* Values.  `sound' says whether layout_from_list accepts the value: it    *)
(* fails, in RecordArray's validation, when some record inside has a       *)
(* different number of names and values.                                   *)
(***************************************************************************)
AllSound(vs) == \A i \in DOMAIN vs : vs[i].sound

ScalarValue(x) == [kind |-> "scalar", scalar |-> x, sound |-> TRUE]
ListValue(vs)  == [kind |-> "list", values |-> vs, sound |-> AllSound(vs)]
TupleValue(vs) == [kind |-> "tuple", values |-> vs, sound |-> AllSound(vs)]
RecordValue(fs, vs) ==
  [kind   |-> "record", fields |-> fs, values |-> vs,
   sound  |-> Len(fs) = Len(vs) /\ AllSound(vs)]

(***************************************************************************)
(* Contexts.                                                               *)
(***************************************************************************)
ListContext(vs) == [kind |-> "list", values |-> vs]
TupleContext(n, vs, selected) ==
  [kind |-> "tuple", size |-> n, values |-> vs, selected |-> selected]
RecordContext(fs, vs, pending) ==
  [kind |-> "record", fields |-> fs, values |-> vs, pending_field |-> pending]

NewTuple(n) == TupleContext(n, [i \in 0..n-1 |-> None], None)
NewRecord   == RecordContext(<<>>, <<>>, None)

TopIs(stack, kind) == stack # <<>> /\ Last(stack).kind = kind
SetTop(stack, c)   == [stack EXCEPT ![Len(stack)] = c]

-----------------------------------------------------------------------------
\* How a call that no allocation stopped ends.
Report(result) ==
  /\ outcome' = result
  /\ UNCHANGED failures

OutOfMemory ==
  /\ failures < MaxFailures
  /\ outcome' = "bad_alloc"
  /\ failures' = failures + 1

Throw(error) ==
  /\ Report(error)
  /\ UNCHANGED <<values, contexts, appended>>

\* fault: a call that runs out of memory abandons the open containers
ResetOutOfMemory ==
  /\ OutOfMemory
  /\ contexts' = <<>>
  /\ UNCHANGED <<values, appended>>

ThrowOutOfMemory ==
  /\ OutOfMemory
  /\ UNCHANGED <<values, contexts, appended>>

\* Whether a context has a place for one more value.
HasSlot(c) ==
  \/ c.kind = "list"
  \/ c.kind = "tuple"  /\ HasValue(c.selected)
  \/ c.kind = "record" /\ HasValue(c.pending_field)

EnsureAcceptsValue(stack) == stack # <<>> => HasSlot(Last(stack))

\* fault: the value of a record is put before those it already has
ReceivedInFront(c, v) ==
  CASE c.kind = "list"   -> ListContext(Append(c.values, v))
    [] c.kind = "tuple"  -> TupleContext(c.size,
                              [c.values EXCEPT ![Get(c.selected)] = Some(v)], None)
    [] c.kind = "record" -> RecordContext(Append(c.fields, Get(c.pending_field)),
                                          <<v>> \o c.values, None)

\* The context after it took a value into its slot.
Received(c, v) ==
  CASE c.kind = "list"   -> ListContext(Append(c.values, v))
    [] c.kind = "tuple"  -> TupleContext(c.size,
                              [c.values EXCEPT ![Get(c.selected)] = Some(v)], None)
    [] c.kind = "record" -> RecordContext(Append(c.fields, Get(c.pending_field)),
                                          Append(c.values, v), None)

\* The record whose name list grew and whose value list could not: the name
\* was moved out of pending_field, which still counts as set.
NameWithoutValue(c) ==
  RecordContext(Append(c.fields, Get(c.pending_field)), c.values, Some(EmptyName))

\* append_value on a given stack, which is contexts_, or contexts_ after end_*
\* popped it.
AppendValue(stack, v) ==
  \/ /\ ~EnsureAcceptsValue(stack)
     /\ contexts' = stack
     /\ Report("invalid_argument")
     /\ UNCHANGED values
  \/ /\ stack = <<>>
     /\ values' = Append(values, v)
     /\ contexts' = stack
     /\ Report("ok")
  \/ /\ stack # <<>>
     /\ EnsureAcceptsValue(stack)
     /\ contexts' = SetTop(stack, Received(Last(stack), v))
     /\ Report("ok")
     /\ UNCHANGED values
  \/ /\ OutOfMemory
     /\ EnsureAcceptsValue(stack)
     /\ ~TopIs(stack, "tuple")
     /\ contexts' = stack
     /\ UNCHANGED values
  \/ /\ OutOfMemory
     /\ EnsureAcceptsValue(stack)
     /\ TopIs(stack, "record")
     /\ contexts' = SetTop(stack, NameWithoutValue(Last(stack)))
     /\ UNCHANGED values

CountIfAdded ==
  appended' = IF outcome' = "ok" THEN appended + 1 ELSE appended

-----------------------------------------------------------------------------
(***************************************************************************)
(* The public methods.                                                     *)
(***************************************************************************)
Scalar(x) ==
  /\ appended < MaxValues
  /\ \/ AppendValue(contexts, ScalarValue(x)) /\ CountIfAdded
     \/ ThrowOutOfMemory

\* fault: a container is opened without asking the parent for a slot
BeginUnchecked(c) ==
  /\ appended < MaxValues
  /\ \/ /\ contexts' = Append(contexts, c)
        /\ Report("ok")
        /\ appended' = appended + 1
        /\ UNCHANGED values
     \/ ThrowOutOfMemory

\* begin_list, begin_tuple and begin_record: the parent must have a slot, which
\* stays reserved while the container is open.
Begin(c) ==
  /\ appended < MaxValues
  /\ \/ ~EnsureAcceptsValue(contexts) /\ Throw("invalid_argument")
     \/ /\ EnsureAcceptsValue(contexts)
        /\ contexts' = Append(contexts, c)
        /\ Report("ok")
        /\ appended' = appended + 1
        /\ UNCHANGED values
     \/ ThrowOutOfMemory

BeginList     == Begin(ListContext(<<>>))
BeginTuple(n) == Begin(NewTuple(n))
BeginRecord   == Begin(NewRecord)

\* Every end_* drops its context first and delivers the value afterwards.
Deliver(v) ==
  /\ AppendValue(Front(contexts), v)
  /\ UNCHANGED appended

EndList ==
  \/ ~TopIs(contexts, "list") /\ Throw("invalid_argument")
  \/ TopIs(contexts, "list") /\ Deliver(ListValue(Last(contexts).values))

\* fault: the index one past the last element is accepted
IndexPastEnd(i) ==
  \/ ~TopIs(contexts, "tuple") /\ Throw("invalid_argument")
  \/ /\ TopIs(contexts, "tuple")
     /\ LET c == Last(contexts)
        IN  \/ i > c.size /\ Throw("out_of_range")
            \/ /\ i <= c.size
               /\ ~HasValue(c.selected)
               /\ i < c.size => ~HasValue(c.values[i])
               /\ contexts' = SetTop(contexts, TupleContext(c.size, c.values, Some(i)))
               /\ Report("ok")
               /\ UNCHANGED <<values, appended>>

\* fault: a tuple slot can be chosen although it already has a value
IndexAgain(i) ==
  \/ ~TopIs(contexts, "tuple") /\ Throw("invalid_argument")
  \/ /\ TopIs(contexts, "tuple")
     /\ LET c == Last(contexts)
        IN  \/ i >= c.size /\ Throw("out_of_range")
            \/ i < c.size /\ HasValue(c.selected) /\ Throw("invalid_argument")
            \/ /\ i < c.size
               /\ ~HasValue(c.selected)
               /\ contexts' = SetTop(contexts, TupleContext(c.size, c.values, Some(i)))
               /\ Report("ok")
               /\ UNCHANGED <<values, appended>>

Index(i) ==
  \/ ~TopIs(contexts, "tuple") /\ Throw("invalid_argument")
  \/ /\ TopIs(contexts, "tuple")
     /\ LET c == Last(contexts)
        IN  \/ i >= c.size /\ Throw("out_of_range")
            \/ /\ i < c.size
               /\ HasValue(c.selected) \/ HasValue(c.values[i])
               /\ Throw("invalid_argument")
            \/ /\ i < c.size
               /\ ~HasValue(c.selected)
               /\ ~HasValue(c.values[i])
               /\ contexts' = SetTop(contexts, TupleContext(c.size, c.values, Some(i)))
               /\ Report("ok")
               /\ UNCHANGED <<values, appended>>

EndTuple ==
  \/ ~TopIs(contexts, "tuple") /\ Throw("invalid_argument")
  \/ /\ TopIs(contexts, "tuple")
     /\ LET c == Last(contexts)
            complete == /\ ~HasValue(c.selected)
                        /\ \A i \in 0..c.size-1 : HasValue(c.values[i])
        IN  \/ ~complete /\ Throw("invalid_argument")
            \/ complete /\ Deliver(TupleValue([i \in 0..c.size-1 |-> Get(c.values[i])]))
            \/ /\ OutOfMemory          \* the names and values of the tuple value
               /\ complete
               /\ contexts' = Front(contexts)
               /\ UNCHANGED <<values, appended>>

\* fault: a record may be given the same field twice
FieldTwice(name) ==
  \/ ~TopIs(contexts, "record") /\ Throw("invalid_argument")
  \/ /\ TopIs(contexts, "record")
     /\ LET c == Last(contexts)
        IN  \/ /\ name = EmptyName \/ HasValue(c.pending_field)
               /\ Throw("invalid_argument")
            \/ /\ name # EmptyName
               /\ ~HasValue(c.pending_field)
               /\ contexts' = SetTop(contexts, RecordContext(c.fields, c.values, Some(name)))
               /\ Report("ok")
               /\ UNCHANGED <<values, appended>>
            \/ ThrowOutOfMemory

Field(name) ==
  \/ ~TopIs(contexts, "record") /\ Throw("invalid_argument")
  \/ /\ TopIs(contexts, "record")
     /\ LET c == Last(contexts)
            refused == \/ name = EmptyName
                       \/ HasValue(c.pending_field)
                       \/ \E i \in 1..Len(c.fields) : c.fields[i] = name
        IN  \/ refused /\ Throw("invalid_argument")
            \/ /\ ~refused
               /\ contexts' = SetTop(contexts, RecordContext(c.fields, c.values, Some(name)))
               /\ Report("ok")
               /\ UNCHANGED <<values, appended>>
            \/ ThrowOutOfMemory

EndRecord ==
  \/ ~TopIs(contexts, "record") /\ Throw("invalid_argument")
  \/ /\ TopIs(contexts, "record")
     /\ LET c == Last(contexts)
        IN  \/ HasValue(c.pending_field) /\ Throw("invalid_argument")
            \/ /\ ~HasValue(c.pending_field)
               /\ Deliver(RecordValue(c.fields, c.values))

\* snapshot() is const: it only reports.
Snapshot ==
  \/ /\ contexts # <<>> \/ ~AllSound(values)
     /\ Throw("invalid_argument")
  \/ /\ contexts = <<>> /\ AllSound(values)
     /\ Report("ok")
     /\ UNCHANGED <<values, contexts, appended>>
  \/ ThrowOutOfMemory

-----------------------------------------------------------------------------
Init ==
  /\ values   = <<>>
  /\ contexts = <<>>
  /\ outcome  = "ok"
  /\ appended = 0
  /\ failures = 0

Next ==
  \/ \E x \in Scalars : Scalar(x)
  \/ BeginList
  \/ EndList
  \/ \E n \in 0..MaxTupleSize : BeginTuple(n)
  \/ \E i \in 0..MaxTupleSize : Index(i)
  \/ EndTuple
  \/ BeginRecord
  \/ \E name \in Names \cup {EmptyName} : Field(name)
  \/ EndRecord
  \/ Snapshot

Spec == Init /\ [][Next]_vars

-----------------------------------------------------------------------------
(***************************************************************************)
(* Invariants.                                                             *)
(***************************************************************************)
IsSequence(s) == s \in Seq({s[i] : i \in DOMAIN s})
IsOption(o)   == o = None \/ o = Some(Get(o))

IsListContext(c) ==
  /\ c = ListContext(c.values)
  /\ IsSequence(c.values)

IsTupleContext(c) ==
  /\ c = TupleContext(c.size, c.values, c.selected)
  /\ c.size \in 0..MaxTupleSize
  /\ c.values = [i \in 0..c.size-1 |-> c.values[i]]
  /\ \A i \in 0..c.size-1 : IsOption(c.values[i])
  /\ c.selected = None \/ \E i \in 0..c.size-1 : c.selected = Some(i)

IsRecordContext(c) ==
  /\ c = RecordContext(c.fields, c.values, c.pending_field)
  /\ c.fields \in Seq(Names \cup {EmptyName})
  /\ IsSequence(c.values)
  /\ c.pending_field = None
       \/ \E name \in Names \cup {EmptyName} : c.pending_field = Some(name)

IsContext(c) ==
  \/ c.kind = "list"   /\ IsListContext(c)
  \/ c.kind = "tuple"  /\ IsTupleContext(c)
  \/ c.kind = "record" /\ IsRecordContext(c)

\* The shapes of values_, of the three contexts and of the history.
TypeOK ==
  /\ IsSequence(values)
  /\ IsSequence(contexts)
  /\ \A k \in 1..Len(contexts) : IsContext(contexts[k])
  /\ outcome \in Outcomes
  /\ appended \in 0..MaxValues
  /\ failures \in 0..MaxFailures

\* The slot a container was begun in stays reserved while it is open: every
\* context below the top is a list, a tuple with a selected index or a record
\* with a pending field.  This is what makes end_* safe: it pops the context
\* before append_value asks the parent (builder.hpp:50-55, 87-97, 128-133).
SlotReserved ==
  \A k \in 1..Len(contexts)-1 : HasSlot(contexts[k])

IsFresh(c) ==
  /\ c.kind = "tuple" /\ HasValue(c.selected) => ~HasValue(c.values[Get(c.selected)])
  /\ c.kind = "record" =>
       /\ Len(c.fields) = Len(c.values)
       /\ \A i, j \in 1..Len(c.fields) : c.fields[i] = c.fields[j] => i = j
       /\ HasValue(c.pending_field)
            => \A i \in 1..Len(c.fields) : c.fields[i] # Get(c.pending_field)

\* A chosen slot is still free: the selected index of a tuple has no value,
\* every field of a record has its value, and no name is used or pending twice
\* (builder.hpp:70-73, 110-119, 198-205).  A failed allocation breaks the part
\* about records.
SlotsAreFresh == \A k \in 1..Len(contexts) : IsFresh(contexts[k])

(***************************************************************************)
(* Action properties.                                                      *)
(***************************************************************************)
\* A call that throws leaves the builder as it was, the end_* calls included,
\* which have already popped their context when append_value may still throw
\* (builder.hpp:50-55).  True as long as memory does not run out.
ThrowsChangeNothing ==
  [][outcome' \in {"invalid_argument", "out_of_range"}
       => UNCHANGED <<values, contexts>>]_vars

\* A call that runs out of memory touches no finished value and no context but
\* the top: it leaves the stack, or the stack without the container it was
\* closing, as they were, except for the top (builder.hpp:187-206).
FailureIsLocal ==
  [][outcome' = "bad_alloc" =>
       /\ values' = values
       /\ Len(contexts') \in {Len(contexts) - 1, Len(contexts)}
       /\ \A k \in 1..Len(contexts')-1 : contexts'[k] = contexts[k]]_vars
=============================================================================
