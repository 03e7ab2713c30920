-------------------------- MODULE BuilderDocument --------------------------
(***************************************************************************)
(* What ak::ArrayBuilder promises its caller, without its stack.           *)
(*                                                                         *)
(* The caller writes a nested document at a cursor.  Every value it adds   *)
(* takes its place AT ONCE, at the address the cursor names, and stays     *)
(* there: closing a container only moves the cursor back out.  The builder *)
(* in the code works the other way around (a container is kept aside while *)
(* it is open and delivered to its parent when it is closed), so that the  *)
(* two agree says that a late delivery always lands where the container    *)
(* was begun, and that nothing is lost, moved or overwritten on the way.   *)
(***************************************************************************)
EXTENDS Naturals, Sequences, FiniteSets

CONSTANTS
  Scalars,       \* what null, boolean, integer, real and string may add
  Names,         \* field names
  MaxTupleSize   \* the largest tuple a caller opens

VARIABLES
  cells,   \* the document: a set of [at |-> address, name |-> name, is |-> label]
  cursor,  \* the address of the innermost open container
  slot     \* <<>>, or <<s>> when s is chosen for the next value

docVars == <<cells, cursor, slot>>

(***************************************************************************)
(* An address is a sequence of positions, one in each container on the     *)
(* way.  A slot is a position with a name: <<name>> in a record, whose     *)
(* fields keep the order in which they were given, and <<>> elsewhere.     *)
(***************************************************************************)
Position(k)     == [pos |-> k, name |-> <<>>]
Named(k, name)  == [pos |-> k, name |-> <<name>>]

ScalarLabel(x)  == [kind |-> "scalar", scalar |-> x]
ListLabel       == [kind |-> "list"]
TupleLabel(n)   == [kind |-> "tuple", size |-> n]
RecordLabel     == [kind |-> "record"]

LabelAt(a)  == (CHOOSE c \in cells : c.at = a).is
Children(a) == {c \in cells : c.at # <<>> /\ c.at = Append(a, c.at[Len(c.at)])}

\* A list names the slot of its next value itself; a tuple and a record wait
\* for the caller to choose one.
NextSlot ==
  IF LabelAt(cursor).kind = "list"
  THEN <<Position(Cardinality(Children(cursor)) + 1)>>
  ELSE slot

-----------------------------------------------------------------------------
Init ==
  /\ cells  = {[at |-> <<>>, name |-> <<>>, is |-> ListLabel]}
  /\ cursor = <<>>
  /\ slot   = <<>>

\* Add one value at the cursor; a container becomes the new cursor.
Add(label, opens) ==
  /\ NextSlot # <<>>
  /\ LET a == Append(cursor, NextSlot[1].pos)
     IN  /\ cells'  = cells \cup {[at |-> a, name |-> NextSlot[1].name, is |-> label]}
         /\ cursor' = IF opens THEN a ELSE cursor
  /\ slot' = <<>>

Choose(s) ==
  /\ slot = <<>>
  /\ slot' = <<s>>
  /\ UNCHANGED <<cells, cursor>>

ChooseIndex(i) ==
  /\ LabelAt(cursor).kind = "tuple"
  /\ i < LabelAt(cursor).size
  /\ \A c \in Children(cursor) : c.at # Append(cursor, i)
  /\ Choose(Position(i))

ChooseField(name) ==
  /\ LabelAt(cursor).kind = "record"
  /\ \A c \in Children(cursor) : c.name # <<name>>
  /\ Choose(Named(Cardinality(Children(cursor)) + 1, name))

\* Only a whole container closes: no slot left waiting, no tuple slot empty.
Close ==
  /\ cursor # <<>>
  /\ slot = <<>>
  /\ LabelAt(cursor).kind = "tuple"
       => Cardinality(Children(cursor)) = LabelAt(cursor).size
  /\ cursor' = SubSeq(cursor, 1, Len(cursor) - 1)
  /\ UNCHANGED <<cells, slot>>

Next ==
  \/ \E x \in Scalars : Add(ScalarLabel(x), FALSE)
  \/ Add(ListLabel, TRUE)
  \/ \E n \in 0..MaxTupleSize : Add(TupleLabel(n), TRUE)
  \/ Add(RecordLabel, TRUE)
  \/ \E i \in 0..MaxTupleSize : ChooseIndex(i)
  \/ \E name \in Names : ChooseField(name)
  \/ Close

Spec == Init /\ [][Next]_docVars
=============================================================================
