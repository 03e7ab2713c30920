---------------------------- MODULE JaggedArray ----------------------------
(***************************************************************************)
(* The storage of jagged::Array<T>, include/jagged/array.hpp: one vector   *)
(* of values and one of row offsets, and what every constructor,           *)
(* assignment and mutating method does to the pair.                        *)
(*                                                                         *)
(* A handle is a variable of the caller's program, alive or not.  A method *)
(* that returns an array constructs it in a handle that is not alive, or   *)
(* move-assigns the temporary to one that is.  Operations that the caller  *)
(* performs on two handles (move, copy, concat_rows) name both.            *)
(*                                                                         *)
(* An allocation may fail, at most MaxFailures times.  Capacities are not  *)
(* modelled, so every step that may have to grow a vector may fail; a step *)
(* that certainly fits in what the vector holds does not.  Copying an      *)
(* element does not fail, and no exception's own message is lost.          *)
(***************************************************************************)
EXTENDS Integers, Sequences

CONSTANTS
  Handles,       \* the caller's variables
  Elements,      \* the values of T
  MaxValues,     \* bound: the values an array grows to
  MaxRows,       \* bound: the rows an array grows to
  MaxFailures    \* bound: how many allocations fail (0: memory never runs out)

ASSUME MaxValuesAssumption   == MaxValues \in Nat
ASSUME MaxRowsAssumption     == MaxRows \in Nat
ASSUME MaxFailuresAssumption == MaxFailures \in Nat

VARIABLES
  live,      \* the handles that hold an array
  values,    \* values_ of every handle
  offsets,   \* offsets_ of every handle
  call,      \* the last call, with its arguments (history)
  outcome,   \* how it ended
  failures   \* how many allocations failed (bound)

vars == <<live, values, offsets, call, outcome, failures>>

Outcomes == {"ok", "invalid_argument", "out_of_range", "length_error", "bad_alloc"}

-----------------------------------------------------------------------------
(***************************************************************************)
(* Offsets.                                                                *)
(***************************************************************************)
\* What std::is_sorted decides.
Ascending(o) == \A i, j \in 1..Len(o) : i <= j => o[i] <= o[j]

\* What validate_offsets accepts.
ValidOffsets(n, o) ==
  /\ o # <<>>
  /\ o[1] = 0
  /\ o[Len(o)] = n
  /\ Ascending(o)

\* rows() is offsets_.size() - 1 on an unsigned type: without any offset it
\* wraps around, and every row index is below it.
RowAccepted(o, i) == o = <<>> \/ i < Len(o) - 1

Start(o, i) == o[i+1]
Stop(o, i)  == o[i+2]

\* The elements at() hands out: a row index that passes check_row_index and a
\* column that is below the size of the row.
ElementAccepted(o, i, j) ==
  /\ RowAccepted(o, i)
  /\ o # <<>> => j < Stop(o, i) - Start(o, i)

-----------------------------------------------------------------------------
Report(result) ==
  /\ outcome' = result
  /\ UNCHANGED failures

OutOfMemory ==
  /\ failures < MaxFailures
  /\ outcome' = "bad_alloc"
  /\ failures' = failures + 1

Throw(error) ==
  /\ Report(error)
  /\ UNCHANGED <<live, values, offsets>>

ThrowOutOfMemory ==
  /\ OutOfMemory
  /\ UNCHANGED <<live, values, offsets>>

Store(h, v, o) ==
  /\ values'  = [values EXCEPT ![h] = v]
  /\ offsets' = [offsets EXCEPT ![h] = o]

\* An array that a method returns reaches its handle: constructed in place, or
\* moved from a temporary, which is reset afterwards and may fail at that.
Deliver(h, v, o) ==
  /\ Store(h, v, o)
  /\ live' = live \cup {h}
  /\ \/ Report("ok")
     \/ h \in live /\ OutOfMemory

\* Array(values, offsets): validated, then delivered.
Result(h, v, o) ==
  \/ ~ValidOffsets(Len(v), o) /\ Throw("invalid_argument")
  \/ ValidOffsets(Len(v), o) /\ Deliver(h, v, o)
  \/ ThrowOutOfMemory

Fits(v, o) == Len(v) <= MaxValues /\ Len(o) <= MaxRows + 1

-----------------------------------------------------------------------------
(***************************************************************************)
(* The public operations.                                                  *)
(***************************************************************************)
Default(h) ==
  /\ call' = [op |-> "Default", to |-> h]
  /\ h \notin live
  /\ \/ Store(h, <<>>, <<0>>) /\ live' = live \cup {h} /\ Report("ok")
     \/ ThrowOutOfMemory

FromFlat(h, v, o) ==
  /\ call' = [op |-> "FromFlat", values |-> v, offsets |-> o, to |-> h]
  /\ h \notin live
  /\ Result(h, v, o)

\* fault: the offset is pushed before the values are inserted
AppendOffsetFirst(h, row) ==
  LET v == values[h] \o row
      o == Append(offsets[h], Len(values[h]))
  IN  /\ call' = [op |-> "AppendRow", row |-> row, to |-> h]
      /\ h \in live
      /\ Fits(v, o)
      /\ Store(h, v, o)
      /\ Report("ok")
      /\ UNCHANGED live

\* fault: the offset is that of the last value and not one past it
AppendLastIndex(h, row) ==
  LET v == values[h] \o row
      o == Append(offsets[h], Len(v) - 1)
  IN  /\ call' = [op |-> "AppendRow", row |-> row, to |-> h]
      /\ h \in live
      /\ Fits(v, o)
      /\ Store(h, v, o)
      /\ Report("ok")
      /\ UNCHANGED live

\* fault: the values are inserted in front
AppendInFront(h, row) ==
  LET v == row \o values[h]
      o == Append(offsets[h], Len(v))
  IN  /\ call' = [op |-> "AppendRow", row |-> row, to |-> h]
      /\ h \in live
      /\ Fits(v, o)
      /\ Store(h, v, o)
      /\ Report("ok")
      /\ UNCHANGED live

\* The values are inserted first, the offset follows; either vector may fail to
\* grow.
AppendRow(h, row) ==
  LET v == values[h] \o row
      o == Append(offsets[h], Len(v))
  IN  /\ call' = [op |-> "AppendRow", row |-> row, to |-> h]
      /\ h \in live
      /\ Fits(v, o)
      /\ \/ Store(h, v, o) /\ Report("ok")
         \/ UNCHANGED <<values, offsets>> /\ OutOfMemory
         \/ Store(h, v, offsets[h]) /\ OutOfMemory
      /\ UNCHANGED live

\* reset_to_empty on a vector that still has room for one offset.
Clear(h) ==
  /\ call' = [op |-> "Clear", to |-> h]
  /\ h \in live
  /\ \/ Store(h, <<>>, <<0>>) /\ Report("ok")
     \/ offsets[h] = <<>> /\ Store(h, <<>>, <<>>) /\ OutOfMemory
  /\ UNCHANGED live

Reserve(h) ==
  /\ call' = [op |-> "Reserve", to |-> h]
  /\ h \in live
  /\ Throw("ok") \/ ThrowOutOfMemory

CopyConstruct(g, h) ==
  /\ call' = [op |-> "Copy", of |-> g, to |-> h]
  /\ g \in live
  /\ h \notin live
  /\ \/ Store(h, values[g], offsets[g]) /\ live' = live \cup {h} /\ Report("ok")
     \/ ThrowOutOfMemory

\* Member by member: the values may be copied when the offsets fail to grow.
CopyAssign(g, h) ==
  /\ call' = [op |-> "Copy", of |-> g, to |-> h]
  /\ g \in live
  /\ h \in live
  /\ \/ Store(h, values[g], offsets[g]) /\ Report("ok")
     \/ /\ Len(values[g]) > Len(values[h])
        /\ UNCHANGED <<values, offsets>>
        /\ OutOfMemory
     \/ /\ Len(offsets[g]) > Len(offsets[h])
        /\ Store(h, values[g], offsets[h])
        /\ OutOfMemory
  /\ UNCHANGED live

\* fault: the array that was moved from is not reset
MovedWithoutReset(g, h, left) ==
  /\ values'  = [values EXCEPT ![h] = values[g], ![g] = <<>>]
  /\ offsets' = [offsets EXCEPT ![h] = offsets[g], ![g] = <<>>]

\* g's vectors are taken by h and g is reset; the vector of offsets has lost
\* its storage, so that pushing the initial zero allocates.
Moved(g, h, left) ==
  /\ values'  = [values EXCEPT ![h] = values[g], ![g] = <<>>]
  /\ offsets' = [offsets EXCEPT ![h] = offsets[g], ![g] = left]

MoveAssign(g, h) ==
  /\ call' = [op |-> "Move", of |-> g, to |-> h]
  /\ g \in live
  /\ h \in live
  /\ \/ g = h /\ Throw("ok")
     \/ g # h /\ Moved(g, h, <<0>>) /\ Report("ok")
     \/ g # h /\ Moved(g, h, <<>>) /\ OutOfMemory
  /\ UNCHANGED live

\* A constructor that throws leaves no array behind: what was moved is lost.
MoveConstruct(g, h) ==
  /\ call' = [op |-> "Move", of |-> g, to |-> h]
  /\ g \in live
  /\ h \notin live
  /\ \/ Moved(g, h, <<0>>) /\ live' = live \cup {h} /\ Report("ok")
     \/ Store(g, <<>>, <<>>) /\ UNCHANGED live /\ OutOfMemory

\* fault: the second array's offsets are shifted by the rows of the first
ConcatByRows(a, b, h) ==
  LET v == values[a] \o values[b]
      o == offsets[a] \o [i \in 1..Len(offsets[b])-1 |-> Len(offsets[a]) - 1 + offsets[b][i+1]]
  IN  /\ call' = [op |-> "ConcatRows", of |-> a, with |-> b, to |-> h]
      /\ {a, b} \subseteq live
      /\ Fits(v, o)
      /\ Result(h, v, o)

\* The space reserved for the joint offsets is not SIZE_MAX, as it is for two
\* arrays that have none.
Joinable(a, b) == offsets[a] # <<>> \/ offsets[b] # <<>>

ConcatRows(a, b, h) ==
  LET v == values[a] \o values[b]
      o == offsets[a] \o [i \in 1..Len(offsets[b])-1 |-> Len(values[a]) + offsets[b][i+1]]
  IN  /\ call' = [op |-> "ConcatRows", of |-> a, with |-> b, to |-> h]
      /\ {a, b} \subseteq live
      /\ Fits(v, o)
      /\ \/ Joinable(a, b) /\ Result(h, v, o)
         \/ ~Joinable(a, b) /\ (Throw("length_error") \/ ThrowOutOfMemory)

Destroy(h) ==
  /\ call' = [op |-> "Destroy", to |-> h]
  /\ h \in live
  /\ live' = live \ {h}
  /\ Store(h, <<>>, <<0>>)
  /\ Report("ok")

-----------------------------------------------------------------------------
Init ==
  /\ live     = {}
  /\ values   = [h \in Handles |-> <<>>]
  /\ offsets  = [h \in Handles |-> <<0>>]
  /\ call     = [op |-> "none"]
  /\ outcome  = "ok"
  /\ failures = 0

\* Arguments a caller may give: vectors of values, and of offsets, which need
\* not fit the values.
Vectors(S, n) == UNION {[1..k -> S] : k \in 0..n}
OffsetVectors == Vectors(0..MaxValues, MaxRows + 1)

Next ==
  \/ \E h \in Handles :
       \/ Default(h)
       \/ \E row \in Vectors(Elements, MaxValues) : AppendRow(h, row)
       \/ Clear(h)
       \/ Reserve(h)
       \/ Destroy(h)
  \/ \E h \in Handles \ live, v \in Vectors(Elements, MaxValues), o \in OffsetVectors :
       FromFlat(h, v, o)
  \/ \E g, h \in Handles :
       \/ CopyConstruct(g, h)
       \/ CopyAssign(g, h)
       \/ MoveAssign(g, h)
       \/ MoveConstruct(g, h)
  \/ \E a, b, h \in Handles : ConcatRows(a, b, h)

Spec == Init /\ [][Next]_vars

-----------------------------------------------------------------------------
(***************************************************************************)
(* Properties of the storage.                                              *)
(***************************************************************************)
\* The vectors hold elements and sizes.
TypeOK ==
  /\ live \subseteq Handles
  /\ values  \in [Handles -> Seq(Elements)]
  /\ offsets \in [Handles -> Seq(Nat)]
  /\ outcome \in Outcomes
  /\ failures \in 0..MaxFailures

WellFormed(h) == ValidOffsets(Len(values[h]), offsets[h])

\* The offsets the flat constructor validates stay valid through every later
\* mutation, copy and move, as long as memory does not run out: non-empty, from
\* zero, monotonic, up to the number of values (README.md:333).
OffsetsWellFormed == \A h \in live : WellFormed(h)

\* When every array is well formed, only a call that reports bad_alloc can leave
\* one that is not: no successful or refused call does (array.hpp:71-82, 174-186).
DamageIsReported ==
  [][OffsetsWellFormed /\ outcome' # "bad_alloc" => OffsetsWellFormed']_vars

\* Rows that can be read without leaving the vectors.
Readable(v, o) ==
  /\ o # <<>>
  /\ Ascending(o)
  /\ \A i \in 1..Len(o) : o[i] <= Len(v)

\* to_rows(): the rows of a readable array.
RowsOf(v, o) == [i \in 1..Len(o)-1 |-> SubSeq(v, o[i]+1, o[i+1])]

\* append_row, whether it succeeds or fails half-way, leaves every row that
\* could be read before as it was (array.hpp:174-182).
AppendKeepsRows ==
  [][call'.op = "AppendRow" =>
       LET h == call'.to
           before == RowsOf(values[h], offsets[h])
       IN  Readable(values[h], offsets[h])
             => \A i \in DOMAIN before : RowsOf(values'[h], offsets'[h])[i] = before[i]]_vars

\* at() hands out no element outside the vectors: an index that is too large is
\* refused instead (README.md:339, "Bad row or column indexing throws
\* std::out_of_range").
ReadsStayInBounds ==
  \A h \in live : \A i \in 0..MaxRows : \A j \in 0..MaxValues :
    ElementAccepted(offsets[h], i, j)
      => /\ i + 2 <= Len(offsets[h])
         /\ Start(offsets[h], i) + j < Len(values[h])
=============================================================================
