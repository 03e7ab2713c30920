------------------------ MODULE JaggedRowsRefinement ------------------------
(***************************************************************************)
(* The storage of jagged::Array<T> implements RaggedRows: to_rows() maps   *)
(* an array to its rows, and a call with its arguments then does to the    *)
(* rows what the call of the same name does there, and ends the same way.  *)
(***************************************************************************)
EXTENDS JaggedRowOps

Ragged == INSTANCE RaggedRows
            WITH rows <- [h \in Handles |-> RowsOf(values[h], offsets[h])]

\* Every call does to the rows of every handle exactly what RaggedRows says of a
\* call with these arguments, and is refused exactly when it says so
\* (array.hpp:63-274, 384-459).
ImplementsRaggedRows == Ragged!Spec

-----------------------------------------------------------------------------
(***************************************************************************)
(* Torn arrays.  A call that fails half-way may leave values that no row   *)
(* owns: in front of the first row, or behind the last.                    *)
(***************************************************************************)
Before(h) == SubSeq(values[h], 1, offsets[h][1])
Behind(h) == SubSeq(values[h], offsets[h][Len(offsets[h])] + 1, Len(values[h]))

\* The rows of a and those of b, the first of which takes in the values between
\* the two that no row owns.
JoinedRows(a, b) ==
  AllRows(a) \o [k \in 1..Rows(b) |->
                   IF k = 1 THEN Behind(a) \o Before(b) \o AllRows(b)[1] ELSE AllRows(b)[k]]

Torn(h) == ~WellFormed(h)

\* What a call may do to the rows: what RaggedRows says of it, but that values
\* which no row owns join the row that comes next behind them, or make the two
\* methods that keep a vector of values whole refuse.
AnswersByRows ==
  LET c == call'
  IN  \/ c.op = "AppendRow"  /\ Ragged!AppendRow(c.to, Behind(c.to) \o c.row)
      \/ c.op = "ConcatRows" /\ Ragged!Done(c.to, JoinedRows(c.of, c.with))
      \/ c.op = "ConcatRows" /\ (Torn(c.of) \/ Torn(c.with)) /\ Ragged!Refused("invalid_argument")
      \/ c.op = "FillNone"   /\ Torn(c.of) /\ Ragged!Refused("invalid_argument")
      \/ c.op \notin {"AppendRow", "ConcatRows"} /\ Ragged!Next

\* While its rows can be read, a torn array goes on answering by its rows: what a
\* failed append_row, assignment or move left over enters no other method's result
\* than that of the next append_row or concat_rows, where it becomes part of the
\* row that is added, so that a retried append_row doubles its values
\* (array.hpp:174-182, 196-208, 418-428).
TornArraysAnswerByTheirRows ==
  [][(\A h \in Handles : Readable(values[h], offsets[h])) /\ outcome' # "bad_alloc"
       => AnswersByRows]_vars
=============================================================================
