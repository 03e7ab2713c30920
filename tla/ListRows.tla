------------------------------ MODULE ListRows ------------------------------
(***************************************************************************)
(* The rows of the list layouts, include/awkward/contents: which positions *)
(* of its content a row holds, and the offsets that are written for rows.  *)
(***************************************************************************)
EXTENDS Indexes, SequencesExt

\* validate(), for a content of n values.
SoundOffsets(offsets, n) ==
  /\ offsets # <<>>
  /\ offsets[1] = 0
  /\ \A i, j \in DOMAIN offsets : i <= j => offsets[i] <= offsets[j]
  /\ Last(offsets) = n

SoundRanges(starts, stops, n) ==
  /\ Len(starts) = Len(stops)
  /\ \A i \in DOMAIN starts : starts[i] <= stops[i] /\ stops[i] <= n

SoundIndex(index, n) == \A i \in DOMAIN index : 0 <= index[i] /\ index[i] < n

SoundOptionIndex(index, n) == \A i \in DOMAIN index : index[i] < n

\* The positions in the content that row i of a list layout holds.
OffsetRow(offsets, i)      == Span(offsets[i + 1], offsets[i + 2])
RangeRow(starts, stops, i) == Span(starts[i + 1], stops[i + 1])
RegularRow(size, i)        == Span(i * size, (i + 1) * size)

\* Where each of the rows begins when they are put one after the other, and where the
\* last one ends.
OffsetsOf(rows) == [k \in 1..(Len(rows) + 1) |-> Len(FlattenSeq(SubSeq(rows, 1, k - 1)))]
=============================================================================
