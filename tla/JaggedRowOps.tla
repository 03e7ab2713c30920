---------------------------- MODULE JaggedRowOps ----------------------------
(***************************************************************************)
(* The const methods of jagged::Array<T> that build another array row by   *)
(* row, include/jagged/array.hpp, and those that reduce every row to a     *)
(* number.  The first collect values and offsets of their own and hand     *)
(* both to the validating constructor.                                     *)
(*                                                                         *)
(* T is std::optional<int>: Nullopt is below every number, as the order of *)
(* std::optional has it.  The booleans of is_none are 0 and 1.             *)
(*                                                                         *)
(* A loop is a recursive function: its value at k is what the loop has     *)
(* collected after k rounds.                                               *)
(***************************************************************************)
EXTENDS JaggedArray, Functions

CONSTANT Nullopt

ASSUME ElementsAssumption ==
  /\ {0, 1, Nullopt} \subseteq Elements
  /\ Elements \subseteq Int
  /\ Nullopt < 0

\* The two vectors a method collects, before any row.
NoRows == [values |-> <<>>, offsets |-> <<0>>]

AddRow(built, row) ==
  [values  |-> built.values \o row,
   offsets |-> Append(built.offsets, Len(built.values) + Len(row))]

\* The two vectors after every row.
Built(rows) ==
  LET built[k \in 0..Len(rows)] == IF k = 0 THEN NoRows ELSE AddRow(built[k-1], rows[k])
  IN  built

\* The positions of 1..n that lie in kept, collected in their order.
Picked(kept, n) ==
  LET picked[k \in 0..n] ==
        IF k = 0 THEN <<>> ELSE IF k \in kept THEN Append(picked[k-1], k) ELSE picked[k-1]
  IN  picked

Rows(a) == Len(offsets[a]) - 1

\* fault: the last row runs to the end of the values
RowToTheEnd(a, i) ==
  SubSeq(values[a], Start(offsets[a], i) + 1,
         IF i = Rows(a) - 1 THEN Len(values[a]) ELSE Stop(offsets[a], i))

RowAt(a, i) == SubSeq(values[a], Start(offsets[a], i) + 1, Stop(offsets[a], i))

\* Calls that would read outside the vectors are undefined and left out.
Reads(a) == a \in live /\ Readable(values[a], offsets[a])

Build(h, rows) ==
  LET built == Built(rows)[Len(rows)]
  IN  /\ Fits(built.values, built.offsets)
      /\ Result(h, built.values, built.offsets)

AllRows(a) == [k \in 1..Rows(a) |-> RowAt(a, k - 1)]

-----------------------------------------------------------------------------
FromRows(h, rows) ==
  /\ call' = [op |-> "FromRows", rows |-> rows, to |-> h]
  /\ h \notin live
  /\ Build(h, rows)

TakeRows(a, indices, h) ==
  /\ call' = [op |-> "TakeRows", of |-> a, indices |-> indices, to |-> h]
  /\ Reads(a)
  /\ \/ /\ \E k \in DOMAIN indices : ~RowAccepted(offsets[a], indices[k])
        /\ Throw("out_of_range") \/ ThrowOutOfMemory
     \/ /\ \A k \in DOMAIN indices : RowAccepted(offsets[a], indices[k])
        /\ Build(h, [k \in DOMAIN indices |-> RowAt(a, indices[k])])

MaskRows(a, keep, h) ==
  /\ call' = [op |-> "MaskRows", of |-> a, keep |-> keep, to |-> h]
  /\ Reads(a)
  /\ \/ Len(keep) # Rows(a) /\ Throw("invalid_argument")
     \/ /\ Len(keep) = Rows(a)
        /\ LET kept == Picked({k \in 1..Rows(a) : keep[k]}, Rows(a))[Rows(a)]
           IN  Build(h, [k \in DOMAIN kept |-> RowAt(a, kept[k] - 1)])

\* std::sort: the elements, through a permutation that puts them in order.
SortedRow(row) ==
  LET order == CHOOSE p \in Bijection(DOMAIN row, DOMAIN row) :
                 \A i, j \in DOMAIN row : i < j => row[p[i]] <= row[p[j]]
  IN  [i \in DOMAIN row |-> row[order[i]]]

SortRows(a, h) ==
  /\ call' = [op |-> "SortRows", of |-> a, to |-> h]
  /\ Reads(a)
  /\ Build(h, [i \in 1..Rows(a) |-> SortedRow(AllRows(a)[i])])

IsNone(a, h) ==
  /\ call' = [op |-> "IsNone", of |-> a, to |-> h]
  /\ Reads(a)
  /\ LET missing(row) == [k \in DOMAIN row |-> IF row[k] = Nullopt THEN 1 ELSE 0]
     IN  Build(h, [i \in 1..Rows(a) |-> missing(AllRows(a)[i])])

DropNone(a, h) ==
  /\ call' = [op |-> "DropNone", of |-> a, to |-> h]
  /\ Reads(a)
  /\ LET present(row) == Picked({k \in DOMAIN row : row[k] # Nullopt}, Len(row))[Len(row)]
         values_of(row) == [k \in DOMAIN present(row) |-> row[present(row)[k]]]
     IN  Build(h, [i \in 1..Rows(a) |-> values_of(AllRows(a)[i])])

\* Works on the vector of values and keeps the offsets, rows or not.
FillNone(a, fill, h) ==
  /\ call' = [op |-> "FillNone", of |-> a, fill |-> fill, to |-> h]
  /\ a \in live
  /\ Result(h, [k \in DOMAIN values[a] |->
                  IF values[a][k] = Nullopt THEN fill ELSE values[a][k]], offsets[a])

PadNone(a, target, h) ==
  LET pad(row) == IF Len(row) < target
                  THEN row \o [k \in 1..target - Len(row) |-> Nullopt]
                  ELSE row
  IN  /\ call' = [op |-> "PadNone", of |-> a, target |-> target, to |-> h]
      /\ Reads(a)
      /\ Build(h, [i \in 1..Rows(a) |-> pad(AllRows(a)[i])])

-----------------------------------------------------------------------------
(***************************************************************************)
(* The reductions: a result for every row, and none for an empty row that  *)
(* has no least element or no mean.  A real number is a fraction, as a     *)
(* pair; the standard deviation is the variance under the root.            *)
(***************************************************************************)
\* std::accumulate with + and with std::multiplies
Sums(row) ==
  LET sums[k \in 0..Len(row)] == IF k = 0 THEN 0 ELSE sums[k-1] + row[k]
  IN  sums
Products(row) ==
  LET products[k \in 0..Len(row)] == IF k = 0 THEN 1 ELSE products[k-1] * row[k]
  IN  products

Total(row)   == Sums(row)[Len(row)]
Product(row) == Products(row)[Len(row)]

\* std::min_element, std::max_element: the first of the least, of the greatest
LeastOf(row) ==
  LET least[k \in 0..Len(row)] ==
        IF k = 0 THEN row[1] ELSE IF row[k] < least[k-1] THEN row[k] ELSE least[k-1]
  IN  least
GreatestOf(row) ==
  LET greatest[k \in 0..Len(row)] ==
        IF k = 0 THEN row[1] ELSE IF greatest[k-1] < row[k] THEN row[k] ELSE greatest[k-1]
  IN  greatest

Least(row)    == LeastOf(row)[Len(row)]
Greatest(row) == GreatestOf(row)[Len(row)]

\* The squares of the differences to the mean, each Len(row) times as large.
Squares(row) == [k \in DOMAIN row |-> (Len(row) * row[k] - Total(row)) * (Len(row) * row[k] - Total(row))]

Reduction(kind, row) ==
  CASE kind = "sum"     -> <<Total(row)>>
    [] kind = "product" -> <<Product(row)>>
    [] kind \notin {"sum", "product"} /\ row = <<>> -> <<>>
    [] kind = "min"     /\ row # <<>> -> <<Least(row)>>
    [] kind = "max"     /\ row # <<>> -> <<Greatest(row)>>
    [] kind = "mean"    /\ row # <<>> -> <<Total(row), Len(row)>>
    [] kind \in {"variance", "stddev"} /\ row # <<>> ->
         <<Total(Squares(row)), Len(row) * Len(row) * Len(row)>>

Reductions == {"sum", "product", "min", "max", "mean", "variance", "stddev"}

\* sum() to stddev(): only min and max take elements that are no numbers.
Reduce(a, kind) ==
  /\ Reads(a)
  /\ kind \in {"min", "max"} \/ \A k \in DOMAIN values[a] : values[a][k] # Nullopt
  /\ call' = [op |-> "Reduce", of |-> a, kind |-> kind,
              results |-> [i \in 1..Rows(a) |-> Reduction(kind, AllRows(a)[i])]]
  /\ Throw("ok") \/ ThrowOutOfMemory

-----------------------------------------------------------------------------
RowVectors == {rows \in Vectors(Vectors(Elements, MaxValues), MaxRows) :
                 Len(Built(rows)[Len(rows)].values) <= MaxValues}

RowNext ==
  \/ Next
  \/ \E h \in Handles \ live, rows \in RowVectors : FromRows(h, rows)
  \/ \E a \in Handles, kind \in Reductions : Reduce(a, kind)
  \/ \E a, h \in Handles :
       \/ \E indices \in Vectors(0..MaxRows, MaxRows) : TakeRows(a, indices, h)
       \/ \E keep \in Vectors(BOOLEAN, MaxRows) : MaskRows(a, keep, h)
       \/ SortRows(a, h)
       \/ IsNone(a, h)
       \/ DropNone(a, h)
       \/ \E fill \in Elements \ {Nullopt} : FillNone(a, fill, h)
       \/ \E target \in 0..MaxValues : PadNone(a, target, h)

RowSpec == Init /\ [][RowNext]_vars
=============================================================================
