-------------------------- MODULE JaggedRowsProofs --------------------------
(***************************************************************************)
(* jagged::Array<T> implements RaggedRows, for every type of element and   *)
(* arrays of any size: the constructors, assignments and mutating methods, *)
(* the methods that make an array row by row, and the reductions.  And     *)
(* what holds of the storage holds with these methods too, whichever       *)
(* allocations fail.                                                       *)
(*                                                                         *)
(* First come the loops of the row methods, for rows of any length.  A     *)
(* loop of the model is a recursive function, and a recursive function is  *)
(* a CHOOSE.  For each there is a lemma, <loop>Loop, that says it is the   *)
(* function of its equation: TableExists gives one, and TableInvariant its *)
(* range.                                                                  *)
(***************************************************************************)
EXTENDS JaggedRowsRefinement, JaggedArrayProofs, Loops

-----------------------------------------------------------------------------
(***************************************************************************)
(* Vectors that are collected row by row.                                  *)
(***************************************************************************)
\* The vectors of values and of offsets, after some rows.
Collected == [values : Seq(Elements), offsets : Seq(Nat)]

LEMMA AddRowType ==
  ASSUME NEW b \in Collected, NEW row \in Seq(Elements)
  PROVE  /\ AddRow(b, row) \in Collected
         /\ AddRow(b, row).values = b.values \o row
         /\ AddRow(b, row).offsets = Append(b.offsets, Len(b.values \o row))
<1>1. b.values \in Seq(Elements) /\ b.offsets \in Seq(Nat)
  BY DEF Collected
<1>2. b.values \o row \in Seq(Elements) /\ Len(b.values) + Len(row) = Len(b.values \o row)
  BY <1>1
<1>3. Append(b.offsets, Len(b.values \o row)) \in Seq(Nat)
  BY <1>1, <1>2
<1> QED BY <1>2, <1>3 DEF Collected, AddRow

LEMMA BuiltLoop ==
  ASSUME NEW rows \in Seq(Seq(Elements))
  PROVE  /\ Built(rows) \in [0..Len(rows) -> Collected]
         /\ Built(rows)[0] = NoRows
         /\ \A k \in 1..Len(rows) : Built(rows)[k] = AddRow(Built(rows)[k-1], rows[k])
<1> DEFINE n == Len(rows)
           step == [k \in 1..n |-> [b \in Collected |-> AddRow(b, rows[k])]]
<1>1. n \in Nat /\ NoRows \in Collected
  BY DEF NoRows, Collected
<1>2. ASSUME NEW k \in 1..n, NEW b \in Collected PROVE AddRow(b, rows[k]) \in Collected
  BY AddRowType
<1>3. step \in [1..n -> [Collected -> Collected]]
  BY <1>2
<1>4. \A k \in 1..n, b \in Collected : step[k][b] = AddRow(b, rows[k])
  OBVIOUS
<1> HIDE DEF n, step
<1>5. PICK f : IsTable(f, Collected, NoRows, n, step)
  BY <1>1, <1>3, TableExists
<1>6. ASSUME NEW k \in 1..n PROVE f[k] = AddRow(f[k-1], rows[k])
  <2>1. f[k-1] \in Collected
    BY <1>1, <1>5 DEF IsTable
  <2> QED BY <1>4, <1>5, <2>1 DEF IsTable
<1>7. f = [k \in 0..n |-> IF k = 0 THEN NoRows ELSE AddRow(f[k-1], rows[k])]
  BY <1>1, <1>5, <1>6 DEF IsTable
<1>8. Built(rows) = [k \in 0..n |-> IF k = 0 THEN NoRows ELSE AddRow(Built(rows)[k-1], rows[k])]
  BY <1>7 DEF Built, n
<1>9. Built(rows)[0] = NoRows
  BY <1>1, <1>8
<1>10. ASSUME NEW k \in 1..n PROVE Built(rows)[k] = AddRow(Built(rows)[k-1], rows[k])
  BY <1>1, <1>8
<1>11. ASSUME NEW k \in 1..n, Built(rows)[k-1] \in Collected PROVE Built(rows)[k] \in Collected
  BY <1>2, <1>10, <1>11
<1>12. \A k \in 0..n : Built(rows)[k] \in Collected
  BY <1>1, <1>9, <1>11, TableInvariant
<1>13. Built(rows) \in [0..n -> Collected]
  BY <1>8, <1>12
<1> QED BY <1>9, <1>10, <1>13 DEF n

\* One element more of a sequence.
LEMMA PrefixAppend ==
  ASSUME NEW S, NEW s \in Seq(S), NEW k \in 1..Len(s)
  PROVE  SubSeq(s, 1, k) = Append(SubSeq(s, 1, k-1), s[k])
<1>1. /\ 1 \in Int /\ k \in Int /\ k - 1 \in Int
      /\ \A i \in 1..k : s[i] \in S
      /\ \A i \in 1..k-1 : s[i] \in S
  OBVIOUS
<1>2. /\ SubSeq(s, 1, k) \in Seq(S) /\ Len(SubSeq(s, 1, k)) = k
      /\ \A i \in 1..k : SubSeq(s, 1, k)[i] = s[i]
  <2>1. 1 <= k /\ k - 1 + 1 = k /\ \A i \in Int : 1 + i - 1 = i
    OBVIOUS
  <2> QED BY <1>1, <2>1, SubSeqProperties
<1>3. /\ SubSeq(s, 1, k-1) \in Seq(S) /\ Len(SubSeq(s, 1, k-1)) = k - 1
      /\ \A i \in 1..k-1 : SubSeq(s, 1, k-1)[i] = s[i]
  <2>1. (k - 1) - 1 + 1 = k - 1 /\ (1 <= k - 1 \/ k - 1 = 0) /\ \A i \in Int : 1 + i - 1 = i
    OBVIOUS
  <2> QED BY <1>1, <2>1, SubSeqProperties
<1> DEFINE p == SubSeq(s, 1, k-1)
<1>4. /\ Append(p, s[k]) \in Seq(S) /\ Len(Append(p, s[k])) = k
      /\ \A i \in 1..k-1 : Append(p, s[k])[i] = p[i]
      /\ Append(p, s[k])[k] = s[k]
  <2>1. p \in Seq(S) /\ Len(p) = k - 1 /\ s[k] \in S /\ (k - 1) + 1 = k
    BY <1>3
  <2> HIDE DEF p
  <2> QED BY <2>1, AppendProperties
<1>5. \A i \in 1..k : Append(p, s[k])[i] = SubSeq(s, 1, k)[i]
  <2> HIDE DEF p
  <2> QED BY <1>2, <1>3, <1>4 DEF p
<1> HIDE DEF p
<1>6. Append(p, s[k]) = SubSeq(s, 1, k)
  BY <1>2, <1>4, <1>5, SeqEqual
<1> QED BY <1>6 DEF p

\* The rows of the vectors that were collected are the rows they were collected of.
LEMMA BuiltRows ==
  ASSUME NEW rows \in Seq(Seq(Elements))
  PROVE  /\ Built(rows)[Len(rows)].values \in Seq(Elements)
         /\ Built(rows)[Len(rows)].offsets \in Seq(Nat)
         /\ ValidOffsets(Len(Built(rows)[Len(rows)].values), Built(rows)[Len(rows)].offsets)
         /\ RowsOf(Built(rows)[Len(rows)].values, Built(rows)[Len(rows)].offsets) = rows
<1> DEFINE v(k) == Built(rows)[k].values
           o(k) == Built(rows)[k].offsets
           Good(k) == /\ ValidOffsets(Len(v(k)), o(k))
                      /\ RowsOf(v(k), o(k)) = SubSeq(rows, 1, k)
           S == {k \in 0..Len(rows) : Good(k)}
<1>0. Len(rows) \in Nat
  OBVIOUS
<1>1. \A k \in 0..Len(rows) : v(k) \in Seq(Elements) /\ o(k) \in Seq(Nat)
  BY BuiltLoop DEF Collected
<1>2. 0 \in S
  <2>1. v(0) = <<>> /\ o(0) = <<0>>
    BY BuiltLoop DEF NoRows
  <2>2. SubSeq(rows, 1, 0) = <<>>
    BY SubSeqEmpty
  <2>3. ValidOffsets(Len(v(0)), o(0)) /\ RowsOf(v(0), o(0)) = SubSeq(rows, 1, 0)
    <3> HIDE DEF v, o
    <3> QED BY <2>1, <2>2, EmptyArray, RowsOfEmpty
  <2> HIDE DEF v, o
  <2> QED BY <1>0, <2>3
<1>3. ASSUME NEW k \in 1..Len(rows), k - 1 \in S PROVE k \in S
  <2>1. /\ k - 1 \in 0..Len(rows) /\ k \in 0..Len(rows) /\ Good(k-1) /\ rows[k] \in Seq(Elements)
    BY <1>3
  <2>2. /\ v(k) = v(k-1) \o rows[k]
        /\ o(k) = Append(o(k-1), Len(v(k-1) \o rows[k]))
    <3>1. Built(rows)[k-1] \in Collected /\ Built(rows)[k] = AddRow(Built(rows)[k-1], rows[k])
      BY <2>1, BuiltLoop
    <3> QED BY <2>1, <3>1, AddRowType
  <2> DEFINE w == v(k-1)
             p == o(k-1)
             r == rows[k]
  <2>3. w \in Seq(Elements) /\ p \in Seq(Nat) /\ r \in Seq(Elements) /\ ValidOffsets(Len(w), p)
    BY <1>1, <2>1
  <2>4. RowsOf(w, p) = SubSeq(rows, 1, k-1)
    BY <2>1
  <2>5. v(k) = w \o r /\ o(k) = Append(p, Len(w \o r))
    BY <2>2
  <2> HIDE DEF w, p, r, v, o
  <2>6. RowsOf(v(k), o(k)) = Append(RowsOf(w, p), r)
    BY <2>3, <2>5, RowsOfAppended
  <2>7. ValidOffsets(Len(v(k)), o(k))
    <3>1. w \o r \in Seq(Elements) /\ Len(w \o r) \in Nat /\ Len(w) \in Nat /\ Len(w) <= Len(w \o r)
      BY <2>3, ConcatProperties
    <3> QED BY <2>3, <2>5, <3>1, AppendValid
  <2>8. SubSeq(rows, 1, k) = Append(SubSeq(rows, 1, k-1), rows[k])
    BY PrefixAppend
  <2> QED BY <2>1, <2>4, <2>6, <2>7, <2>8 DEF r
<1> HIDE DEF S
<1>4. \A k \in 0..Len(rows) : k \in S
  BY <1>0, <1>2, <1>3, UpTo
<1>5. Len(rows) \in S
  BY <1>0, <1>4
<1>6. Good(Len(rows)) /\ Len(rows) \in 0..Len(rows)
  BY <1>5 DEF S
<1> HIDE DEF v, o
<1>7. SubSeq(rows, 1, Len(rows)) = rows
  BY SubSeqFull
<1> QED BY <1>1, <1>6, <1>7 DEF v, o

-----------------------------------------------------------------------------
(***************************************************************************)
(* Positions that are kept.                                                *)
(***************************************************************************)
LEMMA PickedLoop ==
  ASSUME NEW n \in Nat, NEW K \in SUBSET (1..n)
  PROVE  /\ Picked(K, n) \in [0..n -> Seq(K)]
         /\ Picked(K, n)[0] = <<>>
         /\ \A k \in 1..n : Picked(K, n)[k] = IF k \in K THEN Append(Picked(K, n)[k-1], k)
                                                        ELSE Picked(K, n)[k-1]
<1> DEFINE Pick(k, b) == IF k \in K THEN Append(b, k) ELSE b
           step == [k \in 1..n |-> [b \in Seq(K) |-> Pick(k, b)]]
           T == Seq(K)
<1>1. <<>> \in T
  OBVIOUS
<1>2. ASSUME NEW k \in 1..n, NEW b \in T PROVE Pick(k, b) \in T
  OBVIOUS
<1>3. step \in [1..n -> [T -> T]]
  BY <1>2
<1>4. \A k \in 1..n, b \in T : step[k][b] = Pick(k, b)
  OBVIOUS
<1> HIDE DEF step, T, Pick
<1>5. PICK f : IsTable(f, T, <<>>, n, step)
  BY <1>1, <1>3, TableExists
<1>6. ASSUME NEW k \in 1..n PROVE f[k] = Pick(k, f[k-1])
  <2>1. f[k-1] \in T
    BY <1>5 DEF IsTable
  <2> QED BY <1>4, <1>5, <2>1 DEF IsTable
<1>7. f = [k \in 0..n |-> IF k = 0 THEN <<>> ELSE Pick(k, f[k-1])]
  BY <1>5, <1>6 DEF IsTable
<1>8. Picked(K, n) = [k \in 0..n |-> IF k = 0 THEN <<>> ELSE Pick(k, Picked(K, n)[k-1])]
  BY <1>7 DEF Picked, Pick
<1>9. Picked(K, n)[0] = <<>>
  BY <1>8
<1>10. ASSUME NEW k \in 1..n PROVE Picked(K, n)[k] = Pick(k, Picked(K, n)[k-1])
  BY <1>8
<1>11. ASSUME NEW k \in 1..n, Picked(K, n)[k-1] \in T PROVE Picked(K, n)[k] \in T
  BY <1>2, <1>10, <1>11
<1>12. \A k \in 0..n : Picked(K, n)[k] \in T
  BY <1>1, <1>9, <1>11, TableInvariant
<1>13. Picked(K, n) \in [0..n -> T]
  BY <1>8, <1>12
<1> QED BY <1>9, <1>10, <1>13 DEF T, Pick

\* The k-th position that is picked is the one with k of K up to it.
LEMMA PickedNth ==
  ASSUME NEW n \in Nat, NEW K \in SUBSET (1..n)
  PROVE  /\ Picked(K, n)[n] \in Seq(K)
         /\ Len(Picked(K, n)[n]) = Cardinality(K)
         /\ \A k \in 1..Cardinality(K) :
              Picked(K, n)[n][k] = CHOOSE i \in K : Cardinality({j \in K : j <= i}) = k
<1> DEFINE p(m) == Picked(K, n)[m]
           c(m) == Cardinality(Below(K, m))
           Good(m) == /\ Len(p(m)) = c(m)
                      /\ \A k \in 1..c(m) : p(m)[k] \in K /\ c(p(m)[k]) = k
           S == {m \in 0..n : Good(m)}
<1>1. ASSUME NEW m \in 0..n PROVE p(m) \in Seq(K) /\ c(m) \in Nat
  <2>1. p(m) \in Seq(K)
    BY PickedLoop
  <2>2. c(m) \in Nat
    <3>1. m \in Int
      OBVIOUS
    <3> QED BY <3>1, BelowFinite
  <2> QED BY <2>1, <2>2
<1>2. 0 \in S
  <2>1. Below(K, 0) = {}
    <3>1. \A j \in K : ~(j <= 0)
      OBVIOUS
    <3> QED BY <3>1 DEF Below
  <2>2. c(0) = 0
    BY <2>1, FS_EmptySet
  <2>3. p(0) = <<>>
    BY PickedLoop
  <2> HIDE DEF p, c
  <2>4. Len(p(0)) = c(0) /\ 1..c(0) = {}
    BY <2>2, <2>3
  <2> QED BY <2>4
<1>3. ASSUME NEW m \in 1..n, m - 1 \in S PROVE m \in S
  <2>1. m - 1 \in 0..n /\ m \in 0..n /\ Good(m-1)
    BY <1>3
  <2> DEFINE q == p(m-1)
             d == c(m-1)
  <2>2. q \in Seq(K) /\ d \in Nat /\ Len(q) = d /\ \A k \in 1..d : q[k] \in K /\ c(q[k]) = k
    BY <1>1, <2>1
  <2>3. CASE m \in K
    <3>0. p(m) = Append(q, m)
      BY <2>3, PickedLoop
    <3>1. p(m) = Append(q, m) /\ c(m) = d + 1
      BY <2>3, <3>0, BelowStep
    <3> HIDE DEF q, d, c
    <3>2. /\ Len(Append(q, m)) = d + 1
          /\ \A k \in 1..d : Append(q, m)[k] = q[k]
          /\ Append(q, m)[d + 1] = m
      BY <2>2, <2>3, AppendProperties
    <3> HIDE DEF p
    <3>3. ASSUME NEW k \in 1..c(m) PROVE p(m)[k] \in K /\ c(p(m)[k]) = k
      <4>1. CASE k = d + 1
        BY <2>3, <3>1, <3>2, <4>1
      <4>2. CASE k # d + 1
        <5>1. k \in 1..d
          BY <2>2, <3>1, <4>2
        <5> QED BY <2>2, <3>1, <3>2, <5>1
      <4> QED BY <4>1, <4>2
    <3> QED BY <2>1, <3>1, <3>2, <3>3
  <2>4. CASE m \notin K
    <3>0. Below(K, m) = Below(K, m-1)
      BY <2>4, BelowStep
    <3>1. p(m) = q /\ Below(K, m) = Below(K, m-1)
      BY <2>4, <3>0, PickedLoop
    <3>2. c(m) = d
      BY <3>1
    <3> HIDE DEF p, q, d, c
    <3> QED BY <2>1, <2>2, <3>1, <3>2
  <2> QED BY <2>3, <2>4
<1> HIDE DEF S
<1>4. \A m \in 0..n : m \in S
  BY <1>2, <1>3, UpTo
<1>5. Good(n)
  <2>1. n \in S
    BY <1>4
  <2> QED BY <2>1 DEF S
<1>6. c(n) = Cardinality(K) /\ p(n) \in Seq(K)
  <2>1. Below(K, n) = K
    <3>1. \A j \in K : j <= n
      OBVIOUS
    <3> QED BY <3>1 DEF Below
  <2> QED BY <1>1, <2>1
<1>7. ASSUME NEW k \in 1..Cardinality(K)
      PROVE  p(n)[k] = CHOOSE i \in K : Cardinality({j \in K : j <= i}) = k
  <2>1. p(n)[k] \in K /\ c(p(n)[k]) = k
    BY <1>5, <1>6
  <2> DEFINE x == p(n)[k]
  <2>2. \A i \in K : c(i) = k <=> i = x
    <3> HIDE DEF p
    <3> QED BY <2>1, BelowInjective
  <2>3. (CHOOSE i \in K : c(i) = k) = x
    <3> HIDE DEF p, c, x
    <3> QED BY <2>1, <2>2 DEF x
  <2> HIDE DEF p, x
  <2> QED BY <2>3 DEF Below, x
<1> HIDE DEF p, c
<1> QED BY <1>5, <1>6, <1>7 DEF p

-----------------------------------------------------------------------------
(***************************************************************************)
(* Numbers that are added up, multiplied or picked.                        *)
(***************************************************************************)
LEMMA SumsLoop ==
  ASSUME NEW row \in Seq(Int)
  PROVE  /\ Sums(row) \in [0..Len(row) -> Int]
         /\ Sums(row)[0] = 0
         /\ \A k \in 1..Len(row) : Sums(row)[k] = Sums(row)[k-1] + row[k]
<1> DEFINE n == Len(row)
           Plus(k, b) == b + row[k]
           step == [k \in 1..n |-> [b \in Int |-> Plus(k, b)]]
<1>1. n \in Nat /\ 0 \in Int
  OBVIOUS
<1>2. ASSUME NEW k \in 1..n, NEW b \in Int PROVE Plus(k, b) \in Int
  <2>1. row[k] \in Int
    OBVIOUS
  <2> QED BY <2>1
<1>3. step \in [1..n -> [Int -> Int]]
  BY <1>2
<1>4. \A k \in 1..n, b \in Int : step[k][b] = Plus(k, b)
  OBVIOUS
<1> HIDE DEF n, step, Plus
<1>5. PICK f : IsTable(f, Int, 0, n, step)
  BY <1>1, <1>3, TableExists
<1>6. ASSUME NEW k \in 1..n PROVE f[k] = Plus(k, f[k-1])
  <2>1. f[k-1] \in Int
    BY <1>1, <1>5 DEF IsTable
  <2> QED BY <1>4, <1>5, <2>1 DEF IsTable
<1>7. f = [k \in 0..n |-> IF k = 0 THEN 0 ELSE Plus(k, f[k-1])]
  BY <1>1, <1>5, <1>6 DEF IsTable
<1>8. Sums(row) = [k \in 0..n |-> IF k = 0 THEN 0 ELSE Plus(k, Sums(row)[k-1])]
  BY <1>7 DEF Sums, Plus, n
<1>9. Sums(row)[0] = 0
  BY <1>1, <1>8
<1>10. ASSUME NEW k \in 1..n PROVE Sums(row)[k] = Plus(k, Sums(row)[k-1])
  BY <1>1, <1>8
<1>11. ASSUME NEW k \in 1..n, Sums(row)[k-1] \in Int PROVE Sums(row)[k] \in Int
  BY <1>2, <1>10, <1>11
<1>12. \A k \in 0..n : Sums(row)[k] \in Int
  BY <1>1, <1>9, <1>11, TableInvariant
<1>13. Sums(row) \in [0..n -> Int]
  BY <1>8, <1>12
<1> QED BY <1>9, <1>10, <1>13 DEF n, Plus

LEMMA ProductsLoop ==
  ASSUME NEW row \in Seq(Int)
  PROVE  /\ Products(row) \in [0..Len(row) -> Int]
         /\ Products(row)[0] = 1
         /\ \A k \in 1..Len(row) : Products(row)[k] = Products(row)[k-1] * row[k]
<1> DEFINE n == Len(row)
           Times(k, b) == b * row[k]
           step == [k \in 1..n |-> [b \in Int |-> Times(k, b)]]
<1>1. n \in Nat /\ 1 \in Int
  OBVIOUS
<1>2. ASSUME NEW k \in 1..n, NEW b \in Int PROVE Times(k, b) \in Int
  <2>1. row[k] \in Int
    OBVIOUS
  <2> QED BY <2>1
<1>3. step \in [1..n -> [Int -> Int]]
  BY <1>2
<1>4. \A k \in 1..n, b \in Int : step[k][b] = Times(k, b)
  OBVIOUS
<1> HIDE DEF n, step, Times
<1>5. PICK f : IsTable(f, Int, 1, n, step)
  BY <1>1, <1>3, TableExists
<1>6. ASSUME NEW k \in 1..n PROVE f[k] = Times(k, f[k-1])
  <2>1. f[k-1] \in Int
    BY <1>1, <1>5 DEF IsTable
  <2> QED BY <1>4, <1>5, <2>1 DEF IsTable
<1>7. f = [k \in 0..n |-> IF k = 0 THEN 1 ELSE Times(k, f[k-1])]
  BY <1>1, <1>5, <1>6 DEF IsTable
<1>8. Products(row) = [k \in 0..n |-> IF k = 0 THEN 1 ELSE Times(k, Products(row)[k-1])]
  BY <1>7 DEF Products, Times, n
<1>9. Products(row)[0] = 1
  BY <1>1, <1>8
<1>10. ASSUME NEW k \in 1..n PROVE Products(row)[k] = Times(k, Products(row)[k-1])
  BY <1>1, <1>8
<1>11. ASSUME NEW k \in 1..n, Products(row)[k-1] \in Int PROVE Products(row)[k] \in Int
  BY <1>2, <1>10, <1>11
<1>12. \A k \in 0..n : Products(row)[k] \in Int
  BY <1>1, <1>9, <1>11, TableInvariant
<1>13. Products(row) \in [0..n -> Int]
  BY <1>8, <1>12
<1> QED BY <1>9, <1>10, <1>13 DEF n, Times

LEMMA LeastOfLoop ==
  ASSUME NEW row \in Seq(Int), row # <<>>
  PROVE  /\ LeastOf(row) \in [0..Len(row) -> Int]
         /\ LeastOf(row)[0] = row[1]
         /\ \A k \in 1..Len(row) :
              LeastOf(row)[k] = IF row[k] < LeastOf(row)[k-1] THEN row[k] ELSE LeastOf(row)[k-1]
<1> DEFINE n == Len(row)
           Lower(k, b) == IF row[k] < b THEN row[k] ELSE b
           step == [k \in 1..n |-> [b \in Int |-> Lower(k, b)]]
<1>1. n \in Nat /\ row[1] \in Int
  OBVIOUS
<1>2. ASSUME NEW k \in 1..n, NEW b \in Int PROVE Lower(k, b) \in Int
  <2>1. row[k] \in Int
    OBVIOUS
  <2> QED BY <2>1
<1>3. step \in [1..n -> [Int -> Int]]
  BY <1>2
<1>4. \A k \in 1..n, b \in Int : step[k][b] = Lower(k, b)
  OBVIOUS
<1> HIDE DEF n, step, Lower
<1>5. PICK f : IsTable(f, Int, row[1], n, step)
  BY <1>1, <1>3, TableExists
<1>6. ASSUME NEW k \in 1..n PROVE f[k] = Lower(k, f[k-1])
  <2>1. f[k-1] \in Int
    BY <1>1, <1>5 DEF IsTable
  <2> QED BY <1>4, <1>5, <2>1 DEF IsTable
<1>7. f = [k \in 0..n |-> IF k = 0 THEN row[1] ELSE Lower(k, f[k-1])]
  BY <1>1, <1>5, <1>6 DEF IsTable
<1>8. LeastOf(row) = [k \in 0..n |-> IF k = 0 THEN row[1] ELSE Lower(k, LeastOf(row)[k-1])]
  BY <1>7 DEF LeastOf, Lower, n
<1>9. LeastOf(row)[0] = row[1]
  BY <1>1, <1>8
<1>10. ASSUME NEW k \in 1..n PROVE LeastOf(row)[k] = Lower(k, LeastOf(row)[k-1])
  BY <1>1, <1>8
<1>11. ASSUME NEW k \in 1..n, LeastOf(row)[k-1] \in Int PROVE LeastOf(row)[k] \in Int
  BY <1>2, <1>10, <1>11
<1>12. \A k \in 0..n : LeastOf(row)[k] \in Int
  BY <1>1, <1>9, <1>11, TableInvariant
<1>13. LeastOf(row) \in [0..n -> Int]
  BY <1>8, <1>12
<1> QED BY <1>9, <1>10, <1>13 DEF n, Lower

LEMMA GreatestOfLoop ==
  ASSUME NEW row \in Seq(Int), row # <<>>
  PROVE  /\ GreatestOf(row) \in [0..Len(row) -> Int]
         /\ GreatestOf(row)[0] = row[1]
         /\ \A k \in 1..Len(row) :
              GreatestOf(row)[k] = IF GreatestOf(row)[k-1] < row[k] THEN row[k] ELSE GreatestOf(row)[k-1]
<1> DEFINE n == Len(row)
           Higher(k, b) == IF b < row[k] THEN row[k] ELSE b
           step == [k \in 1..n |-> [b \in Int |-> Higher(k, b)]]
<1>1. n \in Nat /\ row[1] \in Int
  OBVIOUS
<1>2. ASSUME NEW k \in 1..n, NEW b \in Int PROVE Higher(k, b) \in Int
  <2>1. row[k] \in Int
    OBVIOUS
  <2> QED BY <2>1
<1>3. step \in [1..n -> [Int -> Int]]
  BY <1>2
<1>4. \A k \in 1..n, b \in Int : step[k][b] = Higher(k, b)
  OBVIOUS
<1> HIDE DEF n, step, Higher
<1>5. PICK f : IsTable(f, Int, row[1], n, step)
  BY <1>1, <1>3, TableExists
<1>6. ASSUME NEW k \in 1..n PROVE f[k] = Higher(k, f[k-1])
  <2>1. f[k-1] \in Int
    BY <1>1, <1>5 DEF IsTable
  <2> QED BY <1>4, <1>5, <2>1 DEF IsTable
<1>7. f = [k \in 0..n |-> IF k = 0 THEN row[1] ELSE Higher(k, f[k-1])]
  BY <1>1, <1>5, <1>6 DEF IsTable
<1>8. GreatestOf(row) = [k \in 0..n |-> IF k = 0 THEN row[1] ELSE Higher(k, GreatestOf(row)[k-1])]
  BY <1>7 DEF GreatestOf, Higher, n
<1>9. GreatestOf(row)[0] = row[1]
  BY <1>1, <1>8
<1>10. ASSUME NEW k \in 1..n PROVE GreatestOf(row)[k] = Higher(k, GreatestOf(row)[k-1])
  BY <1>1, <1>8
<1>11. ASSUME NEW k \in 1..n, GreatestOf(row)[k-1] \in Int PROVE GreatestOf(row)[k] \in Int
  BY <1>2, <1>10, <1>11
<1>12. \A k \in 0..n : GreatestOf(row)[k] \in Int
  BY <1>1, <1>9, <1>11, TableInvariant
<1>13. GreatestOf(row) \in [0..n -> Int]
  BY <1>8, <1>12
<1> QED BY <1>9, <1>10, <1>13 DEF n, Higher

-----------------------------------------------------------------------------
(***************************************************************************)
(* Sums and products, against the folds of RaggedRows over the set of the  *)
(* positions.                                                              *)
(***************************************************************************)
\* The elements at the positions s, and the neutral element elsewhere.
SumMasked(r, s) == [k \in 1..Len(r) |-> IF k \in s THEN r[k] ELSE 0]

LEMMA SumMaskedType ==
  ASSUME NEW r \in Seq(Int), NEW s
  PROVE  SumMasked(r, s) \in Seq(Int) /\ Len(SumMasked(r, s)) = Len(r)
<1>1. SumMasked(r, s) \in [1..Len(r) -> Int] /\ Len(r) \in Nat
  BY DEF SumMasked
<1> HIDE DEF SumMasked
<1> QED BY <1>1

\* To mask one position more takes its element out of the result.
LEMMA SumRemove ==
  ASSUME NEW r \in Seq(Int), NEW s \in SUBSET (1..Len(r)), NEW x \in s
  PROVE  Sums(SumMasked(r, s))[Len(r)] = r[x] + Sums(SumMasked(r, s \ {x}))[Len(r)]
<1> DEFINE n == Len(r)
           a == SumMasked(r, s)
           b == SumMasked(r, s \ {x})
           T == {k \in 0..n : Sums(a)[k] = (IF x <= k THEN r[x] ELSE 0) + Sums(b)[k]}
<1>1. /\ n \in Nat /\ x \in 1..n /\ r[x] \in Int
      /\ a \in Seq(Int) /\ Len(a) = n
      /\ b \in Seq(Int) /\ Len(b) = n
  BY SumMaskedType
<1>2. /\ a[x] = r[x] /\ b[x] = 0
      /\ \A k \in 1..n : k # x => a[k] = b[k]
      /\ \A k \in 1..n : a[k] \in Int /\ b[k] \in Int
  BY <1>1 DEF SumMasked
<1> HIDE DEF a, b, n
<1>3. /\ Sums(a) \in [0..n -> Int] /\ Sums(a)[0] = 0
      /\ \A k \in 1..n : Sums(a)[k] = Sums(a)[k-1] + a[k]
  BY <1>1, SumsLoop
<1>4. /\ Sums(b) \in [0..n -> Int] /\ Sums(b)[0] = 0
      /\ \A k \in 1..n : Sums(b)[k] = Sums(b)[k-1] + b[k]
  BY <1>1, SumsLoop
<1>5. 0 \in T
  BY <1>1, <1>3, <1>4
<1>6. ASSUME NEW k \in 1..n, k - 1 \in T PROVE k \in T
  <2> DEFINE p == Sums(a)[k-1]
             q == Sums(b)[k-1]
  <2>1. k \in 0..n /\ k - 1 \in 0..n
    BY <1>1
  <2>2. p \in Int /\ q \in Int /\ a[k] \in Int /\ b[k] \in Int /\ r[x] \in Int
    BY <1>1, <1>2, <1>3, <1>4, <2>1
  <2>3. Sums(a)[k] = p + a[k] /\ Sums(b)[k] = q + b[k]
    BY <1>3, <1>4
  <2>4. p = (IF x <= k-1 THEN r[x] ELSE 0) + q
    BY <1>6
  <2> HIDE DEF p, q
  <2>5. CASE x <= k - 1
    <3>1. x <= k /\ p = r[x] + q /\ a[k] = b[k]
      BY <1>1, <1>2, <2>1, <2>2, <2>3, <2>4, <2>5
    <3>2. (r[x] + q) + b[k] = r[x] + (q + b[k])
      BY <2>2
    <3> QED BY <2>1, <2>2, <2>3, <2>4, <3>1, <3>2
  <2>6. CASE x = k
    <3>1. x <= k /\ ~(x <= k - 1) /\ a[k] = r[x] /\ b[k] = 0
      BY <1>1, <1>2, <2>6
    <3>2. p = q /\ q + 0 = q /\ q + r[x] = r[x] + q
      BY <1>1, <2>1, <2>2, <2>3, <2>4, <3>1
    <3> QED BY <2>1, <2>2, <2>3, <2>4, <3>1, <3>2
  <2>7. CASE k < x
    <3>1. ~(x <= k) /\ ~(x <= k - 1) /\ a[k] = b[k]
      BY <1>1, <1>2, <2>7
    <3>2. p = q /\ 0 + (q + b[k]) = q + b[k]
      BY <2>1, <2>2, <2>3, <2>4, <3>1
    <3> QED BY <2>1, <2>2, <2>3, <2>4, <3>1, <3>2
  <2> QED BY <1>1, <2>5, <2>6, <2>7
<1> HIDE DEF T
<1>7. n \in T
  <2>1. \A k \in 0..n : k \in T
    BY <1>1, <1>5, <1>6, UpTo
  <2> QED BY <1>1, <2>1
<1>8. x <= n
  BY <1>1
<1> QED BY <1>7, <1>8 DEF T, a, b, n

LEMMA SumNothing ==
  ASSUME NEW r \in Seq(Int)
  PROVE  Sums(SumMasked(r, {}))[Len(r)] = 0
<1> DEFINE n == Len(r)
           a == SumMasked(r, {})
           T == {k \in 0..n : Sums(a)[k] = 0}
<1>1. n \in Nat /\ a \in Seq(Int) /\ Len(a) = n
  BY SumMaskedType
<1>2. \A k \in 1..n : a[k] = 0
  BY DEF SumMasked
<1> HIDE DEF a, n
<1>3. /\ Sums(a)[0] = 0
      /\ \A k \in 1..n : Sums(a)[k] = Sums(a)[k-1] + a[k]
  BY <1>1, SumsLoop
<1>4. 0 \in T /\ \A k \in 1..n : k - 1 \in T => k \in T
  BY <1>1, <1>2, <1>3
<1> HIDE DEF T
<1>5. n \in T
  <2>1. \A k \in 0..n : k \in T
    BY <1>1, <1>4, UpTo
  <2> QED BY <1>1, <2>1
<1> QED BY <1>5 DEF T, a, n

\* The loop computes what the fold over the set of the positions does, which
\* takes them in whatever order.
LEMMA SumIsFold ==
  ASSUME NEW r \in Seq(Int)
  PROVE  Sums(r)[Len(r)] = Ragged!Sum(r)
<1> DEFINE D == DOMAIN r
           F == [s \in SUBSET D |-> Sums(SumMasked(r, s))[Len(r)]]
           E(f) == [s \in SUBSET D |-> IF s = {} THEN 0
                                       ELSE LET x == CHOOSE y \in s : TRUE
                                            IN  r[x] + f[s \ {x}]]
           I == CHOOSE f : f = E(f)
<1>1. D = 1..Len(r)
  OBVIOUS
<1>2. F = E(F)
  <2>1. ASSUME NEW s \in SUBSET D, s # {}
        PROVE  F[s] = r[CHOOSE y \in s : TRUE] + F[s \ {CHOOSE y \in s : TRUE}]
    <3> DEFINE x == CHOOSE y \in s : TRUE
    <3>1. x \in s
      BY <2>1
    <3>2. s \in SUBSET (1..Len(r)) /\ s \ {x} \in SUBSET D
      BY <1>1
    <3> HIDE DEF x, D
    <3>3. Sums(SumMasked(r, s))[Len(r)] = r[x] + Sums(SumMasked(r, s \ {x}))[Len(r)]
      BY <3>1, <3>2, SumRemove
    <3> QED BY <3>2, <3>3 DEF x
  <2>2. F[{}] = 0
    BY SumNothing
  <2> HIDE DEF D
  <2>3. ASSUME NEW s \in SUBSET D
        PROVE  F[s] = IF s = {} THEN 0 ELSE r[CHOOSE y \in s : TRUE] + F[s \ {CHOOSE y \in s : TRUE}]
    <3> HIDE DEF F
    <3> QED BY <2>1, <2>2
  <2>4. F = [s \in SUBSET D |-> F[s]]
    OBVIOUS
  <2> HIDE DEF F
  <2> QED BY <2>3, <2>4
<1>3. I = E(I)
  <2> HIDE DEF F, E
  <2> QED BY <1>2
<1> HIDE DEF D
<1>4. \A s \in SUBSET D : I[s] = F[s]
  <2> DEFINE U == {s \in SUBSET D : I[s] # F[s]}
  <2> SUFFICES ASSUME U # {} PROVE FALSE
    OBVIOUS
  <2>1. IsFiniteSet(D)
    BY <1>1, FS_Interval
  <2>2. \A s \in U : IsFiniteSet(s)
    BY <2>1, FS_Subset
  <2>3. PICK s \in U : \A t \in U : t \subseteq s => t = s
    <3> HIDE DEF U
    <3> QED BY <2>2, MinimalSubset
  <2>4. s \in SUBSET D /\ I[s] # F[s]
    BY <2>3
  <2> DEFINE x == CHOOSE y \in s : TRUE
  <2>5. CASE s = {}
    <3>1. I[s] = 0 /\ F[s] = 0
      <4>1. E(I)[s] = 0 /\ E(F)[s] = 0
        BY <2>4, <2>5
      <4> HIDE DEF E, I, F
      <4> QED BY <1>2, <1>3, <4>1
    <3> HIDE DEF I, F
    <3> QED BY <2>4, <3>1
  <2>6. CASE s # {}
    <3>1. x \in s /\ s \ {x} \subseteq s /\ s \ {x} # s /\ s \ {x} \in SUBSET D
      BY <2>4, <2>6
    <3>2. I[s \ {x}] = F[s \ {x}]
      <4> HIDE DEF I, F, x
      <4> QED BY <2>3, <3>1
    <3>3. E(I)[s] = r[x] + I[s \ {x}] /\ E(F)[s] = r[x] + F[s \ {x}]
      <4> HIDE DEF I, F
      <4> QED BY <2>4, <2>6
    <3>4. I[s] = r[x] + I[s \ {x}] /\ F[s] = r[x] + F[s \ {x}]
      <4> HIDE DEF E, I, F, x
      <4> QED BY <1>2, <1>3, <3>3
    <3> HIDE DEF E, I, F, x
    <3> QED BY <2>4, <3>2, <3>4
  <2> QED BY <2>5, <2>6
<1>5. Ragged!Sum(r) = I[D]
  BY DEF Ragged!Sum, Ragged!FoldFunction, Ragged!FoldFunctionOnSet, Ragged!MapThenFoldSet, D
<1>6. F[D] = Sums(r)[Len(r)]
  <2>1. SumMasked(r, D) = r
    BY <1>1 DEF SumMasked
  <2>2. F[D] = Sums(SumMasked(r, D))[Len(r)]
    OBVIOUS
  <2> HIDE DEF F
  <2> QED BY <2>1, <2>2
<1> HIDE DEF F, I
<1> QED BY <1>4, <1>5, <1>6

\* The elements at the positions s, and the neutral element elsewhere.
ProductMasked(r, s) == [k \in 1..Len(r) |-> IF k \in s THEN r[k] ELSE 1]

LEMMA ProductMaskedType ==
  ASSUME NEW r \in Seq(Int), NEW s
  PROVE  ProductMasked(r, s) \in Seq(Int) /\ Len(ProductMasked(r, s)) = Len(r)
<1>1. ProductMasked(r, s) \in [1..Len(r) -> Int] /\ Len(r) \in Nat
  BY DEF ProductMasked
<1> HIDE DEF ProductMasked
<1> QED BY <1>1

\* To mask one position more takes its element out of the result.
LEMMA ProductRemove ==
  ASSUME NEW r \in Seq(Int), NEW s \in SUBSET (1..Len(r)), NEW x \in s
  PROVE  Products(ProductMasked(r, s))[Len(r)] = r[x] * Products(ProductMasked(r, s \ {x}))[Len(r)]
<1> DEFINE n == Len(r)
           a == ProductMasked(r, s)
           b == ProductMasked(r, s \ {x})
           T == {k \in 0..n : Products(a)[k] = (IF x <= k THEN r[x] ELSE 1) * Products(b)[k]}
<1>1. /\ n \in Nat /\ x \in 1..n /\ r[x] \in Int
      /\ a \in Seq(Int) /\ Len(a) = n
      /\ b \in Seq(Int) /\ Len(b) = n
  BY ProductMaskedType
<1>2. /\ a[x] = r[x] /\ b[x] = 1
      /\ \A k \in 1..n : k # x => a[k] = b[k]
      /\ \A k \in 1..n : a[k] \in Int /\ b[k] \in Int
  BY <1>1 DEF ProductMasked
<1> HIDE DEF a, b, n
<1>3. /\ Products(a) \in [0..n -> Int] /\ Products(a)[0] = 1
      /\ \A k \in 1..n : Products(a)[k] = Products(a)[k-1] * a[k]
  BY <1>1, ProductsLoop
<1>4. /\ Products(b) \in [0..n -> Int] /\ Products(b)[0] = 1
      /\ \A k \in 1..n : Products(b)[k] = Products(b)[k-1] * b[k]
  BY <1>1, ProductsLoop
<1>5. 0 \in T
  BY <1>1, <1>3, <1>4
<1>6. ASSUME NEW k \in 1..n, k - 1 \in T PROVE k \in T
  <2> DEFINE p == Products(a)[k-1]
             q == Products(b)[k-1]
  <2>1. k \in 0..n /\ k - 1 \in 0..n
    BY <1>1
  <2>2. p \in Int /\ q \in Int /\ a[k] \in Int /\ b[k] \in Int /\ r[x] \in Int
    BY <1>1, <1>2, <1>3, <1>4, <2>1
  <2>3. Products(a)[k] = p * a[k] /\ Products(b)[k] = q * b[k]
    BY <1>3, <1>4
  <2>4. p = (IF x <= k-1 THEN r[x] ELSE 1) * q
    BY <1>6
  <2> HIDE DEF p, q
  <2>5. CASE x <= k - 1
    <3>1. x <= k /\ p = r[x] * q /\ a[k] = b[k]
      BY <1>1, <1>2, <2>1, <2>2, <2>3, <2>4, <2>5
    <3>2. (r[x] * q) * b[k] = r[x] * (q * b[k])
      BY <2>2
    <3> QED BY <2>1, <2>2, <2>3, <2>4, <3>1, <3>2
  <2>6. CASE x = k
    <3>1. x <= k /\ ~(x <= k - 1) /\ a[k] = r[x] /\ b[k] = 1
      BY <1>1, <1>2, <2>6
    <3>2. p = q /\ q * 1 = q /\ q * r[x] = r[x] * q
      BY <1>1, <2>1, <2>2, <2>3, <2>4, <3>1
    <3> QED BY <2>1, <2>2, <2>3, <2>4, <3>1, <3>2
  <2>7. CASE k < x
    <3>1. ~(x <= k) /\ ~(x <= k - 1) /\ a[k] = b[k]
      BY <1>1, <1>2, <2>7
    <3>2. p = q /\ 1 * (q * b[k]) = q * b[k]
      BY <2>1, <2>2, <2>3, <2>4, <3>1
    <3> QED BY <2>1, <2>2, <2>3, <2>4, <3>1, <3>2
  <2> QED BY <1>1, <2>5, <2>6, <2>7
<1> HIDE DEF T
<1>7. n \in T
  <2>1. \A k \in 0..n : k \in T
    BY <1>1, <1>5, <1>6, UpTo
  <2> QED BY <1>1, <2>1
<1>8. x <= n
  BY <1>1
<1> QED BY <1>7, <1>8 DEF T, a, b, n

LEMMA ProductNothing ==
  ASSUME NEW r \in Seq(Int)
  PROVE  Products(ProductMasked(r, {}))[Len(r)] = 1
<1> DEFINE n == Len(r)
           a == ProductMasked(r, {})
           T == {k \in 0..n : Products(a)[k] = 1}
<1>1. n \in Nat /\ a \in Seq(Int) /\ Len(a) = n
  BY ProductMaskedType
<1>2. \A k \in 1..n : a[k] = 1
  BY DEF ProductMasked
<1> HIDE DEF a, n
<1>3. /\ Products(a)[0] = 1
      /\ \A k \in 1..n : Products(a)[k] = Products(a)[k-1] * a[k]
  BY <1>1, ProductsLoop
<1>4. 0 \in T /\ \A k \in 1..n : k - 1 \in T => k \in T
  BY <1>1, <1>2, <1>3
<1> HIDE DEF T
<1>5. n \in T
  <2>1. \A k \in 0..n : k \in T
    BY <1>1, <1>4, UpTo
  <2> QED BY <1>1, <2>1
<1> QED BY <1>5 DEF T, a, n

\* The loop computes what the fold over the set of the positions does, which
\* takes them in whatever order.
LEMMA ProductIsFold ==
  ASSUME NEW r \in Seq(Int)
  PROVE  Products(r)[Len(r)] = Ragged!FoldFunction(LAMBDA i, j : i * j, 1, r)
<1> DEFINE D == DOMAIN r
           F == [s \in SUBSET D |-> Products(ProductMasked(r, s))[Len(r)]]
           E(f) == [s \in SUBSET D |-> IF s = {} THEN 1
                                       ELSE LET x == CHOOSE y \in s : TRUE
                                            IN  r[x] * f[s \ {x}]]
           I == CHOOSE f : f = E(f)
<1>1. D = 1..Len(r)
  OBVIOUS
<1>2. F = E(F)
  <2>1. ASSUME NEW s \in SUBSET D, s # {}
        PROVE  F[s] = r[CHOOSE y \in s : TRUE] * F[s \ {CHOOSE y \in s : TRUE}]
    <3> DEFINE x == CHOOSE y \in s : TRUE
    <3>1. x \in s
      BY <2>1
    <3>2. s \in SUBSET (1..Len(r)) /\ s \ {x} \in SUBSET D
      BY <1>1
    <3> HIDE DEF x, D
    <3>3. Products(ProductMasked(r, s))[Len(r)] = r[x] * Products(ProductMasked(r, s \ {x}))[Len(r)]
      BY <3>1, <3>2, ProductRemove
    <3> QED BY <3>2, <3>3 DEF x
  <2>2. F[{}] = 1
    BY ProductNothing
  <2> HIDE DEF D
  <2>3. ASSUME NEW s \in SUBSET D
        PROVE  F[s] = IF s = {} THEN 1 ELSE r[CHOOSE y \in s : TRUE] * F[s \ {CHOOSE y \in s : TRUE}]
    <3> HIDE DEF F
    <3> QED BY <2>1, <2>2
  <2>4. F = [s \in SUBSET D |-> F[s]]
    OBVIOUS
  <2> HIDE DEF F
  <2> QED BY <2>3, <2>4
<1>3. I = E(I)
  <2> HIDE DEF F, E
  <2> QED BY <1>2
<1> HIDE DEF D
<1>4. \A s \in SUBSET D : I[s] = F[s]
  <2> DEFINE U == {s \in SUBSET D : I[s] # F[s]}
  <2> SUFFICES ASSUME U # {} PROVE FALSE
    OBVIOUS
  <2>1. IsFiniteSet(D)
    BY <1>1, FS_Interval
  <2>2. \A s \in U : IsFiniteSet(s)
    BY <2>1, FS_Subset
  <2>3. PICK s \in U : \A t \in U : t \subseteq s => t = s
    <3> HIDE DEF U
    <3> QED BY <2>2, MinimalSubset
  <2>4. s \in SUBSET D /\ I[s] # F[s]
    BY <2>3
  <2> DEFINE x == CHOOSE y \in s : TRUE
  <2>5. CASE s = {}
    <3>1. I[s] = 1 /\ F[s] = 1
      <4>1. E(I)[s] = 1 /\ E(F)[s] = 1
        BY <2>4, <2>5
      <4> HIDE DEF E, I, F
      <4> QED BY <1>2, <1>3, <4>1
    <3> HIDE DEF I, F
    <3> QED BY <2>4, <3>1
  <2>6. CASE s # {}
    <3>1. x \in s /\ s \ {x} \subseteq s /\ s \ {x} # s /\ s \ {x} \in SUBSET D
      BY <2>4, <2>6
    <3>2. I[s \ {x}] = F[s \ {x}]
      <4> HIDE DEF I, F, x
      <4> QED BY <2>3, <3>1
    <3>3. E(I)[s] = r[x] * I[s \ {x}] /\ E(F)[s] = r[x] * F[s \ {x}]
      <4> HIDE DEF I, F
      <4> QED BY <2>4, <2>6
    <3>4. I[s] = r[x] * I[s \ {x}] /\ F[s] = r[x] * F[s \ {x}]
      <4> HIDE DEF E, I, F, x
      <4> QED BY <1>2, <1>3, <3>3
    <3> HIDE DEF E, I, F, x
    <3> QED BY <2>4, <3>2, <3>4
  <2> QED BY <2>5, <2>6
<1>5. Ragged!FoldFunction(LAMBDA i, j : i * j, 1, r) = I[D]
  BY DEF Ragged!FoldFunction, Ragged!FoldFunctionOnSet, Ragged!MapThenFoldSet, D
<1>6. F[D] = Products(r)[Len(r)]
  <2>1. ProductMasked(r, D) = r
    BY <1>1 DEF ProductMasked
  <2>2. F[D] = Products(ProductMasked(r, D))[Len(r)]
    OBVIOUS
  <2> HIDE DEF F
  <2> QED BY <2>1, <2>2
<1> HIDE DEF F, I
<1> QED BY <1>4, <1>5, <1>6

-----------------------------------------------------------------------------
(***************************************************************************)
(* Reductions.                                                             *)
(***************************************************************************)
\* What min_element returns is an element, and below no other.
LEMMA LeastIsLeast ==
  ASSUME NEW row \in Seq(Int), row # <<>>
  PROVE  Ragged!IsLeast(Least(row), row)
<1> DEFINE n == Len(row)
           m == LeastOf(row)
           T == {k \in 0..n : /\ \E i \in 1..n : m[k] = row[i]
                              /\ \A i \in 1..k : m[k] <= row[i]}
<1>1. n \in Nat \ {0} /\ \A k \in 1..n : row[k] \in Int
  OBVIOUS
<1>2. /\ m \in [0..n -> Int] /\ m[0] = row[1]
      /\ \A k \in 1..n : m[k] = IF row[k] < m[k-1] THEN row[k] ELSE m[k-1]
  BY LeastOfLoop
<1> HIDE DEF n, m
<1>3. 0 \in T
  <2>1. 1 \in 1..n /\ 1..0 = {} /\ 0 \in 0..n
    BY <1>1
  <2> QED BY <1>2, <2>1
<1>4. ASSUME NEW k \in 1..n, k - 1 \in T PROVE k \in T
  <2>1. k \in 0..n /\ k - 1 \in 0..n /\ m[k-1] \in Int /\ m[k] \in Int /\ row[k] \in Int
    BY <1>1, <1>2
  <2>2. (\E i \in 1..n : m[k-1] = row[i]) /\ (\A i \in 1..k-1 : m[k-1] <= row[i])
    BY <1>4
  <2>3. m[k] = IF row[k] < m[k-1] THEN row[k] ELSE m[k-1]
    BY <1>2
  <2>4. \E i \in 1..n : m[k] = row[i]
    BY <2>2, <2>3
  <2>5. m[k] <= m[k-1] /\ m[k] <= row[k]
    BY <2>1, <2>3
  <2>6. ASSUME NEW i \in 1..k PROVE m[k] <= row[i]
    <3>1. i = k \/ i \in 1..k-1
      BY <1>1
    <3>2. row[i] \in Int
      BY <1>1
    <3>3. ASSUME i \in 1..k-1 PROVE m[k] <= row[i]
      <4>1. m[k-1] <= row[i]
        BY <2>2, <3>3
      <4> QED BY <2>1, <2>5, <3>2, <4>1
    <3> QED BY <2>5, <3>1, <3>3
  <2> QED BY <2>1, <2>4, <2>6
<1> HIDE DEF T
<1>5. n \in T
  <2>1. \A k \in 0..n : k \in T
    BY <1>1, <1>3, <1>4, UpTo
  <2> QED BY <1>1, <2>1
<1>6. DOMAIN row = 1..n
  BY DEF n
<1> QED BY <1>5, <1>6 DEF T, m, n, Least, Ragged!IsLeast

\* What max_element returns is an element, and above no other.
LEMMA GreatestIsGreatest ==
  ASSUME NEW row \in Seq(Int), row # <<>>
  PROVE  Ragged!IsLeast(-Greatest(row), [k \in DOMAIN row |-> -row[k]])
<1> DEFINE n == Len(row)
           m == GreatestOf(row)
           T == {k \in 0..n : /\ \E i \in 1..n : m[k] = row[i]
                              /\ \A i \in 1..k : row[i] <= m[k]}
<1>1. n \in Nat \ {0} /\ \A k \in 1..n : row[k] \in Int
  OBVIOUS
<1>2. /\ m \in [0..n -> Int] /\ m[0] = row[1]
      /\ \A k \in 1..n : m[k] = IF m[k-1] < row[k] THEN row[k] ELSE m[k-1]
  BY GreatestOfLoop
<1> HIDE DEF n, m
<1>3. 0 \in T
  <2>1. 1 \in 1..n /\ 1..0 = {} /\ 0 \in 0..n
    BY <1>1
  <2> QED BY <1>2, <2>1
<1>4. ASSUME NEW k \in 1..n, k - 1 \in T PROVE k \in T
  <2>1. k \in 0..n /\ k - 1 \in 0..n /\ m[k-1] \in Int /\ m[k] \in Int /\ row[k] \in Int
    BY <1>1, <1>2
  <2>2. (\E i \in 1..n : m[k-1] = row[i]) /\ (\A i \in 1..k-1 : row[i] <= m[k-1])
    BY <1>4
  <2>3. m[k] = IF m[k-1] < row[k] THEN row[k] ELSE m[k-1]
    BY <1>2
  <2>4. \E i \in 1..n : m[k] = row[i]
    BY <2>2, <2>3
  <2>5. m[k-1] <= m[k] /\ row[k] <= m[k]
    BY <2>1, <2>3
  <2>6. ASSUME NEW i \in 1..k PROVE row[i] <= m[k]
    <3>1. i = k \/ i \in 1..k-1
      BY <1>1
    <3>2. row[i] \in Int
      BY <1>1
    <3>3. ASSUME i \in 1..k-1 PROVE row[i] <= m[k]
      <4>1. row[i] <= m[k-1]
        BY <2>2, <3>3
      <4> QED BY <2>1, <2>5, <3>2, <4>1
    <3> QED BY <2>5, <3>1, <3>3
  <2> QED BY <2>1, <2>4, <2>6
<1> HIDE DEF T
<1>5. n \in T
  <2>1. \A k \in 0..n : k \in T
    BY <1>1, <1>3, <1>4, UpTo
  <2> QED BY <1>1, <2>1
<1>6. DOMAIN row = 1..n /\ n \in 0..n
  BY <1>1 DEF n
<1> DEFINE x == m[n]
           neg == [k \in DOMAIN row |-> -row[k]]
<1>7. x \in Int /\ (\E i \in 1..n : x = row[i]) /\ (\A i \in 1..n : row[i] <= x)
  BY <1>2, <1>5, <1>6 DEF T
<1>8. DOMAIN neg = 1..n /\ \A i \in 1..n : neg[i] = -row[i]
  BY <1>6
<1>9. (\E i \in 1..n : neg[i] = -x) /\ (\A i \in 1..n : -x <= neg[i])
  <2> HIDE DEF x, neg
  <2>1. \A i \in 1..n : row[i] <= x => -x <= -row[i]
    BY <1>1, <1>7
  <2> QED BY <1>7, <1>8, <2>1
<1>10. Greatest(row) = x
  BY DEF Greatest, m, n
<1> HIDE DEF x, neg
<1>11. Ragged!IsLeast(-x, neg)
  BY <1>8, <1>9 DEF Ragged!IsLeast
<1> QED BY <1>10, <1>11 DEF neg

\* The squares around the mean, against the sum of the squares.
LEMMA WholeSquares ==
  ASSUME NEW n \in Int, NEW s \in Int, NEW q \in Int
  PROVE  (n * n * q - 2 * n * s * s + n * (s * s)) * n * n = (n * q - s * s) * (n * n * n)
OBVIOUS

\* The squares that the loop of variance() adds up.
LEMMA VarianceLoop ==
  ASSUME NEW row \in Seq(Int)
  PROVE  Total(Squares(row)) * Len(row) * Len(row)
           = (Len(row) * Total([k \in DOMAIN row |-> row[k] * row[k]]) - Total(row) * Total(row))
               * (Len(row) * Len(row) * Len(row))
<1> DEFINE n == Len(row)
           s == Total(row)
           d == Squares(row)
           e == [k \in DOMAIN row |-> row[k] * row[k]]
           D(k) == Sums(d)[k]
           E(k) == Sums(e)[k]
           R(k) == Sums(row)[k]
           T == {k \in 0..n : D(k) = n * n * E(k) - 2 * n * s * R(k) + k * (s * s)}
<1>1. n \in Nat /\ DOMAIN row = 1..n /\ \A k \in 1..n : row[k] \in Int
  OBVIOUS
<1>2. R(0) = 0 /\ (\A k \in 0..n : R(k) \in Int) /\ \A k \in 1..n : R(k) = R(k-1) + row[k]
  BY SumsLoop
<1>3. s \in Int /\ s = R(n)
  BY <1>1, <1>2 DEF Total
<1> HIDE DEF n, s, R
<1>4. d \in [1..n -> Int] /\ \A k \in 1..n : d[k] = (n * row[k] - s) * (n * row[k] - s)
  BY <1>1, <1>3 DEF Squares, n, s
<1>5. e \in [1..n -> Int] /\ \A k \in 1..n : e[k] = row[k] * row[k]
  BY <1>1
<1> HIDE DEF d, e
<1>6. d \in Seq(Int) /\ Len(d) = n /\ e \in Seq(Int) /\ Len(e) = n
  BY <1>1, <1>4, <1>5, FunctionIsSeq
<1>7. D(0) = 0 /\ (\A k \in 0..n : D(k) \in Int) /\ \A k \in 1..n : D(k) = D(k-1) + d[k]
  BY <1>6, SumsLoop
<1>8. E(0) = 0 /\ (\A k \in 0..n : E(k) \in Int) /\ \A k \in 1..n : E(k) = E(k-1) + e[k]
  BY <1>6, SumsLoop
<1> HIDE DEF D, E
<1>9. 0 \in T
  <2>1. n * n * 0 - 2 * n * s * 0 + 0 * (s * s) = 0 /\ 0 \in 0..n
    BY <1>1, <1>3
  <2> QED BY <1>2, <1>7, <1>8, <2>1
<1>10. ASSUME NEW k \in 1..n, k - 1 \in T PROVE k \in T
  <2>1. k \in 0..n /\ k - 1 \in 0..n
    BY <1>1
  <2>2. E(k-1) \in Int /\ R(k-1) \in Int /\ row[k] \in Int /\ n \in Int /\ s \in Int /\ k \in Int
    BY <1>1, <1>2, <1>3, <1>8, <2>1
  <2>3. D(k-1) = n * n * E(k-1) - 2 * n * s * R(k-1) + (k - 1) * (s * s)
    BY <1>10
  <2>4. D(k) = n * n * E(k-1) - 2 * n * s * R(k-1) + (k - 1) * (s * s) + (n * row[k] - s) * (n * row[k] - s)
    <3>1. D(k) = D(k-1) + (n * row[k] - s) * (n * row[k] - s)
      BY <1>4, <1>7
    <3> QED BY <2>3, <3>1
  <2>5. n * n * E(k-1) - 2 * n * s * R(k-1) + (k - 1) * (s * s) + (n * row[k] - s) * (n * row[k] - s)
          = n * n * (E(k-1) + row[k] * row[k]) - 2 * n * s * (R(k-1) + row[k]) + k * (s * s)
    <3> DEFINE q == E(k-1)
               t == R(k-1)
               x == row[k]
    <3>1. q \in Int /\ t \in Int /\ x \in Int /\ n \in Int /\ s \in Int /\ k \in Int
      BY <2>2
    <3> HIDE DEF q, t, x
    <3>2. n * n * q - 2 * n * s * t + (k - 1) * (s * s) + (n * x - s) * (n * x - s)
            = n * n * (q + x * x) - 2 * n * s * (t + x) + k * (s * s)
      BY <3>1
    <3> QED BY <3>2 DEF q, t, x
  <2>6. E(k) = E(k-1) + row[k] * row[k] /\ R(k) = R(k-1) + row[k]
    BY <1>2, <1>5, <1>8
  <2>7. D(k) = n * n * E(k) - 2 * n * s * R(k) + k * (s * s)
    <3>1. D(k) = n * n * (E(k-1) + row[k] * row[k]) - 2 * n * s * (R(k-1) + row[k]) + k * (s * s)
      BY <2>4, <2>5
    <3> QED BY <2>6, <3>1
  <2> QED BY <2>1, <2>7
<1> HIDE DEF T
<1>11. n \in T
  <2>1. \A k \in 0..n : k \in T
    BY <1>1, <1>9, <1>10, UpTo
  <2> QED BY <1>1, <2>1
<1>12. D(n) = n * n * E(n) - 2 * n * s * s + n * (s * s)
  BY <1>3, <1>11 DEF T
<1>13. E(n) \in Int /\ n \in Int
  BY <1>1, <1>8
<1>14. (n * n * E(n) - 2 * n * s * s + n * (s * s)) * n * n = (n * E(n) - s * s) * (n * n * n)
  BY <1>3, <1>13, WholeSquares, Zenon
<1>15. D(n) * n * n = (n * E(n) - s * s) * (n * n * n)
  BY <1>12, <1>14, Zenon
<1>16. D(n) = Total(d) /\ E(n) = Total(e)
  BY <1>6 DEF D, E, Total
<1> QED BY <1>15, <1>16 DEF n, s, d, e

\* For a row of any length, the loops of sum to stddev end with the number that
\* the definition of the reduction singles out (jagged/array.hpp:280-382).
THEOREM ReductionIsReduction ==
  ASSUME NEW kind \in Reductions, NEW row \in Seq(Int)
  PROVE  Ragged!IsReduction(kind, Reduction(kind, row), row)
<1>1. CASE kind = "sum"
  BY <1>1, SumIsFold DEF Reduction, Ragged!IsReduction, Total
<1>2. CASE kind = "product"
  BY <1>2, ProductIsFold DEF Reduction, Ragged!IsReduction, Product
<1>3. CASE kind = "min"
  BY <1>3, LeastIsLeast DEF Reduction, Ragged!IsReduction
<1>4. CASE kind = "max"
  BY <1>4, GreatestIsGreatest DEF Reduction, Ragged!IsReduction
<1>5. CASE kind = "mean"
  BY <1>5, SumIsFold DEF Reduction, Ragged!IsReduction, Total
<1>6. CASE kind \in {"variance", "stddev"}
  <2> DEFINE e == [k \in DOMAIN row |-> row[k] * row[k]]
             n == Len(row)
  <2>1. Total(row) = Ragged!Sum(row) /\ Total(e) = Ragged!Sum(e)
    <3>1. e \in [1..n -> Int] /\ n \in Nat
      OBVIOUS
    <3> HIDE DEF e
    <3>2. e \in Seq(Int)
      BY <3>1
    <3> QED BY <3>2, SumIsFold DEF Total
  <2>2. Total(Squares(row)) * n * n = (n * Ragged!Sum(e) - Ragged!Sum(row) * Ragged!Sum(row)) * (n * n * n)
    BY <2>1, VarianceLoop
  <2> HIDE DEF n, e
  <2>3. CASE row = <<>>
    BY <1>6, <2>3 DEF Reduction, Ragged!IsReduction
  <2>4. CASE row # <<>>
    <3>1. Reduction(kind, row) = <<Total(Squares(row)), n * n * n>>
      BY <1>6, <2>4 DEF Reduction, n
    <3>2. LET x == Reduction(kind, row)
          IN  x[1] * n * n = (n * Ragged!Sum(e) - Ragged!Sum(row) * Ragged!Sum(row)) * x[2]
      BY <2>2, <3>1
    <3> HIDE DEF Ragged!Sum
    <3> QED BY <1>6, <2>4, <3>2 DEF Ragged!IsReduction, n, e
  <2> QED BY <2>3, <2>4
<1> QED BY <1>1, <1>2, <1>3, <1>4, <1>5, <1>6 DEF Reductions

-----------------------------------------------------------------------------
(***************************************************************************)
(* Rows that are sorted.                                                   *)
(***************************************************************************)
\* RaggedRows counts as this module does.
LEMMA SameCardinality ==
  ASSUME NEW T
  PROVE  Ragged!Cardinality(T) = Cardinality(T)
BY DEF Ragged!Cardinality, Cardinality

\* There is a permutation that sorts, and whichever is chosen the row is sorted
\* and has every element as often as before (jagged/array.hpp:262-278).
THEOREM SortedRowSorts ==
  ASSUME NEW R \in SUBSET Int, NEW row \in Seq(R)
  PROVE  /\ SortedRow(row) \in Seq(R)
         /\ Ragged!Sorted(SortedRow(row))
         /\ Ragged!SameElements(row, SortedRow(row))
<1> DEFINE D == DOMAIN row
           InOrder(p) == \A i, j \in D : i < j => row[p[i]] <= row[p[j]]
           order == CHOOSE p \in Bijection(D, D) : InOrder(p)
           t == SortedRow(row)
<1>1. Len(row) \in Nat /\ D = 1..Len(row) /\ row \in [1..Len(row) -> R]
  OBVIOUS
<1>2. row \in [1..Len(row) -> Int]
  BY <1>1
<1>3. \E p \in Bijection(D, D) : InOrder(p)
  <2> HIDE DEF D
  <2> QED BY <1>1, <1>2, OrderExists
<1>4. order \in Bijection(D, D) /\ InOrder(order)
  <2> HIDE DEF D, InOrder
  <2> QED BY <1>3
<1>5. t = [i \in D |-> row[order[i]]]
  BY DEF SortedRow
<1> HIDE DEF D, order, t
<1>6. /\ order \in [D -> D]
      /\ \A i, j \in D : order[i] = order[j] => i = j
      /\ \A i \in D : \E j \in D : order[j] = i
  BY <1>4, Fun_BijectionProperties
<1>7. t \in [1..Len(row) -> R] /\ DOMAIN t = D
  BY <1>1, <1>5, <1>6
<1>8. t \in Seq(R) /\ Len(t) = Len(row)
  BY <1>1, <1>7, FunctionIsSeq
<1>9. Ragged!Sorted(t)
  BY <1>4, <1>5, <1>7 DEF Ragged!Sorted
<1>10. ASSUME NEW v
       PROVE  Ragged!Count(row, v) = Ragged!Count(t, v)
  <2> DEFINE A == {j \in DOMAIN row : row[j] = v}
             B == {j \in DOMAIN t : t[j] = v}
             f == [j \in B |-> order[j]]
  <2>0. DOMAIN row = D /\ DOMAIN t = D
    BY <1>7 DEF D
  <2>1. IsFiniteSet(B)
    <3>1. IsFiniteSet(D) /\ B \subseteq D
      BY <1>1, <2>0, FS_Interval
    <3> QED BY <3>1, FS_Subset
  <2>2. \A j \in D : t[j] = row[order[j]]
    BY <1>5
  <2>3. f \in [B -> A]
    BY <1>6, <2>0, <2>2
  <2>4. \A i, j \in B : f[i] = f[j] => i = j
    BY <1>6, <2>0
  <2>5. \A i \in A : \E j \in B : f[j] = i
    BY <1>6, <2>0, <2>2
  <2> HIDE DEF A, B, f
  <2>6. f \in Bijection(B, A)
    BY <2>3, <2>4, <2>5 DEF Bijection, Injection, Surjection, IsInjective
  <2>7. Cardinality(A) = Cardinality(B)
    BY <2>1, <2>6, FS_Bijection DEF ExistsBijection
  <2>8. Ragged!Count(row, v) = Cardinality(A)
    BY SameCardinality, Zenon DEF A, Ragged!Count
  <2>9. Ragged!Count(t, v) = Cardinality(B)
    BY SameCardinality, Zenon DEF B, Ragged!Count
  <2> QED BY <2>7, <2>8, <2>9
<1>11. Ragged!SameElements(row, t)
  BY <1>8, <1>10 DEF Ragged!SameElements
<1> QED BY <1>8, <1>9, <1>11 DEF t

-----------------------------------------------------------------------------
(***************************************************************************)
(* Every step of Next is the step that RaggedRows demands of its call.     *)
(***************************************************************************)
LEMMA StoreDone ==
  ASSUME Typed, NEW h \in Handles, NEW v \in Seq(Elements), NEW o \in Seq(Nat),
         Store(h, v, o), live' = live \cup {h}, outcome' = "ok"
  PROVE  Ragged!Done(h, RowsOf(v, o))
<1>1. /\ values'[h] = v /\ offsets'[h] = o
      /\ \A g \in Handles \ {h} : values'[g] = values[g] /\ offsets'[g] = offsets[g]
  BY StoreEffect
<1>2. [g \in Handles |-> RowsOf(values'[g], offsets'[g])]
        = [[g \in Handles |-> RowsOf(values[g], offsets[g])] EXCEPT ![h] = RowsOf(v, o)]
  BY <1>1
<1> QED BY <1>2 DEF Ragged!Done

LEMMA ThrowRefused ==
  ASSUME NEW e, Throw(e)
  PROVE  Ragged!Refused(e)
BY DEF Throw, Report, Ragged!Refused

LEMMA MovedMove ==
  ASSUME Typed, NEW g \in Handles, NEW h \in Handles, g # h,
         Moved(g, h, << 0 >>), live' = live \cup {h}, outcome' = "ok"
  PROVE  Ragged!Move(g, h)
<1> DEFINE rows == [f \in Handles |-> RowsOf(values[f], offsets[f])]
<1>1. /\ values'[h] = values[g] /\ offsets'[h] = offsets[g]
      /\ values'[g] = <<>> /\ offsets'[g] = <<0>>
      /\ \A f \in Handles \ {g, h} : values'[f] = values[f] /\ offsets'[f] = offsets[f]
  BY MovedEffect, EmptyArray
<1>2. [f \in Handles |-> RowsOf(values'[f], offsets'[f])]
        = [rows EXCEPT ![h] = rows[g], ![g] = <<>>]
  BY <1>1, RowsOfEmpty
<1> QED BY <1>2 DEF Ragged!Move

LEMMA FlatDescribes ==
  ASSUME NEW v \in Seq(Elements), NEW o \in Seq(Nat), ValidOffsets(Len(v), o)
  PROVE  Ragged!Describe(v, o, RowsOf(v, o))
<1>1. Len(RowsOf(v, o)) = Len(o) - 1 /\ DOMAIN RowsOf(v, o) = 1..Len(o)-1
  BY RowsType DEF RowsOf
<1>2. ASSUME NEW i \in 1..Len(o)-1
      PROVE  /\ o[i+1] = o[i] + Len(RowsOf(v, o)[i])
             /\ \A j \in DOMAIN RowsOf(v, o)[i] : v[o[i] + j] = RowsOf(v, o)[i][j]
  <2>1. i \in 1..Len(o) /\ i + 1 \in 1..Len(o) /\ i <= i + 1
    OBVIOUS
  <2>2. o[i] \in Nat /\ o[i+1] \in Nat /\ o[i] <= o[i+1] /\ o[i+1] <= Len(v)
    BY <2>1, ValidIsReadable, AscendingAt DEF Readable
  <2> DEFINE a == o[i] + 1
             b == o[i+1]
             r == SubSeq(v, a, b)
  <2>3. RowsOf(v, o)[i] = r
    BY DEF RowsOf
  <2>4. a \in Int /\ b \in Int /\ \A k \in a..b : v[k] \in Elements
    BY <2>2
  <2>5. /\ r \in Seq(Elements)
        /\ Len(r) = IF a <= b THEN b - a + 1 ELSE 0
        /\ \A j \in 1..b-a+1 : r[j] = v[a + j - 1]
    <3> HIDE DEF a, b
    <3> QED BY <2>4, SubSeqProperties
  <2>6. Len(r) = b - a + 1 /\ b - a + 1 = o[i+1] - o[i]
    BY <2>2, <2>5
  <2>7. ASSUME NEW j \in DOMAIN r PROVE v[o[i] + j] = r[j]
    <3>1. j \in 1..b-a+1
      <4> HIDE DEF r
      <4> QED BY <2>5, <2>6
    <3>2. a + j - 1 = o[i] + j
      BY <2>2, <3>1
    <3> HIDE DEF r
    <3> QED BY <2>5, <3>1, <3>2
  <2> HIDE DEF r
  <2> QED BY <2>2, <2>3, <2>6, <2>7
<1> QED BY <1>1, <1>2 DEF Ragged!Describe

LEMMA SameOffsets ==
  ASSUME NEW o \in Seq(Nat), NEW n \in Nat
  PROVE  ValidOffsets(n, o) <=> Ragged!Offsets(o, n)
BY DEF ValidOffsets, Ascending, Ragged!Offsets

LEMMA FlatRefines ==
  ASSUME Typed, ~OutOfMemory, NEW h \in Handles,
         NEW v \in Vectors(Elements, MaxValues), NEW o \in OffsetVectors, FromFlat(h, v, o)
  PROVE  Ragged!FromFlat(h, v, o)
<1>1. v \in Seq(Elements) /\ Len(v) \in Nat /\ o \in Seq(Nat)
  BY InputTypes
<1>2. CASE ValidOffsets(Len(v), o)
  <2>1. Store(h, v, o) /\ live' = live \cup {h} /\ outcome' = "ok"
    BY <1>2 DEF FromFlat, Result, Deliver, Report, ThrowOutOfMemory
  <2>2. Ragged!Done(h, RowsOf(v, o))
    BY <1>1, <2>1, StoreDone
  <2>3. RowsOf(values'[h], offsets'[h]) = RowsOf(v, o)
    BY <1>1, <2>1, StoreEffect
  <2>4. Ragged!Describe(v, o, RowsOf(v, o)) /\ Ragged!Offsets(o, Len(v))
    BY <1>1, <1>2, FlatDescribes, SameOffsets
  <2> QED BY <2>2, <2>3, <2>4 DEF Ragged!FromFlat
<1>3. CASE ~ValidOffsets(Len(v), o)
  <2>1. Throw("invalid_argument")
    BY <1>3 DEF FromFlat, Result, ThrowOutOfMemory
  <2>2. ~Ragged!Offsets(o, Len(v))
    BY <1>1, <1>3, SameOffsets
  <2> QED BY <2>1, <2>2, ThrowRefused DEF Ragged!FromFlat
<1> QED BY <1>2, <1>3

LEMMA AppendRefines ==
  ASSUME Typed, live \subseteq Handles, OffsetsWellFormed, ~OutOfMemory,
         NEW h \in Handles, NEW row \in Vectors(Elements, MaxValues), AppendRow(h, row)
  PROVE  Ragged!AppendRow(h, row)
<1> DEFINE v == values[h]
           o == offsets[h]
           w == v \o row
           p == Append(o, Len(w))
<1>1. Store(h, w, p) /\ h \in live /\ live' = live \cup {h} /\ outcome' = "ok"
  BY DEF AppendRow, Report
<1>2. /\ v \in Seq(Elements) /\ row \in Seq(Elements) /\ o \in Seq(Nat)
      /\ ValidOffsets(Len(v), o)
  BY <1>1, InputTypes DEF Typed, OffsetsWellFormed, WellFormed
<1>3. w \in Seq(Elements) /\ p \in Seq(Nat)
  BY <1>2, ConcatProperties, AppendProperties
<1>4. Ragged!Done(h, RowsOf(w, p))
  <2> HIDE DEF w, p
  <2> QED BY <1>1, <1>3, StoreDone
<1>5. RowsOf(w, p) = Append(RowsOf(v, o), row)
  <2> HIDE DEF v, o
  <2> QED BY <1>2, RowsOfAppended
<1> HIDE DEF w, p
<1> QED BY <1>4, <1>5 DEF Ragged!AppendRow

LEMMA ConcatRefines ==
  ASSUME Typed, live \subseteq Handles, OffsetsWellFormed, ~OutOfMemory,
         NEW a \in Handles, NEW b \in Handles, NEW h \in Handles, ConcatRows(a, b, h)
  PROVE  Ragged!ConcatRows(a, b, h)
<1> DEFINE w == values[a] \o values[b]
           p == offsets[a] \o Shifted(offsets[b], Len(values[a]))
<1>1. Result(h, w, p) /\ a \in live /\ b \in live
  <2>1. {a, b} \subseteq live
    BY DEF ConcatRows
  <2>2. Joinable(a, b)
    BY <2>1 DEF Joinable, OffsetsWellFormed, WellFormed, ValidOffsets
  <2> QED BY <2>1, <2>2 DEF ConcatRows, Shifted
<1>2. w \in Seq(Elements) /\ p \in Seq(Nat)
  BY ConcatTypes
<1>3. /\ ValidOffsets(Len(w), p)
      /\ RowsOf(w, p) = RowsOf(values[a], offsets[a]) \o RowsOf(values[b], offsets[b])
  <2>1. /\ values[a] \in Seq(Elements) /\ offsets[a] \in Seq(Nat)
        /\ values[b] \in Seq(Elements) /\ offsets[b] \in Seq(Nat)
    BY DEF Typed
  <2>2. ValidOffsets(Len(values[a]), offsets[a]) /\ ValidOffsets(Len(values[b]), offsets[b])
    BY <1>1 DEF OffsetsWellFormed, WellFormed
  <2> QED BY <2>1, <2>2, RowsOfJoined
<1> HIDE DEF w, p
<1>4. Store(h, w, p) /\ live' = live \cup {h} /\ outcome' = "ok"
  BY <1>1, <1>3 DEF Result, Deliver, Report, ThrowOutOfMemory
<1>5. Ragged!Done(h, RowsOf(w, p))
  BY <1>2, <1>4, StoreDone
<1> QED BY <1>3, <1>5 DEF Ragged!ConcatRows

\* The calls of Next but append_row and concat_rows need no more than their guards.
PlainStep == call'.op \notin {"AppendRow", "ConcatRows"} /\ Ragged!Next

LEMMA StepCases ==
  ASSUME Typed, ~OutOfMemory, Next
  PROVE  \/ PlainStep
         \/ \E h \in Handles, row \in Vectors(Elements, MaxValues) : AppendRow(h, row)
         \/ \E a, b, h \in Handles : ConcatRows(a, b, h)
<1>1. ASSUME NEW h \in Handles, Default(h) PROVE PlainStep
  <2>1. Ragged!Done(h, <<>>)
    BY <1>1, StoreDone, EmptyArray, RowsOfEmpty DEF Default, ThrowOutOfMemory, Report
  <2>2. call'.op = "Default" /\ call'.to = h
    BY <1>1 DEF Default
  <2> QED BY <2>1, <2>2 DEF Ragged!Next, PlainStep
<1>2. ASSUME NEW h \in Handles, NEW v \in Vectors(Elements, MaxValues),
             NEW o \in OffsetVectors, FromFlat(h, v, o)
      PROVE  PlainStep
  <2>1. call'.op = "FromFlat" /\ call'.to = h /\ call'.values = v /\ call'.offsets = o
    BY <1>2 DEF FromFlat
  <2> QED BY <1>2, <2>1, FlatRefines DEF Ragged!Next, PlainStep
<1>3. ASSUME NEW h \in Handles, Clear(h) PROVE PlainStep
  <2>1. Store(h, <<>>, <<0>>) /\ live' = live \cup {h} /\ outcome' = "ok"
    BY <1>3 DEF Clear, Report
  <2>2. Ragged!Clear(h)
    BY <2>1, StoreDone, EmptyArray, RowsOfEmpty DEF Ragged!Clear
  <2>3. call'.op = "Clear" /\ call'.to = h
    BY <1>3 DEF Clear
  <2> QED BY <2>2, <2>3 DEF Ragged!Next, PlainStep
<1>4. ASSUME NEW h \in Handles, Reserve(h) PROVE PlainStep
  <2>1. Ragged!Refused("ok")
    BY <1>4, ThrowRefused DEF Reserve, ThrowOutOfMemory
  <2>2. call'.op = "Reserve"
    BY <1>4 DEF Reserve
  <2> QED BY <2>1, <2>2 DEF Ragged!Next, PlainStep
<1>5. ASSUME NEW h \in Handles, Destroy(h) PROVE PlainStep
  <2>1. [g \in Handles |-> RowsOf(values'[g], offsets'[g])]
          = [[g \in Handles |-> RowsOf(values[g], offsets[g])] EXCEPT ![h] = <<>>]
    <3>1. Store(h, <<>>, <<0>>)
      BY <1>5 DEF Destroy
    <3>2. /\ values'[h] = <<>> /\ offsets'[h] = <<0>>
          /\ \A g \in Handles \ {h} : values'[g] = values[g] /\ offsets'[g] = offsets[g]
      BY <3>1, StoreEffect, EmptyArray
    <3> QED BY <3>2, RowsOfEmpty
  <2>2. Ragged!Destroy(h)
    BY <1>5, <2>1 DEF Destroy, Report, Ragged!Destroy
  <2>3. call'.op = "Destroy" /\ call'.to = h
    BY <1>5 DEF Destroy
  <2> QED BY <2>2, <2>3 DEF Ragged!Next, PlainStep
<1>6. ASSUME NEW g \in Handles, NEW h \in Handles, CopyConstruct(g, h) \/ CopyAssign(g, h)
      PROVE  PlainStep
  <2>1. /\ Store(h, values[g], offsets[g])
        /\ live' = live \cup {h} /\ outcome' = "ok"
    BY <1>6 DEF CopyConstruct, CopyAssign, ThrowOutOfMemory, Report
  <2>2. Ragged!Copy(g, h)
    BY <2>1, StoreDone DEF Typed, Ragged!Copy
  <2>3. call'.op = "Copy" /\ call'.of = g /\ call'.to = h
    BY <1>6 DEF CopyConstruct, CopyAssign
  <2> QED BY <2>2, <2>3 DEF Ragged!Next, PlainStep
<1>7. ASSUME NEW g \in Handles, NEW h \in Handles, MoveAssign(g, h) \/ MoveConstruct(g, h)
      PROVE  PlainStep
  <2>1. Ragged!Move(g, h)
    <3>1. CASE g = h
      BY <1>7, <3>1 DEF MoveAssign, MoveConstruct, Throw, Report, Ragged!Move
    <3>2. CASE g # h
      BY <1>7, <3>2, MovedMove DEF MoveAssign, MoveConstruct, Report
    <3> QED BY <3>1, <3>2
  <2>2. call'.op = "Move" /\ call'.of = g /\ call'.to = h
    BY <1>7 DEF MoveAssign, MoveConstruct
  <2> QED BY <2>1, <2>2 DEF Ragged!Next, PlainStep
<1> QED BY <1>1, <1>2, <1>3, <1>4, <1>5, <1>6, <1>7 DEF Next

LEMMA StepRefines ==
  ASSUME Typed, live \subseteq Handles, OffsetsWellFormed, ~OutOfMemory, Next
  PROVE  Ragged!Next
<1>1. ASSUME NEW h \in Handles, NEW row \in Vectors(Elements, MaxValues), AppendRow(h, row)
      PROVE  Ragged!Next
  <2>1. call'.op = "AppendRow" /\ call'.to = h /\ call'.row = row
    BY <1>1 DEF AppendRow
  <2> QED BY <1>1, <2>1, AppendRefines DEF Ragged!Next
<1>2. ASSUME NEW a \in Handles, NEW b \in Handles, NEW h \in Handles, ConcatRows(a, b, h)
      PROVE  Ragged!Next
  <2>1. call'.op = "ConcatRows" /\ call'.of = a /\ call'.with = b /\ call'.to = h
    BY <1>2 DEF ConcatRows
  <2> QED BY <1>2, <2>1, ConcatRefines DEF Ragged!Next
<1> QED BY <1>1, <1>2, StepCases DEF PlainStep

-----------------------------------------------------------------------------
(***************************************************************************)
(* The row methods: each builds an array of these rows.                    *)
(***************************************************************************)
\* The rows of the array a.
RowList(a) == RowsOf(values[a], offsets[a])

\* A loop over the rows reads the rows of the array.
LEMMA RowsRead ==
  ASSUME Typed, NEW a \in Handles, Readable(values[a], offsets[a])
  PROVE  /\ Rows(a) \in Nat
         /\ RowList(a) \in Seq(Seq(Elements))
         /\ Len(RowList(a)) = Rows(a)
         /\ DOMAIN RowList(a) = 1..Rows(a)
         /\ AllRows(a) = RowList(a)
         /\ \A i \in 0..Rows(a)-1 : RowAt(a, i) = RowList(a)[i+1]
<1> DEFINE v == values[a]
           o == offsets[a]
<1>1. v \in Seq(Elements) /\ o \in Seq(Nat)
  BY DEF Typed
<1>2. /\ Rows(a) \in Nat
      /\ RowList(a) \in Seq(Seq(Elements))
      /\ Len(RowList(a)) = Rows(a)
  BY <1>1, ReadableRows DEF Rows, RowList
<1>3. DOMAIN RowList(a) = 1..Rows(a)
  BY DEF RowList, RowsOf, Rows
<1>4. ASSUME NEW i \in 0..Rows(a)-1 PROVE RowAt(a, i) = RowList(a)[i+1]
  <2>1. i + 1 \in 1..Len(o)-1 /\ (i + 1) + 1 = i + 2
    BY <1>2 DEF Rows
  <2>2. RowList(a)[i+1] = SubSeq(v, o[i+1] + 1, o[(i+1)+1])
    BY <2>1 DEF RowList, RowsOf
  <2> QED BY <2>1, <2>2 DEF RowAt, Start, Stop
<1>5. AllRows(a) = [k \in 1..Rows(a) |-> RowList(a)[k]]
  <2>1. ASSUME NEW k \in 1..Rows(a) PROVE RowAt(a, k-1) = RowList(a)[k]
    <3>1. k - 1 \in 0..Rows(a)-1 /\ (k - 1) + 1 = k
      BY <1>2
    <3> QED BY <1>4, <3>1
  <2> QED BY <2>1 DEF AllRows
<1>6. RowList(a) = [k \in 1..Rows(a) |-> RowList(a)[k]]
  BY <1>3 DEF RowList, RowsOf
<1> QED BY <1>2, <1>3, <1>4, <1>5, <1>6

\* What a method builds of its rows are the rows of the array it returns.
LEMMA BuildResult ==
  ASSUME NEW h \in Handles, NEW rs \in Seq(Seq(Elements)), Build(h, rs)
  PROVE  \E v \in Seq(Elements), o \in Seq(Nat) :
            /\ ValidOffsets(Len(v), o)
            /\ RowsOf(v, o) = rs
            /\ Result(h, v, o)
<1> DEFINE v == Built(rs)[Len(rs)].values
           o == Built(rs)[Len(rs)].offsets
<1>1. Result(h, v, o)
  BY DEF Build
<1>2. /\ v \in Seq(Elements) /\ o \in Seq(Nat)
      /\ ValidOffsets(Len(v), o) /\ RowsOf(v, o) = rs
  BY BuiltRows
<1> HIDE DEF v, o
<1> QED BY <1>1, <1>2

LEMMA BuildDone ==
  ASSUME Typed, ~OutOfMemory, NEW h \in Handles, NEW rs \in Seq(Seq(Elements)), Build(h, rs)
  PROVE  Ragged!Done(h, rs)
<1>1. PICK v \in Seq(Elements), o \in Seq(Nat) :
             ValidOffsets(Len(v), o) /\ RowsOf(v, o) = rs /\ Result(h, v, o)
  BY BuildResult
<1>2. Store(h, v, o) /\ live' = live \cup {h} /\ outcome' = "ok"
  BY <1>1 DEF Result, Deliver, Report, ThrowOutOfMemory
<1> QED BY <1>1, <1>2, StoreDone

\* Rows made of the rows of an array, one of each.
LEMMA RowwiseType ==
  ASSUME NEW n \in Nat, NEW S, NEW rs \in [1..n -> Seq(S)]
  PROVE  rs \in Seq(Seq(S)) /\ Len(rs) = n
OBVIOUS

\* from_rows, whose rows come from the caller.
LEMMA FromRowsBuilds ==
  ASSUME NEW h \in Handles, NEW rs \in RowVectors, FromRows(h, rs)
  PROVE  rs \in Seq(Seq(Elements)) /\ Build(h, rs)
<1>1. PICK k \in 0..MaxRows : rs \in [1..k -> Vectors(Elements, MaxValues)]
  BY DEF RowVectors, Vectors
<1>2. rs \in [1..k -> Seq(Elements)] /\ k \in Nat
  BY <1>1, InputTypes, MaxRowsAssumption
<1> QED BY <1>2, RowwiseType DEF FromRows

\* take_rows refuses an index that is no row's, and copies the others.
LEMMA TakeRowsBuilds ==
  ASSUME Typed, NEW a \in Handles, NEW h \in Handles,
         NEW indices \in Vectors(0..MaxRows, MaxRows), TakeRows(a, indices, h)
  PROVE  \/ /\ ~ \A k \in DOMAIN indices : indices[k] < Len(RowList(a))
            /\ Throw("out_of_range") \/ ThrowOutOfMemory
         \/ /\ \A k \in DOMAIN indices : indices[k] < Len(RowList(a))
            /\ [k \in DOMAIN indices |-> RowList(a)[indices[k] + 1]] \in Seq(Seq(Elements))
            /\ Build(h, [k \in DOMAIN indices |-> RowList(a)[indices[k] + 1]])
<1>1. PICK n \in 0..MaxRows : indices \in [1..n -> 0..MaxRows]
  BY DEF Vectors
<1>2. n \in Nat /\ DOMAIN indices = 1..n /\ \A k \in 1..n : indices[k] \in Nat
  BY <1>1, MaxRowsAssumption
<1>3. Readable(values[a], offsets[a])
  BY DEF TakeRows, Reads
<1>4. \A i \in Nat : RowAccepted(offsets[a], i) <=> i < Len(RowList(a))
  <2>1. offsets[a] # <<>> /\ Len(RowList(a)) = Len(offsets[a]) - 1
    BY <1>3, RowsRead DEF Readable, Rows
  <2> QED BY <2>1 DEF RowAccepted
<1>5. ASSUME \A k \in 1..n : indices[k] < Len(RowList(a))
      PROVE  /\ [k \in 1..n |-> RowAt(a, indices[k])] = [k \in 1..n |-> RowList(a)[indices[k] + 1]]
             /\ [k \in 1..n |-> RowList(a)[indices[k] + 1]] \in Seq(Seq(Elements))
  <2>1. ASSUME NEW k \in 1..n
        PROVE  /\ RowAt(a, indices[k]) = RowList(a)[indices[k] + 1]
               /\ RowList(a)[indices[k] + 1] \in Seq(Elements)
    <3>1. /\ Rows(a) \in Nat /\ Len(RowList(a)) = Rows(a)
          /\ RowList(a) \in Seq(Seq(Elements))
          /\ \A i \in 0..Rows(a)-1 : RowAt(a, i) = RowList(a)[i+1]
      BY <1>3, RowsRead
    <3>2. indices[k] \in 0..Rows(a)-1 /\ indices[k] + 1 \in 1..Len(RowList(a))
      BY <1>2, <1>5, <3>1
    <3>3. RowList(a)[indices[k] + 1] \in Seq(Elements)
      <4> DEFINE i == indices[k] + 1
      <4>1. i \in 1..Len(RowList(a))
        BY <3>2
      <4> HIDE DEF i
      <4>2. RowList(a)[i] \in Seq(Elements)
        BY <3>1, <4>1, ElementOfSeq
      <4> QED BY <4>2 DEF i
    <3> QED BY <3>1, <3>2, <3>3
  <2>2. [k \in 1..n |-> RowList(a)[indices[k] + 1]] \in [1..n -> Seq(Elements)]
    BY <2>1
  <2> QED BY <1>2, <2>1, <2>2, RowwiseType
<1>6. CASE \A k \in 1..n : indices[k] < Len(RowList(a))
  <2>1. \A k \in 1..n : RowAccepted(offsets[a], indices[k])
    BY <1>2, <1>4, <1>6
  <2>2. Build(h, [k \in 1..n |-> RowAt(a, indices[k])])
    BY <1>2, <2>1 DEF TakeRows
  <2> QED BY <1>2, <1>5, <1>6, <2>2
<1>7. CASE ~ \A k \in 1..n : indices[k] < Len(RowList(a))
  <2>1. ~ \A k \in 1..n : RowAccepted(offsets[a], indices[k])
    BY <1>2, <1>4, <1>7
  <2>2. Throw("out_of_range") \/ ThrowOutOfMemory
    BY <1>2, <2>1 DEF TakeRows
  <2> QED BY <1>2, <1>7, <2>2
<1> QED BY <1>6, <1>7

\* The positions that a loop keeps, and what it collects there.
LEMMA PickedElements ==
  ASSUME NEW S, NEW s \in Seq(S), NEW kept \in SUBSET (1..Len(s))
  PROVE  LET p       == Picked(kept, Len(s))[Len(s)]
             nth(k)  == CHOOSE i \in kept : Cardinality({j \in kept : j <= i}) = k
         IN  /\ [k \in DOMAIN p |-> s[p[k]]] = [k \in 1..Cardinality(kept) |-> s[nth(k)]]
             /\ [k \in DOMAIN p |-> s[p[k]]] \in Seq(S)
             /\ \A k \in DOMAIN p : p[k] \in 1..Len(s)
<1> DEFINE p      == Picked(kept, Len(s))[Len(s)]
           nth(k) == CHOOSE i \in kept : Cardinality({j \in kept : j <= i}) = k
           c      == Cardinality(kept)
<1>1. /\ p \in Seq(kept) /\ Len(p) = c
      /\ \A k \in 1..c : p[k] = nth(k)
  <2>1. Len(s) \in Nat
    OBVIOUS
  <2> QED BY <2>1, PickedNth, Zenon
<1> HIDE DEF p, nth, c
<1>2. DOMAIN p = 1..c /\ c \in Nat /\ \A k \in 1..c : p[k] \in kept
  BY <1>1
<1>3. \A k \in DOMAIN p : p[k] \in 1..Len(s)
  BY <1>2
<1>4. [k \in DOMAIN p |-> s[p[k]]] = [k \in 1..c |-> s[nth(k)]]
  BY <1>1, <1>2
<1>5. [k \in DOMAIN p |-> s[p[k]]] \in [1..c -> S]
  BY <1>2, <1>3
<1>6. [k \in DOMAIN p |-> s[p[k]]] \in Seq(S)
  BY <1>2, <1>5, FunctionIsSeq
<1> QED BY <1>3, <1>4, <1>6 DEF p, nth, c

\* The elements of s at the positions kept, in their order.
KeptOf(s, kept) ==
  LET nth(k) == CHOOSE i \in kept : Ragged!Cardinality({j \in kept : j <= i}) = k
  IN  [k \in 1..Ragged!Cardinality(kept) |-> s[nth(k)]]

\* The same, as RaggedRows counts.
LEMMA PickedAreKept ==
  ASSUME NEW S, NEW s \in Seq(S), NEW kept \in SUBSET (1..Len(s))
  PROVE  LET p == Picked(kept, Len(s))[Len(s)]
         IN  /\ [k \in DOMAIN p |-> s[p[k]]] = KeptOf(s, kept)
             /\ KeptOf(s, kept) \in Seq(S)
             /\ \A k \in DOMAIN p : p[k] \in 1..Len(s)
<1> DEFINE p      == Picked(kept, Len(s))[Len(s)]
           nth(k) == CHOOSE i \in kept : Cardinality({j \in kept : j <= i}) = k
<1>1. /\ [k \in DOMAIN p |-> s[p[k]]] = [k \in 1..Cardinality(kept) |-> s[nth(k)]]
      /\ [k \in DOMAIN p |-> s[p[k]]] \in Seq(S)
      /\ \A k \in DOMAIN p : p[k] \in 1..Len(s)
  BY PickedElements
<1>2. KeptOf(s, kept) = [k \in 1..Cardinality(kept) |-> s[nth(k)]]
  BY DEF KeptOf, Cardinality, Ragged!Cardinality
<1> HIDE DEF p, nth
<1>3. [k \in DOMAIN p |-> s[p[k]]] = KeptOf(s, kept)
  BY <1>1, <1>2
<1> QED BY <1>1, <1>3 DEF p

\* mask_rows refuses a mask of another length, and copies the rows it keeps.
LEMMA MaskRowsBuilds ==
  ASSUME Typed, NEW a \in Handles, NEW h \in Handles,
         NEW keep \in Vectors(BOOLEAN, MaxRows), MaskRows(a, keep, h)
  PROVE  LET rs   == RowList(a)
             kept == {i \in DOMAIN rs : keep[i]}
         IN  \/ Len(keep) # Len(rs) /\ Throw("invalid_argument")
             \/ /\ Len(keep) = Len(rs)
                /\ KeptOf(rs, kept) \in Seq(Seq(Elements))
                /\ Build(h, KeptOf(rs, kept))
<1> DEFINE rs   == RowList(a)
           n    == Rows(a)
           kept == {i \in 1..n : keep[i]}
           p    == Picked(kept, n)[n]
<1>1. /\ n \in Nat /\ rs \in Seq(Seq(Elements)) /\ Len(rs) = n /\ DOMAIN rs = 1..n
      /\ \A i \in 0..n-1 : RowAt(a, i) = rs[i+1]
  BY RowsRead DEF MaskRows, Reads
<1>2. kept = {i \in DOMAIN rs : keep[i]} /\ kept \in SUBSET (1..Len(rs))
  BY <1>1
<1>3. CASE Len(keep) # n
  <2>1. Throw("invalid_argument")
    BY <1>3 DEF MaskRows
  <2> HIDE DEF rs
  <2> QED BY <1>1, <1>3, <2>1 DEF rs
<1>4. CASE Len(keep) = n
  <2>1. Build(h, [k \in DOMAIN p |-> RowAt(a, p[k] - 1)])
    BY <1>4 DEF MaskRows
  <2> HIDE DEF rs, n, kept
  <2>2. /\ [k \in DOMAIN p |-> rs[p[k]]] = KeptOf(rs, kept)
        /\ KeptOf(rs, kept) \in Seq(Seq(Elements))
        /\ \A k \in DOMAIN p : p[k] \in 1..n
    BY <1>1, <1>2, PickedAreKept
  <2> HIDE DEF p
  <2>3. ASSUME NEW k \in DOMAIN p PROVE RowAt(a, p[k] - 1) = rs[p[k]]
    <3>1. p[k] \in 1..n /\ p[k] - 1 \in 0..n-1 /\ (p[k] - 1) + 1 = p[k]
      BY <1>1, <2>2
    <3> QED BY <1>1, <3>1
  <2>4. [k \in DOMAIN p |-> RowAt(a, p[k] - 1)] = KeptOf(rs, kept)
    BY <2>2, <2>3
  <2>5. Build(h, KeptOf(rs, kept)) /\ KeptOf(rs, kept) \in Seq(Seq(Elements)) /\ Len(keep) = Len(rs)
    BY <1>1, <1>4, <2>1, <2>2, <2>4
  <2>6. Build(h, KeptOf(rs, {i \in DOMAIN rs : keep[i]})) /\ KeptOf(rs, {i \in DOMAIN rs : keep[i]}) \in Seq(Seq(Elements))
    BY <1>2, <2>5
  <2> QED BY <2>5, <2>6 DEF rs
<1> QED BY <1>3, <1>4

\* A method that makes a row of every row.
LEMMA EveryRow ==
  ASSUME Typed, NEW a \in Handles, Reads(a)
  PROVE  /\ Rows(a) \in Nat
         /\ DOMAIN RowList(a) = 1..Rows(a)
         /\ AllRows(a) = RowList(a)
         /\ \A i \in 1..Rows(a) : RowList(a)[i] \in Seq(Elements)
<1>1. /\ Rows(a) \in Nat
      /\ RowList(a) \in Seq(Seq(Elements)) /\ Len(RowList(a)) = Rows(a)
      /\ DOMAIN RowList(a) = 1..Rows(a)
      /\ AllRows(a) = RowList(a)
  BY RowsRead DEF Reads
<1> QED BY <1>1, ElementOfSeq

\* sort_rows builds rows that are in order and hold the same elements.
LEMMA SortRowsBuilds ==
  ASSUME Typed, NEW a \in Handles, NEW h \in Handles, SortRows(a, h)
  PROVE  LET rs == RowList(a)
         IN  \E sorted \in Seq(Seq(Elements)) :
               /\ Len(sorted) = Len(rs)
               /\ \A i \in DOMAIN rs : /\ Ragged!Sorted(sorted[i])
                                       /\ Ragged!SameElements(rs[i], sorted[i])
               /\ Build(h, sorted)
<1> DEFINE rs == RowList(a)
           n  == Rows(a)
           sorted == [i \in 1..n |-> SortedRow(rs[i])]
<1>1. n \in Nat /\ DOMAIN rs = 1..n /\ AllRows(a) = rs /\ \A i \in 1..n : rs[i] \in Seq(Elements)
  BY EveryRow DEF SortRows
<1>2. Build(h, sorted)
  BY <1>1 DEF SortRows
<1>3. ASSUME NEW i \in 1..n
      PROVE  /\ SortedRow(rs[i]) \in Seq(Elements)
             /\ Ragged!Sorted(SortedRow(rs[i]))
             /\ Ragged!SameElements(rs[i], SortedRow(rs[i]))
  <2>1. Elements \in SUBSET Int
    BY ElementsAssumption
  <2> HIDE DEF rs
  <2> QED BY <1>1, <2>1, SortedRowSorts
<1> HIDE DEF rs, n
<1>4. sorted \in Seq(Seq(Elements)) /\ Len(sorted) = n
  <2>1. sorted \in [1..n -> Seq(Elements)]
    BY <1>3
  <2> HIDE DEF sorted
  <2> QED BY <1>1, <2>1, RowwiseType
<1>5. Len(rs) = n
  <2>1. RowList(a) \in Seq(Seq(Elements)) /\ Len(RowList(a)) = Rows(a)
    BY RowsRead DEF SortRows, Reads
  <2> QED BY <2>1 DEF rs, n
<1>6. \A i \in DOMAIN rs : Ragged!Sorted(sorted[i]) /\ Ragged!SameElements(rs[i], sorted[i])
  BY <1>1, <1>3
<1> HIDE DEF sorted
<1> QED BY <1>2, <1>4, <1>5, <1>6 DEF rs

\* A row of is_none.
MissingOf(row) == [k \in DOMAIN row |-> IF row[k] = Nullopt THEN 1 ELSE 0]

LEMMA IsNoneBuilds ==
  ASSUME Typed, NEW a \in Handles, NEW h \in Handles, IsNone(a, h)
  PROVE  LET rs == RowList(a)
         IN  /\ [i \in DOMAIN rs |-> MissingOf(rs[i])] \in Seq(Seq(Elements))
             /\ Build(h, [i \in DOMAIN rs |-> MissingOf(rs[i])])
<1> DEFINE rs == RowList(a)
           n  == Rows(a)
           m  == [i \in 1..n |-> MissingOf(rs[i])]
<1>1. n \in Nat /\ DOMAIN rs = 1..n /\ AllRows(a) = rs /\ \A i \in 1..n : rs[i] \in Seq(Elements)
  BY EveryRow DEF IsNone
<1>2. Build(h, m)
  BY <1>1 DEF IsNone, MissingOf
<1>3. ASSUME NEW row \in Seq(Elements) PROVE MissingOf(row) \in Seq(Elements)
  <2>1. MissingOf(row) \in [1..Len(row) -> Elements] /\ Len(row) \in Nat
    BY ElementsAssumption DEF MissingOf
  <2> QED BY <2>1, FunctionIsSeq
<1> HIDE DEF rs, n
<1>4. m \in Seq(Seq(Elements))
  <2>1. m \in [1..n -> Seq(Elements)]
    BY <1>1, <1>3
  <2> HIDE DEF m
  <2> QED BY <1>1, <2>1, RowwiseType
<1> QED BY <1>1, <1>2, <1>4 DEF rs

\* A row of drop_none.
PresentOf(row) == KeptOf(row, {k \in DOMAIN row : row[k] # Nullopt})

LEMMA DropNoneBuilds ==
  ASSUME Typed, NEW a \in Handles, NEW h \in Handles, DropNone(a, h)
  PROVE  LET rs == RowList(a)
         IN  /\ [i \in DOMAIN rs |-> PresentOf(rs[i])] \in Seq(Seq(Elements))
             /\ Build(h, [i \in DOMAIN rs |-> PresentOf(rs[i])])
<1> DEFINE rs == RowList(a)
           n  == Rows(a)
           present(row) == Picked({k \in DOMAIN row : row[k] # Nullopt}, Len(row))[Len(row)]
           values_of(row) == [k \in DOMAIN present(row) |-> row[present(row)[k]]]
           m  == [i \in 1..n |-> values_of(rs[i])]
<1>1. n \in Nat /\ DOMAIN rs = 1..n /\ AllRows(a) = rs /\ \A i \in 1..n : rs[i] \in Seq(Elements)
  BY EveryRow DEF DropNone
<1>2. Build(h, m)
  BY <1>1 DEF DropNone
<1>3. ASSUME NEW row \in Seq(Elements)
      PROVE  values_of(row) = PresentOf(row) /\ PresentOf(row) \in Seq(Elements)
  <2> DEFINE kept == {k \in DOMAIN row : row[k] # Nullopt}
             p    == Picked(kept, Len(row))[Len(row)]
  <2>1. kept \in SUBSET (1..Len(row))
    OBVIOUS
  <2> HIDE DEF kept
  <2>2. [k \in DOMAIN p |-> row[p[k]]] = KeptOf(row, kept) /\ KeptOf(row, kept) \in Seq(Elements)
    BY <2>1, PickedAreKept
  <2> QED BY <2>2 DEF PresentOf, kept
<1> HIDE DEF rs, n, values_of
<1>4. m = [i \in 1..n |-> PresentOf(rs[i])]
  BY <1>1, <1>3
<1> DEFINE q == [i \in 1..n |-> PresentOf(rs[i])]
<1>5. q \in Seq(Seq(Elements))
  <2>1. q \in [1..n -> Seq(Elements)]
    BY <1>1, <1>3
  <2> HIDE DEF q
  <2> QED BY <1>1, <2>1, RowwiseType
<1> HIDE DEF m
<1> QED BY <1>1, <1>2, <1>4, <1>5 DEF rs

\* A row of pad_none.
PaddedOf(row, target) ==
  [k \in 1..(IF Len(row) < target THEN target ELSE Len(row)) |->
     IF k <= Len(row) THEN row[k] ELSE Nullopt]

LEMMA PadNoneBuilds ==
  ASSUME Typed, NEW a \in Handles, NEW target \in 0..MaxValues, NEW h \in Handles,
         PadNone(a, target, h)
  PROVE  LET rs == RowList(a)
         IN  /\ [i \in DOMAIN rs |-> PaddedOf(rs[i], target)] \in Seq(Seq(Elements))
             /\ Build(h, [i \in DOMAIN rs |-> PaddedOf(rs[i], target)])
<1> DEFINE rs == RowList(a)
           n  == Rows(a)
           pad(row) == IF Len(row) < target
                       THEN row \o [k \in 1..target - Len(row) |-> Nullopt]
                       ELSE row
           m  == [i \in 1..n |-> pad(rs[i])]
<1>1. n \in Nat /\ DOMAIN rs = 1..n /\ AllRows(a) = rs /\ \A i \in 1..n : rs[i] \in Seq(Elements)
  BY EveryRow DEF PadNone
<1>2. Build(h, m)
  BY <1>1 DEF PadNone
<1>3. ASSUME NEW row \in Seq(Elements)
      PROVE  pad(row) = PaddedOf(row, target) /\ PaddedOf(row, target) \in Seq(Elements)
  <2> DEFINE l == Len(row)
  <2>1. l \in Nat /\ target \in Nat /\ Nullopt \in Elements
    BY MaxValuesAssumption, ElementsAssumption
  <2>2. CASE l < target
    <3> DEFINE tail == [k \in 1..target - l |-> Nullopt]
               all  == [k \in 1..target |-> IF k <= l THEN row[k] ELSE Nullopt]
    <3>1. tail \in Seq(Elements) /\ Len(tail) = target - l
      <4>1. tail \in [1..target - l -> Elements] /\ target - l \in Nat
        BY <2>1, <2>2
      <4> HIDE DEF tail
      <4> QED BY <4>1, FunctionIsSeq
    <3>2. all \in Seq(Elements) /\ Len(all) = target
      <4>1. all \in [1..target -> Elements]
        BY <2>1
      <4> HIDE DEF all
      <4> QED BY <2>1, <4>1, FunctionIsSeq
    <3>3. /\ row \o tail \in Seq(Elements) /\ Len(row \o tail) = target
          /\ \A k \in 1..target : (row \o tail)[k] = IF k <= l THEN row[k] ELSE tail[k - l]
      <4> HIDE DEF tail
      <4>1. l + (target - l) = target
        BY <2>1
      <4> QED BY <3>1, <4>1, ConcatProperties
    <3>4. \A k \in 1..target : (row \o tail)[k] = all[k]
      <4>1. ASSUME NEW k \in 1..target, ~(k <= l) PROVE tail[k - l] = Nullopt
        <5>1. k - l \in 1..target - l
          BY <2>1, <4>1
        <5> QED BY <5>1
      <4> HIDE DEF tail
      <4> QED BY <3>3, <4>1
    <3> HIDE DEF tail, all
    <3>5. row \o tail = all
      BY <2>1, <3>2, <3>3, <3>4, SeqEqual
    <3>6. PaddedOf(row, target) = all
      BY <2>2 DEF PaddedOf, all
    <3> QED BY <2>2, <3>2, <3>5, <3>6 DEF tail
  <2>3. CASE ~(l < target)
    <3>1. PaddedOf(row, target) = [k \in 1..l |-> row[k]]
      BY <2>1, <2>3 DEF PaddedOf
    <3>2. row = [k \in 1..l |-> row[k]]
      OBVIOUS
    <3> QED BY <2>3, <3>1, <3>2
  <2> QED BY <2>2, <2>3
<1> HIDE DEF rs, n, pad
<1>4. m = [i \in 1..n |-> PaddedOf(rs[i], target)]
  BY <1>1, <1>3
<1> DEFINE q == [i \in 1..n |-> PaddedOf(rs[i], target)]
<1>5. q \in Seq(Seq(Elements))
  <2>1. q \in [1..n -> Seq(Elements)]
    BY <1>1, <1>3
  <2> HIDE DEF q
  <2> QED BY <1>1, <2>1, RowwiseType
<1> HIDE DEF m
<1> QED BY <1>1, <1>2, <1>4, <1>5 DEF rs

\* A row of fill_none, and its whole vector of values.
FilledOf(row, fill) == [k \in DOMAIN row |-> IF row[k] = Nullopt THEN fill ELSE row[k]]

LEMMA FilledType ==
  ASSUME NEW v \in Seq(Elements), NEW fill \in Elements
  PROVE  FilledOf(v, fill) \in Seq(Elements) /\ Len(FilledOf(v, fill)) = Len(v)
<1>1. FilledOf(v, fill) \in [1..Len(v) -> Elements] /\ Len(v) \in Nat
  BY DEF FilledOf
<1> QED BY <1>1, FunctionIsSeq

\* To fill the values is to fill every row.
LEMMA FilledRows ==
  ASSUME NEW v \in Seq(Elements), NEW o \in Seq(Nat), ValidOffsets(Len(v), o), NEW fill \in Elements
  PROVE  RowsOf(FilledOf(v, fill), o) = [i \in DOMAIN RowsOf(v, o) |-> FilledOf(RowsOf(v, o)[i], fill)]
<1> DEFINE w == FilledOf(v, fill)
<1>1. w \in Seq(Elements) /\ Len(w) = Len(v) /\ \A k \in 1..Len(v) : w[k] = IF v[k] = Nullopt THEN fill ELSE v[k]
  BY FilledType DEF FilledOf
<1> HIDE DEF w
<1>2. Len(o) \in Nat /\ Len(o) - 1 \in Nat
  BY DEF ValidOffsets
<1>3. ASSUME NEW i \in 1..Len(o)-1
      PROVE  SubSeq(w, o[i] + 1, o[i+1]) = FilledOf(SubSeq(v, o[i] + 1, o[i+1]), fill)
  <2> DEFINE a == o[i] + 1
             b == o[i+1]
             r == SubSeq(v, a, b)
             s == SubSeq(w, a, b)
  <2>1. i \in 1..Len(o) /\ i + 1 \in 1..Len(o) /\ i <= i + 1
    BY <1>2
  <2>2. o[i] \in Nat /\ o[i+1] \in Nat /\ o[i] <= o[i+1] /\ o[i+1] <= Len(v)
    BY <2>1, ValidIsReadable, AscendingAt DEF Readable
  <2>3. a \in Int /\ b \in Int /\ b - a + 1 \in Nat /\ b <= Len(v) /\ a >= 1 /\ Len(v) \in Nat
    BY <2>2
  <2> HIDE DEF a, b
  <2>4. (\A k \in a..b : v[k] \in Elements) /\ (\A k \in a..b : w[k] \in Elements)
    <3>1. \A k \in a..b : k \in 1..Len(v) /\ k \in 1..Len(w)
      BY <1>1, <2>3
    <3> QED BY <1>1, <3>1, ElementOfSeq
  <2>5. /\ r \in Seq(Elements) /\ Len(r) = b - a + 1
        /\ \A j \in 1..b-a+1 : r[j] = v[a + j - 1]
    <3>1. /\ r \in Seq(Elements)
          /\ Len(r) = IF a <= b THEN b - a + 1 ELSE 0
          /\ \A j \in 1..b-a+1 : r[j] = v[a + j - 1]
      BY <2>3, <2>4, SubSeqProperties
    <3> HIDE DEF r
    <3> QED BY <2>3, <3>1
  <2>6. /\ s \in Seq(Elements) /\ Len(s) = b - a + 1
        /\ \A j \in 1..b-a+1 : s[j] = w[a + j - 1]
    <3>1. /\ s \in Seq(Elements)
          /\ Len(s) = IF a <= b THEN b - a + 1 ELSE 0
          /\ \A j \in 1..b-a+1 : s[j] = w[a + j - 1]
      BY <2>3, <2>4, SubSeqProperties
    <3> HIDE DEF s
    <3> QED BY <2>3, <3>1
  <2> HIDE DEF r, s
  <2>7. FilledOf(r, fill) \in Seq(Elements) /\ Len(FilledOf(r, fill)) = Len(r)
    BY <2>5, FilledType
  <2>8. ASSUME NEW j \in 1..b-a+1 PROVE s[j] = FilledOf(r, fill)[j]
    <3>1. a + j - 1 \in 1..Len(v) /\ j \in DOMAIN r
      BY <2>3, <2>5
    <3> QED BY <1>1, <2>5, <2>6, <3>1 DEF FilledOf
  <2>9. s = FilledOf(r, fill)
    BY <2>3, <2>5, <2>6, <2>7, <2>8, SeqEqual
  <2> QED BY <2>9 DEF s, r, a, b
<1>4. RowsOf(w, o) = [i \in 1..Len(o)-1 |-> FilledOf(SubSeq(v, o[i] + 1, o[i+1]), fill)]
  BY <1>3 DEF RowsOf
<1>5. [i \in DOMAIN RowsOf(v, o) |-> FilledOf(RowsOf(v, o)[i], fill)]
        = [i \in 1..Len(o)-1 |-> FilledOf(SubSeq(v, o[i] + 1, o[i+1]), fill)]
  BY DEF RowsOf
<1> QED BY <1>4, <1>5 DEF w

-----------------------------------------------------------------------------
(***************************************************************************)
(* Every step of RowNext, as far as the storage is concerned.              *)
(***************************************************************************)
RowCalls == {"FromRows", "TakeRows", "MaskRows", "SortRows", "IsNone", "DropNone",
             "FillNone", "PadNone", "Reduce"}

\* What a row operation may do to the arrays.
RowStep ==
  \/ \E h \in Handles, v \in Seq(Elements), o \in Seq(Nat) : call'.to = h /\ Result(h, v, o)
  \/ Throw("invalid_argument") \/ Throw("out_of_range")
  \/ call'.op = "Reduce" /\ Throw("ok")
  \/ ThrowOutOfMemory

LEMMA BuildStep ==
  ASSUME NEW h \in Handles, call'.to = h, NEW rs \in Seq(Seq(Elements)), Build(h, rs)
  PROVE  RowStep
BY BuildResult DEF RowStep

\* A row method constructs what it returns, or throws and leaves all as it was.
LEMMA RowNextCases ==
  ASSUME Typed, live \subseteq Handles, RowNext
  PROVE  Next \/ (call'.op \in RowCalls /\ RowStep)
<1>1. ASSUME NEW h \in Handles, NEW rs \in RowVectors, FromRows(h, rs)
      PROVE  call'.op \in RowCalls /\ RowStep
  <2>1. call'.op = "FromRows" /\ call'.to = h
    BY <1>1 DEF FromRows
  <2> QED BY <1>1, <2>1, FromRowsBuilds, BuildStep DEF RowCalls
<1>2. ASSUME NEW a \in Handles, NEW kind \in Reductions, Reduce(a, kind)
      PROVE  call'.op \in RowCalls /\ RowStep
  <2>1. call'.op = "Reduce" /\ (Throw("ok") \/ ThrowOutOfMemory)
    BY <1>2 DEF Reduce
  <2> QED BY <2>1 DEF RowStep, RowCalls
<1>3. ASSUME NEW a \in Handles, NEW h \in Handles,
             NEW indices \in Vectors(0..MaxRows, MaxRows), TakeRows(a, indices, h)
      PROVE  call'.op \in RowCalls /\ RowStep
  <2>1. call'.op = "TakeRows" /\ call'.to = h
    BY <1>3 DEF TakeRows
  <2> DEFINE rs == [k \in DOMAIN indices |-> RowList(a)[indices[k] + 1]]
  <2>2. Throw("out_of_range") \/ ThrowOutOfMemory \/ (rs \in Seq(Seq(Elements)) /\ Build(h, rs))
    BY <1>3, TakeRowsBuilds
  <2> HIDE DEF rs
  <2>3. RowStep
    BY <2>1, <2>2, BuildStep DEF RowStep, Outcomes
  <2> QED BY <2>1, <2>3 DEF RowCalls
<1>4. ASSUME NEW a \in Handles, NEW h \in Handles,
             NEW keep \in Vectors(BOOLEAN, MaxRows), MaskRows(a, keep, h)
      PROVE  call'.op \in RowCalls /\ RowStep
  <2>1. call'.op = "MaskRows" /\ call'.to = h
    BY <1>4 DEF MaskRows
  <2> DEFINE rs == KeptOf(RowList(a), {i \in DOMAIN RowList(a) : keep[i]})
  <2>2. Throw("invalid_argument") \/ (rs \in Seq(Seq(Elements)) /\ Build(h, rs))
    BY <1>4, MaskRowsBuilds
  <2> HIDE DEF rs
  <2>3. RowStep
    BY <2>1, <2>2, BuildStep DEF RowStep, Outcomes
  <2> QED BY <2>1, <2>3 DEF RowCalls
<1>5. ASSUME NEW a \in Handles, NEW h \in Handles, SortRows(a, h)
      PROVE  call'.op \in RowCalls /\ RowStep
  <2>1. call'.op = "SortRows" /\ call'.to = h
    BY <1>5 DEF SortRows
  <2>2. \E rs \in Seq(Seq(Elements)) : Build(h, rs)
    BY <1>5, SortRowsBuilds
  <2> QED BY <2>1, <2>2, BuildStep DEF RowCalls
<1>6. ASSUME NEW a \in Handles, NEW h \in Handles, IsNone(a, h)
      PROVE  call'.op \in RowCalls /\ RowStep
  <2>1. call'.op = "IsNone" /\ call'.to = h
    BY <1>6 DEF IsNone
  <2>2. \E rs \in Seq(Seq(Elements)) : Build(h, rs)
    BY <1>6, IsNoneBuilds
  <2> QED BY <2>1, <2>2, BuildStep DEF RowCalls
<1>7. ASSUME NEW a \in Handles, NEW h \in Handles, DropNone(a, h)
      PROVE  call'.op \in RowCalls /\ RowStep
  <2>1. call'.op = "DropNone" /\ call'.to = h
    BY <1>7 DEF DropNone
  <2>2. \E rs \in Seq(Seq(Elements)) : Build(h, rs)
    BY <1>7, DropNoneBuilds
  <2> QED BY <2>1, <2>2, BuildStep DEF RowCalls
<1>8. ASSUME NEW a \in Handles, NEW h \in Handles, NEW fill \in Elements \ {Nullopt},
             FillNone(a, fill, h)
      PROVE  call'.op \in RowCalls /\ RowStep
  <2>1. call'.op = "FillNone" /\ call'.to = h
    BY <1>8 DEF FillNone
  <2>2. Result(h, FilledOf(values[a], fill), offsets[a])
    BY <1>8 DEF FillNone, FilledOf
  <2>3. FilledOf(values[a], fill) \in Seq(Elements) /\ offsets[a] \in Seq(Nat)
    BY FilledType DEF Typed
  <2> QED BY <2>1, <2>2, <2>3 DEF RowStep, RowCalls
<1>9. ASSUME NEW a \in Handles, NEW h \in Handles, NEW target \in 0..MaxValues,
             PadNone(a, target, h)
      PROVE  call'.op \in RowCalls /\ RowStep
  <2>1. call'.op = "PadNone" /\ call'.to = h
    BY <1>9 DEF PadNone
  <2>2. \E rs \in Seq(Seq(Elements)) : Build(h, rs)
    BY <1>9, PadNoneBuilds
  <2> QED BY <2>1, <2>2, BuildStep DEF RowCalls
<1> QED BY <1>1, <1>2, <1>3, <1>4, <1>5, <1>6, <1>7, <1>8, <1>9 DEF RowNext

LEMMA RowStepTyped ==
  ASSUME Typed, live \subseteq Handles, RowStep
  PROVE  Typed' /\ live' \subseteq Handles
<1>1. ASSUME NEW h \in Handles, NEW v \in Seq(Elements), NEW o \in Seq(Nat), Result(h, v, o)
      PROVE  Typed' /\ live' \subseteq Handles
  BY <1>1, StoreEffect DEF Result, Deliver, Throw, ThrowOutOfMemory, Typed
<1>2. ASSUME NEW e, Throw(e) PROVE Typed' /\ live' \subseteq Handles
  BY <1>2 DEF Throw, Typed
<1>3. ASSUME ThrowOutOfMemory PROVE Typed' /\ live' \subseteq Handles
  BY <1>3 DEF ThrowOutOfMemory, Typed
<1> QED BY <1>1, <1>2, <1>3 DEF RowStep

LEMMA RowStepEnded ==
  ASSUME outcome \in Outcomes, failures \in 0..MaxFailures, RowStep
  PROVE  outcome' \in Outcomes /\ failures' \in 0..MaxFailures
<1>1. (\E e \in Outcomes : Report(e)) \/ OutOfMemory
  BY DEF RowStep, Result, Deliver, Throw, ThrowOutOfMemory, Outcomes
<1> QED BY <1>1, MaxFailuresAssumption DEF Report, OutOfMemory, Outcomes

LEMMA RowStepWellFormed ==
  ASSUME Typed, live \subseteq Handles, OffsetsWellFormed, RowStep, outcome' # "bad_alloc"
  PROVE  OffsetsWellFormed'
<1>0. ~OutOfMemory
  BY DEF OutOfMemory
<1>1. ASSUME NEW h \in Handles, NEW v \in Seq(Elements), NEW o \in Seq(Nat), Result(h, v, o)
      PROVE  OffsetsWellFormed'
  BY <1>0, <1>1, StoreWellFormed, SameWellFormed DEF Result, Deliver, Throw, ThrowOutOfMemory
<1>2. ASSUME NEW e, Throw(e) PROVE OffsetsWellFormed'
  BY <1>2, SameWellFormed DEF Throw
<1> QED BY <1>0, <1>1, <1>2 DEF RowStep, ThrowOutOfMemory

-----------------------------------------------------------------------------
(***************************************************************************)
(* What holds of the storage holds with the row methods, whichever         *)
(* allocations fail.                                                       *)
(***************************************************************************)
\* Every handle keeps a vector of elements and a vector of sizes, whichever method
\* is called (array.hpp:63-274, 384-459).
THEOREM RowsTypeCorrect == RowSpec => []TypeOK
<1>1. Init => TypeOK
  BY EmptyArray, MaxFailuresAssumption DEF Init, TypeOK, Outcomes
<1>2. TypeOK /\ [RowNext]_vars => TypeOK'
  <2> SUFFICES ASSUME TypeOK, [RowNext]_vars PROVE TypeOK'
    OBVIOUS
  <2>0. Typed /\ live \subseteq Handles /\ outcome \in Outcomes /\ failures \in 0..MaxFailures
    BY DEF TypeOK, Typed
  <2>1. CASE Next
    <3>1. Typed' /\ live' \subseteq Handles
      BY <2>0, <2>1, TypedNext
    <3>2. outcome' \in Outcomes /\ failures' \in 0..MaxFailures
      BY <2>0, <2>1, EndedNext
    <3> QED BY <3>1, <3>2 DEF TypeOK, Typed
  <2>2. CASE RowStep
    <3>1. Typed' /\ live' \subseteq Handles
      BY <2>0, <2>2, RowStepTyped
    <3>2. outcome' \in Outcomes /\ failures' \in 0..MaxFailures
      BY <2>0, <2>2, RowStepEnded
    <3> QED BY <3>1, <3>2 DEF TypeOK, Typed
  <2>3. CASE UNCHANGED vars
    BY <2>3 DEF vars, TypeOK
  <2> QED BY <2>0, <2>1, <2>2, <2>3, RowNextCases
<1> QED BY <1>1, <1>2, PTL DEF RowSpec

\* No method that succeeds, and none that is refused, damages an array: only one
\* that reports bad_alloc can (array.hpp:63-274, 384-459).
THEOREM RowsDamageReported == RowSpec => DamageIsReported
<1>1. TypeOK /\ [RowNext]_vars
        => (OffsetsWellFormed /\ outcome' # "bad_alloc" => OffsetsWellFormed')
  <2> SUFFICES ASSUME TypeOK, [RowNext]_vars, OffsetsWellFormed, outcome' # "bad_alloc"
               PROVE  OffsetsWellFormed'
    OBVIOUS
  <2>0. Typed /\ live \subseteq Handles
    BY DEF TypeOK, Typed
  <2>1. CASE Next
    BY <2>0, <2>1, WellFormedNext
  <2>2. CASE RowStep
    BY <2>0, <2>2, RowStepWellFormed
  <2>3. CASE UNCHANGED vars
    BY <2>3 DEF vars, OffsetsWellFormed, WellFormed
  <2> QED BY <2>0, <2>1, <2>2, <2>3, RowNextCases
<1> QED BY <1>1, RowsTypeCorrect, PTL DEF RowSpec, DamageIsReported

\* No call ends in bad_alloc when no allocation fails.
LEMMA NoBadAlloc ==
  ASSUME TypeOK, MaxFailures = 0, Next \/ RowStep
  PROVE  ~OutOfMemory /\ outcome' # "bad_alloc"
<1>1. ~OutOfMemory
  BY DEF OutOfMemory, TypeOK
<1>2. CASE RowStep
  BY <1>1, <1>2 DEF RowStep, Result, Deliver, Throw, ThrowOutOfMemory, Report
<1>3. CASE Next
  BY <1>1, <1>3 DEF Next, Default, FromFlat, Result, Deliver, AppendRow, Clear, Reserve, Destroy,
         CopyConstruct, CopyAssign, MoveAssign, MoveConstruct, ConcatRows,
         Throw, ThrowOutOfMemory, Report
<1> QED BY <1>1, <1>2, <1>3

\* While memory lasts every array has valid offsets, those that the row methods
\* collect included (README.md:333).
THEOREM RowsStayWellFormed == MaxFailures = 0 /\ RowSpec => []OffsetsWellFormed
<1> SUFFICES ASSUME MaxFailures = 0 PROVE RowSpec => []OffsetsWellFormed
  OBVIOUS
<1>1. Init => OffsetsWellFormed
  BY DEF Init, OffsetsWellFormed
<1>2. TypeOK /\ OffsetsWellFormed /\ [RowNext]_vars => OffsetsWellFormed'
  <2> SUFFICES ASSUME TypeOK, OffsetsWellFormed, [RowNext]_vars PROVE OffsetsWellFormed'
    OBVIOUS
  <2>0. Typed /\ live \subseteq Handles
    BY DEF TypeOK, Typed
  <2>1. CASE Next
    BY <2>0, <2>1, NoBadAlloc, WellFormedNext
  <2>2. CASE RowStep
    BY <2>0, <2>2, NoBadAlloc, RowStepWellFormed
  <2>3. CASE UNCHANGED vars
    BY <2>3 DEF vars, OffsetsWellFormed, WellFormed
  <2> QED BY <2>0, <2>1, <2>2, <2>3, RowNextCases
<1> QED BY <1>1, <1>2, RowsTypeCorrect, PTL DEF RowSpec

\* append_row keeps every row that could be read, in whatever order it is called
\* with the row methods and whichever allocations fail (array.hpp:174-182).
THEOREM RowsAppendKeeps == RowSpec => AppendKeepsRows
<1>1. TypeOK /\ [RowNext]_vars => [AppendKept]_vars
  <2> SUFFICES ASSUME TypeOK, RowNext PROVE AppendKept
    OBVIOUS
  <2>1. Typed /\ live \subseteq Handles
    BY DEF TypeOK, Typed
  <2>2. CASE Next
    BY <2>2, AppendStepKeeps
  <2>3. CASE call'.op \in RowCalls
    BY <2>3 DEF RowCalls, AppendKept
  <2> QED BY <2>1, <2>2, <2>3, RowNextCases
<1>2. RowSpec => [][AppendKept]_vars
  BY <1>1, RowsTypeCorrect, PTL DEF RowSpec
<1> QED BY <1>2 DEF AppendKept, AppendKeepsRows

-----------------------------------------------------------------------------
(***************************************************************************)
(* Every step of RowNext is the step that RaggedRows demands of its call.  *)
(***************************************************************************)
LEMMA RowsAt ==
  ASSUME NEW a \in Handles
  PROVE  [h \in Handles |-> RowsOf(values[h], offsets[h])][a] = RowList(a)
BY DEF RowList

LEMMA RowsDone ==
  ASSUME NEW h \in Handles, NEW rs, Ragged!Done(h, rs)
  PROVE  [g \in Handles |-> RowsOf(values'[g], offsets'[g])][h] = rs
BY DEF Ragged!Done

LEMMA FromRowsRefines ==
  ASSUME Typed, ~OutOfMemory, NEW h \in Handles, NEW rs \in RowVectors, FromRows(h, rs)
  PROVE  Ragged!Next
<1>1. call'.op = "FromRows" /\ call'.to = h /\ call'.rows = rs
  BY DEF FromRows
<1>2. Ragged!FromRows(h, rs)
  BY FromRowsBuilds, BuildDone DEF Ragged!FromRows
<1> QED BY <1>1, <1>2 DEF Ragged!Next

LEMMA TakeRowsRefines ==
  ASSUME Typed, ~OutOfMemory, NEW a \in Handles, NEW h \in Handles,
         NEW indices \in Vectors(0..MaxRows, MaxRows), TakeRows(a, indices, h)
  PROVE  Ragged!Next
<1>1. call'.op = "TakeRows" /\ call'.of = a /\ call'.indices = indices /\ call'.to = h
  BY DEF TakeRows
<1> DEFINE rs == [k \in DOMAIN indices |-> RowList(a)[indices[k] + 1]]
           inside == \A k \in DOMAIN indices : indices[k] < Len(RowList(a))
<1>2. \/ ~inside /\ (Throw("out_of_range") \/ ThrowOutOfMemory)
      \/ inside /\ rs \in Seq(Seq(Elements)) /\ Build(h, rs)
  BY TakeRowsBuilds
<1>3. \/ ~inside /\ Ragged!Refused("out_of_range")
      \/ inside /\ Ragged!Done(h, rs)
  <2> HIDE DEF rs, inside
  <2> QED BY <1>2, BuildDone, ThrowRefused DEF ThrowOutOfMemory
<1>4. Ragged!TakeRows(a, indices, h)
  BY <1>3, RowsAt DEF Ragged!TakeRows
<1> QED BY <1>1, <1>4 DEF Ragged!Next

LEMMA MaskRowsRefines ==
  ASSUME Typed, ~OutOfMemory, NEW a \in Handles, NEW h \in Handles,
         NEW keep \in Vectors(BOOLEAN, MaxRows), MaskRows(a, keep, h)
  PROVE  Ragged!Next
<1>1. call'.op = "MaskRows" /\ call'.of = a /\ call'.keep = keep /\ call'.to = h
  BY DEF MaskRows
<1> DEFINE rs == RowList(a)
           result == KeptOf(rs, {i \in DOMAIN rs : keep[i]})
<1>2. \/ Len(keep) # Len(rs) /\ Throw("invalid_argument")
      \/ Len(keep) = Len(rs) /\ result \in Seq(Seq(Elements)) /\ Build(h, result)
  BY MaskRowsBuilds
<1>3. \/ Len(keep) # Len(rs) /\ Ragged!Refused("invalid_argument")
      \/ Len(keep) = Len(rs) /\ Ragged!Done(h, result)
  <2> HIDE DEF rs, result
  <2> QED BY <1>2, BuildDone, ThrowRefused
<1>4. Ragged!MaskRows(a, keep, h)
  <2> DEFINE mapped == [g \in Handles |-> RowsOf(values[g], offsets[g])][a]
  <2>1. mapped = rs
    BY RowsAt
  <2> HIDE DEF mapped, rs
  <2>2. \/ Len(keep) # Len(mapped) /\ Ragged!Refused("invalid_argument")
        \/ Len(keep) = Len(mapped) /\ Ragged!Done(h, KeptOf(mapped, {i \in DOMAIN mapped : keep[i]}))
    BY <1>3, <2>1
  <2>3. IF Len(keep) = Len(mapped)
        THEN Ragged!Done(h, KeptOf(mapped, {i \in DOMAIN mapped : keep[i]}))
        ELSE Ragged!Refused("invalid_argument")
    <3> HIDE DEF KeptOf, Ragged!Done, Ragged!Refused
    <3> QED BY <2>2
  <2> QED BY <2>3, Zenon DEF Ragged!MaskRows, KeptOf, mapped
<1> QED BY <1>1, <1>4 DEF Ragged!Next

LEMMA SortRowsRefines ==
  ASSUME Typed, ~OutOfMemory, NEW a \in Handles, NEW h \in Handles, SortRows(a, h)
  PROVE  Ragged!Next
<1>1. call'.op = "SortRows" /\ call'.of = a /\ call'.to = h
  BY DEF SortRows
<1> DEFINE rs == RowList(a)
<1>2. PICK sorted \in Seq(Seq(Elements)) :
         /\ Len(sorted) = Len(rs)
         /\ \A i \in DOMAIN rs : Ragged!Sorted(sorted[i]) /\ Ragged!SameElements(rs[i], sorted[i])
         /\ Build(h, sorted)
  BY SortRowsBuilds
<1>3. Ragged!Done(h, sorted)
  BY <1>2, BuildDone
<1>4. [g \in Handles |-> RowsOf(values'[g], offsets'[g])][h] = sorted
  BY <1>3, RowsDone
<1>5. Ragged!SortRows(a, h)
  <2> HIDE DEF Ragged!Sorted, Ragged!SameElements, Ragged!Done
  <2> QED BY <1>2, <1>3, <1>4, RowsAt DEF Ragged!SortRows
<1> QED BY <1>1, <1>5 DEF Ragged!Next

LEMMA IsNoneRefines ==
  ASSUME Typed, ~OutOfMemory, NEW a \in Handles, NEW h \in Handles, IsNone(a, h)
  PROVE  Ragged!Next
<1>1. call'.op = "IsNone" /\ call'.of = a /\ call'.to = h
  BY DEF IsNone
<1>2. Ragged!Done(h, [i \in DOMAIN RowList(a) |-> MissingOf(RowList(a)[i])])
  BY IsNoneBuilds, BuildDone
<1>3. Ragged!IsNone(a, h)
  BY <1>2, RowsAt DEF Ragged!IsNone, MissingOf
<1> QED BY <1>1, <1>3 DEF Ragged!Next

LEMMA DropNoneRefines ==
  ASSUME Typed, ~OutOfMemory, NEW a \in Handles, NEW h \in Handles, DropNone(a, h)
  PROVE  Ragged!Next
<1>1. call'.op = "DropNone" /\ call'.of = a /\ call'.to = h
  BY DEF DropNone
<1>2. Ragged!Done(h, [i \in DOMAIN RowList(a) |-> PresentOf(RowList(a)[i])])
  BY DropNoneBuilds, BuildDone
<1>3. Ragged!DropNone(a, h)
  <2> DEFINE mapped == [g \in Handles |-> RowsOf(values[g], offsets[g])][a]
  <2>1. mapped = RowList(a)
    BY RowsAt
  <2> HIDE DEF mapped
  <2>2. Ragged!Done(h, [i \in DOMAIN mapped |-> PresentOf(mapped[i])])
    BY <1>2, <2>1
  <2> QED BY <2>2, Zenon DEF Ragged!DropNone, PresentOf, KeptOf, mapped
<1> QED BY <1>1, <1>3 DEF Ragged!Next

LEMMA PadNoneRefines ==
  ASSUME Typed, ~OutOfMemory, NEW a \in Handles, NEW h \in Handles, NEW target \in 0..MaxValues,
         PadNone(a, target, h)
  PROVE  Ragged!Next
<1>1. call'.op = "PadNone" /\ call'.of = a /\ call'.target = target /\ call'.to = h
  BY DEF PadNone
<1>2. Ragged!Done(h, [i \in DOMAIN RowList(a) |-> PaddedOf(RowList(a)[i], target)])
  BY PadNoneBuilds, BuildDone
<1>3. Ragged!PadNone(a, target, h)
  BY <1>2, RowsAt DEF Ragged!PadNone, PaddedOf
<1> QED BY <1>1, <1>3 DEF Ragged!Next

LEMMA FillNoneRefines ==
  ASSUME Typed, ~OutOfMemory, NEW a \in Handles, NEW h \in Handles, WellFormed(a),
         NEW fill \in Elements, FillNone(a, fill, h)
  PROVE  Ragged!Next
<1>1. call'.op = "FillNone" /\ call'.of = a /\ call'.fill = fill /\ call'.to = h
  BY DEF FillNone
<1> DEFINE v == values[a]
           o == offsets[a]
           w == FilledOf(v, fill)
<1>2. v \in Seq(Elements) /\ o \in Seq(Nat) /\ ValidOffsets(Len(v), o)
  BY DEF Typed, WellFormed
<1>3. Result(h, w, o)
  BY DEF FillNone, FilledOf
<1> HIDE DEF v, o, w
<1>4. w \in Seq(Elements) /\ Len(w) = Len(v)
  BY <1>2, FilledType DEF w
<1>5. Store(h, w, o) /\ live' = live \cup {h} /\ outcome' = "ok"
  BY <1>2, <1>3, <1>4 DEF Result, Deliver, Report, ThrowOutOfMemory
<1>6. Ragged!Done(h, RowsOf(w, o))
  BY <1>2, <1>4, <1>5, StoreDone
<1>7. RowsOf(w, o) = [i \in DOMAIN RowList(a) |-> FilledOf(RowList(a)[i], fill)]
  BY <1>2, FilledRows DEF w, v, o, RowList
<1>8. Ragged!FillNone(a, fill, h)
  BY <1>6, <1>7, RowsAt DEF Ragged!FillNone, FilledOf
<1> QED BY <1>1, <1>8 DEF Ragged!Next

LEMMA ReduceRefines ==
  ASSUME Typed, ~OutOfMemory, NEW a \in Handles, NEW kind \in Reductions, Reduce(a, kind)
  PROVE  Ragged!Next
<1> DEFINE rs == RowList(a)
           results == [i \in 1..Rows(a) |-> Reduction(kind, rs[i])]
<1>1. DOMAIN rs = 1..Rows(a) /\ AllRows(a) = rs /\ \A i \in 1..Rows(a) : rs[i] \in Seq(Elements)
  BY EveryRow DEF Reduce
<1>2. call'.op = "Reduce" /\ call'.of = a /\ call'.kind = kind /\ call'.results = results
  BY <1>1 DEF Reduce
<1>3. \A i \in DOMAIN rs : Ragged!IsReduction(kind, results[i], rs[i])
  <2> TAKE i \in DOMAIN rs
  <2>1. rs[i] \in Seq(Int)
    BY <1>1, ElementsAssumption, SeqMonotonic
  <2>2. results[i] = Reduction(kind, rs[i])
    BY <1>1
  <2> HIDE DEF rs, results
  <2> QED BY <2>1, <2>2, ReductionIsReduction
<1>4. DOMAIN results = DOMAIN rs
  BY <1>1
<1>5. Ragged!Refused("ok")
  BY ThrowRefused DEF Reduce, ThrowOutOfMemory
<1> HIDE DEF results
<1>6. Ragged!Reduce(a, kind, results)
  BY <1>3, <1>4, <1>5, RowsAt DEF Ragged!Reduce
<1> QED BY <1>2, <1>6 DEF Ragged!Next

LEMMA RowStepRefines ==
  ASSUME Typed, live \subseteq Handles, OffsetsWellFormed, ~OutOfMemory, RowNext
  PROVE  Ragged!Next
<1>1. \A h \in Handles, rs \in RowVectors : FromRows(h, rs) => Ragged!Next
  BY FromRowsRefines
<1>2. \A a \in Handles, kind \in Reductions : Reduce(a, kind) => Ragged!Next
  BY ReduceRefines
<1>3. \A a, h \in Handles, indices \in Vectors(0..MaxRows, MaxRows) :
        TakeRows(a, indices, h) => Ragged!Next
  BY TakeRowsRefines
<1>4. \A a, h \in Handles, keep \in Vectors(BOOLEAN, MaxRows) : MaskRows(a, keep, h) => Ragged!Next
  BY MaskRowsRefines
<1>5. \A a, h \in Handles : SortRows(a, h) \/ IsNone(a, h) \/ DropNone(a, h) => Ragged!Next
  BY SortRowsRefines, IsNoneRefines, DropNoneRefines
<1>6. \A a, h \in Handles, fill \in Elements \ {Nullopt} : FillNone(a, fill, h) => Ragged!Next
  BY FillNoneRefines DEF FillNone, OffsetsWellFormed
<1>7. \A a, h \in Handles, target \in 0..MaxValues : PadNone(a, target, h) => Ragged!Next
  BY PadNoneRefines
<1>8. Next => Ragged!Next
  BY StepRefines
<1> QED BY <1>1, <1>2, <1>3, <1>4, <1>5, <1>6, <1>7, <1>8 DEF RowNext

-----------------------------------------------------------------------------
(***************************************************************************)
(* Arrays with values that no row owns.                                    *)
(***************************************************************************)
\* A row that is appended takes in what lies behind the last row.
LEMMA RowsOfTornAppended ==
  ASSUME NEW v \in Seq(Elements), NEW row \in Seq(Elements), NEW o \in Seq(Nat), Readable(v, o)
  PROVE  RowsOf(v \o row, Append(o, Len(v \o row)))
           = Append(RowsOf(v, o), SubSeq(v, o[Len(o)] + 1, Len(v)) \o row)
<1> DEFINE w == v \o row
           p == Append(o, Len(w))
           n == Len(o)
           last == SubSeq(v, o[n] + 1, Len(v)) \o row
<1>1. w \in Seq(Elements) /\ Len(w) = Len(v) + Len(row) /\ Len(v) \in Nat /\ Len(row) \in Nat
  BY ConcatProperties
<1>2. /\ p \in Seq(Nat) /\ Len(p) = n + 1
      /\ \A i \in 1..n : p[i] = o[i]
      /\ p[n + 1] = Len(w)
  BY <1>1, AppendProperties
<1>3. n \in Nat \ {0} /\ n \in 1..n /\ o[n] \in Nat /\ o[n] <= Len(v)
  BY DEF Readable
<1>4. RowsOf(v, o) \in Seq(Seq(Elements)) /\ Len(RowsOf(v, o)) = n - 1
  BY ReadableRows
<1>5. SubSeq(w, o[n] + 1, Len(v) + Len(row)) = last
  <2>1. SubSeq(w, o[n] + 1, Len(v) + Len(row)) = SubSeq(v, o[n] + 1, Len(v)) \o SubSeq(row, 1, Len(row))
    <3> DEFINE a == o[n]
               b == Len(row)
    <3>1. a \in Nat /\ b \in Nat /\ a <= Len(v) /\ b <= Len(row)
      BY <1>1, <1>3
    <3> HIDE DEF a, b
    <3>2. SubSeq(v \o row, a + 1, Len(v) + b) = SubSeq(v, a + 1, Len(v)) \o SubSeq(row, 1, b)
      BY <3>1, CutAcross
    <3> QED BY <3>2 DEF a, b
  <2>2. SubSeq(row, 1, Len(row)) = row
    BY SubSeqFull
  <2> QED BY <2>1, <2>2
<1>6. last \in Seq(Elements)
  <2>1. /\ o[n] + 1 \in Int /\ Len(v) \in Int
        /\ \A k \in o[n] + 1 .. Len(v) : v[k] \in Elements
    BY <1>1, <1>3
  <2>2. SubSeq(v, o[n] + 1, Len(v)) \in Seq(Elements)
    <3> HIDE DEF n
    <3> QED BY <2>1, SubSeqProperties
  <2> QED BY <2>2, ConcatProperties
<1> HIDE DEF last
<1>7. /\ Append(RowsOf(v, o), last) \in Seq(Seq(Elements))
      /\ Len(Append(RowsOf(v, o), last)) = n
      /\ \A i \in 1..n-1 : Append(RowsOf(v, o), last)[i] = RowsOf(v, o)[i]
      /\ Append(RowsOf(v, o), last)[n] = last
  <2> HIDE DEF n
  <2>1. (n - 1) + 1 = n
    BY <1>3
  <2> QED BY <1>4, <1>6, <2>1, AppendProperties
<1>8. ASSUME NEW i \in 1..n PROVE RowsOf(w, p)[i] = Append(RowsOf(v, o), last)[i]
  <2>1. CASE i = n
    <3>1. RowsOf(w, p)[n] = SubSeq(w, p[n] + 1, p[n + 1])
      <4>1. n \in 1..Len(p)-1
        BY <1>2, <1>3
      <4> HIDE DEF w, p, n
      <4> QED BY <4>1 DEF RowsOf
    <3>2. p[n] = o[n] /\ p[n + 1] = Len(v) + Len(row)
      BY <1>1, <1>2, <1>3
    <3> HIDE DEF w, p, n
    <3> QED BY <1>5, <1>7, <2>1, <3>1, <3>2
  <2>2. CASE i # n
    <3>1. i \in 1..n-1 /\ Len(o) <= Len(p)
      BY <1>2, <1>3, <2>2
    <3>2. RowsOf(v \o row, p)[i] = RowsOf(v, o)[i]
      <4> HIDE DEF p
      <4> QED BY <1>2, <3>1, RowsStay
    <3> QED BY <1>7, <3>1, <3>2
  <2> QED BY <2>1, <2>2
<1>9. RowsOf(w, p) \in Seq(Seq(Elements)) /\ Len(RowsOf(w, p)) = n
  <2> DEFINE rs == RowsOf(w, p)
  <2>1. rs = [i \in 1..n |-> rs[i]]
    <3>1. Len(p) - 1 = n
      BY <1>2, <1>3
    <3> HIDE DEF w, p, n
    <3> QED BY <3>1 DEF RowsOf
  <2>2. ASSUME NEW i \in 1..n PROVE rs[i] \in Seq(Elements)
    <3> DEFINE t == Append(RowsOf(v, o), last)
    <3>1. t \in Seq(Seq(Elements)) /\ Len(t) = n /\ rs[i] = t[i]
      BY <1>7, <1>8
    <3> HIDE DEF t, rs, n
    <3> QED BY <3>1
  <2> HIDE DEF rs
  <2>3. rs \in [1..n -> Seq(Elements)]
    BY <2>1, <2>2
  <2>4. rs \in Seq(Seq(Elements)) /\ Len(rs) = n
    <3> HIDE DEF n
    <3> QED BY <1>3, <2>3, FunctionIsSeq, Zenon
  <2> QED BY <2>4 DEF rs
<1> HIDE DEF w, p, n
<1>10. RowsOf(w, p) = Append(RowsOf(v, o), last)
  BY <1>3, <1>7, <1>8, <1>9, SeqEqual
<1> QED BY <1>10 DEF w, p, n, last

LEMMA JoinedThree ==
  ASSUME NEW x \in Seq(Elements), NEW y \in Seq(Elements), NEW z \in Seq(Elements)
  PROVE  (x \o y) \o z = x \o (y \o z)
BY ConcatAssociative

\* Of arrays that are joined, the first row of the second takes in what lies
\* behind the last row of the first, and what lies in front of it.
LEMMA RowsOfTornJoined ==
  ASSUME NEW v1 \in Seq(Elements), NEW v2 \in Seq(Elements),
         NEW o1 \in Seq(Nat), NEW o2 \in Seq(Nat), Readable(v1, o1), Readable(v2, o2),
         ValidOffsets(Len(v1 \o v2), o1 \o Shifted(o2, Len(v1)))
  PROVE  RowsOf(v1 \o v2, o1 \o Shifted(o2, Len(v1)))
           = RowsOf(v1, o1)
               \o [k \in 1..Len(o2)-1 |->
                     IF k = 1 THEN SubSeq(v1, o1[Len(o1)] + 1, Len(v1)) \o SubSeq(v2, 1, o2[1])
                                     \o RowsOf(v2, o2)[1]
                              ELSE RowsOf(v2, o2)[k]]
<1> DEFINE m  == Len(v1)
           n1 == Len(o1)
           n2 == Len(o2)
           w  == v1 \o v2
           p  == o1 \o Shifted(o2, m)
           behind == SubSeq(v1, o1[n1] + 1, m)
           before == SubSeq(v2, 1, o2[1])
           r1 == RowsOf(v1, o1)
           r2 == RowsOf(v2, o2)
           head == behind \o before \o r2[1]
           next == [k \in 1..n2-1 |-> IF k = 1 THEN head ELSE r2[k]]
<1>1. /\ m \in Nat /\ Len(v2) \in Nat
      /\ w \in Seq(Elements) /\ Len(w) = m + Len(v2)
  BY ConcatProperties
<1>2. /\ n1 \in Nat \ {0} /\ n1 \in 1..n1 /\ o1[n1] \in Nat /\ o1[n1] <= m
      /\ n2 \in Nat \ {0}
  BY DEF Readable
<1>3. ASSUME NEW k \in 1..n2-1
      PROVE  o2[k] \in Nat /\ o2[k+1] \in Nat /\ o2[k] <= o2[k+1] /\ o2[k+1] <= Len(v2)
  <2>1. k \in 1..Len(o2) /\ k + 1 \in 1..Len(o2) /\ k <= k + 1 /\ Ascending(o2)
    BY <1>2 DEF Readable
  <2>2. o2[k+1] <= Len(v2)
    BY <2>1 DEF Readable
  <2> QED BY <2>1, <2>2, AscendingAt
<1>4. /\ p \in Seq(Nat) /\ Len(p) = n1 + n2 - 1
      /\ \A i \in 1..n1 : p[i] = o1[i]
      /\ \A k \in 1..n2-1 : p[n1 + k] = m + o2[k+1]
  <2>1. /\ Shifted(o2, m) \in Seq(Nat) /\ Len(Shifted(o2, m)) = n2 - 1
        /\ \A i \in 1..n2-1 : Shifted(o2, m)[i] = m + o2[i+1]
    BY <1>1, <1>2, ShiftedOffsets
  <2>2. /\ p \in Seq(Nat) /\ Len(p) = Len(o1) + Len(Shifted(o2, m))
        /\ \A i \in 1..Len(o1) + Len(Shifted(o2, m)) :
             p[i] = IF i <= Len(o1) THEN o1[i] ELSE Shifted(o2, m)[i - Len(o1)]
    <3> HIDE DEF m
    <3> QED BY <2>1, ConcatProperties
  <2> HIDE DEF p, m
  <2>3. \A i \in 1..n1 + (n2 - 1) : p[i] = IF i <= n1 THEN o1[i] ELSE Shifted(o2, m)[i - n1]
    BY <2>1, <2>2
  <2>4. ASSUME NEW k \in 1..n2-1 PROVE p[n1 + k] = m + o2[k+1]
    <3>1. n1 + k \in 1..n1 + (n2 - 1) /\ ~(n1 + k <= n1) /\ (n1 + k) - n1 = k
      BY <1>2
    <3>2. p[n1 + k] = Shifted(o2, m)[(n1 + k) - n1]
      <4> HIDE DEF n1, n2
      <4> QED BY <2>3, <3>1
    <3>3. Shifted(o2, m)[(n1 + k) - n1] = Shifted(o2, m)[k]
      BY <3>1, Zenon
    <3>4. Shifted(o2, m)[k] = m + o2[k+1]
      BY <2>1
    <3> QED BY <3>2, <3>3, <3>4, Zenon
  <2>5. ASSUME NEW i \in 1..n1 PROVE p[i] = o1[i]
    <3>1. i \in 1..n1 + (n2 - 1) /\ i <= n1
      BY <1>2
    <3> HIDE DEF n1, n2
    <3> QED BY <2>3, <3>1
  <2>6. p \in Seq(Nat) /\ Len(p) = n1 + n2 - 1
    BY <1>2, <2>1, <2>2
  <2> QED BY <2>4, <2>5, <2>6, Zenon
<1>5. /\ r1 \in Seq(Seq(Elements)) /\ Len(r1) = n1 - 1
      /\ r2 \in Seq(Seq(Elements)) /\ Len(r2) = n2 - 1
  BY ReadableRows
<1>6. RowsOf(w, p) \in Seq(Seq(Elements)) /\ Len(RowsOf(w, p)) = (n1 - 1) + (n2 - 1)
  <2>1. Len(p) - 1 = (n1 - 1) + (n2 - 1) /\ ValidOffsets(Len(w), p)
    BY <1>2, <1>4
  <2> HIDE DEF w, p
  <2> QED BY <1>1, <1>4, <2>1, RowsType
<1>7. ASSUME NEW k \in 1..n2-1
      PROVE  RowsOf(w, p)[(n1 - 1) + k] = next[k] /\ next[k] \in Seq(Elements)
  <2>1. (n1 - 1) + k \in 1..Len(p)-1 /\ (n1 - 1) + k + 1 = n1 + k
    BY <1>2, <1>4
  <2> DEFINE from == p[(n1 - 1) + k]
  <2>2. RowsOf(w, p)[(n1 - 1) + k] = SubSeq(w, from + 1, m + o2[k+1])
    <3>1. p[(n1 - 1) + k + 1] = m + o2[k+1]
      BY <1>4, <2>1
    <3> HIDE DEF w, p, m, n1, n2
    <3> QED BY <2>1, <3>1 DEF RowsOf
  <2>3. r2[k] = SubSeq(v2, o2[k] + 1, o2[k+1]) /\ r2[k] \in Seq(Elements)
    <3>1. r2[k] \in Seq(Elements)
      <4> HIDE DEF r2, n2
      <4> QED BY <1>5
    <3> QED BY <3>1 DEF RowsOf
  <2>4. CASE k # 1
    <3>1. from = m + o2[k]
      <4>1. k - 1 \in 1..n2-1 /\ n1 + (k - 1) = (n1 - 1) + k /\ (k - 1) + 1 = k
        BY <1>2, <2>4
      <4> HIDE DEF p, m, n1, n2
      <4> QED BY <1>4, <4>1
    <3>2. SubSeq(w, m + o2[k] + 1, m + o2[k+1]) = SubSeq(v2, o2[k] + 1, o2[k+1])
      BY <1>3, CutOfSecond
    <3>3. next[k] = r2[k]
      BY <2>4
    <3> HIDE DEF next, r2, w, p, from, m, n1
    <3> QED BY <2>2, <2>3, <3>1, <3>2, <3>3
  <2>5. CASE k = 1
    <3>1. from = o1[n1]
      <4>1. (n1 - 1) + k = n1
        BY <1>2, <2>5
      <4> HIDE DEF p, n1
      <4> QED BY <1>2, <1>4, <4>1
    <3>2. /\ o2[1] \in Nat /\ o2[2] \in Nat /\ o2[1] <= o2[2] /\ o2[2] <= Len(v2)
          /\ o2[1] <= Len(v2)
      <4>1. 1 \in 1..n2-1 /\ 1 + 1 = 2
        BY <2>5
      <4>2. o2[1] \in Nat /\ o2[2] \in Nat /\ o2[1] <= o2[2] /\ o2[2] <= Len(v2)
        BY <1>3, <4>1
      <4> QED BY <1>1, <4>2
    <3>3. SubSeq(w, o1[n1] + 1, m + o2[2]) = behind \o SubSeq(v2, 1, o2[2])
      <4> DEFINE a == o1[n1]
                 b == o2[2]
      <4>1. a \in Nat /\ b \in Nat /\ a <= Len(v1) /\ b <= Len(v2)
        BY <1>2, <3>2
      <4> HIDE DEF a, b
      <4>2. SubSeq(v1 \o v2, a + 1, Len(v1) + b) = SubSeq(v1, a + 1, Len(v1)) \o SubSeq(v2, 1, b)
        BY <4>1, CutAcross
      <4> QED BY <4>2 DEF a, b
    <3>4. SubSeq(v2, 1, o2[2]) = before \o r2[1]
      <4>1. r2[1] = SubSeq(v2, o2[1] + 1, o2[2])
        BY <2>3, <2>5
      <4> DEFINE a == o2[1]
                 b == o2[2]
      <4>2. a \in Nat /\ b \in Nat /\ a <= b /\ b <= Len(v2)
        BY <3>2
      <4> HIDE DEF a, b, r2
      <4>3. SubSeq(v2, 1, b) = SubSeq(v2, 1, a) \o SubSeq(v2, a + 1, b)
        BY <4>2, CutApart
      <4> QED BY <4>1, <4>3 DEF a, b
    <3>5. behind \in Seq(Elements) /\ before \in Seq(Elements) /\ r2[1] \in Seq(Elements)
      <4>1. r2[1] \in Seq(Elements)
        BY <2>3, <2>5
      <4>2. behind \in Seq(Elements)
        <5> DEFINE a == o1[n1] + 1
        <5>1. a \in Int /\ m \in Int /\ \A j \in a..m : v1[j] \in Elements
          BY <1>1, <1>2
        <5> HIDE DEF a, m
        <5>2. SubSeq(v1, a, m) \in Seq(Elements)
          BY <5>1, SubSeqProperties
        <5> QED BY <5>2 DEF a
      <4>3. before \in Seq(Elements)
        <5> DEFINE a == o2[1]
        <5>1. 1 \in Int /\ a \in Int /\ \A j \in 1..a : v2[j] \in Elements
          BY <1>1, <3>2
        <5> HIDE DEF a
        <5>2. SubSeq(v2, 1, a) \in Seq(Elements)
          BY <5>1, SubSeqProperties
        <5> QED BY <5>2 DEF a
      <4> QED BY <4>1, <4>2, <4>3
    <3> HIDE DEF behind, before, r2, w, p, from, m, n1
    <3>6. /\ behind \o (before \o r2[1]) = behind \o before \o r2[1]
          /\ behind \o before \o r2[1] \in Seq(Elements)
      <4> DEFINE x == r2[1]
      <4>1. x \in Seq(Elements)
        BY <3>5
      <4> HIDE DEF x
      <4>2. /\ behind \o (before \o x) = behind \o before \o x
            /\ behind \o before \o x \in Seq(Elements)
        <5>1. behind \o before \in Seq(Elements)
          BY <3>5, ConcatProperties
        <5>2. (behind \o before) \o x \in Seq(Elements)
          <6> DEFINE y == behind \o before
          <6>1. y \in Seq(Elements)
            BY <5>1
          <6> HIDE DEF y
          <6>2. y \o x \in Seq(Elements)
            BY <4>1, <6>1, ConcatProperties
          <6> QED BY <6>2 DEF y
        <5>3. (behind \o before) \o x = behind \o (before \o x)
          <6>1. behind \in Seq(Elements) /\ before \in Seq(Elements)
            BY <3>5
          <6>2. \A z \in Seq(Elements) : (behind \o before) \o z = behind \o (before \o z)
            BY <6>1, JoinedThree
          <6> QED BY <4>1, <6>2
        <5> QED BY <5>2, <5>3
      <4> QED BY <4>2 DEF x
    <3>7. next[k] = head
      BY <2>5
    <3>8. RowsOf(w, p)[(n1 - 1) + k] = SubSeq(w, o1[n1] + 1, m + o2[2])
      <4>1. k + 1 = 2
        BY <2>5
      <4> QED BY <2>2, <3>1, <4>1
    <3>9. RowsOf(w, p)[(n1 - 1) + k] = head
      BY <3>3, <3>4, <3>6, <3>8, Zenon
    <3> HIDE DEF next
    <3> QED BY <3>6, <3>7, <3>9, Zenon
  <2> QED BY <2>4, <2>5
<1>8. next \in Seq(Seq(Elements)) /\ Len(next) = n2 - 1
  <2>1. next \in [1..n2-1 -> Seq(Elements)] /\ n2 - 1 \in Nat
    <3>1. next = [k \in 1..n2-1 |-> next[k]]
      OBVIOUS
    <3> HIDE DEF next, n2, w, p, n1
    <3> QED BY <1>2, <1>7, <3>1
  <2> HIDE DEF next, n2
  <2> QED BY <2>1, FunctionIsSeq, Zenon
<1> HIDE DEF next, m, n1, n2, w, p, r1, r2
<1>9. /\ r1 \o next \in Seq(Seq(Elements)) /\ Len(r1 \o next) = (n1 - 1) + (n2 - 1)
      /\ \A i \in 1..(n1 - 1) + (n2 - 1) :
           (r1 \o next)[i] = IF i <= n1 - 1 THEN r1[i] ELSE next[i - (n1 - 1)]
  <2>1. /\ r1 \o next \in Seq(Seq(Elements))
        /\ Len(r1 \o next) = Len(r1) + Len(next)
        /\ \A i \in 1..Len(r1) + Len(next) :
             (r1 \o next)[i] = IF i <= Len(r1) THEN r1[i] ELSE next[i - Len(r1)]
    BY <1>5, <1>8, ConcatProperties
  <2> QED BY <1>5, <1>8, <2>1
<1>10. ASSUME NEW i \in 1..(n1 - 1) + (n2 - 1) PROVE RowsOf(w, p)[i] = (r1 \o next)[i]
  <2>1. CASE i <= n1 - 1
    <3>1. i \in 1..Len(o1)-1 /\ Len(o1) <= Len(p)
      BY <1>2, <1>4, <2>1 DEF n1
    <3>2. \A j \in 1..Len(o1) : p[j] = o1[j]
      BY <1>4 DEF n1
    <3>3. RowsOf(v1 \o v2, p)[i] = RowsOf(v1, o1)[i]
      BY <1>4, <3>1, <3>2, RowsStay
    <3> QED BY <1>9, <2>1, <3>3 DEF w, r1
  <2>2. CASE ~(i <= n1 - 1)
    <3> DEFINE k == i - (n1 - 1)
    <3>1. k \in 1..n2-1 /\ (n1 - 1) + k = i
      BY <1>2, <2>2
    <3>2. (r1 \o next)[i] = next[k]
      BY <1>9, <2>2
    <3> HIDE DEF k
    <3> QED BY <1>7, <3>1, <3>2
  <2> QED BY <2>1, <2>2
<1>11. RowsOf(w, p) = r1 \o next
  <2>1. (n1 - 1) + (n2 - 1) \in Nat
    BY <1>2
  <2> QED BY <1>6, <1>9, <1>10, <2>1, SeqEqual
<1> QED BY <1>11 DEF w, p, m, n1, n2, r1, r2, next, head, behind, before

LEMMA TornAppend ==
  ASSUME Typed, ~OutOfMemory, NEW h \in Handles, NEW row \in Vectors(Elements, MaxValues),
         Readable(values[h], offsets[h]), AppendRow(h, row)
  PROVE  Ragged!AppendRow(h, Behind(h) \o row)
<1> DEFINE v == values[h]
           o == offsets[h]
           w == v \o row
           p == Append(o, Len(w))
<1>1. Store(h, w, p) /\ live' = live \cup {h} /\ outcome' = "ok"
  BY DEF AppendRow, Report
<1>2. v \in Seq(Elements) /\ row \in Seq(Elements) /\ o \in Seq(Nat)
  BY InputTypes DEF Typed
<1>3. w \in Seq(Elements) /\ p \in Seq(Nat)
  BY <1>2, ConcatProperties, AppendProperties
<1>4. Ragged!Done(h, RowsOf(w, p))
  <2> HIDE DEF w, p
  <2> QED BY <1>1, <1>3, StoreDone
<1>5. RowsOf(w, p) = Append(RowsOf(v, o), Behind(h) \o row)
  BY <1>2, RowsOfTornAppended DEF Behind
<1> HIDE DEF w, p
<1> QED BY <1>4, <1>5 DEF Ragged!AppendRow

LEMMA TornConcat ==
  ASSUME Typed, ~OutOfMemory, NEW a \in Handles, NEW b \in Handles, NEW h \in Handles,
         Readable(values[a], offsets[a]), Readable(values[b], offsets[b]), ConcatRows(a, b, h)
  PROVE  \/ Ragged!Done(h, JoinedRows(a, b))
         \/ (Torn(a) \/ Torn(b)) /\ Ragged!Refused("invalid_argument")
<1> DEFINE w == values[a] \o values[b]
           p == offsets[a] \o Shifted(offsets[b], Len(values[a]))
<1>1. Result(h, w, p)
  <2>1. Joinable(a, b)
    BY DEF Joinable, Readable
  <2> QED BY <2>1 DEF ConcatRows, Shifted
<1>2. /\ w \in Seq(Elements) /\ p \in Seq(Nat)
      /\ values[a] \in Seq(Elements) /\ offsets[a] \in Seq(Nat)
      /\ values[b] \in Seq(Elements) /\ offsets[b] \in Seq(Nat)
  BY ConcatTypes DEF Typed
<1>3. CASE ValidOffsets(Len(w), p)
  <2>1. RowsOf(w, p) = JoinedRows(a, b)
    <3>1. /\ AllRows(a) = RowsOf(values[a], offsets[a])
          /\ AllRows(b) = RowsOf(values[b], offsets[b])
      BY RowsRead DEF RowList
    <3> DEFINE joined ==
                 RowsOf(values[a], offsets[a])
                   \o [k \in 1..Len(offsets[b])-1 |->
                         IF k = 1 THEN SubSeq(values[a], offsets[a][Len(offsets[a])] + 1, Len(values[a]))
                                         \o SubSeq(values[b], 1, offsets[b][1])
                                         \o RowsOf(values[b], offsets[b])[1]
                                  ELSE RowsOf(values[b], offsets[b])[k]]
    <3>2. JoinedRows(a, b) = joined
      BY <3>1, Zenon DEF JoinedRows, Behind, Before, Rows
    <3>3. RowsOf(w, p) = joined
      BY <1>2, <1>3, RowsOfTornJoined, Zenon
    <3> HIDE DEF joined, w, p
    <3> QED BY <3>2, <3>3
  <2> HIDE DEF w, p
  <2>2. Store(h, w, p) /\ live' = live \cup {h} /\ outcome' = "ok"
    BY <1>1, <1>3 DEF Result, Deliver, Report, ThrowOutOfMemory
  <2>3. Ragged!Done(h, RowsOf(w, p))
    BY <1>2, <2>2, StoreDone
  <2> QED BY <2>1, <2>3
<1>4. CASE ~ValidOffsets(Len(w), p)
  <2>1. Throw("invalid_argument")
    <3> HIDE DEF w, p
    <3> QED BY <1>1, <1>4 DEF Result, ThrowOutOfMemory
  <2>2. Torn(a) \/ Torn(b)
    BY <1>2, <1>4, RowsOfJoined DEF Torn, WellFormed
  <2> QED BY <2>1, <2>2, ThrowRefused
<1> QED BY <1>3, <1>4

LEMMA TornFill ==
  ASSUME Typed, ~OutOfMemory, NEW a \in Handles, NEW h \in Handles,
         NEW fill \in Elements, FillNone(a, fill, h)
  PROVE  \/ Ragged!Next
         \/ Torn(a) /\ Ragged!Refused("invalid_argument")
<1> DEFINE w == FilledOf(values[a], fill)
<1>1. Result(h, w, offsets[a])
  BY DEF FillNone, FilledOf
<1>2. w \in Seq(Elements) /\ Len(w) = Len(values[a])
  BY FilledType DEF Typed
<1> HIDE DEF w
<1>3. CASE WellFormed(a)
  BY <1>3, FillNoneRefines
<1>4. CASE ~WellFormed(a)
  <2>1. Throw("invalid_argument")
    BY <1>1, <1>2, <1>4 DEF Result, ThrowOutOfMemory, WellFormed
  <2> QED BY <1>4, <2>1, ThrowRefused DEF Torn
<1> QED BY <1>3, <1>4

LEMMA TornStep ==
  ASSUME Typed, ~OutOfMemory, \A h \in Handles : Readable(values[h], offsets[h]), RowNext
  PROVE  AnswersByRows
<1>0. ASSUME call'.op \notin {"AppendRow", "ConcatRows"}, Ragged!Next PROVE AnswersByRows
  BY <1>0 DEF AnswersByRows
<1>1. ASSUME NEW h \in Handles, NEW rs \in RowVectors, FromRows(h, rs) PROVE AnswersByRows
  BY <1>0, <1>1, FromRowsRefines DEF FromRows
<1>2. ASSUME NEW a \in Handles, NEW kind \in Reductions, Reduce(a, kind) PROVE AnswersByRows
  BY <1>0, <1>2, ReduceRefines DEF Reduce
<1>3. ASSUME NEW a \in Handles, NEW h \in Handles,
             NEW indices \in Vectors(0..MaxRows, MaxRows), TakeRows(a, indices, h)
      PROVE  AnswersByRows
  BY <1>0, <1>3, TakeRowsRefines DEF TakeRows
<1>4. ASSUME NEW a \in Handles, NEW h \in Handles,
             NEW keep \in Vectors(BOOLEAN, MaxRows), MaskRows(a, keep, h)
      PROVE  AnswersByRows
  BY <1>0, <1>4, MaskRowsRefines DEF MaskRows
<1>5. ASSUME NEW a \in Handles, NEW h \in Handles, SortRows(a, h) \/ IsNone(a, h) \/ DropNone(a, h)
      PROVE  AnswersByRows
  <2>1. call'.op \notin {"AppendRow", "ConcatRows"}
    BY <1>5 DEF SortRows, IsNone, DropNone
  <2>2. Ragged!Next
    BY <1>5, SortRowsRefines, IsNoneRefines, DropNoneRefines
  <2> QED BY <1>0, <2>1, <2>2
<1>6. ASSUME NEW a \in Handles, NEW h \in Handles, NEW fill \in Elements \ {Nullopt},
             FillNone(a, fill, h)
      PROVE  AnswersByRows
  <2>1. call'.op = "FillNone" /\ call'.of = a
    BY <1>6 DEF FillNone
  <2>2. CASE Ragged!Next
    BY <1>0, <2>1, <2>2
  <2>3. CASE Torn(a) /\ Ragged!Refused("invalid_argument")
    BY <2>1, <2>3 DEF AnswersByRows, Torn, WellFormed
  <2> QED BY <1>6, <2>2, <2>3, TornFill
<1>7. ASSUME NEW a \in Handles, NEW h \in Handles, NEW target \in 0..MaxValues, PadNone(a, target, h)
      PROVE  AnswersByRows
  BY <1>0, <1>7, PadNoneRefines DEF PadNone
<1>8. CASE Next
  <2>1. ASSUME NEW h \in Handles, NEW row \in Vectors(Elements, MaxValues), AppendRow(h, row)
        PROVE  AnswersByRows
    <3>1. call'.op = "AppendRow" /\ call'.to = h /\ call'.row = row
      BY <2>1 DEF AppendRow
    <3>2. Ragged!AppendRow(h, Behind(h) \o row)
      BY <2>1, TornAppend
    <3> QED BY <3>1, <3>2 DEF AnswersByRows
  <2>2. ASSUME NEW a \in Handles, NEW b \in Handles, NEW h \in Handles, ConcatRows(a, b, h)
        PROVE  AnswersByRows
    <3>1. call'.op = "ConcatRows" /\ call'.of = a /\ call'.with = b /\ call'.to = h
      BY <2>2 DEF ConcatRows
    <3>2. CASE Ragged!Done(h, JoinedRows(a, b))
      BY <3>1, <3>2 DEF AnswersByRows
    <3>3. CASE (Torn(a) \/ Torn(b)) /\ Ragged!Refused("invalid_argument")
      BY <3>1, <3>3 DEF AnswersByRows, Torn, WellFormed
    <3> QED BY <2>2, <3>2, <3>3, TornConcat
  <2> QED BY <1>0, <1>8, <2>1, <2>2, StepCases DEF PlainStep
<1> QED BY <1>1, <1>2, <1>3, <1>4, <1>5, <1>6, <1>7, <1>8 DEF RowNext

\* As long as its rows can be read, what a failed call left of an array answers
\* every later call by those rows, and what no row owns joins only the rows that
\* append_row and concat_rows add behind it, or makes concat_rows and fill_none
\* refuse; whichever allocations failed before (array.hpp:63-274, 384-459).
THEOREM TornArraysAnswer == RowSpec => TornArraysAnswerByTheirRows
<1> DEFINE Answer == (\A h \in Handles : Readable(values[h], offsets[h])) /\ outcome' # "bad_alloc"
                       => AnswersByRows
<1>1. TypeOK /\ [RowNext]_vars => [Answer]_vars
  <2> SUFFICES ASSUME TypeOK, RowNext, outcome' # "bad_alloc",
                      \A h \in Handles : Readable(values[h], offsets[h])
               PROVE  AnswersByRows
    OBVIOUS
  <2>1. ~OutOfMemory /\ Typed
    BY DEF OutOfMemory, TypeOK, Typed
  <2> QED BY <2>1, TornStep
<1> HIDE DEF Answer
<1>2. RowSpec => [][Answer]_vars
  BY <1>1, RowsTypeCorrect, PTL DEF RowSpec
<1> QED BY <1>2 DEF Answer, TornArraysAnswerByTheirRows

-----------------------------------------------------------------------------
(***************************************************************************)
(* The refinement.                                                         *)
(***************************************************************************)
\* While memory lasts, every public method does to the rows exactly what RaggedRows
\* demands of the call with its arguments, returns the numbers it demands, and is
\* refused exactly when it says so (array.hpp:63-274, 384-459).
THEOREM ArrayImplementsRows == MaxFailures = 0 /\ RowSpec => ImplementsRaggedRows
<1> SUFFICES ASSUME MaxFailures = 0 PROVE RowSpec => ImplementsRaggedRows
  OBVIOUS
<1>1. Init => Ragged!Init
  BY RowsOfEmpty DEF Init, Ragged!Init
<1>2. TypeOK /\ OffsetsWellFormed /\ [RowNext]_vars => [Ragged!Next]_(Ragged!vars)
  <2> SUFFICES ASSUME TypeOK, OffsetsWellFormed, [RowNext]_vars
               PROVE  [Ragged!Next]_(Ragged!vars)
    OBVIOUS
  <2>1. ~OutOfMemory /\ Typed /\ live \subseteq Handles
    BY DEF OutOfMemory, TypeOK, Typed
  <2>2. CASE RowNext
    BY <2>1, <2>2, RowStepRefines
  <2>3. CASE UNCHANGED vars
    BY <2>3 DEF vars, Ragged!vars
  <2> QED BY <2>2, <2>3
<1>3. RowSpec => []OffsetsWellFormed
  BY RowsStayWellFormed
<1> QED BY <1>1, <1>2, <1>3, RowsTypeCorrect, PTL DEF RowSpec, Ragged!Spec, ImplementsRaggedRows

\* The same of the storage alone: the constructors, copies, moves, append_row,
\* clear, reserve and concat_rows (array.hpp:63-103, 174-208).
THEOREM StorageImplementsRows == MaxFailures = 0 /\ Spec => ImplementsRaggedRows
<1>1. [Next]_vars => [RowNext]_vars
  BY DEF RowNext
<1>2. Spec => RowSpec
  BY <1>1, PTL DEF Spec, RowSpec
<1> QED BY <1>2, ArrayImplementsRows
=============================================================================
