------------------------------- MODULE Loops -------------------------------
(***************************************************************************)
(* What every loop over a count obeys: induction over its rounds.          *)
(*                                                                         *)
(* A model writes a loop as a recursive function on 0..n, whose value at k *)
(* is what the loop has collected after k rounds.  Such a definition is a  *)
(* CHOOSE: that a function with the equation exists is TableExists, and    *)
(* what holds after every round is TableInvariant.  Both rest on induction *)
(* over the numbers, for a SET of numbers, and that on the fact that the   *)
(* strict inclusion of finite sets is well-founded.                        *)
(***************************************************************************)
EXTENDS Integers, SequencesExt, FiniteSetTheorems, FunctionTheorems, WellFoundedInduction,
        TLAPS

\* A set of finite sets has a member that includes no other.
LEMMA MinimalSubset ==
  ASSUME NEW U, U # {}, \A x \in U : IsFiniteSet(x)
  PROVE  \E x \in U : \A y \in U : y \subseteq x => y = x
<1> DEFINE S == UNION U
<1>1. IsWellFoundedOn(StrictSubsetOrdering(S), FiniteSubsetsOf(S))
  BY FS_StrictSubsetOrderingWellFounded
<1>2. U \subseteq FiniteSubsetsOf(S)
  BY DEF FiniteSubsetsOf
<1>3. \E x \in U : \A y \in U : ~ (<<y, x>> \in StrictSubsetOrdering(S))
  <2> HIDE DEF FiniteSubsetsOf
  <2> QED BY <1>1, <1>2, WFMin
<1>4. \A x, y \in U : y \subseteq x /\ y # x => <<y, x>> \in StrictSubsetOrdering(S)
  BY DEF StrictSubsetOrdering
<1> QED
  BY <1>3, <1>4

\* A set of numbers has a least one.
LEMMA LeastElement ==
  ASSUME NEW T \in SUBSET Nat, T # {}
  PROVE  \E n \in T : \A m \in T : n <= m
<1> DEFINE U == {0..n : n \in T}
<1>1. \A n \in T : 0..n \subseteq Nat /\ IsFiniteSet(0..n)
  BY FS_Interval
<1>2. /\ \A x \in U : x \in SUBSET Nat /\ IsFiniteSet(x)
      /\ \A n \in T : 0..n \in U
      /\ \A x \in U : \E n \in T : x = 0..n
  BY <1>1
<1> HIDE DEF U
<1>3. U # {}
  BY <1>2
<1>4. PICK x \in U : \A y \in U : y \subseteq x => y = x
  BY <1>2, <1>3, MinimalSubset
<1>5. PICK n \in T : x = 0..n
  BY <1>2
<1>6. ASSUME NEW m \in T, m < n PROVE FALSE
  <2>1. n \in 0..n /\ n \notin 0..m /\ 0..m \subseteq 0..n
    BY <1>6
  <2> QED BY <1>2, <1>4, <1>5, <2>1
<1> QED
  BY <1>6

\* Induction, for the set of the numbers that have a property.
LEMMA InductionOnNat ==
  ASSUME NEW S, 0 \in S, \A n \in Nat : n \in S => n + 1 \in S
  PROVE  \A n \in Nat : n \in S
<1> DEFINE T == Nat \ S
<1> SUFFICES ASSUME T # {} PROVE FALSE
  OBVIOUS
<1>1. PICK n \in T : \A m \in T : n <= m
  BY LeastElement
<1>2. n # 0 /\ n - 1 \in Nat /\ n - 1 \notin T
  BY <1>1
<1> QED
  BY <1>2

\* The same, up to a bound.
LEMMA UpTo ==
  ASSUME NEW S, NEW n \in Nat, 0 \in S, \A k \in 1..n : k - 1 \in S => k \in S
  PROVE  \A k \in 0..n : k \in S
<1> DEFINE T == {k \in Nat : k <= n => k \in S}
<1>1. 0 \in T
  OBVIOUS
<1>2. \A k \in Nat : k \in T => k + 1 \in T
  <2> TAKE k \in Nat
  <2>1. CASE k + 1 <= n
    <3>1. k + 1 \in 1..n /\ (k + 1) - 1 = k /\ k <= n
      BY <2>1
    <3> QED BY <3>1
  <2>2. CASE ~(k + 1 <= n)
    BY <2>2
  <2> QED BY <2>1, <2>2
<1> HIDE DEF T
<1>3. \A k \in Nat : k \in T
  BY <1>1, <1>2, InductionOnNat
<1> QED BY <1>3 DEF T

\* What holds of the first entry and is handed on holds of all.
LEMMA TableInvariant ==
  ASSUME NEW T, NEW n \in Nat, NEW f,
         f[0] \in T, \A k \in 1..n : f[k-1] \in T => f[k] \in T
  PROVE  \A k \in 0..n : f[k] \in T
<1> DEFINE S == {k \in 0..n : f[k] \in T}
<1>1. 0 \in S /\ \A k \in 1..n : k - 1 \in S => k \in S
  OBVIOUS
<1> HIDE DEF S
<1>2. \A k \in 0..n : k \in S
  BY <1>1, UpTo
<1> QED BY <1>2 DEF S

\* f is filled from its first entry on, each from the one before.
IsTable(f, T, base, n, step) ==
  /\ f \in [0..n -> T]
  /\ f[0] = base
  /\ \A k \in 1..n : f[k] = step[k][f[k-1]]

\* There is such a table, whatever its first entry and its step: a loop of any
\* number of rounds computes something.
LEMMA TableExists ==
  ASSUME NEW T, NEW base \in T, NEW n \in Nat, NEW step \in [1..n -> [T -> T]]
  PROVE  \E f : IsTable(f, T, base, n, step)
<1> DEFINE Table(m, f) == IsTable(f, T, base, m, step)
           S == {m \in Nat : \E f : Table(m, f)}
<1>1. 0 \in S
  <2>1. Table(0, [k \in 0..0 |-> base])
    BY DEF IsTable
  <2> HIDE DEF Table
  <2> QED BY <2>1
<1>2. ASSUME NEW m \in 1..n, m - 1 \in S PROVE m \in S
  <2>1. PICK f : Table(m - 1, f)
    BY <1>2
  <2>2. /\ f \in [0..m-1 -> T] /\ f[0] = base
        /\ \A k \in 1..m-1 : f[k] = step[k][f[k-1]]
    BY <2>1 DEF IsTable
  <2> DEFINE x == step[m][f[m-1]]
             g == [k \in 0..m |-> IF k = m THEN x ELSE f[k]]
  <2>3. x \in T
    BY <2>2
  <2>4. g \in [0..m -> T] /\ g[0] = base /\ \A k \in 0..m-1 : g[k] = f[k]
    BY <2>2, <2>3
  <2>5. g[m] = step[m][g[m-1]]
    <3>1. m \in 0..m /\ m - 1 \in 0..m-1
      BY <1>2
    <3>2. g[m] = x /\ g[m-1] = f[m-1]
      BY <2>4, <3>1
    <3> QED BY <3>2
  <2>6. ASSUME NEW k \in 1..m-1 PROVE g[k] = step[k][g[k-1]]
    BY <2>2, <2>4
  <2>7. Table(m, g)
    <3> HIDE DEF g, x
    <3> QED BY <2>4, <2>5, <2>6 DEF IsTable
  <2> HIDE DEF Table, g
  <2> QED BY <2>7
<1> HIDE DEF S
<1>3. n \in S
  <2>1. \A k \in 0..n : k \in S
    BY <1>1, <1>2, UpTo
  <2> QED BY <2>1
<1> QED BY <1>3 DEF S

-----------------------------------------------------------------------------
(***************************************************************************)
(* Counting the members of a set of positions up to one of them.           *)
(***************************************************************************)
\* The members of K up to m.
Below(K, m) == {j \in K : j <= m}

LEMMA BelowFinite ==
  ASSUME NEW n \in Nat, NEW K \in SUBSET (1..n), NEW m \in Int
  PROVE  IsFiniteSet(Below(K, m)) /\ Cardinality(Below(K, m)) \in Nat
<1>1. IsFiniteSet(1..n)
  BY FS_Interval
<1>2. Below(K, m) \subseteq 1..n
  BY DEF Below
<1>3. IsFiniteSet(Below(K, m))
  BY <1>1, <1>2, FS_Subset
<1> QED BY <1>3, FS_CardinalityType

\* One number more is one member more, or none.
LEMMA BelowStep ==
  ASSUME NEW n \in Nat, NEW K \in SUBSET (1..n), NEW m \in 1..n
  PROVE  /\ m \in K => Cardinality(Below(K, m)) = Cardinality(Below(K, m-1)) + 1
         /\ m \notin K => Below(K, m) = Below(K, m-1)
<1>1. \A j \in K : j <= m <=> j <= m - 1 \/ j = m
  <2>1. \A j \in K : j \in Int
    OBVIOUS
  <2> QED BY <2>1
<1>2. ASSUME m \in K PROVE Cardinality(Below(K, m)) = Cardinality(Below(K, m-1)) + 1
  <2>1. Below(K, m) = Below(K, m-1) \cup {m}
    BY <1>1, <1>2 DEF Below
  <2>2. m \notin Below(K, m-1)
    BY DEF Below
  <2>3. IsFiniteSet(Below(K, m-1))
    <3>1. m - 1 \in Int
      OBVIOUS
    <3> QED BY <3>1, BelowFinite
  <2> DEFINE B == Below(K, m-1)
  <2> HIDE DEF B
  <2>4. Cardinality(B \cup {m}) = Cardinality(B) + 1
    BY <2>2, <2>3, FS_AddElement DEF B
  <2> QED BY <2>1, <2>4 DEF B
<1>3. ASSUME m \notin K PROVE Below(K, m) = Below(K, m-1)
  BY <1>1, <1>3 DEF Below
<1> QED BY <1>2, <1>3

\* Different members of K have different numbers of members up to them.
LEMMA BelowInjective ==
  ASSUME NEW n \in Nat, NEW K \in SUBSET (1..n), NEW i \in K, NEW j \in K,
         Cardinality(Below(K, i)) = Cardinality(Below(K, j))
  PROVE  i = j
<1>1. \A a \in K : a \in Int
  OBVIOUS
<1>2. ASSUME NEW a \in K PROVE IsFiniteSet(Below(K, a)) /\ Cardinality(Below(K, a)) \in Nat
  BY <1>1, BelowFinite
<1>3. ASSUME NEW a \in K, NEW b \in K, a < b
      PROVE  Cardinality(Below(K, a)) # Cardinality(Below(K, b))
  <2>1. \A k \in K : k <= a => k <= b
    BY <1>1, <1>3
  <2>2. Below(K, a) \subseteq Below(K, b)
    BY <2>1 DEF Below
  <2>3. b <= b /\ ~(b <= a)
    BY <1>1, <1>3
  <2>4. b \in Below(K, b) /\ b \notin Below(K, a)
    BY <2>3 DEF Below
  <2> QED BY <1>2, <2>2, <2>4, FS_Subset
<1>4. i < j \/ j < i \/ i = j
  BY <1>1
<1> QED BY <1>3, <1>4

-----------------------------------------------------------------------------
(***************************************************************************)
(* A finite sequence of numbers can be put in order.                       *)
(***************************************************************************)
\* p puts the first m elements of s in ascending order.
Orders(s, m, p) ==
  /\ p \in [1..m -> 1..m]
  /\ \A a, b \in 1..m : p[a] = p[b] => a = b
  /\ \A t \in 1..m : \E a \in 1..m : p[a] = t
  /\ \A a, b \in 1..m : a < b => s[p[a]] <= s[p[b]]

\* One element more is inserted behind those that are not above it.
LEMMA InsertElement ==
  ASSUME NEW n \in Nat, NEW s \in [1..n -> Int], NEW m \in 1..n,
         NEW p, Orders(s, m - 1, p)
  PROVE  \E q : Orders(s, m, q)
<1> DEFINE C == {i \in 1..m : i = m \/ (i < m /\ s[m] < s[p[i]])}
<1>0. /\ p \in [1..m-1 -> 1..m-1]
      /\ \A a, b \in 1..m-1 : p[a] = p[b] => a = b
      /\ \A t \in 1..m-1 : \E a \in 1..m-1 : p[a] = t
      /\ \A a, b \in 1..m-1 : a < b => s[p[a]] <= s[p[b]]
  BY DEF Orders
<1>1. PICK c \in C : \A i \in C : c <= i
  <2>1. C \in SUBSET Nat /\ m \in C
    OBVIOUS
  <2> HIDE DEF C
  <2> QED BY <2>1, LeastElement
<1>2. c \in 1..m
  BY <1>1
<1>3. /\ \A i \in 1..m-1 : p[i] \in 1..m-1 /\ s[p[i]] \in Int
      /\ s[m] \in Int
  <2>1. 1..m-1 \subseteq 1..n
    OBVIOUS
  <2>2. \A i \in 1..m-1 : p[i] \in 1..m-1
    BY <1>0
  <2>3. \A i \in 1..n : s[i] \in Int
    OBVIOUS
  <2> QED BY <2>1, <2>2, <2>3
<1>4. ASSUME NEW i \in 1..m-1, i < c PROVE s[p[i]] <= s[m]
  <2>1. i \in 1..m /\ i < m /\ i # m
    OBVIOUS
  <2>2. i \notin C
    <3> HIDE DEF C
    <3>1. ~(c <= i)
      BY <1>2, <1>4
    <3> QED BY <1>1, <3>1
  <2>3. ~(s[m] < s[p[i]])
    BY <2>1, <2>2
  <2> QED BY <1>3, <2>3
<1>5. ASSUME NEW i \in 1..m-1, c <= i PROVE s[m] <= s[p[i]]
  <2>1. c \in 1..m-1 /\ s[m] < s[p[c]]
    BY <1>1, <1>5
  <2>2. c = i \/ s[p[c]] <= s[p[i]]
    <3>1. c = i \/ c < i
      BY <1>2, <1>5
    <3> QED BY <1>0, <2>1, <3>1
  <2> QED BY <1>3, <2>1, <2>2
<1> HIDE DEF C
<1> DEFINE q == [i \in 1..m |-> IF i < c THEN p[i] ELSE IF i = c THEN m ELSE p[i-1]]
<1>6. ASSUME NEW i \in 1..m
      PROVE  \/ i < c /\ i \in 1..m-1 /\ q[i] = p[i]
             \/ i = c /\ q[i] = m
             \/ c < i /\ i - 1 \in 1..m-1 /\ c <= i - 1 /\ q[i] = p[i-1]
  BY <1>2
<1>7. q \in [1..m -> 1..m]
  <2>1. \A i \in 1..m : q[i] \in 1..m
    <3> HIDE DEF q
    <3>1. \A i \in 1..m-1 : p[i] \in 1..m
      BY <1>3
    <3>2. m \in 1..m
      OBVIOUS
    <3> QED BY <1>6, <3>1, <3>2
  <2> QED BY <2>1
<1> HIDE DEF q
<1>8. ASSUME NEW a \in 1..m, NEW b \in 1..m, q[a] = q[b] PROVE a = b
  <2>1. \A i \in 1..m-1 : p[i] # m
    BY <1>3
  <2>2. CASE a < c /\ b < c
    BY <1>0, <1>2, <1>6, <1>8, <2>2
  <2>3. CASE a < c /\ b = c
    <3>1. a \in 1..m-1 /\ q[a] = p[a] /\ q[b] = m
      BY <1>2, <1>6, <2>3
    <3> QED BY <1>8, <2>1, <3>1
  <2>4. CASE a < c /\ c < b
    <3>1. p[a] = p[b-1] /\ a \in 1..m-1 /\ b - 1 \in 1..m-1 /\ a # b - 1
      BY <1>2, <1>6, <1>8, <2>4
    <3> QED BY <1>0, <3>1
  <2>5. CASE a = c /\ b # c
    BY <1>2, <1>6, <1>8, <2>1, <2>5
  <2>6. CASE a = c /\ b = c
    BY <2>6
  <2>7. CASE c < a /\ b < c
    <3>1. p[b] = p[a-1] /\ b \in 1..m-1 /\ a - 1 \in 1..m-1 /\ b # a - 1
      BY <1>2, <1>6, <1>8, <2>7
    <3> QED BY <1>0, <3>1
  <2>8. CASE c < a /\ b = c
    <3>1. a - 1 \in 1..m-1 /\ q[a] = p[a-1] /\ q[b] = m
      BY <1>2, <1>6, <2>8
    <3> QED BY <1>8, <2>1, <3>1
  <2>9. CASE c < a /\ c < b
    <3>1. p[a-1] = p[b-1] /\ a - 1 \in 1..m-1 /\ b - 1 \in 1..m-1
      BY <1>2, <1>6, <1>8, <2>9
    <3>2. a - 1 = b - 1
      BY <1>0, <3>1
    <3> QED BY <3>2
  <2> QED BY <1>2, <2>2, <2>3, <2>4, <2>5, <2>6, <2>7, <2>8, <2>9
<1>9. ASSUME NEW t \in 1..m PROVE \E a \in 1..m : q[a] = t
  <2>1. CASE t = m
    BY <1>2, <1>6, <2>1
  <2>2. CASE t # m
    <3>1. PICK a \in 1..m-1 : p[a] = t
      <4>1. t \in 1..m-1
        BY <2>2
      <4> QED BY <1>0, <4>1
    <3>2. CASE a < c
      <4>1. a \in 1..m /\ ~(a = c) /\ ~(c < a)
        BY <1>2, <3>2
      <4> QED BY <1>6, <3>1, <4>1
    <3>3. CASE c <= a
      <4>1. a + 1 \in 1..m /\ ~(a + 1 < c) /\ ~(a + 1 = c) /\ (a + 1) - 1 = a
        BY <1>2, <3>3
      <4> QED BY <1>6, <3>1, <4>1
    <3> QED BY <1>2, <3>2, <3>3
  <2> QED BY <2>1, <2>2
<1>10. ASSUME NEW a \in 1..m, NEW b \in 1..m, a < b PROVE s[q[a]] <= s[q[b]]
  <2>1. CASE b < c
    <3>1. a < c /\ a \in 1..m-1 /\ b \in 1..m-1 /\ q[a] = p[a] /\ q[b] = p[b]
      BY <1>2, <1>6, <1>10, <2>1
    <3> QED BY <1>0, <1>10, <3>1
  <2>2. CASE b = c
    <3>1. a < c /\ a \in 1..m-1 /\ q[a] = p[a] /\ q[b] = m
      BY <1>2, <1>6, <1>10, <2>2
    <3> QED BY <1>4, <3>1
  <2>3. CASE c < b /\ a < c
    <3>1. a \in 1..m-1 /\ b - 1 \in 1..m-1 /\ a < b - 1 /\ q[a] = p[a] /\ q[b] = p[b-1]
      BY <1>2, <1>6, <1>10, <2>3
    <3> QED BY <1>0, <3>1
  <2>4. CASE c < b /\ a = c
    <3>1. b - 1 \in 1..m-1 /\ c <= b - 1 /\ q[a] = m /\ q[b] = p[b-1]
      BY <1>2, <1>6, <1>10, <2>4
    <3> QED BY <1>5, <3>1
  <2>5. CASE c < a
    <3>1. a - 1 \in 1..m-1 /\ b - 1 \in 1..m-1 /\ a - 1 < b - 1 /\ q[a] = p[a-1] /\ q[b] = p[b-1]
      BY <1>2, <1>6, <1>10, <2>5
    <3> QED BY <1>0, <3>1
  <2> QED BY <1>2, <2>1, <2>2, <2>3, <2>4, <2>5
<1>11. Orders(s, m, q)
  BY <1>7, <1>8, <1>9, <1>10 DEF Orders
<1> QED BY <1>11

\* A permutation of the positions puts the elements in order.
LEMMA OrderExists ==
  ASSUME NEW n \in Nat, NEW s \in [1..n -> Int]
  PROVE  \E p \in Bijection(1..n, 1..n) : \A a, b \in 1..n : a < b => s[p[a]] <= s[p[b]]
<1> DEFINE T == {m \in 0..n : \E p : Orders(s, m, p)}
<1>1. 0 \in T
  <2>1. Orders(s, 0, [i \in 1..0 |-> i])
    BY DEF Orders
  <2> QED BY <2>1
<1>2. ASSUME NEW m \in 1..n, m - 1 \in T PROVE m \in T
  BY <1>2, InsertElement
<1> HIDE DEF T
<1>3. n \in T
  <2>1. \A m \in 0..n : m \in T
    BY <1>1, <1>2, UpTo
  <2> QED BY <2>1
<1>4. PICK p : Orders(s, n, p)
  BY <1>3 DEF T
<1>5. p \in Bijection(1..n, 1..n)
  BY <1>4 DEF Orders, Bijection, Injection, Surjection, IsInjective
<1> QED BY <1>4, <1>5 DEF Orders

-----------------------------------------------------------------------------
(***************************************************************************)
(* Putting parts one after the other.                                      *)
(***************************************************************************)
\* f puts one part behind the other.
IsFlattening(f, parts, T) ==
  /\ f \in [0..Len(parts) -> T]
  /\ f[0] = <<>>
  /\ \A k \in 1..Len(parts) : f[k] = f[k-1] \o parts[k]

\* FlattenSeq is a loop that puts one part after the other behind what there is.
LEMMA FlattenLoop ==
  ASSUME NEW S, NEW parts \in Seq(Seq(S))
  PROVE  \E f : IsFlattening(f, parts, Seq(S)) /\ FlattenSeq(parts) = f[Len(parts)]
<1> DEFINE n == Len(parts)
           T == Seq(S)
           step == [k \in 1..n |-> [x \in T |-> x \o parts[k]]]
<1>1. n \in Nat /\ <<>> \in T /\ \A k \in 1..n : parts[k] \in T
  OBVIOUS
<1>2. \A k \in 1..n, x \in T : x \o parts[k] \in T
  OBVIOUS
<1>3. step \in [1..n -> [T -> T]]
  BY <1>2
<1>4. \A k \in 1..n, x \in T : step[k][x] = x \o parts[k]
  OBVIOUS
<1>5. \A x \in T : <<>> \o x = x
  OBVIOUS
<1> HIDE DEF step, T
<1>6. PICK f : IsTable(f, T, <<>>, n, step)
  <2> HIDE DEF n
  <2> QED BY <1>1, <1>3, TableExists
<1>7. f \in [0..n -> T] /\ f[0] = <<>>
  BY <1>6 DEF IsTable
<1>8. \A k \in 1..n : f[k-1] \in T
  <2> HIDE DEF n
  <2> QED BY <1>1, <1>7
<1>9. \A k \in 1..n : f[k] = f[k-1] \o parts[k]
  <2> HIDE DEF n
  <2> QED BY <1>4, <1>6, <1>8 DEF IsTable
<1>10. IsFlattening(f, parts, T)
  BY <1>7, <1>9 DEF IsFlattening
<1>11. CASE n = 0
  <2>1. parts = <<>> /\ FlattenSeq(parts) = parts
    BY <1>11 DEF FlattenSeq
  <2> QED BY <1>7, <1>10, <1>11, <2>1 DEF T
<1>12. CASE n # 0
  <2> DEFINE Flattens(g) == g = [i \in 1..n |-> IF i = 1 THEN parts[i] ELSE g[i-1] \o parts[i]]
             flatten == CHOOSE g : Flattens(g)
             h == [i \in 1..n |-> f[i]]
             r == [k \in 0..n |-> IF k = 0 THEN <<>> ELSE flatten[k]]
  <2>1. 1 \in 1..n /\ 1 - 1 = 0
    BY <1>1, <1>12
  <2>2. f[1] = parts[1]
    <3> HIDE DEF n
    <3>1. f[1] = f[1-1] \o parts[1]
      BY <1>9, <2>1
    <3> QED BY <1>1, <1>5, <1>7, <2>1, <3>1
  <2>3. Flattens(h)
    <3>1. ASSUME NEW i \in 1..n, i = 1 PROVE h[i] = parts[i]
      BY <2>2, <3>1
    <3>2. ASSUME NEW i \in 1..n, i # 1 PROVE h[i] = h[i-1] \o parts[i]
      <4>1. i - 1 \in 1..n
        BY <1>1, <3>2
      <4> QED BY <1>9, <4>1
    <3>3. ASSUME NEW i \in 1..n PROVE h[i] = IF i = 1 THEN parts[i] ELSE h[i-1] \o parts[i]
      <4> HIDE DEF h
      <4> QED BY <3>1, <3>2
    <3> QED BY <3>3
  <2>4. Flattens(flatten)
    <3> HIDE DEF Flattens
    <3> QED BY <2>3
  <2>5. FlattenSeq(parts) = flatten[n]
    BY <1>12 DEF FlattenSeq
  <2> HIDE DEF flatten
  <2>6. \A i \in 1..n : flatten[i] = IF i = 1 THEN parts[i] ELSE flatten[i-1] \o parts[i]
    BY <2>4
  <2>7. r[0] = <<>> /\ r[n] = flatten[n] /\ \A k \in 1..n : r[k] = flatten[k]
    BY <1>1, <1>12
  <2>8. DOMAIN r = 0..n /\ r = [k \in 0..n |-> r[k]]
    OBVIOUS
  <2> HIDE DEF r, n
  <2>9. ASSUME NEW k \in 1..n PROVE r[k] = r[k-1] \o parts[k]
    <3>1. CASE k = 1
      <4>1. r[k-1] = <<>> /\ r[k] = parts[k]
        BY <2>1, <2>6, <2>7, <3>1
      <4> QED BY <1>1, <1>5, <4>1
    <3>2. CASE k # 1
      <4>1. k - 1 \in 1..n
        BY <1>1, <3>2
      <4> QED BY <2>6, <2>7, <3>2, <4>1
    <3> QED BY <3>1, <3>2
  <2>10. r[0] \in T /\ \A k \in 1..n : r[k-1] \in T => r[k] \in T
    BY <1>1, <1>2, <2>7, <2>9
  <2>11. \A k \in 0..n : r[k] \in T
    BY <1>1, <2>10, TableInvariant
  <2>12. r \in [0..n -> T]
    BY <2>8, <2>11
  <2>13. IsFlattening(r, parts, T)
    BY <2>7, <2>9, <2>12 DEF IsFlattening, n
  <2> QED BY <2>5, <2>7, <2>13 DEF T, n
<1> QED BY <1>11, <1>12

\* No parts make no text.
LEMMA FlattenEmpty == FlattenSeq(<<>>) = <<>>
BY DEF FlattenSeq

\* Parts of a set's members make a sequence of them.
LEMMA FlattenType ==
  ASSUME NEW S, NEW parts \in Seq(Seq(S))
  PROVE  FlattenSeq(parts) \in Seq(S)
<1>1. PICK f : IsFlattening(f, parts, Seq(S)) /\ FlattenSeq(parts) = f[Len(parts)]
  BY FlattenLoop
<1>2. Len(parts) \in 0..Len(parts)
  OBVIOUS
<1> QED BY <1>1, <1>2 DEF IsFlattening

\* One part more is put behind the others.
LEMMA FlattenAppend ==
  ASSUME NEW S, NEW parts \in Seq(Seq(S)), NEW p \in Seq(S)
  PROVE  FlattenSeq(Append(parts, p)) = FlattenSeq(parts) \o p
<1> DEFINE n == Len(parts)
           more == Append(parts, p)
<1>1. /\ n \in Nat /\ more \in Seq(Seq(S)) /\ Len(more) = n + 1
      /\ more[n + 1] = p /\ \A k \in 1..n : more[k] = parts[k]
  OBVIOUS
<1> HIDE DEF more
<1>2. PICK f : IsFlattening(f, parts, Seq(S)) /\ FlattenSeq(parts) = f[n]
  BY FlattenLoop
<1>3. PICK g : IsFlattening(g, more, Seq(S)) /\ FlattenSeq(more) = g[Len(more)]
  BY <1>1, FlattenLoop
<1> HIDE DEF n
<1>4. f[0] = <<>> /\ \A k \in 1..n : f[k] = f[k-1] \o parts[k]
  BY <1>2 DEF IsFlattening, n
<1>5. g[0] = <<>> /\ \A k \in 1..n+1 : g[k] = g[k-1] \o more[k]
  BY <1>1, <1>3 DEF IsFlattening
<1> DEFINE Same == {k \in 0..n : g[k] = f[k]}
<1>6. 0 \in Same
  BY <1>1, <1>4, <1>5
<1>7. ASSUME NEW k \in 1..n, k - 1 \in Same PROVE k \in Same
  <2>1. k \in 1..n+1 /\ g[k-1] = f[k-1] /\ k \in 0..n
    BY <1>1, <1>7
  <2>2. g[k] = g[k-1] \o more[k] /\ f[k] = f[k-1] \o parts[k] /\ more[k] = parts[k]
    BY <1>1, <1>4, <1>5, <2>1
  <2> QED BY <2>1, <2>2
<1> HIDE DEF Same
<1>8. \A k \in 0..n : k \in Same
  BY <1>1, <1>6, <1>7, UpTo
<1>9. g[n] = f[n]
  BY <1>1, <1>8 DEF Same
<1>10. n + 1 \in 1..n+1 /\ (n + 1) - 1 = n
  BY <1>1
<1>11. g[n+1] = g[n] \o p
  BY <1>1, <1>5, <1>10
<1> QED BY <1>1, <1>2, <1>3, <1>9, <1>11 DEF more
=============================================================================
