------------------------ MODULE BinaryExchangeProofs ------------------------
(***************************************************************************)
(* Proofs about the binary of a map of buffers: what the writer writes the *)
(* reader reads back, what the reader accepts the writer would have        *)
(* written, and no step of reading looks behind the last byte.             *)
(*                                                                         *)
(* A text t "stands" in a longer one at a position when its bytes are      *)
(* there.  Of every function of the reader there are two lemmas: what it   *)
(* returns stands in what it read (<function>Sound), and what stands there *)
(* it returns (<function>Complete).                                        *)
(***************************************************************************)
EXTENDS BinaryExchange, Loops

-----------------------------------------------------------------------------
(***************************************************************************)
(* Division.                                                               *)
(***************************************************************************)
\* The remainder of a division by a positive number, and what it leaves.
LEMMA Divided ==
  ASSUME NEW a \in Int, NEW b \in Int, b > 0
  PROVE  a % b \in 0..(b - 1) /\ a \div b \in Int /\ a = b * (a \div b) + (a % b)
OBVIOUS

\* A multiple and a remainder are taken apart again.
LEMMA DividedOnce ==
  ASSUME NEW b \in Int, b > 0, NEW q \in Int, NEW r \in 0..(b - 1)
  PROVE  (b * q + r) \div b = q /\ (b * q + r) % b = r
<1> DEFINE a == b * q + r
<1>1. a \in Int
  OBVIOUS
<1>2. a \div b = q
  OBVIOUS
<1>3. a % b = a - b * (a \div b)
  OBVIOUS
<1> QED BY <1>1, <1>2, <1>3

-----------------------------------------------------------------------------
(***************************************************************************)
(* Numbers.                                                                *)
(***************************************************************************)
\* PlaceValue is the function that its equation describes: there is one.
LEMMA PlaceValueLoop ==
  /\ PlaceValue \in [0..WordBytes -> Nat]
  /\ PlaceValue[0] = 1
  /\ \A k \in 1..WordBytes : PlaceValue[k] = ByteSize * PlaceValue[k-1]
<1> DEFINE step == [k \in 1..WordBytes |-> [x \in Nat |-> ByteSize * x]]
<1>1. WordBytes \in Nat /\ ByteSize \in Nat
  BY WordBytesAssumption, ByteSizeAssumption
<1>2. step \in [1..WordBytes -> [Nat -> Nat]]
  BY <1>1
<1>3. \A k \in 1..WordBytes, x \in Nat : step[k][x] = ByteSize * x
  OBVIOUS
<1> HIDE DEF step
<1>4. PICK f : IsTable(f, Nat, 1, WordBytes, step)
  BY <1>1, <1>2, TableExists
<1>5. /\ f \in [0..WordBytes -> Nat] /\ f[0] = 1
      /\ \A k \in 1..WordBytes : f[k] = ByteSize * f[k-1]
  <2>1. \A k \in 1..WordBytes : f[k-1] \in Nat
    BY <1>1, <1>4 DEF IsTable
  <2> QED BY <1>3, <1>4, <2>1 DEF IsTable
<1>6. f = [k \in 0..WordBytes |-> IF k = 0 THEN 1 ELSE ByteSize * f[k-1]]
  BY <1>1, <1>5
<1>7. PlaceValue = [k \in 0..WordBytes |-> IF k = 0 THEN 1 ELSE ByteSize * PlaceValue[k-1]]
  BY <1>6 DEF PlaceValue
<1>8. PlaceValue[0] = 1 /\ \A k \in 1..WordBytes : PlaceValue[k] = ByteSize * PlaceValue[k-1]
  BY <1>1, <1>7
<1>9. \A k \in 1..WordBytes : PlaceValue[k-1] \in Nat => PlaceValue[k] \in Nat
  BY <1>1, <1>8
<1> DEFINE T == Nat
<1>10. PlaceValue[0] \in T /\ \A k \in 1..WordBytes : PlaceValue[k-1] \in T => PlaceValue[k] \in T
  BY <1>8, <1>9
<1> HIDE DEF T
<1>11. \A k \in 0..WordBytes : PlaceValue[k] \in T
  BY <1>1, <1>10, TableInvariant
<1> QED BY <1>7, <1>8, <1>11 DEF T

\* Every place counts more than the one before.
LEMMA PlaceValues ==
  /\ \A k \in 0..WordBytes : PlaceValue[k] \in Nat \ {0}
  /\ \A k \in 1..WordBytes : PlaceValue[k] = ByteSize * PlaceValue[k-1]
  /\ PlaceValue[0] = 1
  /\ Word \in Nat /\ Word > 6
<1>1. WordBytes \in Nat \ {0} /\ ByteSize \in Nat /\ ByteSize > 6
  BY WordBytesAssumption, ByteSizeAssumption
<1> DEFINE T == Nat \ {0}
<1>2. PlaceValue[0] \in T
  BY PlaceValueLoop
<1>3. \A k \in 1..WordBytes : PlaceValue[k-1] \in T => PlaceValue[k] \in T
  BY <1>1, PlaceValueLoop
<1> HIDE DEF T
<1>4. \A k \in 0..WordBytes : PlaceValue[k] \in T
  BY <1>1, <1>2, <1>3, TableInvariant
<1>5. Word \in Nat /\ Word > 6
  <2> DEFINE p == PlaceValue[WordBytes-1]
  <2>1. p \in Nat \ {0}
    BY <1>1, <1>4 DEF T
  <2>2. Word = ByteSize * p
    BY <1>1, PlaceValueLoop DEF Word
  <2> HIDE DEF p
  <2> QED BY <1>1, <2>1, <2>2
<1> QED BY <1>4, <1>5, PlaceValueLoop DEF T

\* A number's bytes are bytes, as many as a word has.
LEMMA NumberBytesType ==
  ASSUME NEW i \in Int
  PROVE  NumberBytes(i) \in [1..WordBytes -> Byte]
<1>1. ASSUME NEW k \in 1..WordBytes
      PROVE  ((i % Word) \div PlaceValue[k-1]) % ByteSize \in Byte
  <2>1. i % Word \in Int
    BY PlaceValues, Divided
  <2>2. PlaceValue[k-1] \in Nat /\ PlaceValue[k-1] > 0
    BY WordBytesAssumption, PlaceValues
  <2>3. (i % Word) \div PlaceValue[k-1] \in Int
    BY <2>1, <2>2, Divided
  <2>4. ByteSize \in Int /\ ByteSize > 0
    BY ByteSizeAssumption
  <2> HIDE DEF Byte
  <2> QED BY <2>3, <2>4, Divided DEF Byte
<1> QED BY <1>1 DEF NumberBytes

\* f sums up the first bytes of b, each at its place.
IsSum(f, b) ==
  /\ f \in [0..WordBytes -> Nat]
  /\ f[0] = 0
  /\ \A k \in 1..WordBytes : f[k] = f[k-1] + b[k] * PlaceValue[k-1]

\* There is a loop that sums the bytes up, and NumberOfBytes is its last value.
LEMMA NumberOfBytesLoop ==
  ASSUME NEW b \in [1..WordBytes -> Byte]
  PROVE  \E f : IsSum(f, b) /\ NumberOfBytes(b) = f[WordBytes]
<1> DEFINE term(k) == b[k] * PlaceValue[k-1]
           step == [k \in 1..WordBytes |-> [x \in Nat |-> x + term(k)]]
<1>1. WordBytes \in Nat /\ ByteSize \in Nat /\ Len(b) = WordBytes
  BY WordBytesAssumption, ByteSizeAssumption
<1>2. \A k \in 1..WordBytes : term(k) \in Nat
  <2> TAKE k \in 1..WordBytes
  <2>1. PlaceValue[k-1] \in Nat /\ b[k] \in Nat
    BY <1>1, PlaceValues DEF Byte
  <2> QED BY <2>1
<1> HIDE DEF term
<1>3. step \in [1..WordBytes -> [Nat -> Nat]]
  BY <1>2
<1>4. \A k \in 1..WordBytes, x \in Nat : step[k][x] = x + term(k)
  OBVIOUS
<1> HIDE DEF step
<1>5. PICK f : IsTable(f, Nat, 0, WordBytes, step)
  BY <1>1, <1>3, TableExists
<1>6. /\ f \in [0..WordBytes -> Nat] /\ f[0] = 0
      /\ \A k \in 1..WordBytes : f[k] = f[k-1] + term(k)
  <2>1. \A k \in 1..WordBytes : f[k-1] \in Nat
    BY <1>1, <1>5 DEF IsTable
  <2> QED BY <1>4, <1>5, <2>1 DEF IsTable
<1> DEFINE Sums(g) == g = [k \in 0..Len(b) |-> IF k = 0 THEN 0 ELSE g[k-1] + b[k] * PlaceValue[k-1]]
           sum == CHOOSE g : Sums(g)
<1>7. Sums(f)
  BY <1>1, <1>6 DEF term
<1>8. Sums(sum)
  <2> HIDE DEF Sums
  <2> QED BY <1>7
<1>9. NumberOfBytes(b) = sum[Len(b)]
  BY DEF NumberOfBytes
<1> HIDE DEF sum
<1>10. sum[0] = 0 /\ \A k \in 1..WordBytes : sum[k] = sum[k-1] + term(k)
  BY <1>1, <1>8 DEF term
<1> DEFINE T == Nat
<1>11. sum[0] \in T /\ \A k \in 1..WordBytes : sum[k-1] \in T => sum[k] \in T
  BY <1>2, <1>10
<1> HIDE DEF T
<1>12. \A k \in 0..WordBytes : sum[k] \in T
  BY <1>1, <1>11, TableInvariant
<1>13. IsSum(sum, b)
  BY <1>1, <1>8, <1>10, <1>12 DEF IsSum, term, T
<1> QED BY <1>1, <1>9, <1>13

\* The first bytes make a number below the value of the next place.
LEMMA SumBound ==
  ASSUME NEW b \in [1..WordBytes -> Byte], NEW f, IsSum(f, b)
  PROVE  \A k \in 0..WordBytes : f[k] \in 0..(PlaceValue[k] - 1)
<1> DEFINE S == {k \in 0..WordBytes : f[k] \in 0..(PlaceValue[k] - 1)}
<1>1. WordBytes \in Nat /\ ByteSize \in Nat
  BY WordBytesAssumption, ByteSizeAssumption
<1>2. 0 \in S
  BY <1>1, PlaceValues DEF IsSum
<1>3. ASSUME NEW k \in 1..WordBytes, k - 1 \in S PROVE k \in S
  <2> DEFINE p == PlaceValue[k-1]
             c == b[k]
             g == f[k-1]
  <2>1. /\ p \in Nat /\ c \in 0..(ByteSize - 1) /\ g \in 0..(p - 1)
        /\ f[k] = g + c * p /\ PlaceValue[k] = ByteSize * p
    BY <1>1, <1>3, PlaceValues DEF IsSum, Byte
  <2> HIDE DEF p, c, g
  <2>2. c * p \in Nat /\ c * p <= (ByteSize - 1) * p
    BY <1>1, <2>1
  <2>3. (ByteSize - 1) * p = ByteSize * p - p
    BY <1>1, <2>1
  <2>4. ByteSize * p \in Nat
    BY <1>1, <2>1
  <2> DEFINE cp == c * p
             bp == ByteSize * p
  <2>5. cp \in Nat /\ bp \in Nat /\ cp <= bp - p /\ f[k] = g + cp /\ PlaceValue[k] = bp
    BY <2>1, <2>2, <2>3, <2>4
  <2> HIDE DEF cp, bp
  <2>6. g + cp \in 0..(bp - 1)
    BY <2>1, <2>5
  <2> QED BY <1>3, <2>5, <2>6
<1> HIDE DEF S
<1>4. \A k \in 0..WordBytes : k \in S
  BY <1>1, <1>2, <1>3, UpTo
<1> QED BY <1>4 DEF S

\* One place more: what is left above it is divided once more.
LEMMA PlaceSplit ==
  ASSUME NEW p \in Nat \ {0}, NEW b \in Nat \ {0}, NEW q \in Nat, NEW c \in 0..(b - 1),
         NEW g \in 0..(p - 1)
  PROVE  /\ (b * p) * q + (g + c * p) = p * (b * q + c) + g
         /\ b * q + c \in Nat
         /\ (p * (b * q + c) + g) \div p = b * q + c
         /\ (b * q + c) % b = c
<1> DEFINE s == b * q + c
<1>1. s \in Nat
  OBVIOUS
<1>2. (b * p) * q + (g + c * p) = p * s + g
  OBVIOUS
<1>3. s % b = c
  BY DividedOnce
<1> HIDE DEF s
<1>4. (p * s + g) \div p = s
  BY <1>1, DividedOnce
<1> QED BY <1>1, <1>2, <1>3, <1>4 DEF s

\* What bytes say is a number, and these are the number's bytes.
LEMMA NumberOfBytesSound ==
  ASSUME NEW b \in [1..WordBytes -> Byte]
  PROVE  NumberOfBytes(b) \in 0..(Word - 1) /\ NumberBytes(NumberOfBytes(b)) = b
<1>1. WordBytes \in Nat /\ ByteSize \in Nat \ {0}
  BY WordBytesAssumption, ByteSizeAssumption
<1>2. PICK f : IsSum(f, b) /\ NumberOfBytes(b) = f[WordBytes]
  BY NumberOfBytesLoop
<1> DEFINE n == f[WordBytes]
<1>3. n \in 0..(Word - 1)
  BY <1>1, <1>2, SumBound DEF Word
<1> DEFINE S == {j \in 0..WordBytes : \E q \in Nat : n = PlaceValue[WordBytes-j] * q + f[WordBytes-j]}
<1>4. 0 \in S
  BY <1>1, <1>3, PlaceValues
<1>5. ASSUME NEW k \in 1..WordBytes, NEW q \in Nat, n = PlaceValue[k] * q + f[k]
      PROVE  /\ \E r \in Nat : n = PlaceValue[k-1] * r + f[k-1]
             /\ (n \div PlaceValue[k-1]) % ByteSize = b[k]
  <2> DEFINE p == PlaceValue[k-1]
             c == b[k]
             g == f[k-1]
  <2>1. /\ p \in Nat \ {0} /\ c \in 0..(ByteSize - 1)
        /\ f[k] = g + c * p /\ PlaceValue[k] = ByteSize * p
    BY <1>1, <1>2, PlaceValues DEF IsSum, Byte
  <2>2. g \in 0..(p - 1)
    BY <1>1, <1>2, SumBound
  <2>3. n = (ByteSize * p) * q + (g + c * p)
    BY <1>5, <2>1
  <2> HIDE DEF p, c, g, n
  <2>4. /\ n = p * (ByteSize * q + c) + g
        /\ ByteSize * q + c \in Nat
        /\ n \div p = ByteSize * q + c
        /\ (ByteSize * q + c) % ByteSize = c
    BY <1>1, <2>1, <2>2, <2>3, PlaceSplit
  <2> QED BY <2>4 DEF p, c, g
<1>6. ASSUME NEW j \in 1..WordBytes, j - 1 \in S PROVE j \in S
  <2>1. PICK q \in Nat : n = PlaceValue[WordBytes-(j-1)] * q + f[WordBytes-(j-1)]
    BY <1>6
  <2> DEFINE k == WordBytes - (j - 1)
  <2>2. k \in 1..WordBytes /\ k - 1 = WordBytes - j
    BY <1>1
  <2>3. n = PlaceValue[k] * q + f[k]
    BY <2>1
  <2> HIDE DEF k, n
  <2>4. \E r \in Nat : n = PlaceValue[k-1] * r + f[k-1]
    BY <1>5, <2>2, <2>3
  <2> QED BY <2>2, <2>4
<1>7. \A j \in 0..WordBytes : j \in S
  <2> HIDE DEF S
  <2> QED BY <1>1, <1>4, <1>6, UpTo
<1>8. ASSUME NEW k \in 1..WordBytes PROVE (n \div PlaceValue[k-1]) % ByteSize = b[k]
  <2>1. WordBytes - k \in S /\ WordBytes - (WordBytes - k) = k
    <3>1. WordBytes - k \in 0..WordBytes /\ WordBytes - (WordBytes - k) = k
      BY <1>1
    <3> HIDE DEF S
    <3> QED BY <1>7, <3>1
  <2>2. \E q \in Nat : n = PlaceValue[k] * q + f[k]
    BY <2>1
  <2> HIDE DEF n
  <2> QED BY <1>5, <2>2
<1>9. n % Word = n
  <2>1. Word \in Nat \ {0}
    BY PlaceValues
  <2> HIDE DEF n
  <2> QED BY <1>3, <2>1
<1> HIDE DEF n, S
<1>10. NumberBytes(n) = [k \in 1..WordBytes |-> (n \div PlaceValue[k-1]) % ByteSize]
  BY <1>9 DEF NumberBytes
<1>11. NumberBytes(n) = b
  BY <1>8, <1>10
<1> QED BY <1>2, <1>3, <1>11 DEF n

\* The bytes of an integer say its remainder.
LEMMA NumberOfBytesComplete ==
  ASSUME NEW i \in Int
  PROVE  NumberOfBytes(NumberBytes(i)) = i % Word
<1> DEFINE b == NumberBytes(i)
           n == i % Word
<1>1. WordBytes \in Nat /\ ByteSize \in Nat \ {0} /\ Word \in Nat \ {0}
  BY WordBytesAssumption, ByteSizeAssumption, PlaceValues
<1>2. b \in [1..WordBytes -> Byte] /\ n \in 0..(Word - 1)
  BY <1>1, NumberBytesType, Divided
<1>3. \A k \in 1..WordBytes : b[k] = (n \div PlaceValue[k-1]) % ByteSize
  BY DEF NumberBytes
<1> HIDE DEF b, n
<1>4. PICK f : IsSum(f, b) /\ NumberOfBytes(b) = f[WordBytes]
  BY <1>2, NumberOfBytesLoop
<1> DEFINE S == {k \in 0..WordBytes : \E q \in Nat : n = PlaceValue[k] * q + f[k]}
<1>5. 0 \in S
  <2>1. n = PlaceValue[0] * n + f[0] /\ n \in Nat
    BY <1>2, <1>4, PlaceValues DEF IsSum
  <2> QED BY <1>1, <2>1
<1>6. ASSUME NEW k \in 1..WordBytes, k - 1 \in S PROVE k \in S
  <2> DEFINE p == PlaceValue[k-1]
             g == f[k-1]
             c == b[k]
  <2>1. PICK q \in Nat : n = p * q + g
    BY <1>6
  <2>2. /\ p \in Nat \ {0} /\ g \in 0..(p - 1) /\ f[k] = g + c * p
        /\ PlaceValue[k] = ByteSize * p /\ c = (n \div p) % ByteSize
    <3>1. k - 1 \in 0..WordBytes
      BY <1>1
    <3>2. p \in Nat \ {0} /\ PlaceValue[k] = ByteSize * p
      BY <3>1, PlaceValues
    <3>3. g \in 0..(p - 1)
      BY <1>2, <1>4, <3>1, SumBound
    <3>4. f[k] = g + c * p
      BY <1>4 DEF IsSum
    <3>5. c = (n \div p) % ByteSize
      BY <1>3
    <3> QED BY <3>2, <3>3, <3>4, <3>5
  <2> HIDE DEF p, g, c
  <2>3. n \div p = q
    BY <2>1, <2>2, DividedOnce
  <2> DEFINE r == q \div ByteSize
  <2>4. c \in 0..(ByteSize - 1) /\ r \in Int /\ q = ByteSize * r + c
    BY <1>1, <2>2, <2>3, Divided
  <2> HIDE DEF r
  <2>5. r \in Nat
    <3>1. ByteSize \in Int /\ ByteSize > 0 /\ ByteSize * r > -ByteSize
      BY <1>1, <2>4
    <3>2. ASSUME r <= -1 PROVE FALSE
      BY <2>4, <3>1, <3>2
    <3> QED BY <2>4, <3>2
  <2>6. n = (ByteSize * p) * r + (g + c * p)
    BY <1>1, <2>1, <2>2, <2>4, <2>5, PlaceSplit
  <2> QED BY <2>2, <2>5, <2>6
<1> HIDE DEF S
<1>7. \A k \in 0..WordBytes : k \in S
  BY <1>1, <1>5, <1>6, UpTo
<1>8. PICK q \in Nat : n = Word * q + f[WordBytes]
  BY <1>1, <1>7 DEF S, Word
<1>9. f[WordBytes] \in 0..(Word - 1)
  BY <1>1, <1>2, <1>4, SumBound DEF Word
<1>10. q = 0
  BY <1>1, <1>2, <1>8, <1>9
<1>11. n = f[WordBytes]
  BY <1>1, <1>8, <1>9, <1>10
<1> QED BY <1>4, <1>11 DEF b, n

-----------------------------------------------------------------------------
(***************************************************************************)
(* Texts.                                                                  *)
(***************************************************************************)
\* One text behind another.
LEMMA TwoParts ==
  ASSUME NEW S, NEW t \in Seq(S), NEW u \in Seq(S)
  PROVE  t \o u \in Seq(S) /\ Len(t \o u) = Len(t) + Len(u)
OBVIOUS

\* Behind the first at bytes of s stands t.
Stands(s, at, t) ==
  /\ at + Len(t) <= Len(s)
  /\ \A k \in 1..Len(t) : s[at + k] = t[k]

\* Two texts stand one behind the other when each stands in its place.
LEMMA StandsTwo ==
  ASSUME NEW S, NEW s \in Seq(S), NEW t \in Seq(S), NEW u \in Seq(S), NEW at \in Nat
  PROVE  Stands(s, at, t \o u) <=> Stands(s, at, t) /\ Stands(s, at + Len(t), u)
<1>1. /\ Len(t) \in Nat /\ Len(u) \in Nat /\ Len(s) \in Nat
      /\ Len(t \o u) = Len(t) + Len(u)
      /\ \A k \in 1..Len(t) : (t \o u)[k] = t[k]
      /\ \A k \in 1..Len(u) : (t \o u)[Len(t) + k] = u[k]
  OBVIOUS
<1> DEFINE tu == t \o u
           m == Len(t)
           n == Len(u)
<1>2. ASSUME Stands(s, at, tu) PROVE Stands(s, at, t) /\ Stands(s, at + m, u)
  <2>1. at + m <= Len(s) /\ (at + m) + n <= Len(s)
    BY <1>1, <1>2 DEF Stands
  <2>2. ASSUME NEW k \in 1..m PROVE s[at + k] = t[k]
    <3>1. k \in 1..Len(tu)
      BY <1>1
    <3> QED BY <1>1, <1>2, <3>1 DEF Stands
  <2>3. ASSUME NEW k \in 1..n PROVE s[(at + m) + k] = u[k]
    <3>1. m + k \in 1..Len(tu) /\ at + (m + k) = (at + m) + k
      BY <1>1
    <3>2. s[at + (m + k)] = tu[m + k]
      BY <1>2, <3>1 DEF Stands
    <3> QED BY <1>1, <3>1, <3>2
  <2> QED BY <2>1, <2>2, <2>3 DEF Stands
<1>3. ASSUME Stands(s, at, t), Stands(s, at + m, u) PROVE Stands(s, at, tu)
  <2>1. at + Len(tu) <= Len(s)
    BY <1>1, <1>3 DEF Stands
  <2>2. ASSUME NEW k \in 1..Len(tu) PROVE s[at + k] = tu[k]
    <3>1. CASE k <= m
      <4>1. k \in 1..m
        BY <1>1, <3>1
      <4> QED BY <1>1, <1>3, <4>1 DEF Stands
    <3>2. CASE m < k
      <4>1. k - m \in 1..n /\ m + (k - m) = k /\ (at + m) + (k - m) = at + k
        BY <1>1, <3>2
      <4>2. s[(at + m) + (k - m)] = u[k - m] /\ tu[m + (k - m)] = u[k - m]
        BY <1>1, <1>3, <4>1 DEF Stands
      <4> QED BY <4>1, <4>2
    <3> QED BY <1>1, <3>1, <3>2
  <2> QED BY <2>1, <2>2 DEF Stands
<1> QED BY <1>2, <1>3

\* A text that stands at the beginning and has the length of the whole is the whole.
LEMMA StandsWhole ==
  ASSUME NEW S, NEW s \in Seq(S), NEW t \in Seq(S)
  PROVE  Stands(s, 0, t) /\ Len(t) = Len(s) <=> t = s
<1>1. ASSUME Stands(s, 0, t), Len(t) = Len(s) PROVE t = s
  <2>1. ASSUME NEW k \in 1..Len(t) PROVE s[k] = t[k]
    <3>1. 0 + k = k
      OBVIOUS
    <3> QED BY <1>1, <3>1 DEF Stands
  <2> QED BY <1>1, <2>1
<1>2. Stands(s, 0, s)
  BY DEF Stands
<1> QED BY <1>1, <1>2

-----------------------------------------------------------------------------
(***************************************************************************)
(* Letters and signed numbers.                                             *)
(***************************************************************************)
\* A byte and the letter that stands for it say each other.
LEMMA LetterBytes ==
  /\ \A b \in Byte : Letters[b + 1] \in Letter /\ LetterByte(Letters[b + 1]) = b
  /\ \A c \in Letter : LetterByte(c) \in Byte /\ Letters[LetterByte(c) + 1] = c
<1>1. ASSUME NEW b \in Byte PROVE b + 1 \in 1..ByteSize /\ b + 1 \in DOMAIN Letters
  BY ByteSizeAssumption, LettersAssumption DEF Byte
<1>2. ASSUME NEW c \in Letter PROVE LetterByte(c) \in Byte /\ Letters[LetterByte(c) + 1] = c
  <2>1. PICK k \in 1..ByteSize : Letters[k] = c
    BY LettersAssumption DEF Letter
  <2>2. k - 1 \in Byte /\ Letters[(k - 1) + 1] = c
    BY ByteSizeAssumption, <2>1 DEF Byte
  <2> QED BY <2>2 DEF LetterByte
<1>3. ASSUME NEW b \in Byte PROVE Letters[b + 1] \in Letter /\ LetterByte(Letters[b + 1]) = b
  <2> DEFINE c == Letters[b + 1]
  <2>1. c \in Letter
    BY <1>1 DEF Letter
  <2> HIDE DEF c
  <2>2. LetterByte(c) \in Byte /\ Letters[LetterByte(c) + 1] = c
    BY <1>2, <2>1
  <2>3. LetterByte(c) + 1 = b + 1
    BY <1>1, <2>2, LettersAssumption DEF c
  <2>4. LetterByte(c) = b
    BY <2>2, <2>3 DEF Byte
  <2> QED BY <2>1, <2>4 DEF c
<1> QED BY <1>2, <1>3

NameBytes(name) == [k \in DOMAIN name |-> LetterByte(name[k])]

\* The bytes of a name give the name back.
LEMMA NameBytesComplete ==
  ASSUME NEW name \in Seq(Letter)
  PROVE  /\ NameBytes(name) \in Seq(Byte)
         /\ Len(NameBytes(name)) = Len(name)
         /\ NameOf(NameBytes(name)) = name
<1>1. \A k \in DOMAIN name : name[k] \in Letter
  OBVIOUS
<1>2. \A k \in DOMAIN name : LetterByte(name[k]) \in Byte /\ Letters[LetterByte(name[k]) + 1] = name[k]
  BY <1>1, LetterBytes
<1>3. DOMAIN name = 1..Len(name) /\ Len(name) \in Nat /\ name = [k \in DOMAIN name |-> name[k]]
  OBVIOUS
<1>4. NameBytes(name) \in [1..Len(name) -> Byte]
  BY <1>2, <1>3 DEF NameBytes
<1>5. NameBytes(name) \in Seq(Byte) /\ Len(NameBytes(name)) = Len(name)
  BY <1>3, <1>4
<1>6. NameOf(NameBytes(name)) = [k \in DOMAIN name |-> Letters[LetterByte(name[k]) + 1]]
  BY DEF NameOf, NameBytes
<1>7. NameOf(NameBytes(name)) = [k \in DOMAIN name |-> name[k]]
  BY <1>2, <1>6
<1> QED BY <1>3, <1>5, <1>7

\* The name that bytes make has those bytes.
LEMMA NameBytesSound ==
  ASSUME NEW bytes \in Seq(Byte)
  PROVE  /\ NameOf(bytes) \in Seq(Letter)
         /\ Len(NameOf(bytes)) = Len(bytes)
         /\ NameBytes(NameOf(bytes)) = bytes
<1>1. \A k \in DOMAIN bytes : bytes[k] \in Byte
  OBVIOUS
<1>2. \A k \in DOMAIN bytes : Letters[bytes[k] + 1] \in Letter /\ LetterByte(Letters[bytes[k] + 1]) = bytes[k]
  BY <1>1, LetterBytes
<1>3. DOMAIN bytes = 1..Len(bytes) /\ Len(bytes) \in Nat /\ bytes = [k \in DOMAIN bytes |-> bytes[k]]
  OBVIOUS
<1>4. NameOf(bytes) \in [1..Len(bytes) -> Letter]
  BY <1>2, <1>3 DEF NameOf
<1>5. NameOf(bytes) \in Seq(Letter) /\ Len(NameOf(bytes)) = Len(bytes)
  BY <1>3, <1>4
<1>6. NameBytes(NameOf(bytes)) = [k \in DOMAIN bytes |-> LetterByte(Letters[bytes[k] + 1])]
  BY DEF NameOf, NameBytes
<1>7. NameBytes(NameOf(bytes)) = [k \in DOMAIN bytes |-> bytes[k]]
  BY <1>2, <1>6
<1> QED BY <1>3, <1>5, <1>7

\* The two's complement, and back.
LEMMA SignedSound ==
  ASSUME NEW i \in 0..(Word - 1)
  PROVE  Signed(i) \in Elements("int64") /\ NumberBytes(Signed(i)) = NumberBytes(i)
<1>1. Word \in Nat /\ Word > 6
  BY PlaceValues
<1>2. i % Word = i
  BY <1>1
<1>3. Signed(i) \in Int /\ -Word <= 2 * Signed(i) /\ 2 * Signed(i) < Word
  BY <1>1 DEF Signed
<1>4. Signed(i) % Word = i
  <2>1. CASE 2 * i >= Word
    <3>1. Signed(i) = Word * (-1) + i
      BY <1>1, <2>1 DEF Signed
    <3> QED BY <1>1, <3>1, DividedOnce
  <2>2. CASE ~(2 * i >= Word)
    BY <1>2, <2>2 DEF Signed
  <2> QED BY <2>1, <2>2
<1>5. Signed(i) \in Elements("int64")
  BY <1>3 DEF Elements
<1> QED BY <1>2, <1>4, <1>5 DEF NumberBytes

\* A signed number comes back from its two's complement.
LEMMA SignedComplete ==
  ASSUME NEW v \in Elements("int64")
  PROVE  v \in Int /\ v % Word \in 0..(Word - 1) /\ Signed(v % Word) = v
<1>1. Word \in Nat /\ Word > 6
  BY PlaceValues
<1>2. v \in Int /\ -Word <= 2 * v /\ 2 * v < Word
  BY DEF Elements
<1>3. v % Word \in 0..(Word - 1)
  BY <1>1, <1>2, Divided
<1>4. CASE v >= 0
  <2>1. v % Word = v
    BY <1>1, <1>2, <1>4
  <2> QED BY <1>1, <1>2, <1>3, <1>4, <2>1 DEF Signed
<1>5. CASE v < 0
  <2>1. v + Word \in 0..(Word - 1) /\ v = Word * (-1) + (v + Word)
    BY <1>1, <1>2, <1>5
  <2>2. v % Word = v + Word
    BY <1>1, <2>1, DividedOnce
  <2>3. 2 * (v + Word) >= Word /\ (v + Word) - Word = v
    BY <1>1, <1>2
  <2> QED BY <1>2, <1>3, <2>2, <2>3 DEF Signed
<1> QED BY <1>2, <1>4, <1>5

\* The bytes of an integer are those of its remainder.
LEMMA NumberBytesRemainder ==
  ASSUME NEW v \in Int
  PROVE  NumberBytes(v % Word) = NumberBytes(v)
<1> DEFINE n == v % Word
<1>1. Word \in Nat /\ Word > 6
  BY PlaceValues
<1>2. n \in 0..(Word - 1)
  BY <1>1, Divided
<1> HIDE DEF n
<1>3. n % Word = n
  BY <1>1, <1>2
<1>4. NumberBytes(n) = [k \in 1..WordBytes |-> (n \div PlaceValue[k-1]) % ByteSize]
  BY <1>3 DEF NumberBytes
<1>5. NumberBytes(v) = [k \in 1..WordBytes |-> (n \div PlaceValue[k-1]) % ByteSize]
  BY DEF NumberBytes, n
<1> QED BY <1>4, <1>5 DEF n

-----------------------------------------------------------------------------
(***************************************************************************)
(* Numbers and strings are read as they were written.                      *)
(***************************************************************************)
\* The exceptions of the reader.
Failed(r) == r = Throw("invalid_argument") \/ r = Throw("length_error")

\* What Read, Throw and the reader's exceptions are to the reader's loops.
LEMMA ReadIs ==
  /\ \A v, at : IsRead(Read(v, at)) /\ Read(v, at).value = v /\ Read(v, at).at = at
  /\ \A r : Failed(r) => ~IsRead(r) /\ r.is # "undefined"
BY DEF IsRead, Read, Failed, Throw

\* byte() and its like fail, or return the bytes that stand there.
LEMMA ReadBytesSound ==
  ASSUME NEW s \in Seq(Byte), NEW at \in 0..Len(s), NEW count \in Nat
  PROVE  \/ Failed(ReadBytes(s, at, count))
         \/ \E b \in Seq(Byte) :
              Len(b) = count /\ Stands(s, at, b) /\ ReadBytes(s, at, count) = Read(b, at + count)
<1>1. CASE ~HasBytes(s, at, count)
  BY <1>1 DEF ReadBytes, Failed
<1>2. CASE HasBytes(s, at, count)
  <2> DEFINE b == SubSeq(s, at + 1, at + count)
  <2>1. Len(s) \in Nat /\ at + count <= Len(s)
    BY <1>2 DEF HasBytes
  <2>2. b \in Seq(Byte) /\ Len(b) = count /\ \A k \in 1..count : b[k] = s[at + k]
    <3>1. at + 1 \in 1..(Len(s) + 1) /\ at + count \in 0..Len(s)
      BY <2>1
    <3>2. b \in Seq(Byte) /\ Len(b) = count
      BY <2>1, <3>1
    <3>3. ASSUME NEW k \in 1..count PROVE b[k] = s[at + k]
      <4>1. k \in 1..Len(b) /\ (at + 1) + k - 1 = at + k
        BY <3>2
      <4> QED BY <2>1, <3>1, <4>1
    <3> QED BY <3>2, <3>3
  <2>3. ReadBytes(s, at, count) = Read(b, at + count)
    BY <1>2, <2>1 DEF ReadBytes, Taken
  <2> HIDE DEF b
  <2>4. Stands(s, at, b)
    BY <2>1, <2>2 DEF Stands
  <2> QED BY <2>2, <2>3, <2>4
<1> QED BY <1>1, <1>2

\* Bytes that stand there are read.
LEMMA ReadBytesComplete ==
  ASSUME NEW s \in Seq(Byte), NEW at \in Nat, NEW b \in Seq(Byte), Stands(s, at, b)
  PROVE  /\ ReadBytes(s, at, Len(b)) = Read(b, at + Len(b))
         /\ at + Len(b) \in 0..Len(s) /\ at \in 0..Len(s)
<1>1. /\ at + Len(b) <= Len(s) /\ Len(s) \in Nat /\ Len(b) \in Nat
      /\ \A k \in 1..Len(b) : s[at + k] = b[k]
  BY DEF Stands
<1>2. at \in 0..Len(s) /\ at + Len(b) \in 0..Len(s) /\ Len(b) <= Len(s) - at
  BY <1>1
<1>3. ~Failed(ReadBytes(s, at, Len(b)))
  BY <1>1, <1>2 DEF ReadBytes, HasBytes, Taken, Failed, Read, Throw
<1>4. PICK c \in Seq(Byte) : /\ Len(c) = Len(b) /\ Stands(s, at, c)
                             /\ ReadBytes(s, at, Len(b)) = Read(c, at + Len(b))
  BY <1>1, <1>2, <1>3, ReadBytesSound
<1>5. c = b
  <2>1. \A k \in 1..Len(b) : c[k] = b[k]
    BY <1>1, <1>4 DEF Stands
  <2> QED BY <1>4, <2>1
<1> QED BY <1>2, <1>4, <1>5

\* A number's bytes are a text.
LEMMA NumberBytesText ==
  ASSUME NEW i \in Int
  PROVE  NumberBytes(i) \in Seq(Byte) /\ Len(NumberBytes(i)) = WordBytes
<1>1. WordBytes \in Nat /\ NumberBytes(i) \in [1..WordBytes -> Byte]
  BY NumberBytesType, WordBytesAssumption
<1> QED BY <1>1

\* unsigned_integer fails, or returns the number whose bytes stand there.
LEMMA ReadNumberSound ==
  ASSUME NEW s \in Seq(Byte), NEW at \in 0..Len(s)
  PROVE  \/ Failed(ReadNumber(s, at))
         \/ \E n \in 0..(Word - 1) :
              Stands(s, at, NumberBytes(n)) /\ ReadNumber(s, at) = Read(n, at + WordBytes)
<1> DEFINE r == ReadBytes(s, at, WordBytes)
<1>1. WordBytes \in Nat
  BY WordBytesAssumption
<1>2. CASE Failed(r)
  BY <1>2, ReadIs DEF ReadNumber, Then
<1>3. CASE ~Failed(r)
  <2>1. PICK b \in Seq(Byte) : Len(b) = WordBytes /\ Stands(s, at, b) /\ r = Read(b, at + WordBytes)
    BY <1>1, <1>3, ReadBytesSound
  <2>2. b \in [1..WordBytes -> Byte]
    BY <2>1
  <2>3. NumberOfBytes(b) \in 0..(Word - 1) /\ NumberBytes(NumberOfBytes(b)) = b
    BY <2>2, NumberOfBytesSound
  <2>4. ReadNumber(s, at) = Read(NumberOfBytes(b), at + WordBytes)
    BY <2>1, ReadIs DEF ReadNumber, Then
  <2> QED BY <2>1, <2>3, <2>4
<1> QED BY <1>2, <1>3

\* A number whose bytes stand there is read, modulo a word.
LEMMA ReadNumberComplete ==
  ASSUME NEW s \in Seq(Byte), NEW at \in Nat, NEW i \in Int, Stands(s, at, NumberBytes(i))
  PROVE  /\ ReadNumber(s, at) = Read(i % Word, at + WordBytes)
         /\ at + WordBytes \in 0..Len(s) /\ at \in 0..Len(s)
<1>1. NumberBytes(i) \in Seq(Byte) /\ Len(NumberBytes(i)) = WordBytes
  BY NumberBytesText
<1>2. /\ ReadBytes(s, at, WordBytes) = Read(NumberBytes(i), at + WordBytes)
      /\ at + WordBytes \in 0..Len(s) /\ at \in 0..Len(s)
  <2> DEFINE b == NumberBytes(i)
  <2> HIDE DEF b
  <2>1. b \in Seq(Byte) /\ Len(b) = WordBytes /\ Stands(s, at, b)
    BY <1>1 DEF b
  <2>2. ReadBytes(s, at, Len(b)) = Read(b, at + Len(b)) /\ at + Len(b) \in 0..Len(s) /\ at \in 0..Len(s)
    BY <2>1, ReadBytesComplete
  <2> QED BY <2>1, <2>2 DEF b
<1> QED BY <1>2, ReadIs, NumberOfBytesComplete DEF ReadNumber, Then

StringBytes(v) == NumberBytes(Len(v)) \o v

\* A string's bytes are a text: its length and itself.
LEMMA StringBytesText ==
  ASSUME NEW v \in Seq(Byte)
  PROVE  StringBytes(v) \in Seq(Byte) /\ Len(StringBytes(v)) = WordBytes + Len(v)
<1>1. NumberBytes(Len(v)) \in Seq(Byte) /\ Len(NumberBytes(Len(v))) = WordBytes
  BY NumberBytesText
<1> QED BY <1>1 DEF StringBytes

\* string() fails, or returns the string whose bytes stand there.
LEMMA ReadStringSound ==
  ASSUME NEW s \in Seq(Byte), NEW at \in 0..Len(s)
  PROVE  \/ Failed(ReadString(s, at))
         \/ \E v \in Elements("string") :
              Stands(s, at, StringBytes(v)) /\ ReadString(s, at) = Read(v, at + Len(StringBytes(v)))
<1> DEFINE r == ReadNumber(s, at)
<1>1. CASE Failed(r)
  BY <1>1, ReadIs DEF ReadString, Then
<1>2. CASE ~Failed(r)
  <2>1. PICK n \in 0..(Word - 1) : Stands(s, at, NumberBytes(n)) /\ r = Read(n, at + WordBytes)
    BY <1>2, ReadNumberSound
  <2>2. n \in Nat /\ at + WordBytes \in 0..Len(s) /\ at \in Nat
    BY <2>1, ReadNumberComplete, PlaceValues
  <2> DEFINE q == ReadBytes(s, at + WordBytes, n)
  <2>3. ReadString(s, at) = q
    BY <2>1, ReadIs DEF ReadString, Then
  <2>4. CASE ~Failed(q)
    <3>1. PICK v \in Seq(Byte) : /\ Len(v) = n /\ Stands(s, at + WordBytes, v)
                                 /\ q = Read(v, (at + WordBytes) + n)
      <4> HIDE DEF q
      <4> QED BY <2>2, <2>4, ReadBytesSound DEF q
    <3>2. v \in Elements("string")
      BY <2>1, <3>1, PlaceValues DEF Elements
    <3>3. NumberBytes(n) \in Seq(Byte) /\ Len(NumberBytes(n)) = WordBytes
      BY <2>2, NumberBytesText
    <3>4. Stands(s, at, StringBytes(v))
      BY <2>1, <2>2, <3>1, <3>3, StandsTwo DEF StringBytes
    <3>5. (at + WordBytes) + n = at + Len(StringBytes(v))
      <4>1. Len(StringBytes(v)) = WordBytes + n
        BY <3>1, StringBytesText
      <4> QED BY <2>2, <4>1, WordBytesAssumption
    <3> QED BY <2>3, <3>1, <3>2, <3>4, <3>5
  <2> QED BY <2>3, <2>4
<1> QED BY <1>1, <1>2

\* A string that stands there is read.
LEMMA ReadStringComplete ==
  ASSUME NEW s \in Seq(Byte), NEW at \in Nat, NEW v \in Elements("string"), Stands(s, at, StringBytes(v))
  PROVE  ReadString(s, at) = Read(v, at + Len(StringBytes(v)))
<1>1. v \in Seq(Byte) /\ Len(v) \in 0..(Word - 1) /\ Len(v) \in Nat
  BY PlaceValues DEF Elements
<1>2. NumberBytes(Len(v)) \in Seq(Byte) /\ Len(NumberBytes(Len(v))) = WordBytes /\ WordBytes \in Nat
  BY <1>1, NumberBytesText, WordBytesAssumption
<1>3. Stands(s, at, NumberBytes(Len(v))) /\ Stands(s, at + WordBytes, v)
  BY <1>1, <1>2, StandsTwo DEF StringBytes
<1>4. Len(v) % Word = Len(v)
  BY <1>1, PlaceValues
<1>5. ReadNumber(s, at) = Read(Len(v), at + WordBytes)
  BY <1>1, <1>3, <1>4, ReadNumberComplete
<1>6. ReadBytes(s, at + WordBytes, Len(v)) = Read(v, (at + WordBytes) + Len(v))
  BY <1>1, <1>2, <1>3, ReadBytesComplete
<1>7. (at + WordBytes) + Len(v) = at + Len(StringBytes(v))
  <2>1. Len(StringBytes(v)) = WordBytes + Len(v)
    BY <1>1, StringBytesText
  <2> QED BY <1>1, <1>2, <2>1
<1> QED BY <1>5, <1>6, <1>7, ReadIs DEF ReadString, Then

-----------------------------------------------------------------------------
(***************************************************************************)
(* Elements.                                                               *)
(***************************************************************************)
Types == {BufferTypes[t] : t \in DOMAIN BufferTypes}

\* The alternatives of Buffer and their tags say each other.
LEMMA TypesAre ==
  /\ Types = {"bool", "uint8", "int64", "uint64", "float32", "float64", "string"}
  /\ Len(BufferTypes) = 7
  /\ \A type \in Types : Tag(type) \in 0..6 /\ BufferTypes[Tag(type) + 1] = type
  /\ \A t \in 0..6 : BufferTypes[t + 1] \in Types /\ Tag(BufferTypes[t + 1]) = t
<1>1. Len(BufferTypes) = 7 /\ DOMAIN BufferTypes = 1..7
  BY DEF BufferTypes
<1>2. \A t \in 1..7 : t = 1 \/ t = 2 \/ t = 3 \/ t = 4 \/ t = 5 \/ t = 6 \/ t = 7
  OBVIOUS
<1>3. /\ BufferTypes[1] = "bool" /\ BufferTypes[2] = "uint8" /\ BufferTypes[3] = "int64"
      /\ BufferTypes[4] = "uint64" /\ BufferTypes[5] = "float32" /\ BufferTypes[6] = "float64"
      /\ BufferTypes[7] = "string"
  BY DEF BufferTypes
<1>4. Types = {"bool", "uint8", "int64", "uint64", "float32", "float64", "string"}
  <2>1. \A x : x \in Types <=> \E t \in 1..7 : x = BufferTypes[t]
    BY <1>1 DEF Types
  <2>2. 1 \in 1..7 /\ 2 \in 1..7 /\ 3 \in 1..7 /\ 4 \in 1..7 /\ 5 \in 1..7 /\ 6 \in 1..7 /\ 7 \in 1..7
    OBVIOUS
  <2>3. \A x : x \in Types <=> x \in {"bool", "uint8", "int64", "uint64", "float32", "float64", "string"}
    BY <1>2, <1>3, <2>1, <2>2
  <2> QED BY <2>3
<1>5. \A j, k \in 1..7 : BufferTypes[j] = BufferTypes[k] => j = k
  <2> SUFFICES ASSUME NEW j \in 1..7, NEW k \in 1..7, BufferTypes[j] = BufferTypes[k] PROVE j = k
    OBVIOUS
  <2> QED BY <1>2, <1>3
<1>6. ASSUME NEW type \in Types PROVE Tag(type) \in 0..6 /\ BufferTypes[Tag(type) + 1] = type
  <2>1. PICK k \in 1..7 : BufferTypes[k] = type
    BY <1>1 DEF Types
  <2>2. k - 1 \in 0..6 /\ BufferTypes[(k - 1) + 1] = type
    BY <2>1
  <2> QED BY <2>2 DEF Tag
<1>7. ASSUME NEW t \in 0..6 PROVE BufferTypes[t + 1] \in Types /\ Tag(BufferTypes[t + 1]) = t
  <2> DEFINE type == BufferTypes[t + 1]
  <2>1. t + 1 \in 1..7
    OBVIOUS
  <2>2. type \in Types
    BY <1>1, <2>1 DEF Types
  <2> HIDE DEF type
  <2>3. Tag(type) \in 0..6 /\ BufferTypes[Tag(type) + 1] = type
    BY <1>6, <2>2
  <2>4. Tag(type) + 1 \in 1..7 /\ BufferTypes[Tag(type) + 1] = BufferTypes[t + 1]
    BY <2>3 DEF type
  <2>5. Tag(type) + 1 = t + 1
    BY <1>5, <2>1, <2>4
  <2>6. Tag(type) = t
    BY <2>3, <2>5
  <2> QED BY <2>2, <2>6 DEF type
<1> QED BY <1>1, <1>4, <1>6, <1>7

\* A sequence of length one is that of its element.
LEMMA SingleElement ==
  ASSUME NEW S, NEW b \in Seq(S), Len(b) = 1
  PROVE  b = <<b[1]>> /\ b[1] \in S
<1> DEFINE c == <<b[1]>>
<1>1. b[1] \in S
  OBVIOUS
<1>2. c \in Seq(S) /\ Len(c) = 1 /\ c[1] = b[1]
  BY <1>1
<1> HIDE DEF c
<1>3. \A k \in 1..Len(b) : c[k] = b[k]
  <2>1. \A k \in 1..1 : k = 1
    OBVIOUS
  <2> QED BY <1>2, <2>1
<1>4. b = c
  BY <1>2, <1>3
<1> QED BY <1>1, <1>4 DEF c

\* The elements that a type has.
LEMMA ElementCases ==
  ASSUME NEW type \in Types
  PROVE  \/ type \in {"bool", "uint8"} /\ Elements(type) \subseteq Byte
         \/ type = "string"
         \/ type = "int64"
         \/ /\ type \notin {"bool", "uint8", "string", "int64"}
            /\ Elements(type) = 0..(Word - 1)
<1>1. {0, 1} \subseteq Byte
  BY ByteSizeAssumption DEF Byte
<1> QED BY <1>1, TypesAre DEF Elements

\* What is written of an element, by its type.
LEMMA ElementBytesAre ==
  ASSUME NEW type \in Types, NEW v \in Elements(type)
  PROVE  /\ type \in {"bool", "uint8"} => v \in Byte /\ ElementBytes(type, v) = <<v>>
         /\ type = "string" => v \in Seq(Byte) /\ ElementBytes(type, v) = StringBytes(v)
         /\ type \notin {"bool", "uint8", "string"} => v \in Int /\ ElementBytes(type, v) = NumberBytes(v)
         /\ ElementBytes(type, v) \in Seq(Byte)
<1>1. CASE type \in {"bool", "uint8"}
  <2>1. v \in Byte /\ ElementBytes(type, v) = <<v>>
    BY <1>1, ElementCases DEF ElementBytes
  <2> QED BY <1>1, <2>1
<1>2. CASE type = "string"
  <2>1. v \in Seq(Byte) /\ ElementBytes(type, v) = StringBytes(v)
    BY <1>2 DEF ElementBytes, StringBytes, Elements
  <2> QED BY <1>2, <2>1, StringBytesText
<1>3. CASE type \notin {"bool", "uint8", "string"}
  <2>1. v \in Int
    <3>1. CASE type = "int64"
      BY <3>1, SignedComplete
    <3>2. CASE type # "int64"
      <4>1. v \in 0..(Word - 1)
        BY <1>3, <3>2, ElementCases
      <4> QED BY <4>1, PlaceValues
    <3> QED BY <3>1, <3>2
  <2>2. ElementBytes(type, v) = NumberBytes(v)
    BY <1>3 DEF ElementBytes
  <2> QED BY <1>3, <2>1, <2>2, NumberBytesText
<1> QED BY <1>1, <1>2, <1>3

\* An element fails to be read, or is one whose bytes stand there.
LEMMA ReadElementSound ==
  ASSUME NEW s \in Seq(Byte), NEW at \in 0..Len(s), NEW type \in Types
  PROVE  \/ Failed(ReadElement(s, at, type))
         \/ \E v \in Elements(type) :
              /\ Stands(s, at, ElementBytes(type, v))
              /\ ReadElement(s, at, type) = Read(v, at + Len(ElementBytes(type, v)))
<1>1. CASE type \in {"bool", "uint8"}
  <2> DEFINE r == ReadBytes(s, at, 1)
             q == ReadElement(s, at, type)
  <2>1. q = IF IsRead(r)
            THEN IF type = "bool" /\ r.value[1] > 1 THEN Throw("invalid_argument") ELSE Read(r.value[1], r.at)
            ELSE r
    BY <1>1 DEF ReadElement, Then
  <2>2. CASE Failed(r)
    BY <2>1, <2>2, ReadIs
  <2>3. CASE ~Failed(r)
    <3>1. PICK b \in Seq(Byte) : Len(b) = 1 /\ Stands(s, at, b) /\ r = Read(b, at + 1)
      <4>1. 1 \in Nat
        OBVIOUS
      <4> HIDE DEF r
      <4> QED BY <2>3, <4>1, ReadBytesSound DEF r
    <3>2. b = <<b[1]>> /\ b[1] \in Byte
      BY <3>1, SingleElement
    <3>3. q = IF type = "bool" /\ b[1] > 1 THEN Throw("invalid_argument") ELSE Read(b[1], at + 1)
      BY <2>1, <3>1, ReadIs
    <3>4. CASE type = "bool" /\ b[1] > 1
      BY <3>3, <3>4 DEF Failed
    <3>5. CASE ~(type = "bool" /\ b[1] > 1)
      <4>1. b[1] \in Elements(type)
        <5>1. b[1] \in Nat
          BY <3>2, ByteSizeAssumption DEF Byte
        <5>2. type = "bool" => b[1] \in {0, 1}
          BY <3>5, <5>1
        <5> QED BY <1>1, <3>2, <5>2 DEF Elements
      <4>2. ElementBytes(type, b[1]) = b
        BY <1>1, <3>2, <4>1, ElementBytesAre
      <4>3. q = Read(b[1], at + 1)
        BY <3>3, <3>5
      <4> QED BY <3>1, <4>1, <4>2, <4>3
    <3> QED BY <3>4, <3>5
  <2> QED BY <2>2, <2>3
<1>2. CASE type = "string"
  <2>1. ReadElement(s, at, type) = ReadString(s, at)
    BY <1>2 DEF ReadElement
  <2>2. \A v \in Elements(type) : ElementBytes(type, v) = StringBytes(v)
    BY <1>2, ElementBytesAre
  <2> QED BY <1>2, <2>1, <2>2, ReadStringSound
<1>3. CASE type \notin {"bool", "uint8", "string"}
  <2> DEFINE r == ReadNumber(s, at)
             q == ReadElement(s, at, type)
  <2>1. q = IF IsRead(r) THEN Read(IF type = "int64" THEN Signed(r.value) ELSE r.value, r.at) ELSE r
    BY <1>3 DEF ReadElement, Then
  <2>2. CASE Failed(r)
    BY <2>1, <2>2, ReadIs
  <2>3. CASE ~Failed(r)
    <3>1. PICK n \in 0..(Word - 1) : Stands(s, at, NumberBytes(n)) /\ r = Read(n, at + WordBytes)
      BY <2>3, ReadNumberSound
    <3> DEFINE v == IF type = "int64" THEN Signed(n) ELSE n
    <3>2. q = Read(v, at + WordBytes)
      BY <2>1, <3>1, ReadIs
    <3>3. v \in Elements(type) /\ NumberBytes(v) = NumberBytes(n)
      BY <1>3, ElementCases, SignedSound
    <3> HIDE DEF v, q
    <3>4. ElementBytes(type, v) = NumberBytes(n) /\ Len(NumberBytes(n)) = WordBytes
      BY <1>3, <3>3, ElementBytesAre, NumberBytesText
    <3> QED BY <3>1, <3>2, <3>3, <3>4 DEF q
  <2> QED BY <2>2, <2>3
<1> QED BY <1>1, <1>2, <1>3

\* An element whose bytes stand there is read.
LEMMA ReadElementComplete ==
  ASSUME NEW s \in Seq(Byte), NEW at \in Nat, NEW type \in Types, NEW v \in Elements(type),
         Stands(s, at, ElementBytes(type, v))
  PROVE  ReadElement(s, at, type) = Read(v, at + Len(ElementBytes(type, v)))
<1>1. CASE type \in {"bool", "uint8"}
  <2>1. v \in Byte /\ ElementBytes(type, v) = <<v>>
    BY <1>1, ElementBytesAre
  <2>2. <<v>> \in Seq(Byte) /\ Len(<<v>>) = 1 /\ <<v>>[1] = v
    BY <2>1
  <2>3. ReadBytes(s, at, 1) = Read(<<v>>, at + 1)
    <3> DEFINE b == <<v>>
    <3>1. b \in Seq(Byte) /\ Len(b) = 1 /\ Stands(s, at, b)
      BY <2>1, <2>2
    <3> HIDE DEF b
    <3>2. ReadBytes(s, at, Len(b)) = Read(b, at + Len(b))
      BY <3>1, ReadBytesComplete
    <3> QED BY <3>1, <3>2 DEF b
  <2>4. ~(type = "bool" /\ v > 1)
    BY DEF Elements
  <2>5. ReadElement(s, at, type) = Read(v, at + 1)
    BY <1>1, <2>2, <2>3, <2>4, ReadIs DEF ReadElement, Then
  <2> QED BY <2>1, <2>2, <2>5
<1>2. CASE type = "string"
  <2>1. ReadElement(s, at, type) = ReadString(s, at) /\ ElementBytes(type, v) = StringBytes(v)
    BY <1>2, ElementBytesAre DEF ReadElement
  <2> QED BY <1>2, <2>1, ReadStringComplete
<1>3. CASE type \notin {"bool", "uint8", "string"}
  <2>1. v \in Int /\ ElementBytes(type, v) = NumberBytes(v) /\ Len(NumberBytes(v)) = WordBytes
    BY <1>3, ElementBytesAre, NumberBytesText
  <2>2. ReadNumber(s, at) = Read(v % Word, at + WordBytes)
    BY <2>1, ReadNumberComplete
  <2>3. (IF type = "int64" THEN Signed(v % Word) ELSE v % Word) = v
    <3>1. CASE type = "int64"
      BY <3>1, SignedComplete
    <3>2. CASE type # "int64"
      <4>1. v \in 0..(Word - 1)
        BY <1>3, <3>2, ElementCases
      <4> QED BY <3>2, <4>1, PlaceValues
    <3> QED BY <3>1, <3>2
  <2>4. ReadElement(s, at, type) = Read(IF type = "int64" THEN Signed(v % Word) ELSE v % Word, at + WordBytes)
    BY <1>3, <2>2, ReadIs DEF ReadElement, Then
  <2> QED BY <2>1, <2>3, <2>4
<1> QED BY <1>1, <1>2, <1>3

ElementsBytes(type, vs) == FlattenSeq([k \in DOMAIN vs |-> ElementBytes(type, vs[k])])

\* What is written of elements is a text.
LEMMA ElementsBytesText ==
  ASSUME NEW type \in Types, NEW vs \in Seq(Elements(type))
  PROVE  /\ [k \in DOMAIN vs |-> ElementBytes(type, vs[k])] \in Seq(Seq(Byte))
         /\ ElementsBytes(type, vs) \in Seq(Byte)
<1> DEFINE parts == [k \in DOMAIN vs |-> ElementBytes(type, vs[k])]
<1>1. DOMAIN vs = 1..Len(vs) /\ Len(vs) \in Nat /\ \A k \in DOMAIN vs : vs[k] \in Elements(type)
  OBVIOUS
<1>2. \A k \in DOMAIN vs : ElementBytes(type, vs[k]) \in Seq(Byte)
  BY <1>1, ElementBytesAre
<1>3. parts \in [1..Len(vs) -> Seq(Byte)]
  BY <1>1, <1>2
<1> HIDE DEF parts
<1>4. parts \in Seq(Seq(Byte))
  BY <1>1, <1>3
<1>5. FlattenSeq(parts) \in Seq(Byte)
  BY <1>4, FlattenType
<1> QED BY <1>4, <1>5 DEF parts, ElementsBytes

\* Nothing is written of no elements.
LEMMA ElementsBytesEmpty ==
  ASSUME NEW type \in Types
  PROVE  ElementsBytes(type, <<>>) = <<>> /\ Len(ElementsBytes(type, <<>>)) = 0
<1>1. [k \in DOMAIN <<>> |-> ElementBytes(type, <<>>[k])] = <<>>
  OBVIOUS
<1>2. Len(<<>>) = 0
  OBVIOUS
<1>3. ElementsBytes(type, <<>>) = <<>>
  BY <1>1, FlattenEmpty DEF ElementsBytes
<1> QED BY <1>2, <1>3

\* One element more is written behind the others.
LEMMA ElementsBytesAppend ==
  ASSUME NEW type \in Types, NEW vs \in Seq(Elements(type)), NEW v \in Elements(type)
  PROVE  ElementsBytes(type, Append(vs, v)) = ElementsBytes(type, vs) \o ElementBytes(type, v)
<1> DEFINE parts == [k \in DOMAIN vs |-> ElementBytes(type, vs[k])]
           p == ElementBytes(type, v)
           ws == Append(vs, v)
           more == [k \in DOMAIN ws |-> ElementBytes(type, ws[k])]
<1>1. parts \in Seq(Seq(Byte)) /\ p \in Seq(Byte)
  BY ElementsBytesText, ElementBytesAre
<1>2. /\ Len(vs) \in Nat /\ DOMAIN vs = 1..Len(vs) /\ DOMAIN ws = 1..(Len(vs) + 1)
      /\ ws[Len(vs) + 1] = v /\ \A k \in 1..Len(vs) : ws[k] = vs[k]
  OBVIOUS
<1>3. Len(parts) = Len(vs) /\ \A k \in 1..Len(vs) : parts[k] = ElementBytes(type, vs[k])
  BY <1>2
<1>4. /\ DOMAIN more = 1..(Len(vs) + 1)
      /\ \A k \in 1..(Len(vs) + 1) : more[k] = ElementBytes(type, ws[k])
      /\ more = [k \in 1..(Len(vs) + 1) |-> more[k]]
  BY <1>2
<1> HIDE DEF parts, p, ws, more
<1>5. /\ Append(parts, p) \in Seq(Seq(Byte)) /\ Len(Append(parts, p)) = Len(vs) + 1
      /\ Append(parts, p)[Len(vs) + 1] = p
      /\ \A k \in 1..Len(vs) : Append(parts, p)[k] = parts[k]
  BY <1>1, <1>2, <1>3
<1>6. ASSUME NEW k \in 1..(Len(vs) + 1) PROVE more[k] = Append(parts, p)[k]
  <2>1. CASE k = Len(vs) + 1
    BY <1>2, <1>4, <1>5, <2>1 DEF p
  <2>2. CASE k # Len(vs) + 1
    <3>1. k \in 1..Len(vs)
      BY <1>2, <2>2
    <3> QED BY <1>2, <1>3, <1>4, <1>5, <3>1
  <2> QED BY <2>1, <2>2
<1>7. Append(parts, p) = [k \in 1..(Len(vs) + 1) |-> Append(parts, p)[k]]
  <2> DEFINE a == Append(parts, p)
  <2> HIDE DEF a
  <2>1. a \in Seq(Seq(Byte)) /\ Len(a) = Len(vs) + 1
    BY <1>5 DEF a
  <2>2. a = [k \in 1..Len(a) |-> a[k]]
    BY <2>1
  <2> QED BY <2>1, <2>2 DEF a
<1>8. more = Append(parts, p)
  BY <1>4, <1>6, <1>7
<1>9. FlattenSeq(more) = FlattenSeq(parts) \o p
  BY <1>1, <1>8, FlattenAppend
<1> QED BY <1>9 DEF ElementsBytes, more, parts, p, ws

\* r has read the elements vs from at on.
HaveRead(s, at, type, vs, r) ==
  /\ vs \in Seq(Elements(type))
  /\ Stands(s, at, ElementsBytes(type, vs))
  /\ r = Read(vs, at + Len(ElementsBytes(type, vs)))

\* What has been read of elements, and where the reader is.
LEMMA HaveReadAt ==
  ASSUME NEW s \in Seq(Byte), NEW at \in 0..Len(s), NEW type \in Types,
         NEW vs, NEW r, HaveRead(s, at, type, vs, r)
  PROVE  r.at \in 0..Len(s) /\ IsRead(r) /\ r.value = vs /\ r.at = at + Len(ElementsBytes(type, vs))
<1>1. ElementsBytes(type, vs) \in Seq(Byte)
  BY ElementsBytesText DEF HaveRead
<1>2. Len(ElementsBytes(type, vs)) \in Nat /\ Len(s) \in Nat
  BY <1>1
<1>3. at + Len(ElementsBytes(type, vs)) \in 0..Len(s)
  BY <1>2 DEF HaveRead, Stands
<1> QED BY <1>3, ReadIs DEF HaveRead

\* A round of read_numeric_vector fails, or has read one element more.
LEMMA OneMoreElementSound ==
  ASSUME NEW s \in Seq(Byte), NEW at \in 0..Len(s), NEW type \in Types,
         NEW vs, NEW r, HaveRead(s, at, type, vs, r)
  PROVE  \/ Failed(OneMoreElement(s, r, type))
         \/ \E v \in Elements(type) : HaveRead(s, at, type, Append(vs, v), OneMoreElement(s, r, type))
<1>1. r.at \in 0..Len(s) /\ IsRead(r) /\ r.value = vs /\ r.at = at + Len(ElementsBytes(type, vs))
  BY HaveReadAt
<1> DEFINE next == r.at
           q == ReadElement(s, next, type)
<1>2. OneMoreElement(s, r, type) = IF IsRead(q) THEN Read(Append(vs, q.value), q.at) ELSE q
  BY <1>1 DEF OneMoreElement, Then
<1>3. CASE Failed(q)
  BY <1>2, <1>3, ReadIs
<1>4. CASE ~Failed(q)
  <2>1. PICK v \in Elements(type) : /\ Stands(s, next, ElementBytes(type, v))
                                    /\ q = Read(v, next + Len(ElementBytes(type, v)))
    BY <1>1, <1>4, ReadElementSound
  <2> DEFINE t == ElementsBytes(type, vs)
             u == ElementBytes(type, v)
  <2>2. vs \in Seq(Elements(type)) /\ t \in Seq(Byte) /\ u \in Seq(Byte) /\ Stands(s, at, t)
    BY ElementsBytesText, ElementBytesAre DEF HaveRead
  <2>3. Append(vs, v) \in Seq(Elements(type)) /\ ElementsBytes(type, Append(vs, v)) = t \o u
    BY <2>2, ElementsBytesAppend
  <2>4. OneMoreElement(s, r, type) = Read(Append(vs, v), next + Len(u))
    BY <1>2, <2>1, ReadIs
  <2>5. next = at + Len(t) /\ Stands(s, next, u)
    BY <1>1, <2>1
  <2> HIDE DEF t, u, next
  <2>6. Stands(s, at, t \o u)
    BY <2>2, <2>5, StandsTwo
  <2>7. next + Len(u) = at + Len(t \o u)
    BY <2>2, <2>5
  <2> QED BY <2>3, <2>4, <2>6, <2>7 DEF HaveRead
<1> QED BY <1>3, <1>4

\* f is what the rounds have read.
IsElementLoop(f, s, at, type, count) ==
  /\ f[0] = Read(<<>>, at)
  /\ \A k \in 1..count : f[k] = OneMoreElement(s, f[k-1], type)
  /\ ReadElements(s, at, type, count) = f[count]

\* There is a loop that reads the elements, and ReadElements is its last value.
LEMMA ReadElementsLoop ==
  ASSUME NEW s \in Seq(Byte), NEW at \in 0..Len(s), NEW type \in Types, NEW count \in Nat
  PROVE  \E f : IsElementLoop(f, s, at, type, count)
<1> DEFINE T == {Throw("invalid_argument"), Throw("length_error")}
                  \cup {x \in {Read(vs, p) : vs \in Seq(Elements(type)), p \in 0..Len(s)} :
                          \E vs : HaveRead(s, at, type, vs, x)}
           base == Read(<<>>, at)
           step == [k \in 1..count |-> [x \in T |-> OneMoreElement(s, x, type)]]
<1>1. \A x : x \in T <=> Failed(x) \/ \E vs : HaveRead(s, at, type, vs, x)
  <2>1. ASSUME NEW x, NEW vs, HaveRead(s, at, type, vs, x)
        PROVE  \E ws \in Seq(Elements(type)), p \in 0..Len(s) : x = Read(ws, p)
    <3>1. vs \in Seq(Elements(type)) /\ x.at \in 0..Len(s) /\ x = Read(vs, x.at)
      BY <2>1, HaveReadAt DEF HaveRead
    <3> QED BY <3>1
  <2> QED BY <2>1 DEF Failed
<1> HIDE DEF T
<1>2. HaveRead(s, at, type, <<>>, base)
  <2>1. Stands(s, at, <<>>)
    <3>1. Len(<<>>) = 0 /\ Len(s) \in Nat
      OBVIOUS
    <3> QED BY <3>1 DEF Stands
  <2>2. at + 0 = at /\ <<>> \in Seq(Elements(type))
    OBVIOUS
  <2> QED BY <2>1, <2>2, ElementsBytesEmpty DEF HaveRead
<1>3. ASSUME NEW x \in T PROVE OneMoreElement(s, x, type) \in T
  <2>1. CASE Failed(x)
    <3>1. OneMoreElement(s, x, type) = x
      BY <2>1, ReadIs DEF OneMoreElement, Then
    <3> QED BY <3>1
  <2>2. CASE \E vs : HaveRead(s, at, type, vs, x)
    BY <1>1, <2>2, OneMoreElementSound
  <2> QED BY <1>1, <2>1, <2>2
<1>4. base \in T /\ step \in [1..count -> [T -> T]]
  BY <1>1, <1>2, <1>3
<1>5. \A k \in 1..count, x \in T : step[k][x] = OneMoreElement(s, x, type)
  OBVIOUS
<1> HIDE DEF step, base
<1>6. PICK f : IsTable(f, T, base, count, step)
  BY <1>4, TableExists
<1>7. f \in [0..count -> T] /\ f[0] = base
  BY <1>6 DEF IsTable
<1>8. ASSUME NEW k \in 1..count PROVE f[k] = OneMoreElement(s, f[k-1], type)
  <2>1. f[k-1] \in T
    BY <1>7
  <2> QED BY <1>5, <1>6, <2>1 DEF IsTable
<1> DEFINE Reads(g) == g = [k \in 0..count |->
                              IF k = 0 THEN Read(<<>>, at) ELSE OneMoreElement(s, g[k-1], type)]
           after == CHOOSE g : Reads(g)
<1>9. Reads(f)
  <2>1. f = [k \in 0..count |-> f[k]]
    BY <1>7
  <2>2. ASSUME NEW k \in 0..count
        PROVE  f[k] = IF k = 0 THEN Read(<<>>, at) ELSE OneMoreElement(s, f[k-1], type)
    BY <1>7, <1>8 DEF base
  <2> QED BY <2>1, <2>2
<1>10. Reads(after)
  <2> HIDE DEF Reads
  <2> QED BY <1>9
<1>11. ReadElements(s, at, type, count) = after[count]
  BY DEF ReadElements
<1> HIDE DEF after
<1>12. after[0] = Read(<<>>, at) /\ \A k \in 1..count : after[k] = OneMoreElement(s, after[k-1], type)
  BY <1>10
<1> QED BY <1>11, <1>12 DEF IsElementLoop

\* read_numeric_vector fails, or has read as many elements as it was to.
LEMMA ReadElementsSound ==
  ASSUME NEW s \in Seq(Byte), NEW at \in 0..Len(s), NEW type \in Types, NEW count \in Nat
  PROVE  \/ Failed(ReadElements(s, at, type, count))
         \/ \E vs : Len(vs) = count /\ HaveRead(s, at, type, vs, ReadElements(s, at, type, count))
<1>1. PICK f : IsElementLoop(f, s, at, type, count)
  BY ReadElementsLoop
<1> DEFINE S == {k \in 0..count : \/ Failed(f[k])
                                  \/ \E vs : Len(vs) = k /\ HaveRead(s, at, type, vs, f[k])}
<1>2. 0 \in S
  <2>1. HaveRead(s, at, type, <<>>, Read(<<>>, at))
    <3>1. Len(<<>>) = 0 /\ Len(s) \in Nat /\ at + 0 = at /\ <<>> \in Seq(Elements(type))
      OBVIOUS
    <3>2. Stands(s, at, <<>>)
      BY <3>1 DEF Stands
    <3> QED BY <3>1, <3>2, ElementsBytesEmpty DEF HaveRead
  <2>2. Len(<<>>) = 0
    OBVIOUS
  <2> QED BY <1>1, <2>1, <2>2 DEF IsElementLoop
<1>3. ASSUME NEW k \in 1..count, k - 1 \in S PROVE k \in S
  <2>1. f[k] = OneMoreElement(s, f[k-1], type) /\ k \in 0..count
    BY <1>1 DEF IsElementLoop
  <2>2. CASE Failed(f[k-1])
    <3>1. f[k] = f[k-1]
      BY <2>1, <2>2, ReadIs DEF OneMoreElement, Then
    <3> QED BY <2>1, <2>2, <3>1
  <2>3. CASE \E vs : Len(vs) = k - 1 /\ HaveRead(s, at, type, vs, f[k-1])
    <3>1. PICK vs : Len(vs) = k - 1 /\ HaveRead(s, at, type, vs, f[k-1])
      BY <2>3
    <3>2. \/ Failed(f[k])
          \/ \E v \in Elements(type) : HaveRead(s, at, type, Append(vs, v), f[k])
      BY <2>1, <3>1, OneMoreElementSound
    <3>3. \A v \in Elements(type) : Len(Append(vs, v)) = k
      BY <3>1 DEF HaveRead
    <3> QED BY <2>1, <3>2, <3>3
  <2> QED BY <1>3, <2>2, <2>3
<1> HIDE DEF S
<1>4. \A k \in 0..count : k \in S
  BY <1>2, <1>3, UpTo
<1>5. count \in S
  BY <1>4
<1> QED BY <1>1, <1>5 DEF S, IsElementLoop

\* One element more of a sequence.
LEMMA OneMorePrefix ==
  ASSUME NEW S, NEW vs \in Seq(S), NEW k \in 1..Len(vs)
  PROVE  /\ SubSeq(vs, 1, k - 1) \in Seq(S) /\ SubSeq(vs, 1, k) \in Seq(S)
         /\ vs[k] \in S
         /\ SubSeq(vs, 1, k) = Append(SubSeq(vs, 1, k - 1), vs[k])
<1> DEFINE a == SubSeq(vs, 1, k - 1)
           b == SubSeq(vs, 1, k)
<1>1. Len(vs) \in Nat /\ k \in Nat /\ k - 1 \in Nat /\ vs[k] \in S
  OBVIOUS
<1>2. a \in Seq(S) /\ Len(a) = k - 1 /\ \A j \in 1..(k - 1) : a[j] = vs[j]
  OBVIOUS
<1>3. b \in Seq(S) /\ Len(b) = k /\ \A j \in 1..k : b[j] = vs[j]
  OBVIOUS
<1> HIDE DEF a, b
<1>4. Append(a, vs[k]) = b
  <2> DEFINE c == Append(a, vs[k])
  <2>1. c \in Seq(S) /\ Len(c) = k /\ c[k] = vs[k] /\ \A j \in 1..(k - 1) : c[j] = a[j]
    BY <1>1, <1>2
  <2> HIDE DEF c
  <2>2. ASSUME NEW j \in 1..k PROVE c[j] = b[j]
    <3>1. CASE j = k
      BY <1>3, <2>1, <3>1
    <3>2. CASE j # k
      <4>1. j \in 1..(k - 1)
        BY <3>2
      <4> QED BY <1>2, <1>3, <2>1, <4>1
    <3> QED BY <3>1, <3>2
  <2>3. c = b
    BY <1>3, <2>1, <2>2
  <2> QED BY <2>3 DEF c
<1> QED BY <1>1, <1>2, <1>3, <1>4 DEF a, b

\* A round reads the next element when that stands there.
LEMMA OneMoreElementComplete ==
  ASSUME NEW s \in Seq(Byte), NEW at \in 0..Len(s), NEW type \in Types,
         NEW vs, NEW r, HaveRead(s, at, type, vs, r),
         NEW v \in Elements(type), Stands(s, at, ElementsBytes(type, Append(vs, v)))
  PROVE  HaveRead(s, at, type, Append(vs, v), OneMoreElement(s, r, type))
<1>1. r.at \in 0..Len(s) /\ IsRead(r) /\ r.value = vs /\ r.at = at + Len(ElementsBytes(type, vs))
  BY HaveReadAt
<1> DEFINE next == r.at
           q == ReadElement(s, next, type)
           t == ElementsBytes(type, vs)
           u == ElementBytes(type, v)
<1>2. OneMoreElement(s, r, type) = IF IsRead(q) THEN Read(Append(vs, q.value), q.at) ELSE q
  BY <1>1 DEF OneMoreElement, Then
<1>3. vs \in Seq(Elements(type)) /\ t \in Seq(Byte) /\ u \in Seq(Byte) /\ next \in Nat
  <2>1. vs \in Seq(Elements(type))
    BY DEF HaveRead
  <2>2. t \in Seq(Byte)
    BY <2>1, ElementsBytesText
  <2>3. u \in Seq(Byte)
    BY ElementBytesAre
  <2>4. next \in Nat
    <3>1. Len(s) \in Nat
      OBVIOUS
    <3> QED BY <1>1, <3>1
  <2> QED BY <2>1, <2>2, <2>3, <2>4
<1>4. Append(vs, v) \in Seq(Elements(type)) /\ ElementsBytes(type, Append(vs, v)) = t \o u
  BY <1>3, ElementsBytesAppend
<1>5. next = at + Len(t)
  BY <1>1
<1> HIDE DEF t, u, next
<1>6. Stands(s, next, u)
  BY <1>3, <1>4, <1>5, StandsTwo
<1>7. q = Read(v, next + Len(u))
  BY <1>3, <1>6, ReadElementComplete DEF u
<1>8. OneMoreElement(s, r, type) = Read(Append(vs, v), next + Len(u))
  <2> HIDE DEF q
  <2> QED BY <1>2, <1>7, ReadIs
<1>9. next + Len(u) = at + Len(t \o u)
  BY <1>3, <1>5
<1> QED BY <1>4, <1>8, <1>9 DEF HaveRead

\* Elements that stand there are read.
LEMMA ReadElementsComplete ==
  ASSUME NEW s \in Seq(Byte), NEW at \in 0..Len(s), NEW type \in Types,
         NEW vs \in Seq(Elements(type)), Stands(s, at, ElementsBytes(type, vs))
  PROVE  HaveRead(s, at, type, vs, ReadElements(s, at, type, Len(vs)))
<1> DEFINE n == Len(vs)
           E == Elements(type)
           p(k) == SubSeq(vs, 1, k)
<1>1. n \in Nat /\ p(n) = vs /\ p(0) = <<>>
  OBVIOUS
<1>2. \A k \in 1..n : p(k-1) \in Seq(E) /\ p(k) \in Seq(E) /\ vs[k] \in E /\ p(k) = Append(p(k-1), vs[k])
  <2> HIDE DEF E
  <2> QED BY OneMorePrefix DEF E
<1> HIDE DEF p
<1>3. PICK f : IsElementLoop(f, s, at, type, n)
  BY <1>1, ReadElementsLoop
<1> HIDE DEF n
<1> DEFINE D == {j \in 0..n : Stands(s, at, ElementsBytes(type, p(n-j)))}
<1>4. 0 \in D
  <2>1. n - 0 = n
    BY <1>1
  <2> QED BY <1>1, <2>1
<1>5. ASSUME NEW j \in 1..n, j - 1 \in D PROVE j \in D
  <2> DEFINE k == n - (j - 1)
  <2>1. k \in 1..n /\ k - 1 = n - j /\ Stands(s, at, ElementsBytes(type, p(k)))
    BY <1>1, <1>5
  <2> HIDE DEF k
  <2> DEFINE t == ElementsBytes(type, p(k-1))
             u == ElementBytes(type, vs[k])
  <2>2. ElementsBytes(type, p(k)) = t \o u
    BY <1>2, <2>1, ElementsBytesAppend
  <2>3. t \in Seq(Byte) /\ u \in Seq(Byte)
    BY <1>2, <2>1, ElementsBytesText, ElementBytesAre
  <2> HIDE DEF t, u
  <2>4. Stands(s, at, t)
    BY <2>1, <2>2, <2>3, StandsTwo
  <2> QED BY <1>5, <2>1, <2>4 DEF t
<1> HIDE DEF D
<1>6. \A j \in 0..n : j \in D
  BY <1>1, <1>4, <1>5, UpTo
<1>7. ASSUME NEW k \in 0..n PROVE Stands(s, at, ElementsBytes(type, p(k)))
  <2>1. n - k \in 0..n /\ n - (n - k) = k
    BY <1>1
  <2> QED BY <1>6, <2>1 DEF D
<1> DEFINE U == {k \in 0..n : HaveRead(s, at, type, p(k), f[k])}
<1>8. 0 \in U
  <2>1. HaveRead(s, at, type, <<>>, Read(<<>>, at))
    <3>1. Len(<<>>) = 0 /\ Len(s) \in Nat /\ at + 0 = at /\ <<>> \in Seq(Elements(type))
      OBVIOUS
    <3>2. Stands(s, at, <<>>)
      BY <3>1 DEF Stands
    <3> QED BY <3>1, <3>2, ElementsBytesEmpty DEF HaveRead
  <2>2. f[0] = Read(<<>>, at) /\ 0 \in 0..n
    BY <1>1, <1>3 DEF IsElementLoop
  <2> QED BY <1>1, <2>1, <2>2
<1>9. ASSUME NEW k \in 1..n, k - 1 \in U PROVE k \in U
  <2>1. f[k] = OneMoreElement(s, f[k-1], type) /\ k \in 0..n
    BY <1>1, <1>3 DEF IsElementLoop
  <2>2. HaveRead(s, at, type, p(k-1), f[k-1]) /\ vs[k] \in Elements(type)
    BY <1>2, <1>9
  <2>3. Stands(s, at, ElementsBytes(type, Append(p(k-1), vs[k])))
    <3>1. p(k) = Append(p(k-1), vs[k])
      BY <1>2
    <3> QED BY <1>7, <2>1, <3>1
  <2>4. HaveRead(s, at, type, Append(p(k-1), vs[k]), f[k])
    BY <2>1, <2>2, <2>3, OneMoreElementComplete
  <2>5. p(k) = Append(p(k-1), vs[k])
    BY <1>2
  <2> QED BY <2>1, <2>4, <2>5
<1> HIDE DEF U
<1>10. \A k \in 0..n : k \in U
  BY <1>1, <1>8, <1>9, UpTo
<1>11. n \in U
  BY <1>1, <1>10
<1> QED BY <1>1, <1>3, <1>11 DEF U, IsElementLoop, n

-----------------------------------------------------------------------------
(***************************************************************************)
(* Buffers.                                                                *)
(***************************************************************************)
\* A number below a word is its own remainder.
LEMMA SmallRemainder ==
  \A n \in 0..(Word - 1) : n % Word = n
<1>1. Word \in Nat /\ Word > 6
  BY PlaceValues
<1> QED BY <1>1

\* What a vector can hold is less than what a number can say.
LEMMA CapacityType ==
  ASSUME NEW type
  PROVE  Capacity(type) \in Nat /\ Capacity(type) < Word
<1> DEFINE size == CASE type \in {"bool", "uint8"} -> 1
                     [] type = "string" -> 4 * WordBytes
                     [] OTHER -> WordBytes
           room == Word \div 2 - 1
<1>1. size \in Nat /\ size > 0
  BY WordBytesAssumption
<1>2. Word \in Nat /\ Word > 6
  BY PlaceValues
<1>3. room \in Nat /\ room < Word
  BY <1>2
<1>4. Capacity(type) = room \div size
  BY DEF Capacity
<1> HIDE DEF size, room
<1> DEFINE q == room \div size
           r == room % size
<1>5. r \in 0..(size - 1) /\ q \in Int /\ room = size * q + r
  BY <1>1, <1>3, Divided
<1> HIDE DEF q, r
<1>6. q \in Nat /\ q <= room
  <2>1. ASSUME q < 0 PROVE FALSE
    <3>1. size * q <= -size
      BY <1>1, <1>5, <2>1
    <3> QED BY <1>1, <1>3, <1>5, <3>1
  <2>2. q \in Nat
    BY <1>5, <2>1
  <2>3. q <= size * q
    BY <1>1, <2>2
  <2>4. size * q \in Nat
    BY <1>1, <2>2
  <2> QED BY <1>1, <1>3, <1>5, <2>2, <2>3, <2>4
<1>7. Capacity(type) = q
  BY <1>4 DEF q
<1> QED BY <1>2, <1>3, <1>6, <1>7

\* What a buffer is, and when there is one of a type and values.
LEMMA BufferIs ==
  /\ \A b : IsBuffer(b) => /\ b = BufferOf(b.type, b.values) /\ b.type \in Types
                           /\ b.values \in Seq(Elements(b.type)) /\ Len(b.values) <= Capacity(b.type)
  /\ \A type \in Types : \A vs \in Seq(Elements(type)) :
       Len(vs) <= Capacity(type) => IsBuffer(BufferOf(type, vs))
<1>1. ASSUME NEW type, NEW vs
      PROVE  BufferOf(type, vs).type = type /\ BufferOf(type, vs).values = vs
  BY DEF BufferOf
<1>2. \A type : type \in Types <=> \E t \in DOMAIN BufferTypes : type = BufferTypes[t]
  BY DEF Types
<1> QED BY <1>1, <1>2 DEF IsBuffer

\* What stands for a buffer is its tag, its length and its elements.
LEMMA BufferStands ==
  ASSUME NEW s \in Seq(Byte), NEW at \in Nat, NEW b, IsBuffer(b)
  PROVE  /\ BufferBytes(b) \in Seq(Byte)
         /\ Len(BufferBytes(b)) = (1 + WordBytes) + Len(ElementsBytes(b.type, b.values))
         /\ Stands(s, at, BufferBytes(b)) <=>
              /\ Stands(s, at, <<Tag(b.type)>>)
              /\ Stands(s, at + 1, NumberBytes(Len(b.values)))
              /\ Stands(s, at + (1 + WordBytes), ElementsBytes(b.type, b.values))
<1> DEFINE t == <<Tag(b.type)>>
           n == NumberBytes(Len(b.values))
           e == ElementsBytes(b.type, b.values)
<1>1. b.type \in Types /\ b.values \in Seq(Elements(b.type))
  BY BufferIs
<1>2. Tag(b.type) \in Byte
  <2>1. Tag(b.type) \in 0..6
    BY <1>1, TypesAre
  <2> QED BY <2>1, ByteSizeAssumption DEF Byte
<1>3. t \in Seq(Byte) /\ Len(t) = 1
  BY <1>2
<1>4. Len(b.values) \in Nat
  BY <1>1
<1>5. n \in Seq(Byte) /\ Len(n) = WordBytes /\ WordBytes \in Nat
  BY <1>4, NumberBytesText, WordBytesAssumption
<1>6. e \in Seq(Byte)
  BY <1>1, ElementsBytesText
<1>7. BufferBytes(b) = (t \o n) \o e
  BY DEF BufferBytes, ElementsBytes
<1> HIDE DEF t, n, e
<1>8. t \o n \in Seq(Byte) /\ Len(t \o n) = 1 + WordBytes
  <2>1. t \o n \in Seq(Byte)
    BY <1>3, <1>5
  <2>2. Len(t \o n) = Len(t) + Len(n)
    BY <1>3, <1>5, TwoParts
  <2> QED BY <1>3, <1>5, <2>1, <2>2
<1>9. (t \o n) \o e \in Seq(Byte) /\ Len((t \o n) \o e) = (1 + WordBytes) + Len(e)
  BY <1>6, <1>8
<1>10. Stands(s, at, (t \o n) \o e) <=> Stands(s, at, t \o n) /\ Stands(s, at + (1 + WordBytes), e)
  BY <1>6, <1>8, StandsTwo
<1>11. Stands(s, at, t \o n) <=> Stands(s, at, t) /\ Stands(s, at + 1, n)
  BY <1>3, <1>5, StandsTwo
<1> QED BY <1>7, <1>9, <1>10, <1>11 DEF t, n, e

\* The rest of read_buffer fails, or returns the buffer of its tag, count and elements.
LEMMA ReadValuesSound ==
  ASSUME NEW s \in Seq(Byte), NEW at \in 0..Len(s), NEW tag \in Byte, NEW count \in Nat
  PROVE  \/ Failed(ReadValues(s, at, tag, count))
         \/ \E b : /\ IsBuffer(b) /\ tag = Tag(b.type) /\ count = Len(b.values)
                   /\ Stands(s, at, ElementsBytes(b.type, b.values))
                   /\ ReadValues(s, at, tag, count) = Read(b, at + Len(ElementsBytes(b.type, b.values)))
<1> DEFINE type == BufferTypes[tag + 1]
           q == ReadElements(s, at, type, count)
<1>1. ReadValues(s, at, tag, count) =
        IF tag >= Len(BufferTypes) THEN Throw("invalid_argument")
        ELSE IF count > Capacity(type) THEN Throw("length_error")
        ELSE IF IsRead(q) THEN Read(BufferOf(type, q.value), q.at) ELSE q
  BY DEF ReadValues, Then
<1>2. CASE tag >= Len(BufferTypes) \/ count > Capacity(type)
  BY <1>1, <1>2 DEF Failed
<1>3. CASE ~(tag >= Len(BufferTypes)) /\ ~(count > Capacity(type))
  <2>1. tag \in 0..6
    BY <1>3, TypesAre, ByteSizeAssumption DEF Byte
  <2>2. type \in Types /\ Tag(type) = tag
    BY <2>1, TypesAre
  <2> HIDE DEF type, q
  <2>3. count <= Capacity(type)
    BY <1>3, CapacityType
  <2>4. ReadValues(s, at, tag, count) = IF IsRead(q) THEN Read(BufferOf(type, q.value), q.at) ELSE q
    BY <1>1, <1>3
  <2>5. CASE Failed(q)
    BY <2>4, <2>5, ReadIs
  <2>6. CASE ~Failed(q)
    <3>1. PICK vs : Len(vs) = count /\ HaveRead(s, at, type, vs, q)
      BY <2>2, <2>6, ReadElementsSound DEF q
    <3> DEFINE b == BufferOf(type, vs)
    <3>2. vs \in Seq(Elements(type))
      BY <3>1 DEF HaveRead
    <3>3. IsBuffer(b)
      BY <2>2, <2>3, <3>1, <3>2, BufferIs
    <3>4. b.type = type /\ b.values = vs
      BY DEF BufferOf
    <3>5. IsRead(q) /\ q.value = vs /\ q.at = at + Len(ElementsBytes(type, vs))
      BY <2>2, <3>1, HaveReadAt
    <3> HIDE DEF b
    <3>6. ReadValues(s, at, tag, count) = Read(b, at + Len(ElementsBytes(b.type, b.values)))
      BY <2>4, <3>4, <3>5 DEF b
    <3>7. Stands(s, at, ElementsBytes(b.type, b.values))
      BY <3>1, <3>4 DEF HaveRead
    <3> QED BY <2>2, <3>1, <3>3, <3>4, <3>6, <3>7
  <2> QED BY <2>5, <2>6
<1> QED BY <1>2, <1>3

\* read_buffer, without the operator that hands values on.
LEMMA ReadBufferParts ==
  ASSUME NEW s, NEW at, NEW r, r = ReadBytes(s, at, 1), NEW q, q = ReadNumber(s, r.at)
  PROVE  ReadBuffer(s, at) =
           IF IsRead(r) THEN IF IsRead(q) THEN ReadValues(s, q.at, r.value[1], q.value) ELSE q ELSE r
BY DEF ReadBuffer, Then

\* read_buffer fails, or returns the buffer whose bytes stand there.
LEMMA ReadBufferSound ==
  ASSUME NEW s \in Seq(Byte), NEW at \in 0..Len(s)
  PROVE  \/ Failed(ReadBuffer(s, at))
         \/ \E b : /\ IsBuffer(b) /\ Stands(s, at, BufferBytes(b))
                   /\ ReadBuffer(s, at) = Read(b, at + Len(BufferBytes(b)))
<1> DEFINE r == ReadBytes(s, at, 1)
           q == ReadNumber(s, r.at)
<1>1. ReadBuffer(s, at) =
        IF IsRead(r) THEN IF IsRead(q) THEN ReadValues(s, q.at, r.value[1], q.value) ELSE q ELSE r
  BY ReadBufferParts
<1>2. Failed(r) \/ \E b \in Seq(Byte) : Len(b) = 1 /\ Stands(s, at, b) /\ r = Read(b, at + 1)
  <2>1. 1 \in Nat
    OBVIOUS
  <2> QED BY <2>1, ReadBytesSound
<1>3. CASE Failed(r)
  <2> HIDE DEF r, q
  <2> QED BY <1>1, <1>3, ReadIs
<1>4. CASE ~Failed(r)
  <2>1. PICK b1 \in Seq(Byte) : Len(b1) = 1 /\ Stands(s, at, b1) /\ r = Read(b1, at + 1)
    BY <1>2, <1>4
  <2>2. b1 = <<b1[1]>> /\ b1[1] \in Byte
    BY <2>1, SingleElement
  <2> HIDE DEF r
  <2>3. IsRead(r) /\ r.value = b1 /\ r.at = at + 1
    BY <2>1, ReadIs
  <2>4. at + 1 \in 0..Len(s) /\ at \in Nat
    BY <2>1 DEF Stands
  <2>5. CASE Failed(q)
    <3> HIDE DEF q
    <3> QED BY <1>1, <2>3, <2>5, ReadIs
  <2>6. CASE ~Failed(q)
    <3>1. PICK n \in 0..(Word - 1) : /\ Stands(s, at + 1, NumberBytes(n))
                                     /\ q = Read(n, (at + 1) + WordBytes)
      BY <2>3, <2>4, <2>6, ReadNumberSound
    <3> HIDE DEF q
    <3>2. n \in Nat /\ (at + 1) + WordBytes \in 0..Len(s)
      BY <2>4, <3>1, ReadNumberComplete, PlaceValues
    <3>3. (at + 1) + WordBytes = at + (1 + WordBytes)
      BY <2>4, WordBytesAssumption
    <3> DEFINE p == at + (1 + WordBytes)
               v == ReadValues(s, p, b1[1], n)
    <3>4. ReadBuffer(s, at) = v
      BY <1>1, <2>3, <3>1, <3>3, ReadIs
    <3>5. p \in 0..Len(s)
      BY <3>2, <3>3
    <3>6. CASE Failed(v)
      BY <3>4, <3>6
    <3>7. CASE ~Failed(v)
      <4> HIDE DEF v, p
      <4>1. PICK b : /\ IsBuffer(b) /\ b1[1] = Tag(b.type) /\ n = Len(b.values)
                     /\ Stands(s, p, ElementsBytes(b.type, b.values))
                     /\ v = Read(b, p + Len(ElementsBytes(b.type, b.values)))
        BY <2>2, <3>2, <3>5, <3>7, ReadValuesSound DEF v
      <4>2. /\ Stands(s, at, <<Tag(b.type)>>)
            /\ Stands(s, at + 1, NumberBytes(Len(b.values)))
            /\ Stands(s, at + (1 + WordBytes), ElementsBytes(b.type, b.values))
        BY <2>1, <2>2, <3>1, <4>1 DEF p
      <4>3. Stands(s, at, BufferBytes(b))
        BY <2>4, <4>1, <4>2, BufferStands
      <4>4. p + Len(ElementsBytes(b.type, b.values)) = at + Len(BufferBytes(b))
        <5>1. Len(BufferBytes(b)) = (1 + WordBytes) + Len(ElementsBytes(b.type, b.values))
          BY <2>4, <4>1, BufferStands
        <5>2. ElementsBytes(b.type, b.values) \in Seq(Byte)
          BY <4>1, BufferIs, ElementsBytesText
        <5>3. Len(ElementsBytes(b.type, b.values)) \in Nat
          BY <5>2
        <5> QED BY <2>4, <5>1, <5>3, WordBytesAssumption DEF p
      <4> QED BY <3>4, <4>1, <4>3, <4>4
    <3> QED BY <3>6, <3>7
  <2> QED BY <2>5, <2>6
<1> QED BY <1>3, <1>4

\* A buffer that stands there is read.
LEMMA ReadBufferComplete ==
  ASSUME NEW s \in Seq(Byte), NEW at \in Nat, NEW b, IsBuffer(b), Stands(s, at, BufferBytes(b))
  PROVE  ReadBuffer(s, at) = Read(b, at + Len(BufferBytes(b)))
<1> DEFINE t == <<Tag(b.type)>>
           e == ElementsBytes(b.type, b.values)
           p == at + (1 + WordBytes)
<1>1. /\ b = BufferOf(b.type, b.values) /\ b.type \in Types
      /\ b.values \in Seq(Elements(b.type)) /\ Len(b.values) <= Capacity(b.type)
  BY BufferIs
<1>2. /\ Stands(s, at, t) /\ Stands(s, at + 1, NumberBytes(Len(b.values))) /\ Stands(s, p, e)
      /\ Len(BufferBytes(b)) = (1 + WordBytes) + Len(e)
  BY BufferStands
<1>3. Tag(b.type) \in 0..6 /\ Tag(b.type) \in Byte /\ BufferTypes[Tag(b.type) + 1] = b.type
  <2>1. Tag(b.type) \in 0..6 /\ BufferTypes[Tag(b.type) + 1] = b.type
    BY <1>1, TypesAre
  <2> QED BY <2>1, ByteSizeAssumption DEF Byte
<1>4. ReadBytes(s, at, 1) = Read(t, at + 1) /\ t[1] = Tag(b.type)
  <2>1. t \in Seq(Byte) /\ Len(t) = 1 /\ t[1] = Tag(b.type)
    BY <1>3
  <2> HIDE DEF t
  <2>2. ReadBytes(s, at, Len(t)) = Read(t, at + Len(t))
    BY <1>2, <2>1, ReadBytesComplete
  <2> QED BY <2>1, <2>2
<1>5. Len(b.values) \in 0..(Word - 1) /\ Len(b.values) \in Nat
  <2>1. Len(b.values) \in Nat
    BY <1>1
  <2> QED BY <1>1, <2>1, CapacityType, PlaceValues
<1>6. /\ ReadNumber(s, at + 1) = Read(Len(b.values), p)
      /\ p \in 0..Len(s)
  <2>1. Len(b.values) % Word = Len(b.values)
    BY <1>5, SmallRemainder
  <2>2. /\ ReadNumber(s, at + 1) = Read(Len(b.values) % Word, (at + 1) + WordBytes)
        /\ (at + 1) + WordBytes \in 0..Len(s)
    <3>1. at + 1 \in Nat
      OBVIOUS
    <3> QED BY <1>2, <1>5, <3>1, ReadNumberComplete
  <2>3. (at + 1) + WordBytes = p
    BY WordBytesAssumption
  <2> QED BY <2>1, <2>2, <2>3
<1> HIDE DEF e, p
<1> DEFINE v == ReadElements(s, p, b.type, Len(b.values))
<1>7. HaveRead(s, p, b.type, b.values, v)
  BY <1>1, <1>2, <1>6, ReadElementsComplete DEF e
<1>8. IsRead(v) /\ v.value = b.values /\ v.at = p + Len(e)
  BY <1>1, <1>6, <1>7, HaveReadAt DEF e
<1>9. ReadBuffer(s, at) = ReadValues(s, p, Tag(b.type), Len(b.values))
  <2> DEFINE r == ReadBytes(s, at, 1)
             q == ReadNumber(s, r.at)
  <2>1. ReadBuffer(s, at) =
          IF IsRead(r) THEN IF IsRead(q) THEN ReadValues(s, q.at, r.value[1], q.value) ELSE q ELSE r
    BY ReadBufferParts
  <2>2. IsRead(r) /\ r.value = t /\ r.at = at + 1
    BY <1>4, ReadIs
  <2> HIDE DEF r
  <2>3. IsRead(q) /\ q.value = Len(b.values) /\ q.at = p
    BY <1>6, <2>2, ReadIs
  <2> HIDE DEF q
  <2> QED BY <1>4, <2>1, <2>2, <2>3
<1>10. ReadValues(s, p, Tag(b.type), Len(b.values)) = Read(b, p + Len(e))
  <2>1. ~(Tag(b.type) >= Len(BufferTypes)) /\ ~(Len(b.values) > Capacity(b.type))
    BY <1>1, <1>3, <1>5, TypesAre, CapacityType
  <2>2. ReadValues(s, p, Tag(b.type), Len(b.values)) =
          IF IsRead(v) THEN Read(BufferOf(b.type, v.value), v.at) ELSE v
    BY <1>3, <2>1 DEF ReadValues, Then
  <2> HIDE DEF v
  <2> QED BY <1>1, <1>8, <2>2
<1>11. p + Len(e) = at + Len(BufferBytes(b))
  <2>1. e \in Seq(Byte)
    BY <1>1, ElementsBytesText DEF e
  <2>2. Len(e) \in Nat
    BY <2>1
  <2> QED BY <1>2, <2>2, WordBytesAssumption DEF p
<1> QED BY <1>9, <1>10, <1>11

-----------------------------------------------------------------------------
(***************************************************************************)
(* Entries.                                                                *)
(***************************************************************************)
EntriesBytes(bs, order) == FlattenSeq([n \in DOMAIN order |-> EntryBytes(order[n], bs[order[n]])])

\* The keys of bs, each once, in some order.
AreEntries(order, bs) ==
  /\ bs = [key \in DOMAIN bs |-> bs[key]]
  /\ order \in Seq(DOMAIN bs)
  /\ \A key \in DOMAIN bs : \E n \in 1..Len(order) : order[n] = key
  /\ \A m, n \in 1..Len(order) : order[m] = order[n] => m = n
  /\ \A key \in DOMAIN bs : key \in Seq(Letter) /\ Len(key) < Word /\ IsBuffer(bs[key])

\* One part more is put behind the others, where it is parts that are known.
LEMMA PartsAppend ==
  ASSUME NEW n \in Nat, NEW parts \in [1..n -> Seq(Byte)], NEW p \in Seq(Byte),
         NEW more \in [1..(n + 1) -> Seq(Byte)],
         more[n + 1] = p, \A k \in 1..n : more[k] = parts[k]
  PROVE  FlattenSeq(more) = FlattenSeq(parts) \o p
<1> DEFINE a == Append(parts, p)
<1>1. parts \in Seq(Seq(Byte)) /\ Len(parts) = n
  <2> DEFINE T == Seq(Byte)
  <2> HIDE DEF T
  <2>1. parts \in [1..n -> T]
    BY DEF T
  <2>2. parts \in Seq(T) /\ Len(parts) = n
    BY <2>1
  <2> QED BY <2>2 DEF T
<1>2. a \in Seq(Seq(Byte)) /\ Len(a) = n + 1 /\ a[n + 1] = p /\ \A k \in 1..n : a[k] = parts[k]
  BY <1>1
<1>3. FlattenSeq(a) = FlattenSeq(parts) \o p
  BY <1>1, FlattenAppend
<1> HIDE DEF a
<1>4. a = [k \in 1..(n + 1) |-> a[k]]
  <2>1. a = [k \in 1..Len(a) |-> a[k]]
    BY <1>2
  <2> QED BY <1>2, <2>1
<1>5. ASSUME NEW k \in 1..(n + 1) PROVE a[k] = more[k]
  <2>1. k = n + 1 \/ k \in 1..n
    OBVIOUS
  <2> QED BY <1>2, <2>1
<1>6. a = more
  BY <1>4, <1>5
<1> QED BY <1>3, <1>6

\* An entry is written as the string of its key and its buffer.
LEMMA EntryBytesAre ==
  ASSUME NEW key \in Seq(Letter), NEW b, IsBuffer(b)
  PROVE  /\ EntryBytes(key, b) = StringBytes(NameBytes(key)) \o BufferBytes(b)
         /\ StringBytes(NameBytes(key)) \in Seq(Byte) /\ BufferBytes(b) \in Seq(Byte)
         /\ EntryBytes(key, b) \in Seq(Byte)
<1>1. NameBytes(key) \in Seq(Byte) /\ Len(NameBytes(key)) = Len(key)
  BY NameBytesComplete
<1>2. StringBytes(NameBytes(key)) \in Seq(Byte)
  BY <1>1, StringBytesText
<1>3. BufferBytes(b) \in Seq(Byte)
  <2>1. <<>> \in Seq(Byte) /\ 0 \in Nat
    OBVIOUS
  <2> QED BY <2>1, BufferStands
<1>4. TextBytes(key) = StringBytes(NameBytes(key))
  BY <1>1 DEF TextBytes, StringBytes, NameBytes
<1>5. EntryBytes(key, b) = StringBytes(NameBytes(key)) \o BufferBytes(b)
  BY <1>4 DEF EntryBytes
<1>6. StringBytes(NameBytes(key)) \o BufferBytes(b) \in Seq(Byte)
  BY <1>2, <1>3, TwoParts
<1> QED BY <1>2, <1>3, <1>5, <1>6

\* What is written of entries is a text.
LEMMA EntriesBytesText ==
  ASSUME NEW order, NEW bs, AreEntries(order, bs)
  PROVE  /\ Len(order) \in Nat /\ DOMAIN order = 1..Len(order)
         /\ [n \in DOMAIN order |-> EntryBytes(order[n], bs[order[n]])] \in [1..Len(order) -> Seq(Byte)]
         /\ EntriesBytes(bs, order) \in Seq(Byte)
<1> DEFINE parts == [n \in DOMAIN order |-> EntryBytes(order[n], bs[order[n]])]
<1>1. order \in Seq(DOMAIN bs)
  BY DEF AreEntries
<1>2. Len(order) \in Nat /\ DOMAIN order = 1..Len(order) /\ \A n \in DOMAIN order : order[n] \in DOMAIN bs
  BY <1>1
<1>3. ASSUME NEW n \in DOMAIN order PROVE EntryBytes(order[n], bs[order[n]]) \in Seq(Byte)
  <2>1. order[n] \in Seq(Letter) /\ IsBuffer(bs[order[n]])
    BY <1>2 DEF AreEntries
  <2> QED BY <2>1, EntryBytesAre
<1>4. parts \in [1..Len(order) -> Seq(Byte)]
  BY <1>2, <1>3
<1> HIDE DEF parts
<1>5. parts \in Seq(Seq(Byte))
  BY <1>2, <1>4
<1>6. FlattenSeq(parts) \in Seq(Byte)
  BY <1>5, FlattenType
<1> QED BY <1>2, <1>4, <1>6 DEF parts, EntriesBytes

\* The map of no entries.
LEMMA NoEntries ==
  AreEntries(<<>>, NoBuffers) /\ EntriesBytes(NoBuffers, <<>>) = <<>>
<1>1. DOMAIN NoBuffers = {} /\ NoBuffers = [key \in DOMAIN NoBuffers |-> NoBuffers[key]]
  BY DEF NoBuffers
<1>2. Len(<<>>) = 0 /\ <<>> \in Seq({})
  OBVIOUS
<1>3. AreEntries(<<>>, NoBuffers)
  BY <1>1, <1>2 DEF AreEntries
<1>4. [n \in DOMAIN <<>> |-> EntryBytes(<<>>[n], NoBuffers[<<>>[n]])] = <<>>
  OBVIOUS
<1> QED BY <1>3, <1>4, FlattenEmpty DEF EntriesBytes

\* One entry more is put behind the others.
LEMMA EntriesAppend ==
  ASSUME NEW order, NEW bs, AreEntries(order, bs),
         NEW key \in Seq(Letter), Len(key) < Word, key \notin DOMAIN bs, NEW b, IsBuffer(b)
  PROVE  /\ AreEntries(Append(order, key), WithEntry(bs, key, b))
         /\ EntriesBytes(WithEntry(bs, key, b), Append(order, key)) =
              EntriesBytes(bs, order) \o EntryBytes(key, b)
<1> DEFINE cs == WithEntry(bs, key, b)
           longer == Append(order, key)
           n == Len(order)
           parts == [k \in DOMAIN order |-> EntryBytes(order[k], bs[order[k]])]
           more == [k \in DOMAIN longer |-> EntryBytes(longer[k], cs[longer[k]])]
<1>1. order \in Seq(DOMAIN bs)
  BY DEF AreEntries
<1>2. n \in Nat /\ DOMAIN order = 1..n /\ \A k \in 1..n : order[k] \in DOMAIN bs
  BY <1>1
<1>3. /\ DOMAIN cs = DOMAIN bs \cup {key} /\ cs[key] = b /\ cs = [k \in DOMAIN cs |-> cs[k]]
      /\ \A k \in DOMAIN bs : cs[k] = bs[k]
  BY DEF WithEntry
<1>4. /\ DOMAIN longer = 1..(n + 1) /\ Len(longer) = n + 1
      /\ longer[n + 1] = key /\ \A k \in 1..n : longer[k] = order[k]
  BY <1>1
<1>5. longer \in Seq(DOMAIN cs)
  <2>1. order \in Seq(DOMAIN cs) /\ key \in DOMAIN cs
    <3>1. DOMAIN bs \subseteq DOMAIN cs
      BY <1>3
    <3> HIDE DEF cs
    <3> QED BY <1>1, <1>3, <3>1
  <2> QED BY <2>1
<1> HIDE DEF cs, longer
<1>6. AreEntries(longer, cs)
  <2>1. ASSUME NEW x \in DOMAIN cs PROVE \E k \in 1..Len(longer) : longer[k] = x
    <3>1. CASE x = key
      <4>1. n + 1 \in 1..Len(longer)
        BY <1>2, <1>4
      <4> QED BY <1>4, <3>1, <4>1
    <3>2. CASE x # key
      <4>1. x \in DOMAIN bs
        BY <1>3, <3>2
      <4>2. PICK k \in 1..n : order[k] = x
        BY <4>1 DEF AreEntries
      <4>3. k \in 1..Len(longer)
        BY <1>2, <1>4
      <4> QED BY <1>4, <4>2, <4>3
    <3> QED BY <3>1, <3>2
  <2>2. ASSUME NEW j \in 1..Len(longer), NEW k \in 1..Len(longer), longer[j] = longer[k] PROVE j = k
    <3>1. (j = n + 1 \/ j \in 1..n) /\ (k = n + 1 \/ k \in 1..n)
      BY <1>2, <1>4
    <3>2. CASE j \in 1..n /\ k \in 1..n
      BY <1>4, <2>2, <3>2 DEF AreEntries
    <3>3. CASE j = n + 1 /\ k \in 1..n
      BY <1>2, <1>4, <2>2, <3>3
    <3>4. CASE j \in 1..n /\ k = n + 1
      BY <1>2, <1>4, <2>2, <3>4
    <3> QED BY <3>1, <3>2, <3>3, <3>4
  <2>3. ASSUME NEW x \in DOMAIN cs PROVE x \in Seq(Letter) /\ Len(x) < Word /\ IsBuffer(cs[x])
    BY <1>3 DEF AreEntries
  <2> QED BY <1>3, <1>5, <2>1, <2>2, <2>3 DEF AreEntries
<1>7. parts \in [1..n -> Seq(Byte)]
  BY EntriesBytesText
<1>8. EntryBytes(key, b) \in Seq(Byte)
  BY EntryBytesAre
<1>9. more = [k \in 1..(n + 1) |-> more[k]] /\ more[n + 1] = EntryBytes(key, b)
  <2>1. n + 1 \in 1..(n + 1)
    BY <1>2
  <2> QED BY <1>3, <1>4, <2>1
<1>10. ASSUME NEW k \in 1..n PROVE more[k] = parts[k]
  <2>1. k \in DOMAIN longer /\ k \in DOMAIN order
    BY <1>2, <1>4
  <2>2. longer[k] = order[k] /\ cs[order[k]] = bs[order[k]]
    BY <1>2, <1>3, <1>4
  <2> QED BY <2>1, <2>2
<1> HIDE DEF parts, more
<1>11. FlattenSeq(more) = FlattenSeq(parts) \o EntryBytes(key, b)
  <2> DEFINE p == EntryBytes(key, b)
  <2> HIDE DEF p, n
  <2>1. n \in Nat /\ p \in Seq(Byte) /\ more[n + 1] = p
    BY <1>2, <1>8, <1>9 DEF p
  <2>2. more \in [1..(n + 1) -> Seq(Byte)]
    <3>1. ASSUME NEW k \in 1..(n + 1) PROVE more[k] \in Seq(Byte)
      <4>1. k = n + 1 \/ k \in 1..n
        BY <2>1
      <4> QED BY <1>7, <1>10, <2>1, <4>1
    <3> QED BY <1>9, <3>1
  <2>3. \A k \in 1..n : more[k] = parts[k]
    BY <1>10
  <2>4. n \in Nat /\ parts \in [1..n -> Seq(Byte)] /\ more \in [1..(n + 1) -> Seq(Byte)]
    BY <1>7, <2>1, <2>2 DEF n
  <2> HIDE DEF n
  <2>5. FlattenSeq(more) = FlattenSeq(parts) \o p
    BY ONLY <2>1, <2>3, <2>4, PartsAppend, Zenon
  <2> QED BY <2>5 DEF p
<1> QED BY <1>6, <1>11 DEF EntriesBytes, parts, more, cs, longer

\* r has read the entries of bs from at on, in that order.
HaveEntries(s, at, order, bs, r) ==
  /\ AreEntries(order, bs)
  /\ Stands(s, at, EntriesBytes(bs, order))
  /\ r = Read(bs, at + Len(EntriesBytes(bs, order)))

\* What has been read of entries, and where the reader is.
LEMMA HaveEntriesAt ==
  ASSUME NEW s \in Seq(Byte), NEW at \in 0..Len(s), NEW order, NEW bs, NEW r, HaveEntries(s, at, order, bs, r)
  PROVE  r.at \in 0..Len(s) /\ IsRead(r) /\ r.value = bs /\ r.at = at + Len(EntriesBytes(bs, order))
<1>1. EntriesBytes(bs, order) \in Seq(Byte)
  BY EntriesBytesText DEF HaveEntries
<1>2. Len(EntriesBytes(bs, order)) \in Nat /\ Len(s) \in Nat
  BY <1>1
<1>3. at + Len(EntriesBytes(bs, order)) \in 0..Len(s)
  BY <1>2 DEF HaveEntries, Stands
<1> QED BY <1>3, ReadIs DEF HaveEntries

\* Before the first round no entries have been read.
LEMMA HaveNoEntries ==
  ASSUME NEW s \in Seq(Byte), NEW at \in 0..Len(s)
  PROVE  HaveEntries(s, at, <<>>, NoBuffers, Read(NoBuffers, at))
<1>1. Len(<<>>) = 0 /\ Len(s) \in Nat /\ at + 0 = at
  OBVIOUS
<1>2. Stands(s, at, <<>>)
  BY <1>1 DEF Stands
<1> QED BY <1>1, <1>2, NoEntries DEF HaveEntries

\* A round of buffers_from_binary, without the operator that hands values on.
LEMMA OneMoreEntryParts ==
  ASSUME NEW s, NEW r, IsRead(r), NEW q, q = ReadString(s, r.at), NEW v, v = ReadBuffer(s, q.at)
  PROVE  OneMoreEntry(s, r) =
           IF IsRead(q)
           THEN IF IsRead(v)
                THEN IF NameOf(q.value) \in DOMAIN r.value THEN Throw("invalid_argument")
                     ELSE Read(WithEntry(r.value, NameOf(q.value), v.value), v.at)
                ELSE v
           ELSE q
BY DEF OneMoreEntry, Then

\* A string and a buffer behind it are an entry.
LEMMA EntryStands ==
  ASSUME NEW s \in Seq(Byte), NEW at \in Nat, NEW key \in Seq(Letter), NEW b, IsBuffer(b)
  PROVE  /\ Stands(s, at, EntryBytes(key, b)) <=>
              /\ Stands(s, at, StringBytes(NameBytes(key)))
              /\ Stands(s, at + Len(StringBytes(NameBytes(key))), BufferBytes(b))
         /\ at + Len(EntryBytes(key, b)) = (at + Len(StringBytes(NameBytes(key)))) + Len(BufferBytes(b))
         /\ at + Len(StringBytes(NameBytes(key))) \in Nat
<1> DEFINE t == StringBytes(NameBytes(key))
           u == BufferBytes(b)
<1>1. EntryBytes(key, b) = t \o u /\ t \in Seq(Byte) /\ u \in Seq(Byte)
  BY EntryBytesAre
<1> HIDE DEF t, u
<1>2. Stands(s, at, t \o u) <=> Stands(s, at, t) /\ Stands(s, at + Len(t), u)
  BY <1>1, StandsTwo
<1>3. Len(t \o u) = Len(t) + Len(u) /\ Len(t) \in Nat /\ Len(u) \in Nat
  BY <1>1, TwoParts
<1> QED BY <1>1, <1>2, <1>3 DEF t, u

\* A round of buffers_from_binary fails, or has read one entry more, of a new key.
LEMMA OneMoreEntrySound ==
  ASSUME NEW s \in Seq(Byte), NEW at \in 0..Len(s), NEW order, NEW bs, NEW r, HaveEntries(s, at, order, bs, r)
  PROVE  \/ Failed(OneMoreEntry(s, r))
         \/ \E key, cs : HaveEntries(s, at, Append(order, key), cs, OneMoreEntry(s, r))
<1>1. r.at \in 0..Len(s) /\ IsRead(r) /\ r.value = bs /\ r.at = at + Len(EntriesBytes(bs, order))
  BY HaveEntriesAt
<1> DEFINE q == ReadString(s, r.at)
           v == ReadBuffer(s, q.at)
<1>2. OneMoreEntry(s, r) =
        IF IsRead(q)
        THEN IF IsRead(v)
             THEN IF NameOf(q.value) \in DOMAIN r.value THEN Throw("invalid_argument")
                  ELSE Read(WithEntry(r.value, NameOf(q.value), v.value), v.at)
             ELSE v
        ELSE q
  BY <1>1, OneMoreEntryParts
<1>3. CASE Failed(q)
  <2> HIDE DEF q, v
  <2> QED BY <1>2, <1>3, ReadIs
<1>4. CASE ~Failed(q)
  <2>1. PICK name \in Elements("string") : /\ Stands(s, r.at, StringBytes(name))
                                           /\ q = Read(name, r.at + Len(StringBytes(name)))
    BY <1>1, <1>4, ReadStringSound
  <2>2. name \in Seq(Byte) /\ Len(name) < Word
    BY DEF Elements
  <2> DEFINE key == NameOf(name)
             p == r.at + Len(StringBytes(name))
  <2>3. key \in Seq(Letter) /\ Len(key) < Word /\ NameBytes(key) = name
    BY <2>2, NameBytesSound
  <2>4. p \in 0..Len(s)
    <3>1. StringBytes(name) \in Seq(Byte)
      BY <2>2, StringBytesText
    <3>2. Len(StringBytes(name)) \in Nat /\ Len(s) \in Nat
      BY <3>1
    <3> QED BY <1>1, <2>1, <3>2 DEF Stands
  <2> HIDE DEF q
  <2>5. IsRead(q) /\ q.value = name /\ q.at = p
    BY <2>1, ReadIs
  <2> HIDE DEF key, p
  <2>6. CASE Failed(v)
    <3> HIDE DEF v
    <3> QED BY <1>2, <2>5, <2>6, ReadIs
  <2>7. CASE ~Failed(v)
    <3>1. PICK b : IsBuffer(b) /\ Stands(s, p, BufferBytes(b)) /\ v = Read(b, p + Len(BufferBytes(b)))
      BY <2>4, <2>5, <2>7, ReadBufferSound
    <3> HIDE DEF v
    <3>2. OneMoreEntry(s, r) =
            IF key \in DOMAIN bs THEN Throw("invalid_argument")
            ELSE Read(WithEntry(bs, key, b), p + Len(BufferBytes(b)))
      BY <1>1, <1>2, <2>5, <3>1, ReadIs DEF key
    <3>3. CASE key \in DOMAIN bs
      BY <3>2, <3>3 DEF Failed
    <3>4. CASE key \notin DOMAIN bs
      <4> DEFINE cs == WithEntry(bs, key, b)
                 longer == Append(order, key)
                 t == EntriesBytes(bs, order)
                 u == EntryBytes(key, b)
      <4>1. AreEntries(longer, cs) /\ EntriesBytes(cs, longer) = t \o u
        BY <2>3, <3>1, <3>4, EntriesAppend DEF HaveEntries
      <4>2. t \in Seq(Byte) /\ u \in Seq(Byte) /\ Stands(s, at, t)
        BY <2>3, <3>1, EntriesBytesText, EntryBytesAre DEF HaveEntries
      <4>3. r.at \in Nat /\ r.at = at + Len(t)
        BY <1>1
      <4>4. Stands(s, r.at, u) /\ p + Len(BufferBytes(b)) = r.at + Len(u)
        BY <2>1, <2>3, <3>1, <4>3, EntryStands DEF p
      <4>5. OneMoreEntry(s, r) = Read(cs, r.at + Len(u))
        BY <3>2, <3>4, <4>4
      <4> HIDE DEF cs, longer, t, u
      <4>6. Stands(s, at, t \o u)
        BY <4>2, <4>3, <4>4, StandsTwo
      <4>7. r.at + Len(u) = at + Len(t \o u)
        <5>1. Len(t \o u) = Len(t) + Len(u) /\ Len(t) \in Nat /\ Len(u) \in Nat
          BY <4>2, TwoParts
        <5> QED BY <4>3, <5>1
      <4>8. HaveEntries(s, at, longer, cs, OneMoreEntry(s, r))
        BY <4>1, <4>5, <4>6, <4>7 DEF HaveEntries
      <4> QED BY <4>8 DEF longer
    <3> QED BY <3>3, <3>4
  <2> QED BY <2>6, <2>7
<1> QED BY <1>3, <1>4

\* A round reads the next entry when that stands there and its key is new.
LEMMA OneMoreEntryComplete ==
  ASSUME NEW s \in Seq(Byte), NEW at \in 0..Len(s), NEW order, NEW bs, NEW r, HaveEntries(s, at, order, bs, r),
         NEW key \in Seq(Letter), Len(key) < Word, key \notin DOMAIN bs, NEW b, IsBuffer(b),
         Stands(s, at, EntriesBytes(WithEntry(bs, key, b), Append(order, key)))
  PROVE  HaveEntries(s, at, Append(order, key), WithEntry(bs, key, b), OneMoreEntry(s, r))
<1>1. r.at \in 0..Len(s) /\ IsRead(r) /\ r.value = bs /\ r.at = at + Len(EntriesBytes(bs, order))
  BY HaveEntriesAt
<1> DEFINE cs == WithEntry(bs, key, b)
           longer == Append(order, key)
           t == EntriesBytes(bs, order)
           u == EntryBytes(key, b)
           name == NameBytes(key)
           p == r.at + Len(StringBytes(name))
           q == ReadString(s, r.at)
           v == ReadBuffer(s, q.at)
<1>2. AreEntries(longer, cs) /\ EntriesBytes(cs, longer) = t \o u
  BY EntriesAppend DEF HaveEntries
<1>3. t \in Seq(Byte) /\ u \in Seq(Byte)
  BY EntriesBytesText, EntryBytesAre DEF HaveEntries
<1>4. r.at \in Nat /\ r.at = at + Len(t)
  BY <1>1
<1>5. Stands(s, r.at, u)
  <2> HIDE DEF t, u, cs, longer
  <2>1. Stands(s, at, t \o u)
    BY <1>2 DEF cs, longer
  <2> QED BY <1>3, <1>4, <2>1, StandsTwo
<1>6. /\ Stands(s, r.at, StringBytes(name)) /\ Stands(s, p, BufferBytes(b))
      /\ r.at + Len(u) = p + Len(BufferBytes(b)) /\ p \in Nat
  BY <1>4, <1>5, EntryStands
<1>7. name \in Elements("string") /\ NameOf(name) = key
  BY NameBytesComplete DEF Elements
<1>8. q = Read(name, p)
  <2> HIDE DEF name
  <2> QED BY <1>4, <1>6, <1>7, ReadStringComplete
<1> HIDE DEF name, p
<1>9. v = Read(b, p + Len(BufferBytes(b)))
  <2>1. q.at = p
    BY <1>8, ReadIs
  <2> QED BY <1>6, <2>1, ReadBufferComplete
<1>10. OneMoreEntry(s, r) =
        IF IsRead(q)
        THEN IF IsRead(v)
             THEN IF NameOf(q.value) \in DOMAIN r.value THEN Throw("invalid_argument")
                  ELSE Read(WithEntry(r.value, NameOf(q.value), v.value), v.at)
             ELSE v
        ELSE q
  BY <1>1, OneMoreEntryParts
<1>11. OneMoreEntry(s, r) = Read(cs, r.at + Len(u))
  <2> HIDE DEF q, v, u
  <2>1. IsRead(q) /\ q.value = name /\ IsRead(v) /\ v.value = b /\ v.at = r.at + Len(u)
    BY <1>6, <1>8, <1>9, ReadIs
  <2> QED BY <1>1, <1>7, <1>10, <2>1
<1>12. r.at + Len(u) = at + Len(t \o u)
  <2> HIDE DEF t, u
  <2>1. Len(t \o u) = Len(t) + Len(u) /\ Len(t) \in Nat /\ Len(u) \in Nat
    BY <1>3, TwoParts
  <2> QED BY <1>4, <2>1
<1> QED BY <1>2, <1>11, <1>12 DEF HaveEntries

\* f is what the rounds have read.
IsEntryLoop(f, s, at, count) ==
  /\ f[0] = Read(NoBuffers, at)
  /\ \A k \in 1..count : f[k] = OneMoreEntry(s, f[k-1])
  /\ ReadEntries(s, at, count) = f[count]

\* There is a loop that reads the entries, and ReadEntries is its last value.
LEMMA ReadEntriesLoop ==
  ASSUME NEW s \in Seq(Byte), NEW at \in 0..Len(s), NEW count \in Nat
  PROVE  \E f : IsEntryLoop(f, s, at, count)
<1> DEFINE Vectors == UNION {Seq(Elements(type)) : type \in Types}
           Buffer == {BufferOf(type, vs) : type \in Types, vs \in Vectors}
           Maps == UNION {[keys -> Buffer] : keys \in SUBSET Seq(Letter)}
           T == {Throw("invalid_argument"), Throw("length_error")}
                  \cup {x \in {Read(bs, p) : bs \in Maps, p \in 0..Len(s)} :
                          \E order, bs : HaveEntries(s, at, order, bs, x)}
           base == Read(NoBuffers, at)
           step == [k \in 1..count |-> [x \in T |-> OneMoreEntry(s, x)]]
<1>1. \A x : x \in T <=> Failed(x) \/ \E order, bs : HaveEntries(s, at, order, bs, x)
  <2>1. ASSUME NEW x, NEW order, NEW bs, HaveEntries(s, at, order, bs, x)
        PROVE  \E cs \in Maps, p \in 0..Len(s) : x = Read(cs, p)
    <3>1. x.at \in 0..Len(s) /\ x = Read(bs, x.at)
      BY <2>1, HaveEntriesAt DEF HaveEntries
    <3>2. AreEntries(order, bs)
      BY <2>1 DEF HaveEntries
    <3>3. ASSUME NEW key \in DOMAIN bs PROVE bs[key] \in Buffer
      <4>1. IsBuffer(bs[key])
        BY <3>2 DEF AreEntries
      <4>2. /\ bs[key] = BufferOf(bs[key].type, bs[key].values) /\ bs[key].type \in Types
            /\ bs[key].values \in Seq(Elements(bs[key].type))
        BY <4>1, BufferIs
      <4> QED BY <4>2
    <3>4. DOMAIN bs \in SUBSET Seq(Letter)
      BY <3>2 DEF AreEntries
    <3>5. bs \in [DOMAIN bs -> Buffer]
      <4> HIDE DEF Buffer
      <4>1. bs = [key \in DOMAIN bs |-> bs[key]]
        BY <3>2 DEF AreEntries
      <4> QED BY <3>3, <4>1
    <3>6. bs \in Maps
      <4> HIDE DEF Buffer
      <4> QED BY <3>4, <3>5
    <3> HIDE DEF Maps
    <3> QED BY <3>1, <3>6
  <2> HIDE DEF Maps
  <2> QED BY <2>1 DEF Failed
<1> HIDE DEF T
<1>2. HaveEntries(s, at, <<>>, NoBuffers, base)
  BY HaveNoEntries
<1>3. ASSUME NEW x \in T PROVE OneMoreEntry(s, x) \in T
  <2>1. CASE Failed(x)
    <3>1. OneMoreEntry(s, x) = x
      BY <2>1, ReadIs DEF OneMoreEntry, Then
    <3> QED BY <3>1
  <2>2. CASE \E order, bs : HaveEntries(s, at, order, bs, x)
    BY <1>1, <2>2, OneMoreEntrySound
  <2> QED BY <1>1, <2>1, <2>2
<1>4. base \in T /\ step \in [1..count -> [T -> T]]
  BY <1>1, <1>2, <1>3
<1>5. \A k \in 1..count, x \in T : step[k][x] = OneMoreEntry(s, x)
  OBVIOUS
<1> HIDE DEF step, base
<1>6. PICK f : IsTable(f, T, base, count, step)
  BY <1>4, TableExists
<1>7. f \in [0..count -> T] /\ f[0] = base
  BY <1>6 DEF IsTable
<1>8. ASSUME NEW k \in 1..count PROVE f[k] = OneMoreEntry(s, f[k-1])
  <2>1. f[k-1] \in T
    BY <1>7
  <2> QED BY <1>5, <1>6, <2>1 DEF IsTable
<1> DEFINE Reads(g) == g = [k \in 0..count |->
                              IF k = 0 THEN Read(NoBuffers, at) ELSE OneMoreEntry(s, g[k-1])]
           after == CHOOSE g : Reads(g)
<1>9. Reads(f)
  <2>1. f = [k \in 0..count |-> f[k]]
    BY <1>7
  <2>2. ASSUME NEW k \in 0..count
        PROVE  f[k] = IF k = 0 THEN Read(NoBuffers, at) ELSE OneMoreEntry(s, f[k-1])
    BY <1>7, <1>8 DEF base
  <2> QED BY <2>1, <2>2
<1>10. Reads(after)
  <2> HIDE DEF Reads
  <2> QED BY <1>9
<1>11. ReadEntries(s, at, count) = after[count]
  BY DEF ReadEntries
<1> HIDE DEF after
<1>12. after[0] = Read(NoBuffers, at) /\ \A k \in 1..count : after[k] = OneMoreEntry(s, after[k-1])
  BY <1>10
<1> QED BY <1>11, <1>12 DEF IsEntryLoop

\* The loop of buffers_from_binary fails, or has read as many entries as it was to.
LEMMA ReadEntriesSound ==
  ASSUME NEW s \in Seq(Byte), NEW at \in 0..Len(s), NEW count \in Nat
  PROVE  \/ Failed(ReadEntries(s, at, count))
         \/ \E order, bs : Len(order) = count /\ HaveEntries(s, at, order, bs, ReadEntries(s, at, count))
<1>1. PICK f : IsEntryLoop(f, s, at, count)
  BY ReadEntriesLoop
<1> DEFINE S == {k \in 0..count : \/ Failed(f[k])
                                  \/ \E order, bs : Len(order) = k /\ HaveEntries(s, at, order, bs, f[k])}
<1>2. 0 \in S
  <2>1. Len(<<>>) = 0
    OBVIOUS
  <2>2. f[0] = Read(NoBuffers, at)
    BY <1>1 DEF IsEntryLoop
  <2> QED BY <2>1, <2>2, HaveNoEntries
<1>3. ASSUME NEW k \in 1..count, k - 1 \in S PROVE k \in S
  <2>1. f[k] = OneMoreEntry(s, f[k-1]) /\ k \in 0..count
    BY <1>1 DEF IsEntryLoop
  <2>2. CASE Failed(f[k-1])
    <3>1. f[k] = f[k-1]
      BY <2>1, <2>2, ReadIs DEF OneMoreEntry, Then
    <3> QED BY <2>1, <2>2, <3>1
  <2>3. CASE \E order, bs : Len(order) = k - 1 /\ HaveEntries(s, at, order, bs, f[k-1])
    <3>1. PICK order, bs : Len(order) = k - 1 /\ HaveEntries(s, at, order, bs, f[k-1])
      BY <2>3
    <3>2. \/ Failed(f[k])
          \/ \E key, cs : HaveEntries(s, at, Append(order, key), cs, f[k])
      BY <2>1, <3>1, OneMoreEntrySound
    <3>3. \A key : Len(Append(order, key)) = k
      <4>1. order \in Seq(DOMAIN bs)
        BY <3>1 DEF HaveEntries, AreEntries
      <4> QED BY <3>1, <4>1
    <3> QED BY <2>1, <3>2, <3>3
  <2> QED BY <1>3, <2>2, <2>3
<1> HIDE DEF S
<1>4. \A k \in 0..count : k \in S
  BY <1>2, <1>3, UpTo
<1>5. count \in S
  BY <1>4
<1> QED BY <1>1, <1>5 DEF S, IsEntryLoop

\* The first k keys, and the map of their entries alone.
FirstKeys(order, k)  == SubSeq(order, 1, k)
FirstEntries(bs, order, k) == [key \in {order[n] : n \in 1..k} |-> bs[key]]

\* The first entries of a map are a map, from none to all.
LEMMA FirstEntriesAre ==
  ASSUME NEW order, NEW bs, AreEntries(order, bs)
  PROVE  /\ \A k \in 0..Len(order) : AreEntries(FirstKeys(order, k), FirstEntries(bs, order, k))
         /\ FirstKeys(order, 0) = <<>> /\ FirstEntries(bs, order, 0) = NoBuffers
         /\ FirstKeys(order, Len(order)) = order /\ FirstEntries(bs, order, Len(order)) = bs
<1> DEFINE n == Len(order)
<1>1. order \in Seq(DOMAIN bs)
  BY DEF AreEntries
<1>2. n \in Nat /\ DOMAIN order = 1..n /\ \A k \in 1..n : order[k] \in DOMAIN bs
  BY <1>1
<1>3. ASSUME NEW k \in 0..n PROVE AreEntries(FirstKeys(order, k), FirstEntries(bs, order, k))
  <2> DEFINE o == FirstKeys(order, k)
             cs == FirstEntries(bs, order, k)
  <2>1. o \in Seq(DOMAIN bs) /\ Len(o) = k /\ \A j \in 1..k : o[j] = order[j]
    BY <1>1, <1>2 DEF FirstKeys
  <2>2. /\ DOMAIN cs = {order[j] : j \in 1..k} /\ cs = [key \in DOMAIN cs |-> cs[key]]
        /\ \A key \in DOMAIN cs : cs[key] = bs[key]
    BY DEF FirstEntries
  <2>3. \A key \in DOMAIN cs : key \in DOMAIN bs
    BY <1>2, <2>2
  <2> HIDE DEF o, cs
  <2>4. o \in Seq(DOMAIN cs)
    <3>1. \A j \in 1..k : o[j] \in DOMAIN cs
      BY <2>1, <2>2
    <3>2. o = [j \in 1..Len(o) |-> o[j]]
      BY <2>1
    <3>3. o \in [1..k -> DOMAIN cs]
      BY <2>1, <3>1, <3>2
    <3> QED BY <3>3
  <2>5. ASSUME NEW i \in 1..Len(o), NEW j \in 1..Len(o), o[i] = o[j] PROVE i = j
    <3>1. i \in 1..n /\ j \in 1..n /\ order[i] = order[j]
      BY <1>2, <2>1, <2>5
    <3> QED BY <3>1 DEF AreEntries
  <2>6. \A key \in DOMAIN cs : \E j \in 1..Len(o) : o[j] = key
    BY <2>1, <2>2
  <2>7. \A key \in DOMAIN cs : key \in Seq(Letter) /\ Len(key) < Word /\ IsBuffer(cs[key])
    BY <2>2, <2>3 DEF AreEntries
  <2>8. AreEntries(o, cs)
    BY <2>2, <2>4, <2>5, <2>6, <2>7 DEF AreEntries
  <2> QED BY <2>8 DEF o, cs
<1>4. FirstKeys(order, 0) = <<>> /\ FirstKeys(order, n) = order
  BY <1>1 DEF FirstKeys
<1>5. FirstEntries(bs, order, 0) = NoBuffers
  <2>1. {order[j] : j \in 1..0} = {}
    OBVIOUS
  <2> QED BY <2>1 DEF FirstEntries, NoBuffers
<1>6. FirstEntries(bs, order, n) = bs
  <2>1. {order[j] : j \in 1..n} = DOMAIN bs
    <3>1. \A key \in DOMAIN bs : \E j \in 1..n : order[j] = key
      BY DEF AreEntries
    <3> QED BY <1>2, <3>1
  <2>2. bs = [key \in DOMAIN bs |-> bs[key]]
    BY DEF AreEntries
  <2> QED BY <2>1, <2>2 DEF FirstEntries
<1> QED BY <1>3, <1>4, <1>5, <1>6

\* The first k entries are those before and the k-th, whose key is new.
LEMMA FirstEntriesStep ==
  ASSUME NEW order, NEW bs, AreEntries(order, bs), NEW k \in 1..Len(order)
  PROVE  /\ FirstKeys(order, k) = Append(FirstKeys(order, k - 1), order[k])
         /\ FirstEntries(bs, order, k) = WithEntry(FirstEntries(bs, order, k - 1), order[k], bs[order[k]])
         /\ order[k] \notin DOMAIN FirstEntries(bs, order, k - 1)
         /\ order[k] \in Seq(Letter) /\ Len(order[k]) < Word /\ IsBuffer(bs[order[k]])
         /\ k - 1 \in 0..Len(order) /\ k \in 0..Len(order)
<1>1. order \in Seq(DOMAIN bs)
  BY DEF AreEntries
<1>2. Len(order) \in Nat /\ \A j \in 1..Len(order) : order[j] \in DOMAIN bs
  BY <1>1
<1>3. FirstKeys(order, k) = Append(FirstKeys(order, k - 1), order[k])
  BY <1>1, OneMorePrefix DEF FirstKeys
<1>4. DOMAIN FirstEntries(bs, order, k - 1) = {order[j] : j \in 1..(k - 1)}
  BY DEF FirstEntries
<1>5. order[k] \notin DOMAIN FirstEntries(bs, order, k - 1)
  <2> SUFFICES ASSUME NEW j \in 1..(k - 1), order[j] = order[k] PROVE FALSE
    BY <1>4
  <2>1. j \in 1..Len(order) /\ j # k
    BY <1>2
  <2> QED BY <2>1 DEF AreEntries
<1>6. {order[j] : j \in 1..k} = {order[j] : j \in 1..(k - 1)} \cup {order[k]}
  <2>1. \A j : j \in 1..k <=> j \in 1..(k - 1) \/ j = k
    OBVIOUS
  <2> QED BY <2>1
<1>7. FirstEntries(bs, order, k) = WithEntry(FirstEntries(bs, order, k - 1), order[k], bs[order[k]])
  <2> DEFINE cs == FirstEntries(bs, order, k - 1)
             key == order[k]
  <2>1. \A x \in DOMAIN cs : cs[x] = bs[x]
    BY DEF FirstEntries
  <2>2. FirstEntries(bs, order, k) = [x \in DOMAIN cs \cup {key} |-> bs[x]]
    BY <1>4, <1>6 DEF FirstEntries
  <2> HIDE DEF cs, key
  <2>3. WithEntry(cs, key, bs[key]) = [x \in DOMAIN cs \cup {key} |-> bs[x]]
    BY <2>1 DEF WithEntry
  <2> QED BY <2>2, <2>3 DEF cs, key
<1>8. order[k] \in Seq(Letter) /\ Len(order[k]) < Word /\ IsBuffer(bs[order[k]])
  BY <1>2 DEF AreEntries
<1> QED BY <1>2, <1>3, <1>5, <1>7, <1>8

\* Entries that stand there are read.
LEMMA ReadEntriesComplete ==
  ASSUME NEW s \in Seq(Byte), NEW at \in 0..Len(s), NEW order, NEW bs, AreEntries(order, bs),
         Stands(s, at, EntriesBytes(bs, order))
  PROVE  HaveEntries(s, at, order, bs, ReadEntries(s, at, Len(order)))
<1> DEFINE n == Len(order)
           o(k) == FirstKeys(order, k)
           b(k) == FirstEntries(bs, order, k)
<1>1. /\ n \in Nat
      /\ \A k \in 0..n : AreEntries(o(k), b(k))
      /\ o(0) = <<>> /\ b(0) = NoBuffers /\ o(n) = order /\ b(n) = bs
  BY EntriesBytesText, FirstEntriesAre
<1>2. ASSUME NEW k \in 1..n
      PROVE  /\ o(k) = Append(o(k-1), order[k])
             /\ b(k) = WithEntry(b(k-1), order[k], bs[order[k]])
             /\ order[k] \notin DOMAIN b(k-1)
             /\ order[k] \in Seq(Letter) /\ Len(order[k]) < Word /\ IsBuffer(bs[order[k]])
             /\ k - 1 \in 0..n /\ k \in 0..n
  BY FirstEntriesStep
<1> HIDE DEF o, b
<1>3. PICK f : IsEntryLoop(f, s, at, n)
  BY <1>1, ReadEntriesLoop
<1> HIDE DEF n
<1> DEFINE D == {j \in 0..n : Stands(s, at, EntriesBytes(b(n-j), o(n-j)))}
<1>4. 0 \in D
  <2>1. n - 0 = n
    BY <1>1
  <2> QED BY <1>1, <2>1
<1>5. ASSUME NEW j \in 1..n, j - 1 \in D PROVE j \in D
  <2> DEFINE k == n - (j - 1)
  <2>1. k \in 1..n /\ k - 1 = n - j /\ Stands(s, at, EntriesBytes(b(k), o(k)))
    BY <1>1, <1>5
  <2> HIDE DEF k
  <2> DEFINE t == EntriesBytes(b(k-1), o(k-1))
             u == EntryBytes(order[k], bs[order[k]])
  <2>2. AreEntries(o(k-1), b(k-1))
    BY <1>1, <1>2, <2>1
  <2>3. EntriesBytes(b(k), o(k)) = t \o u
    <3> DEFINE key == order[k]
               buffer == bs[order[k]]
               cs == b(k-1)
               keys == o(k-1)
    <3>1. /\ b(k) = WithEntry(cs, key, buffer) /\ o(k) = Append(keys, key)
          /\ key \notin DOMAIN cs /\ key \in Seq(Letter) /\ Len(key) < Word /\ IsBuffer(buffer)
          /\ AreEntries(keys, cs)
      BY <1>2, <2>1, <2>2
    <3> HIDE DEF key, buffer, cs, keys
    <3>2. EntriesBytes(WithEntry(cs, key, buffer), Append(keys, key)) =
            EntriesBytes(cs, keys) \o EntryBytes(key, buffer)
      BY <3>1, EntriesAppend
    <3>3. EntriesBytes(b(k), o(k)) = EntriesBytes(cs, keys) \o EntryBytes(key, buffer)
      BY <3>1, <3>2
    <3> QED BY <3>3 DEF key, buffer, cs, keys
  <2>4. t \in Seq(Byte) /\ u \in Seq(Byte)
    BY <1>2, <2>1, <2>2, EntriesBytesText, EntryBytesAre
  <2> HIDE DEF t, u
  <2>5. Stands(s, at, t)
    BY <2>1, <2>3, <2>4, StandsTwo
  <2> QED BY <1>5, <2>1, <2>5 DEF t
<1> HIDE DEF D
<1>6. \A j \in 0..n : j \in D
  BY <1>1, <1>4, <1>5, UpTo
<1>7. ASSUME NEW k \in 0..n PROVE Stands(s, at, EntriesBytes(b(k), o(k)))
  <2>1. n - k \in 0..n /\ n - (n - k) = k
    BY <1>1
  <2> QED BY <1>6, <2>1 DEF D
<1> DEFINE U == {k \in 0..n : HaveEntries(s, at, o(k), b(k), f[k])}
<1>8. 0 \in U
  <2>1. f[0] = Read(NoBuffers, at) /\ 0 \in 0..n
    BY <1>1, <1>3 DEF IsEntryLoop
  <2> QED BY <1>1, <2>1, HaveNoEntries
<1>9. ASSUME NEW k \in 1..n, k - 1 \in U PROVE k \in U
  <2>1. f[k] = OneMoreEntry(s, f[k-1])
    BY <1>3 DEF IsEntryLoop
  <2> DEFINE key == order[k]
             buffer == bs[order[k]]
             cs == b(k-1)
             keys == o(k-1)
             r == f[k-1]
  <2>2. HaveEntries(s, at, keys, cs, r)
    BY <1>9
  <2>3. /\ b(k) = WithEntry(cs, key, buffer) /\ o(k) = Append(keys, key)
        /\ key \notin DOMAIN cs /\ key \in Seq(Letter) /\ Len(key) < Word /\ IsBuffer(buffer)
        /\ k \in 0..n
    BY <1>2
  <2>4. Stands(s, at, EntriesBytes(WithEntry(cs, key, buffer), Append(keys, key)))
    BY <1>7, <2>3
  <2> HIDE DEF key, buffer, cs, keys, r
  <2>5. HaveEntries(s, at, Append(keys, key), WithEntry(cs, key, buffer), OneMoreEntry(s, r))
    BY <2>2, <2>3, <2>4, OneMoreEntryComplete
  <2> QED BY <2>1, <2>3, <2>5 DEF r
<1> HIDE DEF U
<1>10. \A k \in 0..n : k \in U
  BY <1>1, <1>8, <1>9, UpTo
<1>11. n \in U
  BY <1>1, <1>10
<1>12. HaveEntries(s, at, order, bs, f[n])
  BY <1>1, <1>11 DEF U
<1> QED BY <1>3, <1>12 DEF IsEntryLoop, n

-----------------------------------------------------------------------------
(***************************************************************************)
(* The whole binary.                                                       *)
(***************************************************************************)
\* An enumeration of a map's keys has each of them once.
LEMMA EnumerationsAre ==
  ASSUME NEW bs, NEW order
  PROVE  /\ IsBufferMap(bs) /\ order \in Enumerations(DOMAIN bs) =>
              AreEntries(order, bs) /\ Len(order) \in 0..(Word - 1)
         /\ AreEntries(order, bs) /\ Len(order) \in 0..(Word - 1) =>
              IsBufferMap(bs) /\ order \in Enumerations(DOMAIN bs)
<1> DEFINE S == DOMAIN bs
           n == Len(order)
<1>1. Word \in Nat
  BY PlaceValues
<1>2. ASSUME IsBufferMap(bs), order \in Enumerations(S)
      PROVE  AreEntries(order, bs) /\ n \in 0..(Word - 1)
  <2> DEFINE c == Cardinality(S)
  <2>1. IsFiniteSet(S) /\ c < Word /\ c \in Nat
    BY <1>2, FS_CardinalityType DEF IsBufferMap
  <2>2. order \in [1..c -> S] /\ \A x \in S : \E k \in DOMAIN order : order[k] = x
    BY <1>2 DEF Enumerations
  <2>3. IsFiniteSet(1..c) /\ Cardinality(1..c) = c
    <3> HIDE DEF c
    <3>1. Cardinality(1..c) = IF 1 > c THEN 0 ELSE c - 1 + 1
      BY <2>1, FS_Interval
    <3> QED BY <2>1, <3>1, FS_Interval
  <2> HIDE DEF c, S
  <2>4. order \in Surjection(1..c, S)
    BY <2>2 DEF Surjection
  <2>5. order \in Injection(1..c, S)
    BY <2>3, <2>4, FS_Surjection DEF c
  <2>6. order \in Seq(S) /\ n = c
    BY <2>1, <2>2
  <2>7. \A j, k \in 1..c : order[j] = order[k] => j = k
    BY <2>2, <2>5 DEF Injection, IsInjective
  <2>8. /\ bs = [key \in S |-> bs[key]]
        /\ \A key \in S : key \in Seq(Letter) /\ Len(key) < Word /\ IsBuffer(bs[key])
    BY <1>2 DEF IsBufferMap, S
  <2>9. \A x \in S : \E k \in 1..n : order[k] = x
    BY <2>2, <2>6
  <2>10. AreEntries(order, bs)
    BY <2>6, <2>7, <2>8, <2>9 DEF AreEntries, S
  <2> QED BY <1>1, <2>1, <2>6, <2>10
<1>3. ASSUME AreEntries(order, bs), n \in 0..(Word - 1)
      PROVE  IsBufferMap(bs) /\ order \in Enumerations(S)
  <2>1. order \in Seq(S) /\ \A x \in S : \E k \in 1..n : order[k] = x
    BY <1>3 DEF AreEntries
  <2>2. n \in Nat /\ order \in [1..n -> S] /\ DOMAIN order = 1..n
    BY <2>1
  <2>3. order \in Injection(1..n, S)
    <3>1. \A j, k \in 1..n : order[j] = order[k] => j = k
      BY <1>3 DEF AreEntries
    <3> QED BY <2>2, <3>1 DEF Injection, IsInjective
  <2> HIDE DEF S
  <2>4. order \in Surjection(1..n, S)
    BY <2>1, <2>2 DEF Surjection
  <2>5. IsFiniteSet(1..n) /\ Cardinality(1..n) = n
    <3> HIDE DEF n
    <3>1. Cardinality(1..n) = IF 1 > n THEN 0 ELSE n - 1 + 1
      BY <2>2, FS_Interval
    <3> QED BY <2>2, <3>1, FS_Interval
  <2>6. IsFiniteSet(S) /\ Cardinality(S) = n
    <3> HIDE DEF n
    <3> QED BY <2>3, <2>4, <2>5, FS_Surjection
  <2>7. IsBufferMap(bs)
    BY <1>1, <1>3, <2>6 DEF IsBufferMap, AreEntries, S
  <2>8. order \in Enumerations(S)
    <3> HIDE DEF n
    <3>1. order \in [1..Cardinality(S) -> S]
      BY <2>2, <2>6
    <3>2. \A x \in S : \E k \in DOMAIN order : order[k] = x
      BY <2>1, <2>2 
    <3> QED BY <3>1, <3>2 DEF Enumerations
  <2> QED BY <2>7, <2>8
<1> QED BY <1>2, <1>3

\* The text begins with the magic value.
LEMMA MagicBytes ==
  /\ Magic \in Seq(Byte) /\ Len(Magic) = 4
  /\ \A s \in Seq(Byte) :
       HasBytes(s, 0, Len(Magic)) /\ IsPrefix(Magic, s) <=> Stands(s, 0, Magic)
<1>1. Magic \in Seq(Byte) /\ Len(Magic) = 4
  <2>1. 1 \in Byte /\ 2 \in Byte /\ 3 \in Byte /\ 4 \in Byte
    BY ByteSizeAssumption DEF Byte
  <2> QED BY <2>1 DEF Magic
<1> DEFINE m == Magic
<1> HIDE DEF m
<1>2. m \in Seq(Byte) /\ Len(m) = 4
  BY <1>1 DEF m
<1>3. SubSeq(m, 1, 4) = m
  BY <1>2
<1>4. ASSUME NEW s \in Seq(Byte)
      PROVE  HasBytes(s, 0, 4) /\ IsPrefix(m, s) <=> Stands(s, 0, m)
  <2> DEFINE a == SubSeq(s, 1, 4)
  <2>1. Len(s) \in Nat
    OBVIOUS
  <2>2. HasBytes(s, 0, 4) <=> 4 <= Len(s)
    BY <2>1 DEF HasBytes
  <2>3. IsPrefix(m, s) <=> 4 <= Len(s) /\ m = a
    BY <1>2, <1>3 DEF IsPrefix
  <2>4. ASSUME 4 <= Len(s) PROVE a \in Seq(Byte) /\ Len(a) = 4 /\ \A k \in 1..4 : a[k] = s[k]
    BY <2>1, <2>4
  <2> HIDE DEF a
  <2>5. ASSUME 4 <= Len(s), m = a PROVE Stands(s, 0, m)
    <3>1. ASSUME NEW k \in 1..Len(m) PROVE s[0 + k] = m[k]
      <4>1. k \in 1..4 /\ 0 + k = k
        BY <1>2
      <4> QED BY <2>4, <2>5, <4>1
    <3> QED BY <1>2, <2>5, <3>1 DEF Stands
  <2>6. ASSUME Stands(s, 0, m) PROVE 4 <= Len(s) /\ m = a
    <3>1. 4 <= Len(s)
      BY <1>2, <2>1, <2>6 DEF Stands
    <3>2. ASSUME NEW k \in 1..4 PROVE a[k] = m[k]
      <4>1. 0 + k = k /\ k \in 1..Len(m)
        BY <1>2
      <4>2. s[0 + k] = m[k]
        BY <2>6, <4>1 DEF Stands
      <4> QED BY <2>4, <3>1, <4>1, <4>2
    <3>3. m = a
      BY <1>2, <2>4, <3>1, <3>2
    <3> QED BY <3>1, <3>3
  <2> QED BY <2>2, <2>3, <2>5, <2>6
<1>5. Len(Magic) = 4
  BY <1>1
<1> QED BY <1>1, <1>4 DEF m

\* What stands for a map is the magic, the version, the number of entries and the entries.
LEMMA BinaryStands ==
  ASSUME NEW s \in Seq(Byte), NEW order, NEW bs, AreEntries(order, bs)
  PROVE  /\ BinaryInOrder(bs, order) \in Seq(Byte)
         /\ Len(BinaryInOrder(bs, order)) = ((4 + WordBytes) + WordBytes) + Len(EntriesBytes(bs, order))
         /\ Stands(s, 0, BinaryInOrder(bs, order)) <=>
              /\ Stands(s, 0, Magic)
              /\ Stands(s, 4, NumberBytes(1))
              /\ Stands(s, 4 + WordBytes, NumberBytes(Len(order)))
              /\ Stands(s, (4 + WordBytes) + WordBytes, EntriesBytes(bs, order))
<1> DEFINE m == Magic
           v == NumberBytes(1)
           n == NumberBytes(Len(order))
           e == EntriesBytes(bs, order)
<1>1. BinaryInOrder(bs, order) = ((m \o v) \o n) \o e
  BY DEF BinaryInOrder, EntriesBytes
<1>2. m \in Seq(Byte) /\ Len(m) = 4
  BY MagicBytes
<1>3. v \in Seq(Byte) /\ Len(v) = WordBytes
  BY NumberBytesText
<1>4. n \in Seq(Byte) /\ Len(n) = WordBytes /\ WordBytes \in Nat
  BY EntriesBytesText, NumberBytesText, WordBytesAssumption
<1>5. e \in Seq(Byte)
  BY EntriesBytesText
<1> HIDE DEF m, v, n, e
<1>6. m \o v \in Seq(Byte) /\ Len(m \o v) = 4 + WordBytes
  BY <1>2, <1>3, TwoParts
<1>7. (m \o v) \o n \in Seq(Byte) /\ Len((m \o v) \o n) = (4 + WordBytes) + WordBytes
  BY <1>4, <1>6, TwoParts
<1>8. /\ ((m \o v) \o n) \o e \in Seq(Byte)
      /\ Len(((m \o v) \o n) \o e) = ((4 + WordBytes) + WordBytes) + Len(e)
  BY <1>5, <1>7, TwoParts
<1>9. Stands(s, 0, m \o v) <=> Stands(s, 0, m) /\ Stands(s, 4, v)
  <2>1. 0 \in Nat /\ 0 + Len(m) = 4
    BY <1>2
  <2>2. Stands(s, 0, m \o v) <=> Stands(s, 0, m) /\ Stands(s, 0 + Len(m), v)
    BY <1>2, <1>3, <2>1, StandsTwo
  <2> QED BY <2>1, <2>2
<1>10. Stands(s, 0, (m \o v) \o n) <=> Stands(s, 0, m \o v) /\ Stands(s, 4 + WordBytes, n)
  <2> DEFINE t == m \o v
  <2> HIDE DEF t
  <2>1. t \in Seq(Byte) /\ Len(t) = 4 + WordBytes /\ 0 \in Nat /\ 0 + (4 + WordBytes) = 4 + WordBytes
    BY <1>4, <1>6 DEF t
  <2>2. Stands(s, 0, t \o n) <=> Stands(s, 0, t) /\ Stands(s, 4 + WordBytes, n)
    BY <1>4, <2>1, StandsTwo
  <2> QED BY <2>2 DEF t
<1>11. Stands(s, 0, ((m \o v) \o n) \o e) <=>
         Stands(s, 0, (m \o v) \o n) /\ Stands(s, (4 + WordBytes) + WordBytes, e)
  <2> DEFINE t == (m \o v) \o n
             p == (4 + WordBytes) + WordBytes
  <2>1. p \in Nat
    BY <1>4
  <2> HIDE DEF t, p
  <2>2. t \in Seq(Byte) /\ Len(t) = p /\ 0 \in Nat /\ 0 + p = p
    BY <1>7, <2>1 DEF t, p
  <2>3. Stands(s, 0, t \o e) <=> Stands(s, 0, t) /\ Stands(s, p, e)
    BY <1>5, <2>2, StandsTwo
  <2> QED BY <2>3 DEF t, p
<1> QED BY <1>1, <1>8, <1>9, <1>10, <1>11 DEF m, v, n, e

\* The beginning of buffers_from_binary, without the operator that hands values on.
LEMMA ReadHeaderParts ==
  ASSUME NEW s, NEW r, r = ReadNumber(s, Len(Magic)), NEW q, q = ReadNumber(s, r.at)
  PROVE  ReadHeader(s) =
           IF ~(HasBytes(s, 0, Len(Magic)) /\ IsPrefix(Magic, s)) THEN Throw("invalid_argument")
           ELSE IF IsRead(r)
           THEN IF r.value # 1 THEN Throw("invalid_argument")
                ELSE IF IsRead(q) THEN ReadEntries(s, q.at, q.value) ELSE q
           ELSE r
BY DEF ReadHeader, Then

\* What buffers_from_binary reads before it looks for more, if it does not fail, is a map
\* whose binary stands at the beginning.
LEMMA ReadHeaderSound ==
  ASSUME NEW s \in Seq(Byte)
  PROVE  \/ Failed(ReadHeader(s))
         \/ \E order, bs :
              /\ AreEntries(order, bs) /\ Len(order) \in 0..(Word - 1)
              /\ Stands(s, 0, BinaryInOrder(bs, order))
              /\ ReadHeader(s) = Read(bs, Len(BinaryInOrder(bs, order)))
<1> DEFINE r == ReadNumber(s, Len(Magic))
           q == ReadNumber(s, r.at)
           p == (4 + WordBytes) + WordBytes
<1>1. ReadHeader(s) =
        IF ~(HasBytes(s, 0, Len(Magic)) /\ IsPrefix(Magic, s)) THEN Throw("invalid_argument")
        ELSE IF IsRead(r)
        THEN IF r.value # 1 THEN Throw("invalid_argument")
             ELSE IF IsRead(q) THEN ReadEntries(s, q.at, q.value) ELSE q
        ELSE r
  BY ReadHeaderParts
<1>2. HasBytes(s, 0, Len(Magic)) /\ IsPrefix(Magic, s) <=> Stands(s, 0, Magic)
  BY MagicBytes
<1>3. CASE ~Stands(s, 0, Magic)
  <2> HIDE DEF r, q
  <2> QED BY <1>1, <1>2, <1>3 DEF Failed
<1>4. CASE Stands(s, 0, Magic)
  <2>1. r = ReadNumber(s, 4) /\ 4 \in 0..Len(s)
    <3>1. Len(Magic) = 4 /\ Len(s) \in Nat
      BY MagicBytes
    <3>2. 4 \in 0..Len(s)
      BY <1>4, <3>1 DEF Stands
    <3> QED BY <3>1, <3>2
  <2> HIDE DEF r
  <2>2. ReadHeader(s) = IF IsRead(r)
                        THEN IF r.value # 1 THEN Throw("invalid_argument")
                             ELSE IF IsRead(q) THEN ReadEntries(s, q.at, q.value) ELSE q
                        ELSE r
    BY <1>1, <1>2, <1>4
  <2>3. CASE Failed(r)
    <3> HIDE DEF q
    <3> QED BY <2>2, <2>3, ReadIs
  <2>4. CASE ~Failed(r)
    <3>1. PICK v \in 0..(Word - 1) : Stands(s, 4, NumberBytes(v)) /\ r = Read(v, 4 + WordBytes)
      BY <2>1, <2>4, ReadNumberSound
    <3>2. IsRead(r) /\ r.value = v /\ r.at = 4 + WordBytes
      BY <3>1, ReadIs
    <3>3. v \in Nat /\ 4 + WordBytes \in 0..Len(s)
      <4>1. v \in Nat /\ 4 \in Nat
        BY PlaceValues
      <4> QED BY <3>1, <4>1, ReadNumberComplete
    <3>4. CASE v # 1
      <4> HIDE DEF q
      <4> QED BY <2>2, <3>2, <3>4 DEF Failed
    <3>5. CASE v = 1 /\ Failed(q)
      <4> HIDE DEF q
      <4> QED BY <2>2, <3>2, <3>5, ReadIs
    <3>6. CASE v = 1 /\ ~Failed(q)
      <4>1. PICK n \in 0..(Word - 1) : Stands(s, 4 + WordBytes, NumberBytes(n)) /\ q = Read(n, p)
        BY <3>2, <3>3, <3>6, ReadNumberSound
      <4> HIDE DEF q
      <4>2. IsRead(q) /\ q.value = n /\ q.at = p
        BY <4>1, ReadIs
      <4>3. n \in Nat /\ p \in 0..Len(s)
        <5>1. n \in Nat /\ 4 + WordBytes \in Nat
          BY <3>3, PlaceValues
        <5> QED BY <4>1, <5>1, ReadNumberComplete
      <4> DEFINE e == ReadEntries(s, p, n)
      <4>4. ReadHeader(s) = e
        BY <2>2, <3>2, <3>6, <4>2
      <4>5. CASE Failed(e)
        BY <4>4, <4>5
      <4>6. CASE ~Failed(e)
        <5> HIDE DEF e, p
        <5>1. PICK order, bs : Len(order) = n /\ HaveEntries(s, p, order, bs, e)
          BY <4>3, <4>6, ReadEntriesSound DEF e
        <5>2. /\ AreEntries(order, bs) /\ Stands(s, p, EntriesBytes(bs, order))
              /\ e = Read(bs, p + Len(EntriesBytes(bs, order)))
          BY <5>1 DEF HaveEntries
        <5>3. Stands(s, 0, BinaryInOrder(bs, order))
          BY <1>4, <3>1, <3>6, <4>1, <5>1, <5>2, BinaryStands DEF p
        <5>4. p + Len(EntriesBytes(bs, order)) = Len(BinaryInOrder(bs, order))
          BY <5>2, BinaryStands DEF p
        <5> QED BY <4>1, <4>4, <5>1, <5>2, <5>3, <5>4
      <4> QED BY <4>5, <4>6
    <3> QED BY <3>4, <3>5, <3>6
  <2> QED BY <2>3, <2>4
<1> QED BY <1>3, <1>4

\* A map whose binary stands at the beginning is read.
LEMMA ReadHeaderComplete ==
  ASSUME NEW s \in Seq(Byte), NEW order, NEW bs, AreEntries(order, bs), Len(order) \in 0..(Word - 1),
         Stands(s, 0, BinaryInOrder(bs, order))
  PROVE  ReadHeader(s) = Read(bs, Len(BinaryInOrder(bs, order)))
<1> DEFINE n == Len(order)
           r == ReadNumber(s, Len(Magic))
           q == ReadNumber(s, r.at)
           p == (4 + WordBytes) + WordBytes
           v == ReadEntries(s, p, n)
<1>1. /\ Stands(s, 0, Magic) /\ Stands(s, 4, NumberBytes(1))
      /\ Stands(s, 4 + WordBytes, NumberBytes(n)) /\ Stands(s, p, EntriesBytes(bs, order))
      /\ Len(BinaryInOrder(bs, order)) = p + Len(EntriesBytes(bs, order))
  BY BinaryStands
<1>2. ReadHeader(s) =
        IF ~(HasBytes(s, 0, Len(Magic)) /\ IsPrefix(Magic, s)) THEN Throw("invalid_argument")
        ELSE IF IsRead(r)
        THEN IF r.value # 1 THEN Throw("invalid_argument")
             ELSE IF IsRead(q) THEN ReadEntries(s, q.at, q.value) ELSE q
        ELSE r
  BY ReadHeaderParts
<1>3. HasBytes(s, 0, Len(Magic)) /\ IsPrefix(Magic, s)
  BY <1>1, MagicBytes
<1>4. r = ReadNumber(s, 4)
  <2>1. Len(Magic) = 4
    BY MagicBytes
  <2> QED BY <2>1
<1>5. n \in Nat /\ n % Word = n /\ 1 % Word = 1 /\ WordBytes \in Nat
  <2>1. Word \in Nat /\ Word > 6
    BY PlaceValues
  <2>2. 1 \in 0..(Word - 1)
    BY <2>1
  <2>3. n \in Nat
    BY <2>1
  <2> QED BY <2>2, <2>3, SmallRemainder, WordBytesAssumption
<1> HIDE DEF r, n
<1>6. r = Read(1, 4 + WordBytes)
  <2>1. ReadNumber(s, 4) = Read(1 % Word, 4 + WordBytes)
    BY <1>1, ReadNumberComplete
  <2> QED BY <1>4, <1>5, <2>1
<1>7. IsRead(r) /\ r.value = 1 /\ r.at = 4 + WordBytes
  BY <1>6, ReadIs
<1>8. q = Read(n, p) /\ p \in 0..Len(s)
  <2>1. ReadNumber(s, 4 + WordBytes) = Read(n % Word, p) /\ p \in 0..Len(s)
    <3>1. 4 + WordBytes \in Nat /\ n \in Int
      BY <1>5
    <3> QED BY <1>1, <3>1, ReadNumberComplete
  <2> QED BY <1>5, <1>7, <2>1
<1>9. IsRead(q) /\ q.value = n /\ q.at = p
  <2> HIDE DEF q
  <2> QED BY <1>8, ReadIs
<1> HIDE DEF q, p
<1>10. HaveEntries(s, p, order, bs, v)
  BY <1>1, <1>8, ReadEntriesComplete DEF n
<1>11. v = Read(bs, p + Len(EntriesBytes(bs, order)))
  BY <1>10 DEF HaveEntries
<1> HIDE DEF v
<1>12. ReadHeader(s) = v
  BY <1>2, <1>3, <1>7, <1>9 DEF v
<1> QED BY <1>1, <1>11, <1>12

\* The reader takes only what the writer could have written, and never reads behind the end
\* of the text; what it throws is an exception of the code.
THEOREM BuffersOfBinarySound ==
  ASSUME NEW s \in Seq(Byte)
  PROVE  \/ Failed(BuffersOfBinary(s))
         \/ \E bs : /\ BuffersOfBinary(s) = Read(bs, Len(s)) /\ IsBufferMap(bs)
                    /\ \E order \in Enumerations(DOMAIN bs) : s = BinaryInOrder(bs, order)
<1> DEFINE h == ReadHeader(s)
<1>1. BuffersOfBinary(s) =
        IF IsRead(h) THEN IF h.at # Len(s) THEN Throw("invalid_argument") ELSE Read(h.value, h.at) ELSE h
  BY DEF BuffersOfBinary, Then
<1>2. CASE Failed(h)
  <2> HIDE DEF h
  <2> QED BY <1>1, <1>2, ReadIs
<1>3. CASE ~Failed(h)
  <2>1. PICK order, bs : /\ AreEntries(order, bs) /\ Len(order) \in 0..(Word - 1)
                         /\ Stands(s, 0, BinaryInOrder(bs, order))
                         /\ h = Read(bs, Len(BinaryInOrder(bs, order)))
    BY <1>3, ReadHeaderSound
  <2> DEFINE t == BinaryInOrder(bs, order)
  <2> HIDE DEF h
  <2>2. IsRead(h) /\ h.value = bs /\ h.at = Len(t)
    BY <2>1, ReadIs
  <2>3. t \in Seq(Byte)
    BY <2>1, BinaryStands
  <2>4. IsBufferMap(bs) /\ order \in Enumerations(DOMAIN bs)
    BY <2>1, EnumerationsAre
  <2> HIDE DEF t
  <2>5. CASE Len(t) # Len(s)
    BY <1>1, <2>2, <2>5 DEF Failed
  <2>6. CASE Len(t) = Len(s)
    <3>1. Stands(s, 0, t)
      BY <2>1 DEF t
    <3>2. s = t
      BY <2>3, <2>6, <3>1, StandsWhole
    <3>3. BuffersOfBinary(s) = Read(bs, Len(s))
      BY <1>1, <2>2, <2>6
    <3> QED BY <2>4, <3>2, <3>3 DEF t
  <2> QED BY <2>5, <2>6
<1> QED BY <1>2, <1>3

\* What the writer writes of a map, its entries met in any order, is read as that map.
THEOREM BinaryComesBack ==
  ASSUME NEW bs, IsBufferMap(bs), NEW order \in Enumerations(DOMAIN bs)
  PROVE  /\ BinaryInOrder(bs, order) \in Seq(Byte)
         /\ BuffersOfBinary(BinaryInOrder(bs, order)) = Read(bs, Len(BinaryInOrder(bs, order)))
<1> DEFINE s == BinaryInOrder(bs, order)
           h == ReadHeader(s)
<1>1. AreEntries(order, bs) /\ Len(order) \in 0..(Word - 1)
  BY EnumerationsAre
<1>2. s \in Seq(Byte)
  <2>1. <<>> \in Seq(Byte)
    OBVIOUS
  <2> QED BY <1>1, <2>1, BinaryStands
<1>3. h = Read(bs, Len(s))
  <2>1. Stands(s, 0, s)
    <3> HIDE DEF s
    <3> QED BY <1>2, StandsWhole
  <2> QED BY <1>1, <1>2, <2>1, ReadHeaderComplete
<1>4. BuffersOfBinary(s) =
        IF IsRead(h) THEN IF h.at # Len(s) THEN Throw("invalid_argument") ELSE Read(h.value, h.at) ELSE h
  BY DEF BuffersOfBinary, Then
<1>5. BuffersOfBinary(s) = Read(bs, Len(s))
  <2> HIDE DEF h, s
  <2> QED BY <1>3, <1>4, ReadIs
<1> QED BY <1>2, <1>5

\* No two maps have a binary in common: what is written says what was written.
THEOREM BinaryInjective ==
  ASSUME NEW bs, IsBufferMap(bs), NEW cs, IsBufferMap(cs),
         NEW order \in Enumerations(DOMAIN bs), NEW others \in Enumerations(DOMAIN cs),
         BinaryInOrder(bs, order) = BinaryInOrder(cs, others)
  PROVE  bs = cs
<1> DEFINE s == BinaryInOrder(bs, order)
           t == BinaryInOrder(cs, others)
<1>1. BuffersOfBinary(s) = Read(bs, Len(s)) /\ BuffersOfBinary(t) = Read(cs, Len(t)) /\ s = t
  BY BinaryComesBack
<1> HIDE DEF s, t
<1>2. Read(bs, Len(s)) = Read(cs, Len(t))
  BY <1>1
<1>3. Read(bs, Len(s)).value = bs /\ Read(cs, Len(t)).value = cs
  BY ReadIs
<1> QED BY <1>2, <1>3

-----------------------------------------------------------------------------
(***************************************************************************)
(* The exchange.                                                           *)
(***************************************************************************)
\* A text of entries is one of bytes, even when an entry comes twice.
LEMMA BinaryText ==
  ASSUME NEW bs, IsBufferMap(bs), NEW order \in Seq(DOMAIN bs)
  PROVE  BinaryInOrder(bs, order) \in Seq(Byte)
<1> DEFINE m == Magic
           v == NumberBytes(1)
           n == NumberBytes(Len(order))
           e == EntriesBytes(bs, order)
           parts == [k \in DOMAIN order |-> EntryBytes(order[k], bs[order[k]])]
<1>1. Len(order) \in Nat /\ DOMAIN order = 1..Len(order) /\ \A k \in DOMAIN order : order[k] \in DOMAIN bs
  OBVIOUS
<1>2. ASSUME NEW k \in DOMAIN order PROVE EntryBytes(order[k], bs[order[k]]) \in Seq(Byte)
  <2>1. order[k] \in Seq(Letter) /\ IsBuffer(bs[order[k]])
    BY <1>1 DEF IsBufferMap
  <2> QED BY <2>1, EntryBytesAre
<1>3. parts \in [1..Len(order) -> Seq(Byte)]
  BY <1>1, <1>2
<1> HIDE DEF parts
<1>4. parts \in Seq(Seq(Byte))
  BY <1>1, <1>3
<1>5. e \in Seq(Byte)
  <2>1. FlattenSeq(parts) \in Seq(Byte)
    BY <1>4, FlattenType
  <2> QED BY <2>1 DEF parts, EntriesBytes
<1>6. m \in Seq(Byte) /\ v \in Seq(Byte) /\ n \in Seq(Byte)
  BY <1>1, MagicBytes, NumberBytesText
<1>7. BinaryInOrder(bs, order) = ((m \o v) \o n) \o e
  BY DEF BinaryInOrder, EntriesBytes
<1> HIDE DEF m, v, n, e
<1>8. m \o v \in Seq(Byte)
  BY <1>6, TwoParts
<1>9. (m \o v) \o n \in Seq(Byte)
  BY <1>6, <1>8, TwoParts
<1>10. ((m \o v) \o n) \o e \in Seq(Byte)
  BY <1>5, <1>9, TwoParts
<1> QED BY <1>7, <1>10

\* A damaged text is still one of bytes.
LEMMA DamagesText ==
  ASSUME NEW s \in Seq(Byte), NEW t \in Damages(s, BytesPut)
  PROVE  t \in Seq(Byte)
<1>1. BytesPut \subseteq Byte
  BY BytesPutAssumption
<1>2. Len(s) \in Nat /\ DOMAIN s = 1..Len(s)
  OBVIOUS
<1>3. ASSUME NEW k \in DOMAIN s
      PROVE  /\ SubSeq(s, 1, k - 1) \in Seq(Byte) /\ SubSeq(s, k + 1, Len(s)) \in Seq(Byte)
             /\ SubSeq(s, k, Len(s)) \in Seq(Byte) /\ s[k] \in Byte /\ <<s[k]>> \in Seq(Byte)
  BY <1>2
<1>4. ASSUME NEW k \in DOMAIN s PROVE RemoveAt(s, k) \in Seq(Byte)
  BY <1>3, TwoParts DEF RemoveAt
<1>5. ASSUME NEW k \in DOMAIN s PROVE InsertAt(s, k, s[k]) \in Seq(Byte)
  <2>1. SubSeq(s, 1, k - 1) \o <<s[k]>> \in Seq(Byte)
    BY <1>3, TwoParts
  <2> QED BY <1>3, <2>1, TwoParts DEF InsertAt
<1>6. ASSUME NEW k \in DOMAIN s, NEW b \in BytesPut PROVE ReplaceAt(s, k, b) \in Seq(Byte)
  <2>1. b \in Byte
    BY <1>1
  <2> QED BY <2>1 DEF ReplaceAt
<1>7. ASSUME NEW b \in BytesPut PROVE Append(s, b) \in Seq(Byte)
  <2>1. b \in Byte
    BY <1>1
  <2> QED BY <2>1
<1>8. \/ \E k \in DOMAIN s : t = SubSeq(s, 1, k - 1)
      \/ \E k \in DOMAIN s : t = RemoveAt(s, k)
      \/ \E k \in DOMAIN s : t = InsertAt(s, k, s[k])
      \/ \E k \in DOMAIN s, b \in BytesPut : t = ReplaceAt(s, k, b)
      \/ \E b \in BytesPut : t = Append(s, b)
  BY DEF Damages
<1> QED BY <1>3, <1>4, <1>5, <1>6, <1>7, <1>8

\* A text on its way is bytes; one that nothing changed is what was written of the buffers.
TextOnItsWay ==
  /\ medium = "binary" => text \in Seq(Byte)
  /\ medium = "binary" /\ damages = 0 =>
       \E order \in Enumerations(DOMAIN buffers) : text = BinaryInOrder(buffers, order)

BinaryInv ==
  /\ IsBufferMap(buffers)
  /\ damages \in Nat
  /\ TextOnItsWay
  /\ ReadsStayInside
  /\ BinarySaysTheBuffers

\* The invariant holds at the beginning.
LEMMA BinaryInvStarts == BinaryInit => BinaryInv
BY DEF BinaryInit, BinaryInv, TextOnItsWay, ReadsStayInside, BinarySaysTheBuffers

\* Every step keeps the invariant.
LEMMA BinaryInvKept == BinaryInv /\ [BinaryNext]_binaryVars => BinaryInv'
<1> SUFFICES ASSUME BinaryInv, [BinaryNext]_binaryVars PROVE BinaryInv'
  OBVIOUS
<1>1. /\ IsBufferMap(buffers) /\ damages \in Nat /\ outcome # "undefined"
      /\ medium = "binary" => text \in Seq(Byte)
  BY DEF BinaryInv, TextOnItsWay, ReadsStayInside
<1>2. CASE ToBinary
  <2>1. /\ medium' = "binary" /\ buffers' = buffers /\ damages' = damages /\ outcome' = outcome
        /\ \E order \in Enumerations(DOMAIN buffers) : text' = BinaryInOrder(buffers, order)
    BY <1>2 DEF ToBinary
  <2>2. text' \in Seq(Byte)
    BY <1>1, <2>1, BinaryComesBack
  <2>3. TextOnItsWay'
    BY <2>1, <2>2 DEF TextOnItsWay
  <2>4. ReadsStayInside' /\ BinarySaysTheBuffers'
    BY <1>1, <2>1 DEF ReadsStayInside, BinarySaysTheBuffers
  <2> QED BY <1>1, <2>1, <2>3, <2>4 DEF BinaryInv
<1>3. CASE FromBinary
  <2> DEFINE r == BuffersOfBinary(text)
  <2>1. /\ text \in Seq(Byte) /\ text' = text /\ damages' = damages
        /\ IF IsRead(r)
           THEN medium' = "map" /\ buffers' = r.value /\ outcome' = outcome
           ELSE medium' = "lost" /\ buffers' = buffers /\ outcome' = r.is
    BY <1>1, <1>3 DEF FromBinary
  <2>2. CASE Failed(r)
    <3> HIDE DEF r
    <3>1. medium' = "lost" /\ buffers' = buffers /\ outcome' # "undefined"
      BY <2>1, <2>2, ReadIs
    <3>2. TextOnItsWay' /\ ReadsStayInside' /\ BinarySaysTheBuffers'
      BY <3>1 DEF TextOnItsWay, ReadsStayInside, BinarySaysTheBuffers
    <3> QED BY <1>1, <2>1, <3>1, <3>2 DEF BinaryInv
  <2>3. CASE ~Failed(r)
    <3>1. PICK bs : /\ r = Read(bs, Len(text)) /\ IsBufferMap(bs)
                    /\ \E order \in Enumerations(DOMAIN bs) : text = BinaryInOrder(bs, order)
      BY <2>1, <2>3, BuffersOfBinarySound
    <3> HIDE DEF r
    <3>2. medium' = "map" /\ buffers' = bs /\ outcome' = outcome
      BY <2>1, <3>1, ReadIs
    <3>3. TextOnItsWay' /\ ReadsStayInside'
      BY <1>1, <3>2 DEF TextOnItsWay, ReadsStayInside
    <3>4. BinarySaysTheBuffers'
      BY <2>1, <3>1, <3>2 DEF BinarySaysTheBuffers
    <3> QED BY <1>1, <2>1, <3>1, <3>2, <3>3, <3>4 DEF BinaryInv
  <2> QED BY <2>2, <2>3
<1>4. ASSUME medium = "binary", medium' = medium, buffers' = buffers, outcome' = outcome,
             Damaged(MaxDamages), text' \in Seq(Byte)
      PROVE  BinaryInv'
  <2>1. damages' \in Nat /\ damages' # 0
    BY <1>1, <1>4 DEF Damaged
  <2>2. TextOnItsWay' /\ ReadsStayInside' /\ BinarySaysTheBuffers'
    BY <1>1, <1>4, <2>1 DEF TextOnItsWay, ReadsStayInside, BinarySaysTheBuffers
  <2> QED BY <1>1, <1>4, <2>1, <2>2 DEF BinaryInv
<1>5. CASE DamageBinary
  <2>1. text' \in Damages(text, BytesPut) /\ text \in Seq(Byte)
    BY <1>1, <1>5 DEF DamageBinary
  <2>2. text' \in Seq(Byte)
    BY <2>1, DamagesText
  <2> QED BY <1>4, <1>5, <2>2 DEF DamageBinary
<1>6. CASE RepeatEntry
  <2>1. PICK order \in Enumerations(DOMAIN buffers),
             more \in {<<>>} \cup {<<key>> : key \in DOMAIN buffers} :
               text' = BinaryInOrder(buffers, order \o more)
    BY <1>6 DEF RepeatEntry
  <2>2. order \in Seq(DOMAIN buffers)
    BY <1>1, EnumerationsAre DEF AreEntries
  <2>3. more \in Seq(DOMAIN buffers)
    <3> DEFINE D == DOMAIN buffers
    <3>1. more = <<>> \/ \E key \in D : more = <<key>>
      BY <2>1
    <3> HIDE DEF D
    <3>2. <<>> \in Seq(D) /\ \A key \in D : <<key>> \in Seq(D)
      OBVIOUS
    <3> QED BY <3>1, <3>2 DEF D
  <2>4. order \o more \in Seq(DOMAIN buffers)
    BY <2>2, <2>3, TwoParts
  <2>5. text' \in Seq(Byte)
    BY <1>1, <2>1, <2>4, BinaryText
  <2> QED BY <1>4, <1>6, <2>5 DEF RepeatEntry
<1>7. CASE Elsewhere
  BY <1>1, <1>7 DEF Elsewhere, BinaryInv, TextOnItsWay, ReadsStayInside, BinarySaysTheBuffers
<1>8. CASE UNCHANGED binaryVars
  BY <1>8 DEF binaryVars, BinaryInv, TextOnItsWay, ReadsStayInside, BinarySaysTheBuffers
<1> QED BY <1>2, <1>3, <1>5, <1>6, <1>7, <1>8 DEF BinaryNext

\* So it always holds.
LEMMA BinaryInvAlways == BinarySpec => []BinaryInv
BY BinaryInvStarts, BinaryInvKept, PTL DEF BinarySpec

\* However a binary was cut, changed or put together, reading it stays inside it
\* (BufferBinaryReader::require): the run's ReadsStayInside, for bytes, words and texts of
\* any size.
THEOREM BinaryReadsStayInside == BinarySpec => []ReadsStayInside
<1>1. BinaryInv => ReadsStayInside
  BY DEF BinaryInv
<1> QED BY <1>1, BinaryInvAlways, PTL

\* Whatever happened to it on the way, a binary that buffers_from_binary takes is the binary
\* of the map that it returns.
THEOREM BinaryAlwaysSaysTheBuffers == BinarySpec => []BinarySaysTheBuffers
<1>1. BinaryInv => BinarySaysTheBuffers
  BY DEF BinaryInv
<1> QED BY <1>1, BinaryInvAlways, PTL

\* A binary that nothing happened to is taken, and gives the buffers it was written from.
THEOREM UnchangedBinaryComesBack ==
  BinarySpec => [][FromBinary /\ damages = 0 => medium' = "map" /\ buffers' = buffers]_binaryVars
<1>1. BinaryInv /\ FromBinary /\ damages = 0 => medium' = "map" /\ buffers' = buffers
  <2> SUFFICES ASSUME BinaryInv, FromBinary, damages = 0 PROVE medium' = "map" /\ buffers' = buffers
    OBVIOUS
  <2>1. PICK order \in Enumerations(DOMAIN buffers) : text = BinaryInOrder(buffers, order)
    BY DEF BinaryInv, TextOnItsWay, FromBinary
  <2> DEFINE r == BuffersOfBinary(text)
  <2>2. r = Read(buffers, Len(text))
    BY <2>1, BinaryComesBack DEF BinaryInv
  <2>3. IF IsRead(r) THEN medium' = "map" /\ buffers' = r.value ELSE medium' = "lost"
    BY DEF FromBinary
  <2> HIDE DEF r
  <2> QED BY <2>2, <2>3, ReadIs
<1>2. BinaryInv /\ [BinaryNext]_binaryVars =>
        [FromBinary /\ damages = 0 => medium' = "map" /\ buffers' = buffers]_binaryVars
  BY <1>1
<1> QED BY <1>2, BinaryInvAlways, PTL DEF BinarySpec
=============================================================================
