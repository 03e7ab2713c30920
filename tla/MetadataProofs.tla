--------------------------- MODULE MetadataProofs ---------------------------
(***************************************************************************)
(* What holds of the metadata functions for all maps and numbers of axes:  *)
(* merging does not depend on the order of the inputs, and removing an     *)
(* axis leaves names that fit what is left.                                *)
(***************************************************************************)
EXTENDS Metadata, TLAPS

IsMap(m) == m = [k \in DOMAIN m |-> m[k]]

\* An array's named axes, as its constructor lets them in.
AreAxes(axes, dims) ==
  /\ axes \in [DOMAIN axes -> Int]
  /\ InRange(axes, dims)

-----------------------------------------------------------------------------
\* The entries of a merged map.
LEMMA MergedIsMap ==
  ASSUME NEW m, NEW n
  PROVE  /\ IsMap(Merged(m, n))
         /\ DOMAIN Merged(m, n) = DOMAIN m \cup DOMAIN n
         /\ \A k \in DOMAIN n : Merged(m, n)[k] = n[k]
         /\ \A k \in DOMAIN m \ DOMAIN n : Merged(m, n)[k] = m[k]
BY DEF IsMap, Merged

\* What does not conflict keeps every entry of both maps.
LEMMA MergedKeepsBoth ==
  ASSUME NEW m, NEW n, ~Conflict(m, n)
  PROVE  /\ \A k \in DOMAIN m : Merged(m, n)[k] = m[k]
         /\ \A k \in DOMAIN n : Merged(m, n)[k] = n[k]
<1>1. ASSUME NEW k \in DOMAIN m PROVE Merged(m, n)[k] = m[k]
  <2>1. CASE k \in DOMAIN n
    BY <1>1, <2>1, MergedIsMap DEF Conflict
  <2>2. CASE k \notin DOMAIN n
    BY <1>1, <2>2, MergedIsMap
  <2> QED
    BY <2>1, <2>2
<1>2. \A k \in DOMAIN n : Merged(m, n)[k] = n[k]
  BY MergedIsMap, Zenon
<1> QED
  BY <1>1, <1>2, Zenon

\* Two maps with the same entries are one.
LEMMA SameMap ==
  ASSUME NEW m, NEW n, IsMap(m), IsMap(n), DOMAIN m = DOMAIN n,
         \A k \in DOMAIN m : m[k] = n[k]
  PROVE  m = n
BY DEF IsMap

\* Two maps that agree merge to the same in either order.
LEMMA MergeOfTwo ==
  ASSUME NEW m, NEW n, ~Conflict(m, n)
  PROVE  /\ ~Conflict(n, m)
         /\ Merged(m, n) = Merged(n, m)
<1> DEFINE mn == Merged(m, n)
           nm == Merged(n, m)
<1>1. ~Conflict(n, m)
  BY DEF Conflict
<1>2. /\ DOMAIN mn = DOMAIN m \cup DOMAIN n
      /\ DOMAIN nm = DOMAIN m \cup DOMAIN n
  BY MergedIsMap
<1>3. IsMap(mn) /\ IsMap(nm)
  BY MergedIsMap
<1>4. /\ \A k \in DOMAIN m : mn[k] = m[k] /\ nm[k] = m[k]
      /\ \A k \in DOMAIN n : mn[k] = n[k] /\ nm[k] = n[k]
  BY <1>1, MergedKeepsBoth
<1> HIDE DEF mn, nm
<1>5. \A k \in DOMAIN mn : mn[k] = nm[k]
  BY <1>2, <1>4
<1>6. mn = nm
  BY <1>2, <1>3, <1>5, SameMap
<1> QED
  BY <1>1, <1>6 DEF mn, nm

\* A third map disagrees with a merged one if it disagrees with either.
LEMMA ConflictOfThree ==
  ASSUME NEW m, NEW n, NEW o, ~Conflict(m, n)
  PROVE  Conflict(Merged(m, n), o) <=> Conflict(m, o) \/ Conflict(n, o)
<1> DEFINE mn == Merged(m, n)
<1>1. DOMAIN mn = DOMAIN m \cup DOMAIN n
  BY MergedIsMap
<1>2. /\ \A k \in DOMAIN m : mn[k] = m[k]
      /\ \A k \in DOMAIN n : mn[k] = n[k]
  BY MergedKeepsBoth
<1> HIDE DEF mn
<1>3. Conflict(mn, o) <=> Conflict(m, o) \/ Conflict(n, o)
  BY <1>1, <1>2 DEF Conflict
<1> QED
  BY <1>3 DEF mn

\* What metadata_from_inputs does to three maps.
Refuses(m, n, o) == Conflict(m, n) \/ Conflict(Merged(m, n), o)

\* Three inputs are refused in one order exactly if they are in any other, namely if two
\* of them disagree, and otherwise the merged map is the same (operations.hpp:2380-2424).
THEOREM MergeIsOrderFree ==
  ASSUME NEW m, NEW n, NEW o
  PROVE  /\ Refuses(m, n, o) <=> Conflict(m, n) \/ Conflict(m, o) \/ Conflict(n, o)
         /\ Refuses(m, n, o) <=> Refuses(n, m, o)
         /\ Refuses(m, n, o) <=> Refuses(m, o, n)
         /\ ~Refuses(m, n, o) =>
              /\ Merged(Merged(m, n), o) = Merged(Merged(n, m), o)
              /\ Merged(Merged(m, n), o) = Merged(Merged(m, o), n)
<1> DEFINE Two(x, y, z) == Conflict(x, y) \/ Conflict(x, z) \/ Conflict(y, z)
<1>1. ASSUME NEW x, NEW y PROVE Conflict(x, y) <=> Conflict(y, x)
  BY DEF Conflict
<1>2. ASSUME NEW x, NEW y, NEW z PROVE Refuses(x, y, z) <=> Two(x, y, z)
  BY ConflictOfThree DEF Refuses
<1>3. Refuses(m, n, o) <=> Two(m, n, o)
  BY <1>2
<1>4. Refuses(n, m, o) <=> Two(m, n, o)
  BY <1>1, <1>2
<1>5. Refuses(m, o, n) <=> Two(m, n, o)
  BY <1>1, <1>2
<1>6. ASSUME ~Refuses(m, n, o) PROVE Merged(Merged(m, n), o) = Merged(Merged(n, m), o)
  BY <1>6, MergeOfTwo DEF Refuses
<1>7. ASSUME ~Refuses(m, n, o) PROVE Merged(Merged(m, n), o) = Merged(Merged(m, o), n)
  <2> DEFINE mn    == Merged(m, n)
             mo    == Merged(m, o)
             left  == Merged(mn, o)
             right == Merged(mo, n)
  <2>1. ~Conflict(m, n) /\ ~Conflict(mn, o) /\ ~Conflict(m, o) /\ ~Conflict(mo, n)
    BY <1>3, <1>5, <1>7 DEF Refuses
  <2>2. /\ DOMAIN mn = DOMAIN m \cup DOMAIN n
        /\ DOMAIN mo = DOMAIN m \cup DOMAIN o
    BY MergedIsMap
  <2>3. /\ \A k \in DOMAIN m : mn[k] = m[k] /\ mo[k] = m[k]
        /\ \A k \in DOMAIN n : mn[k] = n[k]
        /\ \A k \in DOMAIN o : mo[k] = o[k]
    BY <2>1, MergedKeepsBoth
  <2> HIDE DEF mn, mo
  <2>4. /\ DOMAIN left = DOMAIN mn \cup DOMAIN o
        /\ DOMAIN right = DOMAIN mo \cup DOMAIN n
    BY MergedIsMap
  <2>5. /\ \A k \in DOMAIN mn : left[k] = mn[k]
        /\ \A k \in DOMAIN o : left[k] = o[k]
        /\ \A k \in DOMAIN mo : right[k] = mo[k]
        /\ \A k \in DOMAIN n : right[k] = n[k]
    BY <2>1, MergedKeepsBoth
  <2>6. IsMap(left) /\ IsMap(right)
    BY MergedIsMap
  <2> HIDE DEF left, right
  <2>7. DOMAIN left = DOMAIN right
    BY <2>2, <2>4
  <2>8. \A k \in DOMAIN left : left[k] = right[k]
    BY <2>2, <2>3, <2>4, <2>5
  <2>9. left = right
    BY <2>6, <2>7, <2>8, SameMap
  <2> QED
    BY <2>9 DEF left, right, mn, mo
<1> QED
  BY <1>3, <1>4, <1>5, <1>6, <1>7

-----------------------------------------------------------------------------
\* What removing an axis makes of the place of another.
Closed(place, removed) == IF place > removed THEN place - 1 ELSE place

\* The names that are left, and the places they stand for.
AreLeft(left, axes, dims, removed) ==
  /\ DOMAIN left = {k \in DOMAIN axes : Place(axes[k], dims) # removed}
  /\ \A k \in DOMAIN left : /\ k \in DOMAIN axes
                            /\ Place(axes[k], dims) \in (0..(dims - 1)) \ {removed}
                            /\ left[k] = Closed(Place(axes[k], dims), removed)

\* remove_axis_metadata leaves the other names, closed up.
LEMMA RemovedAxes ==
  ASSUME NEW dims \in Nat, NEW axes, AreAxes(axes, dims), NEW removed \in 0..(dims - 1)
  PROVE  AreLeft(WithoutAxis(axes, dims, removed), axes, dims, removed)
<1> DEFINE kept == {k \in DOMAIN axes : Place(axes[k], dims) # removed}
<1>1. WithoutAxis(axes, dims, removed) = [k \in kept |-> Closed(Place(axes[k], dims), removed)]
  BY DEF WithoutAxis, Closed
<1>2. \A k \in DOMAIN axes : axes[k] \in Int /\ axes[k] \in (-dims)..(dims - 1)
  BY DEF AreAxes, InRange
<1>3. \A k \in DOMAIN axes : Place(axes[k], dims) \in 0..(dims - 1)
  BY <1>2 DEF Place
<1>4. \A k \in kept : k \in DOMAIN axes /\ Place(axes[k], dims) \in (0..(dims - 1)) \ {removed}
  BY <1>3
<1> DEFINE left == WithoutAxis(axes, dims, removed)
<1>5. DOMAIN left = kept /\ \A k \in kept : left[k] = Closed(Place(axes[k], dims), removed)
  BY <1>1
<1> HIDE DEF left
<1>6. \A k \in DOMAIN left : /\ k \in DOMAIN axes
                             /\ Place(axes[k], dims) \in (0..(dims - 1)) \ {removed}
                             /\ left[k] = Closed(Place(axes[k], dims), removed)
  BY <1>4, <1>5
<1> QED
  BY <1>5, <1>6 DEF left, AreLeft

\* remove_axis_metadata gives names that an array with an axis less accepts, each of them
\* counted from the outside, and two names that stood for different axes still do, in the
\* same order (operations.hpp:2399-2409).
THEOREM RemovedAxisFits ==
  ASSUME NEW dims \in Nat, NEW axes, AreAxes(axes, dims), NEW removed \in 0..(dims - 1)
  PROVE  LET left == WithoutAxis(axes, dims, removed)
         IN  /\ AreAxes(left, dims - 1)
             /\ \A k \in DOMAIN left : Place(left[k], dims - 1) = left[k]
             /\ \A j, k \in DOMAIN left :
                  left[j] < left[k] <=> Place(axes[j], dims) < Place(axes[k], dims)
<1> DEFINE left == WithoutAxis(axes, dims, removed)
<1>0. AreLeft(left, axes, dims, removed)
  BY RemovedAxes
<1>1. \A k \in DOMAIN left : left[k] \in 0..(dims - 2)
  <2> HIDE DEF left
  <2> QED
    BY <1>0 DEF AreLeft, Closed
<1>2. left = [k \in DOMAIN left |-> left[k]]
  BY DEF WithoutAxis
<1>3. AreAxes(left, dims - 1)
  <2>1. \A k \in DOMAIN left : left[k] \in Int /\ left[k] \in (-(dims - 1))..(dims - 2)
    BY <1>1
  <2>2. left \in [DOMAIN left -> Int]
    BY <1>2, <2>1
  <2> QED
    BY <2>1, <2>2 DEF AreAxes, InRange
<1>4. \A k \in DOMAIN left : Place(left[k], dims - 1) = left[k]
  BY <1>1 DEF Place
<1>5. \A j, k \in DOMAIN left :
        left[j] < left[k] <=> Place(axes[j], dims) < Place(axes[k], dims)
  <2> HIDE DEF left
  <2>1. \A k \in DOMAIN left : /\ Place(axes[k], dims) \in (0..(dims - 1)) \ {removed}
                               /\ left[k] = Closed(Place(axes[k], dims), removed)
    BY <1>0 DEF AreLeft
  <2> QED
    BY <2>1 DEF Closed
<1> QED
  BY <1>3, <1>4, <1>5

\* Two axes may be removed in either order, each under the number it then has, and the
\* same names are left for the same axes.
THEOREM RemovalsCommute ==
  ASSUME NEW dims \in Nat, NEW axes, AreAxes(axes, dims),
         NEW p \in 0..(dims - 1), NEW q \in 0..(dims - 1), p # q
  PROVE  WithoutAxis(WithoutAxis(axes, dims, p), dims - 1, Closed(q, p))
           = WithoutAxis(WithoutAxis(axes, dims, q), dims - 1, Closed(p, q))
<1> DEFINE Both(i, j) == WithoutAxis(WithoutAxis(axes, dims, i), dims - 1, Closed(j, i))
           kept       == {k \in DOMAIN axes : Place(axes[k], dims) \notin {p, q}}
           Twice(k, i, j) == Closed(Closed(Place(axes[k], dims), i), Closed(j, i))
<1>1. ASSUME NEW i \in 0..(dims - 1), NEW j \in 0..(dims - 1), i # j, {i, j} = {p, q}
      PROVE  /\ DOMAIN Both(i, j) = kept
             /\ \A k \in kept : Both(i, j)[k] = Twice(k, i, j)
  <2> DEFINE one == WithoutAxis(axes, dims, i)
  <2>1. AreAxes(one, dims - 1) /\ \A k \in DOMAIN one : Place(one[k], dims - 1) = one[k]
    BY RemovedAxisFits
  <2>2. /\ DOMAIN one = {k \in DOMAIN axes : Place(axes[k], dims) # i}
        /\ \A k \in DOMAIN one : /\ Place(axes[k], dims) \in (0..(dims - 1)) \ {i}
                                 /\ one[k] = Closed(Place(axes[k], dims), i)
    <3>1. AreLeft(one, axes, dims, i)
      BY RemovedAxes
    <3> HIDE DEF one
    <3> QED
      BY <3>1 DEF AreLeft
  <2>3. dims - 1 \in Nat /\ Closed(j, i) \in 0..(dims - 2)
    BY <1>1 DEF Closed
  <2> HIDE DEF one
  <2>4. /\ DOMAIN Both(i, j) = {k \in DOMAIN one : one[k] # Closed(j, i)}
        /\ \A k \in DOMAIN Both(i, j) : Both(i, j)[k] = Closed(one[k], Closed(j, i))
    <3> DEFINE both == WithoutAxis(one, dims - 1, Closed(j, i))
    <3>1. AreLeft(both, one, dims - 1, Closed(j, i))
      BY <2>1, <2>3, RemovedAxes
    <3> HIDE DEF both
    <3>2. /\ DOMAIN both = {k \in DOMAIN one : one[k] # Closed(j, i)}
          /\ \A k \in DOMAIN both : both[k] = Closed(one[k], Closed(j, i))
      BY <2>1, <3>1 DEF AreLeft
    <3> QED
      BY <3>2 DEF both, one
  <2>5. ASSUME NEW k \in DOMAIN one PROVE one[k] # Closed(j, i) <=> Place(axes[k], dims) # j
    <3>1. /\ Place(axes[k], dims) \in (0..(dims - 1)) \ {i}
          /\ one[k] = Closed(Place(axes[k], dims), i)
      BY <2>2
    <3> QED
      BY <1>1, <3>1 DEF Closed
  <2>6. \A k : k \in DOMAIN Both(i, j) <=> k \in kept
    <3> TAKE k
    <3>1. k \in DOMAIN Both(i, j) <=> k \in DOMAIN one /\ one[k] # Closed(j, i)
      BY <2>4
    <3>2. k \in DOMAIN one <=> k \in DOMAIN axes /\ Place(axes[k], dims) # i
      BY <2>2
    <3>3. Place(axes[k], dims) \notin {p, q} <=> Place(axes[k], dims) # i /\ Place(axes[k], dims) # j
      BY <1>1
    <3> QED
      BY <2>5, <3>1, <3>2, <3>3
  <2>7. DOMAIN Both(i, j) = kept
    <3> HIDE DEF kept
    <3> QED
      BY <2>6
  <2>8. ASSUME NEW k \in kept PROVE Both(i, j)[k] = Twice(k, i, j)
    <3>1. k \in DOMAIN one /\ k \in DOMAIN Both(i, j)
      BY <2>4, <2>6, <2>7
    <3>2. Both(i, j)[k] = Closed(one[k], Closed(j, i)) /\ one[k] = Closed(Place(axes[k], dims), i)
      BY <2>2, <2>4, <3>1
    <3> QED
      BY <3>2
  <2> QED
    BY <2>7, <2>8
<1>2. DOMAIN Both(p, q) = kept /\ DOMAIN Both(q, p) = kept
  BY <1>1
<1>3. ASSUME NEW k \in kept PROVE Both(p, q)[k] = Both(q, p)[k]
  <2>1. axes[k] \in (-dims)..(dims - 1) /\ axes[k] \in Int
    BY <1>3 DEF AreAxes, InRange
  <2>2. Place(axes[k], dims) \in Int /\ Place(axes[k], dims) \notin {p, q}
    BY <1>3, <2>1 DEF Place
  <2>3. Twice(k, p, q) = Twice(k, q, p)
    BY <2>2 DEF Closed
  <2>4. Both(p, q)[k] = Twice(k, p, q) /\ Both(q, p)[k] = Twice(k, q, p)
    BY <1>1, <1>3
  <2> QED
    BY <2>3, <2>4
<1>4. IsMap(Both(p, q)) /\ IsMap(Both(q, p))
  BY DEF IsMap, WithoutAxis
<1> HIDE DEF Both
<1> QED
  BY <1>2, <1>3, <1>4, SameMap DEF Both
=============================================================================
