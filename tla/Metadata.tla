------------------------------ MODULE Metadata ------------------------------
(***************************************************************************)
(* What an ak::Array carries beside its layout: a map of attributes and    *)
(* the names of some of its axes, include/awkward/array.hpp and the        *)
(* metadata functions of operations.hpp.  behavior is a second map of      *)
(* attributes and treated like them.                                       *)
(*                                                                         *)
(* An axis is counted from the outside, or from the inside when negative.  *)
(***************************************************************************)
EXTENDS Integers, Sequences

Nothing == [k \in {} |-> 0]

\* Mutant: one axis too many is let in.
InRangeOrNext(axes, dims) == \A name \in DOMAIN axes : axes[name] \in (-dims)..dims

\* The constructor's condition on named axes.
InRange(axes, dims) == \A name \in DOMAIN axes : axes[name] \in (-dims)..(dims - 1)

\* An axis of an array, counted from the outside.
Place(axis, dims) == IF axis < 0 THEN axis + dims ELSE axis

\* Mutant: the last input that knows the key decides.
ConflictUnseen(m, n) == FALSE

\* merge_metadata_map: the maps must agree where both speak.
Conflict(m, n) == \E k \in DOMAIN m \cap DOMAIN n : m[k] # n[k]

Merged(m, n) == [k \in DOMAIN m \cup DOMAIN n |-> IF k \in DOMAIN n THEN n[k] ELSE m[k]]

\* with_named_axis, without_named_axis
WithName(axes, name, axis) == Merged(axes, [k \in {name} |-> axis])
WithoutName(axes, name)    == [k \in DOMAIN axes \ {name} |-> axes[k]]

\* Mutant: the axes below keep their numbers.
WithoutAxisUncounted(axes, dims, removed) ==
  [k \in {k \in DOMAIN axes : Place(axes[k], dims) # removed} |-> Place(axes[k], dims)]

\* remove_axis_metadata: the axes below the removed one come up by one.
WithoutAxis(axes, dims, removed) ==
  LET kept == {k \in DOMAIN axes : Place(axes[k], dims) # removed}
  IN  [k \in kept |-> IF Place(axes[k], dims) > removed THEN Place(axes[k], dims) - 1
                                                          ELSE Place(axes[k], dims)]
=============================================================================
