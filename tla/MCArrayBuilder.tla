--------------------------- MODULE MCArrayBuilder ---------------------------
(***************************************************************************)
(* Instances of ArrayBuilder for TLC.                                      *)
(***************************************************************************)
EXTENDS ArrayBuilderRefinement

\* The builder treats names alike: it only compares them.
NameSymmetry == Permutations(Names)
=============================================================================
