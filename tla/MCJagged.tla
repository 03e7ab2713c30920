------------------------------ MODULE MCJagged ------------------------------
(***************************************************************************)
(* Instances of jagged::Array for TLC.                                     *)
(***************************************************************************)
EXTENDS JaggedRowsRefinement

\* std::optional<int> with the numbers 0 and 1; nullopt is below them.
OptionalBits == {-1, 0, 1}
MinusOne     == -1

\* The state that the calls leave: what the two variables hold.  The last call is
\* history, and no call tells one variable of the caller's from the other.
Storage == <<{<<h \in live, values[h], offsets[h]>> : h \in Handles}, failures>>
=============================================================================
