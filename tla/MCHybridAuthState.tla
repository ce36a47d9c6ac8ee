------------------------- MODULE MCHybridAuthState -------------------------
(* Small instances of HybridAuthState for TLC. *)
EXTENDS HybridAuthState, TLC

\* The slots are interchangeable.  Keys and processes are not: a CHOOSE picks
\* the one an idle slot holds.
Symmetry == Permutations(Reader) \cup Permutations(Writer)
=============================================================================
