--------------------------- MODULE MCWriteBatcher ---------------------------
(* Small instances of WriteBatcher for TLC. *)
EXTENDS WriteBatcher, TLC

\* The slots are interchangeable, where no liveness is checked.
Symmetry == Permutations(Caller)
=============================================================================
