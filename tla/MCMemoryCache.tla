---------------------------- MODULE MCMemoryCache ----------------------------
(* Small instances of MemoryCache for TLC. *)
EXTENDS MemoryCache

CONSTANTS k1, k2, k3, small, big, huge

Keys == {k1, k2, k3}
Sessions == {{k1, k2}}
Values == {small, big, huge}
\* One and two bytes, and more than the whole cache may have.
Sizes == [v \in Values |-> CASE v = small -> 1 [] v = big -> 2 [] v = huge -> 4]
=============================================================================
