----------------------------- MODULE MCRedisLock -----------------------------
(* Small instances of RedisLock for TLC. *)
EXTENDS RedisLock, TLC

\* The calls are interchangeable.
Symmetry == Permutations(Client)
=============================================================================
