----------------------------- MODULE LossyCache -----------------------------
(***************************************************************************)
(* What the cache levels above it may rely on of the memory cache: a map   *)
(* that may forget any entry at any time.  A get answers the value that    *)
(* the last set of that very key stored, no longer than its time to live   *)
(* and never across a deletion, or it answers nothing.                     *)
(*                                                                         *)
(* It is the L1 of HybridAuthState, with its times.                        *)
(***************************************************************************)
EXTENDS Naturals

CONSTANTS
  Key,      \* composite keys, `${sessionId}:${key}`
  Value,    \* values, each with its version
  Nothing,  \* no value, no entry
  Ttl       \* ttlMs

VARIABLES
  held,  \* held[k]: the entry of k
  now,   \* Date.now()
  call   \* the last call, the keys it was about and what it answered

vars == <<held, now, call>>

Init == /\ held = [k \in Key |-> Nothing]
        /\ now = 0
        /\ call = [op |-> "new", keys |-> {}, answer |-> Nothing]

Called(op, K, a) == call' = [op |-> op, keys |-> K, answer |-> a]

\* The map h without the keys of K.
Without(h, K) == [k \in Key |-> IF k \in K THEN Nothing ELSE h[k]]

Set(k, v) ==
  /\ Called("set", {k}, v)
  /\ \E K \in SUBSET Key :
       held' = Without([held EXCEPT ![k] = [val |-> v, until |-> now + Ttl]], K)
  /\ UNCHANGED now

Get(k) ==
  /\ Called("get", {k}, IF held[k] # Nothing /\ now < held[k].until
                        THEN held[k].val ELSE Nothing)
  /\ \E K \in SUBSET Key : held' = Without(held, K)
  /\ UNCHANGED now

Delete(K) ==
  /\ Called("delete", K, Nothing)
  /\ held' = Without(held, K)
  /\ UNCHANGED now

Forget ==
  /\ \E K \in SUBSET Key : held' = Without(held, K)
  /\ UNCHANGED <<now, call>>

Tick == now' = now + 1 /\ UNCHANGED <<held, call>>

Next == \/ \E k \in Key : Get(k) \/ \E v \in Value : Set(k, v)
        \/ \E K \in SUBSET Key : Delete(K)
        \/ Forget
        \/ Tick

Spec == Init /\ [][Next]_vars
=============================================================================
