----------------------------- MODULE MemoryCache -----------------------------
(***************************************************************************)
(* MemoryCache (src/src/cache/memory-cache.ts): the L1 cache of a process. *)
(*                                                                         *)
(* A Map used as an LRU list: its insertion order is the order of use,     *)
(* since a hit takes its entry out and inserts it again.  Entries leave    *)
(* when they are deleted, when a get or the sweep finds them expired, and  *)
(* from the front of the list while there are too many of them or too many *)
(* bytes.  Every method runs to its end without an await: it is one step.  *)
(***************************************************************************)
EXTENDS Integers, Sequences, FiniteSets, SequencesExt

CONSTANTS
  Key,      \* composite keys, `${sessionId}:${key}`
  Session,  \* the sessions, each the set of the keys with its prefix
  Value,    \* values, each with its version
  Nothing,  \* no value, no entry
  Size,     \* Size[v]: Buffer.byteLength(v)
  Ttl, MaxEntries, MaxBytes,  \* the options of the constructor
  MaxTime, MaxUses            \* bounds of the instances checked by TLC

ASSUME SizeAssumption == Size \in [Value -> Nat]
ASSUME SessionAssumption == Session \subseteq SUBSET Key
ASSUME OptionsAssumption ==
  Ttl \in Nat /\ MaxEntries \in Nat /\ MaxBytes \in Nat
ASSUME BoundsAssumption == MaxTime \in Nat /\ MaxUses \in Nat

VARIABLES
  order,     \* the keys of the Map, in insertion order
  entry,     \* entry[k]: the entry of k in the Map
  bytes,     \* currentBytes
  sweeping,  \* the sweep timer is set
  now,       \* Date.now()
  call,      \* the last call, the keys it was about and what it answered
  used,      \* used[k]: the number of the last use of k (history)
  uses       \* the number of uses so far

uVars == <<used, uses>>
vars == <<order, entry, bytes, sweeping, now, call, uVars>>

Entry == [val : Value, until : Nat]

ASSUME NothingAssumption == Nothing \notin Entry

Held == {k \in Key : entry[k] # Nothing}
Expired == {k \in Held : entry[k].until <= now}

(* The bytes of the values that e has for the keys of K: the sum of their   *)
(* sizes, counted byte by byte.                                             *)
BytesOf(e, K) == Cardinality(UNION {{k} \X (1 .. Size[e[k].val]) : k \in K})

Called(op, K, a) == call' = [op |-> op, keys |-> K, answer |-> a]

Init ==
  /\ order = << >>
  /\ entry = [k \in Key |-> Nothing]
  /\ bytes = 0
  /\ sweeping = TRUE
  /\ now = 0
  /\ call = [op |-> "new", keys |-> {}, answer |-> Nothing]
  /\ used = [k \in Key |-> 0]
  /\ uses = 0

-----------------------------------------------------------------------------
(* The Map and its counter *)

(* The list s without the keys of K: SelectSeq, by the places that stay,    *)
(* so that it can be reasoned about.                                        *)
Rest(s, K) ==
  LET stay == {i \in 1 .. Len(s) : s[i] \notin K}
      place == CHOOSE p \in [1 .. Cardinality(stay) -> stay] :
                 \A i, j \in DOMAIN p : i < j => p[i] < p[j]
  IN [i \in DOMAIN place |-> s[place[i]]]

\* Mutant: the bytes of an entry that is deleted stay counted.
DropUncounted(K) ==
  /\ order' = Rest(order, K)
  /\ entry' = [k \in Key |-> IF k \in K THEN Nothing ELSE entry[k]]
  /\ UNCHANGED bytes

\* Delete the keys of K that are in the Map.
Drop(K) ==
  /\ order' = Rest(order, K)
  /\ entry' = [k \in Key |-> IF k \in K THEN Nothing ELSE entry[k]]
  /\ bytes' = bytes - BytesOf(entry, K \cap Held)

\* Mutant: the cache is only full when both limits are exceeded.
OverBoth(o, e, b, n) ==
  /\ n < Len(o)
  /\ Len(o) - n > MaxEntries
  /\ b - BytesOf(e, ToSet(SubSeq(o, 1, n))) > MaxBytes

\* The test of evictIfNeeded's loop, after the n oldest keys are deleted.
Over(o, e, b, n) ==
  /\ n < Len(o)
  /\ \/ Len(o) - n > MaxEntries
     \/ b - BytesOf(e, ToSet(SubSeq(o, 1, n))) > MaxBytes

\* How many of the oldest keys evictIfNeeded deletes.
Evictions(o, e, b) ==
  CHOOSE n \in 0 .. Len(o) : ~ Over(o, e, b, n)
                             /\ \A m \in 0 .. n - 1 : Over(o, e, b, m)

\* k is used for the uses'-th time there is a use.
Use(k) == /\ uses < MaxUses
          /\ uses' = uses + 1
          /\ used' = [used EXCEPT ![k] = uses']

-----------------------------------------------------------------------------
(* The methods *)

GetMiss(k) ==
  /\ k \notin Held
  /\ Called("get", {k}, Nothing)
  /\ UNCHANGED <<order, entry, bytes, sweeping, now, uVars>>

\* Mutant: the entry is deleted by delete(), and its bytes subtracted again.
GetExpiredTwice(k) ==
  /\ k \in Expired
  /\ order' = Rest(order, {k})
  /\ entry' = [entry EXCEPT ![k] = Nothing]
  /\ bytes' = bytes - 2 * Size[entry[k].val]
  /\ Called("get", {k}, Nothing)
  /\ UNCHANGED <<sweeping, now, uVars>>

\* A get finds its entry at the end of its time to live.
GetExpired(k) ==
  /\ k \in Expired
  /\ Drop({k})
  /\ Called("get", {k}, Nothing)
  /\ UNCHANGED <<sweeping, now, uVars>>

\* Mutant: a hit leaves its entry where it is.
GetUntouched(k) ==
  /\ k \in Held \ Expired
  /\ Use(k)
  /\ Called("get", {k}, entry[k].val)
  /\ UNCHANGED <<order, entry, bytes, sweeping, now>>

\* A hit puts its entry at the end of the Map; its time to live goes on.
GetHit(k) ==
  /\ k \in Held \ Expired
  /\ Use(k)
  /\ order' = Append(Rest(order, {k}), k)
  /\ Called("get", {k}, entry[k].val)
  /\ UNCHANGED <<entry, bytes, sweeping, now>>

\* Mutant: a set that replaces an entry keeps its time to live.
SetKeepingExpiry(k, v) ==
  LET o == Append(Rest(order, {k}), k)
      t == IF k \in Held THEN entry[k].until ELSE now + Ttl
      e == [entry EXCEPT ![k] = [val |-> v, until |-> t]]
      b == bytes - BytesOf(entry, {k} \cap Held) + Size[v]
      n == Evictions(o, e, b)
      out == ToSet(SubSeq(o, 1, n))
  IN /\ Use(k)
     /\ order' = SubSeq(o, n + 1, Len(o))
     /\ entry' = [j \in Key |-> IF j \in out THEN Nothing ELSE e[j]]
     /\ bytes' = b - BytesOf(e, out)
     /\ Called("set", {k}, v)
     /\ UNCHANGED <<sweeping, now>>

(* The entry is replaced, or inserted, at the end of the Map; then the      *)
(* oldest are evicted.  A value above MaxBytes takes all others with it,    *)
(* and goes last.                                                           *)
Set(k, v) ==
  LET o == Append(Rest(order, {k}), k)
      e == [entry EXCEPT ![k] = [val |-> v, until |-> now + Ttl]]
      b == bytes - BytesOf(entry, {k} \cap Held) + Size[v]
      n == Evictions(o, e, b)
      out == ToSet(SubSeq(o, 1, n))
  IN /\ Use(k)
     /\ order' = SubSeq(o, n + 1, Len(o))
     /\ entry' = [j \in Key |-> IF j \in out THEN Nothing ELSE e[j]]
     /\ bytes' = b - BytesOf(e, out)
     /\ Called("set", {k}, v)
     /\ UNCHANGED <<sweeping, now>>

Delete(k) == Drop({k}) /\ Called("delete", {k}, Nothing)
             /\ UNCHANGED <<sweeping, now, uVars>>

\* deleteByPrefix, for the session whose keys are those of S.
DeleteByPrefix(S) == Drop(S) /\ Called("delete", S, Nothing)
                     /\ UNCHANGED <<sweeping, now, uVars>>

\* clear: the counter starts anew.
Emptied == /\ order' = << >>
           /\ entry' = [k \in Key |-> Nothing]
           /\ bytes' = 0
           /\ Called("delete", Key, Nothing)
           /\ UNCHANGED <<now, uVars>>

Clear == Emptied /\ UNCHANGED sweeping

\* close() of the auth state.  Calls in flight may still set entries later.
Destroy == Emptied /\ sweeping' = FALSE

\* Mutant: the sweep stops at the first entry that has time left.
SweepFront ==
  /\ sweeping
  /\ order # << >> /\ Head(order) \in Expired
  /\ Drop({Head(order)})
  /\ UNCHANGED <<sweeping, now, call, uVars>>

\* The timer of the sweep fires, and there is something to sweep.
SweepExpired ==
  /\ sweeping
  /\ Expired # {}
  /\ Drop(Expired)
  /\ UNCHANGED <<sweeping, now, call, uVars>>

Tick == /\ now < MaxTime
        /\ now' = now + 1
        /\ UNCHANGED <<order, entry, bytes, sweeping, call, uVars>>

Next ==
  \/ \E k \in Key : \/ GetMiss(k) \/ GetExpired(k) \/ GetHit(k)
                    \/ \E v \in Value : Set(k, v)
                    \/ Delete(k)
  \/ \E S \in Session : DeleteByPrefix(S)
  \/ Clear \/ Destroy
  \/ SweepExpired
  \/ Tick

Spec == Init /\ [][Next]_vars

\* The interval timer fires again and again until it is cleared.
FairSpec == Spec /\ WF_vars(SweepExpired)

-----------------------------------------------------------------------------
(* Properties *)

\* Every variable holds what the code can put there.
TypeOK ==
  /\ order \in Seq(Key)
  /\ entry \in [Key -> Entry \cup {Nothing}]
  /\ bytes \in Nat
  /\ sweeping \in BOOLEAN
  /\ now \in Nat /\ uses \in Nat
  /\ call \in [op : {"new", "get", "set", "delete"}, keys : SUBSET Key,
               answer : Value \cup {Nothing}]
  /\ used \in [Key -> Nat]

(* The byte counter is the bytes of the entries that are there, and the     *)
(* list has each of their keys once, on whichever path entries came and     *)
(* left.  A counter that drifts up would evict everything for ever; one     *)
(* that drifts down would let the memory grow without a bound.              *)
CountersExact ==
  /\ bytes = BytesOf(entry, Held)
  /\ ToSet(order) = Held
  /\ Len(order) = Cardinality(Held)

(* Between two calls the cache is within both of its limits, counted from   *)
(* the entries themselves (memoryMaxEntries and memoryMaxBytes).            *)
WithinLimits ==
  /\ Cardinality(Held) <= MaxEntries
  /\ BytesOf(entry, Held) <= MaxBytes

(* Least recently used (class comment, memory-cache.ts:22-24): a set evicts *)
(* no key that was read or written later than one that it keeps, and it     *)
(* never evicts what it has just stored, unless that is too big.            *)
EvictsLeastRecentlyUsed ==
  [][call'.op = "set" /\ uses' # uses =>
       /\ \A k \in Held, j \in Key :
            entry'[k] = Nothing /\ entry'[j] # Nothing => used[k] < used'[j]
       /\ Size[call'.answer] <= MaxBytes /\ MaxEntries > 0 =>
            \A k \in call'.keys : entry'[k] # Nothing]_vars

(* As long as the sweep timer is there, an entry that nobody asks for again *)
(* does not stay in memory after its time to live.                          *)
ExpiredEntriesLeave ==
  \A k \in Key : k \in Expired /\ sweeping ~> k \notin Expired

(* To its callers the cache is a map that may forget, and nothing worse: no *)
(* stale value after a set or a deletion, none past its time to live.       *)
Lossy == INSTANCE LossyCache WITH held <- entry
ImplementsLossyCache == Lossy!Spec
=============================================================================
