-------------------------- MODULE MemoryCacheProofs --------------------------
(***************************************************************************)
(* Proofs about MemoryCache, for all keys, values, sizes and limits.       *)
(*                                                                         *)
(* First that it implements LossyCache: its list, its counter and its      *)
(* evictions only ever decide what is forgotten.  The refinement needs     *)
(* that the entries and the time have their types, and no more.            *)
(*                                                                         *)
(* Then what they decide.  CacheInv says that the list is the keys of the  *)
(* entries in the order of use, and that the counter is their bytes; with  *)
(* it a set's eviction is a cut of the list, and what it leaves is within  *)
(* the limits and was used later than what it takes.                       *)
(***************************************************************************)
EXTENDS MemoryCache, FiniteSetTheorems, SequenceTheorems, TLAPS

EntriesOK == entry \in [Key -> Entry \cup {Nothing}] /\ now \in Nat

\* The constructor's empty Map.
LEMMA InitEntries == Init => EntriesOK
  BY DEF Init, EntriesOK

\* A deletion leaves only entries that were there.
LEMMA DropEntries ==
  ASSUME NEW K, EntriesOK, Drop(K)
  PROVE  entry' \in [Key -> Entry \cup {Nothing}]
  BY DEF EntriesOK, Drop

\* Whatever a set evicts, the other entries stay, and the new one is its own.
LEMMA SetEvicts ==
  ASSUME NEW k, NEW v, Set(k, v)
  PROVE  \E out :
           entry' = [j \in Key |->
                       IF j \in out THEN Nothing
                       ELSE [entry EXCEPT
                               ![k] = [val |-> v, until |-> now + Ttl]][j]]
<1> DEFINE o == Append(Rest(order, {k}), k)
           e == [entry EXCEPT ![k] = [val |-> v, until |-> now + Ttl]]
           b == bytes - BytesOf(entry, {k} \cap Held) + Size[v]
           n == Evictions(o, e, b)
           out == ToSet(SubSeq(o, 1, n))
<1>1. entry' = [j \in Key |-> IF j \in out THEN Nothing ELSE e[j]]
  BY DEF Set
<1> HIDE DEF out
<1> QED
  BY <1>1

\* What a set stores is an entry that ends in the future.
LEMMA SetEntries ==
  ASSUME NEW k \in Key, NEW v \in Value, EntriesOK, Set(k, v)
  PROVE  EntriesOK'
<1> DEFINE e == [entry EXCEPT ![k] = [val |-> v, until |-> now + Ttl]]
<1>1. now + Ttl \in Nat
  BY OptionsAssumption DEF EntriesOK
<1>2. e \in [Key -> Entry \cup {Nothing}]
  BY <1>1 DEF EntriesOK, Entry
<1>3. PICK out : entry' = [j \in Key |-> IF j \in out THEN Nothing ELSE e[j]]
  BY SetEvicts
<1> HIDE DEF e
<1>4. entry' \in [Key -> Entry \cup {Nothing}]
  BY <1>2, <1>3
<1>5. now' \in Nat
  BY DEF Set, EntriesOK
<1> QED
  BY <1>4, <1>5 DEF EntriesOK

LEMMA NextEntries == EntriesOK /\ [Next]_vars => EntriesOK'
<1> SUFFICES ASSUME EntriesOK, [Next]_vars PROVE EntriesOK'
  OBVIOUS
<1>1. ASSUME NEW k \in Key, GetMiss(k) \/ GetHit(k) PROVE EntriesOK'
  BY <1>1 DEF GetMiss, GetHit, EntriesOK
<1>2. ASSUME NEW k \in Key, GetExpired(k) \/ Delete(k) PROVE EntriesOK'
  BY <1>2, DropEntries DEF GetExpired, Delete, EntriesOK
<1>3. ASSUME NEW k \in Key, NEW v \in Value, Set(k, v) PROVE EntriesOK'
  BY <1>3, SetEntries
<1>4. ASSUME NEW S \in Session, DeleteByPrefix(S) PROVE EntriesOK'
  BY <1>4, DropEntries DEF DeleteByPrefix, EntriesOK
<1>5. CASE Clear \/ Destroy
  BY <1>5 DEF Clear, Destroy, Emptied, EntriesOK
<1>6. CASE SweepExpired
  BY <1>6, DropEntries DEF SweepExpired, EntriesOK
<1>7. CASE Tick
  BY <1>7 DEF Tick, EntriesOK
<1>8. CASE UNCHANGED vars
  BY <1>8 DEF vars, EntriesOK
<1> QED
  BY <1>1, <1>2, <1>3, <1>4, <1>5, <1>6, <1>7, <1>8 DEF Next

-----------------------------------------------------------------------------
(* The methods, as the map sees them                                       *)

LEMMA DropForgets ==
  ASSUME NEW K, EntriesOK, Drop(K)
  PROVE  entry' = Lossy!Without(entry, K)
  BY DEF Drop, Lossy!Without

\* A get answers the entry while it has time left, and otherwise nothing.
LEMMA GetAnswers ==
  ASSUME NEW k \in Key, EntriesOK, GetMiss(k) \/ GetExpired(k) \/ GetHit(k)
  PROVE  Lossy!Get(k)
<1>1. CASE GetMiss(k)
  <2>1. entry[k] = Nothing
    BY <1>1 DEF GetMiss, Held
  <2>2. entry' = Lossy!Without(entry, {})
    BY <1>1 DEF GetMiss, EntriesOK, Lossy!Without
  <2> QED
    BY <1>1, <2>1, <2>2 DEF GetMiss, Called, Lossy!Get, Lossy!Called
<1>2. CASE GetExpired(k)
  <2>1. entry[k] \in Entry /\ entry[k].until <= now
    BY <1>2 DEF GetExpired, Expired, Held, EntriesOK
  <2>2. ~ (now < entry[k].until)
    BY <2>1 DEF Entry, EntriesOK
  <2>3. entry' = Lossy!Without(entry, {k})
    BY <1>2, DropForgets DEF GetExpired
  <2> QED
    BY <1>2, <2>2, <2>3 DEF GetExpired, Called, Lossy!Get, Lossy!Called
<1>3. CASE GetHit(k)
  <2>1. entry[k] # Nothing /\ entry[k] \in Entry /\ ~ (entry[k].until <= now)
    BY <1>3 DEF GetHit, Expired, Held, EntriesOK
  <2>2. now < entry[k].until
    BY <2>1 DEF Entry, EntriesOK
  <2>3. entry' = Lossy!Without(entry, {})
    BY <1>3 DEF GetHit, EntriesOK, Lossy!Without
  <2> QED
    BY <1>3, <2>1, <2>2, <2>3 DEF GetHit, Called, Lossy!Get, Lossy!Called
<1> QED
  BY <1>1, <1>2, <1>3

\* A set stores its value, or forgets it at once; what it evicts is forgotten.
LEMMA SetStores ==
  ASSUME NEW k \in Key, NEW v \in Value, EntriesOK, Set(k, v)
  PROVE  Lossy!Set(k, v)
<1> DEFINE e == [entry EXCEPT ![k] = [val |-> v, until |-> now + Ttl]]
<1>1. PICK out : entry' = [j \in Key |-> IF j \in out THEN Nothing ELSE e[j]]
  BY SetEvicts
<1>2. entry' = Lossy!Without(e, out \cap Key)
  BY <1>1 DEF Lossy!Without
<1>3. Called("set", {k}, v) /\ now' = now
  BY DEF Set
<1> QED
  BY <1>2, <1>3 DEF Called, Lossy!Set, Lossy!Called

LEMMA StepMaps == EntriesOK /\ [Next]_vars => [Lossy!Next]_(Lossy!vars)
<1> SUFFICES ASSUME EntriesOK, [Next]_vars PROVE [Lossy!Next]_(Lossy!vars)
  OBVIOUS
<1>1. ASSUME NEW k \in Key, GetMiss(k) \/ GetExpired(k) \/ GetHit(k)
      PROVE  Lossy!Next
  BY <1>1, GetAnswers DEF Lossy!Next
<1>2. ASSUME NEW k \in Key, NEW v \in Value, Set(k, v) PROVE Lossy!Next
  BY <1>2, SetStores DEF Lossy!Next
<1>3. ASSUME NEW K \in SUBSET Key, Drop(K), Called("delete", K, Nothing),
             now' = now
      PROVE  Lossy!Next
  BY <1>3, DropForgets DEF Called, Lossy!Next, Lossy!Delete, Lossy!Called
<1>4. ASSUME NEW k \in Key, Delete(k) PROVE Lossy!Next
  BY <1>3, <1>4 DEF Delete
<1>5. ASSUME NEW S \in Session, DeleteByPrefix(S) PROVE Lossy!Next
  BY <1>3, <1>5, SessionAssumption DEF DeleteByPrefix
<1>6. CASE Clear \/ Destroy
  <2>1. entry' = Lossy!Without(entry, Key)
    BY <1>6 DEF Clear, Destroy, Emptied, Lossy!Without
  <2> QED
    BY <1>6, <2>1 DEF Clear, Destroy, Emptied, Called, Lossy!Next,
                      Lossy!Delete, Lossy!Called
<1>7. CASE SweepExpired
  <2>1. entry' = Lossy!Without(entry, Expired) /\ Expired \subseteq Key
    BY <1>7, DropForgets DEF SweepExpired, Expired, Held
  <2> QED
    BY <1>7, <2>1 DEF SweepExpired, Lossy!Next, Lossy!Forget
<1>8. CASE Tick
  BY <1>8 DEF Tick, Lossy!Next, Lossy!Tick
<1>9. CASE UNCHANGED vars
  BY <1>9 DEF vars, Lossy!vars
<1> QED
  BY <1>1, <1>2, <1>4, <1>5, <1>6, <1>7, <1>8, <1>9 DEF Next

(* To its callers the memory cache is a map that may forget: a get answers  *)
(* the value of the last set of its key, within its time to live and not    *)
(* across a deletion, or nothing, whatever the LRU list evicts              *)
(* (memory-cache.ts:47-140).                                                *)
THEOREM CacheIsLossyMap == Spec => ImplementsLossyCache
<1>1. Init => Lossy!Init
  BY DEF Init, Lossy!Init
<1> QED
  BY <1>1, InitEntries, NextEntries, StepMaps, PTL
     DEF Spec, ImplementsLossyCache, Lossy!Spec

-----------------------------------------------------------------------------
(* Lists                                                                   *)

\* A set of naturals has a least element.
LEMMA Least ==
  ASSUME NEW T \in SUBSET Nat, T # {}
  PROVE  \E n \in T : \A m \in T : n <= m
<1> DEFINE R == OpToRel(<, Nat)
<1>1. \A m, n \in Nat : m < n => <<m, n>> \in R
  BY DEF OpToRel
<1>2. IsWellFoundedOn(R, Nat)
  BY NatLessThanWellFounded
<1> HIDE DEF R
<1>3. PICK n \in T : \A m \in T : ~ (<<m, n>> \in R)
  BY <1>2, WFMin
<1>4. \A m \in T : m \in Nat /\ n \in Nat /\ ~ (m < n)
  BY <1>1, <1>3
<1>5. \A m, l \in Nat : ~ (m < l) => l <= m
  OBVIOUS
<1> QED
  BY <1>4, <1>5

Increasing(p) == \A i, j \in DOMAIN p : i < j => p[i] < p[j]

\* A finite set of naturals can be listed in increasing order.
LEMMA Enumerated ==
  ASSUME NEW T \in SUBSET Nat, IsFiniteSet(T)
  PROVE  \E p \in [1 .. Cardinality(T) -> T] : Increasing(p)
<1> DEFINE n == Cardinality(T)
           upTo(i) == {j \in T : j <= i}
           rank == [i \in T |-> Cardinality(upTo(i))]
<1>1. n \in Nat /\ \A i \in T : i \in Nat
  BY FS_CardinalityType
<1>2. ASSUME NEW i \in T
      PROVE  IsFiniteSet(upTo(i)) /\ Cardinality(upTo(i)) \in 1 .. n
  <2>1. upTo(i) \in SUBSET T /\ i \in upTo(i)
    BY <1>1
  <2>2. IsFiniteSet(upTo(i)) /\ Cardinality(upTo(i)) <= n
    BY <2>1, FS_Subset
  <2>3. Cardinality(upTo(i)) \in Nat /\ Cardinality(upTo(i)) # 0
    BY <2>1, <2>2, FS_CardinalityType, FS_EmptySet
  <2> QED
    BY <1>1, <2>2, <2>3
<1>3. ASSUME NEW i \in T, NEW j \in T, i < j
      PROVE  rank[i] < rank[j]
  <2>1. upTo(i) \in SUBSET upTo(j) /\ j \in upTo(j) /\ j \notin upTo(i)
    <3>1. \A l \in T : l <= i => l <= j
      BY <1>1, <1>3
    <3>2. j <= j /\ ~ (j <= i)
      BY <1>1, <1>3
    <3> QED
      BY <3>1, <3>2
  <2>2. /\ Cardinality(upTo(i)) <= Cardinality(upTo(j))
        /\ Cardinality(upTo(j)) = Cardinality(upTo(i)) => upTo(j) = upTo(i)
    BY <1>2, <2>1, FS_Subset
  <2>3. Cardinality(upTo(i)) # Cardinality(upTo(j))
    BY <2>1, <2>2
  <2>4. Cardinality(upTo(i)) \in Nat /\ Cardinality(upTo(j)) \in Nat
    BY <1>1, <1>2
  <2> HIDE DEF upTo
  <2> QED
    BY <2>2, <2>3, <2>4
<1>4. rank \in [T -> 1 .. n]
  BY <1>2
<1> HIDE DEF rank, n
<1>5. \A i, j \in T : rank[i] = rank[j] => i = j
  <2> SUFFICES ASSUME NEW i \in T, NEW j \in T, rank[i] = rank[j], i # j
               PROVE  FALSE
    OBVIOUS
  <2>1. i < j \/ j < i
    BY <1>1
  <2>2. rank[i] \in Nat /\ rank[j] \in Nat
    BY <1>1, <1>4
  <2>3. i < j => rank[i] < rank[j]
    BY <1>3
  <2>4. j < i => rank[j] < rank[i]
    BY <1>3
  <2> QED
    BY <2>1, <2>2, <2>3, <2>4
<1>6. rank \in Injection(T, 1 .. n)
  BY <1>4, <1>5 DEF Injection, IsInjective
<1>7. IsFiniteSet(1 .. n) /\ Cardinality(1 .. n) = n
  BY <1>1, FS_Interval
<1>8. rank \in Surjection(T, 1 .. n)
  BY <1>6, <1>7, FS_Injection DEF n
<1>9. \A m \in 1 .. n : \E i \in T : rank[i] = m
  BY <1>8 DEF Surjection
<1> DEFINE p == [m \in 1 .. n |-> CHOOSE i \in T : rank[i] = m]
<1>10. \A m \in 1 .. n : p[m] \in T /\ rank[p[m]] = m
  BY <1>9
<1>11. p \in [1 .. n -> T] /\ DOMAIN p = 1 .. n
  BY <1>10
<1> HIDE DEF p
<1>12. ASSUME NEW m \in 1 .. n, NEW l \in 1 .. n, m < l
       PROVE  p[m] < p[l]
  <2>1. /\ p[m] \in T /\ p[l] \in T /\ rank[p[m]] = m /\ rank[p[l]] = l
    BY <1>10
  <2>2. p[m] \in Nat /\ p[l] \in Nat
    BY <1>1, <2>1
  <2>5. n \in Nat
    BY <1>1 DEF n
  <2>6. m \in Nat /\ l \in Nat
    BY <2>5
  <2>3. p[l] < p[m] => l < m
    BY <1>3, <2>1
  <2>4. p[l] = p[m] => l = m
    BY <2>1
  <2> QED
    BY <1>12, <2>2, <2>3, <2>4, <2>6
<1>13. Increasing(p)
  BY <1>11, <1>12 DEF Increasing
<1> QED
  BY <1>11, <1>13 DEF n

\* An increasing function is injective.
LEMMA IncreasingInjects ==
  ASSUME NEW T \in SUBSET Nat, NEW n \in Nat, NEW p \in [1 .. n -> T],
         Increasing(p)
  PROVE  p \in Injection(1 .. n, T)
<1>1. ASSUME NEW i \in 1 .. n, NEW j \in 1 .. n, p[i] = p[j], i # j
      PROVE  FALSE
  <2>1. i < j \/ j < i
    BY <1>1
  <2>2. i < j => p[i] < p[j]
    BY DEF Increasing
  <2>3. j < i => p[j] < p[i]
    BY DEF Increasing
  <2>4. p[i] \in Nat
    OBVIOUS
  <2> QED
    BY <1>1, <2>1, <2>2, <2>3, <2>4
<1> QED
  BY <1>1 DEF Injection, IsInjective

(* What is left of a list without the keys of K: the others, in their       *)
(* order.                                                                   *)
LEMMA RestPlaces ==
  ASSUME NEW S, NEW s \in Seq(S), NEW K
  PROVE  /\ Rest(s, K) \in Seq(S)
         /\ \E p \in [1 .. Len(Rest(s, K)) -> 1 .. Len(s)] :
              /\ Increasing(p)
              /\ \A i \in 1 .. Len(Rest(s, K)) :
                   Rest(s, K)[i] = s[p[i]] /\ s[p[i]] \notin K
              /\ \A j \in 1 .. Len(s) :
                   s[j] \notin K => \E i \in 1 .. Len(Rest(s, K)) : p[i] = j
<1> DEFINE stay == {i \in 1 .. Len(s) : s[i] \notin K}
           n == Cardinality(stay)
           p == CHOOSE q \in [1 .. n -> stay] :
                  \A i, j \in DOMAIN q : i < j => q[i] < q[j]
<1>1. Len(s) \in Nat /\ \A i \in 1 .. Len(s) : s[i] \in S
  OBVIOUS
<1>2. IsFiniteSet(1 .. Len(s)) /\ stay \in SUBSET (1 .. Len(s))
  BY <1>1, FS_Interval
<1>3. IsFiniteSet(stay) /\ stay \in SUBSET Nat
  BY <1>1, <1>2, FS_Subset
<1>4. n \in Nat
  BY <1>3, FS_CardinalityType
<1>5. \E q \in [1 .. n -> stay] : \A i, j \in DOMAIN q : i < j => q[i] < q[j]
  BY <1>3, Enumerated DEF Increasing
<1> HIDE DEF stay
<1>6. p \in [1 .. n -> stay] /\ \A i, j \in DOMAIN p : i < j => p[i] < p[j]
  BY <1>5
<1>7. Rest(s, K) = [i \in DOMAIN p |-> s[p[i]]]
  BY DEF Rest, stay
<1> HIDE DEF p
<1>8. Increasing(p) /\ DOMAIN p = 1 .. n
  BY <1>6 DEF Increasing
<1>9. p \in Injection(1 .. n, stay)
  BY <1>3, <1>4, <1>6, <1>8, IncreasingInjects
<1>10. Cardinality(1 .. n) = n
  BY <1>4, FS_Interval
<1>11. p \in Surjection(1 .. n, stay)
  <2>1. Cardinality(1 .. n) = Cardinality(stay)
    BY <1>10
  <2> QED
    BY <1>3, <1>9, <2>1, FS_Injection
<1>12. \A j \in stay : \E i \in 1 .. n : p[i] = j
  BY <1>11 DEF Surjection
<1> HIDE DEF n
<1>13. \A i \in 1 .. n : p[i] \in 1 .. Len(s) /\ s[p[i]] \notin K
  BY <1>6 DEF stay
<1>14. Rest(s, K) = [i \in 1 .. n |-> s[p[i]]]
  BY <1>7, <1>8
<1>15. Rest(s, K) \in [1 .. n -> S]
  BY <1>1, <1>13, <1>14
<1>16. Rest(s, K) \in Seq(S) /\ Len(Rest(s, K)) = n
  BY <1>4, <1>15
<1>17. p \in [1 .. n -> 1 .. Len(s)]
  BY <1>6, <1>13
<1>18. \A i \in 1 .. n : Rest(s, K)[i] = s[p[i]]
  BY <1>14
<1>19. \A j \in 1 .. Len(s) : s[j] \notin K => \E i \in 1 .. n : p[i] = j
  BY <1>12 DEF stay
<1> QED
  BY <1>8, <1>13, <1>16, <1>17, <1>18, <1>19

\* The list s is in the order of the numbers u of its keys, each there once.
Ordered(s, u) ==
  \A i, j \in 1 .. Len(s) : i < j => u[s[i]] < u[s[j]]

LEMMA OrderedOnce ==
  ASSUME NEW S, NEW s \in Seq(S), NEW u \in [S -> Nat], Ordered(s, u),
         NEW i \in 1 .. Len(s), NEW j \in 1 .. Len(s), s[i] = s[j]
  PROVE  i = j
<1> SUFFICES ASSUME i # j PROVE FALSE
  OBVIOUS
<1>1. i < j \/ j < i
  OBVIOUS
<1>2. u[s[i]] < u[s[j]] \/ u[s[j]] < u[s[i]]
  BY <1>1 DEF Ordered
<1>3. s[i] \in S /\ s[j] \in S
  OBVIOUS
<1>4. u[s[i]] \in Nat /\ u[s[j]] \in Nat
  BY <1>3
<1> QED
  BY <1>2, <1>4

\* Its length is the number of its keys.
LEMMA OrderedLength ==
  ASSUME NEW S, NEW s \in Seq(S), NEW u \in [S -> Nat], Ordered(s, u)
  PROVE  IsFiniteSet(ToSet(s)) /\ Cardinality(ToSet(s)) = Len(s)
<1>1. Len(s) \in Nat /\ DOMAIN s = 1 .. Len(s) /\ s \in [1 .. Len(s) -> S]
  BY LenProperties
<1>2. s \in [1 .. Len(s) -> ToSet(s)]
  BY <1>1 DEF ToSet
<1>3. \A i, j \in 1 .. Len(s) : s[i] = s[j] => i = j
  BY OrderedOnce
<1>4. s \in Injection(1 .. Len(s), ToSet(s))
  BY <1>1, <1>2, <1>3 DEF Injection, IsInjective
<1>5. s \in Surjection(1 .. Len(s), ToSet(s))
  BY <1>1, <1>2 DEF Surjection, ToSet
<1>6. IsFiniteSet(1 .. Len(s)) /\ Cardinality(1 .. Len(s)) = Len(s)
  BY <1>1, FS_Interval
<1> QED
  BY <1>4, <1>5, <1>6, FS_Surjection

LEMMA RestKeys ==
  ASSUME NEW S, NEW s \in Seq(S), NEW K
  PROVE  Rest(s, K) \in Seq(S) /\ ToSet(Rest(s, K)) = ToSet(s) \ K
<1> DEFINE r == Rest(s, K)
<1>1. r \in Seq(S)
  BY RestPlaces
<1>2. PICK p \in [1 .. Len(r) -> 1 .. Len(s)] :
        /\ \A i \in 1 .. Len(r) : r[i] = s[p[i]] /\ s[p[i]] \notin K
        /\ \A j \in 1 .. Len(s) :
             s[j] \notin K => \E i \in 1 .. Len(r) : p[i] = j
  BY RestPlaces
<1>3. DOMAIN s = 1 .. Len(s)
  BY LenProperties
<1> HIDE DEF r
<1>4. DOMAIN r = 1 .. Len(r)
  BY <1>1, LenProperties
<1>5. ToSet(r) = ToSet(s) \ K
  BY <1>2, <1>3, <1>4 DEF ToSet
<1> QED
  BY <1>1, <1>5 DEF r

LEMMA RestOrdered ==
  ASSUME NEW S, NEW s \in Seq(S), NEW u, NEW K, Ordered(s, u)
  PROVE  Ordered(Rest(s, K), u)
<1> DEFINE r == Rest(s, K)
<1>1. PICK p \in [1 .. Len(r) -> 1 .. Len(s)] :
        /\ Increasing(p)
        /\ \A i \in 1 .. Len(r) : r[i] = s[p[i]]
  BY RestPlaces
<1> HIDE DEF r
<1>2. \A i, j \in 1 .. Len(r) : i < j => p[i] < p[j]
  BY <1>1 DEF Increasing
<1>3. Ordered(r, u)
  BY <1>1, <1>2 DEF Ordered
<1> QED
  BY <1>3 DEF r

\* A key that is used now goes last.
LEMMA AppendOrdered ==
  ASSUME NEW S, NEW s \in Seq(S), NEW u \in [S -> Nat], Ordered(s, u),
         NEW k \in S, k \notin ToSet(s), NEW n \in Nat, \A j \in S : u[j] < n
  PROVE  /\ Append(s, k) \in Seq(S)
         /\ Len(Append(s, k)) = Len(s) + 1
         /\ Append(s, k)[Len(s) + 1] = k
         /\ \A i \in 1 .. Len(s) : Append(s, k)[i] = s[i]
         /\ ToSet(Append(s, k)) = ToSet(s) \cup {k}
         /\ Ordered(Append(s, k), [u EXCEPT ![k] = n])
<1> DEFINE a == Append(s, k)
           w == [u EXCEPT ![k] = n]
<1>1. /\ a \in Seq(S) /\ Len(a) = Len(s) + 1 /\ a[Len(s) + 1] = k
      /\ \A i \in 1 .. Len(s) : a[i] = s[i]
  BY AppendProperties
<1>2. /\ Len(s) \in Nat /\ DOMAIN s = 1 .. Len(s)
      /\ \A i \in 1 .. Len(s) : s[i] \in S
  BY LenProperties
<1> HIDE DEF a
<1>3. DOMAIN a = 1 .. Len(a)
  BY <1>1, LenProperties
<1>4. \A i \in 1 .. Len(a) : i \in 1 .. Len(s) \/ i = Len(s) + 1
  BY <1>1, <1>2
<1>5. \A i \in 1 .. Len(s) : i \in 1 .. Len(a)
  BY <1>1, <1>2
<1>6. Len(s) + 1 \in 1 .. Len(a)
  BY <1>1, <1>2
<1>7. ToSet(a) = ToSet(s) \cup {k}
  BY <1>1, <1>2, <1>3, <1>4, <1>5, <1>6 DEF ToSet
<1>8. \A i \in 1 .. Len(s) : s[i] # k
  BY <1>2 DEF ToSet
<1>9. w[k] = n /\ \A i \in 1 .. Len(s) : w[s[i]] = u[s[i]]
  BY <1>2, <1>8
<1> HIDE DEF w
<1>10. ASSUME NEW i \in 1 .. Len(a), NEW j \in 1 .. Len(a), i < j
       PROVE  w[a[i]] < w[a[j]]
  <2>1. i \in 1 .. Len(s)
    BY <1>1, <1>2, <1>10
  <2>2. a[i] = s[i] /\ s[i] \in S
    BY <1>1, <1>2, <2>1
  <2>3. CASE j \in 1 .. Len(s)
    BY <1>1, <1>9, <1>10, <2>1, <2>2, <2>3 DEF Ordered
  <2>4. CASE j = Len(s) + 1
    BY <1>1, <1>9, <2>1, <2>2, <2>4
  <2> QED
    BY <1>4, <2>3, <2>4
<1>11. Ordered(a, w)
  BY <1>10 DEF Ordered
<1> QED
  BY <1>1, <1>7, <1>11 DEF a, w

\* The list cut in two after its first n keys.
LEMMA Cut ==
  ASSUME NEW S, NEW s \in Seq(S), NEW u \in [S -> Nat], Ordered(s, u),
         NEW n \in 0 .. Len(s)
  PROVE  LET front == SubSeq(s, 1, n)
             back == SubSeq(s, n + 1, Len(s))
         IN /\ back \in Seq(S) /\ Len(back) = Len(s) - n /\ Ordered(back, u)
            /\ ToSet(front) = {s[i] : i \in 1 .. n}
            /\ ToSet(back) = {s[i] : i \in n + 1 .. Len(s)}
            /\ ToSet(back) = ToSet(s) \ ToSet(front)
            /\ ToSet(front) \subseteq ToSet(s)
<1> DEFINE front == SubSeq(s, 1, n)
           back == SubSeq(s, n + 1, Len(s))
<1>1. /\ Len(s) \in Nat /\ DOMAIN s = 1 .. Len(s)
      /\ \A i \in 1 .. Len(s) : s[i] \in S
  BY LenProperties
<1>2. /\ front \in Seq(S) /\ Len(front) = n
      /\ \A i \in 1 .. n : front[i] = s[i]
  <2>1. \A i \in 1 .. n : s[i] \in S
    BY <1>1
  <2>2. /\ front \in Seq(S) /\ Len(front) = IF 1 <= n THEN n - 1 + 1 ELSE 0
        /\ \A i \in 1 .. n - 1 + 1 : front[i] = s[1 + i - 1]
    BY <1>1, <2>1, SubSeqProperties
  <2> HIDE DEF front
  <2> QED
    BY <2>2
<1>3. /\ back \in Seq(S) /\ Len(back) = Len(s) - n
      /\ \A i \in 1 .. Len(s) - n : back[i] = s[n + i]
  <2>1. \A i \in n + 1 .. Len(s) : s[i] \in S
    BY <1>1
  <2>2. n + 1 \in Int /\ Len(s) \in Int
    BY <1>1
  <2>3. /\ back \in Seq(S)
        /\ Len(back) = IF n + 1 <= Len(s) THEN Len(s) - (n + 1) + 1 ELSE 0
        /\ \A i \in 1 .. Len(s) - (n + 1) + 1 : back[i] = s[n + 1 + i - 1]
    BY <2>1, <2>2, SubSeqProperties
  <2> HIDE DEF back
  <2>4. Len(s) - (n + 1) + 1 = Len(s) - n
    BY <1>1
  <2>5. ASSUME NEW i \in 1 .. Len(s) - n
        PROVE  back[i] = s[n + i]
    <3>1. back[i] = s[n + 1 + i - 1]
      BY <2>3, <2>4
    <3>2. n + 1 + i - 1 = n + i
      BY <1>1
    <3> QED
      BY <3>1, <3>2
  <2>6. CASE n + 1 <= Len(s)
    BY <2>3, <2>4, <2>5, <2>6
  <2>7. CASE ~ (n + 1 <= Len(s))
    <3>1. Len(back) = 0
      BY <2>3, <2>7
    <3>2. \A l \in Nat : n \in 0 .. l /\ ~ (n + 1 <= l) => l - n = 0
      OBVIOUS
    <3>3. Len(s) - n = 0
      BY <1>1, <2>7, <3>2
    <3> QED
      BY <2>3, <2>5, <3>1, <3>3
  <2> QED
    BY <2>6, <2>7
<1> HIDE DEF front, back
<1>4. DOMAIN front = 1 .. n /\ DOMAIN back = 1 .. Len(s) - n
  BY <1>2, <1>3, LenProperties
<1>5. ToSet(front) = {s[i] : i \in 1 .. n}
  BY <1>2, <1>4 DEF ToSet
<1>6. ToSet(back) = {s[i] : i \in n + 1 .. Len(s)}
  <2>1. \A i \in 1 .. Len(s) - n : n + i \in n + 1 .. Len(s)
    BY <1>1
  <2>2. \A i \in n + 1 .. Len(s) : i - n \in 1 .. Len(s) - n /\ n + (i - n) = i
    BY <1>1
  <2>3. \A i \in n + 1 .. Len(s) : s[i] = back[i - n]
    BY <1>3, <2>2
  <2>4. ToSet(back) = {back[i] : i \in 1 .. Len(s) - n}
    BY <1>4 DEF ToSet
  <2>5. ASSUME NEW i \in 1 .. Len(s) - n
        PROVE  \E j \in n + 1 .. Len(s) : back[i] = s[j]
    BY <1>3, <2>1
  <2>6. ASSUME NEW i \in n + 1 .. Len(s)
        PROVE  \E j \in 1 .. Len(s) - n : s[i] = back[j]
    BY <2>2, <2>3
  <2>7. \A x : x \in ToSet(back) => x \in {s[i] : i \in n + 1 .. Len(s)}
    BY <2>4, <2>5
  <2>8. \A x : x \in {s[i] : i \in n + 1 .. Len(s)} => x \in ToSet(back)
    BY <2>4, <2>6
  <2> QED
    BY <2>7, <2>8
<1>7. Ordered(back, u)
  <2> SUFFICES ASSUME NEW i \in 1 .. Len(back), NEW j \in 1 .. Len(back), i < j
               PROVE  u[back[i]] < u[back[j]]
    BY DEF Ordered
  <2>1. /\ n + i \in 1 .. Len(s) /\ n + j \in 1 .. Len(s) /\ n + i < n + j
        /\ i \in 1 .. Len(s) - n /\ j \in 1 .. Len(s) - n
    BY <1>1, <1>3
  <2> QED
    BY <1>3, <2>1 DEF Ordered
<1>8. \A i \in 1 .. n, j \in n + 1 .. Len(s) :
        i \in 1 .. Len(s) /\ j \in 1 .. Len(s) /\ i # j
  BY <1>1
<1>9. \A i \in 1 .. n, j \in n + 1 .. Len(s) : s[i] # s[j]
  BY <1>8, OrderedOnce
<1>10. \A i \in 1 .. Len(s) : i \in 1 .. n \/ i \in n + 1 .. Len(s)
  BY <1>1
<1>11. ToSet(s) = {s[i] : i \in 1 .. Len(s)}
  BY <1>1 DEF ToSet
<1>12. ToSet(front) \subseteq ToSet(s)
  <2>1. \A i \in 1 .. n : i \in 1 .. Len(s)
    BY <1>1
  <2> QED
    BY <1>5, <1>11, <2>1
<1>13. ToSet(back) = ToSet(s) \ ToSet(front)
  <2>1. ASSUME NEW x \in ToSet(back)
        PROVE  x \in ToSet(s) /\ x \notin ToSet(front)
    <3>1. PICK j \in n + 1 .. Len(s) : x = s[j]
      BY <1>6
    <3>2. j \in 1 .. Len(s)
      BY <1>1
    <3>3. \A i \in 1 .. n : s[i] # s[j]
      BY <1>9
    <3> QED
      BY <1>5, <1>11, <3>1, <3>2, <3>3
  <2>2. ASSUME NEW x \in ToSet(s), x \notin ToSet(front)
        PROVE  x \in ToSet(back)
    <3>1. PICK j \in 1 .. Len(s) : x = s[j]
      BY <1>11
    <3>2. j \notin 1 .. n
      BY <1>5, <2>2, <3>1
    <3>3. j \in n + 1 .. Len(s)
      BY <1>10, <3>2
    <3> QED
      BY <1>6, <3>1, <3>3
  <2> QED
    BY <2>1, <2>2
<1> QED
  BY <1>2, <1>3, <1>5, <1>6, <1>7, <1>12, <1>13 DEF front, back

\* The same, of the keys alone.
LEMMA CutKeys ==
  ASSUME NEW S, NEW s \in Seq(S), NEW u \in [S -> Nat], Ordered(s, u),
         NEW n \in 0 .. Len(s)
  PROVE  /\ ToSet(SubSeq(s, 1, n)) = {s[i] : i \in 1 .. n}
         /\ ToSet(SubSeq(s, n + 1, Len(s))) = {s[i] : i \in n + 1 .. Len(s)}
         /\ ToSet(SubSeq(s, n + 1, Len(s))) = ToSet(s) \ ToSet(SubSeq(s, 1, n))
  BY Cut

-----------------------------------------------------------------------------
(* Bytes                                                                   *)

\* The bytes themselves, each with its key.
BytesIn(e, K) == UNION {{k} \X (1 .. Size[e[k].val]) : k \in K}

LEMMA BytesOne ==
  ASSUME NEW e, NEW k, Size[e[k].val] \in Nat
  PROVE  /\ IsFiniteSet({k} \X (1 .. Size[e[k].val]))
         /\ BytesOf(e, {k}) = Size[e[k].val]
<1> DEFINE n == Size[e[k].val]
<1>1. IsFiniteSet({k}) /\ Cardinality({k}) = 1
  BY FS_Singleton
<1> HIDE DEF n
<1>2. n \in Nat
  BY DEF n
<1>3. IsFiniteSet(1 .. n) /\ Cardinality(1 .. n) = n
  BY <1>2, FS_Interval
<1>4. IsFiniteSet({k} \X (1 .. n)) /\ Cardinality({k} \X (1 .. n)) = n
  <2>1. /\ IsFiniteSet({k} \X (1 .. n))
        /\ Cardinality({k} \X (1 .. n)) =
             Cardinality({k}) * Cardinality(1 .. n)
    BY <1>1, <1>3, FS_Product
  <2> QED
    BY <1>1, <1>2, <1>3, <2>1
<1>5. {k} \X (1 .. n) = UNION {{j} \X (1 .. Size[e[j].val]) : j \in {k}}
  BY DEF n
<1>6. BytesOf(e, {k}) = n
  BY <1>4, <1>5 DEF BytesOf
<1> QED
  BY <1>4, <1>6 DEF n

LEMMA BytesFinite ==
  ASSUME NEW e, NEW K, IsFiniteSet(K), \A k \in K : Size[e[k].val] \in Nat
  PROVE  /\ IsFiniteSet(BytesIn(e, K))
         /\ BytesOf(e, K) = Cardinality(BytesIn(e, K))
         /\ BytesOf(e, K) \in Nat
<1> DEFINE of(k) == {k} \X (1 .. Size[e[k].val])
           parts == {of(k) : k \in K}
           f == [k \in K |-> of(k)]
<1>1. f \in Surjection(K, parts)
  BY DEF Surjection
<1>2. IsFiniteSet(parts)
  BY <1>1, FS_Surjection
<1>3. \A p \in parts : IsFiniteSet(p)
  BY BytesOne
<1>4. IsFiniteSet(UNION parts)
  BY <1>2, <1>3, FS_UNION
<1>5. IsFiniteSet(BytesIn(e, K))
  BY <1>4 DEF BytesIn
<1>6. BytesOf(e, K) = Cardinality(BytesIn(e, K))
  BY DEF BytesOf, BytesIn
<1> QED
  BY <1>5, <1>6, FS_CardinalityType

\* The bytes of two sets of keys with none in common.
LEMMA BytesSplit ==
  ASSUME NEW e, NEW K, NEW J, IsFiniteSet(K), IsFiniteSet(J), K \cap J = {},
         \A k \in K \cup J : Size[e[k].val] \in Nat
  PROVE  /\ BytesOf(e, K) \in Nat /\ BytesOf(e, J) \in Nat
         /\ BytesOf(e, K \cup J) = BytesOf(e, K) + BytesOf(e, J)
<1>1. /\ IsFiniteSet(BytesIn(e, K))
      /\ BytesOf(e, K) = Cardinality(BytesIn(e, K))
      /\ BytesOf(e, K) \in Nat
  BY BytesFinite
<1>2. /\ IsFiniteSet(BytesIn(e, J))
      /\ BytesOf(e, J) = Cardinality(BytesIn(e, J))
      /\ BytesOf(e, J) \in Nat
  BY BytesFinite
<1>3. BytesIn(e, K \cup J) = BytesIn(e, K) \cup BytesIn(e, J)
  BY DEF BytesIn
<1>4. BytesIn(e, K) \cap BytesIn(e, J) = {}
  BY DEF BytesIn
<1>5. Cardinality(BytesIn(e, K) \cup BytesIn(e, J)) =
        Cardinality(BytesIn(e, K)) + Cardinality(BytesIn(e, J))
          - Cardinality({})
  BY <1>1, <1>2, <1>4, FS_Union
<1>6. BytesOf(e, K \cup J) = Cardinality(BytesIn(e, K \cup J))
  BY DEF BytesOf, BytesIn
<1>7. Cardinality({}) = 0
  BY FS_EmptySet
<1>8. BytesOf(e, K \cup J) = BytesOf(e, K) + BytesOf(e, J) - 0
  BY <1>1, <1>2, <1>3, <1>5, <1>6, <1>7
<1>9. \A a, b \in Nat : a + b - 0 = a + b
  OBVIOUS
<1> QED
  BY <1>1, <1>2, <1>8, <1>9

\* They only depend on the entries of the keys.
LEMMA BytesSame ==
  ASSUME NEW e, NEW d, NEW K, \A k \in K : e[k] = d[k]
  PROVE  BytesOf(e, K) = BytesOf(d, K)
<1>1. BytesIn(e, K) = BytesIn(d, K)
  BY DEF BytesIn
<1> QED
  BY <1>1 DEF BytesOf, BytesIn

LEMMA BytesNone == ASSUME NEW e PROVE BytesOf(e, {}) = 0
<1>1. BytesIn(e, {}) = {}
  BY DEF BytesIn
<1> QED
  BY <1>1, FS_EmptySet DEF BytesOf, BytesIn

-----------------------------------------------------------------------------
(* The inductive invariant                                                 *)

(* The list has each key of an entry once, and is in the order of use:      *)
(* every insertion is a use.                                                *)
ListPart ==
  /\ ToSet(order) = Held
  /\ Ordered(order, used)
  /\ \A k \in Key : used[k] <= uses

BytesPart == bytes = BytesOf(entry, Held)

CacheInv == TypeOK /\ ListPart /\ BytesPart /\ WithinLimits

\* What the list says of the entries.
LEMMA HeldFacts ==
  ASSUME TypeOK, ListPart
  PROVE  /\ IsFiniteSet(Held) /\ Cardinality(Held) = Len(order)
         /\ \A k \in Held : entry[k] \in Entry /\ Size[entry[k].val] \in Nat
<1>1. IsFiniteSet(ToSet(order)) /\ Cardinality(ToSet(order)) = Len(order)
  BY OrderedLength DEF TypeOK, ListPart
<1>2. ASSUME NEW k \in Held
      PROVE  entry[k] \in Entry /\ Size[entry[k].val] \in Nat
  <2>1. entry[k] \in Entry
    BY DEF Held, TypeOK
  <2>2. entry[k].val \in Value
    BY <2>1 DEF Entry
  <2> QED
    BY <2>1, <2>2, SizeAssumption
<1> QED
  BY <1>1, <1>2 DEF ListPart

LEMMA InitCache == Init => CacheInv
<1> SUFFICES ASSUME Init PROVE CacheInv
  OBVIOUS
<1>1. Held = {} /\ ToSet(order) = {}
  BY DEF Init, Held, ToSet
<1>2. BytesOf(entry, Held) = 0
  BY <1>1, BytesNone
<1>3. Cardinality(Held) = 0
  BY <1>1, FS_EmptySet
<1>4. TypeOK
  BY DEF Init, TypeOK
<1>5. ListPart
  BY <1>1 DEF Init, ListPart, Ordered
<1>6. BytesPart
  BY <1>2 DEF Init, BytesPart
<1>7. WithinLimits
  BY <1>2, <1>3, OptionsAssumption DEF WithinLimits
<1> QED
  BY <1>4, <1>5, <1>6, <1>7 DEF CacheInv

-----------------------------------------------------------------------------
(* Deletions                                                               *)

LEMMA DropHeld ==
  ASSUME NEW K, TypeOK, Drop(K)
  PROVE  Held' = Held \ K /\ \A k \in Held' : entry'[k] = entry[k]
<1>1. \A k \in Key : entry'[k] = IF k \in K THEN Nothing ELSE entry[k]
  BY DEF Drop
<1> QED
  BY <1>1 DEF Held

\* A deletion takes its keys out of the list and their bytes off the counter.
LEMMA DropKeeps ==
  ASSUME NEW K, CacheInv, Drop(K), UNCHANGED uVars
  PROVE  /\ order' \in Seq(Key) /\ bytes' \in Nat
         /\ ListPart' /\ BytesPart' /\ WithinLimits'
<1>1. TypeOK /\ ListPart /\ BytesPart /\ WithinLimits
  BY DEF CacheInv
<1>2. Held' = Held \ K /\ \A k \in Held' : entry'[k] = entry[k]
  BY <1>1, DropHeld
<1>3. order \in Seq(Key) /\ used' = used /\ uses' = uses
  BY <1>1 DEF TypeOK, uVars
<1>4. order' = Rest(order, K) /\ bytes' = bytes - BytesOf(entry, K \cap Held)
  BY DEF Drop
<1>5. order' \in Seq(Key) /\ ToSet(order') = ToSet(order) \ K
  BY <1>3, <1>4, RestKeys
<1>6. Ordered(order', used)
  BY <1>1, <1>3, <1>4, RestOrdered DEF ListPart
<1>7. ListPart'
  BY <1>1, <1>2, <1>3, <1>5, <1>6 DEF ListPart
<1> DEFINE gone == K \cap Held
           left == Held \ K
<1>8. /\ IsFiniteSet(Held) /\ Cardinality(Held) \in Nat
      /\ \A k \in Held : Size[entry[k].val] \in Nat
  BY <1>1, HeldFacts, FS_CardinalityType
<1>9. /\ IsFiniteSet(gone) /\ IsFiniteSet(left) /\ gone \cap left = {}
      /\ gone \cup left = Held /\ Cardinality(left) <= Cardinality(Held)
  <2>1. gone \in SUBSET Held /\ left \in SUBSET Held
    OBVIOUS
  <2>2. /\ IsFiniteSet(gone) /\ IsFiniteSet(left)
        /\ Cardinality(left) <= Cardinality(Held)
    BY <1>8, <2>1, FS_Subset
  <2>3. gone \cap left = {} /\ gone \cup left = Held
    OBVIOUS
  <2> QED
    BY <2>2, <2>3
<1>10. /\ BytesOf(entry, gone) \in Nat /\ BytesOf(entry, left) \in Nat
       /\ BytesOf(entry, Held) = BytesOf(entry, gone) + BytesOf(entry, left)
  <2>1. \A k \in gone \cup left : Size[entry[k].val] \in Nat
    BY <1>8, <1>9
  <2> HIDE DEF gone, left
  <2>2. /\ BytesOf(entry, gone) \in Nat /\ BytesOf(entry, left) \in Nat
        /\ BytesOf(entry, gone \cup left) =
             BytesOf(entry, gone) + BytesOf(entry, left)
    BY <1>9, <2>1, BytesSplit
  <2> QED
    BY <1>9, <2>2
<1>11. BytesOf(entry', Held') = BytesOf(entry, left)
  BY <1>2, BytesSame
<1>12. \A a, g, l, m \in Nat :
         a = g + l => a - g = l /\ (a <= m => l <= m)
  OBVIOUS
<1>13. bytes' = BytesOf(entry', Held') /\ bytes' \in Nat
  BY <1>1, <1>4, <1>10, <1>11, <1>12 DEF BytesPart, TypeOK
<1>14. BytesOf(entry, left) <= MaxBytes
  BY <1>1, <1>10, <1>12, OptionsAssumption DEF WithinLimits, BytesPart, TypeOK
<1>15. Cardinality(left) <= MaxEntries
  <2>1. Cardinality(left) \in Nat
    BY <1>9, FS_CardinalityType
  <2>2. \A l, h, m \in Nat : l <= h /\ h <= m => l <= m
    OBVIOUS
  <2> QED
    BY <1>1, <1>8, <1>9, <2>1, <2>2, OptionsAssumption DEF WithinLimits
<1>16. WithinLimits'
  BY <1>2, <1>11, <1>14, <1>15 DEF WithinLimits
<1> QED
  BY <1>5, <1>7, <1>13, <1>16 DEF BytesPart

-----------------------------------------------------------------------------
(* Uses and evictions                                                      *)

\* A use puts its key at the end of the list, with the highest number.
LEMMA UseMoves ==
  ASSUME NEW k \in Key, TypeOK, ListPart, Use(k)
  PROVE  LET o == Append(Rest(order, {k}), k)
         IN /\ o \in Seq(Key) /\ Len(o) > 0 /\ o[Len(o)] = k
            /\ ToSet(o) = Held \cup {k} /\ Ordered(o, used')
            /\ used' \in [Key -> Nat] /\ uses' \in Nat
            /\ \A j \in Key : used'[j] <= uses'
            /\ \A j \in Key : j # k => used'[j] = used[j]
<1> DEFINE r == Rest(order, {k})
           o == Append(r, k)
<1>1. /\ order \in Seq(Key) /\ used \in [Key -> Nat] /\ uses \in Nat
      /\ \A j \in Key : used[j] \in Nat /\ used[j] <= uses
  BY DEF TypeOK, ListPart
<1>2. uses' = uses + 1 /\ used' = [used EXCEPT ![k] = uses + 1]
  BY DEF Use
<1>3. r \in Seq(Key) /\ ToSet(r) = Held \ {k} /\ Ordered(r, used)
  BY <1>1, RestKeys, RestOrdered DEF ListPart
<1>4. PICK n \in Nat : n = uses + 1 /\ \A j \in Key : used[j] < n
  BY <1>1
<1>5. k \notin ToSet(r)
  BY <1>3
<1> HIDE DEF r
<1>6. /\ o \in Seq(Key) /\ Len(o) = Len(r) + 1 /\ o[Len(r) + 1] = k
      /\ ToSet(o) = ToSet(r) \cup {k}
      /\ Ordered(o, [used EXCEPT ![k] = n])
  <2>1. used \in [Key -> Nat] /\ r \in Seq(Key) /\ Ordered(r, used)
    BY <1>1, <1>3
  <2>2. \A j \in Key : used[j] < n
    BY <1>4
  <2>3. /\ Append(r, k) \in Seq(Key)
        /\ Len(Append(r, k)) = Len(r) + 1
        /\ Append(r, k)[Len(r) + 1] = k
        /\ \A i \in 1 .. Len(r) : Append(r, k)[i] = r[i]
        /\ ToSet(Append(r, k)) = ToSet(r) \cup {k}
        /\ Ordered(Append(r, k), [used EXCEPT ![k] = n])
    BY <1>5, <2>1, <2>2, AppendOrdered, Zenon
  <2> QED
    BY <2>3
<1>7. Len(r) \in Nat
  BY <1>3, LenProperties
<1> HIDE DEF o
<1>8. Len(o) > 0 /\ o[Len(o)] = k
  BY <1>6, <1>7
<1>9. ToSet(o) = Held \cup {k}
  BY <1>3, <1>6
<1>10. /\ used' \in [Key -> Nat] /\ uses' \in Nat
       /\ \A j \in Key : used'[j] <= uses'
       /\ \A j \in Key : j # k => used'[j] = used[j]
  BY <1>1, <1>2, <1>4
<1> QED
  BY <1>2, <1>4, <1>6, <1>8, <1>9, <1>10 DEF o, r

LEMMA HitKeeps ==
  ASSUME NEW k \in Key, CacheInv, GetHit(k)
  PROVE  CacheInv'
<1> DEFINE o == Append(Rest(order, {k}), k)
<1>1. TypeOK /\ ListPart /\ BytesPart /\ WithinLimits
  BY DEF CacheInv
<1>2. Use(k) /\ order' = o /\ entry' = entry /\ bytes' = bytes /\ k \in Held
  BY DEF GetHit
<1>3. /\ o \in Seq(Key) /\ ToSet(o) = Held \cup {k} /\ Ordered(o, used')
      /\ used' \in [Key -> Nat] /\ uses' \in Nat
      /\ \A j \in Key : used'[j] <= uses'
  BY <1>1, <1>2, UseMoves
<1>4. Held' = Held
  BY <1>2 DEF Held
<1> HIDE DEF o
<1>5. ListPart'
  BY <1>2, <1>3, <1>4 DEF ListPart
<1>6. BytesPart' /\ WithinLimits'
  BY <1>1, <1>2, <1>4 DEF BytesPart, WithinLimits
<1>7. entry[k].val \in Value
  BY <1>1, <1>2 DEF TypeOK, Held, Entry
<1>8. call' \in [op : {"new", "get", "set", "delete"}, keys : SUBSET Key,
                 answer : Value \cup {Nothing}]
  BY <1>7 DEF GetHit, Called
<1>9. TypeOK'
  BY <1>1, <1>2, <1>3, <1>8 DEF TypeOK, GetHit
<1> QED
  BY <1>5, <1>6, <1>9 DEF CacheInv

\* The eviction loop ends, at the latest when nothing is left.
LEMMA EvictionsStop ==
  ASSUME NEW o, Len(o) \in Nat, NEW e, NEW b
  PROVE  /\ Evictions(o, e, b) \in 0 .. Len(o)
         /\ ~ Over(o, e, b, Evictions(o, e, b))
         /\ \A m \in 0 .. Evictions(o, e, b) - 1 : Over(o, e, b, m)
<1> DEFINE T == {n \in 0 .. Len(o) : ~ Over(o, e, b, n)}
<1>1. T \in SUBSET Nat /\ Len(o) \in T
  BY DEF Over
<1>2. PICK n \in T : \A m \in T : n <= m
  BY <1>1, Least
<1>3. \A m \in 0 .. n - 1 : Over(o, e, b, m)
  <2> SUFFICES ASSUME NEW m \in 0 .. n - 1 PROVE m \notin T
    BY <1>1
  <2>1. ~ (n <= m)
    BY <1>1
  <2> QED
    BY <1>2, <2>1
<1>4. \E l \in 0 .. Len(o) :
        ~ Over(o, e, b, l) /\ \A m \in 0 .. l - 1 : Over(o, e, b, m)
  BY <1>2, <1>3
<1> QED
  BY <1>4 DEF Evictions

(* What a set does: o, the list with k used last, is cut after its n oldest *)
(* keys, n being the least that leaves what is within the limits.           *)
SetCuts(k, v, o, e, n) ==
  /\ o \in Seq(Key) /\ Len(o) > 0 /\ o[Len(o)] = k
  /\ ToSet(o) = Held \cup {k}
  /\ used' \in [Key -> Nat] /\ Ordered(o, used')
  /\ \A j \in Key : j # k => used'[j] = used[j]
  /\ e \in [Key -> Entry \cup {Nothing}]
  /\ \A j \in ToSet(o) : e[j] \in Entry /\ Size[e[j].val] \in Nat
  /\ e[k].val = v /\ \A j \in Key : j # k => e[j] = entry[j]
  /\ n \in 0 .. Len(o)
  /\ ~ Over(o, e, BytesOf(e, ToSet(o)), n)
  /\ \A m \in 0 .. n - 1 : Over(o, e, BytesOf(e, ToSet(o)), m)
  /\ order' = SubSeq(o, n + 1, Len(o))
  /\ entry' = [j \in Key |->
                 IF j \in ToSet(SubSeq(o, 1, n)) THEN Nothing ELSE e[j]]
  /\ bytes' = BytesOf(e, ToSet(o)) - BytesOf(e, ToSet(SubSeq(o, 1, n)))

LEMMA SetSteps ==
  ASSUME NEW k \in Key, NEW v \in Value, CacheInv, Set(k, v)
  PROVE  \E o, e, n : SetCuts(k, v, o, e, n)
<1> DEFINE o == Append(Rest(order, {k}), k)
           e == [entry EXCEPT ![k] = [val |-> v, until |-> now + Ttl]]
           b == bytes - BytesOf(entry, {k} \cap Held) + Size[v]
           n == Evictions(o, e, b)
<1>1. TypeOK /\ ListPart /\ BytesPart
  BY DEF CacheInv
<1>2. /\ Use(k)
      /\ order' = SubSeq(o, n + 1, Len(o))
      /\ entry' = [j \in Key |->
                     IF j \in ToSet(SubSeq(o, 1, n)) THEN Nothing ELSE e[j]]
      /\ bytes' = b - BytesOf(e, ToSet(SubSeq(o, 1, n)))
  BY DEF Set
<1>3. /\ o \in Seq(Key) /\ Len(o) > 0 /\ o[Len(o)] = k
      /\ ToSet(o) = Held \cup {k} /\ Ordered(o, used')
      /\ used' \in [Key -> Nat]
      /\ \A j \in Key : j # k => used'[j] = used[j]
  BY <1>1, <1>2, UseMoves
<1>4. [val |-> v, until |-> now + Ttl] \in Entry
  BY <1>1, OptionsAssumption DEF TypeOK, Entry
<1>5. /\ e \in [Key -> Entry \cup {Nothing}]
      /\ e[k] \in Entry /\ e[k].val = v
      /\ \A j \in Key : j # k => e[j] = entry[j]
  BY <1>1, <1>4 DEF TypeOK
<1>6. Size[v] \in Nat
  BY SizeAssumption
<1> HIDE DEF o, e
<1>7. /\ IsFiniteSet(Held)
      /\ \A j \in Held : entry[j] \in Entry /\ Size[entry[j].val] \in Nat
  BY <1>1, HeldFacts
<1>8. \A j \in ToSet(o) : e[j] \in Entry /\ Size[e[j].val] \in Nat
  <2>1. Held \subseteq Key
    BY DEF Held
  <2> QED
    BY <1>3, <1>5, <1>6, <1>7, <2>1
<1>9. b = BytesOf(e, ToSet(o))
  <2> DEFINE rest == Held \ {k}
             old == {k} \cap Held
  <2>1. /\ IsFiniteSet(rest) /\ IsFiniteSet(old) /\ IsFiniteSet({k})
        /\ rest \cap old = {} /\ rest \cup old = Held
        /\ rest \cap {k} = {} /\ rest \cup {k} = ToSet(o)
    <3>1. rest \in SUBSET Held /\ old \in SUBSET Held
      OBVIOUS
    <3>2. IsFiniteSet(rest) /\ IsFiniteSet(old) /\ IsFiniteSet({k})
      BY <1>7, <3>1, FS_Subset, FS_Singleton
    <3>3. /\ rest \cap old = {} /\ rest \cup old = Held
          /\ rest \cap {k} = {} /\ rest \cup {k} = ToSet(o)
      BY <1>3
    <3> QED
      BY <3>2, <3>3
  <2>2. \A j \in rest : e[j] = entry[j]
    BY <1>5 DEF Held
  <2>3. /\ BytesOf(entry, rest) \in Nat /\ BytesOf(entry, old) \in Nat
        /\ BytesOf(entry, Held) = BytesOf(entry, rest) + BytesOf(entry, old)
    <3>1. \A j \in rest \cup old : Size[entry[j].val] \in Nat
      BY <1>7, <2>1
    <3> HIDE DEF rest, old
    <3>2. /\ BytesOf(entry, rest) \in Nat /\ BytesOf(entry, old) \in Nat
          /\ BytesOf(entry, rest \cup old) =
               BytesOf(entry, rest) + BytesOf(entry, old)
      BY <2>1, <3>1, BytesSplit
    <3> QED
      BY <2>1, <3>2
  <2>4. BytesOf(e, rest) = BytesOf(entry, rest)
    BY <2>2, BytesSame
  <2>5. BytesOf(e, {k}) = Size[v]
    BY <1>5, <1>6, BytesOne
  <2>6. BytesOf(e, ToSet(o)) = BytesOf(e, rest) + BytesOf(e, {k})
    <3>1. \A j \in rest \cup {k} : Size[e[j].val] \in Nat
      BY <1>8, <2>1
    <3>2. BytesOf(e, rest \cup {k}) = BytesOf(e, rest) + BytesOf(e, {k})
      BY <2>1, <3>1, BytesSplit
    <3> QED
      BY <2>1, <3>2
  <2>7. bytes = BytesOf(entry, Held)
    BY <1>1 DEF BytesPart
  <2>8. \A h, r, a, z \in Nat : h = r + a => h - a + z = r + z
    OBVIOUS
  <2>9. bytes \in Nat
    BY <1>1 DEF TypeOK
  <2> HIDE DEF rest, old
  <2>10. bytes - BytesOf(entry, old) + Size[v] = BytesOf(entry, rest) + Size[v]
    BY <1>6, <2>3, <2>7, <2>8, <2>9
  <2> QED
    BY <2>4, <2>5, <2>6, <2>10 DEF old
<1> HIDE DEF b
<1>10. Len(o) \in Nat
  BY <1>3, LenProperties
<1>11. /\ n \in 0 .. Len(o) /\ ~ Over(o, e, b, n)
       /\ \A m \in 0 .. n - 1 : Over(o, e, b, m)
  BY <1>10, EvictionsStop
<1> HIDE DEF n
<1>12. SetCuts(k, v, o, e, n)
  BY <1>2, <1>3, <1>5, <1>8, <1>9, <1>11 DEF SetCuts
<1> QED
  BY <1>12

\* The cut, counted: what is kept has the bytes that are left.
LEMMA CutBytes ==
  ASSUME NEW S, NEW o \in Seq(S), NEW u \in [S -> Nat], Ordered(o, u),
         NEW e, \A j \in ToSet(o) : Size[e[j].val] \in Nat,
         NEW n \in 0 .. Len(o)
  PROVE  LET front == ToSet(SubSeq(o, 1, n))
             back == ToSet(SubSeq(o, n + 1, Len(o)))
         IN /\ IsFiniteSet(back) /\ Cardinality(back) = Len(o) - n
            /\ BytesOf(e, back) \in Nat
            /\ BytesOf(e, ToSet(o)) - BytesOf(e, front) = BytesOf(e, back)
<1> DEFINE f == SubSeq(o, 1, n)
           t == SubSeq(o, n + 1, Len(o))
<1>1. /\ t \in Seq(S) /\ Len(t) = Len(o) - n /\ Ordered(t, u)
      /\ ToSet(t) = ToSet(o) \ ToSet(f)
      /\ ToSet(f) \subseteq ToSet(o)
  BY Cut, SMTT(30)
<1> HIDE DEF f, t
<1>2. IsFiniteSet(ToSet(o))
  BY OrderedLength
<1>3. IsFiniteSet(ToSet(t)) /\ Cardinality(ToSet(t)) = Len(o) - n
  BY <1>1, OrderedLength
<1>4. IsFiniteSet(ToSet(f))
  BY <1>1, <1>2, FS_Subset
<1>5. ToSet(f) \cap ToSet(t) = {} /\ ToSet(f) \cup ToSet(t) = ToSet(o)
  BY <1>1
<1>6. \A j \in ToSet(f) \cup ToSet(t) : Size[e[j].val] \in Nat
  BY <1>5
<1>7. /\ BytesOf(e, ToSet(f)) \in Nat /\ BytesOf(e, ToSet(t)) \in Nat
      /\ BytesOf(e, ToSet(f) \cup ToSet(t)) =
           BytesOf(e, ToSet(f)) + BytesOf(e, ToSet(t))
  BY <1>3, <1>4, <1>5, <1>6, BytesSplit
<1>8. BytesOf(e, ToSet(o)) = BytesOf(e, ToSet(f)) + BytesOf(e, ToSet(t))
  BY <1>5, <1>7
<1>9. \A a, b, c \in Nat : a = b + c => a - b = c
  OBVIOUS
<1>10. BytesOf(e, ToSet(o)) \in Nat
  BY <1>7, <1>8
<1>11. BytesOf(e, ToSet(o)) - BytesOf(e, ToSet(f)) = BytesOf(e, ToSet(t))
  BY <1>7, <1>8, <1>9, <1>10
<1> QED
  BY <1>3, <1>7, <1>11 DEF f, t

\* The keys of a set's cut: those of the back are held, the others are not.
LEMMA SetHolds ==
  ASSUME NEW k \in Key, NEW v, NEW o, NEW e, NEW n, SetCuts(k, v, o, e, n)
  PROVE  /\ Held' = ToSet(order') /\ \A j \in Held' : entry'[j] = e[j]
         /\ Held' = ToSet(o) \ ToSet(SubSeq(o, 1, n))
<1> DEFINE f == ToSet(SubSeq(o, 1, n))
           t == SubSeq(o, n + 1, Len(o))
<1>1. /\ o \in Seq(Key) /\ ToSet(o) = Held \cup {k}
      /\ used' \in [Key -> Nat] /\ Ordered(o, used') /\ n \in 0 .. Len(o)
      /\ \A j \in ToSet(o) : e[j] \in Entry
      /\ \A j \in Key : j # k => e[j] = entry[j]
      /\ order' = t
      /\ entry' = [j \in Key |-> IF j \in f THEN Nothing ELSE e[j]]
  BY DEF SetCuts
<1>2. ToSet(t) = ToSet(o) \ f
  <2>1. o \in Seq(Key) /\ Ordered(o, used')
    BY <1>1
  <2>2. used' \in [Key -> Nat] /\ n \in 0 .. Len(o)
    BY <1>1
  <2> QED
    BY <2>1, <2>2, CutKeys
<1> HIDE DEF f, t
<1>3. \A j \in Key : entry'[j] = IF j \in f THEN Nothing ELSE e[j]
  BY <1>1
<1>4. \A j \in ToSet(o) : e[j] # Nothing /\ j \in Key
  BY <1>1, NothingAssumption DEF Held
<1>5. \A j \in Key : j \notin ToSet(o) => e[j] = Nothing
  BY <1>1 DEF Held
<1>6. Held' = ToSet(o) \ f
  BY <1>3, <1>4, <1>5 DEF Held
<1>7. \A j \in Held' : entry'[j] = e[j]
  BY <1>3, <1>4, <1>6
<1> QED
  BY <1>1, <1>2, <1>6, <1>7 DEF f

LEMMA SetKeeps ==
  ASSUME NEW k \in Key, NEW v \in Value, CacheInv, Set(k, v)
  PROVE  CacheInv'
<1>1. PICK o, e, n : SetCuts(k, v, o, e, n)
  BY SetSteps
<1> DEFINE t == SubSeq(o, n + 1, Len(o))
           f == ToSet(SubSeq(o, 1, n))
<1>2. TypeOK /\ ListPart
  BY DEF CacheInv
<1>3. /\ o \in Seq(Key) /\ n \in 0 .. Len(o) /\ order' = t
      /\ used' \in [Key -> Nat] /\ Ordered(o, used')
      /\ \A j \in ToSet(o) : Size[e[j].val] \in Nat
      /\ bytes' = BytesOf(e, ToSet(o)) - BytesOf(e, f)
      /\ ~ Over(o, e, BytesOf(e, ToSet(o)), n)
  BY <1>1 DEF SetCuts
<1>4. Held' = ToSet(order') /\ \A j \in Held' : entry'[j] = e[j]
  BY <1>1, SetHolds
<1>5. t \in Seq(Key) /\ Ordered(t, used')
  BY <1>3, Cut
<1>6. /\ Cardinality(ToSet(t)) = Len(o) - n /\ BytesOf(e, ToSet(t)) \in Nat
      /\ BytesOf(e, ToSet(o)) - BytesOf(e, f) = BytesOf(e, ToSet(t))
  BY <1>3, CutBytes
<1>7. BytesOf(entry', Held') = BytesOf(e, ToSet(t))
  BY <1>3, <1>4, BytesSame
<1>8. Use(k)
  BY DEF Set
<1>9. uses' \in Nat /\ \A j \in Key : used'[j] <= uses'
  BY <1>2, <1>8, UseMoves
<1>10. Len(o) \in Nat
  BY <1>3, LenProperties
<1>11. BytesOf(e, ToSet(t)) <= MaxBytes /\ Len(o) - n <= MaxEntries
  <2>1. CASE n < Len(o)
    <3>1. /\ ~ (Len(o) - n > MaxEntries)
          /\ ~ (BytesOf(e, ToSet(o)) - BytesOf(e, f) > MaxBytes)
      BY <1>3, <2>1 DEF Over
    <3>2. /\ ~ (Len(o) - n > MaxEntries)
          /\ ~ (BytesOf(e, ToSet(t)) > MaxBytes)
      BY <1>6, <3>1
    <3> HIDE DEF t
    <3> QED
      BY <1>3, <1>6, <1>10, <3>2, OptionsAssumption
  <2>2. CASE n = Len(o)
    <3>1. ToSet(t) = {}
      BY <1>5, <1>10, <2>2 DEF ToSet
    <3>2. BytesOf(e, ToSet(t)) = 0
      BY <3>1, BytesNone
    <3> QED
      BY <1>10, <2>2, <3>2, OptionsAssumption
  <2> QED
    BY <1>3, <1>10, <2>1, <2>2
<1> HIDE DEF t, f
<1>12. WithinLimits'
  BY <1>3, <1>4, <1>6, <1>7, <1>11 DEF WithinLimits
<1>13. BytesPart' /\ bytes' \in Nat
  BY <1>3, <1>6, <1>7 DEF BytesPart
<1>14. ListPart'
  BY <1>3, <1>4, <1>5, <1>9 DEF ListPart
<1>15. entry' \in [Key -> Entry \cup {Nothing}]
  BY <1>2, SetEntries DEF EntriesOK, TypeOK
<1>16. call' \in [op : {"new", "get", "set", "delete"}, keys : SUBSET Key,
                  answer : Value \cup {Nothing}]
  BY DEF Set, Called
<1>17. sweeping' \in BOOLEAN /\ now' \in Nat
  BY <1>2 DEF Set, TypeOK
<1>18. TypeOK'
  BY <1>3, <1>5, <1>9, <1>13, <1>15, <1>16, <1>17 DEF TypeOK
<1> QED
  BY <1>12, <1>13, <1>14, <1>18 DEF CacheInv

-----------------------------------------------------------------------------
(* Every step                                                              *)

LEMMA DropTypes ==
  ASSUME NEW K, CacheInv, Drop(K), UNCHANGED uVars
  PROVE  /\ order' \in Seq(Key) /\ entry' \in [Key -> Entry \cup {Nothing}]
         /\ bytes' \in Nat /\ uses' \in Nat /\ used' \in [Key -> Nat]
<1>1. order' \in Seq(Key) /\ bytes' \in Nat
  BY DropKeeps
<1>2. entry' \in [Key -> Entry \cup {Nothing}]
  BY DropEntries DEF CacheInv, TypeOK, EntriesOK
<1>3. uses' \in Nat /\ used' \in [Key -> Nat]
  BY DEF CacheInv, TypeOK, uVars
<1> QED
  BY <1>1, <1>2, <1>3

LEMMA EmptiedKeeps ==
  ASSUME CacheInv, Emptied, sweeping' \in BOOLEAN
  PROVE  CacheInv'
<1>1. /\ order' = << >> /\ entry' = [k \in Key |-> Nothing] /\ bytes' = 0
      /\ now' = now /\ used' = used /\ uses' = uses
  BY DEF Emptied, uVars
<1>2. Held' = {} /\ ToSet(order') = {}
  BY <1>1 DEF Held, ToSet
<1>3. BytesOf(entry', Held') = 0 /\ Cardinality(Held') = 0
  BY <1>2, BytesNone, FS_EmptySet
<1>4. ListPart'
  BY <1>1, <1>2 DEF ListPart, Ordered, CacheInv
<1>5. BytesPart' /\ WithinLimits'
  BY <1>1, <1>3, OptionsAssumption DEF BytesPart, WithinLimits
<1>6. TypeOK'
  BY <1>1 DEF CacheInv, TypeOK, Emptied, Called
<1> QED
  BY <1>4, <1>5, <1>6 DEF CacheInv

LEMMA StaysKeeps ==
  ASSUME CacheInv, UNCHANGED <<order, entry, bytes, uVars>>,
         sweeping' \in BOOLEAN, now' \in Nat,
         call' \in [op : {"new", "get", "set", "delete"}, keys : SUBSET Key,
                    answer : Value \cup {Nothing}]
  PROVE  CacheInv'
<1>1. /\ order' = order /\ entry' = entry /\ bytes' = bytes
      /\ used' = used /\ uses' = uses
  BY DEF uVars
<1>2. Held' = Held
  BY <1>1 DEF Held
<1>3. ListPart' /\ BytesPart' /\ WithinLimits'
  BY <1>1, <1>2 DEF CacheInv, ListPart, BytesPart, WithinLimits
<1>4. TypeOK'
  BY <1>1 DEF CacheInv, TypeOK
<1> QED
  BY <1>3, <1>4 DEF CacheInv

LEMMA CacheSteps == CacheInv /\ [Next]_vars => CacheInv'
<1> SUFFICES ASSUME CacheInv, [Next]_vars PROVE CacheInv'
  OBVIOUS
<1> DEFINE Calls == [op : {"new", "get", "set", "delete"}, keys : SUBSET Key,
                     answer : Value \cup {Nothing}]
<1>1. sweeping \in BOOLEAN /\ now \in Nat /\ call \in Calls
  BY DEF CacheInv, TypeOK
<1>2. ASSUME NEW op \in {"get", "delete"}, NEW K \in SUBSET Key,
             Called(op, K, Nothing)
      PROVE  call' \in Calls
  BY <1>2 DEF Called
<1>3. ASSUME NEW K, Drop(K), UNCHANGED <<sweeping, now, uVars>>,
             call' \in Calls
      PROVE  CacheInv'
  <2>1. UNCHANGED uVars /\ sweeping' = sweeping /\ now' = now
    BY <1>3
  <2>2. ListPart' /\ BytesPart' /\ WithinLimits'
    BY <1>3, <2>1, DropKeeps
  <2>3. /\ order' \in Seq(Key) /\ entry' \in [Key -> Entry \cup {Nothing}]
        /\ bytes' \in Nat /\ uses' \in Nat /\ used' \in [Key -> Nat]
    BY <1>3, <2>1, DropTypes
  <2>4. TypeOK'
    BY <1>1, <1>3, <2>1, <2>3 DEF TypeOK
  <2> QED
    BY <2>2, <2>4 DEF CacheInv
<1> HIDE DEF Calls
<1>4. ASSUME NEW k \in Key, GetMiss(k) PROVE CacheInv'
  <2>1. call' \in Calls
    BY <1>2, <1>4 DEF GetMiss
  <2> QED
    BY <1>1, <1>4, <2>1, StaysKeeps DEF GetMiss, Calls
<1>5. ASSUME NEW k \in Key, GetExpired(k) PROVE CacheInv'
  BY <1>2, <1>3, <1>5 DEF GetExpired
<1>6. ASSUME NEW k \in Key, GetHit(k) PROVE CacheInv'
  BY <1>6, HitKeeps
<1>7. ASSUME NEW k \in Key, NEW v \in Value, Set(k, v) PROVE CacheInv'
  BY <1>7, SetKeeps
<1>8. ASSUME NEW k \in Key, Delete(k) PROVE CacheInv'
  BY <1>2, <1>3, <1>8 DEF Delete
<1>9. ASSUME NEW S \in Session, DeleteByPrefix(S) PROVE CacheInv'
  BY <1>2, <1>3, <1>9, SessionAssumption DEF DeleteByPrefix
<1>10. CASE Clear \/ Destroy
  BY <1>1, <1>10, EmptiedKeeps DEF Clear, Destroy
<1>11. CASE SweepExpired
  BY <1>1, <1>3, <1>11 DEF SweepExpired
<1>12. CASE Tick
  <2>1. now' \in Nat
    BY <1>1, <1>12 DEF Tick
  <2> QED
    BY <1>1, <1>12, <2>1, StaysKeeps DEF Tick, Calls
<1>13. CASE UNCHANGED vars
  BY <1>1, <1>13, StaysKeeps DEF vars, Calls
<1> QED
  BY <1>4, <1>5, <1>6, <1>7, <1>8, <1>9, <1>10, <1>11, <1>12, <1>13 DEF Next

LEMMA CacheInvariant == Spec => []CacheInv
  BY InitCache, CacheSteps, PTL DEF Spec

(* Every variable keeps its type; the byte counter never falls below zero   *)
(* on any path (memory-cache.ts:60-63, 77-85).                              *)
THEOREM CacheTypeCorrect == Spec => []TypeOK
<1>1. CacheInv => TypeOK
  BY DEF CacheInv
<1> QED
  BY <1>1, CacheInvariant, PTL

(* The byte counter is what the entries have, and the Map has the key of    *)
(* each entry once, after every get, set, deletion, sweep and eviction      *)
(* (memory-cache.ts:47-181).                                                *)
THEOREM CountersStayExact == Spec => []CountersExact
<1>1. CacheInv => CountersExact
  <2> SUFFICES ASSUME CacheInv PROVE CountersExact
    OBVIOUS
  <2>1. Len(order) = Cardinality(Held)
    BY HeldFacts DEF CacheInv
  <2> QED
    BY <2>1 DEF CacheInv, ListPart, BytesPart, CountersExact
<1> QED
  BY <1>1, CacheInvariant, PTL

(* No call leaves the cache with more entries or more bytes than its        *)
(* options allow (memory-cache.ts:158-175).                                 *)
THEOREM LimitsHold == Spec => []WithinLimits
<1>1. CacheInv => WithinLimits
  BY DEF CacheInv
<1> QED
  BY <1>1, CacheInvariant, PTL

-----------------------------------------------------------------------------
(* The order of evictions                                                  *)

\* The last key of the list only leaves when the whole list does.
LEMMA LastLeavesLast ==
  ASSUME NEW k \in Key, NEW v, NEW o, NEW e, NEW n, SetCuts(k, v, o, e, n),
         k \in ToSet(SubSeq(o, 1, n))
  PROVE  n = Len(o) /\ Held' = {}
<1>1. /\ o \in Seq(Key) /\ o[Len(o)] = k /\ n \in 0 .. Len(o) /\ Len(o) > 0
      /\ used' \in [Key -> Nat] /\ Ordered(o, used')
  BY DEF SetCuts
<1>2. Len(o) \in Nat
  BY <1>1, LenProperties
<1>3. ToSet(SubSeq(o, 1, n)) = {o[i] : i \in 1 .. n}
  BY <1>1, CutKeys, SMT
<1>4. PICK i \in 1 .. n : o[i] = o[Len(o)]
  BY <1>1, <1>3
<1>5. i \in 1 .. Len(o) /\ Len(o) \in 1 .. Len(o)
  BY <1>1, <1>2
<1>6. i = Len(o)
  BY <1>1, <1>4, <1>5, OrderedOnce
<1>7. n = Len(o)
  BY <1>1, <1>2, <1>6
<1>8. DOMAIN o = 1 .. Len(o)
  BY <1>1, LenProperties
<1>9. ToSet(SubSeq(o, 1, n)) = ToSet(o)
  BY <1>3, <1>7, <1>8 DEF ToSet
<1>10. Held' = ToSet(o) \ ToSet(SubSeq(o, 1, n))
  BY SetHolds
<1> QED
  BY <1>7, <1>9, <1>10

\* A set evicts from the front, the least recently used first.
LEMMA SetEvictsOldest ==
  ASSUME NEW k \in Key, NEW v \in Value, CacheInv, Set(k, v),
         NEW x \in Held, NEW j \in Key,
         entry'[x] = Nothing, entry'[j] # Nothing
  PROVE  used[x] < used'[j]
<1>1. PICK o, e, n : SetCuts(k, v, o, e, n)
  BY SetSteps
<1> DEFINE f == SubSeq(o, 1, n)
           t == SubSeq(o, n + 1, Len(o))
<1>2. /\ o \in Seq(Key) /\ n \in 0 .. Len(o) /\ ToSet(o) = Held \cup {k}
      /\ used' \in [Key -> Nat] /\ Ordered(o, used')
      /\ \A i \in Key : i # k => used'[i] = used[i]
      /\ order' = t
      /\ \A i \in ToSet(o) : e[i] \in Entry
      /\ entry' = [i \in Key |-> IF i \in ToSet(f) THEN Nothing ELSE e[i]]
  BY <1>1 DEF SetCuts
<1>3. Len(o) \in Nat
  BY <1>2, LenProperties
<1>4. ToSet(f) = {o[i] : i \in 1 .. n}
  BY <1>2, CutKeys, Zenon
<1>5. ToSet(t) = {o[i] : i \in n + 1 .. Len(o)}
  BY <1>2, CutKeys, Zenon
<1> HIDE DEF f, t
<1>6. x \in Key /\ x \in ToSet(o)
  BY <1>2 DEF Held
<1>7. x \in ToSet(f)
  BY <1>2, <1>6, NothingAssumption
<1>8. j \in Held' /\ Held' = ToSet(order')
  BY <1>1, SetHolds DEF Held
<1>9. x # k
  BY <1>1, <1>7, <1>8, LastLeavesLast DEF f
<1>10. PICK i \in 1 .. n : x = o[i]
  BY <1>4, <1>7
<1>11. PICK l \in n + 1 .. Len(o) : j = o[l]
  BY <1>2, <1>5, <1>8
<1>12. i \in 1 .. Len(o) /\ l \in 1 .. Len(o) /\ i < l
  BY <1>2, <1>3
<1>13. used'[x] < used'[j]
  BY <1>2, <1>10, <1>11, <1>12 DEF Ordered
<1> QED
  BY <1>2, <1>6, <1>9, <1>13

\* A set that can fit its value keeps it.
LEMMA SetKeepsItsOwn ==
  ASSUME NEW k \in Key, NEW v \in Value, CacheInv, Set(k, v),
         Size[v] <= MaxBytes, MaxEntries > 0
  PROVE  entry'[k] # Nothing
<1>1. PICK o, e, n : SetCuts(k, v, o, e, n)
  BY SetSteps
<1> DEFINE m == Len(o) - 1
           b == BytesOf(e, ToSet(o))
           t == SubSeq(o, m + 1, Len(o))
<1>2. /\ o \in Seq(Key) /\ n \in 0 .. Len(o) /\ ToSet(o) = Held \cup {k}
      /\ Len(o) > 0 /\ o[Len(o)] = k
      /\ used' \in [Key -> Nat] /\ Ordered(o, used')
      /\ e[k].val = v
      /\ \A i \in ToSet(o) : e[i] \in Entry /\ Size[e[i].val] \in Nat
      /\ entry' = [i \in Key |->
                     IF i \in ToSet(SubSeq(o, 1, n)) THEN Nothing ELSE e[i]]
      /\ \A i \in 0 .. n - 1 : Over(o, e, b, i)
  BY <1>1 DEF SetCuts
<1>3. Len(o) \in Nat /\ m \in 0 .. Len(o) /\ m + 1 = Len(o)
  BY <1>2, LenProperties
<1> SUFFICES ASSUME k \in ToSet(SubSeq(o, 1, n)) PROVE FALSE
  BY <1>2, NothingAssumption
<1>4. n = Len(o)
  BY <1>1, LastLeavesLast
<1>5. m \in 0 .. n - 1
  BY <1>3, <1>4
<1>6. Over(o, e, b, m)
  BY <1>2, <1>5
<1>7. ToSet(t) = {o[i] : i \in m + 1 .. Len(o)}
  <2>1. o \in Seq(Key) /\ Ordered(o, used')
    BY <1>2
  <2>2. used' \in [Key -> Nat] /\ m \in 0 .. Len(o)
    BY <1>2, <1>3
  <2> QED
    BY <2>1, <2>2, CutKeys
<1>8. ToSet(t) = {k}
  BY <1>2, <1>3, <1>7
<1>9. b - BytesOf(e, ToSet(SubSeq(o, 1, m))) = BytesOf(e, ToSet(t))
  BY <1>2, <1>3, CutBytes, Zenon
<1>10. BytesOf(e, {k}) = Size[v]
  BY <1>2, SizeAssumption, BytesOne
<1>11. Len(o) - m = 1
  BY <1>3
<1>12. 1 > MaxEntries \/ Size[v] > MaxBytes
  BY <1>6, <1>8, <1>9, <1>10, <1>11 DEF Over
<1>13. Size[v] \in Nat
  BY SizeAssumption
<1> QED
  BY <1>12, <1>13, OptionsAssumption

(* Least recently used: a set evicts no key that was read or written later  *)
(* than one it keeps, and what it has just stored only when that is bigger  *)
(* than the whole cache (memory-cache.ts:22-24, 66-85, 158-175).            *)
THEOREM EvictionsAreLeastRecentlyUsed == Spec => EvictsLeastRecentlyUsed
<1>1. ASSUME CacheInv, [Next]_vars, call'.op = "set", uses' # uses
      PROVE  /\ \A k \in Held, j \in Key :
                  entry'[k] = Nothing /\ entry'[j] # Nothing
                    => used[k] < used'[j]
             /\ Size[call'.answer] <= MaxBytes /\ MaxEntries > 0 =>
                  \A k \in call'.keys : entry'[k] # Nothing
  <2>1. PICK k \in Key, v \in Value : Set(k, v)
    <3>1. ~ UNCHANGED uses
      BY <1>1
    <3>2. \A k \in Key : ~ GetHit(k)
      BY <1>1 DEF GetHit, Called
    <3> QED
      BY <1>1, <3>1, <3>2
         DEF Next, vars, uVars, GetMiss, GetExpired, Delete, DeleteByPrefix,
             Clear, Destroy, Emptied, SweepExpired, Tick
  <2>2. call'.keys = {k} /\ call'.answer = v
    BY <2>1 DEF Set, Called
  <2>3. \A x \in Held, j \in Key :
          entry'[x] = Nothing /\ entry'[j] # Nothing => used[x] < used'[j]
    BY <1>1, <2>1, SetEvictsOldest
  <2>4. Size[v] <= MaxBytes /\ MaxEntries > 0 => entry'[k] # Nothing
    BY <1>1, <2>1, SetKeepsItsOwn
  <2> QED
    BY <2>2, <2>3, <2>4
<1>2. CacheInv /\ [Next]_vars =>
        [call'.op = "set" /\ uses' # uses =>
           /\ \A k \in Held, j \in Key :
                entry'[k] = Nothing /\ entry'[j] # Nothing
                  => used[k] < used'[j]
           /\ Size[call'.answer] <= MaxBytes /\ MaxEntries > 0 =>
                \A k \in call'.keys : entry'[k] # Nothing]_vars
  BY <1>1
<1> QED
  BY <1>2, CacheInvariant, PTL DEF Spec, EvictsLeastRecentlyUsed
=============================================================================
