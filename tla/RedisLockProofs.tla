--------------------------- MODULE RedisLockProofs ---------------------------
(* RedisLock for any number of calls, any times and any faults.  The lock is *)
(* safe while a section is within its lease, and so it is safe altogether if *)
(* no section takes longer than the TTL.                                     *)
EXTENDS RedisLock, TLAPS

\* Every variable of the lock keeps its type.
LEMMA TypeStep == TypeOK /\ [Next]_vars => TypeOK'
PROOF
  <1>. SUFFICES ASSUME TypeOK, [Next]_vars PROVE TypeOK'
    OBVIOUS
  <1>. USE TimesAssumption DEF TypeOK
  <1>1. ASSUME NEW c \in Client, Start(c) PROVE TypeOK'
    BY <1>1 DEF Start
  <1>2. ASSUME NEW c \in Client, Enter(c) PROVE TypeOK'
    BY <1>2 DEF Enter, Set
  <1>3. ASSUME NEW c \in Client, SetFails(c) PROVE TypeOK'
    BY <1>3 DEF SetFails, Set
  <1>4. ASSUME NEW c \in Client, Refuse(c) \/ Retry(c) \/ TimeOut(c)
        PROVE  TypeOK'
    BY <1>4 DEF Refuse, Retry, TimeOut
  <1>5. ASSUME NEW c \in Client, Leave(c) PROVE TypeOK'
    BY <1>5 DEF Leave
  <1>6. ASSUME NEW c \in Client, Release(c) PROVE TypeOK'
    BY <1>6 DEF Release, Delete
  <1>7. ASSUME NEW c \in Client, Threw(c) \/ Crash(c) PROVE TypeOK'
    BY <1>7 DEF Threw, Crash
  <1>8. CASE Tick
    BY <1>8 DEF Tick
  <1>9. CASE UNCHANGED vars
    BY <1>9 DEF vars
  <1>. QED
    BY <1>1, <1>2, <1>3, <1>4, <1>5, <1>6, <1>7, <1>8, <1>9 DEF Next

\* The calls of withLock, the key in Redis and the clock keep their types.
THEOREM LockTypeCorrect == Spec => []TypeOK
PROOF
  <1>1. Init => TypeOK
    BY DEF Init, TypeOK
  <1>. QED
    BY <1>1, TypeStep, PTL DEF Spec

-----------------------------------------------------------------------------
\* A section within its lease still owns the key that it set when it asked.
LeaseInv == \A c \in Client : WithinLease(c) => owner = c /\ since = asked[c]

\* A key that a section holds within its lease is taken.
LEMMA LeaseTaken ==
  ASSUME TypeOK, LeaseInv, NEW c \in Client, WithinLease(c)
  PROVE  Taken /\ owner = c
BY NobodyAssumption DEF LeaseInv, Taken, WithinLease

\* No step takes the key away from a section within its lease.
LEMMA LeaseStep == TypeOK /\ LeaseInv /\ [Next]_vars => LeaseInv'
PROOF
  <1>. SUFFICES ASSUME TypeOK, LeaseInv, [Next]_vars PROVE LeaseInv'
    OBVIOUS
  <1>1. ASSUME NEW c \in Client, Enter(c) PROVE LeaseInv'
    <2>1. \A d \in Client : ~ WithinLease(d)
      BY <1>1, LeaseTaken DEF Enter, Set
    <2>2. ASSUME NEW d \in Client, d # c PROVE ~ WithinLease(d)'
      BY <1>1, <2>1, <2>2 DEF Enter, WithinLease, TypeOK
    <2>3. owner' = c /\ since' = asked'[c]
      BY <1>1 DEF Enter, Set, TypeOK
    <2>. QED
      BY <2>2, <2>3 DEF LeaseInv
  <1>2. ASSUME NEW c \in Client, SetFails(c) PROVE LeaseInv'
    <2>1. \A d \in Client : WithinLease(d)' => WithinLease(d)
      BY <1>2 DEF SetFails, WithinLease, TypeOK
    <2>2. CASE Set(c)
      BY <2>1, <2>2, LeaseTaken DEF Set, LeaseInv
    <2>3. CASE UNCHANGED <<owner, since>>
      BY <1>2, <2>1, <2>3 DEF SetFails, LeaseInv
    <2>. QED
      BY <1>2, <2>2, <2>3 DEF SetFails
  <1>3. ASSUME NEW c \in Client, Release(c) PROVE LeaseInv'
    <2>1. \A d \in Client : WithinLease(d)' => d # c /\ WithinLease(d)
      BY <1>3 DEF Release, WithinLease, TypeOK
    <2>2. owner # c => owner' = owner
      BY <1>3 DEF Release, Delete
    <2>. QED
      BY <1>3, <2>1, <2>2 DEF Release, LeaseInv
  <1>4. ASSUME NEW c \in Client,
               \/ Start(c) \/ Refuse(c) \/ Retry(c) \/ TimeOut(c)
               \/ Leave(c) \/ Threw(c) \/ Crash(c)
        PROVE  LeaseInv'
    <2>1. UNCHANGED <<owner, since, now>>
      BY <1>4 DEF Start, Refuse, Retry, TimeOut, Leave, Threw, Crash
    <2>2. \A d \in Client : pc'[d] = "inside" => /\ pc[d] = "inside"
                                                 /\ asked'[d] = asked[d]
      BY <1>4 DEF Start, Refuse, Retry, TimeOut, Leave, Threw, Crash, TypeOK
    <2>. QED
      BY <2>1, <2>2 DEF LeaseInv, WithinLease
  <1>5. CASE Tick
    <2>1. \A d \in Client : WithinLease(d)' => WithinLease(d)
      BY <1>5, TimesAssumption DEF Tick, WithinLease, TypeOK
    <2>. QED
      BY <1>5, <2>1 DEF Tick, LeaseInv
  <1>6. CASE UNCHANGED vars
    BY <1>6 DEF vars, LeaseInv, WithinLease
  <1>. QED
    BY <1>1, <1>2, <1>3, <1>4, <1>5, <1>6 DEF Next

\* Two sections within their leases are one.
THEOREM LeasesExclude == Spec => []LeaseExcludes
PROOF
  <1>1. Init => LeaseInv
    BY DEF Init, LeaseInv, WithinLease
  <1>2. LeaseInv => LeaseExcludes
    BY DEF LeaseInv, LeaseExcludes
  <1>. QED
    BY <1>1, <1>2, LeaseStep, LockTypeCorrect, PTL DEF Spec

-----------------------------------------------------------------------------
\* What withLock is for: one callback at a time.
OneInside == \A c, d \in Client : pc[c] = "inside" /\ pc[d] = "inside" => c = d

\* No callback takes longer than MaxSection.
SectionBound ==
  \A c \in Client : pc[c] = "inside" => now <= asked[c] + MaxSection

\* Time does not pass a section by.
LEMMA SectionStep == TypeOK /\ SectionBound /\ [Next]_vars => SectionBound'
PROOF
  <1>. SUFFICES ASSUME TypeOK, SectionBound, [Next]_vars PROVE SectionBound'
    OBVIOUS
  <1>1. ASSUME NEW c \in Client, Enter(c) PROVE SectionBound'
    BY <1>1, TimesAssumption DEF Enter, SectionBound, TypeOK
  <1>2. ASSUME NEW c \in Client,
               \/ Start(c) \/ SetFails(c) \/ Refuse(c) \/ Retry(c) \/ TimeOut(c)
               \/ Leave(c) \/ Release(c) \/ Threw(c) \/ Crash(c)
        PROVE  SectionBound'
    <2>1. UNCHANGED now
      BY <1>2 DEF Start, SetFails, Refuse, Retry, TimeOut, Leave, Release,
                  Threw, Crash
    <2>2. \A d \in Client : pc'[d] = "inside" => /\ pc[d] = "inside"
                                                 /\ asked'[d] = asked[d]
      BY <1>2 DEF Start, SetFails, Refuse, Retry, TimeOut, Leave, Release,
                  Threw, Crash, TypeOK
    <2>. QED
      BY <2>1, <2>2 DEF SectionBound
  <1>3. CASE Tick
    BY <1>3, TimesAssumption DEF Tick, SectionBound, TypeOK
  <1>4. CASE UNCHANGED vars
    BY <1>4 DEF vars, SectionBound
  <1>. QED
    BY <1>1, <1>2, <1>3, <1>4 DEF Next

\* With sections no longer than the TTL, withLock is mutual exclusion between
\* the processes (redis-lock.ts:21-30), whichever commands fail and whoever dies.
THEOREM ShortSectionsExclude ==
  ASSUME MaxSection <= TTL
  PROVE  Spec => []OneInside
PROOF
  <1>1. Init => SectionBound
    BY DEF Init, SectionBound
  <1>2. TypeOK /\ SectionBound /\ LeaseExcludes => OneInside
    BY TimesAssumption
    DEF SectionBound, LeaseExcludes, WithinLease, OneInside, TypeOK
  <1>. QED
    BY <1>1, <1>2, SectionStep, LockTypeCorrect, LeasesExclude, PTL DEF Spec

-----------------------------------------------------------------------------
\* A late release spares the next owner: the script compares and deletes.
THEOREM ReleasesOwn == Spec => NeverReleasesAnother
PROOF
  <1> DEFINE Spared == \A c \in Client :
        pc[c] = "inside" /\ owner = c /\ Taken /\ pc'[c] = "inside"
          => owner' = c \/ now' > since + TTL
  <1>1. TypeOK /\ [Next]_vars => Spared
    <2>. SUFFICES ASSUME TypeOK, [Next]_vars, NEW c \in Client,
                         pc[c] = "inside", owner = c, Taken
                  PROVE  owner' = c
      OBVIOUS
    <2>1. ASSUME NEW d \in Client, Enter(d) PROVE owner' = c
      BY <2>1 DEF Enter, Set
    <2>2. ASSUME NEW d \in Client, SetFails(d) PROVE owner' = c
      BY <2>2 DEF SetFails, Set
    <2>3. ASSUME NEW d \in Client, Release(d) PROVE owner' = c
      BY <2>3 DEF Release, Delete
    <2>4. ASSUME NEW d \in Client,
                 \/ Start(d) \/ Refuse(d) \/ Retry(d) \/ TimeOut(d)
                 \/ Leave(d) \/ Threw(d) \/ Crash(d)
          PROVE  owner' = c
      BY <2>4 DEF Start, Refuse, Retry, TimeOut, Leave, Threw, Crash
    <2>5. CASE Tick \/ UNCHANGED vars
      BY <2>5 DEF Tick, vars
    <2>. QED
      BY <2>1, <2>2, <2>3, <2>4, <2>5 DEF Next
  <1>2. [][Spared]_vars <=> NeverReleasesAnother
    BY DEF NeverReleasesAnother
  <1>. QED
    BY <1>1, <1>2, LockTypeCorrect, PTL DEF Spec

-----------------------------------------------------------------------------
(* Who was refused found the key taken, and the key's time has not grown    *)
(* shorter since; its answer is not late.                                   *)
RefusedInv ==
  /\ since <= now
  /\ \A c \in Client : pc[c] = "refused" => /\ asked[c] <= since + TTL
                                            /\ now <= asked[c] + MaxDelay

\* A refusal stays what it was until its answer arrives.
LEMMA RefusedStep == TypeOK /\ RefusedInv /\ [Next]_vars => RefusedInv'
PROOF
  <1>. SUFFICES ASSUME TypeOK, RefusedInv, [Next]_vars PROVE RefusedInv'
    OBVIOUS
  <1>1. ASSUME NEW c \in Client, Refuse(c) PROVE RefusedInv'
    BY <1>1, TimesAssumption DEF Refuse, Taken, RefusedInv, TypeOK
  <1>2. ASSUME NEW c \in Client, Enter(c) \/ SetFails(c) PROVE RefusedInv'
    <2>1. now' = now /\ since' \in {since, now}
      BY <1>2 DEF Enter, SetFails, Set
    <2>2. \A d \in Client : pc'[d] = "refused" => /\ pc[d] = "refused"
                                                  /\ asked'[d] = asked[d]
      BY <1>2 DEF Enter, SetFails, TypeOK
    <2>. QED
      BY <2>1, <2>2, TimesAssumption DEF RefusedInv, TypeOK
  <1>3. ASSUME NEW c \in Client,
               \/ Start(c) \/ Retry(c) \/ TimeOut(c)
               \/ Leave(c) \/ Release(c) \/ Threw(c) \/ Crash(c)
        PROVE  RefusedInv'
    <2>1. UNCHANGED <<since, now>>
      BY <1>3 DEF Start, Retry, TimeOut, Leave, Release, Threw, Crash
    <2>2. \A d \in Client : pc'[d] = "refused" => /\ pc[d] = "refused"
                                                  /\ asked'[d] = asked[d]
      BY <1>3 DEF Start, Retry, TimeOut, Leave, Release, Threw, Crash, TypeOK
    <2>. QED
      BY <2>1, <2>2 DEF RefusedInv
  <1>4. CASE Tick
    BY <1>4, TimesAssumption DEF Tick, RefusedInv, TypeOK
  <1>5. CASE UNCHANGED vars
    BY <1>5 DEF vars, RefusedInv
  <1>. QED
    BY <1>1, <1>2, <1>3, <1>4, <1>5 DEF Next

\* A lock that nobody will release keeps a call waiting no longer than its TTL
\* (withLock's deadline against the PX of its SET, redis-lock.ts:41-56).
THEOREM RecentLockOnly == Spec => OnlyRecentLockTimesOut
PROOF
  <1> DEFINE Recent == \A c \in Client : pc[c] = "refused" /\ pc'[c] = "timeout"
                         => start[c] + MaxWait <= since + TTL + MaxDelay
  <1>1. Init => RefusedInv
    BY DEF Init, RefusedInv
  <1>2. TypeOK /\ RefusedInv /\ [Next]_vars => Recent
    <2>. SUFFICES ASSUME TypeOK, RefusedInv, [Next]_vars,
                         NEW c \in Client, pc[c] = "refused", pc'[c] = "timeout"
                  PROVE  start[c] + MaxWait <= since + TTL + MaxDelay
      OBVIOUS
    <2>1. ASSUME NEW d \in Client,
                 \/ Start(d) \/ Enter(d) \/ SetFails(d) \/ Refuse(d) \/ Retry(d)
                 \/ Leave(d) \/ Release(d) \/ Threw(d) \/ Crash(d)
          PROVE  FALSE
      BY <2>1 DEF Start, Enter, SetFails, Refuse, Retry, Leave, Release, Threw,
                  Crash, TypeOK
    <2>2. ASSUME NEW d \in Client, TimeOut(d) PROVE d = c
      BY <2>2 DEF TimeOut, TypeOK
    <2>3. CASE TimeOut(c)
      BY <2>3, TimesAssumption DEF TimeOut, RefusedInv, TypeOK
    <2>4. CASE Tick \/ UNCHANGED vars
      BY <2>4 DEF Tick, vars
    <2>. QED
      BY <2>1, <2>2, <2>3, <2>4 DEF Next
  <1>3. [][Recent]_vars <=> OnlyRecentLockTimesOut
    BY DEF OnlyRecentLockTimesOut
  <1>. QED
    BY <1>1, <1>2, <1>3, RefusedStep, LockTypeCorrect, PTL DEF Spec
-----------------------------------------------------------------------------
\* Nobody's SET replaces a key that exists, and a script deletes only its own.
LEMMA KeyStays ==
  ASSUME TypeOK, [Next]_vars, Taken, Taken'
  PROVE  owner' = owner
PROOF
  <1>1. ASSUME NEW c \in Client, Enter(c) \/ SetFails(c) PROVE owner' = owner
    BY <1>1 DEF Enter, SetFails, Set
  <1>2. ASSUME NEW c \in Client, Release(c) PROVE owner' = owner
    BY <1>2 DEF Release, Delete, Taken
  <1>3. ASSUME NEW c \in Client,
               \/ Start(c) \/ Refuse(c) \/ Retry(c) \/ TimeOut(c)
               \/ Leave(c) \/ Threw(c) \/ Crash(c)
        PROVE  owner' = owner
    BY <1>3 DEF Start, Refuse, Retry, TimeOut, Leave, Threw, Crash
  <1>4. CASE Tick \/ UNCHANGED vars
    BY <1>4 DEF Tick, vars
  <1>. QED
    BY <1>1, <1>2, <1>3, <1>4 DEF Next

\* A section starts by the SET that finds no key, and lasts from then on.
LEMMA SectionsStart ==
  ASSUME TypeOK, [Next]_vars, NEW d \in Client, WithinLease(d)', ~ WithinLease(d)
  PROVE  ~ Taken /\ Taken'
PROOF
  <1>1. ASSUME NEW c \in Client, Enter(c) PROVE ~ Taken /\ Taken'
    <2>1. ~ Taken /\ owner' = c /\ since' = now /\ now' = now
      BY <1>1 DEF Enter, Set
    <2>2. now' <= since' + TTL
      BY <2>1, TimesAssumption DEF TypeOK
    <2>. QED
      BY <2>1, <2>2, NobodyAssumption DEF Taken
  <1>2. ASSUME NEW c \in Client,
               \/ Start(c) \/ SetFails(c) \/ Refuse(c) \/ Retry(c) \/ TimeOut(c)
               \/ Leave(c) \/ Release(c) \/ Threw(c) \/ Crash(c)
        PROVE  FALSE
    <2>1. UNCHANGED now
      BY <1>2 DEF Start, SetFails, Refuse, Retry, TimeOut, Leave, Release,
                  Threw, Crash
    <2>2. pc'[d] = "inside" => pc[d] = "inside" /\ asked'[d] = asked[d]
      BY <1>2 DEF Start, SetFails, Refuse, Retry, TimeOut, Leave, Release,
                  Threw, Crash, TypeOK
    <2>. QED
      BY <2>1, <2>2 DEF WithinLease
  <1>3. CASE Tick
    BY <1>3, TimesAssumption DEF Tick, WithinLease, TypeOK
  <1>4. CASE UNCHANGED vars
    BY <1>4 DEF vars, WithinLease
  <1>. QED
    BY <1>1, <1>2, <1>3, <1>4 DEF Next

\* withLock gives one section at a time the lock and takes it from none within
\* its lease (redis-lock.ts:21-30): its steps are those of SessionLock.
THEOREM WithLockIsSessionLock == Spec => ImplementsSessionLock
PROOF
  <1> DEFINE holder == IF Taken THEN owner ELSE Nobody
             inside == {c \in Client : WithinLease(c)}
  <1>1. Init => Lock!Init
    BY DEF Init, Lock!Init, Taken, WithinLease
  <1>2. TypeOK /\ LeaseInv /\ LeaseInv' /\ TypeOK' /\ [Next]_vars
          => [Lock!Next]_(Lock!vars)
    <2>. SUFFICES ASSUME TypeOK, LeaseInv, LeaseInv', TypeOK', [Next]_vars
                  PROVE  [Lock!Next]_(Lock!vars)
      OBVIOUS
    <2>1. holder \in Client \cup {Nobody} /\ holder' \in Client \cup {Nobody}
      BY DEF TypeOK
    <2>2. inside \in {{}, {holder}} /\ (holder = Nobody => inside = {})
      BY LeaseTaken DEF Taken
    <2>3. inside' \in {{}, {holder'}} /\ (holder' = Nobody => inside' = {})
      <3>1. ASSUME NEW c \in Client, WithinLease(c)'
            PROVE  Taken' /\ owner' = c
        BY <3>1, NobodyAssumption DEF LeaseInv, Taken, WithinLease
      <3>. QED
        BY <3>1 DEF Taken
    <2>4. holder # Nobody /\ holder' # Nobody => holder' = holder
      BY KeyStays DEF Taken
    <2>5. holder' = holder => inside' \subseteq inside
      BY SectionsStart DEF Taken
    <2>6. holder = Nobody /\ holder' # Nobody =>
            \E c \in Client : /\ holder = Nobody /\ inside = {}
                              /\ holder' = c /\ inside' \in {{}, {c}}
      BY <2>1, <2>2, <2>3
    <2>7. holder # Nobody /\ holder' = Nobody => inside' = {}
      BY <2>3
    <2>8. holder' = holder => inside' = inside \/ (inside # {} /\ inside' = {})
      BY <2>2, <2>3, <2>5
    <2>. HIDE DEF holder, inside
    <2>9. \/ \E c \in Client : /\ holder = Nobody /\ inside = {}
                               /\ holder' = c /\ inside' \in {{}, {c}}
          \/ inside # {} /\ inside' = {} /\ UNCHANGED holder
          \/ holder # Nobody /\ holder' = Nobody /\ inside' = {}
          \/ UNCHANGED <<holder, inside>>
      BY <2>4, <2>6, <2>7, <2>8
    <2>. USE DEF holder, inside
    <2>. QED
      BY <2>9 DEF Lock!Next, Lock!Grant, Lock!Finish, Lock!Free, Lock!vars
  <1>3. Init => LeaseInv
    BY DEF Init, LeaseInv, WithinLease
  <1>. QED
    BY <1>1, <1>2, <1>3, LeaseStep, LockTypeCorrect, PTL
    DEF Spec, ImplementsSessionLock, Lock!Spec
=============================================================================
