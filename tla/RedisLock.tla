------------------------------ MODULE RedisLock ------------------------------
(***************************************************************************)
(* RedisDistributedLock (src/src/lock/redis-lock.ts) with its times: the   *)
(* lock of one session, as the calls of withLock in all processes use it.  *)
(* Redis and the processes share one clock, and Redis drops the lock TTL   *)
(* after it was set; nothing renews it.  HybridAuthState abstracts from    *)
(* the times: there a lock may expire at any moment.                       *)
(***************************************************************************)
EXTENDS Naturals

CONSTANTS
  Client,      \* slots for the calls of withLock, of all processes
  Nobody,      \* the key of the lock does not exist
  TTL,         \* PX of the SET, 10 s
  MaxWait,     \* maxWaitMs, 10 s
  MaxSection,  \* no callback of withLock is over later than this after the SET
  MaxDelay,    \* no answer that a SET is refused takes longer than this
  Faults,      \* a subset of {"redis", "crash"}
  MaxNow       \* bound of the instances checked by TLC

ASSUME NobodyAssumption == Nobody \notin Client
ASSUME TimesAssumption == /\ TTL \in Nat /\ MaxWait \in Nat
                          /\ MaxSection \in Nat /\ MaxDelay \in Nat
ASSUME FaultsAssumption == Faults \subseteq {"redis", "crash"}
ASSUME MaxNowAssumption == MaxNow \in Nat

VARIABLES
  owner,    \* the token under the lock's key: the client that set it
  since,    \* when it was set
  pc,       \* pc[c]: "idle", "waiting", "refused" until it has the answer,
            \* "inside", "releasing", or how it threw
  start,    \* start[c]: when withLock was called; the deadline is MaxWait later
  asked,    \* asked[c]: when Redis executed the last SET of c
  now

vars == <<owner, since, pc, start, asked, now>>

Init ==
  /\ owner = Nobody
  /\ since = 0
  /\ pc = [c \in Client |-> "idle"]
  /\ start = [c \in Client |-> 0]
  /\ asked = [c \in Client |-> 0]
  /\ now = 0

\* Redis keeps the key through the millisecond in which its time is up.
Taken == owner # Nobody /\ now <= since + TTL

-----------------------------------------------------------------------------
\* withLock computes its deadline and sends the first SET.
Start(c) ==
  /\ pc[c] = "idle"
  /\ pc' = [pc EXCEPT ![c] = "waiting"]
  /\ start' = [start EXCEPT ![c] = now]
  /\ UNCHANGED <<owner, since, asked, now>>

\* Mutants: SET without NX; the key's time is taken from its expiry.
SetAlways(c) == pc[c] = "waiting" /\ owner' = c /\ since' = now
SetBackdated(c) == pc[c] = "waiting" /\ ~ Taken /\ owner' = c /\ since' = now - TTL

\* Redis executes SET NX PX, and the key was free.
Set(c) ==
  /\ pc[c] = "waiting"
  /\ ~ Taken
  /\ owner' = c
  /\ since' = now

\* The callback starts; the time its answer takes counts as the section's.
Enter(c) ==
  /\ Set(c)
  /\ pc' = [pc EXCEPT ![c] = "inside"]
  /\ asked' = [asked EXCEPT ![c] = now]
  /\ UNCHANGED <<start, now>>

(* The SET, whether executed or not, is answered by an error.  withLock     *)
(* throws; it has not reached the try that releases the lock.               *)
SetFails(c) ==
  /\ "redis" \in Faults
  /\ Set(c) \/ (pc[c] = "waiting" /\ UNCHANGED <<owner, since>>)
  /\ pc' = [pc EXCEPT ![c] = "threw"]
  /\ UNCHANGED <<start, asked, now>>

\* Redis executes the SET NX, and the key is taken.
Refuse(c) ==
  /\ pc[c] = "waiting"
  /\ Taken
  /\ pc' = [pc EXCEPT ![c] = "refused"]
  /\ asked' = [asked EXCEPT ![c] = now]
  /\ UNCHANGED <<owner, since, start, now>>

\* The answer arrives before the deadline: sleep, and try again.
Retry(c) ==
  /\ pc[c] = "refused"
  /\ now < start[c] + MaxWait
  /\ pc' = [pc EXCEPT ![c] = "waiting"]
  /\ asked' = [asked EXCEPT ![c] = 0]
  /\ UNCHANGED <<owner, since, start, now>>

\* Mutant: the deadline is one tick early.
TimeOutEarly(c) ==
  /\ pc[c] = "refused"
  /\ now + 1 >= start[c] + MaxWait
  /\ pc' = [pc EXCEPT ![c] = "timeout"]
  /\ UNCHANGED <<owner, since, start, asked, now>>

\* The answer arrives when the deadline has passed: withLock throws.
TimeOut(c) ==
  /\ pc[c] = "refused"
  /\ now >= start[c] + MaxWait
  /\ pc' = [pc EXCEPT ![c] = "timeout"]
  /\ UNCHANGED <<owner, since, start, asked, now>>

\* Mutant: fn() is returned without await, and finally does not wait for it.
LeaveReleasing(c) ==
  /\ pc[c] = "inside"
  /\ owner' = IF Taken /\ owner = c THEN Nobody ELSE owner
  /\ UNCHANGED <<since, pc, start, asked, now>>

\* The callback settled; finally sends the release script.
Leave(c) ==
  /\ pc[c] = "inside"
  /\ pc' = [pc EXCEPT ![c] = "releasing"]
  /\ UNCHANGED <<owner, since, start, asked, now>>

\* Mutant: DEL without the comparison.
DeleteAnyones(c) == owner' = Nobody

\* GET, compare and DEL in one script.
Delete(c) == owner' = IF Taken /\ owner = c THEN Nobody ELSE owner

\* Redis executes the script, or the call fails, which is swallowed.
Release(c) ==
  /\ pc[c] = "releasing"
  /\ Delete(c) \/ ("redis" \in Faults /\ UNCHANGED owner)
  /\ pc' = [pc EXCEPT ![c] = "idle"]
  /\ UNCHANGED <<since, start, asked, now>>

\* The caller has seen the error.
Threw(c) ==
  /\ pc[c] \in {"threw", "timeout"}
  /\ pc' = [pc EXCEPT ![c] = "idle"]
  /\ UNCHANGED <<owner, since, start, asked, now>>

\* The process dies; Redis knows nothing of it.
Crash(c) ==
  /\ "crash" \in Faults
  /\ pc[c] # "idle"
  /\ pc' = [pc EXCEPT ![c] = "idle"]
  /\ UNCHANGED <<owner, since, start, asked, now>>

\* Time passes, but not beyond the longest time a section or an answer takes.
Tick ==
  /\ now < MaxNow
  /\ \A c \in Client : /\ pc[c] = "inside" => now < asked[c] + MaxSection
                       /\ pc[c] = "refused" => now < asked[c] + MaxDelay
  /\ now' = now + 1
  /\ UNCHANGED <<owner, since, pc, start, asked>>

Next == \/ \E c \in Client :
             \/ Start(c) \/ Enter(c) \/ SetFails(c)
             \/ Refuse(c) \/ Retry(c) \/ TimeOut(c)
             \/ Leave(c) \/ Release(c) \/ Threw(c) \/ Crash(c)
        \/ Tick

Spec == Init /\ [][Next]_vars

-----------------------------------------------------------------------------
(* Properties *)

\* Every variable holds what the code can put there.
TypeOK ==
  /\ owner \in Client \cup {Nobody}
  /\ since \in Nat /\ now \in Nat
  /\ pc \in [Client -> {"idle", "waiting", "refused", "inside", "releasing",
                        "threw", "timeout"}]
  /\ start \in [Client -> Nat] /\ asked \in [Client -> Nat]

(* Two processes writing the same session do not race (factory.ts:46-47)    *)
(* while their sections are within the TTL of the lock: two callbacks are   *)
(* at once only if one of them has outlived its lease.                      *)
WithinLease(c) == pc[c] = "inside" /\ now <= asked[c] + TTL
LeaseExcludes ==
  \A c, d \in Client : WithinLease(c) /\ WithinLease(d) => c = d

(* A section whose lock has expired does not take the lock away from the    *)
(* next owner (redis-lock.ts:8-10), however late it releases: an owner that *)
(* is inside and within its lease stays the owner.                          *)
NeverReleasesAnother ==
  [][\A c \in Client :
       pc[c] = "inside" /\ owner = c /\ Taken /\ pc'[c] = "inside"
         => owner' = c \/ now' > since + TTL]_vars

(* A lock that its owner will never release (a crash, a failed release, a   *)
(* lost answer to SET) keeps nobody waiting beyond its TTL: a call that     *)
(* gives up after maxWaitMs has met a lock set no longer ago than the TTL   *)
(* and the time of one answer.  Both default to 10 s (redis-lock.ts:19-21): *)
(* that is a lock set after the call itself, or at most the time of one     *)
(* answer before it.  In that last case nobody need have overtaken the      *)
(* call: it may time out over the lock of a process that is dead.           *)
OnlyRecentLockTimesOut ==
  [][\A c \in Client : pc[c] = "refused" /\ pc'[c] = "timeout"
       => start[c] + MaxWait <= since + TTL + MaxDelay]_vars

(* withLock is a lock (redis-lock.ts:21-30): whatever commands fail, calls  *)
(* die and keys expire in Redis, every step is one of SessionLock.  Who has *)
(* the lock is who set the key that exists, and the sections that count are *)
(* those within their leases.                                               *)
Lock == INSTANCE SessionLock
          WITH holder <- IF Taken THEN owner ELSE Nobody,
               inside <- {c \in Client : WithinLease(c)}
ImplementsSessionLock == Lock!Spec
=============================================================================
