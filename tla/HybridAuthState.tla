-------------------------- MODULE HybridAuthState --------------------------
(***************************************************************************)
(* One WhatsApp session shared by several server processes, each of which  *)
(* called useHybridAuthState (src/src/factory.ts) on the same database.    *)
(*                                                                         *)
(* A process ("instance") answers reads through CacheManager: its own      *)
(* memory cache (L1), then Redis (L2), then the database.  Writes are      *)
(* keys.set calls.  Each makes up to two sections, one for the entries     *)
(* and one for the deletions, and runs each of them under the session's    *)
(* lock: write the database, then the caches, then tell the other          *)
(* processes.  A flush of the write batcher (saveCreds) is a call with     *)
(* entries and no deletions.                                               *)
(*                                                                         *)
(* A step is what one process does between two awaits, or what a server    *)
(* does with one request; an answer on its way back to its process is a    *)
(* program counter of its own, so that others can move in between.         *)
(***************************************************************************)
EXTENDS Naturals, Sequences

CONSTANTS
  Instance,        \* server processes
  Key,             \* keys of the session
  Reader, Writer,  \* slots for the reads and the keys.set calls in flight
  NoWriter,        \* nobody holds the lock
  Mode,            \* "none", "http" or "tcp": which Redis, if any, is the L2
  Faults,          \* what may go wrong, a subset of FaultKinds
  AtomicBatch,     \* a setMany that fails applied all of its rows or none
  CountsVersions,  \* the adapter adds 1 to the version of a row it updates
  MaxWrites, MaxClock, MaxCrashes   \* bounds of the instances checked by TLC

\* Commands to L2 that fail, subscriptions included; those that publish; those
\* of the lock; entries that Redis evicts; requests to the database; processes.
FaultKinds == {"l2", "publish", "lock", "evict", "db", "crash"}

ASSUME ModeAssumption == Mode \in {"none", "http", "tcp"}
ASSUME FaultsAssumption == Faults \subseteq FaultKinds
ASSUME SlotsAssumption == /\ Instance # {} /\ Key # {}
                          /\ Reader \cap Writer = {} /\ NoWriter \notin Writer
ASSUME FlagsAssumption == AtomicBatch \in BOOLEAN /\ CountsVersions \in BOOLEAN
ASSUME BoundsAssumption == /\ MaxWrites \in Nat
                           /\ MaxClock \in Nat
                           /\ MaxCrashes \in Nat

VARIABLES
  db,       \* db[k]: the row of k in the database
  stored,   \* stored[k]: the values k ever had there (history)
  l1,       \* l1[i][k]: the entry of k in the memory cache of i
  l2,       \* l2[k]: the entry of k in Redis
  sub,      \* sub[i]: the invalidation subscription of i
  wire,     \* wire[i]: who has sent updates of L2 from i, in order (tcp)
  inbox,    \* inbox[i]: invalidations on their way to i
  lock,     \* lock[s]: the call that holds the lock of scope s
  queue,    \* queue[s]: the calls waiting for a local mutex, in order
  lease,    \* lease[w]: whether the section of w has the lock to itself (history)
  call,     \* call[w]: instance, keys and value of the keys.set call in slot w
  phase,    \* phase[w]: "set" in the section for the entries, "del" after it
  wpc,      \* wpc[w]: where the call stands
  fan,      \* fan[w][k]: where onWritten / onDeleted stands for key k
  rd,       \* rd[r]: instance, key and L1 version seen of the read in slot r
  rpc,      \* rpc[r]: where the read stands
  got,      \* got[r]: the entry a server answered with
  clock,    \* Date.now()
  writes,   \* the number of keys.set calls made: the value of the last one
  crashes   \* the number of crashes so far

dbVars == <<db, stored>>
storeVars == <<dbVars, l1, l2>>
busVars   == <<wire, sub, inbox>>
lockVars  == <<lock, queue, lease>>
writerVars == <<call, phase, wpc, fan>>
readerVars == <<rd, rpc, got>>
boundVars == <<clock, writes, crashes>>
vars == <<storeVars, busVars, lockVars, writerVars, readerVars, boundVars>>

-----------------------------------------------------------------------------
(* Data.  The value of a row or an entry is the number of the keys.set call *)
(* that wrote it, 0 when there is none.                                     *)

\* A version is a row's counter, or the Date.now() of an onWritten.
Version == {"row", "ms"} \X Nat

(* ok is not in the code: it is FALSE for an entry that was already stale   *)
(* when it was put there, by a read or by a section beside which another    *)
(* was going on, and for one that a swallowed failure or a crash left       *)
(* behind.  The coherence properties speak of the others.                   *)
Entry == [val : Nat, ver : Version, ok : BOOLEAN]
Row == [val : Nat, n : Nat]
NoEntry == [val |-> 0, ver |-> <<"row", 0>>, ok |-> TRUE]
NoRow == [val |-> 0, n |-> 0]

Call == [inst : Instance, sets : SUBSET Key, dels : SUBSET Key, val : Nat,
         at : Nat]
NoCall == [inst |-> CHOOSE i \in Instance : TRUE,
           sets |-> {}, dels |-> {}, val |-> 0, at |-> 0]
Read == [inst : Instance, key : Key, seen : Version]
NoRead == [inst |-> NoCall.inst, key |-> CHOOSE k \in Key : TRUE,
           seen |-> NoEntry.ver]

\* Mutant: the version of the row as it was before the upsert.
RowEntryBeforeUpsert(row) ==
  [val |-> row.val, ver |-> <<"row", row.n - 1>>, ok |-> TRUE]

\* A version as far as it matters: reads compare them in http mode alone.
Compared(ver) == IF Mode = "http" THEN ver ELSE NoEntry.ver

\* A row as the database's answer carries it.
RowEntry(row) ==
  [val |-> row.val, ver |-> Compared(<<"row", row.n>>), ok |-> TRUE]

Present(e) == e.val # 0
Current(k, e) == e.val = db[k].val

\* An upsert by an adapter that counts, or by Firestore's, that does not.
Upsert(row, v) ==
  [val |-> v, n |-> IF CountsVersions THEN row.n + 1 ELSE 1]

\* What a cache holds once an update of the keys of K has been missed.
Missed(c, K) ==
  [k \in Key |-> IF k \in K /\ Present(c[k]) THEN [c[k] EXCEPT !.ok = FALSE]
                                             ELSE c[k]]

\* Mutant: a mutex in every process, whatever the mode.
OwnMutex(i) == i

\* The lock of a process is its own mutex, or the one Redis keeps for all.
Scope(i) == IF Mode = "tcp" THEN "redis" ELSE i
Scopes == {Scope(i) : i \in Instance}

Inst(w) == call[w].inst
Batch(w) == IF phase[w] = "set" THEN call[w].sets ELSE call[w].dels
InSection(w) == wpc[w] \in {"db", "landed", "cache", "failed"}

(* The lease of a section in Redis is "lapsed" once its key has expired, and *)
(* "shared" when the section began beside one that had outlived its own.     *)
Leases == {"sole", "shared", "lapsed"}
Protected(w) == InSection(w) /\ lease[w] # "lapsed"
Done == [k \in Key |-> "done"]

\* The rows w has written and of which L2, or the other processes, have still
\* to hear from it.
OwedToL2(w) == {k \in Batch(w) : wpc[w] = "landed" \/ fan[w][k] = "l2"}
Owed(w) == {k \in Batch(w) : wpc[w] = "landed" \/ fan[w][k] # "done"}

(* An instance has one TCP connection to Redis, which executes what is sent *)
(* on it in order; requests over HTTP are on their own.                     *)
Send(i, c) ==
  wire' = IF Mode = "tcp" THEN [wire EXCEPT ![i] = Append(@, c)] ELSE wire
FirstOn(i, c) == Mode = "tcp" => wire[i] # << >> /\ Head(wire[i]) = c
Executed(i) ==
  wire' = IF Mode = "tcp" THEN [wire EXCEPT ![i] = Tail(@)] ELSE wire

Init ==
  /\ db = [k \in Key |-> NoRow]
  /\ stored = [k \in Key |-> {}]
  /\ l1 = [i \in Instance |-> [k \in Key |-> NoEntry]]
  /\ l2 = [k \in Key |-> NoEntry]
  /\ wire = [i \in Instance |-> << >>]
  /\ sub = [i \in Instance |-> "pending"]
  /\ inbox = [i \in Instance |-> << >>]
  /\ lock = [s \in Scopes |-> NoWriter]
  /\ queue = [s \in Scopes |-> << >>]
  /\ lease = [w \in Writer |-> "sole"]
  /\ call = [w \in Writer |-> NoCall]
  /\ phase = [w \in Writer |-> "set"]
  /\ wpc = [w \in Writer |-> "idle"]
  /\ fan = [w \in Writer |-> Done]
  /\ rd = [r \in Reader |-> NoRead]
  /\ rpc = [r \in Reader |-> "idle"]
  /\ got = [r \in Reader |-> NoEntry]
  /\ clock = 0
  /\ writes = 0
  /\ crashes = 0

-----------------------------------------------------------------------------
(* keys.set                                                                *)

\* Mutant: the last to come is the first to be served.
EnqueueInFront(w, i) ==
  queue' = IF Mode = "tcp" THEN queue
                           ELSE [queue EXCEPT ![i] = << w >> \o @]

\* Call withLock: join the mutex's queue, or start polling Redis.
Enqueue(w, i) ==
  queue' = IF Mode = "tcp" THEN queue
                           ELSE [queue EXCEPT ![i] = Append(@, w)]

\* keys.set(data): S are the ids with a value, D those to delete.
StartWrite(w, i, S, D) ==
  /\ wpc[w] = "idle"
  /\ writes < MaxWrites
  /\ S \cup D # {} /\ S \cap D = {}
  /\ writes' = writes + 1
  /\ call' = [call EXCEPT ![w] =
                [inst |-> i, sets |-> S, dels |-> D, val |-> writes', at |-> 0]]
  /\ phase' = [phase EXCEPT ![w] = IF S # {} THEN "set" ELSE "del"]
  /\ wpc' = [wpc EXCEPT ![w] = "wait"]
  /\ Enqueue(w, i)
  /\ UNCHANGED <<storeVars, busVars, lock, lease, fan, readerVars, clock,
                 crashes>>

\* The lock is granted, and the batch is sent to the database.
Acquire(w) ==
  LET s == Scope(Inst(w)) IN
  /\ wpc[w] = "wait"
  /\ lock[s] = NoWriter
  /\ \/ Mode = "tcp" /\ UNCHANGED queue
     \/ /\ Mode # "tcp"
        /\ queue[s] # << >> /\ Head(queue[s]) = w
        /\ queue' = [queue EXCEPT ![s] = Tail(@)]
  /\ lock' = [lock EXCEPT ![s] = w]
  /\ lease' = [lease EXCEPT ![w] =
                 IF \E x \in Writer : InSection(x) /\ Scope(Inst(x)) = s
                 THEN "shared" ELSE "sole"]
  /\ wpc' = [wpc EXCEPT ![w] = "db"]
  /\ UNCHANGED <<storeVars, busVars, call, phase, fan, readerVars, boundVars>>

\* The slot is free again: the call returned, threw, or died.
Leave(W) ==
  /\ wpc' = [w \in Writer |-> IF w \in W THEN "idle" ELSE wpc[w]]
  /\ call' = [w \in Writer |-> IF w \in W THEN NoCall ELSE call[w]]
  /\ phase' = [w \in Writer |-> IF w \in W THEN "set" ELSE phase[w]]
  /\ fan' = [w \in Writer |-> IF w \in W THEN Done ELSE fan[w]]
  /\ lease' = [w \in Writer |-> IF w \in W THEN "sole" ELSE lease[w]]

(* withLock throws before its section has begun: after ten seconds of       *)
(* polling while others held the lock, or because its SET is answered by an *)
(* error, whether Redis has executed it or not.                             *)
GiveUp(w) ==
  LET s == Scope(Inst(w)) IN
  /\ Mode = "tcp"
  /\ wpc[w] = "wait"
  /\ \/ (lock[s] # NoWriter \/ "lock" \in Faults) /\ UNCHANGED lock
     \/ /\ lock[s] = NoWriter /\ "lock" \in Faults
        /\ lock' = [lock EXCEPT ![s] = w]
  /\ Leave({w})
  /\ UNCHANGED <<storeVars, busVars, queue, readerVars, boundVars>>

\* The database has executed the section of w on the keys of A.
Applied(w, A) ==
  /\ db' = [k \in Key |-> IF k \notin A THEN db[k]
                          ELSE IF phase[w] = "set"
                               THEN Upsert(db[k], call[w].val)
                          ELSE NoRow]
  /\ stored' = [k \in Key |-> IF k \in A /\ phase[w] = "set"
                              THEN stored[k] \cup {call[w].val} ELSE stored[k]]

\* The database executes setMany or deleteMany.
DbWrite(w) ==
  /\ wpc[w] = "db"
  /\ Applied(w, Batch(w))
  /\ wpc' = [wpc EXCEPT ![w] = "landed"]
  /\ UNCHANGED <<l1, l2, busVars, lockVars, call, phase, fan, readerVars,
                 boundVars>>

\* Mutant: the error is swallowed, and the caches are told.
DbFailSwallowed(w) ==
  /\ "db" \in Faults
  /\ wpc[w] = "db"
  /\ wpc' = [wpc EXCEPT ![w] = "landed"]
  /\ UNCHANGED <<storeVars, busVars, lockVars, call, phase, fan, readerVars,
                 boundVars>>

(* setMany or deleteMany rejects, after the rows of A were executed.  The   *)
(* caches of these rows hear nothing of it.                                 *)
DbFail(w) ==
  /\ "db" \in Faults
  /\ wpc[w] = "db"
  /\ \E A \in IF AtomicBatch THEN {{}, Batch(w)} ELSE SUBSET Batch(w) :
       /\ Applied(w, A)
       /\ l1' = [i \in Instance |-> Missed(l1[i], A)]
       /\ l2' = Missed(l2, A)
  /\ wpc' = [wpc EXCEPT ![w] = "failed"]
  /\ UNCHANGED <<busVars, lockVars, call, phase, fan, readerVars, boundVars>>

(* The entry onWritten caches, with the time the database answered at.  A   *)
(* section that has not got the lock to itself may be late with it.         *)
Written(w, k, t) ==
  [val |-> call[w].val, ver |-> Compared(<<"ms", t>>),
   ok |-> lease[w] = "sole" \/ call[w].val = db[k].val]

\* Mutant: a deletion leaves the entry in the cache.
UpdateSetsOnly(c, w, K, t) ==
  [k \in Key |-> IF k \in K /\ phase[w] = "set" THEN Written(w, k, t)
                ELSE c[k]]

\* Cache c after the section of w has set or deleted the keys of K in it.
Update(c, w, K, t) ==
  [k \in Key |-> IF k \notin K THEN c[k]
                 ELSE IF phase[w] = "set" THEN Written(w, k, t)
                 ELSE NoEntry]

(* The database's answer resumes the section.  Promise.all starts onWritten *)
(* or onDeleted for every key, each of which runs to its first await: L1 is *)
(* updated for all of them at once, and the commands to L2 are on their way.*)
Landed(w) ==
  /\ wpc[w] = "landed"
  /\ l1' = [l1 EXCEPT ![Inst(w)] = Update(@, w, Batch(w), clock)]
  /\ fan' = [fan EXCEPT ![w] =
               [k \in Key |-> IF k \in Batch(w) /\ Mode # "none"
                              THEN "l2" ELSE "done"]]
  /\ wpc' = [wpc EXCEPT ![w] = "cache"]
  /\ call' = [call EXCEPT ![w].at = clock]
  /\ Send(Inst(w), w)
  /\ UNCHANGED <<dbVars, l2, sub, inbox, lockVars, phase, readerVars,
                 boundVars>>

\* Redis executes the SET or DEL for k, or it fails, which is swallowed.
L2Write(w, k) ==
  /\ wpc[w] = "cache"
  /\ fan[w][k] = "l2"
  /\ FirstOn(Inst(w), w)
  /\ \/ l2' = Update(l2, w, {k}, call[w].at)
     \/ "l2" \in Faults /\ l2' = Missed(l2, {k})
  /\ fan' = [fan EXCEPT ![w][k] = IF Mode = "tcp" THEN "pub" ELSE "done"]
  /\ IF \E j \in Key \ {k} : fan[w][j] = "l2"
     THEN UNCHANGED wire ELSE Executed(Inst(w))
  /\ UNCHANGED <<dbVars, l1, sub, inbox, lockVars, call, phase, wpc, readerVars,
                 boundVars>>

\* Mutant: a subscription that fails is not caught.
InvalidationOn(i) == sub[i] = "on"

\* invalidationReady is settled: the process has subscribed or failed to.
InvalidationReady(i) == sub[i] # "pending"

(* Redis executes the PUBLISH for k: every subscribed process, the writer's *)
(* own included, is sent k, and the others miss it.  onWritten first awaits *)
(* invalidationReady; onDeleted does not.                                   *)
Publish(w, k) ==
  /\ wpc[w] = "cache"
  /\ fan[w][k] = "pub"
  /\ phase[w] = "set" => InvalidationReady(Inst(w))
  /\ \E I \in SUBSET Instance :
       /\ I = {i \in Instance : sub[i] = "on"} \/ ("publish" \in Faults /\ I = {})
       /\ inbox' = [i \in Instance |-> IF i \in I THEN Append(inbox[i], k)
                                                  ELSE inbox[i]]
       /\ l1' = [i \in Instance |-> IF i \in I THEN l1[i]
                                               ELSE Missed(l1[i], {k})]
  /\ fan' = [fan EXCEPT ![w][k] = "done"]
  /\ UNCHANGED <<dbVars, l2, wire, sub, lockVars, call, phase, wpc, readerVars,
                 boundVars>>

\* The section is over: every onWritten settled, or the database rejected.
SectionOver(w) == \/ wpc[w] = "cache" /\ \A k \in Key : fan[w][k] = "done"
                  \/ wpc[w] = "failed"

\* Mutant: no finally, the lock is only released after a success.
ReleaseOnSuccess(w) ==
  LET s == Scope(Inst(w)) IN
  lock' = IF lock[s] = w /\ wpc[w] # "failed"
          THEN [lock EXCEPT ![s] = NoWriter] ELSE lock

(* Only the lock this section took is released, and the release may fail.   *)
Release(w) ==
  LET s == Scope(Inst(w)) IN
  \/ lock' = IF lock[s] = w THEN [lock EXCEPT ![s] = NoWriter] ELSE lock
  \/ Mode = "tcp" /\ "lock" \in Faults /\ UNCHANGED lock

\* The entries are written; the deletions need a section of their own.
NextSection(w) ==
  /\ SectionOver(w)
  /\ wpc[w] = "cache" /\ phase[w] = "set" /\ call[w].dels # {}
  /\ Release(w)
  /\ phase' = [phase EXCEPT ![w] = "del"]
  /\ wpc' = [wpc EXCEPT ![w] = "wait"]
  /\ fan' = [fan EXCEPT ![w] = Done]
  /\ lease' = [lease EXCEPT ![w] = "sole"]
  /\ Enqueue(w, Inst(w))
  /\ UNCHANGED <<storeVars, busVars, call, readerVars, boundVars>>

\* keys.set resolves, or throws what the database threw.
Return(w) ==
  /\ SectionOver(w)
  /\ wpc[w] = "failed" \/ phase[w] = "del" \/ call[w].dels = {}
  /\ Release(w)
  /\ Leave({w})
  /\ UNCHANGED <<storeVars, busVars, queue, readerVars, boundVars>>

(* Redis drops the lock at its time to live: that of a dead process or of a *)
(* failed release, and that of a section which retries at the database or   *)
(* awaits the subscription for longer.  Nothing renews it, and the section  *)
(* goes on.  (RedisLock has the times.)                                     *)
LeaseExpire(s) ==
  /\ Mode = "tcp"
  /\ lock[s] # NoWriter
  /\ lock' = [lock EXCEPT ![s] = NoWriter]
  /\ lease' = [w \in Writer |-> IF w = lock[s] /\ InSection(w)
                                THEN "lapsed" ELSE lease[w]]
  /\ UNCHANGED <<storeVars, busVars, queue, writerVars, readerVars, boundVars>>

-----------------------------------------------------------------------------
(* CacheManager.get.  A hit in L1 answers at once and changes nothing, but  *)
(* in http mode, where its version is compared with that of L2.             *)

\* L1 is consulted, and the first request leaves the process.
ReadStart(r, i, k) ==
  /\ rpc[r] = "idle"
  /\ Present(l1[i][k]) => Mode = "http"
  /\ rd' = [rd EXCEPT ![r] = [inst |-> i, key |-> k, seen |-> l1[i][k].ver]]
  /\ rpc' = [rpc EXCEPT ![r] = IF Present(l1[i][k]) THEN "check"
                               ELSE IF Mode = "none" THEN "db" ELSE "l2"]
  /\ UNCHANGED <<storeVars, busVars, lockVars, writerVars, got, boundVars>>

\* Redis answers a GET, or fails, which safeL2Get turns into a miss.
L2Answer(r) ==
  /\ rpc[r] \in {"check", "l2"}
  /\ \/ got' = [got EXCEPT ![r] = l2[rd[r].key]]
     \/ "l2" \in Faults /\ got' = [got EXCEPT ![r] = NoEntry]
  /\ rpc' = [rpc EXCEPT ![r] = IF rpc[r] = "check" THEN "checked" ELSE "l2got"]
  /\ UNCHANGED <<storeVars, busVars, lockVars, writerVars, rd, boundVars>>

\* The read is over: pc is "idle", or it goes on with a request.
ReadOn(r, pc) ==
  /\ rpc' = [rpc EXCEPT ![r] = pc]
  /\ IF pc = "idle"
     THEN /\ got' = [got EXCEPT ![r] = NoEntry]
          /\ rd' = [rd EXCEPT ![r] = NoRead]
     ELSE UNCHANGED <<got, rd>>

\* Put what the read r was answered with into L1 of its process.
FillL1(r) ==
  l1' = [l1 EXCEPT ![rd[r].inst][rd[r].key] =
           [got[r] EXCEPT !.ok = Current(rd[r].key, got[r])]]

\* http: L1 is trusted unless L2 holds another version.
Checked(r) ==
  LET k == rd[r].key IN
  /\ rpc[r] = "checked"
  /\ IF Present(got[r]) /\ got[r].ver # rd[r].seen
     THEN /\ l1' = [l1 EXCEPT ![rd[r].inst][k] = NoEntry]
          /\ ReadOn(r, "l2")
     ELSE ReadOn(r, "idle") /\ UNCHANGED l1
  /\ UNCHANGED <<dbVars, l2, busVars, lockVars, writerVars, boundVars>>

\* L2 had the key, and L1 is filled; or the database is asked.
L2Resume(r) ==
  /\ rpc[r] = "l2got"
  /\ IF Present(got[r]) THEN FillL1(r) /\ ReadOn(r, "idle")
                        ELSE UNCHANGED l1 /\ ReadOn(r, "db")
  /\ UNCHANGED <<dbVars, l2, busVars, lockVars, writerVars, boundVars>>

\* The database answers, with the row's own version.
DbAnswer(r) ==
  /\ rpc[r] = "db"
  /\ \/ /\ got' = [got EXCEPT ![r] = RowEntry(db[rd[r].key])]
        /\ rpc' = [rpc EXCEPT ![r] = "dbgot"]
        /\ UNCHANGED rd
     \/ "db" \in Faults /\ ReadOn(r, "idle")
  /\ UNCHANGED <<storeVars, busVars, lockVars, writerVars, boundVars>>

\* No record, or L1 is filled, and L2 with a SET that is on its way.
DbResume(r) ==
  /\ rpc[r] = "dbgot"
  /\ IF Present(got[r])
     THEN /\ FillL1(r)
          /\ Send(rd[r].inst, r)
          /\ ReadOn(r, IF Mode = "none" THEN "idle" ELSE "fill")
     ELSE ReadOn(r, "idle") /\ UNCHANGED <<l1, wire>>
  /\ UNCHANGED <<dbVars, l2, sub, inbox, lockVars, writerVars, boundVars>>

\* Redis executes the SET, or it fails, which is swallowed.
L2Fill(r) ==
  /\ rpc[r] = "fill"
  /\ FirstOn(rd[r].inst, r)
  /\ \/ l2' = [l2 EXCEPT ![rd[r].key] =
                 [got[r] EXCEPT !.ok = Current(rd[r].key, got[r])]]
     \/ "l2" \in Faults /\ UNCHANGED l2
  /\ Executed(rd[r].inst)
  /\ ReadOn(r, "idle")
  /\ UNCHANGED <<dbVars, l1, sub, inbox, lockVars, writerVars, boundVars>>

-----------------------------------------------------------------------------
(* The processes' environment *)

\* Redis registers the subscription, or refuses it for good.
Subscribe(i) ==
  /\ Mode = "tcp"
  /\ sub[i] = "pending"
  /\ \/ sub' = [sub EXCEPT ![i] = "on"]
     \/ "l2" \in Faults /\ sub' = [sub EXCEPT ![i] = "failed"]
  /\ UNCHANGED <<storeVars, wire, inbox, lockVars, writerVars, readerVars,
                 boundVars>>

\* Mutant: the subscriber has no listener for its messages.
DeliverUnheard(i) ==
  /\ inbox[i] # << >>
  /\ inbox' = [inbox EXCEPT ![i] = Tail(@)]
  /\ UNCHANGED <<storeVars, wire, sub, lockVars, writerVars, readerVars,
                 boundVars>>

\* An invalidation reaches its process.
Deliver(i) ==
  /\ inbox[i] # << >>
  /\ l1' = [l1 EXCEPT ![i][Head(inbox[i])] = NoEntry]
  /\ inbox' = [inbox EXCEPT ![i] = Tail(@)]
  /\ UNCHANGED <<dbVars, l2, wire, sub, lockVars, writerVars, readerVars,
                 boundVars>>

\* Mutant: entries have no time to live, they only make room for others.
ExpireWhenFull(i, k) ==
  /\ \A j \in Key : Present(l1[i][j])
  /\ l1' = [l1 EXCEPT ![i][k] = NoEntry]
  /\ UNCHANGED <<dbVars, l2, busVars, lockVars, writerVars, readerVars,
                 boundVars>>

\* An entry of L1 reaches its time to live, or is the one to evict.
Expire(i, k) ==
  /\ Present(l1[i][k])
  /\ l1' = [l1 EXCEPT ![i][k] = NoEntry]
  /\ UNCHANGED <<dbVars, l2, busVars, lockVars, writerVars, readerVars,
                 boundVars>>

\* Redis is short of memory.  The entries it is sent have no time to live.
L2Evict(k) ==
  /\ "evict" \in Faults
  /\ Present(l2[k])
  /\ l2' = [l2 EXCEPT ![k] = NoEntry]
  /\ UNCHANGED <<dbVars, l1, busVars, lockVars, writerVars, readerVars,
                 boundVars>>

Tick ==
  /\ clock < MaxClock
  /\ clock' = clock + 1
  /\ UNCHANGED <<storeVars, busVars, lockVars, writerVars, readerVars,
                 writes, crashes>>

(* The process dies and starts anew, with an empty L1 and no subscription.  *)
(* A batch that was sent is executed before (DbWrite) or not at all; what a *)
(* section had still to tell the caches is lost.  A lock in Redis stays.    *)
Crash(i) ==
  LET dead == {w \in Writer : wpc[w] # "idle" /\ Inst(w) = i}
      lost == UNION {Owed(w) : w \in dead}
  IN
  /\ "crash" \in Faults
  /\ crashes < MaxCrashes
  /\ crashes' = crashes + 1
  /\ l1' = [j \in Instance |-> IF j = i THEN [k \in Key |-> NoEntry]
                                        ELSE Missed(l1[j], lost)]
  /\ l2' = Missed(l2, lost)
  /\ sub' = [sub EXCEPT ![i] = "pending"]
  /\ wire' = [wire EXCEPT ![i] = << >>]
  /\ inbox' = [inbox EXCEPT ![i] = << >>]
  /\ IF Mode = "tcp" THEN UNCHANGED <<lock, queue>>
     ELSE /\ lock' = [lock EXCEPT ![i] = NoWriter]
          /\ queue' = [queue EXCEPT ![i] = << >>]
  /\ Leave(dead)
  /\ rd' = [r \in Reader |-> IF rd[r].inst = i THEN NoRead ELSE rd[r]]
  /\ rpc' = [r \in Reader |-> IF rd[r].inst = i THEN "idle" ELSE rpc[r]]
  /\ got' = [r \in Reader |-> IF rd[r].inst = i THEN NoEntry ELSE got[r]]
  /\ UNCHANGED <<dbVars, clock, writes>>

-----------------------------------------------------------------------------
WriterStep(w) == \/ Acquire(w) \/ GiveUp(w)
                 \/ DbWrite(w) \/ DbFail(w) \/ Landed(w)
                 \/ \E k \in Key : L2Write(w, k) \/ Publish(w, k)
                 \/ NextSection(w) \/ Return(w)

ReaderStep(r) == \/ L2Answer(r) \/ Checked(r) \/ L2Resume(r)
                 \/ DbAnswer(r) \/ DbResume(r) \/ L2Fill(r)

Environment == \/ \E i \in Instance : Subscribe(i) \/ Deliver(i) \/ Crash(i)
               \/ \E i \in Instance, k \in Key : Expire(i, k)
               \/ \E k \in Key : L2Evict(k)
               \/ \E s \in Scopes : LeaseExpire(s)
               \/ Tick

Next == \/ \E w \in Writer, i \in Instance, S, D \in SUBSET Key :
             StartWrite(w, i, S, D)
        \/ \E w \in Writer : WriterStep(w)
        \/ \E r \in Reader, i \in Instance, k \in Key : ReadStart(r, i, k)
        \/ \E r \in Reader : ReaderStep(r)
        \/ Environment

Spec == Init /\ [][Next]_vars

(* Every request is answered or fails, so that every call that has started  *)
(* goes on; invalidations are delivered, entries of L1 and locks of Redis   *)
(* reach their time to live.  Nobody has to make another call.              *)
Fairness == /\ \A w \in Writer : WF_vars(WriterStep(w))
            /\ \A r \in Reader : WF_vars(ReaderStep(r))
            /\ \A i \in Instance : WF_vars(Subscribe(i)) /\ WF_vars(Deliver(i))
            /\ \A i \in Instance, k \in Key : WF_vars(Expire(i, k))
            /\ \A s \in Scopes : WF_vars(LeaseExpire(s))

FairSpec == Spec /\ Fairness

-----------------------------------------------------------------------------
(* Properties *)

\* Every variable holds what the code can put there.
TypeOK ==
  /\ db \in [Key -> Row] /\ stored \in [Key -> SUBSET Nat]
  /\ l1 \in [Instance -> [Key -> Entry]]
  /\ l2 \in [Key -> Entry]
  /\ wire \in [Instance -> Seq(Reader \cup Writer)]
  /\ sub \in [Instance -> {"pending", "on", "failed"}]
  /\ inbox \in [Instance -> Seq(Key)]
  /\ lock \in [Scopes -> Writer \cup {NoWriter}]
  /\ queue \in [Scopes -> Seq(Writer)]
  /\ lease \in [Writer -> Leases]
  /\ call \in [Writer -> Call]
  /\ phase \in [Writer -> {"set", "del"}]
  /\ wpc \in [Writer -> {"idle", "wait", "db", "landed", "cache", "failed"}]
  /\ fan \in [Writer -> [Key -> {"l2", "pub", "done"}]]
  /\ rd \in [Reader -> Read]
  /\ rpc \in [Reader -> {"idle", "check", "checked", "l2", "l2got",
                         "db", "dbgot", "fill"}]
  /\ got \in [Reader -> Entry]
  /\ clock \in Nat /\ writes \in Nat /\ crashes \in Nat

(* Two calls are never at once between lock and unlock, of all processes in *)
(* tcp mode, of one process otherwise (factory.ts:46-54), unless the lock   *)
(* of one of them has expired (redis-lock.ts:49).  A call that took its     *)
(* lock beside such a one is again alone among the others.                  *)
SoleHolder ==
  \A w, x \in Writer : /\ Protected(w) /\ Protected(x)
                       /\ Mode = "tcp" \/ Inst(w) = Inst(x)
                       => w = x

(* The database first (class comment of CacheManager): no cache, and no     *)
(* read on its way to one, holds a value that the database has not executed *)
(* for that key.  A cache filled early, or after a rejected setMany, would  *)
(* serve credentials that no restart will find again.                       *)
CacheNeverAheadOfDatabase ==
  \A k \in Key :
    LET Stored(e) == Present(e) => e.val \in stored[k] IN
    /\ Stored(l2[k])
    /\ \A i \in Instance : Stored(l1[i][k])
    /\ \A r \in Reader : rd[r].key = k => Stored(got[r])

\* All writes of the session go through one lock.
OneLock == Mode = "tcp" \/ \A i, j \in Instance : i = j

(* The shared cache follows the database.  With one lock, an entry of L2 is *)
(* the database's value, or a writer has yet to replace it, unless          *)
(*   - it was old when a read that a write had overtaken filled it in,      *)
(*   - it was old when a section put it there that had outlived its lock,   *)
(*     or had begun beside such a one, or                                   *)
(*   - a failed Redis or database command or a crash kept its replacement   *)
(*     from L2.                                                             *)
(* So a section that has outlived its lock may put its own old value there, *)
(* but spoils no entry otherwise: whatever it writes into the database late *)
(* still reaches L2.                                                        *)
L2Coherent ==
  OneLock => \A k \in Key :
    Present(l2[k]) /\ l2[k].ok =>
      Current(k, l2[k]) \/ \E w \in Writer : k \in OwedToL2(w)

(* The caches of the processes follow the database.  With one lock, an      *)
(* entry of L1 is the database's value, or an invalidation of it is owed by *)
(* a writer or on its way, but for the same exceptions.                     *)
L1Coherent ==
  OneLock => \A i \in Instance, k \in Key :
    Present(l1[i][k]) /\ l1[i][k].ok =>
      \/ Current(k, l1[i][k])
      \/ \E w \in Writer : k \in Owed(w)
      \/ \E n \in 1 .. Len(inbox[i]) : inbox[i][n] = k

(* Within one process a mutex that is first come first served keeps the     *)
(* order of the calls: a row never goes back from the value of a later      *)
(* keys.set to that of an earlier one.  (It can be deleted by an earlier    *)
(* one, whose deletions queue up again behind the entries of the later.)    *)
LastSetCallWins ==
  [][(Mode # "tcp" /\ \A i, j \in Instance : i = j) =>
       \A k \in Key : db'[k].val # 0 => db'[k].val >= db[k].val]_vars

(* Every keys.set resolves or throws: waiting for the lock, for Redis and   *)
(* for its own subscription inside the section never becomes a deadlock.    *)
CallsFinish == \A w \in Writer : wpc[w] = "wait" ~> wpc[w] = "idle"

(* The class comment of CacheManager (cache-manager.ts:17-18): a stale      *)
(* entry sorts itself out.  Once the calls of keys.set are over, there is a *)
(* time from which every L1 agrees with the database for good.              *)
CachesConverge ==
  <>[](\A i \in Instance, k \in Key :
         Present(l1[i][k]) => Current(k, l1[i][k]))

(* docs/caching.md:50: every write of the database bumps the version, so    *)
(* that the version check of the http mode tells a process that its entry   *)
(* is not what L2 holds: two entries with the same row version are the same *)
(* value.                                                                   *)
VersionsIdentifyValues ==
  \A i \in Instance, k \in Key :
    Present(l1[i][k]) /\ Present(l2[k]) /\ l1[i][k].ver[1] = "row"
      => (l1[i][k].ver = l2[k].ver => l1[i][k].val = l2[k].val)
=============================================================================
