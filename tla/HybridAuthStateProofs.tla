------------------------ MODULE HybridAuthStateProofs ------------------------
(* What holds of HybridAuthState for every set of processes, keys and calls, *)
(* every mode and every combination of faults.                               *)
EXTENDS HybridAuthState, TLAPS

\* The constants of the model have the types the variables need.
LEMMA Constants ==
  /\ NoCall \in Call /\ NoRead \in Read /\ NoEntry \in Entry /\ NoRow \in Row
  /\ Done \in [Key -> {"l2", "pub", "done"}]
  /\ \A i \in Instance : Scope(i) \in Scopes
PROOF
  <1>1. NoCall.inst \in Instance
    <2>1. (CHOOSE i \in Instance : TRUE) \in Instance
      BY SlotsAssumption
    <2>. QED
      BY <2>1 DEF NoCall
  <1>2. (CHOOSE k \in Key : TRUE) \in Key
    BY SlotsAssumption
  <1>3. NoCall \in Call
    BY <1>1 DEF NoCall, Call
  <1>4. NoEntry \in Entry /\ NoRow \in Row
    BY DEF NoEntry, NoRow, Entry, Version, Row
  <1>5. NoRead \in Read
    BY <1>1, <1>2, <1>4 DEF NoRead, Read, Entry
  <1>6. Done \in [Key -> {"l2", "pub", "done"}]
    BY DEF Done
  <1>7. \A i \in Instance : Scope(i) \in Scopes
    BY DEF Scopes
  <1>. QED
    BY <1>3, <1>4, <1>5, <1>6, <1>7

\* Marking missed updates leaves a cache a cache.
LEMMA MissedType ==
  ASSUME NEW c \in [Key -> Entry], NEW K
  PROVE  Missed(c, K) \in [Key -> Entry]
BY DEF Missed, Entry

\* The types of what a call, a read or a row is made of.
LEMMA Fields ==
  ASSUME TypeOK
  PROVE  /\ \A w \in Writer : /\ Inst(w) \in Instance /\ Inst(w) = call[w].inst
                             /\ Scope(Inst(w)) \in Scopes
                             /\ Batch(w) \subseteq Key
                             /\ call[w].val \in Nat /\ call[w].at \in Nat
         /\ \A r \in Reader : rd[r].inst \in Instance /\ rd[r].key \in Key
         /\ \A k \in Key : db[k].val \in Nat /\ db[k].n \in Nat
         /\ \A e \in Entry : e.val \in Nat /\ e.ver \in Version
         /\ \A e \in Entry, b \in BOOLEAN : [e EXCEPT !.ok = b] \in Entry
BY Constants DEF TypeOK, Call, Read, Row, Entry, Inst, Batch

\* The time of the database's answer is noted in the call.
LEMMA StampType ==
  ASSUME NEW c \in Call, NEW t \in Nat
  PROVE  [c EXCEPT !.at = t] \in Call
BY DEF Call

\* What a version is compared by is a version.
LEMMA ComparedType ==
  \A ver \in Version : Compared(ver) \in Version
BY DEF Compared, NoEntry, Version

\* What a section leaves in a cache is a cache.
LEMMA UpdateType ==
  ASSUME TypeOK, NEW c \in [Key -> Entry], NEW w \in Writer, NEW K, NEW t \in Nat
  PROVE  Update(c, w, K, t) \in [Key -> Entry]
PROOF
  <1>1. ASSUME NEW k \in Key PROVE Written(w, k, t) \in Entry
    <2>1. <<"ms", t>> \in Version
      BY DEF Version
    <2>2. Compared(<<"ms", t>>) \in Version /\ call[w].val \in Nat
      BY <2>1, ComparedType, Fields
    <2>. QED
      BY <2>2 DEF Written, Entry
  <1>. QED
    BY <1>1, Constants DEF Update

\* The head of a queue that is not empty can be taken off.
LEMMA ExecutedType ==
  ASSUME TypeOK, NEW i \in Instance, NEW c, FirstOn(i, c), Executed(i)
  PROVE  wire' \in [Instance -> Seq(Reader \cup Writer)]
BY DEF TypeOK, FirstOn, Executed

\* What the database executes leaves it a database.
LEMMA AppliedType ==
  ASSUME TypeOK, NEW w \in Writer, NEW A \in SUBSET Key, Applied(w, A)
  PROVE  db' \in [Key -> Row] /\ stored' \in [Key -> SUBSET Nat]
PROOF
  <1>1. call[w].val \in Nat
    BY Fields
  <1>2. \A k \in Key : Upsert(db[k], call[w].val) \in Row
    BY <1>1, Fields DEF Upsert, Row
  <1>. QED
    BY <1>1, <1>2, Constants DEF TypeOK, Applied

\* A command sent on a connection is one more in its queue.
LEMMA SendType ==
  ASSUME TypeOK, NEW i \in Instance, NEW c \in Reader \cup Writer, Send(i, c)
  PROVE  wire' \in [Instance -> Seq(Reader \cup Writer)]
PROOF
  <1>1. Append(wire[i], c) \in Seq(Reader \cup Writer)
    BY DEF TypeOK
  <1>. QED
    BY <1>1 DEF TypeOK, Send

\* A call that waits for a mutex is one more in its queue.
LEMMA EnqueueType ==
  ASSUME TypeOK, NEW w \in Writer, NEW i \in Instance, Enqueue(w, i)
  PROVE  queue' \in [Scopes -> Seq(Writer)]
PROOF
  <1>1. CASE Mode = "tcp"
    BY <1>1 DEF TypeOK, Enqueue
  <1>2. CASE Mode # "tcp"
    <2>1. i \in Scopes
      BY <1>2 DEF Scopes, Scope
    <2>2. Append(queue[i], w) \in Seq(Writer)
      BY <2>1 DEF TypeOK
    <2>. QED
      BY <1>2, <2>2 DEF TypeOK, Enqueue
  <1>. QED
    BY <1>1, <1>2

\* What a read was answered with is an entry, whatever becomes of its mark.
LEMMA FillType ==
  ASSUME TypeOK, NEW r \in Reader, FillL1(r)
  PROVE  l1' \in [Instance -> [Key -> Entry]]
PROOF
  <1>1. got[r] \in Entry /\ Current(rd[r].key, got[r]) \in BOOLEAN
    BY DEF TypeOK, Current
  <1>2. [got[r] EXCEPT !.ok = Current(rd[r].key, got[r])] \in Entry
    BY <1>1, Fields
  <1>. QED
    BY <1>2 DEF TypeOK, FillL1

\* A read that goes on, or is over, stays a read.
LEMMA ReadOnType ==
  ASSUME TypeOK, NEW r \in Reader,
         NEW pc \in {"idle", "check", "checked", "l2", "l2got",
                     "db", "dbgot", "fill"},
         ReadOn(r, pc)
  PROVE  /\ rpc' \in [Reader -> {"idle", "check", "checked", "l2", "l2got",
                                 "db", "dbgot", "fill"}]
         /\ got' \in [Reader -> Entry] /\ rd' \in [Reader -> Read]
PROOF
  <1>1. rpc' \in [Reader -> {"idle", "check", "checked", "l2", "l2got",
                             "db", "dbgot", "fill"}]
    BY DEF TypeOK, ReadOn
  <1>2. CASE pc = "idle"
    <2>1. got' = [got EXCEPT ![r] = NoEntry] /\ rd' = [rd EXCEPT ![r] = NoRead]
      BY <1>2 DEF ReadOn
    <2>2. got' \in [Reader -> Entry]
      BY <2>1, Constants DEF TypeOK
    <2>3. rd' \in [Reader -> Read]
      BY <2>1, Constants DEF TypeOK
    <2>. QED
      BY <1>1, <2>2, <2>3
  <1>3. CASE pc # "idle"
    BY <1>1, <1>3 DEF TypeOK, ReadOn
  <1>. QED
    BY <1>2, <1>3

\* Every handler leaves every variable with its type: no call of keys.set or of
\* CacheManager.get puts anything else into a cache, a queue or the database.
LEMMA TypeStep ==
  TypeOK /\ [Next]_vars => TypeOK'
PROOF
  <1>. SUFFICES ASSUME TypeOK, [Next]_vars PROVE TypeOK'
    OBVIOUS
  <1>. USE Constants DEF TypeOK
  <1>1. ASSUME NEW w \in Writer, NEW i \in Instance,
               NEW S \in SUBSET Key, NEW D \in SUBSET Key,
               StartWrite(w, i, S, D)
        PROVE  TypeOK'
    <2>1. [inst |-> i, sets |-> S, dels |-> D, val |-> writes', at |-> 0] \in Call
      BY <1>1 DEF StartWrite, Call
    <2>2. call' \in [Writer -> Call]
      BY <1>1, <2>1 DEF StartWrite
    <2>3. queue' \in [Scopes -> Seq(Writer)]
      BY <1>1, EnqueueType DEF StartWrite
    <2>. QED
      BY <1>1, <2>2, <2>3 DEF StartWrite, storeVars, dbVars, busVars, readerVars
  <1>2. ASSUME NEW w \in Writer, Acquire(w) PROVE TypeOK'
    <2>1. queue' \in [Scopes -> Seq(Writer)]
      <3>1. CASE Mode = "tcp"
        BY <1>2, <3>1 DEF Acquire
      <3>2. CASE Mode # "tcp"
        <4>. DEFINE s == Scope(Inst(w))
        <4>1. queue[s] # << >> /\ queue' = [queue EXCEPT ![s] = Tail(@)]
          BY <1>2, <3>2 DEF Acquire
        <4>2. s \in Scopes
          BY Fields
        <4>3. Tail(queue[s]) \in Seq(Writer)
          BY <4>1, <4>2
        <4>. QED
          BY <4>1, <4>2, <4>3
      <3>. QED
        BY <3>1, <3>2
    <2>2. lease' \in [Writer -> Leases]
      BY <1>2 DEF Acquire, Leases
    <2>3. /\ wpc' = [wpc EXCEPT ![w] = "db"]
          /\ lock' = [lock EXCEPT ![Scope(Inst(w))] = w]
          /\ UNCHANGED <<storeVars, busVars, call, phase, fan, readerVars,
                         boundVars>>
      BY <1>2 DEF Acquire
    <2>. QED
      BY <2>1, <2>2, <2>3
      DEF storeVars, dbVars, busVars, readerVars, boundVars
  <1>3. ASSUME NEW w \in Writer, GiveUp(w) PROVE TypeOK'
    <2>1. lease' \in [Writer -> Leases]
      BY <1>3 DEF GiveUp, Leave, Leases
    <2>. QED
      BY <1>3, <2>1 DEF GiveUp, Leave, storeVars, dbVars, busVars, readerVars,
         boundVars
  <1>4. ASSUME NEW w \in Writer, DbWrite(w) PROVE TypeOK'
    BY <1>4, Fields, AppliedType
    DEF DbWrite, busVars, lockVars, readerVars, boundVars
  <1>5. ASSUME NEW w \in Writer, DbFail(w) PROVE TypeOK'
    <2>1. PICK A \in SUBSET Key : /\ Applied(w, A)
                                  /\ l1' = [i \in Instance |-> Missed(l1[i], A)]
                                  /\ l2' = Missed(l2, A)
      BY <1>5, Fields DEF DbFail
    <2>2. db' \in [Key -> Row] /\ stored' \in [Key -> SUBSET Nat]
      BY <2>1, AppliedType
    <2>3. l1' \in [Instance -> [Key -> Entry]] /\ l2' \in [Key -> Entry]
      BY <2>1, MissedType
    <2>. QED
      BY <1>5, <2>2, <2>3 DEF DbFail, busVars, lockVars, readerVars, boundVars
  <1>6. ASSUME NEW w \in Writer, Landed(w) PROVE TypeOK'
    <2>2. l1' \in [Instance -> [Key -> Entry]]
      BY <1>6, UpdateType, Fields DEF Landed
    <2>3. call' \in [Writer -> Call]
      <3>1. [call[w] EXCEPT !.at = clock] \in Call
        BY StampType
      <3>. QED
        BY <1>6, <3>1 DEF Landed
    <2>4. wire' \in [Instance -> Seq(Reader \cup Writer)]
      BY <1>6, SendType, Fields DEF Landed
    <2>. QED
      BY <1>6, <2>2, <2>3, <2>4
      DEF Landed, dbVars, lockVars, readerVars, boundVars
  <1>7. ASSUME NEW w \in Writer, NEW k \in Key, L2Write(w, k) PROVE TypeOK'
    <2>2. l2' \in [Key -> Entry]
      <3>1. CASE l2' = Missed(l2, {k})
        BY <3>1, MissedType
      <3>2. CASE l2' = Update(l2, w, {k}, call[w].at)
        <4>1. call[w].at \in Nat
          BY Fields
        <4>. QED
          BY <3>2, <4>1, UpdateType
      <3>. QED
        BY <1>7, <3>1, <3>2 DEF L2Write
    <2>3. wire' \in [Instance -> Seq(Reader \cup Writer)]
      BY <1>7, ExecutedType DEF L2Write, Inst, Call
    <2>4. fan' \in [Writer -> [Key -> {"l2", "pub", "done"}]]
      BY <1>7 DEF L2Write
    <2>. QED
      BY <1>7, <2>2, <2>3, <2>4
      DEF L2Write, dbVars, lockVars, readerVars, boundVars
  <1>8. ASSUME NEW w \in Writer, NEW k \in Key, Publish(w, k) PROVE TypeOK'
    <2>1. inbox' \in [Instance -> Seq(Key)]
      BY <1>8 DEF Publish
    <2>2. l1' \in [Instance -> [Key -> Entry]]
      <3>1. \A i \in Instance : Missed(l1[i], {k}) \in [Key -> Entry]
        BY MissedType
      <3>2. PICK I : l1' = [i \in Instance |-> IF i \in I THEN l1[i]
                                               ELSE Missed(l1[i], {k})]
        BY <1>8 DEF Publish
      <3>. QED
        BY <3>1, <3>2
    <2>3. fan' \in [Writer -> [Key -> {"l2", "pub", "done"}]]
      BY <1>8 DEF Publish
    <2>. QED
      BY <1>8, <2>1, <2>2, <2>3
      DEF Publish, dbVars, lockVars, readerVars, boundVars
  <1>9. ASSUME NEW w \in Writer, NextSection(w) PROVE TypeOK'
    <2>1. queue' \in [Scopes -> Seq(Writer)]
      BY <1>9, EnqueueType, Fields DEF NextSection
    <2>2. lock' \in [Scopes -> Writer \cup {NoWriter}]
      BY <1>9 DEF NextSection, Release
    <2>3. lease' \in [Writer -> Leases]
      BY <1>9 DEF NextSection, Leases
    <2>. QED
      BY <1>9, <2>1, <2>2, <2>3
      DEF NextSection, storeVars, dbVars, busVars, readerVars, boundVars
  <1>10. ASSUME NEW w \in Writer, Return(w) PROVE TypeOK'
    <2>1. lease' \in [Writer -> Leases]
      BY <1>10 DEF Return, Leave, Leases
    <2>. QED
      BY <1>10, <2>1
      DEF Return, Release, Leave, storeVars, dbVars, busVars, readerVars,
          boundVars
  <1>11. ASSUME NEW s \in Scopes, LeaseExpire(s) PROVE TypeOK'
    <2>1. lease' \in [Writer -> Leases]
      BY <1>11 DEF LeaseExpire, Leases
    <2>. QED
      BY <1>11, <2>1
      DEF LeaseExpire, storeVars, dbVars, busVars, writerVars, readerVars,
          boundVars
  <1>12. ASSUME NEW r \in Reader, NEW i \in Instance, NEW k \in Key,
                ReadStart(r, i, k)
         PROVE  TypeOK'
    <2>1. [inst |-> i, key |-> k, seen |-> l1[i][k].ver] \in Read
      <3>1. l1[i][k] \in Entry
        OBVIOUS
      <3>2. l1[i][k].ver \in Version
        BY <3>1, Fields
      <3>. QED
        BY <3>2 DEF Read
    <2>. QED
      BY <1>12, <2>1
      DEF ReadStart, storeVars, dbVars, busVars, lockVars, writerVars,
          boundVars
  <1>13. ASSUME NEW r \in Reader, L2Answer(r) PROVE TypeOK'
    <2>1. l2[rd[r].key] \in Entry
      BY Fields
    <2>. QED
      BY <1>13, <2>1
      DEF L2Answer, storeVars, dbVars, busVars, lockVars, writerVars, boundVars
  <1>14. ASSUME NEW r \in Reader, Checked(r) PROVE TypeOK'
    <2>1. l1' \in [Instance -> [Key -> Entry]]
      <3>1. CASE l1' = [l1 EXCEPT ![rd[r].inst][rd[r].key] = NoEntry]
        BY <3>1
      <3>2. CASE UNCHANGED l1
        BY <3>2
      <3>. QED
        BY <1>14, <3>1, <3>2 DEF Checked
    <2>2. /\ rpc' \in [Reader -> {"idle", "check", "checked", "l2", "l2got",
                                  "db", "dbgot", "fill"}]
          /\ got' \in [Reader -> Entry] /\ rd' \in [Reader -> Read]
      BY <1>14, ReadOnType DEF Checked
    <2>. QED
      BY <1>14, <2>1, <2>2
      DEF Checked, dbVars, busVars, lockVars, writerVars, boundVars
  <1>15. ASSUME NEW r \in Reader, L2Resume(r) PROVE TypeOK'
    <2>1. l1' \in [Instance -> [Key -> Entry]]
      BY <1>15, FillType DEF L2Resume
    <2>2. /\ rpc' \in [Reader -> {"idle", "check", "checked", "l2", "l2got",
                                  "db", "dbgot", "fill"}]
          /\ got' \in [Reader -> Entry] /\ rd' \in [Reader -> Read]
      BY <1>15, ReadOnType DEF L2Resume
    <2>. QED
      BY <1>15, <2>1, <2>2
      DEF L2Resume, dbVars, busVars, lockVars, writerVars, boundVars
  <1>16. ASSUME NEW r \in Reader, DbAnswer(r) PROVE TypeOK'
    <2>1. RowEntry(db[rd[r].key]) \in Entry
      <3>1. db[rd[r].key] \in Row
        BY Fields
      <3>2. <<"row", db[rd[r].key].n>> \in Version
        BY <3>1 DEF Row, Version
      <3>3. Compared(<<"row", db[rd[r].key].n>>) \in Version
        BY <3>2, ComparedType
      <3>. QED
        BY <3>1, <3>3 DEF RowEntry, Entry, Row
    <2>2. /\ rpc' \in [Reader -> {"idle", "check", "checked", "l2", "l2got",
                                  "db", "dbgot", "fill"}]
          /\ got' \in [Reader -> Entry] /\ rd' \in [Reader -> Read]
      <3>1. CASE ReadOn(r, "idle")
        BY <3>1, ReadOnType
      <3>2. CASE /\ got' = [got EXCEPT ![r] = RowEntry(db[rd[r].key])]
                 /\ rpc' = [rpc EXCEPT ![r] = "dbgot"]
                 /\ UNCHANGED rd
        BY <2>1, <3>2
      <3>. QED
        BY <1>16, <3>1, <3>2 DEF DbAnswer
    <2>. QED
      BY <1>16, <2>2
      DEF DbAnswer, storeVars, dbVars, busVars, lockVars, writerVars, boundVars
  <1>17. ASSUME NEW r \in Reader, DbResume(r) PROVE TypeOK'
    <2>1. l1' \in [Instance -> [Key -> Entry]]
      BY <1>17, FillType DEF DbResume
    <2>2. wire' \in [Instance -> Seq(Reader \cup Writer)]
      BY <1>17, SendType, Fields DEF DbResume
    <2>3. /\ rpc' \in [Reader -> {"idle", "check", "checked", "l2", "l2got",
                                  "db", "dbgot", "fill"}]
          /\ got' \in [Reader -> Entry] /\ rd' \in [Reader -> Read]
      BY <1>17, ReadOnType DEF DbResume
    <2>. QED
      BY <1>17, <2>1, <2>2, <2>3
      DEF DbResume, dbVars, lockVars, writerVars, boundVars
  <1>18. ASSUME NEW r \in Reader, L2Fill(r) PROVE TypeOK'
    <2>1. l2' \in [Key -> Entry]
      <3>1. [got[r] EXCEPT !.ok = Current(rd[r].key, got[r])] \in Entry
        BY Fields DEF Current
      <3>. QED
        BY <1>18, <3>1 DEF L2Fill
    <2>2. wire' \in [Instance -> Seq(Reader \cup Writer)]
      BY <1>18, ExecutedType DEF L2Fill, Read
    <2>. QED
      BY <1>18, <2>1, <2>2
      DEF L2Fill, ReadOn, dbVars, lockVars, writerVars, boundVars
  <1>19. ASSUME NEW i \in Instance, Subscribe(i) PROVE TypeOK'
    BY <1>19
    DEF Subscribe, storeVars, dbVars, lockVars, writerVars, readerVars,
        boundVars
  <1>20. ASSUME NEW i \in Instance, Deliver(i) PROVE TypeOK'
    BY <1>20 DEF Deliver, dbVars, lockVars, writerVars, readerVars, boundVars
  <1>21. ASSUME NEW i \in Instance, Crash(i) PROVE TypeOK'
    <2>1. l1' \in [Instance -> [Key -> Entry]] /\ l2' \in [Key -> Entry]
      BY <1>21, MissedType DEF Crash
    <2>2. lock' \in [Scopes -> Writer \cup {NoWriter}]
          /\ queue' \in [Scopes -> Seq(Writer)]
      <3>1. << >> \in Seq(Writer)
        OBVIOUS
      <3>. QED
        BY <1>21, <3>1 DEF Crash
    <2>3. /\ wpc' \in [Writer -> {"idle", "wait", "db", "landed", "cache",
                                   "failed"}]
          /\ lease' \in [Writer -> Leases]
          /\ call' \in [Writer -> Call] /\ phase' \in [Writer -> {"set", "del"}]
          /\ fan' \in [Writer -> [Key -> {"l2", "pub", "done"}]]
      BY <1>21 DEF Crash, Leave, Leases
    <2>4. /\ rd' \in [Reader -> Read] /\ got' \in [Reader -> Entry]
          /\ rpc' \in [Reader -> {"idle", "check", "checked", "l2", "l2got",
                                  "db", "dbgot", "fill"}]
      BY <1>21 DEF Crash
    <2>5. /\ wire' \in [Instance -> Seq(Reader \cup Writer)]
          /\ inbox' \in [Instance -> Seq(Key)]
          /\ sub' \in [Instance -> {"pending", "on", "failed"}]
      BY <1>21 DEF Crash
    <2>6. /\ db' \in [Key -> Row] /\ stored' \in [Key -> SUBSET Nat]
          /\ clock' \in Nat /\ writes' \in Nat /\ crashes' \in Nat
      BY <1>21 DEF Crash, dbVars
    <2>. QED
      BY <2>1, <2>2, <2>3, <2>4, <2>5, <2>6
  <1>22. ASSUME NEW i \in Instance, NEW k \in Key, Expire(i, k) PROVE TypeOK'
    BY <1>22
    DEF Expire, dbVars, busVars, lockVars, writerVars, readerVars, boundVars
  <1>23. ASSUME NEW k \in Key, L2Evict(k) PROVE TypeOK'
    BY <1>23
    DEF L2Evict, dbVars, busVars, lockVars, writerVars, readerVars, boundVars
  <1>24. CASE Tick
    BY <1>24
    DEF Tick, storeVars, dbVars, busVars, lockVars, writerVars, readerVars
  <1>25. CASE UNCHANGED vars
    BY <1>25
    DEF vars, storeVars, dbVars, busVars, lockVars, writerVars, readerVars,
        boundVars
  <1>. QED
    BY <1>1, <1>2, <1>3, <1>4, <1>5, <1>6, <1>7, <1>8, <1>9, <1>10, <1>11,
       <1>12, <1>13, <1>14, <1>15, <1>16, <1>17, <1>18, <1>19, <1>20, <1>21,
       <1>22, <1>23, <1>24, <1>25
    DEF Next, WriterStep, ReaderStep, Environment

\* Every variable keeps its type, from useHybridAuthState's initial state on.
THEOREM TypeCorrect == Spec => []TypeOK
PROOF
  <1>1. Init => TypeOK
    BY Constants, SlotsAssumption DEF Init, TypeOK, Leases
  <1>. QED
    BY <1>1, TypeStep, PTL DEF Spec

-----------------------------------------------------------------------------
(* The lock.  A section whose lock has not expired holds the lock of its    *)
(* scope, and two processes of which only one may be there have the same    *)
(* scope.                                                                   *)
HoldPart == \A w \in Writer : Protected(w) => lock[Scope(Inst(w))] = w

\* A section that has the lock to itself is the only one of its scope.
SolePart ==
  \A w, x \in Writer :
    /\ InSection(w) /\ InSection(x)
    /\ Scope(Inst(w)) = Scope(Inst(x))
    /\ lease[w] = "sole"
    => w = x

\* A mutex in the process does not expire: nobody ever shares it.
MutexPart ==
  Mode # "tcp" => \A w \in Writer : InSection(w) => lease[w] = "sole"

HolderInv == HoldPart /\ SolePart /\ MutexPart

(* A step keeps HolderInv if it brings no call into a section and moves     *)
(* none to another process, takes the lock from nobody who goes on, and     *)
(* changes no lease, but by letting it lapse in Redis.                      *)
LEMMA HolderKeeps ==
  ASSUME HolderInv,
         \A w \in Writer : InSection(w)' =>
           /\ InSection(w) /\ Inst(w)' = Inst(w)
           /\ lease'[w] = lease[w] \/ (Mode = "tcp" /\ lease'[w] = "lapsed"),
         \A w \in Writer : Protected(w)' =>
           (lock[Scope(Inst(w))] = w => lock'[Scope(Inst(w))] = w)
  PROVE  HolderInv'
PROOF
  <1>1. \A w \in Writer : InSection(w)' => Scope(Inst(w))' = Scope(Inst(w))
    BY DEF Scope
  <1>2. \A w \in Writer : Protected(w)' => InSection(w)' /\ Protected(w)
    BY DEF Protected
  <1>3. HoldPart'
    BY <1>1, <1>2 DEF HolderInv, HoldPart
  <1>4. SolePart'
    BY <1>1 DEF HolderInv, SolePart
  <1>5. MutexPart'
    BY DEF HolderInv, MutexPart
  <1>. QED
    BY <1>3, <1>4, <1>5 DEF HolderInv

\* Such a step leaves the locks alone, in most cases.
LEMMA HolderFrame ==
  ASSUME HolderInv, UNCHANGED <<lock, lease>>,
         \A w \in Writer : InSection(w)' => InSection(w) /\ Inst(w)' = Inst(w)
  PROVE  HolderInv'
BY HolderKeeps

\* Taking an idle slot changes nothing for the others.
LEMMA LeaveFrame ==
  ASSUME NEW W, Leave(W), NEW x \in Writer, InSection(x)'
  PROVE  x \notin W /\ InSection(x) /\ Inst(x)' = Inst(x) /\ lease'[x] = lease[x]
BY DEF Leave, InSection, Inst

\* A release takes the lock from nobody but its caller.
LEMMA ReleaseFrame ==
  ASSUME TypeOK, NEW w \in Writer, Release(w),
         NEW x \in Writer, x # w, NEW s \in Scopes, lock[s] = x
  PROVE  lock'[s] = x
BY Fields DEF TypeOK, Release

\* withLock: every step keeps the lock with the call that is in its section, or
\* that call has outlived it.
LEMMA HolderStep ==
  TypeOK /\ HolderInv /\ [Next]_vars => HolderInv'
PROOF
  <1>. SUFFICES ASSUME TypeOK, HolderInv, [Next]_vars PROVE HolderInv'
    OBVIOUS
  <1>1. ASSUME NEW w \in Writer, NEW i \in Instance,
               NEW S \in SUBSET Key, NEW D \in SUBSET Key,
               StartWrite(w, i, S, D)
        PROVE  HolderInv'
    <2>1. UNCHANGED <<lock, lease>>
      BY <1>1 DEF StartWrite
    <2>2. ASSUME NEW x \in Writer, InSection(x)'
          PROVE  InSection(x) /\ Inst(x)' = Inst(x)
      BY <1>1, <2>2 DEF StartWrite, TypeOK, InSection, Inst
    <2>. QED
      BY <2>1, <2>2, HolderFrame
  <1>2. ASSUME NEW w \in Writer, Acquire(w) PROVE HolderInv'
    <2>. DEFINE s == Scope(Inst(w))
    <2>1. /\ s \in Scopes /\ lock[s] = NoWriter /\ UNCHANGED call
          /\ lock' = [lock EXCEPT ![s] = w] /\ wpc' = [wpc EXCEPT ![w] = "db"]
          /\ ~ InSection(w)
      BY <1>2, Fields DEF Acquire, InSection
    <2>2. lease' = [lease EXCEPT ![w] =
                      IF \E x \in Writer : InSection(x) /\ Scope(Inst(x)) = s
                      THEN "shared" ELSE "sole"]
      BY <1>2 DEF Acquire
    <2>3. /\ lease'[w] = "sole" \/ lease'[w] = "shared"
          /\ lease'[w] = "sole" =>
               ~ \E x \in Writer : InSection(x) /\ Scope(Inst(x)) = s
          /\ lease'[w] = "shared" =>
               \E x \in Writer : InSection(x) /\ Scope(Inst(x)) = s
          /\ \A x \in Writer : x # w => lease'[x] = lease[x]
      BY <2>2 DEF TypeOK
    <2>4. \A x \in Writer : /\ Scope(Inst(x))' = Scope(Inst(x))
                            /\ Scope(Inst(x)) \in Scopes
      BY <2>1, Fields DEF Inst, Scope
    <2>5. \A x \in Writer : InSection(x)' => x = w \/ InSection(x)
      BY <2>1 DEF InSection, TypeOK
    <2>6. \A x \in Writer : InSection(x) /\ Scope(Inst(x)) = s =>
                              lease[x] = "lapsed"
      BY <2>1, SlotsAssumption DEF HolderInv, HoldPart, Protected
    <2>7. HoldPart'
      <3>1. ASSUME NEW x \in Writer, Protected(x)'
            PROVE  lock'[Scope(Inst(x))] = x
        <4>1. CASE x = w
          BY <2>1, <4>1 DEF TypeOK
        <4>2. CASE x # w
          <5>1. InSection(x) /\ lease[x] # "lapsed"
            BY <2>3, <2>5, <3>1, <4>2 DEF Protected
          <5>2. lock[Scope(Inst(x))] = x /\ Scope(Inst(x)) # s
            BY <2>6, <5>1 DEF HolderInv, HoldPart, Protected
          <5>. QED
            BY <2>1, <2>4, <5>2 DEF TypeOK
        <4>. QED
          BY <4>1, <4>2
      <3>. QED
        BY <2>4, <3>1 DEF HoldPart
    <2>8. SolePart'
      <3>1. ASSUME NEW y \in Writer, NEW x \in Writer,
                   InSection(y)', InSection(x)',
                   Scope(Inst(y)) = Scope(Inst(x)), lease'[y] = "sole"
            PROVE  y = x
        <4>1. CASE y = w
          BY <2>3, <2>5, <3>1, <4>1
        <4>2. CASE y # w
          <5>1. InSection(y) /\ lease[y] = "sole"
            BY <2>3, <2>5, <3>1, <4>2
          <5>2. Scope(Inst(y)) # s
            BY <2>6, <5>1
          <5>3. InSection(x)
            BY <2>5, <3>1, <5>2
          <5>. QED
            BY <3>1, <5>1, <5>3 DEF HolderInv, SolePart
        <4>. QED
          BY <4>1, <4>2
      <3>. QED
        BY <2>4, <3>1 DEF SolePart
    <2>9. MutexPart'
      <3>1. ASSUME Mode # "tcp", NEW x \in Writer, InSection(x)'
            PROVE  lease'[x] = "sole"
        <4>1. \A y \in Writer : InSection(y) => lease[y] = "sole"
          BY <3>1 DEF HolderInv, MutexPart
        <4>2. ~ \E y \in Writer : InSection(y) /\ Scope(Inst(y)) = s
          BY <2>6, <4>1
        <4>. QED
          BY <2>3, <2>5, <3>1, <4>1, <4>2
      <3>. QED
        BY <3>1 DEF MutexPart
    <2>. QED
      BY <2>7, <2>8, <2>9 DEF HolderInv
  <1>3. ASSUME NEW w \in Writer, NextSection(w) PROVE HolderInv'
    <2>1. ASSUME NEW x \in Writer, InSection(x)'
          PROVE  x # w /\ InSection(x) /\ Inst(x)' = Inst(x)
                 /\ lease'[x] = lease[x]
      BY <1>3, <2>1 DEF NextSection, TypeOK, InSection, Inst
    <2>2. ASSUME NEW x \in Writer, InSection(x)', lock[Scope(Inst(x))] = x
          PROVE  lock'[Scope(Inst(x))] = x
      BY <1>3, <2>1, <2>2, Fields, ReleaseFrame DEF NextSection
    <2>. QED
      BY <2>1, <2>2, HolderKeeps DEF Protected
  <1>4. ASSUME NEW w \in Writer, Return(w) PROVE HolderInv'
    <2>1. ASSUME NEW x \in Writer, InSection(x)'
          PROVE  x # w /\ InSection(x) /\ Inst(x)' = Inst(x)
                 /\ lease'[x] = lease[x]
      BY <1>4, <2>1, LeaveFrame DEF Return
    <2>2. ASSUME NEW x \in Writer, InSection(x)', lock[Scope(Inst(x))] = x
          PROVE  lock'[Scope(Inst(x))] = x
      BY <1>4, <2>1, <2>2, Fields, ReleaseFrame DEF Return
    <2>. QED
      BY <2>1, <2>2, HolderKeeps DEF Protected
  <1>5. ASSUME NEW s \in Scopes, LeaseExpire(s) PROVE HolderInv'
    <2>1. ASSUME NEW x \in Writer, InSection(x)'
          PROVE  /\ InSection(x) /\ Inst(x)' = Inst(x)
                 /\ lease'[x] = IF x = lock[s] THEN "lapsed" ELSE lease[x]
      BY <1>5, <2>1 DEF LeaseExpire, writerVars, InSection, Inst
    <2>2. ASSUME NEW x \in Writer, Protected(x)', lock[Scope(Inst(x))] = x
          PROVE  lock'[Scope(Inst(x))] = x
      <3>1. x # lock[s]
        BY <2>1, <2>2 DEF Protected
      <3>. QED
        BY <1>5, <2>2, <3>1 DEF LeaseExpire
    <2>3. Mode = "tcp"
      BY <1>5 DEF LeaseExpire
    <2>. QED
      BY <2>1, <2>2, <2>3, HolderKeeps
  <1>6. ASSUME NEW i \in Instance, Crash(i) PROVE HolderInv'
    <2>. DEFINE dead == {w \in Writer : wpc[w] # "idle" /\ Inst(w) = i}
    <2>1. ASSUME NEW x \in Writer, InSection(x)'
          PROVE  x \notin dead /\ InSection(x) /\ Inst(x)' = Inst(x)
                 /\ lease'[x] = lease[x]
      <3>1. Leave(dead)
        BY <1>6 DEF Crash
      <3>. QED
        BY <2>1, <3>1, LeaveFrame
    <2>2. ASSUME NEW x \in Writer, InSection(x)', lock[Scope(Inst(x))] = x
          PROVE  lock'[Scope(Inst(x))] = x
      <3>3. CASE Mode = "tcp"
        BY <1>6, <2>2, <3>3 DEF Crash
      <3>4. CASE Mode # "tcp"
        <4>1. Scope(Inst(x)) # i
          BY <2>1, <2>2, <3>4 DEF Scope, InSection
        <4>2. lock' = [lock EXCEPT ![i] = NoWriter]
          BY <1>6, <3>4 DEF Crash
        <4>. QED
          BY <2>2, <4>1, <4>2, Fields DEF TypeOK
      <3>. QED
        BY <3>3, <3>4
    <2>. QED
      BY <2>1, <2>2, HolderKeeps DEF Protected
  <1>7. ASSUME NEW w \in Writer,
               \/ DbWrite(w) \/ DbFail(w) \/ Landed(w)
               \/ \E k \in Key : L2Write(w, k) \/ Publish(w, k)
        PROVE  HolderInv'
    <2>1. UNCHANGED <<lock, lease>>
      BY <1>7 DEF DbWrite, DbFail, Landed, L2Write, Publish, lockVars
    <2>2. ASSUME NEW x \in Writer, InSection(x)'
          PROVE  InSection(x) /\ Inst(x)' = Inst(x)
      <3>1. CASE DbWrite(w) \/ DbFail(w)
        BY <2>2, <3>1 DEF DbWrite, DbFail, TypeOK, InSection, Inst
      <3>2. CASE Landed(w)
        <4>1. call'[x].inst = call[x].inst
          BY <3>2 DEF Landed, TypeOK, Call
        <4>. QED
          BY <2>2, <3>2, <4>1 DEF Landed, TypeOK, InSection, Inst
      <3>3. CASE \E k \in Key : L2Write(w, k) \/ Publish(w, k)
        BY <2>2, <3>3 DEF L2Write, Publish, InSection, Inst
      <3>. QED
        BY <1>7, <3>1, <3>2, <3>3
    <2>. QED
      BY <2>1, <2>2, HolderFrame
  <1>8. CASE UNCHANGED <<lockVars, writerVars>>
    <2>1. UNCHANGED <<lock, lease>>
      BY <1>8 DEF lockVars
    <2>2. ASSUME NEW x \in Writer, InSection(x)'
          PROVE  InSection(x) /\ Inst(x)' = Inst(x)
      BY <1>8, <2>2 DEF writerVars, InSection, Inst
    <2>. QED
      BY <2>1, <2>2, HolderFrame
  <1>9. ASSUME NEW r \in Reader,
               \/ \E i \in Instance, k \in Key : ReadStart(r, i, k)
               \/ ReaderStep(r)
        PROVE  UNCHANGED <<lockVars, writerVars>>
    BY <1>9 DEF ReadStart, ReaderStep, L2Answer, Checked, L2Resume, DbAnswer,
                DbResume, L2Fill
  <1>10. ASSUME \/ \E i \in Instance : Subscribe(i) \/ Deliver(i)
                \/ \E i \in Instance, k \in Key : Expire(i, k)
                \/ \E k \in Key : L2Evict(k)
                \/ Tick
                \/ UNCHANGED vars
         PROVE  UNCHANGED <<lockVars, writerVars>>
    BY <1>10 DEF Subscribe, Deliver, Expire, L2Evict, Tick, vars
  <1>11. ASSUME NEW w \in Writer, GiveUp(w) PROVE HolderInv'
    <2>. DEFINE s == Scope(Inst(w))
    <2>1. ASSUME NEW x \in Writer, InSection(x)'
          PROVE  InSection(x) /\ Inst(x)' = Inst(x) /\ lease'[x] = lease[x]
      BY <1>11, <2>1, LeaveFrame DEF GiveUp
    <2>2. ASSUME NEW x \in Writer, lock[Scope(Inst(x))] = x
          PROVE  lock'[Scope(Inst(x))] = x
      <3>1. \/ UNCHANGED lock
            \/ lock[s] = NoWriter /\ lock' = [lock EXCEPT ![s] = w]
        BY <1>11 DEF GiveUp
      <3>2. lock[s] = NoWriter => Scope(Inst(x)) # s
        BY <2>2, SlotsAssumption
      <3>. QED
        BY <2>2, <3>1, <3>2, Fields DEF TypeOK
    <2>. QED
      BY <2>1, <2>2, HolderKeeps
  <1>. QED
    BY <1>1, <1>2, <1>3, <1>4, <1>5, <1>6, <1>7, <1>8, <1>9, <1>10, <1>11
    DEF Next, WriterStep, Environment

\* What is known of locks and leases holds throughout.
LEMMA HolderHolds == Spec => []HolderInv
PROOF
  <1>1. Init => HolderInv
    BY DEF Init, HolderInv, HoldPart, SolePart, MutexPart, Protected, InSection
  <1>. QED
    BY <1>1, HolderStep, TypeCorrect, PTL DEF Spec

\* No two calls are at once between lock and unlock (withLock, factory.ts),
\* unless one of them has outlived its lock, which any of them may at any time.
THEOREM OneHolder == Spec => []SoleHolder
PROOF
  <1>1. TypeOK /\ HolderInv => SoleHolder
    <2>. SUFFICES ASSUME TypeOK, HolderInv,
                         NEW w \in Writer, NEW x \in Writer,
                         Protected(w), Protected(x),
                         Mode = "tcp" \/ Inst(w) = Inst(x)
                  PROVE  w = x
      BY DEF SoleHolder
    <2>1. Scope(Inst(w)) = Scope(Inst(x))
      BY DEF Scope
    <2>. QED
      BY <2>1 DEF HolderInv, HoldPart
  <1>. QED
    BY <1>1, HolderHolds, TypeCorrect, PTL

-----------------------------------------------------------------------------
(* The lock of a scope as SessionLock sees it: its holder, and the calls in  *)
(* their sections under it that have not outlived it.                        *)
Sections(s) == {w \in Writer : Protected(w) /\ Scope(Inst(w)) = s}
Lock(s) == INSTANCE SessionLock
             WITH Client <- Writer, Nobody <- NoWriter,
                  holder <- lock[s], inside <- Sections(s)

\* A lock that is held changes hands only by being free in between.
LEMMA HeldStays ==
  ASSUME TypeOK, [Next]_vars, NEW s \in Scopes,
         lock[s] # NoWriter, lock'[s] # NoWriter
  PROVE  lock'[s] = lock[s]
PROOF
  <1>1. ASSUME NEW w \in Writer, Acquire(w) \/ GiveUp(w)
        PROVE  lock'[s] = lock[s]
    BY <1>1, Fields DEF Acquire, GiveUp, TypeOK
  <1>2. ASSUME NEW w \in Writer, NextSection(w) \/ Return(w)
        PROVE  lock'[s] = lock[s]
    BY <1>2, Fields DEF NextSection, Return, Release, TypeOK
  <1>3. ASSUME NEW z \in Scopes, LeaseExpire(z) PROVE lock'[s] = lock[s]
    BY <1>3 DEF LeaseExpire, TypeOK
  <1>4. ASSUME NEW i \in Instance, Crash(i) PROVE lock'[s] = lock[s]
    BY <1>4 DEF Crash, TypeOK
  <1>5. ASSUME NEW w \in Writer,
               \/ \E i \in Instance, S, D \in SUBSET Key : StartWrite(w, i, S, D)
               \/ DbWrite(w) \/ DbFail(w) \/ Landed(w)
               \/ \E k \in Key : L2Write(w, k) \/ Publish(w, k)
        PROVE  UNCHANGED lock
    BY <1>5 DEF StartWrite, DbWrite, DbFail, Landed, L2Write, Publish, lockVars
  <1>6. ASSUME NEW r \in Reader,
               \/ \E i \in Instance, k \in Key : ReadStart(r, i, k)
               \/ ReaderStep(r)
        PROVE  UNCHANGED lock
    BY <1>6 DEF ReadStart, ReaderStep, L2Answer, Checked, L2Resume, DbAnswer,
                DbResume, L2Fill, lockVars
  <1>7. ASSUME \/ \E i \in Instance : Subscribe(i) \/ Deliver(i)
               \/ \E i \in Instance, k \in Key : Expire(i, k)
               \/ \E k \in Key : L2Evict(k)
               \/ Tick
               \/ UNCHANGED vars
        PROVE  UNCHANGED lock
    BY <1>7 DEF Subscribe, Deliver, Expire, L2Evict, Tick, vars, lockVars
  <1>. QED
    BY <1>1, <1>2, <1>3, <1>4, <1>5, <1>6, <1>7
    DEF Next, WriterStep, Environment

\* A section starts when its call is granted a lock that was free.
LEMMA SectionsStart ==
  ASSUME TypeOK, [Next]_vars, NEW s \in Scopes, NEW x \in Sections(s)',
         x \notin Sections(s)
  PROVE  lock[s] = NoWriter /\ lock'[s] = x
PROOF
  <1>. /\ x \in Writer /\ InSection(x)' /\ lease'[x] # "lapsed"
       /\ Scope(Inst(x))' = s
    BY DEF Sections, Protected
  <1>0. ASSUME InSection(x), Inst(x)' = Inst(x), lease'[x] = lease[x]
        PROVE  FALSE
    BY <1>0 DEF Sections, Protected, Scope
  <1>1. ASSUME NEW w \in Writer, Acquire(w)
        PROVE  lock[s] = NoWriter /\ lock'[s] = x
    <2>1. /\ UNCHANGED call /\ wpc' = [wpc EXCEPT ![w] = "db"]
          /\ lock[Scope(Inst(w))] = NoWriter
          /\ lock' = [lock EXCEPT ![Scope(Inst(w))] = w]
          /\ \A y \in Writer : y # w => lease'[y] = lease[y]
      BY <1>1 DEF Acquire, TypeOK
    <2>2. Scope(Inst(x)) = s /\ Inst(x)' = Inst(x)
      BY <2>1 DEF Inst, Scope
    <2>3. x = w
      BY <1>0, <2>1, <2>2 DEF InSection, TypeOK
    <2>. QED
      BY <2>1, <2>2, <2>3 DEF TypeOK
  <1>2. ASSUME NEW W, Leave(W) PROVE FALSE
    BY <1>0, <1>2, LeaveFrame
  <1>3. ASSUME NEW w \in Writer, NEW i \in Instance,
               NEW S \in SUBSET Key, NEW D \in SUBSET Key,
               StartWrite(w, i, S, D)
        PROVE  FALSE
    BY <1>0, <1>3 DEF StartWrite, TypeOK, InSection, Inst
  <1>4. ASSUME NEW w \in Writer,
               \/ NextSection(w) \/ DbWrite(w) \/ DbFail(w)
               \/ \E k \in Key : L2Write(w, k) \/ Publish(w, k)
        PROVE  FALSE
    <2>1. InSection(x) /\ Inst(x)' = Inst(x) /\ lease'[x] = lease[x]
      BY <1>4 DEF NextSection, DbWrite, DbFail, L2Write, Publish, TypeOK,
                  InSection, Inst, lockVars
    <2>. QED
      BY <1>0, <2>1
  <1>5. ASSUME NEW w \in Writer, Landed(w) PROVE FALSE
    <2>1. call'[x].inst = call[x].inst
      BY <1>5 DEF Landed, TypeOK, Call
    <2>2. InSection(x) /\ Inst(x)' = Inst(x) /\ lease'[x] = lease[x]
      BY <1>5, <2>1 DEF Landed, TypeOK, InSection, Inst, lockVars
    <2>. QED
      BY <1>0, <2>2
  <1>6. ASSUME UNCHANGED writerVars, lease'[x] = lease[x] PROVE FALSE
    BY <1>0, <1>6 DEF writerVars, InSection, Inst
  <1>7. ASSUME NEW r \in Reader,
               \/ \E i \in Instance, k \in Key : ReadStart(r, i, k)
               \/ ReaderStep(r)
        PROVE  UNCHANGED writerVars /\ lease'[x] = lease[x]
    BY <1>7 DEF ReadStart, ReaderStep, L2Answer, Checked, L2Resume, DbAnswer,
                DbResume, L2Fill, lockVars
  <1>8. ASSUME \/ \E i \in Instance : Subscribe(i) \/ Deliver(i)
               \/ \E i \in Instance, k \in Key : Expire(i, k)
               \/ \E k \in Key : L2Evict(k)
               \/ \E z \in Scopes : LeaseExpire(z)
               \/ Tick
               \/ UNCHANGED vars
        PROVE  UNCHANGED writerVars /\ lease'[x] = lease[x]
    BY <1>8 DEF Subscribe, Deliver, Expire, L2Evict, LeaseExpire, Tick, vars,
                lockVars
  <1>9. ASSUME \/ \E w \in Writer : GiveUp(w) \/ Return(w)
               \/ \E i \in Instance : Crash(i)
        PROVE  \E W : Leave(W)
    BY <1>9 DEF GiveUp, Return, Crash
  <1>. QED
    BY <1>1, <1>2, <1>3, <1>4, <1>5, <1>6, <1>7, <1>8, <1>9
    DEF Next, WriterStep, Environment

\* The sections of keys.set run under a lock that is a SessionLock, until they
\* outlive it, whenever that is.  RedisLock has the same of withLock, with its
\* times (factory.ts:51-54, 168, 175).
THEOREM LocksAreSessionLocks ==
  ASSUME NEW s \in Scopes
  PROVE  Spec => Lock(s)!Spec
PROOF
  <1>1. Init => Lock(s)!Init /\ HolderInv
    BY DEF Init, Lock!Init, Sections, HolderInv, HoldPart, SolePart, MutexPart,
           Protected, InSection
  <1>2. TypeOK /\ TypeOK' /\ HolderInv /\ HolderInv' /\ [Next]_vars
          => [Lock(s)!Next]_(Lock(s)!vars)
    <2>. SUFFICES ASSUME TypeOK, TypeOK', HolderInv, HolderInv', [Next]_vars
                  PROVE  [Lock(s)!Next]_(Lock(s)!vars)
      OBVIOUS
    <2>1. Sections(s) \in {{}, {lock[s]}} /\ (lock[s] = NoWriter => Sections(s) = {})
      BY SlotsAssumption DEF Sections, HolderInv, HoldPart
    <2>2. /\ Sections(s)' \in {{}, {lock'[s]}}
          /\ lock'[s] = NoWriter => Sections(s)' = {}
      BY SlotsAssumption DEF Sections, HolderInv, HoldPart
    <2>3. lock[s] \in Writer \cup {NoWriter} /\ lock'[s] \in Writer \cup {NoWriter}
      BY DEF TypeOK
    <2>4. lock[s] # NoWriter /\ lock'[s] # NoWriter => lock'[s] = lock[s]
      BY HeldStays
    <2>5. lock'[s] = lock[s] => Sections(s)' \subseteq Sections(s)
      BY <2>2, SectionsStart
    <2>6. \/ \E w \in Writer : /\ lock[s] = NoWriter /\ Sections(s) = {}
                               /\ lock'[s] = w /\ Sections(s)' \in {{}, {w}}
          \/ Sections(s) # {} /\ Sections(s)' = {} /\ UNCHANGED lock[s]
          \/ lock[s] # NoWriter /\ lock'[s] = NoWriter /\ Sections(s)' = {}
          \/ UNCHANGED <<lock[s], Sections(s)>>
      BY <2>1, <2>2, <2>3, <2>4, <2>5
    <2>. QED
      BY <2>6 DEF Lock!Next, Lock!Grant, Lock!Finish, Lock!Free, Lock!vars
  <1>. QED
    BY <1>1, <1>2, HolderStep, TypeCorrect, PTL DEF Spec, Lock!Spec

-----------------------------------------------------------------------------
(* The order of the calls.  In the only process of a session the mutex is   *)
(* first come first served: calls that still have to write their entries    *)
(* wait in the order they were made in, the one inside came before them,    *)
(* and no row is newer than what any of them will write.  Calls that come   *)
(* back for their deletions may wait anywhere.                              *)
OneProcess == Mode # "tcp" /\ \A i, j \in Instance : i = j

\* v is not newer than the entries that w has still to write, if any.
NotAfter(v, w) == phase[w] = "set" => v <= call[w].val

QueuePart ==
  \A s \in Scopes :
    /\ \A n \in 1 .. Len(queue[s]) : wpc[queue[s][n]] = "wait"
    /\ \A n, m \in 1 .. Len(queue[s]) :
         n < m => /\ queue[s][n] # queue[s][m]
                  /\ phase[queue[s][n]] = "set" =>
                       NotAfter(call[queue[s][n]].val, queue[s][m])

InsidePart ==
  \A w \in Writer : InSection(w) /\ phase[w] = "set" =>
    \A s \in Scopes : \A n \in 1 .. Len(queue[s]) :
      NotAfter(call[w].val, queue[s][n])

RowPart ==
  \A k \in Key :
    /\ \A s \in Scopes : \A n \in 1 .. Len(queue[s]) :
         NotAfter(db[k].val, queue[s][n])
    /\ \A w \in Writer : wpc[w] = "db" => NotAfter(db[k].val, w)

NumberPart == /\ \A w \in Writer : call[w].val <= writes
              /\ \A k \in Key : db[k].val <= writes

OrderInv == QueuePart /\ InsidePart /\ RowPart /\ NumberPart

\* The only process has the only mutex, and one call at most is inside.
LEMMA OnlyProcess ==
  ASSUME OneProcess, TypeOK, HolderInv
  PROVE  /\ \A s, i : s \in Scopes /\ i \in Instance => s = i
         /\ \A w \in Writer : Scope(Inst(w)) = Inst(w)
         /\ \A w, x \in Writer : InSection(w) /\ InSection(x) => w = x
         /\ \A s \in Scopes, w \in Writer :
              lock[s] = NoWriter => ~ InSection(w)
<1>1. \A i \in Instance : Scope(i) = i
  BY DEF OneProcess, Scope
<1>2. \A s, i : s \in Scopes /\ i \in Instance => s = i
  BY <1>1 DEF OneProcess, Scopes
<1>3. \A w \in Writer : Inst(w) \in Instance /\ Scope(Inst(w)) \in Scopes
  BY Fields
<1>6. \A w \in Writer : InSection(w) => lease[w] = "sole"
  BY DEF OneProcess, HolderInv, MutexPart
<1>4. \A w, x \in Writer : InSection(w) /\ InSection(x) => w = x
  <2>1. \A w, x \in Writer : Scope(Inst(w)) = Scope(Inst(x))
    BY <1>1, <1>2, <1>3
  <2> QED
    BY <1>6, <2>1 DEF HolderInv, SolePart
<1>5. ASSUME NEW s \in Scopes, NEW w \in Writer, lock[s] = NoWriter
      PROVE  ~ InSection(w)
  <2>1. Scope(Inst(w)) = s
    BY <1>1, <1>2, <1>3
  <2> QED
    BY <1>5, <1>6, <2>1, SlotsAssumption DEF HolderInv, HoldPart, Protected
<1> QED
  BY <1>1, <1>2, <1>3, <1>4, <1>5

\* What is in a queue.
LEMMA Waiting ==
  ASSUME TypeOK, QueuePart, NEW s \in Scopes
  PROVE  /\ queue[s] \in Seq(Writer) /\ Len(queue[s]) \in Nat
         /\ \A n \in 1 .. Len(queue[s]) :
              queue[s][n] \in Writer /\ wpc[queue[s][n]] = "wait"
<1>1. queue[s] \in Seq(Writer)
  BY DEF TypeOK
<1> QED
  BY <1>1 DEF QueuePart

(* A step that leaves the queue and the rows alone keeps the order, when it *)
(* renumbers no call and brings none into its section.                      *)
LEMMA OrderFrame ==
  ASSUME TypeOK, OrderInv, UNCHANGED <<queue, db, writes>>,
         \A x \in Writer : wpc[x] = "wait" =>
           /\ wpc'[x] = "wait"
           /\ phase'[x] = phase[x] /\ call'[x].val = call[x].val,
         \A x \in Writer : InSection(x)' =>
           InSection(x) /\ phase'[x] = phase[x] /\ call'[x].val = call[x].val,
         \A x \in Writer : wpc'[x] = "db" => wpc[x] = "db",
         \A x \in Writer : call'[x].val <= writes
  PROVE  OrderInv'
<1>1. queue' = queue /\ db' = db /\ writes' = writes
  OBVIOUS
<1>2. ASSUME NEW s \in Scopes, NEW n \in 1 .. Len(queue[s])
      PROVE  /\ wpc'[queue[s][n]] = "wait"
             /\ phase'[queue[s][n]] = phase[queue[s][n]]
             /\ call'[queue[s][n]].val = call[queue[s][n]].val
  BY Waiting DEF OrderInv
<1>3. QueuePart'
  BY <1>1, <1>2 DEF OrderInv, QueuePart, NotAfter
<1>4. InsidePart'
  BY <1>1, <1>2 DEF OrderInv, InsidePart, NotAfter
<1>5. RowPart'
  <2>1. ASSUME NEW k \in Key, NEW x \in Writer, wpc'[x] = "db",
               phase'[x] = "set"
        PROVE  db[k].val <= call'[x].val
    <3>1. wpc[x] = "db" /\ InSection(x)'
      BY <2>1 DEF InSection
    <3> QED
      BY <2>1, <3>1 DEF OrderInv, RowPart, NotAfter
  <2>2. ASSUME NEW k \in Key, NEW s \in Scopes, NEW n \in 1 .. Len(queue[s]),
               phase'[queue[s][n]] = "set"
        PROVE  db[k].val <= call'[queue[s][n]].val
    BY <1>2, <2>2 DEF OrderInv, RowPart, NotAfter
  <2> QED
    BY <1>1, <2>1, <2>2 DEF RowPart, NotAfter
<1>6. NumberPart'
  BY <1>1 DEF OrderInv, NumberPart
<1> QED
  BY <1>3, <1>4, <1>5, <1>6 DEF OrderInv

\* A call that queues up goes last; if it has entries, it is the latest call.
LEMMA OrderEnqueue ==
  ASSUME OneProcess, TypeOK, HolderInv, OrderInv,
         NEW w \in Writer, NEW i \in Instance, Enqueue(w, i), UNCHANGED db,
         wpc[w] # "wait", wpc' = [wpc EXCEPT ![w] = "wait"],
         \A x \in Writer : x # w =>
           phase'[x] = phase[x] /\ call'[x].val = call[x].val,
         phase'[w] = "set" =>
           /\ \A x \in Writer : x # w => call[x].val <= call'[w].val
           /\ \A k \in Key : db[k].val <= call'[w].val,
         NumberPart'
  PROVE  OrderInv'
<1>1. /\ db' = db /\ wpc'[w] = "wait"
      /\ \A x \in Writer : x # w => wpc'[x] = wpc[x]
  BY DEF TypeOK
<1>2. QueuePart /\ InsidePart /\ RowPart
  BY DEF OrderInv
<1>3. ASSUME NEW s \in Scopes
      PROVE  /\ Len(queue[s]) \in Nat /\ Len(queue'[s]) = Len(queue[s]) + 1
             /\ \A n \in 1 .. Len(queue[s]) : queue'[s][n] = queue[s][n]
             /\ queue'[s][Len(queue[s]) + 1] = w
  <2>1. s = i /\ i \in Scopes
    BY <1>3, OnlyProcess
  <2>2. queue[s] \in Seq(Writer)
    BY DEF TypeOK
  <2>3. queue'[s] = Append(queue[s], w)
    BY <2>1 DEF OneProcess, Enqueue, TypeOK
  <2> QED
    BY <2>2, <2>3
<1>4. ASSUME NEW s \in Scopes, NEW n \in 1 .. Len(queue'[s])
      PROVE  \/ /\ n \in 1 .. Len(queue[s]) /\ queue'[s][n] = queue[s][n]
                /\ queue[s][n] \in Writer /\ queue[s][n] # w
                /\ wpc'[queue[s][n]] = "wait"
                /\ phase'[queue[s][n]] = phase[queue[s][n]]
                /\ call'[queue[s][n]].val = call[queue[s][n]].val
             \/ n = Len(queue[s]) + 1 /\ queue'[s][n] = w
  <2>1. n \in 1 .. Len(queue[s]) \/ n = Len(queue[s]) + 1
    BY <1>3
  <2>2. CASE n \in 1 .. Len(queue[s])
    <3>1. queue[s][n] \in Writer /\ wpc[queue[s][n]] = "wait"
      BY <1>2, <2>2, Waiting
    <3> QED
      BY <1>1, <1>3, <2>2, <3>1
  <2>3. CASE n = Len(queue[s]) + 1
    BY <1>3, <2>3
  <2> QED
    BY <2>1, <2>2, <2>3
<1>5. QueuePart'
  <2>1. ASSUME NEW s \in Scopes, NEW n \in 1 .. Len(queue'[s])
        PROVE  wpc'[queue'[s][n]] = "wait"
    BY <1>1, <1>4
  <2>2. ASSUME NEW s \in Scopes, NEW n \in 1 .. Len(queue'[s]),
               NEW m \in 1 .. Len(queue'[s]), n < m
        PROVE  /\ queue'[s][n] # queue'[s][m]
               /\ phase'[queue'[s][n]] = "set" /\ phase'[queue'[s][m]] = "set"
                    => call'[queue'[s][n]].val <= call'[queue'[s][m]].val
    <3>1. n \in 1 .. Len(queue[s])
      BY <1>3, <2>2
    <3>2. /\ queue'[s][n] = queue[s][n] /\ queue[s][n] # w
          /\ queue[s][n] \in Writer
          /\ phase'[queue[s][n]] = phase[queue[s][n]]
          /\ call'[queue[s][n]].val = call[queue[s][n]].val
      BY <1>3, <1>4, <3>1
    <3>3. CASE m \in 1 .. Len(queue[s])
      <4>1. /\ queue'[s][m] = queue[s][m]
            /\ phase'[queue[s][m]] = phase[queue[s][m]]
            /\ call'[queue[s][m]].val = call[queue[s][m]].val
        BY <1>3, <1>4, <3>3
      <4> QED
        BY <1>2, <2>2, <3>1, <3>2, <3>3, <4>1 DEF QueuePart, NotAfter
    <3>4. CASE m = Len(queue[s]) + 1
      BY <1>3, <3>2, <3>4
    <3> QED
      BY <1>4, <3>3, <3>4
  <2> QED
    BY <2>1, <2>2 DEF QueuePart, NotAfter
<1>6. InsidePart'
  <2>1. ASSUME NEW x \in Writer, InSection(x)', phase'[x] = "set",
               NEW s \in Scopes, NEW n \in 1 .. Len(queue'[s]),
               phase'[queue'[s][n]] = "set"
        PROVE  call'[x].val <= call'[queue'[s][n]].val
    <3>1. x # w /\ InSection(x)
      BY <1>1, <2>1 DEF InSection
    <3>2. phase[x] = "set" /\ call'[x].val = call[x].val
      BY <2>1, <3>1
    <3>3. CASE n = Len(queue[s]) + 1 /\ queue'[s][n] = w
      BY <2>1, <3>1, <3>2, <3>3
    <3>4. CASE n \in 1 .. Len(queue[s])
      <4>1. /\ queue'[s][n] = queue[s][n]
            /\ phase'[queue[s][n]] = phase[queue[s][n]]
            /\ call'[queue[s][n]].val = call[queue[s][n]].val
        BY <1>3, <1>4, <3>4
      <4> QED
        BY <1>2, <2>1, <3>1, <3>2, <3>4, <4>1 DEF InsidePart, NotAfter
    <3> QED
      BY <1>4, <3>3, <3>4
  <2> QED
    BY <2>1 DEF InsidePart, NotAfter
<1>7. RowPart'
  <2>1. ASSUME NEW k \in Key, NEW s \in Scopes, NEW n \in 1 .. Len(queue'[s]),
               phase'[queue'[s][n]] = "set"
        PROVE  db[k].val <= call'[queue'[s][n]].val
    <3>1. CASE n = Len(queue[s]) + 1 /\ queue'[s][n] = w
      BY <2>1, <3>1
    <3>2. CASE n \in 1 .. Len(queue[s])
      <4>1. /\ queue'[s][n] = queue[s][n]
            /\ phase'[queue[s][n]] = phase[queue[s][n]]
            /\ call'[queue[s][n]].val = call[queue[s][n]].val
        BY <1>3, <1>4, <3>2
      <4> QED
        BY <1>2, <2>1, <3>2, <4>1 DEF RowPart, NotAfter
    <3> QED
      BY <1>4, <3>1, <3>2
  <2>2. ASSUME NEW k \in Key, NEW x \in Writer, wpc'[x] = "db",
               phase'[x] = "set"
        PROVE  db[k].val <= call'[x].val
    <3>1. x # w /\ wpc[x] = "db"
      BY <1>1, <2>2
    <3> QED
      BY <1>2, <2>2, <3>1 DEF RowPart, NotAfter
  <2> QED
    BY <1>1, <2>1, <2>2 DEF RowPart, NotAfter
<1> QED
  BY <1>5, <1>6, <1>7 DEF OrderInv

\* The first in the queue gets the lock: it is not later than the others.
LEMMA OrderAcquire ==
  ASSUME OneProcess, TypeOK, HolderInv, OrderInv, NEW w \in Writer, Acquire(w)
  PROVE  OrderInv'
<1> DEFINE s == Scope(Inst(w))
           q == queue[s]
<1>1. /\ s \in Scopes /\ \A u \in Scopes : u = s
      /\ \A x \in Writer : ~ InSection(x)
  BY OnlyProcess, Fields DEF Acquire
<1>2. /\ q # << >> /\ Head(q) = w /\ queue' = [queue EXCEPT ![s] = Tail(q)]
      /\ wpc[w] = "wait" /\ wpc' = [wpc EXCEPT ![w] = "db"]
      /\ call' = call /\ phase' = phase /\ db' = db /\ writes' = writes
  BY DEF Acquire, OneProcess, storeVars, dbVars, boundVars
<1> HIDE DEF s
<1>3. q \in Seq(Writer)
  BY <1>1 DEF TypeOK
<1>4. queue'[s] = Tail(q)
  BY <1>1, <1>2 DEF TypeOK
<1>5. /\ Len(q) \in Nat /\ Len(queue'[s]) = Len(q) - 1 /\ 1 \in 1 .. Len(q)
      /\ q[1] = w
      /\ \A n \in 1 .. Len(queue'[s]) :
           queue'[s][n] = q[n + 1] /\ n + 1 \in 1 .. Len(q) /\ 1 < n + 1
  <2> HIDE DEF q
  <2>1. q # << >> /\ Head(q) = w
    BY <1>2
  <2>2. Len(q) \in Nat /\ Len(q) # 0 /\ q[1] = w
    BY <1>3, <2>1
  <2>3. /\ Len(Tail(q)) = Len(q) - 1
        /\ \A n \in 1 .. Len(q) - 1 : Tail(q)[n] = q[n + 1]
    BY <1>3, <2>1
  <2>4. 1 \in 1 .. Len(q)
    BY <2>2
  <2>5. \A n \in 1 .. Len(q) - 1 : n + 1 \in 1 .. Len(q) /\ 1 < n + 1
    BY <2>2
  <2> QED
    BY <1>4, <2>2, <2>3, <2>4, <2>5
<1>6. QueuePart /\ InsidePart /\ RowPart /\ NumberPart
  BY DEF OrderInv
<1>7. /\ \A n \in 1 .. Len(q) : wpc[q[n]] = "wait" /\ q[n] \in Writer
      /\ \A n, m \in 1 .. Len(q) :
           n < m => /\ q[n] # q[m]
                    /\ phase[q[n]] = "set" => NotAfter(call[q[n]].val, q[m])
      /\ \A k \in Key, n \in 1 .. Len(q) : NotAfter(db[k].val, q[n])
  BY <1>1, <1>6, Waiting DEF QueuePart, RowPart
<1> HIDE DEF q
<1>8. \A x \in Writer : InSection(x)' => x = w
  BY <1>1, <1>2 DEF InSection, TypeOK
<1>9. QueuePart'
  <2>1. ASSUME NEW n \in 1 .. Len(queue'[s])
        PROVE  wpc'[queue'[s][n]] = "wait"
    <3>1. queue'[s][n] = q[n + 1] /\ n + 1 \in 1 .. Len(q) /\ 1 < n + 1
      BY <1>5
    <3>2. q[n + 1] # w /\ wpc[q[n + 1]] = "wait" /\ q[n + 1] \in Writer
      BY <1>5, <1>7, <3>1
    <3> QED
      BY <1>2, <3>1, <3>2 DEF TypeOK
  <2>2. ASSUME NEW n \in 1 .. Len(queue'[s]), NEW m \in 1 .. Len(queue'[s]),
               n < m
        PROVE  /\ queue'[s][n] # queue'[s][m]
               /\ phase[queue'[s][n]] = "set" =>
                    NotAfter(call[queue'[s][n]].val, queue'[s][m])
    <3>1. n + 1 < m + 1
      BY <1>5, <2>2
    <3> QED
      BY <1>5, <1>7, <3>1
  <2>3. \A u \in Scopes : u = s
    BY <1>1
  <2>4. ASSUME NEW u \in Scopes
        PROVE  /\ \A n \in 1 .. Len(queue'[u]) : wpc'[queue'[u][n]] = "wait"
               /\ \A n, m \in 1 .. Len(queue'[u]) :
                    n < m => queue'[u][n] # queue'[u][m]
    BY <2>1, <2>2, <2>3
  <2>5. ASSUME NEW u \in Scopes, NEW n \in 1 .. Len(queue'[u]),
               NEW m \in 1 .. Len(queue'[u]), n < m,
               phase'[queue'[u][n]] = "set", phase'[queue'[u][m]] = "set"
        PROVE  call'[queue'[u][n]].val <= call'[queue'[u][m]].val
    <3>1. u = s
      BY <2>3
    <3>2. phase[queue'[s][n]] = "set" =>
            NotAfter(call[queue'[s][n]].val, queue'[s][m])
      BY <2>2, <2>5, <3>1
    <3> QED
      BY <1>2, <2>5, <3>1, <3>2 DEF NotAfter
  <2>6. ASSUME NEW u \in Scopes, NEW n \in 1 .. Len(queue'[u]),
               NEW m \in 1 .. Len(queue'[u]), n < m
        PROVE  phase'[queue'[u][n]] = "set" =>
                 NotAfter(call[queue[u][n]].val, queue[u][m])'
    BY <2>5, <2>6 DEF NotAfter
  <2> QED
    BY <2>4, <2>6 DEF QueuePart
<1>10. InsidePart'
  BY <1>1, <1>2, <1>5, <1>7, <1>8 DEF InsidePart, NotAfter
<1>11. RowPart'
  <2>1. \A k \in Key, n \in 1 .. Len(queue'[s]) :
          NotAfter(db[k].val, queue'[s][n])
    BY <1>5, <1>7
  <2>2. \A k \in Key, x \in Writer : wpc'[x] = "db" => NotAfter(db[k].val, x)
    BY <1>5, <1>7, <1>8 DEF InSection
  <2> QED
    BY <1>1, <1>2, <2>1, <2>2 DEF RowPart, NotAfter
<1>12. NumberPart'
  BY <1>2, <1>6 DEF NumberPart
<1> QED
  BY <1>9, <1>10, <1>11, <1>12 DEF OrderInv

\* A row the database has executed has the value of the call, or none.
LEMMA AppliedValues ==
  ASSUME TypeOK, NEW w \in Writer, NEW A, Applied(w, A), NEW k \in Key
  PROVE  \/ db'[k].val = db[k].val
         \/ phase[w] = "set" /\ db'[k].val = call[w].val
         \/ db'[k].val = 0
BY DEF Applied, Upsert, NoRow

\* What the one inside writes is older than what the others have to write.
LEMMA OrderApplied ==
  ASSUME OneProcess, TypeOK, HolderInv, OrderInv,
         NEW w \in Writer, NEW A, wpc[w] = "db", Applied(w, A),
         NEW to \in {"landed", "failed"}, wpc' = [wpc EXCEPT ![w] = to],
         UNCHANGED <<queue, call, phase, writes>>
  PROVE  OrderInv'
<1>1. QueuePart /\ InsidePart /\ RowPart /\ NumberPart
  BY DEF OrderInv
<1>2. /\ queue' = queue /\ call' = call /\ phase' = phase /\ writes' = writes
      /\ wpc'[w] = to /\ \A x \in Writer : x # w => wpc'[x] = wpc[x]
  BY DEF TypeOK
<1>3. InSection(w)
  BY DEF InSection
<1>4. \A x \in Writer : InSection(x) => x = w
  BY <1>3, OnlyProcess
<1>5. /\ \A k \in Key : db[k].val \in Nat /\ 0 <= call[w].val
      /\ \A x \in Writer : call[x].val \in Nat /\ writes \in Nat
  BY Fields DEF TypeOK
<1>6. ASSUME NEW s \in Scopes, NEW n \in 1 .. Len(queue[s])
      PROVE  /\ queue[s][n] \in Writer /\ wpc[queue[s][n]] = "wait"
             /\ wpc'[queue[s][n]] = "wait"
  <2>1. queue[s][n] \in Writer /\ wpc[queue[s][n]] = "wait"
    BY <1>1, Waiting
  <2>2. queue[s][n] # w
    BY <2>1
  <2> QED
    BY <1>2, <2>1, <2>2
<1>7. QueuePart'
  BY <1>1, <1>2, <1>6 DEF QueuePart, NotAfter
<1>8. InsidePart'
  <2>1. \A x \in Writer : InSection(x)' => InSection(x)
    BY <1>2, <1>3 DEF InSection
  <2> QED
    BY <1>1, <1>2, <2>1 DEF InsidePart, NotAfter
<1>9. RowPart'
  <2>1. ASSUME NEW k \in Key, NEW s \in Scopes, NEW n \in 1 .. Len(queue[s]),
               phase[queue[s][n]] = "set"
        PROVE  db'[k].val <= call[queue[s][n]].val
    <3>1. CASE db'[k].val = db[k].val
      BY <1>1, <2>1, <3>1 DEF RowPart, NotAfter
    <3>2. CASE phase[w] = "set" /\ db'[k].val = call[w].val
      BY <1>1, <1>3, <2>1, <3>2 DEF InsidePart, NotAfter
    <3>3. CASE db'[k].val = 0
      BY <1>5, <1>6, <3>3
    <3> QED
      BY <3>1, <3>2, <3>3, AppliedValues
  <2>2. \A x \in Writer : wpc'[x] # "db"
    BY <1>2, <1>4 DEF InSection
  <2> QED
    BY <1>2, <2>1, <2>2 DEF RowPart, NotAfter
<1>10. NumberPart'
  <2>1. ASSUME NEW k \in Key PROVE db'[k].val <= writes
    <3>1. db[k].val <= writes /\ call[w].val <= writes /\ 0 <= writes
      BY <1>1, <1>5 DEF NumberPart
    <3> QED
      BY <3>1, AppliedValues
  <2> QED
    BY <1>1, <1>2, <2>1 DEF NumberPart
<1> QED
  BY <1>7, <1>8, <1>9, <1>10 DEF OrderInv

\* The calls' numbers are never above the number of calls.
LEMMA LeaveNumbers ==
  ASSUME TypeOK, NumberPart, NEW W, Leave(W)
  PROVE  \A x \in Writer : call'[x].val <= writes
<1>1. \A x \in Writer : call'[x] = IF x \in W THEN NoCall ELSE call[x]
  BY DEF Leave
<1>2. NoCall.val = 0 /\ 0 <= writes
  BY DEF NoCall, TypeOK
<1> QED
  BY <1>1, <1>2 DEF NumberPart

LEMMA OrderStep ==
  OneProcess /\ TypeOK /\ HolderInv /\ OrderInv /\ [Next]_vars => OrderInv'
<1> SUFFICES ASSUME OneProcess, TypeOK, HolderInv, OrderInv, [Next]_vars
             PROVE  OrderInv'
  OBVIOUS
<1>0. NumberPart
  BY DEF OrderInv
<1>1. ASSUME NEW w \in Writer, NEW i \in Instance,
             NEW S \in SUBSET Key, NEW D \in SUBSET Key,
             StartWrite(w, i, S, D)
      PROVE  OrderInv'
  <2>1. /\ wpc[w] = "idle" /\ wpc' = [wpc EXCEPT ![w] = "wait"]
        /\ Enqueue(w, i) /\ db' = db /\ writes' = writes + 1
        /\ phase' = [phase EXCEPT ![w] = IF S # {} THEN "set" ELSE "del"]
        /\ call' = [call EXCEPT ![w] = [inst |-> i, sets |-> S, dels |-> D,
                                        val |-> writes', at |-> 0]]
    BY <1>1 DEF StartWrite, storeVars, dbVars
  <2>2. \A x \in Writer : x # w =>
          phase'[x] = phase[x] /\ call'[x].val = call[x].val
    BY <2>1 DEF TypeOK
  <2>3. call'[w].val = writes + 1
    BY <2>1 DEF TypeOK
  <2>4. /\ writes \in Nat
        /\ \A x \in Writer : call[x].val \in Nat /\ call[x].val <= writes
        /\ \A k \in Key : db[k].val \in Nat /\ db[k].val <= writes
    BY <1>0, Fields DEF NumberPart, TypeOK
  <2>5. /\ \A x \in Writer : x # w => call[x].val <= call'[w].val
        /\ \A k \in Key : db[k].val <= call'[w].val
    BY <2>3, <2>4
  <2>6. \A v \in Nat : v <= writes => v <= writes'
    BY <2>1, <2>4
  <2>7. writes + 1 <= writes'
    BY <2>1, <2>4
  <2>8. NumberPart'
    <3>1. ASSUME NEW x \in Writer PROVE call'[x].val <= writes'
      BY <2>2, <2>3, <2>4, <2>6, <2>7
    <3>2. \A k \in Key : db'[k].val <= writes'
      BY <2>1, <2>4, <2>6
    <3> QED
      BY <3>1, <3>2 DEF NumberPart
  <2> QED
    BY <2>1, <2>2, <2>5, <2>8, OrderEnqueue
<1>2. ASSUME NEW w \in Writer, Acquire(w) PROVE OrderInv'
  BY <1>2, OrderAcquire
<1>3. ASSUME NEW w \in Writer, DbWrite(w) PROVE OrderInv'
  BY <1>3, OrderApplied DEF DbWrite, lockVars, boundVars
<1>4. ASSUME NEW w \in Writer, DbFail(w) PROVE OrderInv'
  BY <1>4, OrderApplied DEF DbFail, lockVars, boundVars
<1>5. ASSUME NEW w \in Writer, NextSection(w) PROVE OrderInv'
  <2>1. /\ Inst(w) \in Instance /\ wpc[w] # "wait" /\ Enqueue(w, Inst(w))
        /\ wpc' = [wpc EXCEPT ![w] = "wait"]
        /\ phase' = [phase EXCEPT ![w] = "del"]
        /\ call' = call /\ db' = db /\ writes' = writes
    BY <1>5, Fields DEF NextSection, storeVars, dbVars, boundVars
  <2>2. \A x \in Writer : x # w =>
          phase'[x] = phase[x] /\ call'[x].val = call[x].val
    BY <2>1 DEF TypeOK
  <2>3. phase'[w] # "set"
    BY <2>1 DEF TypeOK
  <2>4. NumberPart'
    BY <1>0, <2>1 DEF NumberPart
  <2> QED
    BY <2>1, <2>2, <2>3, <2>4, OrderEnqueue
<1>6. ASSUME NEW w \in Writer, Return(w) PROVE OrderInv'
  <2>1. Leave({w}) /\ wpc[w] # "wait" /\ UNCHANGED <<queue, db, writes>>
    BY <1>6 DEF Return, SectionOver, storeVars, dbVars, boundVars
  <2>2. \A x \in Writer : call'[x].val <= writes
    BY <1>0, <2>1, LeaveNumbers
  <2>3. \A x \in Writer : wpc[x] = "wait" =>
          /\ wpc'[x] = "wait"
          /\ phase'[x] = phase[x] /\ call'[x].val = call[x].val
    BY <2>1 DEF Leave
  <2>4. \A x \in Writer : wpc'[x] = IF x = w THEN "idle" ELSE wpc[x]
    BY <2>1 DEF Leave
  <2>5. \A x \in Writer : InSection(x)' =>
          InSection(x) /\ phase'[x] = phase[x] /\ call'[x].val = call[x].val
    BY <2>1, <2>4 DEF Leave, InSection
  <2>6. \A x \in Writer : wpc'[x] = "db" => wpc[x] = "db"
    BY <2>4
  <2> QED
    BY <2>1, <2>2, <2>3, <2>5, <2>6, OrderFrame
<1>7. ASSUME NEW i \in Instance, Crash(i) PROVE OrderInv'
  <2> DEFINE dead == {w \in Writer : wpc[w] # "idle" /\ Inst(w) = i}
  <2>1. Leave(dead) /\ queue' = [queue EXCEPT ![i] = << >>]
        /\ db' = db /\ writes' = writes
    BY <1>7 DEF Crash, OneProcess, dbVars
  <2>2. \A s \in Scopes : queue'[s] = << >>
    BY <2>1, OnlyProcess DEF TypeOK
  <2>3. \A x \in Writer : Inst(x) = i
    BY Fields DEF OneProcess
  <2>4. \A x \in Writer : wpc'[x] = "idle"
    BY <2>1, <2>3 DEF Leave
  <2>5. \A s \in Scopes : 1 .. Len(queue'[s]) = {}
    BY <2>2
  <2>6. \A x \in Writer : call'[x].val <= writes
    BY <1>0, <2>1, LeaveNumbers
  <2>7. QueuePart' /\ InsidePart'
    BY <2>5 DEF QueuePart, InsidePart
  <2>8. RowPart'
    BY <2>4, <2>5 DEF RowPart
  <2>9. NumberPart'
    BY <1>0, <2>1, <2>6 DEF NumberPart
  <2> QED
    BY <2>7, <2>8, <2>9 DEF OrderInv
<1>8. ASSUME NEW w \in Writer,
             Landed(w) \/ \E k \in Key : L2Write(w, k) \/ Publish(w, k)
      PROVE  OrderInv'
  <2>1. /\ UNCHANGED <<queue, db, writes>> /\ phase' = phase
        /\ wpc[w] \in {"landed", "cache"}
        /\ \A x \in Writer : wpc'[x] = IF x = w THEN "cache" ELSE wpc[x]
        /\ \A x \in Writer : call'[x].val = call[x].val
    <3>1. CASE Landed(w)
      <4>1. \A x \in Writer : call'[x].val = call[x].val
        BY <3>1 DEF Landed, TypeOK, Call
      <4> QED
        BY <3>1, <4>1
           DEF Landed, lockVars, dbVars, boundVars, TypeOK
    <3>2. ASSUME NEW k \in Key, L2Write(w, k) \/ Publish(w, k)
          PROVE  /\ UNCHANGED <<queue, db, writes>> /\ phase' = phase
                 /\ wpc' = wpc /\ call' = call /\ wpc[w] = "cache"
      BY <3>2 DEF L2Write, Publish, lockVars, dbVars, boundVars
    <3> QED
      BY <1>8, <3>1, <3>2
  <2>2. \A x \in Writer : call'[x].val = call[x].val
    BY <2>1
  <2>3. \A x \in Writer : call'[x].val <= writes
    BY <1>0, <2>2 DEF NumberPart
  <2>4. \A x \in Writer : /\ InSection(x)' => InSection(x)
                          /\ wpc'[x] = "db" => wpc[x] = "db"
                          /\ wpc[x] = "wait" => wpc'[x] = "wait"
    BY <2>1 DEF InSection, TypeOK
  <2> QED
    BY <2>1, <2>2, <2>3, <2>4, OrderFrame
<1>9. CASE UNCHANGED <<lockVars, writerVars, db, writes>>
  <2>1. UNCHANGED <<queue, db, writes>> /\ call' = call /\ phase' = phase
        /\ wpc' = wpc
    BY <1>9 DEF lockVars, writerVars
  <2>2. \A x \in Writer : InSection(x)' => InSection(x)
    BY <2>1 DEF InSection
  <2> QED
    BY <1>0, <2>1, <2>2, OrderFrame DEF NumberPart
<1>10. ASSUME NEW r \in Reader,
              \/ \E i \in Instance, k \in Key : ReadStart(r, i, k)
              \/ ReaderStep(r)
       PROVE  UNCHANGED <<lockVars, writerVars, db, writes>>
  BY <1>10 DEF ReadStart, ReaderStep, L2Answer, Checked, L2Resume, DbAnswer,
               DbResume, L2Fill, storeVars, dbVars, boundVars
<1>11. ASSUME \/ \E i \in Instance : Subscribe(i) \/ Deliver(i)
              \/ \E i \in Instance, k \in Key : Expire(i, k)
              \/ \E k \in Key : L2Evict(k)
              \/ Tick
              \/ UNCHANGED vars
       PROVE  UNCHANGED <<lockVars, writerVars, db, writes>>
  BY <1>11 DEF Subscribe, Deliver, Expire, L2Evict, Tick, vars, storeVars,
               dbVars, boundVars
<1>12. /\ \A w \in Writer : ~ GiveUp(w)
       /\ \A s \in Scopes : ~ LeaseExpire(s)
  BY DEF GiveUp, LeaseExpire, OneProcess
<1> QED
  BY <1>1, <1>2, <1>3, <1>4, <1>5, <1>6, <1>7, <1>8, <1>9, <1>10, <1>11, <1>12
  DEF Next, WriterStep, Environment

\* Only the database's own steps change a row, by one call's section.
LEMMA RowChange ==
  ASSUME TypeOK, [Next]_vars, NEW k \in Key, db'[k] # db[k]
  PROVE  \E w \in Writer, A \in SUBSET Key : wpc[w] = "db" /\ Applied(w, A)
<1> SUFFICES ASSUME db' # db
             PROVE  \E w \in Writer, A \in SUBSET Key :
                      wpc[w] = "db" /\ Applied(w, A)
  OBVIOUS
<1>1. ASSUME NEW w \in Writer, DbWrite(w)
      PROVE  wpc[w] = "db" /\ Applied(w, Batch(w)) /\ Batch(w) \in SUBSET Key
  BY <1>1, Fields DEF DbWrite
<1>2. ASSUME NEW w \in Writer, DbFail(w)
      PROVE  \E A \in SUBSET Key : wpc[w] = "db" /\ Applied(w, A)
  BY <1>2, Fields DEF DbFail
<1>3. ASSUME NEW w \in Writer, NEW i \in Instance,
             NEW S \in SUBSET Key, NEW D \in SUBSET Key
      PROVE  ~ StartWrite(w, i, S, D)
  BY DEF StartWrite, storeVars, dbVars
<1>4. ASSUME NEW w \in Writer
      PROVE  /\ ~ Acquire(w) /\ ~ GiveUp(w) /\ ~ Landed(w)
             /\ ~ NextSection(w) /\ ~ Return(w)
             /\ \A j \in Key : ~ L2Write(w, j) /\ ~ Publish(w, j)
  BY DEF Acquire, GiveUp, Landed, NextSection, Return, L2Write, Publish,
         storeVars, dbVars
<1>5. ASSUME NEW r \in Reader
      PROVE  /\ ~ ReaderStep(r)
             /\ \A i \in Instance, j \in Key : ~ ReadStart(r, i, j)
  BY DEF ReadStart, ReaderStep, L2Answer, Checked, L2Resume, DbAnswer,
         DbResume, L2Fill, storeVars, dbVars
<1>6. ~ Environment
  BY DEF Environment, Subscribe, Deliver, Crash, Expire, L2Evict, LeaseExpire,
         Tick, storeVars, dbVars
<1>7. ~ UNCHANGED vars
  BY DEF vars, storeVars, dbVars
<1>8. PICK w \in Writer : DbWrite(w) \/ DbFail(w)
  BY <1>3, <1>4, <1>5, <1>6, <1>7 DEF Next, WriterStep
<1> QED
  BY <1>1, <1>2, <1>8

(* Last write wins within one process: a row never goes back from the value *)
(* of a later keys.set to that of an earlier one, whatever waits, fails or  *)
(* crashes (mutex-lock.ts, factory.ts:157-205).                       *)
THEOREM LastCallWins == Spec => LastSetCallWins
<1>1. OneProcess /\ Init => OrderInv
  <2> SUFFICES ASSUME OneProcess, Init PROVE OrderInv
    OBVIOUS
  <2>1. \A s \in Scopes : 1 .. Len(queue[s]) = {}
    BY DEF Init
  <2>2. \A w \in Writer : wpc[w] = "idle" /\ call[w].val = 0
    BY DEF Init, NoCall
  <2>3. \A k \in Key : db[k].val = 0
    BY DEF Init, NoRow
  <2>4. QueuePart /\ InsidePart
    BY <2>1 DEF QueuePart, InsidePart
  <2>5. RowPart /\ NumberPart
    BY <2>1, <2>2, <2>3 DEF RowPart, NumberPart, Init
  <2> QED
    BY <2>4, <2>5 DEF OrderInv
<1>2. ASSUME TypeOK, OneProcess => OrderInv, [Next]_vars, OneProcess,
             NEW k \in Key, db'[k].val # 0
      PROVE  db'[k].val >= db[k].val
  <2>1. db[k].val \in Nat
    BY <1>2, Fields
  <2>2. CASE db'[k] = db[k]
    BY <2>1, <2>2
  <2>3. CASE db'[k] # db[k]
    <3>1. PICK w \in Writer, A \in SUBSET Key : wpc[w] = "db" /\ Applied(w, A)
      BY <1>2, <2>3, RowChange
    <3>2. CASE phase[w] = "set" /\ db'[k].val = call[w].val
      <4>1. db[k].val <= call[w].val
        BY <1>2, <3>1, <3>2 DEF OrderInv, RowPart, NotAfter
      <4>2. call[w].val \in Nat
        BY <1>2, Fields
      <4> QED
        BY <2>1, <3>2, <4>1, <4>2
    <3>3. CASE db'[k].val = db[k].val
      BY <2>1, <3>3
    <3> QED
      BY <1>2, <3>1, <3>2, <3>3, AppliedValues
  <2> QED
    BY <2>2, <2>3
<1>3. TypeOK /\ (OneProcess => OrderInv) /\ [Next]_vars =>
        [(Mode # "tcp" /\ \A i, j \in Instance : i = j) =>
           \A k \in Key : db'[k].val # 0 => db'[k].val >= db[k].val]_vars
  BY <1>2 DEF OneProcess
<1>4. TypeOK /\ HolderInv /\ (OneProcess => OrderInv) /\ [Next]_vars =>
        (OneProcess => OrderInv)'
  BY OrderStep DEF OneProcess
<1>5. Init => HolderInv /\ (OneProcess => OrderInv)
  BY <1>1 DEF Init, HolderInv, HoldPart, SolePart, MutexPart, Protected, InSection
<1> QED
  BY <1>3, <1>4, <1>5, HolderStep, TypeCorrect, PTL DEF Spec, LastSetCallWins
=============================================================================
