---------------------- MODULE HybridAuthFreshnessProofs ----------------------
(* While all writes of a session go through one lock, Redis and the memory   *)
(* caches follow the database, but for what faults, overtaken reads and      *)
(* sections that outlive their lock leave behind.                            *)
EXTENDS HybridAuthCoherenceProofs

(* With one lock, the rows of a section that has landed stay what it wrote   *)
(* while it has the lock to itself: this is what the lock is there for.      *)
Committed ==
  OneLock => \A w \in Writer :
    wpc[w] \in {"landed", "cache"} /\ lease[w] = "sole" =>
      \A k \in Batch(w) : db[k].val = Told(w)

\* With one lock, no other call is between lock and unlock beside a section
\* that has the lock to itself.
LEMMA Alone ==
  ASSUME TypeOK, HolderInv, OneLock, NEW w \in Writer, NEW x \in Writer,
         InSection(w), InSection(x), lease[w] = "sole"
  PROVE  x = w
PROOF
  <1>1. Scope(Inst(w)) = Scope(Inst(x))
    BY Fields DEF OneLock, Scope
  <1>. QED
    BY <1>1 DEF HolderInv, SolePart

(* A section that does not have the lock to itself may leave an old value in *)
(* a cache, and marks it then.                                               *)
LEMMA UpdateFresh ==
  ASSUME NEW c, NEW w, NEW K, NEW t, NEW k \in Key, k \in K,
         Present(Update(c, w, K, t)[k]), Update(c, w, K, t)[k].ok
  PROVE  lease[w] = "sole" \/ Update(c, w, K, t)[k].val = db[k].val
BY DEF Update, Written, NoEntry, Present

\* A row only changes in a section that then becomes "landed" or "failed".
LEMMA RowsFrame ==
  ASSUME TypeOK, [Next]_vars, db' # db
  PROVE  \E w \in Writer : DbWrite(w) \/ DbFail(w)
PROOF
  <1>1. ASSUME NEW w \in Writer,
               \/ \E i \in Instance, S, D \in SUBSET Key :
                    StartWrite(w, i, S, D)
               \/ Acquire(w) \/ GiveUp(w) \/ Landed(w)
               \/ \E j \in Key : L2Write(w, j) \/ Publish(w, j)
               \/ NextSection(w) \/ Return(w)
        PROVE  UNCHANGED db
    BY <1>1 DEF StartWrite, Acquire, GiveUp, Landed, L2Write, Publish,
                NextSection, Return, storeVars, dbVars
  <1>2. ASSUME NEW r \in Reader,
               \/ \E i \in Instance, j \in Key : ReadStart(r, i, j)
               \/ ReaderStep(r)
        PROVE  UNCHANGED db
    BY <1>2, ReadsMoveNoCall DEF dbVars
  <1>3. ASSUME Environment \/ UNCHANGED vars PROVE UNCHANGED db
    BY <1>3 DEF Environment, Subscribe, Deliver, Crash, Expire, L2Evict,
                LeaseExpire, Tick, vars, storeVars, dbVars
  <1>. QED
    BY <1>1, <1>2, <1>3 DEF Next, WriterStep

\* A step of one call leaves the leases of the others alone.
LEMMA LeaseStays ==
  ASSUME TypeOK, NEW w \in Writer, NEW x \in Writer, x # w,
         \/ \E i \in Instance, S, D \in SUBSET Key : StartWrite(w, i, S, D)
         \/ WriterStep(w)
  PROVE  lease'[x] = lease[x]
BY DEF StartWrite, WriterStep, Acquire, GiveUp, DbWrite, DbFail, Landed, L2Write,
       Publish, NextSection, Return, Leave, lockVars, TypeOK

(* A call that is in "landed" or "cache" after a step was there before with  *)
(* the same batch and the same value, and had the lock to itself if it does  *)
(* now, or the step is its DbWrite.                                          *)
LEMMA LandedFrame ==
  ASSUME TypeOK, [Next]_vars, NEW x \in Writer, wpc'[x] \in {"landed", "cache"}
  PROVE  \/ DbWrite(x)
         \/ /\ wpc[x] \in {"landed", "cache"}
            /\ Batch(x)' = Batch(x) /\ Told(x)' = Told(x)
            /\ lease'[x] = "sole" => lease[x] = "sole"
PROOF
  <1>1. ASSUME NEW w \in Writer, w # x,
               \/ \E i \in Instance, S, D \in SUBSET Key :
                    StartWrite(w, i, S, D)
               \/ WriterStep(w)
        PROVE  /\ wpc[x] \in {"landed", "cache"}
               /\ Batch(x)' = Batch(x) /\ Told(x)' = Told(x)
               /\ lease'[x] = lease[x]
    BY <1>1, OthersStay, LeaseStays DEF Told
  <1>2. ASSUME \/ \E i \in Instance, S, D \in SUBSET Key :
                    StartWrite(x, i, S, D)
               \/ Acquire(x) \/ GiveUp(x) \/ DbFail(x)
               \/ NextSection(x) \/ Return(x)
        PROVE  FALSE
    BY <1>2 DEF StartWrite, Acquire, GiveUp, DbFail, NextSection, Return, Leave,
                TypeOK
  <1>3. CASE Landed(x)
    <2>1. /\ wpc[x] = "landed" /\ phase' = phase /\ lease' = lease
          /\ call'[x] = [call[x] EXCEPT !.at = clock]
      BY <1>3 DEF Landed, lockVars, TypeOK
    <2>2. /\ call'[x].sets = call[x].sets /\ call'[x].dels = call[x].dels
          /\ call'[x].val = call[x].val
      BY <2>1 DEF TypeOK, Call
    <2>. QED
      BY <2>1, <2>2 DEF Batch, Told
  <1>4. CASE \E k \in Key : L2Write(x, k) \/ Publish(x, k)
    BY <1>4 DEF L2Write, Publish, Batch, Told, lockVars
  <1>5. ASSUME NEW i \in Instance, Crash(i)
        PROVE  /\ wpc[x] \in {"landed", "cache"}
               /\ Batch(x)' = Batch(x) /\ Told(x)' = Told(x)
               /\ lease'[x] = lease[x]
    BY <1>5, CrashLeaves DEF Crash, Leave, Told
  <1>6. ASSUME NEW r \in Reader,
               \/ \E i \in Instance, k \in Key : ReadStart(r, i, k)
               \/ ReaderStep(r)
        PROVE  UNCHANGED <<writerVars, lease>>
    BY <1>6, ReadsMoveNoCall DEF lockVars
  <1>7. ASSUME \/ \E i \in Instance : Subscribe(i) \/ Deliver(i)
               \/ \E i \in Instance, k \in Key : Expire(i, k)
               \/ \E k \in Key : L2Evict(k)
               \/ Tick \/ UNCHANGED vars
        PROVE  UNCHANGED <<writerVars, lease>>
    BY <1>7 DEF Subscribe, Deliver, Expire, L2Evict, Tick, vars, lockVars
  <1>8. CASE UNCHANGED <<writerVars, lease>>
    BY <1>8 DEF writerVars, Batch, Told
  <1>9. ASSUME NEW s \in Scopes, LeaseExpire(s)
        PROVE  /\ UNCHANGED writerVars
               /\ lease'[x] \in {"lapsed", lease[x]}
    BY <1>9 DEF LeaseExpire
  <1>10. CASE UNCHANGED writerVars /\ lease'[x] \in {"lapsed", lease[x]}
    BY <1>10 DEF writerVars, Batch, Told
  <1>. QED
    BY <1>1, <1>2, <1>3, <1>4, <1>5, <1>6, <1>7, <1>8, <1>9, <1>10
    DEF Next, WriterStep, Environment

\* The lock keeps the rows of a landed section what they are.
LEMMA CommittedStep ==
  ASSUME TypeOK, HolderInv, Committed, [Next]_vars
  PROVE  Committed'
PROOF
  <1>. SUFFICES ASSUME OneLock, NEW x \in Writer,
                       wpc'[x] \in {"landed", "cache"}, lease'[x] = "sole",
                       NEW k \in Batch(x)'
                PROVE  db'[k].val = Told(x)'
    BY DEF Committed, OneLock
  <1>1. CASE DbWrite(x)
    <2>1. Batch(x)' = Batch(x) /\ Told(x)' = Told(x) /\ k \in Key
      BY <1>1, Fields DEF DbWrite, Batch, Told
    <2>2. db'[k] = IF phase[x] = "set" THEN Upsert(db[k], call[x].val)
                                       ELSE NoRow
      BY <1>1, <2>1 DEF DbWrite, Applied
    <2>. QED
      BY <2>1, <2>2 DEF Upsert, NoRow, Told
  <1>2. CASE /\ wpc[x] \in {"landed", "cache"}
             /\ Batch(x)' = Batch(x) /\ Told(x)' = Told(x)
             /\ lease[x] = "sole"
    <2>1. ASSUME NEW w \in Writer, DbWrite(w) \/ DbFail(w) PROVE FALSE
      <3>1. InSection(w) /\ InSection(x) /\ wpc[w] = "db"
        BY <1>2, <2>1 DEF DbWrite, DbFail, InSection
      <3>. QED
        BY <1>2, <3>1, Alone
    <2>2. db' = db
      BY <2>1, RowsFrame
    <2>. QED
      BY <1>2, <2>2 DEF Committed
  <1>. QED
    BY <1>1, <1>2, LandedFrame

-----------------------------------------------------------------------------
\* Without Redis nothing is in it, or on its way to it.
NoRedis ==
  Mode = "none" => /\ \A k \in Key : l2[k].val = 0
                   /\ \A w \in Writer, k \in Key : fan[w][k] = "done"
                   /\ \A r \in Reader : rpc[r] # "fill"

\* It stays empty.
LEMMA NoRedisStep ==
  ASSUME TypeOK, FanInv, NoRedis, [Next]_vars
  PROVE  NoRedis'
PROOF
  <1>. SUFFICES ASSUME Mode = "none" PROVE NoRedis'
    BY DEF NoRedis
  <1>. DEFINE Empty == \A k \in Key : l2[k].val = 0
              Told0 == \A w \in Writer, k \in Key : fan[w][k] = "done"
              NoFill == \A r \in Reader : rpc[r] # "fill"
  <1>. Empty /\ Told0 /\ NoFill
    BY DEF NoRedis
  <1>1. ASSUME NEW w \in Writer,
               \/ \E i \in Instance, S, D \in SUBSET Key :
                    StartWrite(w, i, S, D)
               \/ Acquire(w) \/ GiveUp(w) \/ DbWrite(w)
               \/ NextSection(w) \/ Return(w)
        PROVE  NoRedis'
    <2>1. UNCHANGED <<l2, rpc>>
      BY <1>1 DEF StartWrite, Acquire, GiveUp, DbWrite, NextSection, Return,
                  storeVars, readerVars
    <2>2. fan'[w] \in {Done, fan[w]}
      BY <1>1 DEF StartWrite, Acquire, GiveUp, DbWrite, NextSection, Return,
                  Leave, TypeOK
    <2>3. \A x \in Writer \ {w} : fan'[x] = fan[x]
      BY <1>1, OthersStay DEF WriterStep
    <2>. QED
      BY <2>1, <2>2, <2>3 DEF NoRedis, Done
  <1>2. ASSUME NEW w \in Writer, DbFail(w) PROVE NoRedis'
    <2>1. UNCHANGED <<fan, rpc>> /\ \E A : l2' = Missed(l2, A)
      BY <1>2 DEF DbFail, readerVars
    <2>2. l2 \in [Key -> Entry]
      BY DEF TypeOK
    <2>. QED
      BY <2>1, <2>2, MissedEntry DEF NoRedis
  <1>3. ASSUME NEW w \in Writer, Landed(w) PROVE NoRedis'
    <2>1. UNCHANGED <<l2, rpc>>
      BY <1>3 DEF Landed, readerVars
    <2>2. \A k \in Key : fan'[w][k] = "done"
      BY <1>3 DEF Landed, TypeOK
    <2>3. \A x \in Writer \ {w} : fan'[x] = fan[x]
      BY <1>3, OthersStay DEF WriterStep
    <2>. QED
      BY <2>1, <2>2, <2>3 DEF NoRedis
  <1>4. ASSUME NEW w \in Writer, NEW k \in Key, L2Write(w, k) \/ Publish(w, k)
        PROVE  FALSE
    BY <1>4 DEF L2Write, Publish
  <1>5. ASSUME NEW r \in Reader,
               \/ \E i \in Instance, k \in Key : ReadStart(r, i, k)
               \/ ReaderStep(r)
        PROVE  NoRedis'
    <2>1. UNCHANGED l2
      BY <1>5 DEF ReadStart, ReaderStep, L2Answer, Checked, L2Resume, DbAnswer,
                  DbResume, L2Fill, storeVars
    <2>2. UNCHANGED fan
      BY <1>5, ReadsMoveNoCall DEF writerVars
    <2>3. NoFill'
      BY <1>5 DEF ReadStart, ReaderStep, L2Answer, Checked, L2Resume, DbAnswer,
                  DbResume, L2Fill, ReadOn, TypeOK
    <2>. QED
      BY <2>1, <2>2, <2>3 DEF NoRedis
  <1>6. ASSUME NEW i \in Instance, Crash(i) PROVE NoRedis'
    <2>1. \E A : l2' = Missed(l2, A)
      BY <1>6 DEF Crash
    <2>2. l2 \in [Key -> Entry]
      BY DEF TypeOK
    <2>3. \A k \in Key : l2'[k].val = 0
      BY <2>1, <2>2, MissedEntry
    <2>4. \A w \in Writer : fan'[w] \in {Done, fan[w]}
      BY <1>6 DEF Crash, Leave
    <2>5. \A r \in Reader : rpc'[r] \in {"idle", rpc[r]}
      BY <1>6 DEF Crash
    <2>. QED
      BY <2>3, <2>4, <2>5 DEF NoRedis, Done
  <1>7. ASSUME NEW k \in Key, L2Evict(k) PROVE FALSE
    BY <1>7 DEF L2Evict, Present
  <1>8. ASSUME \/ \E i \in Instance : Subscribe(i) \/ Deliver(i)
               \/ \E i \in Instance, k \in Key : Expire(i, k)
               \/ \E s \in Scopes : LeaseExpire(s)
               \/ Tick \/ UNCHANGED vars
        PROVE  UNCHANGED <<l2, fan, rpc>>
    BY <1>8 DEF Subscribe, Deliver, Expire, LeaseExpire, Tick, vars, storeVars,
                writerVars, readerVars
  <1>9. CASE UNCHANGED <<l2, fan, rpc>>
    BY <1>9 DEF NoRedis
  <1>. QED
    BY <1>1, <1>2, <1>3, <1>4, <1>5, <1>6, <1>7, <1>8, <1>9
    DEF Next, WriterStep, Environment

-----------------------------------------------------------------------------
(* Redis follows the database. *)

\* The entry of k is the database's, or somebody owes its replacement.
L2Fresh(k) == Present(l2[k]) /\ l2[k].ok =>
                Current(k, l2[k]) \/ \E w \in Writer : k \in OwedToL2(w)

\* Only a section that has landed owes anything.
LEMMA OwesWhenLanded ==
  ASSUME FanInv, NEW w \in Writer, NEW k \in Key
  PROVE  /\ wpc[w] \notin {"landed", "cache"} => k \notin OwedToL2(w)
         /\ k \in OwedToL2(w) =>
              (wpc[w] = "landed" /\ k \in Batch(w)) \/ fan[w][k] = "l2"
         /\ fan[w][k] = "l2" => k \in OwedToL2(w)
BY DEF FanInv, OwedToL2

\* Nothing that keeps the row, the entry and the debts disturbs it.
LEMMA L2FreshFrame ==
  ASSUME NEW k \in Key, L2Fresh(k), db'[k] = db[k],
         l2'[k] = l2[k] \/ ~ (Present(l2'[k]) /\ l2'[k].ok),
         \A w \in Writer : k \in OwedToL2(w) => k \in OwedToL2(w)'
  PROVE  L2Fresh(k)'
BY DEF L2Fresh, Current, Present

\* A step of one call leaves the debts of the others alone.
LEMMA OthersOwe ==
  ASSUME TypeOK, NEW w \in Writer, NEW x \in Writer, x # w,
         \/ \E i \in Instance, S, D \in SUBSET Key : StartWrite(w, i, S, D)
         \/ WriterStep(w)
  PROVE  OwedToL2(x)' = OwedToL2(x)
BY OthersStay DEF OwedToL2

\* The steps of calls.
LEMMA L2FreshWrites ==
  ASSUME TypeOK, FanInv, Committed, NoRedis, OneLock,
         NEW k \in Key, L2Fresh(k), NEW w \in Writer,
         \/ \E i \in Instance, S, D \in SUBSET Key : StartWrite(w, i, S, D)
         \/ WriterStep(w)
  PROVE  L2Fresh(k)'
PROOF
  <1>. DEFINE Kept == k \in OwedToL2(w) => k \in OwedToL2(w)'
  <1>1. ASSUME Kept, db'[k] = db[k],
               l2'[k] = l2[k] \/ ~ (Present(l2'[k]) /\ l2'[k].ok)
        PROVE  L2Fresh(k)'
    <2>1. \A x \in Writer : k \in OwedToL2(x) => k \in OwedToL2(x)'
      BY <1>1, OthersOwe
    <2>. QED
      BY <1>1, <2>1, L2FreshFrame
  <1>2. CASE \/ \E i \in Instance, S, D \in SUBSET Key : StartWrite(w, i, S, D)
             \/ Acquire(w) \/ GiveUp(w)
    <2>1. UNCHANGED <<db, l2>> /\ wpc[w] \notin {"landed", "cache"}
      BY <1>2 DEF StartWrite, Acquire, GiveUp, storeVars, dbVars
    <2>. QED
      BY <1>1, <2>1, OwesWhenLanded
  <1>3. CASE DbWrite(w)
    <2>1. UNCHANGED l2 /\ wpc[w] = "db" /\ wpc'[w] = "landed"
          /\ Batch(w)' = Batch(w)
      BY <1>3 DEF DbWrite, Batch, TypeOK
    <2>2. CASE k \in Batch(w)
      <3>1. k \in OwedToL2(w)'
        BY <2>1, <2>2 DEF OwedToL2
      <3>. QED
        BY <3>1 DEF L2Fresh
    <2>3. CASE k \notin Batch(w)
      <3>1. db'[k] = db[k]
        BY <1>3, <2>3 DEF DbWrite, Applied
      <3>. QED
        BY <1>1, <2>1, <3>1, OwesWhenLanded
    <2>. QED
      BY <2>2, <2>3
  <1>4. CASE DbFail(w)
    <2>1. PICK A : Applied(w, A) /\ l2' = Missed(l2, A)
      BY <1>4 DEF DbFail
    <2>2. l2 \in [Key -> Entry] /\ wpc[w] = "db"
      BY <1>4 DEF DbFail, TypeOK
    <2>3. CASE k \in A
      <3>1. ~ (Present(l2'[k]) /\ l2'[k].ok)
        BY <2>1, <2>2, <2>3, MissedEntry
      <3>. QED
        BY <3>1 DEF L2Fresh, Present
    <2>4. CASE k \notin A
      <3>1. l2'[k] = l2[k] /\ db'[k] = db[k]
        BY <2>1, <2>2, <2>4, MissedEntry DEF Applied
      <3>. QED
        BY <1>1, <2>2, <3>1, OwesWhenLanded
    <2>. QED
      BY <2>3, <2>4
  <1>5. CASE Landed(w)
    <2>1. UNCHANGED <<db, l2>>
      BY <1>5 DEF Landed, dbVars
    <2>2. CASE Mode = "none"
      BY <2>1, <2>2 DEF NoRedis, L2Fresh, Present
    <2>3. CASE Mode # "none"
      <3>1. wpc[w] = "landed" /\ Batch(w)' = Batch(w)
        BY <1>5 DEF Landed, Batch, TypeOK, Call
      <3>2. k \in Batch(w) => fan'[w][k] = "l2"
        BY <1>5, <2>3 DEF Landed, TypeOK
      <3>3. Kept
        BY <3>1, <3>2 DEF OwedToL2
      <3>. QED
        BY <1>1, <2>1, <3>3
    <2>. QED
      BY <2>2, <2>3
  <1>6. ASSUME NEW j \in Key, L2Write(w, j) PROVE L2Fresh(k)'
    <2>1. UNCHANGED <<db, wpc>> /\ Batch(w)' = Batch(w) /\ wpc[w] = "cache"
          /\ fan[w][j] = "l2"
      BY <1>6 DEF L2Write, Batch, dbVars
    <2>2. l2 \in [Key -> Entry]
      BY DEF TypeOK
    <2>3. CASE j # k
      <3>1. fan'[w][k] = fan[w][k]
        BY <1>6, <2>3 DEF L2Write, TypeOK
      <3>2. l2'[k] = l2[k]
        BY <1>6, <2>2, <2>3, MissedEntry, UpdateEntry DEF L2Write
      <3>. QED
        BY <1>1, <2>1, <3>1, <3>2 DEF OwedToL2
    <2>4. CASE j = k /\ l2' = Missed(l2, {j})
      <3>1. ~ (Present(l2'[k]) /\ l2'[k].ok)
        BY <2>2, <2>4, MissedEntry
      <3>. QED
        BY <3>1 DEF L2Fresh, Present
    <2>5. CASE j = k /\ l2' = Update(l2, w, {j}, call[w].at)
      <3>1. CASE lease[w] = "sole"
        <4>1. l2'[k].val = Told(w)
          BY <2>5, UpdateEntry
        <4>2. k \in Batch(w) /\ db[k].val = Told(w)
          BY <2>1, <2>5, <3>1 DEF FanInv, Committed
        <4>. QED
          BY <2>1, <4>1, <4>2 DEF L2Fresh, Current
      <3>2. CASE lease[w] # "sole"
        <4>1. Present(l2'[k]) /\ l2'[k].ok => l2'[k].val = db[k].val
          BY <2>5, <3>2, UpdateFresh
        <4>. QED
          BY <2>1, <4>1 DEF L2Fresh, Current, Present
      <3>. QED
        BY <3>1, <3>2
    <2>. QED
      BY <1>6, <2>3, <2>4, <2>5 DEF L2Write
  <1>7. ASSUME NEW j \in Key, Publish(w, j) PROVE L2Fresh(k)'
    <2>1. UNCHANGED <<db, l2, wpc>> /\ Batch(w)' = Batch(w)
      BY <1>7 DEF Publish, Batch, dbVars
    <2>2. fan[w][k] = "l2" => fan'[w][k] = "l2"
      BY <1>7 DEF Publish, TypeOK
    <2>. QED
      BY <1>1, <2>1, <2>2 DEF OwedToL2
  <1>8. CASE NextSection(w) \/ Return(w)
    <2>1. UNCHANGED <<db, l2>> /\ k \notin OwedToL2(w)
      BY <1>8 DEF NextSection, Return, SectionOver, OwedToL2, FanInv, storeVars,
                  dbVars
    <2>. QED
      BY <1>1, <2>1
  <1>. QED
    BY <1>2, <1>3, <1>4, <1>5, <1>6, <1>7, <1>8 DEF WriterStep

\* All steps.
LEMMA L2FreshStep ==
  ASSUME TypeOK, FanInv, Committed, NoRedis, OneLock, [Next]_vars,
         NEW k \in Key, L2Fresh(k)
  PROVE  L2Fresh(k)'
PROOF
  <1>1. ASSUME NEW r \in Reader, L2Fill(r) PROVE L2Fresh(k)'
    <2>1. /\ UNCHANGED <<db, writerVars>>
          /\ \/ l2'[k] = l2[k]
             \/ l2'[k] = [got[r] EXCEPT !.ok = Current(rd[r].key, got[r])]
                /\ k = rd[r].key
      BY <1>1, Fields DEF L2Fill, dbVars, TypeOK
    <2>2. \A w \in Writer : OwedToL2(w)' = OwedToL2(w)
      BY <2>1 DEF OwedToL2, Batch, writerVars
    <2>3. CASE l2'[k] = l2[k]
      BY <2>1, <2>2, <2>3, L2FreshFrame
    <2>4. CASE l2'[k] = [got[r] EXCEPT !.ok = Current(k, got[r])]
      <3>1. got[r] \in Entry
        BY DEF TypeOK
      <3>2. l2'[k].val = got[r].val /\ l2'[k].ok = Current(k, got[r])
        BY <2>4, <3>1 DEF Entry
      <3>. QED
        BY <2>1, <3>2 DEF L2Fresh, Current
    <2>. QED
      BY <2>1, <2>3, <2>4
  <1>2. ASSUME NEW i \in Instance, Crash(i) PROVE L2Fresh(k)'
    <2>. DEFINE dead == {w \in Writer : wpc[w] # "idle" /\ Inst(w) = i}
                lost == UNION {Owed(w) : w \in dead}
    <2>1. UNCHANGED db /\ l2' = Missed(l2, lost) /\ Leave(dead)
      BY <1>2 DEF Crash, dbVars
    <2>2. l2 \in [Key -> Entry]
      BY DEF TypeOK
    <2>3. CASE k \in lost
      <3>1. ~ (Present(l2'[k]) /\ l2'[k].ok)
        BY <2>1, <2>2, <2>3, MissedEntry
      <3>. QED
        BY <3>1 DEF L2Fresh, Present
    <2>4. CASE k \notin lost
      <3>1. l2'[k] = l2[k]
        BY <2>1, <2>2, <2>4, MissedEntry
      <3>2. ASSUME NEW w \in Writer, k \in OwedToL2(w)
            PROVE  k \in OwedToL2(w)'
        <4>1. k \in Owed(w)
          BY <3>2 DEF OwedToL2, Owed
        <4>2. w \notin dead
          BY <2>4, <4>1
        <4>3. /\ wpc'[w] = wpc[w] /\ fan'[w] = fan[w]
              /\ phase'[w] = phase[w] /\ call'[w] = call[w]
          BY <2>1, <4>2 DEF Leave
        <4>. QED
          BY <3>2, <4>3 DEF OwedToL2, Batch
      <3>. QED
        BY <2>1, <3>1, <3>2, L2FreshFrame
    <2>. QED
      BY <2>3, <2>4
  <1>3. ASSUME NEW j \in Key, L2Evict(j) PROVE L2Fresh(k)'
    <2>1. /\ UNCHANGED <<db, writerVars>>
          /\ l2'[k] = l2[k] \/ l2'[k] = NoEntry
      BY <1>3 DEF L2Evict, dbVars, TypeOK
    <2>2. \A w \in Writer : OwedToL2(w)' = OwedToL2(w)
      BY <2>1 DEF OwedToL2, Batch, writerVars
    <2>3. l2'[k] = l2[k] \/ ~ (Present(l2'[k]) /\ l2'[k].ok)
      BY <2>1 DEF NoEntry, Present
    <2>. QED
      BY <2>1, <2>2, <2>3, L2FreshFrame
  <1>4. ASSUME NEW r \in Reader,
               \/ \E i \in Instance, j \in Key : ReadStart(r, i, j)
               \/ L2Answer(r) \/ Checked(r) \/ L2Resume(r) \/ DbAnswer(r)
               \/ DbResume(r)
        PROVE  UNCHANGED <<db, l2, writerVars>>
    BY <1>4 DEF ReadStart, L2Answer, Checked, L2Resume, DbAnswer, DbResume,
                storeVars, dbVars
  <1>5. ASSUME \/ \E i \in Instance : Subscribe(i) \/ Deliver(i)
               \/ \E i \in Instance, j \in Key : Expire(i, j)
               \/ \E s \in Scopes : LeaseExpire(s)
               \/ Tick \/ UNCHANGED vars
        PROVE  UNCHANGED <<db, l2, writerVars>>
    BY <1>5 DEF Subscribe, Deliver, Expire, LeaseExpire, Tick, vars, storeVars,
                dbVars
  <1>6. CASE UNCHANGED <<db, l2, writerVars>>
    BY <1>6 DEF L2Fresh, Current, OwedToL2, Batch, writerVars
  <1>7. ASSUME NEW w \in Writer,
               \/ \E i \in Instance, S, D \in SUBSET Key :
                    StartWrite(w, i, S, D)
               \/ WriterStep(w)
        PROVE  L2Fresh(k)'
    BY <1>7, L2FreshWrites
  <1>. QED
    BY <1>1, <1>2, <1>3, <1>4, <1>5, <1>6, <1>7
    DEF Next, ReaderStep, Environment

\* What the proof of L2Coherent carries along.
L2Inv == FanInv /\ Committed /\ NoRedis /\ L2Coherent

\* The shared cache follows the database: with one lock, keys.set leaves no
\* entry in Redis that is neither the row's value nor about to be replaced, but
\* those of faults, of overtaken reads, and of sections with an old value beside
\* which another went on.  Locks may expire at any time, sections under way or not.
THEOREM L2FollowsDatabase == Spec => []L2Coherent
PROOF
  <1>1. Init => L2Inv
    BY DEF Init, L2Inv, FanInv, Done, Committed, NoRedis, NoEntry, L2Coherent,
           Present
  <1>2. TypeOK /\ HolderInv /\ L2Inv /\ [Next]_vars => L2Inv'
    <2>. SUFFICES ASSUME TypeOK, HolderInv, L2Inv, [Next]_vars PROVE L2Inv'
      OBVIOUS
    <2>1. L2Coherent <=> (OneLock => \A k \in Key : L2Fresh(k))
      BY DEF L2Coherent, L2Fresh
    <2>2. L2Coherent' <=> (OneLock => \A k \in Key : L2Fresh(k)')
      BY DEF L2Coherent, L2Fresh, OneLock
    <2>3. L2Coherent'
      BY <2>1, <2>2, L2FreshStep DEF L2Inv
    <2>. QED
      BY <2>3, FanStep, CommittedStep, NoRedisStep DEF L2Inv
  <1>3. L2Inv => L2Coherent
    BY DEF L2Inv
  <1>. QED
    BY <1>1, <1>2, <1>3, TypeCorrect, HolderHolds, PTL DEF Spec

-----------------------------------------------------------------------------
(* The memory caches follow the database. *)

\* The keys whose entries in other processes w has still to drop.  Over HTTP
\* nothing is published, and OneLock leaves no other process.
OwedToL1(w) == {k \in Batch(w) : \/ wpc[w] = "landed"
                                 \/ Mode = "tcp" /\ fan[w][k] # "done"}

\* An invalidation of k is on its way to i.
Notified(i, k) == \E n \in 1 .. Len(inbox[i]) : inbox[i][n] = k

\* The entry of k at i is the database's, or will be invalidated.
L1Fresh(i, k) == Present(l1[i][k]) /\ l1[i][k].ok =>
                   \/ Current(k, l1[i][k])
                   \/ \E w \in Writer : k \in OwedToL1(w)
                   \/ Notified(i, k)

\* Nothing that keeps the row, the entry, the debts and the mail disturbs it.
LEMMA L1FreshFrame ==
  ASSUME NEW i \in Instance, NEW k \in Key, L1Fresh(i, k), db'[k] = db[k],
         l1'[i][k] = l1[i][k] \/ ~ (Present(l1'[i][k]) /\ l1'[i][k].ok),
         \A w \in Writer : k \in OwedToL1(w) => k \in OwedToL1(w)',
         Notified(i, k) => Notified(i, k)'
  PROVE  L1Fresh(i, k)'
BY DEF L1Fresh, Current, Present

\* The steps of calls.
LEMMA L1FreshWrites ==
  ASSUME TypeOK, FanInv, Committed, OneLock,
         NEW i \in Instance, NEW k \in Key, L1Fresh(i, k), NEW w \in Writer,
         \/ \E j \in Instance, S, D \in SUBSET Key : StartWrite(w, j, S, D)
         \/ WriterStep(w)
  PROVE  L1Fresh(i, k)'
PROOF
  <1>. DEFINE Kept == k \in OwedToL1(w) => k \in OwedToL1(w)'
  <1>1. ASSUME Kept, db'[k] = db[k], Notified(i, k) => Notified(i, k)',
               l1'[i][k] = l1[i][k] \/ ~ (Present(l1'[i][k]) /\ l1'[i][k].ok)
        PROVE  L1Fresh(i, k)'
    <2>1. ASSUME NEW x \in Writer, x # w PROVE OwedToL1(x)' = OwedToL1(x)
      BY <2>1, OthersStay DEF OwedToL1
    <2>2. \A x \in Writer : k \in OwedToL1(x) => k \in OwedToL1(x)'
      BY <1>1, <2>1
    <2>. QED
      BY <1>1, <2>2, L1FreshFrame
  <1>2. CASE \/ \E j \in Instance, S, D \in SUBSET Key : StartWrite(w, j, S, D)
             \/ Acquire(w) \/ GiveUp(w)
    <2>1. UNCHANGED <<db, l1, inbox>> /\ wpc[w] \notin {"landed", "cache"}
      BY <1>2 DEF StartWrite, Acquire, GiveUp, storeVars, dbVars, busVars
    <2>2. k \notin OwedToL1(w)
      BY <2>1 DEF OwedToL1, FanInv
    <2>. QED
      BY <1>1, <2>1, <2>2 DEF Notified
  <1>3. CASE DbWrite(w)
    <2>1. UNCHANGED <<l1, inbox>> /\ wpc[w] = "db" /\ wpc'[w] = "landed"
          /\ Batch(w)' = Batch(w)
      BY <1>3 DEF DbWrite, Batch, TypeOK, busVars
    <2>2. CASE k \in Batch(w)
      <3>1. k \in OwedToL1(w)'
        BY <2>1, <2>2 DEF OwedToL1
      <3>. QED
        BY <3>1 DEF L1Fresh
    <2>3. CASE k \notin Batch(w)
      <3>1. db'[k] = db[k] /\ k \notin OwedToL1(w)
        BY <1>3, <2>3 DEF DbWrite, Applied, OwedToL1
      <3>. QED
        BY <1>1, <2>1, <3>1 DEF Notified
    <2>. QED
      BY <2>2, <2>3
  <1>4. CASE DbFail(w)
    <2>1. PICK A : Applied(w, A) /\ l1' = [j \in Instance |-> Missed(l1[j], A)]
      BY <1>4 DEF DbFail
    <2>2. /\ l1[i] \in [Key -> Entry] /\ l1'[i] = Missed(l1[i], A)
          /\ wpc[w] = "db" /\ UNCHANGED inbox
      BY <1>4, <2>1 DEF DbFail, TypeOK, busVars
    <2>3. CASE k \in A
      <3>1. ~ (Present(l1'[i][k]) /\ l1'[i][k].ok)
        BY <2>2, <2>3, MissedEntry
      <3>. QED
        BY <3>1 DEF L1Fresh, Present
    <2>4. CASE k \notin A
      <3>1. l1'[i][k] = l1[i][k] /\ db'[k] = db[k]
        BY <2>1, <2>2, <2>4, MissedEntry DEF Applied
      <3>2. k \notin OwedToL1(w)
        BY <2>2 DEF OwedToL1, FanInv
      <3>. QED
        BY <1>1, <2>2, <3>1, <3>2 DEF Notified
    <2>. QED
      BY <2>3, <2>4
  <1>5. CASE Landed(w)
    <2>1. /\ UNCHANGED <<db, inbox>> /\ wpc[w] = "landed"
          /\ Batch(w)' = Batch(w)
          /\ l1' = [l1 EXCEPT ![Inst(w)] = Update(@, w, Batch(w), clock)]
      BY <1>5 DEF Landed, Batch, TypeOK, Call, dbVars
    <2>2. CASE i = Inst(w) /\ k \in Batch(w)
      <3>1. l1'[i] = Update(l1[i], w, Batch(w), clock)
        BY <2>1, <2>2 DEF TypeOK
      <3>2. CASE lease[w] = "sole"
        <4>1. l1'[i][k].val = Told(w)
          BY <2>2, <3>1, UpdateEntry
        <4>2. db[k].val = Told(w)
          BY <2>1, <2>2, <3>2 DEF Committed
        <4>. QED
          BY <2>1, <4>1, <4>2 DEF L1Fresh, Current
      <3>3. CASE lease[w] # "sole"
        <4>1. Present(l1'[i][k]) /\ l1'[i][k].ok => l1'[i][k].val = db[k].val
          BY <2>2, <3>1, <3>3, UpdateFresh
        <4>. QED
          BY <2>1, <4>1 DEF L1Fresh, Current, Present
      <3>. QED
        BY <3>2, <3>3
    <2>3. CASE k \notin Batch(w)
      <3>1. l1'[i][k] = l1[i][k]
        BY <2>1, <2>3, UpdateEntry, Fields DEF TypeOK
      <3>2. k \notin OwedToL1(w)
        BY <2>3 DEF OwedToL1
      <3>. QED
        BY <1>1, <2>1, <3>1, <3>2 DEF Notified
    <2>4. CASE i # Inst(w) /\ k \in Batch(w)
      <3>1. Mode = "tcp"
        BY <2>4, Fields DEF OneLock
      <3>2. fan'[w][k] = "l2"
        BY <1>5, <2>4, <3>1 DEF Landed, TypeOK
      <3>3. k \in OwedToL1(w)'
        BY <2>1, <2>4, <3>1, <3>2 DEF OwedToL1
      <3>. QED
        BY <3>3 DEF L1Fresh
    <2>. QED
      BY <2>2, <2>3, <2>4
  <1>6. ASSUME NEW j \in Key, L2Write(w, j) PROVE L1Fresh(i, k)'
    <2>1. UNCHANGED <<db, l1, inbox, wpc>> /\ Batch(w)' = Batch(w)
      BY <1>6 DEF L2Write, Batch, dbVars
    <2>2. Mode = "tcp" /\ fan[w][k] # "done" => fan'[w][k] # "done"
      BY <1>6 DEF L2Write, TypeOK
    <2>3. Kept
      BY <2>1, <2>2 DEF OwedToL1
    <2>. QED
      BY <1>1, <2>1, <2>3 DEF Notified
  <1>7. ASSUME NEW j \in Key, Publish(w, j) PROVE L1Fresh(i, k)'
    <2>1. UNCHANGED <<db, wpc>> /\ Batch(w)' = Batch(w)
      BY <1>7 DEF Publish, Batch, dbVars
    <2>2. PICK I \in SUBSET Instance :
            /\ inbox' = [n \in Instance |-> IF n \in I THEN Append(inbox[n], j)
                                                       ELSE inbox[n]]
            /\ l1' = [n \in Instance |-> IF n \in I THEN l1[n]
                                                    ELSE Missed(l1[n], {j})]
      BY <1>7 DEF Publish
    <2>3. l1[i] \in [Key -> Entry] /\ inbox[i] \in Seq(Key)
      BY DEF TypeOK
    <2>4. Notified(i, k) => Notified(i, k)'
      BY <2>2, <2>3 DEF Notified
    <2>5. CASE j # k
      <3>1. l1'[i][k] = l1[i][k]
        BY <2>2, <2>3, <2>5, MissedEntry
      <3>2. fan'[w][k] = fan[w][k]
        BY <1>7, <2>5 DEF Publish, TypeOK
      <3>. QED
        BY <1>1, <2>1, <2>4, <3>1, <3>2 DEF OwedToL1
    <2>6. CASE j = k /\ i \in I
      <3>1. inbox'[i] = Append(inbox[i], k)
        BY <2>2, <2>6
      <3>2. /\ Len(inbox'[i]) = Len(inbox[i]) + 1 /\ Len(inbox[i]) \in Nat
            /\ inbox'[i][Len(inbox[i]) + 1] = k
        BY <2>3, <3>1
      <3>3. Notified(i, k)'
        BY <3>2 DEF Notified
      <3>. QED
        BY <3>3 DEF L1Fresh
    <2>7. CASE j = k /\ i \notin I
      <3>1. ~ (Present(l1'[i][k]) /\ l1'[i][k].ok)
        BY <2>2, <2>3, <2>7, MissedEntry
      <3>. QED
        BY <3>1 DEF L1Fresh, Present
    <2>. QED
      BY <2>5, <2>6, <2>7
  <1>8. CASE NextSection(w) \/ Return(w)
    <2>1. UNCHANGED <<db, l1, inbox>> /\ k \notin OwedToL1(w)
      BY <1>8 DEF NextSection, Return, SectionOver, OwedToL1, FanInv, storeVars,
                  dbVars, busVars
    <2>. QED
      BY <1>1, <2>1 DEF Notified
  <1>. QED
    BY <1>2, <1>3, <1>4, <1>5, <1>6, <1>7, <1>8 DEF WriterStep

\* All steps.
LEMMA L1FreshStep ==
  ASSUME TypeOK, FanInv, Committed, OneLock, [Next]_vars,
         NEW i \in Instance, NEW k \in Key, L1Fresh(i, k)
  PROVE  L1Fresh(i, k)'
PROOF
  <1>1. ASSUME UNCHANGED <<db, writerVars>>, Notified(i, k) => Notified(i, k)',
               l1'[i][k] = l1[i][k] \/ ~ (Present(l1'[i][k]) /\ l1'[i][k].ok)
        PROVE  L1Fresh(i, k)'
    <2>1. \A w \in Writer : OwedToL1(w)' = OwedToL1(w)
      BY <1>1 DEF OwedToL1, Batch, writerVars
    <2>. QED
      BY <1>1, <2>1, L1FreshFrame
  <1>2. ASSUME NEW r \in Reader, FillL1(r), UNCHANGED <<db, writerVars, inbox>>
        PROVE  L1Fresh(i, k)'
    <2>1. \/ l1'[i][k] = l1[i][k]
          \/ /\ k = rd[r].key
             /\ l1'[i][k] = [got[r] EXCEPT !.ok = Current(rd[r].key, got[r])]
      BY <1>2, Fields DEF FillL1, TypeOK
    <2>2. CASE l1'[i][k] = l1[i][k]
      BY <1>1, <1>2, <2>2 DEF Notified
    <2>3. CASE l1'[i][k] = [got[r] EXCEPT !.ok = Current(k, got[r])]
      <3>1. got[r] \in Entry
        BY DEF TypeOK
      <3>2. l1'[i][k].val = got[r].val /\ l1'[i][k].ok = Current(k, got[r])
        BY <2>3, <3>1 DEF Entry
      <3>. QED
        BY <1>2, <3>2 DEF L1Fresh, Current
    <2>. QED
      BY <2>1, <2>2, <2>3
  <1>3. ASSUME NEW r \in Reader, L2Resume(r) \/ DbResume(r)
        PROVE  L1Fresh(i, k)'
    <2>1. UNCHANGED <<db, writerVars, inbox>> /\ (FillL1(r) \/ UNCHANGED l1)
      BY <1>3 DEF L2Resume, DbResume, dbVars, busVars
    <2>. QED
      BY <1>1, <1>2, <2>1 DEF Notified
  <1>4. ASSUME NEW r \in Reader, Checked(r) PROVE L1Fresh(i, k)'
    <2>1. UNCHANGED <<db, writerVars, inbox>>
      BY <1>4 DEF Checked, dbVars, busVars
    <2>2. l1'[i][k] = l1[i][k] \/ l1'[i][k] = NoEntry
      <3>1. \/ UNCHANGED l1
            \/ l1' = [l1 EXCEPT ![rd[r].inst][rd[r].key] = NoEntry]
        BY <1>4 DEF Checked
      <3>2. l1 \in [Instance -> [Key -> Entry]]
        BY DEF TypeOK
      <3>. QED
        BY <3>1, <3>2
    <2>. QED
      BY <1>1, <2>1, <2>2 DEF Notified, NoEntry, Present
  <1>5. ASSUME NEW j \in Instance, NEW x \in Key, Expire(j, x)
        PROVE  L1Fresh(i, k)'
    <2>1. UNCHANGED <<db, writerVars, inbox>>
      BY <1>5 DEF Expire, dbVars, busVars
    <2>2. l1'[i][k] = l1[i][k] \/ l1'[i][k] = NoEntry
      BY <1>5 DEF Expire, TypeOK
    <2>. QED
      BY <1>1, <2>1, <2>2 DEF Notified, NoEntry, Present
  <1>6. ASSUME NEW j \in Instance, Deliver(j) PROVE L1Fresh(i, k)'
    <2>1. /\ UNCHANGED <<db, writerVars>> /\ inbox[j] # << >>
          /\ l1' = [l1 EXCEPT ![j][Head(inbox[j])] = NoEntry]
          /\ inbox' = [inbox EXCEPT ![j] = Tail(@)]
      BY <1>6 DEF Deliver, dbVars
    <2>2. /\ l1 \in [Instance -> [Key -> Entry]] /\ inbox[j] \in Seq(Key)
          /\ inbox \in [Instance -> Seq(Key)]
      BY DEF TypeOK
    <2>3. CASE i # j
      BY <1>1, <2>1, <2>2, <2>3 DEF Notified
    <2>4. CASE i = j /\ k = Head(inbox[j])
      <3>1. l1'[i][k] = NoEntry
        BY <2>1, <2>2, <2>4
      <3>. QED
        BY <3>1 DEF L1Fresh, NoEntry, Present
    <2>5. CASE i = j /\ k # Head(inbox[j])
      <3>1. l1'[i][k] = l1[i][k]
        BY <2>1, <2>2, <2>5
      <3>2. ASSUME NEW n \in 1 .. Len(inbox[i]), inbox[i][n] = k
            PROVE  Notified(i, k)'
        <4>1. inbox'[i] = Tail(inbox[i])
          BY <2>1, <2>2, <2>5
        <4>2. n # 1
          BY <2>1, <2>2, <2>5, <3>2
        <4>3. n - 1 \in 1 .. Len(inbox'[i]) /\ inbox'[i][n - 1] = k
          BY <2>1, <2>2, <2>5, <3>2, <4>1, <4>2
        <4>. QED
          BY <4>3 DEF Notified
      <3>3. Notified(i, k) => Notified(i, k)'
        BY <3>2 DEF Notified
      <3>. QED
        BY <1>1, <2>1, <3>1, <3>3
    <2>. QED
      BY <2>3, <2>4, <2>5
  <1>7. ASSUME NEW j \in Instance, Crash(j) PROVE L1Fresh(i, k)'
    <2>. DEFINE dead == {w \in Writer : wpc[w] # "idle" /\ Inst(w) = j}
                lost == UNION {Owed(w) : w \in dead}
    <2>1. /\ UNCHANGED db /\ Leave(dead)
          /\ l1' = [n \in Instance |-> IF n = j THEN [x \in Key |-> NoEntry]
                                                ELSE Missed(l1[n], lost)]
          /\ inbox' = [inbox EXCEPT ![j] = << >>]
      BY <1>7 DEF Crash, dbVars
    <2>2. l1[i] \in [Key -> Entry] /\ inbox \in [Instance -> Seq(Key)]
      BY DEF TypeOK
    <2>3. CASE i = j
      <3>1. l1'[i][k] = NoEntry
        BY <2>1, <2>3
      <3>. QED
        BY <3>1 DEF L1Fresh, NoEntry, Present
    <2>4. CASE i # j /\ k \in lost
      <3>1. ~ (Present(l1'[i][k]) /\ l1'[i][k].ok)
        BY <2>1, <2>2, <2>4, MissedEntry
      <3>. QED
        BY <3>1 DEF L1Fresh, Present
    <2>5. CASE i # j /\ k \notin lost
      <3>1. l1'[i][k] = l1[i][k] /\ inbox'[i] = inbox[i]
        <4>1. l1'[i] = Missed(l1[i], lost) /\ inbox'[i] = inbox[i]
          BY <2>1, <2>2, <2>5
        <4>2. ASSUME NEW K, k \notin K PROVE Missed(l1[i], K)[k] = l1[i][k]
          BY <2>2, <4>2, MissedEntry
        <4>. QED
          BY <2>5, <4>1, <4>2
      <3>2. ASSUME NEW w \in Writer, k \in OwedToL1(w)
            PROVE  k \in OwedToL1(w)'
        <4>1. k \in Owed(w)
          BY <3>2 DEF OwedToL1, Owed
        <4>2. w \notin dead
          BY <2>5, <4>1
        <4>3. /\ wpc'[w] = wpc[w] /\ fan'[w] = fan[w]
              /\ phase'[w] = phase[w] /\ call'[w] = call[w]
          BY <2>1, <4>2 DEF Leave
        <4>. QED
          BY <3>2, <4>3 DEF OwedToL1, Batch
      <3>3. Notified(i, k) => Notified(i, k)'
        BY <3>1 DEF Notified
      <3>. QED
        BY <2>1, <3>1, <3>2, <3>3, L1FreshFrame
    <2>. QED
      BY <2>3, <2>4, <2>5
  <1>8. ASSUME NEW r \in Reader,
               \/ \E j \in Instance, x \in Key : ReadStart(r, j, x)
               \/ L2Answer(r) \/ DbAnswer(r) \/ L2Fill(r)
        PROVE  UNCHANGED <<db, l1, inbox, writerVars>>
    BY <1>8
    DEF ReadStart, L2Answer, DbAnswer, L2Fill, storeVars, dbVars, busVars
  <1>9. ASSUME \/ \E j \in Instance : Subscribe(j)
               \/ \E x \in Key : L2Evict(x)
               \/ \E s \in Scopes : LeaseExpire(s)
               \/ Tick \/ UNCHANGED vars
        PROVE  UNCHANGED <<db, l1, inbox, writerVars>>
    BY <1>9 DEF Subscribe, L2Evict, LeaseExpire, Tick, vars, storeVars, dbVars,
                busVars
  <1>10. CASE UNCHANGED <<db, l1, inbox, writerVars>>
    BY <1>1, <1>10 DEF Notified
  <1>11. ASSUME NEW w \in Writer,
                \/ \E j \in Instance, S, D \in SUBSET Key :
                     StartWrite(w, j, S, D)
                \/ WriterStep(w)
         PROVE  L1Fresh(i, k)'
    BY <1>11, L1FreshWrites
  <1>. QED
    BY <1>3, <1>4, <1>5, <1>6, <1>7, <1>8, <1>9, <1>10, <1>11
    DEF Next, ReaderStep, Environment

(* What the proof of L1Coherent carries along.  It is stronger than that: in *)
(* HTTP mode, where OneLock leaves one process, no entry waits for a fan-out. *)
L1Inv ==
  /\ FanInv /\ Committed
  /\ OneLock => \A i \in Instance, k \in Key : L1Fresh(i, k)

\* The memory caches follow the database: with one lock, which may expire at any
\* time, an entry that is not the row's value will be invalidated, but those of
\* faults, of overtaken reads and of sections with an old value beside which
\* another went on.
THEOREM L1FollowsDatabase == Spec => []L1Coherent
PROOF
  <1>1. Init => L1Inv
    BY DEF Init, L1Inv, FanInv, Done, Committed, NoEntry, L1Fresh, Present
  <1>2. TypeOK /\ HolderInv /\ L1Inv /\ [Next]_vars => L1Inv'
    <2>. SUFFICES ASSUME TypeOK, HolderInv, L1Inv, [Next]_vars PROVE L1Inv'
      OBVIOUS
    <2>1. ASSUME OneLock, NEW i \in Instance, NEW k \in Key
          PROVE  L1Fresh(i, k)'
      BY <2>1, L1FreshStep DEF L1Inv
    <2>. QED
      BY <2>1, FanStep, CommittedStep DEF L1Inv, OneLock
  <1>3. TypeOK /\ L1Inv => L1Coherent
    <2>1. \A w \in Writer : OwedToL1(w) \subseteq Owed(w)
      BY DEF OwedToL1, Owed
    <2>. QED
      BY <2>1 DEF L1Inv, L1Fresh, L1Coherent, Notified
  <1>. QED
    BY <1>1, <1>2, <1>3, TypeCorrect, HolderHolds, PTL DEF Spec
=============================================================================
