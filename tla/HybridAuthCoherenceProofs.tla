---------------------- MODULE HybridAuthCoherenceProofs ----------------------
(* The caches of HybridAuthState never hold what the database has not had.   *)
EXTENDS HybridAuthStateProofs

\* What the section of w tells the caches for each of its keys.
Told(w) == IF phase[w] = "set" THEN call[w].val ELSE 0

\* onWritten and onDeleted run for the keys of a section that has landed only.
FanInv == \A w \in Writer, k \in Key :
            fan[w][k] # "done" => wpc[w] = "cache" /\ k \in Batch(w)

(* Which part of the state a step moves. *)

\* A step of one call moves no other call.
LEMMA OthersStay ==
  ASSUME TypeOK, NEW w \in Writer, NEW x \in Writer, x # w,
         \/ \E i \in Instance, S, D \in SUBSET Key : StartWrite(w, i, S, D)
         \/ WriterStep(w)
  PROVE  /\ wpc'[x] = wpc[x] /\ fan'[x] = fan[x]
         /\ phase'[x] = phase[x] /\ call'[x] = call[x]
         /\ Batch(x)' = Batch(x)
PROOF
  <1>1. /\ wpc'[x] = wpc[x] /\ fan'[x] = fan[x]
        /\ phase'[x] = phase[x] /\ call'[x] = call[x]
    <2>1. CASE \E i \in Instance, S, D \in SUBSET Key : StartWrite(w, i, S, D)
      BY <2>1 DEF StartWrite, TypeOK
    <2>2. CASE Acquire(w) \/ DbWrite(w) \/ DbFail(w) \/ Landed(w)
      BY <2>2 DEF Acquire, DbWrite, DbFail, Landed, TypeOK
    <2>3. CASE GiveUp(w) \/ Return(w)
      BY <2>3 DEF GiveUp, Return, Leave, TypeOK
    <2>4. CASE \E k \in Key : L2Write(w, k) \/ Publish(w, k)
      BY <2>4 DEF L2Write, Publish, TypeOK
    <2>5. CASE NextSection(w)
      BY <2>5 DEF NextSection, TypeOK
    <2>. QED
      BY <2>1, <2>2, <2>3, <2>4, <2>5 DEF WriterStep
  <1>. QED
    BY <1>1 DEF Batch

\* A step of a read moves no call, no row and no lock.
LEMMA ReadsMoveNoCall ==
  ASSUME NEW r \in Reader,
         \/ \E i \in Instance, k \in Key : ReadStart(r, i, k)
         \/ ReaderStep(r)
  PROVE  UNCHANGED <<dbVars, lockVars, writerVars, inbox>>
BY DEF ReadStart, ReaderStep, L2Answer, Checked, L2Resume, DbAnswer, DbResume,
       L2Fill, storeVars, busVars, dbVars

\* What a crash leaves of the calls: those of its process are gone.
LEMMA CrashLeaves ==
  ASSUME TypeOK, NEW i \in Instance, Crash(i), NEW x \in Writer, wpc'[x] # "idle"
  PROVE  /\ wpc'[x] = wpc[x] /\ fan'[x] = fan[x]
         /\ phase'[x] = phase[x] /\ call'[x] = call[x]
         /\ Batch(x)' = Batch(x)
BY DEF Crash, Leave, Batch

\* Every step keeps the fan-out inside a landed section.
LEMMA FanStep ==
  TypeOK /\ FanInv /\ [Next]_vars => FanInv'
PROOF
  <1>. SUFFICES ASSUME TypeOK, FanInv, [Next]_vars PROVE FanInv'
    OBVIOUS
  <1>1. ASSUME NEW w \in Writer,
               \/ \E i \in Instance, S, D \in SUBSET Key : StartWrite(w, i, S, D)
               \/ WriterStep(w)
        PROVE  FanInv'
    <2>1. SUFFICES \A k \in Key :
                     fan'[w][k] # "done" => wpc'[w] = "cache" /\ k \in Batch(w)'
      BY <1>1, OthersStay DEF FanInv
    <2>2. CASE \/ \E i \in Instance, S, D \in SUBSET Key : StartWrite(w, i, S, D)
               \/ Acquire(w) \/ DbWrite(w) \/ DbFail(w)
      <3>1. UNCHANGED fan /\ wpc[w] # "cache"
        BY <2>2 DEF StartWrite, Acquire, DbWrite, DbFail
      <3>. QED
        BY <3>1 DEF FanInv
    <2>3. CASE GiveUp(w) \/ Return(w) \/ NextSection(w)
      <3>1. fan'[w] = Done
        BY <2>3 DEF GiveUp, Return, NextSection, Leave, TypeOK
      <3>. QED
        BY <3>1 DEF Done
    <2>4. CASE Landed(w)
      <3>1. Batch(w)' = Batch(w) /\ wpc'[w] = "cache"
        BY <2>4 DEF Landed, Batch, TypeOK, Call
      <3>2. fan'[w] = [k \in Key |-> IF k \in Batch(w) /\ Mode # "none"
                                     THEN "l2" ELSE "done"]
        BY <2>4 DEF Landed, TypeOK
      <3>. QED
        BY <3>1, <3>2
    <2>5. ASSUME NEW k \in Key, L2Write(w, k) \/ Publish(w, k)
          PROVE  \A j \in Key :
                   fan'[w][j] # "done" => wpc'[w] = "cache" /\ j \in Batch(w)'
      <3>1. /\ wpc[w] = "cache" /\ wpc' = wpc /\ Batch(w)' = Batch(w)
            /\ fan[w][k] # "done"
            /\ \A j \in Key \ {k} : fan'[w][j] = fan[w][j]
        BY <2>5 DEF L2Write, Publish, Batch, TypeOK
      <3>. QED
        BY <3>1 DEF FanInv
    <2>. QED
      BY <1>1, <2>2, <2>3, <2>4, <2>5 DEF WriterStep
  <1>2. CASE UNCHANGED writerVars
    BY <1>2 DEF FanInv, writerVars, Batch
  <1>3. ASSUME NEW i \in Instance, Crash(i) PROVE FanInv'
    <2>1. ASSUME NEW x \in Writer, NEW k \in Key, fan'[x][k] # "done"
          PROVE  wpc'[x] = "cache" /\ k \in Batch(x)'
      <3>1. CASE wpc'[x] # "idle"
        BY <1>3, <2>1, <3>1, CrashLeaves DEF FanInv
      <3>2. CASE wpc'[x] = "idle"
        <4>1. fan'[x] = Done \/ (fan'[x] = fan[x] /\ wpc[x] = "idle")
          BY <1>3, <3>2 DEF Crash, Leave
        <4>. QED
          BY <2>1, <4>1 DEF FanInv, Done
      <3>. QED
        BY <3>1, <3>2
    <2>. QED
      BY <2>1 DEF FanInv
  <1>4. ASSUME NEW r \in Reader,
               \/ \E i \in Instance, k \in Key : ReadStart(r, i, k)
               \/ ReaderStep(r)
        PROVE  UNCHANGED writerVars
    BY <1>4, ReadsMoveNoCall
  <1>5. ASSUME \/ \E i \in Instance : Subscribe(i) \/ Deliver(i)
               \/ \E i \in Instance, k \in Key : Expire(i, k)
               \/ \E k \in Key : L2Evict(k)
               \/ \E s \in Scopes : LeaseExpire(s)
               \/ Tick
               \/ UNCHANGED vars
        PROVE  UNCHANGED writerVars
    BY <1>5 DEF Subscribe, Deliver, Expire, L2Evict, LeaseExpire, Tick, vars
  <1>. QED
    BY <1>1, <1>2, <1>3, <1>4, <1>5 DEF Next, Environment

-----------------------------------------------------------------------------
(* The database first.  What a cache holds, what a read brings and what a   *)
(* section tells the caches has been in the database.                       *)
Known(k, v) == v = 0 \/ v \in stored[k]

RowsKnown == \A k \in Key : Known(k, db[k].val)
L1Known == \A i \in Instance, k \in Key : Known(k, l1[i][k].val)
L2Known == \A k \in Key : Known(k, l2[k].val)
ReadsKnown == \A r \in Reader : /\ Known(rd[r].key, got[r].val)
                                /\ rpc[r] = "idle" => got[r].val = 0
WritesKnown == \A w \in Writer : wpc[w] \in {"landed", "cache"} =>
                 \A k \in Batch(w) : Known(k, Told(w))

DatabaseFirst == RowsKnown /\ L1Known /\ L2Known /\ ReadsKnown /\ WritesKnown

\* Marking an update as missed changes no value, and marks what it is about.
LEMMA MissedEntry ==
  ASSUME NEW c \in [Key -> Entry], NEW K, NEW k \in Key
  PROVE  /\ Missed(c, K)[k].val = c[k].val
         /\ k \notin K => Missed(c, K)[k] = c[k]
         /\ k \in K => ~ (Present(Missed(c, K)[k]) /\ Missed(c, K)[k].ok)
BY DEF Missed, Entry, Present

\* An update puts into the cache what the section tells, for its keys only.
LEMMA UpdateEntry ==
  ASSUME NEW c, NEW w, NEW K, NEW t, NEW k \in Key
  PROVE  /\ k \notin K => Update(c, w, K, t)[k] = c[k]
         /\ k \in K => Update(c, w, K, t)[k].val = Told(w)
BY DEF Update, Told, Written, NoEntry

\* The database never forgets that it had a value.
LEMMA KnownStays ==
  ASSUME TypeOK, [Next]_vars, NEW k \in Key, NEW v, Known(k, v)
  PROVE  Known(k, v)'
PROOF
  <1>1. ASSUME NEW w \in Writer, NEW A, Applied(w, A) PROVE Known(k, v)'
    BY <1>1 DEF Applied, Known, TypeOK
  <1>2. ASSUME NEW w \in Writer, DbWrite(w) \/ DbFail(w) PROVE Known(k, v)'
    BY <1>1, <1>2 DEF DbWrite, DbFail
  <1>3. ASSUME NEW w \in Writer,
               \/ \E i \in Instance, S, D \in SUBSET Key : StartWrite(w, i, S, D)
               \/ Acquire(w) \/ GiveUp(w) \/ Landed(w)
               \/ \E j \in Key : L2Write(w, j) \/ Publish(w, j)
               \/ NextSection(w) \/ Return(w)
        PROVE  UNCHANGED stored
    BY <1>3 DEF StartWrite, Acquire, GiveUp, Landed, L2Write, Publish,
                NextSection, Return, storeVars, dbVars
  <1>4. ASSUME NEW r \in Reader,
               \/ \E i \in Instance, j \in Key : ReadStart(r, i, j)
               \/ ReaderStep(r)
        PROVE  UNCHANGED stored
    BY <1>4, ReadsMoveNoCall DEF dbVars
  <1>5. ASSUME Environment \/ UNCHANGED vars PROVE UNCHANGED stored
    BY <1>5 DEF Environment, Subscribe, Deliver, Crash, Expire, L2Evict,
                LeaseExpire, Tick, vars, storeVars, dbVars
  <1>6. CASE UNCHANGED stored
    BY <1>6 DEF Known
  <1>. QED
    BY <1>2, <1>3, <1>4, <1>5, <1>6 DEF Next, WriterStep

\* The rows themselves.
LEMMA RowsStep ==
  ASSUME TypeOK, DatabaseFirst, [Next]_vars
  PROVE  RowsKnown'
PROOF
  <1>1. ASSUME NEW w \in Writer, NEW A \in SUBSET Key, Applied(w, A) PROVE RowsKnown'
    <2>1. ASSUME NEW k \in Key PROVE Known(k, db[k].val)'
      <3>1. CASE k \notin A
        <4>1. db'[k] = db[k] /\ stored'[k] = stored[k]
          BY <1>1, <3>1 DEF Applied
        <4>. QED
          BY <4>1 DEF DatabaseFirst, RowsKnown, Known
      <3>2. CASE k \in A /\ phase[w] = "set"
        <4>1. db'[k] = Upsert(db[k], call[w].val)
              /\ stored'[k] = stored[k] \cup {call[w].val}
          BY <1>1, <3>2 DEF Applied
        <4>. QED
          BY <4>1 DEF Upsert, Known
      <3>3. CASE k \in A /\ phase[w] # "set"
        <4>1. db'[k] = NoRow
          BY <1>1, <3>3 DEF Applied
        <4>. QED
          BY <4>1 DEF NoRow, Known
      <3>. QED
        BY <3>1, <3>2, <3>3
    <2>. QED
      BY <2>1 DEF RowsKnown
  <1>2. ASSUME NEW w \in Writer, DbWrite(w) \/ DbFail(w) PROVE RowsKnown'
    BY <1>1, <1>2, Fields DEF DbWrite, DbFail
  <1>3. ASSUME NEW w \in Writer,
               \/ \E i \in Instance, S, D \in SUBSET Key : StartWrite(w, i, S, D)
               \/ Acquire(w) \/ GiveUp(w) \/ Landed(w)
               \/ \E j \in Key : L2Write(w, j) \/ Publish(w, j)
               \/ NextSection(w) \/ Return(w)
        PROVE  UNCHANGED dbVars
    BY <1>3 DEF StartWrite, Acquire, GiveUp, Landed, L2Write, Publish,
                NextSection, Return, storeVars
  <1>4. ASSUME NEW r \in Reader,
               \/ \E i \in Instance, j \in Key : ReadStart(r, i, j)
               \/ ReaderStep(r)
        PROVE  UNCHANGED dbVars
    BY <1>4, ReadsMoveNoCall
  <1>5. ASSUME Environment \/ UNCHANGED vars PROVE UNCHANGED dbVars
    BY <1>5 DEF Environment, Subscribe, Deliver, Crash, Expire, L2Evict,
                LeaseExpire, Tick, vars, storeVars
  <1>6. CASE UNCHANGED dbVars
    BY <1>6 DEF DatabaseFirst, RowsKnown, Known, dbVars
  <1>. QED
    BY <1>2, <1>3, <1>4, <1>5, <1>6 DEF Next, WriterStep

\* The memory caches.
LEMMA L1Step ==
  ASSUME TypeOK, DatabaseFirst, [Next]_vars
  PROVE  L1Known'
PROOF
  <1>1. ASSUME \A i \in Instance, k \in Key : l1'[i][k].val \in {0, l1[i][k].val}
        PROVE  L1Known'
    <2>1. ASSUME NEW i \in Instance, NEW k \in Key PROVE Known(k, l1[i][k].val)'
      <3>1. Known(k, l1[i][k].val)
        BY DEF DatabaseFirst, L1Known
      <3>2. Known(k, 0)
        BY DEF Known
      <3>. QED
        BY <1>1, <3>1, <3>2, KnownStays DEF Known
    <2>. QED
      BY <2>1 DEF L1Known
  <1>2. ASSUME NEW w \in Writer, Landed(w) PROVE L1Known'
    <2>1. ASSUME NEW i \in Instance, NEW k \in Key PROVE Known(k, l1[i][k].val)'
      <3>1. CASE i = Inst(w) /\ k \in Batch(w)
        <4>1. l1'[i][k].val = Told(w)
          BY <1>2, <3>1, UpdateEntry DEF Landed, TypeOK
        <4>2. Known(k, Told(w))
          BY <1>2, <3>1 DEF Landed, DatabaseFirst, WritesKnown
        <4>. QED
          BY <4>1, <4>2, KnownStays DEF Known
      <3>2. CASE i # Inst(w) \/ k \notin Batch(w)
        <4>1. l1'[i][k] = l1[i][k]
          BY <1>2, <3>2, UpdateEntry DEF Landed, TypeOK
        <4>2. Known(k, l1[i][k].val)
          BY DEF DatabaseFirst, L1Known
        <4>. QED
          BY <4>1, <4>2, KnownStays DEF Known
      <3>. QED
        BY <3>1, <3>2
    <2>. QED
      BY <2>1 DEF L1Known
  <1>3. ASSUME NEW r \in Reader, FillL1(r) PROVE L1Known'
    <2>1. ASSUME NEW i \in Instance, NEW k \in Key PROVE Known(k, l1[i][k].val)'
      <3>1. \/ l1'[i][k].val = l1[i][k].val
            \/ k = rd[r].key /\ l1'[i][k].val = got[r].val
        <4>. DEFINE filled == [got[r] EXCEPT !.ok = Current(rd[r].key, got[r])]
        <4>1. filled.val = got[r].val
          BY DEF TypeOK, Entry
        <4>2. l1' = [l1 EXCEPT ![rd[r].inst][rd[r].key] = filled]
          BY <1>3 DEF FillL1
        <4>. HIDE DEF filled
        <4>. QED
          BY <4>1, <4>2 DEF TypeOK
      <3>2. Known(k, l1[i][k].val) /\ Known(rd[r].key, got[r].val)
        BY DEF DatabaseFirst, L1Known, ReadsKnown
      <3>. QED
        BY <3>1, <3>2, KnownStays DEF Known
    <2>. QED
      BY <2>1 DEF L1Known
  <1>4. ASSUME NEW w \in Writer, DbFail(w) PROVE L1Known'
    <2>1. PICK A : l1' = [i \in Instance |-> Missed(l1[i], A)]
      BY <1>4 DEF DbFail
    <2>2. ASSUME NEW i \in Instance, NEW k \in Key
          PROVE  l1'[i][k].val = l1[i][k].val
      <3>1. l1[i] \in [Key -> Entry] /\ l1'[i] = Missed(l1[i], A)
        BY <2>1 DEF TypeOK
      <3>. QED
        BY <3>1, MissedEntry
    <2>. QED
      BY <1>1, <2>2
  <1>5. ASSUME NEW w \in Writer, NEW k \in Key, Publish(w, k) PROVE L1Known'
    <2>1. PICK I : l1' = [i \in Instance |-> IF i \in I THEN l1[i]
                                             ELSE Missed(l1[i], {k})]
      BY <1>5 DEF Publish
    <2>2. ASSUME NEW i \in Instance, NEW j \in Key
          PROVE  l1'[i][j].val = l1[i][j].val
      <3>1. /\ l1[i] \in [Key -> Entry]
            /\ l1'[i] = l1[i] \/ l1'[i] = Missed(l1[i], {k})
        BY <2>1 DEF TypeOK
      <3>. QED
        BY <3>1, MissedEntry
    <2>. QED
      BY <1>1, <2>2
  <1>6. ASSUME NEW r \in Reader, Checked(r) \/ L2Resume(r) \/ DbResume(r)
        PROVE  L1Known'
    <2>1. \/ FillL1(r) \/ UNCHANGED l1
          \/ l1' = [l1 EXCEPT ![rd[r].inst][rd[r].key] = NoEntry]
      BY <1>6 DEF Checked, L2Resume, DbResume
    <2>2. CASE l1' = [l1 EXCEPT ![rd[r].inst][rd[r].key] = NoEntry]
      <3>1. ASSUME NEW i \in Instance, NEW k \in Key
            PROVE  l1'[i][k] \in {NoEntry, l1[i][k]}
        BY <2>2 DEF TypeOK
      <3>. QED
        BY <1>1, <3>1 DEF NoEntry
    <2>3. CASE UNCHANGED l1
      BY <1>1, <2>3
    <2>. QED
      BY <1>3, <2>1, <2>2, <2>3
  <1>7. ASSUME NEW i \in Instance, Deliver(i) \/ (\E k \in Key : Expire(i, k))
        PROVE  L1Known'
    <2>1. PICK k : l1' = [l1 EXCEPT ![i][k] = NoEntry]
      BY <1>7 DEF Deliver, Expire
    <2>. QED
      BY <1>1, <2>1 DEF TypeOK, NoEntry
  <1>8. ASSUME NEW i \in Instance, Crash(i) PROVE L1Known'
    <2>1. PICK lost : l1' = [j \in Instance |-> IF j = i
                               THEN [k \in Key |-> NoEntry]
                               ELSE Missed(l1[j], lost)]
      BY <1>8 DEF Crash
    <2>2. ASSUME NEW j \in Instance, NEW k \in Key
          PROVE  l1'[j][k].val \in {0, l1[j][k].val}
      <3>1. CASE j = i
        BY <2>1, <3>1 DEF NoEntry
      <3>2. CASE j # i
        <4>1. l1[j] \in [Key -> Entry] /\ l1'[j] = Missed(l1[j], lost)
          BY <2>1, <3>2 DEF TypeOK
        <4>. QED
          BY <4>1, MissedEntry
      <3>. QED
        BY <3>1, <3>2
    <2>. QED
      BY <1>1, <2>2
  <1>9. ASSUME NEW w \in Writer,
               \/ \E i \in Instance, S, D \in SUBSET Key : StartWrite(w, i, S, D)
               \/ Acquire(w) \/ GiveUp(w) \/ DbWrite(w)
               \/ \E j \in Key : L2Write(w, j)
               \/ NextSection(w) \/ Return(w)
        PROVE  UNCHANGED l1
    BY <1>9 DEF StartWrite, Acquire, GiveUp, DbWrite, L2Write, NextSection,
                Return, storeVars
  <1>10. ASSUME NEW r \in Reader,
                \/ \E i \in Instance, k \in Key : ReadStart(r, i, k)
                \/ L2Answer(r) \/ DbAnswer(r) \/ L2Fill(r)
         PROVE  UNCHANGED l1
    BY <1>10 DEF ReadStart, L2Answer, DbAnswer, L2Fill, storeVars
  <1>11. ASSUME \/ \E i \in Instance : Subscribe(i)
                \/ \E k \in Key : L2Evict(k)
                \/ \E s \in Scopes : LeaseExpire(s)
                \/ Tick \/ UNCHANGED vars
         PROVE  UNCHANGED l1
    BY <1>11 DEF Subscribe, L2Evict, LeaseExpire, Tick, vars, storeVars
  <1>12. CASE UNCHANGED l1
    BY <1>1, <1>12
  <1>. QED
    BY <1>2, <1>4, <1>5, <1>6, <1>7, <1>8, <1>9, <1>10, <1>11, <1>12
    DEF Next, WriterStep, ReaderStep, Environment

\* The shared cache.
LEMMA L2Step ==
  ASSUME TypeOK, FanInv, DatabaseFirst, [Next]_vars
  PROVE  L2Known'
PROOF
  <1>1. ASSUME \A k \in Key : l2'[k].val \in {0, l2[k].val}
        PROVE  L2Known'
    <2>1. ASSUME NEW k \in Key PROVE Known(k, l2[k].val)'
      <3>1. Known(k, l2[k].val) /\ Known(k, 0)
        BY DEF DatabaseFirst, L2Known, Known
      <3>. QED
        BY <1>1, <3>1, KnownStays DEF Known
    <2>. QED
      BY <2>1 DEF L2Known
  <1>2. ASSUME NEW K, l2' = Missed(l2, K) PROVE L2Known'
    <2>1. l2 \in [Key -> Entry]
      BY DEF TypeOK
    <2>2. \A k \in Key : l2'[k].val = l2[k].val
      BY <1>2, <2>1, MissedEntry
    <2>. QED
      BY <1>1, <2>2
  <1>3. ASSUME NEW w \in Writer, NEW k \in Key, L2Write(w, k) PROVE L2Known'
    <2>1. CASE l2' = Update(l2, w, {k}, call[w].at)
      <3>1. ASSUME NEW j \in Key PROVE Known(j, l2[j].val)'
        <4>1. CASE j = k
          <5>1. l2'[j].val = Told(w)
            BY <2>1, <4>1, UpdateEntry
          <5>2. Known(j, Told(w))
            BY <1>3, <4>1 DEF L2Write, FanInv, DatabaseFirst, WritesKnown
          <5>. QED
            BY <5>1, <5>2, KnownStays DEF Known
        <4>2. CASE j # k
          <5>1. l2'[j] = l2[j]
            BY <2>1, <4>2, UpdateEntry
          <5>2. Known(j, l2[j].val)
            BY DEF DatabaseFirst, L2Known
          <5>. QED
            BY <5>1, <5>2, KnownStays DEF Known
        <4>. QED
          BY <4>1, <4>2
      <3>. QED
        BY <3>1 DEF L2Known
    <2>. QED
      BY <1>2, <1>3, <2>1 DEF L2Write
  <1>4. ASSUME NEW r \in Reader, L2Fill(r) PROVE L2Known'
    <2>1. ASSUME NEW k \in Key PROVE Known(k, l2[k].val)'
      <3>1. \/ l2'[k].val = l2[k].val
            \/ k = rd[r].key /\ l2'[k].val = got[r].val
        BY <1>4, Fields DEF L2Fill, TypeOK, Entry
      <3>2. Known(k, l2[k].val) /\ Known(rd[r].key, got[r].val)
        BY DEF DatabaseFirst, L2Known, ReadsKnown
      <3>. QED
        BY <3>1, <3>2, KnownStays DEF Known
    <2>. QED
      BY <2>1 DEF L2Known
  <1>5. ASSUME NEW w \in Writer, DbFail(w) PROVE L2Known'
    BY <1>2, <1>5 DEF DbFail
  <1>6. ASSUME NEW i \in Instance, Crash(i) PROVE L2Known'
    BY <1>2, <1>6 DEF Crash
  <1>7. ASSUME NEW k \in Key, L2Evict(k) PROVE L2Known'
    BY <1>1, <1>7 DEF L2Evict, TypeOK, NoEntry
  <1>8. ASSUME NEW w \in Writer,
               \/ \E i \in Instance, S, D \in SUBSET Key : StartWrite(w, i, S, D)
               \/ Acquire(w) \/ GiveUp(w) \/ DbWrite(w) \/ Landed(w)
               \/ \E j \in Key : Publish(w, j)
               \/ NextSection(w) \/ Return(w)
        PROVE  UNCHANGED l2
    BY <1>8 DEF StartWrite, Acquire, GiveUp, DbWrite, Landed, Publish,
                NextSection, Return, storeVars
  <1>9. ASSUME NEW r \in Reader,
               \/ \E i \in Instance, k \in Key : ReadStart(r, i, k)
               \/ L2Answer(r) \/ Checked(r) \/ L2Resume(r) \/ DbAnswer(r)
               \/ DbResume(r)
        PROVE  UNCHANGED l2
    BY <1>9 DEF ReadStart, L2Answer, Checked, L2Resume, DbAnswer, DbResume,
                storeVars
  <1>10. ASSUME \/ \E i \in Instance : Subscribe(i) \/ Deliver(i)
                \/ \E i \in Instance, k \in Key : Expire(i, k)
                \/ \E s \in Scopes : LeaseExpire(s)
                \/ Tick \/ UNCHANGED vars
         PROVE  UNCHANGED l2
    BY <1>10 DEF Subscribe, Deliver, Expire, LeaseExpire, Tick, vars, storeVars
  <1>11. CASE UNCHANGED l2
    BY <1>1, <1>11
  <1>. QED
    BY <1>3, <1>4, <1>5, <1>6, <1>7, <1>8, <1>9, <1>10, <1>11
    DEF Next, WriterStep, ReaderStep, Environment

\* The reads on their way to a cache.
LEMMA ReadsStep ==
  ASSUME TypeOK, DatabaseFirst, [Next]_vars
  PROVE  ReadsKnown'
PROOF
  <1>1. ASSUME \A r \in Reader :
                 \/ got'[r].val = 0
                 \/ rpc'[r] # "idle" /\ Known(rd'[r].key, got'[r].val)
        PROVE  ReadsKnown'
    <2>1. ASSUME NEW r \in Reader
          PROVE  /\ Known(rd[r].key, got[r].val)'
                 /\ rpc'[r] = "idle" => got'[r].val = 0
      <3>1. rd'[r].key \in Key
        <4>1. rd' \in [Reader -> Read]
          BY TypeStep DEF TypeOK
        <4>. QED
          BY <4>1 DEF Read
      <3>. QED
        BY <1>1, <3>1, KnownStays DEF Known
    <2>. QED
      BY <2>1 DEF ReadsKnown
  <1>2. ASSUME NEW r \in Reader, NEW i \in Instance, NEW k \in Key,
               ReadStart(r, i, k)
        PROVE  ReadsKnown'
    <2>1. got' = got /\ got[r].val = 0
      BY <1>2 DEF ReadStart, DatabaseFirst, ReadsKnown
    <2>2. \A x \in Reader \ {r} : rd'[x] = rd[x] /\ rpc'[x] = rpc[x]
      BY <1>2 DEF ReadStart, TypeOK
    <2>. QED
      BY <1>1, <2>1, <2>2 DEF DatabaseFirst, ReadsKnown
  <1>3. ASSUME NEW r \in Reader, ReaderStep(r) PROVE ReadsKnown'
    <2>1. \A x \in Reader \ {r} :
            rd'[x] = rd[x] /\ rpc'[x] = rpc[x] /\ got'[x] = got[x]
      BY <1>3 DEF ReaderStep, L2Answer, Checked, L2Resume, DbAnswer, DbResume,
                  L2Fill, ReadOn, TypeOK
    <2>2. ASSUME NEW pc, ReadOn(r, pc)
          PROVE  \/ got'[r] = got[r] /\ rd'[r] = rd[r] /\ rpc'[r] # "idle"
                 \/ got'[r].val = 0
      BY <2>2 DEF ReadOn, NoEntry, TypeOK
    <2>3. CASE Checked(r) \/ L2Resume(r) \/ DbResume(r) \/ L2Fill(r)
      <3>1. \E pc : ReadOn(r, pc)
        BY <2>3 DEF Checked, L2Resume, DbResume, L2Fill
      <3>. QED
        BY <1>1, <2>1, <2>2, <3>1 DEF DatabaseFirst, ReadsKnown
    <2>4. CASE L2Answer(r)
      <3>1. got'[r].val = 0
            \/ (got'[r] = l2[rd[r].key] /\ rd' = rd /\ rpc'[r] # "idle")
        BY <2>4 DEF L2Answer, TypeOK, NoEntry
      <3>2. Known(rd[r].key, l2[rd[r].key].val)
        BY Fields DEF DatabaseFirst, L2Known
      <3>. QED
        BY <1>1, <2>1, <3>1, <3>2 DEF DatabaseFirst, ReadsKnown
    <2>5. CASE DbAnswer(r)
      <3>1. got'[r].val = 0
            \/ (got'[r] = RowEntry(db[rd[r].key]) /\ rd' = rd /\ rpc'[r] # "idle")
        BY <2>2, <2>5 DEF DbAnswer, ReadOn, TypeOK, NoEntry
      <3>2. Known(rd[r].key, RowEntry(db[rd[r].key]).val)
        BY Fields DEF DatabaseFirst, RowsKnown, RowEntry
      <3>. QED
        BY <1>1, <2>1, <3>1, <3>2 DEF DatabaseFirst, ReadsKnown
    <2>. QED
      BY <1>3, <2>3, <2>4, <2>5 DEF ReaderStep
  <1>4. ASSUME NEW i \in Instance, Crash(i) PROVE ReadsKnown'
    <2>1. \A r \in Reader :
            \/ got'[r] = NoEntry
            \/ got'[r] = got[r] /\ rd'[r] = rd[r] /\ rpc'[r] = rpc[r]
      BY <1>4 DEF Crash
    <2>. QED
      BY <1>1, <2>1 DEF DatabaseFirst, ReadsKnown, NoEntry
  <1>5. ASSUME NEW w \in Writer,
               \/ \E i \in Instance, S, D \in SUBSET Key : StartWrite(w, i, S, D)
               \/ WriterStep(w)
        PROVE  UNCHANGED readerVars
    BY <1>5
    DEF WriterStep, StartWrite, Acquire, GiveUp, DbWrite, DbFail, Landed,
                L2Write, Publish, NextSection, Return
  <1>6. ASSUME \/ \E i \in Instance : Subscribe(i) \/ Deliver(i)
               \/ \E i \in Instance, k \in Key : Expire(i, k)
               \/ \E k \in Key : L2Evict(k)
               \/ \E s \in Scopes : LeaseExpire(s)
               \/ Tick \/ UNCHANGED vars
        PROVE  UNCHANGED readerVars
    BY <1>6 DEF Subscribe, Deliver, Expire, L2Evict, LeaseExpire, Tick, vars
  <1>7. CASE UNCHANGED readerVars
    BY <1>1, <1>7 DEF readerVars, DatabaseFirst, ReadsKnown
  <1>. QED
    BY <1>2, <1>3, <1>4, <1>5, <1>6, <1>7 DEF Next, Environment

\* The sections that tell the caches.
LEMMA WritesStep ==
  ASSUME TypeOK, DatabaseFirst, [Next]_vars
  PROVE  WritesKnown'
PROOF
  <1>1. ASSUME NEW x \in Writer, wpc'[x] = wpc[x], Batch(x)' = Batch(x),
               phase'[x] = phase[x], call'[x].val = call[x].val,
               wpc'[x] \in {"landed", "cache"}, NEW k \in Batch(x)'
        PROVE  Known(k, Told(x))'
    <2>1. Told(x)' = Told(x) /\ Known(k, Told(x)) /\ k \in Key
      BY <1>1, Fields DEF Told, DatabaseFirst, WritesKnown
    <2>. QED
      BY <2>1, KnownStays DEF Known
  <1>2. ASSUME NEW w \in Writer,
               \/ \E i \in Instance, S, D \in SUBSET Key : StartWrite(w, i, S, D)
               \/ WriterStep(w),
               wpc'[w] \in {"landed", "cache"} =>
                 \A k \in Batch(w)' : Known(k, Told(w))'
        PROVE  WritesKnown'
    BY <1>1, <1>2, OthersStay DEF WritesKnown
  <1>3. ASSUME NEW w \in Writer, DbWrite(w) PROVE WritesKnown'
    <2>1. Batch(w)' = Batch(w) /\ Told(w)' = Told(w)
      BY <1>3 DEF DbWrite, Batch, Told
    <2>2. \A k \in Batch(w) : phase[w] = "set" => call[w].val \in stored'[k]
      BY <1>3, Fields DEF DbWrite, Applied
    <2>. QED
      BY <1>2, <1>3, <2>1, <2>2 DEF Known, Told, WriterStep
  <1>4. ASSUME NEW w \in Writer, Landed(w) PROVE WritesKnown'
    <2>1. /\ Batch(w)' = Batch(w) /\ phase'[w] = phase[w]
          /\ call'[w].val = call[w].val
      BY <1>4 DEF Landed, Batch, TypeOK, Call
    <2>2. ASSUME NEW k \in Batch(w)' PROVE Known(k, Told(w))'
      <3>1. Told(w)' = Told(w) /\ Known(k, Told(w)) /\ k \in Key
        BY <1>4, <2>1, Fields DEF Told, Landed, DatabaseFirst, WritesKnown
      <3>. QED
        BY <3>1, KnownStays DEF Known
    <2>. QED
      BY <1>2, <1>4, <2>2 DEF WriterStep
  <1>5. ASSUME NEW w \in Writer, NEW k \in Key, L2Write(w, k) \/ Publish(w, k)
        PROVE  WritesKnown'
    <2>1. /\ UNCHANGED <<wpc, phase, call>> /\ Batch(w)' = Batch(w)
      BY <1>5 DEF L2Write, Publish, Batch
    <2>. QED
      BY <1>1, <1>2, <1>5, <2>1 DEF WriterStep
  <1>6. ASSUME NEW w \in Writer,
               \/ \E i \in Instance, S, D \in SUBSET Key : StartWrite(w, i, S, D)
               \/ Acquire(w) \/ GiveUp(w) \/ DbFail(w)
               \/ NextSection(w) \/ Return(w)
        PROVE  WritesKnown'
    <2>1. wpc'[w] \notin {"landed", "cache"}
      BY <1>6
      DEF StartWrite, Acquire, GiveUp, DbFail, NextSection, Return, Leave,
                  TypeOK
    <2>. QED
      BY <1>2, <1>6, <2>1 DEF WriterStep
  <1>7. ASSUME NEW i \in Instance, Crash(i) PROVE WritesKnown'
    BY <1>1, <1>7, CrashLeaves DEF WritesKnown
  <1>8. ASSUME NEW r \in Reader,
               \/ \E i \in Instance, k \in Key : ReadStart(r, i, k)
               \/ ReaderStep(r)
        PROVE  UNCHANGED writerVars
    BY <1>8, ReadsMoveNoCall
  <1>9. ASSUME \/ \E i \in Instance : Subscribe(i) \/ Deliver(i)
               \/ \E i \in Instance, k \in Key : Expire(i, k)
               \/ \E k \in Key : L2Evict(k)
               \/ \E s \in Scopes : LeaseExpire(s)
               \/ Tick \/ UNCHANGED vars
        PROVE  UNCHANGED writerVars
    BY <1>9 DEF Subscribe, Deliver, Expire, L2Evict, LeaseExpire, Tick, vars
  <1>10. CASE UNCHANGED writerVars
    <2>1. \A x \in Writer : Batch(x)' = Batch(x)
      BY <1>10 DEF writerVars, Batch
    <2>. QED
      BY <1>1, <1>10, <2>1 DEF writerVars, WritesKnown
  <1>. QED
    BY <1>3, <1>4, <1>5, <1>6, <1>7, <1>8, <1>9, <1>10
    DEF Next, WriterStep, Environment

\* The caches never run ahead of the database (keys.set writes it first, and
\* tells the caches nothing of a batch that it rejected).
THEOREM CachesFollowDatabase == Spec => []CacheNeverAheadOfDatabase
PROOF
  <1>1. Init => FanInv /\ DatabaseFirst
    BY DEF Init, FanInv, Done, DatabaseFirst, RowsKnown, L1Known, L2Known,
           ReadsKnown, WritesKnown, Known, NoRow, NoEntry
  <1>2. TypeOK /\ FanInv /\ DatabaseFirst /\ [Next]_vars
          => FanInv' /\ DatabaseFirst'
    BY FanStep, RowsStep, L1Step, L2Step, ReadsStep, WritesStep
    DEF DatabaseFirst
  <1>3. TypeOK /\ DatabaseFirst => CacheNeverAheadOfDatabase
    BY DEF DatabaseFirst, L1Known, L2Known, ReadsKnown, Known,
           CacheNeverAheadOfDatabase, Present
  <1>. QED
    BY <1>1, <1>2, <1>3, TypeCorrect, PTL DEF Spec
=============================================================================
