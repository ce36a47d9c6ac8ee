----------------------- MODULE SessionMaintenanceProofs -----------------------
(***************************************************************************)
(* Proofs about SessionMaintenance, for any number of processes, keys,     *)
(* categories, tasks and writes, on each of the databases.                 *)
(***************************************************************************)
EXTENDS SessionMaintenance, TLAPS

Pcs == {"idle", "exists", "list", "read", "decide", "write", "clear", "done"}
Rows == [Key -> Row]
Caches == [Instance -> [Cached -> Entry]]

-----------------------------------------------------------------------------
(* What the operators of the model return                                  *)

LEMMA NobodyType == Nobody \in Instance
  BY InstanceAssumption DEF Nobody

LEMMA NoRowType == NoRow \in Row /\ [k \in Key |-> NoRow] \in Rows
  BY DEF NoRow, Row, Rows

LEMMA RecordTypes ==
  /\ NoRead \in [pc : {"idle", "db", "got"}, inst : Instance, key : Key,
                 val : Nat]
  /\ NoWrite \in [pc : {"idle", "read", "db", "landed"}, inst : Instance,
                  keys : SUBSET Key, val : Nat, at : Nat, seen : Rows,
                  again : BOOLEAN]
  /\ NoTask \in [kind : {"none", "delete", "import", "export", "info", "prune"},
                 pc : Pcs, inst : Instance, keys : SUBSET Key,
                 todo : SUBSET Key, seen : Rows, val : Nat, at : Nat,
                 again : BOOLEAN]
  BY NobodyType, NoRowType, KeyAssumption DEF NoRead, NoWrite, NoTask, Pcs

LEMMA EntryTypes ==
  /\ NoEntry \in Entry /\ Empty \in [Cached -> Entry]
  /\ \A k \in Key, v \in Nat : EntryOf(k, v) \in Entry
  BY DEF NoEntry, Empty, EntryOf, Entry

\* A setMany stores rows, with the value that it was given.
LEMMA SetManyType ==
  ASSUME NEW K, NEW v \in Nat, v > 0, NEW t \in Nat, NEW seen \in Rows,
         backend \in Backends, rows \in Rows,
         \A k \in Key : rows[k] # NoRow => rows[k].val > 0
  PROVE  /\ SetMany(K, v, t, seen) \in Rows
         /\ \A k \in Key : SetMany(K, v, t, seen)[k] # NoRow =>
              SetMany(K, v, t, seen)[k].val > 0
<1>1. \A k \in Key : /\ SqlUpsert(rows[k], v, t) \in Row
                     /\ SqlUpsert(rows[k], v, t).val = v
  BY DEF SqlUpsert, Row, Rows
<1>2. FirestoreUpsert(v, t) \in Row /\ FirestoreUpsert(v, t).val = v
  BY DEF FirestoreUpsert, Row
<1>3. \A k \in Key : /\ FirebaseUpsert(seen[k], v, t) \in Row
                     /\ FirebaseUpsert(seen[k], v, t).val = v
  BY DEF FirebaseUpsert, Row, Rows
<1>4. backend \in {"sql", "firestore", "firebase"}
  BY BackendAssumption DEF BackendKinds
<1>5. \A k \in Key : \/ SetMany(K, v, t, seen)[k] = rows[k]
                     \/ SetMany(K, v, t, seen)[k] = SqlUpsert(rows[k], v, t)
                     \/ SetMany(K, v, t, seen)[k] = FirestoreUpsert(v, t)
                     \/ SetMany(K, v, t, seen)[k] = FirebaseUpsert(seen[k], v, t)
  BY <1>4 DEF SetMany
<1>6. SetMany(K, v, t, seen) \in Rows
  BY <1>1, <1>2, <1>3, <1>4 DEF SetMany, Rows
<1>7. \A k \in Key : SetMany(K, v, t, seen)[k] # NoRow =>
                       SetMany(K, v, t, seen)[k].val > 0
  BY <1>1, <1>2, <1>3, <1>5
<1> QED
  BY <1>6, <1>7

LEMMA DeleteManyType ==
  ASSUME NEW K, rows \in Rows,
         \A k \in Key : rows[k] # NoRow => rows[k].val > 0
  PROVE  /\ DeleteMany(K) \in Rows
         /\ \A k \in Key : DeleteMany(K)[k] # NoRow => DeleteMany(K)[k].val > 0
  BY NoRowType DEF DeleteMany, Rows

\* A process that has missed a change keeps the values of its cache.
LEMMA MissedType ==
  ASSUME NEW c \in [Cached -> Entry], NEW K
  PROVE  /\ Missed(c, K) \in [Cached -> Entry]
         /\ \A k \in Cached : Missed(c, K)[k].val = c[k].val
         /\ \A k \in Cached : c[k] = NoEntry => Missed(c, K)[k] = NoEntry
  BY DEF Missed, Entry, NoEntry

CachesOK(c) ==
  /\ c \in Caches
  /\ \A i \in Instance, k \in Cached : c[i][k] = NoEntry \/ c[i][k].val > 0

LEMMA MissedByType ==
  ASSUME NEW I, NEW K, CachesOK(l1)
  PROVE  CachesOK(MissedBy(I, K))
<1>1. \A i \in Instance : l1[i] \in [Cached -> Entry]
  BY DEF CachesOK, Caches
<1>2. \A i \in Instance :
        /\ MissedBy(I, K)[i] \in [Cached -> Entry]
        /\ \A k \in Cached : \/ MissedBy(I, K)[i][k] = NoEntry
                             \/ MissedBy(I, K)[i][k].val > 0
  BY <1>1, MissedType DEF MissedBy, CachesOK
<1> QED
  BY <1>2 DEF MissedBy, CachesOK, Caches
-----------------------------------------------------------------------------
(* Types                                                                   *)

RowsOK(r) == r \in Rows /\ \A k \in Key : r[k] # NoRow => r[k].val > 0
ReadOK(r) == /\ r \in [pc : {"idle", "db", "got"}, inst : Instance, key : Key,
                       val : Nat]
             /\ r.pc # "idle" => r.key \in Cached
WriteOK(w) == w \in [pc : {"idle", "read", "db", "landed"}, inst : Instance,
                     keys : SUBSET Key, val : Nat, at : Nat, seen : Rows,
                     again : BOOLEAN]
TaskOK(t) ==
  /\ t \in [kind : {"none", "delete", "import", "export", "info", "prune"},
            pc : Pcs, inst : Instance, keys : SUBSET Key, todo : SUBSET Key,
            seen : Rows, val : Nat, at : Nat, again : BOOLEAN]
  /\ t.kind = "import" => t.val > 0
HistoryOK == behindTask \subseteq Key /\ behindWrite \subseteq Key
CountersOK == now \in Nat /\ writes \in Nat /\ tasks \in Nat

\* TypeOK by its parts.
Typed == /\ backend \in Backends /\ RowsOK(rows) /\ CachesOK(l1)
         /\ ReadOK(read) /\ WriteOK(write) /\ TaskOK(task)
         /\ HistoryOK /\ CountersOK

LEMMA TypedTypeOK == Typed => TypeOK
  BY DEF Typed, TypeOK, RowsOK, CachesOK, ReadOK, WriteOK, TaskOK, HistoryOK,
         CountersOK, Rows, Caches, Pcs

LEMMA TaskOnType ==
  ASSUME NEW t, TaskOK(t), TaskOn(t)
  PROVE  TaskOK(task')
  BY RecordTypes DEF TaskOn, TaskOK, NoTask

LEMMA InitType == Init => Typed
<1> SUFFICES ASSUME Init PROVE Typed
  OBVIOUS
<1>1. RowsOK(rows)
  BY NoRowType DEF Init, RowsOK
<1>2. CachesOK(l1)
  BY EntryTypes DEF Init, CachesOK, Caches, Empty
<1>3. ReadOK(read) /\ WriteOK(write) /\ TaskOK(task)
  BY RecordTypes DEF Init, ReadOK, WriteOK, TaskOK, NoRead, NoTask
<1> QED
  BY <1>1, <1>2, <1>3 DEF Init, Typed, HistoryOK, CountersOK

\* One entry of a cache changes.
LEMMA EntryStored ==
  ASSUME CachesOK(l1), NEW i \in Instance, NEW k \in Cached, NEW e \in Entry,
         e = NoEntry \/ e.val > 0
  PROVE  CachesOK([l1 EXCEPT ![i][k] = e])
  BY DEF CachesOK, Caches

\* A whole cache changes.
LEMMA CacheStored ==
  ASSUME CachesOK(l1), NEW i \in Instance, NEW c \in [Cached -> Entry],
         \A k \in Cached : c[k] = NoEntry \/ c[k].val > 0
  PROVE  CachesOK([l1 EXCEPT ![i] = c])
  BY DEF CachesOK, Caches

LEMMA EmptyStored ==
  ASSUME CachesOK(l1), NEW i \in Instance
  PROVE  CachesOK([l1 EXCEPT ![i] = Empty])
<1>1. \A k \in Cached : Empty[k] = NoEntry
  BY DEF Empty
<1> QED
  BY <1>1, EntryTypes, CacheStored

\* The rows after the write of the section.
LEMMA WriteEffectType ==
  ASSUME Typed
  PROVE  RowsOK(WriteEffect)
<1>1. CASE write.val = 0
  BY <1>1, DeleteManyType DEF WriteEffect, Typed, RowsOK
<1>2. CASE write.val # 0
  <2>1. /\ write.val \in Nat /\ write.val > 0 /\ write.at \in Nat
        /\ write.seen \in Rows
    BY <1>2 DEF Typed, WriteOK
  <2> QED
    BY <1>2, <2>1, SetManyType DEF WriteEffect, Typed, RowsOK
<1> QED
  BY <1>1, <1>2

\* Reads and writes beside the session manager keep the types.
LEMMA CallsType ==
  ASSUME Typed,
         \/ \E i \in Instance, k \in Cached : StartRead(i, k)
         \/ ReadAnswered \/ ReadFill
         \/ \E i \in Instance, K \in Batch : StartWrite(i, K)
         \/ WriteReads \/ WriteExecuted \/ WriteFails \/ WriteLanded
  PROVE  Typed'
<1> USE DEF Typed, HistoryOK, CountersOK, history, boundVars
<1>1. ASSUME NEW i \in Instance, NEW k \in Cached, StartRead(i, k)
      PROVE  Typed'
  <2>1. ReadOK(read')
    BY <1>1, KeyAssumption DEF StartRead, ReadOK
  <2> QED
    BY <1>1, <2>1 DEF StartRead
<1>2. CASE ReadAnswered
  <2>1. rows[read.key].val \in Nat
    BY DEF ReadOK, RowsOK, Rows, Row
  <2>2. ReadOK(NoRead)
    BY RecordTypes DEF ReadOK, NoRead
  <2>3. ReadOK([read EXCEPT !.pc = "got", !.val = rows[read.key].val])
    BY <1>2, <2>1 DEF ReadAnswered, ReadOK
  <2> QED
    BY <1>2, <2>2, <2>3 DEF ReadAnswered
<1>3. CASE ReadFill
  <2>1. EntryOf(read.key, read.val) \in Entry
        /\ EntryOf(read.key, read.val).val = read.val
    BY EntryTypes DEF ReadOK, EntryOf
  <2>2. CachesOK(l1')
    <3>1. CASE read.val = 0
      BY <1>3, <3>1 DEF ReadFill
    <3>2. CASE read.val # 0
      <4>1. read.inst \in Instance /\ read.key \in Cached /\ read.val > 0
        BY <1>3, <3>2 DEF ReadFill, ReadOK
      <4>2. l1' = [l1 EXCEPT ![read.inst][read.key] =
                     EntryOf(read.key, read.val)]
        BY <1>3, <3>2 DEF ReadFill
      <4>3. EntryOf(read.key, read.val).val > 0
        BY <2>1, <4>1
      <4> QED
        BY <2>1, <4>1, <4>2, <4>3, EntryStored
    <3> QED
      BY <3>1, <3>2
  <2>3. ReadOK(read')
    BY <1>3, RecordTypes DEF ReadFill, ReadOK, NoRead
  <2> QED
    BY <1>3, <2>2, <2>3 DEF ReadFill
<1>4. ASSUME NEW i \in Instance, NEW K \in Batch, StartWrite(i, K)
      PROVE  Typed'
  <2>1. writes' \in Nat
    <3>1. writes' = writes + 1
      BY <1>4 DEF StartWrite
    <3> QED
      BY <3>1
  <2>2. WriteOK(write')
    <3>1. K \subseteq Key
      BY BatchAssumption
    <3>2. PICK v \in {0, writes'} :
            write' = [NoWrite EXCEPT !.pc = IF ReadsFirst /\ v # 0 THEN "read"
                                            ELSE "db",
                                     !.inst = i, !.keys = K, !.val = v,
                                     !.at = IF v # 0 THEN now ELSE 0]
      BY <1>4 DEF StartWrite
    <3>3. v \in Nat /\ (IF v # 0 THEN now ELSE 0) \in Nat
      BY <2>1, <3>2
    <3>4. write'.pc \in {"read", "db"}
      BY <3>2, RecordTypes
    <3> QED
      BY <3>1, <3>2, <3>3, <3>4, RecordTypes DEF WriteOK
  <2> QED
    BY <1>4, <2>1, <2>2 DEF StartWrite
<1>5. CASE WriteReads
  <2>1. [k \in Key |-> IF k \in write.keys THEN rows[k] ELSE NoRow] \in Rows
    BY NoRowType DEF RowsOK, Rows
  <2>2. WriteOK(write')
    BY <1>5, <2>1 DEF WriteReads, WriteOK
  <2> QED
    BY <1>5, <2>2 DEF WriteReads
<1>6. CASE WriteExecuted
  <2>1. RowsOK(rows') /\ CachesOK(l1')
    BY <1>6, WriteEffectType, MissedByType DEF WriteExecuted
  <2>2. /\ WriteOK([NoWrite EXCEPT !.pc = "landed", !.inst = write.inst,
                                   !.keys = write.keys, !.val = write.val])
        /\ WriteOK([write EXCEPT !.again = TRUE])
    BY RecordTypes DEF WriteOK
  <2>3. WriteOK(write')
    BY <1>6, <2>2 DEF WriteExecuted
  <2>4. behindTask' \subseteq Key
    BY <1>6 DEF WriteExecuted, WriteOK
  <2> QED
    BY <1>6, <2>1, <2>3, <2>4 DEF WriteExecuted
<1>8. CASE WriteFails
  <2>1. RowsOK(rows') /\ CachesOK(l1')
    BY <1>8, WriteEffectType, MissedByType DEF WriteFails
  <2>2. WriteOK(write')
    BY <1>8, RecordTypes DEF WriteFails, WriteOK
  <2>3. behindTask' \subseteq Key
    BY <1>8 DEF WriteFails, WriteOK
  <2> QED
    BY <1>8, <2>1, <2>2, <2>3 DEF WriteFails
<1>7. CASE WriteLanded
  <2> DEFINE c == [k \in Cached |-> IF k \notin write.keys
                                    THEN l1[write.inst][k]
                                    ELSE IF write.val = 0 THEN NoEntry
                                    ELSE EntryOf(k, write.val)]
  <2>1. \A k \in Cached : EntryOf(k, write.val) \in Entry
                          /\ EntryOf(k, write.val).val = write.val
    BY EntryTypes, KeyAssumption DEF WriteOK, EntryOf
  <2>2. write.inst \in Instance /\ write.val \in Nat
    BY DEF WriteOK
  <2>3. /\ c \in [Cached -> Entry]
        /\ \A k \in Cached : c[k] = NoEntry \/ c[k].val > 0
    BY <2>1, <2>2, EntryTypes DEF CachesOK, Caches
  <2>4. l1' = [l1 EXCEPT ![write.inst] = c]
    BY <1>7, <2>2 DEF WriteLanded, CachesOK, Caches
  <2> HIDE DEF c
  <2>5. CachesOK(l1')
    BY <2>2, <2>3, <2>4, CacheStored
  <2>6. WriteOK(write')
    BY <1>7, RecordTypes DEF WriteLanded, WriteOK
  <2> QED
    BY <1>7, <2>5, <2>6 DEF WriteLanded
<1> QED
  BY <1>1, <1>2, <1>3, <1>4, <1>5, <1>6, <1>7, <1>8

\* A method that starts is one of the five, and has its arguments.
LEMMA StartType ==
  ASSUME Typed, NEW kind, NEW i \in Instance, NEW pc \in Pcs, NEW K, NEW v \in Nat,
         kind \in {"delete", "import", "export", "info", "prune"},
         K \subseteq Key, kind = "import" => v > 0,
         Start(kind, i, pc, K, v), writes' \in Nat
  PROVE  Typed'
<1> USE DEF Typed, HistoryOK, CountersOK
<1>1. task' = [NoTask EXCEPT !.kind = kind, !.pc = pc, !.inst = i, !.keys = K,
                             !.todo = K, !.val = v,
                             !.at = IF v # 0 THEN now ELSE 0]
  BY DEF Start
<1>2. TaskOK(task')
  <2>1. (IF v # 0 THEN now ELSE 0) \in Nat
    OBVIOUS
  <2> QED
    BY <1>1, <2>1, RecordTypes DEF TaskOK
<1>3. tasks' \in Nat
  <2>1. tasks' = tasks + 1
    BY DEF Start
  <2> QED
    BY <2>1
<1> QED
  BY <1>2, <1>3 DEF Start

LEMMA StartsType ==
  ASSUME Typed, NEW i \in Instance,
         \/ StartDelete(i) \/ StartExport(i) \/ StartInfo(i) \/ StartPrune(i)
         \/ \E K \in Batch : StartImport(i, K)
  PROVE  Typed'
<1>1. CASE StartDelete(i)
  <2>1. writes' \in Nat
    BY <1>1 DEF StartDelete, Typed, CountersOK
  <2>2. (IF backend = "firestore" THEN "list" ELSE "write") \in Pcs
    BY DEF Pcs
  <2> QED
    BY <1>1, <2>1, <2>2, StartType DEF StartDelete
<1>2. CASE StartExport(i) \/ StartInfo(i) \/ StartPrune(i)
  <2>1. writes' \in Nat
    BY <1>2 DEF StartExport, StartInfo, StartPrune, Typed, CountersOK
  <2> QED
    <3>1. {} \subseteq Key /\ 0 \in Nat /\ "list" \in Pcs /\ "exists" \in Pcs
      BY DEF Pcs
    <3>2. CASE StartExport(i)
      BY <2>1, <3>1, <3>2, StartType DEF StartExport
    <3>3. CASE StartInfo(i)
      BY <2>1, <3>1, <3>3, StartType DEF StartInfo
    <3>4. CASE StartPrune(i)
      BY <2>1, <3>1, <3>4, StartType DEF StartPrune
    <3> QED
      BY <1>2, <3>2, <3>3, <3>4
<1>3. ASSUME NEW K \in Batch, StartImport(i, K) PROVE Typed'
  <2>1. writes' = writes + 1
    BY <1>3 DEF StartImport
  <2>2. writes' \in Nat /\ writes' > 0
    BY <2>1 DEF Typed, CountersOK
  <2>3. K \subseteq Key
    BY BatchAssumption
  <2>4. (IF ReadsFirst THEN "read" ELSE "write") \in Pcs
    BY DEF Pcs
  <2> QED
    BY <1>3, <2>2, <2>3, <2>4, StartType DEF StartImport
<1> QED
  BY <1>1, <1>2, <1>3

\* The rows after the task's write.
LEMMA EffectType ==
  ASSUME Typed
  PROVE  RowsOK(Effect)
<1>1. CASE task.kind = "import"
  <2>1. /\ task.val \in Nat /\ task.val > 0 /\ task.at \in Nat
        /\ task.seen \in Rows
    BY <1>1 DEF Typed, TaskOK
  <2> QED
    BY <1>1, <2>1, SetManyType DEF Effect, Typed, RowsOK
<1>2. CASE task.kind # "import"
  BY <1>2, DeleteManyType DEF Effect, Typed, RowsOK
<1> QED
  BY <1>1, <1>2

LEMMA TasksType ==
  ASSUME Typed, TaskStep
  PROVE  Typed'
<1> USE DEF HistoryOK, CountersOK, history, boundVars
<1>0. TaskOK(task) /\ TaskOK(NoTask)
  BY RecordTypes DEF Typed, TaskOK, NoTask
<1>1. CASE Exists
  <2>1. TaskOK([task EXCEPT !.pc = IF Stored = {} THEN "idle" ELSE "list"])
    BY <1>0 DEF TaskOK, Pcs
  <2> QED
    BY <1>1, <2>1, TaskOnType DEF Exists, Typed
<1>2. CASE List
  <2> DEFINE K == Listed(task.kind)
             pc == CASE K # {} /\ task.kind # "delete" -> "read"
                     [] K # {} /\ task.kind = "delete" -> "write"
                     [] K = {} /\ task.kind = "delete" -> "clear"
                     [] K = {} /\ task.kind = "prune" -> "idle"
                     [] OTHER -> "done"
  <2>1. K \subseteq Key
    BY DEF Listed, Candidates, Stored
  <2>2. pc \in Pcs
    BY DEF Pcs
  <2>3. TaskOn([task EXCEPT !.pc = pc, !.keys = K, !.todo = K])
    BY <1>2 DEF List
  <2> HIDE DEF K, pc
  <2>4. TaskOK([task EXCEPT !.pc = pc, !.keys = K, !.todo = K])
    BY <1>0, <2>1, <2>2 DEF TaskOK
  <2> QED
    BY <1>2, <2>3, <2>4, TaskOnType DEF List, Typed
<1>3. CASE ReadRows
  <2>1. PICK K \in TogetherBy(task.kind, task.todo) :
          LET left == task.todo \ K
              after == CASE task.kind = "import" -> "write"
                         [] task.kind = "prune" -> "decide"
                         [] OTHER -> "done"
          IN /\ task' = [task EXCEPT
                   !.seen = [k \in Key |-> IF k \in K THEN rows[k] ELSE @[k]],
                   !.todo = left,
                   !.pc = IF left = {} THEN after ELSE "read"]
             /\ behindTask' = behindTask \ K
    BY <1>3 DEF ReadRows
  <2>2. [k \in Key |-> IF k \in K THEN rows[k] ELSE task.seen[k]] \in Rows
    BY <1>0 DEF Typed, TaskOK, RowsOK, Rows
  <2>3. TaskOK(task')
    BY <1>0, <2>1, <2>2 DEF TaskOK, Pcs
  <2>4. behindTask' \subseteq Key
    BY <2>1 DEF Typed
  <2> QED
    BY <1>3, <2>3, <2>4 DEF ReadRows, Typed
<1>4. CASE Decide
  <2> DEFINE K == {k \in task.keys : Stale(k)}
  <2>1. K \subseteq Key
    BY <1>0 DEF TaskOK
  <2>2. TaskOn([task EXCEPT !.pc = IF K = {} THEN "idle" ELSE "write",
                            !.keys = K, !.seen = NoTask.seen])
    BY <1>4 DEF Decide
  <2> HIDE DEF K
  <2>3. TaskOK([task EXCEPT !.pc = IF K = {} THEN "idle" ELSE "write",
                            !.keys = K, !.seen = NoTask.seen])
    BY <1>0, <2>1, RecordTypes DEF TaskOK, Pcs
  <2> QED
    BY <1>4, <2>2, <2>3, TaskOnType DEF Decide, Typed
<1>5. CASE TaskWrites
  <2>1. RowsOK(rows')
    BY <1>5, EffectType DEF TaskWrites
  <2>2. CachesOK(l1')
    BY <1>5, MissedByType DEF TaskWrites, Typed
  <2>3. /\ TaskOK([NoTask EXCEPT !.kind = task.kind, !.pc = "clear",
                                 !.inst = task.inst, !.keys = task.keys,
                                 !.val = task.val])
        /\ TaskOK([task EXCEPT !.again = TRUE])
    BY <1>0, RecordTypes DEF TaskOK, Pcs
  <2>4. TaskOK(task')
    BY <1>5, <2>3, TaskOnType DEF TaskWrites
  <2>5. behindWrite' \subseteq Key
    BY <1>0, <1>5 DEF TaskWrites, TaskOK, Typed
  <2> QED
    BY <1>5, <2>1, <2>2, <2>4, <2>5 DEF TaskWrites, Typed
<1>6. CASE TaskFails
  <2>1. RowsOK(rows')
    BY <1>6, EffectType DEF TaskFails, Typed
  <2>2. CachesOK(l1')
    BY <1>6, MissedByType DEF TaskFails, Typed
  <2>3. TaskOK(task')
    BY <1>0, <1>6, TaskOnType DEF TaskFails
  <2>4. behindWrite' \subseteq Key
    BY <1>0, <1>6 DEF TaskFails, TaskOK, Typed
  <2> QED
    BY <1>6, <2>1, <2>2, <2>3, <2>4 DEF TaskFails, Typed
<1>7. CASE Clear
  <2> DEFINE old == l1[task.inst]
             c == [k \in Cached |-> IF k \in Named(task.keys) THEN NoEntry
                                    ELSE Missed(old, task.keys)[k]]
  <2>1. /\ task.inst \in Instance
        /\ old \in [Cached -> Entry]
        /\ \A k \in Cached : old[k] = NoEntry \/ old[k].val > 0
    BY <1>0 DEF TaskOK, Typed, CachesOK, Caches
  <2>2. l1' = [l1 EXCEPT ![task.inst] = IF task.kind # "prune" THEN Empty ELSE c]
    BY <1>7, <2>1 DEF Clear, Typed, CachesOK, Caches
  <2> HIDE DEF old
  <2>3. /\ c \in [Cached -> Entry]
        /\ \A k \in Cached : c[k] = NoEntry \/ c[k].val > 0
    BY <2>1, MissedType, EntryTypes
  <2> HIDE DEF c
  <2>4. CachesOK(l1')
    BY <2>1, <2>2, <2>3, CacheStored, EmptyStored DEF Typed
  <2>5. TaskOK(task')
    BY <1>0, <1>7, TaskOnType DEF Clear
  <2> QED
    BY <1>7, <2>4, <2>5 DEF Clear, Typed
<1>8. CASE Return
  <2>1. TaskOK(task')
    BY <1>0, <1>8, TaskOnType DEF Return
  <2> QED
    BY <1>8, <2>1 DEF Return, Typed
<1> QED
  BY <1>1, <1>2, <1>3, <1>4, <1>5, <1>6, <1>7, <1>8 DEF TaskStep

\* Entries expire, caches are cleared, time passes.
LEMMA TimeType ==
  ASSUME Typed,
         \/ \E i \in Instance : \/ ClearCache(i)
                               \/ \E k \in Cached : Expire(i, k)
         \/ Tick \/ UNCHANGED vars
  PROVE  Typed'
<1> USE DEF Typed, HistoryOK, CountersOK, history, boundVars
<1>1. ASSUME NEW i \in Instance, ClearCache(i) PROVE Typed'
  BY <1>1, EmptyStored DEF ClearCache
<1>2. ASSUME NEW i \in Instance, NEW k \in Cached, Expire(i, k) PROVE Typed'
  BY <1>2, EntryStored, EntryTypes DEF Expire
<1>3. CASE Tick
  <2>1. now' = now + 1
    BY <1>3 DEF Tick
  <2>2. now' \in Nat
    BY <2>1
  <2> QED
    BY <1>3, <2>2 DEF Tick
<1>4. CASE UNCHANGED vars
  BY <1>4 DEF vars
<1> QED
  BY <1>1, <1>2, <1>3, <1>4

LEMMA NextType == Typed /\ [Next]_vars => Typed'
  BY CallsType, StartsType, TasksType, TimeType DEF Next

(* Every variable of the model keeps its type, in particular no missing     *)
(* record is ever cached and no row has the value 0 (cache-manager.ts:78).  *)
THEOREM MaintenanceTypeCorrect == Spec => []TypeOK
  BY InitType, NextType, TypedTypeOK, PTL DEF Spec

-----------------------------------------------------------------------------
(***************************************************************************)
(* The safety properties of SessionMaintenance, from an invariant about    *)
(* what the task in flight knows.                                          *)
(*                                                                         *)
(* What a task has read of a row is still the row, unless the row was      *)
(* written since: then it is in behindTask.  A deletion has listed every   *)
(* row that was not written since.  Both only speak of the step that the   *)
(* task is at, and each step takes the one from that of the step before.   *)
(***************************************************************************)

\* What the task has read of k is the row, or was, when it was read.
Fresh(k) == k \in behindTask \/ task.seen[k] = rows[k]

\* The row of k may be pruned.
MayGo(k) == \/ k \in behindTask \/ rows[k] = NoRow
            \/ now - rows[k].at >= MaxAge[Home[k]]

KindPart ==
  /\ task.kind = "none" => task.pc = "idle"
  /\ task.kind = "delete" => task.pc \in {"list", "write", "clear"}
  /\ task.kind \in {"export", "info"} =>
       task.pc \in {"exists", "list", "read", "done"}
  /\ task.kind = "prune" =>
       task.pc \in {"list", "read", "decide", "write", "clear"}
  /\ task.kind = "import" => task.pc \in {"read", "write", "clear"}

ListPart == task.pc \in {"exists", "list"} => \A k \in Key : task.seen[k] = NoRow

DeletePart ==
  task.kind = "delete" =>
    /\ task.pc = "write" => Stored \subseteq task.keys \cup behindTask
    /\ task.pc = "clear" => Stored \subseteq behindTask

ExportPart ==
  task.kind = "export" =>
    /\ task.pc \in {"read", "done"} => \A k \in Key \ task.todo : Fresh(k)
    /\ task.pc = "done" => task.todo = {}

Prunable(k) == k \in Key /\ k # Creds /\ Home[k] \in DOMAIN MaxAge

PrunePart ==
  task.kind = "prune" =>
    /\ task.pc \in {"read", "decide", "write"} =>
         \A k \in task.keys : Prunable(k)
    /\ task.pc \in {"read", "decide"} =>
         \A k \in task.keys \ task.todo : Fresh(k)
    /\ task.pc = "decide" => task.todo = {}
    /\ task.pc = "write" => \A k \in task.keys : MayGo(k)

\* Firebase's setMany has read the rows; a retry finds what it has written.
ImportPart ==
  task.kind = "import" /\ backend = "firebase" =>
    /\ task.pc = "read" => \A k \in task.keys \ task.todo : Fresh(k)
    /\ task.pc = "write" =>
         \A k \in task.keys :
           \/ Fresh(k)
           \/ rows[k] = FirebaseUpsert(task.seen[k], task.val, task.at)

TaskInv == KindPart /\ ListPart /\ DeletePart /\ ExportPart /\ PrunePart
           /\ ImportPart

-----------------------------------------------------------------------------
(* Categories, and the sets that requests cover                            *)

\* The longest category that a key starts with is its own.
LEMMA Resolved ==
  ASSUME NEW k \in Key \ {Creds}
  PROVE  ResolveCategory(k) = Home[k]
<1> DEFINE Longest(c) == \A d \in Matches(k) : <<c, d>> \notin Shorter
<1>1. Home[k] \in Category
  BY CategoryAssumption
<1>2. Home[k] \in Matches(k)
  BY <1>1 DEF Matches
<1>3. Longest(Home[k])
  <2> SUFFICES ASSUME NEW d \in Matches(k), <<Home[k], d>> \in Shorter
               PROVE  FALSE
    OBVIOUS
  <2>1. d \in Category /\ (d = Home[k] \/ <<d, Home[k]>> \in Shorter)
    BY DEF Matches
  <2> QED
    BY <1>1, <2>1, CategoryAssumption
<1>4. ASSUME NEW c \in Matches(k), Longest(c) PROVE c = Home[k]
  BY <1>2, <1>4 DEF Matches
<1> HIDE DEF Longest
<1>5. ResolveCategory(k) = CHOOSE c \in Matches(k) : Longest(c)
  BY DEF ResolveCategory, Longest
<1> QED
  BY <1>2, <1>3, <1>4, <1>5

LEMMA CandidatesPrunable ==
  ASSUME NEW K \in SUBSET Key, NEW k \in Candidates(K)
  PROVE  Prunable(k) /\ k \in K
  BY Resolved DEF Candidates, Prunable

LEMMA TogetherPart ==
  ASSUME NEW kind, NEW T, NEW K \in TogetherBy(kind, T)
  PROVE  K \subseteq T
  BY DEF TogetherBy

LEMMA StoredType == Stored \subseteq Key
  BY DEF Stored

-----------------------------------------------------------------------------
(* The invariant                                                           *)

LEMMA InitTask == Init => TaskInv
  BY DEF Init, NoTask, TaskInv, KindPart, ListPart, DeletePart, ExportPart,
         PrunePart, ImportPart

\* Steps that touch neither the task nor the rows; time only grows.
LEMMA AsideTask ==
  ASSUME Typed, TaskInv, UNCHANGED <<backend, rows, task, behindTask>>,
         now' \in Nat, now' >= now
  PROVE  TaskInv'
<1>1. \A k \in Key : Fresh(k)' = Fresh(k)
  BY DEF Fresh
<1>2. ASSUME NEW k \in Key, Prunable(k), MayGo(k) PROVE MayGo(k)'
  <2>1. /\ now \in Nat /\ rows[k].at \in Nat /\ MaxAge[Home[k]] \in Nat
    BY <1>2, CategoryAssumption DEF Typed, CountersOK, RowsOK, Rows, Row, Prunable
  <2> QED
    BY <1>2, <2>1 DEF MayGo
<1>3. KindPart' /\ ListPart' /\ DeletePart'
  BY DEF TaskInv, KindPart, ListPart, DeletePart, Stored
<1>4. ExportPart' /\ ImportPart'
  BY DEF TaskInv, ExportPart, ImportPart, Fresh
<1>5. PrunePart'
  BY <1>2 DEF TaskInv, PrunePart, Prunable, Fresh
<1> QED
  BY <1>3, <1>4, <1>5 DEF TaskInv

\* What the section's write does to a row.
LEMMA WriteEffectOf ==
  ASSUME Typed, NEW k \in Key
  PROVE  /\ k \notin write.keys => WriteEffect[k] = rows[k]
         /\ k \in write.keys /\ write.val = 0 => WriteEffect[k] = NoRow
         /\ k \in write.keys /\ write.val # 0 =>
              WriteEffect[k] =
                CASE backend = "sql" -> SqlUpsert(rows[k], write.val, write.at)
                  [] backend = "firestore" ->
                       FirestoreUpsert(write.val, write.at)
                  [] backend = "firebase" ->
                       FirebaseUpsert(write.seen[k], write.val, write.at)
  BY DEF WriteEffect, SetMany, DeleteMany

\* A request of a section: it leaves the rows alone, or it is executed.
LEMMA WriteRequest ==
  ASSUME Typed, WriteExecuted \/ WriteFails
  PROVE  /\ UNCHANGED <<backend, read, task, behindWrite, now>>
         /\ write' # write /\ write.pc \in {"read", "db"}
         /\ \/ UNCHANGED <<rows, l1, behindTask>> /\ write' = NoWrite
            \/ /\ write.pc = "db" /\ rows' = WriteEffect
               /\ behindTask' = behindTask \cup write.keys
<1>1. NoWrite.pc = "idle"
  BY DEF NoWrite
<1>2. CASE WriteExecuted
  <2>1. write' # write
    <3>1. CASE write' = [NoWrite EXCEPT !.pc = "landed", !.inst = write.inst,
                                  !.keys = write.keys, !.val = write.val]
      <4>1. write'.pc = "landed"
        BY <3>1, RecordTypes
      <4> QED
        BY <1>2, <4>1 DEF WriteExecuted
    <3>2. CASE ~ write.again /\ write' = [write EXCEPT !.again = TRUE]
      <4>1. write'.again
        BY <3>2 DEF Typed, WriteOK
      <4> QED
        BY <3>2, <4>1
    <3> QED
      BY <1>2, <3>1, <3>2 DEF WriteExecuted
  <2> QED
    BY <1>2, <2>1 DEF WriteExecuted, boundVars
<1>3. CASE WriteFails
  BY <1>1, <1>3 DEF WriteFails, boundVars
<1> QED
  BY <1>2, <1>3

\* The keys that another call writes are behind the task.
LEMMA WriteTask ==
  ASSUME Typed, TaskInv, WriteExecuted \/ WriteFails
  PROVE  TaskInv'
<1>1. \A k \in Key : k \in behindTask' \/ rows'[k] = rows[k]
  BY WriteRequest, WriteEffectOf
<1>2. /\ behindTask \subseteq behindTask' /\ behindTask' \subseteq Key
      /\ UNCHANGED <<backend, task, now>>
  <2>1. behindTask \subseteq Key /\ write.keys \subseteq Key
    BY DEF Typed, HistoryOK, WriteOK
  <2> QED
    BY <2>1, WriteRequest
<1>3. ASSUME NEW k \in Key PROVE Fresh(k) => Fresh(k)'
  BY <1>1, <1>2 DEF Fresh
<1>4. ASSUME NEW k \in Key PROVE MayGo(k) => MayGo(k)'
  BY <1>1, <1>2 DEF MayGo
<1>5. task.keys \subseteq Key
  BY DEF Typed, TaskOK
<1>6. KindPart' /\ ListPart'
  BY <1>2 DEF TaskInv, KindPart, ListPart
<1>7. Stored' \subseteq Stored \cup behindTask'
  BY <1>1 DEF Stored
<1>8. DeletePart'
  BY <1>2, <1>7 DEF TaskInv, DeletePart
<1>9. ExportPart'
  BY <1>2, <1>3 DEF TaskInv, ExportPart
<1>10. PrunePart'
  BY <1>2, <1>3, <1>4, <1>5 DEF TaskInv, PrunePart, Prunable
<1>11. ImportPart'
  BY <1>1, <1>2, <1>3, <1>5 DEF TaskInv, ImportPart, Fresh
<1> QED
  BY <1>6, <1>8, <1>9, <1>10, <1>11 DEF TaskInv
LEMMA StartTask ==
  ASSUME Typed, NEW i \in Instance,
         \/ StartDelete(i) \/ StartExport(i) \/ StartInfo(i) \/ StartPrune(i)
         \/ \E K \in Batch : StartImport(i, K)
  PROVE  TaskInv'
<1> USE DEF TaskInv, KindPart, ListPart, DeletePart, ExportPart, PrunePart,
            ImportPart
<1>0. /\ NoTask.kind = "none" /\ NoTask.todo = {}
      /\ \A k \in Key : NoTask.seen[k] = NoRow
  BY DEF NoTask
<1>1. CASE StartDelete(i)
  <2>1. /\ task'.kind = "delete" /\ task'.keys = Key
        /\ task'.pc = IF backend = "firestore" THEN "list" ELSE "write"
        /\ task'.seen = NoTask.seen
    BY <1>1, RecordTypes DEF StartDelete, Start
  <2>2. Stored' \subseteq Key
    BY DEF Stored
  <2> QED
    BY <1>0, <2>1, <2>2
<1>2. ASSUME NEW kind \in {"export", "info", "prune"},
             NEW pc \in {"list", "exists"}, kind = "prune" => pc = "list",
             Start(kind, i, pc, {}, 0)
      PROVE  TaskInv'
  <2>1. task'.kind = kind /\ task'.pc = pc /\ task'.seen = NoTask.seen
    BY <1>2, RecordTypes DEF Start
  <2> QED
    BY <1>0, <1>2, <2>1
<1>3. CASE StartExport(i) \/ StartInfo(i) \/ StartPrune(i)
  BY <1>2, <1>3 DEF StartExport, StartInfo, StartPrune
<1>4. ASSUME NEW K \in Batch, StartImport(i, K) PROVE TaskInv'
  <2>1. /\ task'.kind = "import" /\ task'.keys = K /\ task'.todo = K
        /\ task'.pc = IF ReadsFirst THEN "read" ELSE "write"
        /\ backend' = backend
    BY <1>4, RecordTypes DEF StartImport, Start
  <2> QED
    BY <2>1 DEF ReadsFirst
<1> QED
  BY <1>1, <1>3, <1>4

\* When there is no task, there is nothing to show.
LEMMA OverTask ==
  ASSUME task' = NoTask
  PROVE  TaskInv'
  BY DEF NoTask, TaskInv, KindPart, ListPart, DeletePart, ExportPart, PrunePart,
         ImportPart

LEMMA ListTask ==
  ASSUME Typed, TaskInv, List
  PROVE  TaskInv'
<1> DEFINE K == Listed(task.kind)
           pc == CASE K # {} /\ task.kind # "delete" -> "read"
                   [] K # {} /\ task.kind = "delete" -> "write"
                   [] K = {} /\ task.kind = "delete" -> "clear"
                   [] K = {} /\ task.kind = "prune" -> "idle"
                   [] OTHER -> "done"
<1>1. /\ task.pc = "list"
      /\ TaskOn([task EXCEPT !.pc = pc, !.keys = K, !.todo = K])
      /\ UNCHANGED <<backend, rows>>
  BY DEF List
<1>2. /\ pc = "idle" \/ pc \in {"write", "clear", "read", "done"}
      /\ pc = "idle" => task.kind = "prune" /\ K = {}
      /\ pc = "write" => task.kind = "delete"
      /\ pc = "clear" => task.kind = "delete" /\ K = {}
      /\ pc = "read" => task.kind # "delete"
      /\ pc = "done" => K = {} /\ task.kind \notin {"delete", "prune"}
  OBVIOUS
<1>3. /\ task.kind # "prune" => K = Stored
      /\ task.kind = "prune" => \A k \in K : Prunable(k)
  <2>1. Stored \in SUBSET Key
    BY StoredType
  <2> QED
    BY <2>1, CandidatesPrunable DEF Listed
<1> HIDE DEF K, pc
<1>4. CASE pc = "idle"
  BY <1>1, <1>4, RecordTypes, OverTask DEF TaskOn, Typed, TaskOK
<1>5. CASE pc # "idle"
  <2>1. /\ task' = [task EXCEPT !.pc = pc, !.keys = K, !.todo = K]
    BY <1>1, <1>5 DEF TaskOn, Typed, TaskOK
  <2>2. /\ task'.kind = task.kind /\ task'.pc = pc /\ task'.keys = K
        /\ task'.todo = K /\ task'.seen = task.seen
    BY <2>1 DEF Typed, TaskOK
  <2>3. \A k \in Key : task.seen[k] = NoRow
    BY <1>1 DEF TaskInv, ListPart
  <2>4. Stored' = Stored
    BY <1>1 DEF Stored
  <2>5. KindPart' /\ ListPart'
    BY <1>1, <1>2, <1>5, <2>2 DEF TaskInv, KindPart, ListPart
  <2>6. DeletePart'
    BY <1>2, <1>3, <2>2, <2>4 DEF DeletePart
  <2>7. ExportPart'
    <3>1. \A k \in Key \ Stored : rows[k] = NoRow
      BY DEF Stored
    <3> QED
      BY <1>1, <1>2, <1>3, <2>2, <2>3, <3>1 DEF ExportPart, Fresh
  <2>8. PrunePart'
    BY <1>2, <1>3, <1>5, <2>2 DEF PrunePart, Prunable
  <2>9. ImportPart'
    BY <1>1, <2>2 DEF TaskInv, KindPart, ImportPart
  <2> QED
    BY <2>5, <2>6, <2>7, <2>8, <2>9 DEF TaskInv
<1> QED
  BY <1>4, <1>5

LEMMA ReadTask ==
  ASSUME Typed, TaskInv, ReadRows
  PROVE  TaskInv'
<1>1. PICK K \in TogetherBy(task.kind, task.todo) :
        LET left == task.todo \ K
            after == CASE task.kind = "import" -> "write"
                       [] task.kind = "prune" -> "decide"
                       [] OTHER -> "done"
        IN /\ task' = [task EXCEPT
                 !.seen = [k \in Key |-> IF k \in K THEN rows[k] ELSE @[k]],
                 !.todo = left,
                 !.pc = IF left = {} THEN after ELSE "read"]
           /\ behindTask' = behindTask \ K
  BY DEF ReadRows
<1> DEFINE after == CASE task.kind = "import" -> "write"
                      [] task.kind = "prune" -> "decide"
                      [] OTHER -> "done"
<1>2. /\ task'.kind = task.kind /\ task'.keys = task.keys
      /\ task'.todo = task.todo \ K
      /\ task'.pc = IF task.todo \ K = {} THEN after ELSE "read"
      /\ task'.seen = [k \in Key |-> IF k \in K THEN rows[k] ELSE task.seen[k]]
      /\ behindTask' = behindTask \ K
      /\ UNCHANGED <<backend, rows>> /\ task.pc = "read"
  BY <1>1 DEF Typed, TaskOK, ReadRows
<1>3. ASSUME NEW k \in Key, k \notin task'.todo, k \notin task.todo => Fresh(k)
      PROVE  Fresh(k)'
  BY <1>2, <1>3, TogetherPart DEF Fresh
<1>4. KindPart' /\ ListPart' /\ DeletePart'
  BY <1>2 DEF TaskInv, KindPart, ListPart, DeletePart
<1>5. ExportPart'
  BY <1>2, <1>3 DEF TaskInv, ExportPart
<1>6. task.keys \subseteq Key
  BY DEF Typed, TaskOK
<1>7. PrunePart'
  BY <1>2, <1>3, <1>6 DEF TaskInv, PrunePart, Prunable
<1>8. ImportPart'
  BY <1>2, <1>3, <1>6 DEF TaskInv, ImportPart, Fresh
<1> QED
  BY <1>4, <1>5, <1>7, <1>8 DEF TaskInv
LEMMA DecideTask ==
  ASSUME Typed, TaskInv, Decide
  PROVE  TaskInv'
<1> DEFINE K == {k \in task.keys : Stale(k)}
<1>1. /\ task.pc = "decide" /\ UNCHANGED <<backend, rows, behindTask, now>>
      /\ TaskOn([task EXCEPT !.pc = IF K = {} THEN "idle" ELSE "write",
                             !.keys = K, !.seen = NoTask.seen])
  BY DEF Decide, history, boundVars
<1>2. task.kind = "prune"
  BY <1>1 DEF TaskInv, KindPart, Typed, TaskOK
<1>3. ASSUME NEW k \in K PROVE Prunable(k) /\ MayGo(k)
  <2>1. Prunable(k) /\ Fresh(k) /\ Stale(k)
    BY <1>1, <1>2 DEF TaskInv, PrunePart
  <2>2. ResolveCategory(k) = Home[k]
    BY <2>1, Resolved DEF Prunable
  <2> QED
    BY <2>1, <2>2 DEF Fresh, Stale, MayGo
<1> HIDE DEF K
<1>4. CASE K = {}
  BY <1>1, <1>4, RecordTypes, OverTask DEF TaskOn, Typed, TaskOK
<1>5. CASE K # {}
  <2>1. task' = [task EXCEPT !.pc = "write", !.keys = K, !.seen = NoTask.seen]
    BY <1>1, <1>5 DEF TaskOn, Typed, TaskOK
  <2>2. task'.kind = "prune" /\ task'.pc = "write" /\ task'.keys = K
    BY <1>2, <2>1 DEF Typed, TaskOK
  <2>3. \A k \in K : Prunable(k) /\ MayGo(k)'
    BY <1>1, <1>3 DEF MayGo
  <2> QED
    BY <2>2, <2>3 DEF TaskInv, KindPart, ListPart, DeletePart, ExportPart,
                      PrunePart, ImportPart, Prunable
<1> QED
  BY <1>4, <1>5

\* What the task's write does to a row that was not written since.
LEMMA EffectOf ==
  ASSUME Typed, NEW k \in Key
  PROVE  /\ k \notin task.keys => Effect[k] = rows[k]
         /\ k \in task.keys /\ task.kind # "import" => Effect[k] = NoRow
         /\ k \in task.keys /\ task.kind = "import" =>
              Effect[k] =
                CASE backend = "sql" -> SqlUpsert(rows[k], task.val, task.at)
                  [] backend = "firestore" -> FirestoreUpsert(task.val, task.at)
                  [] backend = "firebase" ->
                       FirebaseUpsert(task.seen[k], task.val, task.at)
  BY DEF Effect, SetMany, DeleteMany

LEMMA WritesTask ==
  ASSUME Typed, TaskInv, TaskWrites
  PROVE  TaskInv'
<1>1. /\ task.pc = "write" /\ rows' = Effect
      /\ UNCHANGED <<backend, behindTask, now>>
      /\ \/ TaskOn([NoTask EXCEPT !.kind = task.kind, !.pc = "clear",
                                   !.inst = task.inst, !.keys = task.keys,
                                   !.val = task.val])
         \/ TaskOn([task EXCEPT !.again = TRUE])
  BY DEF TaskWrites, boundVars
<1>2. /\ task'.kind = task.kind /\ task'.keys = task.keys
      /\ \/ task'.pc = "clear"
         \/ /\ task'.pc = "write" /\ task'.seen = task.seen
            /\ task'.val = task.val /\ task'.at = task.at
  BY <1>1, RecordTypes DEF TaskOn, Typed, TaskOK
<1>3. task.keys \subseteq Key
  BY DEF Typed, TaskOK
<1>4. KindPart'
  BY <1>1, <1>2 DEF TaskInv, KindPart
<1>5. ListPart' /\ ExportPart'
  BY <1>1, <1>2 DEF TaskInv, KindPart, ListPart, ExportPart
<1>6. DeletePart'
  <2> SUFFICES ASSUME task.kind = "delete" PROVE Stored' \subseteq behindTask
    BY <1>1, <1>2 DEF DeletePart
  <2>1. Stored \subseteq task.keys \cup behindTask
    BY <1>1 DEF TaskInv, DeletePart
  <2>2. \A k \in Key : /\ k \in task.keys => rows'[k] = NoRow
                       /\ k \notin task.keys => rows'[k] = rows[k]
    BY <1>1, EffectOf
  <2> QED
    BY <2>1, <2>2 DEF Stored
<1>7. PrunePart'
  <2> SUFFICES ASSUME task.kind = "prune"
               PROVE  \A k \in task.keys : Prunable(k) /\ MayGo(k)'
    BY <1>2 DEF PrunePart, Prunable
  <2>1. \A k \in task.keys : rows'[k] = NoRow
    BY <1>1, <1>3, EffectOf
  <2> QED
    BY <1>1, <2>1 DEF TaskInv, PrunePart, MayGo
<1>8. ImportPart'
  <2> SUFFICES ASSUME task.kind = "import", backend = "firebase",
                      task'.pc = "write", NEW k \in task.keys
               PROVE  rows'[k] = FirebaseUpsert(task.seen[k], task.val, task.at)
    BY <1>1, <1>2 DEF ImportPart
  <2> QED
    BY <1>1, <1>3, EffectOf
<1> QED
  BY <1>4, <1>5, <1>6, <1>7, <1>8 DEF TaskInv

LEMMA TasksTask ==
  ASSUME Typed, TaskInv, TaskStep
  PROVE  TaskInv'
<1>1. CASE Exists
  <2>1. /\ task.pc = "exists" /\ UNCHANGED <<backend, rows, behindTask>>
        /\ TaskOn([task EXCEPT !.pc = IF Stored = {} THEN "idle" ELSE "list"])
    BY <1>1 DEF Exists, history
  <2>2. CASE Stored = {}
    BY <2>1, <2>2, RecordTypes, OverTask DEF TaskOn, Typed, TaskOK
  <2>3. CASE Stored # {}
    <3>1. /\ task'.kind = task.kind /\ task'.pc = "list"
          /\ task'.seen = task.seen
      BY <2>1, <2>3 DEF TaskOn, Typed, TaskOK
    <3> QED
      BY <2>1, <3>1 DEF TaskInv, KindPart, ListPart, DeletePart, ExportPart,
                        PrunePart, ImportPart
  <2> QED
    BY <2>2, <2>3
<1>2. CASE TaskFails \/ Clear \/ Return
  <2>1. task' = NoTask
    BY <1>2, RecordTypes DEF TaskFails, Clear, Return, TaskOn, NoTask
  <2> QED
    BY <2>1, OverTask
<1> QED
  BY <1>1, <1>2, ListTask, ReadTask, DecideTask, WritesTask DEF TaskStep

LEMMA NextTask == Typed /\ TaskInv /\ [Next]_vars => TaskInv'
<1> SUFFICES ASSUME Typed, TaskInv, [Next]_vars PROVE TaskInv'
  OBVIOUS
<1>1. now \in Nat
  BY DEF Typed, CountersOK
<1>2. ASSUME \/ \E i \in Instance, k \in Cached : StartRead(i, k) \/ Expire(i, k)
             \/ \E i \in Instance, K \in Batch : StartWrite(i, K)
             \/ \E i \in Instance : ClearCache(i)
             \/ ReadAnswered \/ ReadFill \/ WriteReads \/ WriteLanded
             \/ Tick \/ UNCHANGED vars
      PROVE  TaskInv'
  <2>1. UNCHANGED <<backend, rows, task, behindTask>>
    BY <1>2 DEF StartRead, Expire, StartWrite, ClearCache, ReadAnswered,
                ReadFill, WriteReads, WriteLanded, Tick, vars, history
  <2>2. now' = now \/ now' = now + 1
    BY <1>2 DEF StartRead, Expire, StartWrite, ClearCache, ReadAnswered,
                ReadFill, WriteReads, WriteLanded, Tick, vars, boundVars
  <2>3. now' \in Nat /\ now' >= now
    BY <1>1, <2>2
  <2> QED
    BY <2>1, <2>3, AsideTask
<1>3. ASSUME NEW i \in Instance,
             \/ StartDelete(i) \/ StartExport(i) \/ StartInfo(i)
             \/ StartPrune(i) \/ \E K \in Batch : StartImport(i, K)
      PROVE  TaskInv'
  BY <1>3, StartTask
<1> QED
  BY <1>2, <1>3, WriteTask, TasksTask DEF Next

LEMMA TaskInvariant == Spec => [](Typed /\ TaskInv)
  BY InitType, InitTask, NextType, NextTask, PTL DEF Spec
-----------------------------------------------------------------------------
(* The theorems                                                            *)

(* deleteSession leaves no row but those written since its first request    *)
(* (session-manager.ts:90-92, and the adapters' deleteSession).             *)
THEOREM DeletionsComplete == Spec => []DeleteIsComplete
<1>1. TaskInv => DeleteIsComplete
  BY DEF TaskInv, DeletePart, DeleteIsComplete
<1> QED
  BY <1>1, TaskInvariant, PTL

(* exportSession misses nothing that was stored before it began and left    *)
(* alone, and mixes up no values (session-manager.ts:102-111).              *)
THEOREM ExportsFaithful == Spec => []ExportFaithful
<1>1. Typed /\ TaskInv => ExportFaithful
  BY DEF TaskInv, ExportPart, ExportFaithful, Fresh, Named
<1> QED
  BY <1>1, TaskInvariant, PTL

\* Which steps change rows, and how.
LEMMA RowsChange ==
  ASSUME Typed, [Next]_vars
  PROVE  \/ rows' = rows
         \/ /\ write.pc = "db" /\ rows' = WriteEffect /\ write' # write
            /\ UNCHANGED <<backend, behindWrite>>
         \/ /\ task.pc = "write" /\ rows' = Effect
            /\ behindWrite' = behindWrite \cup task.keys
            /\ UNCHANGED <<backend, write>>
<1>1. ASSUME WriteExecuted \/ WriteFails
      PROVE  \/ rows' = rows
             \/ /\ write.pc = "db" /\ rows' = WriteEffect /\ write' # write
                /\ UNCHANGED <<backend, behindWrite>>
  BY <1>1, WriteRequest
<1>2. ASSUME TaskStep
      PROVE  \/ rows' = rows
             \/ /\ task.pc = "write" /\ rows' = Effect
                /\ behindWrite' = behindWrite \cup task.keys
                /\ UNCHANGED <<backend, write>>
  BY <1>2 DEF TaskStep, Exists, List, ReadRows, Decide, TaskWrites, TaskFails,
              Clear, Return
<1>3. ASSUME NEW i \in Instance,
             \/ StartDelete(i) \/ StartExport(i) \/ StartInfo(i)
             \/ StartPrune(i) \/ \E K \in Batch : StartImport(i, K)
      PROVE  rows' = rows
  BY <1>3 DEF StartDelete, StartExport, StartInfo, StartPrune, StartImport, Start
<1>4. ASSUME \/ \E i \in Instance, k \in Cached : StartRead(i, k) \/ Expire(i, k)
             \/ \E i \in Instance, K \in Batch : StartWrite(i, K)
             \/ \E i \in Instance : ClearCache(i)
             \/ ReadAnswered \/ ReadFill \/ WriteReads \/ WriteLanded
             \/ Tick \/ UNCHANGED vars
      PROVE  rows' = rows
  BY <1>4 DEF StartRead, Expire, StartWrite, ClearCache, ReadAnswered,
              ReadFill, WriteReads, WriteLanded, Tick, vars
<1> QED
  BY <1>1, <1>2, <1>3, <1>4 DEF Next

(* A pass of the retention deletes only what it may: nothing but rows of    *)
(* configured categories at their age, but for rows written since their age *)
(* was read, and never the credentials (retention.ts:75-117).               *)
THEOREM PruningSafe == Spec => PruneIsSafe
<1> DEFINE Safe == task.kind = "prune" =>
       \A k \in Key : rows[k] # NoRow /\ rows'[k] = NoRow /\ write' = write =>
         /\ k # Creds
         /\ Home[k] \in DOMAIN MaxAge
         /\ k \in behindTask \/ now - rows[k].at >= MaxAge[Home[k]]
<1>1. Typed /\ TaskInv /\ [Next]_vars => Safe
  <2> SUFFICES ASSUME Typed, TaskInv, [Next]_vars, task.kind = "prune",
                      NEW k \in Key, rows[k] # NoRow, rows'[k] = NoRow,
                      write' = write
               PROVE  /\ k # Creds
                      /\ Home[k] \in DOMAIN MaxAge
                      /\ k \in behindTask \/ now - rows[k].at >= MaxAge[Home[k]]
    OBVIOUS
  <2>1. task.pc = "write" /\ rows' = Effect
    BY RowsChange
  <2>2. k \in task.keys
    BY <2>1, EffectOf
  <2> QED
    BY <2>1, <2>2 DEF TaskInv, PrunePart, Prunable, MayGo
<1>2. Typed /\ TaskInv /\ [Next]_vars => [Safe]_vars
  BY <1>1
<1> HIDE DEF Safe
<1>3. Spec => [][Safe]_vars
  BY <1>2, TaskInvariant, PTL DEF Spec
<1> QED
  BY <1>3 DEF PruneIsSafe, Safe

(* The versions that keys.set has read on Firebase are those of the rows; a *)
(* retry finds what it has written.                                         *)
WriteInv ==
  backend = "firebase" /\ write.pc = "db" /\ write.val # 0 =>
    \A k \in write.keys :
      \/ k \in behindWrite
      \/ write.seen[k] = rows[k]
      \/ rows[k] = FirebaseUpsert(write.seen[k], write.val, write.at)

LEMMA InitWrite == Init => WriteInv
  BY DEF Init, NoWrite, WriteInv

LEMMA NextWrite == Typed /\ TaskInv /\ WriteInv /\ [Next]_vars => WriteInv'
<1> SUFFICES ASSUME Typed, TaskInv, WriteInv, [Next]_vars PROVE WriteInv'
  OBVIOUS
<1>1. write.keys \subseteq Key
  BY DEF Typed, WriteOK
<1>2. CASE task.pc = "write" /\ rows' = Effect
           /\ behindWrite' = behindWrite \cup task.keys
           /\ UNCHANGED <<backend, write>>
  <2>1. \A k \in Key : k \in behindWrite' \/ rows'[k] = rows[k]
    BY <1>2, EffectOf
  <2> QED
    BY <1>1, <1>2, <2>1 DEF WriteInv
<1>3. CASE WriteFails \/ WriteLanded
  <2>1. write'.pc = "idle"
    BY <1>3 DEF WriteFails, WriteLanded, NoWrite
  <2> QED
    BY <2>1 DEF WriteInv
<1>10. CASE WriteExecuted
  <2>1. CASE write' = [NoWrite EXCEPT !.pc = "landed", !.inst = write.inst,
                               !.keys = write.keys, !.val = write.val]
    <3>1. write'.pc = "landed"
      BY <2>1, RecordTypes
    <3> QED
      BY <3>1 DEF WriteInv
  <2>2. CASE write' = [write EXCEPT !.again = TRUE]
    <3>1. /\ write'.keys = write.keys /\ write'.val = write.val
          /\ write'.at = write.at /\ write'.seen = write.seen
      BY <2>2 DEF Typed, WriteOK
    <3>2. rows' = WriteEffect /\ backend' = backend
      BY <1>10 DEF WriteExecuted
    <3>3. ASSUME backend = "firebase", write.val # 0, NEW k \in write.keys
          PROVE  rows'[k] = FirebaseUpsert(write.seen[k], write.val, write.at)
      BY <1>1, <3>2, <3>3, WriteEffectOf
    <3> QED
      BY <3>1, <3>2, <3>3 DEF WriteInv
  <2> QED
    BY <1>10, <2>1, <2>2 DEF WriteExecuted
<1>4. CASE WriteReads
  <2>1. /\ write'.keys = write.keys /\ rows' = rows
        /\ \A k \in write.keys : write'.seen[k] = rows[k]
    BY <1>1, <1>4 DEF WriteReads, Typed, WriteOK
  <2> QED
    BY <2>1 DEF WriteInv
<1>5. ASSUME NEW i \in Instance, NEW K \in Batch, StartWrite(i, K)
      PROVE  WriteInv'
  <2>1. backend' = backend
        /\ (backend = "firebase" /\ write'.val # 0 => write'.pc = "read")
    BY <1>5, RecordTypes DEF StartWrite, ReadsFirst
  <2> QED
    BY <2>1 DEF WriteInv
<1>6. CASE UNCHANGED <<backend, rows, write, behindWrite>>
  BY <1>6 DEF WriteInv
<1>7. ASSUME TaskStep
      PROVE  \/ UNCHANGED <<backend, rows, write, behindWrite>>
             \/ /\ task.pc = "write" /\ rows' = Effect
                /\ behindWrite' = behindWrite \cup task.keys
                /\ UNCHANGED <<backend, write>>
  BY <1>7 DEF TaskStep, Exists, List, ReadRows, Decide, TaskWrites, TaskFails,
              Clear, Return, history
<1>8. ASSUME NEW i \in Instance,
             \/ StartDelete(i) \/ StartExport(i) \/ StartInfo(i)
             \/ StartPrune(i) \/ \E K \in Batch : StartImport(i, K)
      PROVE  UNCHANGED <<backend, rows, write, behindWrite>>
  BY <1>8 DEF StartDelete, StartExport, StartInfo, StartPrune, StartImport, Start
<1>9. ASSUME \/ \E i \in Instance, k \in Cached : StartRead(i, k) \/ Expire(i, k)
             \/ \E i \in Instance : ClearCache(i)
             \/ ReadAnswered \/ ReadFill \/ Tick \/ UNCHANGED vars
      PROVE  UNCHANGED <<backend, rows, write, behindWrite>>
  BY <1>9 DEF StartRead, Expire, ClearCache, ReadAnswered, ReadFill, Tick, vars,
              history
<1> QED
  BY <1>2, <1>3, <1>4, <1>5, <1>6, <1>7, <1>8, <1>9, <1>10 DEF Next

(* A row's version grows with each change of its value, but for Firestore,  *)
(* and but for rows that another setMany of Firebase has written since the  *)
(* versions were read (sqlite-worker.ts:49-65, firestore-adapter.ts:143,    *)
(* firebase-realtime-adapter.ts:103-114).                                   *)
THEOREM VersionsGrow == Spec => VersionGrows
<1> DEFINE Grows ==
      \A k \in Key :
       rows[k] # NoRow /\ rows'[k] # NoRow /\ rows'[k] # rows[k] =>
         \/ rows'[k].ver > rows[k].ver
         \/ backend = "firestore"
         \/ /\ backend = "firebase"
            /\ k \in IF write' = write THEN behindTask ELSE behindWrite
<1>1. ASSUME Typed, TaskInv, WriteInv, [Next]_vars PROVE Grows
  <2> SUFFICES ASSUME NEW k \in Key, rows[k] # NoRow, rows'[k] # NoRow,
                      rows'[k] # rows[k], backend # "firestore"
               PROVE  \/ rows'[k].ver > rows[k].ver
                      \/ /\ backend = "firebase"
                         /\ k \in IF write' = write THEN behindTask
                                                    ELSE behindWrite
    OBVIOUS
  <2>1. rows[k].ver \in Nat
    BY <1>1 DEF Typed, RowsOK, Rows, Row
  <2>2. backend \in {"sql", "firebase"}
    BY <1>1, BackendAssumption DEF Typed, BackendKinds
  <2>3. \A v, t : SqlUpsert(rows[k], v, t).ver > rows[k].ver
    BY <2>1 DEF SqlUpsert
  <2>4. \A seen, v, t : seen = rows[k] => FirebaseUpsert(seen, v, t).ver > rows[k].ver
    BY <2>1 DEF FirebaseUpsert
  <2>5. CASE write.pc = "db" /\ rows' = WriteEffect /\ write' # write
    <3>1. k \in write.keys /\ write.val # 0
      BY <1>1, <2>5, WriteEffectOf
    <3>2. rows'[k] = CASE backend = "sql" -> SqlUpsert(rows[k], write.val, write.at)
                       [] backend = "firestore" ->
                            FirestoreUpsert(write.val, write.at)
                       [] backend = "firebase" ->
                            FirebaseUpsert(write.seen[k], write.val, write.at)
      BY <1>1, <2>5, <3>1, WriteEffectOf
    <3>3. CASE backend = "sql"
      BY <2>3, <3>2, <3>3
    <3>4. CASE backend = "firebase"
      <4>1. \/ k \in behindWrite \/ write.seen[k] = rows[k]
            \/ rows[k] = FirebaseUpsert(write.seen[k], write.val, write.at)
        BY <1>1, <2>5, <3>1, <3>4 DEF WriteInv
      <4>2. rows'[k] = FirebaseUpsert(write.seen[k], write.val, write.at)
        BY <3>2, <3>4
      <4> QED
        BY <2>4, <2>5, <3>4, <4>1, <4>2
    <3> QED
      BY <2>2, <3>3, <3>4
  <2>6. CASE task.pc = "write" /\ rows' = Effect /\ UNCHANGED <<backend, write>>
    <3>1. k \in task.keys /\ task.kind = "import"
      BY <1>1, <2>6, EffectOf
    <3>2. rows'[k] = CASE backend = "sql" -> SqlUpsert(rows[k], task.val, task.at)
                       [] backend = "firestore" ->
                            FirestoreUpsert(task.val, task.at)
                       [] backend = "firebase" ->
                            FirebaseUpsert(task.seen[k], task.val, task.at)
      BY <1>1, <2>6, <3>1, EffectOf
    <3>3. CASE backend = "sql"
      BY <2>3, <3>2, <3>3
    <3>4. CASE backend = "firebase"
      <4>1. \/ Fresh(k)
            \/ rows[k] = FirebaseUpsert(task.seen[k], task.val, task.at)
        BY <1>1, <2>6, <3>1, <3>4 DEF TaskInv, ImportPart
      <4>2. rows'[k] = FirebaseUpsert(task.seen[k], task.val, task.at)
        BY <3>2, <3>4
      <4> QED
        BY <2>4, <2>6, <3>4, <4>1, <4>2 DEF Fresh
    <3> QED
      BY <2>2, <3>3, <3>4
  <2> QED
    BY <1>1, <2>5, <2>6, RowsChange
<1>2. Typed /\ TaskInv /\ WriteInv /\ [Next]_vars => [Grows]_vars
  BY <1>1
<1> HIDE DEF Grows
<1>3. Spec => [][Grows]_vars
  BY <1>2, TaskInvariant, InitWrite, NextWrite, PTL DEF Spec
<1> QED
  BY <1>3 DEF VersionGrows, Grows
-----------------------------------------------------------------------------
(* The memory caches                                                       *)

Honest(i, k) == \/ l1[i][k] = NoEntry \/ ~ l1[i][k].ok
                \/ l1[i][k].val = rows[k].val
OwedByWrite(i, k) == /\ write.pc = "landed"
                     /\ write.inst = i /\ k \in write.keys
OwedByTask(i, k) == /\ task.pc = "clear"
                    /\ task.inst = i /\ k \in task.keys

LEMMA HonestParts ==
  L1Honest <=> \A i \in Instance, k \in Cached :
                 Honest(i, k) \/ OwedByWrite(i, k) \/ OwedByTask(i, k)
  BY DEF L1Honest, Honest, OwedByWrite, OwedByTask

\* A process that misses a change of a key does not hold its entry for true.
LEMMA MissedHonest ==
  ASSUME CachesOK(l1), NEW I, NEW K, NEW i \in Instance, NEW k \in Cached
  PROVE  /\ i \in I /\ k \in K => \/ MissedBy(I, K)[i][k] = NoEntry
                                  \/ ~ MissedBy(I, K)[i][k].ok
         /\ i \notin I \/ k \notin K => MissedBy(I, K)[i][k] = l1[i][k]
<1>1. l1[i][k] \in [val : Nat, ok : BOOLEAN]
  BY DEF CachesOK, Caches, Entry
<1> QED
  BY <1>1 DEF MissedBy, Missed

\* The rows of K change, and all caches but that of the caller i0 miss it.
LEMMA ChangeHonest ==
  ASSUME CachesOK(l1), NEW I, NEW K, l1' = MissedBy(I, K),
         \A k \in Key : k \in K \/ rows'[k] = rows[k],
         NEW i \in Instance, NEW k \in Cached, Honest(i, k),
         i \in I \/ k \notin K
  PROVE  Honest(i, k)'
  BY MissedHonest, KeyAssumption DEF Honest

LEMMA EntryOfHonest ==
  ASSUME NEW k \in Key, NEW v
  PROVE  ~ EntryOf(k, v).ok \/ EntryOf(k, v).val = rows[k].val
<1>1. EntryOf(k, v).val = v
  BY DEF EntryOf
<1>2. CASE v # rows[k].val
  <2>1. EntryOf(k, v).ok = FALSE
    BY <1>2 DEF EntryOf
  <2> QED
    BY <2>1
<1> QED
  BY <1>1, <1>2

LEMMA InitHonest == Init => L1Honest
  BY DEF Init, Empty, L1Honest

\* A section's write, answered, repeated or given up.
LEMMA WriteHonest ==
  ASSUME Typed, L1Honest, write.pc # "landed", UNCHANGED task, NEW I,
         l1' = MissedBy(I, write.keys),
         \A k \in Key : k \in write.keys \/ rows'[k] = rows[k],
         \/ I = Instance
         \/ /\ I = Instance \ {write.inst} /\ write'.pc = "landed"
            /\ write'.inst = write.inst /\ write'.keys = write.keys
  PROVE  L1Honest'
<1> SUFFICES ASSUME NEW i \in Instance, NEW k \in Cached
             PROVE  (Honest(i, k) \/ OwedByWrite(i, k) \/ OwedByTask(i, k))'
  BY DEF L1Honest, Honest, OwedByWrite, OwedByTask
<1>1. Honest(i, k) \/ OwedByTask(i, k)
  BY HonestParts DEF OwedByWrite
<1>2. CASE OwedByTask(i, k)
  BY <1>2 DEF OwedByTask
<1>3. CASE Honest(i, k) /\ (i \in I \/ k \notin write.keys)
  BY <1>3, ChangeHonest DEF Typed
<1>4. CASE i \notin I /\ k \in write.keys
  BY <1>4 DEF OwedByWrite
<1> QED
  BY <1>1, <1>2, <1>3, <1>4

LEMMA WritesHonest ==
  ASSUME Typed, L1Honest, WriteExecuted
  PROVE  L1Honest'
<1>1. /\ write.pc = "db" /\ UNCHANGED task
      /\ \A k \in Key : k \in write.keys \/ rows'[k] = rows[k]
  BY WriteEffectOf DEF WriteExecuted
<1>2. CASE /\ l1' = MissedBy(Instance \ {write.inst}, write.keys)
           /\ write' = [NoWrite EXCEPT !.pc = "landed", !.inst = write.inst,
                                       !.keys = write.keys, !.val = write.val]
  <2>1. /\ write'.pc = "landed" /\ write'.inst = write.inst
        /\ write'.keys = write.keys
    BY <1>2, RecordTypes
  <2> QED
    BY <1>1, <1>2, <2>1, WriteHonest
<1>3. CASE l1' = MissedBy(Instance, write.keys)
  BY <1>1, <1>3, WriteHonest
<1> QED
  BY <1>2, <1>3 DEF WriteExecuted

LEMMA LandsHonest ==
  ASSUME Typed, L1Honest, WriteLanded
  PROVE  L1Honest'
<1> SUFFICES ASSUME NEW i \in Instance, NEW k \in Cached
             PROVE  (Honest(i, k) \/ OwedByTask(i, k))'
  BY DEF L1Honest, Honest, OwedByWrite, OwedByTask
<1>1. /\ write.inst \in Instance /\ UNCHANGED <<rows, task>>
      /\ l1' = [l1 EXCEPT ![write.inst] =
                  [j \in Cached |-> IF j \notin write.keys THEN l1[write.inst][j]
                                    ELSE IF write.val = 0 THEN NoEntry
                                    ELSE EntryOf(j, write.val)]]
  BY DEF WriteLanded, Typed, WriteOK, CachesOK, Caches
<1>2. CASE i = write.inst /\ k \in write.keys
  <2>1. l1'[i][k] = NoEntry \/ l1'[i][k] = EntryOf(k, write.val)
    BY <1>1, <1>2 DEF Typed, CachesOK, Caches
  <2> QED
    BY <1>1, <2>1, EntryOfHonest, KeyAssumption DEF Honest
<1>3. CASE i # write.inst \/ k \notin write.keys
  <2>1. l1'[i][k] = l1[i][k]
    BY <1>1, <1>3 DEF Typed, CachesOK, Caches
  <2>2. Honest(i, k) \/ OwedByTask(i, k)
    BY <1>3, HonestParts DEF OwedByWrite
  <2> QED
    BY <1>1, <2>1, <2>2 DEF Honest, OwedByTask
<1> QED
  BY <1>2, <1>3

\* The task's write, answered, repeated or given up.
LEMMA TaskWriteHonest ==
  ASSUME Typed, L1Honest, task.pc # "clear", UNCHANGED write, NEW I,
         l1' = MissedBy(I, task.keys),
         \A k \in Key : k \in task.keys \/ rows'[k] = rows[k],
         \/ I = Instance
         \/ /\ I = Instance \ {task.inst} /\ task'.pc = "clear"
            /\ task'.inst = task.inst /\ task'.keys = task.keys
  PROVE  L1Honest'
<1> SUFFICES ASSUME NEW i \in Instance, NEW k \in Cached
             PROVE  (Honest(i, k) \/ OwedByWrite(i, k) \/ OwedByTask(i, k))'
  BY DEF L1Honest, Honest, OwedByWrite, OwedByTask
<1>1. Honest(i, k) \/ OwedByWrite(i, k)
  BY HonestParts DEF OwedByTask
<1>2. CASE OwedByWrite(i, k)
  BY <1>2 DEF OwedByWrite
<1>3. CASE Honest(i, k) /\ (i \in I \/ k \notin task.keys)
  BY <1>3, ChangeHonest DEF Typed
<1>4. CASE i \notin I /\ k \in task.keys
  BY <1>4 DEF OwedByTask
<1> QED
  BY <1>1, <1>2, <1>3, <1>4

LEMMA ClearHonest ==
  ASSUME Typed, L1Honest, Clear
  PROVE  L1Honest'
<1> SUFFICES ASSUME NEW i \in Instance, NEW k \in Cached
             PROVE  (Honest(i, k) \/ OwedByWrite(i, k))'
  BY DEF L1Honest, Honest, OwedByWrite, OwedByTask
<1> DEFINE old == l1[task.inst]
<1>1. /\ task.inst \in Instance /\ UNCHANGED <<rows, write>>
      /\ l1' = [l1 EXCEPT ![task.inst] =
                  IF task.kind # "prune" THEN Empty
                  ELSE [j \in Cached |-> IF j \in Named(task.keys) THEN NoEntry
                                         ELSE Missed(old, task.keys)[j]]]
  BY DEF Clear, Typed, TaskOK, CachesOK, Caches
<1>2. CASE i # task.inst
  <2>1. l1'[i][k] = l1[i][k]
    BY <1>1, <1>2 DEF Typed, CachesOK, Caches
  <2>2. Honest(i, k) \/ OwedByWrite(i, k)
    BY <1>2, HonestParts DEF OwedByTask
  <2> QED
    BY <1>1, <2>1, <2>2 DEF Honest, OwedByWrite
<1>3. CASE i = task.inst
  <2>1. \/ l1'[i][k] = NoEntry
        \/ l1'[i][k] = Missed(old, task.keys)[k]
    BY <1>1, <1>3 DEF Empty, Typed, CachesOK, Caches
  <2>2. old[k] \in [val : Nat, ok : BOOLEAN]
    BY <1>1 DEF Typed, CachesOK, Caches, Entry
  <2>3. \/ l1'[i][k] = NoEntry \/ ~ l1'[i][k].ok
        \/ l1'[i][k] = l1[i][k] /\ k \notin task.keys
    <3> HIDE DEF old
    <3>1. \/ Missed(old, task.keys)[k] = NoEntry
          \/ ~ Missed(old, task.keys)[k].ok
          \/ Missed(old, task.keys)[k] = old[k] /\ k \notin task.keys
      BY <2>2 DEF Missed
    <3> QED
      BY <1>3, <2>1, <3>1 DEF old
  <2>4. k \notin task.keys => Honest(i, k) \/ OwedByWrite(i, k)
    BY HonestParts DEF OwedByTask
  <2> QED
    BY <1>1, <2>3, <2>4 DEF Honest, OwedByWrite
<1> QED
  BY <1>2, <1>3

\* An entry is filled, expires, or all of a cache's entries go.
LEMMA EntryHonest ==
  ASSUME Typed, L1Honest, UNCHANGED <<rows, write, task>>,
         \A i \in Instance, k \in Cached :
           \/ l1'[i][k] = l1[i][k]
           \/ l1'[i][k] = NoEntry
           \/ \E v \in Nat : l1'[i][k] = EntryOf(k, v)
  PROVE  L1Honest'
<1> SUFFICES ASSUME NEW i \in Instance, NEW k \in Cached
             PROVE  (Honest(i, k) \/ OwedByWrite(i, k) \/ OwedByTask(i, k))'
  BY DEF L1Honest, Honest, OwedByWrite, OwedByTask
<1>1. Honest(i, k) \/ OwedByWrite(i, k) \/ OwedByTask(i, k)
  BY HonestParts
<1>2. /\ OwedByWrite(i, k) => OwedByWrite(i, k)'
      /\ OwedByTask(i, k) => OwedByTask(i, k)'
  BY DEF OwedByWrite, OwedByTask
<1>3. Honest(i, k) => Honest(i, k)'
  BY EntryOfHonest, KeyAssumption DEF Honest
<1> QED
  BY <1>1, <1>2, <1>3

\* Steps of which the caches see nothing.
LEMMA AsideHonest ==
  ASSUME L1Honest, UNCHANGED <<rows, l1>>,
         write' = write \/ write.pc # "landed",
         task' = task \/ task.pc # "clear"
  PROVE  L1Honest'
<1> SUFFICES ASSUME NEW i \in Instance, NEW k \in Cached
             PROVE  (Honest(i, k) \/ OwedByWrite(i, k) \/ OwedByTask(i, k))'
  BY DEF L1Honest, Honest, OwedByWrite, OwedByTask
<1>1. Honest(i, k) \/ OwedByWrite(i, k) \/ OwedByTask(i, k)
  BY HonestParts
<1> QED
  BY <1>1 DEF Honest, OwedByWrite, OwedByTask

LEMMA FailsHonest ==
  ASSUME Typed, L1Honest, WriteFails
  PROVE  L1Honest'
<1>1. write.pc # "landed" /\ UNCHANGED task
  BY DEF WriteFails
<1>2. CASE UNCHANGED <<rows, l1>>
  BY <1>1, <1>2, AsideHonest
<1>3. CASE rows' = WriteEffect /\ l1' = MissedBy(Instance, write.keys)
  <2>1. \A k \in Key : k \in write.keys \/ rows'[k] = rows[k]
    BY <1>3, WriteEffectOf
  <2> QED
    BY <1>1, <1>3, <2>1, WriteHonest
<1> QED
  BY <1>2, <1>3 DEF WriteFails

LEMMA TasksHonest ==
  ASSUME Typed, L1Honest, TaskStep
  PROVE  L1Honest'
<1>1. CASE Exists \/ List \/ ReadRows \/ Decide \/ Return
  BY <1>1, AsideHonest DEF Exists, List, ReadRows, Decide, Return
<1>2. \A k \in Key : k \in task.keys \/ Effect[k] = rows[k]
  BY EffectOf
<1>3. CASE TaskWrites
  <2>1. /\ task.pc # "clear" /\ UNCHANGED write /\ rows' = Effect
        /\ \/ /\ l1' = MissedBy(Instance \ {task.inst}, task.keys)
              /\ TaskOn([NoTask EXCEPT !.kind = task.kind, !.pc = "clear",
                                       !.inst = task.inst, !.keys = task.keys,
                                       !.val = task.val])
           \/ l1' = MissedBy(Instance, task.keys)
    BY <1>3 DEF TaskWrites
  <2>2. TaskOn([NoTask EXCEPT !.kind = task.kind, !.pc = "clear",
                              !.inst = task.inst, !.keys = task.keys,
                              !.val = task.val]) =>
          /\ task'.pc = "clear" /\ task'.inst = task.inst
          /\ task'.keys = task.keys
    BY RecordTypes DEF TaskOn, Typed, TaskOK
  <2> QED
    BY <1>2, <2>1, <2>2, TaskWriteHonest
<1>4. CASE TaskFails
  <2>1. task.pc # "clear" /\ UNCHANGED write
    BY <1>4 DEF TaskFails
  <2>2. CASE UNCHANGED <<rows, l1>>
    BY <2>1, <2>2, AsideHonest
  <2>3. CASE rows' = Effect /\ l1' = MissedBy(Instance, task.keys)
    BY <1>2, <2>1, <2>3, TaskWriteHonest
  <2> QED
    BY <1>4, <2>2, <2>3 DEF TaskFails
<1> QED
  BY <1>1, <1>3, <1>4, ClearHonest DEF TaskStep

LEMMA NextHonest == Typed /\ L1Honest /\ [Next]_vars => L1Honest'
<1> SUFFICES ASSUME Typed, L1Honest, [Next]_vars PROVE L1Honest'
  OBVIOUS
<1>1. ASSUME NEW i \in Instance, NEW k \in Cached, StartRead(i, k)
      PROVE  L1Honest'
  BY <1>1, AsideHonest DEF StartRead
<1>2. ASSUME NEW i \in Instance, NEW K \in Batch, StartWrite(i, K)
      PROVE  L1Honest'
  BY <1>2, AsideHonest DEF StartWrite
<1>3. CASE ReadAnswered \/ WriteReads \/ Tick \/ UNCHANGED vars
  BY <1>3, AsideHonest DEF ReadAnswered, WriteReads, Tick, vars
<1>4. ASSUME NEW i \in Instance,
             \/ StartDelete(i) \/ StartExport(i) \/ StartInfo(i)
             \/ StartPrune(i) \/ \E K \in Batch : StartImport(i, K)
      PROVE  L1Honest'
  BY <1>4, AsideHonest DEF StartDelete, StartExport, StartInfo, StartPrune,
                           StartImport, Start
<1>5. CASE ReadFill
  <2>1. read.val \in Nat /\ UNCHANGED <<rows, write, task>>
    BY <1>5 DEF ReadFill, Typed, ReadOK
  <2>2. ASSUME NEW i \in Instance, NEW k \in Cached
        PROVE  l1'[i][k] = l1[i][k] \/ l1'[i][k] = EntryOf(k, read.val)
    BY <1>5 DEF ReadFill, Typed, CachesOK, Caches
  <2> QED
    BY <2>1, <2>2, EntryHonest
<1>6. ASSUME NEW i \in Instance, NEW k \in Cached, Expire(i, k)
      PROVE  L1Honest'
  <2>1. \A j \in Instance, m \in Cached : \/ l1'[j][m] = l1[j][m]
                                         \/ l1'[j][m] = NoEntry
    BY <1>6 DEF Expire, Typed, CachesOK, Caches
  <2> QED
    BY <1>6, <2>1, EntryHonest DEF Expire
<1>7. ASSUME NEW i \in Instance, ClearCache(i) PROVE L1Honest'
  <2>1. \A j \in Instance, m \in Cached : \/ l1'[j][m] = l1[j][m]
                                         \/ l1'[j][m] = NoEntry
    BY <1>7 DEF ClearCache, Empty, Typed, CachesOK, Caches
  <2> QED
    BY <1>7, <2>1, EntryHonest DEF ClearCache
<1> QED
  BY <1>1, <1>2, <1>3, <1>4, <1>5, <1>6, <1>7, WritesHonest, FailsHonest,
     LandsHonest, TasksHonest DEF Next

(* A process whose keys.set, import, deletion or pruning the database has   *)
(* answered brings its own memory cache up to date as the next thing it     *)
(* does (factory.ts:167-179, session-manager.ts:90-138,                     *)
(* retention.ts:116-117): until then, the entries of this request are the   *)
(* only ones that differ from the rows without being marked.  What the      *)
(* marks except is listed with L1Honest: late fills, requests that failed   *)
(* after their change or were repeated, an onWritten after a clear, names   *)
(* that Firebase escapes, and all changes by other processes.               *)
THEOREM CachesHonest == Spec => []L1Honest
  BY InitType, NextType, InitHonest, NextHonest, PTL DEF Spec
=============================================================================
