------------------------- MODULE SessionMaintenance -------------------------
(***************************************************************************)
(* The session management API (src/src/session-manager.ts) and the key     *)
(* retention (retention.ts) of one session, at work on a database beside   *)
(* the reads and writes of the auth state, in one or more processes with a *)
(* memory cache each.                                                      *)
(*                                                                         *)
(* deleteSession, importSession, exportSession, getSessionInfo and         *)
(* pruneExpiredKeys take no lock: each is a chain of requests to the       *)
(* adapter, with the keys.get and keys.set of others in between, and ends  *)
(* in an update of the caches.  What one request covers, and what it does  *)
(* to versions, differs between the backends: the SQL databases, Firestore *)
(* and the Firebase Realtime Database.                                     *)
(*                                                                         *)
(* The caches of CacheManager and the lock are those of HybridAuthState,   *)
(* here without Redis: one read and one write are in flight at a time, and *)
(* one task.  A row has the time at which its setMany was called, as in    *)
(* every adapter but SQLite's, whose worker takes it a little later.       *)
(***************************************************************************)
EXTENDS Integers, FiniteSets

CONSTANTS
  Instance,  \* server processes
  Writer,    \* those that have the session's socket, and write
  Key,       \* keys of the session
  Creds,     \* the key of the credentials, CREDS_KEY
  Dotted,    \* keys with a character that Firebase escapes in a path
  Category,  \* the signal data categories
  Home,      \* Home[k]: the category that k is stored under
  Shorter,   \* <<c, d>> with d = c followed by a hyphen and more
  MaxAge,    \* maxAgeMsByCategory: its domain is the configured categories
  Batch,     \* the sets of keys that are written together
  Cached,    \* the keys that are asked for; the cache entries of others matter
             \* to nobody, and are left out
  Backends,  \* which databases, a subset of BackendKinds
  DbFails,   \* a request may fail, with or without its effect
  MaxWrites, MaxTasks, MaxTime   \* bounds of the instances checked by TLC

BackendKinds == {"sql", "firestore", "firebase"}

ASSUME InstanceAssumption == Instance # {} /\ Writer \subseteq Instance
ASSUME KeyAssumption ==
  Creds \in Key /\ Dotted \subseteq Key /\ Cached \subseteq Key
ASSUME BatchAssumption == Batch \subseteq (SUBSET Key) \ {{}}
ASSUME CategoryAssumption == /\ Home \in [Key \ {Creds} -> Category]
                             /\ \A c, d \in Category : <<c, d>> \in Shorter =>
                                  <<d, c>> \notin Shorter
                             /\ DOMAIN MaxAge \subseteq Category
                             /\ \A c \in DOMAIN MaxAge : MaxAge[c] \in Nat
ASSUME BackendAssumption == Backends \subseteq BackendKinds
ASSUME BoundsAssumption == /\ MaxWrites \in Nat /\ MaxTasks \in Nat
                           /\ MaxTime \in Nat /\ DbFails \in BOOLEAN

VARIABLES
  backend,   \* the database of this run of the system
  rows,      \* rows[k]: the row of k
  l1,        \* l1[i][k]: the entry of k in the memory cache of i
  now,       \* Date.now()
  read,      \* the CacheManager.get in flight
  write,     \* the section of keys.set or saveCreds that holds the lock
  task,      \* the call of the session manager in flight
  behindTask,   \* keys written since the task's first request (history)
  behindWrite,  \* keys written by the task since the write began (history)
  writes,    \* the number of writes: the value of the latest
  tasks      \* the number of tasks started

boundVars == <<now, writes, tasks>>
history == <<behindTask, behindWrite>>
vars == <<backend, rows, l1, read, write, task, history, boundVars>>

Row == [val : Nat, ver : Nat, at : Nat]
NoRow == [val |-> 0, ver |-> 0, at |-> 0]
Stored == {k \in Key : rows[k] # NoRow}

(* ok is not in the code: it is FALSE for an entry that was stale when it   *)
(* was put there, and for one whose row has since been changed by a call    *)
(* that does not reach this cache, or that failed after its change.         *)
Entry == [val : Nat, ok : BOOLEAN]
NoEntry == [val |-> 0, ok |-> TRUE]
EntryOf(k, v) == [val |-> v, ok |-> v = rows[k].val]
Empty == [k \in Cached |-> NoEntry]

\* What a cache holds once a change of the keys of K has been missed.
Missed(c, K) == [k \in Cached |-> IF k \in K /\ c[k] # NoEntry
                                  THEN [c[k] EXCEPT !.ok = FALSE] ELSE c[k]]
MissedBy(I, K) == [i \in Instance |-> IF i \in I THEN Missed(l1[i], K) ELSE l1[i]]

Nobody == CHOOSE i \in Instance : TRUE
NoRead == [pc |-> "idle", inst |-> Nobody, key |-> Creds, val |-> 0]
NoWrite == [pc |-> "idle", inst |-> Nobody, keys |-> {}, val |-> 0, at |-> 0,
            seen |-> [k \in Key |-> NoRow], again |-> FALSE]
NoTask == [kind |-> "none", pc |-> "idle", inst |-> Nobody, keys |-> {},
           todo |-> {}, seen |-> [k \in Key |-> NoRow], val |-> 0, at |-> 0,
           again |-> FALSE]

Init ==
  /\ backend \in Backends
  /\ rows = [k \in Key |-> NoRow]
  /\ l1 = [i \in Instance |-> Empty]
  /\ read = NoRead /\ write = NoWrite /\ task = NoTask
  /\ behindTask = {} /\ behindWrite = {}
  /\ now = 0 /\ writes = 0 /\ tasks = 0

-----------------------------------------------------------------------------
(* The adapters                                                            *)

\* One statement, or one transaction: INSERT ... ON CONFLICT DO UPDATE.
SqlUpsert(row, v, t) == [val |-> v, ver |-> row.ver + 1, at |-> t]

\* A WriteBatch of set()s, that replace the document.
FirestoreUpsert(v, t) == [val |-> v, ver |-> 1, at |-> t]

\* Mutant: the version that was read is written back, or 1.
FirebaseSameVersion(seen, v, t) ==
  [val |-> v, ver |-> IF seen = NoRow THEN 1 ELSE seen.ver, at |-> t]

\* A multi-path update, with versions counted from rows that were read before.
FirebaseUpsert(seen, v, t) == [val |-> v, ver |-> seen.ver + 1, at |-> t]

\* setMany of the keys of K: value v, time t, after the rows seen were read.
SetMany(K, v, t, seen) ==
  [k \in Key |-> IF k \notin K THEN rows[k]
                 ELSE CASE backend = "sql" -> SqlUpsert(rows[k], v, t)
                        [] backend = "firestore" -> FirestoreUpsert(v, t)
                        [] backend = "firebase" -> FirebaseUpsert(seen[k], v, t)]

\* deleteMany; deleteSession, with all keys.
DeleteMany(K) == [k \in Key |-> IF k \in K THEN NoRow ELSE rows[k]]

\* Whether setMany first reads the versions of the rows.
ReadsFirst == backend = "firebase"

(* getMany reads all rows at once, or with a request for each of them.      *)
(* Requests of getSessionInfo and exportSession are always for one row.     *)
TogetherBy(kind, K) ==
  IF backend = "sql" /\ kind = "prune" THEN {K} ELSE {{k} : k \in K}

(* Firebase's paths are escaped, and getAllKeys does not undo that: such a  *)
(* name finds the row again, but it is not the key's name elsewhere.        *)
Named(K) == IF backend = "firebase" THEN K \ Dotted ELSE K

-----------------------------------------------------------------------------
(* Beside the session manager: CacheManager.get, and keys.set              *)

StartRead(i, k) ==
  /\ read.pc = "idle" /\ l1[i][k] = NoEntry
  /\ read' = [pc |-> "db", inst |-> i, key |-> k, val |-> 0]
  /\ UNCHANGED <<backend, rows, l1, write, task, history, boundVars>>

\* The database answers, or the read throws.
ReadAnswered ==
  /\ read.pc = "db"
  /\ \/ read' = [read EXCEPT !.pc = "got", !.val = rows[read.key].val]
     \/ DbFails /\ read' = NoRead
  /\ UNCHANGED <<backend, rows, l1, write, task, history, boundVars>>

\* Mutant: a missing record is cached like any other.
ReadFillMissing ==
  /\ read.pc = "got"
  /\ l1' = [l1 EXCEPT ![read.inst][read.key] = EntryOf(read.key, read.val)]
  /\ read' = NoRead
  /\ UNCHANGED <<backend, rows, write, task, history, boundVars>>

\* The memory cache is filled, with what the database answered.
ReadFill ==
  /\ read.pc = "got"
  /\ l1' = IF read.val = 0 THEN l1
           ELSE [l1 EXCEPT ![read.inst][read.key] = EntryOf(read.key, read.val)]
  /\ read' = NoRead
  /\ UNCHANGED <<backend, rows, write, task, history, boundVars>>

(* A section of keys.set has the lock: one that stores a new value, or one  *)
(* that deletes (val = 0).                                                  *)
StartWrite(i, K) ==
  /\ write.pc = "idle" /\ writes < MaxWrites
  /\ writes' = writes + 1
  /\ \E v \in {0, writes'} :
       write' = [NoWrite EXCEPT !.pc = IF ReadsFirst /\ v # 0 THEN "read"
                                       ELSE "db",
                                !.inst = i, !.keys = K, !.val = v,
                                !.at = IF v # 0 THEN now ELSE 0]
  /\ UNCHANGED <<backend, rows, l1, read, task, history, now, tasks>>

\* The versions of its rows, on Firebase.
WriteReads ==
  /\ write.pc = "read"
  /\ write' = [write EXCEPT !.pc = "db",
                              !.seen = [k \in Key |-> IF k \in write.keys
                                                      THEN rows[k] ELSE NoRow]]
  /\ behindWrite' = {}
  /\ UNCHANGED <<backend, rows, l1, read, task, behindTask, boundVars>>

\* The rows after the write of the section.
WriteEffect == IF write.val = 0 THEN DeleteMany(write.keys)
               ELSE SetMany(write.keys, write.val, write.at, write.seen)

(* The database executes the setMany or deleteMany; withRetry may send it    *)
(* again if the answer is lost.                                             *)
WriteExecuted ==
  /\ write.pc = "db"
  /\ rows' = WriteEffect
  /\ behindTask' = behindTask \cup write.keys
  /\ \/ /\ l1' = MissedBy(Instance \ {write.inst}, write.keys)
        /\ write' = [NoWrite EXCEPT !.pc = "landed", !.inst = write.inst,
                                    !.keys = write.keys, !.val = write.val]
     \/ /\ DbFails /\ ~ write.again
        /\ l1' = MissedBy(Instance, write.keys)
        /\ write' = [write EXCEPT !.again = TRUE]
  /\ UNCHANGED <<backend, read, task, behindWrite, boundVars>>

(* A request of the section fails for good, executed or not: keys.set       *)
(* throws, and the caches hear nothing of it, its own process's included.   *)
WriteFails ==
  /\ DbFails
  /\ write.pc \in {"read", "db"}
  /\ \/ UNCHANGED <<rows, l1, behindTask>>
     \/ /\ write.pc = "db"
        /\ rows' = WriteEffect
        /\ l1' = MissedBy(Instance, write.keys)
        /\ behindTask' = behindTask \cup write.keys
  /\ write' = NoWrite
  /\ UNCHANGED <<backend, read, task, behindWrite, boundVars>>

\* onWritten or onDeleted of each key, and the lock is free.
WriteLanded ==
  /\ write.pc = "landed"
  /\ l1' = [l1 EXCEPT ![write.inst] =
              [k \in Cached |-> IF k \notin write.keys THEN @[k]
                                ELSE IF write.val = 0 THEN NoEntry
                                ELSE EntryOf(k, write.val)]]
  /\ write' = NoWrite
  /\ UNCHANGED <<backend, rows, read, task, history, boundVars>>

-----------------------------------------------------------------------------
(* The session manager                                                     *)

\* A method is called, and its first request is on its way.
Start(kind, i, pc, K, v) ==
  /\ task.pc = "idle" /\ tasks < MaxTasks
  /\ tasks' = tasks + 1
  /\ task' = [NoTask EXCEPT !.kind = kind, !.pc = pc, !.inst = i, !.keys = K,
                            !.todo = K, !.val = v,
                            !.at = IF v # 0 THEN now ELSE 0]
  /\ behindTask' = {}
  /\ UNCHANGED <<backend, rows, l1, read, write, behindWrite, now>>

\* Firestore has to be asked for the documents of the session first.
StartDelete(i) ==
  /\ Start("delete", i, IF backend = "firestore" THEN "list" ELSE "write",
           Key, 0)
  /\ UNCHANGED writes

StartImport(i, K) ==
  /\ writes < MaxWrites
  /\ writes' = writes + 1
  /\ Start("import", i, IF ReadsFirst THEN "read" ELSE "write", K, writes')

StartExport(i) == Start("export", i, "list", {}, 0) /\ UNCHANGED writes

StartInfo(i) == Start("info", i, "exists", {}, 0) /\ UNCHANGED writes

\* By hand, or by the interval timer of useHybridAuthState.
StartPrune(i) == Start("prune", i, "list", {}, 0) /\ UNCHANGED writes

\* The task goes on with these fields, or it is over.
TaskOn(t) == task' = IF t.pc = "idle" THEN NoTask ELSE t

\* getSessionInfo: is there any row at all?
Exists ==
  /\ task.pc = "exists"
  /\ TaskOn([task EXCEPT !.pc = IF Stored = {} THEN "idle" ELSE "list"])
  /\ UNCHANGED <<backend, rows, l1, read, write, history, boundVars>>

Matches(k) == {c \in Category : c = Home[k] \/ <<c, Home[k]>> \in Shorter}

\* Mutant: the categories are tried from the shortest to the longest.
ShortestCategory(k) ==
  CHOOSE c \in Matches(k) : \A d \in Matches(k) : <<d, c>> \notin Shorter

\* resolveCategory: the longest category that k starts with.
ResolveCategory(k) ==
  CHOOSE c \in Matches(k) : \A d \in Matches(k) : <<c, d>> \notin Shorter

\* The keys that a pass of the retention is about.
Candidates(K) ==
  {k \in K : k # Creds /\ ResolveCategory(k) \in DOMAIN MaxAge}

\* Mutant: the query of a deletion has a limit, as if a session were one page.
ListedPage(kind) ==
  CASE kind = "prune" -> Candidates(Stored)
    [] kind = "delete" /\ Cardinality(Stored) > 2 ->
         CHOOSE K \in SUBSET Stored : Cardinality(K) = 2
    [] OTHER -> Stored

\* What a task goes on with when the keys of the session are listed.
Listed(kind) == IF kind = "prune" THEN Candidates(Stored) ELSE Stored

\* getAllKeys is executed, or the query of Firestore's deleteSession.
List ==
  LET K == Listed(task.kind)
      pc == CASE K # {} /\ task.kind # "delete" -> "read"
              [] K # {} /\ task.kind = "delete" -> "write"
              [] K = {} /\ task.kind = "delete" -> "clear"
              [] K = {} /\ task.kind = "prune" -> "idle"
              [] OTHER -> "done"
  IN /\ task.pc = "list"
     /\ TaskOn([task EXCEPT !.pc = pc, !.keys = K, !.todo = K])
     /\ behindTask' = {}
     /\ UNCHANGED <<backend, rows, l1, read, write, behindWrite, boundVars>>

\* Mutant: an export ends at the first missing record.
ReadRowsUntilGone ==
  /\ task.pc = "read"
  /\ \E K \in TogetherBy(task.kind, task.todo) :
       LET gone == task.kind = "export" /\ \E k \in K : rows[k] = NoRow
           left == IF gone THEN {} ELSE task.todo \ K
           after == CASE task.kind = "import" -> "write"
                      [] task.kind = "prune" -> "decide"
                      [] OTHER -> "done"
       IN /\ task' = [task EXCEPT
                !.seen = [k \in Key |-> IF k \in K THEN rows[k] ELSE @[k]],
                !.todo = left,
                !.pc = IF left = {} THEN after ELSE "read"]
          /\ behindTask' = behindTask \ K
  /\ UNCHANGED <<backend, rows, l1, read, write, behindWrite, boundVars>>

(* One of the requests that read the listed rows is executed: of prune for  *)
(* the ages, of info for the times, of export and of Firebase's setMany.    *)
ReadRows ==
  /\ task.pc = "read"
  /\ \E K \in TogetherBy(task.kind, task.todo) :
       LET left == task.todo \ K
           after == CASE task.kind = "import" -> "write"
                      [] task.kind = "prune" -> "decide"
                      [] OTHER -> "done"
       IN /\ task' = [task EXCEPT
                !.seen = [k \in Key |-> IF k \in K THEN rows[k] ELSE @[k]],
                !.todo = left,
                !.pc = IF left = {} THEN after ELSE "read"]
          /\ behindTask' = behindTask \ K
  /\ UNCHANGED <<backend, rows, l1, read, write, behindWrite, boundVars>>

\* The record of a candidate is there, and has reached its category's age.
Stale(k) == /\ task.seen[k] # NoRow
            /\ now - task.seen[k].at >= MaxAge[ResolveCategory(k)]

\* The answer of getMany is here, and prune decides with the time it is now.
Decide ==
  LET K == {k \in task.keys : Stale(k)} IN
  /\ task.pc = "decide"
  /\ TaskOn([task EXCEPT !.pc = IF K = {} THEN "idle" ELSE "write",
                            !.keys = K, !.seen = NoTask.seen])
  /\ UNCHANGED <<backend, rows, l1, read, write, history, boundVars>>

\* The rows after the write of the task.
Effect == IF task.kind = "import"
          THEN SetMany(task.keys, task.val, task.at, task.seen)
          ELSE DeleteMany(task.keys)

(* The database executes the setMany, deleteMany or deleteSession; withRetry *)
(* may send it again if the answer is lost.                                 *)
TaskWrites ==
  /\ task.pc = "write"
  /\ rows' = Effect
  /\ behindWrite' = behindWrite \cup task.keys
  /\ \/ /\ l1' = MissedBy(Instance \ {task.inst}, task.keys)
        /\ TaskOn([NoTask EXCEPT !.kind = task.kind, !.pc = "clear",
                                 !.inst = task.inst, !.keys = task.keys,
                                 !.val = task.val])
     \/ /\ DbFails /\ ~ task.again
        /\ l1' = MissedBy(Instance, task.keys)
        /\ TaskOn([task EXCEPT !.again = TRUE])
  /\ UNCHANGED <<backend, read, write, behindTask, boundVars>>

(* A request of the task fails for good, executed or not, and the method    *)
(* throws.  The caches hear nothing of it.                                  *)
TaskFails ==
  /\ DbFails
  /\ task.pc \in {"exists", "list", "read", "write"}
  /\ \/ UNCHANGED <<rows, l1, behindWrite>>
     \/ /\ task.pc = "write"
        /\ rows' = Effect
        /\ l1' = MissedBy(Instance, task.keys)
        /\ behindWrite' = behindWrite \cup task.keys
  /\ TaskOn(NoTask)
  /\ UNCHANGED <<backend, read, write, behindTask, boundVars>>

\* Mutant: importSession leaves the cache alone.
ClearAfterDeletes ==
  /\ task.pc = "clear"
  /\ l1' = [l1 EXCEPT ![task.inst] = CASE task.kind = "import" -> @
                                       [] OTHER -> Empty]
  /\ TaskOn(NoTask)
  /\ UNCHANGED <<backend, rows, read, write, history, boundVars>>

(* The caches of this process are told: clearSession, or onDeleted of each  *)
(* pruned key, by the name that getAllKeys gave it.                         *)
Clear ==
  /\ task.pc = "clear"
  /\ l1' = [l1 EXCEPT ![task.inst] =
              IF task.kind # "prune" THEN Empty
              ELSE [k \in Cached |-> IF k \in Named(task.keys) THEN NoEntry
                                     ELSE Missed(@, task.keys)[k]]]
  /\ TaskOn(NoTask)
  /\ UNCHANGED <<backend, rows, read, write, history, boundVars>>

\* The object is exported, the info returned.
Return == /\ task.pc = "done"
          /\ TaskOn(NoTask)
          /\ UNCHANGED <<backend, rows, l1, read, write, history, boundVars>>

\* clearCache, of the session or of all.
ClearCache(i) ==
  /\ l1[i] # Empty
  /\ l1' = [l1 EXCEPT ![i] = Empty]
  /\ UNCHANGED <<backend, rows, read, write, task, history, boundVars>>

\* An entry reaches its time to live (MemoryCache).
Expire(i, k) ==
  /\ l1[i][k] # NoEntry
  /\ l1' = [l1 EXCEPT ![i][k] = NoEntry]
  /\ UNCHANGED <<backend, rows, read, write, task, history, boundVars>>

Tick == /\ now < MaxTime
        /\ now' = now + 1
        /\ UNCHANGED <<backend, rows, l1, read, write, task, history, writes,
                       tasks>>

TaskStep == \/ Exists \/ List \/ ReadRows \/ Decide \/ TaskWrites \/ TaskFails
            \/ Clear \/ Return

Next ==
  \/ \E i \in Instance :
       \/ \E k \in Cached : StartRead(i, k) \/ Expire(i, k)
       \/ \E K \in Batch : StartImport(i, K)
       \/ i \in Writer /\ \E K \in Batch : StartWrite(i, K)
       \/ StartDelete(i) \/ StartExport(i) \/ StartInfo(i) \/ StartPrune(i)
       \/ ClearCache(i)
  \/ ReadAnswered \/ ReadFill
  \/ WriteReads \/ WriteExecuted \/ WriteFails \/ WriteLanded
  \/ TaskStep
  \/ Tick

Spec == Init /\ [][Next]_vars

-----------------------------------------------------------------------------
(* Properties *)

\* Every variable holds what the code can put there.
TypeOK ==
  /\ backend \in Backends
  /\ rows \in [Key -> Row]
  /\ \A k \in Key : rows[k] # NoRow => rows[k].val > 0
  /\ l1 \in [Instance -> [Cached -> Entry]]
  /\ \A i \in Instance, k \in Cached : l1[i][k] = NoEntry \/ l1[i][k].val > 0
  /\ read \in [pc : {"idle", "db", "got"}, inst : Instance, key : Key, val : Nat]
  /\ read.pc # "idle" => read.key \in Cached
  /\ write \in [pc : {"idle", "read", "db", "landed"}, inst : Instance,
                keys : SUBSET Key, val : Nat, at : Nat, seen : [Key -> Row],
                again : BOOLEAN]
  /\ task \in [kind : {"none", "delete", "import", "export", "info", "prune"},
               pc : {"idle", "exists", "list", "read", "decide", "write",
                     "clear", "done"},
               inst : Instance, keys : SUBSET Key, todo : SUBSET Key,
               seen : [Key -> Row], val : Nat, at : Nat, again : BOOLEAN]
  /\ task.kind = "import" => task.val > 0
  /\ behindTask \subseteq Key /\ behindWrite \subseteq Key
  /\ now \in Nat /\ writes \in Nat /\ tasks \in Nat

(* Pruning deletes nothing but rows of configured categories that have      *)
(* their category's age, and never the credentials (retention.ts:60-66).    *)
(* The one exception is the race of reading the ages without the lock: a    *)
(* row written since its age was read.                                      *)
PruneIsSafe ==
  [][task.kind = "prune" =>
       \A k \in Key : rows[k] # NoRow /\ rows'[k] = NoRow /\ write' = write =>
         /\ k # Creds
         /\ Home[k] \in DOMAIN MaxAge
         /\ k \in behindTask \/ now - rows[k].at >= MaxAge[Home[k]]]_vars

(* When deleteSession reaches the caches, no row of the session is left but *)
(* one that was written since its first request (types.ts:49, "Wipes every  *)
(* row belonging to a session").                                            *)
DeleteIsComplete ==
  task.kind = "delete" /\ task.pc = "clear" => Stored \subseteq behindTask

(* A process whose keys.set, import, deletion or pruning has been answered  *)
(* by the database brings its own cache up to date with it, as the next     *)
(* thing it does (factory.ts:170, session-manager.ts:92, retention.ts:116): *)
(* until then and for as long as nobody else interferes, what it serves is  *)
(* the database's.  The entries marked by ok are those that the code does   *)
(* leave behind:                                                            *)
(*   - what a read fills in late, or onWritten after a clear or a change by *)
(*     the session manager,                                                 *)
(*   - in every cache, the rows of a request that was executed but failed,  *)
(*     or that had to be repeated, until its answer arrives,                *)
(*   - rows pruned under an escaped name (Firebase), and                    *)
(*   - in the caches of other processes, all rows that this one changes;    *)
(*     the "subsequent reads" that see an import immediately                *)
(*     (docs/session-management.md:51) are those of the importing process.  *)
L1Honest ==
  \A i \in Instance, k \in Cached :
    \/ l1[i][k] = NoEntry \/ ~ l1[i][k].ok \/ l1[i][k].val = rows[k].val
    \/ /\ write.pc = "landed"
       /\ write.inst = i /\ k \in write.keys
    \/ /\ task.pc = "clear"
       /\ task.inst = i /\ k \in task.keys

(* An export has for every key the row that is there, or that was there     *)
(* when this key was read: nothing is missing from it that was stored       *)
(* before it began and left alone.  Keys that Firebase renames are left out *)
(* (see Named).                                                             *)
ExportFaithful ==
  task.kind = "export" /\ task.pc = "done" =>
    \A k \in Named(Key) \ behindTask : task.seen[k] = rows[k]

(* The version of a row grows with each change of its value, with two       *)
(* exceptions that the adapters make: Firestore does not count, and on      *)
(* Firebase two overlapping setManys may count from the same row.           *)
VersionGrows ==
  [][\A k \in Key :
       rows[k] # NoRow /\ rows'[k] # NoRow /\ rows'[k] # rows[k] =>
         \/ rows'[k].ver > rows[k].ver
         \/ backend = "firestore"
         \/ /\ backend = "firebase"
            /\ k \in IF write' = write THEN behindTask ELSE behindWrite]_vars
=============================================================================
