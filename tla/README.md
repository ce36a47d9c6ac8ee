# A TLA+ model of baileys-session-manager

The package stores the auth state of a WhatsApp session (the credentials and
the Signal keys of Baileys) in a database, behind two levels of cache, a lock
and a write batcher. This directory models the part of it in which several
calls, processes and servers interact, checks the model with TLC on small
instances and proves some of its properties with TLAPS for all instances.

Paths of the repository are relative to its root: `src/factory.ts` and so on.

## The system

`useHybridAuthState` (`src/factory.ts`) builds one auth state for one session in
one process. Several processes may do so for the same session; they share the
database and, if there is one, Redis.

| component | source | state | operations |
|---|---|---|---|
| auth state | `factory.ts` | creds | `keys.get`, `keys.set`, `saveCreds`, `close` |
| cache manager | `cache/cache-manager.ts` | L1, the promise `invalidationReady` | `get`, `onWritten`, `onDeleted`, `clearSession`, `clearAll`, `close`; `getMany` has no caller |
| memory cache (L1) | `cache/memory-cache.ts` | entries in LRU order, their bytes and expiry times | `get`, `set`, `delete`, `deleteByPrefix`, `clear`, eviction, sweep |
| Redis cache (L2) | `cache/redis-tcp.ts`, `cache/redis-http.ts` | a connection and a subscriber connection (TCP) | `get`, `set`, `del`, `publishInvalidation`, `subscribeInvalidation` |
| locks | `lock/mutex-lock.ts`, `lock/redis-lock.ts` | a mutex per session and process; a key in Redis with a TTL | `withLock` |
| write batcher | `utils/write-batcher.ts` | pending values, waiters, a timer, a queue of flushes | `write`, `flushNow`, `destroy` |
| database adapters | `adapters/*.ts` | the rows, with a version | `get`, `getMany`, `setMany`, `deleteMany`, `deleteSession`, ... |
| retry | `utils/retry.ts` | the attempt | `withRetry` |
| session manager | `session-manager.ts` | a limiter | `deleteSession`, `importSession`, `clearCache`, `exportSession`, ... |
| key retention | `retention.ts` | none | `pruneExpiredKeys` |
| encryption, serialization | `encryption/aes.ts`, `serialization.ts` | none | pure functions |

How they interact. A read goes down L1, L2, database and fills the levels above
on its way back; it takes no lock. A write takes the session's lock, writes the
database, then L1 of its own process, then L2, then publishes the key to the
other processes, which drop it from their L1. With HTTP Redis nothing is
published: a hit in L1 compares its version with that of L2. `saveCreds` goes
through the batcher, whose flush is such a write.

What is hard about it. Everything between two `await`s runs alone in its
process and everything else may run in between: reads race writes, `keys.set`
calls overlap, the lock is taken twice per call, invalidations arrive late or
never, Redis errors are swallowed, a database error may hide a write that did
happen, a process may die with the lock held, the lock may expire. `hazards` in
`PROJECT.json` lists these at their lines.

What makes each component correct.

- Auth state and cache manager: the database comes first and the caches follow
  it; calls end; later values win.
- Locks: one section at a time; a lock is released by its owner only; nobody
  waits for a dead process longer than the TTL.
- Batcher: a write that resolves is stored; nothing is forgotten; flushes are
  in order; `close` flushes.
- Memory cache: its counters match its entries, its bounds hold, the least
  recently used leave first; to its callers it is a map that may forget.
- Adapters: a batch is an upsert of its rows, and versions grow; what a call is
  told is what the database did.
- Session manager: a deleted session is gone, an export misses nothing, a call
  that succeeds brings its own process's cache up to date.
- Retention: only what is configured and old enough is deleted.

## The modules

| module | models |
|---|---|
| `HybridAuthState` | the calls of `keys.set` and the cache reads of all processes of a session, on L1, L2, the database and the lock |
| `SessionLock` | what a section relies on of the session's lock |
| `RedisLock` | `RedisDistributedLock.withLock` with its times, which implements `SessionLock` |
| `WriteBatcher` | `WriteBatcher` under `saveCreds` and `close` |
| `LossyCache` | what the levels above rely on of an L1: a map that may forget |
| `MemoryCache` | `MemoryCache`, method by method, which implements `LossyCache` |
| `RetriedCalls` | what a caller relies on of an adapter that retries its calls |
| `SqliteAdapter` | the SQLite adapter, its worker thread and the retries around every call, which implements `RetriedCalls` |
| `SessionMaintenance` | the calls of the session manager and the retention on a database, beside reads and writes of the auth state |
| `HybridAuthStateProofs` | `HybridAuthState`: types, one holder of the lock, which is a `SessionLock`, the order of the calls |
| `HybridAuthCoherenceProofs` | `HybridAuthState`: the database comes first |
| `HybridAuthFreshnessProofs` | `HybridAuthState`: both caches follow the database |
| `RedisLockProofs` | theorems about `RedisLock` |
| `MemoryCacheProofs` | `MemoryCache`: the refinement of `LossyCache`, types, the counter, the limits, the LRU order |
| `SessionMaintenanceProofs` | `SessionMaintenance`: types; all of its safety properties |
| `SqliteAdapterProofs` | `SqliteAdapter`: types, all of its safety properties, the refinement of `RetriedCalls`, that no call is lost |
| `WriteBatcherProofs` | `WriteBatcher`: types and all of its safety properties |
| `MCHybridAuthState`, `MCRedisLock`, `MCWriteBatcher` | the symmetry sets for TLC |
| `MCMemoryCache`, `MCSessionMaintenance` | the keys, sizes, sessions and categories of the instances |

How they fit together. `LossyCache` is the interface between `MemoryCache` and
the two modules that use an L1: `HybridAuthState` and `SessionMaintenance` let
an entry go at any time (`Expire`), and rely on nothing else. `SessionLock` is
the interface of the lock: `RedisLock` implements it with the times of Redis,
for sections within their leases, and the lock of `HybridAuthState`, which has
no times, is one in every scope. `RetriedCalls` is the interface of an adapter,
without the rows: a call is executed while its caller waits for it and never
later, returns only if it was, and is executed once at most until a worker is
lost. `SqliteAdapter` implements it. `SessionMaintenance` has the rows without
the calls: a request is executed before its caller goes on, once, not at all, or
twice if an answer was lost, the first of the repetitions that `RetriedCalls`
allows.

### HybridAuthState

One step is what a process does between two awaits, or what a server does with
one request. So every request is two steps, the server's and the one that
resumes the process with the answer, and everything else can happen in between.

| state | code |
|---|---|
| `db`, `stored` | the rows; `stored` is history: the values each key ever had |
| `l1`, `l2` | the entries of `MemoryCache` and of Redis, with their versions |
| `wire[i]` | the updates of L2 that the ioredis connection of `i` has not executed yet |
| `sub[i]`, `inbox[i]` | the state of `invalidationReady`, and invalidations on their way |
| `lock`, `queue` | the holder of the lock of each scope, and the queue of a local mutex |
| `lease` | history: whether a section has its lock to itself, has outlived it, or began beside one that had |
| `call`, `phase`, `wpc`, `fan` | the `keys.set` call in a slot: its arguments, which of its two sections, where it is, and where the `onWritten` / `onDeleted` of each key is |
| `rd`, `rpc`, `got` | the `CacheManager.get` in a slot: its arguments, where it is, what it was answered |

The actions of a write follow `keys.set` (`factory.ts:137-180`): `StartWrite`,
`Acquire` or `GiveUp`, `DbWrite` or `DbFail`, `Landed` (the resumed section
updates L1 for every key and sends the L2 commands, all before its next await),
`L2Write` and `Publish` per key, and `NextSection` or `Return`. A flush of the
batcher is such a call, with entries and no deletions. Those of a read follow
`CacheManager.get` (`cache-manager.ts:49-86`): `ReadStart`, `L2Answer`,
`Checked` (the version check of HTTP mode), `L2Resume`, `DbAnswer`, `DbResume`,
`L2Fill`. A hit that changes nothing is no step. The environment: `Subscribe`,
`Deliver`, `Expire` (TTL or eviction of L1), `L2Evict`, `LeaseExpire`, `Tick`
and `Crash`, which also restarts the process. `LeaseExpire` ends the lock in
Redis at any time, also while its section waits for the database or for
`invalidationReady`: `redis-lock.ts:49` sets its 10 s once and nothing renews
them. The section goes on, the next one begins beside it, and the late one may
overwrite rows and caches.

`Mode` says whether there is no Redis, one over HTTP or one over TCP; it decides
the scope of the lock as `factory.ts:51-54` does. `Faults` says what may go
wrong: commands to L2 and subscriptions fail (`l2`), publishes (`publish`),
commands of the lock (`lock`), Redis evicts (`evict`), adapter calls reject
(`db`), processes die (`crash`). `AtomicBatch` is FALSE for MongoDB, whose
`bulkWrite` may have applied some of its operations when it fails.
`CountsVersions` is FALSE for Firestore, which writes version 1 with every row.

Abstractions. Values are numbers, one per call; encryption and encoding are the
identity on them, as no property reads a value. Slots bound how many calls are
in flight at once, `MaxWrites`, `MaxClock` and `MaxCrashes` how many there are.
A GET on the TCP connection is not in `wire`: it changes nothing, and may be
answered at any time after it was sent, which allows more than the connection
does. Nor are the commands of the lock: they are sent when the section has not
begun or is over. `GiveUp` happens while the lock is held; the code throws when
it has the answer of its last SET, which may be a moment later, and nobody can
tell the difference. It also stands for a SET that is answered by an error,
executed or not (`redis-lock.ts:49`). ioredis confirms a subscription before `redis-tcp.ts:68`
attaches its listener; a message lost in between is one published before
`Subscribe`. A request that was under way to the database when its process
died is executed before the crash or never. `DbWrite` executes once: the
attempts of `withRetry` are its own choice between success and failure. The
marks `ok` of entries are not in the code: an entry that a read filled although
a write had overtaken it, or whose update a fault has lost, is marked, and the
two coherence properties are about entries without a mark. So is an entry that
was already old when a section put it there that had no lock to itself. The
first kind is a finding below, the second is what `cache-manager.ts:15-18` gives
away, the third is what remains of `factory.ts:46-47`. Versions are in the model
where somebody compares them, in HTTP mode (`Compared`).

### RedisLock

One session's lock, with one clock for Redis and the processes. `Taken` is the
key's existence: it ends by itself `TTL` after it was set. `Enter` is the SET NX
PX that succeeds and starts the callback, `SetFails` the one whose answer is an
error (whether or not Redis executed it), `Refuse` the one that finds the key
taken. The answer of a refusal takes up to `MaxDelay`, and the deadline is
compared when it arrives: `Retry` or `TimeOut` (`redis-lock.ts:54-58`). `Leave`
and `Release` are the `finally`. Time passes by `Tick`, at most `MaxSection`
while a callback runs: the properties compare `MaxSection` and `TTL`, and
`OnlyRecentLockTimesOut` the deadline `MaxWait` and `TTL`, for any of them. `Crash`
ends a call and leaves the key. `ImplementsSessionLock` maps the key that exists
to the holder and the callbacks within their leases to the sections.

### WriteBatcher

`pending`, `waiters` and `timer` are the fields of the class, `queue` the tasks
of its `PQueue`, the first of which is running. A task carries the waiters that
its `flushNow` took along and, once it has started, the entries it flushes.
`Write` and `SaveFlush` are the two halves of `saveCreds`; `FlushDone` and
`FlushFails` the outcome of the flush, with every promise that depends on it;
`Close` and `Closed` the two halves of `destroy`. `saveCreds` itself writes one
key; the class takes any, and so does the model.

### MemoryCache and LossyCache

No method awaits anything: each is one step. `order` is the insertion order of
the `Map`, `entry` its entries, `bytes` the field `currentBytes`, `sweeping`
says that the interval timer exists. `GetMiss`, `GetExpired` and `GetHit` are
the three ways through `get`; `Set` is `set` with the loop of `evictIfNeeded`,
whose number of rounds is `Evictions`; `Delete`, `DeleteByPrefix`, `Clear` and
`Destroy` are the methods of those names, `SweepExpired` the timer. After
`destroy` the cache can still be used, as reads in flight do; then nothing
sweeps. An entry's size is that of its value (`Size`), as values do not change.

`used` and `uses` number the uses of each key, for the LRU property, and `call`
records what the last call answered. `LossyCache` has neither list nor counter:
a `Get` answers the value of the last `Set` of its key if it is there and young
enough, and any entries may go with any step. So the refinement says that
evictions, hits and sweeps never bring an old value, an old time to live or a
deleted entry back.

### SqliteAdapter

A step is one event of the main thread with the promise reactions behind it, or
one message that the worker handles.

| state | code |
|---|---|
| `ready`, `line` | the promise of `ensureWorker`, and who awaits it |
| `nextId`, `pending` | `nextRequestId`, and the waiter under each id |
| `thread`, `inbox`, `outbox`, `errored` | the worker thread, messages to and from it, its 'error' event |
| `op`, `pc`, `attempt` | the calls in flight: which, where, and the attempts of `withRetry` that failed |
| `ran`, `newest`, `late`, `died`, `result` | history: what was executed, and what callers were told |

`Attempt` is `ensureWorker` and the first half of `call`, for `StartCall` (any
method), `StartClose` and `Retry`; `Post` is its second half. `Ready`,
`NotReady`, `Answered`, `WorkerError` and `Closed` are the listeners and the end
of `terminate()`. The worker is `Started` or `StartFails`, then `Execute`,
`ExecuteFails` or `CloseDatabase` for each message, until `Terminate` or `Dies`.
`Faults` says what may go wrong: the worker cannot start, a statement fails, the
thread dies with or without an 'error' event.

`ImplementsRetriedCalls` maps the calls that are under way, but for `close()`,
to the calls in flight of `RetriedCalls`, wherever they are (in the line, in the
inbox, at the worker, answered, asleep between two attempts), `ran` and `result`
to what was executed and told, and `died` to a lost worker. So no request that
is left in an inbox, no late answer and no attempt of `withRetry` changes the
database for a call whose caller has gone on.

`CallsSettle` excepts two cases, in which the code does leave a call pending. A
worker that has died is never replaced, as nothing resets `ready`: calls that
it had not answered, if it died without an 'error' event, all later calls and
`close()` itself wait for ever. And a request that is posted while somebody
closes the adapter may be lost with the worker. `NobodyWaitsInVain` says with
the same exceptions where the request of each caller that waits then is, so
that what `CallsSettle` adds to it is that both threads go on: no `close()`
takes effect before the requests that were posted ahead of it are answered.

`ExecutedAsTold` and `AnswersAreTheCallersOwn` say in one state what the
refinement says of the steps; they are theorems and not in the run. The first
excepts a worker's death: a request that it had executed when it died is posted
again by `withRetry` and, once the adapter has been closed, executed again by
the next worker.

### SessionMaintenance

One session on one database, of one of three kinds (`backend`): a SQL database,
Firestore or Firebase. The rows have value, version and time.

| state | code |
|---|---|
| `rows` | the database |
| `l1[i]` | the entries of the `MemoryCache` of process `i` |
| `read` | the `CacheManager.get` in flight |
| `write` | the section of `keys.set`, or of a flush, that holds the lock |
| `task` | the call of the session manager: its kind, where it is, the keys it is about, those it has yet to read, the rows it has seen |
| `behindTask`, `behindWrite` | history: keys written since the task read them, and keys that the task has written since the write read its versions |

A task is started by `StartDelete`, `StartImport`, `StartExport`, `StartInfo`
or `StartPrune` (by hand, or the timer of `factory.ts:98-111`) and goes on by
`Exists`, `List`, `ReadRows`, `Decide`, `TaskWrites`, `Clear` and `Return`, as
far as its kind and the backend have them: Firestore's `deleteSession` lists
before it deletes, Firebase's `setMany` reads before it writes, `getMany` is one
request on SQL and one per key elsewhere. `WriteFails` and `TaskFails` are
requests that fail for good, executed or not, upon which `keys.set` or the
method throws and tells no cache; a request whose answer is lost may be executed
twice (`again`, of a section and of a task). A read may fail as well.

Abstractions. MongoDB is not among the databases here. One read, one section and
one task are in flight at a time, so that two overlapping prunes or imports are
not modelled. There is no Redis: the
session manager does not know of it, except through `onDeleted`, and
`HybridAuthState` has that. The clocks of all processes agree. A section reads
the versions of its rows in one step (`WriteReads`). The time of a row is that
of the call of `setMany`; SQLite's worker takes it a little later. The mark `ok`
of an entry is not in the code. `L1Honest` says that a process whose request has
been answered brings its own cache up to date next, and lists what is marked and
so excepted: late fills, `onWritten` after a clear, in every cache the rows of a
request that failed after it was executed or was repeated, the rows pruned under
an escaped name, and all changes by other processes. For those an entry stays
wrong until its TTL, as the code has it. Keys that Firebase escapes (`Dotted`) come back from
`getAllKeys` under another name. Pruning still deletes their rows, as an escaped
name escapes to itself, but does not find their cache entries, and an export has
them under the wrong name; `Named` leaves them out where that matters. The
comment on `escapeSegment` (`firebase-realtime-adapter.ts:26-29`), that any key
"round-trips safely as a path segment", is true of reads and writes by key and
not of `getAllKeys`.

## The runs

Sizes are those of two TLC workers; each run takes between a second and three
minutes.

| run | instance | distinct states | shows |
|---|---|---|---|
| `auth_memory` | 1 process without Redis, 2 keys, 2 writers, 1 reader, 2 calls, 1 crash, adapter failures that may leave half a batch | 51 thousand | L1 follows the database, a later `keys.set` wins, and under fairness calls end and L1 converges |
| `auth_tcp_faults` | 2 processes, TCP, 1 key, 2 writers, 1 reader, 2 calls, locks that expire at any time, failing publishes, lock commands and adapters, 1 crash | 3.3 million | types, one holder but for expired locks, and all three cache properties |
| `auth_http` | 1 process, HTTP, 2 keys, 2 writers, 1 reader, 2 calls, eviction and failing requests | 3.9 million | both caches follow the database with the version check in play |
| `auth_tcp_live` | 2 processes, TCP, 1 key, 2 writers, 2 calls, locks that expire at any time, failing commands and subscriptions, 1 crash | 501 thousand | every `keys.set` ends |
| `auth_stale_forever` | 1 process, TCP, 1 reader, no fault | stops | finding: a late fill leaves an old value in Redis for good |
| `auth_versions` | 2 processes, HTTP, Firestore's versions, eviction | stops | finding: equal versions of different values |
| `batch` | 2 callers, 2 keys, 4 writes, debounce or none, failing flushes, close | 764 thousand | acknowledgement, order, nothing forgotten, close flushes, saves finish |
| `batch_false_ack` | 3 callers, 1 key, 3 writes, failing flushes | stops | finding: a write is acknowledged that was never stored |
| `memory_cache` | 3 keys, 3 values of 1, 2 and 4 bytes, at most 2 entries and 3 bytes, TTL 2, clock to 3, 4 uses | 77 thousand | the counter is exact, limits hold, LRU order, expired entries leave, and the cache is a map that may forget |
| `sqlite` | 2 callers, 4 calls, 1 retry, all faults | 196 thousand | calls are executed while their callers wait, as often as they are told and in order, get their own answers, are not lost while somebody waits, and settle: the adapter is one of `RetriedCalls` |
| `maintenance` | 2 processes, one of which writes, 3 keys, 2 writes, 1 task, clock to 1, the three backends, failing and repeated requests of all three calls | 3.8 million | deletion is complete, exports faithful, pruning safe, versions grow, a process that has its answer brings its own cache up to date |
| `lock` | 3 callers, TTL 2 and deadline 2, answers up to 1, sections up to 3, clock to 5, failing commands and crashes | 2.9 million | leases exclude, releases spare others, a call times out over a recent lock only, and `withLock` is a `SessionLock` |

Why the bounds are enough. A coherence violation takes one entry, one read that
holds an older answer and one or two writers: more keys only multiply these,
except for batches, for which two keys are there (half a batch, one section per
kind of key, several `onWritten` of one section). Two processes are a writer and
one who has to hear of it. Two calls give every order of the four sections. One
crash at any point covers a lost fan-out and a lock left behind; a second only
repeats it. In `lock`, a third caller is the next owner whom a late release
could hurt while another waits, TTL and deadline are the same as both defaults
are, a section may outlast the lock, and the clock lets a lease end twice. In
`auth_tcp_faults`, failing `SET`s and `DEL`s of L2 are left to `auth_http` and
`auth_tcp_live`, which keep the run within minutes; the theorems have all faults
together. In
`batch`, two overlapping saves of two keys give a queue of four tasks. In
`memory_cache`, two entries fit, so that a third key evicts one, one value fills
most of the bytes and one is too big for the cache; four uses are a set of every
key and a hit before the eviction. In `sqlite`, four calls are one that starts
the worker, one that waits with it, a close and one that comes after it; three
callers give the same results in a few minutes. In `maintenance`, the keys are
the credentials, one of a configured category and one of a category whose name
begins like it, is not configured, and is the longer of the two; a task can be
overtaken by one write at each of its requests and follow another. The theorems below have none of these bounds.

`CHECK_DEADLOCK FALSE` is in the runs of systems that stop: when a batcher is
closed, or its callers wait for a flush that never reports (see below), and when
`auth_tcp_live`, which has no reads, has made its two calls; in `sqlite` and
`maintenance`, whose calls are numbered, and in the first of which a worker's
death leaves everybody waiting.

## Fairness

`HybridAuthState` assumes that every request is answered or fails (weak fairness
of every call's and every read's next step), that Redis delivers what was
published, that L1's sweep drops entries at their TTL (`memory-cache.ts:131`)
and that Redis drops keys at theirs (it need not wait for their sections: that
an expiry comes is all that is assumed). The code adds nothing that could stop these:
ioredis and the adapters settle their promises, and every `await` of a section
is on one of them. The exception is the SQLite adapter after its worker has
died, see `CallsSettle` in `SqliteAdapter`. No fairness makes anybody call `keys.set` or read again, and
none makes the lock fair: a call that polls Redis either gets the lock or gives
up.

`WriteBatcher` assumes that timers fire, flushes end one way or the other and
settled promises resume their callers. That the timer fires assumes a pause of
the debounce time between writes, as every write starts it anew
(`write-batcher.ts:42`).

`MemoryCache` assumes that the sweep's interval timer fires again and again
while it is set. `SqliteAdapter` assumes that both event loops handle the
messages and events that have arrived, one after the other, that `terminate()`
takes effect and that the timers of the retries fire; no fault has to happen.
`SessionMaintenance` has no liveness property and assumes nothing.

## What the violations say

- `auth_stale_forever`. `CacheManager.get` fills L1 and L2 with what it read,
  whatever happened since. In L1 the value dies at its TTL. In L2 it has none:
  after a deletion nothing replaces it, and every later miss reads it back. The
  class comment promises that a stale entry sorts itself out. Without Redis it
  does, which `auth_memory` checks.
- `auth_versions`. `FirestoreAdapter.setMany` writes version 1 with each row,
  and the version check of HTTP mode trusts versions to tell values apart.
- `batch_false_ack`. A flush empties the map and fails; a flush queued behind it
  finds nothing to do and resolves the writes it took along.

More behaviours are in the models and have no violation run of their own,
as the properties are stated around them. A `saveCreds` whose debounced flush
failed never settles (`SavesFinish` excepts failed flushes). A section longer
than the 10 s of the lock overlaps with the next one, although `factory.ts:46-47`
says that two server processes "can't race": `LeaseExcludes` and `SoleHolder`
are about sections within their lease, `ShortSectionsExclude` says that this is
the only way, and a late section may leave its old values in both caches and, as
its write reaches the database late, there too (`L1Coherent`, `L2Coherent`). With
deadline and TTL both at 10 s, a call that starts right after the SET of a
process that then died may throw (`OnlyRecentLockTimesOut` says that it must
start within the time of one answer). `importSession` clears the cache of its
own process alone, where `docs/session-management.md:51` speaks of all
subsequent reads (`L1Honest` excepts the others). A call to an SQLite adapter whose worker has died
hangs, although `docs/error-handling.md:26` speaks of calls that throw once the
retries are exhausted (`CallsSettle` excepts it). A prune may delete a key that
was written after its age was read (`PruneIsSafe` excepts just that). `withRetry`
makes `retries + 1` attempts, where `types.ts:102` calls `retries` the number of
attempts; `SqliteAdapter` has what the code does.

## What is proved

For all values of the constants, under the named assumptions of the modules
(`Mode` and `Faults` have one of their values, slots are disjoint, bounds are
numbers; `NothingAssumption` says that a cached entry is not `undefined`, and
`KeyAssumption` that there is a key, as there always is the one of the
credentials). Nothing assumes that the sets are finite.

| theorem | says |
|---|---|
| `TypeCorrect` | `TypeOK` |
| `OneHolder` | `SoleHolder`: one section at a time, but for those that outlived their lock |
| `LocksAreSessionLocks` | the lock of each scope is a `SessionLock`, for the sections that have not outlived it |
| `LastCallWins` | `LastSetCallWins` |
| `CachesFollowDatabase` | `CacheNeverAheadOfDatabase` |
| `L2FollowsDatabase` | `L2Coherent` |
| `L1FollowsDatabase` | `L1Coherent` |
| `LockTypeCorrect` | `TypeOK` of `RedisLock` |
| `LeasesExclude` | `LeaseExcludes` |
| `WithLockIsSessionLock` | `ImplementsSessionLock`: `RedisLock` implements `SessionLock` |
| `ShortSectionsExclude` | one callback at a time if `MaxSection <= TTL` |
| `ReleasesOwn` | `NeverReleasesAnother` |
| `RecentLockOnly` | `OnlyRecentLockTimesOut` |
| `CacheIsLossyMap` | `ImplementsLossyCache`: `MemoryCache` implements `LossyCache` |
| `CacheTypeCorrect` | `TypeOK` of `MemoryCache` |
| `CountersStayExact` | `CountersExact` |
| `LimitsHold` | `WithinLimits` |
| `EvictionsAreLeastRecentlyUsed` | `EvictsLeastRecentlyUsed` |
| `BatcherTypeCorrect` | `TypeOK` of `WriteBatcher` |
| `WritesNeverGoBackwards` | `NeverBackwards` |
| `AcksUnlessRejected` | `AckedUnlessRejected` |
| `BatcherForgetsNothing` | `NothingForgotten` |
| `ClosingFlushes` | `CloseFlushes` |
| `MaintenanceTypeCorrect` | `TypeOK` of `SessionMaintenance` |
| `DeletionsComplete` | `DeleteIsComplete` |
| `ExportsFaithful` | `ExportFaithful` |
| `PruningSafe` | `PruneIsSafe` |
| `VersionsGrow` | `VersionGrows` |
| `CachesHonest` | `L1Honest` |
| `SqliteTypeCorrect` | `TypeOK` of `SqliteAdapter` |
| `AnswersOwn` | `AnswersAreTheCallersOwn` |
| `ToldAsExecuted` | `ExecutedAsTold` |
| `RunsInOrder` | `CallsRunInOrder` |
| `NothingWaitedForIsLost` | `NobodyWaitsInVain` |
| `AdapterIsRetriedCalls` | `ImplementsRetriedCalls`: `SqliteAdapter` implements `RetriedCalls` |

The argument.

- `OneHolder`: `HolderInv`. `HoldPart`: a section that has not outlived its lock
  is the one under the lock of its scope, which is `SoleHolder`, though that says
  nothing of the lock and is not inductive alone. `SolePart`: a section whose
  lease is `"sole"` is the only section of its scope, late ones included.
  `MutexPart`: without TCP Redis every section is one of these.
- `CachesFollowDatabase`: `DatabaseFirst`, what the rows, both caches, the reads
  on their way and the sections that have landed hold has been stored. It needs
  `FanInv`: the fan-out of a key runs only in a section that has landed, for a
  key of its batch.
- `L2FollowsDatabase`, `L1FollowsDatabase`: `Committed`, while a section that has
  the lock to itself is on its way from the database to the caches its rows stay
  what it wrote. This is where the lock is used, through `SolePart`. With it,
  such a section puts the row's present value into a cache; what another puts
  there is either present or marked. And every section that changes a row owes
  every cache its update from then on, late or not; `L1Inv` follows that debt through
  the fan-out and the mail. `NoRedis` covers the mode without L2.
- `LeasesExclude`: a section within its lease still owns the key and the key was
  set when it entered, so that nobody's SET NX succeeds. `SectionBound` bounds a
  section by the clock. `RefusedInv` keeps the time of a refusal below the end
  of the key that refused it; as the answer takes `MaxDelay` at most, that gives
  `RecentLockOnly`, whatever the deadline.
- `WithLockIsSessionLock` follows from that: a key that exists has the owner
  that a section within its lease had set, a SET finds no key and a script
  deletes only its own, so that holder and sections change as `SessionLock`
  says. `LocksAreSessionLocks` is the same argument from `HolderInv`.
- `LastCallWins`: `OrderInv`, about the only process of a session. The local
  mutex is first come first served, so the calls that still have to write their
  entries wait in the order they were made in (`QueuePart`), the one inside came
  before them (`InsidePart`), and no row is newer than what any of them will
  write (`RowPart`). Calls that queue again for their deletions may wait
  anywhere, as they write no value. `NumberPart` numbers the calls. That the one
  inside is one is `OneHolder`.
- `CacheIsLossyMap`: every step of `MemoryCache` changes its entries as one of
  `LossyCache` does, whatever the list and the counter are: no invariant is
  needed for it.
- The other theorems about `MemoryCache` share `CacheInv`. Its `ListPart` says
  that the list has each key that is held once, in the order of last use; its
  `BytesPart` that the counter is `BytesOf` the entries. The loop of
  `evictIfNeeded` compares the length of the list and the counter with the
  limits, so that limits and LRU order need both. The lemma `SetCuts` describes
  a `set` as a cut of the list at the first place after which what is left fits.
  A sum over a set would need induction; `BytesOf` is the number of pairs of a
  key and one of its bytes, so that the sum of two disjoint sets is a fact about
  cardinalities. `Rest`, the list without some keys, picks them by their places
  for the same reason.
- The theorems about `WriteBatcher` share one invariant. `HeadPart`: only the
  running task has taken values along. `OrderPart`: what is pending is the last
  value of its key, and what is being flushed is no older than what was stored
  or rejected, which gives `NeverBackwards`. `PlacePart`: every caller waits in
  one place, among the waiters or in one task. `AckPart`: the value a caller
  waits for is stored, rejected, in the running task or pending, and not pending
  when the running task is the one to tell it, so that whoever resolves it has
  stored it, or an earlier flush has lost it. `ClosePart` says the same of what
  was written before `close` and of the task that `destroy` waits for.
  `NothingForgotten` is kept by itself, given these.
- `DeletionsComplete`, `ExportsFaithful`, `PruningSafe` and `VersionsGrow` share
  the invariant `TaskInv`, with a part for each kind of task, as the properties
  speak of one point in a task each and are not inductive. `DeletePart`: a row
  that a deletion has not listed was written since. `ExportPart`: the row seen
  of a key is the present one, unless the key was written since it was read.
  `PrunePart`: the keys of a prune are candidates, and until it decides the row
  seen of each is present or overtaken. `ImportPart`, and `WriteInv` for the
  section: the versions that Firebase's `setMany` has read are present,
  overtaken, or those before its own first attempt, which a repetition repeats. That `resolveCategory` finds the category a key is stored under is
  the lemma `Resolved`, from the assumption that of two categories at most one
  is a prefix of the other.
- `CachesHonest`: `L1Honest` is inductive by itself, given the types: who changes
  a row either still owes his own cache its update or has marked the entry.
- The theorems about `SqliteAdapter` share `Typed` (whoever waits, waits under
  an id that was given), `StartInv` (only the first message of a worker tells
  that it is ready, or not) and `WaitInv` (a caller waits for one answer, or for
  the worker). `MailInv` ties requests and answers to the call that waits under
  their id, which is `AnswersOwn`. `NumberInv` keeps the numbers of the calls
  apart. `OrderInv` orders the first attempts in the line and in the inbox,
  which is `RunsInOrder`. For `ToldAsExecuted`, `RanInv` says that what is
  answered has been executed, and `OnceInv` that, without a death, no request in
  the inbox was executed, and every answer tells what was done.
- `AdapterIsRetriedCalls` adds `UniqueInv` and `AliveInv`, which hold after a
  death too: every request in an inbox has its waiter, is there once and not
  answered yet, and leaves with its worker before the 'error' event takes the
  waiters away. So what is executed is the call in flight of a caller (the lemma
  `ExecutedOpen`), and a rejection ends calls that were not executed, or were by
  a worker that died (`RejectThrows`).
- `NothingWaitedForIsLost` is about the state before a death, and rests on
  `SortedInv`, that messages are in the order of their ids, and `BeforeInv`:
  a caller that began before somebody closes the adapter is before him in the
  line, among the ids and, as answers come in order, when they are told. So
  while a `terminate()` is under way only callers wait that are `late`
  (`ClosersAreLast`), which is why it may throw the inbox away. `LineInv`,
  `WorkerInv` and `SentInv` are the property, with what the callers' attempts
  need of the worker.

Only model-checked: liveness (`CallsFinish`, `CachesConverge`, `SavesFinish`,
`CallsSettle`, `ExpiredEntriesLeave`), which is outside TLAPS's reach here. Every
type invariant, safety invariant, action property and refinement that a passing
run checks is also a theorem. The two violated properties of safety,
`VersionsIdentifyValues` and `AckedIsStored`, and the violation of
`CachesConverge` are TLC's counterexamples alone.

## What is not modelled, and what comes next

Not modelled: encryption and serialization (pure functions), the wording of SQL
and Redis commands, logging, connection pools, `init` of the adapters,
`CacheManager.getMany` (no caller), `listSessions` (reads only), Firestore's
document ids (which replace `/` by `_` and so may collide), and `loadCreds`.
The auth state's `close` ends the timers, the batcher and the caches and never
the adapter: there is no composition of the batcher, the calls and the adapter
yet in which to say what it leaves running.

Next, in this order.

1. Two overlapping tasks in `SessionMaintenance`, and a section that reads its
   versions one by one.
2. An abstract register per key that `HybridAuthState` with one lock implements
   for writes, as a refinement.
3. `WriteBatcher` composed with the sections of `HybridAuthState`.
