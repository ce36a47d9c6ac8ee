---------------------------- MODULE WriteBatcher ----------------------------
(***************************************************************************)
(* The write batcher of one process (src/src/utils/write-batcher.ts) under *)
(* the calls that use it: saveCreds and close (src/src/factory.ts).        *)
(*                                                                         *)
(* write() leaves its value in a map and waits; a timer that every write   *)
(* starts anew, saveCreds and close call flushNow(), which queues a flush  *)
(* that empties the map when its turn comes.  The waiters a flush resolves *)
(* are those of the time it was queued, the values it flushes those of the *)
(* time it starts: most of the properties are about that difference.       *)
(***************************************************************************)
EXTENDS Naturals, Sequences

CONSTANTS
  Caller,      \* slots for the calls of saveCreds in flight
  Key,         \* keys of the batch; saveCreds itself only writes "creds"
  Faults,      \* what may go wrong, a subset of {"flush", "close"}
  MaxWrites    \* bound of the instances checked by TLC

ASSUME KeyAssumption == Key # {}
ASSUME FaultsAssumption == Faults \subseteq {"flush", "close"}
ASSUME CallerAssumption == {"timer", "close"} \cap Caller = {}
ASSUME MaxWritesAssumption == MaxWrites \in Nat

VARIABLES
  immediate, \* the batcher was made with debounceMs <= 0: no debounce
  pending,   \* pending[k]: the value waiting to be flushed, 0 for none
  waiters,   \* flushWaiters: the writes the next flushNow will take along
  timer,     \* the debounce timer is set
  queue,     \* the flushes queued; the first one is running
  stored,    \* stored[k]: the value of k in the database
  pc,        \* pc[c]: where the saveCreds in slot c stands
  ask,       \* ask[c]: the key and the value it writes
  latest,    \* latest[k]: the last value written to k (history)
  rejected,  \* rejected[k]: the last value of k in a flush that failed (history)
  closing,   \* "open", "closing" while close() awaits its flush, "closed"
  due,       \* latest at the call of close() (history)
  writes     \* the number of writes so far: the value of the last one

batchVars == <<pending, waiters, timer, queue>>
callVars == <<pc, ask>>
closeVars == <<closing, due>>
vars == <<immediate, batchVars, stored, callVars, latest, rejected, closeVars,
          writes>>

Values == [Key -> Nat]
Nothing == [k \in Key |-> 0]
Task == [waiters : SUBSET Caller, by : Caller \cup {"timer", "close"},
         entries : Values]
NoAsk == [key |-> CHOOSE k \in Key : TRUE, val |-> 0]

Init ==
  /\ immediate \in BOOLEAN
  /\ pending = Nothing
  /\ waiters = {}
  /\ timer = FALSE
  /\ queue = << >>
  /\ stored = Nothing
  /\ pc = [c \in Caller |-> "idle"]
  /\ ask = [c \in Caller |-> NoAsk]
  /\ latest = Nothing
  /\ rejected = Nothing
  /\ closing = "open"
  /\ due = Nothing
  /\ writes = 0

-----------------------------------------------------------------------------
\* Mutant: the list of waiters is reset before it is taken along.
FlushNowForgetting(x, p) ==
  LET task(e) == [waiters |-> {}, by |-> x, entries |-> e] IN
  /\ timer' = FALSE
  /\ waiters' = {}
  /\ IF queue = << >> THEN queue' = << task(p) >> /\ pending' = Nothing
                      ELSE queue' = Append(queue, task(Nothing)) /\ pending' = p

(* flushNow by x when the map holds p: the waiters are taken along now, the *)
(* map is emptied when the task starts, which is now if the queue is idle.  *)
FlushNow(x, p) ==
  LET task(e) == [waiters |-> waiters, by |-> x, entries |-> e] IN
  /\ timer' = FALSE
  /\ waiters' = {}
  /\ IF queue = << >> THEN queue' = << task(p) >> /\ pending' = Nothing
                      ELSE queue' = Append(queue, task(Nothing)) /\ pending' = p

\* Mutant: a queued flush does not look at the map when its turn comes.
AdvanceUndrained == queue' = Tail(queue) /\ UNCHANGED pending

\* Mutant: the map is cleared after the flush, not before it.
AdvanceAndClear ==
  /\ queue' = IF Len(queue) = 1 THEN << >>
              ELSE [Tail(queue) EXCEPT ![1].entries = pending]
  /\ pending' = Nothing

\* The running flush is over, and the next one starts on what is pending.
Advance ==
  IF Len(queue) = 1 THEN queue' = << >> /\ UNCHANGED pending
  ELSE /\ queue' = [Tail(queue) EXCEPT ![1].entries = pending]
       /\ pending' = Nothing

\* write(k, v), the first half of saveCreds.
Write(c, k) ==
  /\ pc[c] = "idle"
  /\ writes < MaxWrites
  /\ writes' = writes + 1
  /\ latest' = [latest EXCEPT ![k] = writes']
  /\ ask' = [ask EXCEPT ![c] = [key |-> k, val |-> writes']]
  /\ pc' = [pc EXCEPT ![c] = "writing"]
  /\ LET p == [pending EXCEPT ![k] = writes'] IN
     IF immediate
     THEN FlushNow(c, p)
     ELSE /\ pending' = p
          /\ waiters' = waiters \cup {c}
          /\ timer' = TRUE
          /\ UNCHANGED queue
  /\ UNCHANGED <<immediate, stored, rejected, closeVars>>

\* The debounce timer fires.  The timer's flush has nobody to report to.
TimerFires ==
  /\ timer
  /\ FlushNow("timer", pending)
  /\ UNCHANGED <<immediate, stored, callVars, latest, rejected, closeVars,
                 writes>>

\* The write resolved, and saveCreds goes on to flushNow.
SaveFlush(c) ==
  /\ pc[c] = "written"
  /\ FlushNow(c, pending)
  /\ pc' = [pc EXCEPT ![c] = "flushing"]
  /\ UNCHANGED <<immediate, stored, ask, latest, rejected, closeVars, writes>>

\* Mutants: the batch takes the place of the session; the other keys are unset.
OnlyBatch(e, s) == e
OtherKeysUnset(e, s) == [k \in {j \in Key : e[j] # 0} |-> e[k]]

\* The values of entries e, over those of s.
Over(e, s) == [k \in Key |-> IF e[k] # 0 THEN e[k] ELSE s[k]]

(* setMany and the caches are done: the task ends, and the promises that    *)
(* depend on it resolve.                                                    *)
FlushDone ==
  LET t == Head(queue) IN
  /\ queue # << >>
  /\ stored' = Over(t.entries, stored)
  /\ Advance
  /\ pc' = [c \in Caller |->
              IF c \in t.waiters \/ t.by = c
              THEN IF pc[c] = "flushing" THEN "saved" ELSE "written"
              ELSE pc[c]]
  /\ UNCHANGED <<immediate, waiters, timer, ask, latest, rejected, closeVars,
                 writes>>

(* The lock or setMany rejects, possibly after some rows were written.  The *)
(* values are in no map any more.  Who awaits flushNow itself is told; the  *)
(* waiters that were taken along are not, and the timer swallows it.        *)
FlushFails ==
  LET t == Head(queue) IN
  /\ "flush" \in Faults
  /\ queue # << >> /\ t.entries # Nothing
  /\ \E A \in SUBSET Key :
       stored' = Over([k \in Key |-> IF k \in A THEN t.entries[k] ELSE 0],
                      stored)
  /\ rejected' = Over(t.entries, rejected)
  /\ Advance
  /\ pc' = [c \in Caller |-> IF t.by = c THEN "threw" ELSE pc[c]]
  /\ closing' = IF t.by = "close" THEN "open" ELSE closing
  /\ UNCHANGED <<immediate, waiters, timer, ask, latest, due, writes>>

\* saveCreds resolved or threw, and its slot is free.
Leave(c) ==
  /\ pc[c] \in {"saved", "threw"}
  /\ pc' = [pc EXCEPT ![c] = "idle"]
  /\ ask' = [ask EXCEPT ![c] = NoAsk]
  /\ UNCHANGED <<immediate, batchVars, stored, latest, rejected, closeVars,
                 writes>>

\* close() calls destroy(), which awaits flushNow.
Close ==
  /\ "close" \in Faults
  /\ closing = "open"
  /\ closing' = "closing"
  /\ due' = latest
  /\ FlushNow("close", pending)
  /\ UNCHANGED <<immediate, stored, callVars, latest, rejected, writes>>

(* That flush is over: queue.clear() drops the tasks that have not started. *)
(* Whoever awaits one of them waits for ever.                               *)
Closed ==
  /\ closing = "closing"
  /\ \A n \in 1 .. Len(queue) : queue[n].by # "close"
  /\ closing' = "closed"
  /\ queue' = IF queue = << >> THEN queue ELSE << Head(queue) >>
  /\ UNCHANGED <<immediate, pending, waiters, timer, stored, callVars, latest,
                 rejected, due, writes>>

Next == \/ \E c \in Caller, k \in Key : Write(c, k)
        \/ \E c \in Caller : SaveFlush(c) \/ Leave(c)
        \/ TimerFires \/ FlushDone \/ FlushFails \/ Close \/ Closed

Spec == Init /\ [][Next]_vars

(* Timers fire, flushes end one way or the other, promises that resolved    *)
(* resume their callers.  The timer's fairness assumes that writes pause    *)
(* for the debounce time: every write starts the timer anew.                *)
Fairness == /\ WF_vars(TimerFires)
            /\ WF_vars(FlushDone \/ FlushFails)
            /\ WF_vars(Closed)
            /\ \A c \in Caller : WF_vars(SaveFlush(c)) /\ WF_vars(Leave(c))

FairSpec == Spec /\ Fairness

-----------------------------------------------------------------------------
(* Properties *)

\* Every variable holds what the code can put there.
TypeOK ==
  /\ immediate \in BOOLEAN
  /\ pending \in Values /\ stored \in Values /\ latest \in Values
  /\ rejected \in Values /\ due \in Values
  /\ waiters \in SUBSET Caller
  /\ timer \in BOOLEAN
  /\ queue \in Seq(Task)
  /\ pc \in [Caller -> {"idle", "writing", "written", "flushing",
                        "saved", "threw"}]
  /\ ask \in [Caller -> [key : Key, val : Nat]]
  /\ closing \in {"open", "closing", "closed"}
  /\ writes \in Nat

Acked(c) == pc[c] \in {"written", "flushing", "saved"}

(* write() "resolves once that value has actually been flushed to the       *)
(* database" (write-batcher.ts:30): from then on the database holds the     *)
(* value, or one written to the same key after it.                          *)
AckedIsStored ==
  \A c \in Caller : Acked(c) => stored[ask[c].key] >= ask[c].val

(* What write() does keep of that promise: whose waiters are resolved by    *)
(* which flush is right, and only a value that a failed flush took out of   *)
(* the map, or that such a value had replaced there, is acknowledged        *)
(* without being stored.                                                    *)
AckedUnlessRejected ==
  \A c \in Caller : Acked(c) =>
    \/ stored[ask[c].key] >= ask[c].val
    \/ rejected[ask[c].key] >= ask[c].val

(* "Last write wins" (write-batcher.ts:13-15): flushes never take a key     *)
(* back to an older value, also when some of them fail half way.            *)
NeverBackwards == [][\A k \in Key : stored'[k] >= stored[k]]_vars

(* Nothing is forgotten: the last value written to a key is in the          *)
(* database, in the running flush, was in one that failed, or is pending    *)
(* with a timer or a queued flush that will take it along.                  *)
NothingForgotten ==
  closing # "closed" =>
    \A k \in Key :
      \/ latest[k] \in {stored[k], rejected[k]}
      \/ queue # << >> /\ Head(queue).entries[k] = latest[k]
      \/ pending[k] = latest[k] /\ (timer \/ Len(queue) >= 2)

(* close() "flushes any pending write" (factory.ts:37): once it has, the    *)
(* database holds all that was written before close was called, but for     *)
(* what an earlier flush had failed to write.                               *)
CloseFlushes ==
  closing = "closed" =>
    \A k \in Key : stored[k] >= due[k] \/ rejected[k] >= due[k]

(* saveCreds is not left hanging by the interplay of timer, queue and       *)
(* waiters: it returns, unless a flush failed or the batcher was closed.    *)
SavesFinish ==
  \A c \in Caller :
    pc[c] = "writing" ~> \/ pc[c] = "idle"
                         \/ rejected # Nothing
                         \/ closing # "open"
=============================================================================
