---------------------------- MODULE SqliteAdapter ----------------------------
(***************************************************************************)
(* SqliteAdapter (src/src/adapters/sqlite-adapter.ts), the worker thread   *)
(* it runs better-sqlite3 in (sqlite-worker.ts), and the retries around    *)
(* every call (utils/retry.ts).                                            *)
(*                                                                         *)
(* The main thread starts the worker at its first call, posts it requests  *)
(* with an id each, and settles the promise that is pending under the id   *)
(* of an answer.  The worker executes its messages one by one.  Several    *)
(* callers share the adapter, any of which may close it; the next call     *)
(* starts a new worker.                                                    *)
(*                                                                         *)
(* A step is one event of the main thread, with the promise reactions that *)
(* follow it, or one message handled by the worker.  What the requests do  *)
(* to the rows is in SessionMaintenance.                                   *)
(***************************************************************************)
EXTENDS Integers, Sequences, SequencesExt

CONSTANTS
  Caller,    \* slots for the calls in flight
  Retries,   \* RetryOptions.retries
  Faults,    \* what may go wrong, a subset of FaultKinds
  MaxCalls   \* bound of the instances checked by TLC

FaultKinds == {"start", "sql", "death"}

ASSUME FaultsAssumption == Faults \subseteq FaultKinds
ASSUME BoundsAssumption == Retries \in Nat /\ MaxCalls \in Nat

VARIABLES
  ready,     \* the promise of ensureWorker; "none" while worker is null
  line,      \* the callers that await it, in order
  nextId,    \* nextRequestId
  pending,   \* the Map of that name: pending[i] waits for answer i
  thread,    \* the worker thread
  inbox,     \* requests posted to the worker
  outbox,    \* answers posted by it
  errored,   \* the worker's 'error' event is on its way
  op,        \* op[c]: what c has called, and the number of its call
  pc,        \* pc[c]: where the call stands
  attempt,   \* attempt[c]: the attempts of the call that have failed
  late,      \* late[c]: its last attempt began while another caller's close
             \* was going on (history)
  result,    \* result[c]: how the last call of c ended (history)
  ran,       \* ran[n]: how often a worker executed call n (history)
  newest,    \* the latest call whose first attempt was executed (history)
  died,      \* a worker has stopped without being told to (history)
  calls      \* the number of calls so far

mainVars == <<ready, line, nextId, pending>>
workerVars == <<thread, inbox, outbox, errored>>
callVars == <<op, pc, attempt, late, result>>
historyVars == <<ran, newest, died>>
vars == <<mainVars, workerVars, callVars, historyVars, calls>>

Id == Nat \ {0}
CallNo == 0 .. MaxCalls

Op == [close : BOOLEAN, n : CallNo]
Request == [id : Id, op : Op, first : BOOLEAN]
\* of: the call that was executed, 0 in the message that the worker is ready.
Answer == [id : Id \cup {0}, ok : BOOLEAN, of : CallNo]
Result == [ok : BOOLEAN, n : CallNo, of : CallNo]

Init ==
  /\ ready = "none" /\ line = << >> /\ nextId = 1
  /\ pending = << >>
  /\ thread = "none" /\ inbox = << >> /\ outbox = << >> /\ errored = FALSE
  /\ op = [c \in Caller |-> [close |-> FALSE, n |-> 0]]
  /\ pc = [c \in Caller |-> "idle"]
  /\ attempt = [c \in Caller |-> 0]
  /\ late = [c \in Caller |-> FALSE]
  /\ result = [c \in Caller |-> [ok |-> TRUE, n |-> 0, of |-> 0]]
  /\ ran = [n \in CallNo |-> 0] /\ newest = 0 /\ died = FALSE
  /\ calls = 0

-----------------------------------------------------------------------------
(* The main thread *)

\* call(), after its await, of the callers of C one after the other.  What
\* is posted to a worker that has stopped is lost.
Post(C) ==
  /\ nextId' = nextId + Len(C)
  /\ pending' = [i \in DOMAIN pending \cup nextId .. nextId + Len(C) - 1 |->
                   IF i >= nextId THEN C[i - nextId + 1] ELSE pending[i]]
  /\ inbox' = IF thread = "dead" THEN inbox
              ELSE inbox \o [j \in DOMAIN C |->
                     [id |-> nextId + j - 1, op |-> op'[C[j]],
                      first |-> attempt[C[j]] = 0]]

\* Mutant: the loop goes on for one attempt too long.
GivesUpLate(c) == attempt[c] > Retries

\* The attempt that failed was the last one of withRetry.
GivesUp(c) == attempt[c] >= Retries

(* The attempts of the callers of C are rejected.  close() ignores it and   *)
(* terminates the worker; the others sleep and try again, or throw.         *)
Reject(C) ==
  /\ pc' = [c \in Caller |-> IF c \notin C THEN pc[c]
                             ELSE IF op'[c].close THEN "terminate"
                             ELSE IF GivesUp(c) THEN "idle" ELSE "backoff"]
  /\ attempt' = [c \in Caller |-> IF c \notin C THEN attempt[c]
                                  ELSE IF op'[c].close \/ GivesUp(c) THEN 0
                                  ELSE attempt[c] + 1]
  /\ result' = [c \in Caller |-> IF c \in C /\ ~ op'[c].close /\ GivesUp(c)
                                 THEN [ok |-> FALSE, n |-> op'[c].n, of |-> 0]
                                 ELSE result[c]]

\* The attempt of c is answered: the call returns, close() goes on.
Resolve(c, of) ==
  /\ pc' = [pc EXCEPT ![c] = IF op[c].close THEN "terminate" ELSE "idle"]
  /\ attempt' = [attempt EXCEPT ![c] = 0]
  /\ result' = IF op[c].close THEN result
               ELSE [result EXCEPT ![c] = [ok |-> TRUE, n |-> op[c].n,
                                           of |-> of]]

Waits(C, where) ==
  /\ pc' = [c \in Caller |-> IF c \in C THEN where ELSE pc[c]]
  /\ UNCHANGED <<attempt, result>>

(* One attempt of c to call o: ensureWorker() starts a worker if there is   *)
(* none, and the request waits for it to be ready.  A worker that could not *)
(* start rejects every call until the adapter is closed.                    *)
Attempt(c, o) ==
  /\ op' = [op EXCEPT ![c] = o]
  /\ late' = [late EXCEPT ![c] =
                \E x \in Caller \ {c} : pc[x] # "idle" /\ op[x].close]
  /\ \/ /\ ready = "none"
        /\ ready' = "pending" /\ line' = << c >>
        /\ thread' = "starting" /\ inbox' = << >>
        /\ Waits({c}, "ready")
        /\ UNCHANGED <<nextId, pending>>
     \/ /\ ready = "pending"
        /\ line' = Append(line, c)
        /\ Waits({c}, "ready")
        /\ UNCHANGED <<ready, nextId, pending, thread, inbox>>
     \/ /\ ready = "ok"
        /\ Post(<< c >>)
        /\ Waits({c}, "sent")
        /\ UNCHANGED <<ready, line, thread>>
     \/ /\ ready = "failed"
        /\ Reject({c})
        /\ UNCHANGED <<mainVars, thread, inbox>>
  /\ UNCHANGED <<outbox, errored, historyVars>>

\* One of the methods of the adapter is called: init, get, setMany...
StartCall(c) ==
  /\ pc[c] = "idle" /\ calls < MaxCalls
  /\ calls' = calls + 1
  /\ Attempt(c, [close |-> FALSE, n |-> calls'])

\* close(): without a worker there is nothing to do.
StartClose(c) ==
  /\ pc[c] = "idle" /\ calls < MaxCalls
  /\ ready # "none"
  /\ calls' = calls + 1
  /\ Attempt(c, [close |-> TRUE, n |-> calls'])

\* withRetry has slept long enough.
Retry(c) ==
  /\ pc[c] = "backoff"
  /\ Attempt(c, op[c])
  /\ UNCHANGED calls

\* Mutant: the callers that waited are served last to first.
ReadyReversed ==
  /\ outbox # << >> /\ Head(outbox).id = 0 /\ Head(outbox).ok
  /\ outbox' = Tail(outbox)
  /\ ready' = "ok" /\ line' = << >>
  /\ UNCHANGED op
  /\ Post(Reverse(line))
  /\ Waits(ToSet(line), "sent")
  /\ UNCHANGED <<thread, errored, late, historyVars, calls>>

\* The worker is ready, and whoever waited for it goes on.
Ready ==
  /\ outbox # << >> /\ Head(outbox).id = 0 /\ Head(outbox).ok
  /\ outbox' = Tail(outbox)
  /\ ready' = "ok" /\ line' = << >>
  /\ UNCHANGED op
  /\ Post(line)
  /\ Waits(ToSet(line), "sent")
  /\ UNCHANGED <<thread, errored, late, historyVars, calls>>

\* Mutant: only the message that the worker is ready settles the promise.
NotReadyUnheard ==
  /\ outbox # << >> /\ Head(outbox).id = 0 /\ ~ Head(outbox).ok
  /\ outbox' = Tail(outbox)
  /\ UNCHANGED <<mainVars, thread, inbox, errored, callVars, historyVars,
                 calls>>

\* The worker could not start: ready is rejected, for good.
NotReady ==
  /\ outbox # << >> /\ Head(outbox).id = 0 /\ ~ Head(outbox).ok
  /\ outbox' = Tail(outbox)
  /\ ready' = "failed" /\ line' = << >>
  /\ UNCHANGED op
  /\ Reject(ToSet(line))
  /\ UNCHANGED <<nextId, pending, thread, inbox, errored, late, historyVars,
                 calls>>

\* Mutant: the waiter stays in the Map, and hears of a later error.
AnsweredKeepsWaiter ==
  LET m == Head(outbox) IN
  /\ outbox # << >> /\ m.id # 0
  /\ outbox' = Tail(outbox)
  /\ UNCHANGED <<pending, op>>
  /\ \/ /\ m.id \notin DOMAIN pending
        /\ UNCHANGED <<pc, attempt, result>>
     \/ /\ m.id \in DOMAIN pending /\ m.ok
        /\ Resolve(pending[m.id], m.of)
     \/ /\ m.id \in DOMAIN pending /\ ~ m.ok
        /\ Reject({pending[m.id]})
  /\ UNCHANGED <<ready, line, nextId, thread, inbox, errored, late,
                 historyVars, calls>>

\* An answer comes in, for the waiter that is pending under its id, if any.
Answered ==
  LET m == Head(outbox) IN
  /\ outbox # << >> /\ m.id # 0
  /\ outbox' = Tail(outbox)
  /\ pending' = [i \in DOMAIN pending \ {m.id} |-> pending[i]]
  /\ UNCHANGED op
  /\ \/ /\ m.id \notin DOMAIN pending
        /\ UNCHANGED <<pc, attempt, result>>
     \/ /\ m.id \in DOMAIN pending /\ m.ok
        /\ Resolve(pending[m.id], m.of)
     \/ /\ m.id \in DOMAIN pending /\ ~ m.ok
        /\ Reject({pending[m.id]})
  /\ UNCHANGED <<ready, line, nextId, thread, inbox, errored, late,
                 historyVars, calls>>

(* The worker's 'error' event: whoever waits for an answer is rejected.     *)
(* Nothing else changes: the next attempt is posted to the same worker.     *)
WorkerError ==
  /\ errored
  /\ errored' = FALSE
  /\ pending' = << >>
  /\ UNCHANGED op
  /\ Reject({pending[i] : i \in DOMAIN pending})
  /\ UNCHANGED <<ready, line, nextId, thread, inbox, outbox, late,
                 historyVars, calls>>

Closers == {c \in Caller : pc[c] = "terminate"}

(* The 'exit' event of the worker, behind all that it has posted, ends the  *)
(* await of terminate(), for every close() that is going on.                *)
Closed ==
  /\ Closers # {}
  /\ thread = "dead" /\ outbox = << >> /\ ~ errored
  /\ ready' = "none" /\ thread' = "none"
  /\ Waits(Closers, "idle")
  /\ UNCHANGED <<line, nextId, pending, inbox, outbox, errored, op, late,
                 historyVars, calls>>

-----------------------------------------------------------------------------
(* The worker thread *)

Say(id, ok, of) ==
  outbox' = Append(outbox, [id |-> id, ok |-> ok, of |-> of])

Stops == thread' = "dead" /\ inbox' = << >>

\* main() has opened the database and listens.
Started ==
  /\ thread = "starting"
  /\ thread' = "up"
  /\ Say(0, TRUE, 0)
  /\ UNCHANGED <<mainVars, inbox, errored, callVars, historyVars, calls>>

\* main() throws, which is told, and the thread has nothing left to do.
StartFails ==
  /\ "start" \in Faults
  /\ thread = "starting"
  /\ Stops
  /\ Say(0, FALSE, 0)
  /\ UNCHANGED <<mainVars, errored, callVars, historyVars, calls>>

\* The call of request r is executed.
Executed(r) ==
  /\ ran' = [ran EXCEPT ![r.op.n] = @ + 1]
  /\ newest' = IF r.first THEN r.op.n ELSE newest

\* The switch of the message handler: the request succeeds.
Execute ==
  LET r == Head(inbox) IN
  /\ thread = "up" /\ inbox # << >> /\ ~ r.op.close
  /\ inbox' = Tail(inbox)
  /\ Executed(r)
  /\ Say(r.id, TRUE, r.op.n)
  /\ UNCHANGED <<mainVars, thread, errored, callVars, died, calls>>

\* SQLite reports an error, and has changed nothing; or it is closed.
ExecuteFails ==
  LET r == Head(inbox) IN
  /\ thread = "closed" \/ (thread = "up" /\ "sql" \in Faults)
  /\ inbox # << >> /\ ~ r.op.close
  /\ inbox' = Tail(inbox)
  /\ Say(r.id, FALSE, r.op.n)
  /\ UNCHANGED <<mainVars, thread, errored, callVars, historyVars, calls>>

\* The request is close: the database is closed, the thread goes on.
CloseDatabase ==
  LET r == Head(inbox) IN
  /\ thread \in {"up", "closed"} /\ inbox # << >> /\ r.op.close
  /\ inbox' = Tail(inbox)
  /\ thread' = "closed"
  /\ Say(r.id, TRUE, r.op.n)
  /\ UNCHANGED <<mainVars, errored, callVars, historyVars, calls>>

\* Mutant: close() does not await the answer before it terminates.
TerminateEarly ==
  /\ \E c \in Caller : op[c].close /\ pc[c] \in {"sent", "terminate"}
  /\ thread \in {"up", "closed"}
  /\ Stops
  /\ UNCHANGED <<mainVars, outbox, errored, callVars, historyVars, calls>>

\* terminate() takes effect: what is in the inbox is never read.
Terminate ==
  /\ Closers # {}
  /\ thread \in {"up", "closed"}
  /\ Stops
  /\ UNCHANGED <<mainVars, outbox, errored, callVars, historyVars, calls>>

(* The thread dies: out of memory or on an uncaught error, which is an      *)
(* 'error' event, or by an exit, which nobody listens to.  The request it   *)
(* was at may be executed, and is not answered.                             *)
Dies ==
  /\ "death" \in Faults
  /\ thread \in {"starting", "up", "closed"}
  /\ Stops
  /\ errored' \in BOOLEAN
  /\ \/ UNCHANGED <<ran, newest>>
     \/ thread = "up" /\ inbox # << >> /\ ~ Head(inbox).op.close
        /\ Executed(Head(inbox))
  /\ died' = TRUE
  /\ UNCHANGED <<mainVars, outbox, callVars, calls>>

-----------------------------------------------------------------------------
MainStep == Ready \/ NotReady \/ Answered \/ WorkerError \/ Closed
WorkerStep == Started \/ Execute \/ ExecuteFails \/ CloseDatabase \/ Terminate

Next == \/ \E c \in Caller : StartCall(c) \/ StartClose(c) \/ Retry(c)
        \/ MainStep
        \/ WorkerStep \/ StartFails \/ Dies

Spec == Init /\ [][Next]_vars

(* Both event loops handle what has arrived, terminate() takes effect, and  *)
(* the timers of the retries fire.  No fault has to happen.                 *)
FairSpec == /\ Spec
            /\ WF_vars(MainStep) /\ WF_vars(WorkerStep)
            /\ \A c \in Caller : WF_vars(Retry(c))

-----------------------------------------------------------------------------
(* Properties *)

\* Every variable holds what the code can put there.
TypeOK ==
  /\ ready \in {"none", "pending", "ok", "failed"}
  /\ line \in Seq(Caller)
  /\ nextId \in Id
  /\ DOMAIN pending \subseteq Id
  /\ pending \in [DOMAIN pending -> Caller]
  /\ thread \in {"none", "starting", "up", "closed", "dead"}
  /\ inbox \in Seq(Request) /\ outbox \in Seq(Answer)
  /\ errored \in BOOLEAN
  /\ op \in [Caller -> Op]
  /\ pc \in [Caller -> {"idle", "ready", "sent", "backoff", "terminate"}]
  /\ attempt \in [Caller -> 0 .. Retries]
  /\ late \in [Caller -> BOOLEAN]
  /\ result \in [Caller -> Result]
  /\ ran \in [CallNo -> Nat] /\ newest \in CallNo
  /\ died \in BOOLEAN /\ calls \in CallNo

(* A call gets the answer to its own request, whatever was started, failed, *)
(* retried or closed meanwhile: ids are never shared, or used again.        *)
AnswersAreTheCallersOwn ==
  \A c \in Caller : result[c].ok => result[c].of = result[c].n

(* What a call is told is what the database did.  A call that returned was  *)
(* executed.  As long as no worker dies of itself it was executed once,     *)
(* however often it was tried, so that a write adds one to the version of   *)
(* its rows (docs/adapters/overview.md:53), and a call that threw was not   *)
(* executed at all: nothing is half done when the adapter is closed.        *)
ExecutedAsTold ==
  \A c \in Caller : pc[c] = "idle" /\ result[c].n > 0 =>
    LET times == ran[result[c].n] IN
    /\ result[c].ok => times >= 1
    /\ ~ died => times = IF result[c].ok THEN 1 ELSE 0

(* Calls reach the database in the order they were made in, also those that *)
(* had to wait for the worker to start.  A retry comes later than that.     *)
CallsRunInOrder == [][newest' >= newest]_vars

\* The call of the adapter that c has in flight; close() is none of them.
OpenCall == [c \in Caller |-> IF pc[c] = "idle" \/ op[c].close THEN 0
                              ELSE op[c].n]

Calls == INSTANCE RetriedCalls
           WITH Number <- CallNo, open <- OpenCall, told <- result,
                broken <- died

(* Threads, messages, retries and close() amount to what a caller relies    *)
(* on, whatever goes wrong: a call is executed while its caller waits for   *)
(* it, never once it was told how the call ended, and once at most until a  *)
(* worker dies of itself.                                                   *)
ImplementsRetriedCalls == Calls!Spec

(* What CallsSettle rests on.  As long as no worker dies of itself, the     *)
(* request of whoever waits for an answer lies in the inbox of a running    *)
(* worker, or the answer is on its way; and whoever waits for a worker is   *)
(* in line for one that is starting, or has told how that went.             *)
NobodyWaitsInVain ==
  \A c \in Caller : ~ died /\ ~ late[c] =>
    /\ pc[c] = "sent" =>
         \E i \in DOMAIN pending :
           /\ pending[i] = c
           /\ \/ /\ thread \in {"up", "closed"}
                 /\ \E j \in DOMAIN inbox : inbox[j].id = i
              \/ \E j \in DOMAIN outbox : outbox[j].id = i
    /\ pc[c] = "ready" =>
         /\ \E j \in DOMAIN line : line[j] = c
         /\ thread = "starting" \/ (outbox # << >> /\ Head(outbox).id = 0)

(* Every call returns or throws (docs/error-handling.md:26), close() too,   *)
(* as long as no worker dies of itself and the call was not made, or tried  *)
(* again, while somebody was closing the adapter.  Otherwise it may be      *)
(* pending for ever: a dead worker is never replaced.                       *)
CallsSettle ==
  \A c \in Caller : pc[c] # "idle" ~> pc[c] = "idle" \/ late[c] \/ died
=============================================================================
