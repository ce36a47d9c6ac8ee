-------------------------- MODULE WriteBatcherProofs --------------------------
(***************************************************************************)
(* The safety properties of WriteBatcher, for any number of calls in       *)
(* flight, keys and writes.                                                *)
(*                                                                         *)
(* A value moves one way: it is pending, then in the running flush, then   *)
(* in the database or in rejected, and only a later value of its key takes *)
(* its place.  The promises move along a queue of their own: a call waits  *)
(* in waiters, or in one task.  The invariant ties the two together: when  *)
(* the task of a call runs, its value is at least in the running flush.    *)
(***************************************************************************)
EXTENDS WriteBatcher, TLAPS

-----------------------------------------------------------------------------
(* The invariant *)

\* A value of k at least as late as v has come that far.
Safe(k, v) == stored[k] >= v \/ rejected[k] >= v
InFlight(k, v) ==
  Safe(k, v) \/ (queue # << >> /\ queue[1].entries[k] >= v)
Kept(k, v) == InFlight(k, v) \/ pending[k] >= v

\* Who is told when task t ends.
Told(t) == t.waiters \cup {t.by}

\* Only the running task has taken values along.
HeadPart == \A n \in 2 .. Len(queue) : queue[n].entries = Nothing

(* What is pending is the last value written to its key, and what is being  *)
(* flushed is no older than what was stored or rejected.                    *)
OrderPart ==
  \A k \in Key :
    /\ latest[k] <= writes
    /\ stored[k] <= latest[k] /\ rejected[k] <= latest[k]
    /\ pending[k] \in {0, latest[k]}
    /\ queue # << >> =>
         LET e == queue[1].entries[k] IN
         /\ e <= latest[k]
         /\ e # 0 => e >= stored[k] /\ e >= rejected[k]

(* A call, or close, is told by one task only, and only while it waits for  *)
(* it.                                                                      *)
PlacePart ==
  /\ \A c \in waiters : pc[c] = "writing"
  /\ \A n \in 1 .. Len(queue) :
       /\ Told(queue[n]) \cap waiters = {}
       /\ \A c \in Told(queue[n]) \cap Caller : pc[c] \in {"writing", "flushing"}
       /\ queue[n].by = "close" => closing = "closing"
       /\ \A m \in 1 .. Len(queue) :
            n # m => Told(queue[n]) \cap Told(queue[m]) \subseteq {"timer"}

\* The value of a call is where the call's progress says.
AckPart ==
  \A c \in Caller :
    LET k == ask[c].key
        v == ask[c].val IN
    /\ pc[c] = "writing" => Kept(k, v)
    /\ Acked(c) => Safe(k, v)
    /\ queue # << >> /\ c \in Told(queue[1]) => InFlight(k, v)

\* So are those that close has to flush.
ClosePart ==
  /\ closing = "closing" =>
       \A k \in Key :
         /\ Kept(k, due[k])
         /\ (queue # << >> /\ queue[1].by = "close") => InFlight(k, due[k])
         /\ (\A n \in 1 .. Len(queue) : queue[n].by # "close") => Safe(k, due[k])
  /\ closing = "closed" => \A k \in Key : Safe(k, due[k])

Typed == TypeOK /\ HeadPart

-----------------------------------------------------------------------------
(* What the operators of the model return                                  *)

LEMMA NothingType == Nothing \in Values
  BY DEF Nothing, Values

\* Laying values over others keeps what has none.
LEMMA OverType ==
  ASSUME NEW e \in Values, NEW s \in Values
  PROVE  /\ Over(e, s) \in Values
         /\ \A k \in Key : Over(e, s)[k] = IF e[k] # 0 THEN e[k] ELSE s[k]
  BY DEF Over, Values

(* A flush is queued behind the others.  If there is none it starts, with   *)
(* what the map holds.                                                      *)
LEMMA Queued ==
  ASSUME Typed, NEW x \in Caller \cup {"timer", "close"}, NEW p \in Values,
         FlushNow(x, p)
  PROVE  /\ queue' \in Seq(Task) /\ Len(queue') = Len(queue) + 1
         /\ queue' # << >>
         /\ \A n \in 1 .. Len(queue) : queue'[n] = queue[n]
         /\ queue'[Len(queue) + 1].waiters = waiters
         /\ queue'[Len(queue) + 1].by = x
         /\ queue'[Len(queue) + 1].entries =
              IF queue = << >> THEN p ELSE Nothing
         /\ pending' = IF queue = << >> THEN Nothing ELSE p
         /\ pending' \in Values
         /\ waiters' = {} /\ timer' = FALSE
<1> DEFINE task(e) == [waiters |-> waiters, by |-> x, entries |-> e]
<1>1. \A e \in Values : task(e) \in Task
  BY DEF Typed, TypeOK, Task
<1>2. queue \in Seq(Task)
  BY DEF Typed, TypeOK
<1>3. \A e : task(e).waiters = waiters /\ task(e).by = x /\ task(e).entries = e
  OBVIOUS
<1> HIDE DEF task
<1>4. CASE queue = << >>
  <2> USE DEF task
  <2>1. queue' = << task(p) >> /\ pending' = Nothing
    BY <1>4 DEF FlushNow
  <2> HIDE DEF task
  <2>2. Len(queue) = 0
    BY <1>4
  <2>3. waiters' = {} /\ timer' = FALSE
    BY DEF FlushNow
  <2>4. /\ queue' \in Seq(Task) /\ Len(queue') = 1 /\ queue' # << >>
        /\ queue'[1] = task(p)
    BY <1>1, <2>1
  <2> QED
    BY <1>4, <1>3, <2>1, <2>2, <2>3, <2>4, NothingType
<1>5. CASE queue # << >>
  <2> USE DEF task
  <2>1. queue' = Append(queue, task(Nothing)) /\ pending' = p
    BY <1>5 DEF FlushNow
  <2>2. task(Nothing) \in Task
    BY <1>1, NothingType
  <2> HIDE DEF task
  <2>3. /\ queue' \in Seq(Task) /\ Len(queue') = Len(queue) + 1
        /\ \A n \in 1 .. Len(queue) : queue'[n] = queue[n]
        /\ queue'[Len(queue) + 1] = task(Nothing)
    BY <1>2, <2>1, <2>2
  <2>4. queue' # << >>
    BY <1>2, <2>3
  <2>5. waiters' = {} /\ timer' = FALSE
    BY DEF FlushNow
  <2> QED
    BY <1>5, <1>3, <2>1, <2>3, <2>4, <2>5
<1> QED
  BY <1>4, <1>5

(* The running flush leaves the queue, and the next one takes along what is *)
(* pending.                                                                 *)
LEMMA Advanced ==
  ASSUME Typed, queue # << >>, Advance
  PROVE  /\ queue' \in Seq(Task) /\ Len(queue') = Len(queue) - 1
         /\ \A n \in 1 .. Len(queue') :
              /\ n + 1 \in 1 .. Len(queue)
              /\ queue'[n].waiters = queue[n + 1].waiters
              /\ queue'[n].by = queue[n + 1].by
              /\ n # 1 => queue'[n].entries = queue[n + 1].entries
         /\ IF Len(queue) = 1
            THEN queue' = << >> /\ pending' = pending
            ELSE queue'[1].entries = pending /\ pending' = Nothing
         /\ pending' \in Values
<1>1. queue \in Seq(Task) /\ Len(queue) \in Nat /\ Len(queue) > 0
  BY DEF Typed, TypeOK
<1>2. CASE Len(queue) = 1
  BY <1>1, <1>2 DEF Advance, Typed, TypeOK
<1>3. CASE Len(queue) # 1
  <2> DEFINE t == Tail(queue)
  <2>1. t \in Seq(Task) /\ Len(t) = Len(queue) - 1
    BY <1>1
  <2>2. \A n \in 1 .. Len(t) : t[n] = queue[n + 1] /\ n + 1 \in 1 .. Len(queue)
    BY <1>1, <2>1
  <2>3. queue' = [t EXCEPT ![1].entries = pending] /\ pending' = Nothing
    BY <1>3 DEF Advance
  <2>4. 1 \in 1 .. Len(t) /\ t[1] \in Task
    BY <1>1, <1>3, <2>1
  <2> HIDE DEF t
  <2>5. [t[1] EXCEPT !.entries = pending] \in Task
    BY <2>4 DEF Task, Typed, TypeOK
  <2>6. queue' = [t EXCEPT ![1] = [t[1] EXCEPT !.entries = pending]]
    BY <2>3
  <2>7. queue' \in Seq(Task) /\ Len(queue') = Len(t)
    BY <2>1, <2>4, <2>5, <2>6
  <2>8. /\ queue'[1] = [t[1] EXCEPT !.entries = pending]
        /\ \A n \in 1 .. Len(t) : n # 1 => queue'[n] = t[n]
    BY <2>1, <2>4, <2>6
  <2>9. /\ queue'[1].entries = pending /\ queue'[1].by = t[1].by
        /\ queue'[1].waiters = t[1].waiters
    BY <2>4, <2>8 DEF Task
  <2> QED
    BY <1>3, <2>1, <2>2, <2>3, <2>7, <2>8, <2>9, NothingType
<1> QED
  BY <1>2, <1>3

-----------------------------------------------------------------------------
(* Types, and the entries of the tasks that wait                           *)

LEMMA InitTyped == Init => Typed
<1> SUFFICES ASSUME Init PROVE Typed
  OBVIOUS
<1>1. NoAsk \in [key : Key, val : Nat]
  BY KeyAssumption DEF NoAsk
<1> HIDE DEF NoAsk
<1>2. ask \in [Caller -> [key : Key, val : Nat]]
  BY <1>1 DEF Init
<1>3. queue = << >> /\ Len(queue) = 0
  BY DEF Init
<1>4. HeadPart
  BY <1>3 DEF HeadPart
<1>5. /\ pending \in Values /\ stored \in Values /\ latest \in Values
      /\ rejected \in Values /\ due \in Values
  BY NothingType DEF Init
<1>6. waiters \in SUBSET Caller /\ queue \in Seq(Task)
  BY <1>3 DEF Init
<1>7. immediate \in BOOLEAN /\ timer \in BOOLEAN
  BY Zenon DEF Init
<1>8. /\ closing \in {"open", "closing", "closed"} /\ writes \in Nat
      /\ pc \in [Caller -> {"idle", "writing", "written", "flushing",
                            "saved", "threw"}]
  BY DEF Init
<1> QED
  BY <1>2, <1>4, <1>5, <1>6, <1>7, <1>8 DEF Typed, TypeOK

\* What a queued flush leaves to show of Typed.
LEMMA QueuedTyped ==
  ASSUME Typed, NEW x \in Caller \cup {"timer", "close"}, NEW p \in Values,
         FlushNow(x, p)
  PROVE  /\ pending' \in Values /\ waiters' \in SUBSET Caller
         /\ timer' \in BOOLEAN /\ queue' \in Seq(Task) /\ HeadPart'
<1>1. /\ queue' \in Seq(Task) /\ Len(queue') = Len(queue) + 1
      /\ \A n \in 1 .. Len(queue) : queue'[n] = queue[n]
      /\ queue'[Len(queue) + 1].entries =
           IF queue = << >> THEN p ELSE Nothing
      /\ pending' \in Values /\ waiters' = {} /\ timer' = FALSE
  BY Queued
<1>2. queue \in Seq(Task) /\ Len(queue) \in Nat
  BY DEF Typed, TypeOK
<1>3. ASSUME NEW n \in 2 .. Len(queue')
      PROVE  queue'[n].entries = Nothing
  <2>1. CASE n = Len(queue) + 1
    BY <1>1, <1>2, <2>1
  <2>2. CASE n # Len(queue) + 1
    BY <1>1, <1>2, <2>2 DEF Typed, HeadPart
  <2> QED
    BY <2>1, <2>2
<1> QED
  BY <1>1, <1>3 DEF HeadPart

LEMMA WriteTyped ==
  ASSUME Typed, NEW c \in Caller, NEW k \in Key, Write(c, k)
  PROVE  Typed'
<1> DEFINE p == [pending EXCEPT ![k] = writes']
<1>1. writes' \in Nat /\ p \in Values /\ latest' \in Values
  BY DEF Write, Typed, TypeOK, Values
<1>2. /\ ask' \in [Caller -> [key : Key, val : Nat]]
      /\ pc' \in [Caller -> {"idle", "writing", "written", "flushing",
                             "saved", "threw"}]
  BY <1>1 DEF Write, Typed, TypeOK
<1>3. UNCHANGED <<immediate, stored, rejected, closeVars>>
  BY DEF Write
<1>4. /\ pending' \in Values /\ waiters' \in SUBSET Caller
      /\ timer' \in BOOLEAN /\ queue' \in Seq(Task) /\ HeadPart'
  <2>1. CASE immediate
    <3>1. FlushNow(c, p)
      BY <2>1 DEF Write
    <3> HIDE DEF p
    <3> QED
      BY <1>1, <3>1, QueuedTyped
  <2>2. CASE ~immediate
    <3>1. /\ pending' = p /\ waiters' = waiters \cup {c} /\ timer' = TRUE
          /\ UNCHANGED queue
      BY <2>2 DEF Write
    <3> QED
      BY <1>1, <3>1 DEF Typed, TypeOK, HeadPart
  <2> QED
    BY <2>1, <2>2
<1> QED
  BY <1>1, <1>2, <1>3, <1>4 DEF Typed, TypeOK, closeVars

LEMMA FlushesTyped ==
  ASSUME Typed,
         \/ TimerFires \/ Close
         \/ \E c \in Caller : SaveFlush(c)
  PROVE  Typed'
<1>1. PICK x \in Caller \cup {"timer", "close"} : FlushNow(x, pending)
  BY DEF TimerFires, Close, SaveFlush
<1>2. pending \in Values
  BY DEF Typed, TypeOK
<1>3. /\ pending' \in Values /\ waiters' \in SUBSET Caller
      /\ timer' \in BOOLEAN /\ queue' \in Seq(Task) /\ HeadPart'
  BY <1>1, <1>2, QueuedTyped
<1>4. UNCHANGED <<immediate, stored, ask, latest, rejected, writes>>
  BY DEF TimerFires, Close, SaveFlush, callVars
<1>5. /\ closing' \in {"open", "closing", "closed"} /\ due' \in Values
      /\ pc' \in [Caller -> {"idle", "writing", "written", "flushing",
                             "saved", "threw"}]
  BY DEF TimerFires, Close, SaveFlush, callVars, closeVars, Typed, TypeOK
<1> QED
  BY <1>3, <1>4, <1>5 DEF Typed, TypeOK

(* What the end of a flush does to the values: those of its entries, or     *)
(* some of them, are stored, and all of them are if it did not fail.        *)
LEMMA Lands ==
  ASSUME Typed, \/ FlushDone \/ FlushFails
  PROVE  /\ queue # << >> /\ Advance /\ queue[1] \in Task
         /\ stored' \in Values /\ rejected' \in Values
         /\ \A k \in Key :
              LET e == queue[1].entries[k] IN
              /\ stored'[k] = stored[k] \/ (e # 0 /\ stored'[k] = e)
              /\ rejected'[k] = rejected[k] \/ (e # 0 /\ rejected'[k] = e)
              /\ e # 0 => stored'[k] = e \/ rejected'[k] = e
<1> DEFINE t == queue[1]
<1>1. queue # << >> /\ Advance /\ Head(queue) = t
  BY DEF FlushDone, FlushFails
<1>2. t \in Task
  BY <1>1 DEF Typed, TypeOK
<1>3. t.entries \in Values /\ stored \in Values /\ rejected \in Values
  BY <1>2 DEF Task, Typed, TypeOK
<1>4. CASE FlushDone
  <2>1. stored' = Over(t.entries, stored) /\ rejected' = rejected
    BY <1>1, <1>4 DEF FlushDone
  <2> HIDE DEF t
  <2>2. /\ stored' \in Values
        /\ \A k \in Key :
             stored'[k] = IF t.entries[k] # 0 THEN t.entries[k] ELSE stored[k]
    BY <1>3, <2>1, OverType
  <2>3. /\ stored' \in Values /\ rejected' \in Values
        /\ \A k \in Key :
             LET e == t.entries[k] IN
             /\ stored'[k] = stored[k] \/ (e # 0 /\ stored'[k] = e)
             /\ rejected'[k] = rejected[k] \/ (e # 0 /\ rejected'[k] = e)
             /\ e # 0 => stored'[k] = e \/ rejected'[k] = e
    BY <1>3, <2>1, <2>2
  <2> USE DEF t
  <2> QED
    BY <1>1, <1>2, <2>3
<1>5. CASE FlushFails
  <2>1. PICK A \in SUBSET Key :
          stored' = Over([k \in Key |-> IF k \in A THEN t.entries[k] ELSE 0],
                         stored)
    BY <1>1, <1>5 DEF FlushFails
  <2>2. rejected' = Over(t.entries, rejected)
    BY <1>1, <1>5 DEF FlushFails
  <2> DEFINE a == [k \in Key |-> IF k \in A THEN t.entries[k] ELSE 0]
  <2> HIDE DEF t
  <2>3. a \in Values
    BY <1>3 DEF Values
  <2>4. /\ rejected' \in Values
        /\ \A k \in Key :
             rejected'[k] = IF t.entries[k] # 0 THEN t.entries[k] ELSE rejected[k]
    BY <1>3, <2>2, OverType
  <2> HIDE DEF a
  <2>5. /\ stored' \in Values
        /\ \A k \in Key : stored'[k] = IF a[k] # 0 THEN a[k] ELSE stored[k]
    BY <1>3, <2>1, <2>3, OverType DEF a
  <2> USE DEF a
  <2>6. \A k \in Key : a[k] # 0 => a[k] = t.entries[k]
    OBVIOUS
  <2> HIDE DEF a
  <2>7. \A k \in Key :
             LET e == t.entries[k] IN
             /\ stored'[k] = stored[k] \/ (e # 0 /\ stored'[k] = e)
             /\ rejected'[k] = rejected[k] \/ (e # 0 /\ rejected'[k] = e)
             /\ e # 0 => stored'[k] = e \/ rejected'[k] = e
    BY <2>4, <2>5, <2>6
  <2> USE DEF t
  <2> QED
    BY <1>1, <1>2, <2>4, <2>5, <2>7
<1> QED
  BY <1>4, <1>5

LEMMA EndsTyped ==
  ASSUME Typed, \/ FlushDone \/ FlushFails
  PROVE  Typed'
<1>1. queue # << >> /\ Advance /\ stored' \in Values /\ rejected' \in Values
  BY Lands
<1>2. /\ queue' \in Seq(Task) /\ Len(queue') = Len(queue) - 1
      /\ \A n \in 1 .. Len(queue') :
           /\ n + 1 \in 1 .. Len(queue)
           /\ n # 1 => queue'[n].entries = queue[n + 1].entries
      /\ pending' \in Values
  BY <1>1, Advanced
<1>3. Len(queue) \in Nat
  BY DEF Typed, TypeOK
<1>4. HeadPart'
  BY <1>2, <1>3 DEF HeadPart, Typed
<1>5. pc' \in [Caller -> {"idle", "writing", "written", "flushing",
                          "saved", "threw"}]
  BY DEF FlushDone, FlushFails, Typed, TypeOK
<1>6. closing' \in {"open", "closing", "closed"}
  BY DEF FlushDone, FlushFails, Typed, TypeOK, closeVars
<1>7. UNCHANGED <<immediate, waiters, timer, ask, latest, due, writes>>
  BY DEF FlushDone, FlushFails, closeVars
<1> QED
  BY <1>1, <1>2, <1>4, <1>5, <1>6, <1>7 DEF Typed, TypeOK

(* Closing keeps the running flush, if there is one, and drops the rest.    *)
LEMMA ClosedQueue ==
  ASSUME Typed, Closed
  PROVE  /\ queue' \in Seq(Task) /\ Len(queue') <= Len(queue)
         /\ Len(queue') <= 1
         /\ queue' = << >> <=> queue = << >>
         /\ \A n \in 1 .. Len(queue') : queue'[n] = queue[n]
<1>1. queue \in Seq(Task)
  BY DEF Typed, TypeOK
<1>2. CASE queue = << >>
  BY <1>1, <1>2 DEF Closed
<1>3. CASE queue # << >>
  <2>1. queue' = << queue[1] >>
    BY <1>3 DEF Closed
  <2>2. queue[1] \in Task /\ Len(queue) >= 1
    BY <1>1, <1>3
  <2> QED
    BY <1>3, <2>1, <2>2
<1> QED
  BY <1>2, <1>3

LEMMA RestTyped ==
  ASSUME Typed, \/ Closed \/ \E c \in Caller : Leave(c)
  PROVE  Typed'
<1>1. CASE Closed
  <2>1. queue' \in Seq(Task) /\ Len(queue') <= 1
    BY <1>1, ClosedQueue
  <2>2. Len(queue') \in Nat
    BY <2>1
  <2>3. HeadPart'
    BY <2>1, <2>2 DEF HeadPart
  <2> QED
    BY <1>1, <2>1, <2>3 DEF Closed, Typed, TypeOK, callVars
<1>2. ASSUME NEW c \in Caller, Leave(c)
      PROVE  Typed'
  <2>1. NoAsk \in [key : Key, val : Nat]
    BY KeyAssumption DEF NoAsk
  <2> QED
    BY <1>2, <2>1 DEF Leave, Typed, TypeOK, HeadPart, batchVars, closeVars
<1> QED
  BY <1>1, <1>2

\* Every step keeps the types.
LEMMA NextTyped == Typed /\ [Next]_vars => Typed'
<1> SUFFICES ASSUME Typed, [Next]_vars PROVE Typed'
  OBVIOUS
<1>1. CASE UNCHANGED vars
  BY <1>1 DEF vars, batchVars, callVars, closeVars, Typed, TypeOK, HeadPart
<1>2. CASE Next
  BY <1>2, WriteTyped, FlushesTyped, EndsTyped, RestTyped DEF Next
<1> QED
  BY <1>1, <1>2

(* Every variable keeps its type, whatever the number of calls, keys and    *)
(* writes, and whether flushes fail and the batcher is closed.              *)
THEOREM BatcherTypeCorrect == Spec => []TypeOK
<1>1. Typed => TypeOK
  BY DEF Typed
<1> QED
  BY <1>1, InitTyped, NextTyped, PTL DEF Spec

-----------------------------------------------------------------------------
(* The order of the values of a key                                        *)

LEMMA Lengths ==
  ASSUME Typed
  PROVE  /\ queue \in Seq(Task) /\ Len(queue) \in Nat
         /\ queue # << >> =>
              /\ 1 \in 1 .. Len(queue) /\ queue[1] \in Task
              /\ queue[1].entries \in Values
         /\ queue = << >> => Len(queue) = 0
<1>1. queue \in Seq(Task)
  BY DEF Typed, TypeOK
<1>2. queue # << >> => queue[1] \in Task /\ Len(queue) >= 1
  BY <1>1
<1> QED
  BY <1>1, <1>2 DEF Task

LEMMA ValuesAt ==
  ASSUME Typed, NEW k \in Key
  PROVE  /\ pending[k] \in Nat /\ stored[k] \in Nat /\ latest[k] \in Nat
         /\ rejected[k] \in Nat /\ due[k] \in Nat /\ writes \in Nat
         /\ queue # << >> => queue[1].entries[k] \in Nat
  BY Lengths DEF Typed, TypeOK, Values

LEMMA ValuesNext ==
  ASSUME Typed', NEW k \in Key
  PROVE  /\ pending'[k] \in Nat /\ stored'[k] \in Nat /\ latest'[k] \in Nat
         /\ rejected'[k] \in Nat /\ due'[k] \in Nat /\ writes' \in Nat
         /\ queue' # << >> => queue'[1].entries[k] \in Nat
<1>1. queue' \in Seq(Task)
  BY DEF Typed, TypeOK
<1>2. queue' # << >> => queue'[1] \in Task
  BY <1>1
<1> QED
  BY <1>1, <1>2 DEF Typed, TypeOK, Values, Task

\* The head of the queue after a flush was queued.
LEMMA QueuedHead ==
  ASSUME Typed, NEW x \in Caller \cup {"timer", "close"}, NEW p \in Values,
         FlushNow(x, p)
  PROVE  /\ queue' # << >>
         /\ queue = << >> =>
              /\ queue'[1].entries = p /\ queue'[1].waiters = waiters
              /\ queue'[1].by = x /\ pending' = Nothing
         /\ queue # << >> => queue'[1] = queue[1] /\ pending' = p
<1>1. /\ \A n \in 1 .. Len(queue) : queue'[n] = queue[n]
      /\ queue'[Len(queue) + 1].waiters = waiters
      /\ queue'[Len(queue) + 1].by = x
      /\ queue'[Len(queue) + 1].entries = IF queue = << >> THEN p ELSE Nothing
      /\ pending' = IF queue = << >> THEN Nothing ELSE p
      /\ queue' # << >>
  BY Queued
<1>2. CASE queue = << >>
  <2>1. Len(queue) + 1 = 1
    BY <1>2, Lengths
  <2> QED
    BY <1>1, <1>2, <2>1
<1>3. CASE queue # << >>
  BY <1>1, <1>3, Lengths
<1> QED
  BY <1>2, <1>3

\* A flush that takes the last values along keeps the order.
LEMMA QueuedOrder ==
  ASSUME Typed, Typed', OrderPart,
         NEW x \in Caller \cup {"timer", "close"}, NEW p \in Values,
         FlushNow(x, p), UNCHANGED <<stored, rejected>>,
         \A k \in Key : /\ p[k] \in {0, latest'[k]}
                        /\ latest[k] <= latest'[k] /\ latest'[k] <= writes'
  PROVE  OrderPart'
<1> SUFFICES ASSUME NEW k \in Key
             PROVE  /\ latest'[k] <= writes'
                    /\ stored'[k] <= latest'[k] /\ rejected'[k] <= latest'[k]
                    /\ pending'[k] \in {0, latest'[k]}
                    /\ queue' # << >> =>
                         LET e == queue'[1].entries[k] IN
                         /\ e <= latest'[k]
                         /\ e # 0 => e >= stored'[k] /\ e >= rejected'[k]
  BY DEF OrderPart
<1>1. /\ latest[k] <= writes
      /\ stored[k] <= latest[k] /\ rejected[k] <= latest[k]
      /\ queue # << >> =>
           LET e == queue[1].entries[k] IN
           /\ e <= latest[k]
           /\ e # 0 => e >= stored[k] /\ e >= rejected[k]
  BY DEF OrderPart
<1>2. Nothing[k] = 0
  BY DEF Nothing
<1>3. /\ pending'[k] \in {0, latest'[k]}
      /\ queue = << >> => queue'[1].entries[k] \in {0, latest'[k]}
      /\ queue # << >> => queue'[1].entries[k] = queue[1].entries[k]
  BY <1>2, QueuedHead
<1>4. stored'[k] <= latest'[k] /\ rejected'[k] <= latest'[k]
  BY <1>1, ValuesAt, ValuesNext
<1>5. ASSUME queue = << >>
      PROVE  LET e == queue'[1].entries[k] IN
             /\ e <= latest'[k]
             /\ e # 0 => e >= stored'[k] /\ e >= rejected'[k]
  BY <1>3, <1>4, <1>5, ValuesNext
<1>6. ASSUME queue # << >>
      PROVE  LET e == queue'[1].entries[k] IN
             /\ e <= latest'[k]
             /\ e # 0 => e >= stored'[k] /\ e >= rejected'[k]
  <2> DEFINE e == queue[1].entries[k]
  <2>1. queue'[1].entries[k] = e /\ e \in Nat
    BY <1>3, <1>6, ValuesAt
  <2>2. /\ e <= latest[k] /\ latest[k] <= latest'[k]
        /\ e # 0 => e >= stored[k] /\ e >= rejected[k]
    BY <1>1, <1>6
  <2>3. latest[k] \in Nat /\ latest'[k] \in Nat
    BY ValuesAt, ValuesNext
  <2> HIDE DEF e
  <2> QED
    BY <2>1, <2>2, <2>3
<1> QED
  BY <1>3, <1>4, <1>5, <1>6

LEMMA WriteOrder ==
  ASSUME Typed, OrderPart, NEW c \in Caller, NEW k \in Key, Write(c, k)
  PROVE  OrderPart'
<1> DEFINE p == [pending EXCEPT ![k] = writes']
<1>1. Typed'
  BY WriteTyped
<1>2. /\ writes' = writes + 1 /\ latest' = [latest EXCEPT ![k] = writes']
      /\ UNCHANGED <<stored, rejected>>
  BY DEF Write
<1>3. pending \in Values /\ latest \in Values /\ writes \in Nat
  BY DEF Typed, TypeOK
<1>4. p \in Values
  BY <1>2, <1>3 DEF Values
<1>5. ASSUME NEW j \in Key
      PROVE  /\ p[j] \in {0, latest'[j]}
             /\ latest[j] <= latest'[j] /\ latest'[j] <= writes'
  <2>1. pending[j] \in {0, latest[j]} /\ latest[j] <= writes /\ latest[j] \in Nat
    BY ValuesAt DEF OrderPart
  <2> QED
    BY <1>2, <1>3, <2>1 DEF Values
<1> HIDE DEF p
<1>6. CASE immediate
  <2>1. FlushNow(c, p)
    BY <1>6 DEF Write, p
  <2> QED
    BY <1>1, <1>2, <1>4, <1>5, <2>1, QueuedOrder
<1>7. CASE ~immediate
  <2>1. pending' = p /\ UNCHANGED queue
    BY <1>7 DEF Write, p
  <2>2. ASSUME NEW j \in Key
        PROVE  /\ stored'[j] <= latest'[j] /\ rejected'[j] <= latest'[j]
               /\ queue' # << >> =>
                    LET e == queue'[1].entries[j] IN
                    /\ e <= latest'[j]
                    /\ e # 0 => e >= stored'[j] /\ e >= rejected'[j]
    <3>1. /\ stored[j] <= latest[j] /\ rejected[j] <= latest[j]
          /\ queue # << >> =>
               LET e == queue[1].entries[j] IN
               /\ e <= latest[j]
               /\ e # 0 => e >= stored[j] /\ e >= rejected[j]
      BY DEF OrderPart
    <3>2. latest[j] <= latest'[j]
      BY <1>5
    <3> QED
      BY <1>1, <1>2, <2>1, <3>1, <3>2, ValuesAt, ValuesNext
  <2> QED
    BY <1>5, <2>1, <2>2 DEF OrderPart
<1> QED
  BY <1>6, <1>7

LEMMA FlushesOrder ==
  ASSUME Typed, OrderPart,
         \/ TimerFires \/ Close
         \/ \E c \in Caller : SaveFlush(c)
  PROVE  OrderPart'
<1>1. PICK x \in Caller \cup {"timer", "close"} : FlushNow(x, pending)
  BY DEF TimerFires, Close, SaveFlush
<1>2. UNCHANGED <<stored, rejected, latest, writes>>
  BY DEF TimerFires, Close, SaveFlush
<1>3. pending \in Values
  BY DEF Typed, TypeOK
<1>4. ASSUME NEW j \in Key
      PROVE  /\ pending[j] \in {0, latest'[j]}
             /\ latest[j] <= latest'[j] /\ latest'[j] <= writes'
  BY <1>2, ValuesAt DEF OrderPart
<1> QED
  BY <1>1, <1>2, <1>3, <1>4, FlushesTyped, QueuedOrder

(* The running flush stores no value older than what is there, and the next *)
(* one takes the last values along.                                         *)
LEMMA EndsOrder ==
  ASSUME Typed, OrderPart, \/ FlushDone \/ FlushFails
  PROVE  OrderPart'
<1>1. Typed'
  BY EndsTyped
<1>2. UNCHANGED <<latest, writes>>
  BY DEF FlushDone, FlushFails
<1>3. queue # << >> /\ Advance
  BY Lands
<1>4. IF Len(queue) = 1
      THEN queue' = << >> /\ pending' = pending
      ELSE queue'[1].entries = pending /\ pending' = Nothing
  BY <1>3, Advanced
<1>5. ASSUME NEW k \in Key
      PROVE  /\ latest'[k] <= writes'
             /\ stored'[k] <= latest'[k] /\ rejected'[k] <= latest'[k]
             /\ pending'[k] \in {0, latest'[k]}
             /\ queue' # << >> =>
                  LET e == queue'[1].entries[k] IN
                  /\ e <= latest'[k]
                  /\ e # 0 => e >= stored'[k] /\ e >= rejected'[k]
  <2> DEFINE e == queue[1].entries[k]
  <2>1. /\ latest[k] <= writes
        /\ stored[k] <= latest[k] /\ rejected[k] <= latest[k]
        /\ pending[k] \in {0, latest[k]}
        /\ e <= latest[k]
    BY <1>3 DEF OrderPart
  <2>2. /\ stored'[k] = stored[k] \/ stored'[k] = e
        /\ rejected'[k] = rejected[k] \/ rejected'[k] = e
    BY Lands
  <2>3. Nothing[k] = 0
    BY DEF Nothing
  <2> HIDE DEF e
  <2>4. /\ latest'[k] <= writes'
        /\ stored'[k] <= latest'[k] /\ rejected'[k] <= latest'[k]
    BY <1>2, <2>1, <2>2
  <2>5. /\ pending'[k] \in {0, latest'[k]}
        /\ queue' # << >> => queue'[1].entries[k] \in {0, latest'[k]}
    BY <1>2, <1>4, <2>1, <2>3
  <2> QED
    BY <1>1, <2>4, <2>5, ValuesNext
<1> QED
  BY <1>5 DEF OrderPart

LEMMA RestOrder ==
  ASSUME Typed, OrderPart, \/ Closed \/ \E c \in Caller : Leave(c)
  PROVE  OrderPart'
<1>1. CASE Closed
  <2>1. queue' # << >> => queue # << >> /\ queue'[1] = queue[1]
    <3>1. /\ queue' \in Seq(Task)
          /\ queue' = << >> <=> queue = << >>
          /\ \A n \in 1 .. Len(queue') : queue'[n] = queue[n]
      BY <1>1, ClosedQueue
    <3>2. queue' # << >> => 1 \in 1 .. Len(queue')
      BY <3>1
    <3> QED
      BY <3>1, <3>2
  <2>2. UNCHANGED <<pending, stored, latest, rejected, writes>>
    BY <1>1 DEF Closed
  <2> QED
    BY <2>1, <2>2 DEF OrderPart
<1>2. CASE \E c \in Caller : Leave(c)
  BY <1>2 DEF Leave, OrderPart, batchVars
<1> QED
  BY <1>1, <1>2

LEMMA NextOrder == Typed /\ OrderPart /\ [Next]_vars => OrderPart'
<1> SUFFICES ASSUME Typed, OrderPart, [Next]_vars PROVE OrderPart'
  OBVIOUS
<1>1. CASE UNCHANGED vars
  BY <1>1 DEF vars, batchVars, OrderPart
<1>2. CASE Next
  BY <1>2, WriteOrder, FlushesOrder, EndsOrder, RestOrder DEF Next
<1> QED
  BY <1>1, <1>2

LEMMA InitOrder == Init => OrderPart
<1> SUFFICES ASSUME Init PROVE OrderPart
  OBVIOUS
<1>1. \A k \in Key : Nothing[k] = 0
  BY DEF Nothing
<1> QED
  BY <1>1 DEF Init, OrderPart

\* A step stores no value older than what is there.
LEMMA StepsForward ==
  Typed /\ OrderPart /\ [Next]_vars => \A k \in Key : stored'[k] >= stored[k]
<1> SUFFICES ASSUME Typed, OrderPart, [Next]_vars, NEW k \in Key
             PROVE  stored'[k] >= stored[k]
  OBVIOUS
<1>1. stored[k] \in Nat
  BY ValuesAt
<1>2. CASE \/ FlushDone \/ FlushFails
  <2>1. queue # << >>
    BY <1>2, Lands
  <2>2. \/ stored'[k] = stored[k]
        \/ queue[1].entries[k] # 0 /\ stored'[k] = queue[1].entries[k]
    BY <1>2, Lands
  <2>3. queue[1].entries[k] # 0 => queue[1].entries[k] >= stored[k]
    BY <2>1 DEF OrderPart
  <2> QED
    BY <1>1, <2>2, <2>3
<1>3. CASE ~(\/ FlushDone \/ FlushFails)
  <2>1. UNCHANGED stored
    BY <1>3 DEF Next, vars, Write, TimerFires, SaveFlush, Leave, Close, Closed
  <2> QED
    BY <1>1, <2>1
<1> QED
  BY <1>2, <1>3

(* "Last write wins" (write-batcher.ts:13-15), for any number of writes and *)
(* calls, and any set of rows that a failing flush writes before it fails.  *)
THEOREM WritesNeverGoBackwards == Spec => NeverBackwards
<1>1. Typed /\ OrderPart /\ [Next]_vars =>
        [\A k \in Key : stored'[k] >= stored[k]]_vars
  BY StepsForward
<1> QED
  BY <1>1, InitTyped, InitOrder, NextTyped, NextOrder, PTL
  DEF Spec, NeverBackwards

-----------------------------------------------------------------------------
(* Who is told by which task                                               *)

LEMMA InitPlace == Init => PlacePart
<1> SUFFICES ASSUME Init PROVE PlacePart
  OBVIOUS
<1>1. waiters = {} /\ Len(queue) = 0
  BY DEF Init
<1> QED
  BY <1>1 DEF PlacePart

\* A call that waits for nothing is told by no task.
LEMMA ToldWait ==
  ASSUME Typed, PlacePart, NEW c \in Caller, pc[c] \notin {"writing", "flushing"}
  PROVE  c \notin waiters /\ \A n \in 1 .. Len(queue) : c \notin Told(queue[n])
  BY DEF PlacePart

LEMMA TaskAt ==
  ASSUME Typed, NEW n \in 1 .. Len(queue)
  PROVE  /\ queue[n].waiters \subseteq Caller
         /\ queue[n].by \in Caller \cup {"timer", "close"}
         /\ queue[n].entries \in Values
<1>1. queue \in Seq(Task)
  BY Lengths
<1>2. queue[n] \in Task
  BY <1>1
<1> QED
  BY <1>2 DEF Task

\* The new task takes along who waited, and x.
LEMMA QueuedPlace ==
  ASSUME Typed, PlacePart, NEW x \in Caller \cup {"timer", "close"},
         NEW p \in Values, FlushNow(x, p),
         \A d \in Caller : d # x => pc'[d] = pc[d],
         x \in Caller => pc'[x] \in {"writing", "flushing"},
         x # "timer" => \A n \in 1 .. Len(queue) : x \notin Told(queue[n]),
         x \notin waiters,
         closing' = closing \/ closing' = "closing",
         x = "close" => closing' = "closing"
  PROVE  PlacePart'
<1> DEFINE N == Len(queue) + 1
<1>1. /\ Len(queue') = N /\ waiters' = {}
      /\ \A n \in 1 .. Len(queue) : queue'[n] = queue[n]
      /\ queue'[N].waiters = waiters /\ queue'[N].by = x
  BY Queued
<1>2. Len(queue) \in Nat
  BY Lengths
<1>3. Told(queue'[N]) = waiters \cup {x}
  BY <1>1 DEF Told
<1>4. \A n \in 1 .. Len(queue') : n # N => n \in 1 .. Len(queue)
  BY <1>1, <1>2
<1> HIDE DEF N
<1>5. ASSUME NEW n \in 1 .. Len(queue')
      PROVE  /\ Told(queue'[n]) \cap waiters' = {}
             /\ \A c \in Told(queue'[n]) \cap Caller :
                  pc'[c] \in {"writing", "flushing"}
             /\ queue'[n].by = "close" => closing' = "closing"
  <2>1. CASE n = N
    <3>1. \A c \in Told(queue'[n]) \cap Caller : pc'[c] \in {"writing", "flushing"}
      BY <1>3, <2>1 DEF PlacePart
    <3> QED
      BY <1>1, <2>1, <3>1
  <2>2. CASE n # N
    <3>1. n \in 1 .. Len(queue) /\ queue'[n] = queue[n]
      BY <1>1, <1>4, <2>2
    <3>2. \A c \in Told(queue[n]) \cap Caller : pc'[c] \in {"writing", "flushing"}
      <4>1. \A c \in Told(queue[n]) \cap Caller :
              pc[c] \in {"writing", "flushing"}
        BY <3>1 DEF PlacePart
      <4>2. \A c \in Told(queue[n]) \cap Caller : c # x
        BY <3>1, CallerAssumption
      <4> QED
        BY <4>1, <4>2
    <3>3. queue[n].by = "close" => closing' = "closing"
      BY <3>1 DEF PlacePart
    <3> QED
      BY <1>1, <3>1, <3>2, <3>3
  <2> QED
    BY <2>1, <2>2
<1>6. ASSUME NEW n \in 1 .. Len(queue'), NEW m \in 1 .. Len(queue'), n # m
      PROVE  Told(queue'[n]) \cap Told(queue'[m]) \subseteq {"timer"}
  <2>1. ASSUME NEW i \in 1 .. Len(queue)
        PROVE  Told(queue[i]) \cap (waiters \cup {x}) \subseteq {"timer"}
    BY <2>1 DEF PlacePart
  <2>2. CASE n = N
    BY <1>1, <1>3, <1>4, <1>6, <2>1, <2>2
  <2>3. CASE m = N
    BY <1>1, <1>3, <1>4, <1>6, <2>1, <2>3
  <2>4. CASE n # N /\ m # N
    BY <1>1, <1>4, <1>6, <2>4 DEF PlacePart
  <2> QED
    BY <2>2, <2>3, <2>4
<1> QED
  BY <1>1, <1>5, <1>6 DEF PlacePart

LEMMA WritePlace ==
  ASSUME Typed, PlacePart, NEW c \in Caller, NEW k \in Key, Write(c, k)
  PROVE  PlacePart'
<1> DEFINE p == [pending EXCEPT ![k] = writes']
<1>1. /\ c \notin waiters /\ \A n \in 1 .. Len(queue) : c \notin Told(queue[n])
  BY ToldWait DEF Write
<1>2. /\ pc' = [pc EXCEPT ![c] = "writing"] /\ closing' = closing
      /\ writes' = writes + 1
  BY DEF Write, closeVars
<1>3. /\ pc \in [Caller -> {"idle", "writing", "written", "flushing",
                            "saved", "threw"}]
      /\ p \in Values
  BY <1>2 DEF Typed, TypeOK, Values
<1>4. \A d \in Caller : d # c => pc'[d] = pc[d]
  BY <1>2, <1>3
<1>5. pc'[c] = "writing"
  BY <1>2, <1>3
<1> HIDE DEF p
<1>6. CASE immediate
  <2>1. FlushNow(c, p)
    BY <1>6 DEF Write, p
  <2>2. c # "close" /\ c # "timer"
    BY CallerAssumption
  <2> QED
    BY <1>1, <1>2, <1>3, <1>4, <1>5, <2>1, <2>2, QueuedPlace
<1>7. CASE ~immediate
  <2>1. waiters' = waiters \cup {c} /\ UNCHANGED queue
    BY <1>7 DEF Write
  <2>2. \A d \in waiters' : pc'[d] = "writing"
    BY <1>4, <1>5, <2>1 DEF PlacePart, Typed, TypeOK
  <2>3. ASSUME NEW n \in 1 .. Len(queue')
        PROVE  /\ Told(queue'[n]) \cap waiters' = {}
               /\ \A d \in Told(queue'[n]) \cap Caller :
                    pc'[d] \in {"writing", "flushing"}
               /\ queue'[n].by = "close" => closing' = "closing"
               /\ \A m \in 1 .. Len(queue') :
                    n # m => Told(queue'[n]) \cap Told(queue'[m]) \subseteq {"timer"}
    <3>1. n \in 1 .. Len(queue) /\ queue'[n] = queue[n]
      BY <2>1
    <3>2. Told(queue'[n]) \cap waiters' = {}
      BY <1>1, <2>1, <3>1 DEF PlacePart
    <3>3. \A d \in Told(queue'[n]) \cap Caller : pc'[d] \in {"writing", "flushing"}
      BY <1>4, <1>5, <3>1 DEF PlacePart
    <3> QED
      BY <1>2, <2>1, <3>1, <3>2, <3>3 DEF PlacePart
  <2> QED
    BY <2>2, <2>3 DEF PlacePart
<1> QED
  BY <1>6, <1>7

LEMMA FlushesPlace ==
  ASSUME Typed, PlacePart,
         \/ TimerFires \/ Close
         \/ \E c \in Caller : SaveFlush(c)
  PROVE  PlacePart'
<1>1. pending \in Values /\ waiters \subseteq Caller
  BY DEF Typed, TypeOK
<1>2. CASE TimerFires
  <2>1. FlushNow("timer", pending) /\ pc' = pc /\ closing' = closing
    BY <1>2 DEF TimerFires, callVars, closeVars
  <2>2. "timer" \notin Caller
    BY CallerAssumption
  <2> QED
    BY <1>1, <2>1, <2>2, QueuedPlace
<1>3. CASE Close
  <2>1. /\ FlushNow("close", pending) /\ pc' = pc
        /\ closing = "open" /\ closing' = "closing"
    BY <1>3 DEF Close, callVars
  <2>2. "close" \notin Caller
    BY CallerAssumption
  <2>3. \A n \in 1 .. Len(queue) : "close" \notin Told(queue[n])
    BY <2>1, <2>2, TaskAt DEF PlacePart, Told
  <2> QED
    BY <1>1, <2>1, <2>2, <2>3, QueuedPlace
<1>4. ASSUME NEW c \in Caller, SaveFlush(c)
      PROVE  PlacePart'
  <2>1. /\ FlushNow(c, pending) /\ pc' = [pc EXCEPT ![c] = "flushing"]
        /\ pc[c] = "written" /\ closing' = closing
    BY <1>4 DEF SaveFlush, closeVars
  <2>2. c \notin waiters /\ \A n \in 1 .. Len(queue) : c \notin Told(queue[n])
    BY <2>1, ToldWait
  <2>3. pc'[c] = "flushing" /\ \A d \in Caller : d # c => pc'[d] = pc[d]
    BY <2>1 DEF Typed, TypeOK
  <2>4. c # "close" /\ c # "timer"
    BY CallerAssumption
  <2> QED
    BY <1>1, <2>1, <2>2, <2>3, <2>4, QueuedPlace
<1> QED
  BY <1>2, <1>3, <1>4

\* The end of a task changes nothing for those that it does not tell.
LEMMA EndsTell ==
  ASSUME Typed, \/ FlushDone \/ FlushFails
  PROVE  /\ \A c \in Caller : c \notin Told(queue[1]) => pc'[c] = pc[c]
         /\ queue[1].by # "close" => closing' = closing
<1>1. CASE FlushDone
  BY <1>1 DEF FlushDone, Told, closeVars
<1>2. CASE FlushFails
  BY <1>2 DEF FlushFails, Told
<1> QED
  BY <1>1, <1>2

LEMMA EndsPlace ==
  ASSUME Typed, PlacePart, \/ FlushDone \/ FlushFails
  PROVE  PlacePart'
<1>1. queue # << >> /\ Advance /\ 1 \in 1 .. Len(queue)
  BY Lands, Lengths
<1>2. \A n \in 1 .. Len(queue') :
        /\ n + 1 \in 1 .. Len(queue) /\ n + 1 # 1
        /\ queue'[n].waiters = queue[n + 1].waiters
        /\ queue'[n].by = queue[n + 1].by
  BY <1>1, Advanced
<1>3. \A n \in 1 .. Len(queue') : Told(queue'[n]) = Told(queue[n + 1])
  BY <1>2 DEF Told
<1>4. \A n \in 2 .. Len(queue) :
        Told(queue[1]) \cap Told(queue[n]) \subseteq {"timer"}
  BY <1>1 DEF PlacePart
<1>5. UNCHANGED waiters
  BY DEF FlushDone, FlushFails
<1>6. \A c \in waiters' : pc'[c] = "writing"
  BY <1>1, <1>5, EndsTell DEF PlacePart, Typed, TypeOK
<1>7. ASSUME NEW n \in 1 .. Len(queue')
      PROVE  /\ Told(queue'[n]) \cap waiters' = {}
             /\ \A c \in Told(queue'[n]) \cap Caller :
                  pc'[c] \in {"writing", "flushing"}
             /\ queue'[n].by = "close" => closing' = "closing"
             /\ \A m \in 1 .. Len(queue') :
                  n # m => Told(queue'[n]) \cap Told(queue'[m]) \subseteq {"timer"}
  <2> DEFINE i == n + 1
  <2>1. /\ i \in 1 .. Len(queue) /\ i # 1 /\ Told(queue'[n]) = Told(queue[i])
        /\ queue'[n].by = queue[i].by
    BY <1>2, <1>3
  <2>2. Told(queue[1]) \cap Told(queue[i]) \subseteq {"timer"}
    BY <1>1, <2>1 DEF PlacePart
  <2>3. \A c \in Told(queue[i]) \cap Caller : pc'[c] \in {"writing", "flushing"}
    <3>1. \A c \in Told(queue[i]) \cap Caller : c \notin Told(queue[1])
      BY <2>2, CallerAssumption
    <3> QED
      BY <2>1, <3>1, EndsTell DEF PlacePart
  <2>4. queue[i].by = "close" => closing' = "closing"
    <3>1. queue[i].by = "close" => queue[1].by # "close"
      BY <2>2 DEF Told
    <3> QED
      BY <2>1, <3>1, EndsTell DEF PlacePart
  <2>5. ASSUME NEW m \in 1 .. Len(queue'), n # m
        PROVE  Told(queue'[n]) \cap Told(queue'[m]) \subseteq {"timer"}
    <3>1. m + 1 \in 1 .. Len(queue) /\ m + 1 # i
      BY <1>2, <2>5
    <3> QED
      BY <1>3, <2>1, <3>1 DEF PlacePart
  <2>6. Told(queue[i]) \cap waiters = {}
    BY <2>1 DEF PlacePart
  <2> HIDE DEF i
  <2> QED
    BY <1>5, <2>1, <2>3, <2>4, <2>5, <2>6
<1> QED
  BY <1>6, <1>7 DEF PlacePart

LEMMA RestPlace ==
  ASSUME Typed, PlacePart, \/ Closed \/ \E c \in Caller : Leave(c)
  PROVE  PlacePart'
<1>1. CASE Closed
  <2>1. /\ \A n \in 1 .. Len(queue') : n \in 1 .. Len(queue)
        /\ \A n \in 1 .. Len(queue') : queue'[n] = queue[n]
    BY <1>1, ClosedQueue, Lengths
  <2>2. /\ UNCHANGED <<waiters, pc>>
        /\ \A n \in 1 .. Len(queue) : queue[n].by # "close"
    BY <1>1 DEF Closed, callVars
  <2> QED
    BY <2>1, <2>2 DEF PlacePart
<1>2. ASSUME NEW c \in Caller, Leave(c)
      PROVE  PlacePart'
  <2>1. /\ UNCHANGED <<queue, waiters, closing>>
        /\ pc[c] \in {"saved", "threw"} /\ pc' = [pc EXCEPT ![c] = "idle"]
    BY <1>2 DEF Leave, batchVars, closeVars
  <2>2. c \notin waiters /\ \A n \in 1 .. Len(queue) : c \notin Told(queue[n])
    BY <2>1, ToldWait
  <2>3. \A d \in Caller : d # c => pc'[d] = pc[d]
    BY <2>1 DEF Typed, TypeOK
  <2>4. waiters \subseteq Caller
    BY DEF Typed, TypeOK
  <2> QED
    BY <2>1, <2>2, <2>3, <2>4 DEF PlacePart
<1> QED
  BY <1>1, <1>2

LEMMA NextPlace == Typed /\ PlacePart /\ [Next]_vars => PlacePart'
<1> SUFFICES ASSUME Typed, PlacePart, [Next]_vars PROVE PlacePart'
  OBVIOUS
<1>1. CASE UNCHANGED vars
  BY <1>1 DEF vars, batchVars, callVars, closeVars, PlacePart
<1>2. CASE Next
  BY <1>2, WritePlace, FlushesPlace, EndsPlace, RestPlace DEF Next
<1> QED
  BY <1>1, <1>2

-----------------------------------------------------------------------------
(* How far a value has come                                                *)

\* A flush that is queued keeps a value where it is, or takes it along.
LEMMA QueuedKeeps ==
  ASSUME Typed, Typed', NEW x \in Caller \cup {"timer", "close"},
         NEW p \in Values, FlushNow(x, p), UNCHANGED <<stored, rejected>>,
         NEW k \in Key, NEW v \in Nat, p[k] >= pending[k]
  PROVE  /\ Safe(k, v) => Safe(k, v)'
         /\ InFlight(k, v) => InFlight(k, v)'
         /\ Kept(k, v) => Kept(k, v)'
         /\ queue = << >> => (Kept(k, v) => InFlight(k, v)')
         /\ p[k] >= v => Kept(k, v)'
<1>1. Safe(k, v) <=> Safe(k, v)'
  BY DEF Safe
<1>2. pending[k] \in Nat /\ p[k] \in Nat
  BY ValuesAt DEF Values
<1>3. pending[k] >= v => p[k] >= v
  BY <1>2
<1>4. CASE queue = << >>
  <2>1. queue' # << >> /\ queue'[1].entries = p
    BY <1>4, QueuedHead
  <2>2. InFlight(k, v) => Safe(k, v)
    BY <1>4 DEF InFlight
  <2>3. p[k] >= v => InFlight(k, v)'
    BY <2>1 DEF InFlight
  <2>4. InFlight(k, v)' => Kept(k, v)'
    BY DEF Kept
  <2>5. Safe(k, v)' => InFlight(k, v)'
    BY DEF InFlight
  <2>6. Kept(k, v) => InFlight(k, v) \/ p[k] >= v
    BY <1>3 DEF Kept
  <2> QED
    BY <1>1, <2>2, <2>3, <2>4, <2>5, <2>6
<1>5. CASE queue # << >>
  <2>1. queue' # << >> /\ queue'[1] = queue[1] /\ pending' = p
    BY <1>5, QueuedHead
  <2>2. InFlight(k, v) => InFlight(k, v)'
    BY <1>1, <1>5, <2>1 DEF InFlight
  <2>3. p[k] >= v => Kept(k, v)'
    BY <2>1 DEF Kept
  <2>4. InFlight(k, v)' => Kept(k, v)'
    BY DEF Kept
  <2>5. Kept(k, v) => InFlight(k, v) \/ p[k] >= v
    BY <1>3 DEF Kept
  <2> QED
    BY <1>1, <1>5, <2>2, <2>3, <2>4, <2>5
<1> QED
  BY <1>4, <1>5

(* The end of a flush lands its values, and what is pending goes into the   *)
(* next one, if there is one.                                               *)
LEMMA EndsKeep ==
  ASSUME Typed, Typed', OrderPart, \/ FlushDone \/ FlushFails,
         NEW k \in Key, NEW v \in Nat
  PROVE  /\ InFlight(k, v) => Safe(k, v)'
         /\ Safe(k, v) => Safe(k, v)'
         /\ Kept(k, v) => Kept(k, v)'
         /\ queue' # << >> => (Kept(k, v) => InFlight(k, v)')
<1> DEFINE e == queue[1].entries[k]
<1>1. queue # << >> /\ Advance
  BY Lands
<1>2. /\ stored[k] \in Nat /\ rejected[k] \in Nat /\ e \in Nat
      /\ stored'[k] \in Nat /\ rejected'[k] \in Nat
  BY <1>1, ValuesAt, ValuesNext
<1>3. e # 0 => e >= stored[k] /\ e >= rejected[k]
  BY <1>1 DEF OrderPart
<1>4. /\ stored'[k] = stored[k] \/ (e # 0 /\ stored'[k] = e)
      /\ rejected'[k] = rejected[k] \/ (e # 0 /\ rejected'[k] = e)
      /\ e # 0 => stored'[k] = e \/ rejected'[k] = e
  BY Lands
<1> HIDE DEF e
<1>5. Safe(k, v) => Safe(k, v)'
  BY <1>2, <1>3, <1>4 DEF Safe
<1>6. e >= v => Safe(k, v)'
  BY <1>2, <1>3, <1>4 DEF Safe
<1>7. InFlight(k, v) => Safe(k, v) \/ e >= v
  BY DEF InFlight, e
<1>8. InFlight(k, v) => Safe(k, v)'
  BY <1>5, <1>6, <1>7
<1>9. Safe(k, v)' => InFlight(k, v)' /\ Kept(k, v)'
  BY DEF InFlight, Kept
<1>10. IF queue' = << >> THEN pending' = pending
       ELSE queue'[1].entries = pending
  <2>1. Len(queue') = Len(queue) - 1
    BY <1>1, Advanced
  <2>2. IF Len(queue) = 1
        THEN queue' = << >> /\ pending' = pending
        ELSE queue'[1].entries = pending
    BY <1>1, Advanced
  <2>3. queue' = << >> => Len(queue') = 0
    OBVIOUS
  <2> QED
    BY <2>1, <2>2, <2>3, Lengths
<1>11. pending[k] >= v => IF queue' = << >> THEN pending'[k] >= v
                          ELSE InFlight(k, v)'
  BY <1>10 DEF InFlight
<1>12. Kept(k, v) => InFlight(k, v) \/ pending[k] >= v
  BY DEF Kept
<1>13. InFlight(k, v)' \/ pending'[k] >= v => Kept(k, v)'
  BY DEF Kept
<1> QED
  BY <1>5, <1>8, <1>9, <1>11, <1>12, <1>13

\* Leaving and closing keep a value where it is.
LEMMA RestKeeps ==
  ASSUME Typed, \/ Closed \/ \E c \in Caller : Leave(c),
         NEW k \in Key, NEW v \in Nat
  PROVE  /\ Safe(k, v) => Safe(k, v)'
         /\ InFlight(k, v) => InFlight(k, v)'
         /\ Kept(k, v) => Kept(k, v)'
<1>1. UNCHANGED <<stored, rejected, pending>>
  BY DEF Closed, Leave, batchVars
<1>2. queue # << >> => queue' # << >> /\ queue'[1] = queue[1]
  <2>1. CASE Closed
    <3>1. /\ queue' \in Seq(Task)
          /\ queue' = << >> <=> queue = << >>
          /\ \A n \in 1 .. Len(queue') : queue'[n] = queue[n]
      BY <2>1, ClosedQueue
    <3>2. queue' # << >> => 1 \in 1 .. Len(queue')
      BY <3>1
    <3> QED
      BY <3>1, <3>2
  <2>2. CASE \E c \in Caller : Leave(c)
    BY <2>2 DEF Leave, batchVars
  <2> QED
    BY <2>1, <2>2
<1> QED
  BY <1>1, <1>2 DEF Safe, InFlight, Kept

\* A write that waits for the timer puts its value in the map.
LEMMA WaitingKeeps ==
  ASSUME Typed, Typed', OrderPart, NEW c \in Caller, NEW j \in Key,
         Write(c, j), ~immediate, NEW k \in Key, NEW v \in Nat
  PROVE  /\ Safe(k, v) => Safe(k, v)'
         /\ InFlight(k, v) => InFlight(k, v)'
         /\ Kept(k, v) => Kept(k, v)'
         /\ pending'[k] >= v => Kept(k, v)'
<1>1. /\ UNCHANGED <<stored, rejected, queue>> /\ writes' = writes + 1
      /\ pending' = [pending EXCEPT ![j] = writes']
  BY DEF Write
<1>2. /\ pending[k] \in Nat /\ writes \in Nat /\ latest[k] \in Nat
      /\ pending[k] \in {0, latest[k]} /\ latest[k] <= writes
  BY ValuesAt DEF OrderPart
<1>3. pending' [k] = IF k = j THEN writes' ELSE pending[k]
  BY <1>1 DEF Typed, TypeOK, Values
<1>4. pending[k] >= v => pending'[k] >= v
  BY <1>1, <1>2, <1>3
<1>5. Safe(k, v) <=> Safe(k, v)'
  BY <1>1 DEF Safe
<1>6. InFlight(k, v) <=> InFlight(k, v)'
  BY <1>1, <1>5 DEF InFlight
<1> QED
  BY <1>4, <1>5, <1>6 DEF Kept

-----------------------------------------------------------------------------
(* Calls are acknowledged by a flush that had their value                  *)

\* AckPart for one call.
AckOf(c) ==
  \A k \in Key, v \in Nat :
    ask[c].key = k /\ ask[c].val = v =>
      /\ pc[c] = "writing" => Kept(k, v)
      /\ Acked(c) => Safe(k, v)
      /\ queue # << >> /\ c \in Told(queue[1]) => InFlight(k, v)

LEMMA AckAsOne ==
  Typed => (AckPart <=> \A c \in Caller : AckOf(c))
<1> SUFFICES ASSUME Typed
             PROVE  AckPart <=> \A c \in Caller : AckOf(c)
  OBVIOUS
<1>1. \A c \in Caller : ask[c].key \in Key /\ ask[c].val \in Nat
  BY DEF Typed, TypeOK
<1> QED
  BY <1>1 DEF AckPart, AckOf

LEMMA AckAsOneNext ==
  Typed' => (AckPart' <=> \A c \in Caller : AckOf(c)')
<1> SUFFICES ASSUME Typed'
             PROVE  AckPart' <=> \A c \in Caller : AckOf(c)'
  OBVIOUS
<1>1. \A c \in Caller : ask'[c].key \in Key /\ ask'[c].val \in Nat
  BY DEF Typed, TypeOK
<1> QED
  BY <1>1 DEF AckPart, AckOf

\* A call that a queued flush takes along has its value in the map at least.
LEMMA QueuedAck ==
  ASSUME Typed, Typed', PlacePart, NEW x \in Caller \cup {"timer", "close"},
         NEW p \in Values, FlushNow(x, p), UNCHANGED <<stored, rejected>>,
         \A k \in Key : p[k] >= pending[k],
         NEW d \in Caller, AckOf(d), ask'[d] = ask[d],
         IF d = x THEN pc[d] = "written" /\ pc'[d] = "flushing"
                  ELSE pc'[d] = pc[d]
  PROVE  AckOf(d)'
<1> SUFFICES ASSUME NEW k \in Key, NEW v \in Nat,
                    ask'[d].key = k, ask'[d].val = v
             PROVE  /\ pc'[d] = "writing" => Kept(k, v)'
                    /\ Acked(d)' => Safe(k, v)'
                    /\ queue' # << >> /\ d \in Told(queue'[1]) => InFlight(k, v)'
  BY DEF AckOf
<1>1. /\ pc[d] = "writing" => Kept(k, v)
      /\ Acked(d) => Safe(k, v)
      /\ queue # << >> /\ d \in Told(queue[1]) => InFlight(k, v)
  BY DEF AckOf
<1>2. /\ Safe(k, v) => Safe(k, v)'
      /\ InFlight(k, v) => InFlight(k, v)'
      /\ Kept(k, v) => Kept(k, v)'
      /\ queue = << >> => (Kept(k, v) => InFlight(k, v)')
  BY QueuedKeeps
<1>3. pc'[d] = "writing" => Kept(k, v)'
  BY <1>1, <1>2
<1>4. Acked(d)' => Acked(d)
  BY DEF Acked
<1>5. queue # << >> => queue'[1] = queue[1]
  BY QueuedHead
<1>6. ASSUME queue = << >>, d \in Told(queue'[1])
      PROVE  InFlight(k, v)'
  <2>1. Told(queue'[1]) = waiters \cup {x}
    BY <1>6, QueuedHead DEF Told
  <2>2. CASE d \in waiters
    BY <1>1, <1>2, <1>6, <2>2 DEF PlacePart
  <2>3. CASE d = x
    <3>1. Safe(k, v)
      BY <1>1, <2>3 DEF Acked
    <3>2. Safe(k, v) => Kept(k, v)
      BY DEF Kept, InFlight
    <3> QED
      BY <1>2, <1>6, <3>1, <3>2
  <2> QED
    BY <1>6, <2>1, <2>2, <2>3
<1> QED
  BY <1>1, <1>2, <1>3, <1>4, <1>5, <1>6

\* The call that writes waits, and its value is in the map or in its flush.
LEMMA WriteAckOwn ==
  ASSUME Typed, Typed', OrderPart, PlacePart,
         NEW c \in Caller, NEW j \in Key, Write(c, j)
  PROVE  AckOf(c)'
<1> DEFINE p == [pending EXCEPT ![j] = writes']
           v == writes'
<1>1. /\ ask' = [ask EXCEPT ![c] = [key |-> j, val |-> writes']]
      /\ pc' = [pc EXCEPT ![c] = "writing"]
      /\ UNCHANGED <<stored, rejected>> /\ writes' = writes + 1
  BY DEF Write
<1>2. ask'[c].key = j /\ ask'[c].val = writes' /\ pc'[c] = "writing"
  BY <1>1 DEF Typed, TypeOK
<1>3. /\ pending \in Values /\ writes' \in Nat /\ pending[j] <= writes'
      /\ pending[j] \in Nat
  <2>1. pending[j] \in {0, latest[j]} /\ latest[j] <= writes
    BY DEF OrderPart
  <2>2. pending \in Values
    BY DEF Typed, TypeOK
  <2> QED
    BY <1>1, <2>1, <2>2, ValuesAt, ValuesNext
<1>4. p \in Values /\ p[j] = writes' /\ p[j] >= pending[j]
  BY <1>3 DEF Values
<1>5. /\ c \notin waiters /\ \A n \in 1 .. Len(queue) : c \notin Told(queue[n])
  BY ToldWait DEF Write
<1> HIDE DEF p
<1>6. CASE immediate
  <2>1. FlushNow(c, p)
    BY <1>6 DEF Write, p
  <2>2. \A w \in Nat : p[j] >= w => Kept(j, w)'
    BY <1>1, <1>4, <2>1, QueuedKeeps
  <2>3. writes' >= writes'
    BY <1>3
  <2>4. CASE queue = << >>
    <3>1. queue' # << >> /\ queue'[1].entries = p
      BY <2>1, <2>4, <1>4, QueuedHead
    <3>2. \A w \in Nat : p[j] >= w => InFlight(j, w)'
      BY <3>1 DEF InFlight
    <3> QED
      BY <1>2, <1>3, <1>4, <2>2, <3>2 DEF AckOf, Acked
  <2>5. CASE queue # << >>
    <3>1. queue'[1] = queue[1]
      BY <1>4, <2>1, <2>5, QueuedHead
    <3>2. c \notin Told(queue'[1])
      BY <1>5, <2>5, <3>1, Lengths
    <3> QED
      BY <1>2, <1>3, <1>4, <2>2, <2>3, <3>2 DEF AckOf, Acked
  <2> QED
    BY <2>4, <2>5
<1>7. CASE ~immediate
  <2>1. UNCHANGED queue /\ pending' = p
    BY <1>7 DEF Write, p
  <2>2. c \notin Told(queue[1]) \/ queue = << >>
    BY <1>5, Lengths
  <2>3. \A w \in Nat : p[j] >= w => Kept(j, w)'
    BY <2>1 DEF Kept
  <2> QED
    BY <1>2, <1>3, <1>4, <2>1, <2>2, <2>3 DEF AckOf, Acked
<1> QED
  BY <1>6, <1>7

LEMMA WriteAck ==
  ASSUME Typed, OrderPart, PlacePart, AckPart,
         NEW c \in Caller, NEW j \in Key, Write(c, j)
  PROVE  AckPart'
<1> DEFINE p == [pending EXCEPT ![j] = writes']
<1>1. Typed'
  BY WriteTyped
<1>2. /\ ask' = [ask EXCEPT ![c] = [key |-> j, val |-> writes']]
      /\ pc' = [pc EXCEPT ![c] = "writing"]
      /\ UNCHANGED <<stored, rejected>> /\ writes' = writes + 1
  BY DEF Write
<1>3. \A d \in Caller : d # c => ask'[d] = ask[d] /\ pc'[d] = pc[d]
  BY <1>2 DEF Typed, TypeOK
<1>4. pending \in Values /\ writes' \in Nat
  BY <1>1 DEF Typed, TypeOK
<1>5. \A k \in Key : p[k] >= pending[k] /\ p[k] \in Nat
  <2> SUFFICES ASSUME NEW k \in Key
               PROVE  p[k] >= pending[k] /\ p[k] \in Nat
    OBVIOUS
  <2>1. pending[k] \in {0, latest[k]} /\ latest[k] <= writes /\ latest[k] \in Nat
    BY ValuesAt DEF OrderPart
  <2>2. p[k] = IF k = j THEN writes' ELSE pending[k]
    BY <1>4 DEF Values
  <2>3. writes \in Nat /\ pending[k] \in Nat
    BY ValuesAt
  <2> QED
    BY <1>2, <2>1, <2>2, <2>3
<1>6. p \in Values
  BY <1>4 DEF Values
<1> HIDE DEF p
<1>7. ASSUME NEW d \in Caller, d # c
      PROVE  AckOf(d)'
  <2>1. AckOf(d)
    BY AckAsOne
  <2>2. CASE immediate
    <3>1. FlushNow(c, p)
      BY <2>2 DEF Write, p
    <3> QED
      BY <1>1, <1>2, <1>3, <1>5, <1>6, <1>7, <2>1, <3>1, QueuedAck
  <2>3. CASE ~immediate
    <3>1. UNCHANGED queue
      BY <2>3 DEF Write
    <3>2. \A k \in Key, v \in Nat :
            /\ Safe(k, v) => Safe(k, v)'
            /\ InFlight(k, v) => InFlight(k, v)'
            /\ Kept(k, v) => Kept(k, v)'
      BY <1>1, <2>3, WaitingKeeps
    <3> QED
      BY <1>3, <1>7, <2>1, <3>1, <3>2 DEF AckOf, Acked
  <2> QED
    BY <2>2, <2>3
<1>8. AckOf(c)'
  BY <1>1, WriteAckOwn
<1> QED
  BY <1>1, <1>7, <1>8, AckAsOneNext

LEMMA FlushesAck ==
  ASSUME Typed, PlacePart, AckPart,
         \/ TimerFires \/ Close
         \/ \E c \in Caller : SaveFlush(c)
  PROVE  AckPart'
<1>1. Typed'
  BY FlushesTyped
<1>2. pending \in Values /\ \A k \in Key : pending[k] >= pending[k]
  BY ValuesAt DEF Typed, TypeOK
<1>3. UNCHANGED <<stored, rejected, ask>>
  BY DEF TimerFires, Close, SaveFlush, callVars
<1>4. PICK x \in Caller \cup {"timer", "close"} :
        /\ FlushNow(x, pending)
        /\ \A d \in Caller :
             IF d = x THEN pc[d] = "written" /\ pc'[d] = "flushing"
                      ELSE pc'[d] = pc[d]
  <2>1. CASE TimerFires \/ Close
    BY <2>1, CallerAssumption DEF TimerFires, Close, callVars
  <2>2. ASSUME NEW c \in Caller, SaveFlush(c)
        PROVE  \A d \in Caller :
                 IF d = c THEN pc[d] = "written" /\ pc'[d] = "flushing"
                          ELSE pc'[d] = pc[d]
    BY <2>2 DEF SaveFlush, Typed, TypeOK
  <2> QED
    BY <2>1, <2>2 DEF SaveFlush
<1>5. ASSUME NEW d \in Caller
      PROVE  AckOf(d)'
  <2>1. AckOf(d)
    BY AckAsOne
  <2> QED
    BY <1>1, <1>2, <1>3, <1>4, <2>1, QueuedAck
<1> QED
  BY <1>1, <1>5, AckAsOneNext

(* Whom a task tells at its end has its value stored or rejected, and whom  *)
(* the next one will tell has it in its flush.                              *)
LEMMA EndsAck ==
  ASSUME Typed, OrderPart, PlacePart, AckPart, \/ FlushDone \/ FlushFails
  PROVE  AckPart'
<1>1. Typed' /\ PlacePart'
  BY EndsTyped, EndsPlace
<1>2. queue # << >> /\ UNCHANGED ask
  BY Lands DEF FlushDone, FlushFails
<1>3. ASSUME NEW d \in Caller
      PROVE  AckOf(d)'
  <2> SUFFICES ASSUME NEW k \in Key, NEW v \in Nat,
                      ask'[d].key = k, ask'[d].val = v
               PROVE  /\ pc'[d] = "writing" => Kept(k, v)'
                      /\ Acked(d)' => Safe(k, v)'
                      /\ queue' # << >> /\ d \in Told(queue'[1]) => InFlight(k, v)'
    BY DEF AckOf
  <2>1. /\ pc[d] = "writing" => Kept(k, v)
        /\ Acked(d) => Safe(k, v)
        /\ d \in Told(queue[1]) => InFlight(k, v)
    BY <1>2, AckAsOne DEF AckOf
  <2>2. /\ InFlight(k, v) => Safe(k, v)'
        /\ Safe(k, v) => Safe(k, v)'
        /\ Kept(k, v) => Kept(k, v)'
        /\ queue' # << >> => (Kept(k, v) => InFlight(k, v)')
    BY <1>1, EndsKeep
  <2>3. Safe(k, v) => Kept(k, v)
    BY DEF Kept, InFlight
  <2>4. Safe(k, v)' => Kept(k, v)' /\ InFlight(k, v)'
    BY DEF Kept, InFlight
  <2>5. CASE d \in Told(queue[1])
    BY <2>1, <2>2, <2>4, <2>5
  <2>6. CASE d \notin Told(queue[1])
    <3>1. pc'[d] = pc[d]
      BY <2>6, EndsTell
    <3>2. Acked(d)' => Acked(d)
      BY <3>1 DEF Acked
    <3>3. queue' # << >> /\ d \in Told(queue'[1]) => Kept(k, v)
      <4>1. queue' # << >> => 1 \in 1 .. Len(queue')
        BY <1>1 DEF Typed, TypeOK
      <4>2. queue' # << >> /\ d \in Told(queue'[1]) =>
              pc'[d] \in {"writing", "flushing"}
        BY <1>1, <4>1 DEF PlacePart
      <4>3. pc[d] = "flushing" => Kept(k, v)
        BY <2>1, <2>3 DEF Acked
      <4> QED
        BY <2>1, <3>1, <4>2, <4>3
    <3> QED
      BY <2>1, <2>2, <3>1, <3>2, <3>3
  <2> QED
    BY <2>5, <2>6
<1> QED
  BY <1>1, <1>3, AckAsOneNext

LEMMA RestAck ==
  ASSUME Typed, PlacePart, AckPart, \/ Closed \/ \E c \in Caller : Leave(c)
  PROVE  AckPart'
<1>1. Typed'
  BY RestTyped
<1>2. \A k \in Key, v \in Nat :
        /\ Safe(k, v) => Safe(k, v)'
        /\ InFlight(k, v) => InFlight(k, v)'
        /\ Kept(k, v) => Kept(k, v)'
  BY RestKeeps
<1>3. CASE Closed
  <2>1. queue' # << >> => queue # << >> /\ queue'[1] = queue[1]
    <3>1. /\ queue' \in Seq(Task)
          /\ queue' = << >> <=> queue = << >>
          /\ \A n \in 1 .. Len(queue') : queue'[n] = queue[n]
      BY <1>3, ClosedQueue
    <3>2. queue' # << >> => 1 \in 1 .. Len(queue')
      BY <3>1
    <3> QED
      BY <3>1, <3>2
  <2>2. UNCHANGED <<pc, ask>>
    BY <1>3 DEF Closed, callVars
  <2>3. \A d \in Caller : AckOf(d)'
    BY <1>2, <2>1, <2>2, AckAsOne DEF AckOf, Acked
  <2> QED
    BY <1>1, <2>3, AckAsOneNext
<1>4. ASSUME NEW c \in Caller, Leave(c)
      PROVE  AckPart'
  <2>1. /\ UNCHANGED queue /\ pc[c] \in {"saved", "threw"}
        /\ pc' = [pc EXCEPT ![c] = "idle"] /\ ask' = [ask EXCEPT ![c] = NoAsk]
    BY <1>4 DEF Leave, batchVars
  <2>2. ASSUME NEW d \in Caller, d # c
        PROVE  AckOf(d)'
    <3>1. pc'[d] = pc[d] /\ ask'[d] = ask[d]
      BY <2>1, <2>2 DEF Typed, TypeOK
    <3> QED
      BY <1>2, <2>1, <3>1, AckAsOne DEF AckOf, Acked
  <2>3. AckOf(c)'
    <3>1. pc'[c] = "idle"
      BY <2>1 DEF Typed, TypeOK
    <3>2. queue # << >> => c \notin Told(queue[1])
      BY <2>1, ToldWait, Lengths
    <3> QED
      BY <2>1, <3>1, <3>2 DEF AckOf, Acked
  <2> QED
    BY <1>1, <2>2, <2>3, AckAsOneNext
<1> QED
  BY <1>3, <1>4

LEMMA NextAck ==
  Typed /\ OrderPart /\ PlacePart /\ AckPart /\ [Next]_vars => AckPart'
<1> SUFFICES ASSUME Typed, OrderPart, PlacePart, AckPart, [Next]_vars
             PROVE  AckPart'
  OBVIOUS
<1>1. CASE UNCHANGED vars
  BY <1>1 DEF vars, batchVars, callVars, closeVars, AckPart, Acked, Kept,
              InFlight, Safe
<1>2. CASE Next
  BY <1>2, WriteAck, FlushesAck, EndsAck, RestAck DEF Next
<1> QED
  BY <1>1, <1>2

LEMMA InitAck == Init => AckPart
<1> SUFFICES ASSUME Init PROVE AckPart
  OBVIOUS
<1>1. queue = << >> /\ \A c \in Caller : pc[c] = "idle"
  BY DEF Init
<1> QED
  BY <1>1 DEF AckPart, Acked

(* A write that resolved was stored, or a flush that failed took its value  *)
(* or a later one of its key (write-batcher.ts:30 promises the first), for  *)
(* any number of calls, whoever's flush it was that resolved it.            *)
THEOREM AcksUnlessRejected == Spec => []AckedUnlessRejected
<1>1. Typed /\ AckPart => AckedUnlessRejected
  BY DEF AckPart, AckedUnlessRejected, Safe
<1> QED
  BY <1>1, InitTyped, InitOrder, InitPlace, InitAck,
     NextTyped, NextOrder, NextPlace, NextAck, PTL DEF Spec

-----------------------------------------------------------------------------
(* Nothing is forgotten                                                    *)

\* NothingForgotten for one key.
Found(k) ==
  \/ latest[k] \in {stored[k], rejected[k]}
  \/ queue # << >> /\ queue[1].entries[k] = latest[k]
  \/ pending[k] = latest[k] /\ (timer \/ Len(queue) >= 2)

LEMMA ForgottenAsFound ==
  Typed => (NothingForgotten <=> (closing # "closed" => \A k \in Key : Found(k)))
  BY DEF NothingForgotten, Found, Typed, TypeOK

LEMMA ForgottenAsFoundNext ==
  Typed' => (NothingForgotten' <=> (closing' # "closed" => \A k \in Key : Found(k)'))
  BY DEF NothingForgotten, Found, Typed, TypeOK

\* A queued flush takes the last value along, or its turn is still to come.
LEMMA QueuedFinds ==
  ASSUME Typed, NEW x \in Caller \cup {"timer", "close"}, NEW p \in Values,
         FlushNow(x, p), UNCHANGED <<stored, rejected>>, NEW k \in Key,
         \/ p[k] = latest'[k]
         \/ Found(k) /\ latest'[k] = latest[k] /\ p[k] = pending[k]
  PROVE  Found(k)'
<1>1. CASE p[k] = latest'[k]
  <2>1. CASE queue = << >>
    <3>1. queue' # << >> /\ queue'[1].entries = p
      BY <2>1, QueuedHead
    <3> QED
      BY <1>1, <3>1 DEF Found
  <2>2. CASE queue # << >>
    <3>1. pending' = p /\ Len(queue') = Len(queue) + 1
      BY <2>2, Queued, QueuedHead
    <3>2. Len(queue) \in Nat /\ Len(queue) >= 1
      BY <2>2, Lengths
    <3>3. Len(queue') >= 2
      BY <3>1, <3>2
    <3> QED
      BY <1>1, <3>1, <3>3 DEF Found
  <2> QED
    BY <2>1, <2>2
<1>2. CASE /\ p[k] # latest'[k]
           /\ Found(k) /\ latest'[k] = latest[k] /\ p[k] = pending[k]
  <2>1. queue # << >> => queue' # << >> /\ queue'[1] = queue[1]
    BY QueuedHead
  <2> QED
    BY <1>2, <2>1 DEF Found
<1> QED
  BY <1>1, <1>2

\* What the end of a flush leaves of the last value.
LEMMA EndsFind ==
  ASSUME Typed, OrderPart, \/ FlushDone \/ FlushFails, NEW k \in Key, Found(k)
  PROVE  Found(k)'
<1> DEFINE e == queue[1].entries[k]
<1>1. /\ queue # << >> /\ Advance
      /\ stored'[k] = stored[k] \/ (e # 0 /\ stored'[k] = e)
      /\ rejected'[k] = rejected[k] \/ (e # 0 /\ rejected'[k] = e)
      /\ e # 0 => stored'[k] = e \/ rejected'[k] = e
  BY Lands
<1>2. /\ stored[k] <= latest[k] /\ rejected[k] <= latest[k] /\ e <= latest[k]
      /\ e # 0 => e >= stored[k] /\ e >= rejected[k]
  BY <1>1 DEF OrderPart
<1>3. /\ stored[k] \in Nat /\ rejected[k] \in Nat /\ latest[k] \in Nat
      /\ e \in Nat
  BY <1>1, ValuesAt
<1>4. UNCHANGED <<latest, timer>>
  BY DEF FlushDone, FlushFails
<1>5. CASE \/ latest[k] \in {stored[k], rejected[k]} \/ e = latest[k]
  <2> HIDE DEF e
  <2>1. latest[k] \in {stored'[k], rejected'[k]}
    BY <1>1, <1>2, <1>3, <1>5
  <2> QED
    BY <1>4, <2>1 DEF Found
<1>6. CASE pending[k] = latest[k] /\ (timer \/ Len(queue) >= 2)
  <2>1. Len(queue') = Len(queue) - 1
    BY <1>1, Advanced
  <2>2. IF Len(queue) = 1
        THEN queue' = << >> /\ pending' = pending
        ELSE queue'[1].entries = pending
    BY <1>1, Advanced
  <2>3. CASE Len(queue) = 1
    <3>1. timer
      BY <1>6, <2>3
    <3> QED
      BY <1>4, <1>6, <2>2, <2>3, <3>1 DEF Found
  <2>4. CASE Len(queue) # 1
    <3>1. queue' # << >>
      <4>1. Len(queue') # 0
        BY <2>1, <2>4
      <4> QED
        BY <4>1
    <3> QED
      BY <1>4, <1>6, <2>2, <2>4, <3>1 DEF Found
  <2> QED
    BY <2>3, <2>4
<1> QED
  BY <1>1, <1>5, <1>6 DEF Found

LEMMA WriteFinds ==
  ASSUME Typed, NothingForgotten, NEW c \in Caller, NEW j \in Key, Write(c, j)
  PROVE  NothingForgotten'
<1> DEFINE p == [pending EXCEPT ![j] = writes']
<1>1. Typed'
  BY WriteTyped
<1>2. /\ latest' = [latest EXCEPT ![j] = writes'] /\ closing' = closing
      /\ UNCHANGED <<stored, rejected>>
  BY DEF Write, closeVars
<1>3. /\ pending \in Values /\ latest \in Values /\ writes' \in Nat
  BY <1>1 DEF Typed, TypeOK
<1>4. p \in Values
  BY <1>3 DEF Values
<1>5. /\ p[j] = latest'[j]
      /\ \A k \in Key : k # j => p[k] = pending[k] /\ latest'[k] = latest[k]
  BY <1>2, <1>3 DEF Values
<1> HIDE DEF p
<1>6. ASSUME closing # "closed", NEW k \in Key
      PROVE  Found(k)'
  <2>1. Found(k)
    BY <1>6, ForgottenAsFound
  <2>2. CASE immediate
    <3>1. FlushNow(c, p)
      BY <2>2 DEF Write, p
    <3> QED
      BY <1>2, <1>4, <1>5, <2>1, <3>1, QueuedFinds
  <2>3. CASE ~immediate
    <3>1. pending' = p /\ timer' = TRUE /\ UNCHANGED queue
      BY <2>3 DEF Write, p
    <3>2. CASE k = j
      BY <1>5, <3>1, <3>2 DEF Found
    <3>3. CASE k # j
      <4>1. pending'[k] = pending[k] /\ latest'[k] = latest[k]
        BY <1>5, <3>1, <3>3
      <4>2. \/ latest'[k] \in {stored'[k], rejected'[k]}
            \/ queue' # << >> /\ queue'[1].entries[k] = latest'[k]
            \/ pending'[k] = latest'[k]
        BY <1>2, <2>1, <3>1, <4>1 DEF Found
      <4> QED
        BY <3>1, <4>2 DEF Found
    <3> QED
      BY <3>2, <3>3
  <2> QED
    BY <2>2, <2>3
<1> QED
  BY <1>1, <1>2, <1>6, ForgottenAsFoundNext

LEMMA FlushesFind ==
  ASSUME Typed, NothingForgotten,
         \/ TimerFires \/ Close
         \/ \E c \in Caller : SaveFlush(c)
  PROVE  NothingForgotten'
<1>1. Typed'
  BY FlushesTyped
<1>2. PICK x \in Caller \cup {"timer", "close"} : FlushNow(x, pending)
  BY DEF TimerFires, Close, SaveFlush
<1>3. /\ UNCHANGED <<stored, rejected, latest>>
      /\ closing' # "closed" => closing # "closed"
  BY DEF TimerFires, Close, SaveFlush, closeVars
<1>4. pending \in Values
  BY DEF Typed, TypeOK
<1>5. ASSUME closing' # "closed", NEW k \in Key
      PROVE  Found(k)'
  BY <1>2, <1>3, <1>4, <1>5, ForgottenAsFound, QueuedFinds
<1> QED
  BY <1>1, <1>5, ForgottenAsFoundNext

LEMMA EndsForget ==
  ASSUME Typed, OrderPart, PlacePart, NothingForgotten,
         \/ FlushDone \/ FlushFails
  PROVE  NothingForgotten'
<1>1. Typed'
  BY EndsTyped
<1>2. queue # << >> /\ 1 \in 1 .. Len(queue)
  BY Lands, Lengths
<1>3. closing' # "closed" => closing # "closed"
  BY <1>2, EndsTell DEF PlacePart
<1>4. ASSUME closing' # "closed", NEW k \in Key
      PROVE  Found(k)'
  BY <1>3, <1>4, ForgottenAsFound, EndsFind
<1> QED
  BY <1>1, <1>4, ForgottenAsFoundNext

LEMMA RestFinds ==
  ASSUME Typed, NothingForgotten, \/ Closed \/ \E c \in Caller : Leave(c)
  PROVE  NothingForgotten'
<1>1. CASE Closed
  BY <1>1 DEF Closed, NothingForgotten
<1>2. CASE \E c \in Caller : Leave(c)
  BY <1>2 DEF Leave, NothingForgotten, batchVars, closeVars
<1> QED
  BY <1>1, <1>2

LEMMA NextForgets ==
  Typed /\ OrderPart /\ PlacePart /\ NothingForgotten /\ [Next]_vars
    => NothingForgotten'
<1> SUFFICES ASSUME Typed, OrderPart, PlacePart, NothingForgotten, [Next]_vars
             PROVE  NothingForgotten'
  OBVIOUS
<1>1. CASE UNCHANGED vars
  BY <1>1 DEF vars, batchVars, closeVars, NothingForgotten
<1>2. CASE Next
  BY <1>2, WriteFinds, FlushesFind, EndsForget, RestFinds DEF Next
<1> QED
  BY <1>1, <1>2

LEMMA InitForgets == Init => NothingForgotten
  BY DEF Init, NothingForgotten

(* The last value written to a key is stored, is being flushed, was in a    *)
(* flush that failed, or is pending with something under way to flush it,   *)
(* until the batcher is closed (write-batcher.ts:44-92).                    *)
THEOREM BatcherForgetsNothing == Spec => []NothingForgotten
BY InitTyped, InitOrder, InitPlace, InitForgets,
   NextTyped, NextOrder, NextPlace, NextForgets, PTL DEF Spec

-----------------------------------------------------------------------------
(* Closing flushes                                                         *)

LEMMA InitClose == Init => ClosePart
  BY DEF Init, ClosePart

(* When close is called, every last value is where the flush that close     *)
(* awaits will find it, or the running one has it.                          *)
LEMMA CloseClose ==
  ASSUME Typed, PlacePart, NothingForgotten, Close
  PROVE  ClosePart'
<1>1. /\ FlushNow("close", pending) /\ closing = "open" /\ closing' = "closing"
      /\ due' = latest /\ UNCHANGED <<stored, rejected>>
  BY DEF Close
<1>2. Typed'
  BY FlushesTyped
<1>3. pending \in Values /\ \A k \in Key : pending[k] >= pending[k]
  BY ValuesAt DEF Typed, TypeOK
<1>4. ASSUME NEW k \in Key
      PROVE  Kept(k, latest[k])
  <2>1. Found(k)
    BY <1>1, ForgottenAsFound
  <2>2. latest[k] \in Nat /\ latest[k] >= latest[k]
    BY ValuesAt
  <2> QED
    BY <2>1, <2>2 DEF Found, Kept, InFlight, Safe
<1>5. \A k \in Key, v \in Nat :
        /\ Kept(k, v) => Kept(k, v)'
        /\ queue = << >> => (Kept(k, v) => InFlight(k, v)')
  BY <1>1, <1>2, <1>3, QueuedKeeps
<1>6. \A k \in Key : latest[k] \in Nat
  BY ValuesAt
<1>7. ASSUME queue # << >>
      PROVE  queue'[1].by # "close"
  <2>1. queue'[1] = queue[1]
    BY <1>1, <1>3, <1>7, QueuedHead
  <2> QED
    BY <1>1, <1>7, <2>1, Lengths DEF PlacePart
<1>8. /\ Len(queue) + 1 \in 1 .. Len(queue')
      /\ queue'[Len(queue) + 1].by = "close"
  <2>1. /\ Len(queue') = Len(queue) + 1
        /\ queue'[Len(queue) + 1].by = "close"
    BY <1>1, <1>3, Queued
  <2> QED
    BY <2>1, Lengths
<1>9. ASSUME NEW k \in Key
      PROVE  /\ Kept(k, due[k])'
             /\ queue = << >> => InFlight(k, due[k])'
  <2>1. PICK v \in Nat : v = latest[k]
    BY <1>6
  <2>2. Kept(k, v)' /\ (queue = << >> => InFlight(k, v)')
    BY <1>4, <1>5, <2>1
  <2>3. due'[k] = v
    BY <1>1, <2>1
  <2> QED
    BY <2>2, <2>3 DEF Kept, InFlight, Safe
<1> QED
  BY <1>1, <1>7, <1>8, <1>9 DEF ClosePart

\* ClosePart for a step that leaves due and does not end the wait for it.
LEMMA CloseStays ==
  ASSUME Typed, ClosePart, UNCHANGED due,
         \A k \in Key, v \in Nat :
           /\ Safe(k, v) => Safe(k, v)'
           /\ closing = "closing" /\ closing' = "closing" =>
                /\ Kept(k, v) => Kept(k, v)'
                /\ queue' # << >> /\ queue'[1].by = "close" =>
                     \/ Kept(k, v) => InFlight(k, v)'
                     \/ /\ queue # << >> /\ queue[1].by = "close"
                        /\ InFlight(k, v) => InFlight(k, v)'
                /\ (\A n \in 1 .. Len(queue') : queue'[n].by # "close") =>
                     \/ \A n \in 1 .. Len(queue) : queue[n].by # "close"
                     \/ /\ queue # << >> /\ queue[1].by = "close"
                        /\ InFlight(k, v) => Safe(k, v)',
         closing' = "closing" => closing = "closing",
         closing' = "closed" =>
           \/ closing = "closed"
           \/ /\ closing = "closing"
              /\ \A n \in 1 .. Len(queue) : queue[n].by # "close"
  PROVE  ClosePart'
<1>1. ASSUME closing' = "closing", NEW k \in Key
      PROVE  /\ Kept(k, due[k])'
             /\ queue' # << >> /\ queue'[1].by = "close" => InFlight(k, due[k])'
             /\ (\A n \in 1 .. Len(queue') : queue'[n].by # "close") =>
                  Safe(k, due[k])'
  <2>1. PICK v \in Nat : v = due[k] /\ due'[k] = v
    BY ValuesAt
  <2>2. /\ Kept(k, v)
        /\ queue # << >> /\ queue[1].by = "close" => InFlight(k, v)
        /\ (\A n \in 1 .. Len(queue) : queue[n].by # "close") => Safe(k, v)
    BY <1>1, <2>1 DEF ClosePart
  <2>3. closing = "closing"
    BY <1>1
  <2>4. Kept(k, v)'
    BY <1>1, <2>2, <2>3
  <2>5. queue' # << >> /\ queue'[1].by = "close" => InFlight(k, v)'
    BY <1>1, <2>2, <2>3
  <2>6. (\A n \in 1 .. Len(queue') : queue'[n].by # "close") => Safe(k, v)'
    BY <1>1, <2>2, <2>3
  <2> QED
    BY <2>1, <2>4, <2>5, <2>6 DEF Kept, InFlight, Safe
<1>2. ASSUME closing' = "closed", NEW k \in Key
      PROVE  Safe(k, due[k])'
  <2>1. PICK v \in Nat : v = due[k] /\ due'[k] = v
    BY ValuesAt
  <2>2. Safe(k, v)
    BY <1>2, <2>1 DEF ClosePart
  <2>3. Safe(k, v)'
    BY <2>2
  <2> QED
    BY <2>1, <2>3 DEF Safe
<1> QED
  BY <1>1, <1>2 DEF ClosePart

LEMMA QueuedClose ==
  ASSUME Typed, Typed', ClosePart, NEW x \in Caller \cup {"timer"},
         NEW p \in Values, FlushNow(x, p),
         UNCHANGED <<stored, rejected, due, closing>>,
         \A k \in Key : p[k] >= pending[k]
  PROVE  ClosePart'
<1>1. x \in Caller \cup {"timer", "close"} /\ x # "close"
  BY CallerAssumption
<1>2. ASSUME NEW k \in Key, NEW v \in Nat
      PROVE  /\ Safe(k, v) => Safe(k, v)'
             /\ InFlight(k, v) => InFlight(k, v)'
             /\ Kept(k, v) => Kept(k, v)'
  BY <1>1, QueuedKeeps
<1>3. /\ queue = << >> => queue'[1].by = x
      /\ queue # << >> => queue'[1] = queue[1]
  BY <1>1, QueuedHead
<1>4. ASSUME \A n \in 1 .. Len(queue') : queue'[n].by # "close"
      PROVE  \A n \in 1 .. Len(queue) : queue[n].by # "close"
  <2>1. /\ Len(queue') = Len(queue) + 1
        /\ \A n \in 1 .. Len(queue) : queue'[n] = queue[n]
    BY <1>1, Queued
  <2>2. \A n \in 1 .. Len(queue) : n \in 1 .. Len(queue')
    BY <2>1, Lengths
  <2> QED
    BY <1>4, <2>1, <2>2
<1> QED
  BY <1>1, <1>2, <1>3, <1>4, CloseStays

LEMMA WriteClose ==
  ASSUME Typed, OrderPart, ClosePart, NEW c \in Caller, NEW j \in Key, Write(c, j)
  PROVE  ClosePart'
<1> DEFINE p == [pending EXCEPT ![j] = writes']
<1>1. Typed'
  BY WriteTyped
<1>2. UNCHANGED <<stored, rejected, due, closing>> /\ writes' = writes + 1
  BY DEF Write, closeVars
<1>3. pending \in Values /\ writes' \in Nat
  BY <1>1 DEF Typed, TypeOK
<1>4. p \in Values
  BY <1>3 DEF Values
<1>5. \A k \in Key : p[k] >= pending[k]
  <2> SUFFICES ASSUME NEW k \in Key
               PROVE  p[k] >= pending[k]
    OBVIOUS
  <2>1. pending[k] \in {0, latest[k]} /\ latest[k] <= writes /\ latest[k] \in Nat
    BY ValuesAt DEF OrderPart
  <2>2. p[k] = IF k = j THEN writes' ELSE pending[k]
    BY <1>3 DEF Values
  <2>3. writes \in Nat /\ pending[k] \in Nat
    BY ValuesAt
  <2> QED
    BY <1>2, <2>1, <2>2, <2>3
<1> HIDE DEF p
<1>6. CASE immediate
  <2>1. FlushNow(c, p)
    BY <1>6 DEF Write, p
  <2> QED
    BY <1>1, <1>2, <1>4, <1>5, <2>1, QueuedClose
<1>7. CASE ~immediate
  <2>1. UNCHANGED queue
    BY <1>7 DEF Write
  <2>2. \A k \in Key, v \in Nat :
          /\ Safe(k, v) => Safe(k, v)'
          /\ InFlight(k, v) => InFlight(k, v)'
          /\ Kept(k, v) => Kept(k, v)'
    BY <1>1, <1>7, WaitingKeeps
  <2> QED
    BY <1>2, <2>1, <2>2, CloseStays
<1> QED
  BY <1>6, <1>7

LEMMA FlushesClose ==
  ASSUME Typed, ClosePart, \/ TimerFires \/ \E c \in Caller : SaveFlush(c)
  PROVE  ClosePart'
<1>1. Typed'
  BY FlushesTyped
<1>2. PICK x \in Caller \cup {"timer"} : FlushNow(x, pending)
  BY DEF TimerFires, SaveFlush
<1>3. UNCHANGED <<stored, rejected, due, closing>>
  BY DEF TimerFires, SaveFlush, closeVars
<1>4. pending \in Values /\ \A k \in Key : pending[k] >= pending[k]
  BY ValuesAt DEF Typed, TypeOK
<1> QED
  BY <1>1, <1>2, <1>3, <1>4, QueuedClose

(* The flush that close awaits ends with every value it was to flush        *)
(* landed.                                                                  *)
LEMMA EndsClose ==
  ASSUME Typed, OrderPart, PlacePart, ClosePart, \/ FlushDone \/ FlushFails
  PROVE  ClosePart'
<1>1. Typed'
  BY EndsTyped
<1>2. queue # << >> /\ 1 \in 1 .. Len(queue) /\ Advance /\ UNCHANGED due
  BY Lands, Lengths DEF FlushDone, FlushFails, closeVars
<1>3. \A k \in Key, v \in Nat :
        /\ InFlight(k, v) => Safe(k, v)'
        /\ Safe(k, v) => Safe(k, v)'
        /\ Kept(k, v) => Kept(k, v)'
        /\ queue' # << >> => (Kept(k, v) => InFlight(k, v)')
  BY <1>1, EndsKeep
<1>4. ASSUME \A n \in 1 .. Len(queue') : queue'[n].by # "close",
             queue[1].by # "close"
      PROVE  \A n \in 1 .. Len(queue) : queue[n].by # "close"
  <2>1. /\ Len(queue') = Len(queue) - 1
        /\ \A n \in 1 .. Len(queue') : queue'[n].by = queue[n + 1].by
    BY <1>2, Advanced
  <2> SUFFICES ASSUME NEW n \in 1 .. Len(queue)
               PROVE  queue[n].by # "close"
    OBVIOUS
  <2>2. CASE n = 1
    BY <1>4, <2>2
  <2>3. CASE n # 1
    <3>1. n - 1 \in 1 .. Len(queue') /\ (n - 1) + 1 = n
      BY <2>1, <2>3, Lengths
    <3> QED
      BY <1>4, <2>1, <3>1
  <2> QED
    BY <2>2, <2>3
<1>5. /\ queue[1].by # "close" => closing' = closing
      /\ queue[1].by = "close" => closing = "closing"
  BY <1>2, EndsTell DEF PlacePart
<1>6. closing' \in {closing, "open"}
  BY DEF FlushDone, FlushFails, closeVars
<1> QED
  BY <1>2, <1>3, <1>4, <1>5, <1>6, CloseStays

LEMMA RestClose ==
  ASSUME Typed, ClosePart, \/ Closed \/ \E c \in Caller : Leave(c)
  PROVE  ClosePart'
<1>1. \A k \in Key, v \in Nat :
        /\ Safe(k, v) => Safe(k, v)'
        /\ InFlight(k, v) => InFlight(k, v)'
        /\ Kept(k, v) => Kept(k, v)'
  BY RestKeeps
<1>2. CASE Closed
  <2>1. /\ UNCHANGED due /\ closing = "closing" /\ closing' = "closed"
        /\ \A n \in 1 .. Len(queue) : queue[n].by # "close"
    BY <1>2 DEF Closed
  <2> QED
    BY <1>1, <2>1, CloseStays
<1>3. CASE \E c \in Caller : Leave(c)
  <2>1. UNCHANGED <<queue, due, closing>>
    BY <1>3 DEF Leave, batchVars, closeVars
  <2> QED
    BY <1>1, <2>1, CloseStays
<1> QED
  BY <1>2, <1>3

LEMMA NextClose ==
  Typed /\ OrderPart /\ PlacePart /\ NothingForgotten /\ ClosePart /\ [Next]_vars
    => ClosePart'
<1> SUFFICES ASSUME Typed, OrderPart, PlacePart, NothingForgotten, ClosePart,
                    [Next]_vars
             PROVE  ClosePart'
  OBVIOUS
<1>1. CASE UNCHANGED vars
  BY <1>1 DEF vars, batchVars, closeVars, ClosePart, Kept, InFlight, Safe
<1>2. CASE Next
  BY <1>2, WriteClose, FlushesClose, CloseClose, EndsClose, RestClose DEF Next
<1> QED
  BY <1>1, <1>2

(* Once close() has returned, all that was written before it was called is  *)
(* in the database, but for what an earlier flush had failed to write       *)
(* (factory.ts:37), whatever was queued when it was called and whatever was *)
(* written meanwhile.                                                       *)
THEOREM ClosingFlushes == Spec => []CloseFlushes
<1>1. ClosePart => CloseFlushes
  BY DEF ClosePart, CloseFlushes, Safe
<1> QED
  BY <1>1, InitTyped, InitOrder, InitPlace, InitForgets, InitClose,
     NextTyped, NextOrder, NextPlace, NextForgets, NextClose, PTL DEF Spec
=============================================================================
