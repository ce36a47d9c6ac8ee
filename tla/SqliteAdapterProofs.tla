-------------------------- MODULE SqliteAdapterProofs --------------------------
(* SqliteAdapter for any number of callers, calls and retries and any faults: *)
(* whose answer a call is told, how often it is executed, and in what order.  *)
EXTENDS SqliteAdapter, SequenceTheorems, TLAPS

-----------------------------------------------------------------------------
(* Types *)

\* Ids are given in order: whoever waits, waits under an id that was given.
Typed == TypeOK /\ \A i \in DOMAIN pending : i < nextId

\* What is posted for the callers of C, one request each, with ids from n on.
Posted(C, n) == [j \in DOMAIN C |-> [id |-> n + j - 1, op |-> op'[C[j]],
                                     first |-> attempt[C[j]] = 0]]

LEMMA PostedTyped ==
  ASSUME TypeOK, op' \in [Caller -> Op], NEW C \in Seq(Caller)
  PROVE  /\ Posted(C, nextId) \in Seq(Request)
         /\ Len(Posted(C, nextId)) = Len(C)
         /\ DOMAIN C = 1 .. Len(C)
PROOF
  <1>1. DOMAIN C = 1 .. Len(C) /\ Len(C) \in Nat /\ C \in [1 .. Len(C) -> Caller]
    BY LenProperties
  <1>2. \A j \in 1 .. Len(C) :
          [id |-> nextId + j - 1, op |-> op'[C[j]],
           first |-> attempt[C[j]] = 0] \in Request
    BY <1>1 DEF TypeOK, Request, Id
  <1>3. Posted(C, nextId) \in [1 .. Len(C) -> Request]
    BY <1>1, <1>2 DEF Posted
  <1>4. Posted(C, nextId) \in Seq(Request)
    BY <1>1, <1>3, SeqDef
  <1>. QED
    BY <1>1, <1>3, <1>4, LenProperties

\* A post adds a waiter for each caller, and its request unless it is lost.
LEMMA PostTyped ==
  ASSUME Typed, op' \in [Caller -> Op], NEW C \in Seq(Caller), Post(C)
  PROVE  /\ nextId' \in Id /\ nextId' = nextId + Len(C)
         /\ DOMAIN pending' = DOMAIN pending \cup nextId .. nextId' - 1
         /\ DOMAIN pending' \subseteq Id
         /\ pending' \in [DOMAIN pending' -> Caller]
         /\ \A i \in DOMAIN pending' : i < nextId'
         /\ inbox' \in Seq(Request)
PROOF
  <1>. USE DEF Typed
  <1>1. Len(C) \in Nat /\ DOMAIN C = 1 .. Len(C) /\ C \in [1 .. Len(C) -> Caller]
    BY LenProperties
  <1>2. nextId' = nextId + Len(C) /\ nextId' \in Id
    BY <1>1 DEF Post, TypeOK, Id
  <1>3. /\ DOMAIN pending' = DOMAIN pending \cup nextId .. nextId' - 1
        /\ DOMAIN pending' \subseteq Id
        /\ \A i \in DOMAIN pending' : i < nextId'
    BY <1>1, <1>2 DEF Post, TypeOK, Id
  <1>4. \A i \in DOMAIN pending' : pending'[i] \in Caller
    <2>1. ASSUME NEW i \in DOMAIN pending', i >= nextId
          PROVE  pending'[i] \in Caller
      <3>1. i - nextId + 1 \in 1 .. Len(C)
        BY <1>2, <1>3, <2>1 DEF TypeOK, Id
      <3>. QED
        BY <1>1, <2>1, <3>1 DEF Post
    <2>2. ASSUME NEW i \in DOMAIN pending', ~ (i >= nextId)
          PROVE  pending'[i] \in Caller
      BY <1>2, <1>3, <2>2 DEF Post, TypeOK, Id
    <2>. QED
      BY <2>1, <2>2
  <1>5. pending' \in [DOMAIN pending' -> Caller]
    BY <1>4 DEF Post
  <1>6. inbox' \in Seq(Request)
    <2>1. inbox' = IF thread = "dead" THEN inbox ELSE inbox \o Posted(C, nextId)
      BY DEF Post, Posted
    <2>. QED
      BY <2>1, PostedTyped, ConcatProperties DEF TypeOK
  <1>. QED
    BY <1>2, <1>3, <1>5, <1>6

\* The callers that are rejected, or resumed with an answer.
LEMMA RejectTyped ==
  ASSUME TypeOK, op' \in [Caller -> Op], NEW C, Reject(C)
  PROVE  /\ pc' \in [Caller -> {"idle", "ready", "sent", "backoff", "terminate"}]
         /\ attempt' \in [Caller -> 0 .. Retries]
         /\ result' \in [Caller -> Result]
PROOF
  <1>1. pc' \in [Caller -> {"idle", "ready", "sent", "backoff", "terminate"}]
    BY DEF Reject, TypeOK
  <1>2. attempt' \in [Caller -> 0 .. Retries]
    <2>1. \A c \in Caller : attempt[c] \in 0 .. Retries
      BY DEF TypeOK
    <2>2. \A c \in Caller : ~ GivesUp(c) => attempt[c] + 1 \in 0 .. Retries
      BY <2>1, BoundsAssumption DEF GivesUp
    <2>3. 0 \in 0 .. Retries
      BY BoundsAssumption
    <2>. QED
      BY <2>1, <2>2, <2>3 DEF Reject
  <1>3. result' \in [Caller -> Result]
    <2>1. \A c \in Caller : [ok |-> FALSE, n |-> op'[c].n, of |-> 0] \in Result
      BY BoundsAssumption DEF Result, Op, CallNo
    <2>2. \A c \in Caller : result[c] \in Result
      BY DEF TypeOK
    <2>. QED
      BY <2>1, <2>2 DEF Reject
  <1>. QED
    BY <1>1, <1>2, <1>3

LEMMA ResolveTyped ==
  ASSUME TypeOK, NEW c \in Caller, NEW of \in CallNo, Resolve(c, of)
  PROVE  /\ pc' \in [Caller -> {"idle", "ready", "sent", "backoff", "terminate"}]
         /\ attempt' \in [Caller -> 0 .. Retries]
         /\ result' \in [Caller -> Result]
PROOF
  <1>1. [ok |-> TRUE, n |-> op[c].n, of |-> of] \in Result
    BY DEF TypeOK, Result, Op
  <1>. QED
    BY <1>1, BoundsAssumption DEF Resolve, TypeOK

LEMMA TypeStep == Typed /\ [Next]_vars => Typed'
PROOF
  <1>. SUFFICES ASSUME Typed, [Next]_vars PROVE Typed'
    OBVIOUS
  <1>. USE BoundsAssumption, FaultsAssumption
  <1>0. TypeOK /\ \A i \in DOMAIN pending : i < nextId
    BY DEF Typed
  <1>1. ASSUME NEW c \in Caller, NEW o \in Op, Attempt(c, o), calls' \in CallNo
        PROVE  Typed'
    <2>1. op' \in [Caller -> Op] /\ late' \in [Caller -> BOOLEAN]
      BY <1>0, <1>1 DEF Attempt, TypeOK
    <2>2. << c >> \in Seq(Caller) /\ Append(line, c) \in Seq(Caller)
          /\ << >> \in Seq(Request)
      BY <1>0 DEF TypeOK
    <2>7. Waits({c}, "ready") =>
            /\ pc' \in [Caller -> {"idle", "ready", "sent", "backoff", "terminate"}]
            /\ attempt' = attempt /\ result' = result
      BY <1>0 DEF Waits, TypeOK
    <2>8. UNCHANGED <<outbox, errored, historyVars>>
      BY <1>1 DEF Attempt
    <2>3. CASE ready = "none"
      <3>1. /\ ready' = "pending" /\ line' \in Seq(Caller)
            /\ thread' \in {"starting", thread} /\ inbox' \in Seq(Request)
            /\ Waits({c}, "ready") /\ UNCHANGED <<nextId, pending>>
        BY <1>0, <1>1, <2>2, <2>3 DEF Attempt, TypeOK
      <3>. QED
        BY <1>0, <1>1, <2>1, <2>7, <2>8, <3>1 DEF Typed, TypeOK, historyVars
    <2>4. CASE ready = "pending"
      <3>1. /\ ready' = "pending" /\ line' \in Seq(Caller)
            /\ thread' \in {"starting", thread} /\ inbox' \in Seq(Request)
            /\ Waits({c}, "ready") /\ UNCHANGED <<nextId, pending>>
        BY <1>0, <1>1, <2>2, <2>4 DEF Attempt, TypeOK
      <3>. QED
        BY <1>0, <1>1, <2>1, <2>7, <2>8, <3>1 DEF Typed, TypeOK, historyVars
    <2>5. CASE ready = "ok"
      <3>1. Post(<< c >>) /\ Waits({c}, "sent") /\ UNCHANGED <<ready, line, thread>>
        BY <1>1, <2>5 DEF Attempt
      <3>2. /\ nextId' \in Id /\ DOMAIN pending' \subseteq Id
            /\ pending' \in [DOMAIN pending' -> Caller]
            /\ \A i \in DOMAIN pending' : i < nextId'
            /\ inbox' \in Seq(Request)
        BY <2>1, <2>2, <3>1, PostTyped
      <3>. QED
        BY <1>0, <1>1, <2>1, <3>1, <3>2
        DEF Attempt, Waits, Typed, TypeOK, historyVars
    <2>6. CASE ready = "failed"
      <3>1. Reject({c}) /\ UNCHANGED <<mainVars, thread, inbox>>
        BY <1>1, <2>6 DEF Attempt
      <3>. QED
        BY <1>0, <1>1, <2>1, <2>8, <3>1, RejectTyped
        DEF Typed, TypeOK, mainVars, historyVars
    <2>. QED
      BY <1>0, <2>3, <2>4, <2>5, <2>6 DEF TypeOK
  <1>2. ASSUME NEW c \in Caller, StartCall(c) \/ StartClose(c) PROVE Typed'
    <2>1. calls' \in CallNo
      BY <1>0, <1>2 DEF StartCall, StartClose, TypeOK, CallNo
    <2>. QED
      BY <1>1, <1>2, <2>1 DEF StartCall, StartClose, Op
  <1>3. ASSUME NEW c \in Caller, Retry(c) PROVE Typed'
    BY <1>0, <1>1, <1>3 DEF Retry, TypeOK
  <1>4. CASE Ready
    <2>1. Post(line) /\ Waits(ToSet(line), "sent") /\ op' = op /\ line \in Seq(Caller)
          /\ outbox' \in Seq(Answer)
      BY <1>0, <1>4, HeadTailProperties DEF Ready, TypeOK
    <2>2. /\ nextId' \in Id /\ DOMAIN pending' \subseteq Id
          /\ pending' \in [DOMAIN pending' -> Caller]
          /\ \A i \in DOMAIN pending' : i < nextId'
          /\ inbox' \in Seq(Request)
      BY <1>0, <2>1, PostTyped DEF TypeOK, Typed
    <2>. QED
      BY <1>0, <1>4, <2>1, <2>2
      DEF Ready, Waits, Typed, TypeOK, historyVars
  <1>5. CASE NotReady
    <2>1. outbox' \in Seq(Answer)
      BY <1>0, <1>5, HeadTailProperties DEF NotReady, TypeOK
    <2>. QED
      <3>1. Reject(ToSet(line)) /\ op' = op /\ op' \in [Caller -> Op]
        BY <1>0, <1>5 DEF NotReady, TypeOK
      <3>2. line' \in Seq(Caller)
        BY <1>5 DEF NotReady
      <3>. QED
        BY <1>0, <1>5, <2>1, <3>1, <3>2, RejectTyped
        DEF NotReady, Typed, TypeOK, historyVars
  <1>6. CASE Answered
    <2>1. outbox' \in Seq(Answer) /\ Head(outbox) \in Answer
      BY <1>0, <1>6, HeadTailProperties DEF Answered, TypeOK
    <2>2. /\ DOMAIN pending' \subseteq DOMAIN pending
          /\ pending' \in [DOMAIN pending' -> Caller]
      BY <1>0, <1>6 DEF Answered, TypeOK
    <2>3. /\ pc' \in [Caller -> {"idle", "ready", "sent", "backoff", "terminate"}]
          /\ attempt' \in [Caller -> 0 .. Retries]
          /\ result' \in [Caller -> Result]
      <3>1. CASE UNCHANGED <<pc, attempt, result>>
        BY <1>0, <3>1 DEF TypeOK
      <3>2. ASSUME NEW i \in DOMAIN pending, Resolve(pending[i], Head(outbox).of)
            PROVE  <2>3!1 /\ <2>3!2 /\ <2>3!3
        <4>1. pending[i] \in Caller /\ Head(outbox).of \in CallNo
          BY <1>0, <2>1 DEF TypeOK, Answer
        <4>. QED
          BY <1>0, <3>2, <4>1, ResolveTyped
      <3>3. ASSUME NEW i \in DOMAIN pending, Reject({pending[i]})
            PROVE  <2>3!1 /\ <2>3!2 /\ <2>3!3
        <4>1. op' \in [Caller -> Op]
          BY <1>0, <1>6 DEF Answered, TypeOK
        <4>. QED
          BY <1>0, <3>3, <4>1, RejectTyped
      <3>. QED
        BY <1>6, <3>1, <3>2, <3>3 DEF Answered
    <2>. QED
      BY <1>0, <1>6, <2>1, <2>2, <2>3 DEF Answered, Typed, TypeOK, historyVars
  <1>7. CASE WorkerError
    <2>1. DOMAIN pending' = {}
      BY <1>7 DEF WorkerError
    <2>. QED
      <3>1. Reject({pending[i] : i \in DOMAIN pending}) /\ op' \in [Caller -> Op]
        BY <1>0, <1>7 DEF WorkerError, TypeOK
      <3>2. pending' \in [DOMAIN pending' -> Caller]
        BY <1>7, <2>1 DEF WorkerError
      <3>. QED
        BY <1>0, <1>7, <2>1, <3>1, <3>2, RejectTyped
        DEF WorkerError, Typed, TypeOK, historyVars
  <1>8. CASE Closed
    BY <1>0, <1>8 DEF Closed, Waits, Typed, TypeOK, historyVars
  <1>9. ASSUME NEW id \in Id \cup {0}, NEW ok \in BOOLEAN, NEW of \in CallNo,
               Say(id, ok, of)
        PROVE  outbox' \in Seq(Answer)
    <2>1. [id |-> id, ok |-> ok, of |-> of] \in Answer
      BY DEF Answer
    <2>. QED
      BY <1>0, <1>9, <2>1, AppendProperties DEF Say, TypeOK
  <1>10. CASE Started \/ StartFails
    <2>1. outbox' \in Seq(Answer) /\ inbox' \in Seq(Request)
      <3>1. 0 \in CallNo /\ inbox \in Seq(Request) /\ << >> \in Seq(Request)
        BY <1>0 DEF CallNo, TypeOK
      <3>2. Say(0, TRUE, 0) \/ Say(0, FALSE, 0)
        BY <1>10 DEF Started, StartFails
      <3>3. inbox' = inbox \/ inbox' = << >>
        BY <1>10 DEF Started, StartFails, Stops
      <3>. QED
        BY <1>9, <3>1, <3>2, <3>3
    <2>. QED
      BY <1>0, <1>10, <2>1
      DEF Started, StartFails, Stops, Typed, TypeOK, mainVars, callVars, historyVars
  <1>11. ASSUME inbox # << >>
         PROVE  /\ Head(inbox) \in Request /\ Head(inbox).op.n \in CallNo
                /\ Head(inbox).id \in Id /\ Tail(inbox) \in Seq(Request)
    <2>1. Head(inbox) \in Request /\ Tail(inbox) \in Seq(Request)
      BY <1>0, <1>11, HeadTailProperties DEF TypeOK
    <2>. QED
      BY <2>1 DEF Request, Op
  <1>12. CASE Execute \/ ExecuteFails \/ CloseDatabase
    <2>1. inbox # << >>
      BY <1>12 DEF Execute, ExecuteFails, CloseDatabase
    <2>2. outbox' \in Seq(Answer)
      BY <1>9, <1>11, <1>12, <2>1 DEF Execute, ExecuteFails, CloseDatabase
    <2>3. ran' \in [CallNo -> Nat] /\ newest' \in CallNo
      <3>1. ran \in [CallNo -> Nat] /\ newest \in CallNo
        BY <1>0 DEF TypeOK
      <3>2. CASE Executed(Head(inbox))
        BY <1>11, <2>1, <3>1, <3>2 DEF Executed
      <3>3. CASE UNCHANGED <<ran, newest>>
        BY <3>1, <3>3
      <3>. QED
        BY <1>12, <3>2, <3>3 DEF Execute, ExecuteFails, CloseDatabase, historyVars
    <2>. QED
      BY <1>0, <1>11, <1>12, <2>1, <2>2, <2>3
      DEF Execute, ExecuteFails, CloseDatabase, Typed, TypeOK, mainVars, callVars,
          historyVars
  <1>13. CASE Terminate
    BY <1>0, <1>13 DEF Terminate, Stops, Typed, TypeOK, mainVars, callVars, historyVars
  <1>14. CASE Dies
    <2>1. ran' \in [CallNo -> Nat] /\ newest' \in CallNo
      <3>1. ran \in [CallNo -> Nat] /\ newest \in CallNo
        BY <1>0 DEF TypeOK
      <3>2. CASE inbox # << >> /\ Executed(Head(inbox))
        BY <1>11, <3>1, <3>2 DEF Executed
      <3>3. CASE UNCHANGED <<ran, newest>>
        BY <3>1, <3>3
      <3>. QED
        BY <1>14, <3>2, <3>3 DEF Dies
    <2>. QED
      BY <1>0, <1>14, <2>1 DEF Dies, Stops, Typed, TypeOK, mainVars, callVars
  <1>15. CASE UNCHANGED vars
    BY <1>0, <1>15
    DEF vars, mainVars, workerVars, callVars, historyVars, Typed, TypeOK
  <1>. QED
    BY <1>2, <1>3, <1>4, <1>5, <1>6, <1>7, <1>8, <1>10, <1>12, <1>13, <1>14, <1>15
    DEF Next, MainStep, WorkerStep

LEMMA TypedInit == Init => Typed
PROOF
  <1>1. ASSUME Init PROVE DOMAIN pending = {} /\ pending \in [DOMAIN pending -> Caller]
    BY <1>1 DEF Init
  <1>. QED
    <2>1. 0 \in CallNo /\ 0 \in 0 .. Retries /\ 1 \in Id
      BY BoundsAssumption DEF CallNo, Id
    <2>2. [close |-> FALSE, n |-> 0] \in Op /\ [ok |-> TRUE, n |-> 0, of |-> 0] \in Result
      BY <2>1 DEF Op, Result
    <2>3. << >> \in Seq(Caller) /\ << >> \in Seq(Request) /\ << >> \in Seq(Answer)
      OBVIOUS
    <2>4. Init => /\ line \in Seq(Caller) /\ inbox \in Seq(Request)
                  /\ outbox \in Seq(Answer)
      BY <2>3 DEF Init
    <2>5. Init => /\ op \in [Caller -> Op] /\ result \in [Caller -> Result]
                  /\ attempt \in [Caller -> 0 .. Retries]
                  /\ ran \in [CallNo -> Nat]
      BY <2>1, <2>2 DEF Init
    <2>6. Init => \A i \in DOMAIN pending : i < nextId
      BY <1>1
    <2>7. Init => DOMAIN pending \subseteq Id
      BY <1>1
    <2>. QED
      BY <1>1, <2>1, <2>4, <2>5, <2>6, <2>7 DEF Init, Typed, TypeOK

\* Every variable keeps its type, for any number of callers, calls and retries.
THEOREM SqliteTypeCorrect == Spec => []TypeOK
PROOF
  <1>1. Typed => TypeOK
    BY DEF Typed
  <1>. QED
    BY <1>1, TypedInit, TypeStep, PTL DEF Spec
-----------------------------------------------------------------------------
(* Sequences: what was added, and what is left                             *)

LEMMA TailOf ==
  ASSUME NEW S, NEW s \in Seq(S), s # << >>
  PROVE  /\ 1 \in DOMAIN s /\ Head(s) = s[1]
         /\ \A j \in DOMAIN Tail(s) : /\ j \in Nat \ {0} /\ j + 1 \in DOMAIN s
                                      /\ Tail(s)[j] = s[j + 1]
BY HeadTailProperties, LenProperties, EmptySeq

LEMMA AppendOf ==
  ASSUME NEW S, NEW s \in Seq(S), NEW e \in S
  PROVE  \A j \in DOMAIN Append(s, e) :
           \/ j \in DOMAIN s /\ Append(s, e)[j] = s[j]
           \/ j = Len(s) + 1 /\ j \notin DOMAIN s /\ Append(s, e)[j] = e
BY AppendProperties, LenProperties

\* What a post adds to the waiters and to the inbox.
LEMMA PostAdds ==
  ASSUME Typed, op' \in [Caller -> Op], NEW C \in Seq(Caller), Post(C)
  PROVE  /\ \A i \in DOMAIN pending' :
              \/ /\ i \in DOMAIN pending /\ i < nextId
                 /\ pending'[i] = pending[i]
              \/ /\ i >= nextId /\ i - nextId + 1 \in DOMAIN C
                 /\ pending'[i] = C[i - nextId + 1]
         /\ \A j \in DOMAIN inbox' :
              \/ j \in DOMAIN inbox /\ inbox'[j] = inbox[j]
              \/ LET k == j - Len(inbox) IN
                 /\ j > Len(inbox) /\ k \in DOMAIN C
                 /\ inbox'[j].id = nextId + k - 1
                 /\ inbox'[j].id \in DOMAIN pending'
                 /\ pending'[inbox'[j].id] = C[k]
                 /\ inbox'[j].op = op'[C[k]]
                 /\ inbox'[j].first => attempt[C[k]] = 0
PROOF
  <1>1. /\ Len(C) \in Nat /\ DOMAIN C = 1 .. Len(C)
        /\ nextId' = nextId + Len(C) /\ nextId \in Nat
        /\ DOMAIN pending' = DOMAIN pending \cup nextId .. nextId' - 1
        /\ \A i \in DOMAIN pending : i < nextId
        /\ DOMAIN pending' \subseteq Nat
    BY PostTyped, LenProperties DEF Typed, TypeOK, Id
  <1>2. ASSUME NEW i \in DOMAIN pending', ~ (i >= nextId)
        PROVE  i \in DOMAIN pending /\ i < nextId /\ pending'[i] = pending[i]
    BY <1>1, <1>2 DEF Post
  <1>3. ASSUME NEW i \in DOMAIN pending', i >= nextId
        PROVE  i - nextId + 1 \in DOMAIN C /\ pending'[i] = C[i - nextId + 1]
    BY <1>1, <1>3 DEF Post
  <1>4. ASSUME NEW j \in DOMAIN inbox', j \notin DOMAIN inbox
        PROVE  LET k == j - Len(inbox) IN
                 /\ j > Len(inbox) /\ k \in DOMAIN C
                 /\ inbox'[j] = Posted(C, nextId)[k]
    <2>1. inbox' = IF thread = "dead" THEN inbox ELSE inbox \o Posted(C, nextId)
      BY DEF Post, Posted
    <2>2. /\ Posted(C, nextId) \in Seq(Request) /\ inbox \in Seq(Request)
          /\ Len(Posted(C, nextId)) = Len(C)
      BY PostedTyped DEF Typed, TypeOK
    <2>3. inbox' = inbox \o Posted(C, nextId)
      BY <1>4, <2>1
    <2>4. /\ Len(inbox) \in Nat /\ DOMAIN inbox = 1 .. Len(inbox)
          /\ j \in 1 .. Len(inbox) + Len(C)
      BY <2>2, <2>3, ConcatProperties, LenProperties
    <2>5. j > Len(inbox) /\ j - Len(inbox) \in 1 .. Len(C)
      BY <1>1, <1>4, <2>4
    <2>. QED
      BY <1>1, <2>2, <2>3, <2>4, <2>5, ConcatProperties
  <1>5. ASSUME NEW j \in DOMAIN inbox', j \in DOMAIN inbox
        PROVE  inbox'[j] = inbox[j]
    <2>1. inbox' = IF thread = "dead" THEN inbox ELSE inbox \o Posted(C, nextId)
      BY DEF Post, Posted
    <2>2. Posted(C, nextId) \in Seq(Request) /\ inbox \in Seq(Request)
      BY PostedTyped DEF Typed, TypeOK
    <2>. QED
      BY <1>5, <2>1, <2>2, ConcatProperties, LenProperties
  <1>6. ASSUME NEW k \in DOMAIN C
        PROVE  /\ Posted(C, nextId)[k] = [id |-> nextId + k - 1, op |-> op'[C[k]],
                                          first |-> attempt[C[k]] = 0]
               /\ nextId + k - 1 \in DOMAIN pending'
               /\ pending'[nextId + k - 1] = C[k]
    <2>1. nextId + k - 1 \in nextId .. nextId' - 1
      BY <1>1
    <2>2. (nextId + k - 1) - nextId + 1 = k
      BY <1>1
    <2>. QED
      BY <1>1, <1>3, <2>1, <2>2 DEF Posted
  <1>7. ASSUME NEW j \in DOMAIN inbox', j \notin DOMAIN inbox
        PROVE  LET k == j - Len(inbox) IN
                 /\ j > Len(inbox) /\ k \in DOMAIN C
                 /\ inbox'[j].id = nextId + k - 1
                 /\ inbox'[j].id \in DOMAIN pending'
                 /\ pending'[inbox'[j].id] = C[k]
                 /\ inbox'[j].op = op'[C[k]]
                 /\ inbox'[j].first => attempt[C[k]] = 0
    <2>. DEFINE k == j - Len(inbox)
    <2>1. k \in DOMAIN C /\ j > Len(inbox) /\ inbox'[j] = Posted(C, nextId)[k]
      BY <1>4, <1>7
    <2>. HIDE DEF k
    <2>2. /\ inbox'[j] = [id |-> nextId + k - 1, op |-> op'[C[k]],
                          first |-> attempt[C[k]] = 0]
          /\ nextId + k - 1 \in DOMAIN pending'
          /\ pending'[nextId + k - 1] = C[k]
      BY <1>6, <2>1
    <2>3. inbox'[j].id = nextId + k - 1 /\ inbox'[j].op = op'[C[k]]
      BY <2>2
    <2>4. inbox'[j].first => attempt[C[k]] = 0
      <3>. SUFFICES ASSUME ~ (attempt[C[k]] = 0) PROVE ~ inbox'[j].first
        OBVIOUS
      <3>. DEFINE b == (attempt[C[k]] = 0)
      <3>1. b = FALSE
        OBVIOUS
      <3>2. inbox'[j] = [id |-> nextId + k - 1, op |-> op'[C[k]], first |-> b]
        BY <2>2
      <3>. HIDE DEF b
      <3>3. inbox'[j].first = b
        BY <3>2
      <3>. QED
        BY <3>1, <3>3
    <2>. QED
      BY <2>1, <2>2, <2>3, <2>4 DEF k
  <1>. QED
    BY <1>2, <1>3, <1>5, <1>7

-----------------------------------------------------------------------------
(* The invariant                                                           *)

\* Who waits for an answer has one request under way, who waits for the
\* worker has none, and nothing is posted to a worker before it is ready.
WaitInv ==
  /\ \A i \in DOMAIN pending : pc[pending[i]] = "sent"
  /\ \A i, j \in DOMAIN pending : pending[i] = pending[j] => i = j
  /\ ready = "pending" =>
       /\ inbox = << >>
       /\ \A j \in DOMAIN line : pc[line[j]] = "ready"
       /\ \A j, k \in DOMAIN line : line[j] = line[k] => j = k

\* A worker's first message tells that it is ready, or not, and no other does.
StartInv ==
  /\ thread = "none" <=> ready = "none"
  /\ thread \in {"none", "starting"} => outbox = << >>
  /\ thread = "starting" => ready = "pending"
  /\ \A j \in DOMAIN outbox : outbox[j].id = 0 => j = 1 /\ ready = "pending"

\* Requests and answers are those of the callers that wait under their ids.
MailInv ==
  /\ \A j \in DOMAIN inbox :
       /\ inbox[j].id < nextId
       /\ inbox[j].id \in DOMAIN pending =>
            op[pending[inbox[j].id]] = inbox[j].op
  /\ \A j \in DOMAIN outbox :
       /\ outbox[j].id < nextId
       /\ outbox[j].id \in DOMAIN pending =>
            op[pending[outbox[j].id]].n = outbox[j].of

\* Calls are numbered, and a result is that of a caller's earlier call.
NumberInv ==
  /\ \A c \in Caller : op[c].n <= calls /\ result[c].n <= op[c].n
  /\ \A c \in Caller : pc[c] # "idle" => result[c].n < op[c].n
  /\ \A c, d \in Caller : c # d => op[c].n # op[d].n \/ op[c].n = 0
  /\ \A c, d \in Caller : c # d => result[c].n # op[d].n \/ result[c].n = 0
  /\ \A j \in DOMAIN inbox : inbox[j].op.n <= calls
  /\ \A n \in CallNo : n > calls => ran[n] = 0

\* A call that is answered has been executed.
RanInv ==
  /\ \A j \in DOMAIN outbox :
       outbox[j].ok /\ outbox[j].id \in DOMAIN pending =>
         op[pending[outbox[j].id]].close \/ ran[outbox[j].of] > 0
  /\ \A c \in Caller : result[c].ok /\ result[c].n > 0 => ran[result[c].n] > 0

\* A request is sent once, for a caller that waits until it is answered.
UniqueInv ==
  /\ \A j \in DOMAIN inbox : inbox[j].id \in DOMAIN pending
  /\ \A j, k \in DOMAIN inbox : inbox[j].id = inbox[k].id => j = k
  /\ \A j \in DOMAIN inbox, k \in DOMAIN outbox : inbox[j].id # outbox[k].id

\* A worker takes its requests with it, and is terminated by close() only.
AliveInv ==
  /\ errored => thread = "dead"
  /\ thread \in {"none", "dead"} => inbox = << >>
  /\ \A c \in Caller : pc[c] = "terminate" => op[c].close

\* Requests are executed once, and answered as executed.
InboxOnce == \A j \in DOMAIN inbox : ran[inbox[j].op.n] = 0

OutboxOnce ==
  /\ \A j \in DOMAIN outbox : outbox[j].id # 0 =>
       /\ outbox[j].id \in DOMAIN pending
       /\ ran[outbox[j].of] =
            IF outbox[j].ok /\ ~ op[pending[outbox[j].id]].close THEN 1 ELSE 0
  /\ \A j, k \in DOMAIN outbox : outbox[j].id = outbox[k].id => j = k

\* What a caller was told, and what it may still try.
ToldOnce(c) ==
  /\ pc[c] \in {"ready", "backoff", "terminate"} => ran[op[c].n] = 0
  /\ result[c].n > 0 => ran[result[c].n] = IF result[c].ok THEN 1 ELSE 0

\* All of this holds as long as no worker has died.
OnceInv ==
  ~ died => ~ errored /\ InboxOnce /\ OutboxOnce /\ \A c \in Caller : ToldOnce(c)

\* First attempts wait, and lie in the inbox, in the order of their calls.
OrderInv ==
  /\ newest <= calls
  /\ \A c \in Caller : pc[c] = "backoff" => attempt[c] > 0
  /\ \A j \in DOMAIN inbox : inbox[j].first => inbox[j].op.n > newest
  /\ \A j, k \in DOMAIN inbox :
       j < k /\ inbox[j].first /\ inbox[k].first =>
         inbox[j].op.n < inbox[k].op.n
  /\ ready = "pending" =>
       /\ \A j \in DOMAIN line :
            attempt[line[j]] = 0 => op[line[j]].n > newest
       /\ \A j, k \in DOMAIN line :
            j < k /\ attempt[line[j]] = 0 /\ attempt[line[k]] = 0 =>
              op[line[j]].n < op[line[k]].n

-----------------------------------------------------------------------------
(* The worker's first message, and who waits for what                      *)

\* What an attempt to call does, by the state of the worker.
LEMMA Attempts ==
  ASSUME Typed, NEW c \in Caller, NEW o \in Op, Attempt(c, o)
  PROVE  /\ op' = [op EXCEPT ![c] = o] /\ op' \in [Caller -> Op]
         /\ UNCHANGED <<outbox, errored, ran, newest, died>>
         /\ \/ /\ ready = "none" /\ ready' = "pending" /\ line' = << c >>
               /\ thread' = "starting" /\ inbox' = << >> /\ Waits({c}, "ready")
               /\ UNCHANGED <<nextId, pending>>
            \/ /\ ready = "pending" /\ line' = Append(line, c)
               /\ Waits({c}, "ready")
               /\ UNCHANGED <<ready, nextId, pending, thread, inbox>>
            \/ /\ ready = "ok" /\ Post(<< c >>) /\ Waits({c}, "sent")
               /\ UNCHANGED <<ready, line, thread>>
            \/ /\ ready = "failed" /\ Reject({c})
               /\ UNCHANGED <<ready, line, nextId, pending, thread, inbox>>
PROOF
  <1>1. op' = [op EXCEPT ![c] = o] /\ op' \in [Caller -> Op]
    BY DEF Attempt, Typed, TypeOK
  <1>. QED
    BY <1>1 DEF Attempt, mainVars, historyVars

\* Every call is begun, or goes on, by an attempt of a caller without one.
LEMMA Begins ==
  ASSUME Typed, NEW c \in Caller, StartCall(c) \/ StartClose(c) \/ Retry(c)
  PROVE  /\ pc[c] \in {"idle", "backoff"}
         /\ \E o \in Op :
              /\ Attempt(c, o)
              /\ \/ /\ pc[c] = "idle" /\ calls' = calls + 1 /\ o.n = calls'
                 \/ pc[c] = "backoff" /\ calls' = calls /\ o = op[c]
PROOF
  <1>1. CASE Retry(c)
    BY <1>1 DEF Retry, Typed, TypeOK
  <1>2. CASE StartCall(c) \/ StartClose(c)
    <2>1. calls' = calls + 1 /\ calls' \in CallNo
      BY <1>2, BoundsAssumption DEF StartCall, StartClose, Typed, TypeOK, CallNo
    <2>2. ASSUME NEW b \in BOOLEAN PROVE [close |-> b, n |-> calls'] \in Op
      BY <2>1 DEF Op
    <2>. QED
      BY <1>2, <2>1, <2>2 DEF StartCall, StartClose
  <1>. QED
    BY <1>1, <1>2

\* The callers that a rejection, a wait or an answer moves, and no others.
LEMMA Moves ==
  ASSUME NEW c \in Caller
  PROVE  /\ \A C, w : Waits(C, w) =>
              /\ pc'[c] = (IF c \in C THEN w ELSE pc[c])
              /\ attempt' = attempt /\ result' = result
         /\ \A C : Reject(C) =>
              /\ c \notin C => /\ pc'[c] = pc[c] /\ attempt'[c] = attempt[c]
                               /\ result'[c] = result[c]
              /\ c \in C => pc'[c] \in {"terminate", "idle", "backoff"}
BY DEF Waits, Reject

\* A request that the worker is about to handle.
LEMMA NextRequest ==
  ASSUME Typed, inbox # << >>
  PROVE  /\ 1 \in DOMAIN inbox /\ Head(inbox) = inbox[1]
         /\ Head(inbox).id \in Id /\ Head(inbox).op \in Op
         /\ Head(inbox).op.n \in CallNo /\ Head(inbox).op.close \in BOOLEAN
PROOF
  <1>1. inbox \in Seq(Request)
    BY DEF Typed, TypeOK
  <1>2. 1 \in DOMAIN inbox /\ Head(inbox) = inbox[1]
    BY <1>1, TailOf
  <1>3. Head(inbox) \in Request
    BY <1>1, HeadTailProperties
  <1>. QED
    BY <1>2, <1>3 DEF Request, Op

\* What the worker does with a request, and the answer that it posts.
LEMMA Handles ==
  ASSUME Typed, Execute \/ ExecuteFails \/ CloseDatabase
  PROVE  LET r == Head(inbox) IN
         /\ inbox # << >> /\ inbox' = Tail(inbox)
         /\ thread \in {"up", "closed"} /\ thread' \in {"up", "closed"}
         /\ UNCHANGED <<ready, line, nextId, pending, errored, op, pc, attempt,
                        result, died, calls>>
         /\ \E ok \in BOOLEAN :
              /\ \/ ok /\ ~ r.op.close /\ Executed(r)
                 \/ (ok <=> r.op.close) /\ UNCHANGED <<ran, newest>>
              /\ \A j \in DOMAIN outbox' :
                   \/ j \in DOMAIN outbox /\ outbox'[j] = outbox[j]
                   \/ /\ j \notin DOMAIN outbox /\ j = Len(outbox) + 1
                      /\ outbox'[j] = [id |-> r.id, ok |-> ok, of |-> r.op.n]
PROOF
  <1>. DEFINE r == Head(inbox)
  <1>1. /\ inbox # << >> /\ inbox' = Tail(inbox)
        /\ thread \in {"up", "closed"} /\ thread' \in {"up", "closed"}
        /\ UNCHANGED <<ready, line, nextId, pending, errored, op, pc, attempt,
                       result, died, calls>>
    BY DEF Execute, ExecuteFails, CloseDatabase, mainVars, callVars, historyVars
  <1>2. PICK ok \in BOOLEAN :
          /\ Say(r.id, ok, r.op.n)
          /\ \/ ok /\ ~ r.op.close /\ Executed(r)
             \/ (ok <=> r.op.close) /\ UNCHANGED <<ran, newest>>
    <2>1. CASE Execute
      BY <2>1 DEF Execute
    <2>2. CASE ExecuteFails
      BY <2>2 DEF ExecuteFails, historyVars
    <2>3. CASE CloseDatabase
      BY <2>3 DEF CloseDatabase, historyVars
    <2>. QED
      BY <2>1, <2>2, <2>3
  <1>3. [id |-> r.id, ok |-> ok, of |-> r.op.n] \in Answer
    BY <1>1, NextRequest DEF Answer
  <1>4. outbox \in Seq(Answer)
    BY DEF Typed, TypeOK
  <1>5. outbox' = Append(outbox, [id |-> r.id, ok |-> ok, of |-> r.op.n])
    BY <1>2 DEF Say
  <1>. HIDE DEF r
  <1>6. \A j \in DOMAIN outbox' :
          \/ j \in DOMAIN outbox /\ outbox'[j] = outbox[j]
          \/ /\ j \notin DOMAIN outbox /\ j = Len(outbox) + 1
             /\ outbox'[j] = [id |-> r.id, ok |-> ok, of |-> r.op.n]
    BY <1>3, <1>4, <1>5, AppendOf
  <1>. QED
    BY <1>1, <1>2, <1>6 DEF r

LEMMA StartStep == Typed /\ StartInv /\ [Next]_vars => StartInv'
PROOF
  <1>. SUFFICES ASSUME Typed, StartInv, [Next]_vars PROVE StartInv'
    OBVIOUS
  <1>0. outbox \in Seq(Answer) /\ inbox \in Seq(Request)
    BY DEF Typed, TypeOK
  <1>1. ASSUME NEW c \in Caller, StartCall(c) \/ StartClose(c) \/ Retry(c)
        PROVE  StartInv'
    <2>1. PICK o \in Op : Attempt(c, o)
      BY <1>1, Begins
    <2>2. UNCHANGED outbox /\ (\/ ready = "none" /\ ready' = "pending" /\ thread' = "starting"
                               \/ UNCHANGED <<ready, thread>>)
      BY <2>1, Attempts
    <2>. QED
      BY <2>2 DEF StartInv
  <1>2. ASSUME outbox # << >>, outbox' = Tail(outbox)
        PROVE  \A j \in DOMAIN outbox' : outbox'[j].id # 0
    BY <1>0, <1>2, TailOf DEF StartInv
  <1>3. CASE Ready \/ NotReady \/ Answered
    <2>1. /\ outbox # << >> /\ outbox' = Tail(outbox) /\ thread' = thread
          /\ \/ ready' \in {"ok", "failed"} /\ Head(outbox).id = 0
             \/ ready' = ready
      BY <1>3 DEF Ready, NotReady, Answered
    <2>2. Head(outbox).id = 0 => ready = "pending"
      BY <1>0, <2>1, TailOf DEF StartInv
    <2>. QED
      BY <1>2, <2>1, <2>2 DEF StartInv
  <1>4. CASE WorkerError
    BY <1>4 DEF WorkerError, StartInv
  <1>5. CASE Closed
    BY <1>5 DEF Closed, StartInv
  <1>6. CASE Started \/ StartFails
    <2>1. \E ok \in BOOLEAN : outbox' = Append(outbox, [id |-> 0, ok |-> ok, of |-> 0])
      BY <1>6 DEF Started, StartFails, Say
    <2>2. outbox = << >> /\ ready = "pending" /\ ready' = ready
          /\ thread' \in {"up", "dead"}
      BY <1>6 DEF Started, StartFails, Stops, StartInv, mainVars
    <2>3. \A j \in DOMAIN outbox' : j = 1
      BY <2>1, <2>2
    <2>. QED
      BY <2>2, <2>3 DEF StartInv
  <1>7. CASE Execute \/ ExecuteFails \/ CloseDatabase
    <2>1. /\ inbox # << >> /\ thread \in {"up", "closed"}
          /\ thread' \in {"up", "closed"} /\ ready' = ready
      BY <1>7, Handles
    <2>2. Head(inbox).id # 0
      BY <2>1, NextRequest DEF Id
    <2>3. \A j \in DOMAIN outbox' :
            outbox'[j].id = 0 => j \in DOMAIN outbox /\ outbox[j].id = 0
      BY <1>7, <2>2, Handles
    <2>. QED
      BY <2>1, <2>3 DEF StartInv
  <1>8. CASE Terminate \/ Dies
    BY <1>8 DEF Terminate, Dies, Stops, StartInv, mainVars
  <1>9. CASE UNCHANGED vars
    BY <1>9 DEF vars, mainVars, workerVars, StartInv
  <1>. QED
    BY <1>1, <1>3, <1>4, <1>5, <1>6, <1>7, <1>8, <1>9 DEF Next, MainStep, WorkerStep

LEMMA WaitStep == Typed /\ StartInv /\ WaitInv /\ [Next]_vars => WaitInv'
PROOF
  <1>. SUFFICES ASSUME Typed, StartInv, WaitInv, [Next]_vars PROVE WaitInv'
    OBVIOUS
  <1>0. /\ line \in Seq(Caller) /\ outbox \in Seq(Answer) /\ inbox \in Seq(Request)
        /\ pending \in [DOMAIN pending -> Caller] /\ DOMAIN pending \subseteq Nat
        /\ nextId \in Nat /\ op \in [Caller -> Op]
    BY DEF Typed, TypeOK, Id
  <1>1. ASSUME NEW c \in Caller, StartCall(c) \/ StartClose(c) \/ Retry(c)
        PROVE  WaitInv'
    <2>1. pc[c] \in {"idle", "backoff"}
      BY <1>1, Begins
    <2>2. PICK o \in Op : Attempt(c, o)
      BY <1>1, Begins
    <2>3. /\ \A i \in DOMAIN pending : pending[i] # c
          /\ ready = "pending" => \A j \in DOMAIN line : line[j] # c
      BY <2>1 DEF WaitInv
    <2>4. CASE ready = "none"
      <3>1. /\ ready' = "pending" /\ line' = << c >> /\ inbox' = << >>
            /\ pending' = pending /\ Waits({c}, "ready")
        BY <2>2, <2>4, Attempts
      <3>2. \A d \in Caller : pc'[d] = IF d = c THEN "ready" ELSE pc[d]
        BY <3>1, Moves
      <3>. QED
        BY <1>0, <2>3, <3>1, <3>2 DEF WaitInv
    <2>5. CASE ready = "pending"
      <3>1. /\ line' = Append(line, c) /\ Waits({c}, "ready")
            /\ UNCHANGED <<ready, pending, inbox>>
        BY <2>2, <2>5, Attempts
      <3>2. \A d \in Caller : pc'[d] = IF d = c THEN "ready" ELSE pc[d]
        BY <3>1, Moves
      <3>3. \A j \in DOMAIN line' : \/ j \in DOMAIN line /\ line'[j] = line[j]
                                    \/ j = Len(line) + 1 /\ line'[j] = c
        BY <1>0, <3>1, AppendOf
      <3>4. \A j \in DOMAIN line : line[j] \in Caller
        BY <1>0, LenProperties
      <3>5. \A i \in DOMAIN pending' : pc'[pending'[i]] = "sent"
        BY <1>0, <2>3, <3>1, <3>2 DEF WaitInv
      <3>6. \A j \in DOMAIN line' : pc'[line'[j]] = "ready"
        BY <2>5, <3>2, <3>3, <3>4 DEF WaitInv
      <3>7. \A j, k \in DOMAIN line' : line'[j] = line'[k] => j = k
        BY <2>3, <2>5, <3>3 DEF WaitInv
      <3>. QED
        BY <2>5, <3>1, <3>5, <3>6, <3>7 DEF WaitInv
    <2>6. CASE ready = "ok"
      <3>1. /\ Post(<< c >>) /\ ready' = "ok" /\ Waits({c}, "sent")
            /\ op' \in [Caller -> Op]
        BY <2>2, <2>6, Attempts
      <3>2. \A d \in Caller : pc'[d] = IF d = c THEN "sent" ELSE pc[d]
        BY <3>1, Moves
      <3>3. << c >> \in Seq(Caller) /\ DOMAIN << c >> = {1} /\ << c >>[1] = c
        OBVIOUS
      <3>4. \A i \in DOMAIN pending' :
              \/ i \in DOMAIN pending /\ i < nextId /\ pending'[i] = pending[i]
              \/ i = nextId /\ pending'[i] = c
        <4>1. \A i \in DOMAIN pending' :
                \/ i \in DOMAIN pending /\ i < nextId /\ pending'[i] = pending[i]
                \/ /\ i >= nextId /\ i - nextId + 1 \in DOMAIN << c >>
                   /\ pending'[i] = << c >>[i - nextId + 1]
          BY <3>1, <3>3, PostAdds
        <4>2. \A i \in DOMAIN pending' : i \in Nat
          BY <3>1, <3>3, PostTyped DEF Id
        <4>. QED
          BY <1>0, <3>3, <4>1, <4>2
      <3>5. \A i \in DOMAIN pending' : pc'[pending'[i]] = "sent"
        BY <1>0, <2>3, <3>2, <3>4 DEF WaitInv
      <3>6. \A i, j \in DOMAIN pending' : pending'[i] = pending'[j] => i = j
        BY <2>3, <3>4 DEF WaitInv
      <3>. QED
        BY <3>1, <3>5, <3>6 DEF WaitInv
    <2>7. CASE ready = "failed"
      <3>1. ready' = "failed" /\ Reject({c}) /\ pending' = pending
        BY <2>2, <2>7, Attempts
      <3>. QED
        BY <1>0, <2>3, <3>1, Moves DEF WaitInv
    <2>. QED
      BY <2>4, <2>5, <2>6, <2>7 DEF Typed, TypeOK
  <1>2. ASSUME outbox # << >>, Head(outbox).id = 0 PROVE ready = "pending"
    BY <1>0, <1>2, TailOf DEF StartInv
  <1>3. \A j \in DOMAIN line : line[j] \in Caller /\ j \in Nat
    BY <1>0, LenProperties
  <1>4. CASE Ready
    <2>1. /\ ready = "pending" /\ ready' = "ok" /\ Post(line) /\ op' \in [Caller -> Op]
          /\ Waits(ToSet(line), "sent")
      BY <1>0, <1>2, <1>4 DEF Ready
    <2>2. \A d \in Caller : pc'[d] = IF d \in ToSet(line) THEN "sent" ELSE pc[d]
      BY <2>1, Moves
    <2>3. \A i \in DOMAIN pending' :
            \/ /\ i \in DOMAIN pending /\ i < nextId /\ pending'[i] = pending[i]
            \/ /\ i >= nextId /\ i - nextId + 1 \in DOMAIN line
               /\ pending'[i] = line[i - nextId + 1]
      BY <1>0, <2>1, PostAdds
    <2>4. \A i \in DOMAIN pending' : i \in Nat
      BY <1>0, <2>1, PostTyped DEF Id
    <2>5. \A j \in DOMAIN line : line[j] \in ToSet(line)
      BY DEF ToSet
    <2>6. \A i \in DOMAIN pending' : pc'[pending'[i]] = "sent"
      BY <1>0, <1>3, <2>2, <2>3, <2>5 DEF WaitInv
    <2>7. \A i, j \in DOMAIN pending' : pending'[i] = pending'[j] => i = j
      <3>1. \A j \in DOMAIN line, i \in DOMAIN pending : line[j] # pending[i]
        BY <2>1 DEF WaitInv
      <3>2. \A j, k \in DOMAIN line : line[j] = line[k] => j = k
        BY <2>1 DEF WaitInv
      <3>3. \A i, j \in Nat : i - nextId + 1 = j - nextId + 1 => i = j
        BY <1>0
      <3>. QED
        BY <2>3, <2>4, <3>1, <3>2, <3>3 DEF WaitInv
    <2>. QED
      BY <2>1, <2>6, <2>7 DEF WaitInv
  <1>5. CASE NotReady
    <2>1. /\ ready = "pending" /\ ready' = "failed" /\ pending' = pending
          /\ Reject(ToSet(line))
      BY <1>2, <1>5 DEF NotReady
    <2>2. \A i \in DOMAIN pending : pending[i] \notin ToSet(line)
      BY <2>1 DEF WaitInv, ToSet
    <2>. QED
      BY <1>0, <2>1, <2>2, Moves DEF WaitInv
  <1>6. CASE Answered
    <2>. DEFINE m == Head(outbox)
    <2>1. /\ pending' = [i \in DOMAIN pending \ {m.id} |-> pending[i]]
          /\ UNCHANGED <<ready, line, inbox>>
      BY <1>6 DEF Answered
    <2>2. \A d \in Caller : pc'[d] = pc[d] \/ (/\ m.id \in DOMAIN pending
                                               /\ d = pending[m.id])
      <3>1. pc \in [Caller -> {"idle", "ready", "sent", "backoff", "terminate"}]
        BY DEF Typed, TypeOK
      <3>2. CASE UNCHANGED pc
        BY <3>2
      <3>3. CASE m.id \in DOMAIN pending /\ Resolve(pending[m.id], m.of)
        BY <1>0, <3>1, <3>3 DEF Resolve
      <3>4. CASE m.id \in DOMAIN pending /\ Reject({pending[m.id]})
        BY <1>0, <3>4, Moves
      <3>. QED
        BY <1>6, <3>2, <3>3, <3>4 DEF Answered
    <2>. HIDE DEF m
    <2>3. \A i \in DOMAIN pending' : /\ i \in DOMAIN pending /\ i # m.id
                                     /\ pending'[i] = pending[i]
                                     /\ pending[i] \in Caller
      BY <1>0, <2>1
    <2>4. \A i \in DOMAIN pending' : pc'[pending'[i]] = "sent"
      <3>. TAKE i \in DOMAIN pending'
      <3>1. m.id \in DOMAIN pending => pending[i] # pending[m.id]
        BY <2>3 DEF WaitInv
      <3>. QED
        BY <2>2, <2>3, <3>1 DEF WaitInv
    <2>5. \A i, j \in DOMAIN pending' : pending'[i] = pending'[j] => i = j
      BY <2>3 DEF WaitInv
    <2>6. ready = "pending" => \A j \in DOMAIN line : pc'[line[j]] = "ready"
      BY <1>3, <2>2 DEF WaitInv
    <2>. QED
      BY <2>1, <2>4, <2>5, <2>6 DEF WaitInv
  <1>7. CASE WorkerError
    <2>1. /\ DOMAIN pending' = {} /\ UNCHANGED <<ready, line, inbox>>
          /\ Reject({pending[i] : i \in DOMAIN pending})
      BY <1>7 DEF WorkerError
    <2>2. ready = "pending" =>
            \A j \in DOMAIN line : line[j] \notin {pending[i] : i \in DOMAIN pending}
      BY DEF WaitInv
    <2>. QED
      BY <1>3, <2>1, <2>2, Moves DEF WaitInv
  <1>8. CASE Closed
    <2>1. ready' = "none" /\ pending' = pending /\ Waits(Closers, "idle")
      BY <1>8 DEF Closed
    <2>2. \A i \in DOMAIN pending : pending[i] \in Caller \ Closers
      BY <1>0 DEF WaitInv, Closers
    <2>. QED
      BY <2>1, <2>2, Moves DEF WaitInv
  <1>9. CASE Execute \/ ExecuteFails \/ CloseDatabase
    <2>1. inbox # << >> /\ UNCHANGED <<ready, line, pending, pc>>
      BY <1>9, Handles
    <2>. QED
      BY <2>1 DEF WaitInv
  <1>10. CASE Started \/ StartFails \/ Terminate \/ Dies
    <2>1. /\ inbox' = inbox \/ inbox' = << >>
          /\ UNCHANGED <<ready, line, pending, pc>>
      BY <1>10 DEF Started, StartFails, Terminate, Dies, Stops, mainVars, callVars
    <2>. QED
      BY <2>1 DEF WaitInv
  <1>11. CASE UNCHANGED vars
    BY <1>11 DEF vars, mainVars, workerVars, callVars, WaitInv
  <1>. QED
    BY <1>1, <1>4, <1>5, <1>6, <1>7, <1>8, <1>9, <1>10, <1>11
    DEF Next, MainStep, WorkerStep

-----------------------------------------------------------------------------
(* Answers                                                                 *)

\* Steps that take messages away, and waiters, and leave the calls alone.
LEMMA MailLess ==
  ASSUME MailInv, nextId' \in Nat, nextId \in Nat, nextId' = nextId,
         \A i \in DOMAIN pending' : /\ i \in DOMAIN pending
                                    /\ pending'[i] = pending[i]
                                    /\ op'[pending[i]] = op[pending[i]],
         \A j \in DOMAIN inbox' :
           \E k \in DOMAIN inbox : inbox'[j] = inbox[k],
         \A j \in DOMAIN outbox' :
           \E k \in DOMAIN outbox : outbox'[j] = outbox[k]
  PROVE  MailInv'
BY DEF MailInv

LEMMA MailStep == Typed /\ WaitInv /\ MailInv /\ [Next]_vars => MailInv'
PROOF
  <1>. SUFFICES ASSUME Typed, WaitInv, MailInv, [Next]_vars PROVE MailInv'
    OBVIOUS
  <1>0. /\ line \in Seq(Caller) /\ outbox \in Seq(Answer) /\ inbox \in Seq(Request)
        /\ pending \in [DOMAIN pending -> Caller] /\ DOMAIN pending \subseteq Nat
        /\ nextId \in Nat /\ op \in [Caller -> Op]
    BY DEF Typed, TypeOK, Id
  <1>1. ASSUME outbox # << >>, outbox' = Tail(outbox)
        PROVE  \A j \in DOMAIN outbox' :
                 \E k \in DOMAIN outbox : outbox'[j] = outbox[k]
    BY <1>0, <1>1, TailOf
  <1>2. ASSUME inbox # << >>, inbox' = Tail(inbox)
        PROVE  \A j \in DOMAIN inbox' : \E k \in DOMAIN inbox : inbox'[j] = inbox[k]
    BY <1>0, <1>2, TailOf
  <1>3. ASSUME NEW C \in Seq(Caller), Post(C), op' \in [Caller -> Op],
               \A i \in DOMAIN pending : op'[pending[i]] = op[pending[i]],
               \A j \in DOMAIN outbox' :
                 \E k \in DOMAIN outbox : outbox'[j] = outbox[k]
        PROVE  MailInv'
    <2>1. /\ nextId' \in Nat /\ nextId' >= nextId
          /\ DOMAIN pending' \subseteq Nat /\ \A i \in DOMAIN pending' : i < nextId'
      BY <1>0, <1>3, PostTyped, LenProperties DEF Id
    <2>2. ASSUME NEW i \in DOMAIN pending', i < nextId
          PROVE  /\ i \in DOMAIN pending /\ pending'[i] = pending[i]
                 /\ op'[pending'[i]] = op[pending[i]]
      <3>1. i \in DOMAIN pending /\ pending'[i] = pending[i]
        BY <1>0, <1>3, <2>1, <2>2, PostAdds
      <3>. QED
        BY <1>3, <3>1
    <2>3. \A j \in DOMAIN inbox : inbox[j].id \in Nat
      <3>1. \A j \in DOMAIN inbox : inbox[j] \in Request
        BY <1>0, LenProperties
      <3>. QED
        BY <3>1 DEF Request, Id
    <2>4. \A j \in DOMAIN outbox : outbox[j].id \in Nat
      <3>1. \A j \in DOMAIN outbox : outbox[j] \in Answer
        BY <1>0, LenProperties
      <3>. QED
        BY <3>1 DEF Answer, Id
    <2>5. ASSUME NEW j \in DOMAIN inbox'
          PROVE  /\ inbox'[j].id < nextId'
                 /\ inbox'[j].id \in DOMAIN pending' =>
                      op'[pending'[inbox'[j].id]] = inbox'[j].op
      <3>1. CASE j \in DOMAIN inbox /\ inbox'[j] = inbox[j]
        <4>1. inbox[j].id < nextId /\ inbox[j].id \in Nat
          BY <2>3, <3>1 DEF MailInv
        <4>2. inbox[j].id < nextId'
          BY <1>0, <2>1, <4>1
        <4>. QED
          BY <2>2, <3>1, <4>1, <4>2 DEF MailInv
      <3>2. CASE \E k \in DOMAIN C : /\ inbox'[j].id \in DOMAIN pending'
                                     /\ pending'[inbox'[j].id] = C[k]
                                     /\ inbox'[j].op = op'[C[k]]
        BY <2>1, <3>2
      <3>. QED
        BY <1>3, <3>1, <3>2, PostAdds
    <2>6. ASSUME NEW j \in DOMAIN outbox'
          PROVE  /\ outbox'[j].id < nextId'
                 /\ outbox'[j].id \in DOMAIN pending' =>
                      op'[pending'[outbox'[j].id]].n = outbox'[j].of
      <3>1. PICK k \in DOMAIN outbox : outbox'[j] = outbox[k]
        BY <1>3
      <3>2. outbox[k].id < nextId /\ outbox[k].id \in Nat
        BY <2>4 DEF MailInv
      <3>3. outbox[k].id < nextId'
        BY <1>0, <2>1, <3>2
      <3>. QED
        BY <2>2, <3>1, <3>2, <3>3 DEF MailInv
    <2>. QED
      BY <2>5, <2>6 DEF MailInv
  <1>4. ASSUME NEW c \in Caller, StartCall(c) \/ StartClose(c) \/ Retry(c)
        PROVE  MailInv'
    <2>1. pc[c] \in {"idle", "backoff"}
      BY <1>4, Begins
    <2>2. PICK o \in Op : Attempt(c, o)
      BY <1>4, Begins
    <2>3. /\ op' = [op EXCEPT ![c] = o] /\ op' \in [Caller -> Op] /\ outbox' = outbox
      BY <2>2, Attempts
    <2>4. \A i \in DOMAIN pending : op'[pending[i]] = op[pending[i]]
      BY <1>0, <2>1, <2>3 DEF WaitInv
    <2>5. CASE ready = "ok"
      <3>1. Post(<< c >>)
        BY <2>2, <2>5, Attempts
      <3>2. << c >> \in Seq(Caller)
        OBVIOUS
      <3>. QED
        BY <1>3, <2>3, <2>4, <3>1, <3>2
    <2>6. CASE ready # "ok"
      <3>1. /\ UNCHANGED <<nextId, pending>>
            /\ inbox' = inbox \/ inbox' = << >>
        BY <2>2, <2>6, Attempts
      <3>2. \A j \in DOMAIN inbox' : \E k \in DOMAIN inbox : inbox'[j] = inbox[k]
        BY <3>1
      <3>. QED
        BY <1>0, <2>3, <2>4, <3>1, <3>2, MailLess
    <2>. QED
      BY <2>5, <2>6
  <1>5. CASE Ready
    <2>1. /\ Post(line) /\ op' = op /\ outbox # << >> /\ outbox' = Tail(outbox)
      BY <1>5 DEF Ready
    <2>. QED
      BY <1>0, <1>1, <1>3, <2>1
  <1>6. CASE NotReady \/ Answered \/ WorkerError \/ Closed
    <2>1. /\ UNCHANGED <<nextId, inbox, op>>
          /\ \/ outbox # << >> /\ outbox' = Tail(outbox)
             \/ outbox' = outbox
          /\ \A i \in DOMAIN pending' : i \in DOMAIN pending /\ pending'[i] = pending[i]
      BY <1>6 DEF NotReady, Answered, WorkerError, Closed
    <2>2. \A j \in DOMAIN outbox' : \E k \in DOMAIN outbox : outbox'[j] = outbox[k]
      BY <1>1, <2>1
    <2>. QED
      BY <1>0, <2>1, <2>2, MailLess
  <1>7. CASE Started \/ StartFails
    <2>1. /\ UNCHANGED <<nextId, pending, op>>
          /\ inbox' = inbox \/ inbox' = << >>
      BY <1>7 DEF Started, StartFails, Stops, mainVars, callVars
    <2>2. ASSUME NEW ok \in BOOLEAN
          PROVE  LET m == [id |-> 0, ok |-> ok, of |-> 0] IN m \in Answer /\ m.id = 0
      BY BoundsAssumption DEF Answer, CallNo
    <2>3. PICK m \in Answer : m.id = 0 /\ outbox' = Append(outbox, m)
      BY <1>7, <2>2 DEF Started, StartFails, Say
    <2>4. \A j \in DOMAIN outbox' :
            \/ outbox'[j].id = 0
            \/ j \in DOMAIN outbox /\ outbox'[j] = outbox[j]
      BY <1>0, <2>3, AppendOf
    <2>5. 0 < nextId /\ 0 \notin DOMAIN pending
      BY DEF Typed, TypeOK, Id
    <2>. QED
      BY <2>1, <2>4, <2>5 DEF MailInv
  <1>8. CASE Execute \/ ExecuteFails \/ CloseDatabase
    <2>1. /\ UNCHANGED <<nextId, pending, op>>
          /\ inbox # << >> /\ inbox' = Tail(inbox)
          /\ \A j \in DOMAIN outbox' :
               \/ j \in DOMAIN outbox /\ outbox'[j] = outbox[j]
               \/ /\ outbox'[j].id = Head(inbox).id
                  /\ outbox'[j].of = Head(inbox).op.n
      BY <1>8, Handles
    <2>2. /\ Head(inbox).id < nextId
          /\ Head(inbox).id \in DOMAIN pending =>
               op[pending[Head(inbox).id]].n = Head(inbox).op.n
      BY <2>1, NextRequest DEF MailInv
    <2>3. ASSUME NEW j \in DOMAIN outbox'
          PROVE  /\ outbox'[j].id < nextId'
                 /\ outbox'[j].id \in DOMAIN pending' =>
                      op'[pending'[outbox'[j].id]].n = outbox'[j].of
      BY <2>1, <2>2 DEF MailInv
    <2>4. ASSUME NEW j \in DOMAIN inbox'
          PROVE  /\ inbox'[j].id < nextId'
                 /\ inbox'[j].id \in DOMAIN pending' =>
                      op'[pending'[inbox'[j].id]] = inbox'[j].op
      BY <1>2, <2>1 DEF MailInv
    <2>. QED
      BY <2>3, <2>4 DEF MailInv
  <1>9. CASE Terminate \/ Dies
    <2>1. UNCHANGED <<nextId, pending, op, outbox>> /\ inbox' = << >>
      BY <1>9 DEF Terminate, Dies, Stops, mainVars, callVars
    <2>. QED
      BY <2>1 DEF MailInv
  <1>10. CASE UNCHANGED vars
    BY <1>10 DEF vars, mainVars, workerVars, callVars, MailInv
  <1>. QED
    BY <1>4, <1>5, <1>6, <1>7, <1>8, <1>9, <1>10 DEF Next, MainStep, WorkerStep

\* A result is the earlier one, or that of a rejection, or an answer's.
LEMMA Results ==
  ASSUME Typed, WaitInv, MailInv, [Next]_vars, NEW c \in Caller
  PROVE  \/ result'[c] = result[c]
         \/ /\ result'[c].ok = FALSE /\ result'[c].n = op'[c].n
            /\ ~ op'[c].close /\ pc'[c] = "idle"
         \/ /\ result'[c] = [ok |-> TRUE, n |-> op[c].n, of |-> op[c].n]
            /\ ~ op[c].close /\ op' = op /\ pc'[c] = "idle" /\ ran' = ran
            /\ outbox # << >> /\ Head(outbox).ok
            /\ Head(outbox).id \in DOMAIN pending
            /\ pending[Head(outbox).id] = c /\ Head(outbox).of = op[c].n
PROOF
  <1>0. /\ outbox \in Seq(Answer) /\ result \in [Caller -> Result]
        /\ pc \in [Caller -> {"idle", "ready", "sent", "backoff", "terminate"}]
        /\ pending \in [DOMAIN pending -> Caller]
    BY DEF Typed, TypeOK
  <1>1. ASSUME NEW C, Reject(C)
        PROVE  \/ result'[c] = result[c]
               \/ /\ result'[c].ok = FALSE /\ result'[c].n = op'[c].n
                  /\ ~ op'[c].close /\ pc'[c] = "idle"
    BY <1>1 DEF Reject
  <1>2. ASSUME NEW d \in Caller, StartCall(d) \/ StartClose(d) \/ Retry(d)
        PROVE  \/ result'[c] = result[c]
               \/ /\ result'[c].ok = FALSE /\ result'[c].n = op'[c].n
                  /\ ~ op'[c].close /\ pc'[c] = "idle"
    <2>1. PICK o \in Op : Attempt(d, o)
      BY <1>2, Begins
    <2>2. Reject({d}) \/ result' = result
      BY <2>1, Attempts DEF Waits
    <2>. QED
      BY <1>1, <2>2
  <1>3. CASE Ready \/ NotReady \/ WorkerError \/ Closed
    BY <1>1, <1>3 DEF Ready, NotReady, WorkerError, Closed, Waits
  <1>4. CASE Answered
    <2>. DEFINE m == Head(outbox)
    <2>1. /\ outbox # << >> /\ op' = op /\ ran' = ran
          /\ \/ result' = result
             \/ m.id \in DOMAIN pending /\ m.ok /\ Resolve(pending[m.id], m.of)
             \/ m.id \in DOMAIN pending /\ Reject({pending[m.id]})
      BY <1>4 DEF Answered, historyVars
    <2>2. m.id \in DOMAIN pending => m.of = op[pending[m.id]].n
      BY <1>0, <2>1, TailOf DEF MailInv
    <2>3. CASE m.id \in DOMAIN pending /\ m.ok /\ Resolve(pending[m.id], m.of)
      <3>1. CASE pending[m.id] = c /\ ~ op[c].close
        BY <1>0, <2>1, <2>2, <2>3, <3>1 DEF Resolve
      <3>2. CASE ~ (pending[m.id] = c /\ ~ op[c].close)
        BY <1>0, <2>3, <3>2 DEF Resolve
      <3>. QED
        BY <3>1, <3>2
    <2>. QED
      BY <1>1, <2>1, <2>3
  <1>5. CASE Execute \/ ExecuteFails \/ CloseDatabase
    BY <1>5, Handles
  <1>6. CASE Started \/ StartFails \/ Terminate \/ Dies \/ UNCHANGED vars
    BY <1>6 DEF Started, StartFails, Terminate, Dies, vars, callVars
  <1>. QED
    BY <1>2, <1>3, <1>4, <1>5, <1>6 DEF Next, MainStep, WorkerStep

LEMMA AnswersStep ==
  ASSUME Typed, WaitInv, MailInv, AnswersAreTheCallersOwn, [Next]_vars
  PROVE  AnswersAreTheCallersOwn'
PROOF
  <1>. SUFFICES ASSUME NEW c \in Caller, result'[c].ok
                PROVE  result'[c].of = result'[c].n
    BY DEF AnswersAreTheCallersOwn
  <1>1. CASE result'[c] = result[c]
    BY <1>1 DEF AnswersAreTheCallersOwn
  <1>2. CASE result'[c] = [ok |-> TRUE, n |-> op[c].n, of |-> op[c].n]
    BY <1>2
  <1>. QED
    BY <1>1, <1>2, Results

(* Whatever is started, refused, retried or closed meanwhile, the promise   *)
(* that an answer of the worker settles is the one of the call that was     *)
(* executed: no id is given twice (nextRequestId of call()).                *)
THEOREM AnswersOwn == Spec => []AnswersAreTheCallersOwn
PROOF
  <1>1. Init => WaitInv /\ StartInv /\ MailInv /\ AnswersAreTheCallersOwn
    BY DEF Init, WaitInv, StartInv, MailInv, AnswersAreTheCallersOwn
  <1>2. /\ Typed /\ StartInv /\ WaitInv /\ MailInv /\ AnswersAreTheCallersOwn
        /\ [Next]_vars
        => StartInv' /\ WaitInv' /\ MailInv' /\ AnswersAreTheCallersOwn'
    BY StartStep, WaitStep, MailStep, AnswersStep
  <1>. QED
    BY <1>1, <1>2, TypedInit, TypeStep, PTL DEF Spec

-----------------------------------------------------------------------------
(* Order                                                                   *)

\* What has been executed changes with the request that is executed only.
LEMMA Runs ==
  ASSUME Typed, [Next]_vars
  PROVE  \/ ran' = ran /\ newest' = newest
         \/ /\ inbox # << >> /\ Executed(Head(inbox))
            /\ inbox' = Tail(inbox) \/ inbox' = << >>
            /\ UNCHANGED <<ready, line, nextId, pending, op, pc, attempt, result,
                           calls>>
PROOF
  <1>1. ASSUME NEW c \in Caller, StartCall(c) \/ StartClose(c) \/ Retry(c)
        PROVE  ran' = ran /\ newest' = newest
    BY <1>1, Begins, Attempts
  <1>2. CASE Ready \/ NotReady \/ Answered \/ WorkerError \/ Closed
    BY <1>2 DEF Ready, NotReady, Answered, WorkerError, Closed, historyVars
  <1>3. CASE Started \/ StartFails \/ Terminate \/ UNCHANGED vars
    BY <1>3 DEF Started, StartFails, Terminate, vars, historyVars
  <1>4. CASE Execute \/ ExecuteFails \/ CloseDatabase
    BY <1>4, Handles
  <1>5. CASE Dies
    BY <1>5 DEF Dies, Stops, mainVars, callVars
  <1>. QED
    BY <1>1, <1>2, <1>3, <1>4, <1>5 DEF Next, MainStep, WorkerStep

\* Between the steps that begin its attempts a caller is left where it was,
\* unless it waits for an answer or for the worker.
LEMMA Stays ==
  ASSUME Typed, StartInv, WaitInv, [Next]_vars, NEW c \in Caller
  PROVE  \/ StartCall(c) \/ StartClose(c) \/ Retry(c)
         \/ /\ op'[c] = op[c] /\ calls' >= calls
            /\ pc'[c] # "idle" => pc[c] # "idle"
PROOF
  <1>0. /\ outbox \in Seq(Answer) /\ op \in [Caller -> Op] /\ calls \in Nat
        /\ pc \in [Caller -> {"idle", "ready", "sent", "backoff", "terminate"}]
        /\ pending \in [DOMAIN pending -> Caller]
    BY BoundsAssumption DEF Typed, TypeOK, CallNo
  <1>1. ASSUME NEW d \in Caller, d # c, StartCall(d) \/ StartClose(d) \/ Retry(d)
        PROVE  op'[c] = op[c] /\ calls' >= calls /\ pc'[c] = pc[c]
    <2>1. PICK o \in Op : Attempt(d, o) /\ (calls' = calls + 1 \/ calls' = calls)
      BY <1>1, Begins
    <2>2. op' = [op EXCEPT ![d] = o]
      BY <2>1, Attempts
    <2>3. Waits({d}, "ready") \/ Waits({d}, "sent") \/ Reject({d})
      BY <2>1, Attempts
    <2>. QED
      BY <1>0, <1>1, <2>1, <2>2, <2>3, Moves
  <1>2. ASSUME outbox # << >>, Head(outbox).id = 0, c \in ToSet(line)
        PROVE  pc[c] = "ready"
    <2>1. ready = "pending"
      BY <1>0, <1>2, TailOf DEF StartInv
    <2>. QED
      BY <1>2, <2>1 DEF WaitInv, ToSet
  <1>3. CASE Ready
    BY <1>0, <1>2, <1>3, Moves DEF Ready
  <1>4. CASE NotReady
    BY <1>0, <1>2, <1>4, Moves DEF NotReady
  <1>5. CASE Answered
    <2>. DEFINE m == Head(outbox)
    <2>1. /\ op' = op /\ calls' = calls
          /\ \/ pc' = pc
             \/ m.id \in DOMAIN pending /\ Resolve(pending[m.id], m.of)
             \/ m.id \in DOMAIN pending /\ Reject({pending[m.id]})
      BY <1>5 DEF Answered
    <2>2. m.id \in DOMAIN pending => pc[pending[m.id]] = "sent"
      BY DEF WaitInv
    <2>3. CASE m.id \in DOMAIN pending /\ Resolve(pending[m.id], m.of)
      BY <1>0, <2>1, <2>2, <2>3 DEF Resolve
    <2>4. CASE m.id \in DOMAIN pending /\ Reject({pending[m.id]})
      BY <1>0, <2>1, <2>2, <2>4, Moves
    <2>. QED
      BY <1>0, <2>1, <2>3, <2>4
  <1>6. CASE WorkerError
    <2>1. c \in {pending[i] : i \in DOMAIN pending} => pc[c] = "sent"
      BY DEF WaitInv
    <2>. QED
      BY <1>0, <1>6, <2>1, Moves DEF WorkerError
  <1>7. CASE Closed
    BY <1>0, <1>7, Moves DEF Closed
  <1>8. CASE Execute \/ ExecuteFails \/ CloseDatabase
    BY <1>0, <1>8, Handles
  <1>9. CASE Started \/ StartFails \/ Terminate \/ Dies \/ UNCHANGED vars
    <2>1. op' = op /\ pc' = pc /\ calls' = calls
      BY <1>9 DEF Started, StartFails, Terminate, Dies, vars, callVars
    <2>. QED
      BY <1>0, <2>1
  <1>. QED
    BY <1>1, <1>3, <1>4, <1>5, <1>6, <1>7, <1>8, <1>9 DEF Next, MainStep, WorkerStep

\* A caller goes to sleep before its next attempt once one has failed.
LEMMA Backoffs ==
  ASSUME Typed, [Next]_vars, \A c \in Caller : pc[c] = "backoff" => attempt[c] > 0
  PROVE  \A c \in Caller : pc'[c] = "backoff" => attempt'[c] > 0
PROOF
  <1>. TAKE c \in Caller
  <1>0. /\ pc \in [Caller -> {"idle", "ready", "sent", "backoff", "terminate"}]
        /\ attempt \in [Caller -> 0 .. Retries] /\ attempt[c] \in Nat
        /\ pending \in [DOMAIN pending -> Caller]
    BY BoundsAssumption DEF Typed, TypeOK
  <1>1. ASSUME NEW C, Reject(C) PROVE pc'[c] = "backoff" => attempt'[c] > 0
    BY <1>0, <1>1 DEF Reject
  <1>2. ASSUME NEW C, NEW w, w # "backoff", Waits(C, w)
        PROVE  pc'[c] = "backoff" => attempt'[c] > 0
    BY <1>2, Moves
  <1>3. ASSUME NEW d \in Caller, StartCall(d) \/ StartClose(d) \/ Retry(d)
        PROVE  pc'[c] = "backoff" => attempt'[c] > 0
    BY <1>1, <1>2, <1>3, Begins, Attempts
  <1>4. CASE Ready \/ NotReady \/ WorkerError \/ Closed
    BY <1>1, <1>2, <1>4 DEF Ready, NotReady, WorkerError, Closed
  <1>5. CASE Answered
    <2>1. ASSUME NEW i \in DOMAIN pending, NEW of, Resolve(pending[i], of)
          PROVE  pc'[c] = "backoff" => attempt'[c] > 0
      BY <1>0, <2>1 DEF Resolve
    <2>. QED
      BY <1>1, <1>5, <2>1 DEF Answered
  <1>6. CASE Execute \/ ExecuteFails \/ CloseDatabase
    BY <1>6, Handles
  <1>7. CASE Started \/ StartFails \/ Terminate \/ Dies \/ UNCHANGED vars
    BY <1>7 DEF Started, StartFails, Terminate, Dies, vars, callVars
  <1>. QED
    BY <1>3, <1>4, <1>5, <1>6, <1>7 DEF Next, MainStep, WorkerStep

LEMMA NumberStep ==
  ASSUME Typed, StartInv, WaitInv, MailInv, NumberInv, [Next]_vars
  PROVE  NumberInv'
PROOF
  <1>0. /\ op \in [Caller -> Op] /\ result \in [Caller -> Result] /\ calls \in Nat
        /\ inbox \in Seq(Request) /\ ran \in [CallNo -> Nat]
        /\ nextId \in Nat /\ CallNo \subseteq Nat
    BY BoundsAssumption DEF Typed, TypeOK, CallNo, Id
  <1>1. ASSUME NEW c \in Caller
        PROVE  /\ op[c].n \in Nat /\ result[c].n \in Nat
               /\ op[c].n <= calls /\ result[c].n <= op[c].n
               /\ pc[c] # "idle" => result[c].n < op[c].n
    BY <1>0 DEF NumberInv, Op, Result
  <1>2. ASSUME NEW c \in Caller
        PROVE  \/ /\ pc[c] = "idle" /\ op'[c].n = calls' /\ calls' = calls + 1
                  /\ \A d \in Caller \ {c} : op'[d] = op[d]
               \/ /\ op'[c] = op[c] /\ calls' >= calls
                  /\ pc'[c] # "idle" => pc[c] # "idle"
    <2>1. CASE StartCall(c) \/ StartClose(c) \/ Retry(c)
      <3>1. PICK o \in Op :
              /\ Attempt(c, o)
              /\ \/ /\ pc[c] = "idle" /\ calls' = calls + 1 /\ o.n = calls'
                 \/ pc[c] = "backoff" /\ calls' = calls /\ o = op[c]
        BY <2>1, Begins
      <3>2. op' = [op EXCEPT ![c] = o]
        BY <3>1, Attempts
      <3>. QED
        BY <1>0, <3>1, <3>2
    <2>. QED
      BY <2>1, Stays
  <1>3. ASSUME NEW c \in Caller
        PROVE  \/ result'[c] = result[c]
               \/ result'[c].n = op'[c].n /\ pc'[c] = "idle"
    <2>1. CASE result'[c] = [ok |-> TRUE, n |-> op[c].n, of |-> op[c].n]
               /\ op' = op /\ pc'[c] = "idle"
      BY <2>1
    <2>. QED
      BY <2>1, Results
  <1>4. calls' >= calls /\ calls' \in Nat
    <2>1. ASSUME NEW c \in Caller, StartCall(c) \/ StartClose(c) \/ Retry(c)
          PROVE  calls' = calls + 1 \/ calls' = calls
      BY <2>1, Begins
    <2>2. CASE Execute \/ ExecuteFails \/ CloseDatabase
      BY <1>0, <2>2, Handles
    <2>3. CASE UNCHANGED calls
      BY <1>0, <2>3
    <2>4. \/ \E c \in Caller : StartCall(c) \/ StartClose(c) \/ Retry(c)
          \/ Execute \/ ExecuteFails \/ CloseDatabase
          \/ UNCHANGED calls
      BY DEF Next, MainStep, WorkerStep, Ready, NotReady, Answered, WorkerError,
             Closed, Started, StartFails, Terminate, Dies, vars
    <2>. QED
      BY <1>0, <2>1, <2>2, <2>3, <2>4
  <1>5. ASSUME NEW c \in Caller
        PROVE  /\ op'[c].n <= calls' /\ result'[c].n <= op'[c].n
               /\ pc'[c] # "idle" => result'[c].n < op'[c].n
    <2>1. CASE pc[c] = "idle" /\ op'[c].n = calls' /\ calls' = calls + 1
      BY <1>0, <1>1, <1>3, <1>4, <2>1
    <2>2. CASE op'[c] = op[c] /\ (pc'[c] # "idle" => pc[c] # "idle")
      BY <1>0, <1>1, <1>3, <1>4, <2>2
    <2>. QED
      BY <1>2, <2>1, <2>2
  <1>7. ASSUME NEW c \in Caller, NEW d \in Caller, c # d
        PROVE  op'[c].n # op'[d].n \/ op'[c].n = 0
    <2>1. op[c].n # op[d].n \/ op[c].n = 0
      BY <1>7 DEF NumberInv
    <2>. QED
      BY <1>0, <1>1, <1>2, <1>7, <2>1
  <1>8. ASSUME NEW c \in Caller, NEW d \in Caller, c # d
        PROVE  result'[c].n # op'[d].n \/ result'[c].n = 0
    <2>1. result[c].n # op[d].n \/ result[c].n = 0
      BY <1>8 DEF NumberInv
    <2>2. CASE result'[c] = result[c]
      BY <1>0, <1>1, <1>2, <1>8, <2>1, <2>2
    <2>3. CASE result'[c].n = op'[c].n
      BY <1>7, <1>8, <2>3
    <2>. QED
      BY <1>3, <2>2, <2>3
  <1>9. ASSUME NEW j \in DOMAIN inbox PROVE inbox[j].op.n \in Nat
    <2>1. inbox[j] \in Request
      BY <1>0, LenProperties
    <2>. QED
      BY <1>0, <2>1 DEF Request, Op
  <1>10. ASSUME NEW j \in DOMAIN inbox' PROVE inbox'[j].op.n <= calls'
    <2>1. CASE \E k \in DOMAIN inbox : inbox'[j] = inbox[k]
      BY <1>0, <1>4, <1>9, <2>1 DEF NumberInv
    <2>2. ASSUME NEW C \in Seq(Caller), Post(C), op' \in [Caller -> Op]
          PROVE  inbox'[j].op.n <= calls'
      <3>1. CASE j \in DOMAIN inbox /\ inbox'[j] = inbox[j]
        BY <2>1, <3>1
      <3>2. CASE \E k \in DOMAIN C : inbox'[j].op = op'[C[k]]
        <4>1. \A k \in DOMAIN C : C[k] \in Caller
          BY LenProperties
        <4>. QED
          BY <1>5, <3>2, <4>1
      <3>. QED
        BY <2>2, <3>1, <3>2, PostAdds
    <2>3. ASSUME NEW c \in Caller, StartCall(c) \/ StartClose(c) \/ Retry(c)
          PROVE  inbox'[j].op.n <= calls'
      <3>1. PICK o \in Op : Attempt(c, o)
        BY <2>3, Begins
      <3>2. << c >> \in Seq(Caller)
        OBVIOUS
      <3>4. op' \in [Caller -> Op]
        BY <3>1, Attempts
      <3>3. inbox' = inbox \/ inbox' = << >> \/ Post(<< c >>)
        BY <3>1, Attempts
      <3>5. CASE Post(<< c >>)
        BY <2>2, <3>2, <3>4, <3>5
      <3>. QED
        BY <2>1, <3>3, <3>5
    <2>4. CASE Ready
      BY <1>0, <2>2, <2>4 DEF Ready, Typed, TypeOK
    <2>5. CASE NotReady \/ Answered \/ WorkerError \/ Closed \/ UNCHANGED vars
      BY <2>1, <2>5
      DEF NotReady, Answered, WorkerError, Closed, vars, workerVars
    <2>6. CASE Execute \/ ExecuteFails \/ CloseDatabase
      <3>1. inbox # << >> /\ inbox' = Tail(inbox)
        BY <2>6, Handles
      <3>2. j + 1 \in DOMAIN inbox /\ inbox'[j] = inbox[j + 1]
        BY <1>0, <3>1, TailOf
      <3>. QED
        BY <2>1, <3>2
    <2>7. CASE Started \/ StartFails \/ Terminate \/ Dies
      <3>1. inbox' = inbox \/ inbox' = << >>
        BY <2>7 DEF Started, StartFails, Terminate, Dies, Stops
      <3>. QED
        BY <2>1, <3>1
    <2>. QED
      BY <2>3, <2>4, <2>5, <2>6, <2>7 DEF Next, MainStep, WorkerStep
  <1>11. ASSUME NEW n \in CallNo, n > calls' PROVE ran'[n] = 0
    <2>1. ran[n] = 0
      BY <1>0, <1>4, <1>11 DEF NumberInv
    <2>2. CASE inbox # << >> /\ Executed(Head(inbox)) /\ calls' = calls
      <3>1. Head(inbox).op.n <= calls /\ Head(inbox).op.n \in Nat
        BY <1>0, <1>9, <2>2, TailOf DEF NumberInv
      <3>2. ran' = [ran EXCEPT ![Head(inbox).op.n] = @ + 1]
        BY <2>2 DEF Executed
      <3>3. n # Head(inbox).op.n
        BY <1>0, <1>11, <2>2, <3>1
      <3>. QED
        BY <1>0, <2>1, <3>2, <3>3
    <2>. QED
      BY <2>1, <2>2, Runs
  <1>. QED
    BY <1>5, <1>7, <1>8, <1>10, <1>11 DEF NumberInv

LEMMA OrderStep ==
  ASSUME Typed, StartInv, WaitInv, NumberInv, OrderInv, [Next]_vars, Typed', NumberInv'
  PROVE  OrderInv'
PROOF
  <1>0. /\ line \in Seq(Caller) /\ inbox \in Seq(Request) /\ outbox \in Seq(Answer)
        /\ op \in [Caller -> Op] /\ calls \in Nat /\ newest \in Nat /\ calls' \in Nat
        /\ pending \in [DOMAIN pending -> Caller] /\ nextId \in Nat
        /\ attempt \in [Caller -> 0 .. Retries]
    <2>1. calls' \in Nat
      BY BoundsAssumption DEF Typed, TypeOK, CallNo
    <2>2. calls \in Nat /\ newest \in Nat /\ nextId \in Nat
      BY BoundsAssumption DEF Typed, TypeOK, CallNo, Id
    <2>. QED
      BY <2>1, <2>2 DEF Typed, TypeOK
  <1>1. \A c \in Caller : pc'[c] = "backoff" => attempt'[c] > 0
    BY Backoffs DEF OrderInv
  <1>2. \A j \in DOMAIN line : line[j] \in Caller /\ j \in 1 .. Len(line)
    BY <1>0, LenProperties
  <1>3. \A j \in DOMAIN inbox : /\ j \in 1 .. Len(inbox) /\ inbox[j].op.n \in Nat
                                /\ inbox[j].op.n <= calls
    <2>1. \A j \in DOMAIN inbox : j \in 1 .. Len(inbox) /\ inbox[j] \in Request
      BY <1>0, LenProperties
    <2>. QED
      BY <2>1 DEF NumberInv, Request, Op, CallNo
  <1>4. \A c \in Caller : op[c].n \in Nat /\ op[c].n <= calls
    BY <1>0 DEF NumberInv, Op, CallNo
  \* Steps that move neither the line nor what is executed.
  <1>5. ASSUME newest' = newest, inbox' = inbox \/ inbox' = << >>,
               calls' = calls, op' = op,
               ready' = "pending" => /\ ready = "pending" /\ line' = line
                                     /\ \A j \in DOMAIN line :
                                          attempt'[line[j]] = attempt[line[j]]
        PROVE  OrderInv'
    <2>1. \A j \in DOMAIN inbox' : j \in DOMAIN inbox /\ inbox'[j] = inbox[j]
      BY <1>5
    <2>2. newest' <= calls'
      BY <1>5 DEF OrderInv
    <2>3. /\ \A j \in DOMAIN inbox' : inbox'[j].first => inbox'[j].op.n > newest'
          /\ \A j, k \in DOMAIN inbox' :
               j < k /\ inbox'[j].first /\ inbox'[k].first =>
                 inbox'[j].op.n < inbox'[k].op.n
      BY <1>5, <2>1 DEF OrderInv
    <2>4. ready' = "pending" =>
            /\ \A j \in DOMAIN line' :
                 attempt'[line'[j]] = 0 => op'[line'[j]].n > newest'
            /\ \A j, k \in DOMAIN line' :
                 j < k /\ attempt'[line'[j]] = 0 /\ attempt'[line'[k]] = 0 =>
                   op'[line'[j]].n < op'[line'[k]].n
      BY <1>5 DEF OrderInv
    <2>. QED
      BY <1>1, <2>2, <2>3, <2>4 DEF OrderInv
  <1>6. ASSUME NEW c \in Caller, StartCall(c) \/ StartClose(c) \/ Retry(c)
        PROVE  OrderInv'
    <2>1. pc[c] \in {"idle", "backoff"}
      BY <1>6, Begins
    <2>2. PICK o \in Op :
            /\ Attempt(c, o)
            /\ \/ /\ pc[c] = "idle" /\ calls' = calls + 1 /\ o.n = calls'
               \/ pc[c] = "backoff" /\ calls' = calls /\ o = op[c]
      BY <1>6, Begins
    <2>3. /\ op' = [op EXCEPT ![c] = o] /\ newest' = newest
      BY <2>2, Attempts
    <2>4. /\ newest <= calls /\ calls <= calls' /\ newest' <= calls'
          /\ attempt[c] = 0 => op'[c].n = calls' /\ calls' = calls + 1
      BY <1>0, <2>2, <2>3 DEF OrderInv
    <2>5. ready = "pending" => \A j \in DOMAIN line : /\ line[j] # c
                                                      /\ op'[line[j]] = op[line[j]]
      BY <1>0, <1>2, <2>1, <2>3 DEF WaitInv
    <2>6. CASE ready = "none"
      <3>1. /\ ready' = "pending" /\ line' = << c >> /\ inbox' = << >>
            /\ Waits({c}, "ready")
        BY <2>2, <2>6, Attempts
      <3>2. attempt' = attempt
        BY <3>1, Moves
      <3>3. \A j \in DOMAIN line' : j = 1 /\ line'[j] = c
        BY <3>1
      <3>. QED
        BY <1>0, <1>1, <2>3, <2>4, <3>1, <3>2, <3>3 DEF OrderInv
    <2>7. CASE ready = "pending"
      <3>1. /\ ready' = "pending" /\ line' = Append(line, c) /\ inbox' = inbox
            /\ Waits({c}, "ready")
        BY <2>2, <2>7, Attempts
      <3>2. attempt' = attempt
        BY <3>1, Moves
      <3>3. \A j \in DOMAIN line' :
              \/ j \in DOMAIN line /\ line'[j] = line[j]
              \/ j = Len(line) + 1 /\ line'[j] = c
        BY <1>0, <3>1, AppendOf
      <3>4. /\ \A j \in DOMAIN inbox' : inbox'[j].first => inbox'[j].op.n > newest'
            /\ \A j, k \in DOMAIN inbox' :
                 j < k /\ inbox'[j].first /\ inbox'[k].first =>
                   inbox'[j].op.n < inbox'[k].op.n
        BY <2>3, <3>1 DEF OrderInv
      <3>5. \A j \in DOMAIN line' :
              attempt'[line'[j]] = 0 => op'[line'[j]].n > newest'
        BY <1>0, <2>3, <2>4, <2>5, <2>7, <3>2, <3>3 DEF OrderInv
      <3>6. ASSUME NEW j \in DOMAIN line', NEW k \in DOMAIN line', j < k,
                   attempt'[line'[j]] = 0, attempt'[line'[k]] = 0
            PROVE  op'[line'[j]].n < op'[line'[k]].n
        <4>1. Len(line) \in Nat /\ j \in DOMAIN line /\ line'[j] = line[j]
          <5>1. Len(line) \in Nat
            BY <1>0, LenProperties
          <5>. QED
            BY <1>2, <3>3, <3>6, <5>1
        <4>2. CASE k \in DOMAIN line /\ line'[k] = line[k]
          BY <2>5, <2>7, <3>2, <3>6, <4>1, <4>2 DEF OrderInv
        <4>3. CASE line'[k] = c
          BY <1>0, <1>2, <1>4, <2>4, <2>5, <2>7, <3>2, <3>6, <4>1, <4>3
        <4>. QED
          BY <3>3, <4>2, <4>3
      <3>. QED
        BY <1>1, <2>4, <3>4, <3>5, <3>6 DEF OrderInv
    <2>8. CASE ready = "ok"
      <3>1. ready' = "ok" /\ Post(<< c >>) /\ op' \in [Caller -> Op]
        BY <2>2, <2>8, Attempts
      <3>2. << c >> \in Seq(Caller) /\ DOMAIN << c >> = {1} /\ << c >>[1] = c
        OBVIOUS
      <3>3. \A j \in DOMAIN inbox' :
              \/ j \in DOMAIN inbox /\ inbox'[j] = inbox[j]
              \/ /\ j > Len(inbox) /\ j - Len(inbox) \in DOMAIN << c >>
                 /\ inbox'[j].op = op'[<< c >>[j - Len(inbox)]]
                 /\ inbox'[j].first => attempt[<< c >>[j - Len(inbox)]] = 0
        BY <3>1, <3>2, PostAdds
      <3>4. \A j \in DOMAIN inbox' :
              \/ j \in DOMAIN inbox /\ inbox'[j] = inbox[j]
              \/ /\ j > Len(inbox) /\ j - Len(inbox) = 1
                 /\ inbox'[j].first => inbox'[j].op.n = calls' /\ calls' = calls + 1
        BY <2>4, <3>2, <3>3
      <3>5. \A j \in DOMAIN inbox' : inbox'[j].first => inbox'[j].op.n > newest'
        BY <1>0, <2>3, <2>4, <3>4 DEF OrderInv
      <3>6. ASSUME NEW j \in DOMAIN inbox', NEW k \in DOMAIN inbox', j < k,
                   inbox'[j].first, inbox'[k].first
            PROVE  inbox'[j].op.n < inbox'[k].op.n
        <4>1. Len(inbox) \in Nat
          BY <1>0, LenProperties
        <4>2. j \in Nat /\ k \in Nat
          <5>1. inbox' \in Seq(Request)
            BY DEF Typed, TypeOK
          <5>. QED
            BY <5>1, LenProperties
        <4>3. j \in DOMAIN inbox /\ inbox'[j] = inbox[j]
          BY <1>3, <3>4, <3>6, <4>1, <4>2
        <4>4. CASE k \in DOMAIN inbox /\ inbox'[k] = inbox[k]
          BY <3>6, <4>3, <4>4 DEF OrderInv
        <4>5. CASE inbox'[k].op.n = calls' /\ calls' = calls + 1
          BY <1>0, <1>3, <4>3, <4>5
        <4>. QED
          BY <3>4, <3>6, <4>4, <4>5
      <3>. QED
        BY <1>1, <2>4, <3>1, <3>5, <3>6 DEF OrderInv
    <2>9. CASE ready = "failed"
      <3>1. ready' = "failed" /\ inbox' = inbox
        BY <2>2, <2>9, Attempts
      <3>. QED
        BY <1>1, <2>3, <2>4, <3>1 DEF OrderInv
    <2>. QED
      BY <2>6, <2>7, <2>8, <2>9 DEF Typed, TypeOK
  <1>7. CASE Ready
    <2>1. /\ Post(line) /\ ready' = "ok" /\ op' = op /\ newest' = newest /\ calls' = calls
          /\ outbox # << >> /\ Head(outbox).id = 0
      BY <1>7 DEF Ready, historyVars
    <2>2. ready = "pending" /\ inbox = << >> /\ Len(inbox) = 0 /\ DOMAIN inbox = {}
      BY <1>0, <2>1, TailOf DEF StartInv, WaitInv
    <2>3. \A j \in DOMAIN inbox' :
            \/ j \in DOMAIN inbox /\ inbox'[j] = inbox[j]
            \/ /\ j > Len(inbox) /\ j - Len(inbox) \in DOMAIN line
               /\ inbox'[j].op = op'[line[j - Len(inbox)]]
               /\ inbox'[j].first => attempt[line[j - Len(inbox)]] = 0
      BY <1>0, <2>1, PostAdds
    <2>4. \A j \in DOMAIN inbox' : j \in Nat
      <3>1. inbox' \in Seq(Request)
        BY DEF Typed, TypeOK
      <3>. QED
        BY <3>1, LenProperties
    <2>5. \A j \in DOMAIN inbox' : /\ j \in DOMAIN line /\ inbox'[j].op = op[line[j]]
                                   /\ inbox'[j].first => attempt[line[j]] = 0
      <3>. TAKE j \in DOMAIN inbox'
      <3>1. j - Len(inbox) = j
        BY <2>2, <2>4
      <3>. QED
        BY <2>1, <2>2, <2>3, <3>1
    <2>. QED
      BY <1>1, <2>1, <2>2, <2>5 DEF OrderInv
  <1>8. CASE NotReady
    <2>1. /\ ready' = "failed" /\ UNCHANGED <<newest, inbox, calls, op>>
      BY <1>8 DEF NotReady, historyVars
    <2>. QED
      BY <1>5, <2>1
  <1>9. CASE Answered \/ WorkerError
    <2>1. /\ UNCHANGED <<newest, inbox, calls, op, ready, line>>
      BY <1>9 DEF Answered, WorkerError, historyVars
    <2>2. ASSUME ready = "pending", NEW j \in DOMAIN line
          PROVE  attempt'[line[j]] = attempt[line[j]]
      <3>1. line[j] \in Caller /\ \A i \in DOMAIN pending : pending[i] # line[j]
        BY <1>2, <2>2 DEF WaitInv
      <3>2. ASSUME NEW i \in DOMAIN pending, NEW of, Resolve(pending[i], of)
            PROVE  attempt'[line[j]] = attempt[line[j]]
        BY <1>0, <3>1, <3>2 DEF Resolve
      <3>3. ASSUME NEW i \in DOMAIN pending, Reject({pending[i]})
            PROVE  attempt'[line[j]] = attempt[line[j]]
        BY <3>1, <3>3, Moves
      <3>4. ASSUME Reject({pending[i] : i \in DOMAIN pending})
            PROVE  attempt'[line[j]] = attempt[line[j]]
        BY <3>1, <3>4, Moves
      <3>. QED
        BY <1>9, <3>2, <3>3, <3>4 DEF Answered, WorkerError
    <2>. QED
      BY <1>5, <2>1, <2>2
  <1>10. CASE Closed
    <2>1. /\ ready' = "none" /\ UNCHANGED <<newest, inbox, calls, op>>
      BY <1>10 DEF Closed, historyVars
    <2>. QED
      BY <1>5, <2>1
  <1>11. CASE Execute \/ ExecuteFails \/ CloseDatabase
    <2>1. /\ inbox # << >> /\ inbox' = Tail(inbox) /\ UNCHANGED <<ready, calls, line>>
      BY <1>11, Handles
    <2>2. ready # "pending"
      BY <2>1 DEF WaitInv
    <2>3. /\ 1 \in DOMAIN inbox /\ Head(inbox) = inbox[1]
          /\ \A j \in DOMAIN inbox' : /\ j \in Nat \ {0} /\ j + 1 \in DOMAIN inbox
                                      /\ inbox'[j] = inbox[j + 1]
      BY <1>0, <2>1, TailOf
    <2>4. \/ newest' = newest
          \/ newest' = inbox[1].op.n /\ inbox[1].first
      BY <2>3, Runs DEF Executed
    <2>5. newest' <= calls'
      BY <1>3, <2>1, <2>3, <2>4 DEF OrderInv
    <2>6. ASSUME NEW j \in DOMAIN inbox', inbox'[j].first
          PROVE  inbox'[j].op.n > newest'
      <3>1. j + 1 \in DOMAIN inbox /\ inbox'[j] = inbox[j + 1] /\ 1 < j + 1
        BY <2>3
      <3>2. CASE newest' = newest
        BY <2>6, <3>1, <3>2 DEF OrderInv
      <3>3. CASE newest' = inbox[1].op.n /\ inbox[1].first
        <4>1. inbox[1].op.n < inbox[j + 1].op.n
          BY <2>3, <2>6, <3>1, <3>3 DEF OrderInv
        <4>. QED
          BY <1>3, <2>3, <3>1, <3>3, <4>1
      <3>. QED
        BY <2>4, <3>2, <3>3
    <2>7. ASSUME NEW j \in DOMAIN inbox', NEW k \in DOMAIN inbox', j < k,
                 inbox'[j].first, inbox'[k].first
          PROVE  inbox'[j].op.n < inbox'[k].op.n
      <3>1. /\ j + 1 \in DOMAIN inbox /\ inbox'[j] = inbox[j + 1]
            /\ k + 1 \in DOMAIN inbox /\ inbox'[k] = inbox[k + 1] /\ j + 1 < k + 1
        BY <2>3, <2>7
      <3>. QED
        BY <2>7, <3>1 DEF OrderInv
    <2>. QED
      BY <1>1, <2>1, <2>2, <2>5, <2>6, <2>7 DEF OrderInv
  <1>12. CASE Started \/ StartFails \/ Terminate \/ UNCHANGED vars
    <2>1. /\ UNCHANGED <<newest, calls, op, ready, line, attempt>>
          /\ inbox' = inbox \/ inbox' = << >>
      BY <1>12 DEF Started, StartFails, Terminate, Stops, vars, mainVars, workerVars,
                   callVars, historyVars
    <2>. QED
      BY <1>5, <2>1
  <1>13. CASE Dies
    <2>1. /\ UNCHANGED <<calls, op, ready, line, attempt>> /\ inbox' = << >>
      BY <1>13 DEF Dies, Stops, mainVars, callVars
    <2>2. CASE newest' = newest
      BY <1>5, <2>1, <2>2
    <2>3. CASE newest' # newest
      <3>1. inbox # << >> /\ newest' = Head(inbox).op.n
        BY <2>3, Runs DEF Executed
      <3>2. ready # "pending" /\ newest' <= calls'
        BY <1>0, <1>3, <2>1, <3>1, TailOf DEF WaitInv
      <3>. QED
        BY <1>1, <2>1, <3>2 DEF OrderInv
    <2>. QED
      BY <2>2, <2>3
  <1>. QED
    BY <1>6, <1>7, <1>8, <1>9, <1>10, <1>11, <1>12, <1>13
    DEF Next, MainStep, WorkerStep

LEMMA NumberInit == Init => NumberInv /\ OrderInv
PROOF
  <1>. SUFFICES ASSUME Init PROVE NumberInv /\ OrderInv
    OBVIOUS
  <1>1. DOMAIN inbox = {} /\ DOMAIN line = {} /\ ready = "none"
    BY DEF Init
  <1>. QED
    BY <1>1 DEF Init, NumberInv, OrderInv

(* The first attempts of calls are executed in the order in which the calls *)
(* were made, also those that waited for the worker to start: whoever       *)
(* awaits ensureWorker is resumed in order, and messages are not overtaken. *)
THEOREM RunsInOrder == Spec => CallsRunInOrder
PROOF
  <1>. DEFINE I == Typed /\ StartInv /\ WaitInv /\ MailInv /\ NumberInv /\ OrderInv
  <1>1. Init => I
    <2>1. Init => WaitInv /\ StartInv /\ MailInv
      BY DEF Init, WaitInv, StartInv, MailInv
    <2>. QED
      BY <2>1, TypedInit, NumberInit
  <1>2. I /\ [Next]_vars => I'
    BY TypeStep, StartStep, WaitStep, MailStep, NumberStep, OrderStep
  <1>3. I /\ [Next]_vars => newest' >= newest
    <2>. SUFFICES ASSUME I, [Next]_vars PROVE newest' >= newest
      OBVIOUS
    <2>1. newest \in Nat /\ inbox \in Seq(Request)
      BY DEF Typed, TypeOK, CallNo
    <2>2. CASE newest' = newest
      BY <2>1, <2>2
    <2>3. CASE newest' # newest
      <3>1. /\ inbox # << >> /\ newest' = Head(inbox).op.n /\ Head(inbox).first
        BY <2>3, Runs DEF Executed
      <3>2. Head(inbox).op.n > newest
        BY <2>1, <3>1, TailOf DEF OrderInv
      <3>3. Head(inbox).op.n \in Nat
        BY <3>1, NextRequest DEF CallNo
      <3>. QED
        BY <2>1, <3>1, <3>2, <3>3
    <2>. QED
      BY <2>2, <2>3
  <1>. QED
    BY <1>1, <1>2, <1>3, PTL DEF Spec, CallsRunInOrder

-----------------------------------------------------------------------------
(* What is executed, and what is told                                      *)

\* Every count of executions only grows.
LEMMA RanGrows ==
  ASSUME Typed, [Next]_vars
  PROVE  /\ \A n \in CallNo : ran'[n] >= ran[n] /\ ran'[n] \in Nat
         /\ \A n \in CallNo :
              \/ ran'[n] = ran[n]
              \/ inbox # << >> /\ n = Head(inbox).op.n /\ ran'[n] = ran[n] + 1
PROOF
  <1>0. ran \in [CallNo -> Nat]
    BY DEF Typed, TypeOK
  <1>1. CASE ran' = ran
    BY <1>0, <1>1
  <1>2. CASE inbox # << >> /\ Executed(Head(inbox))
    <2>1. ran' = [ran EXCEPT ![Head(inbox).op.n] = @ + 1]
      BY <1>2 DEF Executed
    <2>. QED
      BY <1>0, <1>2, <2>1
  <1>. QED
    BY <1>1, <1>2, Runs

\* A caller that waits for an answer keeps its call while it waits.
LEMMA Keeps ==
  ASSUME Typed, WaitInv, [Next]_vars, NEW i \in DOMAIN pending
  PROVE  /\ op'[pending[i]] = op[pending[i]] /\ pending[i] \in Caller
         /\ i \in DOMAIN pending' => pending'[i] = pending[i]
PROOF
  <1>0. /\ op \in [Caller -> Op] /\ pending \in [DOMAIN pending -> Caller]
        /\ pc[pending[i]] = "sent" /\ line \in Seq(Caller) /\ nextId \in Nat
        /\ i \in Nat /\ i < nextId
    BY DEF Typed, TypeOK, WaitInv, Id
  <1>1. ASSUME NEW C \in Seq(Caller), Post(C), op' \in [Caller -> Op]
        PROVE  pending'[i] = pending[i] \/ i \notin DOMAIN pending'
    BY <1>0, <1>1, PostAdds
  <1>2. ASSUME NEW c \in Caller, StartCall(c) \/ StartClose(c) \/ Retry(c)
        PROVE  /\ op'[pending[i]] = op[pending[i]]
               /\ i \in DOMAIN pending' => pending'[i] = pending[i]
    <2>1. PICK o \in Op : Attempt(c, o) /\ pc[c] \in {"idle", "backoff"}
      BY <1>2, Begins
    <2>2. op' = [op EXCEPT ![c] = o] /\ op' \in [Caller -> Op]
      BY <2>1, Attempts
    <2>3. pending' = pending \/ Post(<< c >>)
      BY <2>1, Attempts
    <2>4. << c >> \in Seq(Caller)
      OBVIOUS
    <2>5. Post(<< c >>) => (i \in DOMAIN pending' => pending'[i] = pending[i])
      BY <1>1, <2>2, <2>4
    <2>6. op'[pending[i]] = op[pending[i]]
      BY <1>0, <2>1, <2>2
    <2>. QED
      BY <2>3, <2>5, <2>6
  <1>3. CASE Ready
    <2>1. Post(line) /\ op' = op
      BY <1>3 DEF Ready
    <2>. QED
      BY <1>0, <1>1, <2>1
  <1>4. CASE NotReady \/ Answered \/ WorkerError \/ Closed
    BY <1>0, <1>4 DEF NotReady, Answered, WorkerError, Closed
  <1>5. CASE Execute \/ ExecuteFails \/ CloseDatabase
    BY <1>0, <1>5, Handles
  <1>6. CASE Started \/ StartFails \/ Terminate \/ Dies \/ UNCHANGED vars
    BY <1>0, <1>6
    DEF Started, StartFails, Terminate, Dies, vars, callVars, mainVars
  <1>. QED
    BY <1>0, <1>2, <1>3, <1>4, <1>5, <1>6 DEF Next, MainStep, WorkerStep

LEMMA RanStep ==
  ASSUME Typed, WaitInv, MailInv, NumberInv, RanInv, [Next]_vars
  PROVE  RanInv'
PROOF
  <1>0. /\ outbox \in Seq(Answer) /\ result \in [Caller -> Result]
        /\ ran \in [CallNo -> Nat] /\ inbox \in Seq(Request) /\ op \in [Caller -> Op]
        /\ \A j \in DOMAIN outbox : outbox[j] \in Answer
    <2>1. outbox \in Seq(Answer)
      BY DEF Typed, TypeOK
    <2>. QED
      BY <2>1, LenProperties DEF Typed, TypeOK
  <1>1. ASSUME NEW j \in DOMAIN outbox', NEW k \in DOMAIN outbox, outbox'[j] = outbox[k],
               outbox'[j].ok, outbox'[j].id \in DOMAIN pending'
        PROVE  op'[pending'[outbox'[j].id]].close \/ ran'[outbox'[j].of] > 0
    <2>1. outbox[k].id \in Nat /\ outbox[k].of \in CallNo /\ outbox[k].id < nextId
      BY <1>0 DEF Answer, Id, MailInv
    <2>2. outbox[k].id \in DOMAIN pending
      <3>1. CASE \E C \in Seq(Caller) : Post(C) /\ op' \in [Caller -> Op]
        BY <1>1, <2>1, <3>1, PostAdds DEF Typed, TypeOK, Id
      <3>2. CASE DOMAIN pending' \subseteq DOMAIN pending
        BY <1>1, <3>2
      <3>3. ASSUME NEW c \in Caller, StartCall(c) \/ StartClose(c) \/ Retry(c)
            PROVE  outbox[k].id \in DOMAIN pending
        <4>1. PICK o \in Op : Attempt(c, o)
          BY <3>3, Begins
        <4>2. op' \in [Caller -> Op] /\ (pending' = pending \/ Post(<< c >>))
          BY <4>1, Attempts
        <4>3. << c >> \in Seq(Caller)
          OBVIOUS
        <4>. QED
          BY <3>1, <3>2, <4>2, <4>3
      <3>4. CASE Ready
        BY <1>0, <3>1, <3>4 DEF Ready, Typed, TypeOK
      <3>5. CASE NotReady \/ Answered \/ WorkerError \/ Closed
        BY <3>2, <3>5 DEF NotReady, Answered, WorkerError, Closed
      <3>6. CASE Execute \/ ExecuteFails \/ CloseDatabase
        BY <3>2, <3>6, Handles
      <3>7. CASE Started \/ StartFails \/ Terminate \/ Dies \/ UNCHANGED vars
        BY <3>2, <3>7 DEF Started, StartFails, Terminate, Dies, vars, mainVars
      <3>. QED
        BY <3>3, <3>4, <3>5, <3>6, <3>7 DEF Next, MainStep, WorkerStep
    <2>3. op[pending[outbox[k].id]].close \/ ran[outbox[k].of] > 0
      BY <1>1, <2>2 DEF RanInv
    <2>4. op'[pending'[outbox[k].id]] = op[pending[outbox[k].id]]
      BY <1>1, <2>2, Keeps
    <2>5. ran'[outbox[k].of] >= ran[outbox[k].of] /\ ran[outbox[k].of] \in Nat
          /\ ran'[outbox[k].of] \in Nat
      BY <1>0, <2>1, RanGrows
    <2>. QED
      BY <1>1, <2>3, <2>4, <2>5
  <1>2. ASSUME NEW j \in DOMAIN outbox', outbox'[j].ok,
               outbox'[j].id \in DOMAIN pending'
        PROVE  op'[pending'[outbox'[j].id]].close \/ ran'[outbox'[j].of] > 0
    <2>1. CASE \E k \in DOMAIN outbox : outbox'[j] = outbox[k]
      BY <1>1, <1>2, <2>1
    <2>2. ASSUME outbox # << >>, outbox' = Tail(outbox)
          PROVE  \E k \in DOMAIN outbox : outbox'[j] = outbox[k]
      BY <1>0, <2>2, TailOf
    <2>3. CASE UNCHANGED outbox
      BY <2>1, <2>3
    <2>4. ASSUME NEW c \in Caller, StartCall(c) \/ StartClose(c) \/ Retry(c)
          PROVE  UNCHANGED outbox
      BY <2>4, Begins, Attempts
    <2>5. CASE Ready \/ NotReady \/ Answered \/ WorkerError \/ Closed
      <3>1. outbox' = outbox \/ (outbox # << >> /\ outbox' = Tail(outbox))
        BY <2>5 DEF Ready, NotReady, Answered, WorkerError, Closed
      <3>. QED
        BY <2>1, <2>2, <2>3, <3>1
    <2>6. CASE Started \/ StartFails
      <3>1. ASSUME NEW ok \in BOOLEAN
            PROVE  LET m == [id |-> 0, ok |-> ok, of |-> 0] IN m \in Answer /\ m.id = 0
        BY BoundsAssumption DEF Answer, CallNo
      <3>2. PICK m \in Answer : m.id = 0 /\ outbox' = Append(outbox, m)
        BY <2>6, <3>1 DEF Started, StartFails, Say
      <3>3. \/ outbox'[j].id = 0
            \/ j \in DOMAIN outbox /\ outbox'[j] = outbox[j]
        BY <1>0, <3>2, AppendOf
      <3>4. 0 \notin DOMAIN pending'
        BY <2>6 DEF Started, StartFails, mainVars, Typed, TypeOK, Id
      <3>. QED
        BY <1>2, <2>1, <3>3, <3>4
    <2>7. CASE Execute \/ ExecuteFails \/ CloseDatabase
      <3>. DEFINE r == Head(inbox)
      <3>1. /\ inbox # << >> /\ pending' = pending /\ op' = op
            /\ \/ j \in DOMAIN outbox /\ outbox'[j] = outbox[j]
               \/ /\ outbox'[j].id = r.id /\ outbox'[j].of = r.op.n
                  /\ outbox'[j].ok => r.op.close \/ Executed(r)
        BY <2>7, Handles
      <3>2. CASE outbox'[j].id = r.id /\ outbox'[j].of = r.op.n /\ r.op.close
        <4>1. op[pending[r.id]] = r.op
          BY <1>0, <1>2, <3>1, <3>2, TailOf DEF MailInv
        <4>. QED
          BY <3>1, <3>2, <4>1
      <3>3. CASE outbox'[j].of = r.op.n /\ Executed(r)
        <4>1. r.op.n \in CallNo /\ ran' = [ran EXCEPT ![r.op.n] = @ + 1]
          BY <3>1, <3>3, NextRequest DEF Executed
        <4>. HIDE DEF r
        <4>2. ran'[r.op.n] > 0
          BY <1>0, <4>1
        <4>. QED
          BY <3>3, <4>2
      <3>. QED
        BY <1>2, <2>1, <3>1, <3>2, <3>3
    <2>8. CASE Terminate \/ Dies \/ UNCHANGED vars
      BY <2>3, <2>8 DEF Terminate, Dies, vars, workerVars
    <2>. QED
      BY <2>3, <2>4, <2>5, <2>6, <2>7, <2>8 DEF Next, MainStep, WorkerStep
  <1>3. ASSUME NEW c \in Caller, result'[c].ok, result'[c].n > 0
        PROVE  ran'[result'[c].n] > 0
    <2>1. CASE result'[c] = result[c]
      <3>1. result[c].n \in CallNo /\ ran[result[c].n] > 0
        BY <1>0, <1>3, <2>1 DEF RanInv, Result
      <3>. QED
        BY <1>0, <2>1, <3>1, RanGrows
    <2>2. CASE /\ result'[c] = [ok |-> TRUE, n |-> op[c].n, of |-> op[c].n]
               /\ ~ op[c].close /\ ran' = ran
               /\ outbox # << >> /\ Head(outbox).ok
               /\ Head(outbox).id \in DOMAIN pending
               /\ pending[Head(outbox).id] = c /\ Head(outbox).of = op[c].n
      <3>1. 1 \in DOMAIN outbox /\ Head(outbox) = outbox[1]
        BY <1>0, <2>2, TailOf
      <3>2. ran[op[c].n] > 0
        BY <2>2, <3>1 DEF RanInv
      <3>. QED
        BY <2>2, <3>2
    <2>. QED
      BY <1>3, <2>1, <2>2, Results
  <1>. QED
    BY <1>2, <1>3 DEF RanInv

-----------------------------------------------------------------------------
(* Requests under way                                                      *)

\* What is left of a sequence when nothing, its head or all of it is taken.
Rest(t, s) == t = s \/ t = << >> \/ (s # << >> /\ t = Tail(s))

LEMMA RestOf ==
  ASSUME NEW S, NEW s \in Seq(S), NEW t, Rest(t, s)
  PROVE  \E d \in {0, 1} : \A j \in DOMAIN t : /\ j \in Nat /\ j + d \in DOMAIN s
                                               /\ t[j] = s[j + d]
PROOF
  <1>1. CASE t = s
    <2>1. \A j \in DOMAIN s : j \in Nat /\ j + 0 = j
      BY LenProperties
    <2>. QED
      BY <1>1, <2>1
  <1>2. CASE t = << >>
    BY <1>2
  <1>3. CASE s # << >> /\ t = Tail(s)
    BY <1>3, TailOf
  <1>. QED
    BY <1>1, <1>2, <1>3 DEF Rest

\* Messages are taken, and nobody stops waiting for the requests left.
LEMMA UniqueRest ==
  ASSUME Typed, UniqueInv, Rest(inbox', inbox), Rest(outbox', outbox),
         \A j \in DOMAIN inbox' : inbox'[j].id \in DOMAIN pending'
  PROVE  UniqueInv'
PROOF
  <1>1. inbox \in Seq(Request) /\ outbox \in Seq(Answer)
    BY DEF Typed, TypeOK
  <1>2. PICK d \in {0, 1} : \A j \in DOMAIN inbox' :
          j \in Nat /\ j + d \in DOMAIN inbox /\ inbox'[j] = inbox[j + d]
    BY <1>1, RestOf
  <1>3. PICK e \in {0, 1} : \A j \in DOMAIN outbox' :
          j \in Nat /\ j + e \in DOMAIN outbox /\ outbox'[j] = outbox[j + e]
    BY <1>1, RestOf
  <1>4. \A j, k \in DOMAIN inbox' : inbox'[j].id = inbox'[k].id => j = k
    <2>. TAKE j, k \in DOMAIN inbox'
    <2>1. inbox'[j].id = inbox'[k].id => j + d = k + d
      BY <1>2 DEF UniqueInv
    <2>. QED
      BY <1>2, <2>1
  <1>. QED
    BY <1>2, <1>3, <1>4 DEF UniqueInv

\* What is posted has ids that no message has yet.
LEMMA UniquePost ==
  ASSUME Typed, MailInv, UniqueInv, Rest(outbox', outbox),
         NEW C \in Seq(Caller), Post(C), op' \in [Caller -> Op]
  PROVE  UniqueInv'
PROOF
  <1>1. /\ inbox \in Seq(Request) /\ outbox \in Seq(Answer) /\ nextId \in Nat
        /\ DOMAIN C = 1 .. Len(C) /\ Len(C) \in Nat /\ Len(inbox) \in Nat
    BY LenProperties DEF Typed, TypeOK, Id
  <1>2. DOMAIN pending \subseteq DOMAIN pending' /\ inbox' \in Seq(Request)
    BY PostTyped
  <1>3. PICK e \in {0, 1} : \A j \in DOMAIN outbox' :
          j \in Nat /\ j + e \in DOMAIN outbox /\ outbox'[j] = outbox[j + e]
    BY <1>1, RestOf
  <1>4. \A j \in DOMAIN inbox' : j \in Nat
    BY <1>2, LenProperties
  <1>5. \A j \in DOMAIN inbox : inbox[j].id \in Nat /\ inbox[j].id < nextId
    <2>1. \A j \in DOMAIN inbox : inbox[j] \in Request
      BY <1>1, LenProperties
    <2>. QED
      BY <2>1 DEF MailInv, Request, Id
  <1>6. \A j \in DOMAIN outbox : outbox[j].id \in Nat /\ outbox[j].id < nextId
    <2>1. \A j \in DOMAIN outbox : outbox[j] \in Answer
      BY <1>1, LenProperties
    <2>. QED
      BY <2>1 DEF MailInv, Answer, Id
  <1>7. ASSUME NEW j \in DOMAIN inbox'
        PROVE  \/ j \in DOMAIN inbox /\ inbox'[j] = inbox[j]
               \/ /\ inbox'[j].id = nextId + (j - Len(inbox)) - 1
                  /\ inbox'[j].id >= nextId /\ inbox'[j].id \in DOMAIN pending'
    <2>1. CASE LET k == j - Len(inbox) IN
               /\ k \in DOMAIN C /\ inbox'[j].id = nextId + k - 1
               /\ inbox'[j].id \in DOMAIN pending'
      BY <1>1, <1>4, <2>1
    <2>. QED
      BY <2>1, PostAdds
  <1>8. ASSUME NEW j \in DOMAIN inbox', NEW k \in DOMAIN inbox',
               inbox'[j].id = inbox'[k].id
        PROVE  j = k
    <2>1. CASE j \in DOMAIN inbox /\ inbox'[j] = inbox[j]
               /\ k \in DOMAIN inbox /\ inbox'[k] = inbox[k]
      BY <1>8, <2>1 DEF UniqueInv
    <2>2. CASE inbox'[j].id = nextId + (j - Len(inbox)) - 1
               /\ inbox'[k].id = nextId + (k - Len(inbox)) - 1
      <3>1. nextId + (j - Len(inbox)) - 1 = nextId + (k - Len(inbox)) - 1
        BY <1>8, <2>2
      <3>2. \A l, n, x, y \in Nat : n + (x - l) - 1 = n + (y - l) - 1 => x = y
        OBVIOUS
      <3>. QED
        BY <1>1, <1>4, <3>1, <3>2
    <2>. QED
      BY <1>1, <1>5, <1>7, <1>8, <2>1, <2>2
  <1>9. ASSUME NEW j \in DOMAIN inbox', NEW k \in DOMAIN outbox'
        PROVE  inbox'[j].id # outbox'[k].id
    <2>1. k + e \in DOMAIN outbox /\ outbox'[k] = outbox[k + e]
      BY <1>3
    <2>2. outbox'[k].id < nextId /\ outbox'[k].id \in Nat
      BY <1>6, <2>1
    <2>3. CASE j \in DOMAIN inbox /\ inbox'[j] = inbox[j]
      BY <2>1, <2>3 DEF UniqueInv
    <2>4. CASE inbox'[j].id >= nextId
      BY <1>1, <2>2, <2>4
    <2>. QED
      BY <1>7, <2>3, <2>4
  <1>10. \A j \in DOMAIN inbox' : inbox'[j].id \in DOMAIN pending'
    BY <1>2, <1>7 DEF UniqueInv
  <1>. QED
    BY <1>8, <1>9, <1>10 DEF UniqueInv

\* A request that the worker handles is taken, and answered under its id.
LEMMA UniqueHandles ==
  ASSUME Typed, UniqueInv, Execute \/ ExecuteFails \/ CloseDatabase
  PROVE  UniqueInv'
PROOF
  <1>. DEFINE r == Head(inbox)
  <1>0. inbox \in Seq(Request)
    BY DEF Typed, TypeOK
  <1>1. /\ inbox # << >> /\ inbox' = Tail(inbox) /\ pending' = pending
        /\ \A j \in DOMAIN outbox' :
             outbox'[j].id = r.id \/ (j \in DOMAIN outbox /\ outbox'[j] = outbox[j])
    BY Handles
  <1>2. /\ 1 \in DOMAIN inbox /\ r = inbox[1]
        /\ \A j \in DOMAIN inbox' : /\ j \in Nat \ {0} /\ j + 1 \in DOMAIN inbox
                                    /\ inbox'[j] = inbox[j + 1]
    BY <1>0, <1>1, TailOf
  <1>3. \A j \in DOMAIN inbox' : inbox'[j].id # r.id
    BY <1>2 DEF UniqueInv
  <1>. HIDE DEF r
  <1>4. \A j, k \in DOMAIN inbox' : inbox'[j].id = inbox'[k].id => j = k
    <2>. TAKE j, k \in DOMAIN inbox'
    <2>1. inbox'[j].id = inbox'[k].id => j + 1 = k + 1
      BY <1>2 DEF UniqueInv
    <2>. QED
      BY <1>2, <2>1
  <1>. QED
    BY <1>1, <1>2, <1>3, <1>4 DEF UniqueInv

\* Only close() terminates the worker.
LEMMA Terminates ==
  ASSUME Typed, [Next]_vars,
         \A c \in Caller : pc[c] = "terminate" => op[c].close, NEW c \in Caller
  PROVE  pc'[c] = "terminate" => op'[c].close
PROOF
  <1>0. /\ pc \in [Caller -> {"idle", "ready", "sent", "backoff", "terminate"}]
        /\ op \in [Caller -> Op] /\ pending \in [DOMAIN pending -> Caller]
    BY DEF Typed, TypeOK
  <1>1. ASSUME NEW C, Reject(C), op'[c] = op[c] \/ c \in C
        PROVE  pc'[c] = "terminate" => op'[c].close
    BY <1>1 DEF Reject
  <1>2. ASSUME NEW C, NEW w, w # "terminate", Waits(C, w), op'[c] = op[c] \/ c \in C
        PROVE  pc'[c] = "terminate" => op'[c].close
    BY <1>2, Moves
  <1>3. ASSUME NEW d \in Caller, StartCall(d) \/ StartClose(d) \/ Retry(d)
        PROVE  pc'[c] = "terminate" => op'[c].close
    <2>1. PICK o \in Op : Attempt(d, o)
      BY <1>3, Begins
    <2>2. op' = [op EXCEPT ![d] = o]
      BY <2>1, Attempts
    <2>3. op'[c] = op[c] \/ c \in {d}
      BY <1>0, <2>2
    <2>4. Waits({d}, "ready") \/ Waits({d}, "sent") \/ Reject({d})
      BY <2>1, Attempts
    <2>. QED
      BY <1>1, <1>2, <2>3, <2>4
  <1>4. CASE Ready \/ NotReady \/ WorkerError \/ Closed
    <2>1. op' = op /\ \E C : Waits(C, "sent") \/ Waits(C, "idle") \/ Reject(C)
      BY <1>4 DEF Ready, NotReady, WorkerError, Closed
    <2>. QED
      BY <1>1, <1>2, <2>1
  <1>5. CASE Answered
    <2>1. op' = op
      BY <1>5 DEF Answered
    <2>2. ASSUME NEW i \in DOMAIN pending, NEW of, Resolve(pending[i], of)
          PROVE  pc'[c] = "terminate" => op'[c].close
      BY <1>0, <2>1, <2>2 DEF Resolve
    <2>. QED
      BY <1>1, <1>5, <2>1, <2>2 DEF Answered
  <1>6. CASE Execute \/ ExecuteFails \/ CloseDatabase
    BY <1>6, Handles
  <1>7. CASE Started \/ StartFails \/ Terminate \/ Dies \/ UNCHANGED vars
    BY <1>7 DEF Started, StartFails, Terminate, Dies, vars, callVars
  <1>. QED
    BY <1>3, <1>4, <1>5, <1>6, <1>7 DEF Next, MainStep, WorkerStep

LEMMA AliveStep ==
  ASSUME Typed, StartInv, MailInv, UniqueInv, AliveInv, [Next]_vars
  PROVE  UniqueInv' /\ AliveInv'
PROOF
  <1>0. /\ outbox \in Seq(Answer) /\ inbox \in Seq(Request) /\ line \in Seq(Caller)
        /\ DOMAIN pending \subseteq Id
    BY DEF Typed, TypeOK
  <1>1. \A c \in Caller : pc'[c] = "terminate" => op'[c].close
    BY Terminates DEF AliveInv
  <1>2. Rest(inbox, inbox) /\ Rest(outbox, outbox) /\ Rest(<< >>, inbox)
    BY DEF Rest
  <1>3. ASSUME inbox' = << >>, errored' => thread' = "dead"
        PROVE  UniqueInv' /\ AliveInv'
    BY <1>1, <1>3 DEF UniqueInv, AliveInv
  <1>4. ASSUME UNCHANGED <<inbox, thread, errored>>, Rest(outbox', outbox),
               DOMAIN pending \subseteq DOMAIN pending'
        PROVE  UniqueInv' /\ AliveInv'
    <2>1. UniqueInv'
      BY <1>2, <1>4, UniqueRest DEF UniqueInv
    <2>. QED
      BY <1>1, <1>4, <2>1 DEF AliveInv
  <1>5. ASSUME NEW C \in Seq(Caller), Post(C), op' \in [Caller -> Op],
               Rest(outbox', outbox), thread # "none", UNCHANGED <<thread, errored>>
        PROVE  UniqueInv' /\ AliveInv'
    <2>1. UniqueInv'
      BY <1>5, UniquePost
    <2>2. thread' = "dead" => inbox' = << >>
      BY <1>5 DEF Post, AliveInv
    <2>. QED
      BY <1>1, <1>5, <2>1, <2>2 DEF AliveInv
  <1>6. ASSUME outbox # << >>, outbox' = Tail(outbox)
        PROVE  Rest(outbox', outbox) /\ thread # "none"
    BY <1>6 DEF Rest, StartInv
  <1>7. ASSUME NEW c \in Caller, StartCall(c) \/ StartClose(c) \/ Retry(c)
        PROVE  UniqueInv' /\ AliveInv'
    <2>1. PICK o \in Op : Attempt(c, o)
      BY <1>7, Begins
    <2>2. op' \in [Caller -> Op] /\ UNCHANGED <<outbox, errored>>
      BY <2>1, Attempts
    <2>3. CASE ready = "none"
      <3>1. inbox' = << >> /\ ~ errored'
        BY <2>1, <2>2, <2>3, Attempts DEF StartInv, AliveInv
      <3>. QED
        BY <1>3, <3>1
    <2>4. CASE ready = "pending" \/ ready = "failed"
      BY <1>2, <1>4, <2>1, <2>2, <2>4, Attempts
    <2>5. CASE ready = "ok"
      <3>1. Post(<< c >>) /\ thread' = thread /\ thread # "none"
        BY <2>1, <2>5, Attempts DEF StartInv
      <3>2. << c >> \in Seq(Caller)
        OBVIOUS
      <3>. QED
        BY <1>2, <1>5, <2>2, <3>1, <3>2
    <2>. QED
      BY <2>1, <2>3, <2>4, <2>5, Attempts
  <1>8. CASE Ready
    <2>1. Post(line) /\ op' \in [Caller -> Op] /\ UNCHANGED <<thread, errored>>
      BY <1>8 DEF Ready, Typed, TypeOK
    <2>2. Rest(outbox', outbox) /\ thread # "none"
      BY <1>6, <1>8 DEF Ready
    <2>. QED
      BY <1>0, <1>5, <2>1, <2>2
  <1>9. CASE NotReady
    BY <1>4, <1>6, <1>9 DEF NotReady
  <1>10. CASE Answered
    <2>. DEFINE m == Head(outbox)
    <2>1. /\ outbox # << >> /\ outbox' = Tail(outbox)
          /\ pending' = [i \in DOMAIN pending \ {m.id} |-> pending[i]]
          /\ UNCHANGED <<inbox, thread, errored>>
      BY <1>10 DEF Answered
    <2>2. 1 \in DOMAIN outbox /\ m = outbox[1]
      BY <1>0, <2>1, TailOf
    <2>3. \A j \in DOMAIN inbox' : inbox'[j].id \in DOMAIN pending'
      BY <2>1, <2>2 DEF UniqueInv
    <2>4. UniqueInv'
      BY <1>2, <1>6, <2>1, <2>3, UniqueRest
    <2>. QED
      BY <1>1, <2>1, <2>4 DEF AliveInv
  <1>11. CASE WorkerError \/ Closed
    <2>1. inbox' = inbox /\ errored' = FALSE /\ thread = "dead"
      BY <1>11 DEF WorkerError, Closed, AliveInv
    <2>. QED
      BY <1>3, <2>1 DEF AliveInv
  <1>12. CASE Started
    <2>1. /\ UNCHANGED <<inbox, pending, errored>> /\ thread = "starting"
          /\ thread' = "up" /\ outbox = << >>
          /\ outbox' = Append(outbox, [id |-> 0, ok |-> TRUE, of |-> 0])
      BY <1>12 DEF Started, Say, mainVars, StartInv
    <2>2. \A k \in DOMAIN outbox' : outbox'[k].id = 0
      BY <2>1
    <2>3. \A j \in DOMAIN inbox : inbox[j].id # 0
      BY <1>0 DEF UniqueInv, Id
    <2>4. UniqueInv'
      BY <2>1, <2>2, <2>3 DEF UniqueInv
    <2>. QED
      BY <1>1, <2>1, <2>4 DEF AliveInv
  <1>13. CASE StartFails \/ Terminate \/ Dies
    BY <1>3, <1>13 DEF StartFails, Terminate, Dies, Stops
  <1>14. CASE Execute \/ ExecuteFails \/ CloseDatabase
    BY <1>1, <1>14, Handles, UniqueHandles DEF AliveInv
  <1>15. CASE UNCHANGED vars
    BY <1>2, <1>4, <1>15 DEF vars, mainVars, workerVars
  <1>. QED
    BY <1>7, <1>8, <1>9, <1>10, <1>11, <1>12, <1>13, <1>14, <1>15
    DEF Next, MainStep, WorkerStep

-----------------------------------------------------------------------------
(* Nothing is executed twice                                               *)

\* Messages are taken, and nobody stops waiting for those that are left.
LEMMA OnceRest ==
  ASSUME Typed, WaitInv, [Next]_vars, InboxOnce, OutboxOnce, ran' = ran,
         Rest(inbox', inbox), Rest(outbox', outbox),
         \A j \in DOMAIN outbox' : outbox'[j].id # 0 =>
                                     outbox'[j].id \in DOMAIN pending'
  PROVE  InboxOnce' /\ OutboxOnce'
PROOF
  <1>1. inbox \in Seq(Request) /\ outbox \in Seq(Answer)
    BY DEF Typed, TypeOK
  <1>2. PICK d \in {0, 1} : \A j \in DOMAIN inbox' :
          j \in Nat /\ j + d \in DOMAIN inbox /\ inbox'[j] = inbox[j + d]
    BY <1>1, RestOf
  <1>3. PICK e \in {0, 1} : \A j \in DOMAIN outbox' :
          j \in Nat /\ j + e \in DOMAIN outbox /\ outbox'[j] = outbox[j + e]
    BY <1>1, RestOf
  <1>4. InboxOnce'
    BY <1>2 DEF InboxOnce
  <1>5. \A j, k \in DOMAIN outbox' : outbox'[j].id = outbox'[k].id => j = k
    <2>. TAKE j, k \in DOMAIN outbox'
    <2>1. outbox'[j].id = outbox'[k].id => j + e = k + e
      BY <1>3 DEF OutboxOnce
    <2>. QED
      BY <1>3, <2>1
  <1>6. ASSUME NEW j \in DOMAIN outbox', outbox'[j].id # 0
        PROVE  ran'[outbox'[j].of] =
                 IF outbox'[j].ok /\ ~ op'[pending'[outbox'[j].id]].close THEN 1 ELSE 0
    <2>1. j + e \in DOMAIN outbox /\ outbox'[j] = outbox[j + e]
      BY <1>3
    <2>2. outbox'[j].id \in DOMAIN pending /\ outbox'[j].id \in DOMAIN pending'
      BY <1>6, <2>1 DEF OutboxOnce
    <2>3. op'[pending'[outbox'[j].id]] = op[pending[outbox'[j].id]]
      BY <2>2, Keeps
    <2>. QED
      BY <1>6, <2>1, <2>3 DEF OutboxOnce
  <1>. QED
    BY <1>4, <1>5, <1>6 DEF OutboxOnce

\* Requests of calls that were not executed are posted.
LEMMA OncePost ==
  ASSUME Typed, WaitInv, [Next]_vars, InboxOnce, OutboxOnce, ran' = ran,
         NEW C \in Seq(Caller), Post(C), op' \in [Caller -> Op],
         \A k \in DOMAIN C : ran[op'[C[k]].n] = 0, Rest(outbox', outbox)
  PROVE  InboxOnce' /\ OutboxOnce'
PROOF
  <1>1. DOMAIN pending \subseteq DOMAIN pending'
    BY PostTyped
  <1>2. \A j \in DOMAIN inbox' : ran[inbox'[j].op.n] = 0
    BY PostAdds DEF InboxOnce
  <1>3. PICK e \in {0, 1} : \A j \in DOMAIN outbox' :
          j \in Nat /\ j + e \in DOMAIN outbox /\ outbox'[j] = outbox[j + e]
    BY RestOf DEF Typed, TypeOK
  <1>4. \A j \in DOMAIN outbox' : outbox'[j].id # 0 =>
                                    outbox'[j].id \in DOMAIN pending'
    BY <1>1, <1>3 DEF OutboxOnce
  <1>5. \A j, k \in DOMAIN outbox' : outbox'[j].id = outbox'[k].id => j = k
    <2>. TAKE j, k \in DOMAIN outbox'
    <2>1. outbox'[j].id = outbox'[k].id => j + e = k + e
      BY <1>3 DEF OutboxOnce
    <2>. QED
      BY <1>3, <2>1
  <1>6. ASSUME NEW j \in DOMAIN outbox', outbox'[j].id # 0
        PROVE  ran'[outbox'[j].of] =
                 IF outbox'[j].ok /\ ~ op'[pending'[outbox'[j].id]].close THEN 1 ELSE 0
    <2>1. j + e \in DOMAIN outbox /\ outbox'[j] = outbox[j + e]
      BY <1>3
    <2>2. outbox'[j].id \in DOMAIN pending /\ outbox'[j].id \in DOMAIN pending'
      BY <1>4, <1>6, <2>1 DEF OutboxOnce
    <2>3. op'[pending'[outbox'[j].id]] = op[pending[outbox'[j].id]]
      BY <2>2, Keeps
    <2>. QED
      BY <1>6, <2>1, <2>2, <2>3 DEF OutboxOnce
  <1>. QED
    BY <1>2, <1>4, <1>5, <1>6 DEF InboxOnce, OutboxOnce

\* The call of a request that is about to be executed is no other's.
LEMMA OneRequest ==
  ASSUME Typed, WaitInv, MailInv, NumberInv, UniqueInv, inbox # << >>
  PROVE  LET r == Head(inbox) IN
         /\ r.id \in DOMAIN pending /\ op[pending[r.id]] = r.op
         /\ r.op.n \in CallNo
         /\ \A i \in DOMAIN pending : i # r.id => op[pending[i]].n # r.op.n
         /\ \A c \in Caller : pc[c] # "sent" => op[c].n # r.op.n
         /\ \A c \in Caller : result[c].n # r.op.n
PROOF
  <1>. DEFINE r == Head(inbox)
  <1>1. /\ 1 \in DOMAIN inbox /\ r = inbox[1] /\ r.op.n \in CallNo
    BY NextRequest
  <1>2. r.id \in DOMAIN pending /\ op[pending[r.id]] = r.op
    BY <1>1 DEF UniqueInv, MailInv
  <1>. HIDE DEF r
  <1>. DEFINE o == pending[r.id]
  <1>3. o \in Caller /\ pc[o] = "sent" /\ op[o] = r.op
    BY <1>2 DEF Typed, TypeOK, WaitInv
  <1>4. \A i \in DOMAIN pending : i # r.id => pending[i] # o /\ pending[i] \in Caller
    BY <1>2 DEF Typed, TypeOK, WaitInv
  <1>. HIDE DEF o
  <1>5. result[o].n \in Nat /\ op[o].n \in Nat /\ result[o].n < op[o].n
    BY <1>3, BoundsAssumption DEF Typed, TypeOK, Result, Op, CallNo, NumberInv
  <1>6. op[o].n # 0
    BY <1>5
  <1>7. \A c \in Caller : c # o => op[c].n # op[o].n
    BY <1>3, <1>6 DEF NumberInv
  <1>8. \A c \in Caller : result[c].n # op[o].n
    <2>. TAKE c \in Caller
    <2>1. CASE c = o
      BY <1>5, <2>1
    <2>2. CASE c # o
      BY <1>3, <1>6, <2>2 DEF NumberInv
    <2>. QED
      BY <2>1, <2>2
  <1>. QED
    BY <1>1, <1>2, <1>3, <1>4, <1>7, <1>8 DEF r

\* A request is executed, or refused, and its answer posted.
LEMMA OnceHandles ==
  ASSUME Typed, WaitInv, MailInv, NumberInv, UniqueInv, InboxOnce, OutboxOnce,
         [Next]_vars,
         Execute \/ ExecuteFails \/ CloseDatabase
  PROVE  InboxOnce' /\ OutboxOnce'
PROOF
  <1>. DEFINE r == Head(inbox)
  <1>0. inbox \in Seq(Request) /\ outbox \in Seq(Answer) /\ ran \in [CallNo -> Nat]
    BY DEF Typed, TypeOK
  <1>1. /\ inbox # << >> /\ inbox' = Tail(inbox) /\ pending' = pending /\ op' = op
    BY Handles
  <1>2. PICK ok \in BOOLEAN :
          /\ \/ ok /\ ~ r.op.close /\ Executed(r)
             \/ (ok <=> r.op.close) /\ UNCHANGED <<ran, newest>>
          /\ \A j \in DOMAIN outbox' :
               \/ j \in DOMAIN outbox /\ outbox'[j] = outbox[j]
               \/ /\ j \notin DOMAIN outbox /\ j = Len(outbox) + 1
                  /\ outbox'[j] = [id |-> r.id, ok |-> ok, of |-> r.op.n]
    BY Handles
  <1>3. /\ 1 \in DOMAIN inbox /\ r = inbox[1]
        /\ \A j \in DOMAIN inbox' : /\ j \in Nat \ {0} /\ j + 1 \in DOMAIN inbox
                                    /\ inbox'[j] = inbox[j + 1]
    BY <1>0, <1>1, TailOf
  <1>4. /\ r.id \in DOMAIN pending /\ op[pending[r.id]] = r.op
        /\ r.op.n \in CallNo /\ ran[r.op.n] = 0
        /\ \A i \in DOMAIN pending : i # r.id => op[pending[i]].n # r.op.n
    BY <1>1, <1>3, OneRequest DEF InboxOnce
  <1>5. \A n \in CallNo : n # r.op.n => ran'[n] = ran[n]
    BY <1>0, RanGrows
  <1>6. ran'[r.op.n] = IF ok /\ ~ r.op.close THEN 1 ELSE 0
    <2>1. CASE ok /\ ~ r.op.close /\ Executed(r)
      <3>1. ran' = [ran EXCEPT ![r.op.n] = @ + 1]
        BY <2>1 DEF Executed
      <3>. HIDE DEF r
      <3>2. ran'[r.op.n] = 1
        BY <1>0, <1>4, <3>1
      <3>. QED
        BY <2>1, <3>2
    <2>2. CASE (ok <=> r.op.close) /\ UNCHANGED <<ran, newest>>
      BY <1>4, <2>2
    <2>. QED
      BY <1>2, <2>1, <2>2
  <1>7. \A j \in DOMAIN inbox' : inbox'[j].id # r.id
    BY <1>3 DEF UniqueInv
  <1>8. ASSUME NEW i \in DOMAIN pending, i # r.id
        PROVE  op[pending[i]].n \in CallNo /\ ran'[op[pending[i]].n] = ran[op[pending[i]].n]
    <2>1. op[pending[i]] \in Op
      BY DEF Typed, TypeOK
    <2>. QED
      BY <1>4, <1>5, <1>8, <2>1 DEF Op
  <1>9. ASSUME NEW j \in DOMAIN inbox'
        PROVE  ran'[inbox'[j].op.n] = 0
    <2>1. /\ inbox'[j].id \in DOMAIN pending /\ ran[inbox'[j].op.n] = 0
          /\ op[pending[inbox'[j].id]] = inbox'[j].op
      BY <1>3 DEF UniqueInv, InboxOnce, MailInv
    <2>. QED
      BY <1>1, <1>7, <1>8, <2>1
  <1>. HIDE DEF r
  <1>10. ASSUME NEW j \in DOMAIN outbox'
         PROVE  \/ j \in DOMAIN outbox /\ outbox'[j] = outbox[j]
                \/ /\ j = Len(outbox) + 1 /\ outbox'[j].id = r.id
                   /\ outbox'[j].ok = ok /\ outbox'[j].of = r.op.n
    <2>1. CASE outbox'[j] = [id |-> r.id, ok |-> ok, of |-> r.op.n]
               /\ j = Len(outbox) + 1
      <3>1. outbox'[j].id = r.id /\ outbox'[j].of = r.op.n
        BY <2>1
      <3>2. outbox'[j].ok = ok
        BY <2>1
      <3>. QED
        BY <2>1, <3>1, <3>2
    <2>. QED
      BY <1>2, <2>1
  <1>11. \A j \in DOMAIN outbox : outbox[j].id # r.id
    BY <1>3 DEF UniqueInv
  <1>12. \A j, k \in DOMAIN outbox' : outbox'[j].id = outbox'[k].id => j = k
    BY <1>10, <1>11 DEF OutboxOnce
  <1>13. ASSUME NEW j \in DOMAIN outbox', outbox'[j].id # 0
         PROVE  /\ outbox'[j].id \in DOMAIN pending'
                /\ ran'[outbox'[j].of] =
                 IF outbox'[j].ok /\ ~ op'[pending'[outbox'[j].id]].close THEN 1 ELSE 0
    <2>1. CASE j \in DOMAIN outbox /\ outbox'[j] = outbox[j]
      <3>1. outbox[j].id \in DOMAIN pending /\ outbox[j].id # r.id
        BY <1>11, <1>13, <2>1 DEF OutboxOnce
      <3>2. op[pending[outbox[j].id]].n = outbox[j].of
        BY <2>1, <3>1 DEF MailInv
      <3>3. ran'[outbox[j].of] = ran[outbox[j].of]
        BY <1>8, <3>1, <3>2
      <3>. QED
        BY <1>1, <1>13, <2>1, <3>1, <3>3 DEF OutboxOnce
    <2>2. CASE outbox'[j].id = r.id /\ outbox'[j].ok = ok /\ outbox'[j].of = r.op.n
      BY <1>1, <1>4, <1>6, <2>2
    <2>. QED
      BY <1>10, <2>1, <2>2
  <1>. QED
    BY <1>9, <1>12, <1>13 DEF InboxOnce, OutboxOnce

\* A rejection tells a caller that its call was not executed.
LEMMA ToldRejected ==
  ASSUME Typed, NEW C, Reject(C), NEW c \in Caller, ran' = ran,
         op'[c] = op[c] \/ c \in C, ToldOnce(c),
         c \in C => ran'[op'[c].n] = 0
  PROVE  ToldOnce(c)'
PROOF
  <1>1. CASE c \notin C
    BY <1>1, Moves DEF ToldOnce
  <1>2. CASE c \in C
    <2>1. result'[c] = result[c] \/ (~ result'[c].ok /\ result'[c].n = op'[c].n)
      BY <1>2 DEF Reject
    <2>. QED
      BY <1>2, <2>1 DEF ToldOnce
  <1>. QED
    BY <1>1, <1>2

\* A caller that waits, or stops waiting, was told nothing new.
LEMMA ToldWaits ==
  ASSUME NEW C, NEW w, Waits(C, w), NEW c \in Caller, ran' = ran,
         op'[c] = op[c] \/ c \in C, ToldOnce(c),
         c \in C /\ w # "sent" /\ w # "idle" => ran'[op'[c].n] = 0
  PROVE  ToldOnce(c)'
BY Moves DEF ToldOnce

\* A worker that has died is not forgotten.
LEMMA DiedStays ==
  ASSUME Typed, [Next]_vars, died
  PROVE  died'
PROOF
  <1>1. ASSUME NEW c \in Caller, StartCall(c) \/ StartClose(c) \/ Retry(c)
        PROVE  died' = died
    BY <1>1, Begins, Attempts
  <1>2. CASE Execute \/ ExecuteFails \/ CloseDatabase
    BY <1>2, Handles
  <1>3. \/ \E c \in Caller : StartCall(c) \/ StartClose(c) \/ Retry(c)
        \/ Execute \/ ExecuteFails \/ CloseDatabase
        \/ died' = died \/ died' = TRUE
    BY DEF Next, MainStep, WorkerStep, Ready, NotReady, Answered, WorkerError,
           Closed, Started, StartFails, Terminate, Dies, historyVars, vars
  <1>. QED
    BY <1>1, <1>2, <1>3

LEMMA OnceStep ==
  ASSUME Typed, StartInv, WaitInv, MailInv, NumberInv, UniqueInv, OnceInv,
         [Next]_vars
  PROVE  OnceInv'
PROOF
  <1>0. /\ outbox \in Seq(Answer) /\ result \in [Caller -> Result]
        /\ ran \in [CallNo -> Nat] /\ inbox \in Seq(Request) /\ op \in [Caller -> Op]
        /\ line \in Seq(Caller) /\ pending \in [DOMAIN pending -> Caller]
        /\ pc \in [Caller -> {"idle", "ready", "sent", "backoff", "terminate"}]
        /\ 0 \notin DOMAIN pending
    BY DEF Typed, TypeOK, Id
  <1>. SUFFICES ASSUME ~ died'
                PROVE  ~ errored' /\ InboxOnce' /\ OutboxOnce'
                       /\ \A c \in Caller : ToldOnce(c)'
    BY DEF OnceInv
  <1>1. ~ died
    BY DiedStays
  <1>2. ~ errored /\ InboxOnce /\ OutboxOnce /\ \A c \in Caller : ToldOnce(c)
    BY <1>1 DEF OnceInv
  <1>3. \A j \in DOMAIN outbox : outbox[j].id # 0 => outbox[j].id \in DOMAIN pending
    BY <1>2 DEF OutboxOnce
  <1>4. Rest(inbox, inbox) /\ Rest(outbox, outbox) /\ Rest(<< >>, inbox)
    BY DEF Rest
  <1>5. ASSUME outbox # << >>, outbox' = Tail(outbox)
        PROVE  /\ Rest(outbox', outbox) /\ 1 \in DOMAIN outbox /\ Head(outbox) = outbox[1]
               /\ \A j \in DOMAIN outbox' : j \in Nat \ {0} /\ j + 1 \in DOMAIN outbox
                                            /\ outbox'[j] = outbox[j + 1]
    BY <1>0, <1>5, TailOf DEF Rest
  <1>6. ASSUME NEW c \in Caller, StartCall(c) \/ StartClose(c) \/ Retry(c)
        PROVE  OnceInv'
    <2>1. PICK o \in Op :
            /\ Attempt(c, o) /\ pc[c] \in {"idle", "backoff"}
            /\ \/ /\ pc[c] = "idle" /\ calls' = calls + 1 /\ o.n = calls'
               \/ pc[c] = "backoff" /\ calls' = calls /\ o = op[c]
      BY <1>6, Begins
    <2>2. /\ op' = [op EXCEPT ![c] = o] /\ op' \in [Caller -> Op] /\ ran' = ran
          /\ UNCHANGED <<outbox, errored>>
      BY <2>1, Attempts
    <2>3. ran'[op'[c].n] = 0
      <3>1. CASE pc[c] = "idle"
        <4>1. o.n \in CallNo /\ o.n > calls /\ op'[c] = o
          BY <1>0, <2>1, <2>2, <3>1, BoundsAssumption DEF Op, Typed, TypeOK, CallNo
        <4>. QED
          BY <2>2, <4>1 DEF NumberInv
      <3>2. CASE pc[c] = "backoff"
        BY <1>0, <1>2, <2>1, <2>2, <3>2 DEF ToldOnce
      <3>. QED
        BY <2>1, <3>1, <3>2
    <2>4. \A d \in Caller : op'[d] = op[d] \/ d \in {c}
      BY <1>0, <2>2
    <2>5. CASE ready # "ok"
      <3>1. /\ pending' = pending /\ (inbox' = inbox \/ inbox' = << >>)
            /\ Waits({c}, "ready") \/ Reject({c})
        BY <2>1, <2>5, Attempts
      <3>2. Rest(inbox', inbox) /\ Rest(outbox', outbox)
        BY <1>4, <2>2, <3>1
      <3>3. \A j \in DOMAIN outbox' : outbox'[j].id # 0 =>
                                        outbox'[j].id \in DOMAIN pending'
        BY <1>3, <2>2, <3>1
      <3>4. InboxOnce' /\ OutboxOnce'
        BY <1>2, <2>2, <3>2, <3>3, OnceRest
      <3>5. \A d \in Caller : ToldOnce(d)'
        BY <1>2, <2>2, <2>3, <2>4, <3>1, ToldWaits, ToldRejected
      <3>. QED
        BY <1>2, <2>2, <3>4, <3>5 DEF OnceInv
    <2>6. CASE ready = "ok"
      <3>1. Post(<< c >>) /\ Waits({c}, "sent")
        BY <2>1, <2>6, Attempts
      <3>2. << c >> \in Seq(Caller) /\ \A k \in DOMAIN << c >> : << c >>[k] = c
        OBVIOUS
      <3>3. InboxOnce' /\ OutboxOnce'
        <4>1. \A k \in DOMAIN << c >> : ran[op'[<< c >>[k]].n] = 0
          BY <2>2, <2>3, <3>2
        <4>. QED
          BY <1>2, <1>4, <2>2, <3>1, <3>2, <4>1, OncePost
      <3>4. \A d \in Caller : ToldOnce(d)'
        BY <1>2, <2>2, <2>3, <2>4, <3>1, ToldWaits
      <3>. QED
        BY <1>2, <2>2, <3>3, <3>4 DEF OnceInv
    <2>. QED
      BY <2>5, <2>6
  <1>7. ASSUME outbox # << >>, Head(outbox).id = 0
        PROVE  /\ ready = "pending"
               /\ \A c \in Caller : c \in ToSet(line) => ran[op[c].n] = 0
    <2>1. ready = "pending"
      BY <1>0, <1>7, TailOf DEF StartInv
    <2>2. \A c \in Caller : c \in ToSet(line) => pc[c] = "ready"
      BY <2>1 DEF WaitInv, ToSet
    <2>. QED
      BY <1>2, <2>1, <2>2 DEF ToldOnce
  <1>8. CASE Ready
    <2>1. /\ Post(line) /\ op' = op /\ ran' = ran /\ errored' = errored
          /\ outbox # << >> /\ outbox' = Tail(outbox) /\ Head(outbox).id = 0
          /\ Waits(ToSet(line), "sent")
      BY <1>8 DEF Ready, historyVars
    <2>2. \A k \in DOMAIN line : ran[op'[line[k]].n] = 0
      <3>1. \A k \in DOMAIN line : line[k] \in Caller /\ line[k] \in ToSet(line)
        BY <1>0, LenProperties DEF ToSet
      <3>. QED
        BY <1>7, <2>1, <3>1
    <2>3. InboxOnce' /\ OutboxOnce'
      BY <1>0, <1>2, <1>5, <2>1, <2>2, OncePost
    <2>4. \A d \in Caller : ToldOnce(d)'
      BY <1>2, <2>1, ToldWaits
    <2>. QED
      BY <1>2, <2>1, <2>3, <2>4
  <1>9. CASE NotReady
    <2>1. /\ op' = op /\ ran' = ran /\ errored' = errored /\ UNCHANGED <<pending, inbox>>
          /\ outbox # << >> /\ outbox' = Tail(outbox) /\ Head(outbox).id = 0
          /\ Reject(ToSet(line))
      BY <1>9 DEF NotReady, historyVars
    <2>2. InboxOnce' /\ OutboxOnce'
      <3>1. \A j \in DOMAIN outbox' : outbox'[j].id # 0 =>
                                        outbox'[j].id \in DOMAIN pending'
        BY <1>3, <1>5, <2>1
      <3>. QED
        BY <1>2, <1>4, <1>5, <2>1, <3>1, OnceRest
    <2>3. \A d \in Caller : ToldOnce(d)'
      BY <1>2, <1>7, <2>1, ToldRejected
    <2>. QED
      BY <1>2, <2>1, <2>2, <2>3
  <1>10. CASE Answered
    <2>. DEFINE m == Head(outbox)
    <2>1. /\ outbox # << >> /\ outbox' = Tail(outbox) /\ m.id # 0
          /\ op' = op /\ ran' = ran /\ errored' = errored /\ inbox' = inbox
          /\ pending' = [i \in DOMAIN pending \ {m.id} |-> pending[i]]
          /\ \/ UNCHANGED <<pc, result>>
             \/ m.id \in DOMAIN pending /\ m.ok /\ Resolve(pending[m.id], m.of)
             \/ m.id \in DOMAIN pending /\ ~ m.ok /\ Reject({pending[m.id]})
      BY <1>10 DEF Answered, historyVars
    <2>2. 1 \in DOMAIN outbox /\ m = outbox[1]
      BY <1>5, <2>1
    <2>3. /\ m.id \in DOMAIN pending /\ op[pending[m.id]].n = m.of
          /\ ran[m.of] = IF m.ok /\ ~ op[pending[m.id]].close THEN 1 ELSE 0
      BY <1>2, <2>1, <2>2 DEF OutboxOnce, MailInv
    <2>4. \A i \in DOMAIN pending : i # m.id => i \in DOMAIN pending'
      BY <2>1
    <2>5. InboxOnce' /\ OutboxOnce'
      <3>1. ASSUME NEW j \in DOMAIN outbox', outbox'[j].id # 0
            PROVE  outbox'[j].id \in DOMAIN pending'
        <4>1. /\ j \in Nat \ {0} /\ j + 1 \in DOMAIN outbox /\ outbox'[j] = outbox[j + 1]
          BY <1>5, <2>1
        <4>2. outbox[j + 1].id # m.id
          BY <1>2, <2>2, <4>1 DEF OutboxOnce
        <4>. QED
          BY <1>3, <2>4, <3>1, <4>1, <4>2
      <3>. QED
        BY <1>2, <1>4, <1>5, <2>1, <3>1, OnceRest
    <2>. HIDE DEF m
    <2>6. ASSUME NEW d \in Caller PROVE ToldOnce(d)'
      <3>1. CASE UNCHANGED <<pc, result>>
        BY <1>2, <2>1, <3>1 DEF ToldOnce
      <3>2. CASE ~ m.ok /\ Reject({pending[m.id]})
        <4>1. ran'[op'[pending[m.id]].n] = 0
          BY <2>1, <2>3, <3>2
        <4>. QED
          BY <1>2, <2>1, <3>2, <4>1, ToldRejected
      <3>3. CASE m.ok /\ Resolve(pending[m.id], m.of)
        <4>1. CASE d # pending[m.id]
          BY <1>0, <1>2, <2>1, <3>3, <4>1 DEF Resolve, ToldOnce
        <4>2. CASE d = pending[m.id] /\ op[d].close
          <5>1. ran[op[d].n] = 0 /\ result'[d] = result[d]
            BY <2>3, <3>3, <4>2 DEF Resolve
          <5>. QED
            BY <1>2, <2>1, <5>1 DEF ToldOnce
        <4>3. CASE d = pending[m.id] /\ ~ op[d].close
          <5>1. pc'[d] = "idle" /\ result'[d] = [ok |-> TRUE, n |-> op[d].n, of |-> m.of]
            BY <1>0, <3>3, <4>3 DEF Resolve
          <5>2. ran'[op[d].n] = 1
            BY <2>1, <2>3, <3>3, <4>3
          <5>. QED
            BY <5>1, <5>2 DEF ToldOnce
        <4>. QED
          BY <4>1, <4>2, <4>3
      <3>. QED
        BY <2>1, <3>1, <3>2, <3>3
    <2>. QED
      BY <1>2, <2>1, <2>5, <2>6
  <1>11. CASE WorkerError
    BY <1>2, <1>11 DEF WorkerError
  <1>12. CASE Closed
    <2>1. /\ UNCHANGED <<pending, inbox, outbox, errored, op, ran>>
          /\ Waits(Closers, "idle")
      BY <1>12 DEF Closed, historyVars
    <2>2. InboxOnce' /\ OutboxOnce'
      BY <1>2, <2>1 DEF InboxOnce, OutboxOnce
    <2>3. \A d \in Caller : ToldOnce(d)'
      BY <1>2, <2>1, ToldWaits
    <2>. QED
      BY <1>2, <2>1, <2>2, <2>3
  <1>13. CASE Started \/ StartFails
    <2>1. /\ UNCHANGED <<pending, errored, op, ran, pc, result>>
          /\ inbox' = inbox \/ inbox' = << >>
      BY <1>13 DEF Started, StartFails, Stops, mainVars, callVars, historyVars
    <2>2. \A j \in DOMAIN outbox' : j = 1 /\ outbox'[j].id = 0
      <3>1. \E ok \in BOOLEAN : outbox' = Append(outbox, [id |-> 0, ok |-> ok, of |-> 0])
        BY <1>13 DEF Started, StartFails, Say
      <3>2. outbox = << >>
        BY <1>13 DEF Started, StartFails, StartInv
      <3>. QED
        BY <3>1, <3>2
    <2>3. InboxOnce'
      BY <1>2, <2>1 DEF InboxOnce
    <2>4. OutboxOnce' /\ \A d \in Caller : ToldOnce(d)'
      BY <1>2, <2>1, <2>2 DEF OutboxOnce, ToldOnce
    <2>. QED
      BY <1>2, <2>1, <2>3, <2>4
  <1>14. CASE Execute \/ ExecuteFails \/ CloseDatabase
    <2>1. InboxOnce' /\ OutboxOnce'
      BY <1>2, <1>14, OnceHandles
    <2>2. inbox # << >> /\ UNCHANGED <<op, pc, result, errored>>
      BY <1>14, Handles
    <2>3. ASSUME NEW d \in Caller PROVE ToldOnce(d)'
      <3>1. /\ pc[d] # "sent" => op[d].n # Head(inbox).op.n
            /\ result[d].n # Head(inbox).op.n
        BY <1>2, <2>2, OneRequest
      <3>2. op[d].n \in CallNo /\ result[d].n \in CallNo
        BY <1>0 DEF Op, Result
      <3>3. /\ pc[d] # "sent" => ran'[op[d].n] = ran[op[d].n]
            /\ ran'[result[d].n] = ran[result[d].n]
        BY <3>1, <3>2, RanGrows
      <3>. QED
        BY <1>2, <2>2, <3>3 DEF ToldOnce
    <2>. QED
      BY <1>2, <2>1, <2>2, <2>3
  <1>15. CASE Terminate \/ UNCHANGED vars
    <2>1. /\ UNCHANGED <<pending, outbox, errored, op, ran, pc, result>>
          /\ inbox' = inbox \/ inbox' = << >>
      BY <1>15 DEF Terminate, Stops, vars, mainVars, workerVars, callVars, historyVars
    <2>. QED
      BY <1>2, <2>1 DEF InboxOnce, OutboxOnce, ToldOnce
  <1>16. CASE Dies
    BY <1>16 DEF Dies
  <1>. QED
    BY <1>6, <1>8, <1>9, <1>10, <1>11, <1>12, <1>13, <1>14, <1>15, <1>16
    DEF OnceInv, Next, MainStep, WorkerStep

\* The inductive invariant of the adapter.
AdapterInv == /\ Typed /\ StartInv /\ WaitInv /\ MailInv /\ NumberInv
              /\ RanInv /\ UniqueInv /\ AliveInv /\ OnceInv

LEMMA AdapterInit == Init => AdapterInv
PROOF
  <1>1. Init => WaitInv /\ StartInv /\ MailInv /\ RanInv
    BY DEF Init, WaitInv, StartInv, MailInv, RanInv
  <1>2. Init => UniqueInv /\ AliveInv /\ OnceInv
    BY DEF Init, UniqueInv, AliveInv, OnceInv, InboxOnce, OutboxOnce, ToldOnce
  <1>. QED
    BY <1>1, <1>2, TypedInit, NumberInit DEF AdapterInv

LEMMA AdapterStep == AdapterInv /\ [Next]_vars => AdapterInv'
BY TypeStep, StartStep, WaitStep, MailStep, NumberStep, RanStep, AliveStep,
   OnceStep DEF AdapterInv

(* A call that returned was executed by a worker.  Unless a worker dies of  *)
(* itself every call is executed once if it returned and not at all if it   *)
(* threw, for any number of retries by withRetry and whoever closes the     *)
(* adapter meanwhile: what may be retried was refused, and a request that   *)
(* terminate() throws away is one whose caller is not told anything.        *)
THEOREM ToldAsExecuted == Spec => []ExecutedAsTold
PROOF
  <1>1. AdapterInv => ExecutedAsTold
    <2>. SUFFICES ASSUME AdapterInv, NEW c \in Caller, result[c].n > 0
                  PROVE  /\ result[c].ok => ran[result[c].n] >= 1
                         /\ ~ died => ran[result[c].n] = IF result[c].ok THEN 1 ELSE 0
      BY DEF ExecutedAsTold
    <2>1. ran[result[c].n] \in Nat
      BY DEF AdapterInv, Typed, TypeOK, Result
    <2>. QED
      BY <2>1 DEF AdapterInv, RanInv, OnceInv, ToldOnce
  <1>. QED
    BY <1>1, AdapterInit, AdapterStep, PTL DEF Spec

-----------------------------------------------------------------------------
(* What a caller relies on                                                 *)

\* The callers whose calls a rejection ends.
Thrown(C) == {c \in Caller : c \in C /\ ~ op[c].close /\ GivesUp(c)}

\* A call that is in flight has a number of its own.
LEMMA OpenNumber ==
  ASSUME Typed, NumberInv, NEW c \in Caller, pc[c] # "idle", ~ op[c].close
  PROVE  OpenCall[c] = op[c].n /\ op[c].n \in CallNo /\ op[c].n # 0
PROOF
  <1>1. op[c] \in Op /\ result[c] \in Result
    BY DEF Typed, TypeOK
  <1>2. result[c].n \in Nat /\ op[c].n \in CallNo /\ result[c].n < op[c].n
    BY <1>1, BoundsAssumption DEF Op, Result, CallNo, NumberInv
  <1>. QED
    BY <1>2, BoundsAssumption DEF OpenCall, CallNo

\* The next call has a number that no call had before.
LEMMA NextNumber ==
  ASSUME Typed, NumberInv, NEW n \in CallNo, n > calls
  PROVE  Calls!Fresh(n)
PROOF
  <1>1. calls \in Nat /\ n \in Nat
    BY BoundsAssumption DEF Typed, TypeOK, CallNo
  <1>2. n # 0 /\ ran[n] = 0
    BY <1>1 DEF NumberInv
  <1>3. ASSUME NEW c \in Caller PROVE OpenCall[c] # n /\ result[c].n # n
    <2>1. op[c].n \in Nat /\ result[c].n \in Nat
      BY BoundsAssumption DEF Typed, TypeOK, Op, Result, CallNo
    <2>2. op[c].n <= calls /\ result[c].n <= calls
      BY <1>1, <2>1 DEF NumberInv
    <2>. QED
      BY <1>1, <1>2, <2>1, <2>2 DEF OpenCall
  <1>. QED
    BY <1>2, <1>3 DEF Calls!Fresh

\* A caller that waits, or stops to, leaves its call as it was.
LEMMA WaitsOpen ==
  ASSUME NEW C, NEW w, Waits(C, w), op' = op,
         \A c \in Caller : c \in C =>
           op[c].close \/ (pc[c] # "idle" /\ w # "idle")
  PROVE  OpenCall' = OpenCall /\ result' = result
PROOF
  <1>1. ASSUME NEW c \in Caller
        PROVE  (pc'[c] = "idle" \/ op[c].close) <=> (pc[c] = "idle" \/ op[c].close)
    BY Moves
  <1>. QED
    BY <1>1, Moves DEF OpenCall, Waits

\* A rejection ends the calls whose attempt was the last one.
LEMMA RejectThrows ==
  ASSUME Typed, NumberInv, OnceInv', NEW C, Reject(C), op' = op,
         ran' = ran, died' = died,
         \A c \in Caller : c \in C => pc[c] # "idle"
  PROVE  [Calls!Next]_(Calls!vars)
PROOF
  <1>. DEFINE T == Thrown(C)
  <1>1. ASSUME NEW c \in Caller, c \in T
        PROVE  /\ OpenCall[c] = op[c].n /\ op[c].n # 0
               /\ died \/ ran[op[c].n] = 0
               /\ OpenCall'[c] = 0
               /\ result'[c] = [ok |-> FALSE, n |-> op[c].n, of |-> 0]
    <2>1. c \in C /\ ~ op[c].close /\ GivesUp(c)
      BY <1>1 DEF Thrown
    <2>2. OpenCall[c] = op[c].n /\ op[c].n # 0 /\ op[c].n \in CallNo
      BY <2>1, OpenNumber
    <2>3. pc'[c] = "idle" /\ result'[c] = [ok |-> FALSE, n |-> op[c].n, of |-> 0]
      BY <2>1 DEF Reject
    <2>4. result'[c].n = op[c].n /\ result'[c].ok = FALSE /\ op[c].n > 0
      BY <2>2, <2>3, BoundsAssumption DEF CallNo
    <2>5. died \/ ran[op[c].n] = 0
      BY <2>4 DEF OnceInv, ToldOnce
    <2>. QED
      BY <2>2, <2>3, <2>5 DEF OpenCall
  <1>2. ASSUME NEW c \in Caller, c \notin T
        PROVE  OpenCall'[c] = OpenCall[c] /\ result'[c] = result[c]
    <2>1. CASE c \notin C
      BY <2>1, Moves DEF OpenCall
    <2>2. CASE c \in C /\ op[c].close
      BY <2>2 DEF Reject, OpenCall
    <2>3. CASE c \in C /\ ~ op[c].close
      <3>1. ~ GivesUp(c)
        BY <1>2, <2>3 DEF Thrown
      <3>2. pc'[c] = "backoff" /\ result'[c] = result[c]
        BY <2>3, <3>1 DEF Reject
      <3>. QED
        BY <2>3, <3>2 DEF OpenCall
    <2>. QED
      BY <2>1, <2>2, <2>3
  <1>3. T \subseteq Caller
    BY DEF Thrown
  <1>. HIDE DEF T
  <1>4. OpenCall' = [c \in Caller |-> IF c \in T THEN 0 ELSE OpenCall[c]]
    BY <1>1, <1>2 DEF OpenCall
  <1>5. result' = [c \in Caller |-> IF c \in T THEN Calls!Ended(OpenCall[c], FALSE)
                                    ELSE result[c]]
    <2>1. result' = [c \in Caller |-> result'[c]]
      BY DEF Reject
    <2>2. \A c \in Caller :
            result'[c] = IF c \in T THEN Calls!Ended(OpenCall[c], FALSE) ELSE result[c]
      BY <1>1, <1>2 DEF Calls!Ended
    <2>. QED
      BY <2>1, <2>2
  <1>6. Calls!Throw(T)
    <2>1. ASSUME NEW c \in T
          PROVE  OpenCall[c] # 0 /\ (died \/ ran[OpenCall[c]] = 0)
      <3>1. c \in Caller
        BY <1>3
      <3>2. OpenCall[c] = op[c].n /\ op[c].n # 0 /\ (died \/ ran[op[c].n] = 0)
        BY <1>1, <3>1
      <3>. QED
        BY <3>2
    <2>. QED
      BY <1>4, <1>5, <2>1 DEF Calls!Throw
  <1>7. CASE T = {}
    <2>1. OpenCall' = OpenCall /\ result' = result
      BY <1>2, <1>4, <1>7 DEF OpenCall, Typed, TypeOK, Reject
    <2>. QED
      BY <2>1 DEF Calls!vars
  <1>8. CASE T # {}
    BY <1>3, <1>6, <1>8 DEF Calls!Next
  <1>. QED
    BY <1>7, <1>8

\* An attempt begins a call, or goes on with it; or the call is refused.
LEMMA AttemptOpens ==
  ASSUME Typed, NumberInv, OnceInv', [Next]_vars,
         NEW c \in Caller, StartCall(c) \/ StartClose(c) \/ Retry(c)
  PROVE  [Calls!Next]_(Calls!vars)
PROOF
  <1>0. /\ op \in [Caller -> Op] /\ result \in [Caller -> Result]
        /\ pc \in [Caller -> {"idle", "ready", "sent", "backoff", "terminate"}]
        /\ calls \in Nat
    BY BoundsAssumption DEF Typed, TypeOK, CallNo
  <1>1. PICK o \in Op :
          /\ Attempt(c, o) /\ pc[c] \in {"idle", "backoff"}
          /\ \/ /\ pc[c] = "idle" /\ calls' = calls + 1 /\ o.n = calls'
             \/ pc[c] = "backoff" /\ calls' = calls /\ o = op[c]
    BY Begins
  <1>2. op' = [op EXCEPT ![c] = o] /\ ran' = ran /\ died' = died
    BY <1>1, Attempts
  <1>3. op'[c] = o /\ \A d \in Caller : d # c => op'[d] = op[d]
    BY <1>0, <1>2
  <1>4. (\E w \in {"ready", "sent"} : Waits({c}, w)) \/ Reject({c})
    BY <1>1, Attempts
  <1>5. \A d \in Caller : d # c => pc'[d] = pc[d] /\ result'[d] = result[d]
    BY <1>4, Moves
  <1>6. \A d \in Caller : d # c => OpenCall'[d] = OpenCall[d]
    BY <1>3, <1>5 DEF OpenCall
  <1>7. result' = [result EXCEPT ![c] = result'[c]]
    <2>1. result' = [d \in Caller |-> result'[d]]
      <3>1. CASE Reject({c})
        BY <3>1 DEF Reject
      <3>2. CASE result' = result
        BY <1>0, <3>2
      <3>. QED
        BY <1>4, <3>1, <3>2 DEF Waits
    <2>. QED
      BY <1>0, <1>5, <2>1
  <1>8. OpenCall' = [OpenCall EXCEPT ![c] = OpenCall'[c]]
    BY <1>6 DEF OpenCall
  <1>9. CASE pc[c] = "backoff" /\ Reject({c})
    <2>1. op' = op
      BY <1>0, <1>1, <1>2, <1>9
    <2>. QED
      BY <1>2, <1>9, <2>1, RejectThrows
  <1>10. CASE pc[c] = "backoff" /\ \E w \in {"ready", "sent"} : Waits({c}, w)
    <2>1. op' = op
      BY <1>0, <1>1, <1>2, <1>10
    <2>2. OpenCall' = OpenCall /\ result' = result
      BY <1>10, <2>1, WaitsOpen
    <2>. QED
      BY <1>2, <2>2 DEF Calls!vars
  <1>11. CASE pc[c] = "idle"
    <2>1. OpenCall[c] = 0 /\ o.n \in CallNo /\ o.n > calls
      BY <1>0, <1>1, <1>11 DEF OpenCall, Op
    <2>2. Calls!Fresh(o.n)
      BY <2>1, NextNumber
    <2>3. CASE result'[c] = result[c]
      <3>1. result' = result
        BY <1>0, <1>7, <2>3
      <3>2. OpenCall'[c] = 0 \/ OpenCall'[c] = o.n
        BY <1>3 DEF OpenCall
      <3>3. CASE OpenCall'[c] = 0
        <4>1. OpenCall' = OpenCall
          BY <1>8, <2>1, <3>3 DEF OpenCall
        <4>. QED
          BY <1>2, <3>1, <4>1 DEF Calls!vars
      <3>4. CASE OpenCall'[c] = o.n
        <4>1. Calls!Start(c)
          BY <1>2, <1>8, <2>1, <2>2, <3>1, <3>4 DEF Calls!Start
        <4>. QED
          BY <4>1 DEF Calls!Next
      <3>. QED
        BY <3>2, <3>3, <3>4
    <2>4. CASE result'[c] # result[c]
      <3>1. /\ pc'[c] = "idle"
            /\ result'[c] = [ok |-> FALSE, n |-> o.n, of |-> 0]
        <4>1. Reject({c})
          BY <1>4, <2>4, Moves
        <4>2. ~ op'[c].close /\ GivesUp(c)
          BY <2>4, <4>1 DEF Reject
        <4>. QED
          BY <1>3, <4>1, <4>2 DEF Reject
      <3>2. OpenCall' = OpenCall
        <4>1. OpenCall'[c] = 0
          BY <3>1 DEF OpenCall
        <4>. QED
          BY <1>8, <2>1, <4>1 DEF OpenCall
      <3>3. result' = [result EXCEPT ![c] = Calls!Ended(o.n, FALSE)]
        BY <1>7, <3>1 DEF Calls!Ended
      <3>4. Calls!Refuse(c)
        BY <1>2, <2>1, <2>2, <3>2, <3>3 DEF Calls!Refuse
      <3>. QED
        BY <3>4 DEF Calls!Next
    <2>. QED
      BY <2>3, <2>4
  <1>. QED
    BY <1>1, <1>4, <1>9, <1>10, <1>11

\* An answer ends the call, or the attempt, of the caller that waits for it.
LEMMA AnswerReturns ==
  ASSUME Typed, WaitInv, MailInv, NumberInv, RanInv, OnceInv', Answered
  PROVE  [Calls!Next]_(Calls!vars)
PROOF
  <1>. DEFINE m == Head(outbox)
  <1>0. /\ outbox \in Seq(Answer) /\ result \in [Caller -> Result]
        /\ pc \in [Caller -> {"idle", "ready", "sent", "backoff", "terminate"}]
        /\ pending \in [DOMAIN pending -> Caller]
    BY DEF Typed, TypeOK
  <1>1. /\ outbox # << >> /\ op' = op /\ ran' = ran /\ died' = died
        /\ \/ UNCHANGED <<pc, result>>
           \/ m.id \in DOMAIN pending /\ m.ok /\ Resolve(pending[m.id], m.of)
           \/ m.id \in DOMAIN pending /\ Reject({pending[m.id]})
    BY DEF Answered, historyVars
  <1>2. 1 \in DOMAIN outbox /\ m = outbox[1]
    BY <1>0, <1>1, TailOf
  <1>3. m.id \in DOMAIN pending =>
          /\ pending[m.id] \in Caller /\ pc[pending[m.id]] = "sent"
          /\ op[pending[m.id]].n = m.of
          /\ m.ok => op[pending[m.id]].close \/ ran[m.of] > 0
    BY <1>0, <1>2 DEF WaitInv, MailInv, RanInv
  <1>. HIDE DEF m
  <1>4. CASE UNCHANGED <<pc, result>>
    BY <1>1, <1>4 DEF OpenCall, Calls!vars
  <1>5. CASE m.id \in DOMAIN pending /\ Reject({pending[m.id]})
    <2>1. \A c \in Caller : c \in {pending[m.id]} => pc[c] # "idle"
      BY <1>3, <1>5
    <2>. QED
      BY <1>1, <1>5, <2>1, RejectThrows
  <1>6. CASE m.id \in DOMAIN pending /\ m.ok /\ Resolve(pending[m.id], m.of)
    <2>. DEFINE c == pending[m.id]
    <2>1. /\ c \in Caller /\ pc[c] = "sent" /\ op[c].n = m.of
          /\ op[c].close \/ ran[op[c].n] > 0
          /\ Resolve(c, op[c].n)
      BY <1>3, <1>6
    <2>. HIDE DEF c
    <2>2. \A d \in Caller : d # c => OpenCall'[d] = OpenCall[d]
      BY <1>0, <1>1, <2>1 DEF Resolve, OpenCall
    <2>3. OpenCall'[c] = 0
      BY <1>0, <1>1, <2>1 DEF Resolve, OpenCall
    <2>4. CASE op[c].close
      <3>1. OpenCall[c] = 0 /\ result' = result
        BY <2>1, <2>4 DEF OpenCall, Resolve
      <3>2. OpenCall' = OpenCall
        BY <2>2, <2>3, <3>1 DEF OpenCall
      <3>. QED
        BY <1>1, <3>1, <3>2 DEF Calls!vars
    <2>5. CASE ~ op[c].close
      <3>1. OpenCall[c] = op[c].n /\ op[c].n # 0 /\ ran[op[c].n] > 0
        BY <2>1, <2>5, OpenNumber
      <3>2. OpenCall' = [OpenCall EXCEPT ![c] = 0]
        BY <2>2, <2>3 DEF OpenCall
      <3>3. result' = [result EXCEPT ![c] = [ok |-> TRUE, n |-> op[c].n, of |-> op[c].n]]
        BY <2>1, <2>5 DEF Resolve
      <3>4. result' = [result EXCEPT ![c] = Calls!Ended(OpenCall[c], TRUE)]
        BY <3>1, <3>3 DEF Calls!Ended
      <3>5. Calls!Return(c)
        BY <1>1, <3>1, <3>2, <3>4 DEF Calls!Return
      <3>. QED
        BY <2>1, <3>5 DEF Calls!Next
    <2>. QED
      BY <2>4, <2>5
  <1>. QED
    BY <1>1, <1>4, <1>5, <1>6

\* What is executed is the call of a caller that waits for the answer.
LEMMA ExecutedOpen ==
  ASSUME Typed, WaitInv, MailInv, NumberInv, UniqueInv, inbox # << >>,
         ~ Head(inbox).op.close, Executed(Head(inbox))
  PROVE  \E c \in Caller : Calls!Executes(c) /\ OpenCall[c] = Head(inbox).op.n
PROOF
  <1>. DEFINE r == Head(inbox)  c == pending[r.id]
  <1>1. r.id \in DOMAIN pending /\ op[c] = r.op
    BY OneRequest
  <1>. HIDE DEF r
  <1>2. c \in Caller /\ pc[c] = "sent"
    BY <1>1 DEF Typed, TypeOK, WaitInv
  <1>3. ~ r.op.close /\ ran' = [ran EXCEPT ![r.op.n] = @ + 1]
    BY DEF Executed, r
  <1>. HIDE DEF c
  <1>4. OpenCall[c] = r.op.n /\ r.op.n # 0
    BY <1>1, <1>2, <1>3, OpenNumber
  <1>5. Calls!Executes(c)
    BY <1>3, <1>4 DEF Calls!Executes
  <1>. QED
    BY <1>2, <1>4, <1>5 DEF r

(* Whatever goes wrong in the worker, the messages and the retries, a call  *)
(* is executed only while its caller waits for it, once at most until a     *)
(* worker dies of itself, and ends as the caller is told: call() of the     *)
(* adapter within withRetry is an adapter that retries its calls.           *)
THEOREM AdapterIsRetriedCalls == Spec => ImplementsRetriedCalls
PROOF
  <1>1. Init => Calls!Init
    <2>. SUFFICES ASSUME Init PROVE Calls!Init
      OBVIOUS
    <2>1. OpenCall = [c \in Caller |-> 0]
      BY DEF Init, OpenCall
    <2>2. result = [c \in Caller |-> Calls!Ended(0, TRUE)]
      BY DEF Init, Calls!Ended
    <2>. QED
      BY <2>1, <2>2 DEF Init, Calls!Init
  <1>2. AdapterInv /\ AdapterInv' /\ [Next]_vars => [Calls!Next]_(Calls!vars)
    <2>. SUFFICES ASSUME AdapterInv, AdapterInv', [Next]_vars
                  PROVE  [Calls!Next]_(Calls!vars)
      OBVIOUS
    <2>. USE DEF AdapterInv
    <2>0. outbox \in Seq(Answer) /\ pending \in [DOMAIN pending -> Caller]
      BY DEF Typed, TypeOK
    <2>1. ASSUME NEW c \in Caller, StartCall(c) \/ StartClose(c) \/ Retry(c)
          PROVE  [Calls!Next]_(Calls!vars)
      BY <2>1, AttemptOpens
    <2>2. ASSUME outbox # << >>, Head(outbox).id = 0
          PROVE  \A c \in Caller : c \in ToSet(line) => pc[c] = "ready"
      <3>1. ready = "pending"
        BY <2>0, <2>2, TailOf DEF StartInv
      <3>. QED
        BY <3>1 DEF WaitInv, ToSet
    <2>3. CASE Ready
      <3>1. /\ op' = op /\ ran' = ran /\ died' = died
            /\ Waits(ToSet(line), "sent")
        BY <2>3 DEF Ready, historyVars
      <3>2. OpenCall' = OpenCall /\ result' = result
        BY <2>2, <2>3, <3>1, WaitsOpen DEF Ready
      <3>. QED
        BY <3>1, <3>2 DEF Calls!vars
    <2>4. CASE NotReady
      <3>1. /\ op' = op /\ ran' = ran /\ died' = died /\ Reject(ToSet(line))
            /\ \A c \in Caller : c \in ToSet(line) => pc[c] # "idle"
        BY <2>2, <2>4 DEF NotReady, historyVars
      <3>. QED
        BY <3>1, RejectThrows
    <2>5. CASE Answered
      BY <2>5, AnswerReturns
    <2>6. CASE WorkerError
      <3>. DEFINE C == {pending[i] : i \in DOMAIN pending}
      <3>1. op' = op /\ ran' = ran /\ died' = died /\ Reject(C)
        BY <2>6 DEF WorkerError, historyVars
      <3>2. \A c \in Caller : c \in C => pc[c] # "idle"
        BY DEF WaitInv
      <3>. HIDE DEF C
      <3>. QED
        BY <3>1, <3>2, RejectThrows
    <2>7. CASE Closed
      <3>1. /\ op' = op /\ ran' = ran /\ died' = died /\ Waits(Closers, "idle")
        BY <2>7 DEF Closed, historyVars
      <3>2. \A c \in Caller : c \in Closers => op[c].close
        BY DEF Closers, AliveInv
      <3>3. OpenCall' = OpenCall /\ result' = result
        BY <3>1, <3>2, WaitsOpen
      <3>. QED
        BY <3>1, <3>3 DEF Calls!vars
    <2>8. CASE Execute
      <3>1. /\ inbox # << >> /\ ~ Head(inbox).op.close /\ Executed(Head(inbox))
            /\ UNCHANGED <<op, pc, result, died>>
        BY <2>8 DEF Execute, callVars
      <3>2. PICK c \in Caller : Calls!Executes(c) /\ OpenCall[c] = Head(inbox).op.n
        BY <3>1, ExecutedOpen
      <3>3. died \/ ran[OpenCall[c]] = 0
        <4>1. 1 \in DOMAIN inbox /\ Head(inbox) = inbox[1]
          BY <3>1, NextRequest
        <4>. QED
          BY <3>2, <4>1 DEF OnceInv, InboxOnce
      <3>4. OpenCall' = OpenCall
        BY <3>1 DEF OpenCall
      <3>5. Calls!Run(c)
        BY <3>1, <3>2, <3>3, <3>4 DEF Calls!Run
      <3>. QED
        BY <3>5 DEF Calls!Next
    <2>9. CASE Dies
      <3>1. /\ UNCHANGED <<op, pc, result>> /\ died' = TRUE
            /\ \/ ran' = ran
               \/ /\ inbox # << >> /\ ~ Head(inbox).op.close
                  /\ Executed(Head(inbox))
        BY <2>9 DEF Dies, callVars
      <3>2. ran' = ran \/ \E c \in Caller : Calls!Executes(c)
        BY <3>1, ExecutedOpen
      <3>3. OpenCall' = OpenCall
        BY <3>1 DEF OpenCall
      <3>4. Calls!Break
        BY <3>1, <3>2, <3>3 DEF Calls!Break
      <3>. QED
        BY <3>4 DEF Calls!Next
    <2>10. CASE \/ ExecuteFails \/ CloseDatabase \/ Started \/ StartFails
                \/ Terminate \/ UNCHANGED vars
      <3>1. UNCHANGED <<op, pc, result, ran, died>>
        BY <2>10 DEF ExecuteFails, CloseDatabase, Started, StartFails, Terminate,
                     vars, callVars, historyVars
      <3>. QED
        BY <3>1 DEF OpenCall, Calls!vars
    <2>. QED
      BY <2>1, <2>3, <2>4, <2>5, <2>6, <2>7, <2>8, <2>9, <2>10
      DEF Next, MainStep, WorkerStep
  <1>. QED
    BY <1>1, <1>2, AdapterInit, AdapterStep, PTL
    DEF Spec, ImplementsRetriedCalls, Calls!Spec

-----------------------------------------------------------------------------
(* Nobody waits in vain                                                    *)

\* Messages are in the order of their ids.
SortedInv ==
  /\ \A j, k \in DOMAIN inbox : j < k => inbox[j].id < inbox[k].id
  /\ \A j, k \in DOMAIN outbox : j < k => outbox[j].id < outbox[k].id
  /\ \A j \in DOMAIN outbox, k \in DOMAIN inbox : outbox[j].id < inbox[k].id

\* Whoever waits for the worker is in line.
LineInv ==
  \A c \in Caller : pc[c] = "ready" =>
    ready = "pending" /\ \E j \in DOMAIN line : line[j] = c

\* A worker that was waited for came up, and is stopped by close() alone.
WorkerInv ==
  /\ ready \in {"none", "pending"} => Closers = {}
  /\ thread = "dead" /\ ready = "ok" => Closers # {}
  /\ ready = "pending" =>
       \/ thread = "starting"
       \/ /\ outbox # << >> /\ Head(outbox).id = 0
          /\ Head(outbox).ok => thread # "dead"

\* The request with the id i, or its answer, is on its way.
Message(i) == \/ \E j \in DOMAIN inbox : inbox[j].id = i
              \/ \E j \in DOMAIN outbox : outbox[j].id = i

SentInv ==
  \A c \in Caller : ~ late[c] /\ pc[c] = "sent" =>
    /\ ready = "ok"
    /\ \E i \in DOMAIN pending : pending[i] = c /\ Message(i)

\* Who asks before somebody closes the adapter is before him everywhere.
Before(c, x) ==
  /\ pc[x] = "terminate" => pc[c] \notin {"sent", "ready"}
  /\ pc[x] = "sent" => pc[c] # "ready"
  /\ \A i, k \in DOMAIN pending : pending[i] = c /\ pending[k] = x => i < k
  /\ ready = "pending" =>
       \A j, k \in DOMAIN line : line[j] = c /\ line[k] = x => j < k

BeforeInv ==
  \A c, x \in Caller : c # x /\ ~ late[c] /\ op[x].close => Before(c, x)

ServedInv == ~ died => LineInv /\ WorkerInv /\ SentInv /\ BeforeInv

\* What a post leaves where it was, and puts behind it.
LEMMA PostKeeps ==
  ASSUME Typed, op' \in [Caller -> Op], NEW C \in Seq(Caller), Post(C)
  PROVE  /\ \A i \in DOMAIN pending :
              i \in DOMAIN pending' /\ pending'[i] = pending[i]
         /\ \A j \in DOMAIN inbox : j \in DOMAIN inbox' /\ inbox'[j] = inbox[j]
         /\ \A k \in DOMAIN C :
              /\ nextId + k - 1 \in DOMAIN pending'
              /\ pending'[nextId + k - 1] = C[k]
              /\ thread # "dead" =>
                   \E j \in DOMAIN inbox' : inbox'[j].id = nextId + k - 1
PROOF
  <1>1. /\ Len(C) \in Nat /\ DOMAIN C = 1 .. Len(C)
        /\ nextId' = nextId + Len(C) /\ nextId \in Nat
        /\ DOMAIN pending' = DOMAIN pending \cup nextId .. nextId' - 1
        /\ \A i \in DOMAIN pending : i \in Nat /\ i < nextId
    BY PostTyped, LenProperties DEF Typed, TypeOK, Id
  <1>2. /\ Posted(C, nextId) \in Seq(Request) /\ inbox \in Seq(Request)
        /\ Len(Posted(C, nextId)) = Len(C)
        /\ inbox' = IF thread = "dead" THEN inbox ELSE inbox \o Posted(C, nextId)
    BY PostedTyped DEF Typed, TypeOK, Post, Posted
  <1>3. ASSUME NEW i \in DOMAIN pending
        PROVE  i \in DOMAIN pending' /\ pending'[i] = pending[i]
    <2>1. i \in DOMAIN pending' /\ ~ (i >= nextId)
      BY <1>1
    <2>. QED
      BY <2>1 DEF Post
  <1>4. ASSUME NEW j \in DOMAIN inbox
        PROVE  j \in DOMAIN inbox' /\ inbox'[j] = inbox[j]
    <2>1. CASE thread = "dead"
      BY <1>2, <2>1
    <2>2. CASE thread # "dead"
      BY <1>2, <2>2, ConcatProperties, LenProperties
    <2>. QED
      BY <2>1, <2>2
  <1>5. ASSUME NEW k \in DOMAIN C
        PROVE  /\ nextId + k - 1 \in DOMAIN pending'
               /\ pending'[nextId + k - 1] = C[k]
    <2>1. nextId + k - 1 \in DOMAIN pending' /\ nextId + k - 1 >= nextId
      BY <1>1
    <2>2. (nextId + k - 1) - nextId + 1 = k
      BY <1>1
    <2>. QED
      BY <2>1, <2>2 DEF Post
  <1>6. ASSUME NEW k \in DOMAIN C, thread # "dead"
        PROVE  \E j \in DOMAIN inbox' : inbox'[j].id = nextId + k - 1
    <2>1. inbox' = inbox \o Posted(C, nextId)
      BY <1>2, <1>6
    <2>2. Len(inbox) \in Nat /\ k \in 1 .. Len(C)
      BY <1>1, <1>2, LenProperties
    <2>3. /\ Len(inbox) + k \in 1 .. Len(inbox) + Len(C)
          /\ Len(inbox) + k > Len(inbox) /\ (Len(inbox) + k) - Len(inbox) = k
      BY <1>1, <2>2
    <2>4. Len(inbox) + k \in DOMAIN inbox'
      BY <1>2, <2>1, <2>3, ConcatProperties, LenProperties
    <2>5. inbox'[Len(inbox) + k] = Posted(C, nextId)[k]
      BY <1>2, <2>1, <2>3, ConcatProperties
    <2>6. Posted(C, nextId)[k].id = nextId + k - 1
      BY DEF Posted
    <2>. QED
      BY <2>4, <2>5, <2>6
  <1>. QED
    BY <1>3, <1>4, <1>5, <1>6

\* The worker's answer to a request, behind what it has posted before.
LEMMA Answers ==
  ASSUME Typed, Execute \/ ExecuteFails \/ CloseDatabase
  PROVE  /\ \A j \in DOMAIN outbox : j \in DOMAIN outbox' /\ outbox'[j] = outbox[j]
         /\ \E j \in DOMAIN outbox' : outbox'[j].id = Head(inbox).id
PROOF
  <1>. DEFINE r == Head(inbox)
  <1>1. PICK ok \in BOOLEAN : outbox' = Append(outbox, [id |-> r.id, ok |-> ok, of |-> r.op.n])
    BY DEF Execute, ExecuteFails, CloseDatabase, Say
  <1>2. inbox # << >>
    BY DEF Execute, ExecuteFails, CloseDatabase
  <1>3. [id |-> r.id, ok |-> ok, of |-> r.op.n] \in Answer /\ outbox \in Seq(Answer)
    BY <1>2, NextRequest DEF Answer, Typed, TypeOK
  <1>. HIDE DEF r
  <1>4. Len(outbox) \in Nat /\ Len(outbox') = Len(outbox) + 1
        /\ outbox' \in Seq(Answer)
        /\ outbox'[Len(outbox) + 1] = [id |-> r.id, ok |-> ok, of |-> r.op.n]
        /\ \A j \in 1 .. Len(outbox) : outbox'[j] = outbox[j]
    BY <1>1, <1>3, AppendProperties, LenProperties
  <1>5. DOMAIN outbox = 1 .. Len(outbox) /\ DOMAIN outbox' = 1 .. Len(outbox) + 1
    BY <1>3, <1>4, LenProperties
  <1>6. outbox'[Len(outbox) + 1].id = r.id /\ Len(outbox) + 1 \in DOMAIN outbox'
    BY <1>4, <1>5
  <1>7. \A j \in DOMAIN outbox : j \in DOMAIN outbox' /\ outbox'[j] = outbox[j]
    BY <1>4, <1>5
  <1>. QED
    BY <1>6, <1>7 DEF r

\* Whatever happens to the messages, in one step.
LEMMA MailMoves ==
  ASSUME Typed, StartInv, [Next]_vars
  PROVE  \/ Rest(inbox', inbox) /\ Rest(outbox', outbox)
         \/ \E C \in Seq(Caller) : /\ Post(C) /\ op' \in [Caller -> Op]
                                   /\ Rest(outbox', outbox)
         \/ /\ Rest(inbox', inbox) /\ outbox = << >>
            /\ \E ok \in BOOLEAN : outbox' = << [id |-> 0, ok |-> ok, of |-> 0] >>
         \/ Execute \/ ExecuteFails \/ CloseDatabase
PROOF
  <1>1. Rest(inbox, inbox) /\ Rest(outbox, outbox) /\ Rest(<< >>, inbox)
    BY DEF Rest
  <1>2. ASSUME NEW c \in Caller, StartCall(c) \/ StartClose(c) \/ Retry(c)
        PROVE  /\ Rest(outbox', outbox)
               /\ \/ Rest(inbox', inbox)
                  \/ \E C \in Seq(Caller) : Post(C) /\ op' \in [Caller -> Op]
    <2>1. PICK o \in Op : Attempt(c, o)
      BY <1>2, Begins
    <2>2. outbox' = outbox /\ op' \in [Caller -> Op]
      BY <2>1, Attempts
    <2>3. inbox' = << >> \/ inbox' = inbox \/ Post(<< c >>)
      BY <2>1, Attempts
    <2>4. << c >> \in Seq(Caller)
      OBVIOUS
    <2>. QED
      BY <1>1, <2>2, <2>3, <2>4
  <1>3. CASE Ready
    BY <1>3 DEF Ready, Rest, Typed, TypeOK
  <1>4. CASE NotReady \/ Answered \/ WorkerError \/ Closed
    BY <1>1, <1>4 DEF NotReady, Answered, WorkerError, Closed, Rest
  <1>5. CASE Started \/ StartFails
    <2>1. /\ Rest(inbox', inbox) /\ outbox = << >>
          /\ \E ok \in BOOLEAN : outbox' = Append(outbox, [id |-> 0, ok |-> ok, of |-> 0])
      BY <1>1, <1>5 DEF Started, StartFails, Stops, Say, StartInv
    <2>. QED
      BY <2>1
  <1>6. CASE Terminate \/ Dies \/ UNCHANGED vars
    BY <1>1, <1>6 DEF Terminate, Dies, Stops, vars, workerVars
  <1>. QED
    BY <1>2, <1>3, <1>4, <1>5, <1>6 DEF Next, MainStep, WorkerStep

LEMMA SortedStep ==
  ASSUME Typed, StartInv, MailInv, SortedInv, [Next]_vars
  PROVE  SortedInv'
PROOF
  <1>0. /\ inbox \in Seq(Request) /\ outbox \in Seq(Answer) /\ nextId \in Nat
        /\ Len(inbox) \in Nat
    BY LenProperties DEF Typed, TypeOK, Id
  <1>1. \A j \in DOMAIN inbox :
          inbox[j].id \in Nat /\ inbox[j].id > 0 /\ inbox[j].id < nextId
    <2>1. \A j \in DOMAIN inbox : inbox[j] \in Request
      BY <1>0, LenProperties
    <2>. QED
      BY <2>1 DEF MailInv, Request, Id
  <1>2. \A j \in DOMAIN outbox : outbox[j].id \in Nat /\ outbox[j].id < nextId
    <2>1. \A j \in DOMAIN outbox : outbox[j] \in Answer
      BY <1>0, LenProperties
    <2>. QED
      BY <2>1 DEF MailInv, Answer, Id
  <1>3. ASSUME Rest(inbox', inbox)
        PROVE  \E d \in {0, 1} : \A j \in DOMAIN inbox' :
                 j \in Nat /\ j + d \in DOMAIN inbox /\ inbox'[j] = inbox[j + d]
    BY <1>0, <1>3, RestOf
  <1>4. ASSUME Rest(outbox', outbox)
        PROVE  \E d \in {0, 1} : \A j \in DOMAIN outbox' :
                 j \in Nat /\ j + d \in DOMAIN outbox /\ outbox'[j] = outbox[j + d]
    BY <1>0, <1>4, RestOf
  <1>5. CASE Rest(inbox', inbox) /\ Rest(outbox', outbox)
    <2>1. PICK d \in {0, 1} : \A j \in DOMAIN inbox' :
            j \in Nat /\ j + d \in DOMAIN inbox /\ inbox'[j] = inbox[j + d]
      BY <1>3, <1>5
    <2>2. PICK e \in {0, 1} : \A j \in DOMAIN outbox' :
            j \in Nat /\ j + e \in DOMAIN outbox /\ outbox'[j] = outbox[j + e]
      BY <1>4, <1>5
    <2>3. \A j, k \in DOMAIN inbox' : j < k => inbox'[j].id < inbox'[k].id
      <3>1. \A j, k \in DOMAIN inbox' : j < k => j + d < k + d
        BY <2>1
      <3>. QED
        BY <2>1, <3>1 DEF SortedInv
    <2>4. \A j, k \in DOMAIN outbox' : j < k => outbox'[j].id < outbox'[k].id
      <3>1. \A j, k \in DOMAIN outbox' : j < k => j + e < k + e
        BY <2>2
      <3>. QED
        BY <2>2, <3>1 DEF SortedInv
    <2>. QED
      BY <2>1, <2>2, <2>3, <2>4 DEF SortedInv
  <1>6. ASSUME NEW C \in Seq(Caller), Post(C), op' \in [Caller -> Op],
               Rest(outbox', outbox)
        PROVE  SortedInv'
    <2>1. PICK e \in {0, 1} : \A j \in DOMAIN outbox' :
            j \in Nat /\ j + e \in DOMAIN outbox /\ outbox'[j] = outbox[j + e]
      BY <1>4, <1>6
    <2>2. inbox' \in Seq(Request) /\ \A j \in DOMAIN inbox' : j \in Nat
      BY <1>6, PostTyped, LenProperties
    <2>3. \A j \in DOMAIN inbox : j \in Nat /\ j <= Len(inbox)
      BY <1>0, LenProperties
    <2>4. ASSUME NEW j \in DOMAIN inbox'
          PROVE  \/ j \in DOMAIN inbox /\ inbox'[j] = inbox[j]
                 \/ /\ j > Len(inbox)
                    /\ inbox'[j].id = nextId + (j - Len(inbox)) - 1
      BY <1>6, PostAdds
    <2>5. ASSUME NEW j \in DOMAIN inbox', NEW k \in DOMAIN inbox', j < k
          PROVE  inbox'[j].id < inbox'[k].id
      <3>1. CASE k \in DOMAIN inbox /\ inbox'[k] = inbox[k]
        <4>1. ~ (j > Len(inbox))
          BY <1>0, <2>2, <2>3, <2>5, <3>1
        <4>. QED
          BY <2>4, <2>5, <3>1, <4>1 DEF SortedInv
      <3>2. CASE /\ k > Len(inbox)
                 /\ inbox'[k].id = nextId + (k - Len(inbox)) - 1
        <4>1. inbox'[k].id >= nextId
          BY <1>0, <2>2, <3>2
        <4>2. CASE j \in DOMAIN inbox /\ inbox'[j] = inbox[j]
          BY <1>0, <1>1, <2>2, <3>2, <4>1, <4>2
        <4>3. CASE inbox'[j].id = nextId + (j - Len(inbox)) - 1
          BY <1>0, <2>2, <2>5, <3>2, <4>3
        <4>. QED
          BY <2>4, <4>2, <4>3
      <3>. QED
        BY <2>4, <3>1, <3>2
    <2>6. \A j, k \in DOMAIN outbox' : j < k => outbox'[j].id < outbox'[k].id
      <3>1. \A j, k \in DOMAIN outbox' : j < k => j + e < k + e
        BY <2>1
      <3>. QED
        BY <2>1, <3>1 DEF SortedInv
    <2>7. ASSUME NEW j \in DOMAIN outbox', NEW k \in DOMAIN inbox'
          PROVE  outbox'[j].id < inbox'[k].id
      <3>1. j + e \in DOMAIN outbox /\ outbox'[j] = outbox[j + e]
        BY <2>1
      <3>2. CASE k \in DOMAIN inbox /\ inbox'[k] = inbox[k]
        BY <3>1, <3>2 DEF SortedInv
      <3>3. CASE /\ k > Len(inbox)
                 /\ inbox'[k].id = nextId + (k - Len(inbox)) - 1
        <4>1. inbox'[k].id >= nextId /\ inbox'[k].id \in Nat
          BY <1>0, <2>2, <3>3
        <4>2. outbox'[j].id < nextId /\ outbox'[j].id \in Nat
          BY <1>2, <3>1
        <4>. QED
          BY <1>0, <4>1, <4>2
      <3>. QED
        BY <2>4, <3>2, <3>3
    <2>. QED
      BY <2>5, <2>6, <2>7 DEF SortedInv
  <1>7. ASSUME Rest(inbox', inbox), NEW ok \in BOOLEAN,
               outbox' = << [id |-> 0, ok |-> ok, of |-> 0] >>
        PROVE  SortedInv'
    <2>1. PICK d \in {0, 1} : \A j \in DOMAIN inbox' :
            j \in Nat /\ j + d \in DOMAIN inbox /\ inbox'[j] = inbox[j + d]
      BY <1>3, <1>7
    <2>2. \A j \in DOMAIN outbox' : j = 1 /\ outbox'[j].id = 0
      BY <1>7
    <2>3. \A j, k \in DOMAIN inbox' : j < k => inbox'[j].id < inbox'[k].id
      <3>1. \A j, k \in DOMAIN inbox' : j < k => j + d < k + d
        BY <2>1
      <3>. QED
        BY <2>1, <3>1 DEF SortedInv
    <2>4. \A k \in DOMAIN inbox' : 0 < inbox'[k].id
      BY <1>1, <2>1
    <2>. QED
      BY <2>2, <2>3, <2>4 DEF SortedInv
  <1>8. CASE Execute \/ ExecuteFails \/ CloseDatabase
    <2>. DEFINE r == Head(inbox)
    <2>1. inbox # << >> /\ inbox' = Tail(inbox)
      BY <1>8, Handles
    <2>2. /\ 1 \in DOMAIN inbox /\ r = inbox[1]
          /\ \A j \in DOMAIN inbox' : /\ j \in Nat \ {0} /\ j + 1 \in DOMAIN inbox
                                      /\ inbox'[j] = inbox[j + 1]
      BY <1>0, <2>1, TailOf
    <2>3. \A j \in DOMAIN outbox' :
            \/ j \in DOMAIN outbox /\ outbox'[j] = outbox[j]
            \/ j = Len(outbox) + 1 /\ outbox'[j].id = r.id
      BY <1>8, Handles
    <2>. HIDE DEF r
    <2>4. /\ \A j \in DOMAIN outbox : outbox[j].id < r.id /\ j \in Nat /\ j <= Len(outbox)
          /\ Len(outbox) \in Nat
      BY <1>0, <2>2, LenProperties DEF SortedInv
    <2>5. \A k \in DOMAIN inbox' : r.id < inbox'[k].id
      <3>1. \A k \in DOMAIN inbox' : 1 < k + 1
        BY <2>2
      <3>. QED
        BY <2>2, <3>1 DEF SortedInv
    <2>6. \A j, k \in DOMAIN inbox' : j < k => inbox'[j].id < inbox'[k].id
      <3>1. \A j, k \in DOMAIN inbox' : j < k => j + 1 < k + 1
        BY <2>2
      <3>. QED
        BY <2>2, <3>1 DEF SortedInv
    <2>7. ASSUME NEW j \in DOMAIN outbox', NEW k \in DOMAIN outbox', j < k
          PROVE  outbox'[j].id < outbox'[k].id
      <3>1. CASE k \in DOMAIN outbox /\ outbox'[k] = outbox[k]
        <4>1. j # Len(outbox) + 1
          BY <2>3, <2>4, <2>7, <3>1
        <4>. QED
          BY <2>3, <2>7, <3>1, <4>1 DEF SortedInv
      <3>2. CASE k = Len(outbox) + 1 /\ outbox'[k].id = r.id
        <4>1. j # Len(outbox) + 1
          BY <2>4, <2>7, <3>2
        <4>. QED
          BY <2>3, <2>4, <3>2, <4>1
      <3>. QED
        BY <2>3, <3>1, <3>2
    <2>8. ASSUME NEW j \in DOMAIN outbox', NEW k \in DOMAIN inbox'
          PROVE  outbox'[j].id < inbox'[k].id
      <3>1. CASE j \in DOMAIN outbox /\ outbox'[j] = outbox[j]
        BY <2>2, <3>1 DEF SortedInv
      <3>2. CASE outbox'[j].id = r.id
        BY <2>5, <3>2
      <3>. QED
        BY <2>3, <3>1, <3>2
    <2>. QED
      BY <2>6, <2>7, <2>8 DEF SortedInv
  <1>. QED
    BY <1>5, <1>6, <1>7, <1>8, MailMoves

\* An attempt is late when it begins while another caller closes the adapter.
LEMMA Lates ==
  ASSUME Typed, [Next]_vars, NEW c \in Caller
  PROVE  \/ late'[c] = late[c]
         \/ /\ StartCall(c) \/ StartClose(c) \/ Retry(c)
            /\ late'[c] = \E x \in Caller \ {c} : pc[x] # "idle" /\ op[x].close
PROOF
  <1>0. late \in [Caller -> BOOLEAN]
    BY DEF Typed, TypeOK
  <1>1. ASSUME NEW d \in Caller, StartCall(d) \/ StartClose(d) \/ Retry(d)
        PROVE  late' = [late EXCEPT ![d] =
                          \E x \in Caller \ {d} : pc[x] # "idle" /\ op[x].close]
    BY <1>1 DEF StartCall, StartClose, Retry, Attempt
  <1>2. ASSUME NEW d \in Caller, d # c, StartCall(d) \/ StartClose(d) \/ Retry(d)
        PROVE  late'[c] = late[c]
    BY <1>0, <1>1, <1>2
  <1>3. ASSUME StartCall(c) \/ StartClose(c) \/ Retry(c)
        PROVE  late'[c] = \E x \in Caller \ {c} : pc[x] # "idle" /\ op[x].close
    <2>. DEFINE b == \E x \in Caller \ {c} : pc[x] # "idle" /\ op[x].close
    <2>1. late' = [late EXCEPT ![c] = b]
      BY <1>1, <1>3
    <2>. HIDE DEF b
    <2>2. late'[c] = b
      BY <1>0, <2>1
    <2>. QED
      BY <2>2 DEF b
  <1>4. CASE MainStep \/ WorkerStep \/ StartFails \/ Dies \/ UNCHANGED vars
    BY <1>4 DEF MainStep, WorkerStep, Ready, NotReady, Answered, WorkerError,
                Closed, Started, Execute, ExecuteFails, CloseDatabase, Terminate,
                StartFails, Dies, vars, callVars
  <1>. QED
    BY <1>2, <1>3, <1>4 DEF Next

\* The order of two callers that are left alone is kept.
LEMMA BeforeStays ==
  ASSUME NEW c \in Caller, NEW x \in Caller, Before(c, x),
         pc'[c] = pc[c], pc'[x] = pc[x], ready' # "pending",
         \A i \in DOMAIN pending' : pending'[i] \in {c, x} =>
           i \in DOMAIN pending /\ pending'[i] = pending[i]
  PROVE  Before(c, x)'
BY DEF Before

\* A caller that begins an attempt is behind whoever waits, or is late.
LEMMA ServedStart ==
  ASSUME AdapterInv, ServedInv, ~ died, [Next]_vars,
         NEW c \in Caller, StartCall(c) \/ StartClose(c) \/ Retry(c)
  PROVE  LineInv' /\ WorkerInv' /\ SentInv' /\ BeforeInv'
PROOF
  <1>. USE DEF AdapterInv
  <1>0. /\ LineInv /\ WorkerInv /\ SentInv /\ BeforeInv
        /\ line \in Seq(Caller) /\ inbox \in Seq(Request) /\ nextId \in Nat
        /\ op \in [Caller -> Op] /\ late \in [Caller -> BOOLEAN]
        /\ pc \in [Caller -> {"idle", "ready", "sent", "backoff", "terminate"}]
        /\ pending \in [DOMAIN pending -> Caller]
        /\ \A i \in DOMAIN pending : i \in Nat /\ i < nextId
    BY DEF ServedInv, Typed, TypeOK, Id
  <1>1. PICK o \in Op : Attempt(c, o) /\ pc[c] \in {"idle", "backoff"}
    BY Begins
  <1>2. op' = [op EXCEPT ![c] = o] /\ op' \in [Caller -> Op] /\ outbox' = outbox
    BY <1>1, Attempts
  <1>3. \A d \in Caller : d # c => op'[d] = op[d]
    BY <1>0, <1>2
  <1>4. \A d \in Caller : d # c => late'[d] = late[d]
    BY <1>0 DEF StartCall, StartClose, Retry, Attempt
  <1>5. \A x \in Caller : x # c /\ pc[x] # "idle" /\ op[x].close => late'[c]
    <2>1. late' = [late EXCEPT ![c] =
                     \E x \in Caller \ {c} : pc[x] # "idle" /\ op[x].close]
      BY DEF StartCall, StartClose, Retry, Attempt
    <2>. QED
      BY <1>0, <2>1
  <1>6. \A i \in DOMAIN pending : pc[pending[i]] = "sent" /\ pending[i] # c
    BY <1>1 DEF WaitInv
  <1>7. ready = "pending" => \A j \in DOMAIN line : pc[line[j]] = "ready" /\ line[j] # c
    BY <1>1 DEF WaitInv
  <1>8. \A d, x \in Caller : /\ d # c /\ x # c /\ d # x /\ ~ late'[d] /\ op'[x].close
                             => Before(d, x)
    BY <1>0, <1>3, <1>4 DEF BeforeInv
  <1>9. CASE ready = "none" \/ ready = "pending"
    <2>1. Waits({c}, "ready") /\ ready' = "pending" /\ pending' = pending
      BY <1>1, <1>9, Attempts
    <2>2. pc'[c] = "ready" /\ \A d \in Caller : d # c => pc'[d] = pc[d]
      BY <2>1, Moves
    <2>3. /\ ready = "none" => line' = << c >>
          /\ ready = "pending" => line' = Append(line, c)
      BY <1>1, <1>9, Attempts
    <2>4. Closers = {} /\ Closers' = {}
      BY <1>0, <1>9, <2>2 DEF WorkerInv, Closers
    <2>5. \E j \in DOMAIN line' : line'[j] = c
      <3>1. CASE ready = "none"
        BY <2>3, <3>1
      <3>2. CASE ready = "pending"
        BY <1>0, <2>3, <3>2, AppendProperties, LenProperties
      <3>. QED
        BY <1>9, <3>1, <3>2
    <2>6. \A j \in DOMAIN line' :
            \/ /\ ready = "pending" /\ j \in DOMAIN line /\ line'[j] = line[j]
               /\ j \in Nat /\ j <= Len(line)
            \/ /\ line'[j] = c /\ (ready = "pending" => j = Len(line) + 1)
               /\ (ready = "none" => j = 1)
      <3>1. CASE ready = "none"
        <4>1. line' = << c >>
          BY <2>3, <3>1
        <4>. QED
          BY <3>1, <4>1
      <3>2. CASE ready = "pending"
        <4>1. line' = Append(line, c)
          BY <2>3, <3>2
        <4>2. \A j \in DOMAIN line : j \in Nat /\ j <= Len(line)
          BY <1>0, LenProperties
        <4>. QED
          BY <1>0, <3>2, <4>1, <4>2, AppendOf
      <3>. QED
        BY <1>9, <3>1, <3>2
    <2>7. ASSUME NEW d \in Caller, d # c, pc[d] = "ready"
          PROVE  \E j \in DOMAIN line' : line'[j] = d
      <3>1. ready = "pending" /\ line' = Append(line, c)
        BY <1>0, <2>3, <2>7 DEF LineInv
      <3>2. PICK j \in DOMAIN line : line[j] = d
        BY <1>0, <2>7 DEF LineInv
      <3>3. j \in DOMAIN line' /\ line'[j] = line[j]
        BY <1>0, <3>1, <3>2, AppendProperties, LenProperties
      <3>. QED
        BY <3>2, <3>3
    <2>8. LineInv'
      BY <2>1, <2>2, <2>5, <2>7 DEF LineInv
    <2>9. WorkerInv'
      <3>1. CASE ready = "none"
        <4>1. thread' = "starting"
          BY <1>1, <3>1, Attempts
        <4>. QED
          BY <2>1, <2>4, <4>1 DEF WorkerInv
      <3>2. CASE ready = "pending"
        <4>1. thread' = thread
          BY <1>1, <3>2, Attempts
        <4>. QED
          BY <1>0, <1>2, <2>1, <2>4, <3>2, <4>1 DEF WorkerInv
      <3>. QED
        BY <1>9, <3>1, <3>2
    <2>10. SentInv'
      BY <1>0, <1>4, <1>9, <2>2 DEF SentInv
    <2>11. ASSUME NEW d \in Caller, NEW x \in Caller, d # x, ~ late'[d], op'[x].close
           PROVE  Before(d, x)'
      <3>1. pc'[x] # "terminate"
        BY <2>4 DEF Closers
      <3>2. pc'[x] = "sent" => pc'[d] # "ready"
        <4>1. CASE d = c
          BY <1>3, <1>5, <2>2, <2>11, <4>1
        <4>2. CASE d # c /\ x # c
          BY <1>8, <2>2, <2>11, <4>2 DEF Before
        <4>3. CASE x = c
          BY <2>2, <4>3
        <4>. QED
          BY <4>1, <4>2, <4>3
      <3>3. \A i, k \in DOMAIN pending' : pending'[i] = d /\ pending'[k] = x => i < k
        BY <1>6, <1>8, <2>1, <2>11 DEF Before
      <3>4. ASSUME NEW j \in DOMAIN line', NEW k \in DOMAIN line',
                   line'[j] = d, line'[k] = x
            PROVE  j < k
        <4>1. CASE d = c
          <5>1. ready = "pending" /\ k \in DOMAIN line /\ line[k] = x
            BY <2>6, <2>11, <3>4, <4>1
          <5>2. pc[x] = "ready" /\ op[x].close
            BY <1>3, <1>7, <2>11, <4>1, <5>1
          <5>. QED
            BY <1>5, <2>11, <4>1, <5>2
        <4>2. CASE x = c
          <5>1. ready = "pending" /\ j \in Nat /\ j <= Len(line)
            BY <2>6, <2>11, <3>4, <4>2
          <5>2. k = Len(line) + 1 \/ (k \in DOMAIN line /\ line[k] = c)
            BY <2>6, <3>4, <4>2, <5>1
          <5>3. k = Len(line) + 1
            BY <1>7, <5>1, <5>2
          <5>. QED
            BY <1>0, <5>1, <5>3, LenProperties
        <4>3. CASE d # c /\ x # c
          <5>1. /\ ready = "pending" /\ j \in DOMAIN line /\ line[j] = d
                /\ k \in DOMAIN line /\ line[k] = x
            BY <2>6, <3>4, <4>3
          <5>. QED
            BY <1>8, <2>11, <4>3, <5>1 DEF Before
        <4>. QED
          BY <4>1, <4>2, <4>3
      <3>. QED
        BY <3>1, <3>2, <3>3, <3>4 DEF Before
    <2>12. BeforeInv'
      BY <2>11 DEF BeforeInv
    <2>. QED
      BY <2>8, <2>9, <2>10, <2>12
  <1>10. CASE ready = "ok"
    <2>1. Post(<< c >>) /\ Waits({c}, "sent") /\ ready' = "ok" /\ thread' = thread
      BY <1>1, <1>10, Attempts
    <2>2. pc'[c] = "sent" /\ \A d \in Caller : d # c => pc'[d] = pc[d]
      BY <2>1, Moves
    <2>3. << c >> \in Seq(Caller) /\ 1 \in DOMAIN << c >> /\ << c >>[1] = c
          /\ \A k \in DOMAIN << c >> : k = 1
      OBVIOUS
    <2>4. \A d \in Caller : d # c => pc'[d] # "ready"
      BY <1>0, <1>10, <2>2 DEF LineInv
    <2>5. LineInv'
      BY <2>2, <2>4 DEF LineInv
    <2>6. Closers' = Closers
      BY <1>1, <2>2 DEF Closers
    <2>7. WorkerInv'
      BY <1>0, <1>10, <2>1, <2>6 DEF WorkerInv
    <2>8. /\ \A i \in DOMAIN pending : i \in DOMAIN pending' /\ pending'[i] = pending[i]
          /\ \A j \in DOMAIN inbox : j \in DOMAIN inbox' /\ inbox'[j] = inbox[j]
          /\ \A k \in DOMAIN << c >> :
               /\ nextId + k - 1 \in DOMAIN pending'
               /\ pending'[nextId + k - 1] = << c >>[k]
               /\ thread # "dead" =>
                    \E j \in DOMAIN inbox' : inbox'[j].id = nextId + k - 1
      BY <1>2, <2>1, <2>3, PostKeeps
    <2>9. ASSUME ~ late'[c] PROVE thread # "dead"
      <3>1. \A x \in Closers : x \in Caller /\ x # c /\ pc[x] # "idle" /\ op[x].close
        BY <1>1 DEF Closers, AliveInv
      <3>2. Closers = {}
        BY <1>5, <2>9, <3>1
      <3>. QED
        BY <1>0, <1>10, <3>2 DEF WorkerInv
    <2>10. SentInv'
      <3>. SUFFICES ASSUME NEW d \in Caller, ~ late'[d], pc'[d] = "sent"
                    PROVE  \E i \in DOMAIN pending' : pending'[i] = d /\ Message(i)'
        BY <2>1 DEF SentInv
      <3>1. CASE d = c
        <4>1. nextId + 1 - 1 \in DOMAIN pending' /\ pending'[nextId + 1 - 1] = c
              /\ \E j \in DOMAIN inbox' : inbox'[j].id = nextId + 1 - 1
          BY <2>3, <2>8, <2>9, <3>1
        <4>. QED
          BY <3>1, <4>1 DEF Message
      <3>2. CASE d # c
        <4>1. PICK i \in DOMAIN pending : pending[i] = d /\ Message(i)
          BY <1>0, <1>4, <2>2, <3>2 DEF SentInv
        <4>2. Message(i)'
          BY <1>2, <2>8, <4>1 DEF Message
        <4>. QED
          BY <2>8, <4>1, <4>2
      <3>. QED
        BY <3>1, <3>2
    <2>11. \A i \in DOMAIN pending' :
             \/ i \in DOMAIN pending /\ pending'[i] = pending[i] /\ i < nextId
             \/ i >= nextId /\ pending'[i] = c
      <3>1. \A i \in DOMAIN pending' :
              \/ i \in DOMAIN pending /\ i < nextId /\ pending'[i] = pending[i]
              \/ i >= nextId /\ i - nextId + 1 \in DOMAIN << c >>
                 /\ pending'[i] = << c >>[i - nextId + 1]
        BY <1>2, <2>1, <2>3, PostAdds
      <3>. QED
        BY <2>3, <3>1
    <2>12. ASSUME NEW d \in Caller, NEW x \in Caller, d # x, ~ late'[d], op'[x].close
           PROVE  Before(d, x)'
      <3>1. CASE d # c /\ x # c
        <4>1. \A i \in DOMAIN pending' : pending'[i] \in {d, x} =>
                i \in DOMAIN pending /\ pending'[i] = pending[i]
          BY <2>11, <3>1
        <4>. QED
          BY <1>8, <2>1, <2>2, <2>12, <3>1, <4>1, BeforeStays
      <3>2. CASE d = c
        <4>1. pc[x] = "idle" /\ x # c
          BY <1>3, <1>5, <2>12, <3>2
        <4>2. pc'[x] = "idle" /\ \A k \in DOMAIN pending' : pending'[k] # x
          BY <1>6, <2>2, <2>11, <4>1
        <4>. QED
          BY <2>1, <4>2 DEF Before
      <3>3. CASE x = c
        <4>1. pc'[x] = "sent" /\ pc'[d] # "ready"
          BY <2>2, <2>4, <2>12, <3>3
        <4>2. ASSUME NEW i \in DOMAIN pending', NEW k \in DOMAIN pending',
                     pending'[i] = d, pending'[k] = x
              PROVE  i < k
          <5>1. i \in DOMAIN pending /\ i < nextId
            BY <2>11, <2>12, <3>3, <4>2
          <5>2. k >= nextId
            BY <1>6, <2>11, <3>3, <4>2
          <5>3. k \in Nat
            BY <1>2, <2>1, <2>3, PostTyped DEF Id
          <5>. QED
            BY <1>0, <5>1, <5>2, <5>3
        <4>. QED
          BY <2>1, <4>1, <4>2 DEF Before
      <3>. QED
        BY <3>1, <3>2, <3>3
    <2>13. BeforeInv'
      BY <2>12 DEF BeforeInv
    <2>. QED
      BY <2>5, <2>7, <2>10, <2>13
  <1>11. CASE ready = "failed"
    <2>1. Reject({c}) /\ ready' = "failed" /\ pending' = pending
      BY <1>1, <1>11, Attempts
    <2>2. /\ pc'[c] \in {"terminate", "idle", "backoff"}
          /\ \A d \in Caller : d # c => pc'[d] = pc[d]
      BY <2>1, Moves
    <2>3. \A d \in Caller : pc'[d] # "ready"
      BY <1>0, <1>11, <2>2 DEF LineInv
    <2>4. \A d \in Caller : ~ late'[d] => pc'[d] # "sent"
      BY <1>0, <1>4, <1>11, <2>2 DEF SentInv
    <2>5. LineInv' /\ WorkerInv' /\ SentInv'
      BY <2>1, <2>3, <2>4 DEF LineInv, WorkerInv, SentInv
    <2>6. ASSUME NEW d \in Caller, NEW x \in Caller, d # x, ~ late'[d], op'[x].close
          PROVE  Before(d, x)'
      <3>1. \A i, k \in DOMAIN pending' : pending'[i] = d /\ pending'[k] = x => i < k
        BY <1>6, <1>8, <2>1, <2>6 DEF Before
      <3>. QED
        BY <2>1, <2>3, <2>4, <2>6, <3>1 DEF Before
    <2>7. BeforeInv'
      BY <2>6 DEF BeforeInv
    <2>. QED
      BY <2>5, <2>7
  <1>. QED
    BY <1>9, <1>10, <1>11 DEF Typed, TypeOK


\* What is left of the messages after the first.
LEMMA TailKeeps ==
  ASSUME NEW S, NEW s \in Seq(S), s # << >>, NEW j \in DOMAIN s, j # 1
  PROVE  j - 1 \in DOMAIN Tail(s) /\ Tail(s)[j - 1] = s[j]
PROOF
  <1>1. Len(s) \in Nat /\ DOMAIN s = 1 .. Len(s) /\ j \in 1 .. Len(s)
    BY LenProperties
  <1>2. Tail(s) \in Seq(S) /\ Len(Tail(s)) = Len(s) - 1
        /\ \A i \in 1 .. Len(s) - 1 : Tail(s)[i] = s[i + 1]
    BY HeadTailProperties
  <1>3. DOMAIN Tail(s) = 1 .. Len(s) - 1
    BY <1>2, LenProperties
  <1>4. j - 1 \in 1 .. Len(s) - 1 /\ (j - 1) + 1 = j
    BY <1>1
  <1>. QED
    BY <1>2, <1>3, <1>4

\* Whoever closes the adapter has outlived all that asked before him.
LEMMA ClosersAreLast ==
  ASSUME AdapterInv, LineInv, WorkerInv, BeforeInv, Closers # {}
  PROVE  /\ ready \notin {"none", "pending"}
         /\ \A c \in Caller : pc[c] # "ready"
         /\ \A c \in Caller : ~ late[c] => pc[c] # "sent"
PROOF
  <1>1. PICK x \in Caller : pc[x] = "terminate"
    BY DEF Closers
  <1>2. op[x].close
    BY <1>1 DEF AdapterInv, AliveInv
  <1>3. ASSUME NEW c \in Caller, ~ late[c] PROVE pc[c] # "sent"
    BY <1>1, <1>2, <1>3 DEF BeforeInv, Before
  <1>. QED
    BY <1>3 DEF LineInv, WorkerInv

LEMMA ServedReady ==
  ASSUME AdapterInv, ServedInv, ~ died, Ready
  PROVE  LineInv' /\ WorkerInv' /\ SentInv' /\ BeforeInv'
PROOF
  <1>. USE DEF AdapterInv
  <1>0. /\ LineInv /\ WorkerInv /\ SentInv /\ BeforeInv
        /\ line \in Seq(Caller) /\ outbox \in Seq(Answer) /\ nextId \in Nat
        /\ op \in [Caller -> Op]
        /\ \A i \in DOMAIN pending : i \in Nat /\ i < nextId
    BY DEF ServedInv, Typed, TypeOK, Id
  <1>1. /\ outbox # << >> /\ Head(outbox).id = 0 /\ Head(outbox).ok
        /\ ready' = "ok" /\ op' = op /\ late' = late /\ thread' = thread
        /\ Post(line) /\ Waits(ToSet(line), "sent")
    BY DEF Ready
  <1>2. ready = "pending" /\ thread # "dead"
    <2>1. 1 \in DOMAIN outbox /\ Head(outbox) = outbox[1]
      BY <1>0, <1>1, TailOf
    <2>2. ready = "pending" /\ thread # "starting"
      BY <1>1, <2>1 DEF StartInv
    <2>. QED
      BY <1>0, <1>1, <2>2 DEF WorkerInv
  <1>3. \A d \in Caller : pc'[d] = IF d \in ToSet(line) THEN "sent" ELSE pc[d]
    BY <1>1, Moves
  <1>4. \A d \in Caller : d \in ToSet(line) <=> \E j \in DOMAIN line : line[j] = d
    BY DEF ToSet
  <1>5. \A d \in Caller : d \in ToSet(line) <=> pc[d] = "ready"
    BY <1>0, <1>2, <1>4 DEF WaitInv, LineInv
  <1>6. \A d \in Caller : pc'[d] \notin {"ready", "terminate"}
    BY <1>0, <1>2, <1>3, <1>5 DEF WorkerInv, Closers
  <1>7. \A d \in Caller : ~ late[d] => pc[d] # "sent"
    BY <1>0, <1>2 DEF SentInv
  <1>8. LineInv' /\ WorkerInv'
    BY <1>1, <1>2, <1>6 DEF LineInv, WorkerInv
  <1>9. SentInv'
    <2>. SUFFICES ASSUME NEW d \in Caller, ~ late[d], pc'[d] = "sent"
                  PROVE  \E i \in DOMAIN pending' : pending'[i] = d /\ Message(i)'
      BY <1>1 DEF SentInv
    <2>1. d \in ToSet(line)
      BY <1>3, <1>7
    <2>2. PICK k \in DOMAIN line : line[k] = d
      BY <1>4, <2>1
    <2>3. /\ nextId + k - 1 \in DOMAIN pending' /\ pending'[nextId + k - 1] = d
          /\ \E j \in DOMAIN inbox' : inbox'[j].id = nextId + k - 1
      BY <1>0, <1>1, <1>2, <2>2, PostKeeps
    <2>. QED
      BY <2>3 DEF Message
  <1>10. ASSUME NEW d \in Caller, NEW x \in Caller, d # x, ~ late[d], op[x].close,
                NEW i \in DOMAIN pending', NEW k \in DOMAIN pending',
                pending'[i] = d, pending'[k] = x
         PROVE  i < k
    <2>1. Before(d, x)
      BY <1>0, <1>10 DEF BeforeInv
    <2>2. \A n \in DOMAIN pending' :
            \/ n \in DOMAIN pending /\ n < nextId /\ pending'[n] = pending[n]
            \/ /\ n >= nextId /\ n - nextId + 1 \in DOMAIN line
               /\ pending'[n] = line[n - nextId + 1]
      BY <1>0, <1>1, PostAdds
    <2>3. ~ (i \in DOMAIN pending /\ pending'[i] = pending[i])
      BY <1>7, <1>10 DEF WaitInv
    <2>4. i - nextId + 1 \in DOMAIN line /\ line[i - nextId + 1] = d
      BY <1>10, <2>2, <2>3
    <2>5. pc[d] = "ready"
      BY <1>2, <2>4 DEF WaitInv
    <2>6. ~ (k \in DOMAIN pending /\ pending'[k] = pending[k])
      BY <1>10, <2>1, <2>5 DEF WaitInv, Before
    <2>7. k - nextId + 1 \in DOMAIN line /\ line[k - nextId + 1] = x
      BY <1>10, <2>2, <2>6
    <2>8. i - nextId + 1 < k - nextId + 1
      BY <1>2, <2>1, <2>4, <2>7 DEF Before
    <2>9. i \in Nat /\ k \in Nat
      BY <1>0, <1>1, PostTyped DEF Id
    <2>. QED
      BY <1>0, <2>8, <2>9
  <1>11. BeforeInv'
    BY <1>1, <1>6, <1>10 DEF BeforeInv, Before
  <1>. QED
    BY <1>8, <1>9, <1>11

LEMMA ServedNotReady ==
  ASSUME AdapterInv, ServedInv, ~ died, NotReady
  PROVE  LineInv' /\ WorkerInv' /\ SentInv' /\ BeforeInv'
PROOF
  <1>. USE DEF AdapterInv
  <1>0. /\ LineInv /\ WorkerInv /\ SentInv /\ BeforeInv /\ outbox \in Seq(Answer)
    BY DEF ServedInv, Typed, TypeOK
  <1>1. /\ outbox # << >> /\ Head(outbox).id = 0
        /\ ready' = "failed" /\ op' = op /\ late' = late /\ pending' = pending
        /\ Reject(ToSet(line))
    BY DEF NotReady
  <1>2. ready = "pending"
    <2>1. 1 \in DOMAIN outbox /\ Head(outbox) = outbox[1]
      BY <1>0, <1>1, TailOf
    <2>. QED
      BY <1>1, <2>1 DEF StartInv
  <1>3. \A d \in Caller : IF d \in ToSet(line)
                          THEN pc'[d] \in {"terminate", "idle", "backoff"}
                          ELSE pc'[d] = pc[d]
    BY <1>1, Moves
  <1>4. \A d \in Caller : pc[d] = "ready" => d \in ToSet(line)
    BY <1>0 DEF LineInv, ToSet
  <1>5. \A d \in Caller : pc'[d] # "ready"
    BY <1>3, <1>4
  <1>6. \A d \in Caller : ~ late[d] => pc'[d] # "sent"
    BY <1>0, <1>2, <1>3 DEF SentInv
  <1>7. LineInv' /\ WorkerInv' /\ SentInv'
    BY <1>1, <1>5, <1>6 DEF LineInv, WorkerInv, SentInv
  <1>8. BeforeInv'
    BY <1>0, <1>1, <1>5, <1>6 DEF BeforeInv, Before
  <1>. QED
    BY <1>7, <1>8

LEMMA ServedAnswered ==
  ASSUME AdapterInv, SortedInv, ServedInv, ~ died, Answered
  PROVE  LineInv' /\ WorkerInv' /\ SentInv' /\ BeforeInv'
PROOF
  <1>. USE DEF AdapterInv
  <1>. DEFINE m == Head(outbox)
  <1>0. /\ LineInv /\ WorkerInv /\ SentInv /\ BeforeInv /\ outbox \in Seq(Answer)
        /\ inbox \in Seq(Request) /\ pending \in [DOMAIN pending -> Caller]
        /\ pc \in [Caller -> {"idle", "ready", "sent", "backoff", "terminate"}]
    BY DEF ServedInv, Typed, TypeOK
  <1>1. /\ outbox # << >> /\ m.id # 0 /\ outbox' = Tail(outbox)
        /\ pending' = [i \in DOMAIN pending \ {m.id} |-> pending[i]]
        /\ op' = op /\ late' = late
        /\ ready' = ready /\ line' = line /\ thread' = thread /\ inbox' = inbox
    BY DEF Answered
  <1>2. 1 \in DOMAIN outbox /\ m = outbox[1]
    BY <1>0, <1>1, TailOf
  <1>3. \A d \in Caller :
          \/ pc'[d] = pc[d] /\ (m.id \in DOMAIN pending => pending[m.id] # d)
          \/ /\ m.id \in DOMAIN pending /\ pending[m.id] = d
             /\ pc'[d] \in {"terminate", "idle", "backoff"}
    <2>1. CASE m.id \notin DOMAIN pending
      <3>1. pc' = pc
        BY <2>1 DEF Answered
      <3>. QED
        BY <2>1, <3>1
    <2>2. CASE m.id \in DOMAIN pending /\ Resolve(pending[m.id], m.of)
      <3>. DEFINE w == pending[m.id]
      <3>1. pc' = [pc EXCEPT ![w] = IF op[w].close THEN "terminate" ELSE "idle"]
        BY <2>2 DEF Resolve
      <3>. HIDE DEF w
      <3>2. \A d \in Caller : IF d = w THEN pc'[d] \in {"terminate", "idle"}
                              ELSE pc'[d] = pc[d]
        BY <1>0, <3>1
      <3>. QED
        BY <2>2, <3>2 DEF w
    <2>3. CASE m.id \in DOMAIN pending /\ Reject({pending[m.id]})
      <3>. DEFINE w == pending[m.id]
      <3>1. \A d \in Caller : IF d \in {w} THEN pc'[d] \in {"terminate", "idle", "backoff"}
                              ELSE pc'[d] = pc[d]
        BY <2>3, Moves
      <3>. QED
        BY <2>3, <3>1
    <2>. QED
      BY <2>1, <2>2, <2>3 DEF Answered
  <1>. HIDE DEF m
  <1>4. m.id \in DOMAIN pending => pc[pending[m.id]] = "sent"
    BY DEF WaitInv
  <1>5. ready # "pending"
    BY <1>0, <1>1 DEF WorkerInv, StartInv, m
  <1>6. \A d \in Caller : pc[d] # "ready" /\ pc'[d] # "ready"
    BY <1>0, <1>3, <1>5 DEF LineInv
  <1>7. ready # "none"
    BY <1>1 DEF StartInv
  <1>8. \A d \in Caller : pc[d] = "terminate" => pc'[d] = "terminate"
    BY <1>3, <1>4
  <1>9. LineInv'
    BY <1>6 DEF LineInv
  <1>10. WorkerInv'
    BY <1>0, <1>1, <1>5, <1>7, <1>8 DEF WorkerInv, Closers
  <1>11. \A i : Message(i) /\ i # m.id => Message(i)'
    <2>1. ASSUME NEW j \in DOMAIN outbox, outbox[j].id # m.id
          PROVE  \E k \in DOMAIN outbox' : outbox'[k].id = outbox[j].id
      <3>1. j # 1
        BY <1>2, <2>1
      <3>2. j - 1 \in DOMAIN outbox' /\ outbox'[j - 1] = outbox[j]
        BY <1>0, <1>1, <3>1, TailKeeps
      <3>. QED
        BY <3>2
    <2>. QED
      BY <1>1, <2>1 DEF Message
  <1>12. ASSUME NEW d \in Caller, ~ late[d], pc'[d] = "sent"
         PROVE  /\ ready = "ok" /\ pc[d] = "sent"
                /\ \E i \in DOMAIN pending : pending[i] = d /\ Message(i) /\ i # m.id
    <2>1. pc[d] = "sent" /\ (m.id \in DOMAIN pending => pending[m.id] # d)
      BY <1>3, <1>12
    <2>2. ready = "ok" /\ \E i \in DOMAIN pending : pending[i] = d /\ Message(i)
      BY <1>0, <1>12, <2>1 DEF SentInv
    <2>. QED
      BY <2>1, <2>2
  <1>13. SentInv'
    <2>. SUFFICES ASSUME NEW d \in Caller, ~ late[d], pc'[d] = "sent"
                  PROVE  /\ ready = "ok"
                         /\ \E i \in DOMAIN pending' : pending'[i] = d /\ Message(i)'
      BY <1>1 DEF SentInv
    <2>1. PICK i \in DOMAIN pending : pending[i] = d /\ Message(i) /\ i # m.id
      BY <1>12
    <2>2. i \in DOMAIN pending' /\ pending'[i] = pending[i]
      BY <1>1, <2>1
    <2>. QED
      BY <1>11, <1>12, <2>1, <2>2
  <1>14. \A i : Message(i) /\ i # m.id => m.id < i
    <2>1. \A j \in DOMAIN inbox : m.id < inbox[j].id
      BY <1>2 DEF SortedInv
    <2>2. ASSUME NEW j \in DOMAIN outbox, outbox[j].id # m.id PROVE m.id < outbox[j].id
      <3>1. j \in Nat /\ 1 <= j /\ j # 1
        BY <1>0, <1>2, <2>2, LenProperties
      <3>. QED
        BY <1>2, <3>1 DEF SortedInv
    <2>. QED
      BY <2>1, <2>2 DEF Message
  <1>15. m.id \in Nat /\ \A i \in DOMAIN pending : i \in Nat
    <2>1. m \in Answer
      BY <1>0, <1>2, LenProperties
    <2>. QED
      BY <2>1 DEF Answer, Id, Typed, TypeOK
  <1>16. ASSUME NEW d \in Caller, NEW x \in Caller, d # x, ~ late[d], op[x].close
         PROVE  Before(d, x)'
    <2>1. Before(d, x)
      BY <1>0, <1>16 DEF BeforeInv
    <2>2. \A i, k \in DOMAIN pending' : pending'[i] = d /\ pending'[k] = x => i < k
      BY <1>1, <2>1 DEF Before
    <2>3. ASSUME pc'[x] = "terminate" PROVE pc'[d] # "sent"
      <3>1. CASE pc[x] = "terminate"
        BY <1>12, <1>16, <2>1, <3>1 DEF Before
      <3>2. CASE m.id \in DOMAIN pending /\ pending[m.id] = x
        <4>. SUFFICES ASSUME pc'[d] = "sent" PROVE FALSE
          OBVIOUS
        <4>1. PICK i \in DOMAIN pending : pending[i] = d /\ Message(i) /\ i # m.id
          BY <1>12, <1>16
        <4>2. i < m.id
          BY <2>1, <3>2, <4>1 DEF Before
        <4>3. m.id < i
          BY <1>14, <4>1
        <4>. QED
          BY <1>15, <4>1, <4>2, <4>3
      <3>. QED
        BY <1>3, <2>3, <3>1, <3>2
    <2>. QED
      BY <1>1, <1>5, <1>6, <2>2, <2>3 DEF Before
  <1>17. BeforeInv'
    BY <1>1, <1>16 DEF BeforeInv
  <1>. QED
    BY <1>9, <1>10, <1>13, <1>17

LEMMA ServedClosed ==
  ASSUME AdapterInv, ServedInv, ~ died, Closed
  PROVE  LineInv' /\ WorkerInv' /\ SentInv' /\ BeforeInv'
PROOF
  <1>0. LineInv /\ WorkerInv /\ SentInv /\ BeforeInv
    BY DEF ServedInv
  <1>1. /\ Closers # {} /\ ready' = "none" /\ thread' = "none"
        /\ Waits(Closers, "idle") /\ op' = op /\ late' = late /\ pending' = pending
    BY DEF Closed
  <1>2. /\ \A c \in Caller : pc[c] # "ready"
        /\ \A c \in Caller : ~ late[c] => pc[c] # "sent"
    BY <1>0, <1>1, ClosersAreLast
  <1>3. \A d \in Caller : pc'[d] = IF d \in Closers THEN "idle" ELSE pc[d]
    BY <1>1, Moves
  <1>4. /\ \A d \in Caller : pc'[d] \notin {"ready", "terminate"}
        /\ \A d \in Caller : ~ late[d] => pc'[d] # "sent"
    BY <1>2, <1>3 DEF Closers
  <1>5. LineInv' /\ WorkerInv' /\ SentInv'
    BY <1>1, <1>4 DEF LineInv, WorkerInv, SentInv, Closers
  <1>6. BeforeInv'
    BY <1>0, <1>1, <1>4 DEF BeforeInv, Before
  <1>. QED
    BY <1>5, <1>6

LEMMA ServedHandled ==
  ASSUME AdapterInv, ServedInv, ~ died, Execute \/ ExecuteFails \/ CloseDatabase
  PROVE  LineInv' /\ WorkerInv' /\ SentInv' /\ BeforeInv'
PROOF
  <1>. USE DEF AdapterInv
  <1>0. /\ LineInv /\ WorkerInv /\ SentInv /\ BeforeInv /\ inbox \in Seq(Request)
    BY DEF ServedInv, Typed, TypeOK
  <1>1. /\ inbox # << >> /\ inbox' = Tail(inbox) /\ thread' \in {"up", "closed"}
        /\ ready' = ready /\ line' = line /\ pending' = pending /\ op' = op /\ pc' = pc
    BY Handles
  <1>2. late' = late
    BY DEF Execute, ExecuteFails, CloseDatabase, callVars
  <1>3. ready # "pending"
    BY <1>1 DEF WaitInv
  <1>4. LineInv' /\ BeforeInv'
    BY <1>0, <1>1, <1>2 DEF LineInv, BeforeInv, Before
  <1>5. WorkerInv'
    BY <1>0, <1>1, <1>3 DEF WorkerInv, Closers
  <1>6. ASSUME NEW i, Message(i) PROVE Message(i)'
    <2>1. CASE \E j \in DOMAIN outbox : outbox[j].id = i
      BY <2>1, Answers DEF Message
    <2>2. ASSUME NEW j \in DOMAIN inbox, inbox[j].id = i PROVE Message(i)'
      <3>1. CASE j = 1
        <4>1. Head(inbox) = inbox[1]
          BY <1>0, <1>1, TailOf
        <4>. QED
          BY <2>2, <3>1, <4>1, Answers DEF Message
      <3>2. CASE j # 1
        <4>1. j - 1 \in DOMAIN inbox' /\ inbox'[j - 1] = inbox[j]
          BY <1>0, <1>1, <3>2, TailKeeps
        <4>. QED
          BY <2>2, <4>1 DEF Message
      <3>. QED
        BY <3>1, <3>2
    <2>. QED
      BY <1>6, <2>1, <2>2 DEF Message
  <1>7. SentInv'
    BY <1>0, <1>1, <1>2, <1>6 DEF SentInv
  <1>. QED
    BY <1>4, <1>5, <1>7

\* The worker starts, or is stopped, and the callers notice nothing yet.
LEMMA ServedThread ==
  ASSUME AdapterInv, ServedInv, ~ died, Started \/ StartFails \/ Terminate
  PROVE  LineInv' /\ WorkerInv' /\ SentInv' /\ BeforeInv'
PROOF
  <1>. USE DEF AdapterInv
  <1>0. LineInv /\ WorkerInv /\ SentInv /\ BeforeInv
    BY DEF ServedInv
  <1>1. /\ ready' = ready /\ line' = line /\ pending' = pending
        /\ op' = op /\ pc' = pc /\ late' = late
    BY DEF Started, StartFails, Terminate, mainVars, callVars
  <1>2. LineInv' /\ BeforeInv'
    BY <1>0, <1>1 DEF LineInv, BeforeInv, Before
  <1>3. CASE Started \/ StartFails
    <2>1. ready = "pending" /\ outbox = << >>
      BY <1>3 DEF Started, StartFails, StartInv
    <2>2. /\ outbox' # << >> /\ Head(outbox').id = 0
          /\ Head(outbox').ok => thread' # "dead"
      <3>1. CASE Started
        <4>1. outbox' = << [id |-> 0, ok |-> TRUE, of |-> 0] >> /\ thread' = "up"
          BY <2>1, <3>1 DEF Started, Say
        <4>. QED
          BY <4>1
      <3>2. CASE StartFails
        <4>1. outbox' = << [id |-> 0, ok |-> FALSE, of |-> 0] >>
          BY <2>1, <3>2 DEF StartFails, Say
        <4>. QED
          BY <4>1
      <3>. QED
        BY <1>3, <3>1, <3>2
    <2>3. WorkerInv'
      BY <1>0, <1>1, <2>1, <2>2 DEF WorkerInv, Closers
    <2>4. SentInv'
      BY <1>0, <1>1, <2>1 DEF SentInv
    <2>. QED
      BY <1>2, <2>3, <2>4
  <1>4. CASE Terminate
    <2>1. Closers # {}
      BY <1>4 DEF Terminate
    <2>2. /\ ready \notin {"none", "pending"}
          /\ \A c \in Caller : ~ late[c] => pc[c] # "sent"
      BY <1>0, <2>1, ClosersAreLast
    <2>. QED
      BY <1>1, <1>2, <2>1, <2>2 DEF WorkerInv, SentInv, Closers
  <1>. QED
    BY <1>3, <1>4

LEMMA ServedStep ==
  ASSUME AdapterInv, SortedInv, ServedInv, [Next]_vars
  PROVE  ServedInv'
PROOF
  <1>. SUFFICES ASSUME ~ died'
                PROVE  LineInv' /\ WorkerInv' /\ SentInv' /\ BeforeInv'
    BY DEF ServedInv
  <1>1. ~ died
    BY DiedStays DEF AdapterInv
  <1>2. LineInv /\ WorkerInv /\ SentInv /\ BeforeInv
    BY <1>1 DEF ServedInv
  <1>3. ~ WorkerError
    BY <1>1 DEF AdapterInv, OnceInv, WorkerError
  <1>4. ~ Dies
    BY DEF Dies
  <1>5. CASE UNCHANGED vars
    BY <1>2, <1>5 DEF LineInv, WorkerInv, SentInv, BeforeInv, Before, Message,
                      Closers, vars, mainVars, workerVars, callVars
  <1>. QED
    BY <1>1, <1>3, <1>4, <1>5, ServedStart, ServedReady, ServedNotReady,
       ServedAnswered, ServedClosed, ServedHandled, ServedThread
    DEF Next, MainStep, WorkerStep

(* The request of whoever waits for an answer is on its way, or the answer  *)
(* is, and whoever waits for a worker is in line for one that comes up, or  *)
(* has told that it cannot: no step of the others, close() among them,      *)
(* drops what somebody waits for who was not warned by a close() under way  *)
(* when he began.  What is missing to CallsSettle is fairness.              *)
THEOREM NothingWaitedForIsLost == Spec => []NobodyWaitsInVain
PROOF
  <1>1. Init => SortedInv /\ ServedInv
    BY DEF Init, SortedInv, ServedInv, LineInv, WorkerInv, SentInv, BeforeInv,
           Before, Closers
  <1>2. AdapterInv /\ SortedInv /\ ServedInv /\ [Next]_vars
          => SortedInv' /\ ServedInv'
    BY SortedStep, ServedStep DEF AdapterInv
  <1>3. AdapterInv /\ ServedInv => NobodyWaitsInVain
    <2>. SUFFICES ASSUME AdapterInv, ServedInv, ~ died, NEW c \in Caller, ~ late[c]
                  PROVE  /\ pc[c] = "sent" =>
                              \E i \in DOMAIN pending :
                                /\ pending[i] = c
                                /\ \/ /\ thread \in {"up", "closed"}
                                      /\ \E j \in DOMAIN inbox : inbox[j].id = i
                                   \/ \E j \in DOMAIN outbox : outbox[j].id = i
                         /\ pc[c] = "ready" =>
                              /\ \E j \in DOMAIN line : line[j] = c
                              /\ \/ thread = "starting"
                                 \/ outbox # << >> /\ Head(outbox).id = 0
      BY DEF NobodyWaitsInVain
    <2>. USE DEF AdapterInv
    <2>1. LineInv /\ WorkerInv /\ SentInv
      BY DEF ServedInv
    <2>2. ASSUME pc[c] = "sent", NEW j \in DOMAIN inbox PROVE thread \in {"up", "closed"}
      <3>1. ready = "ok"
        BY <2>1, <2>2 DEF SentInv
      <3>2. inbox # << >>
        BY <2>2
      <3>3. thread \notin {"none", "dead", "starting"}
        BY <3>1, <3>2 DEF AliveInv, StartInv
      <3>. QED
        BY <3>3 DEF Typed, TypeOK
    <2>3. ASSUME pc[c] = "sent"
          PROVE  \E i \in DOMAIN pending : pending[i] = c /\ Message(i)
      BY <2>1, <2>3 DEF SentInv
    <2>4. ASSUME pc[c] = "ready"
          PROVE  /\ \E j \in DOMAIN line : line[j] = c
                 /\ \/ thread = "starting"
                    \/ outbox # << >> /\ Head(outbox).id = 0
      BY <2>1, <2>4 DEF LineInv, WorkerInv
    <2>. QED
      BY <2>2, <2>3, <2>4 DEF Message
  <1>. QED
    BY <1>1, <1>2, <1>3, AdapterInit, AdapterStep, PTL DEF Spec

=============================================================================
