----------------------------- MODULE SessionLock -----------------------------
(***************************************************************************)
(* What a section of keys.set relies on of the session's lock: it starts   *)
(* when the lock is granted to its call, and until it is over nobody else  *)
(* is granted the lock.  The lock may be granted to a call that will never *)
(* start its section, may stay with one whose section is over, and comes   *)
(* free again some time.                                                   *)
(***************************************************************************)
CONSTANTS
  Client,  \* slots for the calls of withLock
  Nobody   \* the lock is free

VARIABLES
  holder,  \* whom the lock was granted
  inside   \* the calls whose section has started and is not over

vars == <<holder, inside>>

Init == holder = Nobody /\ inside = {}

\* The lock is granted to c, whose section starts unless the answer is lost.
Grant(c) == /\ holder = Nobody /\ inside = {}
            /\ holder' = c
            /\ inside' \in {{}, {c}}

\* The section is over: its callback settled, or its process died.
Finish == /\ inside # {} /\ inside' = {}
          /\ UNCHANGED holder

(* The lock is released, or expires.  A section that has lasted as long as  *)
(* the lock is not protected any longer: it counts as over.                 *)
Free == /\ holder # Nobody /\ holder' = Nobody
        /\ inside' = {}

Next == (\E c \in Client : Grant(c)) \/ Finish \/ Free

Spec == Init /\ [][Next]_vars
=============================================================================
