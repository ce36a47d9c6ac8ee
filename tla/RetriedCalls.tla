---------------------------- MODULE RetriedCalls ----------------------------
(***************************************************************************)
(* What a caller relies on of an adapter that retries: a call is executed  *)
(* by the database between its start and its end, and never later.  One    *)
(* that returns was executed, and is told the answer to itself; one that   *)
(* throws was not, and none is executed twice, until a worker is lost.     *)
(*                                                                         *)
(* A call may also be left without an end.  When there is one, it is of    *)
(* the call in flight: nobody is told twice, or of an earlier call.        *)
(***************************************************************************)
EXTENDS Naturals

CONSTANTS
  Caller,  \* slots for the calls in flight
  Number   \* the numbers of the calls; 0 stands for none

VARIABLES
  open,   \* open[c]: the call of c that is in flight
  ran,    \* ran[n]: how often call n was executed
  told,   \* told[c]: how the last call of c ended, and whose answer it got
  broken  \* a worker was lost, with what it was doing

vars == <<open, ran, told, broken>>

Ended(n, ok) == [ok |-> ok, n |-> n, of |-> IF ok THEN n ELSE 0]

Init == /\ open = [c \in Caller |-> 0]
        /\ ran = [n \in Number |-> 0]
        /\ told = [c \in Caller |-> Ended(0, TRUE)]
        /\ broken = FALSE

\* No call had the number n before.
Fresh(n) == /\ n # 0 /\ ran[n] = 0
            /\ \A c \in Caller : open[c] # n /\ told[c].n # n

Start(c) == /\ open[c] = 0
            /\ \E n \in Number : Fresh(n) /\ open' = [open EXCEPT ![c] = n]
            /\ UNCHANGED <<ran, told, broken>>

\* The adapter is of no use, and a call throws at once.
Refuse(c) ==
  /\ open[c] = 0
  /\ \E n \in Number :
       Fresh(n) /\ told' = [told EXCEPT ![c] = Ended(n, FALSE)]
  /\ UNCHANGED <<open, ran, broken>>

Executes(c) == open[c] # 0 /\ ran' = [ran EXCEPT ![open[c]] = @ + 1]

Run(c) == /\ Executes(c)
          /\ broken \/ ran[open[c]] = 0
          /\ UNCHANGED <<open, told, broken>>

Return(c) == /\ open[c] # 0 /\ ran[open[c]] > 0
             /\ open' = [open EXCEPT ![c] = 0]
             /\ told' = [told EXCEPT ![c] = Ended(open[c], TRUE)]
             /\ UNCHANGED <<ran, broken>>

\* The calls of the callers of C throw: what they waited for has failed.
Throw(C) ==
  /\ \A c \in C : open[c] # 0 /\ (broken \/ ran[open[c]] = 0)
  /\ open' = [c \in Caller |-> IF c \in C THEN 0 ELSE open[c]]
  /\ told' = [c \in Caller |-> IF c \in C THEN Ended(open[c], FALSE)
                               ELSE told[c]]
  /\ UNCHANGED <<ran, broken>>

Break == /\ broken' = TRUE
         /\ ran' = ran \/ \E c \in Caller : Executes(c)
         /\ UNCHANGED <<open, told>>

Next == \/ \E c \in Caller : Start(c) \/ Refuse(c) \/ Run(c) \/ Return(c)
        \/ \E C \in (SUBSET Caller) \ {{}} : Throw(C)
        \/ Break

Spec == Init /\ [][Next]_vars
=============================================================================
