--------------------------- MODULE AbstractCondVar ---------------------------
(***************************************************************************)
(* What the condition variable of the Zenoh Pico platform layer promises   *)
(* its callers, whichever threads they are: wake-ups are owed to threads   *)
(* that wait, never more of them than there are waiting threads, and a     *)
(* thread leaves the wait for a wake-up owed, or on a timeout.             *)
(*                                                                         *)
(* Which of the waiting threads a wake-up goes to is left open until one   *)
(* of them takes it: a thread that began to wait after the signal may take *)
(* the wake-up before one that was there already.                          *)
(*                                                                         *)
(* The promise has an end.  When every waiting thread is owed a wake-up    *)
(* and one of them leaves on a timeout instead, the wake-ups outnumber the *)
(* threads and nothing more is promised: broken.                           *)
(***************************************************************************)
EXTENDS Naturals, FiniteSets

CONSTANT Threads

VARIABLES
  waiting,  \* the threads that wait
  owed,     \* wake-ups that have been signalled and not yet taken
  broken    \* a wake-up was left without a thread to take it

abstractVars == <<waiting, owed, broken>>

AbstractInit == waiting = {} /\ owed = 0 /\ broken = FALSE

Wait(t) ==
  /\ t \notin waiting
  /\ waiting' = waiting \union {t}
  /\ UNCHANGED <<owed, broken>>

Signal ==
  /\ owed < Cardinality(waiting)
  /\ owed' = owed + 1
  /\ UNCHANGED <<waiting, broken>>

Broadcast ==
  /\ owed' = Cardinality(waiting)
  /\ UNCHANGED <<waiting, broken>>

Return(t) ==
  /\ t \in waiting /\ owed > 0
  /\ waiting' = waiting \ {t}
  /\ owed' = owed - 1
  /\ UNCHANGED broken

TimeOut(t) ==
  /\ t \in waiting
  /\ waiting' = waiting \ {t}
  /\ broken' = (owed = Cardinality(waiting))
  /\ UNCHANGED owed

Leave(t) == Return(t) \/ TimeOut(t)

AbstractNext ==
  \/ ~broken /\ (Signal \/ Broadcast \/ \E t \in Threads : Wait(t) \/ Leave(t))
  \/ broken /\ broken'

Promise == AbstractInit /\ [][AbstractNext]_abstractVars

(* As long as wake-ups are owed threads leave the wait: weak fairness of   *)
(* Leave, with the states that enable it written out.                      *)
Heeded ==
  \/ []<>(owed = 0 \/ broken)
  \/ []<><<\E t \in Threads : Leave(t)>>_abstractVars

FairPromise == Promise /\ Heeded
=============================================================================
