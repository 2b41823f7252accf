------------------------------- MODULE CondVar -------------------------------
(***************************************************************************)
(* The condition variable that the firmware gives to Zenoh Pico, made of a *)
(* ThreadX semaphore, a count of waiters and a mutex for the count         *)
(* (zenoh/system.c).  A thread that waits counts itself, releases the      *)
(* caller's mutex m and takes a token of the semaphore; a signal puts a    *)
(* token and takes a waiter off the count; a wait that times out takes     *)
(* itself off, once it has m again.                                        *)
(*                                                                         *)
(* Every access to the count is inside the mutex of the condition          *)
(* variable, in which no thread blocks, so each of those sections is one   *)
(* step.  Between the steps of a wait any other thread may run.  ThreadX   *)
(* hands a token that is put to a suspended thread, if there is one, and   *)
(* counts it otherwise; which of the suspended threads is left open.       *)
(***************************************************************************)
EXTENDS Naturals, FiniteSets

CONSTANTS
  Threads,  \* the threads that use the condition variable and the mutex m
  M         \* 2^32: the modulus of the UINT waiters and of the token count

ASSUME CondVarAssumption ==
  /\ IsFiniteSet(Threads)
  /\ M \in Nat /\ Cardinality(Threads) < M

VARIABLES
  pc,       \* where each thread is
  m,        \* the owner of the caller's mutex
  waiters,  \* cv->waiters
  tokens,   \* the count of cv->sem
  timed,    \* the threads that wait in _z_condvar_wait_until
  wrapped   \* history: waiters was decremented at zero

vars == <<pc, m, waiters, tokens, timed, wrapped>>

None == "none"

(* A thread outside the condition variable is idle or holds m; in a wait   *)
(* it is counted, unlocked and maybe suspended, then woken by a token or   *)
(* late with its timeout, and late holds m again before it is uncounted.   *)
Steps == {"idle", "holding", "counted", "unlocked", "suspended", "woken",
          "late", "lateHolding"}

WithoutToken == {"counted", "unlocked", "suspended", "late", "lateHolding"}

In(S) == {t \in Threads : pc[t] \in S}
Suspended == In({"suspended"})
Woken == In({"woken"})
Committed == In(WithoutToken)
Waiting == Committed \union Woken

(* An unsigned sum below 2 * M.                                            *)
Wrap(n) == IF n < M THEN n ELSE n - M

TypeOK ==
  /\ pc \in [Threads -> Steps]
  /\ m \in Threads \union {None}
  /\ waiters \in 0..M - 1
  /\ tokens \in 0..M - 1
  /\ timed \subseteq Threads
  /\ wrapped \in BOOLEAN

(* _z_condvar_init                                                         *)
Init ==
  /\ pc = [t \in Threads |-> "idle"]
  /\ m = None
  /\ waiters = 0 /\ tokens = 0
  /\ timed = {}
  /\ wrapped = FALSE

Goto(t, step) == pc' = [pc EXCEPT ![t] = step]

----------------------------------------------------------------------------
_z_mutex_lock(t) ==
  /\ pc[t] = "idle" /\ m = None
  /\ m' = t
  /\ Goto(t, "holding")
  /\ UNCHANGED <<waiters, tokens, timed, wrapped>>

_z_mutex_unlock(t) ==
  /\ pc[t] = "holding"
  /\ m' = None
  /\ Goto(t, "idle")
  /\ UNCHANGED <<waiters, tokens, timed, wrapped>>

(* The threads that can call anything: no thread signals while it waits.   *)
Caller == In({"idle", "holding"})

(* tx_semaphore_put, n times.                                              *)
Put(n) ==
  \E W \in SUBSET Suspended :
    /\ Cardinality(W) = IF n < Cardinality(Suspended) THEN n ELSE Cardinality(Suspended)
    /\ pc' = [t \in Threads |-> IF t \in W THEN "woken" ELSE pc[t]]
    /\ tokens' = Wrap(tokens + n - Cardinality(W))

(* Mutant: a token is put whether or not somebody waits. *)
SignalAlways ==
  /\ Caller # {}
  /\ Put(1)
  /\ waiters' = IF waiters > 0 THEN waiters - 1 ELSE 0
  /\ UNCHANGED <<m, timed, wrapped>>

_z_condvar_signal ==
  /\ Caller # {}
  /\ waiters > 0
  /\ Put(1)
  /\ waiters' = waiters - 1
  /\ UNCHANGED <<m, timed, wrapped>>

(* Mutant: one put stands for all. *)
SignalAllOnce ==
  /\ Caller # {}
  /\ waiters > 0
  /\ Put(1)
  /\ waiters' = 0
  /\ UNCHANGED <<m, timed, wrapped>>

_z_condvar_signal_all ==
  /\ Caller # {}
  /\ waiters > 0
  /\ Put(waiters)
  /\ waiters' = 0
  /\ UNCHANGED <<m, timed, wrapped>>

----------------------------------------------------------------------------
(* _z_condvar_wait and _z_condvar_wait_until                               *)

(* The caller holds m and counts itself.                                   *)
CountIn(t) ==
  /\ pc[t] = "holding"
  /\ waiters' = Wrap(waiters + 1)
  /\ Goto(t, "counted")
  /\ timed' \in {timed \ {t}, timed \union {t}}
  /\ UNCHANGED <<m, tokens, wrapped>>

Unlock(t) ==
  /\ pc[t] = "counted"
  /\ m' = None
  /\ Goto(t, "unlocked")
  /\ UNCHANGED <<waiters, tokens, timed, wrapped>>

(* tx_semaphore_get: a token at once, or the thread is suspended.          *)
TakeToken(t) ==
  /\ pc[t] = "unlocked" /\ tokens > 0
  /\ tokens' = tokens - 1
  /\ Goto(t, "woken")
  /\ UNCHANGED <<m, waiters, timed, wrapped>>

Suspend(t) ==
  /\ pc[t] = "unlocked" /\ tokens = 0
  /\ Goto(t, "suspended")
  /\ UNCHANGED <<m, waiters, tokens, timed, wrapped>>

SemaphoreGet(t) == TakeToken(t) \/ Suspend(t)

(* block_duration is over; a thread suspended for 0 ticks is late at once. *)
Expire(t) ==
  /\ pc[t] = "suspended" /\ t \in timed
  /\ Goto(t, "late")
  /\ UNCHANGED <<m, waiters, tokens, timed, wrapped>>

Relock(t) ==
  /\ pc[t] \in {"woken", "late"} /\ m = None
  /\ m' = t
  /\ Goto(t, IF pc[t] = "woken" THEN "holding" ELSE "lateHolding")
  /\ UNCHANGED <<waiters, tokens, timed, wrapped>>

(* Mutant: a wait that timed out stays counted. *)
StayCounted(t) ==
  /\ pc[t] = "lateHolding"
  /\ Goto(t, "holding")
  /\ UNCHANGED <<m, waiters, tokens, timed, wrapped>>

(* The count is decremented whether or not a signal has already done it.   *)
CountOut(t) ==
  /\ pc[t] = "lateHolding"
  /\ waiters' = Wrap(waiters + M - 1)
  /\ wrapped' = (wrapped \/ waiters = 0)
  /\ Goto(t, "holding")
  /\ UNCHANGED <<m, tokens, timed>>

----------------------------------------------------------------------------
Step(t) ==
  \/ _z_mutex_lock(t) \/ _z_mutex_unlock(t)
  \/ CountIn(t) \/ Unlock(t) \/ SemaphoreGet(t) \/ Expire(t) \/ Relock(t) \/ CountOut(t)

Next ==
  \/ _z_condvar_signal \/ _z_condvar_signal_all
  \/ \E t \in Threads : Step(t)

(* A thread that is ready runs; m is not kept for ever, and ThreadX gives  *)
(* it to the threads that are suspended on it in turn.                     *)
Fairness ==
  \A t \in Threads :
    /\ WF_vars(_z_mutex_unlock(t) \/ CountIn(t))
    /\ WF_vars(Unlock(t)) /\ WF_vars(SemaphoreGet(t)) /\ WF_vars(CountOut(t))
    /\ SF_vars(Relock(t))

Spec == Init /\ [][Next]_vars
FairSpec == Spec /\ Fairness

----------------------------------------------------------------------------
(* The count and the tokens together are the threads in a wait that have   *)
(* no token yet, modulo M: neither a preempted wait, a late timeout nor    *)
(* the underflow of the count loses one (system.c, lines 238 and 298).     *)
Balanced ==
  waiters + tokens \in {Cardinality(Committed), Cardinality(Committed) + M}

(* No thread sleeps that the count does not know of: a signal, which does  *)
(* nothing at a count of zero, would never wake it (line 236).             *)
NobodySleepsUncounted == Suspended # {} => waiters > 0

(* The condition variable does what AbstractCondVar promises until the     *)
(* count is decremented at zero.                                           *)
Abstract == INSTANCE AbstractCondVar
  WITH waiting <- Waiting, owed <- tokens + Cardinality(Woken), broken <- wrapped

KeepsPromise == Abstract!FairPromise
=============================================================================
