---------------------------- MODULE CondVarProofs ----------------------------
(***************************************************************************)
(* What holds of CondVar for any finite set of threads and any modulus     *)
(* larger than their number.                                               *)
(*                                                                         *)
(* Balanced is inductive once it is known that a token is only counted     *)
(* while no thread is suspended; the refinement needs it without the       *)
(* modulus, which the count keeps as long as it has not wrapped.           *)
(***************************************************************************)
EXTENDS CondVar, FiniteSetTheorems, TLAPS

(* ThreadX counts a token only if nobody is suspended on the semaphore. *)
TokensHanded == Suspended # {} => tokens = 0

(* Before the count wraps the balance is an equation. *)
ExactlyBalanced == ~wrapped => waiters + tokens = Cardinality(Committed)

IInv == TypeOK /\ Balanced /\ TokensHanded /\ ExactlyBalanced

----------------------------------------------------------------------------
(* The threads by where they are                                           *)

(* The sets of threads are finite, and a thread in a wait has its token or *)
(* has not.                                                                *)
LEMMA Counts ==
  /\ IsFiniteSet(Committed) /\ IsFiniteSet(Woken) /\ IsFiniteSet(Suspended)
  /\ Cardinality(Committed) \in Nat /\ Cardinality(Woken) \in Nat
  /\ Cardinality(Suspended) \in Nat
  /\ Cardinality(Committed) < M /\ Cardinality(Suspended) <= Cardinality(Committed)
  /\ Cardinality(Waiting) = Cardinality(Committed) + Cardinality(Woken)
  /\ Committed \subseteq Threads /\ Woken \subseteq Threads
  /\ Suspended \subseteq Committed
<1>1. /\ Committed \subseteq Threads /\ Woken \subseteq Threads
      /\ Suspended \subseteq Committed
  BY DEF Committed, WithoutToken, Woken, Suspended, In
<1>2. /\ IsFiniteSet(Committed) /\ IsFiniteSet(Woken)
      /\ Cardinality(Committed) <= Cardinality(Threads)
  BY <1>1, FS_Subset, CondVarAssumption
<1>3. /\ IsFiniteSet(Suspended) /\ Cardinality(Suspended) <= Cardinality(Committed)
  BY <1>1, <1>2, FS_Subset
<1>4. /\ Cardinality(Threads) \in Nat /\ Cardinality(Committed) \in Nat
      /\ Cardinality(Woken) \in Nat /\ Cardinality(Suspended) \in Nat
  BY <1>2, <1>3, FS_CardinalityType, CondVarAssumption
<1>5. Cardinality(Waiting) = Cardinality(Committed) + Cardinality(Woken)
  <2>1. Committed \intersect Woken = {}
    BY DEF Committed, WithoutToken, Woken, In
  <2>2. Cardinality(Waiting) =
          Cardinality(Committed) + Cardinality(Woken) - Cardinality(Committed \intersect Woken)
    BY <1>2, FS_Union DEF Waiting
  <2>3. Cardinality(Committed \intersect Woken) = 0
    BY <2>1, FS_EmptySet
  <2>4. QED
    BY <1>4, <2>2, <2>3
<1>6. QED
  BY <1>1, <1>2, <1>3, <1>4, <1>5, CondVarAssumption

(* A step of one thread moves it from set to set.                          *)
LEMMA Moved ==
  ASSUME TypeOK, NEW t \in Threads, NEW step \in Steps, Goto(t, step), NEW S
  PROVE  /\ pc' \in [Threads -> Steps]
         /\ In(S)' = IF step \in S THEN In(S) \union {t} ELSE In(S) \ {t}
BY DEF TypeOK, Goto, In

(* Putting tokens wakes suspended threads and counts the tokens left over. *)
LEMMA PutWakes ==
  ASSUME IInv, NEW n \in 1..M - 1, Put(n)
  PROVE  /\ pc' \in [Threads -> Steps]
         /\ Waiting' = Waiting
         /\ \E k \in 0..Cardinality(Suspended) :
              /\ k = IF n < Cardinality(Suspended) THEN n ELSE Cardinality(Suspended)
              /\ Cardinality(Committed') = Cardinality(Committed) - k
              /\ Cardinality(Woken') = Cardinality(Woken) + k
              /\ Cardinality(Suspended') = Cardinality(Suspended) - k
              /\ tokens' = Wrap(tokens + n - k)
<1>1. PICK W \in SUBSET Suspended :
        /\ Cardinality(W) = IF n < Cardinality(Suspended) THEN n ELSE Cardinality(Suspended)
        /\ pc' = [t \in Threads |-> IF t \in W THEN "woken" ELSE pc[t]]
        /\ tokens' = Wrap(tokens + n - Cardinality(W))
  BY DEF Put
<1>2. /\ pc' \in [Threads -> Steps]
      /\ Committed' = Committed \ W /\ Woken' = Woken \union W
      /\ Suspended' = Suspended \ W /\ Waiting' = Waiting
      /\ W \subseteq Committed /\ Woken \intersect W = {}
  BY <1>1 DEF IInv, TypeOK, Committed, WithoutToken, Woken, Suspended, Waiting, In, Steps
<1>3. /\ IsFiniteSet(W) /\ Cardinality(W) \in 0..Cardinality(Suspended)
  <2>1. IsFiniteSet(W) /\ Cardinality(W) <= Cardinality(Suspended)
    BY Counts, FS_Subset
  <2>2. QED
    BY <2>1, Counts, FS_CardinalityType
<1>4. /\ Cardinality(Committed') = Cardinality(Committed) - Cardinality(W)
      /\ Cardinality(Suspended') = Cardinality(Suspended) - Cardinality(W)
  <2>1. /\ Cardinality(Committed \ W) = Cardinality(Committed) - Cardinality(Committed \intersect W)
        /\ Cardinality(Suspended \ W) = Cardinality(Suspended) - Cardinality(Suspended \intersect W)
    BY Counts, FS_Difference
  <2>2. Committed \intersect W = W /\ Suspended \intersect W = W
    BY <1>2
  <2>3. QED
    BY <1>2, <2>1, <2>2
<1>5. Cardinality(Woken') = Cardinality(Woken) + Cardinality(W)
  <2>1. Cardinality(Woken \union W) =
          Cardinality(Woken) + Cardinality(W) - Cardinality(Woken \intersect W)
    BY Counts, <1>3, FS_Union
  <2>2. Cardinality(Woken \intersect W) = 0
    BY <1>2, FS_EmptySet
  <2>3. QED
    BY <1>2, <1>3, <2>1, <2>2, Counts
<1>6. QED
  BY <1>1, <1>2, <1>3, <1>4, <1>5

----------------------------------------------------------------------------
(* The inductive invariant                                                 *)

LEMMA InitEstablishes == Init => IInv
<1> SUFFICES ASSUME Init PROVE IInv
  OBVIOUS
<1>1. Committed = {} /\ Suspended = {}
  BY DEF Init, Committed, WithoutToken, Suspended, In
<1>2. Cardinality(Committed) = 0
  BY <1>1, FS_EmptySet
<1>3. M \in Nat /\ 0 < M
  BY CondVarAssumption, FS_CardinalityType
<1>4. TypeOK
  <2>1. 0 \in 0..M - 1
    BY <1>3
  <2>2. QED
    BY <2>1, Zenon DEF Init, TypeOK, Steps
<1>5. QED
  BY <1>1, <1>2, <1>3, <1>4 DEF Init, IInv, Balanced, TokensHanded, ExactlyBalanced

(* A signal of either kind takes off the count what it puts into the       *)
(* semaphore or hands to a thread.                                         *)
LEMMA SignalKeeps ==
  ASSUME IInv, NEW n \in 1..M - 1, n <= waiters, Put(n), waiters' = waiters - n,
         UNCHANGED <<m, timed, wrapped>>
  PROVE  IInv'
<1>1. PICK k \in 0..Cardinality(Suspended) :
        /\ k = IF n < Cardinality(Suspended) THEN n ELSE Cardinality(Suspended)
        /\ Cardinality(Committed') = Cardinality(Committed) - k
        /\ Cardinality(Suspended') = Cardinality(Suspended) - k
        /\ tokens' = Wrap(tokens + n - k)
  BY PutWakes
<1>2. /\ waiters \in 0..M - 1 /\ tokens \in 0..M - 1 /\ M \in Nat
      /\ waiters + tokens \in {Cardinality(Committed), Cardinality(Committed) + M}
  BY CondVarAssumption DEF IInv, TypeOK, Balanced
<1>3. /\ Cardinality(Committed) \in Nat /\ Cardinality(Suspended) \in Nat
      /\ Cardinality(Committed) < M /\ Cardinality(Suspended) <= Cardinality(Committed)
  BY Counts
<1>4. Cardinality(Suspended) > 0 => tokens = 0
  BY FS_EmptySet, Counts DEF IInv, TokensHanded
<1>5. TypeOK'
  <2>1. pc' \in [Threads -> Steps]
    BY PutWakes
  <2>2. tokens' \in 0..M - 1
    BY <1>1, <1>2, <1>3 DEF Wrap
  <2>3. waiters' \in 0..M - 1
    BY <1>2
  <2>4. QED
    BY <2>1, <2>2, <2>3 DEF IInv, TypeOK
<1>6. Balanced'
  BY <1>1, <1>2, <1>3, <1>4 DEF Balanced, Wrap
<1>7. Cardinality(Suspended') > 0 => tokens' = 0
  BY <1>1, <1>2, <1>3, <1>4 DEF Wrap
<1>8. TokensHanded'
  <2>1. Suspended' # {} => Cardinality(Suspended') > 0
    <3>1. IsFiniteSet(Suspended')
      <4>1. Suspended' \subseteq Threads
        BY DEF Suspended, In
      <4>2. QED
        BY <4>1, FS_Subset, CondVarAssumption
    <3>2. Cardinality(Suspended') \in Nat
      BY <3>1, FS_CardinalityType
    <3>3. QED
      BY <3>1, <3>2, FS_EmptySet
  <2>2. QED
    BY <2>1, <1>7 DEF TokensHanded
<1>9. ExactlyBalanced'
  <2> SUFFICES ASSUME ~wrapped PROVE waiters' + tokens' = Cardinality(Committed')
    BY DEF ExactlyBalanced
  <2>1. waiters + tokens = Cardinality(Committed)
    BY DEF IInv, ExactlyBalanced
  <2>2. QED
    BY <1>1, <1>2, <1>3, <1>4, <2>1 DEF Wrap
<1>10. QED
  BY <1>5, <1>6, <1>8, <1>9 DEF IInv

(* A step that leaves every thread with or without a token, and the counts *)
(* alone, keeps the balance.                                               *)
LEMMA SilentKeeps ==
  ASSUME IInv, TypeOK', Committed' = Committed, Suspended' \subseteq Suspended,
         UNCHANGED <<waiters, tokens, wrapped>>
  PROVE  IInv'
BY DEF IInv, Balanced, TokensHanded, ExactlyBalanced

(* What one thread does to the sets.                                       *)
LEMMA ThreadMoves ==
  ASSUME TypeOK, NEW t \in Threads, NEW step \in Steps, Goto(t, step)
  PROVE  /\ pc' \in [Threads -> Steps]
         /\ Committed' = IF step \in WithoutToken THEN Committed \union {t} ELSE Committed \ {t}
         /\ Woken' = IF step = "woken" THEN Woken \union {t} ELSE Woken \ {t}
         /\ Suspended' = IF step = "suspended" THEN Suspended \union {t} ELSE Suspended \ {t}
         /\ \A u \in Threads : u \in Committed <=> pc[u] \in WithoutToken
         /\ \A u \in Threads : u \in Woken <=> pc[u] = "woken"
         /\ \A u \in Threads : u \in Suspended <=> pc[u] = "suspended"
<1>1. pc' \in [Threads -> Steps]
  BY Moved
<1>2. Committed' = IF step \in WithoutToken THEN Committed \union {t} ELSE Committed \ {t}
  BY Moved DEF Committed
<1>3. Woken' = IF step = "woken" THEN Woken \union {t} ELSE Woken \ {t}
  BY Moved DEF Woken
<1>4. Suspended' = IF step = "suspended" THEN Suspended \union {t} ELSE Suspended \ {t}
  BY Moved DEF Suspended
<1>5. QED
  BY <1>1, <1>2, <1>3, <1>4 DEF Committed, Woken, Suspended, In

LEMMA StepKeeps ==
  ASSUME IInv, NEW t \in Threads, Step(t)
  PROVE  IInv'
<1> USE DEF Steps, WithoutToken
<1>0. TypeOK /\ M \in Nat
  BY CondVarAssumption DEF IInv
<1>1. CASE _z_mutex_lock(t)
  <2>1. TypeOK'
    BY <1>0, <1>1, ThreadMoves DEF _z_mutex_lock, TypeOK
  <2>2. Committed' = Committed /\ Suspended' \subseteq Suspended
    BY <1>0, <1>1, ThreadMoves DEF _z_mutex_lock
  <2>3. QED
    BY <1>1, <2>1, <2>2, SilentKeeps DEF _z_mutex_lock
<1>2. CASE _z_mutex_unlock(t)
  <2>1. TypeOK'
    BY <1>0, <1>2, ThreadMoves DEF _z_mutex_unlock, TypeOK
  <2>2. Committed' = Committed /\ Suspended' \subseteq Suspended
    BY <1>0, <1>2, ThreadMoves DEF _z_mutex_unlock
  <2>3. QED
    BY <1>2, <2>1, <2>2, SilentKeeps DEF _z_mutex_unlock
<1>3. CASE CountIn(t)
  <2>1. /\ t \notin Committed /\ Committed' = Committed \union {t}
        /\ Suspended' \subseteq Suspended /\ pc' \in [Threads -> Steps]
    BY <1>0, <1>3, ThreadMoves DEF CountIn
  <2>2. Cardinality(Committed') = Cardinality(Committed) + 1
    BY <2>1, Counts, FS_AddElement
  <2>3. Cardinality(Committed') < M /\ Cardinality(Committed) \in Nat
    <3>1. Committed' \subseteq Threads
      BY DEF Committed, In
    <3>2. Cardinality(Committed') <= Cardinality(Threads)
      BY <3>1, FS_Subset, CondVarAssumption
    <3>3. QED
      BY <2>2, <3>2, Counts, FS_CardinalityType, CondVarAssumption
  <2>4. /\ waiters \in 0..M - 1 /\ tokens \in 0..M - 1
        /\ waiters' = Wrap(waiters + 1) /\ tokens' = tokens /\ wrapped' = wrapped
    BY <1>0, <1>3 DEF CountIn, TypeOK
  <2>5. TypeOK'
    BY <1>0, <1>3, <2>1, <2>4 DEF CountIn, TypeOK, Wrap
  <2>6. Balanced' /\ ExactlyBalanced'
    BY <1>0, <2>2, <2>3, <2>4 DEF IInv, Balanced, ExactlyBalanced, Wrap
  <2>7. QED
    BY <2>1, <2>4, <2>5, <2>6 DEF IInv, TokensHanded
<1>4. CASE Unlock(t)
  <2>1. TypeOK'
    BY <1>0, <1>4, ThreadMoves DEF Unlock, TypeOK
  <2>2. Committed' = Committed /\ Suspended' \subseteq Suspended
    BY <1>0, <1>4, ThreadMoves DEF Unlock
  <2>3. QED
    BY <1>4, <2>1, <2>2, SilentKeeps DEF Unlock
<1>5. CASE TakeToken(t)
  <2>1. /\ t \in Committed /\ Committed' = Committed \ {t}
        /\ Suspended' \subseteq Suspended /\ pc' \in [Threads -> Steps]
    BY <1>0, <1>5, ThreadMoves DEF TakeToken
  <2>2. Cardinality(Committed') = Cardinality(Committed) - 1
    BY <2>1, Counts, FS_RemoveElement
  <2>3. /\ waiters \in 0..M - 1 /\ tokens \in 1..M - 1 /\ Cardinality(Committed) \in Nat
        /\ waiters' = waiters /\ tokens' = tokens - 1 /\ wrapped' = wrapped
    BY <1>0, <1>5, Counts DEF TakeToken, TypeOK
  <2>4. TypeOK'
    BY <1>0, <1>5, <2>1, <2>3 DEF TakeToken, TypeOK
  <2>5. Balanced' /\ ExactlyBalanced'
    BY <1>0, <2>2, <2>3 DEF IInv, Balanced, ExactlyBalanced
  <2>6. TokensHanded'
    BY <2>1, <2>3 DEF IInv, TokensHanded
  <2>7. QED
    BY <2>4, <2>5, <2>6 DEF IInv
<1>6. CASE Suspend(t)
  <2>1. Committed' = Committed /\ pc' \in [Threads -> Steps]
    BY <1>0, <1>6, ThreadMoves DEF Suspend
  <2>2. TypeOK'
    BY <1>0, <1>6, <2>1 DEF Suspend, TypeOK
  <2>3. QED
    BY <1>6, <2>1, <2>2 DEF Suspend, IInv, Balanced, TokensHanded, ExactlyBalanced
<1>7. CASE Expire(t)
  <2>1. TypeOK'
    BY <1>0, <1>7, ThreadMoves DEF Expire, TypeOK
  <2>2. Committed' = Committed /\ Suspended' \subseteq Suspended
    BY <1>0, <1>7, ThreadMoves DEF Expire
  <2>3. QED
    BY <1>7, <2>1, <2>2, SilentKeeps DEF Expire
<1>8. CASE Relock(t)
  <2> DEFINE step == IF pc[t] = "woken" THEN "holding" ELSE "lateHolding"
  <2>1. step \in Steps /\ Goto(t, step)
    BY <1>8 DEF Relock
  <2>2. /\ pc' \in [Threads -> Steps] /\ Committed' = Committed
        /\ Suspended' \subseteq Suspended
    BY <1>0, <1>8, <2>1, ThreadMoves DEF Relock
  <2>3. TypeOK'
    BY <1>0, <1>8, <2>2 DEF Relock, TypeOK
  <2>4. QED
    BY <1>8, <2>2, <2>3, SilentKeeps DEF Relock
<1>9. CASE CountOut(t)
  <2>1. /\ t \in Committed /\ Committed' = Committed \ {t}
        /\ Suspended' \subseteq Suspended /\ pc' \in [Threads -> Steps]
    BY <1>0, <1>9, ThreadMoves DEF CountOut
  <2>2. Cardinality(Committed') = Cardinality(Committed) - 1
    BY <2>1, Counts, FS_RemoveElement
  <2>3. /\ waiters \in 0..M - 1 /\ tokens \in 0..M - 1 /\ Cardinality(Committed) \in Nat
        /\ waiters' = Wrap(waiters + M - 1) /\ tokens' = tokens
        /\ Cardinality(Committed) < M
    BY <1>0, <1>9, Counts DEF CountOut, TypeOK
  <2>4. TypeOK'
    BY <1>0, <1>9, <2>1, <2>3 DEF CountOut, TypeOK, Wrap
  <2>5. Cardinality(Committed) >= 1
    BY <2>1, Counts, FS_EmptySet
  <2>6. Balanced'
    BY <1>0, <2>2, <2>3, <2>5 DEF IInv, Balanced, Wrap
  <2>7. ExactlyBalanced'
    <3>1. ~wrapped' => ~wrapped /\ waiters # 0
      BY <1>9, Zenon DEF CountOut
    <3>2. ~wrapped' => ~wrapped /\ waiters > 0
      BY <2>3, <3>1
    <3>3. QED
      BY <1>0, <2>2, <2>3, <3>2 DEF IInv, ExactlyBalanced, Wrap
  <2>8. QED
    BY <2>1, <2>3, <2>4, <2>6, <2>7 DEF IInv, TokensHanded
<1>10. QED
  BY <1>1, <1>2, <1>3, <1>4, <1>5, <1>6, <1>7, <1>8, <1>9 DEF Step, SemaphoreGet

LEMMA NextKeeps == IInv /\ [Next]_vars => IInv'
<1> SUFFICES ASSUME IInv, [Next]_vars PROVE IInv'
  OBVIOUS
<1>0. waiters \in 0..M - 1 /\ M \in Nat
  BY CondVarAssumption DEF IInv, TypeOK
<1>1. CASE _z_condvar_signal
  BY <1>0, <1>1, SignalKeeps DEF _z_condvar_signal
<1>2. CASE _z_condvar_signal_all
  <2>1. waiters \in 1..M - 1 /\ waiters' = waiters - waiters
    BY <1>0, <1>2 DEF _z_condvar_signal_all
  <2>2. QED
    BY <1>2, <2>1, SignalKeeps DEF _z_condvar_signal_all
<1>3. CASE \E t \in Threads : Step(t)
  BY <1>3, StepKeeps
<1>4. CASE UNCHANGED vars
  BY <1>4 DEF vars, IInv, TypeOK, Balanced, TokensHanded, ExactlyBalanced,
             Committed, WithoutToken, Suspended, In
<1>5. QED
  BY <1>1, <1>2, <1>3, <1>4 DEF Next

THEOREM InductiveInvariant == Spec => []IInv
BY InitEstablishes, NextKeeps, PTL DEF Spec

(* Every variable keeps to its type.                                       *)
THEOREM TypeCorrect == Spec => []TypeOK
BY InductiveInvariant, PTL DEF IInv

(* The count and the tokens add up to the threads in a wait that have none *)
(* (system.c, lines 210 and 262).                                          *)
THEOREM BalanceKept == Spec => []Balanced
BY InductiveInvariant, PTL DEF IInv

(* Nobody sleeps that the next signal would not wake (line 209).           *)
THEOREM NobodySleeps == Spec => []NobodySleepsUncounted
<1>1. IInv => NobodySleepsUncounted
  <2> SUFFICES ASSUME IInv, Suspended # {} PROVE waiters > 0
    BY DEF NobodySleepsUncounted
  <2>1. tokens = 0 /\ waiters \in 0..M - 1 /\ M \in Nat
    BY CondVarAssumption DEF IInv, TokensHanded, TypeOK
  <2>2. Cardinality(Suspended) # 0
    BY Counts, FS_EmptySet
  <2>3. Cardinality(Committed) \in Nat /\ Cardinality(Committed) > 0
    BY <2>2, Counts
  <2>4. QED
    BY <2>1, <2>3 DEF IInv, Balanced
<1>2. QED
  BY <1>1, InductiveInvariant, PTL

----------------------------------------------------------------------------
(* The refinement                                                          *)

Owed == tokens + Cardinality(Woken)

(* The instance counts as this module does.                                *)
LEMMA SameCardinality == ASSUME NEW S PROVE Abstract!Cardinality(S) = Cardinality(S)
BY DEF Abstract!Cardinality, Cardinality

(* A signal of n wake-ups, before the count has wrapped.                   *)
LEMMA SignalOwes ==
  ASSUME IInv, ~wrapped, NEW n \in 1..M - 1, n <= waiters, Put(n)
  PROVE  /\ Waiting' = Waiting /\ Owed' = Owed + n
         /\ Cardinality(Waiting) = Owed + waiters
<1>1. PICK k \in 0..Cardinality(Suspended) :
        /\ k = IF n < Cardinality(Suspended) THEN n ELSE Cardinality(Suspended)
        /\ Cardinality(Woken') = Cardinality(Woken) + k
        /\ tokens' = Wrap(tokens + n - k)
  BY PutWakes
<1>2. /\ waiters \in 0..M - 1 /\ tokens \in 0..M - 1 /\ M \in Nat
      /\ waiters + tokens = Cardinality(Committed)
  BY CondVarAssumption DEF IInv, TypeOK, ExactlyBalanced
<1>3. /\ Cardinality(Committed) \in Nat /\ Cardinality(Suspended) \in Nat
      /\ Cardinality(Woken) \in Nat /\ Cardinality(Committed) < M
      /\ Cardinality(Waiting) = Cardinality(Committed) + Cardinality(Woken)
  BY Counts
<1>4. Owed' = Owed + n
  BY <1>1, <1>2, <1>3 DEF Owed, Wrap
<1>5. QED
  BY <1>2, <1>3, <1>4, PutWakes DEF Owed

(* A thread that moves within the wait, or outside of it, changes nothing  *)
(* of what is promised.                                                    *)
LEMMA StepImplements ==
  ASSUME IInv, ~wrapped, NEW t \in Threads, Step(t)
  PROVE  \/ UNCHANGED <<Waiting, Owed, wrapped>>
         \/ Abstract!Wait(t)
         \/ Abstract!Leave(t)
<1> USE DEF Steps, WithoutToken
<1>0. TypeOK /\ M \in Nat /\ tokens \in Nat /\ waiters \in Nat
  BY CondVarAssumption DEF IInv, TypeOK
<1>1. ASSUME NEW step \in Steps, Goto(t, step)
      PROVE  Waiting' = IF step \in {"idle", "holding"} THEN Waiting \ {t}
                        ELSE Waiting \union {t}
  BY <1>0, <1>1, ThreadMoves DEF Waiting
<1>2. t \in Waiting <=> pc[t] \notin {"idle", "holding"}
  BY <1>0 DEF Waiting, Committed, WithoutToken, Woken, In, TypeOK
<1>3. CASE _z_mutex_lock(t) \/ _z_mutex_unlock(t) \/ Unlock(t) \/ Suspend(t) \/ Expire(t)
  BY <1>0, <1>1, <1>2, <1>3, ThreadMoves
     DEF _z_mutex_lock, _z_mutex_unlock, Unlock, Suspend, Expire, Owed
<1>4. CASE CountIn(t)
  BY <1>0, <1>1, <1>2, <1>4, ThreadMoves DEF CountIn, Abstract!Wait, Owed
<1>5. CASE TakeToken(t)
  <2>1. t \notin Woken /\ Woken' = Woken \union {t} /\ Waiting' = Waiting
    BY <1>0, <1>1, <1>2, <1>5, ThreadMoves DEF TakeToken
  <2>2. Cardinality(Woken') = Cardinality(Woken) + 1 /\ Cardinality(Woken) \in Nat
    BY <2>1, Counts, FS_AddElement
  <2>3. QED
    BY <1>0, <1>5, <2>1, <2>2 DEF TakeToken, Owed
<1>6. CASE Relock(t) /\ pc[t] = "woken"
  <2>1. /\ t \in Waiting /\ Waiting' = Waiting \ {t}
        /\ t \in Woken /\ Woken' = Woken \ {t}
    BY <1>0, <1>1, <1>2, <1>6, ThreadMoves DEF Relock
  <2>2. Cardinality(Woken') = Cardinality(Woken) - 1 /\ Cardinality(Woken) \in Nat
    BY <2>1, Counts, FS_RemoveElement
  <2>3. Cardinality(Woken) > 0
    BY <2>1, <2>2, Counts, FS_EmptySet
  <2>4. Owed > 0 /\ Owed' = Owed - 1
    BY <1>0, <1>6, <2>2, <2>3 DEF Relock, Owed
  <2>5. QED
    BY <1>6, <2>1, <2>4 DEF Relock, Owed, Abstract!Leave, Abstract!Return
<1>7. CASE Relock(t) /\ pc[t] = "late"
  BY <1>0, <1>1, <1>2, <1>7, ThreadMoves DEF Relock, Owed
<1>8. CASE CountOut(t)
  <2>1. t \in Waiting /\ Waiting' = Waiting \ {t} /\ Woken' = Woken
    BY <1>0, <1>1, <1>2, <1>8, ThreadMoves DEF CountOut
  <2>2. waiters + tokens = Cardinality(Committed)
    BY DEF IInv, ExactlyBalanced
  <2>3. Owed = Cardinality(Waiting) <=> waiters = 0
    BY <1>0, <2>2, Counts DEF Owed
  <2>4. wrapped' = (Owed = Cardinality(Waiting)) /\ Owed' = Owed
    BY <1>8, <2>1, <2>3 DEF CountOut, Owed
  <2>5. QED
    BY <2>1, <2>4, SameCardinality DEF Owed, Abstract!Leave, Abstract!TimeOut
<1>9. CASE Relock(t)
  BY <1>6, <1>7, <1>9 DEF Relock
<1>10. QED
  BY <1>3, <1>4, <1>5, <1>8, <1>9 DEF Step, SemaphoreGet

LEMMA NextImplements == IInv /\ [Next]_vars => [Abstract!AbstractNext]_(Abstract!abstractVars)
<1> SUFFICES ASSUME IInv, [Next]_vars
             PROVE  Abstract!AbstractNext \/ UNCHANGED Abstract!abstractVars
  OBVIOUS
<1> USE DEF Abstract!AbstractNext, Abstract!abstractVars, Owed
<1>0. waiters \in 0..M - 1 /\ M \in Nat /\ tokens \in Nat /\ Cardinality(Woken) \in Nat
  BY CondVarAssumption, Counts DEF IInv, TypeOK
<1>1. CASE wrapped /\ Next
  BY <1>1 DEF Next, _z_condvar_signal, _z_condvar_signal_all, Step, _z_mutex_lock,
     _z_mutex_unlock, CountIn, Unlock, SemaphoreGet, TakeToken, Suspend, Expire, Relock, CountOut
<1>2. CASE ~wrapped /\ _z_condvar_signal
  <2>1. Waiting' = Waiting /\ Owed' = Owed + 1 /\ Cardinality(Waiting) = Owed + waiters
    BY <1>0, <1>2, SignalOwes DEF _z_condvar_signal
  <2>2. Abstract!Signal
    BY <1>0, <1>2, <2>1, SameCardinality DEF _z_condvar_signal, Abstract!Signal
  <2>3. QED
    BY <1>2, <2>2
<1>3. CASE ~wrapped /\ _z_condvar_signal_all
  <2>1. /\ Waiting' = Waiting /\ Owed' = Owed + waiters
        /\ Cardinality(Waiting) = Owed + waiters
    BY <1>0, <1>3, SignalOwes DEF _z_condvar_signal_all
  <2>2. Abstract!Broadcast
    BY <1>3, <2>1, SameCardinality DEF _z_condvar_signal_all, Abstract!Broadcast
  <2>3. QED
    BY <1>3, <2>2
<1>4. CASE ~wrapped /\ \E t \in Threads : Step(t)
  BY <1>4, StepImplements
<1>5. CASE UNCHANGED vars
  BY <1>5 DEF vars, Waiting, Committed, WithoutToken, Woken, In
<1>6. QED
  BY <1>1, <1>2, <1>3, <1>4, <1>5 DEF Next

(* The semaphore, the count and the mutexes make the condition variable    *)
(* that AbstractCondVar promises, but for its liveness.                    *)
THEOREM Implements == Spec => Abstract!Promise
<1>1. Init => Abstract!AbstractInit
  <2> SUFFICES ASSUME Init PROVE Abstract!AbstractInit
    OBVIOUS
  <2>1. Waiting = {} /\ Woken = {}
    BY DEF Init, Waiting, Committed, WithoutToken, Woken, In
  <2>2. tokens + Cardinality(Woken) = 0
    BY <2>1, FS_EmptySet DEF Init
  <2>3. QED
    BY <2>1, <2>2 DEF Init, Abstract!AbstractInit
<1>2. QED
  BY <1>1, InductiveInvariant, NextImplements, PTL DEF Spec, Abstract!Promise
=============================================================================
