---------------------------- MODULE CommsProofs ----------------------------
(***************************************************************************)
(* The safety properties of Comms, for every number of retries and every   *)
(* length of a streak of failures.                                         *)
(***************************************************************************)
EXTENDS Comms, Integers, TLAPS

USE CommsAssumption

Publishing ==
  {"idle", "encoding", "checking", "allowed", "unencoded", "putting", "lowering", "raising"}

----------------------------------------------------------------------------
(* The inductive invariant.                                                *)

(* NeverMuted from the moment the session is declared to its end, because  *)
(* a put and a close leave the flags to the switch thread as a wait does.  *)
FlagsTell ==
  comms \in {"putting", "waiting", "closing"} => flags # {} \/ publisher = "raising"

(* A session in use has ended the streak of failures.                      *)
StreakEnded == comms \in Present => streak = 0 /\ ~remote /\ refusals = 0

(* The refusals since the last long pause are what the streak is above a   *)
(* multiple of MaxRetries; only when the streak has just reached the next  *)
(* multiple, and the pause is therefore due, are they MaxRetries.          *)
RefusalsCounted ==
  \/ refusals = streak % MaxRetries
  \/ /\ comms \in {"cleaning", "halted", "stuck"} /\ remote
     /\ streak # 0 /\ streak % MaxRetries = 0 /\ refusals = MaxRetries

(* A heartbeat that is consumed, or being stamped, is one of this session, *)
(* and its timestamp is of this session too.                               *)
HeartbeatOwned ==
  /\ heartbeat = "consuming" => server # "unheard"
  /\ reader = "stamped" => server # "unheard" /\ comms \notin Absent
  /\ server = "heard" => ~stale

IInv ==
  /\ TypeOK
  /\ ClearedIsUnconnected
  /\ FlagsTell
  /\ StreakEnded
  /\ RefusalsCounted
  /\ HeartbeatOwned

----------------------------------------------------------------------------
(* The remainder of a division is unique.                                  *)
LEMMA RemainderUnique ==
  ASSUME NEW M \in Nat \ {0}, NEW d \in Int, NEW e \in Int,
         NEW r \in 0..(M - 1), NEW s \in 0..(M - 1), M * d + r = M * e + s
  PROVE  r = s
  OBVIOUS

LEMMA Division ==
  ASSUME NEW n \in Nat, NEW M \in Nat \ {0}
  PROVE  n \div M \in Nat /\ n % M \in 0..(M - 1) /\ n = M * (n \div M) + (n % M)
  OBVIOUS

(* Counting one more modulo M goes one up or back to zero.                 *)
LEMMA ModuloStep ==
  ASSUME NEW n \in Nat, NEW M \in Nat \ {0}
  PROVE  /\ n % M = M - 1 => (n + 1) % M = 0
         /\ n % M # M - 1 => (n + 1) % M = (n % M) + 1
<1> DEFINE q == n \div M
           r == n % M
           t == (n + 1) \div M
           s == (n + 1) % M
<1>1. q \in Nat /\ r \in 0..(M - 1) /\ n = M * q + r
  BY Division
<1>2. n + 1 \in Nat
  OBVIOUS
<1>3. t \in Nat /\ s \in 0..(M - 1) /\ n + 1 = M * t + s
  BY <1>2, Division
<1> HIDE DEF q, r, t, s
<1>4. CASE r = M - 1
  <2>1. M * (q + 1) + 0 = M * t + s
    BY <1>1, <1>3, <1>4
  <2>2. s = 0
    BY <2>1, <1>1, <1>3, RemainderUnique, q + 1 \in Int, 0 \in 0..(M - 1)
  <2> QED
    BY <2>2, <1>4 DEF r, s
<1>5. CASE r # M - 1
  <2>1. M * q + (r + 1) = M * t + s /\ r + 1 \in 0..(M - 1)
    BY <1>1, <1>3, <1>5
  <2>2. s = r + 1
    BY <2>1, <1>1, <1>3, RemainderUnique
  <2> QED
    BY <2>2, <1>5 DEF r, s
<1> QED
  BY <1>4, <1>5

LEMMA ZeroModulo ==
  ASSUME NEW M \in Nat \ {0} PROVE 0 % M = 0
  OBVIOUS

----------------------------------------------------------------------------

(* The initial state. *)
LEMMA InitHolds == Init => IInv
<1> SUFFICES ASSUME Init PROVE IInv
  OBVIOUS
<1>1. TypeOK
  <2>1. {stale, remote, misused, leased} \subseteq BOOLEAN
    BY Zenon DEF Init
  <2> QED
    BY <2>1 DEF Init, TypeOK, Absent, Present
<1>2. ClearedIsUnconnected /\ FlagsTell /\ StreakEnded /\ HeartbeatOwned
  BY DEF Init, Absent, Present, ClearedIsUnconnected, FlagsTell, StreakEnded, HeartbeatOwned
<1>3. RefusalsCounted
  BY ZeroModulo DEF Init, RefusalsCounted
<1> QED
  BY <1>1, <1>2, <1>3 DEF IInv

(* A step that leaves everything alone. *)
LEMMA StutterHolds ==
  ASSUME IInv, UNCHANGED vars PROVE IInv'
<1> USE DEF IInv, vars
<1>1. TypeOK'
  BY DEF TypeOK
<1>2. ClearedIsUnconnected' /\ FlagsTell' /\ StreakEnded' /\ HeartbeatOwned'
  BY DEF ClearedIsUnconnected, FlagsTell, StreakEnded, HeartbeatOwned
<1>3. RefusalsCounted'
  BY DEF RefusalsCounted
<1> QED
  BY <1>1, <1>2, <1>3

LEMMA Step_Halt ==
  ASSUME IInv, Halt PROVE IInv'
<1> USE DEF Halt
<1>1. TypeOK'
  <2>1. {stale', remote', misused', leased'} \subseteq BOOLEAN
    BY Zenon DEF IInv, TypeOK
  <2> QED
    BY <2>1 DEF IInv, TypeOK, Absent, Present, StreakEnded
<1>2. ClearedIsUnconnected'
  BY DEF IInv, TypeOK, Absent, Present, ClearedIsUnconnected
<1>3. FlagsTell'
  BY DEF IInv, TypeOK, Absent, Present, FlagsTell
<1>4. StreakEnded'
  BY DEF IInv, TypeOK, Absent, Present, StreakEnded
<1>5. RefusalsCounted'
  BY Division DEF IInv, TypeOK, Absent, Present, StreakEnded, RefusalsCounted
<1>6. HeartbeatOwned'
  BY DEF IInv, TypeOK, Absent, Present, HeartbeatOwned
<1> QED
  BY <1>1, <1>2, <1>3, <1>4, <1>5, <1>6 DEF IInv

LEMMA Step_OpenSucceeds ==
  ASSUME IInv, OpenSucceeds PROVE IInv'
<1> USE DEF OpenSucceeds
<1>1. TypeOK'
  <2>1. {stale', remote', misused', leased'} \subseteq BOOLEAN
    BY Zenon DEF IInv, TypeOK
  <2> QED
    BY <2>1 DEF IInv, TypeOK, Absent, Present
<1>2. ClearedIsUnconnected'
  BY DEF IInv, TypeOK, Absent, Present, ClearedIsUnconnected
<1>3. FlagsTell'
  BY DEF IInv, TypeOK, Absent, Present, FlagsTell
<1>4. StreakEnded'
  BY DEF IInv, TypeOK, Absent, Present, StreakEnded
<1>5. RefusalsCounted'
  BY ZeroModulo, Division DEF IInv, TypeOK, Absent, Present, StreakEnded, RefusalsCounted
<1>6. HeartbeatOwned'
  BY DEF IInv, TypeOK, Absent, Present, HeartbeatOwned
<1> QED
  BY <1>1, <1>2, <1>3, <1>4, <1>5, <1>6 DEF IInv

LEMMA Step_OpenFindsNone ==
  ASSUME IInv, OpenFindsNone PROVE IInv'
<1> USE DEF OpenFindsNone, Retry
<1>1. TypeOK'
  BY DEF IInv, TypeOK, Absent, Present, StreakEnded
<1>2. ClearedIsUnconnected'
  BY DEF IInv, TypeOK, Absent, Present, ClearedIsUnconnected
<1>3. FlagsTell'
  BY DEF IInv, TypeOK, Absent, Present, FlagsTell
<1>4. StreakEnded'
  BY DEF IInv, TypeOK, Absent, Present, StreakEnded
<1>5. RefusalsCounted'
  BY Division DEF IInv, TypeOK, Absent, Present, StreakEnded, RefusalsCounted
<1>6. HeartbeatOwned'
  BY DEF IInv, TypeOK, Absent, Present, HeartbeatOwned
<1> QED
  BY <1>1, <1>2, <1>3, <1>4, <1>5, <1>6 DEF IInv

LEMMA Step_OpenRefused ==
  ASSUME IInv, OpenRefused PROVE IInv'
<1> USE DEF OpenRefused, Retry
<1>1. TypeOK'
  BY DEF IInv, TypeOK, Absent, Present, StreakEnded
<1>2. ClearedIsUnconnected'
  BY DEF IInv, TypeOK, Absent, Present, ClearedIsUnconnected
<1>3. FlagsTell'
  BY DEF IInv, TypeOK, Absent, Present, FlagsTell
<1>4. StreakEnded'
  BY DEF IInv, TypeOK, Absent, Present, StreakEnded
<1>5. RefusalsCounted'
  <2>1. refusals = streak % MaxRetries
    BY DEF IInv, RefusalsCounted
  <2>2. streak \in Nat /\ refusals \in 0..(MaxRetries - 1)
    BY <2>1, Division DEF IInv, TypeOK
  <2>3. /\ comms' = "cleaning" /\ streak' = streak + 1 /\ refusals' = refusals + 1
        /\ streak' # 0 /\ remote'
    BY <2>2
  <2> HIDE DEF OpenRefused
  <2>4. CASE refusals = MaxRetries - 1
    <3>1. (streak + 1) % MaxRetries = 0
      BY <2>1, <2>2, <2>4, ModuloStep
    <3>2. refusals' = MaxRetries
      BY <2>3, <2>4
    <3> QED
      BY <2>3, <3>1, <3>2, Zenon DEF RefusalsCounted
  <2>5. CASE refusals # MaxRetries - 1
    <3>1. streak' % MaxRetries = refusals'
      BY <2>1, <2>2, <2>3, <2>5, ModuloStep
    <3> QED
      BY <3>1, Zenon DEF RefusalsCounted
  <2> QED
    BY <2>4, <2>5
<1>6. HeartbeatOwned'
  BY DEF IInv, TypeOK, Absent, Present, HeartbeatOwned
<1> QED
  BY <1>1, <1>2, <1>3, <1>4, <1>5, <1>6 DEF IInv

LEMMA Step_Declared ==
  ASSUME IInv, Declared PROVE IInv'
<1> USE DEF Declared, zenoh_connected, LoopTop
<1>1. TypeOK'
  <2>1. {stale', remote', misused', leased'} \subseteq BOOLEAN
    BY Zenon DEF IInv, TypeOK
  <2> QED
    BY <2>1 DEF IInv, TypeOK, Absent, Present, StreakEnded
<1>2. ClearedIsUnconnected'
  BY DEF IInv, TypeOK, Absent, Present, ClearedIsUnconnected
<1>3. FlagsTell'
  BY DEF IInv, TypeOK, Absent, Present, FlagsTell
<1>4. StreakEnded'
  BY DEF IInv, TypeOK, Absent, Present, StreakEnded
<1>5. RefusalsCounted'
  BY Division DEF IInv, TypeOK, Absent, Present, StreakEnded, RefusalsCounted
<1>6. HeartbeatOwned'
  BY DEF IInv, TypeOK, Absent, Present, HeartbeatOwned
<1> QED
  BY <1>1, <1>2, <1>3, <1>4, <1>5, <1>6 DEF IInv

LEMMA Step_PutSucceeds ==
  ASSUME IInv, PutSucceeds PROVE IInv'
<1> USE DEF PutSucceeds
<1>1. TypeOK'
  BY DEF IInv, TypeOK, Absent, Present, StreakEnded
<1>2. ClearedIsUnconnected'
  BY DEF IInv, TypeOK, Absent, Present, ClearedIsUnconnected
<1>3. FlagsTell'
  BY DEF IInv, TypeOK, Absent, Present, FlagsTell
<1>4. StreakEnded'
  BY DEF IInv, TypeOK, Absent, Present, StreakEnded
<1>5. RefusalsCounted'
  BY Division DEF IInv, TypeOK, Absent, Present, StreakEnded, RefusalsCounted
<1>6. HeartbeatOwned'
  BY DEF IInv, TypeOK, Absent, Present, HeartbeatOwned
<1> QED
  BY <1>1, <1>2, <1>3, <1>4, <1>5, <1>6 DEF IInv

LEMMA Step_PutFails ==
  ASSUME IInv, PutFails PROVE IInv'
<1> USE DEF PutFails, Restart, Retry, zenoh_disconnected
<1>1. TypeOK'
  BY DEF IInv, TypeOK, Absent, Present, StreakEnded
<1>2. ClearedIsUnconnected'
  BY DEF IInv, TypeOK, Absent, Present, ClearedIsUnconnected
<1>3. FlagsTell'
  BY DEF IInv, TypeOK, Absent, Present, FlagsTell
<1>4. StreakEnded'
  BY DEF IInv, TypeOK, Absent, Present, StreakEnded
<1>5. RefusalsCounted'
  BY Division DEF IInv, TypeOK, Absent, Present, StreakEnded, RefusalsCounted
<1>6. HeartbeatOwned'
  BY DEF IInv, TypeOK, Absent, Present, HeartbeatOwned
<1> QED
  BY <1>1, <1>2, <1>3, <1>4, <1>5, <1>6 DEF IInv

LEMMA Step_WakeDisconnected ==
  ASSUME IInv, WakeDisconnected PROVE IInv'
<1> USE DEF WakeDisconnected, Restart, Retry, zenoh_disconnected
<1>1. TypeOK'
  BY DEF IInv, TypeOK, Absent, Present, StreakEnded
<1>2. ClearedIsUnconnected'
  BY DEF IInv, TypeOK, Absent, Present, ClearedIsUnconnected
<1>3. FlagsTell'
  BY DEF IInv, TypeOK, Absent, Present, FlagsTell
<1>4. StreakEnded'
  BY DEF IInv, TypeOK, Absent, Present, StreakEnded
<1>5. RefusalsCounted'
  BY Division DEF IInv, TypeOK, Absent, Present, StreakEnded, RefusalsCounted
<1>6. HeartbeatOwned'
  BY DEF IInv, TypeOK, Absent, Present, HeartbeatOwned
<1> QED
  BY <1>1, <1>2, <1>3, <1>4, <1>5, <1>6 DEF IInv

LEMMA Step_WakeInterval ==
  ASSUME IInv, WakeInterval PROVE IInv'
<1> USE DEF WakeInterval, LoopTop
<1>1. TypeOK'
  BY DEF IInv, TypeOK, Absent, Present, StreakEnded
<1>2. ClearedIsUnconnected'
  BY DEF IInv, TypeOK, Absent, Present, ClearedIsUnconnected
<1>3. FlagsTell'
  BY DEF IInv, TypeOK, Absent, Present, FlagsTell
<1>4. StreakEnded'
  BY DEF IInv, TypeOK, Absent, Present, StreakEnded
<1>5. RefusalsCounted'
  BY Division DEF IInv, TypeOK, Absent, Present, StreakEnded, RefusalsCounted
<1>6. HeartbeatOwned'
  BY DEF IInv, TypeOK, Absent, Present, HeartbeatOwned
<1> QED
  BY <1>1, <1>2, <1>3, <1>4, <1>5, <1>6 DEF IInv

LEMMA Step_Dropped ==
  ASSUME IInv, Dropped PROVE IInv'
<1> USE DEF Dropped
<1>1. TypeOK'
  <2>1. {stale', remote', misused', leased'} \subseteq BOOLEAN
    BY Zenon DEF IInv, TypeOK
  <2> QED
    BY <2>1 DEF IInv, TypeOK, Absent, Present, StreakEnded
<1>2. ClearedIsUnconnected'
  BY DEF IInv, TypeOK, Absent, Present, ClearedIsUnconnected
<1>3. FlagsTell'
  BY DEF IInv, TypeOK, Absent, Present, FlagsTell
<1>4. StreakEnded'
  BY DEF IInv, TypeOK, Absent, Present, StreakEnded
<1>5. RefusalsCounted'
  BY Division DEF IInv, TypeOK, Absent, Present, StreakEnded, RefusalsCounted
<1>6. HeartbeatOwned'
  BY DEF IInv, TypeOK, Absent, Present, HeartbeatOwned
<1> QED
  BY <1>1, <1>2, <1>3, <1>4, <1>5, <1>6 DEF IInv

LEMMA Step_Closed ==
  ASSUME IInv, Closed PROVE IInv'
<1> USE DEF Closed, Restart, Retry, zenoh_disconnected
<1>1. TypeOK'
  BY DEF IInv, TypeOK, Absent, Present, StreakEnded
<1>2. ClearedIsUnconnected'
  BY DEF IInv, TypeOK, Absent, Present, ClearedIsUnconnected
<1>3. FlagsTell'
  BY DEF IInv, TypeOK, Absent, Present, FlagsTell
<1>4. StreakEnded'
  BY DEF IInv, TypeOK, Absent, Present, StreakEnded
<1>5. RefusalsCounted'
  BY Division DEF IInv, TypeOK, Absent, Present, StreakEnded, RefusalsCounted
<1>6. HeartbeatOwned'
  BY DEF IInv, TypeOK, Absent, Present, HeartbeatOwned
<1> QED
  BY <1>1, <1>2, <1>3, <1>4, <1>5, <1>6 DEF IInv

LEMMA Step_Cleaned ==
  ASSUME IInv, Cleaned PROVE IInv'
<1> USE DEF Cleaned
<1>1. TypeOK'
  <2>1. {stale', remote', misused', leased'} \subseteq BOOLEAN
    BY Zenon DEF IInv, TypeOK
  <2>2. comms' \in Absent /\ session' = "none" /\ (refusals' = 0 \/ refusals' = refusals)
    BY DEF IInv, TypeOK, Absent
  <2>3. comms' \notin Present
    BY DEF Present
  <2>4. streak' = streak /\ streak \in 0..MaxStreak /\ refusals \in 0..streak
    BY Zenon DEF IInv, TypeOK
  <2>5. refusals' \in 0..streak' /\ streak' \in 0..MaxStreak
    <3> HIDE DEF Cleaned
    <3> QED
      BY <2>2, <2>4
  <2> QED
    BY <2>1, <2>2, <2>3, <2>5, Zenon DEF IInv, TypeOK
<1>2. ClearedIsUnconnected'
  BY DEF IInv, TypeOK, Absent, Present, ClearedIsUnconnected
<1>3. FlagsTell'
  BY DEF IInv, TypeOK, Absent, Present, FlagsTell
<1>4. StreakEnded'
  BY DEF IInv, TypeOK, Absent, Present, StreakEnded
<1>5. RefusalsCounted'
  BY ZeroModulo, Division DEF IInv, TypeOK, Absent, Present, StreakEnded, RefusalsCounted
<1>6. HeartbeatOwned'
  BY DEF IInv, TypeOK, Absent, Present, HeartbeatOwned
<1> QED
  BY <1>1, <1>2, <1>3, <1>4, <1>5, <1>6 DEF IInv

LEMMA Step_Reopen ==
  ASSUME IInv, Reopen PROVE IInv'
<1> USE DEF Reopen
<1>1. TypeOK'
  BY DEF IInv, TypeOK, Absent, Present, StreakEnded
<1>2. ClearedIsUnconnected'
  BY DEF IInv, TypeOK, Absent, Present, ClearedIsUnconnected
<1>3. FlagsTell'
  BY DEF IInv, TypeOK, Absent, Present, FlagsTell
<1>4. StreakEnded'
  BY DEF IInv, TypeOK, Absent, Present, StreakEnded
<1>5. RefusalsCounted'
  BY Division DEF IInv, TypeOK, Absent, Present, StreakEnded, RefusalsCounted
<1>6. HeartbeatOwned'
  BY DEF IInv, TypeOK, Absent, Present, HeartbeatOwned
<1> QED
  BY <1>1, <1>2, <1>3, <1>4, <1>5, <1>6 DEF IInv

LEMMA Step_PublishBegins ==
  ASSUME IInv, PublishBegins PROVE IInv'
<1> USE DEF PublishBegins, commsState
<1>1. TypeOK'
  <2>1. {stale', remote', misused', leased'} \subseteq BOOLEAN
    BY Zenon DEF IInv, TypeOK
  <2> QED
    BY <2>1 DEF IInv, TypeOK, Absent, Present, StreakEnded
<1>2. ClearedIsUnconnected'
  BY DEF IInv, TypeOK, Absent, Present, ClearedIsUnconnected
<1>3. FlagsTell'
  BY DEF IInv, TypeOK, Absent, Present, FlagsTell
<1>4. StreakEnded'
  BY DEF IInv, TypeOK, Absent, Present, StreakEnded
<1>5. RefusalsCounted'
  BY Division DEF IInv, TypeOK, Absent, Present, StreakEnded, RefusalsCounted
<1>6. HeartbeatOwned'
  BY DEF IInv, TypeOK, Absent, Present, HeartbeatOwned
<1> QED
  BY <1>1, <1>2, <1>3, <1>4, <1>5, <1>6 DEF IInv

LEMMA Step_PublishEncoded ==
  ASSUME IInv, PublishEncoded PROVE IInv'
<1> USE DEF PublishEncoded, commsState
<1>1. TypeOK'
  <2>1. {stale', remote', misused', leased'} \subseteq BOOLEAN
    BY Zenon DEF IInv, TypeOK
  <2> QED
    BY <2>1 DEF IInv, TypeOK, Absent, Present, StreakEnded
<1>2. ClearedIsUnconnected'
  BY DEF IInv, TypeOK, Absent, Present, ClearedIsUnconnected
<1>3. FlagsTell'
  BY DEF IInv, TypeOK, Absent, Present, FlagsTell
<1>4. StreakEnded'
  BY DEF IInv, TypeOK, Absent, Present, StreakEnded
<1>5. RefusalsCounted'
  BY Division DEF IInv, TypeOK, Absent, Present, StreakEnded, RefusalsCounted
<1>6. HeartbeatOwned'
  BY DEF IInv, TypeOK, Absent, Present, HeartbeatOwned
<1> QED
  BY <1>1, <1>2, <1>3, <1>4, <1>5, <1>6 DEF IInv

LEMMA Step_PublishChecked ==
  ASSUME IInv, PublishChecked PROVE IInv'
<1> USE DEF PublishChecked, commsState
<1>1. TypeOK'
  <2>1. {stale', remote', misused', leased'} \subseteq BOOLEAN
    BY Zenon DEF IInv, TypeOK
  <2> QED
    BY <2>1 DEF IInv, TypeOK, Absent, Present, StreakEnded
<1>2. ClearedIsUnconnected'
  BY DEF IInv, TypeOK, Absent, Present, ClearedIsUnconnected
<1>3. FlagsTell'
  BY DEF IInv, TypeOK, Absent, Present, FlagsTell
<1>4. StreakEnded'
  BY DEF IInv, TypeOK, Absent, Present, StreakEnded
<1>5. RefusalsCounted'
  BY Division DEF IInv, TypeOK, Absent, Present, StreakEnded, RefusalsCounted
<1>6. HeartbeatOwned'
  BY DEF IInv, TypeOK, Absent, Present, HeartbeatOwned
<1> QED
  BY <1>1, <1>2, <1>3, <1>4, <1>5, <1>6 DEF IInv

LEMMA Step_PublishPut ==
  ASSUME IInv, PublishPut PROVE IInv'
<1> USE DEF PublishPut, commsState
<1>1. TypeOK'
  <2>1. misused' \in BOOLEAN
    BY Zenon DEF IInv, TypeOK
  <2>2. {stale', remote', misused', leased'} \subseteq BOOLEAN
    BY <2>1, Zenon DEF IInv, TypeOK
  <2> QED
    BY <2>2 DEF IInv, TypeOK, Absent, Present, StreakEnded
<1>2. ClearedIsUnconnected'
  BY DEF IInv, TypeOK, Absent, Present, ClearedIsUnconnected
<1>3. FlagsTell'
  BY DEF IInv, TypeOK, Absent, Present, FlagsTell
<1>4. StreakEnded'
  BY DEF IInv, TypeOK, Absent, Present, StreakEnded
<1>5. RefusalsCounted'
  BY Division DEF IInv, TypeOK, Absent, Present, StreakEnded, RefusalsCounted
<1>6. HeartbeatOwned'
  BY DEF IInv, TypeOK, Absent, Present, HeartbeatOwned
<1> QED
  BY <1>1, <1>2, <1>3, <1>4, <1>5, <1>6 DEF IInv

LEMMA Step_PublishSucceeds ==
  ASSUME IInv, PublishSucceeds PROVE IInv'
<1> USE DEF PublishSucceeds, commsState
<1>1. TypeOK'
  <2>1. {stale', remote', misused', leased'} \subseteq BOOLEAN
    BY Zenon DEF IInv, TypeOK
  <2> QED
    BY <2>1 DEF IInv, TypeOK, Absent, Present, StreakEnded
<1>2. ClearedIsUnconnected'
  BY DEF IInv, TypeOK, Absent, Present, ClearedIsUnconnected
<1>3. FlagsTell'
  BY DEF IInv, TypeOK, Absent, Present, FlagsTell
<1>4. StreakEnded'
  BY DEF IInv, TypeOK, Absent, Present, StreakEnded
<1>5. RefusalsCounted'
  BY Division DEF IInv, TypeOK, Absent, Present, StreakEnded, RefusalsCounted
<1>6. HeartbeatOwned'
  BY DEF IInv, TypeOK, Absent, Present, HeartbeatOwned
<1> QED
  BY <1>1, <1>2, <1>3, <1>4, <1>5, <1>6 DEF IInv

LEMMA Step_PublishFails ==
  ASSUME IInv, PublishFails PROVE IInv'
<1> USE DEF PublishFails, commsState
<1>1. TypeOK'
  <2>1. {stale', remote', misused', leased'} \subseteq BOOLEAN
    BY Zenon DEF IInv, TypeOK
  <2> QED
    BY <2>1 DEF IInv, TypeOK, Absent, Present, StreakEnded
<1>2. ClearedIsUnconnected'
  BY DEF IInv, TypeOK, Absent, Present, ClearedIsUnconnected
<1>3. FlagsTell'
  BY DEF IInv, TypeOK, Absent, Present, FlagsTell
<1>4. StreakEnded'
  BY DEF IInv, TypeOK, Absent, Present, StreakEnded
<1>5. RefusalsCounted'
  BY Division DEF IInv, TypeOK, Absent, Present, StreakEnded, RefusalsCounted
<1>6. HeartbeatOwned'
  BY DEF IInv, TypeOK, Absent, Present, HeartbeatOwned
<1> QED
  BY <1>1, <1>2, <1>3, <1>4, <1>5, <1>6 DEF IInv

LEMMA Step_LowerConnected ==
  ASSUME IInv, LowerConnected PROVE IInv'
<1> USE DEF LowerConnected, commsState
<1>1. TypeOK'
  <2>1. {stale', remote', misused', leased'} \subseteq BOOLEAN
    BY Zenon DEF IInv, TypeOK
  <2> QED
    BY <2>1 DEF IInv, TypeOK, Absent, Present, StreakEnded
<1>2. ClearedIsUnconnected'
  BY DEF IInv, TypeOK, Absent, Present, ClearedIsUnconnected
<1>3. FlagsTell'
  BY DEF IInv, TypeOK, Absent, Present, FlagsTell
<1>4. StreakEnded'
  BY DEF IInv, TypeOK, Absent, Present, StreakEnded
<1>5. RefusalsCounted'
  BY Division DEF IInv, TypeOK, Absent, Present, StreakEnded, RefusalsCounted
<1>6. HeartbeatOwned'
  BY DEF IInv, TypeOK, Absent, Present, HeartbeatOwned
<1> QED
  BY <1>1, <1>2, <1>3, <1>4, <1>5, <1>6 DEF IInv

LEMMA Step_RaiseDisconnected ==
  ASSUME IInv, RaiseDisconnected PROVE IInv'
<1> USE DEF RaiseDisconnected, commsState
<1>1. TypeOK'
  <2>1. {stale', remote', misused', leased'} \subseteq BOOLEAN
    BY Zenon DEF IInv, TypeOK
  <2> QED
    BY <2>1 DEF IInv, TypeOK, Absent, Present, StreakEnded
<1>2. ClearedIsUnconnected'
  BY DEF IInv, TypeOK, Absent, Present, ClearedIsUnconnected
<1>3. FlagsTell'
  BY DEF IInv, TypeOK, Absent, Present, FlagsTell
<1>4. StreakEnded'
  BY DEF IInv, TypeOK, Absent, Present, StreakEnded
<1>5. RefusalsCounted'
  BY Division DEF IInv, TypeOK, Absent, Present, StreakEnded, RefusalsCounted
<1>6. HeartbeatOwned'
  BY DEF IInv, TypeOK, Absent, Present, HeartbeatOwned
<1> QED
  BY <1>1, <1>2, <1>3, <1>4, <1>5, <1>6 DEF IInv

LEMMA Step_HeartbeatStamp ==
  ASSUME IInv, HeartbeatStamp PROVE IInv'
<1> USE DEF HeartbeatStamp, othersState
<1>1. TypeOK'
  BY DEF IInv, TypeOK, Absent, Present, StreakEnded
<1>2. ClearedIsUnconnected'
  BY DEF IInv, TypeOK, Absent, Present, ClearedIsUnconnected
<1>3. FlagsTell'
  BY DEF IInv, TypeOK, Absent, Present, FlagsTell
<1>4. StreakEnded'
  BY DEF IInv, TypeOK, Absent, Present, StreakEnded
<1>5. RefusalsCounted'
  BY Division DEF IInv, TypeOK, Absent, Present, StreakEnded, RefusalsCounted
<1>6. HeartbeatOwned'
  BY DEF IInv, TypeOK, Absent, Present, HeartbeatOwned
<1> QED
  BY <1>1, <1>2, <1>3, <1>4, <1>5, <1>6 DEF IInv

LEMMA Step_HeartbeatState ==
  ASSUME IInv, HeartbeatState PROVE IInv'
<1> USE DEF HeartbeatState, othersState
<1>1. TypeOK'
  <2>1. {stale', remote', misused', leased'} \subseteq BOOLEAN
    BY Zenon DEF IInv, TypeOK
  <2>2. heartbeat' \in {"not_started", "consuming", "missed"}
    BY DEF IInv, TypeOK
  <2> QED
    BY <2>1, <2>2, Zenon DEF IInv, TypeOK
<1>2. ClearedIsUnconnected'
  BY DEF IInv, TypeOK, Absent, Present, ClearedIsUnconnected
<1>3. FlagsTell'
  BY DEF IInv, TypeOK, Absent, Present, FlagsTell
<1>4. StreakEnded'
  BY DEF IInv, TypeOK, Absent, Present, StreakEnded
<1>5. RefusalsCounted'
  BY Division DEF IInv, TypeOK, Absent, Present, StreakEnded, RefusalsCounted
<1>6. HeartbeatOwned'
  BY DEF IInv, TypeOK, Absent, Present, HeartbeatOwned
<1> QED
  BY <1>1, <1>2, <1>3, <1>4, <1>5, <1>6 DEF IInv

LEMMA Step_Timeout ==
  ASSUME IInv, Timeout PROVE IInv'
<1> USE DEF Timeout, othersState
<1>1. TypeOK'
  <2>1. {stale', remote', misused', leased'} \subseteq BOOLEAN
    BY Zenon DEF IInv, TypeOK
  <2>2. server' \in {"unheard", "heard", "silent"}
    BY DEF IInv, TypeOK
  <2> QED
    BY <2>1, <2>2 DEF IInv, TypeOK
<1>2. ClearedIsUnconnected'
  BY DEF IInv, TypeOK, Absent, Present, ClearedIsUnconnected
<1>3. FlagsTell'
  BY DEF IInv, TypeOK, Absent, Present, FlagsTell
<1>4. StreakEnded'
  BY DEF IInv, TypeOK, Absent, Present, StreakEnded
<1>5. RefusalsCounted'
  BY Division DEF IInv, TypeOK, Absent, Present, StreakEnded, RefusalsCounted
<1>6. HeartbeatOwned'
  BY DEF IInv, TypeOK, Absent, Present, HeartbeatOwned
<1> QED
  BY <1>1, <1>2, <1>3, <1>4, <1>5, <1>6 DEF IInv

LEMMA Step_SessionCloses ==
  ASSUME IInv, SessionCloses PROVE IInv'
<1> USE DEF SessionCloses, othersState
<1>1. TypeOK'
  <2>1. {stale', remote', misused', leased'} \subseteq BOOLEAN
    BY Zenon DEF IInv, TypeOK
  <2> QED
    BY <2>1 DEF IInv, TypeOK, Absent, Present, StreakEnded
<1>2. ClearedIsUnconnected'
  BY DEF IInv, TypeOK, Absent, Present, ClearedIsUnconnected
<1>3. FlagsTell'
  BY DEF IInv, TypeOK, Absent, Present, FlagsTell
<1>4. StreakEnded'
  BY DEF IInv, TypeOK, Absent, Present, StreakEnded
<1>5. RefusalsCounted'
  BY Division DEF IInv, TypeOK, Absent, Present, StreakEnded, RefusalsCounted
<1>6. HeartbeatOwned'
  BY DEF IInv, TypeOK, Absent, Present, HeartbeatOwned
<1> QED
  BY <1>1, <1>2, <1>3, <1>4, <1>5, <1>6 DEF IInv

LEMMA Step_LeaseExpires ==
  ASSUME IInv, LeaseExpires PROVE IInv'
<1> USE DEF LeaseExpires
<1>1. TypeOK'
  <2>1. {stale', remote', misused', leased'} \subseteq BOOLEAN
    BY Zenon DEF IInv, TypeOK
  <2> QED
    BY <2>1 DEF IInv, TypeOK
<1>2. ClearedIsUnconnected'
  BY DEF IInv, TypeOK, Absent, Present, ClearedIsUnconnected
<1>3. FlagsTell'
  BY DEF IInv, TypeOK, Absent, Present, FlagsTell
<1>4. StreakEnded'
  BY DEF IInv, TypeOK, Absent, Present, StreakEnded
<1>5. RefusalsCounted'
  BY Division DEF IInv, TypeOK, Absent, Present, StreakEnded, RefusalsCounted
<1>6. HeartbeatOwned'
  BY DEF IInv, TypeOK, Absent, Present, HeartbeatOwned
<1> QED
  BY <1>1, <1>2, <1>3, <1>4, <1>5, <1>6 DEF IInv

LEMMA Step_Deadlocks ==
  ASSUME IInv, Deadlocks PROVE IInv'
<1> USE DEF Deadlocks
<1>1. TypeOK'
  <2>1. {stale', remote', misused', leased'} \subseteq BOOLEAN
    BY Zenon DEF IInv, TypeOK
  <2> QED
    BY <2>1 DEF IInv, TypeOK, Absent, Present, StreakEnded
<1>2. ClearedIsUnconnected'
  BY DEF IInv, TypeOK, Absent, Present, ClearedIsUnconnected
<1>3. FlagsTell'
  BY DEF IInv, TypeOK, Absent, Present, FlagsTell
<1>4. StreakEnded'
  BY DEF IInv, TypeOK, Absent, Present, StreakEnded
<1>5. RefusalsCounted'
  BY Division DEF IInv, TypeOK, Absent, Present, StreakEnded, RefusalsCounted
<1>6. HeartbeatOwned'
  BY DEF IInv, TypeOK, Absent, Present, HeartbeatOwned
<1> QED
  BY <1>1, <1>2, <1>3, <1>4, <1>5, <1>6 DEF IInv

LEMMA NextHolds ==
  ASSUME IInv, [Next]_vars PROVE IInv'
  BY StutterHolds, Step_Halt, Step_OpenSucceeds, Step_OpenFindsNone, Step_OpenRefused,
     Step_Declared, Step_PutSucceeds, Step_PutFails,
     Step_WakeDisconnected, Step_WakeInterval, Step_Dropped, Step_Closed,
     Step_Cleaned, Step_Reopen, Step_PublishBegins,
     Step_PublishEncoded, Step_PublishChecked, Step_PublishPut,
     Step_PublishSucceeds, Step_PublishFails, Step_LowerConnected,
     Step_RaiseDisconnected, Step_HeartbeatStamp, Step_HeartbeatState,
     Step_Timeout, Step_SessionCloses, Step_LeaseExpires, Step_Deadlocks
     DEF Next, comms_thread_entry, publish_switch_diagnostics, PublisherReports,
         heartbeat_sub_callback

----------------------------------------------------------------------------
(* The inductive invariant holds throughout.                               *)
THEOREM InductiveInvariant == Spec => []IInv
<1>1. Init => IInv
  BY InitHolds
<1>2. IInv /\ [Next]_vars => IInv'
  BY NextHolds
<1> QED
  BY <1>1, <1>2, PTL DEF Spec

(* Every variable keeps to its range, and the session is cleared exactly   *)
(* while the comms thread is between two of them.                          *)
THEOREM TypeCorrect == Spec => []TypeOK
<1>1. IInv => TypeOK
  BY DEF IInv
<1> QED
  BY <1>1, InductiveInvariant, PTL

(* Whoever tests CONNECTED once the session has been cleared               *)
(* (comms_thread.c, line 307) finds it down: every way to retry, from      *)
(* z_drop, from a failed put, from a reported failure and from z_open,     *)
(* leaves it down, and no late report raises it.                           *)
THEOREM ClearedIsTold == Spec => []ClearedIsUnconnected
<1>1. IInv => ClearedIsUnconnected
  BY DEF IInv
<1> QED
  BY <1>1, InductiveInvariant, PTL

(* However late zenoh_disconnected of the switch thread lands, the comms   *)
(* thread never waits with publishing forbidden and nobody about to wake   *)
(* it (comms_thread.c, line 271).                                          *)
THEOREM WaitIsNotMute == Spec => []NeverMuted
<1>1. IInv => NeverMuted
  BY DEF IInv, FlagsTell, NeverMuted
<1> QED
  BY <1>1, InductiveInvariant, PTL

(* At most MaxRetries refusals between two long pauses, for every          *)
(* MaxRetries and however the streak and its validity interleave           *)
(* (comms_thread.c, line 322).                                             *)
THEOREM LeasesExpire == Spec => []LeasesRespected
<1>1. ASSUME IInv PROVE LeasesRespected
  <2>1. streak % MaxRetries \in 0..(MaxRetries - 1)
    BY <1>1, Division DEF IInv, TypeOK
  <2>2. refusals = streak % MaxRetries \/ refusals = MaxRetries
    BY <1>1 DEF IInv, RefusalsCounted
  <2> QED
    BY <2>1, <2>2 DEF LeasesRespected
<1> QED
  BY <1>1, InductiveInvariant, PTL

(* A server is only ever declared missing (comms_thread.c, line 239) after *)
(* a heartbeat of this session and the timeout.                            *)
THEOREM MissingIsReal == Spec => MissIsReal
<1> DEFINE Miss == heartbeat' = "missed" /\ heartbeat # "missed"
<1>1. ASSUME IInv, LoopTop, Miss PROVE server = "silent"
  BY <1>1 DEF LoopTop, IInv, TypeOK, HeartbeatOwned
<1>2. ASSUME IInv, [Next]_vars, Miss PROVE server = "silent"
  <2>1. CASE Declared \/ WakeInterval
    BY <1>1, <1>2, <2>1 DEF Declared, WakeInterval
  <2>2. CASE Halt \/ UNCHANGED vars
    BY <1>2, <2>2 DEF Halt, vars
  <2>3. CASE \/ OpenSucceeds \/ OpenFindsNone \/ OpenRefused \/ PutSucceeds
             \/ PutFails \/ WakeDisconnected \/ Dropped \/ Closed \/ Cleaned \/ Reopen
    BY <1>2, <2>3 DEF OpenSucceeds, OpenFindsNone, OpenRefused, PutSucceeds,
       PutFails, WakeDisconnected, Dropped, Closed, Cleaned, Reopen, Restart
  <2>4. CASE publish_switch_diagnostics
    BY <1>2, <2>4 DEF publish_switch_diagnostics, PublisherReports, commsState,
       PublishBegins, PublishEncoded, PublishChecked, PublishPut,
       PublishSucceeds, PublishFails, LowerConnected,
       RaiseDisconnected
  <2>5. CASE \/ heartbeat_sub_callback \/ Timeout \/ SessionCloses
             \/ LeaseExpires \/ Deadlocks
    BY <1>2, <2>5 DEF heartbeat_sub_callback, HeartbeatStamp, HeartbeatState, Timeout,
       SessionCloses, LeaseExpires, Deadlocks, othersState
  <2> QED
    BY <1>2, <2>1, <2>2, <2>3, <2>4, <2>5 DEF Next, comms_thread_entry
<1>3. IInv /\ [Next]_vars => [Miss => server = "silent"]_vars
  BY <1>2
<1> QED
  BY <1>3, InductiveInvariant, PTL DEF Spec, MissIsReal
=============================================================================
