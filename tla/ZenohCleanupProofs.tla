------------------------- MODULE ZenohCleanupProofs -------------------------
(***************************************************************************)
(* What holds of ZenohCleanup for any number of objects on the lists.      *)
(*                                                                         *)
(* Three things make the walk safe.  A list is always what the system      *)
(* created followed by blocks of the pool, and has no object twice, so     *)
(* that a deletion concerns one place of it and leaves the system's        *)
(* objects where they are.  The walk is at some place of the list, with    *)
(* next at the one after it, and has left no block of the pool behind it.  *)
(* And deleting the object at a place brings next to that place.           *)
(*                                                                         *)
(* The pool is emptied only under an assumption on the lists: the walk     *)
(* ends at the head of the moment, and a list whose head is the pool's is  *)
(* left too early when more than one block is on it.                       *)
(***************************************************************************)
EXTENDS ZenohCleanup, SequenceTheorems, TLAPS

(* A list of kind k: the system's objects, then blocks of the pool.        *)
WellLinked(list, k) ==
  /\ list \in Seq(Object)
  /\ Len(System[k]) <= Len(list) /\ Len(list) <= Len(System[k]) + MaxOpen[k]
  /\ \A i \in 1..Len(System[k]) : list[i] = System[k][i]
  /\ \A i \in Len(System[k]) + 1..Len(list) : list[i] \in Pool
  /\ \A i, j \in 1..Len(list) : list[i] = list[j] => i = j

(* The walk is at place i, and no block of the pool is behind it.          *)
AtPlace(list, i, cur, nxt) ==
  /\ i \in 1..Len(list)
  /\ cur = list[i]
  /\ nxt = list[IF i = Len(list) THEN 1 ELSE i + 1]
  /\ \A j \in 1..i - 1 : list[j] \notin Pool

Walking ==
  /\ visited => pc \in Kind
  /\ \A k \in Kind : pc = k /\ visited => \E i \in Nat : AtPlace(created[k], i, current, next)

IInv == TypeOK /\ (\A k \in Kind : WellLinked(created[k], k)) /\ Walking

----------------------------------------------------------------------------
(* The lists                                                               *)

(* The four kinds, in the order of their walks.                            *)
LEMMA KindsAre ==
  /\ Kind = {"thread", "mutex", "semaphore", "udp"}
  /\ Kinds[1] = "thread"
  /\ After("thread") = "mutex" /\ After("mutex") = "semaphore"
  /\ After("semaphore") = "udp" /\ After("udp") = "walked"
<1>1. /\ Kinds[1] = "thread" /\ Kinds[2] = "mutex" /\ Kinds[3] = "semaphore" /\ Kinds[4] = "udp"
      /\ DOMAIN Kinds = 1..4
  BY DEF Kinds
<1>2. Kind = {"thread", "mutex", "semaphore", "udp"}
  <2>1. Kind = {Kinds[i] : i \in 1..4}
    BY <1>1 DEF Kind, Range
  <2>2. 1..4 = {1, 2, 3, 4}
    OBVIOUS
  <2>3. QED
    BY <1>1, <2>1, <2>2
<1>3. /\ (CHOOSE i \in 1..3 : Kinds[i] = "thread") = 1
      /\ (CHOOSE i \in 1..3 : Kinds[i] = "mutex") = 2
      /\ (CHOOSE i \in 1..3 : Kinds[i] = "semaphore") = 3
  <2>1. 1..3 = {1, 2, 3}
    OBVIOUS
  <2>2. QED
    BY <1>1, <2>1
<1>4. QED
  BY <1>1, <1>2, <1>3 DEF After

(* The other steps of the comms thread walk no list.                       *)
LEMMA NotAKind == \A s \in {"closed", "open", "walked", "lost"} : s \notin Kind
  BY KindsAre

(* What a list without its i-th object looks like.                         *)
LEMMA Removed ==
  ASSUME NEW S, NEW list \in Seq(S), NEW i \in 1..Len(list)
  PROVE  /\ RemoveAt(list, i) \in Seq(S)
         /\ Len(RemoveAt(list, i)) = Len(list) - 1
         /\ \A j \in 1..Len(list) - 1 :
              RemoveAt(list, i)[j] = IF j < i THEN list[j] ELSE list[j + 1]
<1> DEFINE a == SubSeq(list, 1, i - 1)
           b == SubSeq(list, i + 1, Len(list))
<1>1. Len(list) \in Nat /\ i \in Nat /\ i >= 1 /\ i <= Len(list)
  OBVIOUS
<1>2. a \in Seq(S) /\ Len(a) = i - 1 /\ \A j \in 1..i - 1 : a[j] = list[j]
  BY <1>1
<1>3. b \in Seq(S) /\ Len(b) = Len(list) - i /\ \A j \in 1..Len(list) - i : b[j] = list[i + j]
  BY <1>1
<1> HIDE DEF a, b
<1>4. RemoveAt(list, i) = a \o b
  BY DEF RemoveAt, a, b
<1>5. a \o b \in Seq(S) /\ Len(a \o b) = Len(list) - 1
  <2>1. a \o b \in Seq(S) /\ Len(a \o b) = Len(a) + Len(b)
    BY <1>2, <1>3, ConcatProperties
  <2>2. QED
    BY <1>1, <1>2, <1>3, <2>1
<1>6. ASSUME NEW j \in 1..Len(list) - 1
      PROVE  (a \o b)[j] = IF j < i THEN list[j] ELSE list[j + 1]
  <2>1. (a \o b)[j] = IF j <= Len(a) THEN a[j] ELSE b[j - Len(a)]
    <3>1. j \in 1..Len(a) + Len(b)
      BY <1>1, <1>2, <1>3
    <3>2. QED
      BY <1>2, <1>3, <3>1, ConcatProperties
  <2>2. CASE j < i
    <3>1. j \in 1..i - 1 /\ j <= Len(a)
      BY <1>1, <1>2, <2>2
    <3>2. QED
      BY <1>2, <2>1, <2>2, <3>1
  <2>3. CASE ~(j < i)
    <3>1. j - Len(a) \in 1..Len(list) - i /\ i + (j - Len(a)) = j + 1 /\ ~(j <= Len(a))
      BY <1>1, <1>2, <2>3
    <3>2. QED
      BY <1>3, <2>1, <2>3, <3>1
  <2>4. QED
    BY <2>2, <2>3
<1>7. QED
  BY <1>4, <1>5, <1>6

(* On a list without repetitions an object has one place.                  *)
LEMMA OnePlace ==
  ASSUME NEW k \in Kind, NEW list, WellLinked(list, k), NEW i \in 1..Len(list)
  PROVE  /\ list[i] \in Range(list)
         /\ Place(list, list[i]) = i
         /\ Successor(list, list[i]) = list[IF i = Len(list) THEN 1 ELSE i + 1]
         /\ Unlink(list, list[i]) = RemoveAt(list, i)
<1>1. list \in Seq(Object) /\ \A m, j \in 1..Len(list) : list[m] = list[j] => m = j
  BY DEF WellLinked
<1>2. list[i] \in Range(list)
  BY <1>1 DEF Range
<1>3. Place(list, list[i]) = i
  BY <1>1 DEF Place
<1>4. QED
  BY <1>2, <1>3 DEF Successor, Unlink

(* Deleting a block of the pool leaves a list well linked.                 *)
LEMMA UnlinkKeeps ==
  ASSUME NEW k \in Kind, NEW list, WellLinked(list, k), NEW i \in 1..Len(list), list[i] \in Pool
  PROVE  i > Len(System[k]) /\ WellLinked(RemoveAt(list, i), k)
<1> DEFINE new == RemoveAt(list, i)
           n == Len(System[k])
<1>1. /\ list \in Seq(Object) /\ Len(list) \in Nat /\ n \in Nat /\ MaxOpen[k] \in Nat
      /\ System[k] \in Seq(SystemObject)
  BY ZenohCleanupAssumption DEF WellLinked
<1>2. i > n
  <2>1. SUFFICES ASSUME i <= n PROVE FALSE
    BY <1>1
  <2>2. list[i] = System[k][i] /\ i \in 1..Len(System[k])
    BY <1>1, <2>1 DEF WellLinked
  <2>3. System[k][i] \in SystemObject
    BY <1>1, <2>2
  <2>4. QED
    BY <2>2, <2>3, ZenohCleanupAssumption
<1>3. /\ new \in Seq(Object) /\ Len(new) = Len(list) - 1
      /\ \A j \in 1..Len(list) - 1 : new[j] = IF j < i THEN list[j] ELSE list[j + 1]
  BY <1>1, Removed
<1> HIDE DEF new, n
<1>4. n <= Len(list) /\ Len(list) <= n + MaxOpen[k]
  BY DEF WellLinked, n
<1>5. n <= Len(new) /\ Len(new) <= n + MaxOpen[k]
  BY <1>1, <1>2, <1>3, <1>4
<1>6. ASSUME NEW j \in 1..n PROVE new[j] = System[k][j]
  <2>1. j < i /\ j \in 1..Len(list) - 1
    BY <1>1, <1>2, <1>4
  <2>2. QED
    BY <1>3, <2>1 DEF WellLinked, n
<1>7. ASSUME NEW j \in n + 1..Len(new) PROVE new[j] \in Pool
  <2>1. j \in 1..Len(list) - 1 /\ j \in n + 1..Len(list) /\ j + 1 \in n + 1..Len(list)
    BY <1>1, <1>3
  <2>2. list[j] \in Pool /\ list[j + 1] \in Pool
    BY <2>1 DEF WellLinked, n
  <2>3. QED
    BY <1>3, <2>1, <2>2
<1>8. ASSUME NEW j \in 1..Len(new), NEW m \in 1..Len(new), new[j] = new[m] PROVE j = m
  <2> DEFINE at(x) == IF x < i THEN x ELSE x + 1
  <2>1. at(j) \in 1..Len(list) /\ at(m) \in 1..Len(list)
    BY <1>1, <1>3
  <2>2. new[j] = list[at(j)] /\ new[m] = list[at(m)]
    BY <1>1, <1>3
  <2>3. at(j) = at(m)
    <3> HIDE DEF at
    <3>1. QED
      BY <1>8, <2>1, <2>2 DEF WellLinked
  <2>4. QED
    BY <2>3
<1>9. WellLinked(new, k)
  BY <1>3, <1>5, <1>6, <1>7, <1>8 DEF WellLinked, n
<1>10. QED
  BY <1>2, <1>9 DEF new, n
(* A list without a block of the pool is the system's, as long.            *)
LEMMA NoneOpen ==
  ASSUME NEW k \in Kind, NEW list, WellLinked(list, k), InPool(list) = {}
  PROVE  Len(list) = Len(System[k])
<1>1. list \in Seq(Object) /\ Len(list) \in Nat /\ Len(System[k]) \in Nat /\ Len(System[k]) <= Len(list)
  BY ZenohCleanupAssumption DEF WellLinked
<1>2. SUFFICES ASSUME Len(System[k]) < Len(list) PROVE FALSE
  BY <1>1
<1>3. Len(list) \in Len(System[k]) + 1..Len(list) /\ Len(list) \in 1..Len(list)
  BY <1>1, <1>2
<1>4. list[Len(list)] \in Pool /\ list[Len(list)] \in Range(list)
  BY <1>1, <1>3 DEF WellLinked, Range
<1>5. QED
  BY <1>4 DEF InPool

(* What a session creates is linked behind the system's objects.           *)
LEMMA OpenKeeps ==
  ASSUME NEW k \in Kind, NEW list, WellLinked(list, k), InPool(list) = {},
         NEW new \in NewLists(k)
  PROVE  WellLinked(list \o new, k)
<1> DEFINE all == list \o new
           n == Len(System[k])
<1>1. /\ list \in Seq(Object) /\ n \in Nat /\ Len(list) = n /\ MaxOpen[k] \in Nat
      /\ System[k] \in Seq(SystemObject)
  <2>1. list \in Seq(Object) /\ Len(list) = n
    BY NoneOpen DEF WellLinked
  <2>2. System[k] \in Seq(SystemObject) /\ MaxOpen[k] \in Nat
    BY ZenohCleanupAssumption
  <2>3. QED
    BY <2>1, <2>2
<1>2. new \in Seq(Pool) /\ Len(new) \in Nat /\ Len(new) <= MaxOpen[k]
  <2>1. PICK m \in 0..MaxOpen[k] : new \in [1..m -> Pool]
    BY DEF NewLists, SeqOf
  <2>2. m \in Nat /\ m <= MaxOpen[k]
    BY <1>1
  <2>3. new \in Seq(Pool) /\ Len(new) = m
    BY <2>1, <2>2
  <2>4. QED
    BY <2>2, <2>3
<1>3. \A i, j \in 1..Len(new) : new[i] = new[j] => i = j
  BY <1>2 DEF NewLists, IsInjective
<1>4. new \in Seq(Object)
  BY <1>2, SeqMonotonic DEF Object
<1>5. /\ all \in Seq(Object) /\ Len(all) = n + Len(new)
      /\ \A i \in 1..n + Len(new) : all[i] = IF i <= n THEN list[i] ELSE new[i - n]
  <2>1. /\ list \o new \in Seq(Object) /\ Len(list \o new) = Len(list) + Len(new)
        /\ \A i \in 1..Len(list) + Len(new) :
             (list \o new)[i] = IF i <= Len(list) THEN list[i] ELSE new[i - Len(list)]
    BY <1>1, <1>4, ConcatProperties
  <2>2. QED
    BY <1>1, <2>1
<1>6. \A i \in 1..n : list[i] = System[k][i] /\ list[i] \in SystemObject
  BY <1>1 DEF WellLinked
<1> HIDE DEF all, n
<1>7. ASSUME NEW i \in 1..n PROVE all[i] = System[k][i] /\ all[i] \notin Pool
  <2>1. i \in 1..n + Len(new) /\ i <= n
    BY <1>1, <1>2
  <2>2. QED
    BY <1>5, <1>6, <2>1, ZenohCleanupAssumption
<1>8. ASSUME NEW i \in n + 1..n + Len(new)
      PROVE  i - n \in 1..Len(new) /\ all[i] = new[i - n] /\ all[i] \in Pool
  <2>1. i \in 1..n + Len(new) /\ ~(i <= n) /\ i - n \in 1..Len(new)
    BY <1>1, <1>2
  <2>2. QED
    BY <1>2, <1>5, <2>1
<1>9. ASSUME NEW i \in 1..Len(all), NEW j \in 1..Len(all), all[i] = all[j] PROVE i = j
  <2>1. /\ i \in 1..n \/ i \in n + 1..n + Len(new)
        /\ j \in 1..n \/ j \in n + 1..n + Len(new)
    BY <1>1, <1>2, <1>5
  <2>2. CASE i \in 1..n /\ j \in 1..n
    <3>1. list[i] = list[j] /\ i \in 1..Len(list) /\ j \in 1..Len(list)
      BY <1>1, <1>6, <1>7, <1>9, <2>2
    <3>2. QED
      BY <3>1 DEF WellLinked
  <2>3. CASE i \in n + 1..n + Len(new) /\ j \in n + 1..n + Len(new)
    <3>1. i - n = j - n
      BY <1>3, <1>8, <1>9, <2>3
    <3>2. QED
      BY <1>1, <2>3, <3>1
  <2>4. QED
    BY <1>7, <1>8, <1>9, <2>1, <2>2, <2>3
<1>10. n <= Len(all) /\ Len(all) <= n + MaxOpen[k]
  BY <1>1, <1>2, <1>5
<1>11. QED
  BY <1>5, <1>7, <1>8, <1>9, <1>10 DEF WellLinked, all, n

(* The walk starts at the first place of its list.                         *)
LEMMA WalkStarts ==
  ASSUME NEW k \in Kind, NEW list, WellLinked(list, k), list # <<>>
  PROVE  AtPlace(list, 1, Head(list), Successor(list, Head(list)))
<1>1. list \in Seq(Object) /\ Len(list) \in Nat /\ Len(list) > 0
  BY EmptySeq DEF WellLinked
<1>2. Head(list) = list[1] /\ 1 \in 1..Len(list)
  BY <1>1
<1>3. Successor(list, list[1]) = list[IF 1 = Len(list) THEN 1 ELSE 1 + 1]
  BY <1>2, OnePlace
<1>4. \A j \in 1..1 - 1 : list[j] \notin Pool
  OBVIOUS
<1>5. QED
  BY <1>2, <1>3, <1>4 DEF AtPlace

(* The objects the walk follows are on the list.                           *)
LEMMA OnTheList ==
  ASSUME NEW k \in Kind, NEW list, WellLinked(list, k), NEW i \in Nat, NEW cur, NEW nxt,
         AtPlace(list, i, cur, nxt)
  PROVE  {cur, nxt} \subseteq Range(list) /\ Range(list) \subseteq Object
<1>1. list \in Seq(Object) /\ Len(list) \in Nat /\ i \in 1..Len(list)
  BY DEF WellLinked, AtPlace
<1>2. (IF i = Len(list) THEN 1 ELSE i + 1) \in 1..Len(list)
  BY <1>1
<1>3. cur \in Range(list) /\ nxt \in Range(list)
  BY <1>1, <1>2 DEF AtPlace, Range
<1>4. Range(list) \subseteq Object
  BY <1>1 DEF Range
<1>5. QED
  BY <1>3, <1>4

(* The list after one turn of the loop                                     *)
Left(list, cur) == IF cur \in Pool THEN Unlink(list, cur) ELSE list

(* The list stays well linked; if the walk goes on, it is at a place of    *)
(* what is left of the list; if not, then no block of the pool is left,    *)
(* unless the list began with one and had another.                         *)
LEMMA Turn ==
  ASSUME NEW k \in Kind, NEW list, WellLinked(list, k), NEW i \in Nat, NEW cur, NEW nxt,
         AtPlace(list, i, cur, nxt), NEW new, new = Left(list, cur)
  PROVE  /\ WellLinked(new, k)
         /\ new # <<>> /\ nxt # Head(new) =>
              \E m \in Nat : AtPlace(new, m, nxt, Successor(new, nxt))
         /\ ~(new # <<>> /\ nxt # Head(new)) /\ (System[k] # <<>> \/ MaxOpen[k] <= 1) =>
              InPool(new) = {}
<1>1. /\ list \in Seq(Object) /\ Len(list) \in Nat /\ i \in 1..Len(list) /\ cur = list[i]
      /\ nxt = list[IF i = Len(list) THEN 1 ELSE i + 1]
      /\ \A j \in 1..i - 1 : list[j] \notin Pool
      /\ \A m, j \in 1..Len(list) : list[m] = list[j] => m = j
  BY DEF WellLinked, AtPlace
<1>2. CASE cur \notin Pool
  <2>1. new = list /\ new # <<>> /\ Head(new) = list[1] /\ 1 \in 1..Len(list)
    BY <1>1, <1>2, EmptySeq DEF Left
  <2>2. CASE i < Len(list)
    <3>1. i + 1 \in 1..Len(list) /\ nxt = list[i + 1] /\ nxt # list[1]
      BY <1>1, <2>1, <2>2
    <3>2. Successor(list, nxt) = list[IF i + 1 = Len(list) THEN 1 ELSE i + 1 + 1]
      BY <3>1, OnePlace
    <3>3. \A j \in 1..(i + 1) - 1 : list[j] \notin Pool
      BY <1>1, <1>2
    <3>4. AtPlace(new, i + 1, nxt, Successor(new, nxt))
      BY <2>1, <3>1, <3>2, <3>3 DEF AtPlace
    <3>5. QED
      BY <2>1, <3>1, <3>4
  <2>3. CASE i = Len(list)
    <3>1. nxt = Head(new)
      BY <1>1, <2>1, <2>3
    <3>2. \A j \in 1..Len(list) : list[j] \notin Pool
      BY <1>1, <1>2, <2>3
    <3>3. InPool(new) = {}
      BY <1>1, <2>1, <3>2 DEF InPool, Range
    <3>4. QED
      BY <2>1, <3>1, <3>3
  <2>4. QED
    BY <1>1, <2>2, <2>3
<1>3. CASE cur \in Pool
  <2>1. new = RemoveAt(list, i) /\ i > Len(System[k]) /\ WellLinked(new, k)
    BY <1>1, <1>3, OnePlace, UnlinkKeeps DEF Left
  <2>2. /\ new \in Seq(Object) /\ Len(new) = Len(list) - 1
        /\ \A j \in 1..Len(list) - 1 : new[j] = IF j < i THEN list[j] ELSE list[j + 1]
    <3>1. list \in Seq(Object) /\ i \in 1..Len(list)
      BY <1>1
    <3>2. QED
      BY <2>1, <3>1, Removed
  <2>3. System[k] \in Seq(SystemObject) /\ Len(System[k]) \in Nat /\ MaxOpen[k] \in Nat
    BY ZenohCleanupAssumption
  <2>4. CASE i < Len(list)
    <3>1. new[i] = list[i + 1] /\ nxt = new[i] /\ i \in 1..Len(new) /\ new # <<>> /\ Head(new) = new[1]
      BY <1>1, <2>2, <2>4
    <3>2. Successor(new, nxt) = new[IF i = Len(new) THEN 1 ELSE i + 1]
      BY <2>1, <3>1, OnePlace
    <3>3. \A j \in 1..i - 1 : new[j] \notin Pool
      BY <1>1, <2>2, <2>4
    <3>4. AtPlace(new, i, nxt, Successor(new, nxt))
      BY <3>1, <3>2, <3>3 DEF AtPlace
    <3>5. ASSUME System[k] # <<>> \/ MaxOpen[k] <= 1 PROVE nxt # Head(new)
      <4>1. i > 1
        <5>1. CASE System[k] # <<>>
          BY <1>1, <2>1, <2>3, <5>1, EmptySeq
        <5>2. CASE System[k] = <<>> /\ MaxOpen[k] <= 1
          <6>1. Len(list) <= 1
            BY <1>1, <2>3, <5>2 DEF WellLinked
          <6>2. QED
            BY <1>1, <2>4, <6>1
        <5>3. QED
          BY <3>5, <5>1, <5>2
      <4>2. 1 \in 1..Len(new) /\ i # 1
        BY <1>1, <2>2, <2>4, <4>1
      <4>3. QED
        BY <2>1, <3>1, <4>2 DEF WellLinked
    <3>6. QED
      BY <2>1, <3>1, <3>4, <3>5
  <2>5. CASE i = Len(list)
    <3>1. ASSUME NEW j \in 1..Len(new) PROVE new[j] \notin Pool
      BY <1>1, <2>2, <2>5
    <3>2. InPool(new) = {}
      BY <2>2, <3>1 DEF InPool, Range
    <3>3. ~(new # <<>> /\ nxt # Head(new))
      <4>1. SUFFICES ASSUME new # <<>> PROVE nxt = Head(new)
        OBVIOUS
      <4>2. Len(new) > 0 /\ Head(new) = new[1]
        BY <2>2, <4>1, EmptySeq
      <4>3. 1 \in 1..Len(list) - 1 /\ 1 < i
        BY <1>1, <2>2, <2>5, <4>2
      <4>4. QED
        BY <1>1, <2>2, <2>5, <4>2, <4>3
    <3>4. QED
      BY <2>1, <3>2, <3>3
  <2>6. QED
    BY <1>1, <2>4, <2>5
<1>4. QED
  BY <1>2, <1>3

----------------------------------------------------------------------------
(* At first the lists are the system's.                                    *)
LEMMA InitEstablishes == Init => IInv
<1> SUFFICES ASSUME Init PROVE IInv
  OBVIOUS
<1>1. ASSUME NEW k \in Kind
      PROVE  created[k] \in Seq(Object) /\ WellLinked(created[k], k)
  <2>1. /\ created[k] = System[k] /\ System[k] \in Seq(SystemObject) /\ MaxOpen[k] \in Nat
        /\ Len(System[k]) \in Nat
    BY ZenohCleanupAssumption DEF Init
  <2>2. created[k] \in Seq(Object)
    BY <2>1, SeqMonotonic DEF Object
  <2>3. \A i, j \in 1..Len(created[k]) : created[k][i] = created[k][j] => i = j
    BY <2>1, ZenohCleanupAssumption DEF IsInjective
  <2>4. Len(System[k]) + 1..Len(created[k]) = {}
    BY <2>1
  <2>5. QED
    BY <2>1, <2>2, <2>3, <2>4 DEF WellLinked
<1>2. created \in [Kind -> Seq(Object)]
  <2>1. created \in [Kind -> Seq(SystemObject)]
    BY ZenohCleanupAssumption DEF Init
  <2>2. QED
    BY <1>1, <2>1
<1>3. TypeOK
  BY <1>2 DEF Init, TypeOK, Steps
<1>4. Walking
  BY DEF Init, Walking
<1>5. QED
  BY <1>1, <1>3, <1>4 DEF IInv

(* The step from one walk to the next is a step of the comms thread.       *)
LEMMA AfterIs ==
  ASSUME NEW k \in Kind
  PROVE  After(k) \in Steps /\ After(k) # k
  BY KindsAre DEF Steps

(* A session is opened, goes by itself in part, or is given up.            *)
LEMMA SessionKeeps ==
  ASSUME IInv, z_open \/ Drop \/ StartCleanup \/ DeletePool
  PROVE  IInv'
<1> TypeOK /\ \A k \in Kind : WellLinked(created[k], k)
  BY DEF IInv
<1>1. visited = FALSE
  BY NotAKind DEF IInv, TypeOK, Walking, z_open, Drop, StartCleanup, DeletePool
<1>2. UNCHANGED <<current, next, visited>>
  BY DEF z_open, Drop, StartCleanup, DeletePool
<1>3. Walking'
  BY <1>1, <1>2 DEF Walking
<1>4. pc' \in Steps
  BY KindsAre DEF z_open, Drop, StartCleanup, DeletePool, TypeOK, Steps
<1>5. ASSUME created' \in [Kind -> Seq(Object)], \A k \in Kind : WellLinked(created'[k], k)
      PROVE  IInv'
  BY <1>2, <1>3, <1>4, <1>5 DEF IInv, TypeOK
<1>6. CASE UNCHANGED created
  BY <1>5, <1>6 DEF TypeOK
<1>7. CASE z_open /\ Leftover = {}
  <2>1. PICK news \in [Kind -> UNION {NewLists(k) : k \in Kind}] :
          /\ \A k \in Kind : news[k] \in NewLists(k)
          /\ created' = [k \in Kind |-> created[k] \o news[k]]
    BY <1>7 DEF z_open
  <2>2. ASSUME NEW k \in Kind
        PROVE  WellLinked(created[k] \o news[k], k)
    <3>1. InPool(created[k]) = {}
      BY <1>7 DEF Leftover
    <3>2. QED
      BY <2>1, <3>1, OpenKeeps
  <2>3. \A k \in Kind : created[k] \o news[k] \in Seq(Object)
    BY <2>2 DEF WellLinked
  <2>4. created' \in [Kind -> Seq(Object)]
    BY <2>1, <2>3
  <2>5. \A k \in Kind : WellLinked(created'[k], k)
    BY <2>1, <2>2
  <2>6. QED
    BY <1>5, <2>4, <2>5
<1>8. CASE Drop
  <2>1. PICK k \in Kind : \E o \in InPool(created[k]) :
          created' = [created EXCEPT ![k] = Unlink(created[k], o)]
    BY <1>8 DEF Drop
  <2>2. PICK o \in InPool(created[k]) :
          created' = [created EXCEPT ![k] = Unlink(created[k], o)]
    BY <2>1
  <2>3. created[k] \in Seq(Object)
    BY DEF TypeOK
  <2>4. PICK i \in 1..Len(created[k]) : o = created[k][i]
    BY <2>2, <2>3 DEF InPool, Range
  <2>5. Unlink(created[k], o) = RemoveAt(created[k], i)
    BY <2>4, OnePlace
  <2>6. o \in Pool
    BY DEF InPool
  <2>7. WellLinked(Unlink(created[k], o), k)
    BY <2>4, <2>5, <2>6, UnlinkKeeps
  <2>8. Unlink(created[k], o) \in Seq(Object)
    BY <2>7 DEF WellLinked
  <2>9. created' \in [Kind -> Seq(Object)]
    BY <2>2, <2>8 DEF TypeOK
  <2>10. \A l \in Kind : WellLinked(created'[l], l)
    BY <2>2, <2>7 DEF TypeOK
  <2>11. QED
    BY <1>5, <2>9, <2>10
<1>9. QED
  BY <1>6, <1>7, <1>8 DEF z_open, StartCleanup, DeletePool

(* The walk of a list begins, or there is nothing to walk.                 *)
LEMMA EnterKeeps ==
  ASSUME IInv, NEW k \in Kind, EnterWalk(k) \/ SkipWalk(k)
  PROVE  IInv'
<1>1. CASE EnterWalk(k)
  <2>1. created[k] # <<>> /\ WellLinked(created[k], k)
    BY <1>1 DEF EnterWalk, IInv
  <2>2. AtPlace(created[k], 1, current', next')
    BY <1>1, <2>1, WalkStarts DEF EnterWalk
  <2>3. current' \in Object /\ next' \in Object
    BY <2>1, <2>2, OnTheList
  <2>4. pc' = k /\ visited' = TRUE /\ created' = created
    BY <1>1 DEF EnterWalk
  <2>5. TypeOK'
    BY <2>3, <2>4 DEF IInv, TypeOK, Steps
  <2>6. Walking'
    BY <2>2, <2>4 DEF Walking
  <2>7. QED
    BY <2>4, <2>5, <2>6 DEF IInv
<1>2. CASE SkipWalk(k)
  <2>1. TypeOK'
    BY <1>2, AfterIs DEF SkipWalk, IInv, TypeOK
  <2>2. visited' = FALSE
    BY <1>2 DEF SkipWalk, IInv, TypeOK
  <2>3. Walking'
    BY <2>2 DEF Walking
  <2>4. QED
    BY <1>2, <2>1, <2>3 DEF SkipWalk, IInv
<1>3. QED
  BY <1>1, <1>2

(* A turn of the loop.                                                     *)
LEMMA VisitKeeps ==
  ASSUME IInv, NEW k \in Kind, Visit(k)
  PROVE  IInv'
<1> DEFINE list == Deleted(k)
           goOn == list # <<>> /\ next # Head(list)
<1>1. PICK i \in Nat : AtPlace(created[k], i, current, next)
  BY DEF Visit, IInv, Walking
<1>2. WellLinked(created[k], k) /\ list = Left(created[k], current)
  BY DEF IInv, Deleted, Left
<1>3. StepOn(k, list, next, goOn)
  BY DEF Visit
<1> HIDE DEF list
<1>4. WellLinked(list, k)
  BY <1>1, <1>2, Turn
<1>5. goOn => \E m \in Nat : AtPlace(list, m, next, Successor(list, next))
  BY <1>1, <1>2, Turn
<1> HIDE DEF goOn
<1>6. created' = [created EXCEPT ![k] = list]
  BY <1>3 DEF StepOn
<1>7. created' \in [Kind -> Seq(Object)] /\ \A l \in Kind : WellLinked(created'[l], l)
  BY <1>4, <1>6 DEF IInv, TypeOK, WellLinked
<1>8. CASE goOn
  <2>1. PICK m \in Nat : AtPlace(list, m, next, Successor(list, next))
    BY <1>5, <1>8
  <2>2. current' = next /\ next' = Successor(list, next) /\ pc' = k /\ visited' = TRUE
    BY <1>3, <1>8 DEF StepOn
  <2>3. current' \in Object /\ next' \in Object
    BY <1>4, <2>1, <2>2, OnTheList
  <2>4. created'[k] = list
    BY <1>6 DEF IInv, TypeOK
  <2>5. Walking'
    BY <2>1, <2>2, <2>4 DEF Walking
  <2>6. TypeOK'
    BY <1>7, <2>2, <2>3 DEF TypeOK, Steps
  <2>7. QED
    BY <1>7, <2>5, <2>6 DEF IInv
<1>9. CASE ~goOn
  <2>1. current' = None /\ next' = None /\ pc' = After(k) /\ visited' = FALSE
    BY <1>3, <1>9 DEF StepOn
  <2>2. Walking'
    BY <2>1 DEF Walking
  <2>3. TypeOK'
    BY <1>7, <2>1, AfterIs DEF TypeOK
  <2>4. QED
    BY <1>7, <2>2, <2>3 DEF IInv
<1>10. QED
  BY <1>8, <1>9

(* Every step keeps the invariant.                                         *)
LEMMA NextKeeps == IInv /\ [Next]_vars => IInv'
<1>1. ASSUME IInv, Next PROVE IInv'
  BY <1>1, SessionKeeps, EnterKeeps, VisitKeeps DEF Next, zenoh_cleanup
<1>2. ASSUME IInv, UNCHANGED vars PROVE IInv'
  BY <1>2 DEF vars, IInv, TypeOK, Walking
<1>3. QED
  BY <1>1, <1>2

----------------------------------------------------------------------------
(* In every behaviour of the cleanup the inductive invariant holds.        *)
THEOREM InductiveInvariant == Spec => []IInv
BY InitEstablishes, NextKeeps, PTL DEF Spec

(* Lists hold control blocks, and the pointers of a walk are control       *)
(* blocks or not set.                                                      *)
THEOREM TypeCorrect == Spec => []TypeOK
<1>1. IInv => TypeOK
  BY DEF IInv
<1>2. QED
  BY <1>1, InductiveInvariant, PTL

(* However many objects of either owner are on a list, the walk never      *)
(* follows a control block that is no longer created.                      *)
THEOREM WalkSafe == Spec => []WalkOnCreated
<1>1. ASSUME IInv PROVE WalkOnCreated
  <2>1. SUFFICES ASSUME NEW k \in Kind, pc = k, visited
                 PROVE  {current, next} \subseteq Range(created[k])
    BY DEF WalkOnCreated
  <2>2. PICK i \in Nat : AtPlace(created[k], i, current, next)
    BY <1>1, <2>1 DEF IInv, Walking
  <2>3. QED
    BY <1>1, <2>2, OnTheList DEF IInv
<1>2. QED
  BY <1>1, InductiveInvariant, PTL

(* However many objects are on the lists, the system's stay, in order.     *)
THEOREM SystemIsKept == Spec => []SystemKept
<1>1. ASSUME IInv PROVE SystemKept
  <2>1. SUFFICES ASSUME NEW k \in Kind
                 PROVE  /\ IsPrefix(System[k], created[k])
                        /\ \A i \in Len(System[k]) + 1..Len(created[k]) : created[k][i] \in Pool
    BY DEF SystemKept
  <2>2. /\ System[k] \in Seq(Object) /\ created[k] \in Seq(Object)
        /\ Len(System[k]) \in Nat /\ Len(System[k]) <= Len(created[k])
        /\ \A i \in 1..Len(System[k]) : created[k][i] = System[k][i]
        /\ \A i \in Len(System[k]) + 1..Len(created[k]) : created[k][i] \in Pool
    <3>1. System[k] \in Seq(SystemObject)
      BY ZenohCleanupAssumption
    <3>2. System[k] \in Seq(Object)
      BY <3>1, SeqMonotonic DEF Object
    <3>3. WellLinked(created[k], k)
      BY <1>1 DEF IInv
    <3>4. QED
      BY <3>2, <3>3 DEF WellLinked
  <2> DEFINE s == SubSeq(System[k], 1, Len(System[k]))
             t == SubSeq(created[k], 1, Len(System[k]))
  <2>3. s \in Seq(Object) /\ Len(s) = Len(System[k]) /\ \A i \in 1..Len(s) : s[i] = System[k][i]
    BY <2>2
  <2>4. t \in Seq(Object) /\ Len(t) = Len(System[k]) /\ \A i \in 1..Len(t) : t[i] = created[k][i]
    BY <2>2
  <2>5. s = t
    <3> HIDE DEF s, t
    <3>1. \A i \in 1..Len(s) : s[i] = t[i]
      BY <2>2, <2>3, <2>4
    <3>2. QED
      BY <2>3, <2>4, <3>1, SeqEqual
  <2>6. QED
    BY <2>2, <2>5 DEF IsPrefix
<1>2. QED
  BY <1>1, InductiveInvariant, PTL

----------------------------------------------------------------------------
(* The pool                                                                *)

(* No list begins with a block of the pool and has room for another.       *)
Anchored == \A k \in Kind : System[k] # <<>> \/ MaxOpen[k] <= 1

(* The kinds whose walk has ended at a step of the comms thread.           *)
WalkedBy(step) ==
  CASE step = "mutex"                -> {"thread"}
    [] step = "semaphore"            -> {"thread", "mutex"}
    [] step = "udp"                  -> {"thread", "mutex", "semaphore"}
    [] step \in {"walked", "closed"} -> Kind
    [] OTHER                         -> {}

Emptied == \A k \in WalkedBy(pc) : InPool(created[k]) = {}

(* The next session does not start over blocks that are still linked.      *)
NotLost == pc # "lost"

(* The walks end one after the other.                                      *)
LEMMA WalkedByIs ==
  /\ \A k \in Kind : WalkedBy(k) \subseteq Kind \ {k} /\ WalkedBy(After(k)) = WalkedBy(k) \union {k}
  /\ WalkedBy("walked") = Kind /\ WalkedBy("closed") = Kind
  /\ WalkedBy("open") = {} /\ WalkedBy("lost") = {} /\ WalkedBy("thread") = {}
  BY KindsAre DEF WalkedBy

(* A walk that ends leaves its list without a block of the pool, and the   *)
(* lists of the walks before it as they are.                               *)
LEMMA EmptiedKept ==
  ASSUME IInv, Anchored, Emptied, [Next]_vars
  PROVE  Emptied'
<1>1. CASE UNCHANGED vars
  BY <1>1 DEF vars, Emptied
<1>2. CASE z_open
  BY <1>2, WalkedByIs DEF z_open, Emptied
<1>3. CASE Drop
  BY <1>3, WalkedByIs DEF Drop, Emptied
<1>4. CASE StartCleanup
  BY <1>4, WalkedByIs, KindsAre DEF StartCleanup, Emptied
<1>5. CASE DeletePool
  BY <1>5, WalkedByIs DEF DeletePool, Emptied
<1>6. ASSUME NEW k \in Kind, EnterWalk(k) PROVE Emptied'
  BY <1>6 DEF EnterWalk, Emptied
<1>7. ASSUME NEW k \in Kind, SkipWalk(k) PROVE Emptied'
  <2>1. created' = created /\ pc = k /\ pc' = After(k) /\ created[k] = <<>>
    BY <1>7 DEF SkipWalk
  <2>2. InPool(created[k]) = {}
    BY <2>1 DEF InPool, Range
  <2>3. QED
    BY <2>1, <2>2, WalkedByIs DEF Emptied
<1>8. ASSUME NEW k \in Kind, Visit(k) PROVE Emptied'
  <2> DEFINE list == Deleted(k)
             goOn == list # <<>> /\ next # Head(list)
  <2>1. PICK i \in Nat : AtPlace(created[k], i, current, next)
    BY <1>8 DEF Visit, IInv, Walking
  <2>2. WellLinked(created[k], k) /\ list = Left(created[k], current)
    BY DEF IInv, Deleted, Left
  <2>3. StepOn(k, list, next, goOn) /\ pc = k
    BY <1>8 DEF Visit
  <2> HIDE DEF list
  <2>4. ~goOn => InPool(list) = {}
    BY <2>1, <2>2, Turn DEF Anchored
  <2> HIDE DEF goOn
  <2>5. created' = [created EXCEPT ![k] = list]
    BY <2>3 DEF StepOn
  <2>6. \A l \in Kind : created'[l] = IF l = k THEN list ELSE created[l]
    BY <2>5 DEF IInv, TypeOK
  <2>7. \A l \in WalkedBy(k) : InPool(created'[l]) = {}
    BY <2>3, <2>6, WalkedByIs DEF Emptied
  <2>8. CASE goOn
    <3>1. pc' = k
      BY <2>3, <2>8 DEF StepOn
    <3>2. QED
      BY <2>7, <3>1 DEF Emptied, InPool
  <2>9. CASE ~goOn
    <3>1. pc' = After(k)
      BY <2>3, <2>9 DEF StepOn
    <3>2. InPool(created'[k]) = {}
      BY <2>4, <2>6, <2>9
    <3>3. QED
      BY <2>7, <3>1, <3>2, WalkedByIs DEF Emptied, InPool
  <2>10. QED
    BY <2>8, <2>9
<1>9. QED
  BY <1>1, <1>2, <1>3, <1>4, <1>5, <1>6, <1>7, <1>8 DEF Next, zenoh_cleanup

(* Where every list begins with an object of the system, or one session    *)
(* puts no more than one object on it, no block of the pool is on any list *)
(* when the pool is deleted, and the next session starts on a pool that    *)
(* nothing refers to.                                                      *)
THEOREM PoolIsEmptied ==
  ASSUME Anchored
  PROVE  Spec => [](PoolEmptied /\ NotLost)
<1>1. Init => Emptied /\ NotLost
  <2>1. ASSUME Init, NEW k \in Kind PROVE InPool(created[k]) = {}
    <3>1. created[k] \in Seq(SystemObject)
      BY <2>1, ZenohCleanupAssumption DEF Init
    <3>2. Range(created[k]) \subseteq SystemObject
      BY <3>1 DEF Range
    <3>3. QED
      BY <3>2, ZenohCleanupAssumption DEF InPool
  <2>2. QED
    BY <2>1, WalkedByIs DEF Init, Emptied, NotLost
<1>2. IInv /\ Emptied /\ [Next]_vars => Emptied'
  BY EmptiedKept
<1>3. IInv /\ Emptied /\ NotLost /\ [Next]_vars => NotLost'
  <2> SUFFICES ASSUME IInv, Emptied, NotLost, [Next]_vars PROVE NotLost'
    OBVIOUS
  <2>1. CASE z_open
    <3>1. Leftover = {}
      BY <2>1, WalkedByIs DEF z_open, Emptied, Leftover
    <3>2. QED
      BY <2>1, <3>1 DEF z_open, NotLost
  <2>2. CASE \E k \in Kind : EnterWalk(k) \/ SkipWalk(k) \/ Visit(k)
    <3>1. \A k \in Kind : After(k) # "lost" /\ k # "lost"
      BY KindsAre
    <3>2. QED
      BY <2>2, <3>1 DEF EnterWalk, SkipWalk, Visit, StepOn, NotLost
  <2>3. CASE Drop \/ StartCleanup \/ DeletePool
    BY <2>3, KindsAre DEF Drop, StartCleanup, DeletePool, NotLost
  <2>4. QED
    BY <2>1, <2>2, <2>3 DEF Next, zenoh_cleanup, vars, NotLost
<1>4. Emptied => PoolEmptied
  BY WalkedByIs DEF Emptied, PoolEmptied, Leftover
<1>5. QED
  BY <1>1, <1>2, <1>3, <1>4, InductiveInvariant, PTL DEF Spec
=============================================================================
