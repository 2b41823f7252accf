----------------------------- MODULE LogRingProofs -----------------------------
(***************************************************************************)
(* What holds of LogRing for any number of threads and any sizes.          *)
(*                                                                         *)
(* Offsets wrap, so their order says nothing; the proof tells the ring by  *)
(* places, offsets that never wrap.  The invariant says that there are     *)
(* places for head, tail and every offset a call has read that agree with  *)
(* the variables (View), with the boundaries of the entries between tail   *)
(* and head: each stretch from one boundary to the next is the reservation *)
(* of one call or one published entry.                                     *)
(*                                                                         *)
(* What a call has read may be stale, and no exchange tells a tail or a    *)
(* head from the same offset a whole wrap later.  What keeps them apart is *)
(* a count: from one rest of the ring to the next only so many entries can *)
(* be reserved (Left), so head stays within a window of its place at the   *)
(* last rest (Budget), and no stale offset is a buffer old.  That asks for *)
(* a ring with room for them (Roomy), which every theorem but TypeCorrect  *)
(* states as its hypothesis: a thread preempted in the middle of a call    *)
(* for longer than a whole lap of the others has no protection.            *)
(*                                                                         *)
(* For the dump (Dumping), a state in which no length is in between has    *)
(* each length leading from a boundary to the next, so current_offset is   *)
(* always a boundary.                                                      *)
(*                                                                         *)
(* The lengths in that state lead all the way from tail to head            *)
(* (ChainLeads), by induction on the distance left. That no call fails is  *)
(* an account (Charged): a call counts an error only when the bytes of the *)
(* length it reads were reserved again, and then another call had to       *)
(* reserve an entry since.                                                 *)
(***************************************************************************)
EXTENDS LogRing, FiniteSetTheorems, WellFoundedInduction, TLAPS

----------------------------------------------------------------------------
(* Remainders                                                              *)

(* The quotient and the remainder the arithmetic of offsets is made of.    *)
LEMMA Division ==
  ASSUME NEW n \in Int, NEW N \in Nat \ {0}
  PROVE  n \div N \in Int /\ n % N \in 0..N - 1 /\ n = N * (n \div N) + (n % N)
OBVIOUS

(* A remainder is the only one. *)
LEMMA OneRemainder ==
  ASSUME NEW N \in Nat \ {0}, NEW j \in Int, NEW k \in Int,
         NEW r \in 0..N - 1, NEW s \in 0..N - 1, N * j + r = N * k + s
  PROVE  r = s /\ j = k
<1>1. N * (j - k) = s - r
  BY SMT
<1>2. ASSUME j > k PROVE FALSE
  <2>1. N * (j - k) >= N
    BY <1>2, SMT
  <2>2. QED BY <1>1, <2>1, SMT
<1>3. ASSUME j < k PROVE FALSE
  <2>1. N * (j - k) <= -N
    BY <1>3, SMT
  <2>2. QED BY <1>1, <2>1, SMT
<1>4. j = k
  BY <1>2, <1>3, SMT
<1>5. QED BY <1>1, <1>4, SMT

(* What a number leaves when divided is told by any way to write it.       *)
LEMMA Remainder ==
  ASSUME NEW N \in Nat \ {0}, NEW k \in Int, NEW r \in 0..N - 1, NEW n \in Int,
         n = N * k + r
  PROVE  n % N = r
BY Division, OneRemainder

(* Adding before or after taking the remainder is the same: NEXT_OFFSET on *)
(* uint32_t.                                                               *)
LEMMA Shift ==
  ASSUME NEW N \in Nat \ {0}, NEW n \in Int, NEW i \in Int
  PROVE  ((n % N) + i) % N = (n + i) % N
<1> DEFINE q == n \div N
           r == n % N
           p == (n + i) \div N
           s == (n + i) % N
<1>1. q \in Int /\ r \in 0..N - 1 /\ n = N * q + r
  BY Division
<1>2. p \in Int /\ s \in 0..N - 1 /\ n + i = N * p + s
  BY Division
<1> HIDE DEF q, r, p, s
<1>3. r + i = N * (p - q) + s
  BY <1>1, <1>2, SMT
<1>4. (r + i) % N = s
  <2> DEFINE x == r + i
             z == p - q
  <2>1. x \in Int /\ z \in Int /\ x = N * z + s
    BY <1>1, <1>2, <1>3, SMT
  <2> HIDE DEF x, z
  <2>2. x % N = s
    BY <1>2, <2>1, Remainder
  <2>3. QED
    BY <2>2 DEF x
<1>5. QED
  BY <1>4 DEF r, s

(* Two numbers less than N apart with the same remainder are the same.     *)
LEMMA Apart ==
  ASSUME NEW N \in Nat \ {0}, NEW a \in Int, NEW b \in Int,
         a % N = b % N, a - b < N, b - a < N
  PROVE  a = b
<1> DEFINE q == a \div N
           r == a % N
           p == b \div N
<1>1. q \in Int /\ r \in 0..N - 1 /\ a = N * q + r
  BY Division
<1>2. p \in Int /\ b = N * p + r
  BY Division
<1> HIDE DEF q, r, p
<1>3. ASSUME q > p PROVE FALSE
  <2>1. a - b = N * (q - p)
    BY <1>1, <1>2, SMT
  <2>2. N * (q - p) >= N
    BY <1>1, <1>2, <1>3, SMT
  <2>3. QED BY <2>1, <2>2, SMT
<1>4. ASSUME q < p PROVE FALSE
  <2>1. b - a = N * (p - q)
    BY <1>1, <1>2, SMT
  <2>2. N * (p - q) >= N
    BY <1>1, <1>2, <1>4, SMT
  <2>3. QED BY <2>1, <2>2, SMT
<1>5. q = p
  BY <1>1, <1>2, <1>3, <1>4, SMT
<1>6. QED
  BY <1>1, <1>2, <1>5, SMT

(* The remainder of a difference of remainders is the difference itself.   *)
LEMMA Difference ==
  ASSUME NEW N \in Nat \ {0}, NEW a \in Int, NEW b \in Int, a - b \in 0..N - 1
  PROVE  ((a % N) - (b % N)) % N = a - b
<1> DEFINE q == a \div N
           r == a % N
           p == b \div N
           s == b % N
<1>1. q \in Int /\ r \in 0..N - 1 /\ a = N * q + r
  BY Division
<1>2. p \in Int /\ s \in 0..N - 1 /\ b = N * p + s
  BY Division
<1> HIDE DEF q, r, p, s
<1>3. r - s = N * (p - q) + (a - b)
  BY <1>1, <1>2, SMT
<1>4. (r - s) % N = a - b
  <2> DEFINE x == r - s
             z == p - q
             y == a - b
  <2>1. x \in Int /\ z \in Int /\ y \in 0..N - 1 /\ x = N * z + y
    BY <1>1, <1>2, <1>3, SMT
  <2> HIDE DEF x, z, y
  <2>2. x % N = y
    BY <2>1, Remainder
  <2>3. QED
    BY <2>2 DEF x, y
<1>5. QED
  BY <1>4 DEF r, s

(* Taking the remainder of 2^32 first does not change that of the buffer   *)
(* size, which divides it.                                                 *)
LEMMA Coarser ==
  ASSUME NEW N \in Nat \ {0}, NEW K \in Nat \ {0}, N % K = 0, NEW n \in Int, NEW i \in Int
  PROVE  ((n % N) + i) % K = (n + i) % K
<1> DEFINE q == n \div N
           r == n % N
           m == N \div K
           p == (r + i) \div K
           s == (r + i) % K
<1>1. q \in Int /\ r \in 0..N - 1 /\ n = N * q + r
  BY Division
<1>2. m \in Int /\ N = K * m
  BY Division
<1>3. p \in Int /\ s \in 0..K - 1 /\ r + i = K * p + s
  <2>1. r + i \in Int
    BY <1>1, SMT
  <2>2. QED
    BY <2>1, Division
<1> HIDE DEF q, r, p, s, m
<1>4. n + i = (K * m) * q + K * p + s
  BY <1>1, <1>2, <1>3, SMT
<1>5. (K * m) * q = K * (m * q)
  BY <1>1, <1>2, SMT
<1>6. K * (m * q) + K * p = K * (m * q + p) /\ m * q + p \in Int
  BY <1>1, <1>2, <1>3, SMT
<1>7. n + i = K * (m * q + p) + s
  BY <1>1, <1>2, <1>3, <1>4, <1>5, <1>6, SMT
<1>8. (n + i) % K = s
  <2> DEFINE x == n + i
             z == m * q + p
  <2>1. x \in Int /\ z \in Int /\ x = K * z + s
    BY <1>6, <1>7, SMT
  <2> HIDE DEF x, z
  <2>2. x % K = s
    BY <1>3, <2>1, Remainder
  <2>3. QED
    BY <2>2 DEF x
<1>9. QED
  BY <1>8 DEF r, s

----------------------------------------------------------------------------
(* Types                                                                   *)

(* What the assumption on the constants says, in the form the proofs use.  *)
LEMMA Sizes ==
  /\ Size \in Nat \ {0} /\ OffMod \in Nat \ {0} /\ MaxEntry \in Nat \ {0} /\ FramHalf \in Nat
  /\ Size < OffMod /\ OffMod % Size = 0 /\ 3 * MaxEntry < Size /\ 3 <= MaxEntry
  /\ MaxEntry <= FramHalf /\ Size + Size <= OffMod
<1>1. /\ Size \in Nat /\ OffMod \in Nat /\ MaxEntry \in Nat /\ FramHalf \in Nat
      /\ Size < OffMod /\ OffMod % Size = 0 /\ 3 * MaxEntry < Size /\ 3 <= MaxEntry
      /\ MaxEntry <= FramHalf
  BY LogRingAssumption DEF Header
<1>2. Size \in Nat \ {0} /\ OffMod \in Nat \ {0}
  BY <1>1
<1>3. Size + Size <= OffMod
  <2>1. OffMod \div Size \in Int /\ OffMod = Size * (OffMod \div Size) + 0
    BY <1>1, <1>2, Division
  <2> DEFINE k == OffMod \div Size
  <2> HIDE DEF k
  <2>2. k \in Int /\ OffMod = Size * k
    BY <2>1, <1>1 DEF k
  <2>3. k > 1
    <3>1. ASSUME k <= 1 PROVE FALSE
      <4>1. Size * k <= Size
        BY <1>2, <2>2, <3>1, SMT
      <4>2. QED
        BY <1>1, <2>2, <4>1
    <3>2. QED
      BY <2>2, <3>1
  <2>4. Size * k >= Size + Size
    BY <1>2, <2>2, <2>3, SMT
  <2>5. QED
    BY <1>1, <2>2, <2>4
<1>4. QED
  BY <1>1, <1>2, <1>3

(* The arithmetic of offsets stays among offsets and cells.                *)
LEMMA Ranges ==
  /\ \A a \in Int, b \in Int : Plus(a, b) \in Offset /\ Minus(a, b) \in Offset
  /\ \A a \in Int : Cell(a) \in 0..Size - 1
<1>1. ASSUME NEW a \in Int, NEW b \in Int
      PROVE  Plus(a, b) \in Offset /\ Minus(a, b) \in Offset
  <2>1. a + b \in Int /\ a - b \in Int
    OBVIOUS
  <2>2. QED
    BY <2>1, Sizes, Division DEF Plus, Minus, Offset
<1>2. ASSUME NEW a \in Int PROVE Cell(a) \in 0..Size - 1
  BY Sizes, Division DEF Cell
<1>3. QED
  BY <1>1, <1>2

(* Offsets are natural numbers, and zero is one.                           *)
LEMMA Offsets == 0 \in Offset /\ \A o \in Offset : o \in Nat /\ o \in Int /\ o + 1 \in Int
BY Sizes DEF Offset

(* The types of entries and the longest length are bytes.                  *)
LEMMA Bytes ==
  /\ LOG_INVALID \in Byte /\ LOG_EMPTY \in Byte /\ LOG_COMMITTED \in Byte
  /\ Text \in Byte /\ MaxEntry \in Byte /\ 0 \in Byte
  /\ \A b \in Byte : b \in Nat /\ b \in Int
BY Sizes DEF LOG_INVALID, LOG_EMPTY, LOG_COMMITTED, Text, Byte

(* Reading a length at an offset (LENGTH_FROM_OFFSET) gives a byte.        *)
LEMMA LengthTyped ==
  ASSUME TypeOK, NEW o \in Offset
  PROVE  LengthAt(o) \in Byte /\ NextOffset(o) \in Offset /\ mem[Cell(o)] \in Byte
<1>1. o \in Int /\ o + 1 \in Int
  BY Offsets
<1>2. Cell(o) \in 0..Size - 1 /\ Cell(o + 1) \in 0..Size - 1
  BY <1>1, Ranges
<1>3. LengthAt(o) \in Byte /\ mem[Cell(o)] \in Byte
  BY <1>2 DEF LengthAt, TypeOK
<1>4. QED
  BY <1>1, <1>3, Ranges, Bytes DEF NextOffset

(* The buffer with one byte stored is still a buffer.                      *)
LEMMA StoredTyped ==
  ASSUME TypeOK, NEW o \in Int, NEW b \in Byte
  PROVE  Stored(o, b) \in [0..Size - 1 -> Byte]
BY DEF TypeOK, Stored

(* A call, as TypeOK has it.                                               *)
Call == [pc : Steps, off : Offset, old : Offset, length : Byte, errors : 0..3,
         msg : 1..MaxEntry - Header, second : BOOLEAN]

(* The locals of a call are typed.                                         *)
LEMMA CallTyped ==
  ASSUME TypeOK, NEW t \in Process
  PROVE  /\ writer[t].off \in Offset /\ writer[t].old \in Offset
         /\ writer[t].length \in Byte /\ writer[t].errors \in 0..3
         /\ writer[t].msg \in 1..MaxEntry - Header /\ writer[t].second \in BOOLEAN
         /\ writer[t].pc \in Steps
         /\ writer[t].off \in Nat /\ writer[t].old \in Nat /\ writer[t].length \in Nat
         /\ EntryLength(t) \in Byte /\ EntryLength(t) \in Header + 1..MaxEntry
<1>1. writer[t] \in Call
  BY DEF TypeOK, Call
<1>2. /\ writer[t].off \in Offset /\ writer[t].old \in Offset
      /\ writer[t].length \in Byte /\ writer[t].errors \in 0..3
      /\ writer[t].msg \in 1..MaxEntry - Header /\ writer[t].second \in BOOLEAN
      /\ writer[t].pc \in Steps
  BY <1>1 DEF Call
<1>3. EntryLength(t) \in Byte /\ EntryLength(t) \in Header + 1..MaxEntry
  BY <1>2, Sizes DEF EntryLength, Byte, Header
<1>4. QED
  BY <1>2, <1>3, Offsets, Bytes

(* The steps a call may be at, and the call that has not begun.            *)
LEMMA CallsSteps ==
  /\ "idle" \in Steps /\ "failed" \in Steps /\ "commit" \in Steps
  /\ Acquiring \subseteq Steps /\ Filling \subseteq Steps /\ Shrunk \subseteq Steps
  /\ Idle \in Call
BY Sizes, Offsets DEF Steps, Acquiring, Filling, Shrunk, Idle, Call, Byte, Header

(* The types of what a call may change, and of what it leaves alone.       *)
LEMMA TypeMoves ==
  ASSUME TypeOK, NEW t \in Process, NEW w \in Call,
         writer' = [writer EXCEPT ![t] = w],
         mem' \in [0..Size - 1 -> Byte], head' \in Offset, tail' \in Offset,
         published' \subseteq Published, stomped' \in BOOLEAN,
         UNCHANGED <<fatal, dump, stored, clean, calls, overlaps>>
  PROVE  TypeOK'
<1>1. writer' \in [Process -> Call]
  BY DEF TypeOK, Call
<1>2. QED
  BY <1>1 DEF TypeOK, Call

(* Every step of log_write inside the ring preserves the types.            *)
LEMMA TypeCall ==
  ASSUME TypeOK, NEW t \in Process, log_vwrite(t)
  PROVE  TypeOK'
<1> DEFINE w == writer[t]
<1>1. w \in Call
  BY DEF TypeOK, Call
<1>2. /\ mem \in [0..Size - 1 -> Byte] /\ head \in Offset /\ tail \in Offset
      /\ published \subseteq Published /\ stomped \in BOOLEAN /\ head \in Int /\ tail \in Int
      /\ writer \in [Process -> Call]
  <2>1. head \in Int /\ tail \in Int
    BY Offsets DEF TypeOK
  <2>2. writer \in [Process -> Call]
    BY DEF TypeOK, Call
  <2>3. QED
    BY <2>1, <2>2 DEF TypeOK
<1>3. CASE LoadHead(t)
  <2>1. [w EXCEPT !.pc = "space", !.off = head] \in Call
    BY <1>1, <1>2, CallsSteps DEF Call, Acquiring
  <2>2. writer' = [writer EXCEPT ![t] = [w EXCEPT !.pc = "space", !.off = head]]
    BY <1>2, <1>3 DEF LoadHead
  <2>3. QED
    BY <1>2, <1>3, <2>1, <2>2, TypeMoves DEF LoadHead, bookkeeping, ghosts
<1>4. CASE CheckSpace(t)
  <2>1. PICK p \in {"tail", "cas_head"} : writer' = [writer EXCEPT ![t] = [w EXCEPT !.pc = p]]
    BY <1>4, <1>2 DEF CheckSpace, Goto
  <2>2. [w EXCEPT !.pc = p] \in Call
    BY <1>1, CallsSteps DEF Call, Acquiring
  <2>3. QED
    BY <1>2, <1>4, <2>1, <2>2, TypeMoves DEF CheckSpace, bookkeeping, ghosts
<1>5. CASE LoadTail(t)
  <2>1. [w EXCEPT !.pc = "length", !.old = tail] \in Call
    BY <1>1, <1>2, CallsSteps DEF Call, Acquiring
  <2>2. writer' = [writer EXCEPT ![t] = [w EXCEPT !.pc = "length", !.old = tail]]
    BY <1>2, <1>5 DEF LoadTail
  <2>3. QED
    BY <1>2, <1>5, <2>1, <2>2, TypeMoves DEF LoadTail, bookkeeping, ghosts
<1>6. CASE LoadLength(t)
  <2> DEFINE len == LengthAt(w.old)
             errors == w.errors + IF len \in Header..MaxEntry THEN 0 ELSE 1
             v == IF errors >= 3
                  THEN [w EXCEPT !.pc = "failed", !.old = 0, !.errors = 3]
                  ELSE [w EXCEPT !.pc = "cas_tail", !.length = len, !.errors = errors]
  <2>1. writer' = [writer EXCEPT ![t] = v]
    BY <1>6 DEF LoadLength
  <2>2. len \in Byte /\ w.errors \in 0..3
    BY LengthTyped, CallTyped
  <2>3. v \in Call
    <3>1. errors >= 3 \/ errors \in 0..3
      BY <2>2
    <3> HIDE DEF len, errors
    <3>2. QED
      <4>1. "failed" \in Steps /\ "cas_tail" \in Steps /\ 0 \in Offset /\ 3 \in 0..3
        BY CallsSteps, Offsets DEF Acquiring
      <4>2. [w EXCEPT !.pc = "failed", !.old = 0, !.errors = 3] \in Call
        BY <1>1, <4>1 DEF Call
      <4>3. errors \in 0..3 =>
              [w EXCEPT !.pc = "cas_tail", !.length = len, !.errors = errors] \in Call
        BY <1>1, <2>2, <4>1 DEF Call
      <4>4. QED
        BY <3>1, <4>2, <4>3
  <2> HIDE DEF v
  <2>4. QED
    BY <1>2, <1>6, <2>1, <2>3, TypeMoves DEF LoadLength, bookkeeping, ghosts
<1>7. CASE MoveTail(t)
  <2>1. CASE writer' = [writer EXCEPT ![t].pc = "mark", ![t].length = 0]
             /\ tail' = Plus(tail, w.length) /\ published' \subseteq published
    <3>1. [w EXCEPT !.pc = "mark", !.length = 0] \in Call
      BY <1>1, CallsSteps, Bytes DEF Call, Acquiring
    <3>2. /\ writer' = [writer EXCEPT ![t] = [w EXCEPT !.pc = "mark", !.length = 0]]
          /\ tail' \in Offset /\ published' \subseteq Published
      <4>1. Plus(tail, w.length) \in Offset
        BY <1>2, CallTyped, Bytes, Ranges
      <4>2. QED
        BY <1>2, <2>1, <4>1
    <3>3. QED
      BY <1>2, <1>7, <3>1, <3>2, TypeMoves DEF MoveTail, bookkeeping
  <2>2. CASE writer' = [writer EXCEPT ![t].pc = "space", ![t].old = 0, ![t].length = 0]
             /\ UNCHANGED <<tail, published>>
    <3>1. [w EXCEPT !.pc = "space", !.old = 0, !.length = 0] \in Call
      BY <1>1, CallsSteps, Bytes, Offsets DEF Call, Acquiring
    <3>2. /\ writer' = [writer EXCEPT ![t] = [w EXCEPT !.pc = "space", !.old = 0, !.length = 0]]
          /\ tail' = tail /\ published' = published
      BY <1>2, <2>2
    <3>3. QED
      BY <1>2, <1>7, <3>1, <3>2, TypeMoves DEF MoveTail, bookkeeping
  <2>3. QED
    BY <1>7, <2>1, <2>2 DEF MoveTail
<1>8. CASE MarkInvalid(t)
  <2>1. [w EXCEPT !.pc = "space", !.old = 0] \in Call
    BY <1>1, CallsSteps, Offsets DEF Call, Acquiring
  <2>2. /\ writer' = [writer EXCEPT ![t] = [w EXCEPT !.pc = "space", !.old = 0]]
        /\ stomped' \in BOOLEAN
    BY <1>2, <1>8 DEF MarkInvalid
  <2>3. mem' \in [0..Size - 1 -> Byte]
    BY <1>8, StoredTyped, CallTyped, Bytes, Offsets DEF MarkInvalid
  <2>4. QED
    BY <1>2, <1>8, <2>1, <2>2, <2>3, TypeMoves DEF MarkInvalid, bookkeeping
<1>9. CASE MoveHead(t)
  <2>1. CASE writer' = [writer EXCEPT ![t].pc = "type", ![t].errors = 0]
             /\ head' = Plus(head, MaxEntry)
    <3>1. [w EXCEPT !.pc = "type", !.errors = 0] \in Call
      <4>1. "type" \in Steps /\ 0 \in 0..3
        BY CallsSteps DEF Filling
      <4>2. QED
        BY <1>1, <4>1 DEF Call
    <3>2. /\ writer' = [writer EXCEPT ![t] = [w EXCEPT !.pc = "type", !.errors = 0]]
          /\ head' \in Offset
      <4>1. Plus(head, MaxEntry) \in Offset
        BY <1>2, Bytes, Ranges
      <4>2. QED
        BY <1>2, <2>1, <4>1
    <3>3. QED
      BY <1>2, <1>9, <3>1, <3>2, TypeMoves DEF MoveHead, bookkeeping, ghosts
  <2>2. CASE Goto(t, "load") /\ UNCHANGED head
    <3>1. [w EXCEPT !.pc = "load"] \in Call
      BY <1>1, CallsSteps DEF Call, Acquiring
    <3>2. /\ writer' = [writer EXCEPT ![t] = [w EXCEPT !.pc = "load"]]
          /\ head' = head
      BY <1>2, <2>2 DEF Goto
    <3>3. QED
      BY <1>2, <1>9, <3>1, <3>2, TypeMoves DEF MoveHead, bookkeeping, ghosts
  <2>3. QED
    BY <1>9, <2>1, <2>2 DEF MoveHead
<1>10. CASE StoreInvalid(t)
  <2>1. [w EXCEPT !.pc = "len"] \in Call
    BY <1>1, CallsSteps DEF Call, Filling
  <2>2. writer' = [writer EXCEPT ![t] = [w EXCEPT !.pc = "len"]]
    BY <1>2, <1>10 DEF StoreInvalid, Goto
  <2>3. mem' \in [0..Size - 1 -> Byte]
    BY <1>10, StoredTyped, CallTyped, Bytes, Offsets DEF StoreInvalid
  <2>4. QED
    BY <1>2, <1>10, <2>1, <2>2, <2>3, TypeMoves DEF StoreInvalid, bookkeeping, ghosts
<1>11. CASE StoreLength(t)
  <2>1. PICK p \in {"empty", "text"} : writer' = [writer EXCEPT ![t] = [w EXCEPT !.pc = p]]
    BY <1>2, <1>11 DEF StoreLength, Goto
  <2>2. [w EXCEPT !.pc = p] \in Call
    BY <1>1, CallsSteps DEF Call, Filling
  <2>3. mem' \in [0..Size - 1 -> Byte]
    BY <1>11, StoredTyped, CallTyped, Bytes, Offsets DEF StoreLength
  <2>4. QED
    BY <1>2, <1>11, <2>1, <2>2, <2>3, TypeMoves DEF StoreLength, bookkeeping, ghosts
<1>12. CASE PublishPadding(t)
  <2>1. [w EXCEPT !.pc = "load", !.off = 0, !.second = TRUE] \in Call
    BY <1>1, CallsSteps, Offsets DEF Call, Acquiring
  <2>2. writer' = [writer EXCEPT ![t] = [w EXCEPT !.pc = "load", !.off = 0, !.second = TRUE]]
    BY <1>2, <1>12 DEF PublishPadding
  <2>3. mem' \in [0..Size - 1 -> Byte]
    BY <1>12, StoredTyped, CallTyped, Bytes, Offsets DEF PublishPadding
  <2>4. published' \subseteq Published
    BY <1>2, <1>12, CallTyped, Sizes DEF PublishPadding, Published, Byte
  <2>5. QED
    BY <1>2, <1>12, <2>1, <2>2, <2>3, <2>4, TypeMoves DEF PublishPadding, bookkeeping
<1>13. CASE StoreMessage(t)
  <2>1. PICK p \in {"shrink", "commit"} : writer' = [writer EXCEPT ![t] = [w EXCEPT !.pc = p]]
    BY <1>2, <1>13 DEF StoreMessage, Goto
  <2>2. [w EXCEPT !.pc = p] \in Call
    BY <1>1, CallsSteps DEF Call, Filling
  <2>3. mem' \in [0..Size - 1 -> Byte]
    BY <1>2, <1>13, Bytes DEF StoreMessage
  <2>4. QED
    BY <1>2, <1>13, <2>1, <2>2, <2>3, TypeMoves DEF StoreMessage, bookkeeping, ghosts
<1>14. CASE Shrink(t)
  <2>1. PICK p \in {"store_len", "commit"} : writer' = [writer EXCEPT ![t] = [w EXCEPT !.pc = p]]
    BY <1>2, <1>14 DEF Shrink, Goto
  <2>2. [w EXCEPT !.pc = p] \in Call
    BY <1>1, CallsSteps DEF Call, Shrunk
  <2>3. head' \in Offset
    <3>1. w.off \in Int /\ EntryLength(t) \in Int
      BY CallTyped, Bytes, Offsets
    <3>2. Plus(w.off, EntryLength(t)) \in Offset
      BY <3>1, Ranges
    <3>3. QED
      BY <1>2, <1>14, <3>2 DEF Shrink, Goto
  <2>4. QED
    BY <1>2, <1>14, <2>1, <2>2, <2>3, TypeMoves DEF Shrink, bookkeeping, ghosts
<1>15. CASE StoreShortLength(t)
  <2>1. [w EXCEPT !.pc = "commit_short"] \in Call
    BY <1>1, CallsSteps DEF Call, Shrunk
  <2>2. writer' = [writer EXCEPT ![t] = [w EXCEPT !.pc = "commit_short"]]
    BY <1>2, <1>15 DEF StoreShortLength, Goto
  <2>3. mem' \in [0..Size - 1 -> Byte]
    BY <1>15, StoredTyped, CallTyped, Offsets DEF StoreShortLength
  <2>4. QED
    BY <1>2, <1>15, <2>1, <2>2, <2>3, TypeMoves DEF StoreShortLength, bookkeeping, ghosts
<1>16. CASE Commit(t)
  <2>1. mem' \in [0..Size - 1 -> Byte]
    BY <1>16, StoredTyped, CallTyped, Bytes, Offsets DEF Commit
  <2>2. published' \subseteq Published
    BY <1>2, <1>16, CallTyped, Sizes DEF Commit, Published, Byte
  <2>3. QED
    BY <1>2, <1>16, <2>1, <2>2, CallsSteps, TypeMoves DEF Commit, bookkeeping
<1>17. QED
  BY <1>3, <1>4, <1>5, <1>6, <1>7, <1>8, <1>9, <1>10, <1>11, <1>12, <1>13, <1>14,
     <1>15, <1>16 DEF log_vwrite, log_acquire_space

(* So does the start of a call.                                            *)
LEMMA TypeWrite ==
  ASSUME TypeOK, NEW t \in Writers, log_write(t)
  PROVE  TypeOK'
<1>1. t \in Process
  BY DEF Process
<1>2. PICK n \in 1..MaxEntry - Header :
        writer' = [writer EXCEPT ![t] = [Idle EXCEPT !.pc = "load", !.msg = n]]
  BY DEF log_write
<1>3. [Idle EXCEPT !.pc = "load", !.msg = n] \in Call
  BY CallsSteps DEF Call, Acquiring
<1>4. writer' \in [Process -> Call]
  BY <1>1, <1>2, <1>3 DEF TypeOK, Call
<1>5. calls' \in 0..MaxCalls /\ overlaps' \in 0..MaxOverlaps
  <2>1. /\ calls \in 0..MaxCalls /\ overlaps \in 0..MaxOverlaps
        /\ MaxCalls \in Nat /\ MaxOverlaps \in Nat
    BY LogRingAssumption DEF TypeOK
  <2>2. calls < MaxCalls /\ calls' = calls + 1
    BY DEF log_write
  <2>3. overlaps' = 0 \/ (overlaps < MaxOverlaps /\ overlaps' = overlaps + 1)
    BY DEF log_write
  <2>4. QED
    BY <2>1, <2>2, <2>3
<1>6. QED
  BY <1>4, <1>5 DEF TypeOK, Call, log_write, ghosts

(* So does error_handler taking over.                                      *)
LEMMA TypeFatal ==
  ASSUME TypeOK, error_handler
  PROVE  TypeOK'
<1>1. writer' \in [Process -> Call]
  <2>1. Handler \in Process /\ writer[Handler] \in Call
    BY DEF Process, TypeOK, Call
  <2>2. [writer[Handler] EXCEPT !.pc = "load"] \in Call
    BY <2>1, CallsSteps DEF Call, Acquiring
  <2>3. writer' = [writer EXCEPT ![Handler] = [writer[Handler] EXCEPT !.pc = "load"]]
    BY <2>1 DEF error_handler, TypeOK
  <2>4. QED
    BY <2>1, <2>2, <2>3 DEF TypeOK, Call
<1>2. fatal' \in BOOLEAN /\ clean' \in BOOLEAN
  BY DEF error_handler
<1>3. QED
  BY <1>1, <1>2 DEF TypeOK, Call, error_handler, ghosts

(* The dump, as TypeOK has it.                                             *)
Dump == [pc : {"none", "skip", "write", "end", "done", "refused", "failed"},
         cur : Offset, addr : 0..FramHalf]

(* So does every step of log_dump_to_fram.                                 *)
LEMMA TypeDump ==
  ASSUME TypeOK, log_dump_to_fram
  PROVE  TypeOK'
<1>1. dump \in Dump /\ dump.cur \in Offset /\ dump.addr \in 0..FramHalf
  BY DEF TypeOK, Dump
<1>2. UNCHANGED ring
  BY DEF log_dump_to_fram, BeginDump, SkipOld, WriteLog, WriteEnd
<1>3. LengthAt(dump.cur) \in Byte /\ NextOffset(dump.cur) \in Offset
  BY <1>1, LengthTyped
<1>4. dump' \in Dump /\ stored' \in Seq(Entry)
  <2>1. CASE BeginDump
    BY <2>1, <1>1 DEF BeginDump, Dump, TypeOK
  <2>2. CASE SkipOld
    BY <2>2, <1>1, <1>3 DEF SkipOld, Dump, TypeOK
  <2>3. CASE WriteEnd
    BY <2>3, <1>1 DEF WriteEnd, META_write_log, Dump, TypeOK
  <2>4. CASE WriteLog
    <3>1. dump' \in Dump
      <4>1. \A pc \in {"end", "refused", "failed"} : [dump EXCEPT !.pc = pc] \in Dump
        BY <1>1 DEF Dump
      <4>2. [dump EXCEPT !.cur = NextOffset(@)] \in Dump
        BY <1>1, <1>3 DEF Dump
      <4>3. LengthAt(dump.cur) = 0 \/ dump.addr + LengthAt(dump.cur) <= FramHalf =>
              [[dump EXCEPT !.cur = NextOffset(@)] EXCEPT !.addr = @ + LengthAt(dump.cur)] \in Dump
        <5>1. LengthAt(dump.cur) = 0 \/ dump.addr + LengthAt(dump.cur) <= FramHalf =>
                dump.addr + LengthAt(dump.cur) \in 0..FramHalf
          BY <1>1, <1>3, Sizes DEF Byte
        <5>2. QED
          BY <1>1, <1>3, <5>1 DEF Dump
      <4>4. QED
        BY <2>4, <4>1, <4>2, <4>3 DEF WriteLog, META_write_log
    <3>2. [off |-> dump.cur, len |-> LengthAt(dump.cur)] \in Entry
      BY <1>1, <1>3 DEF Entry
    <3>3. stored' = stored \/ stored' = Append(stored, [off |-> dump.cur, len |-> LengthAt(dump.cur)])
      BY <2>4 DEF WriteLog, META_write_log
    <3>4. stored \in Seq(Entry)
      BY DEF TypeOK
    <3>5. QED
      BY <3>1, <3>2, <3>3, <3>4
  <2>5. QED
    BY <2>1, <2>2, <2>3, <2>4 DEF log_dump_to_fram
<1>5. QED
  BY <1>2, <1>4 DEF TypeOK, Dump, ring

(* log_init leaves every variable typed.                                   *)
LEMMA TypeInit == Init => TypeOK
<1> SUFFICES ASSUME Init PROVE TypeOK
  OBVIOUS
<1>1. mem \in [0..Size - 1 -> Byte]
  BY Bytes DEF Init
<1>2. writer \in [Process -> Call]
  BY CallsSteps DEF Init
<1>3. dump \in Dump
  BY Offsets, Sizes DEF Init, Dump
<1>4. calls \in 0..MaxCalls /\ overlaps \in 0..MaxOverlaps
  BY LogRingAssumption DEF Init
<1>5. {fatal, stomped, clean} \subseteq BOOLEAN /\ published \subseteq Published
  BY DEF Init
<1>6. head \in Offset /\ tail \in Offset /\ stored \in Seq(Entry)
  BY Offsets DEF Init
<1>7. QED
  BY <1>1, <1>2, <1>3, <1>4, <1>5, <1>6 DEF TypeOK, Call, Dump

(* Every step preserves the types.                                         *)
LEMMA TypeNext == TypeOK /\ [Next]_vars => TypeOK'
<1> SUFFICES ASSUME TypeOK, [Next]_vars PROVE TypeOK'
  OBVIOUS
<1>1. CASE UNCHANGED vars
  BY <1>1 DEF vars, TypeOK
<1>2. CASE Next
  BY <1>2, TypeCall, TypeWrite, TypeFatal, TypeDump DEF Next
<1>3. QED
  BY <1>1, <1>2

(* Every variable keeps its type, with no assumption on how many calls     *)
(* overlap: an offset never leaves uint32_t, a byte of the buffer never    *)
(* its range, and a call counts at most three errors.                      *)
THEOREM TypeCorrect == Spec => []TypeOK
BY TypeInit, TypeNext, PTL DEF Spec

----------------------------------------------------------------------------
(* Offsets told by the number of bytes ever reserved                       *)

(* A place is an offset that never wraps: how many bytes were reserved     *)
(* before it since log_init, less those given back.  Its offset is its     *)
(* remainder.                                                              *)
Wrap(n) == n % OffMod

(* The offset of a place is an offset.                                     *)
LEMMA WrapOffset == \A n \in Int : Wrap(n) \in Offset
BY Sizes, Division DEF Wrap, Offset

(* Moving an offset on moves the place on.                                 *)
LEMMA WrapPlus ==
  ASSUME NEW n \in Int, NEW i \in Int
  PROVE  Plus(Wrap(n), i) = Wrap(n + i)
BY Sizes, Shift DEF Plus, Wrap

(* The distance of two offsets is that of their places, when it is less    *)
(* than 2^32.                                                              *)
LEMMA WrapMinus ==
  ASSUME NEW a \in Int, NEW b \in Int, b <= a, a - b < OffMod
  PROVE  Minus(Wrap(a), Wrap(b)) = a - b
<1>1. a - b \in 0..OffMod - 1
  BY Sizes
<1>2. QED
  BY <1>1, Sizes, Difference DEF Minus, Wrap

(* Places less than 2^32 apart with one offset are one.                    *)
LEMMA WrapSame ==
  ASSUME NEW a \in Int, NEW b \in Int, Wrap(a) = Wrap(b), a - b < OffMod, b - a < OffMod
  PROVE  a = b
BY Sizes, Apart DEF Wrap

(* An offset and its place have one cell, and so have those that follow.   *)
LEMMA WrapCell ==
  ASSUME NEW n \in Int, NEW i \in Int
  PROVE  Cell(Wrap(n) + i) = Cell(n + i)
<1>1. OffMod \in Nat \ {0} /\ Size \in Nat \ {0} /\ OffMod % Size = 0
  BY Sizes
<1>2. ((n % OffMod) + i) % Size = (n + i) % Size
  BY <1>1, Coarser
<1>3. QED
  BY <1>2 DEF Wrap, Cell

(* An offset and its place have one cell.                                  *)
LEMMA WrapCell0 ==
  ASSUME NEW n \in Int
  PROVE  Cell(Wrap(n)) = Cell(n)
<1>1. Cell(Wrap(n) + 0) = Cell(n + 0)
  BY WrapCell
<1>2. Wrap(n) \in Int
  BY WrapOffset, Offsets
<1>3. Wrap(n) + 0 = Wrap(n) /\ n + 0 = n
  BY <1>2
<1>4. QED
  BY <1>1, <1>3

(* Places less than a buffer apart in one cell are one.                    *)
LEMMA CellSame ==
  ASSUME NEW a \in Int, NEW b \in Int, Cell(a) = Cell(b), a - b < Size, b - a < Size
  PROVE  a = b
BY Sizes, Apart DEF Cell

(* The cell of a place is told by the cell of an earlier one.              *)
LEMMA CellPlus ==
  ASSUME NEW n \in Int, NEW i \in Int
  PROVE  Cell(Cell(n) + i) = Cell(n + i)
<1>1. ((n % Size) + i) % Size = (n + i) % Size
  BY Sizes, Shift
<1>2. QED
  BY <1>1 DEF Cell

(* Short of the end of the buffer cells follow each other.                 *)
LEMMA CellNext ==
  ASSUME NEW n \in Int, NEW i \in Nat, Cell(n) + i < Size
  PROVE  Cell(n + i) = Cell(n) + i
<1>1. Cell(n) \in 0..Size - 1
  BY Ranges
<1>2. Cell(Cell(n) + i) = Cell(n + i)
  BY CellPlus
<1>3. Cell(n) + i \in 0..Size - 1 /\ Cell(n) + i \in Int /\ Cell(n) + i = Size * 0 + (Cell(n) + i)
  BY <1>1, Sizes
<1>4. Cell(Cell(n) + i) = Cell(n) + i
  <2> DEFINE x == Cell(n) + i
  <2> HIDE DEF x
  <2>1. x \in 0..Size - 1 /\ x \in Int /\ x = Size * 0 + x
    BY <1>3 DEF x
  <2>2. x % Size = x
    BY <2>1, Sizes, Remainder
  <2>3. QED
    BY <2>2 DEF x, Cell
<1>5. QED
  BY <1>2, <1>4

(* What does not look as if it crossed the end of the buffer does not.     *)
LEMMA NoCrossing ==
  ASSUME NEW n \in Int, ~(Cell(n + MaxEntry) < Cell(n))
  PROVE  Cell(n) + MaxEntry <= Size
<1>1. Cell(n) \in 0..Size - 1
  BY Ranges
<1>2. Cell(Cell(n) + MaxEntry) = Cell(n + MaxEntry)
  BY Sizes, CellPlus
<1>3. ASSUME Cell(n) + MaxEntry > Size PROVE FALSE
  <2> DEFINE x == Cell(n) + MaxEntry
             r == Cell(n) + MaxEntry - Size
  <2>1. x \in Int /\ r \in 0..Size - 1 /\ x = Size * 1 + r /\ r < Cell(n)
    BY <1>1, <1>3, Sizes
  <2> HIDE DEF x, r
  <2>2. x % Size = r
    BY <2>1, Sizes, Remainder
  <2>3. Cell(n + MaxEntry) = r
    BY <1>2, <2>2 DEF x, Cell
  <2>4. QED
    BY <2>1, <2>3
<1>4. QED
  BY <1>1, <1>3, Sizes

(* An entry that crosses the end leaves less than a longest entry beyond   *)
(* it (log_vwrite, line 169): the place after the padding is near the      *)
(* start of the buffer.                                                    *)
LEMMA Crossing ==
  ASSUME NEW n \in Int, Cell(n + MaxEntry) < Cell(n)
  PROVE  Cell(n + MaxEntry) < MaxEntry
<1>1. Cell(n) \in 0..Size - 1 /\ Cell(n) + MaxEntry \in Nat
  BY Ranges, Sizes
<1>2. CASE Cell(n) + MaxEntry < Size
  <2>1. Cell(n + MaxEntry) = Cell(n) + MaxEntry
    BY <1>2, CellNext, Sizes
  <2>2. QED
    BY <1>1, <2>1, Sizes
<1>3. CASE ~(Cell(n) + MaxEntry < Size)
  <2> DEFINE x == Cell(n) + MaxEntry
             r == Cell(n) + MaxEntry - Size
  <2>1. x \in Int /\ r \in 0..Size - 1 /\ x = Size * 1 + r /\ r < MaxEntry
    BY <1>1, <1>3, Sizes
  <2> HIDE DEF x, r
  <2>2. x % Size = r
    BY <2>1, Sizes, Remainder
  <2>3. Cell(n + MaxEntry) = r
    <3>1. Cell(Cell(n) + MaxEntry) = Cell(n + MaxEntry)
      BY Sizes, CellPlus
    <3>2. QED
      BY <2>2, <3>1 DEF x, Cell
  <2>4. QED
    BY <2>1, <2>3
<1>4. QED
  BY <1>2, <1>3

(* The distance of two numbers that have not wrapped.                      *)
LEMMA SmallMinus ==
  ASSUME NEW a \in Nat, NEW b \in Nat, b <= a, a < OffMod
  PROVE  Minus(a, b) = a - b
<1> DEFINE r == a - b
<1>1. r \in 0..OffMod - 1 /\ r \in Int /\ r = OffMod * 0 + r
  BY Sizes
<1> HIDE DEF r
<1>2. r % OffMod = r
  BY <1>1, Sizes, Remainder
<1>3. QED
  BY <1>2 DEF r, Minus

(* The cells of an offset are those of its place.                          *)
LEMMA CellsWrap ==
  ASSUME NEW n \in Int, NEW k \in Int
  PROVE  CellsOf(Wrap(n), k) = CellsOf(n, k)
<1>1. \A i \in 0..k - 1 : Cell(Wrap(n) + i) = Cell(n + i)
  BY WrapCell
<1>2. QED
  BY <1>1 DEF CellsOf

(* Stretches of less than a buffer that follow each other share no cell.   *)
LEMMA CellsApart ==
  ASSUME NEW a \in Int, NEW b \in Int, NEW m \in Int, NEW n \in Int,
         a + m <= b, b + n <= a + Size
  PROVE  CellsOf(a, m) \intersect CellsOf(b, n) = {}
<1>1. ASSUME NEW i \in 0..m - 1, NEW j \in 0..n - 1, Cell(a + i) = Cell(b + j)
      PROVE  FALSE
  <2>1. /\ a + i \in Int /\ b + j \in Int
        /\ a + i < b + j /\ (b + j) - (a + i) < Size /\ (a + i) - (b + j) < Size
    BY Sizes
  <2>2. a + i = b + j
    BY <1>1, <2>1, CellSame
  <2>3. QED
    BY <2>1, <2>2
<1>2. QED
  BY <1>1 DEF CellsOf

(* A byte of an entry is among its cells.                                  *)
LEMMA CellIn ==
  ASSUME NEW a \in Int, NEW n \in Int, NEW i \in 0..n - 1
  PROVE  Cell(a + i) \in CellsOf(a, n)
BY DEF CellsOf

(* MaxEntry * n, kept folded: so many entries take so many bytes at most.  *)
Room(n) == MaxEntry * n

(* Room for one entry more is MaxEntry more.                               *)
LEMMA RoomGrows ==
  /\ \A n \in Nat : Room(n) \in Nat /\ Room(n + 1) = Room(n) + MaxEntry
  /\ \A m, n \in Nat : m <= n => Room(m) <= Room(n)
<1>1. ASSUME NEW n \in Nat PROVE Room(n) \in Nat /\ Room(n + 1) = Room(n) + MaxEntry
  BY Sizes, SMT DEF Room
<1>2. ASSUME NEW m \in Nat, NEW n \in Nat, m <= n PROVE Room(m) <= Room(n)
  <2>1. MaxEntry * (n - m) >= 0
    BY <1>2, Sizes, SMT
  <2>2. MaxEntry * n = MaxEntry * m + MaxEntry * (n - m)
    BY Sizes, SMT
  <2>3. QED
    BY <2>1, <2>2, Sizes, SMT DEF Room
<1>3. QED
  BY <1>1, <1>2

----------------------------------------------------------------------------
(* The inductive invariant                                                 *)

(* A call is between loading head and exchanging it; is freeing the entry  *)
(* at tail; has a reservation it may still give up part of; has one; and   *)
(* how long that is.                                                       *)
Loaded(t) == writer[t].pc \in {"space", "tail", "length", "cas_tail", "mark", "cas_head"}
Freeing(t) == writer[t].pc \in {"length", "cas_tail", "mark"}
Filled(t) == writer[t].pc \in Filling
Holding(t) == writer[t].pc \in Filling \union {"commit"} \union Shrunk
Held(t) == IF writer[t].pc \in Shrunk THEN EntryLength(t) ELSE MaxEntry
Resting(t) == writer[t].pc \in {"idle", "failed"}

(* Who may still reserve an entry before the ring is at rest again: as the *)
(* first of its call, and as the second.                                   *)
Firsts ==
  {t \in Process : \/ t = Handler /\ ~fatal
                   \/ writer[t].pc \in Acquiring /\ ~writer[t].second}
Seconds ==
  {t \in Process : \/ t = Handler /\ ~fatal
                   \/ writer[t].pc \in Acquiring
                   \/ writer[t].pc \in {"type", "len", "empty"} /\ ~writer[t].second}
(* Who is about to free the entry at tail.                                 *)
Deciders == {t \in Process : writer[t].pc \in {"tail", "length", "cas_tail"}}
(* How many entries may still be reserved before the ring is at rest.      *)
Left == Cardinality(Firsts) + Cardinality(Seconds) + 2 * (MaxOverlaps - overlaps)

(* All that can be reserved from one rest of the ring to the next.         *)
Window == Room(2 * MaxOverlaps + 4)

(* p and q are one entry apart.                                            *)
Adjacent(M, p, q) ==
  /\ p \in M /\ q \in M /\ p < q
  /\ \A m \in M : m <= p \/ q <= m

(* H and T are the places of head and tail, B that of head when the ring   *)
(* was last at rest, and M the boundaries of the entries from tail to      *)
(* head.                                                                   *)
Agree(H, T, B, M) ==
  /\ head = Wrap(H) /\ tail = Wrap(T)
  /\ T <= B /\ B <= H /\ H - T <= Size
  /\ T \in M /\ H \in M /\ \A m \in M : T <= m /\ m <= H

(* O has the place of old_head_offset and D that of old_tail_offset of     *)
(* each call; a head loaded is not older than the last rest, nor a tail a  *)
(* buffer older.                                                           *)
CallsAgree(T, B, O, D) ==
  \A t \in Process :
    /\ Loaded(t) \/ Holding(t) => writer[t].off = Wrap(O[t]) /\ B <= O[t]
    /\ Freeing(t) => writer[t].old = Wrap(D[t]) /\ D[t] <= T /\ B <= D[t] + Size

(* Head has not used up the window, and tail stays below the base by what  *)
(* those about to free an entry may take.                                  *)
Budget(H, T, B) ==
  /\ H + Room(Left) <= B + Window
  /\ T + Room(Cardinality(Deciders)) <= B

(* What a call has seen of head: at most one entry given back since, and   *)
(* then not by a call still able to.  With the free space compared, it     *)
(* fits.                                                                   *)
Seen(H, T, O) ==
  \A t \in Process : Loaded(t) =>
    /\ O[t] <= H + MaxEntry
    /\ \A u \in Process : Filled(u) /\ O[u] + MaxEntry = H => O[t] <= H
    /\ O[t] - T <= Size
    /\ writer[t].pc = "cas_head" => O[t] + MaxEntry - T <= Size

(* Each reservation lies between two boundaries next to each other, and    *)
(* has one call.                                                           *)
Claims(M, O) ==
  /\ \A t \in Process : Holding(t) => Adjacent(M, O[t], O[t] + Held(t))
  /\ \A t, u \in Process : Holding(t) /\ Holding(u) /\ O[t] = O[u] => t = u

(* So does each published entry, and no call has it.                       *)
PublishedLies(M, O) ==
  \A e \in published :
    /\ Header < e.len /\ e.len <= MaxEntry
    /\ \E p \in M : /\ e.off = Wrap(p) /\ Adjacent(M, p, p + e.len)
                    /\ \A t \in Process : Holding(t) => O[t] # p

(* Between tail and head nothing is without an owner.                      *)
AllOwned(H, M, O) ==
  \A p \in M : p < H =>
    \/ \E t \in Process : Holding(t) /\ O[t] = p
    \/ \E e \in published : e.off = Wrap(p)

(* The length byte at o is n, unless a late LOG_INVALID store may have hit *)
(* it.                                                                     *)
Reads(o, n) == LengthAt(o) = n \/ (stomped /\ LengthAt(o) = 0)

(* The length byte of each entry, from the moment it is stored.            *)
LengthsTell ==
  /\ \A e \in published : Reads(e.off, e.len) /\ (~stomped => mem[Cell(e.off)] = e.type)
  /\ \A t \in Process :
       /\ writer[t].pc \in {"empty", "text", "shrink", "commit", "store_len"} =>
            Reads(writer[t].off, MaxEntry)
       /\ writer[t].pc = "commit_short" => Reads(writer[t].off, EntryLength(t))

(* An entry that is not published yet reads as LOG_INVALID.                *)
Unfinished ==
  \A t \in Process :
    writer[t].pc \in {"len", "empty", "text", "shrink", "commit", "store_len", "commit_short"} =>
      mem[Cell(writer[t].off)] = LOG_INVALID

(* A length read at the present tail is that of the entry there.           *)
FreesOne(T, M, D) ==
  \A t \in Process : writer[t].pc = "cas_tail" /\ D[t] = T =>
    \/ writer[t].length = 0 /\ stomped
    \/ Adjacent(M, T, T + writer[t].length)

(* After padding the next boundary is near the start of the buffer, and    *)
(* the second reservation lies at it or after it.                          *)
InBuffer(B, M, O) ==
  \A t \in Process :
    /\ writer[t].pc \in Acquiring /\ writer[t].second =>
         \E p \in M : /\ B <= p /\ Cell(p) < MaxEntry
                      /\ \A u \in Process : Filled(u) => O[u] + MaxEntry # p
    /\ Holding(t) /\ (writer[t].second \/ writer[t].pc \notin {"type", "len", "empty"}) =>
         Cell(writer[t].off) + MaxEntry <= Size
    /\ writer[t].pc = "empty" => ~writer[t].second /\ Cell(O[t] + MaxEntry) < MaxEntry

(* error_handler has not logged before it begins.                          *)
HandlerWaits == ~fatal => writer[Handler].pc = "idle" /\ ~writer[Handler].second

(* A clean takeover stays clean: error_handler's own call stomps on        *)
(* nothing.                                                                *)
AfterFatal(H, T, D) ==
  fatal /\ clean =>
    /\ ~stomped
    /\ \A t \in Writers : ~Unsettled(t)
    /\ writer[Handler].pc \in {"length", "cas_tail"} => D[Handler] = T
    /\ writer[Handler].pc = "mark" => D[Handler] < T /\ H <= D[Handler] + Size

(* The ring told by places.                                                *)
View(H, T, B, M, O, D) ==
  /\ Agree(H, T, B, M) /\ CallsAgree(T, B, O, D) /\ Budget(H, T, B)
  /\ Seen(H, T, O) /\ Claims(M, O) /\ PublishedLies(M, O) /\ AllOwned(H, M, O)
  /\ LengthsTell /\ Unfinished /\ FreesOne(T, M, D) /\ InBuffer(B, M, O)
  /\ HandlerWaits /\ AfterFatal(H, T, D)

(* The ring holds what the overlapping calls may reserve: with the 128 KiB *)
(* and 255 bytes of the firmware, 254 calls may begin while one is         *)
(* preempted.                                                              *)
Roomy == Room(2 * MaxOverlaps + 6) <= Size

(* On a roomy ring the window leaves room for two entries more.            *)
LEMMA WindowFits ==
  ASSUME Roomy
  PROVE  Window \in Nat /\ Window + MaxEntry + MaxEntry <= Size
<1>1. 2 * MaxOverlaps + 4 \in Nat /\ 2 * MaxOverlaps + 5 \in Nat
      /\ (2 * MaxOverlaps + 4) + 1 = 2 * MaxOverlaps + 5
      /\ (2 * MaxOverlaps + 5) + 1 = 2 * MaxOverlaps + 6
  BY LogRingAssumption
<1> DEFINE m == 2 * MaxOverlaps + 4
           n == 2 * MaxOverlaps + 5
<1>2. m \in Nat /\ n \in Nat /\ m + 1 = n /\ n + 1 = 2 * MaxOverlaps + 6 /\ Window = Room(m)
  BY <1>1 DEF Window
<1> HIDE DEF m, n
<1>3. Room(n) = Room(m) + MaxEntry /\ Room(n + 1) = Room(n) + MaxEntry /\ Room(m) \in Nat
  BY <1>2, RoomGrows
<1>4. Room(n + 1) <= Size
  BY <1>2 DEF Roomy
<1>5. QED
  BY <1>2, <1>3, <1>4, Sizes

(* There are finitely many processes, so sets of them can be counted.      *)
LEMMA Few ==
  /\ IsFiniteSet(Process)
  /\ \A S \in SUBSET Process : IsFiniteSet(S) /\ Cardinality(S) \in Nat
  /\ \A S, U \in SUBSET Process : S \subseteq U => Cardinality(S) <= Cardinality(U)
<1>1. IsFiniteSet(Process)
  BY LogRingAssumption, FS_AddElement DEF Process
<1>2. ASSUME NEW S \in SUBSET Process PROVE IsFiniteSet(S) /\ Cardinality(S) \in Nat
  BY <1>1, FS_Subset, FS_CardinalityType
<1>3. ASSUME NEW S \in SUBSET Process, NEW U \in SUBSET Process, S \subseteq U
      PROVE  Cardinality(S) <= Cardinality(U)
  BY <1>2, <1>3, FS_Subset
<1>4. QED
  BY <1>1, <1>2, <1>3

(* How many reservations are left is a number, and at least how many calls *)
(* are about to free an entry.                                             *)
LEMMA LeftTyped ==
  ASSUME TypeOK
  PROVE  /\ Firsts \subseteq Process /\ Seconds \subseteq Process /\ Deciders \subseteq Process
         /\ Cardinality(Firsts) \in Nat /\ Cardinality(Seconds) \in Nat
         /\ Cardinality(Deciders) \in Nat
         /\ Left \in Nat /\ Cardinality(Deciders) <= Left
         /\ overlaps \in Nat /\ overlaps <= MaxOverlaps
<1>1. Firsts \subseteq Process /\ Seconds \subseteq Process /\ Deciders \subseteq Seconds
  BY DEF Firsts, Seconds, Deciders, Acquiring
<1>2. /\ Cardinality(Firsts) \in Nat /\ Cardinality(Seconds) \in Nat
      /\ Cardinality(Deciders) \in Nat /\ Cardinality(Deciders) <= Cardinality(Seconds)
  BY <1>1, Few
<1>3. overlaps \in Nat /\ overlaps <= MaxOverlaps /\ MaxOverlaps \in Nat
  BY LogRingAssumption DEF TypeOK
<1>4. QED
  BY <1>1, <1>2, <1>3 DEF Left

(* The same after the step.                                                *)
LEMMA LeftTypedNext ==
  ASSUME TypeOK'
  PROVE  /\ Firsts' \subseteq Process /\ Seconds' \subseteq Process /\ Deciders' \subseteq Process
         /\ Cardinality(Firsts') \in Nat /\ Cardinality(Seconds') \in Nat
         /\ Cardinality(Deciders') \in Nat
         /\ Left' \in Nat /\ Cardinality(Deciders') <= Left'
         /\ overlaps' \in Nat /\ overlaps' <= MaxOverlaps
<1>1. Firsts' \subseteq Process /\ Seconds' \subseteq Process /\ Deciders' \subseteq Seconds'
  BY DEF Firsts, Seconds, Deciders, Acquiring
<1>2. /\ Cardinality(Firsts') \in Nat /\ Cardinality(Seconds') \in Nat
      /\ Cardinality(Deciders') \in Nat /\ Cardinality(Deciders') <= Cardinality(Seconds')
  BY <1>1, Few
<1>3. overlaps' \in Nat /\ overlaps' <= MaxOverlaps /\ MaxOverlaps \in Nat
  BY LogRingAssumption DEF TypeOK
<1>4. QED
  BY <1>1, <1>2, <1>3 DEF Left

(* A step after which nobody may reserve more than before.                 *)
LEMMA LeftKept ==
  ASSUME TypeOK, TypeOK', overlaps' = overlaps, Firsts' \subseteq Firsts, Seconds' \subseteq Seconds
  PROVE  Left' \in Nat /\ Left' <= Left /\ Room(Left') <= Room(Left) /\ Room(Left') \in Nat
<1>1. Firsts \subseteq Process /\ Seconds \subseteq Process /\ Left \in Nat
  BY LeftTyped
<1>2. Firsts' \subseteq Process /\ Seconds' \subseteq Process
  BY <1>1
<1>3. /\ Cardinality(Firsts) \in Nat /\ Cardinality(Seconds) \in Nat
      /\ Cardinality(Firsts') \in Nat /\ Cardinality(Seconds') \in Nat
      /\ Cardinality(Firsts') <= Cardinality(Firsts)
      /\ Cardinality(Seconds') <= Cardinality(Seconds)
  BY <1>1, <1>2, Few
<1>4. overlaps \in Nat /\ overlaps <= MaxOverlaps /\ MaxOverlaps \in Nat
  BY LogRingAssumption DEF TypeOK
<1>5. Left' \in Nat /\ Left' <= Left
  BY <1>3, <1>4 DEF Left
<1>6. QED
  BY <1>1, <1>5, RoomGrows

(* A step that reserves.                                                   *)
LEMMA LeftTaken ==
  ASSUME TypeOK, TypeOK', overlaps' = overlaps, NEW t \in Process,
         \/ t \in Firsts /\ Firsts' \subseteq Firsts \ {t} /\ Seconds' \subseteq Seconds
         \/ t \in Seconds /\ Seconds' \subseteq Seconds \ {t} /\ Firsts' \subseteq Firsts
  PROVE  Room(Left') + MaxEntry <= Room(Left) /\ Room(Left') \in Nat
<1>1. Firsts \subseteq Process /\ Seconds \subseteq Process /\ Left \in Nat
  BY LeftTyped
<1>2. /\ Firsts' \subseteq Process /\ Seconds' \subseteq Process
      /\ Firsts \ {t} \subseteq Process /\ Seconds \ {t} \subseteq Process
  BY <1>1
<1>3. /\ Cardinality(Firsts) \in Nat /\ Cardinality(Seconds) \in Nat
      /\ Cardinality(Firsts') \in Nat /\ Cardinality(Seconds') \in Nat
      /\ IsFiniteSet(Firsts) /\ IsFiniteSet(Seconds)
  BY <1>1, <1>2, Few
<1>4. /\ t \in Firsts => Cardinality(Firsts \ {t}) = Cardinality(Firsts) - 1
      /\ t \in Seconds => Cardinality(Seconds \ {t}) = Cardinality(Seconds) - 1
  BY <1>3, FS_RemoveElement
<1>5. \/ /\ Cardinality(Firsts') <= Cardinality(Firsts) - 1
         /\ Cardinality(Seconds') <= Cardinality(Seconds)
      \/ /\ Cardinality(Firsts') <= Cardinality(Firsts)
         /\ Cardinality(Seconds') <= Cardinality(Seconds) - 1
  <2>1. CASE t \in Firsts /\ Firsts' \subseteq Firsts \ {t} /\ Seconds' \subseteq Seconds
    <3>1. Cardinality(Firsts') <= Cardinality(Firsts \ {t})
      BY <1>2, <2>1, Few
    <3>2. Cardinality(Seconds') <= Cardinality(Seconds)
      BY <1>1, <1>2, <2>1, Few
    <3>3. QED
      BY <1>3, <1>4, <2>1, <3>1, <3>2
  <2>2. CASE t \in Seconds /\ Seconds' \subseteq Seconds \ {t} /\ Firsts' \subseteq Firsts
    <3>1. Cardinality(Seconds') <= Cardinality(Seconds \ {t})
      BY <1>2, <2>2, Few
    <3>2. Cardinality(Firsts') <= Cardinality(Firsts)
      BY <1>1, <1>2, <2>2, Few
    <3>3. QED
      BY <1>3, <1>4, <2>2, <3>1, <3>2
  <2>3. QED
    BY <2>1, <2>2
<1>6. overlaps \in Nat /\ overlaps <= MaxOverlaps /\ MaxOverlaps \in Nat
  BY LogRingAssumption DEF TypeOK
<1>7. Left' \in Nat /\ Left' + 1 <= Left /\ Left' + 1 \in Nat
  BY <1>3, <1>5, <1>6 DEF Left
<1>8. Room(Left' + 1) = Room(Left') + MaxEntry /\ Room(Left' + 1) <= Room(Left)
  BY <1>1, <1>7, RoomGrows
<1>9. QED
  BY <1>7, <1>8, RoomGrows

(* Head is within a window of the base, and while a call frees an entry    *)
(* the tail is a longest entry short of it.                                *)
LEMMA ViewTyped ==
  ASSUME TypeOK, Roomy, NEW H \in Nat, NEW T \in Nat, NEW B \in Nat, NEW M \in SUBSET Nat,
         Agree(H, T, B, M), Budget(H, T, B)
  PROVE  /\ H - B <= Window /\ Window \in Nat /\ Window + MaxEntry + MaxEntry <= Size
         /\ Room(Left) \in Nat /\ Room(Cardinality(Deciders)) \in Nat
         /\ Deciders # {} => T + MaxEntry <= B
<1>1. Left \in Nat /\ Cardinality(Deciders) \in Nat /\ Deciders \subseteq Process
  BY LeftTyped
<1>2. Room(Left) \in Nat /\ Room(Cardinality(Deciders)) \in Nat /\ Window \in Nat
      /\ Window + MaxEntry + MaxEntry <= Size
  BY <1>1, RoomGrows, WindowFits
<1>3. H - B <= Window
  BY <1>2 DEF Budget
<1>4. ASSUME Deciders # {} PROVE T + MaxEntry <= B
  <2>1. IsFiniteSet(Deciders)
    BY <1>1, Few
  <2>2. Cardinality(Deciders) # 0
    BY <1>4, <2>1, FS_EmptySet
  <2>3. Cardinality(Deciders) \in Nat /\ 0 + 1 <= Cardinality(Deciders) /\ 0 + 1 \in Nat
    BY <1>1, <2>2
  <2>4. Room(0 + 1) = Room(0) + MaxEntry /\ Room(0) \in Nat
    BY RoomGrows
  <2>5. Room(0 + 1) <= Room(Cardinality(Deciders))
    BY <2>3, RoomGrows
  <2>6. QED
    BY <1>2, <2>4, <2>5, Sizes DEF Budget
<1>5. QED
  BY <1>2, <1>3, <1>4

----------------------------------------------------------------------------
(* Steps of log_acquire_space that change only the call                    *)

(* A step of log_acquire_space that leaves head, tail and the entries      *)
(* alone keeps the view, if what the call has read agrees with it.         *)
LEMMA AcquiringStep ==
  ASSUME TypeOK, TypeOK', NEW H \in Nat, NEW T \in Nat, NEW B \in Nat, NEW M \in SUBSET Nat,
         NEW O \in [Process -> Nat], NEW D \in [Process -> Nat], View(H, T, B, M, O, D),
         NEW P \in [Process -> Nat], NEW E \in [Process -> Nat],
         NEW t \in Process, Runs(t),
         writer[t].pc \in Acquiring, writer'[t].pc \in Acquiring \union {"failed"},
         writer'[t].second <=> writer[t].second,
         \A u \in Process : u # t => writer'[u] = writer[u] /\ P[u] = O[u] /\ E[u] = D[u],
         UNCHANGED <<head, tail, published, fatal, clean, overlaps>>,
         \/ UNCHANGED <<mem, stomped>>
         \/ LengthsTell' /\ Unfinished' /\ (stomped => stomped') /\ (fatal /\ clean => ~stomped'),
         Loaded(t)' => /\ writer'[t].off = Wrap(P[t]) /\ B <= P[t]
                       /\ P[t] <= H + MaxEntry /\ P[t] - T <= Size
                       /\ \A u \in Process : Filled(u) /\ O[u] + MaxEntry = H => P[t] <= H
                       /\ writer'[t].pc = "cas_head" => P[t] + MaxEntry - T <= Size,
         Freeing(t)' => writer'[t].old = Wrap(E[t]) /\ E[t] <= T /\ B <= E[t] + Size,
         writer'[t].pc = "cas_tail" /\ E[t] = T =>
           \/ writer'[t].length = 0 /\ stomped
           \/ Adjacent(M, T, T + writer'[t].length),
         t \notin Deciders => t \notin Deciders' \/ T + Room(Left) <= B,
         fatal /\ clean /\ t = Handler =>
           /\ writer'[t].pc \in {"length", "cas_tail"} => E[t] = T
           /\ writer'[t].pc = "mark" => E[t] < T /\ H <= E[t] + Size
  PROVE  View(H, T, B, M, P, E)'
<1>1. ~Holding(t) /\ ~Holding(t)' /\ ~Filled(t) /\ ~Filled(t)'
  BY DEF Holding, Filled, Acquiring, Filling, Shrunk
<1>2. ASSUME NEW u \in Process, u # t
      PROVE  /\ Holding(u)' <=> Holding(u)
             /\ Filled(u)' <=> Filled(u)
             /\ Loaded(u)' <=> Loaded(u)
             /\ Freeing(u)' <=> Freeing(u)
             /\ Held(u)' = Held(u)
             /\ writer'[u] = writer[u] /\ P[u] = O[u] /\ E[u] = D[u]
  BY <1>2 DEF Holding, Filled, Loaded, Freeing, Held, EntryLength
<1>3. ASSUME NEW u \in Process
      PROVE  /\ Holding(u)' <=> Holding(u)
             /\ Filled(u)' <=> Filled(u)
             /\ Holding(u) => /\ P[u] = O[u] /\ Held(u)' = Held(u) /\ writer'[u] = writer[u]
             /\ Filled(u) => P[u] = O[u] /\ writer'[u] = writer[u]
  BY <1>1, <1>2
<1>4. Agree(H, T, B, M)'
  BY DEF View, Agree
<1>5. CallsAgree(T, B, P, E)'
  BY <1>1, <1>2 DEF View, CallsAgree
<1>6. Budget(H, T, B)'
  <2>1. Firsts' \subseteq Firsts /\ Seconds' \subseteq Seconds
    BY DEF Firsts, Seconds
  <2>2. Room(Left') <= Room(Left) /\ Room(Left') \in Nat /\ Left' \in Nat /\ Left' <= Left
    BY <2>1, LeftKept
  <2>3. /\ Left \in Nat /\ Room(Left) \in Nat /\ Cardinality(Deciders') <= Left'
        /\ Cardinality(Deciders') \in Nat /\ Cardinality(Deciders) \in Nat
        /\ Deciders \subseteq Process /\ Deciders' \subseteq Process
        /\ Room(Cardinality(Deciders')) \in Nat /\ Room(Cardinality(Deciders)) \in Nat
        /\ Window \in Nat
    <3>1. Left \in Nat /\ Cardinality(Deciders) \in Nat /\ Deciders \subseteq Process
      BY LeftTyped
    <3>2. Cardinality(Deciders') \in Nat /\ Deciders' \subseteq Process /\ Cardinality(Deciders') <= Left'
      BY LeftTypedNext
    <3>3. 2 * MaxOverlaps + 4 \in Nat
      BY LogRingAssumption
    <3>4. QED
      BY <3>1, <3>2, <3>3, RoomGrows DEF Window
  <2>4. H + Room(Left') <= B + Window
    BY <2>2, <2>3 DEF View, Budget
  <2>5. T + Room(Cardinality(Deciders')) <= B
    <3>1. CASE T + Room(Left) <= B
      <4>1. Room(Cardinality(Deciders')) <= Room(Left)
        BY <2>2, <2>3, RoomGrows
      <4>2. QED
        BY <2>3, <3>1, <4>1
    <3>2. CASE ~(T + Room(Left) <= B)
      <4>1. Deciders' \subseteq Deciders
        BY <3>2 DEF Deciders
      <4>2. Cardinality(Deciders') <= Cardinality(Deciders)
        BY <2>3, <4>1, Few
      <4>3. Room(Cardinality(Deciders')) <= Room(Cardinality(Deciders))
        BY <2>3, <4>2, RoomGrows
      <4>4. QED
        BY <2>3, <4>3 DEF View, Budget
    <3>3. QED
      BY <3>1, <3>2
  <2>6. QED
    BY <2>4, <2>5 DEF Budget
<1>7. Seen(H, T, P)'
  <2>1. ASSUME NEW u \in Process, Loaded(u)', u # t
        PROVE  /\ P[u] <= H + MaxEntry
               /\ \A v \in Process : Filled(v)' /\ P[v] + MaxEntry = H => P[u] <= H
               /\ P[u] - T <= Size
               /\ writer'[u].pc = "cas_head" => P[u] + MaxEntry - T <= Size
    BY <1>2, <1>3, <2>1 DEF View, Seen
  <2>2. Loaded(t)' =>
               /\ P[t] <= H + MaxEntry
               /\ \A v \in Process : Filled(v)' /\ P[v] + MaxEntry = H => P[t] <= H
               /\ P[t] - T <= Size
               /\ writer'[t].pc = "cas_head" => P[t] + MaxEntry - T <= Size
    BY <1>3
  <2>3. QED
    BY <2>1, <2>2 DEF Seen
<1>8. Claims(M, P)'
  <2>1. Claims(M, O)
    BY DEF View
  <2>2. QED
    BY <1>3, <2>1 DEF Claims, Adjacent
<1>9. PublishedLies(M, P)'
  <2>1. PublishedLies(M, O)
    BY DEF View
  <2>2. ASSUME NEW e \in published
        PROVE  /\ Header < e.len /\ e.len <= MaxEntry
               /\ \E p \in M : /\ e.off = Wrap(p) /\ Adjacent(M, p, p + e.len)
                               /\ \A u \in Process : Holding(u)' => P[u] # p
    BY <1>3, <2>1 DEF PublishedLies
  <2>3. QED
    BY <2>2 DEF PublishedLies
<1>10. AllOwned(H, M, P)'
  BY <1>3 DEF View, AllOwned
<1>11. LengthsTell'
  <2> SUFFICES ASSUME UNCHANGED <<mem, stomped>> PROVE LengthsTell'
    OBVIOUS
  <2>1. \A o, n : Reads(o, n)' <=> Reads(o, n)
    BY DEF Reads, LengthAt
  <2>2. \A u \in Process : u # t => EntryLength(u)' = EntryLength(u)
    BY DEF EntryLength
  <2>3. writer'[t].pc \notin {"empty", "text", "shrink", "commit", "store_len", "commit_short"}
    BY DEF Acquiring
  <2>4. LengthsTell
    BY DEF View
  <2>5. \A e \in published' : Reads(e.off, e.len)' /\ (~stomped' => mem'[Cell(e.off)] = e.type)
    BY <2>1, <2>4 DEF LengthsTell
  <2>6. ASSUME NEW u \in Process, u # t
        PROVE  /\ writer'[u].pc \in {"empty", "text", "shrink", "commit", "store_len"} =>
                   Reads(writer[u].off, MaxEntry)'
               /\ writer'[u].pc = "commit_short" => Reads(writer[u].off, EntryLength(u))'
    <3>1. writer'[u] = writer[u] /\ EntryLength(u)' = EntryLength(u)
      BY <1>2, <2>2, <2>6
    <3>2. /\ Reads(writer[u].off, MaxEntry)' <=> Reads(writer[u].off, MaxEntry)
          /\ Reads(writer[u].off, EntryLength(u))' <=> Reads(writer[u].off, EntryLength(u))
      BY <3>1 DEF Reads, LengthAt
    <3>3. QED
      BY <2>4, <3>1, <3>2 DEF LengthsTell
  <2>7. QED
    BY <2>3, <2>5, <2>6 DEF LengthsTell
<1>17. Unfinished'
  <2> SUFFICES ASSUME UNCHANGED <<mem, stomped>> PROVE Unfinished'
    OBVIOUS
  <2>1. Unfinished
    BY DEF View
  <2>2. writer'[t].pc \notin {"len", "empty", "text", "shrink", "commit", "store_len", "commit_short"}
    BY DEF Acquiring
  <2>3. QED
    BY <1>2, <2>1, <2>2 DEF Unfinished
<1>12. FreesOne(T, M, E)'
  <2>1. stomped => stomped'
    OBVIOUS
  <2>2. QED
    BY <1>2, <2>1 DEF View, FreesOne, Adjacent
<1>13. InBuffer(B, M, P)'
  <2>1. InBuffer(B, M, O)
    BY DEF View
  <2>2. \A u \in Process : writer'[u].pc \in Acquiring /\ writer'[u].second =>
             writer[u].pc \in Acquiring /\ writer[u].second
    BY <1>2
  <2>3. ASSUME NEW u \in Process, writer'[u].pc \in Acquiring, writer'[u].second
        PROVE  \E p \in M : /\ B <= p /\ Cell(p) < MaxEntry
                            /\ \A v \in Process : Filled(v)' => P[v] + MaxEntry # p
    BY <1>3, <2>1, <2>2, <2>3 DEF InBuffer
  <2>4. ASSUME NEW u \in Process, Holding(u)',
               writer'[u].second \/ writer'[u].pc \notin {"type", "len", "empty"}
        PROVE  Cell(writer'[u].off) + MaxEntry <= Size
    <3>1. Holding(u) /\ writer'[u] = writer[u]
      BY <1>3, <2>4
    <3>2. QED
      BY <2>1, <2>4, <3>1 DEF InBuffer
  <2>5. ASSUME NEW u \in Process, writer'[u].pc = "empty"
        PROVE  ~writer'[u].second /\ Cell(P[u] + MaxEntry) < MaxEntry
    <3>1. u # t
      BY <2>5 DEF Acquiring
    <3>2. QED
      BY <1>2, <2>1, <2>5, <3>1 DEF InBuffer
  <2>6. QED
    BY <2>3, <2>4, <2>5 DEF InBuffer
<1>14. HandlerWaits'
  <2>1. fatal \/ t # Handler
    BY LogRingAssumption DEF Runs
  <2>2. Handler \in Process
    BY DEF Process
  <2>3. QED
    BY <1>2, <2>1, <2>2 DEF View, HandlerWaits
<1>15. AfterFatal(H, T, E)'
  <2>1. Handler \in Process
    BY DEF Process
  <2>2. AfterFatal(H, T, D)
    BY DEF View
  <2>3. ASSUME fatal, clean
        PROVE  /\ ~stomped'
               /\ \A u \in Writers : ~Unsettled(u)'
               /\ writer'[Handler].pc \in {"length", "cas_tail"} => E[Handler] = T
               /\ writer'[Handler].pc = "mark" => E[Handler] < T /\ H <= E[Handler] + Size
    <3>1. t = Handler /\ \A u \in Writers : u # t /\ u \in Process
      BY <2>3, LogRingAssumption DEF Runs, Process
    <3>2. QED
      BY <2>2, <2>3, <3>1 DEF AfterFatal, Unsettled
  <2>4. QED
    BY <2>3 DEF AfterFatal
<1>16. QED
  BY <1>17, <1>4, <1>5, <1>6, <1>7, <1>8, <1>9, <1>10, <1>11, <1>12, <1>13, <1>14, <1>15 DEF View

(* What lies where it was reserved before the ring was last at rest.       *)
LEMMA EntryAt ==
  ASSUME TypeOK, NEW H \in Nat, NEW T \in Nat, NEW B \in Nat, NEW M \in SUBSET Nat,
         NEW O \in [Process -> Nat], NEW D \in [Process -> Nat], View(H, T, B, M, O, D),
         NEW p \in M, p < H, \A t \in Process : Holding(t) => O[t] # p
  PROVE  \E e \in published : /\ e.off = Wrap(p) /\ Adjacent(M, p, p + e.len)
                              /\ Header < e.len /\ e.len <= MaxEntry /\ Reads(e.off, e.len)
                              /\ (~stomped => mem[Cell(e.off)] = e.type)
<1>1. PICK e \in published : e.off = Wrap(p)
  BY DEF View, AllOwned
<1>2. PICK q \in M : e.off = Wrap(q) /\ Adjacent(M, q, q + e.len)
  BY DEF View, PublishedLies
<1>3. p \in Int /\ q \in Int /\ T <= p /\ p <= H /\ T <= q /\ q <= H /\ H - T <= Size
  BY DEF View, Agree
<1>4. p = q
  <2>1. Wrap(p) = Wrap(q) /\ p - q < OffMod /\ q - p < OffMod
    BY <1>1, <1>2, <1>3, Sizes
  <2>2. QED
    BY <1>3, <2>1, WrapSame
<1>5. Header < e.len /\ e.len <= MaxEntry
  BY DEF View, PublishedLies
<1>6. QED
  BY <1>1, <1>2, <1>4, <1>5 DEF View, LengthsTell

(* head is loaded (line 88): what was loaded stands for the place of head. *)
LEMMA LoadHeadKeeps ==
  ASSUME TypeOK, TypeOK', Roomy, NEW H \in Nat, NEW T \in Nat, NEW B \in Nat,
         NEW M \in SUBSET Nat, NEW O \in [Process -> Nat], NEW D \in [Process -> Nat],
         View(H, T, B, M, O, D), NEW t \in Process, LoadHead(t)
  PROVE  \E P \in [Process -> Nat] : View(H, T, B, M, P, D)'
<1>1. PICK P \in [Process -> Nat] : P[t] = H /\ \A u \in Process : u # t => P[u] = O[u]
  <2>1. [O EXCEPT ![t] = H] \in [Process -> Nat]
    OBVIOUS
  <2>2. QED
    BY <2>1
<1>2. /\ writer'[t].pc = "space" /\ writer'[t].off = head
      /\ writer'[t].second = writer[t].second /\ writer[t].pc = "load" /\ Runs(t)
      /\ \A u \in Process : u # t => writer'[u] = writer[u]
      /\ UNCHANGED <<mem, head, tail, published, stomped, fatal, clean, overlaps>>
  BY DEF LoadHead, At, TypeOK, bookkeeping, ghosts
<1>3. /\ writer'[t].off = Wrap(P[t]) /\ B <= P[t] /\ P[t] <= H + MaxEntry /\ P[t] - T <= Size
      /\ P[t] <= H
  BY <1>1, <1>2, Sizes DEF View, Agree
<1>4. /\ writer[t].pc \in Acquiring /\ writer'[t].pc \in Acquiring
      /\ t \notin Deciders' /\ ~Freeing(t)'
  BY <1>2 DEF Acquiring, Deciders, Freeing
<1>5. View(H, T, B, M, P, D)'
  <2>1. /\ writer'[t].second <=> writer[t].second
        /\ UNCHANGED <<head, tail, published, fatal, clean, overlaps>>
        /\ UNCHANGED <<mem, stomped>> /\ Runs(t)
        /\ \A u \in Process : u # t => writer'[u] = writer[u] /\ P[u] = O[u] /\ D[u] = D[u]
    BY <1>1, <1>2
  <2>2. /\ writer'[t].pc # "cas_tail" /\ writer'[t].pc # "cas_head"
        /\ writer'[t].pc \notin {"length", "cas_tail", "mark"}
    BY <1>2
  <2>3. QED
    BY <1>3, <1>4, <2>1, <2>2, AcquiringStep
<1>6. QED
  BY <1>1, <1>5

(* The free space is compared with the longest entry (line 91), with a     *)
(* head that may be stale and the tail of the moment.                      *)
LEMMA CheckSpaceKeeps ==
  ASSUME TypeOK, TypeOK', Roomy, NEW H \in Nat, NEW T \in Nat, NEW B \in Nat,
         NEW M \in SUBSET Nat, NEW O \in [Process -> Nat], NEW D \in [Process -> Nat],
         View(H, T, B, M, O, D), NEW t \in Process, CheckSpace(t)
  PROVE  View(H, T, B, M, O, D)'
<1>1. /\ writer'[t].off = writer[t].off
      /\ writer'[t].second = writer[t].second /\ writer[t].pc = "space" /\ Runs(t)
      /\ \A u \in Process : u # t => writer'[u] = writer[u]
      /\ UNCHANGED <<mem, head, tail, published, stomped, fatal, clean, overlaps>>
  BY DEF CheckSpace, Goto, At, TypeOK, bookkeeping, ghosts
<1>2. Loaded(t)
  BY <1>1 DEF Loaded
<1>3. /\ writer[t].off = Wrap(O[t]) /\ B <= O[t] /\ O[t] <= H + MaxEntry /\ O[t] - T <= Size
      /\ \A u \in Process : Filled(u) /\ O[u] + MaxEntry = H => O[t] <= H
      /\ tail = Wrap(T) /\ T <= B
  BY <1>2 DEF View, Agree, CallsAgree, Seen
<1>4. Minus(Size, Minus(writer[t].off, tail)) = Size - (O[t] - T)
  <2>1. O[t] \in Int /\ T \in Int /\ T <= O[t] /\ O[t] - T < OffMod
    BY <1>3, Sizes
  <2>2. Minus(writer[t].off, tail) = O[t] - T
    BY <1>3, <2>1, WrapMinus
  <2>3. O[t] - T \in Nat /\ O[t] - T <= Size /\ Size < OffMod /\ Size \in Nat
    BY <1>3, <2>1, Sizes
  <2>4. QED
    BY <2>2, <2>3, SmallMinus
<1>5. CASE Size - (O[t] - T) < MaxEntry
  <2>1. writer'[t].pc = "tail"
    BY <1>4, <1>5 DEF CheckSpace, Goto, TypeOK
  <2>2. T + Room(Left) <= B
    BY <1>3, <1>5, ViewTyped, Sizes DEF View, Budget
  <2>3. /\ writer[t].pc \in Acquiring /\ writer'[t].pc \in Acquiring /\ ~Freeing(t)'
    BY <1>1, <2>1 DEF Acquiring, Freeing
  <2>4. QED
    BY <1>1, <1>3, <2>1, <2>2, <2>3, AcquiringStep
<1>6. CASE ~(Size - (O[t] - T) < MaxEntry)
  <2>1. writer'[t].pc = "cas_head"
    BY <1>4, <1>6 DEF CheckSpace, Goto, TypeOK
  <2>2. O[t] + MaxEntry - T <= Size
    BY <1>6, Sizes
  <2>3. /\ writer[t].pc \in Acquiring /\ writer'[t].pc \in Acquiring /\ ~Freeing(t)' /\ t \notin Deciders'
    BY <1>1, <2>1 DEF Acquiring, Freeing, Deciders
  <2>4. QED
    BY <1>1, <1>3, <2>1, <2>2, <2>3, AcquiringStep
<1>7. QED
  BY <1>5, <1>6

(* tail is loaded (line 98): what was loaded stands for the place of tail. *)
LEMMA LoadTailKeeps ==
  ASSUME TypeOK, TypeOK', Roomy, NEW H \in Nat, NEW T \in Nat, NEW B \in Nat,
         NEW M \in SUBSET Nat, NEW O \in [Process -> Nat], NEW D \in [Process -> Nat],
         View(H, T, B, M, O, D), NEW t \in Process, LoadTail(t)
  PROVE  \E E \in [Process -> Nat] : View(H, T, B, M, O, E)'
<1>1. PICK E \in [Process -> Nat] : E[t] = T /\ \A u \in Process : u # t => E[u] = D[u]
  <2>1. [D EXCEPT ![t] = T] \in [Process -> Nat]
    OBVIOUS
  <2>2. QED
    BY <2>1
<1>2. /\ writer'[t].pc = "length" /\ writer'[t].old = tail /\ writer'[t].off = writer[t].off
      /\ writer'[t].second = writer[t].second /\ writer[t].pc = "tail" /\ Runs(t)
      /\ \A u \in Process : u # t => writer'[u] = writer[u]
      /\ UNCHANGED <<mem, head, tail, published, stomped, fatal, clean, overlaps>>
  BY DEF LoadTail, At, TypeOK, bookkeeping, ghosts
<1>3. Loaded(t)
  BY <1>2 DEF Loaded
<1>4. /\ writer[t].off = Wrap(O[t]) /\ B <= O[t] /\ O[t] <= H + MaxEntry /\ O[t] - T <= Size
      /\ \A u \in Process : Filled(u) /\ O[u] + MaxEntry = H => O[t] <= H
  BY <1>3 DEF View, CallsAgree, Seen
<1>5. /\ writer[t].pc \in Acquiring /\ writer'[t].pc \in Acquiring /\ t \in Deciders
  BY <1>2 DEF Acquiring, Deciders
<1>6. writer'[t].old = Wrap(E[t]) /\ E[t] <= T /\ B <= E[t] + Size
  BY <1>1, <1>2, Sizes DEF View, Agree
<1>7. /\ fatal /\ clean /\ t = Handler =>
             /\ writer'[t].pc \in {"length", "cas_tail"} => E[t] = T
             /\ writer'[t].pc = "mark" => E[t] < T /\ H <= E[t] + Size
      /\ writer'[t].pc = "cas_tail" /\ E[t] = T =>
             \/ writer'[t].length = 0 /\ stomped
             \/ Adjacent(M, T, T + writer'[t].length)
      /\ writer'[t].pc # "cas_head"
  BY <1>1, <1>2
<1>8. View(H, T, B, M, O, E)'
  <2>1. \A u \in Process : u # t => writer'[u] = writer[u] /\ E[u] = D[u]
    BY <1>1, <1>2
  <2>2. Loaded(t)' => /\ writer'[t].off = Wrap(O[t]) /\ B <= O[t]
                      /\ O[t] <= H + MaxEntry /\ O[t] - T <= Size
                      /\ \A u \in Process : Filled(u) /\ O[u] + MaxEntry = H => O[t] <= H
                      /\ writer'[t].pc = "cas_head" => O[t] + MaxEntry - T <= Size
    BY <1>2, <1>4
  <2>3. Freeing(t)' => writer'[t].old = Wrap(E[t]) /\ E[t] <= T /\ B <= E[t] + Size
    BY <1>6
  <2>4. t \notin Deciders => t \notin Deciders' \/ T + Room(Left) <= B
    BY <1>5
  <2>5. fatal /\ clean /\ t = Handler =>
             /\ writer'[t].pc \in {"length", "cas_tail"} => E[t] = T
             /\ writer'[t].pc = "mark" => E[t] < T /\ H <= E[t] + Size
    BY <1>7
  <2>6. writer'[t].pc = "cas_tail" /\ E[t] = T =>
             \/ writer'[t].length = 0 /\ stomped
             \/ Adjacent(M, T, T + writer'[t].length)
    BY <1>7
  <2>7. /\ Runs(t)
        /\ writer'[t].second <=> writer[t].second
        /\ UNCHANGED <<mem, head, tail, published, stomped, fatal, clean, overlaps>>
    BY <1>2
  <2>8. writer'[t].pc \in Acquiring \union {"failed"}
    BY <1>5
  <2>10. UNCHANGED <<mem, stomped>> /\ UNCHANGED <<head, tail, published, fatal, clean, overlaps>>
    BY <1>2
  <2> HIDE DEF View
  <2>9. QED
    BY <2>10, <1>5, <2>1, <2>2, <2>3, <2>4, <2>5, <2>6, <2>7, <2>8, AcquiringStep, SMTT(30)
<1>9. QED
  BY <1>1, <1>8

(* The length at a tail that may be stale is loaded (line 101): if it is   *)
(* still tail, the byte is the length of the entry there.                  *)
LEMMA LoadLengthKeeps ==
  ASSUME TypeOK, TypeOK', Roomy, NEW H \in Nat, NEW T \in Nat, NEW B \in Nat,
         NEW M \in SUBSET Nat, NEW O \in [Process -> Nat], NEW D \in [Process -> Nat],
         View(H, T, B, M, O, D), NEW t \in Process, LoadLength(t)
  PROVE  View(H, T, B, M, O, D)'
<1>1. /\ writer'[t].off = writer[t].off
      /\ writer'[t].second = writer[t].second /\ writer[t].pc = "length" /\ Runs(t)
      /\ \A u \in Process : u # t => writer'[u] = writer[u]
      /\ UNCHANGED <<mem, head, tail, published, stomped, fatal, clean, overlaps>>
  BY DEF LoadLength, At, TypeOK, bookkeeping, ghosts
<1>2. \/ writer'[t].pc = "failed"
      \/ /\ writer'[t].pc = "cas_tail" /\ writer'[t].length = LengthAt(writer[t].old)
         /\ writer'[t].old = writer[t].old
  BY DEF LoadLength, TypeOK
<1>3. Loaded(t) /\ Freeing(t) /\ t \in Deciders /\ writer[t].pc \in Acquiring
  BY <1>1 DEF Loaded, Freeing, Deciders, Acquiring
<1>4. /\ writer[t].off = Wrap(O[t]) /\ B <= O[t] /\ O[t] <= H + MaxEntry /\ O[t] - T <= Size
      /\ \A u \in Process : Filled(u) /\ O[u] + MaxEntry = H => O[t] <= H
      /\ writer[t].old = Wrap(D[t]) /\ D[t] <= T /\ B <= D[t] + Size
  BY <1>3 DEF View, CallsAgree, Seen
<1>5. fatal /\ clean /\ t = Handler => D[t] = T
  BY <1>1 DEF View, AfterFatal
<1>6. CASE writer'[t].pc = "failed"
  <2>1. ~Loaded(t)' /\ ~Freeing(t)' /\ t \notin Deciders'
    BY <1>6 DEF Loaded, Freeing, Deciders
  <2>2. QED
    BY <1>1, <1>3, <1>6, <2>1, AcquiringStep
<1>7. CASE writer'[t].pc = "cas_tail"
  <2>1. D[t] = T => \/ writer'[t].length = 0 /\ stomped
                    \/ Adjacent(M, T, T + writer'[t].length)
    <3> SUFFICES ASSUME D[t] = T
                 PROVE  \/ writer'[t].length = 0 /\ stomped
                        \/ Adjacent(M, T, T + writer'[t].length)
      OBVIOUS
    <3>1. T + MaxEntry <= B
      BY <1>3, ViewTyped DEF View
    <3>2. T \in M /\ T < H /\ \A u \in Process : Holding(u) => O[u] # T
      BY <3>1, Sizes DEF View, Agree, CallsAgree
    <3>3. PICK e \in published : /\ e.off = Wrap(T) /\ Adjacent(M, T, T + e.len)
                                 /\ Reads(e.off, e.len)
      BY <3>2, EntryAt
    <3>4. QED
      BY <1>2, <1>4, <1>7, <3>3 DEF Reads
  <2>2. writer'[t].pc \in Acquiring
    BY <1>7 DEF Acquiring
  <2>3. QED
    BY <1>1, <1>2, <1>3, <1>4, <1>5, <1>7, <2>1, <2>2, AcquiringStep
<1>8. QED
  BY <1>2, <1>6, <1>7

(* The exchange of tail fails (line 116): another call moved it, or it     *)
(* failed all the same.                                                    *)
LEMMA TailMovedOn ==
  ASSUME TypeOK, TypeOK', Roomy, NEW H \in Nat, NEW T \in Nat, NEW B \in Nat,
         NEW M \in SUBSET Nat, NEW O \in [Process -> Nat], NEW D \in [Process -> Nat],
         View(H, T, B, M, O, D), NEW t \in Process, MoveTail(t), writer'[t].pc = "space"
  PROVE  View(H, T, B, M, O, D)'
<1>1. /\ writer'[t].off = writer[t].off /\ writer'[t].pc = "space"
      /\ writer'[t].second = writer[t].second /\ writer[t].pc = "cas_tail" /\ Runs(t)
      /\ \A u \in Process : u # t => writer'[u] = writer[u]
      /\ UNCHANGED <<mem, head, tail, published, stomped, fatal, clean, overlaps>>
  BY DEF MoveTail, At, TypeOK, bookkeeping
<1>2. Loaded(t) /\ t \in Deciders /\ writer[t].pc \in Acquiring
      /\ writer'[t].pc \in Acquiring /\ ~Freeing(t)'
  BY <1>1 DEF Loaded, Freeing, Deciders, Acquiring
<1>3. /\ writer[t].off = Wrap(O[t]) /\ B <= O[t] /\ O[t] <= H + MaxEntry /\ O[t] - T <= Size
      /\ \A u \in Process : Filled(u) /\ O[u] + MaxEntry = H => O[t] <= H
  BY <1>2 DEF View, CallsAgree, Seen
<1>4. QED
  BY <1>1, <1>2, <1>3, AcquiringStep

(* The exchange of head fails (line 124) in the same way.                  *)
LEMMA HeadMovedOn ==
  ASSUME TypeOK, TypeOK', Roomy, NEW H \in Nat, NEW T \in Nat, NEW B \in Nat,
         NEW M \in SUBSET Nat, NEW O \in [Process -> Nat], NEW D \in [Process -> Nat],
         View(H, T, B, M, O, D), NEW t \in Process, MoveHead(t), writer'[t].pc = "load"
  PROVE  View(H, T, B, M, O, D)'
<1>1. /\ writer'[t].pc = "load"
      /\ writer'[t].second = writer[t].second /\ writer[t].pc = "cas_head" /\ Runs(t)
      /\ \A u \in Process : u # t => writer'[u] = writer[u]
      /\ UNCHANGED <<mem, head, tail, published, stomped, fatal, clean, overlaps>>
  BY DEF MoveHead, Goto, At, TypeOK, bookkeeping, ghosts
<1>2. writer[t].pc \in Acquiring /\ writer'[t].pc \in Acquiring
      /\ ~Loaded(t)' /\ ~Freeing(t)' /\ t \notin Deciders'
  BY <1>1 DEF Loaded, Freeing, Deciders, Acquiring
<1>3. QED
  BY <1>1, <1>2, AcquiringStep

----------------------------------------------------------------------------
(* Steps of a call that only fill what it has reserved                     *)

(* Two entries have no byte in common.                                     *)
LEMMA EntriesApart ==
  ASSUME NEW H \in Nat, NEW T \in Nat, NEW B \in Nat, NEW M \in SUBSET Nat, Agree(H, T, B, M)
  PROVE  \A p, m, q, n \in Nat :
           Adjacent(M, p, p + m) /\ Adjacent(M, q, q + n) /\ p # q =>
             CellsOf(p, m) \intersect CellsOf(q, n) = {}
<1> SUFFICES ASSUME NEW p \in Nat, NEW m \in Nat, NEW q \in Nat, NEW n \in Nat,
                    Adjacent(M, p, p + m), Adjacent(M, q, q + n), p # q
             PROVE  CellsOf(p, m) \intersect CellsOf(q, n) = {}
  OBVIOUS
<1>1. /\ T <= p /\ T <= q /\ p + m <= H /\ q + n <= H /\ H - T <= Size
      /\ p + m <= q \/ q + n <= p
  BY DEF Agree, Adjacent
<1>2. CASE p + m <= q
  BY <1>1, <1>2, CellsApart, Sizes
<1>3. CASE q + n <= p
  BY <1>1, <1>3, CellsApart, Sizes
<1>4. QED
  BY <1>1, <1>2, <1>3

(* Where an entry has its type and its length.                             *)
LEMMA HeaderCells ==
  ASSUME NEW p \in Nat, NEW n \in Nat, 1 < n
  PROVE  /\ Cell(Wrap(p)) \in CellsOf(p, n) /\ Cell(Wrap(p) + 1) \in CellsOf(p, n)
         /\ Cell(Wrap(p)) = Cell(p) /\ Cell(Wrap(p) + 1) = Cell(p + 1)
         /\ Cell(p) \in 0..Size - 1 /\ Cell(p + 1) \in 0..Size - 1
<1>1. 0 \in 0..n - 1 /\ 1 \in 0..n - 1 /\ p \in Int /\ n \in Int /\ p + 0 = p /\ p + 1 \in Int
  OBVIOUS
<1>2. Cell(p + 0) \in CellsOf(p, n) /\ Cell(p + 1) \in CellsOf(p, n)
  BY <1>1, CellIn
<1>3. Cell(Wrap(p)) = Cell(p) /\ Cell(Wrap(p) + 1) = Cell(p + 1)
  BY <1>1, WrapCell, WrapCell0
<1>4. QED
  BY <1>1, <1>2, <1>3, Ranges

(* What a call holds is more than a header and at most the longest entry.  *)
LEMMA HeldSize ==
  ASSUME TypeOK, NEW t \in Process
  PROVE  Held(t) \in Nat /\ Header < Held(t) /\ Held(t) <= MaxEntry /\ Header = 2 /\ 1 < Held(t)
BY CallTyped, Sizes DEF Held, Header

(* The entries published are typed.                                        *)
LEMMA PublishedTyped ==
  ASSUME TypeOK, NEW e \in published
  PROVE  /\ e.off \in Offset /\ e.len \in Byte /\ e.len \in Nat
         /\ e.type \in {LOG_EMPTY, LOG_COMMITTED}
<1>1. e \in Published
  BY DEF TypeOK
<1>2. e.off \in Offset /\ e.len \in Byte /\ e.type \in {LOG_EMPTY, LOG_COMMITTED}
  BY <1>1 DEF Published
<1>3. QED
  BY <1>2, Bytes

(* Stores into what a call has reserved reach no entry of another.         *)
LEMMA OthersKeepBytes ==
  ASSUME TypeOK, NEW H \in Nat, NEW T \in Nat, NEW B \in Nat, NEW M \in SUBSET Nat,
         NEW O \in [Process -> Nat], NEW D \in [Process -> Nat], View(H, T, B, M, O, D),
         NEW t \in Process, Holding(t),
         \A c \in 0..Size - 1 : c \notin CellsOf(O[t], Held(t)) => mem'[c] = mem[c]
  PROVE  /\ \A e \in published : LengthAt(e.off)' = LengthAt(e.off)
                                 /\ mem'[Cell(e.off)] = mem[Cell(e.off)]
         /\ \A u \in Process : u # t /\ Holding(u) =>
              /\ mem'[Cell(writer[u].off + 1)] = mem[Cell(writer[u].off + 1)]
              /\ mem'[Cell(writer[u].off)] = mem[Cell(writer[u].off)]
<1>1. /\ Adjacent(M, O[t], O[t] + Held(t)) /\ O[t] \in Nat /\ Held(t) \in Nat
      /\ Agree(H, T, B, M)
  BY HeldSize DEF View, Claims
<1>0. \A p, m, q, n \in Nat :
        Adjacent(M, p, p + m) /\ Adjacent(M, q, q + n) /\ p # q =>
          CellsOf(p, m) \intersect CellsOf(q, n) = {}
  BY <1>1, EntriesApart
<1>2. ASSUME NEW e \in published
      PROVE  LengthAt(e.off)' = LengthAt(e.off) /\ mem'[Cell(e.off)] = mem[Cell(e.off)]
  <2>1. PICK p \in M : /\ e.off = Wrap(p) /\ Adjacent(M, p, p + e.len) /\ O[t] # p
    BY DEF View, PublishedLies
  <2>2. p \in Nat /\ e.len \in Nat /\ 1 < e.len
    BY PublishedTyped DEF View, PublishedLies, Header
  <2>3. CellsOf(p, e.len) \intersect CellsOf(O[t], Held(t)) = {}
    BY <1>0, <1>1, <2>1, <2>2
  <2>4. QED
    BY <2>1, <2>2, <2>3, HeaderCells DEF LengthAt
<1>3. ASSUME NEW u \in Process, u # t, Holding(u)
      PROVE  /\ mem'[Cell(writer[u].off + 1)] = mem[Cell(writer[u].off + 1)]
             /\ mem'[Cell(writer[u].off)] = mem[Cell(writer[u].off)]
  <2>1. Adjacent(M, O[u], O[u] + Held(u)) /\ O[u] # O[t] /\ writer[u].off = Wrap(O[u])
    BY <1>3 DEF View, Claims, CallsAgree
  <2>2. O[u] \in Nat /\ Held(u) \in Nat /\ 1 < Held(u)
    BY HeldSize
  <2>3. CellsOf(O[u], Held(u)) \intersect CellsOf(O[t], Held(t)) = {}
    <3> DEFINE p == O[u]
               q == O[t]
               m == Held(u)
               n == Held(t)
    <3>1. /\ Adjacent(M, p, p + m) /\ Adjacent(M, q, q + n) /\ p # q
          /\ p \in Nat /\ q \in Nat /\ m \in Nat /\ n \in Nat
      BY <1>1, <2>1, <2>2
    <3> HIDE DEF p, q, m, n
    <3>2. CellsOf(p, m) \intersect CellsOf(q, n) = {}
      BY <1>0, <3>1
    <3>3. QED
      BY <3>2 DEF p, q, m, n
  <2>4. QED
    BY <2>1, <2>2, <2>3, HeaderCells
<1>4. QED
  BY <1>2, <1>3

(* A store into what the call holds, and nothing else, keeps the view.     *)
LEMMA FillingStep ==
  ASSUME TypeOK, TypeOK', NEW H \in Nat, NEW T \in Nat, NEW B \in Nat, NEW M \in SUBSET Nat,
         NEW O \in [Process -> Nat], NEW D \in [Process -> Nat], View(H, T, B, M, O, D),
         NEW t \in Process, Runs(t), Holding(t), Holding(t)', Held(t)' = Held(t),
         writer'[t].off = writer[t].off,
         Filled(t)' => Filled(t),
         t \in Seconds' => t \in Seconds,
         \A u \in Process : u # t => writer'[u] = writer[u],
         UNCHANGED <<head, tail, published, stomped, fatal, clean, overlaps>>,
         \A c \in 0..Size - 1 : c \notin CellsOf(O[t], Held(t)) => mem'[c] = mem[c],
         writer'[t].pc \in {"empty", "text", "shrink", "commit", "store_len"} =>
           Reads(writer[t].off, MaxEntry)',
         writer'[t].pc = "commit_short" => Reads(writer[t].off, EntryLength(t))',
         writer'[t].pc # "type" => mem'[Cell(writer[t].off)] = LOG_INVALID,
         writer'[t].second \/ writer'[t].pc \notin {"type", "len", "empty"} =>
           Cell(writer[t].off) + MaxEntry <= Size,
         writer'[t].pc = "empty" => ~writer'[t].second /\ Cell(O[t] + MaxEntry) < MaxEntry
  PROVE  View(H, T, B, M, O, D)'
<1>1. /\ writer[t].pc \notin Acquiring /\ writer'[t].pc \notin Acquiring
      /\ ~Loaded(t) /\ ~Loaded(t)' /\ ~Freeing(t) /\ ~Freeing(t)'
      /\ t \notin Deciders /\ t \notin Deciders'
  BY DEF Holding, Filling, Shrunk, Acquiring, Loaded, Freeing, Deciders
<1>2. ASSUME NEW u \in Process, u # t
      PROVE  /\ Holding(u)' <=> Holding(u)
             /\ Filled(u)' <=> Filled(u)
             /\ Loaded(u)' <=> Loaded(u)
             /\ Freeing(u)' <=> Freeing(u)
             /\ Held(u)' = Held(u)
             /\ EntryLength(u)' = EntryLength(u)
             /\ writer'[u] = writer[u]
  BY <1>2 DEF Holding, Filled, Loaded, Freeing, Held, EntryLength
<1>3. ASSUME NEW u \in Process
      PROVE  /\ Holding(u)' <=> Holding(u)
             /\ Filled(u)' => Filled(u)
             /\ Loaded(u)' <=> Loaded(u)
             /\ Loaded(u) => writer'[u] = writer[u]
             /\ Freeing(u)' <=> Freeing(u)
             /\ Freeing(u) => writer'[u] = writer[u]
             /\ writer'[u].off = writer[u].off
             /\ Held(u)' = Held(u)
  BY <1>1, <1>2
<1>4. Agree(H, T, B, M)'
  BY DEF View, Agree
<1>5. CallsAgree(T, B, O, D)'
  <2>1. CallsAgree(T, B, O, D)
    BY DEF View
  <2>2. QED
    BY <1>3, <2>1 DEF CallsAgree
<1>6. Budget(H, T, B)'
  <2>1. Firsts' \subseteq Firsts /\ Seconds' \subseteq Seconds /\ Deciders' = Deciders
    <3>1. Firsts' \subseteq Firsts
      BY <1>1, <1>2 DEF Firsts
    <3>2. \A u \in Process : u # t /\ u \in Seconds' => u \in Seconds
      BY <1>2 DEF Seconds
    <3>3. Seconds' \subseteq Seconds
      BY <3>2 DEF Seconds
    <3>4. \A u \in Process : u # t => (u \in Deciders' <=> u \in Deciders)
      BY <1>2 DEF Deciders
    <3>5. Deciders' = Deciders
      BY <1>1, <3>4 DEF Deciders
    <3>6. QED
      BY <3>1, <3>3, <3>5
  <2>2. Room(Left') <= Room(Left) /\ Room(Left') \in Nat
    BY <2>1, LeftKept
  <2>3. Left \in Nat /\ Room(Left) \in Nat /\ Window \in Nat
    <3>1. Left \in Nat /\ 2 * MaxOverlaps + 4 \in Nat
      BY LeftTyped, LogRingAssumption
    <3>2. QED
      BY <3>1, RoomGrows DEF Window
  <2>4. QED
    BY <2>1, <2>2, <2>3 DEF View, Budget
<1>7. Seen(H, T, O)'
  <2>1. Seen(H, T, O)
    BY DEF View
  <2>2. QED
    BY <1>3, <2>1 DEF Seen
<1>8. Claims(M, O)'
  <2>1. Claims(M, O)
    BY DEF View
  <2>2. QED
    BY <1>3, <2>1 DEF Claims
<1>9. PublishedLies(M, O)'
  <2>1. ASSUME NEW e \in published
        PROVE  /\ Header < e.len /\ e.len <= MaxEntry
               /\ \E p \in M : /\ e.off = Wrap(p) /\ Adjacent(M, p, p + e.len)
                               /\ \A u \in Process : Holding(u)' => O[u] # p
    BY <1>3 DEF View, PublishedLies
  <2>2. QED
    BY <2>1 DEF PublishedLies
<1>10. AllOwned(H, M, O)'
  BY <1>3 DEF View, AllOwned
<1>11. LengthsTell'
  <2>1. LengthsTell
    BY DEF View
  <2>2. /\ \A e \in published : LengthAt(e.off)' = LengthAt(e.off)
                                /\ mem'[Cell(e.off)] = mem[Cell(e.off)]
        /\ \A u \in Process : u # t /\ Holding(u) =>
             mem'[Cell(writer[u].off + 1)] = mem[Cell(writer[u].off + 1)]
    BY OthersKeepBytes
  <2>3. \A e \in published' : Reads(e.off, e.len)' /\ (~stomped' => mem'[Cell(e.off)] = e.type)
    BY <2>1, <2>2 DEF LengthsTell, Reads
  <2>4. ASSUME NEW u \in Process, u # t
        PROVE  /\ writer'[u].pc \in {"empty", "text", "shrink", "commit", "store_len"} =>
                   Reads(writer[u].off, MaxEntry)'
               /\ writer'[u].pc = "commit_short" => Reads(writer[u].off, EntryLength(u))'
    <3>1. writer'[u] = writer[u] /\ EntryLength(u)' = EntryLength(u)
      BY <1>2, <2>4
    <3>2. CASE Holding(u)
      <4>1. LengthAt(writer[u].off)' = LengthAt(writer[u].off)
        BY <2>2, <2>4, <3>1, <3>2 DEF LengthAt
      <4>2. /\ Reads(writer[u].off, MaxEntry)' <=> Reads(writer[u].off, MaxEntry)
            /\ Reads(writer[u].off, EntryLength(u))' <=> Reads(writer[u].off, EntryLength(u))
        BY <3>1, <4>1 DEF Reads
      <4>3. QED
        BY <2>1, <3>1, <4>2 DEF LengthsTell
    <3>3. CASE ~Holding(u)
      BY <3>1, <3>3 DEF Holding, Filling, Shrunk
    <3>4. QED
      BY <3>2, <3>3
  <2>5. QED
    BY <2>3, <2>4 DEF LengthsTell
<1>17. Unfinished'
  <2>1. Unfinished
    BY DEF View
  <2>2. ASSUME NEW u \in Process, u # t,
               writer'[u].pc \in {"len", "empty", "text", "shrink", "commit", "store_len", "commit_short"}
        PROVE  mem'[Cell(writer'[u].off)] = LOG_INVALID
    <3>1. Holding(u) /\ writer'[u] = writer[u]
      BY <1>2, <2>2 DEF Holding, Filling, Shrunk
    <3>2. mem'[Cell(writer[u].off)] = mem[Cell(writer[u].off)]
      BY <2>2, <3>1, OthersKeepBytes
    <3>3. QED
      BY <2>1, <2>2, <3>1, <3>2 DEF Unfinished
  <2>3. QED
    BY <2>2 DEF Unfinished
<1>12. FreesOne(T, M, D)'
  <2>1. FreesOne(T, M, D)
    BY DEF View
  <2>2. writer'[t].pc # "cas_tail"
    BY <1>1 DEF Freeing
  <2>3. QED
    BY <1>2, <2>1, <2>2 DEF FreesOne
<1>13. InBuffer(B, M, O)'
  <2>1. InBuffer(B, M, O)
    BY DEF View
  <2>2. ASSUME NEW u \in Process, writer'[u].pc \in Acquiring, writer'[u].second
        PROVE  \E p \in M : /\ B <= p /\ Cell(p) < MaxEntry
                            /\ \A v \in Process : Filled(v)' => O[v] + MaxEntry # p
    <3>1. writer[u].pc \in Acquiring /\ writer[u].second
      BY <1>1, <1>2, <2>2
    <3>2. QED
      BY <1>3, <2>1, <3>1 DEF InBuffer
  <2>3. ASSUME NEW u \in Process, Holding(u)',
               writer'[u].second \/ writer'[u].pc \notin {"type", "len", "empty"}
        PROVE  Cell(writer'[u].off) + MaxEntry <= Size
    BY <1>2, <2>1, <2>3 DEF InBuffer
  <2>4. ASSUME NEW u \in Process, writer'[u].pc = "empty"
        PROVE  ~writer'[u].second /\ Cell(O[u] + MaxEntry) < MaxEntry
    BY <1>2, <2>1, <2>4 DEF InBuffer
  <2>5. QED
    BY <2>2, <2>3, <2>4 DEF InBuffer
<1>14. HandlerWaits'
  <2>1. fatal \/ t # Handler
    BY LogRingAssumption DEF Runs
  <2>2. Handler \in Process
    BY DEF Process
  <2>3. QED
    BY <1>2, <2>1, <2>2 DEF View, HandlerWaits
<1>15. AfterFatal(H, T, D)'
  <2>1. AfterFatal(H, T, D) /\ Handler \in Process
    BY DEF View, Process
  <2>2. ASSUME fatal, clean
        PROVE  /\ ~stomped'
               /\ \A u \in Writers : ~Unsettled(u)'
               /\ ~Freeing(Handler)'
    <3>1. t = Handler /\ \A u \in Writers : u # t /\ u \in Process
      BY <2>2, LogRingAssumption DEF Runs, Process
    <3>2. QED
      BY <1>1, <2>1, <2>2, <3>1 DEF AfterFatal, Unsettled
  <2>3. QED
    BY <2>2 DEF AfterFatal, Freeing
<1>16. QED
  BY <1>17, <1>4, <1>5, <1>6, <1>7, <1>8, <1>9, <1>10, <1>11, <1>12, <1>13, <1>14, <1>15 DEF View

(* Where the entry of a call lies, and that its header is inside it.       *)
LEMMA Place ==
  ASSUME TypeOK, NEW H \in Nat, NEW T \in Nat, NEW B \in Nat, NEW M \in SUBSET Nat,
         NEW O \in [Process -> Nat], NEW D \in [Process -> Nat], View(H, T, B, M, O, D),
         NEW t \in Process, Holding(t)
  PROVE  /\ writer[t].off = Wrap(O[t]) /\ writer[t].off \in Int /\ O[t] \in Nat /\ O[t] \in Int
         /\ Cell(writer[t].off) \in CellsOf(O[t], Held(t))
         /\ Cell(writer[t].off + 1) \in CellsOf(O[t], Held(t))
         /\ Cell(writer[t].off) \in 0..Size - 1 /\ Cell(writer[t].off + 1) \in 0..Size - 1
         /\ writer[t].second \/ writer[t].pc \notin {"type", "len", "empty"} =>
              Cell(writer[t].off) + MaxEntry <= Size
<1>1. writer[t].off = Wrap(O[t])
  BY DEF View, CallsAgree
<1>2. O[t] \in Nat /\ Held(t) \in Nat /\ 1 < Held(t)
  BY HeldSize
<1>3. writer[t].off \in Int
  BY CallTyped, Offsets
<1>4. writer[t].second \/ writer[t].pc \notin {"type", "len", "empty"} =>
              Cell(writer[t].off) + MaxEntry <= Size
  BY DEF View, InBuffer
<1>5. QED
  BY <1>1, <1>2, <1>3, <1>4, HeaderCells

(* One byte is stored and no other changes.                                *)
LEMMA StoreOne ==
  ASSUME TypeOK, NEW o \in Int, NEW b, mem' = Stored(o, b)
  PROVE  /\ \A c \in 0..Size - 1 : c # Cell(o) => mem'[c] = mem[c]
         /\ mem'[Cell(o)] = b
<1>1. mem \in [0..Size - 1 -> Byte] /\ Cell(o) \in 0..Size - 1
  BY Ranges DEF TypeOK
<1>2. QED
  BY <1>1 DEF Stored

(* The type and the length of an entry are different bytes.                *)
LEMMA LaterCell ==
  ASSUME TypeOK, NEW H \in Nat, NEW T \in Nat, NEW B \in Nat, NEW M \in SUBSET Nat,
         NEW O \in [Process -> Nat], NEW D \in [Process -> Nat], View(H, T, B, M, O, D),
         NEW t \in Process, Holding(t)
  PROVE  Cell(writer[t].off) # Cell(writer[t].off + 1)
<1>1. writer[t].off = Wrap(O[t]) /\ O[t] \in Nat /\ O[t] \in Int
  BY Place
<1>2. O[t] + 1 \in Int /\ O[t] # O[t] + 1 /\ O[t] - (O[t] + 1) < Size /\ (O[t] + 1) - O[t] < Size
  BY <1>1, Sizes
<1>3. Cell(O[t]) # Cell(O[t] + 1)
  BY <1>1, <1>2, CellSame
<1>4. QED
  BY <1>1, <1>3, HeldSize, HeaderCells

(* The type is stored as LOG_INVALID (line 189).                           *)
LEMMA StoreInvalidKeeps ==
  ASSUME TypeOK, TypeOK', Roomy, NEW H \in Nat, NEW T \in Nat, NEW B \in Nat,
         NEW M \in SUBSET Nat, NEW O \in [Process -> Nat], NEW D \in [Process -> Nat],
         View(H, T, B, M, O, D), NEW t \in Process, StoreInvalid(t)
  PROVE  View(H, T, B, M, O, D)'
<1>1. /\ writer[t].pc = "type" /\ Runs(t) /\ mem' = Stored(writer[t].off, LOG_INVALID)
      /\ writer' = [writer EXCEPT ![t].pc = "len"]
      /\ UNCHANGED <<head, tail, published, stomped, fatal, clean, overlaps>>
  BY DEF StoreInvalid, At, Goto, bookkeeping, ghosts
<1>2. /\ writer'[t].off = writer[t].off /\ writer'[t].pc = "len"
      /\ writer'[t].second = writer[t].second
      /\ \A u \in Process : u # t => writer'[u] = writer[u]
  BY <1>1 DEF TypeOK
<1>3. Holding(t) /\ Holding(t)' /\ Held(t) = MaxEntry /\ Held(t)' = MaxEntry /\ Filled(t)
  BY <1>1, <1>2 DEF Holding, Held, Filled, Filling, Shrunk
<1>4. \A c \in 0..Size - 1 : c \notin CellsOf(O[t], Held(t)) => mem'[c] = mem[c]
  <2>1. Cell(writer[t].off) \in CellsOf(O[t], Held(t)) /\ writer[t].off \in Int
    BY <1>3, Place
  <2>2. \A c \in 0..Size - 1 : c # Cell(writer[t].off) => mem'[c] = mem[c]
    BY <1>1, <2>1, StoreOne
  <2>3. QED
    BY <2>1, <2>2
<1>5. t \in Seconds' => t \in Seconds
  BY <1>1, <1>2 DEF Seconds, Acquiring
<1>6. writer'[t].second \/ writer'[t].pc \notin {"type", "len", "empty"} =>
        Cell(writer[t].off) + MaxEntry <= Size
  BY <1>2, <1>3, Place
<1>8. mem'[Cell(writer[t].off)] = LOG_INVALID
  BY <1>1, <1>3, Place, StoreOne
<1>7. QED
  BY <1>8, <1>1, <1>2, <1>3, <1>4, <1>5, <1>6, FillingStep

(* The length is stored (line 192), and padding is recognised (line 169).  *)
LEMMA StoreLengthKeeps ==
  ASSUME TypeOK, TypeOK', Roomy, NEW H \in Nat, NEW T \in Nat, NEW B \in Nat,
         NEW M \in SUBSET Nat, NEW O \in [Process -> Nat], NEW D \in [Process -> Nat],
         View(H, T, B, M, O, D), NEW t \in Process, StoreLength(t)
  PROVE  View(H, T, B, M, O, D)'
<1>1. /\ writer[t].pc = "len" /\ Runs(t) /\ mem' = Stored(writer[t].off + 1, MaxEntry)
      /\ writer' = [writer EXCEPT ![t].pc = IF Padding(t) THEN "empty" ELSE "text"]
      /\ UNCHANGED <<head, tail, published, stomped, fatal, clean, overlaps>>
  BY DEF StoreLength, At, Goto, bookkeeping, ghosts
<1>2. /\ writer'[t].off = writer[t].off /\ writer'[t].pc = IF Padding(t) THEN "empty" ELSE "text"
      /\ writer'[t].second = writer[t].second
      /\ \A u \in Process : u # t => writer'[u] = writer[u]
  BY <1>1 DEF TypeOK
<1>3. Holding(t) /\ Holding(t)' /\ Held(t) = MaxEntry /\ Held(t)' = MaxEntry /\ Filled(t)
  BY <1>1, <1>2 DEF Holding, Held, Filled, Filling, Shrunk
<1>4. \A c \in 0..Size - 1 : c \notin CellsOf(O[t], Held(t)) => mem'[c] = mem[c]
  <2>1. Cell(writer[t].off + 1) \in CellsOf(O[t], Held(t)) /\ writer[t].off + 1 \in Int
    BY <1>3, Place
  <2>2. \A c \in 0..Size - 1 : c # Cell(writer[t].off + 1) => mem'[c] = mem[c]
    BY <1>1, <2>1, StoreOne
  <2>3. QED
    BY <2>1, <2>2
<1>5. t \in Seconds' => t \in Seconds
  BY <1>1, <1>2 DEF Seconds, Acquiring
<1>6. writer'[t].second \/ writer'[t].pc \notin {"type", "len", "empty"} =>
        Cell(writer[t].off) + MaxEntry <= Size
  <2>1. CASE writer[t].second
    BY <1>3, <2>1, Place
  <2>2. CASE ~writer[t].second /\ ~Padding(t)
    <3>1. ~(Cell(writer[t].off + MaxEntry) < Cell(writer[t].off)) /\ writer[t].off \in Int
      BY <1>3, <2>2, Place DEF Padding
    <3>2. QED
      BY <3>1, NoCrossing
  <2>3. CASE ~writer[t].second /\ Padding(t)
    BY <1>2, <2>3
  <2>4. QED
    BY <2>1, <2>2, <2>3
<1>7. Reads(writer[t].off, MaxEntry)'
  <2>1. LengthAt(writer[t].off)' = MaxEntry
    BY <1>1, <1>2, <1>3, Place, StoreOne DEF LengthAt
  <2>2. QED
    BY <2>1 DEF Reads
<1>8. writer'[t].pc # "commit_short"
  BY <1>2
<1>9. writer'[t].pc = "empty" => ~writer'[t].second /\ Cell(O[t] + MaxEntry) < MaxEntry
  <2> SUFFICES ASSUME Padding(t) PROVE ~writer'[t].second /\ Cell(O[t] + MaxEntry) < MaxEntry
    BY <1>2
  <2>1. /\ ~writer[t].second /\ Cell(writer[t].off + MaxEntry) < Cell(writer[t].off)
        /\ writer[t].off \in Int /\ O[t] \in Int /\ writer[t].off = Wrap(O[t])
    BY <1>3, Place DEF Padding
  <2>2. Cell(writer[t].off + MaxEntry) < MaxEntry
    BY <2>1, Crossing
  <2>3. Cell(writer[t].off + MaxEntry) = Cell(O[t] + MaxEntry)
    BY <2>1, WrapCell, Sizes
  <2>4. QED
    BY <1>2, <2>1, <2>2, <2>3
<1>11. mem'[Cell(writer[t].off)] = LOG_INVALID
  <2>1. Cell(writer[t].off) # Cell(writer[t].off + 1)
    BY <1>3, LaterCell
  <2>2. writer[t].off + 1 \in Int /\ Cell(writer[t].off) \in 0..Size - 1
    BY CallTyped, Offsets, Ranges
  <2>3. mem'[Cell(writer[t].off)] = mem[Cell(writer[t].off)]
    BY <1>1, <2>1, <2>2, StoreOne
  <2>4. mem[Cell(writer[t].off)] = LOG_INVALID
    BY <1>1 DEF View, Unfinished
  <2>5. QED
    BY <2>3, <2>4
<1>10. QED
  BY <1>11, <1>1, <1>2, <1>3, <1>4, <1>5, <1>6, <1>7, <1>8, <1>9, FillingStep

(* The message is written (line 200).                                      *)
LEMMA StoreMessageKeeps ==
  ASSUME TypeOK, TypeOK', Roomy, NEW H \in Nat, NEW T \in Nat, NEW B \in Nat,
         NEW M \in SUBSET Nat, NEW O \in [Process -> Nat], NEW D \in [Process -> Nat],
         View(H, T, B, M, O, D), NEW t \in Process, StoreMessage(t)
  PROVE  View(H, T, B, M, O, D)'
<1> DEFINE first == Cell(writer[t].off) + Header
           last == first + writer[t].msg - 1
           next == IF writer[t].msg < MaxEntry - Header THEN "shrink" ELSE "commit"
<1>1. /\ writer[t].pc = "text" /\ Runs(t)
      /\ mem' = [p \in DOMAIN mem |-> IF p \in first..last THEN Text ELSE mem[p]]
      /\ writer' = [writer EXCEPT ![t].pc = next]
      /\ UNCHANGED <<head, tail, published, stomped, fatal, clean, overlaps>>
  BY DEF StoreMessage, At, Goto, bookkeeping, ghosts
<1>2. /\ writer'[t].off = writer[t].off /\ writer'[t].pc \in {"shrink", "commit"}
      /\ writer'[t].second = writer[t].second
      /\ \A u \in Process : u # t => writer'[u] = writer[u]
  BY <1>1 DEF TypeOK
<1>3. Holding(t) /\ Holding(t)' /\ Held(t) = MaxEntry /\ Held(t)' = MaxEntry /\ Filled(t)
  BY <1>1, <1>2 DEF Holding, Held, Filled, Filling, Shrunk
<1>4. Cell(writer[t].off) + MaxEntry <= Size /\ Cell(writer[t].off) \in 0..Size - 1
  BY <1>1, <1>3, Place
<1>5. /\ first \in Int /\ last \in Int /\ Cell(writer[t].off) + 2 = first
      /\ last < Cell(writer[t].off) + MaxEntry
  BY <1>4, CallTyped, Sizes DEF Header
<1> HIDE DEF first, last
<1>6. \A c \in 0..Size - 1 : c \notin CellsOf(O[t], Held(t)) => mem'[c] = mem[c]
  <2>1. ASSUME NEW c \in first..last PROVE c \in CellsOf(O[t], MaxEntry)
    <3> DEFINE i == c - Cell(writer[t].off)
    <3>1. i \in 0..MaxEntry - 1 /\ i \in Nat /\ Cell(writer[t].off) + i < Size
          /\ c = Cell(writer[t].off) + i /\ i \in Int
      BY <1>4, <1>5, Sizes
    <3> HIDE DEF i
    <3>2. writer[t].off \in Int /\ O[t] \in Int /\ writer[t].off = Wrap(O[t])
      BY <1>3, Place
    <3>3. c = Cell(writer[t].off + i)
      BY <3>1, <3>2, CellNext
    <3>4. c = Cell(O[t] + i)
      BY <3>1, <3>2, <3>3, WrapCell
    <3>5. QED
      BY <3>1, <3>4 DEF CellsOf
  <2>2. QED
    BY <1>1, <1>3, <2>1 DEF TypeOK
<1>7. t \notin Seconds'
  <2>1. t # Handler \/ fatal'
    BY <1>1, LogRingAssumption DEF Runs
  <2>2. QED
    BY <1>2, <2>1 DEF Seconds, Acquiring
<1>8. Reads(writer[t].off, MaxEntry)'
  <2>1. writer[t].off \in Int /\ Cell(writer[t].off + 1) \in 0..Size - 1
    BY <1>3, Place
  <2>2. Cell(writer[t].off + 1) = Cell(writer[t].off) + 1
    BY <1>4, <2>1, CellNext, Sizes
  <2>3. Cell(writer[t].off + 1) \notin first..last
    BY <1>4, <1>5, <2>2
  <2>4. LengthAt(writer[t].off)' = LengthAt(writer[t].off)
    BY <1>1, <1>2, <2>1, <2>3 DEF LengthAt, TypeOK
  <2>5. Reads(writer[t].off, MaxEntry)
    BY <1>1 DEF View, LengthsTell
  <2>6. QED
    BY <1>1, <1>2, <2>4, <2>5 DEF Reads
<1>9. writer'[t].pc # "commit_short"
  BY <1>2
<1>11. mem'[Cell(writer[t].off)] = LOG_INVALID
  <2>1. Cell(writer[t].off) \notin first..last
    BY <1>4, <1>5
  <2>2. mem'[Cell(writer[t].off)] = mem[Cell(writer[t].off)]
    BY <1>1, <1>4, <2>1 DEF TypeOK
  <2>3. mem[Cell(writer[t].off)] = LOG_INVALID
    BY <1>1 DEF View, Unfinished
  <2>4. QED
    BY <2>2, <2>3
<1>10. QED
  BY <1>11, <1>1, <1>2, <1>3, <1>4, <1>6, <1>7, <1>8, <1>9, FillingStep

(* The shorter length is stored (line 211).                                *)
LEMMA StoreShortKeeps ==
  ASSUME TypeOK, TypeOK', Roomy, NEW H \in Nat, NEW T \in Nat, NEW B \in Nat,
         NEW M \in SUBSET Nat, NEW O \in [Process -> Nat], NEW D \in [Process -> Nat],
         View(H, T, B, M, O, D), NEW t \in Process, StoreShortLength(t)
  PROVE  View(H, T, B, M, O, D)'
<1>1. /\ writer[t].pc = "store_len" /\ Runs(t)
      /\ mem' = Stored(writer[t].off + 1, EntryLength(t))
      /\ writer' = [writer EXCEPT ![t].pc = "commit_short"]
      /\ UNCHANGED <<head, tail, published, stomped, fatal, clean, overlaps>>
  BY DEF StoreShortLength, At, Goto, bookkeeping, ghosts
<1>2. /\ writer'[t].off = writer[t].off /\ writer'[t].pc = "commit_short"
      /\ writer'[t].second = writer[t].second /\ writer'[t].msg = writer[t].msg
      /\ \A u \in Process : u # t => writer'[u] = writer[u]
  BY <1>1 DEF TypeOK
<1>3. /\ Holding(t) /\ Holding(t)' /\ Held(t) = EntryLength(t) /\ Held(t)' = EntryLength(t)
      /\ EntryLength(t)' = EntryLength(t) /\ ~Filled(t)'
  BY <1>1, <1>2 DEF Holding, Held, Filled, Filling, Shrunk, EntryLength
<1>4. \A c \in 0..Size - 1 : c \notin CellsOf(O[t], Held(t)) => mem'[c] = mem[c]
  <2>1. Cell(writer[t].off + 1) \in CellsOf(O[t], Held(t)) /\ writer[t].off + 1 \in Int
    BY <1>3, Place
  <2>2. \A c \in 0..Size - 1 : c # Cell(writer[t].off + 1) => mem'[c] = mem[c]
    BY <1>1, <2>1, StoreOne
  <2>3. QED
    BY <2>1, <2>2
<1>5. t \notin Seconds'
  <2>1. t # Handler \/ fatal'
    BY <1>1, LogRingAssumption DEF Runs
  <2>2. QED
    BY <1>2, <2>1 DEF Seconds, Acquiring
<1>6. Cell(writer[t].off) + MaxEntry <= Size
  BY <1>1, <1>3, Place
<1>7. Reads(writer[t].off, EntryLength(t))'
  <2>1. LengthAt(writer[t].off)' = EntryLength(t)
    BY <1>1, <1>2, <1>3, Place, StoreOne DEF LengthAt
  <2>2. QED
    BY <1>3, <2>1 DEF Reads
<1>9. mem'[Cell(writer[t].off)] = LOG_INVALID
  <2>1. Cell(writer[t].off) # Cell(writer[t].off + 1)
    BY <1>3, LaterCell
  <2>2. writer[t].off + 1 \in Int /\ Cell(writer[t].off) \in 0..Size - 1
    BY CallTyped, Offsets, Ranges
  <2>3. mem'[Cell(writer[t].off)] = mem[Cell(writer[t].off)]
    BY <1>1, <2>1, <2>2, StoreOne
  <2>4. mem[Cell(writer[t].off)] = LOG_INVALID
    BY <1>1 DEF View, Unfinished
  <2>5. QED
    BY <2>3, <2>4
<1>8. QED
  BY <1>9, <1>1, <1>2, <1>3, <1>4, <1>5, <1>6, <1>7, FillingStep

(* head is not moved back (line 208): another call reserved after this     *)
(* one, or the exchange failed all the same.                               *)
LEMMA NotShrunk ==
  ASSUME TypeOK, TypeOK', Roomy, NEW H \in Nat, NEW T \in Nat, NEW B \in Nat,
         NEW M \in SUBSET Nat, NEW O \in [Process -> Nat], NEW D \in [Process -> Nat],
         View(H, T, B, M, O, D), NEW t \in Process, Shrink(t), writer'[t].pc = "commit"
  PROVE  View(H, T, B, M, O, D)'
<1>1. /\ writer[t].pc = "shrink" /\ Runs(t)
      /\ writer' = [writer EXCEPT ![t].pc = "commit"]
      /\ UNCHANGED <<mem, head, tail, published, stomped, fatal, clean, overlaps>>
  <2>1. ~Goto(t, "store_len")
    BY DEF Goto, TypeOK
  <2>2. Goto(t, "commit") /\ UNCHANGED head
    BY <2>1 DEF Shrink
  <2>3. QED
    BY <2>2 DEF Shrink, At, Goto, bookkeeping, ghosts
<1>2. /\ writer'[t].off = writer[t].off /\ writer'[t].pc = "commit"
      /\ writer'[t].second = writer[t].second
      /\ \A u \in Process : u # t => writer'[u] = writer[u]
  BY <1>1 DEF TypeOK
<1>3. Holding(t) /\ Holding(t)' /\ Held(t) = MaxEntry /\ Held(t)' = MaxEntry /\ Filled(t)
  BY <1>1, <1>2 DEF Holding, Held, Filled, Filling, Shrunk
<1>4. t \notin Seconds'
  <2>1. t # Handler \/ fatal'
    BY <1>1, LogRingAssumption DEF Runs
  <2>2. QED
    BY <1>2, <2>1 DEF Seconds, Acquiring
<1>5. Cell(writer[t].off) + MaxEntry <= Size
  BY <1>1, <1>3, Place
<1>6. Reads(writer[t].off, MaxEntry)'
  <2>1. Reads(writer[t].off, MaxEntry)
    BY <1>1 DEF View, LengthsTell
  <2>2. QED
    BY <1>1, <1>2, <2>1 DEF Reads, LengthAt
<1>8. mem'[Cell(writer[t].off)] = LOG_INVALID
  BY <1>1 DEF View, Unfinished
<1>7. QED
  BY <1>8, <1>1, <1>2, <1>3, <1>4, <1>5, <1>6, FillingStep

----------------------------------------------------------------------------
(* Steps that publish an entry                                             *)

(* A call that stores the type of a complete entry publishes it.           *)
LEMMA PublishStep ==
  ASSUME TypeOK, TypeOK', NEW H \in Nat, NEW T \in Nat, NEW B \in Nat, NEW M \in SUBSET Nat,
         NEW O \in [Process -> Nat], NEW D \in [Process -> Nat], View(H, T, B, M, O, D),
         NEW t \in Process, Runs(t), Holding(t), writer'[t].pc \in {"load", "idle"},
         \A u \in Process : u # t => writer'[u] = writer[u],
         UNCHANGED <<head, tail, stomped, fatal, clean, overlaps>>,
         NEW e, published' = published \union {e},
         e.off = writer[t].off, e.len = Held(t), mem' = Stored(writer[t].off, e.type),
         Reads(writer[t].off, Held(t)),
         t \in Seconds' => t \in Seconds, t \notin Firsts',
         writer'[t].pc = "load" =>
           writer'[t].second /\ Held(t) = MaxEntry /\ Cell(O[t] + MaxEntry) < MaxEntry
  PROVE  View(H, T, B, M, O, D)'
<1>1. /\ writer[t].pc \notin Acquiring /\ ~Holding(t)' /\ ~Filled(t)'
      /\ ~Loaded(t) /\ ~Loaded(t)' /\ ~Freeing(t) /\ ~Freeing(t)'
      /\ t \notin Deciders /\ t \notin Deciders'
  BY DEF Holding, Filled, Filling, Shrunk, Acquiring, Loaded, Freeing, Deciders
<1>2. ASSUME NEW u \in Process, u # t
      PROVE  /\ Holding(u)' <=> Holding(u)
             /\ Filled(u)' <=> Filled(u)
             /\ Loaded(u)' <=> Loaded(u)
             /\ Freeing(u)' <=> Freeing(u)
             /\ Held(u)' = Held(u)
             /\ EntryLength(u)' = EntryLength(u)
             /\ writer'[u] = writer[u]
  BY <1>2 DEF Holding, Filled, Loaded, Freeing, Held, EntryLength
<1>3. ASSUME NEW u \in Process
      PROVE  /\ Holding(u)' => u # t /\ Holding(u) /\ Held(u)' = Held(u) /\ writer'[u] = writer[u]
             /\ Filled(u)' => u # t /\ Filled(u) /\ writer'[u] = writer[u]
             /\ Loaded(u)' => Loaded(u) /\ writer'[u] = writer[u]
             /\ Freeing(u)' => Freeing(u) /\ writer'[u] = writer[u]
  BY <1>1, <1>2
<1>4. Agree(H, T, B, M)'
  BY DEF View, Agree
<1>5. CallsAgree(T, B, O, D)'
  <2>1. CallsAgree(T, B, O, D)
    BY DEF View
  <2>2. QED
    BY <1>3, <2>1 DEF CallsAgree
<1>6. Budget(H, T, B)'
  <2>1. Firsts' \subseteq Firsts /\ Seconds' \subseteq Seconds /\ Deciders' = Deciders
    <3>1. \A u \in Process : u # t /\ u \in Firsts' => u \in Firsts
      BY <1>2 DEF Firsts
    <3>2. \A u \in Process : u # t /\ u \in Seconds' => u \in Seconds
      BY <1>2 DEF Seconds
    <3>3. Firsts' \subseteq Firsts /\ Seconds' \subseteq Seconds
      BY <3>1, <3>2 DEF Firsts, Seconds
    <3>4. \A u \in Process : u # t => (u \in Deciders' <=> u \in Deciders)
      BY <1>2 DEF Deciders
    <3>5. Deciders' = Deciders
      BY <1>1, <3>4 DEF Deciders
    <3>6. QED
      BY <3>3, <3>5
  <2>2. Room(Left') <= Room(Left) /\ Room(Left') \in Nat
    BY <2>1, LeftKept
  <2>3. Left \in Nat /\ Room(Left) \in Nat /\ Window \in Nat
    <3>1. Left \in Nat /\ 2 * MaxOverlaps + 4 \in Nat
      BY LeftTyped, LogRingAssumption
    <3>2. QED
      BY <3>1, RoomGrows DEF Window
  <2>4. QED
    BY <2>1, <2>2, <2>3 DEF View, Budget
<1>7. Seen(H, T, O)'
  <2>1. Seen(H, T, O)
    BY DEF View
  <2>2. QED
    BY <1>3, <2>1 DEF Seen
<1>8. Claims(M, O)'
  <2>1. Claims(M, O)
    BY DEF View
  <2>2. QED
    BY <1>3, <2>1 DEF Claims
<1>9. writer[t].off = Wrap(O[t]) /\ Adjacent(M, O[t], O[t] + Held(t)) /\ O[t] \in M
  <2>1. writer[t].off = Wrap(O[t])
    BY DEF View, CallsAgree
  <2>2. Adjacent(M, O[t], O[t] + Held(t))
    BY DEF View, Claims
  <2>3. QED
    BY <2>1, <2>2 DEF Adjacent
<1>10. PublishedLies(M, O)'
  <2>1. ASSUME NEW f \in published
        PROVE  /\ Header < f.len /\ f.len <= MaxEntry
               /\ \E p \in M : /\ f.off = Wrap(p) /\ Adjacent(M, p, p + f.len)
                               /\ \A u \in Process : Holding(u)' => O[u] # p
    BY <1>3 DEF View, PublishedLies
  <2>2. Header < e.len /\ e.len <= MaxEntry
    BY HeldSize
  <2>3. e.off = Wrap(O[t]) /\ Adjacent(M, O[t], O[t] + e.len)
    BY <1>9
  <2>4. \A u \in Process : Holding(u)' => O[u] # O[t]
    BY <1>3 DEF View, Claims
  <2>5. QED
    BY <1>9, <2>1, <2>2, <2>3, <2>4 DEF PublishedLies
<1>11. AllOwned(H, M, O)'
  <2>1. ASSUME NEW p \in M, p < H
        PROVE  \/ \E u \in Process : Holding(u)' /\ O[u] = p
               \/ \E f \in published' : f.off = Wrap(p)
    <3>1. CASE p = O[t]
      BY <1>9, <3>1
    <3>2. CASE \E u \in Process : Holding(u) /\ O[u] = p /\ u # t
      BY <1>2, <3>2
    <3>3. CASE \E f \in published : f.off = Wrap(p)
      BY <3>3
    <3>4. QED
      BY <2>1, <3>1, <3>2, <3>3 DEF View, AllOwned
  <2>2. QED
    BY <2>1 DEF AllOwned
<1>a. \A u \in Process : u # t /\ Holding(u) =>
             mem'[Cell(writer[u].off)] = mem[Cell(writer[u].off)]
  <2>1. Cell(writer[t].off) \in CellsOf(O[t], Held(t)) /\ writer[t].off \in Int
    BY Place
  <2>2. \A c \in 0..Size - 1 : c # Cell(writer[t].off) => mem'[c] = mem[c]
    BY <2>1, StoreOne
  <2>3. \A c \in 0..Size - 1 : c \notin CellsOf(O[t], Held(t)) => mem'[c] = mem[c]
    BY <2>1, <2>2
  <2> HIDE DEF View
  <2>4. View(H, T, B, M, O, D) /\ Holding(t)
    OBVIOUS
  <2>5. QED
    <3>1. \A u \in Process : u # t /\ Holding(u) =>
              /\ mem'[Cell(writer[u].off + 1)] = mem[Cell(writer[u].off + 1)]
              /\ mem'[Cell(writer[u].off)] = mem[Cell(writer[u].off)]
      BY <2>3, <2>4, OthersKeepBytes
    <3>2. QED
      BY <3>1
<1>12. LengthsTell'
  <2>1. LengthsTell
    BY DEF View
  <2>2. /\ Cell(writer[t].off) \in CellsOf(O[t], Held(t)) /\ Cell(writer[t].off) \in 0..Size - 1
        /\ writer[t].off \in Int /\ O[t] \in Int /\ O[t] \in Nat
        /\ Cell(writer[t].off + 1) \in 0..Size - 1
    BY Place
  <2>3. (\A c \in 0..Size - 1 : c # Cell(writer[t].off) => mem'[c] = mem[c])
        /\ mem'[Cell(writer[t].off)] = e.type
    BY <2>2, StoreOne
  <2>4. \A c \in 0..Size - 1 : c \notin CellsOf(O[t], Held(t)) => mem'[c] = mem[c]
    BY <2>2, <2>3
  <2>5. /\ \A f \in published : LengthAt(f.off)' = LengthAt(f.off)
                                /\ mem'[Cell(f.off)] = mem[Cell(f.off)]
        /\ \A u \in Process : u # t /\ Holding(u) =>
             mem'[Cell(writer[u].off + 1)] = mem[Cell(writer[u].off + 1)]
    <3> HIDE DEF View
    <3>1. View(H, T, B, M, O, D) /\ Holding(t)
      OBVIOUS
    <3>2. QED
      BY <2>4, <3>1, OthersKeepBytes, SMTT(30)
  <2>6. \A f \in published : Reads(f.off, f.len)' /\ (~stomped' => mem'[Cell(f.off)] = f.type)
    BY <2>1, <2>5 DEF LengthsTell, Reads
  <2>7. Reads(e.off, e.len)'
    <3>1. Cell(O[t]) # Cell(O[t] + 1)
      <4>1. O[t] + 1 \in Int /\ O[t] # O[t] + 1 /\ O[t] - (O[t] + 1) < Size
            /\ (O[t] + 1) - O[t] < Size
        BY <2>2, Sizes
      <4>2. QED
        BY <2>2, <4>1, CellSame
    <3>2. Cell(writer[t].off) = Cell(O[t]) /\ Cell(writer[t].off + 1) = Cell(O[t] + 1)
      <4>1. Cell(Wrap(O[t])) = Cell(O[t]) /\ Cell(Wrap(O[t]) + 1) = Cell(O[t] + 1)
        BY <2>2, HeldSize, HeaderCells
      <4>2. QED
        BY <1>9, <4>1
    <3>3. mem'[Cell(writer[t].off + 1)] = mem[Cell(writer[t].off + 1)]
      BY <2>2, <2>3, <3>1, <3>2
    <3>4. LengthAt(e.off) = Held(t) \/ (stomped /\ LengthAt(e.off) = 0)
      BY DEF Reads
    <3>5. mem'[Cell(e.off + 1)] = mem[Cell(e.off + 1)]
      BY <3>3
    <3>6. QED
      BY <3>4, <3>5 DEF Reads, LengthAt
  <2>8. \A f \in published' : Reads(f.off, f.len)' /\ (~stomped' => mem'[Cell(f.off)] = f.type)
    BY <2>3, <2>6, <2>7
  <2>9. ASSUME NEW u \in Process
        PROVE  /\ writer'[u].pc \in {"empty", "text", "shrink", "commit", "store_len"} =>
                   Reads(writer[u].off, MaxEntry)' /\ writer'[u] = writer[u]
               /\ writer'[u].pc = "commit_short" =>
                   Reads(writer[u].off, EntryLength(u))' /\ writer'[u] = writer[u]
    <3>1. CASE u = t
      BY <3>1
    <3>2. CASE u # t /\ Holding(u)
      <4>1. writer'[u] = writer[u] /\ EntryLength(u)' = EntryLength(u)
        BY <1>2, <3>2
      <4>2. LengthAt(writer[u].off)' = LengthAt(writer[u].off)
        BY <2>5, <3>2, <4>1 DEF LengthAt
      <4>3. /\ Reads(writer[u].off, MaxEntry)' <=> Reads(writer[u].off, MaxEntry)
            /\ Reads(writer[u].off, EntryLength(u))' <=> Reads(writer[u].off, EntryLength(u))
        BY <4>1, <4>2 DEF Reads
      <4>4. QED
        BY <2>1, <4>1, <4>3 DEF LengthsTell
    <3>3. CASE u # t /\ ~Holding(u)
      BY <3>3 DEF Holding, Filling, Shrunk
    <3>4. QED
      BY <3>1, <3>2, <3>3
  <2>10. QED
    BY <2>8, <2>9 DEF LengthsTell
<1>18. Unfinished'
  <2>1. Unfinished
    BY DEF View
  <2>2. ASSUME NEW u \in Process, u # t,
               writer'[u].pc \in {"len", "empty", "text", "shrink", "commit", "store_len", "commit_short"}
        PROVE  mem'[Cell(writer'[u].off)] = LOG_INVALID
    <3>1. Holding(u) /\ writer'[u] = writer[u]
      BY <1>2, <2>2 DEF Holding, Filling, Shrunk
    <3>2. mem'[Cell(writer[u].off)] = mem[Cell(writer[u].off)]
      BY <2>2, <3>1, <1>a
    <3>3. QED
      BY <2>1, <2>2, <3>1, <3>2 DEF Unfinished
  <2>3. QED
    BY <2>2 DEF Unfinished
<1>13. FreesOne(T, M, D)'
  <2>1. FreesOne(T, M, D)
    BY DEF View
  <2>2. writer'[t].pc # "cas_tail"
    BY <1>1 DEF Freeing
  <2>3. QED
    BY <1>2, <2>1, <2>2 DEF FreesOne
<1>14. InBuffer(B, M, O)'
  <2>1. InBuffer(B, M, O)
    BY DEF View
  <2>2. ASSUME NEW u \in Process, u # t, writer'[u].pc \in Acquiring, writer'[u].second
        PROVE  \E p \in M : /\ B <= p /\ Cell(p) < MaxEntry
                            /\ \A v \in Process : Filled(v)' => O[v] + MaxEntry # p
    <3>1. writer[u].pc \in Acquiring /\ writer[u].second
      BY <1>2, <2>2
    <3>2. QED
      BY <1>3, <2>1, <3>1 DEF InBuffer
  <2>3. ASSUME writer'[t].pc \in Acquiring
        PROVE  \E p \in M : /\ B <= p /\ Cell(p) < MaxEntry
                            /\ \A v \in Process : Filled(v)' => O[v] + MaxEntry # p
    <3>1. writer'[t].pc = "load"
      BY <2>3 DEF Acquiring
    <3>2. O[t] + MaxEntry \in M /\ O[t] \in Nat /\ B <= O[t]
      BY <1>9, <3>1, Place DEF Adjacent, View, CallsAgree
    <3>3. \A v \in Process : Filled(v)' => O[v] # O[t]
      <4>1. \A v \in Process : Filled(v)' => v # t /\ Holding(v)
        BY <1>3 DEF Filled, Holding
      <4>2. QED
        BY <4>1 DEF View, Claims
    <3>4. \A v \in Process : Filled(v)' => O[v] + MaxEntry # O[t] + MaxEntry
      BY <3>3, Sizes
    <3>5. QED
      BY <3>1, <3>2, <3>4, Sizes
  <2>4. ASSUME NEW u \in Process, Holding(u)',
               writer'[u].second \/ writer'[u].pc \notin {"type", "len", "empty"}
        PROVE  Cell(writer'[u].off) + MaxEntry <= Size
    BY <1>3, <2>1, <2>4 DEF InBuffer
  <2>5. ASSUME NEW u \in Process, writer'[u].pc = "empty"
        PROVE  ~writer'[u].second /\ Cell(O[u] + MaxEntry) < MaxEntry
    BY <1>2, <2>1, <2>5 DEF InBuffer
  <2>6. QED
    BY <2>2, <2>3, <2>4, <2>5 DEF InBuffer
<1>15. HandlerWaits'
  <2>1. fatal \/ t # Handler
    BY LogRingAssumption DEF Runs
  <2>2. Handler \in Process
    BY DEF Process
  <2>3. QED
    BY <1>2, <2>1, <2>2 DEF View, HandlerWaits
<1>16. AfterFatal(H, T, D)'
  <2>1. AfterFatal(H, T, D) /\ Handler \in Process
    BY DEF View, Process
  <2>2. ASSUME fatal, clean
        PROVE  /\ ~stomped'
               /\ \A u \in Writers : ~Unsettled(u)'
               /\ ~Freeing(Handler)'
    <3>1. t = Handler /\ \A u \in Writers : u # t /\ u \in Process
      BY <2>2, LogRingAssumption DEF Runs, Process
    <3>2. QED
      BY <1>1, <2>1, <2>2, <3>1 DEF AfterFatal, Unsettled
  <2>3. QED
    BY <2>2 DEF AfterFatal, Freeing
<1>17. QED
  BY <1>18, <1>4, <1>5, <1>6, <1>7, <1>8, <1>10, <1>11, <1>12, <1>13, <1>14, <1>15, <1>16 DEF View

(* The first reservation is published as padding (line 178), and the       *)
(* second begins where the buffer does.                                    *)
LEMMA PublishPaddingKeeps ==
  ASSUME TypeOK, TypeOK', Roomy, NEW H \in Nat, NEW T \in Nat, NEW B \in Nat,
         NEW M \in SUBSET Nat, NEW O \in [Process -> Nat], NEW D \in [Process -> Nat],
         View(H, T, B, M, O, D), NEW t \in Process, PublishPadding(t)
  PROVE  View(H, T, B, M, O, D)'
<1> DEFINE e == [off |-> writer[t].off, type |-> LOG_EMPTY, len |-> MaxEntry]
<1>1. /\ writer[t].pc = "empty" /\ Runs(t) /\ mem' = Stored(writer[t].off, LOG_EMPTY)
      /\ published' = published \union {e}
      /\ writer' = [writer EXCEPT ![t].pc = "load", ![t].off = 0, ![t].second = TRUE]
      /\ UNCHANGED <<head, tail, stomped, fatal, clean, overlaps>>
  BY DEF PublishPadding, At, bookkeeping
<1>2. /\ writer'[t].pc = "load" /\ writer'[t].second
      /\ \A u \in Process : u # t => writer'[u] = writer[u]
  BY <1>1 DEF TypeOK
<1>3. Holding(t) /\ Held(t) = MaxEntry
  BY <1>1 DEF Holding, Held, Filling, Shrunk
<1>4. e.off = writer[t].off /\ e.type = LOG_EMPTY /\ e.len = Held(t)
  BY <1>3
<1> HIDE DEF e
<1>5. ~writer[t].second /\ Cell(O[t] + MaxEntry) < MaxEntry /\ Reads(writer[t].off, Held(t))
  BY <1>1, <1>3 DEF View, InBuffer, LengthsTell
<1>6. t \in Seconds
  BY <1>1, <1>5 DEF Seconds
<1>7. t \notin Firsts'
  <2>1. t # Handler \/ fatal'
    BY <1>1, LogRingAssumption DEF Runs
  <2>2. QED
    BY <1>2, <2>1 DEF Firsts
<1>8. mem' = Stored(writer[t].off, e.type)
  BY <1>1, <1>4
<1>9. QED
  BY <1>1, <1>2, <1>3, <1>4, <1>5, <1>6, <1>7, <1>8, PublishStep

(* The entry is published as a message (line 218).                         *)
LEMMA CommitKeeps ==
  ASSUME TypeOK, TypeOK', Roomy, NEW H \in Nat, NEW T \in Nat, NEW B \in Nat,
         NEW M \in SUBSET Nat, NEW O \in [Process -> Nat], NEW D \in [Process -> Nat],
         View(H, T, B, M, O, D), NEW t \in Process, Commit(t)
  PROVE  View(H, T, B, M, O, D)'
<1> DEFINE e == [off |-> writer[t].off, type |-> LOG_COMMITTED,
                 len |-> IF writer[t].pc = "commit" THEN MaxEntry ELSE EntryLength(t)]
<1>1. /\ writer[t].pc \in {"commit", "commit_short"} /\ Runs(t)
      /\ mem' = Stored(writer[t].off, LOG_COMMITTED)
      /\ published' = published \union {e}
      /\ writer' = [writer EXCEPT ![t] = Idle]
      /\ UNCHANGED <<head, tail, stomped, fatal, clean, overlaps>>
  BY DEF Commit, At, bookkeeping
<1>2. /\ writer'[t].pc = "idle"
      /\ \A u \in Process : u # t => writer'[u] = writer[u]
  BY <1>1 DEF TypeOK, Idle
<1>3. Holding(t) /\ Held(t) = IF writer[t].pc = "commit" THEN MaxEntry ELSE EntryLength(t)
  BY <1>1 DEF Holding, Held, Filling, Shrunk
<1>4. e.off = writer[t].off /\ e.type = LOG_COMMITTED /\ e.len = Held(t)
  BY <1>3
<1> HIDE DEF e
<1>5. Reads(writer[t].off, Held(t))
  BY <1>1, <1>3 DEF View, LengthsTell
<1>6. t \notin Firsts' /\ t \notin Seconds'
  <2>1. t # Handler \/ fatal'
    BY <1>1, LogRingAssumption DEF Runs
  <2>2. QED
    BY <1>2, <2>1 DEF Firsts, Seconds, Acquiring
<1>7. mem' = Stored(writer[t].off, e.type)
  BY <1>1, <1>4
<1>8. QED
  BY <1>1, <1>2, <1>3, <1>4, <1>5, <1>6, <1>7, PublishStep

----------------------------------------------------------------------------
(* Steps that move head                                                    *)

(* head is exchanged (line 124): the entry from the old head to the new is *)
(* the call's, and nobody else's.                                          *)
LEMMA HeadMoved ==
  ASSUME TypeOK, TypeOK', Roomy, NEW H \in Nat, NEW T \in Nat, NEW B \in Nat,
         NEW M \in SUBSET Nat, NEW O \in [Process -> Nat], NEW D \in [Process -> Nat],
         View(H, T, B, M, O, D), NEW t \in Process, MoveHead(t), head = writer[t].off,
         writer'[t].pc = "type"
  PROVE  \E G \in Nat, N \in SUBSET Nat : View(G, T, B, N, O, D)'
<1>1. /\ writer[t].pc = "cas_head" /\ Runs(t) /\ head' = Plus(head, MaxEntry)
      /\ writer' = [writer EXCEPT ![t].pc = "type", ![t].errors = 0]
      /\ UNCHANGED <<mem, tail, published, stomped, fatal, clean, overlaps>>
  <2>1. ~Goto(t, "load")
    BY DEF Goto, TypeOK
  <2>2. QED
    BY <2>1 DEF MoveHead, At, bookkeeping, ghosts
<1>2. /\ writer'[t].off = writer[t].off /\ writer'[t].pc = "type"
      /\ writer'[t].second = writer[t].second
      /\ \A u \in Process : u # t => writer'[u] = writer[u]
  BY <1>1 DEF TypeOK
<1>3. /\ Loaded(t) /\ ~Holding(t) /\ ~Filled(t) /\ Holding(t)' /\ Held(t)' = MaxEntry
      /\ ~Loaded(t)' /\ ~Freeing(t)' /\ t \notin Deciders /\ t \notin Deciders'
      /\ writer[t].pc \in Acquiring /\ writer'[t].pc \notin Acquiring
  BY <1>1, <1>2 DEF Loaded, Holding, Filled, Filling, Shrunk, Held, Freeing, Deciders, Acquiring
<1>4. ASSUME NEW u \in Process, u # t
      PROVE  /\ Holding(u)' <=> Holding(u)
             /\ Filled(u)' <=> Filled(u)
             /\ Loaded(u)' <=> Loaded(u)
             /\ Freeing(u)' <=> Freeing(u)
             /\ Held(u)' = Held(u)
             /\ EntryLength(u)' = EntryLength(u)
             /\ writer'[u] = writer[u]
  BY <1>2, <1>4 DEF Holding, Filled, Loaded, Freeing, Held, EntryLength
<1>5. /\ H - B <= Window /\ Window \in Nat /\ Window + MaxEntry + MaxEntry <= Size
      /\ head = Wrap(H) /\ tail = Wrap(T) /\ T <= B /\ B <= H /\ T \in M /\ H \in M
      /\ \A m \in M : T <= m /\ m <= H
  BY ViewTyped DEF View, Agree
<1>6. /\ writer[t].off = Wrap(O[t]) /\ B <= O[t] /\ O[t] <= H + MaxEntry
      /\ O[t] + MaxEntry - T <= Size
  BY <1>1, <1>3 DEF View, CallsAgree, Seen
<1>7. O[t] = H
  <2>1. Wrap(O[t]) = Wrap(H) /\ O[t] \in Nat /\ O[t] \in Int /\ H \in Int
    <3>1. O[t] \in Nat
      OBVIOUS
    <3>2. Wrap(O[t]) = Wrap(H)
      BY <1>5, <1>6
    <3>3. QED
      BY <3>1, <3>2
  <2>2. MaxEntry < Size /\ Size < OffMod /\ {MaxEntry, Size, OffMod} \subseteq Nat
    BY Sizes
  <2>3. O[t] - H < OffMod /\ H - O[t] < OffMod
    BY <1>5, <1>6, <2>1, <2>2
  <2>4. QED
    BY <2>1, <2>3, WrapSame
<1>a. PICK G \in Nat : G = H + MaxEntry /\ H < G /\ G - T <= Size
  BY <1>6, <1>7, Sizes
<1>b. PICK N \in SUBSET Nat : N = M \union {G}
  OBVIOUS
<1>8. G = H + MaxEntry /\ N = M \union {G} /\ H < G /\ G - T <= Size
  BY <1>a, <1>b
<1>9. /\ G \in N /\ M \subseteq N /\ \A m \in N : m \in M \/ m = G
      /\ \A p, q : Adjacent(M, p, q) => Adjacent(N, p, q)
      /\ Adjacent(N, H, G)
  <2>1. G \in N /\ M \subseteq N /\ \A m \in N : m \in M \/ m = G
    BY <1>8
  <2>2. ASSUME NEW p, NEW q, Adjacent(M, p, q) PROVE Adjacent(N, p, q)
    <3>1. q \in M /\ p \in M /\ p < q /\ \A m \in M : m <= p \/ q <= m
      BY <2>2 DEF Adjacent
    <3>2. q <= G
      BY <1>5, <1>8, <3>1
    <3>3. QED
      BY <2>1, <3>1, <3>2 DEF Adjacent
  <2>3. Adjacent(N, H, G)
    BY <1>5, <1>8, <2>1 DEF Adjacent
  <2>4. QED
    BY <2>1, <2>2, <2>3
<1>10. Agree(G, T, B, N)'
  <2>1. head' = Wrap(H + MaxEntry)
    BY <1>1, <1>5, WrapPlus, Sizes
  <2>2. QED
    BY <1>1, <1>5, <1>8, <1>9, <2>1, Sizes DEF Agree
<1>11. CallsAgree(T, B, O, D)'
  <2>1. CallsAgree(T, B, O, D)
    BY DEF View
  <2>2. QED
    BY <1>2, <1>3, <1>4, <1>6, <2>1 DEF CallsAgree
<1>12. Budget(G, T, B)'
  <2>1. t # Handler \/ fatal'
    BY <1>1, LogRingAssumption DEF Runs
  <2>2. /\ \A u \in Process : u # t /\ u \in Firsts' => u \in Firsts
        /\ \A u \in Process : u # t /\ u \in Seconds' => u \in Seconds
        /\ \A u \in Process : u # t => (u \in Deciders' <=> u \in Deciders)
        /\ Firsts' \subseteq Process /\ Seconds' \subseteq Process
    BY <1>1, <1>4 DEF Firsts, Seconds, Deciders
  <2>3. Deciders' = Deciders
    BY <1>3, <2>2 DEF Deciders
  <2>4. t \notin Firsts' /\ t \in Seconds
    BY <1>3, <2>1 DEF Firsts, Seconds
  <2>5. Room(Left') + MaxEntry <= Room(Left) /\ Room(Left') \in Nat
    <3>1. CASE writer[t].second
      <4>1. t \notin Seconds'
        BY <1>2, <1>3, <2>1, <3>1 DEF Seconds
      <4>2. Seconds' \subseteq Seconds \ {t} /\ Firsts' \subseteq Firsts
        BY <2>2, <2>4, <4>1
      <4>3. QED
        BY <1>1, <2>4, <4>2, LeftTaken
    <3>2. CASE ~writer[t].second
      <4>1. t \in Firsts
        BY <1>3, <3>2 DEF Firsts
      <4>2. Firsts' \subseteq Firsts \ {t} /\ Seconds' \subseteq Seconds
        BY <2>2, <2>4
      <4>3. QED
        BY <1>1, <4>1, <4>2, LeftTaken
    <3>3. QED
      BY <3>1, <3>2
  <2>6. Room(Left) \in Nat
    BY ViewTyped DEF View
  <2>7. QED
    BY <1>5, <1>8, <2>3, <2>5, <2>6, Sizes DEF View, Budget
<1>13. Seen(G, T, O)'
  <2>1. Seen(H, T, O)
    BY DEF View
  <2>2. ASSUME NEW u \in Process, Loaded(u)'
        PROVE  /\ O[u] <= G + MaxEntry /\ O[u] <= G
               /\ O[u] - T <= Size
               /\ writer'[u].pc = "cas_head" => O[u] + MaxEntry - T <= Size
    <3>1. u # t /\ Loaded(u) /\ writer'[u] = writer[u]
      BY <1>3, <1>4, <2>2
    <3>2. O[u] <= H + MaxEntry
      BY <2>1, <3>1 DEF Seen
    <3>3. QED
      BY <1>8, <2>1, <3>1, <3>2, Sizes DEF Seen
  <2>3. QED
    BY <2>2 DEF Seen
<1>14. Claims(N, O)'
  <2>1. Claims(M, O)
    BY DEF View
  <2>2. ASSUME NEW u \in Process, Holding(u)' PROVE Adjacent(N, O[u], O[u] + Held(u)')
    BY <1>3, <1>4, <1>7, <1>8, <1>9, <2>1, <2>2 DEF Claims
  <2>3. ASSUME NEW u \in Process, Holding(u) PROVE O[u] # H
    <3>1. Adjacent(M, O[u], O[u] + Held(u))
      BY <2>1, <2>3 DEF Claims
    <3>2. QED
      BY <1>5, <3>1, HeldSize DEF Adjacent
  <2>4. ASSUME NEW u \in Process, NEW v \in Process, Holding(u)', Holding(v)', O[u] = O[v]
        PROVE  u = v
    BY <1>3, <1>4, <1>7, <2>1, <2>3, <2>4 DEF Claims
  <2>5. QED
    BY <2>2, <2>4 DEF Claims
<1>15. PublishedLies(N, O)'
  <2>1. PublishedLies(M, O)
    BY DEF View
  <2>2. ASSUME NEW e \in published
        PROVE  /\ Header < e.len /\ e.len <= MaxEntry
               /\ \E p \in N : /\ e.off = Wrap(p) /\ Adjacent(N, p, p + e.len)
                               /\ \A u \in Process : Holding(u)' => O[u] # p
    <3>1. PICK p \in M : /\ e.off = Wrap(p) /\ Adjacent(M, p, p + e.len)
                         /\ \A u \in Process : Holding(u) => O[u] # p
      BY <2>1 DEF PublishedLies
    <3>2. p # H
      <4>1. p < p + e.len /\ p + e.len <= H /\ p \in Nat
        BY <1>5, <3>1 DEF Adjacent
      <4>2. e.len \in Nat
        BY PublishedTyped
      <4>3. QED
        BY <4>1, <4>2
    <3>3. QED
      BY <1>4, <1>7, <1>9, <2>1, <3>1, <3>2 DEF PublishedLies
  <2>3. QED
    BY <1>1, <2>2 DEF PublishedLies
<1>16. AllOwned(G, N, O)'
  <2>1. AllOwned(H, M, O)
    BY DEF View
  <2>2. ASSUME NEW p \in N, p < G
        PROVE  \/ \E u \in Process : Holding(u)' /\ O[u] = p
               \/ \E e \in published : e.off = Wrap(p)
    <3> HIDE DEF View
    <3>1. p \in M /\ p <= H
      BY <1>5, <1>9, <2>2
    <3>2. CASE p = H
      BY <1>3, <1>7, <3>2
    <3>3. CASE p < H
      BY <1>3, <1>4, <2>1, <3>1, <3>3 DEF AllOwned
    <3>4. p = H \/ p < H
      <4>1. p \in Nat /\ H \in Nat
        BY <3>1
      <4>2. QED
        BY <3>1, <4>1
    <3>5. QED
      BY <3>2, <3>3, <3>4
  <2>3. QED
    BY <1>1, <2>2 DEF AllOwned
<1>17. LengthsTell'
  <2>1. LengthsTell
    BY DEF View
  <2>2. \A o, n : Reads(o, n)' <=> Reads(o, n)
    BY <1>1 DEF Reads, LengthAt
  <2>3. \A e \in published' : Reads(e.off, e.len)' /\ (~stomped' => mem'[Cell(e.off)] = e.type)
    BY <1>1, <2>1, <2>2 DEF LengthsTell
  <2>4. ASSUME NEW u \in Process, u # t
        PROVE  /\ writer'[u].pc \in {"empty", "text", "shrink", "commit", "store_len"} =>
                   Reads(writer[u].off, MaxEntry)'
               /\ writer'[u].pc = "commit_short" => Reads(writer[u].off, EntryLength(u))'
    <3>1. writer'[u] = writer[u] /\ EntryLength(u)' = EntryLength(u)
      BY <1>4, <2>4
    <3>2. /\ Reads(writer[u].off, MaxEntry)' <=> Reads(writer[u].off, MaxEntry)
          /\ Reads(writer[u].off, EntryLength(u))' <=> Reads(writer[u].off, EntryLength(u))
      BY <1>1, <3>1 DEF Reads, LengthAt
    <3>3. QED
      BY <2>1, <3>1, <3>2 DEF LengthsTell
  <2>5. QED
    BY <1>2, <2>3, <2>4 DEF LengthsTell
<1>18. FreesOne(T, N, D)'
  <2>1. FreesOne(T, M, D)
    BY DEF View
  <2>2. QED
    BY <1>1, <1>2, <1>4, <1>9, <2>1 DEF FreesOne
<1>19. InBuffer(B, N, O)'
  <2>1. InBuffer(B, M, O)
    BY DEF View
  <2>2. ASSUME NEW u \in Process, writer'[u].pc \in Acquiring, writer'[u].second
        PROVE  \E p \in N : /\ B <= p /\ Cell(p) < MaxEntry
                            /\ \A v \in Process : Filled(v)' => O[v] + MaxEntry # p
    <3>1. u # t /\ writer[u].pc \in Acquiring /\ writer[u].second
      BY <1>3, <1>4, <2>2
    <3>2. PICK p \in M : /\ B <= p /\ Cell(p) < MaxEntry
                         /\ \A v \in Process : Filled(v) => O[v] + MaxEntry # p
      BY <2>1, <3>1 DEF InBuffer
    <3>3. p # O[t] + MaxEntry
      BY <1>5, <1>7, <1>8
    <3>4. QED
      BY <1>4, <1>9, <3>2, <3>3
  <2>3. ASSUME writer'[t].second PROVE Cell(writer'[t].off) + MaxEntry <= Size
    <3>1. PICK p \in M : B <= p /\ Cell(p) < MaxEntry
      BY <1>2, <1>3, <2>1, <2>3 DEF InBuffer
    <3> DEFINE i == H - p
    <3>2. /\ i \in Nat /\ p + i = H /\ i <= Window /\ Cell(p) \in 0..Size - 1 /\ p \in Int
          /\ Cell(p) + i + MaxEntry <= Size /\ Cell(p) + i < Size
      <4>1. p \in Int /\ p \in Nat /\ i \in Nat /\ p + i = H /\ i <= Window
        <5>1. p \in Nat /\ B <= p /\ p <= H /\ H - B <= Window /\ Window \in Nat
          BY <1>5, <3>1
        <5>2. QED
          BY <5>1
      <4>2. Cell(p) \in 0..Size - 1
        BY <4>1, Ranges
      <4> HIDE DEF i
      <4>3. QED
        BY <1>5, <3>1, <4>1, <4>2, Sizes
    <3> HIDE DEF i
    <3>3. Cell(p + i) = Cell(p) + i
      BY <3>2, CellNext
    <3>4. Cell(writer[t].off) = Cell(H)
      BY <1>6, <1>7, WrapCell0
    <3>5. QED
      BY <1>2, <3>2, <3>3, <3>4
  <2>4. ASSUME NEW u \in Process, Holding(u)',
               writer'[u].second \/ writer'[u].pc \notin {"type", "len", "empty"}
        PROVE  Cell(writer'[u].off) + MaxEntry <= Size
    <3>1. CASE u = t
      BY <1>2, <2>3, <2>4, <3>1
    <3>2. CASE u # t
      BY <1>4, <2>1, <2>4, <3>2 DEF InBuffer
    <3>3. QED
      BY <3>1, <3>2
  <2>5. ASSUME NEW u \in Process, writer'[u].pc = "empty"
        PROVE  ~writer'[u].second /\ Cell(O[u] + MaxEntry) < MaxEntry
    BY <1>2, <1>4, <2>1, <2>5 DEF InBuffer
  <2>6. QED
    BY <2>2, <2>4, <2>5 DEF InBuffer
<1>20. HandlerWaits'
  <2>1. fatal \/ t # Handler
    BY <1>1, LogRingAssumption DEF Runs
  <2>2. Handler \in Process
    BY DEF Process
  <2>3. QED
    BY <1>1, <1>4, <2>1, <2>2 DEF View, HandlerWaits
<1>21. AfterFatal(G, T, D)'
  <2>1. AfterFatal(H, T, D) /\ Handler \in Process
    BY DEF View, Process
  <2>2. ASSUME fatal, clean
        PROVE  /\ ~stomped'
               /\ \A u \in Writers : ~Unsettled(u)'
               /\ ~Freeing(Handler)'
    <3>1. t = Handler /\ \A u \in Writers : u # t /\ u \in Process
      BY <1>1, <2>2, LogRingAssumption DEF Runs, Process
    <3>2. QED
      BY <1>1, <1>3, <1>4, <2>1, <2>2, <3>1 DEF AfterFatal, Unsettled
  <2>3. QED
    BY <1>1, <2>2 DEF AfterFatal, Freeing
<1>30. Unfinished'
  <2>1. Unfinished
    BY DEF View
  <2>2. QED
    BY <1>1, <1>2, <1>4, <2>1 DEF Unfinished
<1>22. View(G, T, B, N, O, D)'
  BY <1>30, <1>10, <1>11, <1>12, <1>13, <1>14, <1>15, <1>16, <1>17, <1>18, <1>19, <1>20, <1>21 DEF View
<1>23. QED
  BY <1>22

(* head is moved back (line 208): no other call may have begun at the head *)
(* given up.                                                               *)
LEMMA Shrunken ==
  ASSUME TypeOK, TypeOK', Roomy, NEW H \in Nat, NEW T \in Nat, NEW B \in Nat,
         NEW M \in SUBSET Nat, NEW O \in [Process -> Nat], NEW D \in [Process -> Nat],
         View(H, T, B, M, O, D), NEW t \in Process, Shrink(t), head = Plus(writer[t].off, MaxEntry),
         writer'[t].pc = "store_len"
  PROVE  \E G \in Nat, N \in SUBSET Nat : View(G, T, B, N, O, D)'
<1>1. /\ writer[t].pc = "shrink" /\ Runs(t) /\ head' = Plus(writer[t].off, EntryLength(t))
      /\ writer' = [writer EXCEPT ![t].pc = "store_len"]
      /\ UNCHANGED <<mem, tail, published, stomped, fatal, clean, overlaps>>
  <2>1. ~Goto(t, "commit")
    BY DEF Goto, TypeOK
  <2>2. Goto(t, "store_len") /\ head' = Plus(writer[t].off, EntryLength(t))
    BY <2>1 DEF Shrink
  <2>3. QED
    BY <2>2 DEF Shrink, Goto, At, bookkeeping, ghosts
<1>2. /\ writer'[t].off = writer[t].off /\ writer'[t].pc = "store_len"
      /\ writer'[t].second = writer[t].second /\ writer'[t].msg = writer[t].msg
      /\ \A u \in Process : u # t => writer'[u] = writer[u]
  BY <1>1 DEF TypeOK
<1>3. /\ Holding(t) /\ Filled(t) /\ Held(t) = MaxEntry
      /\ Holding(t)' /\ ~Filled(t)' /\ Held(t)' = EntryLength(t)
      /\ EntryLength(t)' = EntryLength(t)
      /\ ~Loaded(t) /\ ~Freeing(t) /\ ~Loaded(t)' /\ ~Freeing(t)'
      /\ t \notin Deciders /\ t \notin Deciders'
      /\ writer[t].pc \notin Acquiring /\ writer'[t].pc \notin Acquiring
  BY <1>1, <1>2 DEF Loaded, Holding, Filled, Filling, Shrunk, Held, Freeing, Deciders, Acquiring,
                    EntryLength
<1>4. ASSUME NEW u \in Process, u # t
      PROVE  /\ Holding(u)' <=> Holding(u)
             /\ Filled(u)' <=> Filled(u)
             /\ Loaded(u)' <=> Loaded(u)
             /\ Freeing(u)' <=> Freeing(u)
             /\ Held(u)' = Held(u)
             /\ EntryLength(u)' = EntryLength(u)
             /\ writer'[u] = writer[u]
  BY <1>2, <1>4 DEF Holding, Filled, Loaded, Freeing, Held, EntryLength
<1>5. /\ head = Wrap(H) /\ tail = Wrap(T) /\ T <= B /\ B <= H /\ T \in M /\ H \in M
      /\ H - T <= Size /\ \A m \in M : T <= m /\ m <= H
  BY DEF View, Agree
<1>6. /\ writer[t].off = Wrap(O[t]) /\ B <= O[t] /\ O[t] \in Nat /\ O[t] \in Int
      /\ Adjacent(M, O[t], O[t] + MaxEntry)
  <2>1. writer[t].off = Wrap(O[t]) /\ B <= O[t]
    BY <1>3 DEF View, CallsAgree
  <2>2. Adjacent(M, O[t], O[t] + MaxEntry)
    BY <1>3 DEF View, Claims
  <2>3. QED
    BY <2>1, <2>2
<1>7. O[t] + MaxEntry = H
  <2>1. /\ O[t] + MaxEntry <= H /\ O[t] + MaxEntry \in Int /\ H \in Int
        /\ H - (O[t] + MaxEntry) < OffMod /\ (O[t] + MaxEntry) - H < OffMod
    BY <1>5, <1>6, Sizes DEF Adjacent
  <2>2. Wrap(O[t] + MaxEntry) = Wrap(H)
    <3>1. MaxEntry \in Int
      BY Sizes
    <3>2. Plus(Wrap(O[t]), MaxEntry) = Wrap(O[t] + MaxEntry)
      BY <1>6, <3>1, WrapPlus
    <3>3. QED
      BY <1>5, <1>6, <3>2
  <2>3. QED
    BY <2>1, <2>2, WrapSame
<1>8. /\ EntryLength(t) \in Nat /\ Header < EntryLength(t) /\ EntryLength(t) <= MaxEntry
      /\ Header = 2
  BY CallTyped, Sizes DEF EntryLength, Header
<1>a. PICK G \in Nat : G = O[t] + EntryLength(t) /\ O[t] < G /\ G <= H
  BY <1>6, <1>7, <1>8, Sizes
<1>b. PICK N \in SUBSET Nat : N = (M \ {H}) \union {G}
  OBVIOUS
<1>9. /\ G \in N /\ \A m \in N : m = G \/ (m \in M /\ m <= O[t] /\ m # H)
      /\ \A m \in M : m # H => m \in N /\ m <= O[t]
      /\ \A p, q : Adjacent(M, p, q) /\ q # H => Adjacent(N, p, q)
      /\ \A p \in Nat : Adjacent(M, p, H) => p = O[t]
      /\ Adjacent(N, O[t], G)
  <2>1. \A m \in M : m # H => m \in N /\ m <= O[t]
    BY <1>b, <1>5, <1>6, <1>7 DEF Adjacent
  <2>2. G \in N /\ \A m \in N : m = G \/ (m \in M /\ m <= O[t] /\ m # H)
    BY <1>b, <2>1
  <2>3. ASSUME NEW p, NEW q, Adjacent(M, p, q), q # H PROVE Adjacent(N, p, q)
    <3>1. q \in M /\ p \in M /\ p < q /\ \A m \in M : m <= p \/ q <= m
      BY <2>3 DEF Adjacent
    <3>2. p # H /\ q <= O[t] /\ q <= G
      BY <1>a, <1>5, <1>6, <2>1, <2>3, <3>1
    <3>3. QED
      BY <2>1, <2>2, <2>3, <3>1, <3>2 DEF Adjacent
  <2>4. Adjacent(N, O[t], G)
    <3>1. O[t] \in M /\ O[t] # H
      BY <1>6, <1>7 DEF Adjacent
    <3>2. QED
      BY <1>a, <2>1, <2>2, <3>1 DEF Adjacent
  <2>5. ASSUME NEW p \in Nat, Adjacent(M, p, H) PROVE p = O[t]
    <3>1. p \in M /\ p < H /\ O[t] \in M /\ O[t] < H
      BY <1>6, <1>7, <2>5 DEF Adjacent
    <3>2. (O[t] <= p \/ H <= O[t]) /\ (p <= O[t] \/ H <= p)
      BY <1>6, <1>7, <2>5, <3>1 DEF Adjacent
    <3>3. QED
      BY <1>6, <3>1, <3>2
  <2>6. QED
    BY <2>1, <2>2, <2>3, <2>4, <2>5
<1>10. Agree(G, T, B, N)'
  <2>1. head' = Wrap(G)
    BY <1>1, <1>6, <1>8, <1>a, WrapPlus
  <2>2. T \in N /\ T <= O[t] /\ B <= G /\ G - T <= Size
    BY <1>5, <1>6, <1>7, <1>9, <1>a, Sizes
  <2>3. \A m \in N : T <= m /\ m <= G
    BY <1>5, <1>6, <1>9, <1>a, <2>2
  <2>4. QED
    BY <1>1, <1>5, <1>9, <2>1, <2>2, <2>3 DEF Agree
<1>11. CallsAgree(T, B, O, D)'
  <2>1. CallsAgree(T, B, O, D)
    BY DEF View
  <2>2. QED
    BY <1>2, <1>3, <1>4, <1>6, <2>1 DEF CallsAgree
<1>12. Budget(G, T, B)'
  <2>1. t # Handler \/ fatal'
    BY <1>1, LogRingAssumption DEF Runs
  <2>2. /\ \A u \in Process : u # t /\ u \in Firsts' => u \in Firsts
        /\ \A u \in Process : u # t /\ u \in Seconds' => u \in Seconds
        /\ \A u \in Process : u # t => (u \in Deciders' <=> u \in Deciders)
        /\ Firsts' \subseteq Process /\ Seconds' \subseteq Process
    BY <1>1, <1>4 DEF Firsts, Seconds, Deciders
  <2>3. Deciders' = Deciders
    BY <1>3, <2>2 DEF Deciders
  <2>4. t \notin Firsts' /\ t \notin Seconds'
    BY <1>2, <1>3, <2>1 DEF Firsts, Seconds
  <2>5. Firsts' \subseteq Firsts /\ Seconds' \subseteq Seconds
    BY <2>2, <2>4
  <2>6. Room(Left') <= Room(Left) /\ Room(Left') \in Nat
    BY <1>1, <2>5, LeftKept
  <2>7. Room(Left) \in Nat /\ Window \in Nat
    BY ViewTyped DEF View
  <2>8. QED
    BY <1>a, <2>3, <2>6, <2>7 DEF View, Budget
<1>13. Seen(G, T, O)'
  <2>1. Seen(H, T, O)
    BY DEF View
  <2>2. ASSUME NEW u \in Process, Loaded(u)'
        PROVE  /\ O[u] <= G + MaxEntry
               /\ \A v \in Process : Filled(v)' /\ O[v] + MaxEntry = G => O[u] <= G
               /\ O[u] - T <= Size
               /\ writer'[u].pc = "cas_head" => O[u] + MaxEntry - T <= Size
    <3>1. u # t /\ Loaded(u) /\ writer'[u] = writer[u] /\ O[u] \in Nat
      BY <1>3, <1>4, <2>2
    <3>2. O[u] <= H
      BY <1>3, <1>7, <2>1, <3>1 DEF Seen
    <3>3. O[u] <= G + MaxEntry
      BY <1>6, <1>7, <1>a, <3>1, <3>2, Sizes
    <3>4. ASSUME NEW v \in Process, Filled(v)', O[v] + MaxEntry = G PROVE O[u] <= G
      <4>1. Filled(v) /\ v # t /\ Holding(v) /\ Held(v) = MaxEntry
        BY <1>3, <1>4, <3>4 DEF Filled, Holding, Held, Filling, Shrunk
      <4>2. G \in M
        BY <3>4, <4>1 DEF View, Claims, Adjacent
      <4>3. G = H
        BY <1>6, <1>9, <1>a, <4>2
      <4>4. QED
        BY <3>2, <4>3
    <3>5. QED
      BY <2>1, <3>1, <3>3, <3>4 DEF Seen
  <2>3. QED
    BY <1>1, <2>2 DEF Seen
<1>14. Claims(N, O)'
  <2>1. Claims(M, O)
    BY DEF View
  <2>2. ASSUME NEW u \in Process, Holding(u)' PROVE Adjacent(N, O[u], O[u] + Held(u)')
    <3>1. CASE u = t
      BY <1>3, <1>9, <1>a, <3>1
    <3>2. CASE u # t
      <4>1. Holding(u) /\ Held(u)' = Held(u) /\ Adjacent(M, O[u], O[u] + Held(u)) /\ O[u] \in Nat
        BY <1>4, <2>1, <2>2, <3>2 DEF Claims
      <4>2. O[u] + Held(u) # H
        BY <1>3, <1>9, <2>1, <3>2, <4>1 DEF Claims
      <4>3. QED
        BY <1>9, <4>1, <4>2
    <3>3. QED
      BY <3>1, <3>2
  <2>3. \A u \in Process : Holding(u)' <=> Holding(u)
    BY <1>3, <1>4
  <2>4. QED
    BY <2>1, <2>2, <2>3 DEF Claims
<1>15. PublishedLies(N, O)'
  <2>1. PublishedLies(M, O)
    BY DEF View
  <2>2. ASSUME NEW e \in published
        PROVE  /\ Header < e.len /\ e.len <= MaxEntry
               /\ \E p \in N : /\ e.off = Wrap(p) /\ Adjacent(N, p, p + e.len)
                               /\ \A u \in Process : Holding(u)' => O[u] # p
    <3>1. PICK p \in M : /\ e.off = Wrap(p) /\ Adjacent(M, p, p + e.len)
                         /\ \A u \in Process : Holding(u) => O[u] # p
      BY <2>1 DEF PublishedLies
    <3>2. p + e.len # H /\ p \in Nat
      BY <1>3, <1>9, <3>1
    <3>3. Adjacent(N, p, p + e.len)
      BY <1>9, <3>1, <3>2
    <3>4. p \in N
      BY <3>3 DEF Adjacent
    <3>5. QED
      BY <1>3, <1>4, <2>1, <3>1, <3>3, <3>4 DEF PublishedLies
  <2>3. QED
    BY <1>1, <2>2 DEF PublishedLies
<1>16. AllOwned(G, N, O)'
  <2>1. AllOwned(H, M, O)
    BY DEF View
  <2>2. ASSUME NEW p \in N, p < G
        PROVE  \/ \E u \in Process : Holding(u)' /\ O[u] = p
               \/ \E e \in published : e.off = Wrap(p)
    <3>1. p \in M /\ p < H
      BY <1>9, <1>a, <2>2
    <3>2. QED
      BY <1>3, <1>4, <2>1, <3>1 DEF AllOwned
  <2>3. QED
    BY <1>1, <2>2 DEF AllOwned
<1>17. LengthsTell'
  <2>1. LengthsTell
    BY DEF View
  <2>2. \A o, n : Reads(o, n)' <=> Reads(o, n)
    BY <1>1 DEF Reads, LengthAt
  <2>3. \A e \in published' : Reads(e.off, e.len)' /\ (~stomped' => mem'[Cell(e.off)] = e.type)
    BY <1>1, <2>1, <2>2 DEF LengthsTell
  <2>4. ASSUME NEW u \in Process, u # t
        PROVE  /\ writer'[u].pc \in {"empty", "text", "shrink", "commit", "store_len"} =>
                   Reads(writer[u].off, MaxEntry)'
               /\ writer'[u].pc = "commit_short" => Reads(writer[u].off, EntryLength(u))'
    <3>1. writer'[u] = writer[u] /\ EntryLength(u)' = EntryLength(u)
      BY <1>4, <2>4
    <3>2. /\ Reads(writer[u].off, MaxEntry)' <=> Reads(writer[u].off, MaxEntry)
          /\ Reads(writer[u].off, EntryLength(u))' <=> Reads(writer[u].off, EntryLength(u))
      BY <1>1, <3>1 DEF Reads, LengthAt
    <3>3. QED
      BY <2>1, <3>1, <3>2 DEF LengthsTell
  <2>5. Reads(writer[t].off, MaxEntry)'
    <3>1. Reads(writer[t].off, MaxEntry)
      BY <1>1, <2>1 DEF LengthsTell
    <3>2. QED
      BY <1>1, <1>2, <3>1 DEF Reads, LengthAt
  <2>6. QED
    BY <1>2, <2>3, <2>4, <2>5 DEF LengthsTell
<1>18. FreesOne(T, N, D)'
  <2>1. FreesOne(T, M, D)
    BY DEF View
  <2>2. ASSUME NEW u \in Process, writer'[u].pc = "cas_tail", D[u] = T
        PROVE  \/ writer'[u].length = 0 /\ stomped
               \/ Adjacent(N, T, T + writer'[u].length)
    <3>1. u # t /\ writer'[u] = writer[u]
      BY <1>2, <1>4, <2>2
    <3>2. u \in Deciders
      BY <2>2, <3>1 DEF Deciders
    <3>3. T + MaxEntry <= B
      BY <3>2, ViewTyped DEF View
    <3>4. T # O[t]
      BY <1>6, <3>3, Sizes
    <3>5. T + writer[u].length # H \/ ~Adjacent(M, T, T + writer[u].length)
      BY <1>9, <3>4
    <3>6. QED
      BY <1>9, <2>1, <2>2, <3>1, <3>5 DEF FreesOne
  <2>3. QED
    BY <1>1, <2>2 DEF FreesOne
<1>19. InBuffer(B, N, O)'
  <2>1. InBuffer(B, M, O)
    BY DEF View
  <2>2. ASSUME NEW u \in Process, writer'[u].pc \in Acquiring, writer'[u].second
        PROVE  \E p \in N : /\ B <= p /\ Cell(p) < MaxEntry
                            /\ \A v \in Process : Filled(v)' => O[v] + MaxEntry # p
    <3>1. u # t /\ writer[u].pc \in Acquiring /\ writer[u].second
      BY <1>3, <1>4, <2>2
    <3>2. PICK p \in M : /\ B <= p /\ Cell(p) < MaxEntry
                         /\ \A v \in Process : Filled(v) => O[v] + MaxEntry # p
      BY <2>1, <3>1 DEF InBuffer
    <3>3. p # H
      BY <1>3, <1>7, <3>2
    <3>4. QED
      BY <1>3, <1>4, <1>9, <3>2, <3>3
  <2>3. Cell(writer'[t].off) + MaxEntry <= Size
    BY <1>1, <1>2, <1>3, <2>1 DEF InBuffer
  <2>4. ASSUME NEW u \in Process, Holding(u)',
               writer'[u].second \/ writer'[u].pc \notin {"type", "len", "empty"}
        PROVE  Cell(writer'[u].off) + MaxEntry <= Size
    <3>1. CASE u = t
      BY <2>3, <3>1
    <3>2. CASE u # t
      BY <1>4, <2>1, <2>4, <3>2 DEF InBuffer
    <3>3. QED
      BY <3>1, <3>2
  <2>5. ASSUME NEW u \in Process, writer'[u].pc = "empty"
        PROVE  ~writer'[u].second /\ Cell(O[u] + MaxEntry) < MaxEntry
    BY <1>2, <1>4, <2>1, <2>5 DEF InBuffer
  <2>6. QED
    BY <2>2, <2>4, <2>5 DEF InBuffer
<1>20. HandlerWaits'
  <2>1. fatal \/ t # Handler
    BY <1>1, LogRingAssumption DEF Runs
  <2>2. Handler \in Process
    BY DEF Process
  <2>3. QED
    BY <1>1, <1>4, <2>1, <2>2 DEF View, HandlerWaits
<1>21. AfterFatal(G, T, D)'
  <2>1. AfterFatal(H, T, D) /\ Handler \in Process
    BY DEF View, Process
  <2>2. ASSUME fatal, clean
        PROVE  /\ ~stomped'
               /\ \A u \in Writers : ~Unsettled(u)'
               /\ ~Freeing(Handler)'
    <3>1. t = Handler /\ \A u \in Writers : u # t /\ u \in Process
      BY <1>1, <2>2, LogRingAssumption DEF Runs, Process
    <3>2. QED
      BY <1>1, <1>3, <1>4, <2>1, <2>2, <3>1 DEF AfterFatal, Unsettled
  <2>3. QED
    BY <1>1, <2>2 DEF AfterFatal, Freeing
<1>30. Unfinished'
  <2>1. Unfinished
    BY DEF View
  <2>2. QED
    BY <1>1, <1>2, <1>4, <2>1 DEF Unfinished
<1>22. View(G, T, B, N, O, D)'
  BY <1>30, <1>10, <1>11, <1>12, <1>13, <1>14, <1>15, <1>16, <1>17, <1>18, <1>19, <1>20, <1>21 DEF View
<1>23. QED
  BY <1>22

----------------------------------------------------------------------------
(* The step that moves tail                                                *)

(* tail is exchanged (line 116): the entry it leaves is exactly the one    *)
(* that lay there.                                                         *)
LEMMA TailMoved ==
  ASSUME TypeOK, TypeOK', Roomy, NEW H \in Nat, NEW T \in Nat, NEW B \in Nat,
         NEW M \in SUBSET Nat, NEW O \in [Process -> Nat], NEW D \in [Process -> Nat],
         View(H, T, B, M, O, D), NEW t \in Process, MoveTail(t), tail = writer[t].old,
         writer'[t].pc = "mark"
  PROVE  \E S \in Nat, L \in SUBSET Nat : View(H, S, B, L, O, D)'
<1> DEFINE n == writer[t].length
<1>1. /\ writer[t].pc = "cas_tail" /\ Runs(t) /\ tail' = Plus(tail, n)
      /\ published' = {e \in published : Minus(e.off, tail) >= n}
      /\ writer' = [writer EXCEPT ![t].pc = "mark", ![t].length = 0]
      /\ UNCHANGED <<mem, head, stomped, fatal, clean, overlaps>>
  <2>1. ASSUME writer' = [writer EXCEPT ![t].pc = "space", ![t].old = 0, ![t].length = 0]
        PROVE  FALSE
    BY <2>1 DEF TypeOK
  <2>2. QED
    BY <2>1 DEF MoveTail, At, bookkeeping
<1>2. /\ writer'[t].off = writer[t].off /\ writer'[t].pc = "mark"
      /\ writer'[t].old = writer[t].old /\ writer'[t].second = writer[t].second
      /\ \A u \in Process : u # t => writer'[u] = writer[u]
  BY <1>1 DEF TypeOK
<1>3. /\ Loaded(t) /\ Freeing(t) /\ t \in Deciders /\ ~Holding(t) /\ ~Filled(t)
      /\ Loaded(t)' /\ Freeing(t)' /\ t \notin Deciders' /\ ~Holding(t)' /\ ~Filled(t)'
      /\ writer[t].pc \in Acquiring /\ writer'[t].pc \in Acquiring
  BY <1>1, <1>2 DEF Loaded, Freeing, Deciders, Holding, Filled, Filling, Shrunk, Acquiring
<1>4. ASSUME NEW u \in Process, u # t
      PROVE  /\ Holding(u)' <=> Holding(u)
             /\ Filled(u)' <=> Filled(u)
             /\ Loaded(u)' <=> Loaded(u)
             /\ Freeing(u)' <=> Freeing(u)
             /\ Held(u)' = Held(u)
             /\ EntryLength(u)' = EntryLength(u)
             /\ writer'[u] = writer[u]
  BY <1>2, <1>4 DEF Holding, Filled, Loaded, Freeing, Held, EntryLength
<1>5. /\ head = Wrap(H) /\ tail = Wrap(T) /\ T <= B /\ B <= H /\ T \in M /\ H \in M
      /\ H - T <= Size /\ \A m \in M : T <= m /\ m <= H
  BY DEF View, Agree
<1>6. D[t] = T /\ B <= T + Size
  <2>1. writer[t].old = Wrap(D[t]) /\ D[t] <= T /\ B <= D[t] + Size /\ D[t] \in Nat /\ D[t] \in Int
    <3>1. writer[t].old = Wrap(D[t]) /\ D[t] <= T /\ B <= D[t] + Size
      BY <1>3 DEF View, CallsAgree
    <3>2. QED
      BY <3>1
  <2>2. Size < OffMod /\ Size \in Nat /\ OffMod \in Nat /\ T \in Int
    BY Sizes
  <2>3. D[t] - T < OffMod /\ T - D[t] < OffMod /\ Wrap(D[t]) = Wrap(T)
    <3>1. Wrap(D[t]) = Wrap(T)
      BY <1>5, <2>1
    <3>2. D[t] - T < OffMod /\ T - D[t] < OffMod
      BY <1>5, <2>1, <2>2
    <3>3. QED
      BY <3>1, <3>2
  <2>4. D[t] = T
    BY <2>1, <2>2, <2>3, WrapSame
  <2>5. QED
    BY <2>1, <2>4
<1>7. n \in Nat /\ n <= MaxEntry /\ n \in Int
  <2>1. n \in Byte
    BY CallTyped
  <2>2. QED
    BY <2>1, Sizes DEF Byte
<1>8. (n = 0 /\ stomped) \/ Adjacent(M, T, T + n)
  BY <1>1, <1>6 DEF View, FreesOne
<1> HIDE DEF n
<1>a. PICK S \in Nat : S = T + n /\ T <= S
  BY <1>7
<1>b. PICK L \in SUBSET Nat : L = {m \in M : S <= m}
  OBVIOUS
<1>9. S + Room(Cardinality(Deciders')) <= B /\ S <= B
  <2>1. Deciders' = Deciders \ {t}
    <3>1. \A u \in Process : u # t => (u \in Deciders' <=> u \in Deciders)
      BY <1>4 DEF Deciders
    <3>2. QED
      BY <1>3, <3>1 DEF Deciders
  <2>2. IsFiniteSet(Deciders) /\ Cardinality(Deciders) \in Nat /\ Cardinality(Deciders') \in Nat
    BY LeftTyped, LeftTypedNext, Few
  <2>3. Cardinality(Deciders) = Cardinality(Deciders') + 1
    <3>1. Cardinality(Deciders \ {t}) = Cardinality(Deciders) - 1
      BY <1>3, <2>2, FS_RemoveElement
    <3>2. Cardinality(Deciders') = Cardinality(Deciders) - 1
      BY <2>1, <3>1
    <3>3. QED
      BY <2>2, <3>2
  <2>4. /\ Room(Cardinality(Deciders)) = Room(Cardinality(Deciders')) + MaxEntry
        /\ Room(Cardinality(Deciders')) \in Nat
    BY <2>2, <2>3, RoomGrows
  <2>5. T + Room(Cardinality(Deciders)) <= B
    BY DEF View, Budget
  <2>6. QED
    BY <1>7, <1>a, <2>4, <2>5, Sizes
<1>10. /\ S \in L /\ H \in L /\ L \subseteq M /\ \A m \in M : S <= m => m \in L
       /\ \A p, q : Adjacent(M, p, q) /\ p \in L => Adjacent(L, p, q)
  <2>1. S \in M
    <3>1. CASE n = 0
      BY <1>5, <1>a, <3>1
    <3>2. CASE Adjacent(M, T, T + n)
      BY <1>a, <3>2 DEF Adjacent
    <3>3. QED
      BY <1>8, <3>1, <3>2
  <2>2. S \in L /\ H \in L /\ L \subseteq M /\ \A m \in M : S <= m => m \in L
    BY <1>5, <1>9, <1>b, <2>1
  <2>3. ASSUME NEW p, NEW q, Adjacent(M, p, q), p \in L PROVE Adjacent(L, p, q)
    <3>1. q \in M /\ p < q /\ S <= p /\ \A m \in M : m <= p \/ q <= m
      BY <1>b, <2>3 DEF Adjacent
    <3>2. S <= q
      BY <1>b, <2>3, <3>1
    <3>3. QED
      BY <2>2, <2>3, <3>1, <3>2 DEF Adjacent
  <2>4. QED
    BY <2>2, <2>3
<1>11. \A p \in M : Minus(Wrap(p), tail) = p - T
  <2>1. ASSUME NEW p \in M PROVE Minus(Wrap(p), Wrap(T)) = p - T
    <3>1. p \in Int /\ T \in Int /\ T <= p /\ p - T < OffMod
      BY <1>5, Sizes
    <3>2. QED
      BY <3>1, WrapMinus
  <2>2. QED
    BY <1>5, <2>1
<1>12. Agree(H, S, B, L)'
  <2>1. tail' = Wrap(S)
    BY <1>1, <1>5, <1>7, <1>a, WrapPlus
  <2>2. QED
    BY <1>1, <1>5, <1>9, <1>10, <1>a, <1>b, <2>1, Sizes DEF Agree
<1>13. CallsAgree(S, B, O, D)'
  <2>1. CallsAgree(T, B, O, D)
    BY DEF View
  <2>2. ASSUME NEW u \in Process
        PROVE  /\ Loaded(u)' \/ Holding(u)' => writer'[u].off = Wrap(O[u]) /\ B <= O[u]
               /\ Freeing(u)' => writer'[u].old = Wrap(D[u]) /\ D[u] <= T /\ B <= D[u] + Size
    <3>1. CASE u = t
      BY <1>2, <1>3, <2>1, <3>1 DEF CallsAgree
    <3>2. CASE u # t
      BY <1>4, <2>1, <3>2 DEF CallsAgree
    <3>3. QED
      BY <3>1, <3>2
  <2>3. QED
    BY <1>a, <2>2 DEF CallsAgree
<1>14. Budget(H, S, B)'
  <2>1. Firsts' \subseteq Firsts /\ Seconds' \subseteq Seconds
    <3>1. /\ \A u \in Process : u # t /\ u \in Firsts' => u \in Firsts
          /\ \A u \in Process : u # t /\ u \in Seconds' => u \in Seconds
      BY <1>1, <1>4 DEF Firsts, Seconds
    <3>2. t \in Seconds /\ (t \in Firsts' => t \in Firsts)
      BY <1>1, <1>2, <1>3 DEF Firsts, Seconds
    <3>3. QED
      BY <3>1, <3>2 DEF Firsts, Seconds
  <2>2. Room(Left') <= Room(Left) /\ Room(Left') \in Nat
    BY <1>1, <2>1, LeftKept
  <2>3. Room(Left) \in Nat /\ Window \in Nat
    BY ViewTyped DEF View
  <2>4. QED
    BY <1>9, <2>2, <2>3 DEF View, Budget
<1>15. Seen(H, S, O)'
  <2>1. Seen(H, T, O)
    BY DEF View
  <2>2. ASSUME NEW u \in Process, Loaded(u)'
        PROVE  /\ O[u] <= H + MaxEntry
               /\ \A v \in Process : Filled(v)' /\ O[v] + MaxEntry = H => O[u] <= H
               /\ O[u] - T <= Size
               /\ writer'[u].pc = "cas_head" => O[u] + MaxEntry - T <= Size
    <3>1. Loaded(u) /\ (writer'[u].pc = "cas_head" => writer[u].pc = "cas_head")
      BY <1>2, <1>3, <1>4, <2>2
    <3>2. \A v \in Process : Filled(v)' => Filled(v)
      BY <1>3, <1>4
    <3>3. QED
      BY <2>1, <3>1, <3>2 DEF Seen
  <2>3. ASSUME NEW u \in Process, Loaded(u)'
        PROVE  O[u] - S <= Size /\ (writer'[u].pc = "cas_head" => O[u] + MaxEntry - S <= Size)
    <3>1. O[u] \in Nat
      OBVIOUS
    <3>2. QED
      BY <1>a, <2>2, <2>3, <3>1, Sizes
  <2>4. QED
    BY <2>2, <2>3 DEF Seen
<1>16. Claims(L, O)'
  <2>1. Claims(M, O)
    BY DEF View
  <2>2. ASSUME NEW u \in Process, Holding(u)'
        PROVE  Holding(u) /\ Adjacent(L, O[u], O[u] + Held(u)')
    <3>1. Holding(u) /\ Held(u)' = Held(u)
      BY <1>3, <1>4, <2>2
    <3>2. Adjacent(M, O[u], O[u] + Held(u)) /\ B <= O[u] /\ O[u] \in Nat
      BY <2>1, <3>1 DEF Claims, View, CallsAgree
    <3>3. O[u] \in L
      BY <1>9, <1>10, <3>2 DEF Adjacent
    <3>4. QED
      BY <1>10, <3>1, <3>2, <3>3
  <2>3. QED
    BY <2>1, <2>2 DEF Claims
<1>17. PublishedLies(L, O)'
  <2>1. PublishedLies(M, O)
    BY DEF View
  <2>2. ASSUME NEW e \in published'
        PROVE  /\ Header < e.len /\ e.len <= MaxEntry
               /\ \E p \in L : /\ e.off = Wrap(p) /\ Adjacent(L, p, p + e.len)
                               /\ \A u \in Process : Holding(u)' => O[u] # p
    <3>1. e \in published /\ Minus(e.off, tail) >= n
      BY <1>1
    <3>2. PICK p \in M : /\ e.off = Wrap(p) /\ Adjacent(M, p, p + e.len)
                         /\ \A u \in Process : Holding(u) => O[u] # p
      BY <2>1, <3>1 DEF PublishedLies
    <3>3. p - T >= n
      BY <1>11, <3>1, <3>2
    <3>4. p \in L
      BY <1>7, <1>10, <1>a, <3>3
    <3>5. QED
      BY <1>3, <1>4, <1>10, <2>1, <3>1, <3>2, <3>4 DEF PublishedLies
  <2>3. QED
    BY <2>2 DEF PublishedLies
<1>18. AllOwned(H, L, O)'
  <2>1. AllOwned(H, M, O)
    BY DEF View
  <2>2. ASSUME NEW p \in L, p < H
        PROVE  \/ \E u \in Process : Holding(u)' /\ O[u] = p
               \/ \E e \in published' : e.off = Wrap(p)
    <3>1. p \in M /\ p \in Nat /\ S <= p
      BY <1>b
    <3>2. CASE \E u \in Process : Holding(u) /\ O[u] = p
      BY <1>3, <1>4, <3>2
    <3>3. CASE \E e \in published : e.off = Wrap(p)
      <4>1. PICK e \in published : e.off = Wrap(p)
        BY <3>3
      <4>2. Minus(e.off, tail) >= n
        BY <1>7, <1>11, <1>a, <3>1, <4>1
      <4>3. QED
        BY <1>1, <4>1, <4>2
    <3>4. QED
      BY <2>1, <2>2, <3>1, <3>2, <3>3 DEF AllOwned
  <2>3. QED
    BY <2>2 DEF AllOwned
<1>19. LengthsTell'
  <2>1. LengthsTell
    BY DEF View
  <2>2. \A o, m : Reads(o, m)' <=> Reads(o, m)
    BY <1>1 DEF Reads, LengthAt
  <2>3. \A e \in published' : Reads(e.off, e.len)' /\ (~stomped' => mem'[Cell(e.off)] = e.type)
    BY <1>1, <2>1, <2>2 DEF LengthsTell
  <2>4. ASSUME NEW u \in Process, u # t
        PROVE  /\ writer'[u].pc \in {"empty", "text", "shrink", "commit", "store_len"} =>
                   Reads(writer[u].off, MaxEntry)'
               /\ writer'[u].pc = "commit_short" => Reads(writer[u].off, EntryLength(u))'
    <3>1. writer'[u] = writer[u] /\ EntryLength(u)' = EntryLength(u)
      BY <1>4, <2>4
    <3>2. /\ Reads(writer[u].off, MaxEntry)' <=> Reads(writer[u].off, MaxEntry)
          /\ Reads(writer[u].off, EntryLength(u))' <=> Reads(writer[u].off, EntryLength(u))
      BY <1>1, <3>1 DEF Reads, LengthAt
    <3>3. QED
      BY <2>1, <3>1, <3>2 DEF LengthsTell
  <2>5. QED
    BY <1>2, <2>3, <2>4 DEF LengthsTell
<1>20. FreesOne(S, L, D)'
  <2>1. FreesOne(T, M, D)
    BY DEF View
  <2>2. ASSUME NEW u \in Process, writer'[u].pc = "cas_tail", D[u] = S
        PROVE  \/ writer'[u].length = 0 /\ stomped
               \/ Adjacent(L, S, S + writer'[u].length)
    <3>1. u # t /\ writer'[u] = writer[u] /\ writer[u].pc = "cas_tail"
      BY <1>2, <1>4, <2>2
    <3>2. Freeing(u)
      BY <3>1 DEF Freeing
    <3>3. D[u] <= T
      BY <3>2 DEF View, CallsAgree
    <3>4. S = T
      BY <1>a, <2>2, <3>3
    <3>5. \/ writer[u].length = 0 /\ stomped
          \/ Adjacent(M, S, S + writer[u].length)
      BY <2>1, <2>2, <3>1, <3>4 DEF FreesOne
    <3>6. QED
      BY <1>10, <3>1, <3>5
  <2>3. QED
    BY <1>1, <2>2 DEF FreesOne
<1>21. InBuffer(B, L, O)'
  <2>1. InBuffer(B, M, O)
    BY DEF View
  <2>2. ASSUME NEW u \in Process, writer'[u].pc \in Acquiring, writer'[u].second
        PROVE  \E p \in L : /\ B <= p /\ Cell(p) < MaxEntry
                            /\ \A v \in Process : Filled(v)' => O[v] + MaxEntry # p
    <3>1. writer[u].pc \in Acquiring /\ writer[u].second
      BY <1>2, <1>3, <1>4, <2>2
    <3>2. PICK p \in M : /\ B <= p /\ Cell(p) < MaxEntry
                         /\ \A v \in Process : Filled(v) => O[v] + MaxEntry # p
      BY <2>1, <3>1 DEF InBuffer
    <3>3. p \in L
      BY <1>9, <1>10, <3>2
    <3>4. QED
      BY <1>3, <1>4, <3>2, <3>3
  <2>3. ASSUME NEW u \in Process, Holding(u)',
               writer'[u].second \/ writer'[u].pc \notin {"type", "len", "empty"}
        PROVE  Cell(writer'[u].off) + MaxEntry <= Size
    BY <1>3, <1>4, <2>1, <2>3 DEF InBuffer
  <2>4. ASSUME NEW u \in Process, writer'[u].pc = "empty"
        PROVE  ~writer'[u].second /\ Cell(O[u] + MaxEntry) < MaxEntry
    BY <1>2, <1>4, <2>1, <2>4 DEF InBuffer
  <2>5. QED
    BY <2>2, <2>3, <2>4 DEF InBuffer
<1>22. HandlerWaits'
  <2>1. fatal \/ t # Handler
    BY <1>1, LogRingAssumption DEF Runs
  <2>2. Handler \in Process
    BY DEF Process
  <2>3. QED
    BY <1>1, <1>4, <2>1, <2>2 DEF View, HandlerWaits
<1>23. AfterFatal(H, S, D)'
  <2>1. AfterFatal(H, T, D)
    BY DEF View
  <2>2. ASSUME fatal, clean
        PROVE  /\ ~stomped'
               /\ \A u \in Writers : ~Unsettled(u)'
               /\ writer'[Handler].pc = "mark" /\ D[Handler] < S /\ H <= D[Handler] + Size
    <3>1. t = Handler /\ \A u \in Writers : u # t /\ u \in Process
      BY <1>1, <2>2, LogRingAssumption DEF Runs, Process
    <3>2. ~stomped /\ \A u \in Writers : ~Unsettled(u)
      BY <2>1, <2>2 DEF AfterFatal
    <3>3. T < S
      BY <1>8, <1>a, <3>2 DEF Adjacent
    <3>4. H <= T + Size
      BY <1>5, Sizes
    <3>5. QED
      BY <1>1, <1>2, <1>4, <1>6, <3>1, <3>2, <3>3, <3>4 DEF Unsettled
  <2>3. QED
    BY <1>1, <2>2 DEF AfterFatal
<1>30. Unfinished'
  <2>1. Unfinished
    BY DEF View
  <2>2. QED
    BY <1>1, <1>2, <1>4, <2>1 DEF Unfinished
<1>24. View(H, S, B, L, O, D)'
  BY <1>30, <1>12, <1>13, <1>14, <1>15, <1>16, <1>17, <1>18, <1>19, <1>20, <1>21, <1>22, <1>23 DEF View
<1>25. QED
  BY <1>24

----------------------------------------------------------------------------
(* The late store of LOG_INVALID                                           *)

(* What a call has reserved is what the view says it holds.                *)
LEMMA ReservedIs ==
  ASSUME TypeOK, NEW H \in Nat, NEW T \in Nat, NEW B \in Nat, NEW M \in SUBSET Nat,
         NEW O \in [Process -> Nat], NEW D \in [Process -> Nat], View(H, T, B, M, O, D),
         NEW t \in Process
  PROVE  /\ Holding(t) => Reserved(t) = CellsOf(O[t], Held(t))
         /\ ~Holding(t) => Reserved(t) = {}
<1>1. ASSUME Holding(t) PROVE Reserved(t) = CellsOf(O[t], Held(t))
  <2>1. writer[t].off = Wrap(O[t]) /\ O[t] \in Int /\ Held(t) \in Int
    <3>1. writer[t].off = Wrap(O[t])
      BY <1>1 DEF View, CallsAgree
    <3>2. Held(t) \in Int
      BY HeldSize
    <3>3. QED
      BY <3>1, <3>2
  <2>2. CellsOf(writer[t].off, Held(t)) = CellsOf(O[t], Held(t))
    BY <2>1, CellsWrap
  <2>3. Reserved(t) = CellsOf(writer[t].off, Held(t))
    BY <1>1 DEF Reserved, Whole, Held, Holding, Filling, Shrunk
  <2>4. QED
    BY <2>2, <2>3
<1>2. ASSUME ~Holding(t) PROVE Reserved(t) = {}
  BY <1>2 DEF Reserved, Whole, Holding, Filling, Shrunk
<1>3. QED
  BY <1>1, <1>2

(* A byte in use is in a reservation or in a published entry.              *)
LEMMA LiveCases ==
  ASSUME NEW c
  PROVE  c \in LiveCells <=> \/ \E t \in Process : c \in Reserved(t)
                             \/ \E e \in published : c \in CellsOf(e.off, e.len)
<1>1. c \in UNION {Reserved(t) : t \in Process} <=> \E t \in Process : c \in Reserved(t)
  OBVIOUS
<1>2. c \in UNION {CellsOf(e.off, e.len) : e \in published} <=>
        \E e \in published : c \in CellsOf(e.off, e.len)
  OBVIOUS
<1>3. QED
  <2>1. c \in LiveCells <=> \/ c \in UNION {Reserved(t) : t \in Process}
                            \/ c \in UNION {CellsOf(e.off, e.len) : e \in published}
    BY DEF LiveCells, ReservedCells
  <2>2. QED
    BY <1>1, <1>2, <2>1

(* A byte in use lies between two boundaries next to each other.           *)
LEMMA LiveEntry ==
  ASSUME TypeOK, NEW H \in Nat, NEW T \in Nat, NEW B \in Nat, NEW M \in SUBSET Nat,
         NEW O \in [Process -> Nat], NEW D \in [Process -> Nat], View(H, T, B, M, O, D),
         NEW c \in LiveCells
  PROVE  \E p \in Nat, n \in Nat : Adjacent(M, p, p + n) /\ c \in CellsOf(p, n)
<1>1. CASE \E t \in Process : c \in Reserved(t)
  <2>1. PICK t \in Process : c \in Reserved(t)
    BY <1>1
  <2>2. Holding(t) /\ c \in CellsOf(O[t], Held(t))
    BY <2>1, ReservedIs
  <2>3. Adjacent(M, O[t], O[t] + Held(t)) /\ O[t] \in Nat /\ Held(t) \in Nat
    BY <2>2, HeldSize DEF View, Claims
  <2>4. QED
    BY <2>2, <2>3
<1>2. CASE \E e \in published : c \in CellsOf(e.off, e.len)
  <2>1. PICK e \in published : c \in CellsOf(e.off, e.len)
    BY <1>2
  <2>2. PICK p \in M : e.off = Wrap(p) /\ Adjacent(M, p, p + e.len)
    BY DEF View, PublishedLies
  <2>3. p \in Nat /\ e.len \in Nat /\ p \in Int /\ e.len \in Int
    BY PublishedTyped
  <2>4. CellsOf(e.off, e.len) = CellsOf(p, e.len)
    BY <2>2, <2>3, CellsWrap
  <2>5. QED
    BY <2>1, <2>2, <2>3, <2>4
<1>3. QED
  BY <1>1, <1>2, LiveCases

(* The late LOG_INVALID store (line 119) hits at most the first byte of an *)
(* entry that has since been reserved, and is then recorded as such.       *)
LEMMA MarkInvalidKeeps ==
  ASSUME TypeOK, TypeOK', Roomy, NEW H \in Nat, NEW T \in Nat, NEW B \in Nat,
         NEW M \in SUBSET Nat, NEW O \in [Process -> Nat], NEW D \in [Process -> Nat],
         View(H, T, B, M, O, D), NEW t \in Process, MarkInvalid(t)
  PROVE  View(H, T, B, M, O, D)'
<1> DEFINE c == Cell(writer[t].old)
<1>1. /\ writer[t].pc = "mark" /\ Runs(t) /\ mem' = Stored(writer[t].old, LOG_INVALID)
      /\ stomped' = (stomped \/ c \in LiveCells)
      /\ writer' = [writer EXCEPT ![t].pc = "space", ![t].old = 0]
      /\ UNCHANGED <<head, tail, published, fatal, clean, overlaps>>
  BY DEF MarkInvalid, At, bookkeeping
<1>2. /\ writer'[t].off = writer[t].off /\ writer'[t].pc = "space"
      /\ writer'[t].second = writer[t].second
      /\ \A u \in Process : u # t => writer'[u] = writer[u]
  BY <1>1 DEF TypeOK
<1>3. /\ Loaded(t) /\ Freeing(t) /\ writer[t].pc \in Acquiring /\ ~Holding(t) /\ ~Holding(t)'
      /\ writer'[t].pc \in Acquiring /\ ~Freeing(t)' /\ t \notin Deciders'
  BY <1>1, <1>2 DEF Loaded, Freeing, Deciders, Acquiring, Holding, Filling, Shrunk
<1>4. /\ writer[t].off = Wrap(O[t]) /\ B <= O[t] /\ O[t] <= H + MaxEntry /\ O[t] - T <= Size
      /\ \A u \in Process : Filled(u) /\ O[u] + MaxEntry = H => O[t] <= H
      /\ writer[t].old = Wrap(D[t])
  BY <1>3 DEF View, CallsAgree, Seen
<1>5. /\ c \in 0..Size - 1 /\ mem'[c] = 0
      /\ \A b \in 0..Size - 1 : b # c => mem'[b] = mem[b]
  <2>1. writer[t].old \in Int
    BY CallTyped, Offsets
  <2>2. QED
    BY <1>1, <2>1, StoreOne, Ranges DEF LOG_INVALID
<1>6. c = Cell(D[t]) /\ D[t] \in Int /\ D[t] + 0 = D[t]
  <2>1. D[t] \in Int
    OBVIOUS
  <2>2. QED
    BY <1>4, <2>1, WrapCell0
<1> HIDE DEF c
<1>7. fatal /\ clean => ~stomped'
  <2> SUFFICES ASSUME fatal, clean PROVE ~stomped'
    OBVIOUS
  <2>1. t = Handler /\ ~stomped /\ D[t] < T /\ H <= D[t] + Size
    BY <1>1, LogRingAssumption DEF Runs, View, AfterFatal
  <2>2. ASSUME c \in LiveCells PROVE FALSE
    <3>1. PICK p \in Nat, n \in Nat : Adjacent(M, p, p + n) /\ c \in CellsOf(p, n)
      BY <2>2, LiveEntry
    <3>2. T <= p /\ p + n <= H
      BY <3>1 DEF View, Agree, Adjacent
    <3>3. /\ D[t] + 1 <= p /\ p + n <= D[t] + Size
          /\ p \in Int /\ n \in Int /\ 1 \in Int /\ 0 \in 0..1 - 1
      BY <1>6, <2>1, <3>2, Sizes
    <3>4. CellsOf(D[t], 1) \intersect CellsOf(p, n) = {}
      BY <1>6, <3>3, CellsApart
    <3>5. Cell(D[t] + 0) \in CellsOf(D[t], 1)
      BY <1>6, <3>3, CellIn
    <3>6. QED
      BY <1>6, <3>1, <3>4, <3>5
  <2>3. QED
    BY <1>1, <2>1, <2>2
<1>8. LengthsTell'
  <2>1. LengthsTell
    BY DEF View
  <2>2. ASSUME NEW b \in 0..Size - 1
        PROVE  /\ mem'[b] = mem[b] \/ (mem'[b] = 0 /\ b = c)
               /\ mem'[b] = mem[b] \/ stomped' \/ b \notin LiveCells
    BY <1>1, <1>5
  <2>3. ASSUME NEW e \in published
        PROVE  Reads(e.off, e.len)' /\ (~stomped' => mem'[Cell(e.off)] = e.type)
    <3>1. PICK p \in M : e.off = Wrap(p)
      BY DEF View, PublishedLies
    <3>2. p \in Nat /\ e.len \in Nat /\ 1 < e.len
      BY PublishedTyped DEF View, PublishedLies, Header
    <3>3. /\ Cell(e.off) \in CellsOf(e.off, e.len) /\ Cell(e.off + 1) \in CellsOf(e.off, e.len)
          /\ Cell(e.off) \in 0..Size - 1 /\ Cell(e.off + 1) \in 0..Size - 1
      BY <3>1, <3>2, HeaderCells, CellsWrap
    <3>4. Cell(e.off) \in LiveCells /\ Cell(e.off + 1) \in LiveCells
      BY <3>3, LiveCases
    <3>5. Reads(e.off, e.len) /\ (~stomped => mem[Cell(e.off)] = e.type)
      BY <2>1 DEF LengthsTell
    <3>6. Reads(e.off, e.len)'
      BY <1>1, <2>2, <3>3, <3>4, <3>5 DEF Reads, LengthAt
    <3>7. QED
      BY <1>1, <2>2, <3>3, <3>4, <3>5, <3>6
  <2>4. ASSUME NEW u \in Process, u # t
        PROVE  /\ writer'[u].pc \in {"empty", "text", "shrink", "commit", "store_len"} =>
                   Reads(writer[u].off, MaxEntry)' /\ writer'[u] = writer[u]
               /\ writer'[u].pc = "commit_short" =>
                   Reads(writer[u].off, EntryLength(u))' /\ writer'[u] = writer[u]
    <3>1. writer'[u] = writer[u] /\ EntryLength(u)' = EntryLength(u)
      BY <1>2, <2>4 DEF EntryLength
    <3>2. CASE Holding(u)
      <4>1. Cell(writer[u].off + 1) \in CellsOf(O[u], Held(u)) /\ Cell(writer[u].off + 1) \in 0..Size - 1
        BY <3>2, Place
      <4>2. Cell(writer[u].off + 1) \in LiveCells
        BY <3>2, <4>1, ReservedIs, LiveCases
      <4>3. \A n : Reads(writer[u].off, n) => Reads(writer[u].off, n)'
        BY <1>1, <2>2, <3>1, <4>1, <4>2 DEF Reads, LengthAt
      <4>4. QED
        BY <2>1, <3>1, <4>3 DEF LengthsTell
    <3>3. CASE ~Holding(u)
      BY <3>1, <3>3 DEF Holding, Filling, Shrunk
    <3>4. QED
      BY <3>2, <3>3
  <2>5. QED
    BY <1>1, <1>2, <2>3, <2>4 DEF LengthsTell
<1>10. Unfinished'
  <2>1. Unfinished
    BY DEF View
  <2>2. ASSUME NEW u \in Process,
               writer'[u].pc \in {"len", "empty", "text", "shrink", "commit", "store_len", "commit_short"}
        PROVE  mem'[Cell(writer'[u].off)] = LOG_INVALID
    <3>1. u # t /\ writer'[u] = writer[u]
      BY <1>2, <2>2
    <3>2. mem[Cell(writer[u].off)] = LOG_INVALID
      BY <2>1, <2>2, <3>1 DEF Unfinished
    <3>3. Cell(writer[u].off) \in 0..Size - 1
      BY CallTyped, Offsets, Ranges
    <3>4. QED
      BY <1>5, <3>1, <3>2, <3>3 DEF LOG_INVALID
  <2>3. QED
    BY <2>2 DEF Unfinished
<1>9. QED
  <2>1. stomped => stomped'
    BY <1>1
  <2>2. fatal /\ clean /\ t = Handler => writer'[t].pc \notin {"length", "cas_tail", "mark"}
    BY <1>2
  <2>3. QED
    BY <1>10, <1>1, <1>2, <1>3, <1>4, <1>7, <1>8, <2>1, <2>2, AcquiringStep

----------------------------------------------------------------------------
(* Steps that begin a call, and those of the dump                          *)

(* When at most two may reserve first and second, they have room in the    *)
(* window.                                                                 *)
LEMMA RoomAtRest ==
  ASSUME NEW a, NEW b, NEW F, NEW S, F \subseteq {a, b}, S \subseteq {a, b},
         NEW k \in 0..MaxOverlaps
  PROVE  /\ Room(Cardinality(F) + Cardinality(S) + 2 * (MaxOverlaps - k)) <= Window
         /\ Room(Cardinality(F) + Cardinality(S) + 2 * (MaxOverlaps - k)) \in Nat
         /\ Window \in Nat
<1>1. IsFiniteSet({a, b}) /\ Cardinality({a, b}) \in Nat /\ Cardinality({a, b}) <= 2
  <2>1. IsFiniteSet({}) /\ Cardinality({}) = 0
    BY FS_EmptySet
  <2>2. IsFiniteSet({b}) /\ Cardinality({b}) = 1
    BY FS_Singleton
  <2>3. {b} \union {a} = {a, b}
    OBVIOUS
  <2>4. IsFiniteSet({b} \union {a})
        /\ Cardinality({b} \union {a}) = (IF a \in {b} THEN Cardinality({b}) ELSE Cardinality({b}) + 1)
    BY <2>2, FS_AddElement
  <2>5. Cardinality({a, b}) = (IF a \in {b} THEN 1 ELSE 1 + 1) /\ IsFiniteSet({a, b})
    BY <2>2, <2>3, <2>4
  <2>6. QED
    BY <2>5
<1>2. /\ Cardinality(F) \in Nat /\ Cardinality(F) <= Cardinality({a, b})
      /\ Cardinality(S) \in Nat /\ Cardinality(S) <= Cardinality({a, b})
  BY <1>1, FS_Subset, FS_CardinalityType
<1> DEFINE n == Cardinality(F) + Cardinality(S) + 2 * (MaxOverlaps - k)
           w == 2 * MaxOverlaps + 4
<1>3. n \in Nat /\ w \in Nat /\ n <= w /\ Window = Room(w)
  BY <1>1, <1>2, LogRingAssumption DEF Window
<1> HIDE DEF n, w
<1>4. Room(n) <= Room(w) /\ Room(n) \in Nat /\ Room(w) \in Nat
  BY <1>3, RoomGrows
<1>5. QED
  BY <1>3, <1>4 DEF n

(* A call that has neither loaded nor reserved anything.                   *)
Calm(t) == Resting(t) \/ (writer[t].pc = "load" /\ ~writer[t].second)

(* A step of a call that has read nothing yet keeps the view.              *)
LEMMA CalmStep ==
  ASSUME TypeOK, TypeOK', NEW H \in Nat, NEW T \in Nat, NEW B \in Nat, NEW M \in SUBSET Nat,
         NEW O \in [Process -> Nat], NEW D \in [Process -> Nat], View(H, T, B, M, O, D),
         UNCHANGED <<mem, head, tail, published, stomped>>,
         \A u \in Process : writer'[u] = writer[u] \/ (Calm(u) /\ Calm(u)'),
         Budget(H, T, B)', HandlerWaits', AfterFatal(H, T, D)'
  PROVE  View(H, T, B, M, O, D)'
<1>1. ASSUME NEW u \in Process, Calm(u)
      PROVE  /\ ~Holding(u) /\ ~Filled(u) /\ ~Loaded(u) /\ ~Freeing(u)
             /\ ~(writer[u].pc \in Acquiring /\ writer[u].second)
  BY <1>1 DEF Calm, Resting, Holding, Filled, Loaded, Freeing, Filling, Shrunk, Acquiring
<1>2. ASSUME NEW u \in Process, Calm(u)'
      PROVE  /\ ~Holding(u)' /\ ~Filled(u)' /\ ~Loaded(u)' /\ ~Freeing(u)'
             /\ ~(writer'[u].pc \in Acquiring /\ writer'[u].second)
  BY <1>2 DEF Calm, Resting, Holding, Filled, Loaded, Freeing, Filling, Shrunk, Acquiring
<1>3. ASSUME NEW u \in Process
      PROVE  /\ Holding(u)' <=> Holding(u)
             /\ Filled(u)' <=> Filled(u)
             /\ Loaded(u)' <=> Loaded(u)
             /\ Freeing(u)' <=> Freeing(u)
             /\ Holding(u) \/ Loaded(u) \/ Freeing(u) =>
                  /\ writer'[u] = writer[u] /\ Held(u)' = Held(u)
                  /\ EntryLength(u)' = EntryLength(u)
             /\ writer'[u].pc \in Acquiring /\ writer'[u].second =>
                  writer[u].pc \in Acquiring /\ writer[u].second
  <2>1. CASE writer'[u] = writer[u]
    BY <2>1 DEF Holding, Filled, Loaded, Freeing, Held, EntryLength
  <2>2. CASE Calm(u) /\ Calm(u)'
    <3>1. /\ ~Holding(u) /\ ~Filled(u) /\ ~Loaded(u) /\ ~Freeing(u)
      BY <1>1, <2>2
    <3>2. /\ ~Holding(u)' /\ ~Filled(u)' /\ ~Loaded(u)' /\ ~Freeing(u)'
          /\ ~(writer'[u].pc \in Acquiring /\ writer'[u].second)
      BY <1>2, <2>2
    <3>3. QED
      BY <3>1, <3>2
  <2>3. QED
    BY <2>1, <2>2
<1>4. Agree(H, T, B, M)'
  BY DEF View, Agree
<1>5. CallsAgree(T, B, O, D)'
  <2>1. CallsAgree(T, B, O, D)
    BY DEF View
  <2>2. QED
    BY <1>3, <2>1 DEF CallsAgree
<1>6. Seen(H, T, O)'
  <2>1. Seen(H, T, O)
    BY DEF View
  <2>2. QED
    BY <1>3, <2>1 DEF Seen
<1>7. Claims(M, O)'
  <2>1. Claims(M, O)
    BY DEF View
  <2>2. QED
    BY <1>3, <2>1 DEF Claims
<1>8. PublishedLies(M, O)'
  <2>1. PublishedLies(M, O)
    BY DEF View
  <2>2. ASSUME NEW e \in published
        PROVE  /\ Header < e.len /\ e.len <= MaxEntry
               /\ \E p \in M : /\ e.off = Wrap(p) /\ Adjacent(M, p, p + e.len)
                               /\ \A u \in Process : Holding(u)' => O[u] # p
    BY <1>3, <2>1 DEF PublishedLies
  <2>3. QED
    BY <2>2 DEF PublishedLies
<1>9. AllOwned(H, M, O)'
  BY <1>3 DEF View, AllOwned
<1>10. LengthsTell'
  <2>1. LengthsTell
    BY DEF View
  <2>2. \A o, n : Reads(o, n)' <=> Reads(o, n)
    BY DEF Reads, LengthAt
  <2>3. \A e \in published' : Reads(e.off, e.len)' /\ (~stomped' => mem'[Cell(e.off)] = e.type)
    BY <2>1, <2>2 DEF LengthsTell
  <2>4. ASSUME NEW u \in Process
        PROVE  /\ writer'[u].pc \in {"empty", "text", "shrink", "commit", "store_len"} =>
                   Reads(writer[u].off, MaxEntry)' /\ writer'[u] = writer[u]
               /\ writer'[u].pc = "commit_short" =>
                   Reads(writer[u].off, EntryLength(u))' /\ writer'[u] = writer[u]
    <3>1. CASE Holding(u)
      <4>1. writer'[u] = writer[u] /\ EntryLength(u)' = EntryLength(u)
        BY <1>3, <3>1
      <4>2. /\ Reads(writer[u].off, MaxEntry)' <=> Reads(writer[u].off, MaxEntry)
            /\ Reads(writer[u].off, EntryLength(u))' <=> Reads(writer[u].off, EntryLength(u))
        BY <4>1 DEF Reads, LengthAt
      <4>3. QED
        BY <2>1, <4>1, <4>2 DEF LengthsTell
    <3>2. CASE ~Holding(u)
      <4>1. ~Holding(u)'
        BY <1>3, <3>2
      <4>2. QED
        BY <4>1 DEF Holding, Filling, Shrunk
    <3>3. QED
      BY <3>1, <3>2
  <2>5. QED
    BY <2>3, <2>4 DEF LengthsTell
<1>11. FreesOne(T, M, D)'
  <2>1. FreesOne(T, M, D)
    BY DEF View
  <2>2. ASSUME NEW u \in Process, writer'[u].pc = "cas_tail"
        PROVE  writer'[u] = writer[u]
    <3>1. Freeing(u)'
      BY <2>2 DEF Freeing
    <3>2. QED
      BY <1>3, <3>1
  <2>3. QED
    BY <2>1, <2>2 DEF FreesOne
<1>12. InBuffer(B, M, O)'
  <2>1. InBuffer(B, M, O)
    BY DEF View
  <2>2. ASSUME NEW u \in Process, writer'[u].pc \in Acquiring, writer'[u].second
        PROVE  \E p \in M : /\ B <= p /\ Cell(p) < MaxEntry
                            /\ \A v \in Process : Filled(v)' => O[v] + MaxEntry # p
    BY <1>3, <2>1, <2>2 DEF InBuffer
  <2>3. ASSUME NEW u \in Process, Holding(u)',
               writer'[u].second \/ writer'[u].pc \notin {"type", "len", "empty"}
        PROVE  Cell(writer'[u].off) + MaxEntry <= Size
    BY <1>3, <2>1, <2>3 DEF InBuffer
  <2>4. ASSUME NEW u \in Process, writer'[u].pc = "empty"
        PROVE  ~writer'[u].second /\ Cell(O[u] + MaxEntry) < MaxEntry
    <3>1. Holding(u)'
      BY <2>4 DEF Holding, Filling
    <3>2. QED
      BY <1>3, <2>1, <2>4, <3>1 DEF InBuffer
  <2>5. QED
    BY <2>2, <2>3, <2>4 DEF InBuffer
<1>14. Unfinished'
  <2>1. Unfinished
    BY DEF View
  <2>2. ASSUME NEW u \in Process,
               writer'[u].pc \in {"len", "empty", "text", "shrink", "commit", "store_len", "commit_short"}
        PROVE  writer'[u] = writer[u]
    <3>1. Holding(u)'
      BY <2>2 DEF Holding, Filling, Shrunk
    <3>2. QED
      BY <1>3, <3>1
  <2>3. QED
    BY <2>1, <2>2 DEF Unfinished
<1>13. QED
  BY <1>14, <1>4, <1>5, <1>6, <1>7, <1>8, <1>9, <1>10, <1>11, <1>12 DEF View

(* With every call at rest the present head may stand for the last rest.   *)
LEMMA AtRest ==
  ASSUME TypeOK, NEW H \in Nat, NEW T \in Nat, NEW B \in Nat, NEW M \in SUBSET Nat,
         NEW O \in [Process -> Nat], NEW D \in [Process -> Nat], View(H, T, B, M, O, D),
         \A u \in Process : Resting(u), ~fatal
  PROVE  View(H, T, H, M, O, D)
<1>1. ASSUME NEW u \in Process
      PROVE  /\ ~Holding(u) /\ ~Loaded(u) /\ ~Freeing(u) /\ writer[u].pc \notin Acquiring
             /\ u \notin Deciders /\ writer[u].pc \notin {"type", "len", "empty"}
  BY DEF Resting, Holding, Loaded, Freeing, Filling, Shrunk, Acquiring, Deciders
<1>2. Agree(H, T, H, M)
  BY DEF View, Agree
<1>3. CallsAgree(T, H, O, D)
  BY <1>1 DEF CallsAgree
<1>4. Budget(H, T, H)
  <2>1. Firsts \subseteq {Handler, Handler} /\ Seconds \subseteq {Handler, Handler} /\ Deciders = {}
    BY <1>1 DEF Firsts, Seconds, Deciders
  <2>2. overlaps \in 0..MaxOverlaps
    BY DEF TypeOK
  <2>3. Room(Left) <= Window /\ Room(Left) \in Nat /\ Window \in Nat
    BY <2>1, <2>2, RoomAtRest DEF Left
  <2>4. Cardinality(Deciders) = 0 /\ Room(0) = 0
    BY <2>1, FS_EmptySet, Sizes DEF Room
  <2>5. T <= H
    BY <1>2 DEF Agree
  <2>6. QED
    BY <2>3, <2>4, <2>5 DEF Budget
<1>5. InBuffer(H, M, O)
  BY <1>1 DEF InBuffer
<1>6. QED
  BY <1>2, <1>3, <1>4, <1>5 DEF View

(* A call of log_write begins (line 130); at rest the base moves up to     *)
(* head.                                                                   *)
LEMMA CallBegins ==
  ASSUME TypeOK, TypeOK', Roomy, NEW H \in Nat, NEW T \in Nat, NEW B \in Nat,
         NEW M \in SUBSET Nat, NEW O \in [Process -> Nat], NEW D \in [Process -> Nat],
         View(H, T, B, M, O, D), NEW t \in Process, t \in Writers, log_write(t)
  PROVE  \E A \in Nat : View(H, T, A, M, O, D)'
<1>1. /\ writer[t].pc = "idle" /\ ~fatal /\ t # Handler
      /\ IF \A u \in Writers : writer[u].pc = "idle"
         THEN overlaps' = 0
         ELSE overlaps < MaxOverlaps /\ overlaps' = overlaps + 1
      /\ UNCHANGED <<mem, head, tail, fatal, clean, published, stomped>>
  BY LogRingAssumption DEF log_write, At, ghosts
<1>2. PICK n \in 1..MaxEntry - Header :
        writer' = [writer EXCEPT ![t] = [Idle EXCEPT !.pc = "load", !.msg = n]]
  BY DEF log_write
<1>3. /\ writer'[t].pc = "load" /\ ~writer'[t].second
      /\ \A u \in Process : u # t => writer'[u] = writer[u]
  BY <1>2 DEF TypeOK, Idle
<1>4. \A u \in Process : writer'[u] = writer[u] \/ (Calm(u) /\ Calm(u)')
  BY <1>1, <1>3 DEF Calm, Resting
<1>5. Handler \in Process /\ writer'[Handler] = writer[Handler]
  BY <1>1, <1>3 DEF Process
<1>6. HandlerWaits'
  BY <1>1, <1>5 DEF View, HandlerWaits
<1>7. AfterFatal(H, T, D)'
  BY <1>1 DEF AfterFatal
<1>8. overlaps \in 0..MaxOverlaps /\ overlaps' \in 0..MaxOverlaps
  BY DEF TypeOK
<1>9. Deciders' = Deciders
  <2>1. \A u \in Process : u # t => (u \in Deciders' <=> u \in Deciders)
    BY <1>3 DEF Deciders
  <2>2. t \notin Deciders /\ t \notin Deciders'
    BY <1>1, <1>3 DEF Deciders
  <2>3. QED
    BY <2>1, <2>2 DEF Deciders
<1>10. CASE \A u \in Writers : writer[u].pc = "idle"
  <2>1. \A u \in Process : Resting(u)
    BY <1>1, <1>10 DEF Resting, Process, View, HandlerWaits
  <2>2. View(H, T, H, M, O, D)
    BY <1>1, <2>1, AtRest
  <2>3. Budget(H, T, H)'
    <3>1. \A u \in Process : u # t => writer'[u].pc \notin Acquiring /\ writer'[u].pc \notin {"type", "len", "empty"}
      BY <1>3, <2>1 DEF Resting, Acquiring
    <3>2. Firsts' \subseteq {t, Handler} /\ Seconds' \subseteq {t, Handler}
      BY <3>1 DEF Firsts, Seconds
    <3>3. Room(Left') <= Window /\ Room(Left') \in Nat /\ Window \in Nat
      BY <1>8, <3>2, RoomAtRest DEF Left
    <3>4. T + Room(Cardinality(Deciders')) <= H
      BY <1>9, <2>2 DEF View, Budget
    <3>5. QED
      BY <3>3, <3>4 DEF Budget
  <2> HIDE DEF View
  <2>4. View(H, T, H, M, O, D)'
    BY <1>1, <1>4, <1>6, <1>7, <2>2, <2>3, CalmStep
  <2>5. QED
    BY <2>4
<1>11. CASE ~(\A u \in Writers : writer[u].pc = "idle")
  <2>1. Budget(H, T, B)'
    <3>1. overlaps' = overlaps + 1 /\ overlaps < MaxOverlaps
      BY <1>1, <1>11
    <3>2. t \notin Firsts /\ t \notin Seconds
      BY <1>1 DEF Firsts, Seconds, Acquiring
    <3>3. /\ \A u \in Process : u # t => (u \in Firsts' <=> u \in Firsts)
          /\ \A u \in Process : u # t => (u \in Seconds' <=> u \in Seconds)
          /\ t \in Firsts' /\ t \in Seconds'
      BY <1>1, <1>3 DEF Firsts, Seconds, Acquiring
    <3>4. Firsts' = Firsts \union {t}
      BY <3>3 DEF Firsts
    <3>5. Seconds' = Seconds \union {t}
      BY <3>3 DEF Seconds
    <3>6. /\ Cardinality(Firsts) \in Nat /\ Cardinality(Seconds) \in Nat
          /\ IsFiniteSet(Firsts) /\ IsFiniteSet(Seconds)
      BY LeftTyped, Few
    <3>7. Cardinality(Firsts') = Cardinality(Firsts) + 1
      BY <3>2, <3>4, <3>6, FS_AddElement
    <3>8. Cardinality(Seconds') = Cardinality(Seconds) + 1
      BY <3>2, <3>5, <3>6, FS_AddElement
    <3>9. Left' = Left
      BY <1>8, <3>1, <3>6, <3>7, <3>8, LogRingAssumption DEF Left
    <3>10. QED
      BY <1>9, <3>9 DEF View, Budget
  <2>2. View(H, T, B, M, O, D)'
    <3> HIDE DEF View
    <3>1. QED
      BY <1>1, <1>4, <1>6, <1>7, <2>1, CalmStep
  <2>3. QED
    BY <2>2
<1>12. QED
  BY <1>10, <1>11

(* error_handler begins its own call (error.c, line 17).                   *)
LEMMA HandlerBegins ==
  ASSUME TypeOK, TypeOK', NEW H \in Nat, NEW T \in Nat, NEW B \in Nat, NEW M \in SUBSET Nat,
         NEW O \in [Process -> Nat], NEW D \in [Process -> Nat], View(H, T, B, M, O, D),
         error_handler
  PROVE  View(H, T, B, M, O, D)'
<1>1. /\ ~fatal /\ fatal'
      /\ clean' = (~stomped /\ \A u \in Writers : ~Unsettled(u))
      /\ writer' = [writer EXCEPT ![Handler].pc = "load"]
      /\ UNCHANGED <<mem, head, tail, published, stomped, overlaps>>
  BY DEF error_handler, ghosts
<1>2. Handler \in Process /\ Handler \notin Writers
  BY LogRingAssumption DEF Process
<1>3. writer[Handler].pc = "idle" /\ ~writer[Handler].second
  BY <1>1 DEF View, HandlerWaits
<1>4. /\ writer'[Handler].pc = "load" /\ ~writer'[Handler].second
      /\ \A u \in Process : u # Handler => writer'[u] = writer[u]
  BY <1>1, <1>2, <1>3 DEF TypeOK
<1>5. \A u \in Process : writer'[u] = writer[u] \/ (Calm(u) /\ Calm(u)')
  BY <1>3, <1>4 DEF Calm, Resting
<1>6. Budget(H, T, B)'
  <2>1. /\ \A u \in Process : u \in Firsts' <=> u \in Firsts
        /\ \A u \in Process : u \in Seconds' <=> u \in Seconds
    BY <1>1, <1>4 DEF Firsts, Seconds, Acquiring
  <2>2. Firsts' = Firsts
    BY <2>1 DEF Firsts
  <2>3. Seconds' = Seconds
    BY <2>1 DEF Seconds
  <2>4. \A u \in Process : u \in Deciders' <=> u \in Deciders
    BY <1>3, <1>4 DEF Deciders
  <2>5. Deciders' = Deciders
    BY <2>4 DEF Deciders
  <2>6. Left' = Left
    BY <1>1, <2>2, <2>3 DEF Left
  <2>7. QED
    BY <2>5, <2>6 DEF View, Budget
<1>7. HandlerWaits'
  BY <1>1 DEF HandlerWaits
<1>8. AfterFatal(H, T, D)'
  <2> SUFFICES ASSUME clean'
               PROVE  ~stomped' /\ \A u \in Writers : ~Unsettled(u)'
    BY <1>4 DEF AfterFatal
  <2>1. \A u \in Writers : u \in Process /\ u # Handler
    BY <1>2 DEF Process
  <2>2. QED
    BY <1>1, <1>4, <2>1 DEF Unsettled
<1> HIDE DEF View
<1>9. QED
  BY <1>1, <1>5, <1>6, <1>7, <1>8, CalmStep

(* A step of the dump changes nothing the view is about.                   *)
LEMMA RingKept ==
  ASSUME TypeOK, TypeOK', NEW H \in Nat, NEW T \in Nat, NEW B \in Nat, NEW M \in SUBSET Nat,
         NEW O \in [Process -> Nat], NEW D \in [Process -> Nat], View(H, T, B, M, O, D),
         UNCHANGED ring
  PROVE  View(H, T, B, M, O, D)'
<1>1. UNCHANGED <<mem, head, tail, writer, fatal, published, stomped, clean, overlaps>>
  BY DEF ring
<1>2. Budget(H, T, B)'
  <2>1. Firsts' = Firsts /\ Seconds' = Seconds /\ Deciders' = Deciders
    BY <1>1 DEF Firsts, Seconds, Deciders
  <2>2. Left' = Left
    BY <1>1, <2>1 DEF Left
  <2>3. QED
    BY <2>1, <2>2 DEF View, Budget
<1>3. HandlerWaits' /\ AfterFatal(H, T, D)'
  BY <1>1 DEF View, HandlerWaits, AfterFatal, Unsettled
<1> HIDE DEF View
<1>4. QED
  BY <1>1, <1>2, <1>3, CalmStep

(* log_init leaves an empty ring.                                          *)
LEMMA ViewInit ==
  ASSUME Init
  PROVE  View(0, 0, 0, {0}, [t \in Process |-> 0], [t \in Process |-> 0])
<1> DEFINE Z == [t \in Process |-> 0]
<1>1. /\ head = 0 /\ tail = 0 /\ ~fatal /\ published = {} /\ overlaps = 0
      /\ \A u \in Process : writer[u].pc = "idle" /\ ~writer[u].second
  BY DEF Init, Idle
<1>2. ASSUME NEW u \in Process
      PROVE  /\ ~Holding(u) /\ ~Loaded(u) /\ ~Freeing(u) /\ writer[u].pc \notin Acquiring
             /\ u \notin Deciders /\ writer[u].pc \notin {"type", "len", "empty"}
             /\ writer[u].pc \notin {"empty", "text", "shrink", "commit", "store_len", "commit_short"}
             /\ writer[u].pc # "cas_tail"
  BY <1>1 DEF Holding, Loaded, Freeing, Filling, Shrunk, Acquiring, Deciders
<1>3. Agree(0, 0, 0, {0})
  <2>1. Wrap(0) = 0
    <3>1. 0 \in 0..OffMod - 1 /\ 0 \in Int /\ 0 = OffMod * 0 + 0
      BY Sizes
    <3>2. QED
      BY <3>1, Sizes, Remainder DEF Wrap
  <2>2. QED
    BY <1>1, <2>1, Sizes DEF Agree
<1>4. CallsAgree(0, 0, Z, Z)
  BY <1>2 DEF CallsAgree
<1>5. Budget(0, 0, 0)
  <2>1. Firsts \subseteq {Handler, Handler} /\ Seconds \subseteq {Handler, Handler} /\ Deciders = {}
    BY <1>2 DEF Firsts, Seconds, Deciders
  <2>2. overlaps \in 0..MaxOverlaps
    BY <1>1, LogRingAssumption
  <2>3. Room(Left) <= Window /\ Room(Left) \in Nat /\ Window \in Nat
    BY <2>1, <2>2, RoomAtRest DEF Left
  <2>4. Cardinality(Deciders) = 0 /\ Room(0) = 0
    BY <2>1, FS_EmptySet, Sizes DEF Room
  <2>5. QED
    BY <2>3, <2>4 DEF Budget
<1>6. Seen(0, 0, Z) /\ Claims({0}, Z)
  BY <1>2 DEF Seen, Claims
<1>7. PublishedLies({0}, Z) /\ AllOwned(0, {0}, Z)
  BY <1>1 DEF PublishedLies, AllOwned
<1>8. LengthsTell
  BY <1>1, <1>2 DEF LengthsTell
<1>12. Unfinished
  <2>1. \A u \in Process : writer[u].pc = "idle"
    BY <1>1
  <2>2. QED
    BY <2>1 DEF Unfinished
<1>9. FreesOne(0, {0}, Z) /\ InBuffer(0, {0}, Z)
  BY <1>2 DEF FreesOne, InBuffer
<1>10. HandlerWaits /\ AfterFatal(0, 0, Z)
  BY <1>1 DEF HandlerWaits, AfterFatal, Process
<1>11. QED
  BY <1>12, <1>3, <1>4, <1>5, <1>6, <1>7, <1>8, <1>9, <1>10 DEF View

----------------------------------------------------------------------------
(* The dump                                                                *)

(* How far before head the oldest entry stored may begin.                  *)
Kept == FramHalf - Header

(* The dump has come as far as c, and began to write at a.                 *)
StoredBetween(M, a, c) ==
  /\ \A i \in 1..Len(stored) : \E e \in published, p \in M :
       /\ e.type = LOG_COMMITTED /\ a <= p /\ p < c /\ e.off = Wrap(p)
       /\ stored[i] = [off |-> e.off, len |-> e.len]
  /\ \A e \in published, p \in M :
       e.type = LOG_COMMITTED /\ a <= p /\ p < c /\ e.off = Wrap(p) =>
         \E i \in 1..Len(stored) : stored[i] = [off |-> e.off, len |-> e.len]
  /\ \A i, j \in 1..Len(stored) :
       i < j => Minus(head, stored[i].off) > Minus(head, stored[j].off)

(* The dump is at c, and everything before is too old.                     *)
Skipping(H, M, c) ==
  /\ dump.cur = Wrap(c) /\ stored = <<>> /\ dump.addr = 0
  /\ \A p \in M : p < c => H - p > Kept

(* The dump is at c, began to write at a, the oldest entry that is not too *)
(* old, and has used no more room than it has passed.  Once past a, it     *)
(* knows that head has not wrapped since a (line 244).                     *)
Writing(H, M, c, a) ==
  /\ dump.cur = Wrap(c) /\ a <= c
  /\ H - a <= Kept /\ \A p \in M : p < a => H - p > Kept
  /\ dump.addr <= c - a
  /\ StoredBetween(M, a, c)
  /\ c # a => Wrap(a) < Wrap(H)
  /\ dump.pc \in {"end", "done"} => c = H \/ (stored = <<>> /\ head < tail)

(* The dump, by the step it is at.                                         *)
Dumping(H, M) ==
  /\ dump.pc # "none" => fatal /\ Resting(Handler)
  /\ dump.pc = "none" => stored = <<>> /\ dump.addr = 0
  /\ clean /\ dump.pc = "skip" => \E c \in M : Skipping(H, M, c)
  /\ clean /\ dump.pc \in {"write", "end", "done", "failed"} =>
       \E c, a \in M : Writing(H, M, c, a)
  /\ clean => dump.pc # "refused"

(* When no call is between moving head and storing the length, the length  *)
(* of each entry leads to the next one (NEXT_OFFSET, line 23).             *)
LEMMA LengthLeads ==
  ASSUME TypeOK, NEW H \in Nat, NEW T \in Nat, NEW B \in Nat, NEW M \in SUBSET Nat,
         NEW O \in [Process -> Nat], NEW D \in [Process -> Nat], View(H, T, B, M, O, D),
         ~stomped, \A t \in Process : ~Unsettled(t), NEW c \in M, c < H
  PROVE  /\ LengthAt(Wrap(c)) \in Nat /\ 0 < LengthAt(Wrap(c)) /\ LengthAt(Wrap(c)) <= MaxEntry
         /\ Adjacent(M, c, c + LengthAt(Wrap(c)))
         /\ \A e \in published : e.off = Wrap(c) =>
              e.len = LengthAt(Wrap(c)) /\ mem[Cell(Wrap(c))] = e.type
         /\ mem[Cell(Wrap(c))] >= LOG_COMMITTED => \E e \in published : e.off = Wrap(c)
<1>1. \A e \in published : e.off = Wrap(c) =>
              e.len = LengthAt(Wrap(c)) /\ mem[Cell(Wrap(c))] = e.type
  BY DEF View, LengthsTell, Reads
<1>2. CASE \E t \in Process : Holding(t) /\ O[t] = c
  <2>1. PICK t \in Process : Holding(t) /\ O[t] = c
    BY <1>2
  <2>2. /\ writer[t].off = Wrap(c) /\ Adjacent(M, c, c + Held(t))
        /\ Held(t) \in Nat /\ 0 < Held(t) /\ Held(t) <= MaxEntry
    BY <2>1, HeldSize DEF View, CallsAgree, Claims
  <2>3. writer[t].pc \in {"empty", "text", "shrink", "commit", "commit_short"}
    BY <2>1 DEF Holding, Filling, Shrunk, Unsettled
  <2>4. LengthAt(Wrap(c)) = Held(t)
    <3>1. LengthsTell
      BY DEF View
    <3>2. writer[t].pc = "commit_short" => LengthAt(writer[t].off) = EntryLength(t)
      BY <3>1 DEF LengthsTell, Reads
    <3>3. writer[t].pc # "commit_short" => LengthAt(writer[t].off) = MaxEntry
      BY <2>3, <3>1 DEF LengthsTell, Reads
    <3>4. QED
      BY <2>2, <2>3, <3>2, <3>3 DEF Held, Shrunk
  <2>5. mem[Cell(Wrap(c))] = LOG_INVALID
    BY <2>2, <2>3 DEF View, Unfinished
  <2>6. QED
    BY <1>1, <2>2, <2>4, <2>5 DEF LOG_INVALID, LOG_COMMITTED
<1>3. CASE ~(\E t \in Process : Holding(t) /\ O[t] = c)
  <2>1. PICK e \in published : /\ e.off = Wrap(c) /\ Adjacent(M, c, c + e.len)
                               /\ Header < e.len /\ e.len <= MaxEntry
    BY <1>3, EntryAt
  <2>2. e.len \in Nat /\ 0 < e.len
    BY <2>1, PublishedTyped DEF Header
  <2>3. QED
    BY <1>1, <2>1, <2>2
<1>4. QED
  BY <1>2, <1>3

(* Offsets that have not wrapped since tail are in order.                  *)
LEMMA InOrder ==
  ASSUME NEW H \in Nat, NEW T \in Nat, NEW c \in Nat, T <= c, c <= H, H - T <= Size,
         Wrap(T) <= Wrap(H), Wrap(H) <= Wrap(c)
  PROVE  c = H
<1> DEFINE h == Wrap(H)
           d == Wrap(c)
           a == Wrap(T)
<1>1. /\ h \in 0..OffMod - 1 /\ d \in 0..OffMod - 1 /\ a \in 0..OffMod - 1
      /\ h \in Int /\ d \in Int /\ a \in Int /\ H \in Int /\ c \in Int /\ T \in Int
      /\ Size < OffMod /\ Size \in Nat /\ OffMod \in Nat \ {0}
  <2>1. h \in 0..OffMod - 1 /\ d \in 0..OffMod - 1 /\ a \in 0..OffMod - 1
    BY WrapOffset DEF Offset
  <2>2. QED
    BY <2>1, Sizes
<1>2. /\ Minus(h, d) = H - c /\ Minus(d, a) = c - T /\ Minus(h, a) = H - T
  BY <1>1, WrapMinus
<1>3. h = d => c = H
  BY <1>1, WrapSame
<1> HIDE DEF h, d, a
<1>4. ASSUME NEW x \in 0..OffMod - 1, NEW y \in 0..OffMod - 1
      PROVE  /\ y <= x => Minus(x, y) = x - y
             /\ x < y => Minus(x, y) = x - y + OffMod
  <2>1. ASSUME y <= x PROVE Minus(x, y) = x - y
    <3> DEFINE r == x - y
    <3>1. r \in 0..OffMod - 1 /\ r \in Int /\ r = OffMod * 0 + r
      BY <1>1, <2>1
    <3> HIDE DEF r
    <3>2. r % OffMod = r
      BY <1>1, <3>1, Remainder
    <3>3. QED
      BY <3>2 DEF r, Minus
  <2>2. ASSUME x < y PROVE Minus(x, y) = x - y + OffMod
    <3> DEFINE r == x - y + OffMod
               z == x - y
    <3>1. r \in 0..OffMod - 1 /\ z \in Int /\ z = OffMod * (-1) + r /\ -1 \in Int
      BY <1>1, <2>2
    <3> HIDE DEF r, z
    <3>2. z % OffMod = r
      BY <1>1, <3>1, Remainder
    <3>3. QED
      BY <3>2 DEF r, z, Minus
  <2>3. QED
    BY <2>1, <2>2
<1>5. ASSUME h < d PROVE FALSE
  <2>1. Minus(h, d) = h - d + OffMod /\ Minus(h, a) = h - a /\ Minus(d, a) = d - a
    BY <1>1, <1>4, <1>5 DEF h, d, a
  <2>2. QED
    BY <1>1, <1>2, <1>5, <2>1
<1>6. QED
  <2>1. h <= d
    BY DEF h, d
  <2>2. QED
    BY <1>1, <1>3, <1>5, <2>1

(* The distance from a boundary to head is what the dump computes (line    *)
(* 239).                                                                   *)
LEMMA Ahead ==
  ASSUME NEW H \in Nat, NEW T \in Nat, NEW B \in Nat, NEW M \in SUBSET Nat, Agree(H, T, B, M),
         NEW p \in M
  PROVE  Minus(head, Wrap(p)) = H - p /\ T <= p /\ p <= H
<1>1. /\ p \in Int /\ H \in Int /\ T <= p /\ p <= H /\ H - p < OffMod /\ head = Wrap(H)
  BY Sizes DEF Agree
<1>2. QED
  BY <1>1, WrapMinus

(* In a clean dump no length is stomped on or in the middle of a change.   *)
LEMMA Settled ==
  ASSUME NEW H \in Nat, NEW T \in Nat, NEW D \in [Process -> Nat], AfterFatal(H, T, D),
         fatal, clean, Resting(Handler)
  PROVE  ~stomped /\ \A t \in Process : ~Unsettled(t)
<1>1. ~Unsettled(Handler)
  BY DEF Resting, Unsettled
<1>2. ~stomped /\ \A t \in Writers : ~Unsettled(t)
  BY DEF AfterFatal
<1>3. QED
  BY <1>1, <1>2 DEF Process

(* What the dump passes over ...                                           *)
LEMMA StoredPast ==
  ASSUME NEW M \in SUBSET Nat, NEW a \in M, NEW c \in M, NEW n \in Nat, Adjacent(M, c, c + n),
         StoredBetween(M, a, c), UNCHANGED <<head, published, stored>>,
         \A e \in published : e.off = Wrap(c) => e.type # LOG_COMMITTED
  PROVE  StoredBetween(M, a, c + n)'
<1>1. \A p \in M : p < c + n => p < c \/ p = c
  BY DEF Adjacent
<1>2. c < c + n /\ c \in Nat
  BY DEF Adjacent
<1>3. \A p \in M : p < c => p < c + n
  BY <1>2
<1>4. \A i \in 1..Len(stored) : \E e \in published, p \in M :
        /\ e.type = LOG_COMMITTED /\ a <= p /\ p < c + n /\ e.off = Wrap(p)
        /\ stored[i] = [off |-> e.off, len |-> e.len]
  BY <1>3 DEF StoredBetween
<1>5. \A e \in published, p \in M :
        e.type = LOG_COMMITTED /\ a <= p /\ p < c + n /\ e.off = Wrap(p) =>
          \E i \in 1..Len(stored) : stored[i] = [off |-> e.off, len |-> e.len]
  BY <1>1 DEF StoredBetween
<1>6. QED
  BY <1>4, <1>5 DEF StoredBetween

(* ... and what it stores.                                                 *)
LEMMA StoredOne ==
  ASSUME TypeOK, NEW H \in Nat, NEW T \in Nat, NEW B \in Nat, NEW M \in SUBSET Nat,
         Agree(H, T, B, M), NEW a \in M, NEW c \in M, a <= c, NEW n \in Nat,
         Adjacent(M, c, c + n), StoredBetween(M, a, c), UNCHANGED <<head, published>>,
         stored' = Append(stored, [off |-> Wrap(c), len |-> n]),
         NEW f \in published, f.off = Wrap(c), f.type = LOG_COMMITTED,
         \A e \in published : e.off = Wrap(c) => e.len = n
  PROVE  StoredBetween(M, a, c + n)'
<1> DEFINE k == Len(stored)
           new == [off |-> Wrap(c), len |-> n]
<1>1. \A p \in M : p < c + n => p < c \/ p = c
  BY DEF Adjacent
<1>2. c < c + n /\ c \in Nat
  BY DEF Adjacent
<1>3. \A p \in M : p < c => p < c + n
  BY <1>2
<1>4. /\ k \in Nat /\ Len(stored') = k + 1 /\ stored'[k + 1] = new
      /\ \A i \in 1..k : stored'[i] = stored[i]
      /\ \A i \in 1..k + 1 : i \in 1..k \/ i = k + 1
      /\ \A i \in 1..k : i \in 1..k + 1
      /\ k + 1 \in 1..k + 1
  <2>1. stored \in Seq(Entry)
    BY DEF TypeOK
  <2>2. k \in Nat
    BY <2>1
  <2>3. Len(stored') = k + 1 /\ stored'[k + 1] = new /\ \A i \in 1..k : stored'[i] = stored[i]
    BY <2>1
  <2>4. QED
    BY <2>2, <2>3
<1>5. f.len = n
  OBVIOUS
<1> HIDE DEF k
<1>6. \A i \in 1..k + 1 : \E e \in published, p \in M :
        /\ e.type = LOG_COMMITTED /\ a <= p /\ p < c + n /\ e.off = Wrap(p)
        /\ stored'[i] = [off |-> e.off, len |-> e.len]
  <2>1. ASSUME NEW i \in 1..k
        PROVE  \E e \in published, p \in M :
                 /\ e.type = LOG_COMMITTED /\ a <= p /\ p < c + n /\ e.off = Wrap(p)
                 /\ stored'[i] = [off |-> e.off, len |-> e.len]
    <3>1. PICK e \in published, p \in M :
             /\ e.type = LOG_COMMITTED /\ a <= p /\ p < c /\ e.off = Wrap(p)
             /\ stored[i] = [off |-> e.off, len |-> e.len]
      BY DEF StoredBetween, k
    <3>2. stored'[i] = [off |-> e.off, len |-> e.len]
      BY <1>4, <3>1
    <3>3. p < c + n
      BY <1>3, <3>1
    <3>4. QED
      BY <3>1, <3>2, <3>3
  <2>2. stored'[k + 1] = [off |-> f.off, len |-> f.len]
    BY <1>4, <1>5
  <2>3. \E e \in published, p \in M :
                 /\ e.type = LOG_COMMITTED /\ a <= p /\ p < c + n /\ e.off = Wrap(p)
                 /\ stored'[k + 1] = [off |-> e.off, len |-> e.len]
    BY <1>2, <2>2
  <2>4. QED
    BY <1>4, <2>1, <2>3
<1>7. \A e \in published, p \in M :
        e.type = LOG_COMMITTED /\ a <= p /\ p < c + n /\ e.off = Wrap(p) =>
          \E i \in 1..k + 1 : stored'[i] = [off |-> e.off, len |-> e.len]
  <2> SUFFICES ASSUME NEW e \in published, NEW p \in M,
                      e.type = LOG_COMMITTED, a <= p, p < c + n, e.off = Wrap(p)
               PROVE  \E i \in 1..k + 1 : stored'[i] = [off |-> e.off, len |-> e.len]
    OBVIOUS
  <2>1. CASE p < c
    <3>1. PICK i \in 1..k : stored[i] = [off |-> e.off, len |-> e.len]
      BY <2>1 DEF StoredBetween, k
    <3>2. QED
      BY <1>4, <3>1
  <2>2. CASE p = c
    <3>1. e.len = n /\ e.off = Wrap(c)
      BY <2>2
    <3>2. QED
      BY <1>4, <3>1
  <2>3. QED
    BY <1>1, <2>1, <2>2
<1>8. \A i, j \in 1..k + 1 :
        i < j => Minus(head, stored'[i].off) > Minus(head, stored'[j].off)
  <2> SUFFICES ASSUME NEW i \in 1..k + 1, NEW j \in 1..k + 1, i < j
               PROVE  Minus(head, stored'[i].off) > Minus(head, stored'[j].off)
    OBVIOUS
  <2>1. i \in 1..k /\ (j \in 1..k \/ j = k + 1)
    BY <1>4
  <2>2. CASE j \in 1..k
    BY <1>4, <2>1, <2>2 DEF StoredBetween, k
  <2>3. CASE j = k + 1
    <3>1. PICK e \in published, p \in M :
            p < c /\ e.off = Wrap(p) /\ stored[i] = [off |-> e.off, len |-> e.len]
      BY <2>1 DEF StoredBetween, k
    <3>2. stored'[i].off = Wrap(p) /\ stored'[j].off = Wrap(c)
      BY <1>4, <2>1, <2>3, <3>1
    <3>3. Minus(head, Wrap(p)) = H - p /\ Minus(head, Wrap(c)) = H - c
      BY Ahead
    <3>4. H - p > H - c
      <4>1. p \in Nat /\ p < c
        BY <3>1
      <4>2. QED
        BY <1>2, <4>1
    <3>5. QED
      BY <3>2, <3>3, <3>4
  <2>4. QED
    BY <2>1, <2>2, <2>3
<1>9. Len(stored') = k + 1 /\ head' = head /\ published' = published
  BY <1>4
<1>10. \A i \in 1..Len(stored') : \E e \in published', p \in M :
         /\ e.type = LOG_COMMITTED /\ a <= p /\ p < c + n /\ e.off = Wrap(p)
         /\ stored'[i] = [off |-> e.off, len |-> e.len]
  BY <1>6, <1>9
<1>11. \A e \in published', p \in M :
         e.type = LOG_COMMITTED /\ a <= p /\ p < c + n /\ e.off = Wrap(p) =>
           \E i \in 1..Len(stored') : stored'[i] = [off |-> e.off, len |-> e.len]
  BY <1>7, <1>9
<1>12. \A i, j \in 1..Len(stored') :
         i < j => Minus(head', stored'[i].off) > Minus(head', stored'[j].off)
  BY <1>8, <1>9
<1>13. QED
  BY <1>10, <1>11, <1>12 DEF StoredBetween

(* The dump begins at tail (line 233).                                     *)
LEMMA BeginDumpKeeps ==
  ASSUME TypeOK, NEW H \in Nat, NEW T \in Nat, NEW B \in Nat, NEW M \in SUBSET Nat,
         NEW O \in [Process -> Nat], NEW D \in [Process -> Nat], View(H, T, B, M, O, D),
         Dumping(H, M), BeginDump
  PROVE  Dumping(H, M)'
<1>1. /\ fatal /\ dump.pc = "none" /\ Resting(Handler)
      /\ dump'.pc = "skip" /\ dump'.cur = tail /\ dump'.addr = dump.addr
      /\ UNCHANGED <<ring, stored>>
  BY DEF BeginDump, Resting, TypeOK
<1>2. fatal' = fatal /\ Resting(Handler)' /\ stored' = stored
  BY <1>1 DEF ring, Resting
<1>3. stored = <<>> /\ dump.addr = 0
  BY <1>1 DEF Dumping
<1>4. T \in M /\ tail = Wrap(T) /\ \A p \in M : ~(p < T)
  BY DEF View, Agree
<1>5. Skipping(H, M, T)'
  BY <1>1, <1>2, <1>3, <1>4 DEF Skipping
<1>6. QED
  BY <1>1, <1>2, <1>4, <1>5 DEF Dumping

(* The dump skips an entry that is too old, or begins to write (line 239). *)
LEMMA SkipOldKeeps ==
  ASSUME TypeOK, NEW H \in Nat, NEW T \in Nat, NEW B \in Nat, NEW M \in SUBSET Nat,
         NEW O \in [Process -> Nat], NEW D \in [Process -> Nat], View(H, T, B, M, O, D),
         Dumping(H, M), SkipOld
  PROVE  Dumping(H, M)'
<1>1. /\ dump.pc = "skip" /\ UNCHANGED <<ring, stored>>
      /\ dump' = IF Minus(head, dump.cur) > Kept
                 THEN [dump EXCEPT !.cur = NextOffset(@)] ELSE [dump EXCEPT !.pc = "write"]
  BY DEF SkipOld, Kept
<1>2. /\ UNCHANGED <<head, tail, fatal, clean, published, stored>> /\ fatal /\ Resting(Handler)
      /\ Resting(Handler)'
  BY <1>1 DEF ring, Resting, Dumping
<1>3. dump'.pc \in {"skip", "write"} /\ dump'.addr = dump.addr
  BY <1>1 DEF TypeOK
<1>4. ASSUME clean
      PROVE  /\ dump'.pc = "skip" => \E c \in M : Skipping(H, M, c)'
             /\ dump'.pc = "write" => \E c, a \in M : Writing(H, M, c, a)'
  <2>1. PICK c \in M : Skipping(H, M, c)
    BY <1>1, <1>4 DEF Dumping
  <2>2. Agree(H, T, B, M) /\ AfterFatal(H, T, D) /\ c \in Nat /\ Kept \in Nat
    BY Sizes DEF View, Kept, Header
  <2>3. Minus(head, dump.cur) = H - c /\ c <= H
    BY <2>1, <2>2, Ahead DEF Skipping
  <2>4. CASE H - c > Kept
    <3>1. c < H
      BY <2>2, <2>4
    <3>2. ~stomped /\ \A t \in Process : ~Unsettled(t)
      BY <1>2, <1>4, <2>2, Settled
    <3> DEFINE n == LengthAt(Wrap(c))
    <3>3. n \in Nat /\ Adjacent(M, c, c + n)
      BY <3>1, <3>2, LengthLeads
    <3>4. dump'.pc = "skip" /\ dump'.cur = Plus(Wrap(c), n)
      BY <1>1, <2>1, <2>3, <2>4 DEF Skipping, NextOffset, TypeOK
    <3> HIDE DEF n
    <3>5. dump'.cur = Wrap(c + n)
      BY <2>2, <3>3, <3>4, WrapPlus
    <3>6. c + n \in M /\ \A p \in M : p < c + n => H - p > Kept
      <4>1. c + n \in M /\ \A p \in M : p < c + n => p < c \/ p = c
        BY <3>3 DEF Adjacent
      <4>2. QED
        BY <2>1, <2>4, <4>1 DEF Skipping
    <3>7. stored' = <<>> /\ dump'.addr = 0
      BY <1>2, <1>3, <2>1 DEF Skipping
    <3>8. PICK m \in M : m = c + n
      BY <3>6
    <3>9. Skipping(H, M, m)'
      BY <3>5, <3>6, <3>7, <3>8 DEF Skipping
    <3>10. QED
      BY <3>4, <3>9
  <2>5. CASE ~(H - c > Kept)
    <3>1. dump'.pc = "write" /\ dump'.cur = Wrap(c)
      BY <1>1, <2>1, <2>3, <2>5 DEF Skipping, TypeOK
    <3>2. stored' = <<>> /\ dump'.addr = 0 /\ \A p \in M : p < c => H - p > Kept
      BY <1>2, <1>3, <2>1 DEF Skipping
    <3>3. Len(stored') = 0 /\ \A i \in 1..0 : FALSE
      BY <3>2
    <3>4. StoredBetween(M, c, c)'
      BY <3>3 DEF StoredBetween
    <3>5. H - c <= Kept /\ c <= c /\ 0 <= c - c
      BY <2>2, <2>5
    <3>6. Writing(H, M, c, c)'
      BY <3>1, <3>2, <3>4, <3>5 DEF Writing
    <3>7. QED
      BY <3>1, <3>6
  <2>6. QED
    BY <2>4, <2>5
<1>5. QED
  BY <1>2, <1>3, <1>4 DEF Dumping

(* The end log finds its place (line 262), if the FRAM takes it.           *)
LEMMA WriteEndKeeps ==
  ASSUME TypeOK, NEW H \in Nat, NEW T \in Nat, NEW B \in Nat, NEW M \in SUBSET Nat,
         NEW O \in [Process -> Nat], NEW D \in [Process -> Nat], View(H, T, B, M, O, D),
         Dumping(H, M), WriteEnd
  PROVE  Dumping(H, M)'
<1>1. /\ dump.pc = "end" /\ UNCHANGED <<ring, stored>>
      /\ \/ dump.addr + Header <= FramHalf /\ dump' = [dump EXCEPT !.pc = "done"]
         \/ dump' = [dump EXCEPT !.pc = IF dump.addr + Header > FramHalf
                                        THEN "refused" ELSE "failed"]
  BY DEF WriteEnd, META_write_log, Header
<1>2. /\ UNCHANGED <<head, tail, fatal, clean, published, stored>> /\ fatal /\ Resting(Handler)
      /\ Resting(Handler)'
  BY <1>1 DEF ring, Resting, Dumping
<1>3. dump'.pc \in {"done", "refused", "failed"} /\ dump'.addr = dump.addr /\ dump'.cur = dump.cur
  BY <1>1 DEF TypeOK
<1>4. ASSUME clean
      PROVE  dump'.pc # "refused" /\ \E c, a \in M : Writing(H, M, c, a)'
  <2>1. PICK c \in M, a \in M : Writing(H, M, c, a)
    BY <1>1, <1>4 DEF Dumping
  <2>2. c \in Nat /\ a \in Nat /\ c <= H /\ Kept + Header = FramHalf /\ {Kept, Header, FramHalf} \subseteq Nat
    BY Sizes DEF View, Agree, Kept, Header
  <2>3. dump.addr \in Nat
    BY DEF TypeOK
  <2>4. dump.addr + Header <= FramHalf
    BY <2>1, <2>2, <2>3 DEF Writing
  <2>5. dump'.pc \in {"done", "failed"}
    <3>1. ~(dump.addr + Header > FramHalf)
      BY <2>2, <2>3, <2>4
    <3>2. QED
      BY <1>1, <3>1 DEF TypeOK
  <2>6. StoredBetween(M, a, c)'
    <3>1. StoredBetween(M, a, c)
      BY <2>1 DEF Writing
    <3>2. \A x, y : StoredBetween(M, x, y)' <=> StoredBetween(M, x, y)
      BY <1>2 DEF StoredBetween
    <3>3. QED
      BY <3>1, <3>2
  <2>7. Writing(H, M, c, a)'
    BY <1>1, <1>2, <1>3, <2>1, <2>6 DEF Writing
  <2>8. QED
    BY <2>5, <2>7
<1>5. QED
  BY <1>2, <1>3, <1>4 DEF Dumping

(* The dump stores an entry, passes it over, or has reached head (lines    *)
(* 244 to 258): it never runs out of room.                                 *)
LEMMA WriteLogKeeps ==
  ASSUME TypeOK, NEW H \in Nat, NEW T \in Nat, NEW B \in Nat, NEW M \in SUBSET Nat,
         NEW O \in [Process -> Nat], NEW D \in [Process -> Nat], View(H, T, B, M, O, D),
         Dumping(H, M), WriteLog
  PROVE  Dumping(H, M)'
<1> DEFINE len == LengthAt(dump.cur)
           isMessage == mem[Cell(dump.cur)] >= LOG_COMMITTED
           ends == head <= dump.cur /\ dump' = [dump EXCEPT !.pc = "end"] /\ UNCHANGED stored
           passes == /\ head > dump.cur /\ ~isMessage
                     /\ dump' = [dump EXCEPT !.cur = NextOffset(dump.cur)]
                     /\ UNCHANGED stored
           stores == /\ head > dump.cur /\ isMessage
                     /\ dump' = [dump EXCEPT !.cur = NextOffset(dump.cur), !.addr = dump.addr + len]
                     /\ stored' = IF len = 0 THEN stored
                                  ELSE Append(stored, [off |-> dump.cur, len |-> len])
           aborts == /\ head > dump.cur /\ isMessage
                     /\ dump' = [dump EXCEPT !.pc = IF dump.addr + len > FramHalf
                                                    THEN "refused" ELSE "failed"]
                     /\ UNCHANGED stored
<1>1. /\ dump.pc = "write" /\ UNCHANGED ring
      /\ ends \/ passes \/ stores \/ aborts
  BY DEF WriteLog, META_write_log, TypeOK
<1>2. /\ UNCHANGED <<head, tail, fatal, clean, published, mem>> /\ fatal /\ Resting(Handler)
      /\ Resting(Handler)'
  BY <1>1 DEF ring, Resting, Dumping
<1>3. dump'.pc \in {"write", "end", "refused", "failed"}
  BY <1>1 DEF TypeOK
<1>4. ASSUME clean
      PROVE  dump'.pc # "refused" /\ \E c, a \in M : Writing(H, M, c, a)'
  <2>1. PICK c \in M, a \in M : Writing(H, M, c, a)
    BY <1>1, <1>4 DEF Dumping
  <2>2. /\ dump.cur = Wrap(c) /\ a <= c /\ H - a <= Kept /\ (\A p \in M : p < a => H - p > Kept)
        /\ dump.addr <= c - a /\ StoredBetween(M, a, c) /\ (c # a => Wrap(a) < Wrap(H))
    BY <2>1 DEF Writing
  <2>3. Agree(H, T, B, M) /\ AfterFatal(H, T, D)
    BY DEF View
  <2>4. /\ c \in Nat /\ a \in Nat /\ c <= H /\ T <= c /\ H - T <= Size
        /\ head = Wrap(H) /\ tail = Wrap(T)
    BY <2>3 DEF Agree
  <2>5. Kept + Header = FramHalf /\ {Kept, Header, FramHalf} \subseteq Nat
    BY Sizes DEF Kept, Header
  <2>6. dump.addr \in Nat
    BY DEF TypeOK
  <2>7. ~stomped /\ \A t \in Process : ~Unsettled(t)
    BY <1>2, <1>4, <2>3, Settled
  <2>8. CASE ends
    <3>1. dump'.pc = "end" /\ dump'.cur = dump.cur /\ dump'.addr = dump.addr /\ stored' = stored
      BY <2>8 DEF TypeOK
    <3>2. c = H \/ (stored' = <<>> /\ head < tail)
      <4>1. Wrap(H) <= Wrap(c)
        BY <2>2, <2>4, <2>8
      <4>2. CASE c = a
        <5>1. tail <= head => c = H
          BY <2>4, <4>1, InOrder
        <5>2. \A p \in M : ~(a <= p /\ p < c)
          BY <4>2
        <5>3. stored = <<>>
          <6>1. \A i \in 1..Len(stored) : FALSE
            BY <2>2, <5>2 DEF StoredBetween
          <6>2. stored \in Seq(Entry) /\ Len(stored) \in Nat
            BY DEF TypeOK
          <6>3. Len(stored) = 0
            BY <6>1, <6>2
          <6>4. QED
            BY <6>2, <6>3
        <5>4. head \in Nat /\ tail \in Nat
          BY Offsets DEF TypeOK
        <5>5. QED
          BY <3>1, <5>1, <5>3, <5>4
      <4>3. CASE c # a
        <5>1. Wrap(a) \in Nat /\ Wrap(H) \in Nat
          BY <2>4, WrapOffset, Offsets
        <5>2. Wrap(a) <= Wrap(H)
          BY <2>2, <4>3, <5>1
        <5>3. H - a <= Size
          <6>1. T <= a
            BY <2>3, Ahead
          <6>2. QED
            BY <2>4, <6>1, Sizes
        <5>4. QED
          BY <2>2, <2>4, <4>1, <5>2, <5>3, InOrder
      <4>4. QED
        BY <4>2, <4>3
    <3>3. StoredBetween(M, a, c)'
      BY <1>2, <2>2, <3>1 DEF StoredBetween
    <3>4. Writing(H, M, c, a)'
      BY <1>2, <2>2, <3>1, <3>2, <3>3 DEF Writing
    <3>5. QED
      BY <3>1, <3>4
  <2>9. CASE passes \/ stores \/ aborts
    <3>1. head > dump.cur
      BY <2>9
    <3>2. c < H
      <4>1. head \in Nat /\ dump.cur \in Nat
        BY Offsets DEF TypeOK
      <4>2. c # H
        BY <2>2, <2>4, <3>1, <4>1
      <4>3. QED
        BY <2>4, <4>2
    <3>3. PICK n \in Nat : n = len
      BY <2>2, <2>7, <3>2, LengthLeads
    <3>4. /\ 0 < n /\ Adjacent(M, c, c + n)
          /\ \A e \in published : e.off = Wrap(c) => e.len = n /\ mem[Cell(dump.cur)] = e.type
          /\ isMessage => \E e \in published : e.off = Wrap(c)
      <4> HIDE DEF len, isMessage
      <4>1. /\ 0 < LengthAt(Wrap(c)) /\ Adjacent(M, c, c + LengthAt(Wrap(c)))
            /\ \A e \in published : e.off = Wrap(c) =>
                 e.len = LengthAt(Wrap(c)) /\ mem[Cell(Wrap(c))] = e.type
            /\ mem[Cell(Wrap(c))] >= LOG_COMMITTED => \E e \in published : e.off = Wrap(c)
        BY <2>7, <3>2, LengthLeads
      <4>2. n = LengthAt(Wrap(c)) /\ (isMessage <=> mem[Cell(Wrap(c))] >= LOG_COMMITTED)
        BY <2>2, <3>3 DEF len, isMessage
      <4>3. QED
        BY <2>2, <4>1, <4>2
    <3>5. PICK m \in M : m = c + n
      BY <3>4 DEF Adjacent
    <3>6. m <= H /\ m \in Nat
      BY <2>3 DEF Agree
    <3>7. NextOffset(dump.cur) = Wrap(m)
      BY <2>2, <2>4, <3>3, <3>5, WrapPlus DEF NextOffset
    <3>8. dump.addr + n <= m - a /\ dump.addr + n <= Kept /\ dump.addr + n <= FramHalf /\ a <= m
      BY <2>2, <2>4, <2>5, <2>6, <3>5, <3>6
    <3>13. m # a => Wrap(a) < Wrap(H)
      <4>1. CASE c = a
        BY <2>2, <2>4, <3>1, <4>1
      <4>2. QED
        BY <2>2, <4>1
    <3>9. CASE passes
      <4>1. dump'.pc = "write" /\ dump'.cur = Wrap(m) /\ dump'.addr = dump.addr /\ stored' = stored
        BY <1>1, <3>7, <3>9 DEF TypeOK
      <4>2. \A e \in published : e.off = Wrap(c) => e.type # LOG_COMMITTED
        BY <3>4, <3>9 DEF LOG_COMMITTED
      <4>3. StoredBetween(M, a, c + n)'
        BY <1>2, <2>2, <3>4, <4>1, <4>2, StoredPast
      <4>4. StoredBetween(M, a, m)'
        BY <3>5, <4>3
      <4>5. dump'.addr <= m - a
        BY <2>6, <3>8, <4>1
      <4>6. Writing(H, M, m, a)'
        BY <1>2, <2>2, <3>8, <3>13, <4>1, <4>4, <4>5 DEF Writing
      <4>7. QED
        BY <4>1, <4>6
    <3>10. CASE stores
      <4>1. /\ dump'.pc = "write" /\ dump'.cur = Wrap(m) /\ dump'.addr = dump.addr + n
            /\ stored' = Append(stored, [off |-> Wrap(c), len |-> n])
        <5>1. dump' = [dump EXCEPT !.cur = Wrap(m), !.addr = dump.addr + n]
          BY <1>1, <2>2, <3>3, <3>4, <3>7, <3>10 DEF TypeOK
        <5>2. stored' = Append(stored, [off |-> Wrap(c), len |-> n])
          BY <1>1, <2>2, <3>3, <3>4, <3>10
        <5>3. QED
          BY <1>1, <5>1, <5>2 DEF TypeOK
      <4>2. PICK f \in published : f.off = Wrap(c)
        BY <3>4, <3>10
      <4>3. f.type = LOG_COMMITTED
        <5>1. f.type \in {LOG_EMPTY, LOG_COMMITTED} /\ f.type >= LOG_COMMITTED
          BY <3>4, <3>10, <4>2, PublishedTyped
        <5>2. QED
          BY <5>1 DEF LOG_EMPTY, LOG_COMMITTED
      <4>4. StoredBetween(M, a, c + n)'
        BY <1>2, <2>2, <2>3, <3>4, <4>1, <4>2, <4>3, StoredOne
      <4>5. StoredBetween(M, a, m)'
        BY <3>5, <4>4
      <4>6. Writing(H, M, m, a)'
        BY <1>2, <2>2, <3>8, <3>13, <4>1, <4>5 DEF Writing
      <4>7. QED
        BY <4>1, <4>6
    <3>11. CASE aborts
      <4>1. ~(dump.addr + len > FramHalf)
        BY <2>5, <2>6, <3>3, <3>8
      <4>2. /\ dump'.pc = "failed" /\ dump'.cur = dump.cur /\ dump'.addr = dump.addr
            /\ stored' = stored
        BY <3>11, <4>1 DEF TypeOK
      <4>3. StoredBetween(M, a, c)'
        BY <1>2, <2>2, <4>2 DEF StoredBetween
      <4>4. Writing(H, M, c, a)'
        BY <1>2, <2>2, <4>2, <4>3 DEF Writing
      <4>5. QED
        BY <4>2, <4>4
    <3>12. QED
      BY <2>9, <3>9, <3>10, <3>11
  <2>10. QED
    BY <1>1, <2>8, <2>9
<1>5. QED
  BY <1>2, <1>3, <1>4 DEF Dumping

----------------------------------------------------------------------------
(* The inductive invariant                                                 *)

(* The ring can be told by places.                                         *)
SomeView ==
  \E H \in Nat, T \in Nat, B \in Nat, M \in SUBSET Nat,
     O \in [Process -> Nat], D \in [Process -> Nat] : View(H, T, B, M, O, D)

(* The inductive invariant.                                                *)
IInv ==
  /\ TypeOK
  /\ \E H \in Nat, T \in Nat, B \in Nat, M \in SUBSET Nat,
        O \in [Process -> Nat], D \in [Process -> Nat] : View(H, T, B, M, O, D) /\ Dumping(H, M)

(* Every step of log_vwrite keeps the view.                                *)
LEMMA CallKeeps ==
  ASSUME TypeOK, TypeOK', Roomy, NEW H \in Nat, NEW T \in Nat, NEW B \in Nat,
         NEW M \in SUBSET Nat, NEW O \in [Process -> Nat], NEW D \in [Process -> Nat],
         View(H, T, B, M, O, D), NEW t \in Process, log_vwrite(t)
  PROVE  SomeView'
<1> HIDE DEF View
<1>1. CASE LoadHead(t)
  <2>1. PICK P \in [Process -> Nat] : View(H, T, B, M, P, D)'
    BY <1>1, LoadHeadKeeps
  <2>2. QED
    BY <2>1 DEF SomeView
<1>2. CASE CheckSpace(t)
  <2>1. View(H, T, B, M, O, D)'
    BY <1>2, CheckSpaceKeeps
  <2>2. QED
    BY <2>1 DEF SomeView
<1>3. CASE LoadTail(t)
  <2>1. PICK E \in [Process -> Nat] : View(H, T, B, M, O, E)'
    BY <1>3, LoadTailKeeps
  <2>2. QED
    BY <2>1 DEF SomeView
<1>4. CASE LoadLength(t)
  <2>1. View(H, T, B, M, O, D)'
    BY <1>4, LoadLengthKeeps
  <2>2. QED
    BY <2>1 DEF SomeView
<1>5. CASE MoveTail(t) /\ writer'[t].pc = "space"
  <2>1. View(H, T, B, M, O, D)'
    BY <1>5, TailMovedOn
  <2>2. QED
    BY <2>1 DEF SomeView
<1>6. CASE MoveTail(t) /\ writer'[t].pc = "mark"
  <2>1. tail = writer[t].old
    BY <1>6 DEF MoveTail, TypeOK
  <2>2. PICK S \in Nat, L \in SUBSET Nat : View(H, S, B, L, O, D)'
    BY <1>6, <2>1, TailMoved
  <2>3. QED
    BY <2>2 DEF SomeView
<1>7. CASE MarkInvalid(t)
  <2>1. View(H, T, B, M, O, D)'
    BY <1>7, MarkInvalidKeeps
  <2>2. QED
    BY <2>1 DEF SomeView
<1>8. CASE MoveHead(t) /\ writer'[t].pc = "load"
  <2>1. View(H, T, B, M, O, D)'
    BY <1>8, HeadMovedOn
  <2>2. QED
    BY <2>1 DEF SomeView
<1>9. CASE MoveHead(t) /\ writer'[t].pc = "type"
  <2>1. head = writer[t].off
    BY <1>9 DEF MoveHead, Goto, TypeOK
  <2>2. PICK G \in Nat, N \in SUBSET Nat : View(G, T, B, N, O, D)'
    BY <1>9, <2>1, HeadMoved
  <2>3. QED
    BY <2>2 DEF SomeView
<1>10. CASE StoreInvalid(t)
  <2>1. View(H, T, B, M, O, D)'
    BY <1>10, StoreInvalidKeeps
  <2>2. QED
    BY <2>1 DEF SomeView
<1>11. CASE StoreLength(t)
  <2>1. View(H, T, B, M, O, D)'
    BY <1>11, StoreLengthKeeps
  <2>2. QED
    BY <2>1 DEF SomeView
<1>12. CASE PublishPadding(t)
  <2>1. View(H, T, B, M, O, D)'
    BY <1>12, PublishPaddingKeeps
  <2>2. QED
    BY <2>1 DEF SomeView
<1>13. CASE StoreMessage(t)
  <2>1. View(H, T, B, M, O, D)'
    BY <1>13, StoreMessageKeeps
  <2>2. QED
    BY <2>1 DEF SomeView
<1>14. CASE Shrink(t) /\ writer'[t].pc = "commit"
  <2>1. View(H, T, B, M, O, D)'
    BY <1>14, NotShrunk
  <2>2. QED
    BY <2>1 DEF SomeView
<1>15. CASE Shrink(t) /\ writer'[t].pc = "store_len"
  <2>1. head = Plus(writer[t].off, MaxEntry)
    BY <1>15 DEF Shrink, Goto, TypeOK
  <2>2. PICK G \in Nat, N \in SUBSET Nat : View(G, T, B, N, O, D)'
    BY <1>15, <2>1, Shrunken
  <2>3. QED
    BY <2>2 DEF SomeView
<1>16. CASE StoreShortLength(t)
  <2>1. View(H, T, B, M, O, D)'
    BY <1>16, StoreShortKeeps
  <2>2. QED
    BY <2>1 DEF SomeView
<1>17. CASE Commit(t)
  <2>1. View(H, T, B, M, O, D)'
    BY <1>17, CommitKeeps
  <2>2. QED
    BY <2>1 DEF SomeView
<1>18. ASSUME MoveTail(t) PROVE writer'[t].pc \in {"space", "mark"}
  BY <1>18 DEF MoveTail, TypeOK
<1>19. ASSUME MoveHead(t) PROVE writer'[t].pc \in {"load", "type"}
  BY <1>19 DEF MoveHead, Goto, TypeOK
<1>20. ASSUME Shrink(t) PROVE writer'[t].pc \in {"commit", "store_len"}
  BY <1>20 DEF Shrink, Goto, TypeOK
<1>21. QED
  BY <1>18, <1>19, <1>20, <1>1, <1>2, <1>3, <1>4, <1>5, <1>6, <1>7, <1>8, <1>9, <1>10, <1>11, <1>12, <1>13, <1>14,
     <1>15, <1>16, <1>17 DEF log_vwrite, log_acquire_space

(* The invariant holds after log_init.                                     *)
LEMMA InvInit == Init => IInv
<1> SUFFICES ASSUME Init PROVE IInv
  OBVIOUS
<1> DEFINE Z == [t \in Process |-> 0]
<1>1. Z \in [Process -> Nat] /\ {0} \in SUBSET Nat /\ 0 \in Nat
  OBVIOUS
<1>2. View(0, 0, 0, {0}, Z, Z)
  BY ViewInit
<1>3. Dumping(0, {0})
  BY DEF Init, Dumping
<1> HIDE DEF Z
<1>4. QED
  BY <1>1, <1>2, <1>3, TypeInit DEF IInv

(* The invariant is kept by every step.                                    *)
LEMMA InvNext == Roomy /\ IInv /\ [Next]_vars => IInv'
<1> SUFFICES ASSUME Roomy, IInv, [Next]_vars PROVE IInv'
  OBVIOUS
<1>1. TypeOK /\ TypeOK'
  BY TypeNext DEF IInv
<1>2. PICK H \in Nat, T \in Nat, B \in Nat, M \in SUBSET Nat, O \in [Process -> Nat],
           D \in [Process -> Nat] : View(H, T, B, M, O, D) /\ Dumping(H, M)
  BY DEF IInv
<1>3. ASSUME SomeView', dump.pc = "none", UNCHANGED <<dump, stored>> PROVE IInv'
  <2>1. \A G, N : Dumping(G, N)'
    BY <1>2, <1>3 DEF Dumping
  <2>2. QED
    BY <1>1, <1>3, <2>1 DEF IInv, SomeView
<1>4. CASE UNCHANGED vars
  <2>1. UNCHANGED ring
    BY <1>4 DEF vars, ring
  <2>2. View(H, T, B, M, O, D)'
    BY <1>1, <1>2, <2>1, RingKept
  <2>3. UNCHANGED <<mem, head, tail, writer, dump, stored, published, fatal, clean>>
    BY <1>4 DEF vars
  <2>4. \A a, c : StoredBetween(M, a, c)' <=> StoredBetween(M, a, c)
    BY <2>3 DEF StoredBetween
  <2>5. \A c : Skipping(H, M, c)' <=> Skipping(H, M, c)
    BY <2>3 DEF Skipping
  <2>6. \A a, c : Writing(H, M, c, a)' <=> Writing(H, M, c, a)
    BY <2>3, <2>4 DEF Writing
  <2>7. \A t \in Process : Resting(t)' <=> Resting(t)
    BY <2>3 DEF Resting
  <2> DEFINE S == \E c \in M : Skipping(H, M, c)
             W == \E c, a \in M : Writing(H, M, c, a)
  <2>8. (S' <=> S) /\ (W' <=> W)
    BY <2>5, <2>6
  <2>9. Dumping(H, M)'
    <3> HIDE DEF S, W
    <3>1. Handler \in Process
      BY DEF Process
    <3>2. /\ dump.pc # "none" => fatal /\ Resting(Handler)
          /\ dump.pc = "none" => stored = <<>> /\ dump.addr = 0
          /\ clean /\ dump.pc = "skip" => S
          /\ clean /\ dump.pc \in {"write", "end", "done", "failed"} => W
          /\ clean => dump.pc # "refused"
      BY <1>2 DEF Dumping, S, W
    <3>3. (/\ dump.pc # "none" => fatal /\ Resting(Handler)
           /\ dump.pc = "none" => stored = <<>> /\ dump.addr = 0
           /\ clean /\ dump.pc = "skip" => S
           /\ clean /\ dump.pc \in {"write", "end", "done", "failed"} => W
           /\ clean => dump.pc # "refused")'
      BY <2>3, <2>7, <2>8, <3>1, <3>2
    <3>4. QED
      BY <3>3 DEF Dumping, S, W
  <2>10. QED
    BY <1>1, <2>2, <2>9 DEF IInv
<1>5. CASE \E t \in Writers : log_write(t)
  <2>1. PICK t \in Writers : log_write(t)
    BY <1>5
  <2>2. t \in Process /\ ~fatal /\ UNCHANGED <<dump, stored>>
    BY <2>1 DEF Process, log_write
  <2>3. SomeView'
    <3>1. \E A \in Nat : View(H, T, A, M, O, D)'
      BY <1>1, <1>2, <2>1, <2>2, CallBegins
    <3>2. QED
      BY <3>1 DEF SomeView
  <2>4. dump.pc = "none"
    BY <1>2, <2>2 DEF Dumping
  <2>5. QED
    BY <1>3, <2>2, <2>3, <2>4
<1>6. CASE \E t \in Process : log_vwrite(t)
  <2>1. PICK t \in Process : log_vwrite(t)
    BY <1>6
  <2>2. Runs(t) /\ ~Resting(t) /\ UNCHANGED <<dump, stored>>
    BY <2>1 DEF log_vwrite, log_acquire_space, LoadHead, CheckSpace, LoadTail, LoadLength,
                MoveTail, MarkInvalid, MoveHead, StoreInvalid, StoreLength, PublishPadding,
                StoreMessage, Shrink, StoreShortLength, Commit, At, Resting, bookkeeping
  <2>3. SomeView'
    BY <1>1, <1>2, <2>1, CallKeeps
  <2>4. dump.pc = "none"
    BY <1>2, <2>2 DEF Dumping, Runs
  <2>5. QED
    BY <1>3, <2>2, <2>3, <2>4
<1>7. CASE error_handler
  <2>1. ~fatal /\ UNCHANGED <<dump, stored>>
    BY <1>7 DEF error_handler
  <2>2. View(H, T, B, M, O, D)'
    BY <1>1, <1>2, <1>7, HandlerBegins
  <2>3. dump.pc = "none"
    BY <1>2, <2>1 DEF Dumping
  <2>4. SomeView'
    BY <2>2 DEF SomeView
  <2>5. QED
    BY <1>3, <2>1, <2>3, <2>4
<1>8. CASE log_dump_to_fram
  <2>1. UNCHANGED ring
    BY <1>8 DEF log_dump_to_fram, BeginDump, SkipOld, WriteLog, WriteEnd
  <2>2. View(H, T, B, M, O, D)'
    BY <1>1, <1>2, <2>1, RingKept
  <2>3. Dumping(H, M)'
    BY <1>1, <1>2, <1>8, BeginDumpKeeps, SkipOldKeeps, WriteLogKeeps, WriteEndKeeps
       DEF log_dump_to_fram
  <2>4. QED
    BY <1>1, <2>2, <2>3 DEF IInv
<1>9. QED
  BY <1>4, <1>5, <1>6, <1>7, <1>8 DEF Next

(* Whatever calls overlap, in whatever order they are preempted, the ring  *)
(* is a row of entries from tail to head, each owned by the call that      *)
(* reserved it or published, and the dump has come as far along it as      *)
(* current_offset tells.                                                   *)
THEOREM Invariant ==
  ASSUME Roomy
  PROVE  Spec => []IInv
<1>1. IInv /\ [Next]_vars => IInv'
  BY InvNext
<1>2. QED
  BY InvInit, <1>1, PTL DEF Spec

----------------------------------------------------------------------------
(* What follows from it                                                    *)

(* Head is never more than a buffer ahead of tail (logging.c, line 91),    *)
(* although each call compares a head and a tail that may both be stale.   *)
THEOREM Bounded ==
  ASSUME Roomy
  PROVE  Spec => []RingBounded
<1>1. IInv => RingBounded
  <2> SUFFICES ASSUME IInv PROVE RingBounded
    OBVIOUS
  <2>1. PICK H \in Nat, T \in Nat, B \in Nat, M \in SUBSET Nat, O \in [Process -> Nat],
             D \in [Process -> Nat] : View(H, T, B, M, O, D)
    BY DEF IInv
  <2>2. Agree(H, T, B, M)
    BY <2>1 DEF View
  <2>3. T \in M /\ tail = Wrap(T) /\ H - T <= Size
    BY <2>2 DEF Agree
  <2>4. Minus(head, Wrap(T)) = H - T
    BY <2>2, <2>3, Ahead
  <2>5. QED
    BY <2>3, <2>4 DEF RingBounded
<1>2. QED
  BY Invariant, <1>1, PTL

(* No two calls have a byte in common, no call has one of a published      *)
(* entry, and such an entry keeps its type and its length until tail       *)
(* passes it or a late LOG_INVALID store hits it (lines 78 to 127).        *)
THEOREM Intact ==
  ASSUME Roomy
  PROVE  Spec => []EntriesIntact
<1>1. IInv => EntriesIntact
  <2> SUFFICES ASSUME IInv PROVE EntriesIntact
    OBVIOUS
  <2>1. PICK H \in Nat, T \in Nat, B \in Nat, M \in SUBSET Nat, O \in [Process -> Nat],
             D \in [Process -> Nat] : View(H, T, B, M, O, D)
    BY DEF IInv
  <2>2. TypeOK /\ Agree(H, T, B, M) /\ Claims(M, O) /\ PublishedLies(M, O) /\ LengthsTell
    BY <2>1 DEF IInv, View
  <2>3. ASSUME NEW t \in Process, Holding(t)
        PROVE  /\ Reserved(t) = CellsOf(O[t], Held(t)) /\ Adjacent(M, O[t], O[t] + Held(t))
               /\ O[t] \in Nat /\ Held(t) \in Nat
    BY <2>1, <2>2, <2>3, ReservedIs, HeldSize DEF Claims
  <2>4. ASSUME NEW t \in Process, ~Holding(t) PROVE Reserved(t) = {}
    BY <2>1, <2>2, <2>4, ReservedIs
  <2>0. \A p, m, q, n \in Nat :
          Adjacent(M, p, p + m) /\ Adjacent(M, q, q + n) /\ p # q =>
            CellsOf(p, m) \intersect CellsOf(q, n) = {}
    BY <2>2, EntriesApart
  <2>5. ASSUME NEW t \in Process, NEW u \in Process, t # u
        PROVE  Reserved(t) \intersect Reserved(u) = {}
    <3>1. CASE Holding(t) /\ Holding(u)
      <4>1. O[t] # O[u]
        BY <2>2, <2>5, <3>1 DEF Claims
      <4>2. CellsOf(O[t], Held(t)) \intersect CellsOf(O[u], Held(u)) = {}
        <5> DEFINE p == O[t]
                   q == O[u]
                   m == Held(t)
                   n == Held(u)
        <5>1. /\ Adjacent(M, p, p + m) /\ Adjacent(M, q, q + n) /\ p # q
              /\ p \in Nat /\ q \in Nat /\ m \in Nat /\ n \in Nat
          BY <2>3, <3>1, <4>1
        <5> HIDE DEF p, q, m, n
        <5>2. CellsOf(p, m) \intersect CellsOf(q, n) = {}
          BY <2>0, <5>1
        <5>3. QED
          BY <5>2 DEF p, q, m, n
      <4>3. QED
        BY <2>3, <3>1, <4>2
    <3>2. CASE ~Holding(t) \/ ~Holding(u)
      BY <2>4, <3>2
    <3>3. QED
      BY <3>1, <3>2
  <2>6. ASSUME NEW e \in published, NEW t \in Process
        PROVE  CellsOf(e.off, e.len) \intersect Reserved(t) = {}
    <3>1. PICK p \in M : /\ e.off = Wrap(p) /\ Adjacent(M, p, p + e.len)
                         /\ \A u \in Process : Holding(u) => O[u] # p
      BY <2>2 DEF PublishedLies
    <3>2. p \in Nat /\ e.len \in Nat /\ p \in Int /\ e.len \in Int
      BY <2>2, PublishedTyped
    <3>3. CellsOf(e.off, e.len) = CellsOf(p, e.len)
      BY <3>1, <3>2, CellsWrap
    <3>4. CASE Holding(t)
      <4> DEFINE q == O[t]
                 m == e.len
                 n == Held(t)
      <4>1. /\ Adjacent(M, p, p + m) /\ Adjacent(M, q, q + n) /\ p # q
            /\ q \in Nat /\ m \in Nat /\ n \in Nat /\ Reserved(t) = CellsOf(q, n)
        BY <2>3, <3>1, <3>2, <3>4
      <4> HIDE DEF q, m, n
      <4>2. CellsOf(p, m) \intersect CellsOf(q, n) = {}
        BY <2>0, <3>2, <4>1
      <4>3. QED
        BY <3>3, <4>1, <4>2 DEF m
    <3>5. CASE ~Holding(t)
      BY <2>4, <3>5
    <3>6. QED
      BY <3>4, <3>5
  <2>7. ASSUME NEW e \in published, ~stomped
        PROVE  mem[Cell(e.off)] = e.type /\ LengthAt(e.off) = e.len
    BY <2>2, <2>7 DEF LengthsTell, Reads
  <2>8. ASSUME NEW e \in published PROVE CellsOf(e.off, e.len) \intersect ReservedCells = {}
    <3>1. ASSUME NEW c \in ReservedCells PROVE \E t \in Process : c \in Reserved(t)
      BY DEF ReservedCells
    <3>2. QED
      BY <2>6, <3>1
  <2>9. QED
    BY <2>5, <2>7, <2>8 DEF EntriesIntact
<1>2. QED
  BY Invariant, <1>1, PTL

(* A message is written inside the buffer (line 200): the second           *)
(* reservation is not tested against its end, and need not be.             *)
THEOREM Inside ==
  ASSUME Roomy
  PROVE  Spec => []MessagesInBuffer
<1>1. IInv => MessagesInBuffer
  <2> SUFFICES ASSUME IInv, NEW t \in Process,
                      writer[t].pc \in {"text", "shrink", "commit"} \union Shrunk
               PROVE  Cell(writer[t].off) + MaxEntry <= Size
    BY DEF MessagesInBuffer
  <2>1. PICK B \in Nat, M \in SUBSET Nat, O \in [Process -> Nat] : InBuffer(B, M, O)
    BY DEF IInv, View
  <2>2. Holding(t) /\ writer[t].pc \notin {"type", "len", "empty"}
    BY DEF Holding, Filling, Shrunk
  <2>3. QED
    BY <2>1, <2>2 DEF InBuffer
<1>2. QED
  BY Invariant, <1>1, PTL

(* In a clean dump every length leads forward and not past head, so that   *)
(* both its loops end (lines 239 to 258) and error_handler goes on to the  *)
(* reset.                                                                  *)
THEOREM MovesOn ==
  ASSUME Roomy
  PROVE  Spec => []DumpMovesOn
<1>1. IInv => DumpMovesOn
  <2> SUFFICES ASSUME IInv, clean, dump.pc \in {"skip", "write"}, dump.cur # head
               PROVE  LengthAt(dump.cur) \in 1..Minus(head, dump.cur)
    BY DEF DumpMovesOn
  <2>1. PICK H \in Nat, T \in Nat, B \in Nat, M \in SUBSET Nat, O \in [Process -> Nat],
             D \in [Process -> Nat] : View(H, T, B, M, O, D) /\ Dumping(H, M)
    BY DEF IInv
  <2>2. TypeOK /\ Agree(H, T, B, M) /\ AfterFatal(H, T, D)
    BY <2>1 DEF IInv, View
  <2>3. PICK c \in M : dump.cur = Wrap(c)
    BY <2>1 DEF Dumping, Skipping, Writing
  <2>4. Minus(head, dump.cur) = H - c /\ c <= H /\ head = Wrap(H)
    BY <2>2, <2>3, Ahead DEF Agree
  <2>5. c < H /\ c \in Nat
    BY <2>3, <2>4
  <2>6. ~stomped /\ \A t \in Process : ~Unsettled(t)
    <3>1. fatal /\ Resting(Handler)
      BY <2>1 DEF Dumping
    <3>2. QED
      BY <2>2, <3>1, Settled
  <2>7. PICK n \in Nat : n = LengthAt(dump.cur) /\ 0 < n /\ Adjacent(M, c, c + n)
    BY <2>1, <2>2, <2>3, <2>5, <2>6, LengthLeads
  <2>8. c + n <= H
    BY <2>2, <2>7 DEF Agree, Adjacent
  <2>9. QED
    BY <2>4, <2>5, <2>7, <2>8
<1>2. QED
  BY Invariant, <1>1, PTL

(* Where the dump has come to c, it has stored entries of the newest half, *)
(* oldest first and without a gap.                                         *)
LEMMA StoredBegins ==
  ASSUME TypeOK, NEW H \in Nat, NEW T \in Nat, NEW B \in Nat, NEW M \in SUBSET Nat,
         NEW O \in [Process -> Nat], NEW D \in [Process -> Nat], View(H, T, B, M, O, D),
         NEW c \in M, NEW a \in M, Writing(H, M, c, a)
  PROVE  /\ BeginsNewest(stored)
         /\ c = H => IsNewest(stored)
<1>1. Agree(H, T, B, M) /\ PublishedLies(M, O)
  BY DEF View
<1>2. /\ StoredBetween(M, a, c) /\ H - a <= Kept
      /\ \A p \in M : p < a => H - p > Kept
  BY DEF Writing
<1>3. \A p \in M : /\ Minus(head, Wrap(p)) = H - p /\ p \in Nat /\ p <= H
                   /\ H - p <= Kept <=> a <= p
  <2>1. ASSUME NEW p \in M
        PROVE  /\ Minus(head, Wrap(p)) = H - p /\ p \in Nat /\ p <= H
               /\ H - p <= Kept <=> a <= p
    <3>1. Minus(head, Wrap(p)) = H - p /\ p <= H
      BY <1>1, Ahead
    <3>2. p \in Nat /\ a \in Nat /\ Kept \in Int
      BY Sizes DEF Kept, Header
    <3>3. QED
      BY <1>2, <3>1, <3>2
  <2>2. QED
    BY <2>1
<1>4. ASSUME NEW i \in 1..Len(stored)
      PROVE  \E p \in M : /\ p < c /\ Minus(head, stored[i].off) = H - p
                          /\ stored[i] \in StoredOf(Newest)
  <2>1. PICK e \in published, p \in M :
          /\ e.type = LOG_COMMITTED /\ a <= p /\ p < c /\ e.off = Wrap(p)
          /\ stored[i] = [off |-> e.off, len |-> e.len]
    BY <1>2 DEF StoredBetween
  <2>2. Minus(head, e.off) <= FramHalf - Header
    BY <1>3, <2>1 DEF Kept
  <2>3. e \in Newest
    BY <2>1, <2>2 DEF Newest
  <2>4. Minus(head, stored[i].off) = H - p
    BY <1>3, <2>1
  <2>5. QED
    BY <2>1, <2>3, <2>4 DEF StoredOf
<1>5. ASSUME NEW e \in Newest
      PROVE  \E p \in M :
               /\ Minus(head, e.off) = H - p /\ p < H
               /\ p < c => \E i \in 1..Len(stored) : stored[i] = [off |-> e.off, len |-> e.len]
  <2>1. e \in published /\ e.type = LOG_COMMITTED /\ Minus(head, e.off) <= Kept
    BY DEF Newest, Kept
  <2>2. PICK p \in M : e.off = Wrap(p) /\ Adjacent(M, p, p + e.len) /\ Header < e.len
    BY <1>1, <2>1 DEF PublishedLies
  <2>3. p + e.len <= H /\ p \in Nat /\ e.len \in Nat /\ 0 < e.len
    BY <1>1, <2>1, <2>2, PublishedTyped DEF Agree, Adjacent, Header
  <2>4. p < H /\ Minus(head, e.off) = H - p
    BY <1>3, <2>2, <2>3
  <2>5. a <= p
    BY <1>3, <2>1, <2>4
  <2>6. p < c => \E i \in 1..Len(stored) : stored[i] = [off |-> e.off, len |-> e.len]
    BY <1>2, <2>1, <2>2, <2>5 DEF StoredBetween
  <2>7. QED
    BY <2>4, <2>6
<1>6. OldestFirst(stored)
  BY <1>2 DEF StoredBetween, OldestFirst
<1>7. {stored[i] : i \in 1..Len(stored)} \subseteq StoredOf(Newest)
  BY <1>4
<1>8. BeginsNewest(stored)
  <2>1. ASSUME NEW e \in Newest, NEW i \in 1..Len(stored),
               Minus(head, e.off) > Minus(head, stored[i].off)
        PROVE  \E j \in 1..Len(stored) : stored[j] = [off |-> e.off, len |-> e.len]
    <3>1. PICK k \in M : k < c /\ Minus(head, stored[i].off) = H - k
      BY <1>4
    <3>2. PICK p \in M :
            /\ Minus(head, e.off) = H - p /\ p < H
            /\ p < c => \E j \in 1..Len(stored) : stored[j] = [off |-> e.off, len |-> e.len]
      BY <1>5
    <3>3. p \in Nat /\ k \in Nat /\ c \in Nat /\ H - p > H - k
      BY <1>3, <2>1, <3>1, <3>2
    <3>4. p < c
      BY <3>1, <3>3
    <3>5. QED
      BY <3>2, <3>4
  <2>2. QED
    BY <1>6, <1>7, <2>1 DEF BeginsNewest
<1>9. c = H => IsNewest(stored)
  <2> SUFFICES ASSUME c = H, NEW x \in StoredOf(Newest)
               PROVE  x \in {stored[i] : i \in 1..Len(stored)}
    BY <1>6, <1>7 DEF IsNewest
  <2>1. PICK e \in Newest : x = [off |-> e.off, len |-> e.len]
    BY DEF StoredOf
  <2>2. PICK i \in 1..Len(stored) : stored[i] = [off |-> e.off, len |-> e.len]
    BY <1>5
  <2>3. QED
    BY <2>1, <2>2
<1>10. QED
  BY <1>8, <1>9

(* A clean dump is never refused for want of room.  It stores exactly the  *)
(* messages of the newest half, oldest first, and the end log (error.c,    *)
(* line 27), or nothing when head has wrapped and tail has not; one that   *)
(* the FRAM fails, or its lock, has stored the oldest of them.             *)
THEOREM DumpIsNewest ==
  ASSUME Roomy
  PROVE  Spec => []CleanDumpIsNewest
<1>1. IInv => CleanDumpIsNewest
  <2> SUFFICES ASSUME IInv, clean, Dumped
               PROVE  /\ dump.pc # "refused"
                      /\ dump.pc = "done" => IsNewest(stored) \/ (stored = <<>> /\ head < tail)
                      /\ dump.pc = "failed" => BeginsNewest(stored)
    BY DEF CleanDumpIsNewest
  <2>1. PICK H \in Nat, T \in Nat, B \in Nat, M \in SUBSET Nat, O \in [Process -> Nat],
             D \in [Process -> Nat] : View(H, T, B, M, O, D) /\ Dumping(H, M)
    BY DEF IInv
  <2>2. dump.pc \in {"done", "failed"}
    BY <2>1 DEF Dumped, Dumping
  <2>3. PICK c \in M, a \in M : Writing(H, M, c, a)
    BY <2>1, <2>2 DEF Dumping
  <2>4. BeginsNewest(stored) /\ (c = H => IsNewest(stored))
    BY <2>1, <2>3, StoredBegins DEF IInv
  <2>5. dump.pc = "done" => c = H \/ (stored = <<>> /\ head < tail)
    BY <2>3 DEF Writing
  <2>6. QED
    BY <2>2, <2>4, <2>5
<1>2. QED
  BY Invariant, <1>1, PTL

----------------------------------------------------------------------------
(* Following the lengths from tail                                         *)

(* The order of the numbers, as the theorems on well-founded relations     *)
(* take it.                                                                *)
Below == {p \in Nat \X Nat : p[1] < p[2]}

(* Of some numbers one is the least. Induction along a walk or a row of    *)
(* entries goes by it: the least counterexample has none below.            *)
LEMMA Least ==
  ASSUME NEW S \in SUBSET Nat, S # {}
  PROVE  \E x \in S : \A y \in S : x <= y
<1>1. IsWellFoundedOn(Below, Nat)
  BY NatLessThanWellFounded DEF OpToRel, Below
<1>2. PICK x \in S : \A y \in S : ~(<<y, x>> \in Below)
  BY <1>1, WFMin, Zenon
<1>3. ASSUME NEW y \in S PROVE x <= y
  <2>1. y \in Nat /\ x \in Nat
    OBVIOUS
  <2>2. y < x => <<y, x>> \in Below
    BY <2>1 DEF Below
  <2>3. QED
    BY <1>2, <2>1, <2>2
<1>4. QED
  BY <1>3

(* w goes n steps along the lengths from tail.                             *)
IsWalk(w, n) == w = [i \in 0..n |-> IF i = 0 THEN tail ELSE NextOffset(w[i - 1])]

(* There is such a walk, so that the recursion of ChainReachesHead has a   *)
(* solution.                                                               *)
LEMMA WalkExists == ASSUME NEW n \in Nat PROVE \E w : IsWalk(w, n)
<1> DEFINE S == {k \in Nat : ~(\E w : IsWalk(w, k))}
<1>1. SUFFICES ASSUME S # {} PROVE FALSE
  OBVIOUS
<1>2. PICK k \in S : \A j \in S : k <= j
  BY <1>1, Least
<1>3. k \in Nat /\ ~(\E w : IsWalk(w, k))
  OBVIOUS
<1>4. CASE k = 0
  <2>1. IsWalk([i \in 0..0 |-> tail], 0)
    BY DEF IsWalk
  <2>2. QED
    BY <1>3, <1>4, <2>1
<1>5. CASE k # 0
  <2>1. k - 1 \in Nat /\ ~(k <= k - 1)
    BY <1>3, <1>5
  <2>2. k - 1 \notin S
    BY <1>2, <2>1
  <2>3. PICK v : IsWalk(v, k - 1)
    BY <2>1, <2>2
  <2> DEFINE w == [i \in 0..k |-> IF i = k THEN NextOffset(v[k - 1]) ELSE v[i]]
  <2>4. \A i \in 0..k - 1 : v[i] = IF i = 0 THEN tail ELSE NextOffset(v[i - 1])
    BY <2>3 DEF IsWalk
  <2>5. ASSUME NEW i \in 0..k PROVE w[i] = IF i = 0 THEN tail ELSE NextOffset(w[i - 1])
    <3>1. CASE i = k
      <4>1. w[i] = NextOffset(v[k - 1]) /\ w[k - 1] = v[k - 1] /\ i # 0
        BY <1>3, <1>5, <3>1
      <4>2. QED
        BY <3>1, <4>1
    <3>2. CASE i # k
      <4>1. i \in 0..k - 1 /\ w[i] = v[i] /\ (i # 0 => i - 1 \in 0..k /\ i - 1 # k)
        BY <1>3, <3>2
      <4>2. i # 0 => w[i - 1] = v[i - 1]
        BY <4>1
      <4>3. QED
        BY <2>4, <4>1, <4>2
    <3>3. QED
      BY <3>1, <3>2
  <2>6. w = [i \in 0..k |-> w[i]]
    OBVIOUS
  <2> HIDE DEF w
  <2>7. IsWalk(w, k)
    BY <2>5, <2>6, Zenon DEF IsWalk
  <2>8. QED
    BY <1>3, <2>7
<1>6. QED
  BY <1>4, <1>5

(* Whenever no length is in between, following the lengths from tail leads *)
(* to head (line 23). Of the places the walk reaches, the one nearest to   *)
(* head would otherwise have a next one that is nearer.                    *)
THEOREM ChainLeads ==
  ASSUME Roomy
  PROVE  Spec => []ChainReachesHead
<1>1. IInv => ChainReachesHead
  <2> DEFINE walk[n \in 0..Size] == IF n = 0 THEN tail ELSE NextOffset(walk[n - 1])
  <2>1. SUFFICES ASSUME IInv, ~stomped, \A t \in Process : ~Unsettled(t)
                 PROVE  \E n \in 0..Size : walk[n] = head
    BY DEF ChainReachesHead
  <2>2. walk = CHOOSE w : IsWalk(w, Size)
    BY DEF IsWalk
  <2> HIDE DEF walk
  <2>3. IsWalk(walk, Size)
    BY <2>2, WalkExists, Sizes
  <2>4. /\ walk[0] = tail
        /\ \A i \in 0..Size : i + 1 \in 0..Size => walk[i + 1] = NextOffset(walk[i])
    <3>1. \A i \in 0..Size : walk[i] = IF i = 0 THEN tail ELSE NextOffset(walk[i - 1])
      BY <2>3 DEF IsWalk
    <3>2. 0 \in 0..Size
      BY Sizes
    <3>3. ASSUME NEW i \in 0..Size, i + 1 \in 0..Size PROVE walk[i + 1] = NextOffset(walk[i])
      <4>1. i + 1 # 0 /\ (i + 1) - 1 = i
        OBVIOUS
      <4>2. QED
        BY <3>1, <3>3, <4>1
    <3>4. QED
      BY <3>1, <3>2, <3>3
  <2>5. PICK H \in Nat, T \in Nat, B \in Nat, M \in SUBSET Nat, O \in [Process -> Nat],
             D \in [Process -> Nat] : View(H, T, B, M, O, D)
    BY <2>1 DEF IInv
  <2>6. /\ TypeOK /\ head = Wrap(H) /\ tail = Wrap(T) /\ T \in M /\ T <= H /\ H - T <= Size
        /\ \A m \in M : T <= m /\ m <= H
    BY <2>1, <2>5 DEF IInv, View, Agree
  (* How far from head the walk is, after no more steps than bytes passed. *)
  <2> DEFINE S == {d \in Nat : \E n \in 0..Size, c \in M :
                      d = H - c /\ walk[n] = Wrap(c) /\ n <= c - T}
  <2>7. S \in SUBSET Nat /\ S # {}
    <3>1. 0 \in 0..Size /\ H - T \in Nat /\ 0 <= T - T
      BY <2>6, Sizes
    <3>2. H - T \in S
      BY <2>4, <2>6, <3>1
    <3>3. QED
      BY <3>2
  <2>8. PICK d \in S : \A e \in S : d <= e
    BY <2>7, Least
  <2>9. PICK n \in 0..Size, c \in M : d = H - c /\ walk[n] = Wrap(c) /\ n <= c - T
    OBVIOUS
  <2>10. c \in Nat /\ T <= c /\ c <= H
    BY <2>6
  <2>11. CASE c = H
    BY <2>6, <2>9, <2>11
  <2>12. CASE c < H
    <3> DEFINE l == LengthAt(Wrap(c))
    <3>1. l \in Nat /\ 0 < l /\ c + l \in M
      BY <2>1, <2>5, <2>6, <2>12, LengthLeads DEF Adjacent
    <3>2. NextOffset(Wrap(c)) = Wrap(c + l)
      BY <2>10, <3>1, WrapPlus DEF NextOffset
    <3> HIDE DEF l
    <3>3. n + 1 \in 0..Size /\ n + 1 <= (c + l) - T
      BY <2>6, <2>9, <2>10, <2>12, <3>1, Sizes
    <3>4. walk[n + 1] = Wrap(c + l)
      BY <2>4, <2>9, <3>2, <3>3
    <3>5. c + l <= H /\ H - (c + l) \in Nat /\ H - (c + l) < d
      BY <2>6, <2>9, <2>10, <3>1
    <3>6. H - (c + l) \in S
      BY <3>1, <3>3, <3>4, <3>5
    <3>7. QED
      BY <2>8, <3>5, <3>6
  <2>13. QED
    BY <2>10, <2>11, <2>12
<1>2. QED
  BY Invariant, <1>1, PTL

----------------------------------------------------------------------------
(* Tails loaded before others moved tail and head                          *)

(* Head is more than a buffer ahead of the tail a call has loaded.         *)
Past(t) == Minus(head, writer[t].old) > Size

(* A call has the newest entry and may still give back the end of it (line *)
(* 208).                                                                   *)
AtTop(u) == Filled(u) /\ head = Plus(writer[u].off, MaxEntry)

(* Bytes that will not be given back lie where a call is about to read a   *)
(* length: the entry there was freed and its bytes were reserved again.    *)
Overwritten(t) ==
  /\ Past(t)
  /\ \A u \in Process : AtTop(u) =>
       Minus(Plus(writer[u].off, EntryLength(u)), writer[t].old) > Size

(* The length a call is about to read is that of an entry, or else its     *)
(* bytes were reserved again or a late LOG_INVALID store hit them.         *)
Genuine ==
  \A t \in Process : writer[t].pc = "length" =>
    LengthAt(writer[t].old) \in Header..MaxEntry \/ stomped \/ Overwritten(t)

(* tail has not moved since a call loaded it, or it has moved by an entry. *)
Behind ==
  \A t \in Process : Freeing(t) =>
    writer[t].old = tail \/ Minus(tail, writer[t].old) > Header

(* No late LOG_INVALID store goes to the length another call is about to   *)
(* read.                                                                   *)
Spaced ==
  \A t, u \in Process : Freeing(t) /\ Freeing(u) =>
    Cell(writer[u].old) # Cell(writer[t].old + 1)

(* What is known of the tails that calls have loaded.                      *)
Trusted == Genuine /\ Behind /\ Spaced

(* The place of a tail that was loaded is less than 2^32 below that of     *)
(* head, with room for an entry more.                                      *)
LEMMA LoadedTail ==
  ASSUME TypeOK, Roomy, NEW H \in Nat, NEW T \in Nat, NEW B \in Nat, NEW M \in SUBSET Nat,
         NEW O \in [Process -> Nat], NEW D \in [Process -> Nat], View(H, T, B, M, O, D),
         NEW t \in Process, Freeing(t)
  PROVE  /\ writer[t].old = Wrap(D[t]) /\ D[t] \in Nat /\ D[t] <= T /\ B <= D[t] + Size
         /\ T <= B /\ B <= H /\ H - T <= Size /\ T - D[t] <= Size
         /\ H + MaxEntry - D[t] < OffMod
<1>1. /\ writer[t].old = Wrap(D[t]) /\ D[t] \in Nat /\ D[t] <= T /\ B <= D[t] + Size
      /\ T <= B /\ B <= H /\ H - T <= Size /\ Agree(H, T, B, M) /\ Budget(H, T, B)
  BY DEF View, CallsAgree, Agree
<1>2. H - B <= Window /\ Window \in Nat /\ Window + MaxEntry + MaxEntry <= Size
  BY <1>1, ViewTyped
<1>3. QED
  BY <1>1, <1>2, Sizes

(* So the distance of a place from it is that of their offsets,            *)
LEMMA DistanceFrom ==
  ASSUME TypeOK, Roomy, NEW H \in Nat, NEW T \in Nat, NEW B \in Nat, NEW M \in SUBSET Nat,
         NEW O \in [Process -> Nat], NEW D \in [Process -> Nat], View(H, T, B, M, O, D),
         NEW t \in Process, Freeing(t), NEW n \in Nat, D[t] <= n, n <= H + MaxEntry
  PROVE  Minus(Wrap(n), writer[t].old) = n - D[t]
<1>1. writer[t].old = Wrap(D[t]) /\ D[t] \in Nat /\ H + MaxEntry - D[t] < OffMod
  BY LoadedTail
<1>2. n \in Int /\ D[t] \in Int /\ n - D[t] < OffMod
  BY <1>1, Sizes
<1>3. Minus(Wrap(n), Wrap(D[t])) = n - D[t]
  BY <1>2, WrapMinus
<1>4. QED
  BY <1>1, <1>3

(* and the same holds of head and tail.                                    *)
LEMMA Distances ==
  ASSUME TypeOK, Roomy, NEW H \in Nat, NEW T \in Nat, NEW B \in Nat, NEW M \in SUBSET Nat,
         NEW O \in [Process -> Nat], NEW D \in [Process -> Nat], View(H, T, B, M, O, D),
         NEW t \in Process, Freeing(t)
  PROVE  Minus(head, writer[t].old) = H - D[t] /\ Minus(tail, writer[t].old) = T - D[t]
<1>1. /\ D[t] <= H /\ H <= H + MaxEntry /\ D[t] <= T /\ T <= H + MaxEntry
  BY LoadedTail, Sizes
<1>2. Minus(Wrap(H), writer[t].old) = H - D[t]
  BY <1>1, DistanceFrom
<1>3. Minus(Wrap(T), writer[t].old) = T - D[t]
  BY <1>1, DistanceFrom
<1>4. head = Wrap(H) /\ tail = Wrap(T)
  BY DEF View, Agree
<1>5. QED
  BY <1>2, <1>3, <1>4

(* The newest entry ends at head.                                          *)
LEMMA TopIs ==
  ASSUME TypeOK, NEW H \in Nat, NEW T \in Nat, NEW B \in Nat, NEW M \in SUBSET Nat,
         NEW O \in [Process -> Nat], NEW D \in [Process -> Nat], View(H, T, B, M, O, D),
         NEW u \in Process, AtTop(u)
  PROVE  /\ Holding(u) /\ O[u] \in Nat /\ O[u] + MaxEntry = H /\ B <= O[u]
         /\ writer[u].off = Wrap(O[u]) /\ Held(u) = MaxEntry
<1>1. Filled(u) /\ head = Plus(writer[u].off, MaxEntry)
  BY DEF AtTop
<1>2. Holding(u) /\ Held(u) = MaxEntry
  BY <1>1 DEF Filled, Holding, Held, Filling, Shrunk
<1>3. /\ writer[u].off = Wrap(O[u]) /\ Adjacent(M, O[u], O[u] + MaxEntry) /\ O[u] \in Nat
      /\ head = Wrap(H) /\ H - T <= Size /\ B <= O[u]
  BY <1>2 DEF View, CallsAgree, Claims, Agree
<1>10. \A m \in M : T <= m /\ m <= H
  BY DEF View, Agree
<1>4. /\ T <= O[u] /\ O[u] + MaxEntry <= H /\ O[u] \in Int /\ O[u] + MaxEntry \in Int
      /\ H \in Int /\ T \in Int
  BY <1>3, <1>10, Sizes DEF Adjacent
<1>5. Wrap(H) = Wrap(O[u] + MaxEntry)
  <2>1. MaxEntry \in Int
    BY Sizes
  <2>2. Plus(Wrap(O[u]), MaxEntry) = Wrap(O[u] + MaxEntry)
    BY <1>4, <2>1, WrapPlus
  <2>3. QED
    BY <1>1, <1>3, <2>2
<1>6. H - (O[u] + MaxEntry) < OffMod /\ (O[u] + MaxEntry) - H < OffMod
  <2>1. H - T <= Size
    BY <1>3
  <2>2. QED
    BY <1>4, <2>1, Sizes
<1>7. O[u] + MaxEntry = H
  BY <1>4, <1>5, <1>6, WrapSame
<1>8. QED
  BY <1>2, <1>3, <1>7

(* Every other reservation lies below it.                                  *)
LEMMA BelowTop ==
  ASSUME TypeOK, NEW H \in Nat, NEW T \in Nat, NEW B \in Nat, NEW M \in SUBSET Nat,
         NEW O \in [Process -> Nat], NEW D \in [Process -> Nat], View(H, T, B, M, O, D),
         NEW u \in Process, Holding(u), Held(u) = MaxEntry, O[u] + MaxEntry = H,
         NEW t \in Process, t # u, Holding(t)
  PROVE  O[t] + Held(t) <= O[u]
<1>1. /\ Adjacent(M, O[t], O[t] + Held(t)) /\ O[t] # O[u] /\ O[t] \in Nat /\ O[u] \in Nat
      /\ Adjacent(M, O[u], O[u] + MaxEntry)
  BY DEF View, Claims
<1>2. \A m \in M : T <= m /\ m <= H
  BY DEF View, Agree
<1>3. Held(t) \in Nat /\ 0 < Held(t)
  BY HeldSize
<1>4. O[t] + Held(t) <= H
  BY <1>1, <1>2 DEF Adjacent
<1>5. O[u] <= O[t] \/ O[t] + Held(t) <= O[u]
  BY <1>1 DEF Adjacent
<1>6. O[t] <= O[u] \/ O[u] + MaxEntry <= O[t]
  BY <1>1 DEF Adjacent
<1>7. QED
  BY <1>1, <1>3, <1>4, <1>5, <1>6, Sizes

(* What a call writes of its entry is not where another reads a length,    *)
(* unless that was reserved again.                                         *)
LEMMA OutOfReach ==
  ASSUME TypeOK, Roomy, NEW H \in Nat, NEW T \in Nat, NEW B \in Nat, NEW M \in SUBSET Nat,
         NEW O \in [Process -> Nat], NEW D \in [Process -> Nat], View(H, T, B, M, O, D),
         NEW t \in Process, Holding(t), NEW u \in Process, writer[u].pc = "length",
         ~Overwritten(u)
  PROVE  Cell(writer[u].old + 1) \notin CellsOf(O[t], EntryLength(t))
<1>1. Freeing(u) /\ u \in Deciders
  BY DEF Freeing, Deciders
<1>2. /\ writer[u].old = Wrap(D[u]) /\ D[u] \in Nat /\ D[u] <= T /\ B <= D[u] + Size
      /\ T <= B /\ B <= H /\ H - T <= Size /\ T - D[u] <= Size
      /\ H + MaxEntry - D[u] < OffMod
  BY <1>1, LoadedTail, Zenon
<1>10. Minus(head, writer[u].old) = H - D[u]
  <2>1. head = Wrap(H)
    BY DEF View, Agree
  <2>2. H \in Int /\ D[u] \in Int /\ D[u] <= H /\ H - D[u] < OffMod
    BY <1>2, Sizes
  <2>3. QED
    BY <1>2, <2>1, <2>2, WrapMinus
<1>3. T + MaxEntry <= B
  BY <1>1, ViewTyped DEF View
<1>4. /\ O[t] \in Nat /\ B <= O[t] /\ Adjacent(M, O[t], O[t] + Held(t)) /\ O[t] + Held(t) <= H
  BY DEF View, CallsAgree, Claims, Agree, Adjacent
<1>5. EntryLength(t) \in Nat /\ EntryLength(t) <= Held(t) /\ Held(t) \in Nat
  BY CallTyped, Bytes, HeldSize, Sizes DEF Held, Header
<1>6. O[t] + EntryLength(t) <= D[u] + Size
  <2>1. CASE ~Past(u)
    BY <1>2, <1>4, <1>5, <1>10, <2>1, Sizes DEF Past
  <2>2. CASE \E v \in Process :
               /\ AtTop(v)
               /\ ~(Minus(Plus(writer[v].off, EntryLength(v)), writer[u].old) > Size)
    <3>1. PICK v \in Process : /\ AtTop(v)
                               /\ ~(Minus(Plus(writer[v].off, EntryLength(v)), writer[u].old) > Size)
      BY <2>2
    <3>2. /\ Holding(v) /\ O[v] \in Nat /\ O[v] + MaxEntry = H /\ B <= O[v]
          /\ writer[v].off = Wrap(O[v]) /\ Held(v) = MaxEntry
      BY <3>1, TopIs, Zenon
    <3>11. t # v => O[t] + Held(t) <= O[v]
      BY <3>2, BelowTop, Zenon
    <3>3. EntryLength(v) \in Nat /\ EntryLength(v) <= MaxEntry
      BY CallTyped, Bytes, Sizes DEF Header
    <3>4. B <= O[v]
      BY <3>2 DEF View, CallsAgree
    <3>5. Plus(writer[v].off, EntryLength(v)) = Wrap(O[v] + EntryLength(v))
      BY <3>2, <3>3, WrapPlus
    <3>6. O[v] + EntryLength(v) \in Nat /\ D[u] <= O[v] + EntryLength(v)
          /\ O[v] + EntryLength(v) <= H + MaxEntry
      BY <1>2, <3>2, <3>3, <3>4, Sizes
    <3>7. O[v] + EntryLength(v) <= D[u] + Size
      <4>1. Minus(Wrap(O[v] + EntryLength(v)), writer[u].old) = O[v] + EntryLength(v) - D[u]
        <5> DEFINE n == O[v] + EntryLength(v)
        <5>1. n \in Nat /\ D[u] <= n /\ n <= H + MaxEntry
          BY <3>6
        <5> HIDE DEF n
        <5>2. n \in Int /\ D[u] \in Int /\ D[u] <= n /\ n - D[u] < OffMod
          BY <1>2, <5>1, Sizes
        <5>4. Minus(Wrap(n), writer[u].old) = n - D[u]
          BY <1>2, <5>2, WrapMinus
        <5>3. QED
          BY <1>2, <3>2, <3>3, <5>1, <5>4, Sizes DEF n
      <4>2. QED
        <5> DEFINE x == Minus(Plus(writer[v].off, EntryLength(v)), writer[u].old)
        <5>1. ~(x > Size) /\ x = O[v] + EntryLength(v) - D[u]
          BY <3>1, <3>5, <4>1
        <5> HIDE DEF x
        <5>2. QED
          BY <1>2, <3>2, <3>3, <5>1, Sizes
    <3>8. CASE t = v
      BY <3>7, <3>8
    <3>9. CASE t # v
      BY <1>4, <1>5, <3>2, <3>11, <3>3, <3>7, <3>9, <1>2, Sizes
    <3>10. QED
      BY <3>8, <3>9
  <2>3. QED
    BY <2>1, <2>2 DEF Overwritten
<1>7. Cell(writer[u].old + 1) = Cell(D[u] + 1)
  BY <1>2, WrapCell
<1>8. ASSUME NEW i \in 0..EntryLength(t) - 1, Cell(O[t] + i) = Cell(D[u] + 1) PROVE FALSE
  <2> DEFINE a == O[t] + i
             b == D[u] + 1
  <2>1. a \in Int /\ b \in Int /\ b < a /\ a - b < Size /\ b - a < Size
    BY <1>2, <1>3, <1>4, <1>5, <1>6, Sizes
  <2>2. Cell(a) = Cell(b)
    BY <1>8
  <2> HIDE DEF a, b
  <2>3. QED
    BY <2>1, <2>2, CellSame
<1>9. QED
  BY <1>7, <1>8 DEF CellsOf

----------------------------------------------------------------------------
(* What a step of a call may do                                            *)

(* A step of a call has moved head on; has moved it back; has moved tail   *)
(* on.                                                                     *)
Taken(s) == MoveHead(s) /\ writer'[s].pc = "type"
GivenBack(s) == Shrink(s) /\ writer'[s].pc = "store_len"
Freed(s) == MoveTail(s) /\ writer'[s].pc = "mark"

(* What a step of a call does to the call.                                 *)
CallMoves(s) ==
  /\ Runs(s) /\ \A u \in Process : u # s => writer'[u] = writer[u]
  /\ Freeing(s)' => LoadTail(s) \/ (Freeing(s) /\ writer'[s].old = writer[s].old)
  /\ writer'[s].pc = "length" => LoadTail(s)
  /\ writer'[s].errors <= writer[s].errors \/ LoadLength(s)
  /\ writer'[s].pc = "failed" => LoadLength(s)
  /\ s \in Firsts' => s \in Firsts
  /\ s \in Seconds' => s \in Seconds
  /\ \/ Taken(s)
     \/ Filled(s)' => Filled(s) /\ writer'[s].off = writer[s].off /\ writer'[s].msg = writer[s].msg

(* What it does to head, tail and the history.                             *)
RingMoves(s) ==
  /\ UNCHANGED <<fatal, overlaps>> /\ (stomped => stomped')
  /\ head' = head \/ Taken(s) \/ GivenBack(s)
  /\ tail' = tail \/ Freed(s)

(* What it does to the bytes: only those of its own entry that its message *)
(* will take, and the type of an entry it has freed.                       *)
StoresWithin(s) ==
  \A c \in 0..Size - 1 :
    \/ mem'[c] = mem[c]
    \/ Holding(s) /\ c \in CellsOf(writer[s].off, EntryLength(s))
    \/ MarkInvalid(s) /\ c = Cell(writer[s].old)

(* Every step of log_vwrite does no more than that to the ring,            *)
LEMMA RingStep == ASSUME TypeOK, NEW s \in Process, log_vwrite(s) PROVE RingMoves(s)
<1>1. \/ LoadHead(s) \/ CheckSpace(s) \/ LoadTail(s) \/ LoadLength(s)
      \/ StoreInvalid(s) \/ StoreLength(s) \/ StoreMessage(s) \/ StoreShortLength(s)
      => RingMoves(s)
  BY DEF RingMoves, LoadHead, CheckSpace, LoadTail, LoadLength, StoreInvalid,
     StoreLength, StoreMessage,
         StoreShortLength, bookkeeping, ghosts
<1>2. PublishPadding(s) \/ Commit(s) => RingMoves(s)
  BY DEF RingMoves, PublishPadding, Commit, bookkeeping
<1>3. ASSUME MarkInvalid(s) PROVE RingMoves(s)
  <2>1. UNCHANGED <<fatal, overlaps, head, tail>>
    BY <1>3 DEF MarkInvalid, bookkeeping
  <2>2. stomped => stomped'
    BY <1>3, Zenon DEF MarkInvalid
  <2>3. QED
    BY <2>1, <2>2 DEF RingMoves
<1>4. writer \in [Process -> Call]
  BY DEF TypeOK, Call
<1>5. ASSUME MoveTail(s) PROVE RingMoves(s)
  <2>1. UNCHANGED <<fatal, overlaps, head, stomped>>
    BY <1>5 DEF MoveTail, bookkeeping
  <2>2. tail' = tail \/ writer'[s].pc = "mark"
    BY <1>4, <1>5 DEF MoveTail, Call
  <2>3. QED
    BY <1>5, <2>1, <2>2 DEF RingMoves, Freed
<1>6. ASSUME MoveHead(s) PROVE RingMoves(s)
  <2>1. UNCHANGED <<fatal, overlaps, tail, stomped>>
    BY <1>6 DEF MoveHead, bookkeeping, ghosts
  <2>2. head' = head \/ writer'[s].pc = "type"
    BY <1>4, <1>6 DEF MoveHead, Goto, Call
  <2>3. QED
    BY <1>6, <2>1, <2>2 DEF RingMoves, Taken
<1>7. ASSUME Shrink(s) PROVE RingMoves(s)
  <2>1. UNCHANGED <<fatal, overlaps, tail, stomped>>
    BY <1>7 DEF Shrink, bookkeeping, ghosts
  <2>2. head' = head \/ writer'[s].pc = "store_len"
    BY <1>4, <1>7 DEF Shrink, Goto, Call
  <2>3. QED
    BY <1>7, <2>1, <2>2 DEF RingMoves, GivenBack
<1>8. QED
  BY <1>1, <1>2, <1>3, <1>5, <1>6, <1>7 DEF log_vwrite, log_acquire_space

(* to the call,                                                            *)
LEMMA CallStep ==
  ASSUME TypeOK, NEW s \in Process, log_vwrite(s), writer[s].pc = "empty" => ~writer[s].second
  PROVE  CallMoves(s)
<1>0. /\ fatal' = fatal /\ writer \in [Process -> Call]
  BY RingStep DEF RingMoves, TypeOK, Call
<1> USE DEF Freeing, Filled, Filling, Firsts, Seconds, Acquiring, At
<1>1. LoadHead(s) => CallMoves(s)
  BY <1>0 DEF LoadHead, CallMoves, Call
<1>2. CheckSpace(s) => CallMoves(s)
  BY <1>0 DEF CheckSpace, Goto, CallMoves, Call
<1>3. LoadTail(s) => CallMoves(s)
  BY <1>0 DEF LoadTail, CallMoves, Call
<1>4. LoadLength(s) => CallMoves(s)
  BY <1>0 DEF LoadLength, CallMoves, Call
<1>5. MoveTail(s) => CallMoves(s)
  BY <1>0 DEF MoveTail, CallMoves, Call
<1>6. MarkInvalid(s) => CallMoves(s)
  BY <1>0 DEF MarkInvalid, CallMoves, Call
<1>7. MoveHead(s) => CallMoves(s)
  BY <1>0 DEF MoveHead, Goto, CallMoves, Call, Taken
<1>8. StoreInvalid(s) => CallMoves(s)
  BY <1>0 DEF StoreInvalid, Goto, CallMoves, Call
<1>9. StoreLength(s) => CallMoves(s)
  BY <1>0 DEF StoreLength, Goto, CallMoves, Call
<1>10. ASSUME PublishPadding(s) PROVE CallMoves(s)
  <2>1. /\ Runs(s) /\ \A u \in Process : u # s => writer'[u] = writer[u]
        /\ writer[s].pc = "empty" /\ writer'[s].pc = "load" /\ writer'[s].second = TRUE
        /\ writer'[s].errors = writer[s].errors
    BY <1>0, <1>10 DEF PublishPadding, Call
  <2>2. writer[s].errors \in 0..3
    BY CallTyped
  <2>3. QED
    BY <1>0, <2>1, <2>2 DEF CallMoves
<1>11. StoreMessage(s) => CallMoves(s)
  BY <1>0 DEF StoreMessage, Goto, CallMoves, Call
<1>12. Shrink(s) => CallMoves(s)
  BY <1>0 DEF Shrink, Goto, CallMoves, Call
<1>13. StoreShortLength(s) => CallMoves(s)
  BY <1>0 DEF StoreShortLength, Goto, CallMoves, Call
<1>14. Commit(s) => CallMoves(s)
  BY <1>0 DEF Commit, Idle, CallMoves, Call
<1>15. QED
  BY <1>1, <1>2, <1>3, <1>4, <1>5, <1>6, <1>7, <1>8, <1>9, <1>10, <1>11, <1>12, <1>13, <1>14
     DEF log_vwrite, log_acquire_space

(* and to the bytes.                                                       *)
LEMMA ByteStep == ASSUME TypeOK, NEW s \in Process, log_vwrite(s) PROVE StoresWithin(s)
<1>1. \/ LoadHead(s) \/ CheckSpace(s) \/ LoadTail(s) \/ LoadLength(s) \/ MoveTail(s) \/ MoveHead(s)
      \/ Shrink(s)
      => StoresWithin(s)
  BY DEF StoresWithin, LoadHead, CheckSpace, LoadTail, LoadLength, MoveTail, MoveHead, Shrink
<1>2. /\ writer[s].off \in Int /\ EntryLength(s) \in Nat /\ 2 < EntryLength(s)
      /\ EntryLength(s) = 2 + writer[s].msg /\ writer[s].msg \in Nat
      /\ writer[s].off + 0 = writer[s].off
  BY CallTyped, Sizes, Offsets DEF Header, EntryLength, Byte
<1>3. /\ Cell(writer[s].off + 0) \in CellsOf(writer[s].off, EntryLength(s))
      /\ Cell(writer[s].off + 1) \in CellsOf(writer[s].off, EntryLength(s))
  <2>1. \A i \in 0..EntryLength(s) - 1 :
          Cell(writer[s].off + i) \in CellsOf(writer[s].off, EntryLength(s))
    BY DEF CellsOf
  <2>2. 0 \in 0..EntryLength(s) - 1 /\ 1 \in 0..EntryLength(s) - 1
    BY <1>2
  <2>3. QED
    BY <2>1, <2>2
<1>4. ASSUME NEW b, mem' = Stored(writer[s].off, b) \/ mem' = Stored(writer[s].off + 1, b),
             Holding(s)
      PROVE  StoresWithin(s)
  BY <1>2, <1>3, <1>4 DEF StoresWithin, Stored, TypeOK
<1>5. StoreInvalid(s) \/ StoreLength(s) \/ PublishPadding(s)
      \/ StoreShortLength(s) \/ Commit(s) => StoresWithin(s)
  BY <1>4 DEF StoreInvalid, StoreLength, PublishPadding, StoreShortLength, Commit, At,
     Holding, Filling, Shrunk
<1>6. MarkInvalid(s) => StoresWithin(s)
  BY DEF MarkInvalid, StoresWithin, Stored, TypeOK
<1>7. ASSUME StoreMessage(s) PROVE StoresWithin(s)
  <2>1. Holding(s)
    BY <1>7 DEF StoreMessage, At, Holding, Filling
  <2> SUFFICES ASSUME NEW c \in 0..Size - 1, mem'[c] # mem[c]
               PROVE  c \in CellsOf(writer[s].off, EntryLength(s))
    BY <2>1 DEF StoresWithin
  <2>2. c \in Cell(writer[s].off) + 2..Cell(writer[s].off) + 2 + writer[s].msg - 1
    BY <1>7 DEF StoreMessage, TypeOK, Header
  <2>3. Cell(writer[s].off) \in Nat
    BY <1>2, Ranges
  <2> DEFINE i == c - Cell(writer[s].off)
  <2>4. i \in 0..EntryLength(s) - 1 /\ i \in Nat /\ Cell(writer[s].off) + i = c
    BY <1>2, <2>2, <2>3
  <2> HIDE DEF i
  <2>5. Cell(writer[s].off + i) = c
    BY <1>2, <2>4, CellNext, Sizes
  <2>6. QED
    BY <1>2, <2>4, <2>5, CellIn
<1>8. QED
  BY <1>1, <1>5, <1>6, <1>7, Zenon DEF log_vwrite, log_acquire_space

----------------------------------------------------------------------------
(* The lengths that are read                                               *)

(* While a call is about to free an entry, there is one at tail, with its  *)
(* length.                                                                 *)
LEMMA TailEntry ==
  ASSUME TypeOK, Roomy, NEW H \in Nat, NEW T \in Nat, NEW B \in Nat, NEW M \in SUBSET Nat,
         NEW O \in [Process -> Nat], NEW D \in [Process -> Nat], View(H, T, B, M, O, D),
         Deciders # {}
  PROVE  /\ tail = Wrap(T) /\ T + MaxEntry <= B /\ B <= H
         /\ \E n \in Header + 1..MaxEntry : Adjacent(M, T, T + n) /\ Reads(tail, n)
<1>1. /\ tail = Wrap(T) /\ T + MaxEntry <= B /\ B <= H /\ T \in M
  BY ViewTyped DEF View, Agree
<1>2. T \in M /\ T < H /\ \A u \in Process : Holding(u) => O[u] # T
  BY <1>1, Sizes DEF View, CallsAgree
<1>3. PICK e \in published : /\ e.off = Wrap(T) /\ Adjacent(M, T, T + e.len)
                             /\ Header < e.len /\ e.len <= MaxEntry /\ Reads(e.off, e.len)
  <2>1. PICK e \in published : e.off = Wrap(T)
    BY <1>2 DEF View, AllOwned
  <2>2. PICK q \in M : e.off = Wrap(q) /\ Adjacent(M, q, q + e.len)
    BY DEF View, PublishedLies
  <2>5. Header < e.len /\ e.len <= MaxEntry /\ Reads(e.off, e.len)
    BY DEF View, PublishedLies, LengthsTell
  <2>3. q = T
    <3>1. q \in Int /\ T \in Int /\ q - T < OffMod /\ T - q < OffMod
      BY <1>1, Sizes DEF View, Agree
    <3>2. QED
      BY <2>1, <2>2, <3>1, WrapSame
  <2>4. QED
    BY <2>1, <2>2, <2>3, <2>5
<1>4. e.len \in Header + 1..MaxEntry
  BY <1>3, PublishedTyped, Sizes DEF Header
<1>5. QED
  BY <1>1, <1>3, <1>4

(* When a call has reserved an entry, no other can give back the end of    *)
(* its own.                                                                *)
LEMMA TakenTop ==
  ASSUME TypeOK, Roomy, NEW H \in Nat, NEW T \in Nat, NEW B \in Nat, NEW M \in SUBSET Nat,
         NEW O \in [Process -> Nat], NEW D \in [Process -> Nat], View(H, T, B, M, O, D),
         NEW s \in Process, Taken(s), \A u \in Process : u # s => writer'[u] = writer[u]
  PROVE  /\ head' = Wrap(H + MaxEntry) /\ writer'[s].off = Wrap(H)
         /\ writer'[s].msg = writer[s].msg
         /\ \A u \in Process : AtTop(u)' => u = s
<1>1. head = Wrap(H) /\ H - T <= Size /\ \A m \in M : T <= m /\ m <= H
  BY DEF View, Agree
<1>2. /\ head = writer[s].off /\ head' = Plus(head, MaxEntry)
      /\ writer'[s].off = writer[s].off /\ writer'[s].msg = writer[s].msg
  BY DEF Taken, MoveHead, Goto, TypeOK
<1>3. Plus(Wrap(H), MaxEntry) = Wrap(H + MaxEntry)
  BY Sizes, WrapPlus
<1>4. ASSUME NEW u \in Process, AtTop(u)', u # s PROVE FALSE
  <2>1. Filled(u) /\ head' = Plus(writer[u].off, MaxEntry)
    BY <1>4 DEF AtTop, Filled
  <2>2. Holding(u) /\ Held(u) = MaxEntry
    BY <2>1 DEF Filled, Holding, Held, Filling, Shrunk
  <2>3. writer[u].off = Wrap(O[u]) /\ Adjacent(M, O[u], O[u] + MaxEntry) /\ O[u] \in Nat
    BY <2>2 DEF View, CallsAgree, Claims
  <2>4. T <= O[u] /\ O[u] + MaxEntry <= H
    BY <1>1, <2>3 DEF Adjacent
  <2>5. Plus(Wrap(O[u]), MaxEntry) = Wrap(O[u] + MaxEntry)
    BY <2>3, Sizes, WrapPlus
  <2> DEFINE a == H + MaxEntry
             b == O[u] + MaxEntry
  <2>6. H - T <= Size
    BY <1>1
  <2>7. a \in Int /\ b \in Int /\ a - b < OffMod /\ b - a < OffMod /\ b < a
    BY <2>3, <2>4, <2>6, Sizes
  <2>8. Wrap(a) = Wrap(b)
    BY <1>1, <1>2, <1>3, <2>1, <2>3, <2>5
  <2> HIDE DEF a, b
  <2>9. QED
    BY <2>7, <2>8, WrapSame
<1>5. QED
  BY <1>1, <1>2, <1>3, <1>4

(* A call that gives back the end of its entry has the newest one.         *)
LEMMA GivesBack ==
  ASSUME TypeOK, NEW s \in Process, GivenBack(s)
  PROVE  /\ AtTop(s) /\ head' = Plus(writer[s].off, EntryLength(s)) /\ writer'[s].pc = "store_len"
BY DEF GivenBack, Shrink, Goto, AtTop, At, Filled, Filling, TypeOK

(* Afterwards no call has the newest entry.                                *)
LEMMA GivenBackTop ==
  ASSUME TypeOK, Roomy, NEW H \in Nat, NEW T \in Nat, NEW B \in Nat, NEW M \in SUBSET Nat,
         NEW O \in [Process -> Nat], NEW D \in [Process -> Nat], View(H, T, B, M, O, D),
         NEW s \in Process, GivenBack(s), \A u \in Process : u # s => writer'[u] = writer[u]
  PROVE  \A u \in Process : ~AtTop(u)'
<1>1. /\ AtTop(s) /\ head' = Plus(writer[s].off, EntryLength(s)) /\ writer'[s].pc = "store_len"
  BY GivesBack
<1>2. /\ Holding(s) /\ O[s] \in Nat /\ O[s] + MaxEntry = H /\ B <= O[s]
      /\ writer[s].off = Wrap(O[s]) /\ Held(s) = MaxEntry
  BY <1>1, TopIs, Zenon
<1>3. EntryLength(s) \in Nat /\ EntryLength(s) <= MaxEntry /\ 0 < EntryLength(s)
  BY CallTyped, Bytes, Sizes DEF Header
<1>4. head' = Wrap(O[s] + EntryLength(s))
  BY <1>1, <1>2, <1>3, WrapPlus
<1>5. ASSUME NEW u \in Process, AtTop(u)' PROVE FALSE
  <2>1. u # s
    BY <1>1, <1>5 DEF AtTop, Filled, Filling
  <2>2. Filled(u) /\ head' = Plus(writer[u].off, MaxEntry)
    BY <1>5, <2>1 DEF AtTop, Filled
  <2>3. Holding(u) /\ Held(u) = MaxEntry
    BY <2>2 DEF Filled, Holding, Held, Filling, Shrunk
  <2>4. writer[u].off = Wrap(O[u]) /\ O[u] \in Nat /\ B <= O[u]
    BY <2>3 DEF View, CallsAgree
  <2>5. O[u] + MaxEntry <= O[s]
    BY <1>2, <2>1, <2>3, BelowTop, Zenon
  <2>6. Plus(Wrap(O[u]), MaxEntry) = Wrap(O[u] + MaxEntry)
    BY <2>4, Sizes, WrapPlus
  <2>7. H - T <= Size /\ T <= B
    BY DEF View, Agree
  <2> DEFINE a == O[s] + EntryLength(s)
             b == O[u] + MaxEntry
  <2>8. a \in Int /\ b \in Int /\ a - b < OffMod /\ b - a < OffMod /\ b < a
    BY <1>2, <1>3, <2>4, <2>5, <2>7, Sizes
  <2>9. Wrap(a) = Wrap(b)
    BY <1>4, <2>2, <2>4, <2>6
  <2> HIDE DEF a, b
  <2>10. QED
    BY <2>8, <2>9, WrapSame
<1>6. QED
  BY <1>5

(* What was reserved again stays reserved or published, whoever moves      *)
(* head.                                                                   *)
LEMMA OverwrittenKept ==
  ASSUME TypeOK, TypeOK', Roomy, NEW H \in Nat, NEW T \in Nat, NEW B \in Nat, NEW M \in SUBSET Nat,
         NEW O \in [Process -> Nat], NEW D \in [Process -> Nat], View(H, T, B, M, O, D),
         NEW s \in Process, RingMoves(s), CallMoves(s),
         NEW t \in Process, t # s, Freeing(t), Overwritten(t)
  PROVE  Overwritten(t)'
<1>1. writer'[t] = writer[t] /\ \A u \in Process : u # s => writer'[u] = writer[u]
  BY DEF CallMoves
<1>2. CASE Taken(s)
  <2>1. /\ head' = Wrap(H + MaxEntry) /\ writer'[s].off = Wrap(H)
        /\ writer'[s].msg = writer[s].msg
        /\ \A u \in Process : AtTop(u)' => u = s
    BY <1>1, <1>2, TakenTop, Zenon
  <2>2. D[t] \in Nat /\ D[t] <= T /\ T <= B /\ B <= H
    BY LoadedTail, Zenon
  <2>3. H - D[t] > Size
    BY Distances DEF Overwritten, Past
  <2>4. EntryLength(s) \in Nat /\ EntryLength(s) <= MaxEntry /\ EntryLength(s)' = EntryLength(s)
    BY <2>1, CallTyped, Bytes, Sizes DEF Header, EntryLength
  <2> DEFINE a == H + MaxEntry
             b == H + EntryLength(s)
  <2>5. a \in Nat /\ b \in Nat /\ D[t] <= a /\ D[t] <= b /\ a <= H + MaxEntry /\ b <= H + MaxEntry
        /\ a - D[t] > Size /\ b - D[t] > Size
    BY <2>2, <2>3, <2>4, Sizes
  <2>6. Plus(writer'[s].off, EntryLength(s)') = Wrap(b)
    BY <2>1, <2>4, WrapPlus
  <2>7. head' = Wrap(a)
    BY <2>1
  <2> HIDE DEF a, b
  <2>8. Minus(Wrap(a), writer[t].old) = a - D[t] /\ Minus(Wrap(b), writer[t].old) = b - D[t]
    BY <2>5, DistanceFrom, SMTT(30)
  <2>9. Past(t)'
    BY <1>1, <2>5, <2>7, <2>8 DEF Past
  <2>10. Minus(Plus(writer'[s].off, EntryLength(s)'), writer'[t].old) > Size
    BY <1>1, <2>5, <2>6, <2>8
  <2>11. QED
    BY <2>1, <2>9, <2>10 DEF Overwritten
<1>3. CASE GivenBack(s)
  <2>1. /\ AtTop(s) /\ head' = Plus(writer[s].off, EntryLength(s))
        /\ \A u \in Process : ~AtTop(u)'
    BY <1>1, <1>3, GivesBack, GivenBackTop
  <2>2. QED
    BY <1>1, <2>1 DEF Overwritten, Past
<1>4. CASE ~Taken(s) /\ ~GivenBack(s)
  <2>1. head' = head
    BY <1>4 DEF RingMoves
  <2>2. ASSUME NEW u \in Process, AtTop(u)'
        PROVE  AtTop(u) /\ writer'[u].off = writer[u].off /\ EntryLength(u)' = EntryLength(u)
    <3>1. CASE u = s
      BY <1>4, <2>1, <2>2, <3>1 DEF CallMoves, AtTop, EntryLength, Filled
    <3>2. CASE u # s
      BY <1>1, <2>1, <2>2, <3>2 DEF AtTop, EntryLength, Filled
    <3>3. QED
      BY <3>1, <3>2
  <2>3. Past(t)'
    BY <1>1, <2>1 DEF Overwritten, Past
  <2>4. QED
    BY <1>1, <2>2, <2>3 DEF Overwritten
<1>5. QED
  BY <1>2, <1>3, <1>4

(* Genuine is kept by every step of a call.                                *)
LEMMA GenuineKept ==
  ASSUME TypeOK, TypeOK', Roomy, NEW H \in Nat, NEW T \in Nat, NEW B \in Nat, NEW M \in SUBSET Nat,
         NEW O \in [Process -> Nat], NEW D \in [Process -> Nat], View(H, T, B, M, O, D),
         NEW s \in Process, log_vwrite(s), RingMoves(s), CallMoves(s), Genuine, Spaced
  PROVE  Genuine'
<1> SUFFICES ASSUME NEW t \in Process, writer'[t].pc = "length", ~stomped', ~Overwritten(t)'
             PROVE  mem'[Cell(writer'[t].old + 1)] \in Header..MaxEntry
  BY DEF Genuine, LengthAt
<1>1. ~stomped
  BY DEF RingMoves
<1>2. CASE t = s
  <2>1. LoadTail(s)
    BY <1>2 DEF CallMoves
  <2>2. s \in Deciders /\ writer'[s].old = tail /\ mem' = mem
    BY <2>1 DEF LoadTail, At, Deciders, TypeOK
  <2>3. PICK n \in Header + 1..MaxEntry : Reads(tail, n)
    BY <2>2, TailEntry
  <2>4. mem[Cell(tail + 1)] = n
    BY <1>1, <2>3 DEF Reads, LengthAt
  <2>5. QED
    BY <1>2, <2>2, <2>3, <2>4 DEF Header
<1>3. CASE t # s
  <2>1. writer'[t] = writer[t] /\ writer[t].pc = "length" /\ Freeing(t)
    BY <1>3 DEF CallMoves, Freeing
  <2>2. ~Overwritten(t)
    BY <1>3, <2>1, OverwrittenKept
  <2>3. mem[Cell(writer[t].old + 1)] \in Header..MaxEntry
    BY <1>1, <2>1, <2>2 DEF Genuine, LengthAt
  <2>4. Cell(writer[t].old + 1) \in 0..Size - 1
    BY CallTyped, Offsets, Ranges
  <2>5. ASSUME Holding(s)
        PROVE  Cell(writer[t].old + 1) \notin CellsOf(writer[s].off, EntryLength(s))
    <3>1. Cell(writer[t].old + 1) \notin CellsOf(O[s], EntryLength(s))
      BY <2>1, <2>2, <2>5, OutOfReach
    <3>2. writer[s].off = Wrap(O[s]) /\ O[s] \in Int /\ EntryLength(s) \in Int
      BY <2>5, CallTyped, Bytes DEF View, CallsAgree
    <3>3. CellsOf(writer[s].off, EntryLength(s)) = CellsOf(O[s], EntryLength(s))
      BY <3>2, CellsWrap
    <3>4. QED
      BY <3>1, <3>3
  <2>6. ASSUME MarkInvalid(s) PROVE Cell(writer[s].old) # Cell(writer[t].old + 1)
    BY <2>1, <2>6 DEF Spaced, MarkInvalid, At, Freeing
  <2>7. mem'[Cell(writer[t].old + 1)] = mem[Cell(writer[t].old + 1)]
    BY <2>4, <2>5, <2>6, ByteStep DEF StoresWithin
  <2>8. QED
    BY <2>1, <2>3, <2>7
<1>4. QED
  BY <1>2, <1>3

(* Behind is kept: tail moves by an entry at least.                        *)
LEMMA BehindKept ==
  ASSUME TypeOK, TypeOK', Roomy, NEW H \in Nat, NEW T \in Nat, NEW B \in Nat, NEW M \in SUBSET Nat,
         NEW O \in [Process -> Nat], NEW D \in [Process -> Nat], View(H, T, B, M, O, D),
         NEW s \in Process, log_vwrite(s), RingMoves(s), CallMoves(s), Behind
  PROVE  Behind'
<1> SUFFICES ASSUME NEW t \in Process, Freeing(t)'
             PROVE  writer'[t].old = tail' \/ Minus(tail', writer'[t].old) > Header
  BY DEF Behind
<1>1. CASE t = s /\ LoadTail(s)
  BY <1>1 DEF LoadTail, TypeOK
<1>2. CASE ~(t = s /\ LoadTail(s))
  <2>1. Freeing(t) /\ writer'[t].old = writer[t].old
    BY <1>2 DEF CallMoves, Freeing
  <2>2. CASE tail' = tail
    BY <2>1, <2>2 DEF Behind
  <2>3. CASE tail' # tail
    <3>1. /\ Freed(s) /\ writer[s].pc = "cas_tail" /\ tail = writer[s].old
          /\ tail' = Plus(tail, writer[s].length)
      BY <2>3 DEF RingMoves, Freed, MoveTail, At
    <3>2. Freeing(s) /\ s \in Deciders
      BY <3>1 DEF Freeing, Deciders
    <3>3. /\ writer[s].old = Wrap(D[s]) /\ D[s] \in Nat /\ D[s] <= T /\ B <= D[s] + Size
          /\ T <= B /\ B <= H /\ H - T <= Size /\ T - D[s] <= Size
          /\ H + MaxEntry - D[s] < OffMod
      BY <3>2, LoadedTail, Zenon
    <3>4. PICK n \in Header + 1..MaxEntry : Adjacent(M, T, T + n)
      BY <3>2, TailEntry
    <3>5. tail = Wrap(T)
      BY DEF View, Agree
    <3>6. D[s] = T
      <4>1. T \in Int /\ D[s] \in Int /\ T - D[s] < OffMod /\ D[s] - T < OffMod
            /\ Wrap(T) = Wrap(D[s])
        BY <3>1, <3>3, <3>5, Sizes
      <4>2. QED
        BY <4>1, WrapSame
    <3>7. writer[s].length \in Nat /\ tail' = Wrap(T + writer[s].length)
      <4>1. writer[s].length \in Nat
        BY CallTyped, Zenon
      <4>2. Plus(Wrap(T), writer[s].length) = Wrap(T + writer[s].length)
        BY <4>1, WrapPlus
      <4>3. QED
        BY <3>1, <3>5, <4>1, <4>2, Zenon
    <3>8. writer[s].length # 0
      <4>1. T + 0 = T
        OBVIOUS
      <4>2. QED
        BY <2>3, <3>5, <3>7, <4>1
    <3>9. Adjacent(M, T, T + writer[s].length)
      BY <3>1, <3>6, <3>8 DEF View, FreesOne
    <3>10. writer[s].length = n
      BY <3>4, <3>7, <3>9 DEF Adjacent, Header
    <3>11. /\ writer[t].old = Wrap(D[t]) /\ D[t] \in Nat /\ D[t] <= T /\ B <= D[t] + Size
           /\ T <= B /\ B <= H /\ H - T <= Size /\ T - D[t] <= Size
           /\ H + MaxEntry - D[t] < OffMod
      BY <2>1, LoadedTail, Zenon
    <3> DEFINE x == T + writer[s].length
    <3>12. x \in Nat /\ D[t] <= x /\ x <= H + MaxEntry /\ x - D[t] > Header
      BY <3>4, <3>7, <3>10, <3>11, Sizes DEF Header
    <3>13. tail' = Wrap(x)
      BY <3>7
    <3> HIDE DEF x
    <3>14. Minus(Wrap(x), writer[t].old) = x - D[t]
      <4>1. x \in Int /\ D[t] \in Int /\ D[t] <= x /\ x - D[t] < OffMod
        BY <3>11, <3>12, Sizes
      <4>2. QED
        BY <3>11, <4>1, WrapMinus
    <3>15. QED
      BY <2>1, <3>12, <3>13, <3>14
  <2>4. QED
    BY <2>2, <2>3
<1>3. QED
  BY <1>1, <1>2

(* Spaced is kept: a tail that is loaded is an entry or more beyond those  *)
(* loaded before, and less than a buffer.                                  *)
LEMMA SpacedKept ==
  ASSUME TypeOK, TypeOK', Roomy, NEW H \in Nat, NEW T \in Nat, NEW B \in Nat, NEW M \in SUBSET Nat,
         NEW O \in [Process -> Nat], NEW D \in [Process -> Nat], View(H, T, B, M, O, D),
         NEW s \in Process, log_vwrite(s), RingMoves(s), CallMoves(s), Behind, Spaced
  PROVE  Spaced'
<1> SUFFICES ASSUME NEW t \in Process, NEW u \in Process, Freeing(t)', Freeing(u)',
                    Cell(writer'[u].old) = Cell(writer'[t].old + 1)
             PROVE  FALSE
  BY DEF Spaced
<1>1. ASSUME NEW v \in Process, Freeing(v)', ~(v = s /\ LoadTail(s))
      PROVE  Freeing(v) /\ writer'[v].old = writer[v].old
  BY <1>1 DEF CallMoves, Freeing
<1>2. CASE ~LoadTail(s)
  BY <1>1, <1>2 DEF Spaced
<1>3. CASE LoadTail(s)
  <2>1. writer'[s].old = tail /\ s \in Deciders
    BY <1>3 DEF LoadTail, At, Deciders, TypeOK
  <2>2. tail = Wrap(T) /\ T + MaxEntry <= B /\ B <= H
    BY <2>1, TailEntry
  <2>3. Cell(tail) = Cell(T) /\ Cell(tail + 1) = Cell(T + 1)
    BY <2>2, WrapCell, WrapCell0
  <2>4. T \in Int /\ T + 1 \in Int /\ 1 < Size /\ T + 1 # T
    BY Sizes
  <2>5. CASE t # s /\ u # s
    BY <1>1, <2>5 DEF Spaced
  <2>6. CASE t = s /\ u = s
    <3> DEFINE b == T + 1
    <3>1. b \in Int /\ b # T /\ b - T < Size /\ T - b < Size
      BY <2>4, Sizes
    <3>2. Cell(T) = Cell(b)
      BY <2>1, <2>3, <2>6
    <3> HIDE DEF b
    <3>3. QED
      BY <2>4, <3>1, <3>2, CellSame
  <2>7. CASE t = s /\ u # s
    <3>1. Freeing(u) /\ writer'[u].old = writer[u].old
      BY <1>1, <2>7
    <3>2. /\ writer[u].old = Wrap(D[u]) /\ D[u] \in Nat /\ D[u] <= T /\ B <= D[u] + Size
          /\ T <= B /\ B <= H /\ H - T <= Size /\ T - D[u] <= Size
          /\ H + MaxEntry - D[u] < OffMod
      BY <3>1, LoadedTail, Zenon
    <3>3. Cell(D[u]) = Cell(T + 1)
      BY <2>1, <2>3, <2>7, <3>1, <3>2, WrapCell0
    <3>4. (T + 1) - D[u] < Size /\ D[u] - (T + 1) < Size /\ D[u] \in Int /\ D[u] # T + 1
      BY <2>2, <3>2, Sizes
    <3>5. QED
      BY <2>4, <3>3, <3>4, CellSame
  <2>8. CASE t # s /\ u = s
    <3>1. Freeing(t) /\ writer'[t].old = writer[t].old
      BY <1>1, <2>8
    <3>2. /\ writer[t].old = Wrap(D[t]) /\ D[t] \in Nat /\ D[t] <= T /\ B <= D[t] + Size
          /\ T <= B /\ B <= H /\ H - T <= Size /\ T - D[t] <= Size
          /\ H + MaxEntry - D[t] < OffMod
      BY <3>1, LoadedTail, Zenon
    <3>3. Cell(T) = Cell(D[t] + 1)
      <4>1. D[t] \in Int /\ 1 \in Int
        BY <3>2
      <4>2. Cell(Wrap(D[t]) + 1) = Cell(D[t] + 1)
        BY <4>1, WrapCell
      <4>3. QED
        BY <2>1, <2>3, <2>8, <3>1, <3>2, <4>2
    <3>4. D[t] = T \/ T - D[t] > Header
      <4>1. CASE writer[t].old = tail
        <5>1. T - D[t] < OffMod /\ D[t] - T < OffMod /\ D[t] \in Int /\ Wrap(T) = Wrap(D[t])
          BY <2>2, <3>2, <4>1, Sizes
        <5>2. QED
          BY <2>4, <5>1, WrapSame
      <4>2. CASE Minus(tail, writer[t].old) > Header
        <5>1. T \in Int /\ D[t] \in Int /\ D[t] <= T /\ T - D[t] < OffMod
          BY <2>4, <3>2, Sizes
        <5>2. Minus(Wrap(T), Wrap(D[t])) = T - D[t]
          BY <5>1, WrapMinus
        <5>3. QED
          BY <2>2, <3>2, <4>2, <5>2
      <4>3. QED
        BY <3>1, <4>1, <4>2 DEF Behind
    <3> DEFINE b == D[t] + 1
    <3>5. T - b < Size /\ b - T < Size /\ b \in Int /\ T # b
      BY <2>4, <3>2, <3>4, Sizes DEF Header
    <3>6. Cell(T) = Cell(b)
      BY <3>3
    <3> HIDE DEF b
    <3>7. QED
      BY <2>4, <3>5, <3>6, CellSame
  <2>9. QED
    BY <2>5, <2>6, <2>7, <2>8
<1>4. QED
  BY <1>2, <1>3

----------------------------------------------------------------------------
(* The errors that are counted                                             *)

(* The threads in a call, or stopped by one.                               *)
Busy == {t \in Writers : writer[t].pc # "idle"}

(* How many entries other threads may still reserve before the ring is at  *)
(* rest.                                                                   *)
Others(t) == Cardinality(Firsts \ {t, Handler}) + Cardinality(Seconds \ {t, Handler})

(* What the call is about to read was reserved again, which may cost it an *)
(* error.                                                                  *)
Paid(t) == IF writer[t].pc = "length" /\ Past(t) THEN 1 ELSE 0

(* There is at most one more of them than calls overlapped since the ring  *)
(* was at rest.                                                            *)
FewBusy == Cardinality(Busy) <= overlaps + 1

(* Each error of a call is paid for by an entry that another call reserved *)
(* since the ring was last at rest, and a call that overlaps reserves two  *)
(* at most.                                                                *)
Charged ==
  ~fatal /\ ~stomped =>
    \A t \in Busy : writer[t].errors + Paid(t) + Others(t) <= 2 * overlaps

(* What is counted are numbers,                                            *)
LEMMA OthersTyped ==
  ASSUME TypeOK, NEW t \in Process
  PROVE  Others(t) \in Nat /\ Paid(t) \in 0..1
         /\ writer[t].errors \in 0..3 /\ writer[t].errors \in Nat
<1>1. Firsts \ {t, Handler} \subseteq Process /\ Seconds \ {t, Handler} \subseteq Process
  BY LeftTyped
<1>2. Cardinality(Firsts \ {t, Handler}) \in Nat /\ Cardinality(Seconds \ {t, Handler}) \in Nat
  BY <1>1, Few
<1>3. writer[t].errors \in 0..3
  BY CallTyped
<1>4. QED
  BY <1>2, <1>3 DEF Others, Paid

(* and so after the step.                                                  *)
LEMMA OthersTypedNext ==
  ASSUME TypeOK', NEW t \in Process
  PROVE  /\ Others(t)' \in Nat /\ Paid(t)' \in 0..1 /\ writer'[t].errors \in 0..3
         /\ writer'[t].errors \in Nat
<1>1. Firsts' \ {t, Handler} \subseteq Process /\ Seconds' \ {t, Handler} \subseteq Process
  BY LeftTypedNext
<1>2. Cardinality(Firsts' \ {t, Handler}) \in Nat /\ Cardinality(Seconds' \ {t, Handler}) \in Nat
  BY <1>1, Few
<1>3. writer'[t].errors \in 0..3
  <2>1. writer' \in [Process -> Call]
    BY DEF TypeOK, Call
  <2>2. QED
    BY <2>1 DEF Call
<1>4. QED
  BY <1>2, <1>3 DEF Others, Paid

(* No step of a call adds to those that may still reserve.                 *)
LEMMA FewerLeft ==
  ASSUME NEW s \in Process, CallMoves(s), fatal' = fatal
  PROVE  Firsts' \subseteq Firsts /\ Seconds' \subseteq Seconds
<1>1. ASSUME NEW u \in Process, u # s
      PROVE  (u \in Firsts' => u \in Firsts) /\ (u \in Seconds' => u \in Seconds)
  BY <1>1 DEF CallMoves, Firsts, Seconds
<1>2. Firsts' \subseteq Process /\ Seconds' \subseteq Process
  BY DEF Firsts, Seconds
<1>3. QED
  BY <1>1, <1>2 DEF CallMoves

(* No step of a call lets the others reserve more,                         *)
LEMMA OthersStep ==
  ASSUME TypeOK, NEW s \in Process, CallMoves(s), fatal' = fatal, NEW t \in Process
  PROVE  Others(t)' <= Others(t)
<1>1. Firsts' \subseteq Firsts /\ Seconds' \subseteq Seconds
  BY FewerLeft
<1>2. /\ Firsts' \ {t, Handler} \subseteq Firsts \ {t, Handler}
      /\ Seconds' \ {t, Handler} \subseteq Seconds \ {t, Handler}
      /\ Firsts \ {t, Handler} \subseteq Process /\ Seconds \ {t, Handler} \subseteq Process
      /\ Firsts' \ {t, Handler} \subseteq Process /\ Seconds' \ {t, Handler} \subseteq Process
  BY <1>1, LeftTyped
<1>3. /\ Cardinality(Firsts' \ {t, Handler}) <= Cardinality(Firsts \ {t, Handler})
      /\ Cardinality(Seconds' \ {t, Handler}) <= Cardinality(Seconds \ {t, Handler})
      /\ Cardinality(Firsts' \ {t, Handler}) \in Nat /\ Cardinality(Firsts \ {t, Handler}) \in Nat
      /\ Cardinality(Seconds' \ {t, Handler}) \in Nat /\ Cardinality(Seconds \ {t, Handler}) \in Nat
  BY <1>2, Few
<1>4. QED
  BY <1>3 DEF Others

(* and one that reserves leaves the others one less.                       *)
LEMMA OthersTaken ==
  ASSUME TypeOK, NEW s \in Writers, CallMoves(s), Taken(s), fatal' = fatal, NEW t \in Process, t # s
  PROVE  Others(t)' + 1 <= Others(t)
<1>1. Firsts' \subseteq Firsts /\ Seconds' \subseteq Seconds /\ s \in Process /\ s # Handler
  BY FewerLeft, LogRingAssumption DEF Process
<1> DEFINE F == Firsts \ {t, Handler}
           G == Firsts' \ {t, Handler}
           P == Seconds \ {t, Handler}
           Q == Seconds' \ {t, Handler}
<1>2. /\ G \subseteq F /\ Q \subseteq P
      /\ F \subseteq Process /\ P \subseteq Process /\ G \subseteq Process /\ Q \subseteq Process
      /\ F \ {s} \subseteq Process /\ P \ {s} \subseteq Process
  BY <1>1, LeftTyped
<1>3. /\ writer[s].pc = "cas_head" /\ writer'[s].pc = "type"
      /\ writer'[s].second = writer[s].second
  BY <1>1 DEF Taken, MoveHead, Goto, At, TypeOK
<1>4. (s \in F /\ G \subseteq F \ {s}) \/ (s \in P /\ Q \subseteq P \ {s})
  <2>1. CASE ~writer[s].second
    <3>1. s \in Firsts /\ s \notin Firsts'
      BY <1>1, <1>3, <2>1 DEF Firsts, Acquiring
    <3>2. QED
      BY <1>1, <1>2, <3>1
  <2>2. CASE writer[s].second
    <3>1. s \in Seconds /\ s \notin Seconds'
      BY <1>1, <1>3, <2>2 DEF Seconds, Acquiring
    <3>2. QED
      BY <1>1, <1>2, <3>1
  <2>3. QED
    BY <2>1, <2>2
<1>5. /\ Cardinality(F) \in Nat /\ Cardinality(G) \in Nat /\ Cardinality(P) \in Nat
      /\ Cardinality(Q) \in Nat /\ IsFiniteSet(F) /\ IsFiniteSet(P)
      /\ Cardinality(G) <= Cardinality(F) /\ Cardinality(Q) <= Cardinality(P)
  BY <1>2, Few
<1>6. /\ G \subseteq F \ {s} => Cardinality(G) <= Cardinality(F \ {s})
      /\ Q \subseteq P \ {s} => Cardinality(Q) <= Cardinality(P \ {s})
  BY <1>2, Few
<1>7. /\ s \in F => Cardinality(F \ {s}) = Cardinality(F) - 1
      /\ s \in P => Cardinality(P \ {s}) = Cardinality(P) - 1
  BY <1>5, FS_RemoveElement
<1>8. Others(t) = Cardinality(F) + Cardinality(P) /\ Others(t)' = Cardinality(G) + Cardinality(Q)
  BY DEF Others
<1> HIDE DEF F, G, P, Q
<1>9. QED
  BY <1>4, <1>5, <1>6, <1>7, <1>8

(* An impossible length counts one error, the length of an entry none, and *)
(* a call fails with three (lines 101 to 112).                             *)
LEMMA LengthRead ==
  ASSUME TypeOK, NEW s \in Process, LoadLength(s)
  PROVE  /\ writer[s].pc = "length" /\ writer'[s].pc # "length"
         /\ writer'[s].pc = "failed" => writer'[s].errors = 3
         /\ writer'[s].errors <= writer[s].errors + 1
         /\ LengthAt(writer[s].old) \in Header..MaxEntry => writer'[s].errors <= writer[s].errors
<1> DEFINE len == LengthAt(writer[s].old)
           n == writer[s].errors + IF len \in Header..MaxEntry THEN 0 ELSE 1
<1>1. writer \in [Process -> Call] /\ writer[s].errors \in 0..3
  BY CallTyped DEF TypeOK, Call
<1>2. /\ n \in 0..4 /\ n <= writer[s].errors + 1
      /\ len \in Header..MaxEntry => n = writer[s].errors
  BY <1>1
<1>3. writer[s].pc = "length"
      /\ writer' = [writer EXCEPT
          ![s] = IF n >= 3
                 THEN [@ EXCEPT !.pc = "failed", !.old = 0, !.errors = 3]
                 ELSE [@ EXCEPT !.pc = "cas_tail", !.length = len, !.errors = n]]
  BY DEF LoadLength, At
<1> HIDE DEF len, n
<1>4. CASE n >= 3
  <2>1. writer'[s].pc = "failed" /\ writer'[s].errors = 3
    BY <1>1, <1>3, <1>4 DEF Call
  <2>2. QED
    BY <1>1, <1>2, <1>3, <1>4, <2>1 DEF len
<1>5. CASE ~(n >= 3)
  <2>1. writer'[s].pc = "cas_tail" /\ writer'[s].errors = n
    BY <1>1, <1>3, <1>5 DEF Call
  <2>2. QED
    BY <1>1, <1>2, <1>3, <1>5, <2>1 DEF len
<1>6. QED
  BY <1>4, <1>5

(* Only a reservation brings head more than a buffer ahead of a tail.      *)
LEMMA PastStep ==
  ASSUME TypeOK, Roomy, NEW H \in Nat, NEW T \in Nat, NEW B \in Nat, NEW M \in SUBSET Nat,
         NEW O \in [Process -> Nat], NEW D \in [Process -> Nat], View(H, T, B, M, O, D),
         NEW s \in Process, RingMoves(s), CallMoves(s), ~Taken(s),
         NEW t \in Process, t # s, Freeing(t), Past(t)'
  PROVE  Past(t)
<1>1. writer'[t] = writer[t] /\ \A u \in Process : u # s => writer'[u] = writer[u]
  BY DEF CallMoves
<1>2. CASE head' = head
  BY <1>1, <1>2 DEF Past
<1>3. CASE GivenBack(s)
  <2>1. AtTop(s) /\ head' = Plus(writer[s].off, EntryLength(s))
    BY <1>3, GivesBack
  <2>10. /\ Holding(s) /\ O[s] \in Nat /\ O[s] + MaxEntry = H /\ B <= O[s]
         /\ writer[s].off = Wrap(O[s]) /\ Held(s) = MaxEntry
    BY <2>1, TopIs, Zenon
  <2>2. EntryLength(s) \in Nat /\ EntryLength(s) <= MaxEntry
    BY CallTyped, Bytes, Sizes DEF Header
  <2>3. D[t] \in Nat /\ D[t] <= T /\ T <= B /\ B <= H
    BY LoadedTail, Zenon
  <2> DEFINE b == O[s] + EntryLength(s)
  <2>4. b \in Nat /\ D[t] <= b /\ b <= H + MaxEntry /\ b <= H
    BY <2>10, <2>2, <2>3, Sizes
  <2>5. head' = Wrap(b)
    BY <2>1, <2>2, <2>10, WrapPlus
  <2> HIDE DEF b
  <2>6. Minus(Wrap(b), writer[t].old) = b - D[t]
    BY <2>4, DistanceFrom, SMTT(30)
  <2>7. b - D[t] > Size
    BY <1>1, <2>5, <2>6 DEF Past
  <2>8. Minus(head, writer[t].old) = H - D[t]
    BY Distances
  <2>9. QED
    BY <2>3, <2>4, <2>7, <2>8, Sizes DEF Past
<1>4. QED
  BY <1>2, <1>3 DEF RingMoves

(* A step costs a call nothing new, unless another call reserves by it.    *)
LEMMA ChargeStep ==
  ASSUME TypeOK, TypeOK', Roomy, NEW H \in Nat, NEW T \in Nat, NEW B \in Nat, NEW M \in SUBSET Nat,
         NEW O \in [Process -> Nat], NEW D \in [Process -> Nat], View(H, T, B, M, O, D),
         NEW s \in Process, log_vwrite(s), RingMoves(s), CallMoves(s), Genuine,
         ~stomped, NEW t \in Process
  PROVE  \/ writer'[t].errors + Paid(t)' <= writer[t].errors + Paid(t)
         \/ Taken(s) /\ t # s /\ writer'[t].errors + Paid(t)' <= writer[t].errors + Paid(t) + 1
<1>1. /\ writer[t].errors \in Nat /\ Paid(t) \in 0..1
      /\ writer'[t].errors \in Nat /\ Paid(t)' \in 0..1
  BY OthersTyped, OthersTypedNext
<1>2. CASE t # s
  <2>1. writer'[t] = writer[t]
    BY <1>2 DEF CallMoves
  <2>2. CASE Taken(s)
    BY <1>1, <1>2, <2>1, <2>2
  <2>3. CASE ~Taken(s)
    <3>1. Paid(t)' = 1 => Paid(t) = 1
      BY <1>2, <2>1, <2>3, PastStep DEF Paid, Freeing
    <3>2. QED
      BY <1>1, <2>1, <3>1
  <2>4. QED
    BY <2>2, <2>3
<1>3. CASE t = s
  <2>1. CASE LoadLength(s)
    <3>1. /\ writer[s].pc = "length" /\ writer'[s].pc # "length"
          /\ writer'[s].errors <= writer[s].errors + 1
          /\ LengthAt(writer[s].old) \in Header..MaxEntry => writer'[s].errors <= writer[s].errors
      BY <2>1, LengthRead
    <3>2. Paid(s)' = 0
      BY <3>1 DEF Paid
    <3>3. LengthAt(writer[s].old) \in Header..MaxEntry \/ Paid(s) = 1
      BY <3>1 DEF Genuine, Overwritten, Paid
    <3>4. QED
      BY <1>1, <1>3, <3>1, <3>2, <3>3
  <2>2. CASE LoadTail(s)
    <3>1. /\ writer[s].pc = "tail" /\ writer'[s].old = tail /\ writer'[s].errors = writer[s].errors
          /\ head' = head
      BY <2>2 DEF LoadTail, At, TypeOK
    <3>2. head = Wrap(H) /\ tail = Wrap(T) /\ T <= H /\ H - T <= Size
      BY DEF View, Agree
    <3>3. Minus(Wrap(H), Wrap(T)) = H - T
      BY <3>2, Sizes, WrapMinus
    <3>4. ~Past(s)'
      BY <3>1, <3>2, <3>3, Sizes DEF Past
    <3>5. Paid(s)' = 0
      BY <3>4 DEF Paid
    <3>6. QED
      BY <1>1, <1>3, <3>1, <3>5
  <2>3. CASE ~LoadLength(s) /\ ~LoadTail(s)
    <3>1. writer'[s].pc # "length" /\ writer'[s].errors <= writer[s].errors
      BY <2>3 DEF CallMoves
    <3>2. Paid(s)' = 0
      BY <3>1 DEF Paid
    <3>3. QED
      BY <1>1, <1>3, <3>1, <3>2
  <2>4. QED
    BY <2>1, <2>2, <2>3
<1>4. QED
  BY <1>2, <1>3

(* Charged is kept by every step of a call.                                *)
LEMMA ChargedCall ==
  ASSUME TypeOK, TypeOK', Roomy, NEW H \in Nat, NEW T \in Nat, NEW B \in Nat, NEW M \in SUBSET Nat,
         NEW O \in [Process -> Nat], NEW D \in [Process -> Nat], View(H, T, B, M, O, D),
         NEW s \in Process, log_vwrite(s), RingMoves(s), CallMoves(s), Genuine, Charged
  PROVE  Charged'
<1> SUFFICES ASSUME ~fatal', ~stomped', NEW t \in Busy'
             PROVE  writer'[t].errors + Paid(t)' + Others(t)' <= 2 * overlaps'
  BY DEF Charged
<1>1. ~fatal /\ ~stomped /\ fatal' = fatal /\ overlaps' = overlaps /\ overlaps \in Nat
  BY LeftTyped DEF RingMoves
<1>2. s \in Writers /\ t \in Writers /\ t \in Process
  BY <1>1 DEF CallMoves, Runs, Busy, Process
<1>3. t \in Busy
  <2>1. CASE t = s
    BY <1>2, <2>1 DEF Busy, log_vwrite, log_acquire_space, LoadHead,
       CheckSpace, LoadTail, LoadLength,
                MoveTail, MarkInvalid, MoveHead, StoreInvalid, StoreLength, PublishPadding,
                StoreMessage, Shrink, StoreShortLength, Commit, At
  <2>2. CASE t # s
    BY <1>2, <2>2 DEF Busy, CallMoves
  <2>3. QED
    BY <2>1, <2>2
<1>4. writer[t].errors + Paid(t) + Others(t) <= 2 * overlaps
  BY <1>1, <1>3 DEF Charged
<1>5. /\ writer[t].errors \in Nat /\ Paid(t) \in 0..1 /\ Others(t) \in Nat
      /\ writer'[t].errors \in Nat /\ Paid(t)' \in 0..1 /\ Others(t)' \in Nat
  BY <1>2, OthersTyped, OthersTypedNext
<1>6. \/ writer'[t].errors + Paid(t)' <= writer[t].errors + Paid(t)
      \/ Taken(s) /\ t # s /\ writer'[t].errors + Paid(t)' <= writer[t].errors + Paid(t) + 1
  BY <1>1, <1>2, ChargeStep
<1>7. Others(t)' <= Others(t)
  BY <1>1, <1>2, OthersStep
<1>8. Taken(s) /\ t # s => Others(t)' + 1 <= Others(t)
  BY <1>1, <1>2, OthersTaken
<1>9. QED
  BY <1>1, <1>4, <1>5, <1>6, <1>7, <1>8

(* What is known, beside the view, of the lengths read and the errors      *)
(* counted.                                                                *)
Accounted == Trusted /\ FewBusy /\ Charged /\ NoCallFails

(* The threads are finitely many processes.                                *)
LEMMA FewWriters ==
  /\ Writers \subseteq Process /\ IsFiniteSet(Writers)
  /\ \A S \in SUBSET Writers : S \in SUBSET Process
BY LogRingAssumption DEF Process

(* A call that begins has loaded nothing yet.                              *)
LEMMA TrustedSame ==
  ASSUME Trusted, UNCHANGED <<mem, head, tail, stomped>>,
         \A u \in Process : writer'[u] = writer[u] \/ writer'[u].pc = "load"
  PROVE  Trusted'
<1>1. \A u \in Process : Freeing(u)' => Freeing(u) /\ writer'[u] = writer[u]
  BY DEF Freeing
<1>2. \A u \in Process : AtTop(u)' => AtTop(u) /\ writer'[u] = writer[u]
  BY DEF AtTop, Filled, Filling
<1>3. Behind' /\ Spaced'
  BY <1>1 DEF Trusted, Behind, Spaced
<1>4. ASSUME NEW t \in Process, writer'[t].pc = "length"
      PROVE  (LengthAt(writer[t].old) \in Header..MaxEntry \/ stomped \/ Overwritten(t))'
  <2>1. writer'[t] = writer[t] /\ writer[t].pc = "length"
    BY <1>4
  <2>2. CASE LengthAt(writer[t].old) \in Header..MaxEntry \/ stomped
    BY <2>1, <2>2 DEF LengthAt
  <2>3. CASE Overwritten(t)
    <3>1. Past(t)'
      BY <2>1, <2>3 DEF Overwritten, Past
    <3>2. Overwritten(t)'
      BY <1>2, <2>1, <2>3, <3>1 DEF Overwritten, EntryLength
    <3>3. QED
      BY <3>2
  <2>4. QED
    BY <2>1, <2>2, <2>3 DEF Trusted, Genuine
<1>5. Genuine'
  BY <1>4 DEF Genuine
<1>6. QED
  BY <1>3, <1>5 DEF Trusted

(* A call that begins is charged to the ones that overlap with it.         *)
LEMMA BeginsAccounted ==
  ASSUME TypeOK, TypeOK', NEW s \in Writers, log_write(s), Accounted
  PROVE  Accounted'
<1>1. /\ s \in Process /\ s # Handler /\ writer[s].pc = "idle"
      /\ UNCHANGED <<mem, head, tail, fatal, stomped>>
      /\ \A u \in Process : u # s => writer'[u] = writer[u]
      /\ writer'[s].pc = "load" /\ writer'[s].errors = 0
  BY FewWriters, LogRingAssumption DEF log_write, At, TypeOK, Idle, ghosts
<1>2. Trusted'
  BY <1>1, TrustedSame DEF Accounted
<1>3. /\ Busy \subseteq Process /\ IsFiniteSet(Busy) /\ Cardinality(Busy) \in Nat
      /\ overlaps \in Nat /\ overlaps' \in Nat
  BY Few, FewWriters, LeftTyped, LeftTypedNext DEF Busy
<1>4. Busy' = Busy \union {s} /\ s \notin Busy
  BY <1>1, FewWriters DEF Busy
<1>5. \/ (\A u \in Writers : writer[u].pc = "idle") /\ Busy = {} /\ overlaps' = 0
      \/ overlaps' = overlaps + 1
  BY DEF log_write, Busy
<1>6. Cardinality(Busy) <= overlaps'
  <2>1. CASE Busy = {}
    BY <1>3, <2>1, FS_EmptySet
  <2>2. CASE overlaps' = overlaps + 1
    BY <1>3, <2>2 DEF Accounted, FewBusy
  <2>3. QED
    BY <1>5, <2>1, <2>2
<1>7. FewBusy'
  <2>1. Cardinality(Busy \union {s}) = Cardinality(Busy) + 1
    BY <1>3, <1>4, FS_AddElement
  <2>2. QED
    BY <1>3, <1>4, <1>6, <2>1 DEF FewBusy
<1>8. Charged'
  <2> SUFFICES ASSUME ~fatal', ~stomped', NEW t \in Busy'
               PROVE  writer'[t].errors + Paid(t)' + Others(t)' <= 2 * overlaps'
    BY DEF Charged
  <2>1. t \in Process /\ t \in Writers /\ Paid(t)' \in 0..1
        /\ writer'[t].errors \in Nat /\ Others(t)' \in Nat
    BY FewWriters, OthersTypedNext DEF Busy
  <2> DEFINE F == Firsts \ {t, Handler}
             G == Firsts' \ {t, Handler}
             P == Seconds \ {t, Handler}
             Q == Seconds' \ {t, Handler}
  <2>2. /\ F \subseteq Process /\ P \subseteq Process /\ G \subseteq Process /\ Q \subseteq Process
    BY DEF Firsts, Seconds
  <2>3. /\ Cardinality(F) \in Nat /\ Cardinality(G) \in Nat /\ Cardinality(P) \in Nat
        /\ Cardinality(Q) \in Nat /\ IsFiniteSet(F) /\ IsFiniteSet(P)
    BY <2>2, Few
  <2>4. Others(t) = Cardinality(F) + Cardinality(P) /\ Others(t)' = Cardinality(G) + Cardinality(Q)
    BY DEF Others
  <2>5. CASE t = s
    <3>1. G \subseteq Busy /\ Q \subseteq Busy
      BY <1>1, <2>5 DEF Firsts, Seconds, Busy, Acquiring, Process
    <3>2. Cardinality(G) <= Cardinality(Busy) /\ Cardinality(Q) <= Cardinality(Busy)
      BY <1>3, <2>2, <3>1, Few
    <3>3. Paid(t)' = 0 /\ writer'[t].errors = 0
      BY <1>1, <2>5 DEF Paid
    <3> HIDE DEF F, G, P, Q
    <3>4. QED
      BY <1>3, <1>6, <2>3, <2>4, <3>2, <3>3
  <2>6. CASE t # s
    <3>1. t \in Busy /\ writer'[t] = writer[t]
      BY <1>1, <1>4, <2>1, <2>6
    <3>2. overlaps' = overlaps + 1
      BY <1>5, <3>1
    <3>3. Paid(t)' = Paid(t)
      BY <1>1, <3>1 DEF Paid, Past
    <3>4. G \subseteq F \union {s} /\ Q \subseteq P \union {s}
      BY <1>1 DEF Firsts, Seconds
    <3>5. Cardinality(F \union {s}) <= Cardinality(F) + 1 /\ Cardinality(F \union {s}) \in Nat
          /\ Cardinality(P \union {s}) <= Cardinality(P) + 1 /\ Cardinality(P \union {s}) \in Nat
      <4> HIDE DEF F, G, P, Q
      <4>1. /\ Cardinality(F \union {s}) = IF s \in F THEN Cardinality(F) ELSE Cardinality(F) + 1
            /\ Cardinality(P \union {s}) = IF s \in P THEN Cardinality(P) ELSE Cardinality(P) + 1
        BY <2>3, FS_AddElement
      <4>2. QED
        BY <2>3, <4>1
    <3>6. F \union {s} \subseteq Process /\ P \union {s} \subseteq Process
      BY <1>1, <2>2
    <3>7. Cardinality(G) <= Cardinality(F \union {s}) /\ Cardinality(Q) <= Cardinality(P \union {s})
      BY <2>2, <3>4, <3>6, Few
    <3>8. writer[t].errors + Paid(t) + Others(t) <= 2 * overlaps
      BY <1>1, <3>1 DEF Accounted, Charged
    <3>9. Paid(t) \in 0..1 /\ writer[t].errors \in Nat
      BY <2>1, OthersTyped
    <3> HIDE DEF F, G, P, Q
    <3>10. QED
      BY <1>3, <2>3, <2>4, <3>1, <3>2, <3>3, <3>5, <3>7, <3>8, <3>9
  <2>7. QED
    BY <2>5, <2>6
<1>9. NoCallFails'
  <2> SUFFICES ASSUME ~stomped', overlaps' < 2, NEW t \in Writers, writer'[t].pc = "failed"
               PROVE  FALSE
    BY DEF NoCallFails
  <2>1. t # s /\ writer[t].pc = "failed"
    BY <1>1, FewWriters
  <2>2. overlaps' = overlaps + 1
    BY <1>5, <2>1
  <2>3. QED
    BY <1>1, <1>3, <2>1, <2>2 DEF Accounted, NoCallFails
<1>10. QED
  BY <1>2, <1>7, <1>8, <1>9 DEF Accounted

(* error_handler stops the threads where they are.                         *)
LEMMA HandlerAccounted ==
  ASSUME TypeOK, error_handler, Accounted
  PROVE  Accounted'
<1>1. /\ UNCHANGED <<mem, head, tail, stomped, overlaps>> /\ fatal'
      /\ \A u \in Process : u # Handler => writer'[u] = writer[u]
      /\ writer'[Handler].pc = "load"
  BY DEF error_handler, TypeOK, ghosts, Process
<1>2. Trusted'
  BY <1>1, TrustedSame DEF Accounted
<1>3. \A u \in Writers : writer'[u] = writer[u]
  BY <1>1, LogRingAssumption, FewWriters
<1>4. Busy' = Busy
  BY <1>3 DEF Busy
<1>5. QED
  BY <1>1, <1>2, <1>3, <1>4 DEF Accounted, FewBusy, Charged, NoCallFails

(* Every step of log_vwrite keeps the account.                             *)
LEMMA CallAccounted ==
  ASSUME TypeOK, TypeOK', Roomy, NEW H \in Nat, NEW T \in Nat, NEW B \in Nat, NEW M \in SUBSET Nat,
         NEW O \in [Process -> Nat], NEW D \in [Process -> Nat], View(H, T, B, M, O, D),
         NEW s \in Process, log_vwrite(s), Accounted
  PROVE  Accounted'
<1>1. writer[s].pc = "empty" => ~writer[s].second
  BY DEF View, InBuffer
<1>2. RingMoves(s) /\ CallMoves(s)
  BY <1>1, RingStep, CallStep
<1>3. Genuine /\ Behind /\ Spaced /\ Charged
  BY DEF Accounted, Trusted
<1>4. Genuine'
  BY <1>2, <1>3, GenuineKept
<1>5. Behind'
  BY <1>2, <1>3, BehindKept
<1>6. Spaced'
  BY <1>2, <1>3, SpacedKept
<1>7. Charged'
  BY <1>2, <1>3, ChargedCall
<1>8. /\ fatal' = fatal /\ overlaps' = overlaps /\ (stomped => stomped') /\ overlaps \in Nat
      /\ \A u \in Process : u # s => writer'[u] = writer[u]
  BY <1>2, LeftTyped DEF RingMoves, CallMoves
<1>9. FewBusy'
  <2>1. writer[s].pc # "idle"
    BY DEF log_vwrite, log_acquire_space, LoadHead, CheckSpace, LoadTail, LoadLength,
           MoveTail, MarkInvalid, MoveHead, StoreInvalid, StoreLength, PublishPadding,
           StoreMessage, Shrink, StoreShortLength, Commit, At
  <2>2. Busy' \subseteq Busy /\ Busy \in SUBSET Process /\ Busy' \in SUBSET Process
    BY <1>8, <2>1, FewWriters DEF Busy
  <2>3. Cardinality(Busy') <= Cardinality(Busy)
        /\ Cardinality(Busy) \in Nat /\ Cardinality(Busy') \in Nat
    BY <2>2, Few
  <2>4. QED
    BY <1>8, <2>3 DEF Accounted, FewBusy
<1>10. NoCallFails'
  <2> SUFFICES ASSUME ~stomped', overlaps' < 2, NEW t \in Writers, writer'[t].pc = "failed"
               PROVE  FALSE
    BY DEF NoCallFails
  <2>1. t \in Process
    BY FewWriters
  <2>2. ~(writer[t].pc = "failed")
    BY <1>8 DEF Accounted, NoCallFails
  <2>3. t = s
    BY <1>8, <2>1, <2>2
  <2>4. LoadLength(s)
    BY <1>2, <2>3 DEF CallMoves
  <2>5. writer'[t].errors = 3
    BY <2>3, <2>4, LengthRead
  <2>6. ~fatal'
    BY <1>2, <1>8, <2>3, LogRingAssumption DEF CallMoves, Runs
  <2>7. t \in Busy'
    BY DEF Busy
  <2>8. writer'[t].errors + Paid(t)' + Others(t)' <= 2 * overlaps'
    BY <1>7, <2>6, <2>7 DEF Charged
  <2>9. Paid(t)' \in 0..1 /\ Others(t)' \in Nat
    BY <2>1, OthersTypedNext
  <2>10. QED
    BY <1>8, <2>5, <2>8, <2>9
<1>11. QED
  BY <1>4, <1>5, <1>6, <1>7, <1>9, <1>10 DEF Accounted, Trusted

(* The account begins empty.                                               *)
LEMMA AccountedInit == Init => Accounted
<1> SUFFICES ASSUME Init PROVE Accounted
  OBVIOUS
<1>1. \A t \in Process : writer[t].pc = "idle"
  BY DEF Init, Idle
<1>2. Trusted
  BY <1>1 DEF Trusted, Genuine, Behind, Spaced, Freeing
<1>3. Busy = {} /\ overlaps = 0
  BY <1>1, FewWriters DEF Init, Busy
<1>4. FewBusy
  BY <1>3, FS_EmptySet DEF FewBusy
<1>5. Charged /\ NoCallFails
  BY <1>1, <1>3, FewWriters DEF Charged, NoCallFails
<1>6. QED
  BY <1>2, <1>4, <1>5 DEF Accounted

(* It is kept by every step.                                               *)
LEMMA AccountedNext == Roomy /\ IInv /\ Accounted /\ [Next]_vars => Accounted'
<1> SUFFICES ASSUME Roomy, IInv, Accounted, [Next]_vars PROVE Accounted'
  OBVIOUS
<1>1. TypeOK /\ TypeOK'
  BY TypeNext DEF IInv
<1>2. PICK H \in Nat, T \in Nat, B \in Nat, M \in SUBSET Nat, O \in [Process -> Nat],
           D \in [Process -> Nat] : View(H, T, B, M, O, D)
  BY DEF IInv
<1>3. CASE UNCHANGED vars \/ log_dump_to_fram
  <2>1. UNCHANGED <<mem, head, tail, writer, stomped, fatal, overlaps>>
    BY <1>3 DEF vars, log_dump_to_fram, BeginDump, SkipOld, WriteLog, WriteEnd, ring
  <2>2. Trusted'
    BY <2>1, TrustedSame DEF Accounted
  <2>3. \A t \in Writers : Paid(t)' = Paid(t) /\ Others(t)' = Others(t)
    BY <2>1 DEF Paid, Past, Others, Firsts, Seconds
  <2>4. Busy' = Busy
    BY <2>1 DEF Busy
  <2>5. Charged' /\ FewBusy' /\ NoCallFails'
    BY <2>1, <2>3, <2>4 DEF Accounted, Charged, FewBusy, NoCallFails, Busy
  <2>6. QED
    BY <2>2, <2>5 DEF Accounted
<1>4. CASE \E t \in Writers : log_write(t)
  BY <1>1, <1>4, BeginsAccounted
<1>5. CASE \E t \in Process : log_vwrite(t)
  BY <1>1, <1>2, <1>5, CallAccounted
<1>6. CASE error_handler
  BY <1>1, <1>6, HandlerAccounted
<1>7. QED
  BY <1>3, <1>4, <1>5, <1>6 DEF Next

(* No call finds three impossible lengths and fails, and the device with   *)
(* it, while at most one other call has begun since the ring was last at   *)
(* rest and no late LOG_INVALID store has hit an entry (lines 101 to 112). *)
THEOREM NoneFails ==
  ASSUME Roomy
  PROVE  Spec => []NoCallFails
<1>1. IInv /\ Accounted /\ [Next]_vars => (IInv /\ Accounted)'
  BY InvNext, AccountedNext
<1>2. Init => IInv /\ Accounted
  BY InvInit, AccountedInit
<1>3. IInv /\ Accounted => NoCallFails
  BY DEF Accounted
<1>4. QED
  BY <1>1, <1>2, <1>3, PTL DEF Spec
=============================================================================
