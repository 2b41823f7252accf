------------------------------- MODULE LogRing -------------------------------
(***************************************************************************)
(* The log of the primary MCU: a ring of variable-length entries that      *)
(* every thread of both worlds writes without a lock, and the dump of its  *)
(* newest entries into the FRAM by error_handler.                          *)
(*                                                                         *)
(* An entry is a type byte, a length byte, a timestamp and a message.  A   *)
(* call reserves the longest entry by moving head, moving tail out of the  *)
(* way first, and gives back what it did not need when nobody reserved     *)
(* after it.  Each load, store and compare-exchange of log_acquire_space   *)
(* and log_vwrite on shared memory is one step: the threads preempt each   *)
(* other anywhere, and those of priority 15 are time-sliced.               *)
(*                                                                         *)
(* The ring is kept byte by byte, because the walk along the entries reads *)
(* whatever byte lies where a length should be.  The timestamp is left out *)
(* and every byte of a message is Text, a byte that reads as a type above  *)
(* LOG_COMMITTED or as the longest length.  Offsets are unsigned and wrap. *)
(***************************************************************************)
EXTENDS Integers, Sequences, FiniteSets

CONSTANTS
  Writers,      \* the threads that log
  Handler,      \* error_handler, which logs and dumps with interrupts off
  Size,         \* LOG_BUFFER_SIZE, a power of two
  MaxEntry,     \* LOG_MAX_ENTRY_SIZE
  FramHalf,     \* FRAM_HALF_SIZE
  OffMod,       \* 2^32, the modulus of uint32_t
  DebugBuild,   \* DEBUG: log_init clears the buffer
  MaxCalls,     \* bound: calls of log_write by the threads
  FatalAt,      \* bound: after how many calls error_handler may begin
  MaxOverlaps   \* bound: calls started since the ring was last at rest

Header == 2     \* LOG_HEADER_SIZE, without the timestamp

ASSUME LogRingAssumption ==
  /\ IsFiniteSet(Writers) /\ Handler \notin Writers
  /\ {Size, MaxEntry, FramHalf, OffMod} \subseteq Nat
  /\ Header < MaxEntry /\ 3 * MaxEntry < Size
  /\ FramHalf \in MaxEntry..Size
  /\ OffMod > Size /\ OffMod % Size = 0
  /\ DebugBuild \in BOOLEAN /\ FatalAt \subseteq Nat /\ MaxCalls \in Nat /\ MaxOverlaps \in Nat

VARIABLES
  mem,        \* log_buffer
  head,       \* head_offset
  tail,       \* tail_offset
  writer,     \* where each call is, and its locals
  fatal,      \* error_handler is running: no thread ever runs again
  dump,       \* log_dump_to_fram: step, current_offset and addr
  stored,     \* ghost: the entries the dump wrote, in order
  published,  \* ghost: the entries LOG_EMPTY or LOG_COMMITTED and not yet freed
  stomped,    \* ghost: a late LOG_INVALID store hit an entry in use
  clean,      \* ghost: no entry had a wrong length when error_handler began
  calls, overlaps

vars == <<mem, head, tail, writer, fatal, dump, stored, published, stomped,
          clean, calls, overlaps>>

----------------------------------------------------------------------------
LOG_INVALID == 0
LOG_EMPTY == 1
LOG_COMMITTED == 3
Text == MaxEntry
Byte == 0..MaxEntry

Offset == 0..OffMod - 1
Plus(a, b) == (a + b) % OffMod
Minus(a, b) == (a - b) % OffMod
Cell(o) == o % Size                            \* PTR_FROM_OFFSET
LengthAt(o) == mem[Cell(o + 1)]
NextOffset(o) == Plus(o, LengthAt(o))          \* NEXT_OFFSET
CellsOf(o, n) == {Cell(o + i) : i \in 0..n - 1}
Stored(o, b) == [mem EXCEPT ![Cell(o)] = b]

Process == Writers \union {Handler}
Entry == [off : Offset, len : Byte]
Published == [off : Offset, len : Byte, type : {LOG_EMPTY, LOG_COMMITTED}]

Acquiring == {"load", "space", "tail", "length", "cas_tail", "mark", "cas_head"}
Filling == {"type", "len", "empty", "text", "shrink"}
Whole == Filling \union {"commit"}
Shrunk == {"store_len", "commit_short"}
Steps == {"idle", "failed", "commit"} \union Acquiring \union Filling \union Shrunk

(* off is old_head_offset, old is old_tail_offset, length is log_length,   *)
(* msg is message_length and second tells the second log_acquire_space     *)
(* from the first.                                                         *)
Idle == [pc |-> "idle", off |-> 0, old |-> 0, length |-> 0, errors |-> 0,
         msg |-> 1, second |-> FALSE]

TypeOK ==
  /\ mem \in [0..Size - 1 -> Byte]
  /\ head \in Offset /\ tail \in Offset
  /\ writer \in [Process -> [pc : Steps, off : Offset, old : Offset, length : Byte,
                             errors : 0..3, msg : 1..MaxEntry - Header,
                             second : BOOLEAN]]
  /\ {fatal, stomped, clean} \subseteq BOOLEAN
  /\ dump \in [pc : {"none", "skip", "write", "end", "done", "refused", "failed"},
               cur : Offset, addr : 0..FramHalf]
  /\ stored \in Seq(Entry)
  /\ published \subseteq Published
  /\ calls \in 0..MaxCalls /\ overlaps \in 0..MaxOverlaps

(* log_init.  Without DEBUG the buffer keeps whatever the RAM held.        *)
Init ==
  /\ \E b \in IF DebugBuild THEN {0} ELSE Byte : mem = [p \in 0..Size - 1 |-> b]
  /\ head = 0 /\ tail = 0
  /\ writer = [t \in Process |-> Idle]
  /\ fatal = FALSE
  /\ dump = [pc |-> "none", cur |-> 0, addr |-> 0]
  /\ stored = <<>>
  /\ published = {}
  /\ stomped = FALSE /\ clean = TRUE
  /\ calls = 0 /\ overlaps = 0

----------------------------------------------------------------------------
(* error_handler disables interrupts: from then on only it takes steps.    *)
Runs(t) == IF fatal THEN t = Handler ELSE t \in Writers

At(t, pc) == Runs(t) /\ writer[t].pc = pc
Goto(t, pc) == writer' = [writer EXCEPT ![t].pc = pc]

bookkeeping == <<fatal, dump, stored, clean, calls, overlaps>>
ghosts == <<published, stomped>>

(* What a call has reserved: the longest entry, or what is left of it.     *)
EntryLength(t) == Header + writer[t].msg
Reserved(t) ==
  LET w == writer[t]
  IN CASE w.pc \in Whole -> CellsOf(w.off, MaxEntry)
       [] w.pc \in Shrunk -> CellsOf(w.off, EntryLength(t))
       [] OTHER -> {}

ReservedCells == UNION {Reserved(t) : t \in Process}
LiveCells == ReservedCells \union (UNION {CellsOf(e.off, e.len) : e \in published})

(* A thread calls log_write.  How many calls may start before the ring is  *)
(* at rest again is bounded, so that a preempted call is not lapped.       *)
log_write(t) ==
  /\ At(t, "idle") /\ ~fatal
  /\ calls < MaxCalls
  /\ calls' = calls + 1
  /\ IF \A u \in Writers : writer[u].pc = "idle"
     THEN overlaps' = 0
     ELSE overlaps < MaxOverlaps /\ overlaps' = overlaps + 1
  /\ \E n \in 1..MaxEntry - Header :
       writer' = [writer EXCEPT ![t] = [Idle EXCEPT !.pc = "load", !.msg = n]]
  /\ UNCHANGED <<mem, head, tail, fatal, dump, stored, clean, ghosts>>

----------------------------------------------------------------------------
(* log_acquire_space                                                       *)

LoadHead(t) ==
  /\ At(t, "load")
  /\ writer' = [writer EXCEPT ![t].pc = "space", ![t].off = head]
  /\ UNCHANGED <<mem, head, tail, bookkeeping, ghosts>>

(* Mutant: only room for the header is asked for. *)
CheckSpaceForHeader(t) ==
  /\ At(t, "space")
  /\ Goto(t, IF Minus(Size, Minus(writer[t].off, tail)) < Header
             THEN "tail" ELSE "cas_head")
  /\ UNCHANGED <<mem, head, tail, bookkeeping, ghosts>>

CheckSpace(t) ==
  /\ At(t, "space")
  /\ Goto(t, IF Minus(Size, Minus(writer[t].off, tail)) < MaxEntry
             THEN "tail" ELSE "cas_head")
  /\ UNCHANGED <<mem, head, tail, bookkeeping, ghosts>>

LoadTail(t) ==
  /\ At(t, "tail")
  /\ writer' = [writer EXCEPT ![t].pc = "length", ![t].old = tail]
  /\ UNCHANGED <<mem, head, tail, bookkeeping, ghosts>>

(* Mutant: the header is taken off the longest length. *)
LoadLengthOfMessage(t) ==
  /\ At(t, "length")
  /\ LET len == LengthAt(writer[t].old)
         errors == writer[t].errors + IF len \in Header..MaxEntry - Header THEN 0 ELSE 1
     IN writer' = [writer EXCEPT
          ![t] = IF errors >= 3
                 THEN [@ EXCEPT !.pc = "failed", !.old = 0, !.errors = 3]
                 ELSE [@ EXCEPT !.pc = "cas_tail", !.length = len, !.errors = errors]]
  /\ UNCHANGED <<mem, head, tail, bookkeeping, ghosts>>

(* A length no entry has counts as an error, and the third gives up.       *)
LoadLength(t) ==
  /\ At(t, "length")
  /\ LET len == LengthAt(writer[t].old)
         errors == writer[t].errors + IF len \in Header..MaxEntry THEN 0 ELSE 1
     IN writer' = [writer EXCEPT
          ![t] = IF errors >= 3
                 THEN [@ EXCEPT !.pc = "failed", !.old = 0, !.errors = 3]
                 ELSE [@ EXCEPT !.pc = "cas_tail", !.length = len, !.errors = errors]]
  /\ UNCHANGED <<mem, head, tail, bookkeeping, ghosts>>

(* The exchanges are weak ones: until error_handler disables interrupts    *)
(* they may fail on the value expected too.                                *)
MoveTail(t) ==
  /\ At(t, "cas_tail")
  /\ \/ /\ tail = writer[t].old
        /\ tail' = Plus(tail, writer[t].length)
        /\ published' = {e \in published : Minus(e.off, tail) >= writer[t].length}
        /\ writer' = [writer EXCEPT ![t].pc = "mark", ![t].length = 0]
     \/ /\ tail # writer[t].old \/ ~fatal
        /\ writer' = [writer EXCEPT ![t].pc = "space", ![t].old = 0, ![t].length = 0]
        /\ UNCHANGED <<tail, published>>
  /\ UNCHANGED <<mem, head, stomped, bookkeeping>>

(* The freed entry is marked invalid after the tail has left it behind.    *)
MarkInvalid(t) ==
  /\ At(t, "mark")
  /\ mem' = Stored(writer[t].old, LOG_INVALID)
  /\ stomped' = (stomped \/ Cell(writer[t].old) \in LiveCells)
  /\ writer' = [writer EXCEPT ![t].pc = "space", ![t].old = 0]
  /\ UNCHANGED <<head, tail, published, bookkeeping>>

(* Mutant: head is stored instead of being compared and exchanged. *)
StoreHead(t) ==
  /\ At(t, "cas_head")
  /\ head' = Plus(writer[t].off, MaxEntry)
  /\ writer' = [writer EXCEPT ![t].pc = "type", ![t].errors = 0]
  /\ UNCHANGED <<mem, tail, bookkeeping, ghosts>>

MoveHead(t) ==
  /\ At(t, "cas_head")
  /\ \/ /\ head = writer[t].off
        /\ head' = Plus(head, MaxEntry)
        /\ writer' = [writer EXCEPT ![t].pc = "type", ![t].errors = 0]
     \/ /\ head # writer[t].off \/ ~fatal
        /\ Goto(t, "load")
        /\ UNCHANGED head
  /\ UNCHANGED <<mem, tail, bookkeeping, ghosts>>

log_acquire_space(t) ==
  \/ LoadHead(t) \/ CheckSpace(t) \/ LoadTail(t) \/ LoadLength(t)
  \/ MoveTail(t) \/ MarkInvalid(t) \/ MoveHead(t)

----------------------------------------------------------------------------
(* The rest of log_vwrite                                                  *)

(* Mutant: the offsets are compared without their mask. *)
PaddingUnmasked(t) ==
  ~writer[t].second /\ Plus(writer[t].off, MaxEntry) < writer[t].off

(* The first entry reserved becomes padding when it crosses the end.       *)
Padding(t) ==
  ~writer[t].second /\ Cell(writer[t].off + MaxEntry) < Cell(writer[t].off)

StoreInvalid(t) ==
  /\ At(t, "type")
  /\ mem' = Stored(writer[t].off, LOG_INVALID)
  /\ Goto(t, "len")
  /\ UNCHANGED <<head, tail, bookkeeping, ghosts>>

StoreLength(t) ==
  /\ At(t, "len")
  /\ mem' = Stored(writer[t].off + 1, MaxEntry)
  /\ Goto(t, IF Padding(t) THEN "empty" ELSE "text")
  /\ UNCHANGED <<head, tail, bookkeeping, ghosts>>

PublishPadding(t) ==
  /\ At(t, "empty")
  /\ mem' = Stored(writer[t].off, LOG_EMPTY)
  /\ published' = published \union
       {[off |-> writer[t].off, type |-> LOG_EMPTY, len |-> MaxEntry]}
  /\ writer' = [writer EXCEPT ![t].pc = "load", ![t].off = 0, ![t].second = TRUE]
  /\ UNCHANGED <<head, tail, stomped, bookkeeping>>

(* The message is written straight on from write_ptr, not round the ring.  *)
StoreMessage(t) ==
  /\ At(t, "text")
  /\ LET first == Cell(writer[t].off) + Header
     IN mem' = [p \in DOMAIN mem |->
                  IF p \in first..first + writer[t].msg - 1 THEN Text ELSE mem[p]]
  /\ Goto(t, IF writer[t].msg < MaxEntry - Header THEN "shrink" ELSE "commit")
  /\ UNCHANGED <<head, tail, bookkeeping, ghosts>>

(* Mutant: the length is reduced whether or not head could be. *)
ShrinkAlways(t) ==
  /\ At(t, "shrink")
  /\ head' = IF head = Plus(writer[t].off, MaxEntry)
             THEN Plus(writer[t].off, EntryLength(t)) ELSE head
  /\ Goto(t, "store_len")
  /\ UNCHANGED <<mem, tail, bookkeeping, ghosts>>

Shrink(t) ==
  /\ At(t, "shrink")
  /\ \/ /\ head = Plus(writer[t].off, MaxEntry)
        /\ head' = Plus(writer[t].off, EntryLength(t))
        /\ Goto(t, "store_len")
     \/ /\ head # Plus(writer[t].off, MaxEntry) \/ ~fatal
        /\ Goto(t, "commit")
        /\ UNCHANGED head
  /\ UNCHANGED <<mem, tail, bookkeeping, ghosts>>

StoreShortLength(t) ==
  /\ At(t, "store_len")
  /\ mem' = Stored(writer[t].off + 1, EntryLength(t))
  /\ Goto(t, "commit_short")
  /\ UNCHANGED <<head, tail, bookkeeping, ghosts>>

Commit(t) ==
  /\ At(t, "commit") \/ At(t, "commit_short")
  /\ mem' = Stored(writer[t].off, LOG_COMMITTED)
  /\ published' = published \union
       {[off |-> writer[t].off, type |-> LOG_COMMITTED,
         len |-> IF writer[t].pc = "commit" THEN MaxEntry ELSE EntryLength(t)]}
  /\ writer' = [writer EXCEPT ![t] = Idle]
  /\ UNCHANGED <<head, tail, stomped, bookkeeping>>

log_vwrite(t) ==
  \/ log_acquire_space(t)
  \/ StoreInvalid(t) \/ StoreLength(t) \/ PublishPadding(t) \/ StoreMessage(t)
  \/ Shrink(t) \/ StoreShortLength(t) \/ Commit(t)

----------------------------------------------------------------------------
(* An entry whose length byte is not yet what head and the next entry say. *)
Unsettled(t) == writer[t].pc \in {"type", "len", "store_len"}

(* error_handler begins: a thread failed, or one of its log calls did      *)
(* (CHECK_STATUS_LOG).  It logs first.                                     *)
error_handler ==
  /\ ~fatal /\ calls \in FatalAt
  /\ fatal' = TRUE
  /\ clean' = (~stomped /\ \A t \in Writers : ~Unsettled(t))
  /\ writer' = [writer EXCEPT ![Handler].pc = "load"]
  /\ UNCHANGED <<mem, head, tail, dump, stored, ghosts, calls, overlaps>>

(* log_dump_to_fram                                                        *)
ring == <<mem, head, tail, writer, fatal, published, stomped, clean, calls, overlaps>>

(* Mutant: the dump begins where the newest half would. *)
BeginDumpNear ==
  /\ fatal /\ dump.pc = "none"
  /\ writer[Handler].pc \in {"idle", "failed"}
  /\ dump' = [dump EXCEPT !.pc = "skip", !.cur = Minus(head, FramHalf)]
  /\ UNCHANGED <<ring, stored>>

(* It begins at tail, once the handler's own call has returned, even if it *)
(* failed (LOG_ERROR_NO_CHECK).                                            *)
BeginDump ==
  /\ fatal /\ dump.pc = "none"
  /\ writer[Handler].pc \in {"idle", "failed"}
  /\ dump' = [dump EXCEPT !.pc = "skip", !.cur = tail]
  /\ UNCHANGED <<ring, stored>>

(* Mutant: no room is left for the end log. *)
SkipOldNoEnd ==
  /\ dump.pc = "skip"
  /\ dump' = IF Minus(head, dump.cur) > FramHalf
             THEN [dump EXCEPT !.cur = NextOffset(@)] ELSE [dump EXCEPT !.pc = "write"]
  /\ UNCHANGED <<ring, stored>>

SkipOld ==
  /\ dump.pc = "skip"
  /\ dump' = IF Minus(head, dump.cur) > FramHalf - Header
             THEN [dump EXCEPT !.cur = NextOffset(@)] ELSE [dump EXCEPT !.pc = "write"]
  /\ UNCHANGED <<ring, stored>>

(* META_write_log of size bytes at addr, as the dump goes on: nothing is    *)
(* done for no bytes, what would pass the half is refused, and otherwise   *)
(* the FRAM may be locked or its write may fail.  Both errors end the dump *)
(* with LOGGING_ERROR, which error_handler ignores.                        *)
META_write_log(size, written) ==
  \/ (size = 0 \/ dump.addr + size <= FramHalf) /\ written
  \/ /\ size # 0
     /\ dump' = [dump EXCEPT !.pc = IF dump.addr + size > FramHalf
                                    THEN "refused" ELSE "failed"]
     /\ UNCHANGED stored

(* The comparison of head and current_offset does not wrap.                *)
WriteLog ==
  /\ dump.pc = "write"
  /\ LET len == LengthAt(dump.cur)
         isMessage == mem[Cell(dump.cur)] >= LOG_COMMITTED
         next == [dump EXCEPT !.cur = NextOffset(@)]
     IN \/ /\ head <= dump.cur
           /\ dump' = [dump EXCEPT !.pc = "end"]
           /\ UNCHANGED stored
        \/ /\ head > dump.cur /\ ~isMessage
           /\ dump' = next
           /\ UNCHANGED stored
        \/ /\ head > dump.cur /\ isMessage
           /\ META_write_log(len,
                /\ dump' = [next EXCEPT !.addr = @ + len]
                /\ stored' = IF len = 0 THEN stored
                             ELSE Append(stored, [off |-> dump.cur, len |-> len]))
  /\ UNCHANGED ring

WriteEnd ==
  /\ dump.pc = "end"
  /\ META_write_log(Header, dump' = [dump EXCEPT !.pc = "done"] /\ UNCHANGED stored)
  /\ UNCHANGED ring

log_dump_to_fram == BeginDump \/ SkipOld \/ WriteLog \/ WriteEnd

----------------------------------------------------------------------------
Next ==
  \/ \E t \in Writers : log_write(t)
  \/ \E t \in Process : log_vwrite(t)
  \/ error_handler \/ log_dump_to_fram

(* With interrupts off, error_handler's instructions follow each other.    *)
Spec ==
  /\ Init /\ [][Next]_vars
  /\ WF_vars(log_vwrite(Handler) \/ log_dump_to_fram)

----------------------------------------------------------------------------
(* Head never runs more than a buffer ahead of tail, whatever heads and    *)
(* tails the calls compared were already stale (logging.c, line 91).       *)
RingBounded == Minus(head, tail) <= Size

(* What a call has reserved belongs to it alone (line 78), and a published *)
(* entry keeps its type and its length until tail passes it, unless a late *)
(* LOG_INVALID store hit it.                                               *)
EntriesIntact ==
  /\ \A t, u \in Process : t # u => Reserved(t) \intersect Reserved(u) = {}
  /\ \A e \in published :
       /\ CellsOf(e.off, e.len) \intersect ReservedCells = {}
       /\ ~stomped => /\ mem[Cell(e.off)] = e.type
                      /\ LengthAt(e.off) = e.len

(* Messages are written inside the buffer: the second reservation never    *)
(* crosses its end, although it is not tested again (line 181).            *)
MessagesInBuffer ==
  \A t \in Process : writer[t].pc \in {"text", "shrink", "commit"} \union Shrunk =>
    Cell(writer[t].off) + MaxEntry <= Size

(* Whenever no call is between moving head and storing the length that     *)
(* goes with it, following the lengths from tail leads to head.            *)
ChainReachesHead ==
  LET walk[n \in 0..Size] == IF n = 0 THEN tail ELSE NextOffset(walk[n - 1])
  IN (~stomped /\ \A t \in Process : ~Unsettled(t)) => \E n \in 0..Size : walk[n] = head

(* No call finds three corrupt lengths and fails, which would end in       *)
(* error_handler (secure_nsc.c, line 75), unless a late LOG_INVALID store  *)
(* hit an entry or more than one call has begun while others were under    *)
(* way: a call that is preempted between loading tail and the length there *)
(* counts an error when others have freed and overwritten that entry       *)
(* meanwhile.                                                              *)
NoCallFails ==
  (~stomped /\ overlaps < 2) => \A t \in Writers : writer[t].pc # "failed"

Dumped == dump.pc \in {"done", "refused", "failed"}

(* What the dump should have stored: every message of the last          *)
(* FramHalf bytes that leave room for the end log, oldest first.           *)
Newest ==
  {e \in published : e.type = LOG_COMMITTED /\ Minus(head, e.off) <= FramHalf - Header}
StoredOf(E) == {[off |-> e.off, len |-> e.len] : e \in E}
OldestFirst(s) ==
  \A i, j \in 1..Len(s) : i < j => Minus(head, s[i].off) > Minus(head, s[j].off)
IsNewest(s) == OldestFirst(s) /\ {s[i] : i \in 1..Len(s)} = StoredOf(Newest)

(* ... and what is left of that when a write fails on the way.             *)
BeginsNewest(s) ==
  /\ OldestFirst(s) /\ {s[i] : i \in 1..Len(s)} \subseteq StoredOf(Newest)
  /\ \A e \in Newest, i \in 1..Len(s) :
       Minus(head, e.off) > Minus(head, s[i].off) =>
         \E j \in 1..Len(s) : s[j] = [off |-> e.off, len |-> e.len]

(* A dump that begins with no length in between is never refused for want  *)
(* of room.  One that the FRAM does not fail stores exactly the newest     *)
(* messages and the end log (error.c, line 27), or, when head has wrapped  *)
(* and tail has not, possibly nothing: head > current_offset may fail at   *)
(* once (line 244), but never half way.  One that the FRAM fails has       *)
(* stored the oldest of these messages without a gap.                      *)
CleanDumpIsNewest ==
  (clean /\ Dumped) =>
    /\ dump.pc # "refused"
    /\ dump.pc = "done" => IsNewest(stored) \/ (stored = <<>> /\ head < tail)
    /\ dump.pc = "failed" => BeginsNewest(stored)

(* ... and it ends, so that error_handler goes on to reset the device:     *)
(* every length it goes on by leads forward, and not past head.            *)
DumpMovesOn ==
  (clean /\ dump.pc \in {"skip", "write"} /\ dump.cur # head) =>
    LengthAt(dump.cur) \in 1..Minus(head, dump.cur)
=============================================================================
