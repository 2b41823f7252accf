---------------------------- MODULE ZenohCleanup ----------------------------
(***************************************************************************)
(* What the comms thread does to the kernel objects of a Zenoh Pico        *)
(* session before it opens another: zenoh_cleanup_tx and zenoh_cleanup_nx  *)
(* walk ThreadX's and NetX's circular lists of created threads, mutexes,   *)
(* semaphores and UDP sockets, delete every control block that lies in     *)
(* zenoh_byte_pool_buffer, and the byte pool is then deleted under them.   *)
(*                                                                         *)
(* A circular list is the sequence that starts at its head pointer.        *)
(* Creating appends to it; deleting moves the head along when the head     *)
(* itself goes.  The walk keeps two pointers, current and next, into a     *)
(* list that shrinks under it, and ends when current is the head of the    *)
(* moment.  Nothing preempts the walk and also creates or deletes: the     *)
(* threads above the comms thread create everything before it starts.      *)
(***************************************************************************)
EXTENDS Naturals, Sequences, FiniteSets, SequencesExt

CONSTANTS
  Pool,     \* control blocks a session may allocate in zenoh_byte_pool_buffer
  System,   \* by kind, the list of what tx_setup and nx_setup have created
  MaxOpen   \* by kind, the bound on what one session creates

Kinds == <<"thread", "mutex", "semaphore", "udp">>  \* in the order of the walks
Kind == Range(Kinds)
SystemObject == UNION {Range(System[k]) : k \in Kind}
Object == Pool \union SystemObject

ASSUME ZenohCleanupAssumption ==
  /\ System \in [Kind -> Seq(SystemObject)] /\ MaxOpen \in [Kind -> Nat]
  /\ \A k \in Kind : IsInjective(System[k])   \* a control block is linked once
  /\ Pool \intersect SystemObject = {}

VARIABLES
  created,  \* by kind, the circular list of created objects
  pc,       \* "closed", "open", the kind being walked, "walked" or "lost"
  current,  \* current_thread, current_mutex, ...
  next,     \* next_thread, next_mutex, ...
  visited   \* has this list's do-while loop been entered

vars == <<created, pc, current, next, visited>>

None == "none"
Steps == {"closed", "open", "walked", "lost"} \union Kind

TypeOK ==
  /\ created \in [Kind -> Seq(Object)]
  /\ pc \in Steps
  /\ current \in Object \union {None}
  /\ next \in Object \union {None}
  /\ visited \in BOOLEAN

Init ==
  /\ created = System
  /\ pc = "closed"
  /\ current = None /\ next = None
  /\ visited = FALSE

----------------------------------------------------------------------------
InPool(list) == Range(list) \intersect Pool
Leftover == UNION {InPool(created[k]) : k \in Kind}

Place(list, o) == CHOOSE i \in 1..Len(list) : list[i] = o

(* tx_thread_created_next and its like: the object after o, or o itself if *)
(* it is not on the list and its stale pointer is never followed.          *)
Successor(list, o) ==
  IF o \notin Range(list) THEN o
  ELSE LET i == Place(list, o) IN list[IF i = Len(list) THEN 1 ELSE i + 1]

(* The neighbours of o are linked with one another.                        *)
Unlink(list, o) ==
  IF o \notin Range(list) THEN list ELSE RemoveAt(list, Place(list, o))

(* The walk of the list after k, or the end of the cleanup.                *)
After(k) ==
  IF k = "udp" THEN "walked" ELSE Kinds[1 + CHOOSE i \in 1..3 : Kinds[i] = k]

----------------------------------------------------------------------------
(* What one session may append to the list of a kind.                      *)
NewLists(k) == {list \in SeqOf(Pool, MaxOpen[k]) : IsInjective(list)}

(* A session is opened, or fails half way: Zenoh Pico creates some objects *)
(* of each kind in a new byte pool.  With blocks of the last session still *)
(* on the lists, the new pool is handed out over them and nothing more can *)
(* be said.                                                                *)
z_open ==
  /\ pc = "closed"
  /\ IF Leftover = {}
     THEN /\ pc' = "open"
          /\ \E news \in [Kind -> UNION {NewLists(k) : k \in Kind}] :
               /\ \A k \in Kind : news[k] \in NewLists(k)
               /\ \A k, l \in Kind :
                    k # l => Range(news[k]) \intersect Range(news[l]) = {}
               /\ created' = [k \in Kind |-> created[k] \o news[k]]
     ELSE pc' = "lost" /\ UNCHANGED created
  /\ UNCHANGED <<current, next, visited>>

(* Part of a session goes by itself: z_drop, or a close by Zenoh Pico.     *)
Drop ==
  /\ pc = "open"
  /\ \E k \in Kind : \E o \in InPool(created[k]) :
       created' = [created EXCEPT ![k] = Unlink(@, o)]
  /\ UNCHANGED <<pc, current, next, visited>>

(* The comms thread reaches retry.                                         *)
StartCleanup ==
  /\ pc = "open"
  /\ pc' = Kinds[1]
  /\ UNCHANGED <<created, current, next, visited>>

(* The created count is positive: the pointers are set up.                 *)
EnterWalk(k) ==
  /\ pc = k /\ ~visited
  /\ created[k] # <<>>
  /\ current' = Head(created[k])
  /\ next' = Successor(created[k], current')
  /\ visited' = TRUE
  /\ UNCHANGED <<created, pc>>

SkipWalk(k) ==
  /\ pc = k /\ ~visited
  /\ created[k] = <<>>
  /\ pc' = After(k)
  /\ UNCHANGED <<created, current, next, visited>>

(* The body of the loop has left list; step on, or end the walk.           *)
StepOn(k, list, to, goOn) ==
  /\ created' = [created EXCEPT ![k] = list]
  /\ current' = IF goOn THEN to ELSE None
  /\ next' = IF goOn THEN Successor(list, to) ELSE None
  /\ pc' = IF goOn THEN k ELSE After(k)
  /\ visited' = goOn

Deleted(k) ==
  IF current \in Pool THEN Unlink(created[k], current) ELSE created[k]

(* Mutant: the next pointer is read after the deletion. *)
VisitReadsLate(k) ==
  /\ pc = k /\ visited
  /\ LET list == Deleted(k)
         to == Successor(list, current)
     IN StepOn(k, list, to, list # <<>> /\ to # Head(list))

(* Mutant: the lower bound of the pool only is compared. *)
VisitAny(k) ==
  /\ pc = k /\ visited
  /\ LET list == Unlink(created[k], current)
     IN StepOn(k, list, next, list # <<>> /\ next # Head(list))

(* Mutant: the loop ends when next, not current, is back at the head. *)
VisitShort(k) ==
  /\ pc = k /\ visited
  /\ LET list == Deleted(k)
     IN StepOn(k, list, next,
          list # <<>> /\ next # Head(list) /\ Successor(list, next) # Head(list))

(* Mutant: the loop ends with the list only. *)
VisitForEver(k) ==
  /\ pc = k /\ visited
  /\ LET list == Deleted(k) IN StepOn(k, list, next, list # <<>>)

(* One turn of the loop.                                                   *)
Visit(k) ==
  /\ pc = k /\ visited
  /\ LET list == Deleted(k)
     IN StepOn(k, list, next, list # <<>> /\ next # Head(list))

(* tx_byte_pool_delete, whatever still lies in the pool, and the pause.    *)
DeletePool ==
  /\ pc = "walked"
  /\ pc' = "closed"
  /\ UNCHANGED <<created, current, next, visited>>

zenoh_cleanup == \E k \in Kind : EnterWalk(k) \/ SkipWalk(k) \/ Visit(k)

Next == z_open \/ Drop \/ StartCleanup \/ zenoh_cleanup \/ DeletePool

Spec == Init /\ [][Next]_vars /\ WF_vars(zenoh_cleanup)

----------------------------------------------------------------------------
(* The walk only ever follows control blocks that are still created: the   *)
(* next pointer is read before the block it belongs to is deleted          *)
(* (zenoh_cleanup.c, lines 30 to 41).                                      *)
WalkOnCreated ==
  \A k \in Kind : (pc = k /\ visited) => {current, next} \subseteq Range(created[k])

(* The cleanup deletes nothing that is not Zenoh Pico's, and leaves the    *)
(* order of the rest alone: what tx_setup and nx_setup created still       *)
(* starts each list, and only blocks of the pool come after it.            *)
SystemKept ==
  \A k \in Kind :
    /\ IsPrefix(System[k], created[k])
    /\ \A i \in Len(System[k]) + 1..Len(created[k]) : created[k][i] \in Pool

(* Before the pool goes, every block of it has gone from every list, as    *)
(* long as a list without an object of the system held one block only.     *)
PoolEmptied == pc = "walked" => Leftover = {}

(* The walks end, though the head that ends them can move.                 *)
CleanupEnds == (pc \in Kind) ~> (pc = "walked")

(* comms_thread.c:309: "Delete all threads, mutexes and semaphores created *)
(* by Zenoh Pico".                                                         *)
AllDeleted == pc = "walked" => InPool(created["semaphore"]) = {}
=============================================================================
