--------------------------- MODULE MetadataStore ---------------------------
(***************************************************************************)
(* The secure metadata store of the primary MCU while the non-secure       *)
(* application runs, and across resets.                                    *)
(*                                                                         *)
(* The live copy, hmeta, sits in backup SRAM; its durable copy sits in the *)
(* write-protected quarter of the FRAM.  The nx_link thread (priority 9)   *)
(* saves the DHCP record into hmeta and raises new_metadata; the           *)
(* background thread (priority 15) polls that flag and runs                *)
(* META_dump_metadata, which takes several steps: encrypt a snapshot,      *)
(* unlock the FRAM, write it, lock it, lower the flag.  The nx_link thread *)
(* preempts the background thread between any two of them.  The same dump  *)
(* is run by META_Configure at boot and by error_handler, both with no     *)
(* other thread running.                                                   *)
(*                                                                         *)
(* A DHCP record is represented by the number of the save that made it     *)
(* (0 is NX_DHCP_STATE_NOT_STARTED), held twice, as its first and its last *)
(* part, because encrypting it and writing it can each be cut in two: the  *)
(* SAES is in counter mode, so a half-written ciphertext decrypts to half  *)
(* of each plaintext.  Boot is reduced to what it does to hmeta, to the    *)
(* FRAM and to the protection; module Boot has its steps.                  *)
(***************************************************************************)
EXTENDS Naturals

CONSTANT
  MaxSaves  \* bound: number of records nx_link saves in one behaviour

ASSUME MetadataStoreAssumption == MaxSaves \in Nat

VARIABLES
  debug,      \* is this a DEBUG build (both .cproject configurations exist); never changes
  hmeta,      \* the live metadata handle in backup SRAM
  fram,       \* the protected quarter of the FRAM, and whether it is protected
  pc,         \* where the processor is in boot, dump, error handler or idle loop
  caller,     \* who runs the dump: "boot", "background" or "error"
  snapshot,   \* encrypted_metadata, the static buffer of META_dump_metadata
  prevCrash,  \* previous_crash, the local of error_handler
  saves,      \* number of saves made so far
  overlap,    \* ghost: a save landed during the dump that produced the FRAM's record
  cut         \* ghost: a record was cut in two, by a save inside the encryption or
              \* a dump abandoned inside the write, and not yet rewritten whole

vars ==
  <<debug, hmeta, fram, pc, caller, snapshot, prevCrash, saves, overlap, cut>>

----------------------------------------------------------------------------
Serial == 0..MaxSaves
Record == [first : Serial, last : Serial]
Whole(n) == [first |-> n, last |-> n]

(* The part of metadata_data_t this module follows: is device_id ours, the *)
(* crashed flag and the DHCP record, in the order they lie in the struct.  *)
Data == [known : BOOLEAN, crashed : BOOLEAN, record : Record]

Hmeta == [initialised : BOOLEAN, new_metadata : BOOLEAN, data : Data]
Fram == [locked : BOOLEAN, data : Data]

BlankData == [known |-> FALSE, crashed |-> FALSE, record |-> Whole(0)]

(* What HAL_RAMCFG_Erase(&hramcfg_BKPRAM) leaves of hmeta. *)
ErasedHmeta ==
  [initialised |-> FALSE, new_metadata |-> FALSE, data |-> BlankData]

WriteSteps == {"write_first", "write_last"}
DumpSteps == {"encrypt_first", "encrypt_last", "unlock", "lock"} \union WriteSteps
Steps == DumpSteps \union {"boot", "counters", "idle", "finish", "hang"}

(* The non-secure threads are scheduled. *)
Running == caller = "background" /\ pc \in DumpSteps \union {"idle"}

TypeOK ==
  /\ debug \in BOOLEAN
  /\ hmeta \in Hmeta
  /\ fram \in Fram
  /\ pc \in Steps
  /\ caller \in {"boot", "background", "error"}
  /\ snapshot \in Data
  /\ prevCrash \in BOOLEAN
  /\ saves \in Serial
  /\ overlap \in BOOLEAN
  /\ cut \in BOOLEAN

(* A factory-fresh device with either build: nothing in backup SRAM, nothing of ours in the  *)
(* FRAM.                                                                   *)
Init ==
  /\ debug \in BOOLEAN
  /\ hmeta = ErasedHmeta
  /\ fram = [locked |-> FALSE, data |-> BlankData]
  /\ pc = "boot"
  /\ caller = "boot"
  /\ snapshot = BlankData
  /\ prevCrash = FALSE
  /\ saves = 0
  /\ overlap = FALSE
  /\ cut = FALSE

----------------------------------------------------------------------------
(* error_handler: interrupts go off, so whoever was running never resumes. *)
EnterErrorHandler(h) ==
  /\ prevCrash' = h.data.crashed
  /\ hmeta' = [h EXCEPT !.data.crashed = TRUE]
  /\ caller' = "error"
  /\ pc' = "encrypt_first"

(* A dump that stops after its first half-write leaves a mixed record. *)
AbandonDump == cut' = (cut \/ pc = "write_last")

----------------------------------------------------------------------------
(* Boot.                                                                   *)

(* META_Init succeeds: the protection is set, the record is read back and, *)
(* when the device ID is unknown, dhcp_state becomes NOT_STARTED.          *)
Loaded ==
  [initialised |-> TRUE, new_metadata |-> FALSE,
   data |-> IF fram.data.known THEN fram.data
            ELSE [fram.data EXCEPT !.record = Whole(0)]]

(* META_Configure records the device ID and dumps the metadata.  It runs   *)
(* on every boot of a DEBUG build and on the first boot of a release.      *)
Configure(h) ==
  /\ hmeta' = [h EXCEPT !.data.known = TRUE]
  /\ caller' = "boot"
  /\ pc' = "encrypt_first"
  /\ UNCHANGED prevCrash

(* With DEBUG, boot_main clears initialised, so META_Init always runs; it  *)
(* then clears crashed and forces first_boot.                              *)
BootDebug ==
  /\ debug
  /\ Configure([Loaded EXCEPT !.data.crashed = FALSE])
  /\ overlap' = FALSE

(* A release build that is not on its first boot ends in error_handler     *)
(* whichever way the secure hash check goes (boot_main.c, lines 165-170).  *)
BootRelease ==
  /\ ~debug
  /\ LET reinit == hmeta.initialised /\ ~hmeta.data.crashed
         h == IF reinit THEN hmeta ELSE Loaded
     IN /\ IF reinit \/ fram.data.known THEN EnterErrorHandler(h) ELSE Configure(h)
        /\ overlap' = (overlap /\ reinit)

Boot ==
  /\ pc = "boot"
  /\ fram' = [fram EXCEPT !.locked = TRUE]
  /\ BootDebug \/ BootRelease
  /\ UNCHANGED <<debug, snapshot, saves, cut>>

(* META_Init or META_Reinit fails, before or after the protection is set.  *)
(* initialised is down, so error_handler will dump nothing.                *)
BootFails ==
  /\ pc = "boot"
  /\ \E locked \in {fram.locked, TRUE} : fram' = [fram EXCEPT !.locked = locked]
  /\ EnterErrorHandler([hmeta EXCEPT !.initialised = FALSE])
  /\ UNCHANGED <<debug, snapshot, saves, overlap, cut>>

----------------------------------------------------------------------------
(* META_dump_metadata, one action per call that can fail or be preempted.  *)

Advance(from, to) == pc = from /\ pc' = to

(* Mutant: the dump does not ask whether hmeta is initialised. *)
EncryptUninitialised ==
  /\ Advance("encrypt_first", "encrypt_last")
  /\ snapshot' = hmeta.data
  /\ UNCHANGED <<debug, hmeta, fram, caller, prevCrash, saves, overlap, cut>>

(* HAL_CRYP_Encrypt walks the struct; a save can land under it. *)
EncryptFirst ==
  /\ Advance("encrypt_first", "encrypt_last")
  /\ hmeta.initialised
  /\ snapshot' = hmeta.data
  /\ UNCHANGED <<debug, hmeta, fram, caller, prevCrash, saves, overlap, cut>>

EncryptLast ==
  /\ Advance("encrypt_last", "unlock")
  /\ snapshot' = [snapshot EXCEPT !.record.last = hmeta.data.record.last]
  /\ UNCHANGED <<debug, hmeta, fram, caller, prevCrash, saves, overlap, cut>>

META_unlock_metadata ==
  /\ Advance("unlock", "write_first")
  /\ fram' = [fram EXCEPT !.locked = FALSE]
  /\ UNCHANGED <<debug, hmeta, caller, snapshot, prevCrash, saves, overlap, cut>>

(* FRAM_Write streams the struct out in order: everything up to the first  *)
(* part of the record, then the rest of it.                                *)
WriteFirst ==
  /\ Advance("write_first", "write_last")
  /\ fram' = [fram EXCEPT
                !.data = [snapshot EXCEPT !.record.last = fram.data.record.last]]
  /\ UNCHANGED <<debug, hmeta, caller, snapshot, prevCrash, saves, overlap, cut>>

(* Mutant: the write is given a size that stops short of the struct. *)
WriteTruncated ==
  /\ Advance("write_last", "lock")
  /\ cut' = (snapshot.record.first # snapshot.record.last /\ cut)
  /\ UNCHANGED <<debug, hmeta, fram, caller, snapshot, prevCrash, saves, overlap>>

WriteLast ==
  /\ Advance("write_last", "lock")
  /\ fram' = [fram EXCEPT !.data.record.last = snapshot.record.last]
  /\ cut' = (snapshot.record.first # snapshot.record.last /\ cut)
  /\ UNCHANGED <<debug, hmeta, caller, snapshot, prevCrash, saves, overlap>>

(* Mutant: the dump returns without protecting the FRAM again. *)
LockForgotten ==
  /\ Advance("lock", IF caller = "background" THEN "idle" ELSE "counters")
  /\ hmeta' = [hmeta EXCEPT !.new_metadata = FALSE]
  /\ UNCHANGED <<debug, fram, caller, snapshot, prevCrash, saves, overlap, cut>>

(* META_lock_metadata, and new_metadata goes down: what was saved since    *)
(* the snapshot is forgotten with it.  The background task is then idle,   *)
(* as nothing in the source raises new_counters; the other two callers go  *)
(* on to META_dump_counters.                                               *)
META_lock_metadata ==
  /\ Advance("lock", IF caller = "background" THEN "idle" ELSE "counters")
  /\ fram' = [fram EXCEPT !.locked = TRUE]
  /\ hmeta' = [hmeta EXCEPT !.new_metadata = FALSE]
  /\ UNCHANGED <<debug, caller, snapshot, prevCrash, saves, overlap, cut>>

(* META_dump_counters; the counters themselves are not followed here. *)
META_dump_counters ==
  /\ pc = "counters"
  /\ hmeta.initialised
  /\ \/ caller = "error" /\ pc' = "finish" /\ UNCHANGED caller
     \/ caller = "boot" /\ pc' = "idle" /\ caller' = "background"
  /\ UNCHANGED <<debug, hmeta, fram, snapshot, prevCrash, saves, overlap, cut>>

(* A call of the dump fails.  META_Configure and s_background_task go to   *)
(* error_handler; error_handler itself ignores the status and goes on.     *)
DumpFails ==
  /\ pc \in DumpSteps \union {"counters"}
  /\ \/ /\ caller # "error"
        /\ EnterErrorHandler(hmeta)
     \/ /\ caller = "error"
        /\ pc' = IF pc = "counters" THEN "finish" ELSE "counters"
        /\ UNCHANGED <<hmeta, caller, prevCrash>>
  /\ AbandonDump
  /\ UNCHANGED <<debug, fram, snapshot, saves, overlap>>

(* The end of error_handler: backup SRAM is erased, and swap_banks is      *)
(* called unless this was the second crash.  swap_banks resets a release   *)
(* build and stops a DEBUG build; otherwise error_handler loops for ever.  *)
FinishErrorHandler ==
  /\ pc = "finish"
  /\ hmeta' = ErasedHmeta
  /\ IF prevCrash \/ debug
     THEN pc' = "hang" /\ UNCHANGED caller
     ELSE pc' = "boot" /\ caller' = "boot"
  /\ overlap' = FALSE
  /\ UNCHANGED <<debug, fram, snapshot, prevCrash, saves, cut>>

----------------------------------------------------------------------------
(* The running application.                                                *)

(* Mutant: the test of new_metadata is inverted. *)
BackgroundInverted ==
  /\ caller = "background"
  /\ Advance("idle", "encrypt_first")
  /\ ~hmeta.new_metadata
  /\ overlap' = FALSE
  /\ UNCHANGED <<debug, hmeta, fram, caller, snapshot, prevCrash, saves, cut>>

(* s_background_task finds new_metadata raised. *)
s_background_task ==
  /\ caller = "background"
  /\ Advance("idle", "encrypt_first")
  /\ hmeta.new_metadata
  /\ overlap' = FALSE
  /\ UNCHANGED <<debug, hmeta, fram, caller, snapshot, prevCrash, saves, cut>>

(* Mutant: a save does not raise new_metadata. *)
SaveUnflagged ==
  /\ Running
  /\ saves < MaxSaves
  /\ saves' = saves + 1
  /\ hmeta' = [hmeta EXCEPT !.data.record = Whole(saves')]
  /\ overlap' = (overlap \/ pc # "idle")
  /\ cut' = (cut \/ pc = "encrypt_last")
  /\ UNCHANGED <<debug, fram, pc, caller, snapshot, prevCrash>>

(* nx_link stores a fresh record.  It outranks the background thread and   *)
(* nothing in the save blocks, so the background thread sees it as one     *)
(* step, between any two of its own.                                       *)
s_save_dhcp_client_record ==
  /\ Running
  /\ saves < MaxSaves
  /\ saves' = saves + 1
  /\ hmeta' = [hmeta EXCEPT !.data.record = Whole(saves'), !.new_metadata = TRUE]
  /\ overlap' = (overlap \/ pc # "idle")
  /\ cut' = (cut \/ pc = "encrypt_last")
  /\ UNCHANGED <<debug, fram, pc, caller, snapshot, prevCrash>>

(* A thread's log call fails inside the secure world (CHECK_STATUS_LOG). *)
LogFails ==
  /\ Running
  /\ EnterErrorHandler(hmeta)
  /\ AbandonDump
  /\ UNCHANGED <<debug, fram, snapshot, saves, overlap>>

----------------------------------------------------------------------------
(* The environment.                                                        *)

(* Non-secure Error_Handler or an NMI: interrupts off, loop for ever. *)
Hang ==
  /\ Running
  /\ pc' = "hang"
  /\ AbandonDump
  /\ UNCHANGED <<debug, hmeta, fram, caller, snapshot, prevCrash, saves, overlap>>

(* An external reset, or a power cycle with the backup domain supplied. *)
Reset ==
  /\ pc # "boot"
  /\ pc' = "boot"
  /\ caller' = "boot"
  /\ AbandonDump
  /\ UNCHANGED <<debug, hmeta, fram, snapshot, prevCrash, saves, overlap>>

(* A power cycle that also loses the backup SRAM, read back as zeros. *)
PowerCycle ==
  /\ pc' = "boot"
  /\ caller' = "boot"
  /\ hmeta' = ErasedHmeta
  /\ overlap' = FALSE
  /\ AbandonDump
  /\ UNCHANGED <<debug, fram, snapshot, prevCrash, saves>>

----------------------------------------------------------------------------
META_dump_metadata ==
  \/ EncryptFirst \/ EncryptLast \/ META_unlock_metadata
  \/ WriteFirst \/ WriteLast \/ META_lock_metadata

Firmware ==
  \/ Boot
  \/ META_dump_metadata
  \/ META_dump_counters
  \/ FinishErrorHandler
  \/ s_background_task

Environment ==
  \/ BootFails \/ DumpFails \/ LogFails
  \/ Hang \/ Reset \/ PowerCycle

Next == Firmware \/ s_save_dhcp_client_record \/ Environment

(* A processor that is not reset executes its next instruction: the        *)
(* firmware's own steps are weakly fair, saves and faults are not.         *)
Spec == Init /\ [][Next]_vars /\ WF_vars(Firmware \/ DumpFails)

----------------------------------------------------------------------------
(* When the background task is idle with new_metadata down, the FRAM holds *)
(* exactly what is live in hmeta, unless a save landed inside the dump     *)
(* that lowered the flag.  No reset, failed dump or crash hides a save     *)
(* from the background task (metadata.h, lines 85-87).                     *)
FlagCoversUnsaved ==
  (Running /\ pc = "idle" /\ ~hmeta.new_metadata /\ ~overlap)
    => fram.data = hmeta.data

(* The record that s_load_dhcp_client_record hands out after a reboot was  *)
(* saved as one record, unless a save landed inside the encryption or      *)
(* power or the processor was lost inside the write.                       *)
RecordWholeUnlessCut ==
  ~cut => hmeta.data.record.first = hmeta.data.record.last

(* No thread runs with the metadata quarter of the FRAM unprotected except *)
(* between the unlock and the lock of a dump, whatever dump was abandoned  *)
(* before (the TODO at metadata.c:298).                                    *)
ProtectedWhileRunning ==
  (Running /\ pc \notin WriteSteps \union {"lock"}) => fram.locked

(* The record in the FRAM never goes back to an older one: a stale or      *)
(* erased hmeta is never dumped (the initialised guard, metadata.c:280).   *)
FramNeverRegresses ==
  [][/\ fram'.data.record.first >= fram.data.record.first
     /\ fram'.data.record.last >= fram.data.record.last]_vars

(* Each part of the record is stored as AbstractStore promises.  In use is *)
(* the part in hmeta, or that in the FRAM when boot will read it from      *)
(* there.  The copy is the snapshot while a dump has one, of the last part *)
(* only when the encryption has reached it.                                *)
InUse(part) == (IF hmeta.initialised THEN hmeta.data ELSE fram.data).record[part]

Copied(part, steps) ==
  IF pc \in steps THEN snapshot.record[part] ELSE InUse(part)

(* What new_metadata being down says to the background task, unless a save *)
(* landed inside the dump that lowered it.                                 *)
Settled == Running /\ pc = "idle" /\ ~hmeta.new_metadata /\ ~overlap

First == INSTANCE AbstractStore
  WITH newest <- saves, inUse <- InUse("first"), durable <- fram.data.record.first,
       copy <- Copied("first", DumpSteps \ {"encrypt_first"}), settled <- Settled

Last == INSTANCE AbstractStore
  WITH newest <- saves, inUse <- InUse("last"), durable <- fram.data.record.last,
       copy <- Copied("last", DumpSteps \ {"encrypt_first", "encrypt_last"}),
       settled <- Settled

(* Over resets, crashes and power cuts a record is only ever replaced by a *)
(* newer one or falls back to the one in the FRAM; what is written there   *)
(* was in use after the last loss; and an idle store with new_metadata     *)
(* down has written what it would hand out.  That the two parts are of one *)
(* record is RecordWholeUnlessCut.                                         *)
KeepsRecord == First!Promise /\ Last!Promise

(* A record saved while the background task is idle reaches the FRAM, or a *)
(* later one does, unless the application stops running.                   *)
SaveReachesFram ==
  \A n \in 1..MaxSaves :
    (Running /\ pc = "idle" /\ hmeta.new_metadata /\ hmeta.data.record = Whole(n))
      ~> (~Running \/ fram.data.record.last >= n)

(* What metadata.h:85 asks for: whenever a write is required the flag is   *)
(* set.  A save inside a dump breaks it.                                   *)
UnsavedIsFlagged ==
  (Running /\ pc = "idle" /\ fram.data # hmeta.data) => hmeta.new_metadata
=============================================================================
