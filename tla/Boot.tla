-------------------------------- MODULE Boot --------------------------------
(***************************************************************************)
(* The secure bootloader of the primary MCU: boot_main step by step, the   *)
(* firmware images it measures and copies, the hashes and flags it keeps   *)
(* of them, and error_handler, which resets the device or stops it.        *)
(*                                                                         *)
(* The flash has two banks, each with a secure image (FLASH_S and          *)
(* FLASH_NSC, hashed together) and a non-secure one.  The processor        *)
(* executes from bank 2 when the SWAP_BANK option byte is set, and the     *)
(* bank numbers below are physical, as in the code.  The content of a      *)
(* region is a member of a small set and stands for its own SHA-256        *)
(* digest; a comparison of first bytes only may find two digests equal     *)
(* when they are not.  The processor or its power can be lost between any  *)
(* two steps; backup SRAM, where hmeta lies, keeps its content over a      *)
(* reset and is read back as zeros after a power cycle that loses it.  A   *)
(* dump of the metadata is one step here: module MetadataStore has its     *)
(* steps.                                                                  *)
(***************************************************************************)
EXTENDS Naturals

VARIABLES
  debug,       \* is this a DEBUG build; never changes
  bankSwap,    \* the SWAP_BANK option byte; no code of the repository writes it
  flash,       \* content of the regions s, nsc and ns of both banks
  hmeta,       \* the metadata handle in backup SRAM
  fram,        \* the metadata in the FRAM
  digest,      \* hintegrity: the digests computed during this boot
  pc,          \* the next step of boot_main or error_handler
  prevCrash,   \* previous_crash, the local of error_handler
  swaps,       \* ghost: calls of swap_banks() since the last reset of another kind
  unrecorded   \* ghost: error_handler has ended without dumping hmeta since then

vars == <<debug, bankSwap, flash, hmeta, fram, digest, pc, prevCrash, swaps, unrecorded>>

----------------------------------------------------------------------------
Banks == {1, 2}
Current == IF bankSwap THEN 2 ELSE 1  \* CURRENT_FLASH_BANK
Other == IF bankSwap THEN 1 ELSE 2    \* OTHER_FLASH_BANK

(* "torn" is what an interrupted, failed or inexact write leaves. *)
Content == {"image", "blank", "torn"}
Flash == [s : [Banks -> Content], nsc : [Banks -> Content], ns : [Banks -> Content]]

(* A digest of a secure image covers FLASH_S and FLASH_NSC; "zero" is what *)
(* a buffer or a field holds before a digest is stored in it.              *)
NoSecureDigest == <<"zero", "zero">>
SecureDigest == (Content \X Content) \union {NoSecureDigest}
NonSecureDigest == Content \union {"zero"}

Entries(D) == [Banks -> [valid : BOOLEAN, hash : D]]
Data == [known : BOOLEAN, crashed : BOOLEAN,
         s : Entries(SecureDigest), ns : Entries(NonSecureDigest)]
Hmeta == [initialised : BOOLEAN, first_boot : BOOLEAN,
          new_metadata : BOOLEAN, data : Data]

NoEntries(zero) == [b \in Banks |-> [valid |-> FALSE, hash |-> zero]]
BlankData == [known |-> FALSE, crashed |-> FALSE,
              s |-> NoEntries(NoSecureDigest), ns |-> NoEntries("zero")]
ErasedHmeta == [initialised |-> FALSE, first_boot |-> FALSE,
                new_metadata |-> FALSE, data |-> BlankData]

FirstBootSteps ==
  {"configure", "record_s", "record_ns", "copy_s", "write_s", "check_s",
   "copy_ns", "write_ns", "check_ns"}
BootSteps == {"start", "measure", "check_current", "erase"} \union FirstBootSteps
Steps == BootSteps \union {"running", "dump", "finish", "hang"}

TypeOK ==
  /\ debug \in BOOLEAN
  /\ bankSwap \in BOOLEAN
  /\ flash \in Flash
  /\ hmeta \in Hmeta
  /\ fram \in Data
  /\ digest \in [s : SecureDigest, ns : [Banks -> NonSecureDigest]]
  /\ pc \in Steps
  /\ prevCrash \in BOOLEAN
  /\ swaps \in 0..2
  /\ unrecorded \in BOOLEAN

(* hintegrity and the digest buffers are in SRAM that boot clears. *)
NoDigest == [s |-> NoSecureDigest, ns |-> [b \in Banks |-> "zero"]]

(* A new device: the firmware has been programmed into the current bank,   *)
(* and each region of the other bank is blank or was programmed as well.   *)
Init ==
  /\ debug \in BOOLEAN
  /\ bankSwap \in BOOLEAN
  /\ \E s, nsc, ns \in {"image", "blank"} :
       flash = [s   |-> [b \in Banks |-> IF b = Current THEN "image" ELSE s],
                nsc |-> [b \in Banks |-> IF b = Current THEN "image" ELSE nsc],
                ns  |-> [b \in Banks |-> IF b = Current THEN "image" ELSE ns]]
  /\ hmeta = ErasedHmeta
  /\ fram = BlankData
  /\ digest = NoDigest
  /\ pc = "start"
  /\ prevCrash = FALSE
  /\ swaps = 0
  /\ unrecorded = FALSE

----------------------------------------------------------------------------
Advance(from, to) == pc = from /\ pc' = to

ghosts == <<swaps, unrecorded>>

(* The digest INTEGRITY_compute_s_firmware_hash finds in bank b. *)
SecureImage(b) == <<flash.s[b], flash.nsc[b]>>

(* META_set_s_firmware_hash and META_set_ns_firmware_hash; both end by     *)
(* setting s_firmware_1_valid (metadata.c, lines 365 and 426).             *)
SetSecureHash(d, b, h) ==
  [d EXCEPT !.s[b] = [valid |-> TRUE, hash |-> h], !.s[1].valid = TRUE]
SetNonSecureHash(d, b, h) ==
  [d EXCEPT !.ns[b] = [valid |-> TRUE, hash |-> h], !.s[1].valid = TRUE]

(* The outcomes of META_check_s_firmware_hash: the length it gives memcmp  *)
(* is one byte (metadata.c, line 395).                                     *)
SecureHashMatches(d, b, h) ==
  {d.s[b].valid /\ same : same \in {TRUE, d.s[b].hash = h}}

(* Mutant: error_handler forgets to set crashed. *)
EnterUnmarked(h) ==
  /\ prevCrash' = h.data.crashed
  /\ hmeta' = h
  /\ pc' = "dump"

(* error_handler up to the dump. *)
EnterErrorHandler(h) ==
  /\ prevCrash' = h.data.crashed
  /\ hmeta' = [h EXCEPT !.data.crashed = TRUE]
  /\ pc' = "dump"

(* swap_banks: the option byte is left as it is; DEBUG loops for ever. *)
SwapBanks ==
  IF debug
  THEN pc' = "hang" /\ UNCHANGED swaps
  ELSE /\ pc' = "start"
       /\ swaps' = IF swaps < 2 THEN swaps + 1 ELSE 2

----------------------------------------------------------------------------
(* boot_main, up to the branch on first_boot.                              *)

(* Whether META_Reinit runs rather than META_Init. *)
Reinit == ~debug /\ hmeta.initialised /\ ~hmeta.data.crashed

(* hmeta after META_Init: the record is read from the FRAM, and an unknown *)
(* device ID makes this the first boot.  METADATA_VERSION is 0.0.0, so a   *)
(* known device is never on its first boot because of a new version.       *)
(* DEBUG then clears crashed and makes every boot the first.               *)
Loaded ==
  [initialised |-> TRUE, first_boot |-> debug \/ ~fram.known,
   new_metadata |-> FALSE,
   data |-> [fram EXCEPT !.crashed = fram.crashed /\ ~debug]]

META_Init ==
  /\ bankSwap \in BOOLEAN
  /\ Advance("start", "measure")
  /\ ~Reinit
  /\ hmeta' = Loaded
  /\ digest' = NoDigest
  /\ UNCHANGED <<debug, bankSwap, flash, fram, prevCrash, ghosts>>

META_Reinit ==
  /\ Advance("start", "measure")
  /\ Reinit
  /\ hmeta.data.known
  /\ hmeta' = [hmeta EXCEPT !.first_boot = FALSE]
  /\ digest' = NoDigest
  /\ UNCHANGED <<debug, bankSwap, flash, fram, prevCrash, ghosts>>

(* META_Init or META_Reinit fails: the FRAM, the random number generator   *)
(* or the decryption; or META_Reinit finds that the reset came before      *)
(* META_Configure had recorded the device ID.                              *)
MetadataFails ==
  /\ pc = "start"
  /\ EnterErrorHandler(
       [hmeta EXCEPT !.initialised = FALSE, !.first_boot = FALSE,
                     !.new_metadata = IF Reinit THEN @ ELSE FALSE])
  /\ digest' = NoDigest
  /\ UNCHANGED <<debug, bankSwap, flash, fram, ghosts>>

(* INTEGRITY_Init and the digest of the current secure image. *)
MeasureCurrent ==
  /\ Advance("measure", IF hmeta.first_boot THEN "configure" ELSE "check_current")
  /\ digest' = [digest EXCEPT !.s = SecureImage(Current)]
  /\ UNCHANGED <<debug, bankSwap, flash, hmeta, fram, prevCrash, ghosts>>

----------------------------------------------------------------------------
(* The first boot.                                                         *)

META_Configure ==
  /\ Advance("configure", "record_s")
  /\ hmeta' = [hmeta EXCEPT !.data.known = TRUE, !.new_metadata = FALSE]
  /\ fram' = hmeta'.data
  /\ UNCHANGED <<debug, bankSwap, flash, digest, prevCrash, ghosts>>

RecordSecure ==
  /\ Advance("record_s", "record_ns")
  /\ hmeta' = [hmeta EXCEPT !.data = SetSecureHash(@, Current, digest.s)]
  /\ UNCHANGED <<debug, bankSwap, flash, fram, digest, prevCrash, ghosts>>

(* Mutant: the digest is of bank 1, whichever bank is current. *)
RecordNonSecureOfBank1 ==
  /\ Advance("record_ns", "copy_s")
  /\ digest' = [digest EXCEPT !.ns[1] = flash.ns[1]]
  /\ hmeta' = [hmeta EXCEPT !.data = SetNonSecureHash(@, 1, digest'.ns[1])]
  /\ UNCHANGED <<debug, bankSwap, flash, fram, prevCrash, ghosts>>

RecordNonSecure ==
  /\ Advance("record_ns", "copy_s")
  /\ digest' = [digest EXCEPT !.ns[Current] = flash.ns[Current]]
  /\ hmeta' = [hmeta EXCEPT !.data = SetNonSecureHash(@, Current, digest'.ns[Current])]
  /\ UNCHANGED <<debug, bankSwap, flash, fram, prevCrash, ghosts>>

(* copy_s_firmware_to_other_bank and copy_ns_firmware do nothing in a      *)
(* DEBUG build.                                                            *)
SkipCopies ==
  /\ debug
  /\ Advance("copy_s", "erase")
  /\ UNCHANGED <<debug, bankSwap, flash, hmeta, fram, digest, prevCrash, ghosts>>

(* copy_s_firmware_to_other_bank: the flag goes down and write_flash       *)
(* starts; only FLASH_S is written, never FLASH_NSC.                       *)
CopySecure ==
  /\ ~debug
  /\ Advance("copy_s", "write_s")
  /\ hmeta' = [hmeta EXCEPT !.data.s[Other].valid = FALSE]
  /\ flash' = [flash EXCEPT !.s[Other] = "torn"]
  /\ UNCHANGED <<debug, bankSwap, fram, digest, prevCrash, ghosts>>

(* write_flash returns MEM_OK, exactly done or not, and the expected hash  *)
(* is set, which raises the flag.                                          *)
WriteSecure ==
  /\ Advance("write_s", "check_s")
  /\ \E c \in {flash.s[Current], "torn"} : flash' = [flash EXCEPT !.s[Other] = c]
  /\ hmeta' = [hmeta EXCEPT !.data = SetSecureHash(@, Other, digest.s)]
  /\ UNCHANGED <<debug, bankSwap, fram, digest, prevCrash, ghosts>>

(* check_s_firmware on the copy. *)
CheckSecure ==
  /\ pc = "check_s"
  /\ \E valid \in SecureHashMatches(hmeta.data, Other, SecureImage(Other)) :
       LET h == [hmeta EXCEPT !.data.s[Other].valid = valid]
       IN IF valid
          THEN hmeta' = h /\ pc' = "copy_ns" /\ UNCHANGED prevCrash
          ELSE EnterErrorHandler(h)
  /\ UNCHANGED <<debug, bankSwap, flash, fram, digest, ghosts>>

(* copy_ns_firmware(FLASH_BANK_1, FLASH_BANK_2), whichever bank is current. *)
CopyNonSecure ==
  /\ Advance("copy_ns", "write_ns")
  /\ hmeta' = [hmeta EXCEPT !.data.ns[2].valid = FALSE]
  /\ flash' = [flash EXCEPT !.ns[2] = "torn"]
  /\ UNCHANGED <<debug, bankSwap, fram, digest, prevCrash, ghosts>>

WriteNonSecure ==
  /\ Advance("write_ns", "check_ns")
  /\ \E c \in {flash.ns[1], "torn"} : flash' = [flash EXCEPT !.ns[2] = c]
  /\ hmeta' = [hmeta EXCEPT !.data = SetNonSecureHash(@, 2, digest.ns[1])]
  /\ UNCHANGED <<debug, bankSwap, fram, digest, prevCrash, ghosts>>

(* Mutant: the result of the comparison is not returned to the caller. *)
CheckNonSecureIgnored ==
  /\ Advance("check_ns", "erase")
  /\ digest' = [digest EXCEPT !.ns[2] = flash.ns[2]]
  /\ hmeta' = [hmeta EXCEPT !.data.ns[2].valid = (digest'.ns[2] = hmeta.data.ns[2].hash)]
  /\ UNCHANGED <<debug, bankSwap, flash, fram, prevCrash, ghosts>>

(* check_ns_firmware on the copy, on all the bytes of the digests. *)
CheckNonSecure ==
  /\ pc = "check_ns"
  /\ digest' = [digest EXCEPT !.ns[2] = flash.ns[2]]
  /\ LET valid == digest'.ns[2] = hmeta.data.ns[2].hash
         h == [hmeta EXCEPT !.data.ns[2].valid = valid]
     IN IF valid
        THEN hmeta' = h /\ pc' = "erase" /\ UNCHANGED prevCrash
        ELSE EnterErrorHandler(h)
  /\ UNCHANGED <<debug, bankSwap, flash, fram, ghosts>>

----------------------------------------------------------------------------
(* Any other boot.  Both branches of the test end in error_handler; what   *)
(* follows them in boot_main (lines 172 to 211) is never reached.          *)
CheckCurrent ==
  /\ pc = "check_current"
  /\ \E valid \in SecureHashMatches(hmeta.data, Current, digest.s) :
       \/ /\ ~valid
          /\ hmeta.data.s[Other].valid
          /\ SwapBanks
          /\ UNCHANGED <<hmeta, prevCrash>>
       \/ /\ valid \/ ~hmeta.data.s[Other].valid
          /\ EnterErrorHandler(hmeta)
          /\ UNCHANGED swaps
  /\ UNCHANGED <<debug, bankSwap, flash, fram, digest, unrecorded>>

(* SRAM3 is erased, first_boot goes down and the non-secure firmware runs. *)
JumpToNonSecure ==
  /\ Advance("erase", "running")
  /\ hmeta' = [hmeta EXCEPT !.first_boot = FALSE]
  /\ UNCHANGED <<debug, bankSwap, flash, fram, digest, prevCrash, ghosts>>

(* A hash that times out, a flash program operation that fails, a dump     *)
(* that fails, a RAM that cannot be erased.                                *)
StepFails ==
  /\ pc \in {"measure", "configure", "record_ns", "write_s", "check_s",
             "write_ns", "check_ns", "erase"}
  /\ EnterErrorHandler(
       IF pc = "configure" THEN [hmeta EXCEPT !.data.known = TRUE] ELSE hmeta)
  /\ UNCHANGED <<debug, bankSwap, flash, fram, digest, ghosts>>

----------------------------------------------------------------------------
(* error_handler, from the dump on.                                        *)

DumpMetadata ==
  /\ Advance("dump", "finish")
  /\ hmeta.initialised
  /\ fram' = hmeta.data
  /\ hmeta' = [hmeta EXCEPT !.new_metadata = FALSE]
  /\ UNCHANGED <<debug, bankSwap, flash, digest, prevCrash, ghosts>>

(* hmeta is not initialised, or a call of the dump fails. *)
DumpNothing ==
  /\ Advance("dump", "finish")
  /\ unrecorded' = TRUE
  /\ UNCHANGED <<debug, bankSwap, flash, hmeta, fram, digest, prevCrash, swaps>>

(* Mutant: swap_banks is called after a second crash too. *)
FinishAlwaysSwaps ==
  /\ pc = "finish"
  /\ hmeta' = ErasedHmeta
  /\ SwapBanks
  /\ UNCHANGED <<debug, bankSwap, flash, fram, digest, prevCrash, unrecorded>>

(* Mutant: after the dump, error_handler returns to its caller, who goes   *)
(* on to the end of boot.                                                  *)
FinishReturns ==
  /\ Advance("finish", "erase")
  /\ UNCHANGED <<debug, bankSwap, flash, hmeta, fram, digest, prevCrash, ghosts>>

(* Backup SRAM is erased; swap_banks unless the last boot crashed as well. *)
FinishErrorHandler ==
  /\ pc = "finish"
  /\ hmeta' = ErasedHmeta
  /\ IF prevCrash
     THEN pc' = "hang" /\ UNCHANGED swaps
     ELSE SwapBanks
  /\ UNCHANGED <<debug, bankSwap, flash, fram, digest, prevCrash, unrecorded>>

----------------------------------------------------------------------------
(* The running application, as far as the bootloader is concerned.         *)

s_save_dhcp_client_record ==
  /\ pc = "running"
  /\ hmeta' = [hmeta EXCEPT !.new_metadata = TRUE]
  /\ UNCHANGED <<debug, bankSwap, flash, fram, digest, pc, prevCrash, ghosts>>

s_background_task ==
  /\ pc = "running"
  /\ hmeta.new_metadata
  /\ fram' = hmeta.data
  /\ hmeta' = [hmeta EXCEPT !.new_metadata = FALSE]
  /\ UNCHANGED <<debug, bankSwap, flash, digest, pc, prevCrash, ghosts>>

(* A secure service called by the application ends in error_handler. *)
ServiceFails ==
  /\ pc = "running"
  /\ EnterErrorHandler(hmeta)
  /\ UNCHANGED <<debug, bankSwap, flash, fram, digest, ghosts>>

----------------------------------------------------------------------------
(* The environment.                                                        *)

(* The non-secure Error_Handler or nmi_handler loops for ever. *)
Hang ==
  /\ Advance("running", "hang")
  /\ UNCHANGED <<debug, bankSwap, flash, hmeta, fram, digest, prevCrash, ghosts>>

Restart ==
  /\ pc' = "start"
  /\ swaps' = 0
  /\ unrecorded' = FALSE
  /\ UNCHANGED <<debug, bankSwap, flash, fram, digest, prevCrash>>

(* The reset pin, or a power cycle that keeps the backup domain supplied. *)
Reset == Restart /\ UNCHANGED hmeta

PowerCycle == Restart /\ hmeta' = ErasedHmeta

(* The current secure image decays while the device is off. *)
Corrupt ==
  /\ pc = "start"
  /\ flash' = [flash EXCEPT !.s[Current] = "torn"]
  /\ UNCHANGED <<debug, bankSwap, hmeta, fram, digest, pc, prevCrash, ghosts>>

----------------------------------------------------------------------------
FirstBoot ==
  \/ META_Configure \/ RecordSecure \/ RecordNonSecure
  \/ SkipCopies \/ CopySecure \/ WriteSecure \/ CheckSecure
  \/ CopyNonSecure \/ WriteNonSecure \/ CheckNonSecure

boot_main ==
  \/ META_Init \/ META_Reinit \/ MeasureCurrent
  \/ FirstBoot \/ CheckCurrent \/ JumpToNonSecure

error_handler == DumpMetadata \/ DumpNothing \/ FinishErrorHandler

Faults == MetadataFails \/ StepFails \/ ServiceFails \/ Hang

Next ==
  \/ boot_main \/ error_handler
  \/ s_save_dhcp_client_record \/ s_background_task
  \/ Faults \/ Reset \/ PowerCycle \/ Corrupt

(* The processor executes: a step of boot or of error_handler, or its      *)
(* failure, is taken sooner or later.                                      *)
Spec ==
  /\ Init /\ [][Next]_vars
  /\ WF_vars(boot_main \/ error_handler \/ MetadataFails)

----------------------------------------------------------------------------
(* A release build runs the application only over two equal non-secure     *)
(* images whose stored hashes are theirs and whose flags say so, whatever  *)
(* write was torn or inexact (boot_main.c, lines 147 to 151).              *)
RunningImagesVerified ==
  (pc = "running" /\ ~debug) =>
    /\ flash.ns[1] = flash.ns[2]
    /\ \A b \in Banks :
         hmeta.data.ns[b] = [valid |-> TRUE, hash |-> flash.ns[b]]

(* Neither error_handler nor a failed boot lets the application run: it    *)
(* runs only over an initialised metadata handle that knows this device,   *)
(* after this boot's digest of the current secure image was stored.        *)
RunningIsMeasured ==
  pc = "running" =>
    /\ hmeta.initialised /\ hmeta.data.known
    /\ hmeta.data.s[Current].hash = digest.s
    /\ digest.s # NoSecureDigest

(* The application that runs is the one programmed into the current bank.  *)
(* A first boot executed from bank 2 copies bank 1 over it (boot_main.c,   *)
(* line 150, against the comment at line 147); what that leaves, torn,     *)
(* inexact or the other bank's content, is never run, in this boot or in   *)
(* a later one.                                                            *)
RunsAsProgrammed == pc = "running" => flash.ns[Current] = "image"

(* error_handler resets the device at most once in a row, as long as it    *)
(* could record the first crash and the executing image is intact          *)
(* (error.c, line 38): the reset is not seen as a fresh start.             *)
NoFlipFlopOnceRecorded ==
  (~unrecorded /\ flash.s[Current] # "torn") => swaps <= 1

(* Unless it is reset from outside again and again, every boot ends: the   *)
(* application runs or the device stops.  The device never resets itself   *)
(* for ever, unless a crash could not be recorded or the executing image   *)
(* is damaged.                                                             *)
BootEnds ==
  \/ []<><<Reset \/ PowerCycle>>_vars
  \/ (pc = "start") ~>
       (pc \in {"running", "hang"} \/ unrecorded \/ flash.s[Current] = "torn")

----------------------------------------------------------------------------
(* What a comment of the source says, and the code does not do.            *)

(* The secure image of bank b is the one whose hash is stored. *)
SecureIntact(b) ==
  hmeta.data.s[b] = [valid |-> TRUE, hash |-> SecureImage(b)]
NonSecureIntact(b) ==
  hmeta.data.ns[b] = [valid |-> TRUE, hash |-> flash.ns[b]]

(* boot_main.c:54: "If other isn't corrupted and current isn't then        *)
(* continue".                                                              *)
IntactBootContinues ==
  [][(pc = "check_current" /\ \A b \in Banks : SecureIntact(b) /\ NonSecureIntact(b))
       => pc' # "dump"]_vars
=============================================================================
