------------------------ MODULE MetadataStoreProofs ------------------------
(***************************************************************************)
(* What holds of MetadataStore for either build and any number of saves.   *)
(*                                                                         *)
(* The invariants of MetadataStore are not inductive: whether the FRAM     *)
(* agrees with hmeta when a dump ends depends on what the snapshot held    *)
(* while the dump was under way, and whether it may be written at all on   *)
(* where boot left the initialised flag.  IInv adds those facts, step by   *)
(* step of the dump.                                                       *)
(***************************************************************************)
EXTENDS MetadataStore, TLAPS

IsWhole(record) == record.first = record.last
NotAfter(r, s) == r.first <= s.first /\ r.last <= s.last

(* The dump steps after the snapshot has been started. *)
AfterSnapshot == {"encrypt_last", "unlock", "lock"} \union WriteSteps

(* No save can have landed since the snapshot of this dump was taken. *)
Fresh == caller = "boot" \/ (caller = "background" /\ ~overlap)

(* Who can be where. *)
ControlInv ==
  /\ caller = "background" => pc \in DumpSteps \union {"idle", "hang"}
  /\ caller = "boot" => pc \in DumpSteps \union {"boot", "counters"}
  /\ caller = "error" => pc \in DumpSteps \union {"counters", "finish", "hang"}

(* Only an initialised, known hmeta is ever dumped. *)
InitialisedInv ==
  /\ pc \in AfterSnapshot => hmeta.initialised /\ snapshot.known
  /\ (caller # "error" /\ pc # "boot" /\ pc # "hang") => hmeta.initialised
  /\ hmeta.initialised => hmeta.data.known
  /\ ~fram.data.known => fram.data.record = Whole(0)
  /\ pc = "write_last" => fram.data.known

(* The dump carries hmeta to the FRAM unless a save lands inside it. *)
CarriedInv ==
  /\ (Fresh /\ pc \in AfterSnapshot) => snapshot = hmeta.data
  /\ (Fresh /\ pc = "write_last") =>
       fram.data = [snapshot EXCEPT !.record.last = fram.data.record.last]
  /\ (Fresh /\ pc = "lock") => fram.data = snapshot
  /\ (Fresh /\ pc = "counters") => fram.data = hmeta.data
  /\ (Fresh /\ pc = "idle" /\ ~hmeta.new_metadata) => fram.data = hmeta.data

(* The protection is up before the unlock and after the lock. *)
ProtectionInv ==
  (caller # "error" /\ pc \in {"encrypt_first", "encrypt_last", "unlock", "counters", "idle"})
    => fram.locked

(* A record that is not whole stems from a cut. *)
WholeInv ==
  /\ ~cut => /\ IsWhole(hmeta.data.record)
             /\ pc # "write_last" => IsWhole(fram.data.record)
             /\ pc \in AfterSnapshot \ {"encrypt_last"} => IsWhole(snapshot.record)
             /\ pc = "encrypt_last" => snapshot.record.first = hmeta.data.record.first
  /\ pc \in AfterSnapshot =>
       IsWhole(hmeta.data.record) \/ snapshot.record = hmeta.data.record
  /\ pc = "write_last" => fram.data.record.first = snapshot.record.first

(* The FRAM is never ahead of the snapshot being written, nor that of      *)
(* hmeta, nor anything of the saves made.                                  *)
OrderInv ==
  /\ hmeta.initialised => NotAfter(fram.data.record, hmeta.data.record)
  /\ pc \in AfterSnapshot => /\ NotAfter(fram.data.record, snapshot.record)
                             /\ NotAfter(snapshot.record, hmeta.data.record)
  /\ NotAfter(hmeta.data.record, Whole(saves))
  /\ NotAfter(fram.data.record, Whole(saves))

IInv ==
  /\ TypeOK
  /\ ControlInv
  /\ InitialisedInv
  /\ CarriedInv
  /\ ProtectionInv
  /\ WholeInv
  /\ OrderInv
----------------------------------------------------------------------------
USE DEF Serial, Record, Whole, Data, Hmeta, Fram, WriteSteps, DumpSteps, Steps,
        AfterSnapshot, BlankData, ErasedHmeta

LEMMA InitIInv == Init => IInv
<1> SUFFICES ASSUME Init PROVE IInv
  OBVIOUS
<1>1. ErasedHmeta \in Hmeta /\ BlankData \in Data
  BY MetadataStoreAssumption
<1>2. TypeOK
  BY <1>1, MetadataStoreAssumption DEF Init, TypeOK
<1> QED
  BY <1>2, MetadataStoreAssumption
  DEF IInv, Init, ControlInv, InitialisedInv, CarriedInv, ProtectionInv, WholeInv,
      OrderInv, Fresh, IsWhole, NotAfter

LEMMA Step_Boot ==
  ASSUME IInv, Boot PROVE IInv'
<1>0. PICK h \in Hmeta :
        /\ (EnterErrorHandler(h) /\ h.data.known) \/ Configure(h)
        /\ h.initialised
        /\ NotAfter(fram.data.record, h.data.record)
        /\ NotAfter(h.data.record, Whole(saves))
        /\ ~cut => IsWhole(h.data.record)
  <2>1. /\ Loaded \in Hmeta /\ Loaded.initialised
        /\ Loaded.data.known = fram.data.known
        /\ Loaded.data.record = fram.data.record
    BY MetadataStoreAssumption DEF IInv, TypeOK, InitialisedInv, Loaded
  <2>2. /\ NotAfter(fram.data.record, fram.data.record)
        /\ NotAfter(fram.data.record, Whole(saves))
        /\ ~cut => IsWhole(fram.data.record)
    BY DEF IInv, TypeOK, OrderInv, WholeInv, NotAfter, Boot
  <2>3. CASE BootDebug
    <3> DEFINE h == [Loaded EXCEPT !.data.crashed = FALSE]
    <3>1. h \in Hmeta /\ h.initialised /\ h.data.record = fram.data.record
      BY <2>1
    <3>2. Configure(h)
      BY <2>3 DEF BootDebug
    <3> QED
      BY <2>2, <3>1, <3>2
  <2>4. CASE BootRelease
    <3>1. CASE hmeta.initialised /\ ~hmeta.data.crashed
      BY <2>4, <3>1 DEF IInv, TypeOK, InitialisedInv, OrderInv, WholeInv, BootRelease
    <3>2. CASE ~(hmeta.initialised /\ ~hmeta.data.crashed)
      BY <2>1, <2>2, <2>4, <3>2 DEF BootRelease
    <3> QED
      BY <3>1, <3>2
  <2> QED
    BY <2>3, <2>4 DEF Boot
<1>9. /\ pc = "boot" /\ pc' = "encrypt_first"
      /\ cut' = cut /\ saves' = saves /\ snapshot' = snapshot
      /\ fram' = [fram EXCEPT !.locked = TRUE]
      /\ overlap' \in BOOLEAN /\ prevCrash' \in BOOLEAN
      /\ caller' \in {"boot", "error"}
      /\ hmeta' \in Hmeta /\ hmeta'.initialised /\ hmeta'.data.known
      /\ hmeta'.data.record = h.data.record
  <2>1. overlap' \in BOOLEAN
    BY DEF Boot, BootDebug, BootRelease
  <2>2. /\ pc = "boot"
        /\ fram' = [fram EXCEPT !.locked = TRUE]
        /\ UNCHANGED <<snapshot, saves, cut>>
    BY DEF Boot
  <2>3. CASE EnterErrorHandler(h) /\ h.data.known
    BY <1>0, <2>1, <2>2, <2>3 DEF EnterErrorHandler
  <2>4. CASE Configure(h)
    BY <1>0, <2>1, <2>2, <2>4 DEF IInv, TypeOK, Configure
  <2> QED
    BY <1>0, <2>3, <2>4
<1>1. TypeOK'
  <2>1. debug' \in BOOLEAN
    BY DEF IInv, TypeOK, Boot
  <2>2. /\ fram' \in Fram /\ snapshot' \in Data /\ saves' \in Serial
        /\ cut' \in BOOLEAN
    BY <1>9 DEF IInv, TypeOK
  <2> QED
    BY <1>9, <2>1, <2>2 DEF TypeOK
<1>2. ControlInv'
  BY <1>0, <1>9 DEF IInv, TypeOK, ControlInv
<1>3. InitialisedInv'
  BY <1>0, <1>9 DEF IInv, TypeOK, ControlInv, InitialisedInv, OrderInv
<1>4. CarriedInv'
  BY <1>0, <1>9 DEF IInv, TypeOK, ControlInv, CarriedInv, Fresh
<1>5. ProtectionInv'
  BY <1>0, <1>9 DEF IInv, TypeOK, ControlInv, ProtectionInv
<1>6. WholeInv'
  BY <1>0, <1>9 DEF IInv, TypeOK, WholeInv, IsWhole
<1>7. OrderInv'
  BY <1>0, <1>9 DEF IInv, TypeOK, InitialisedInv, OrderInv, NotAfter
<1> QED
  BY <1>1, <1>2, <1>3, <1>4, <1>5, <1>6, <1>7 DEF IInv

LEMMA Step_BootFails ==
  ASSUME IInv, BootFails PROVE IInv'
<1>1. TypeOK'
  <2>1. hmeta' \in Hmeta /\ fram' \in Fram /\ snapshot' \in Data
    BY DEF IInv, TypeOK, BootFails, EnterErrorHandler
  <2>2. prevCrash' \in BOOLEAN
    BY DEF IInv, TypeOK, BootFails, EnterErrorHandler
  <2> HIDE DEF Data, Hmeta, Fram
  <2> QED
    BY <2>1, <2>2 DEF IInv, TypeOK, BootFails, EnterErrorHandler
<1>2. ControlInv'
  BY DEF IInv, TypeOK, ControlInv, BootFails, EnterErrorHandler
<1>3. InitialisedInv'
  BY DEF IInv, TypeOK, ControlInv, InitialisedInv, OrderInv, BootFails,
      EnterErrorHandler
<1>4. CarriedInv'
  BY DEF IInv, TypeOK, ControlInv, CarriedInv, Fresh, BootFails, EnterErrorHandler
<1>5. ProtectionInv'
  BY DEF IInv, TypeOK, ControlInv, ProtectionInv, BootFails, EnterErrorHandler
<1>6. WholeInv'
  BY DEF IInv, TypeOK, WholeInv, IsWhole, BootFails, EnterErrorHandler
<1>7. OrderInv'
  BY DEF IInv, TypeOK, InitialisedInv, OrderInv, NotAfter, BootFails,
      EnterErrorHandler
<1> QED
  BY <1>1, <1>2, <1>3, <1>4, <1>5, <1>6, <1>7 DEF IInv

LEMMA Step_EncryptFirst ==
  ASSUME IInv, EncryptFirst PROVE IInv'
<1>1. TypeOK'
  <2>1. hmeta' \in Hmeta /\ fram' \in Fram /\ snapshot' \in Data
    BY DEF IInv, TypeOK, EncryptFirst, Advance
  <2> HIDE DEF Data, Hmeta, Fram
  <2> QED
    BY <2>1 DEF IInv, TypeOK, EncryptFirst, Advance
<1>2. ControlInv'
  BY DEF IInv, TypeOK, ControlInv, EncryptFirst, Advance
<1>3. InitialisedInv'
  BY DEF IInv, TypeOK, ControlInv, InitialisedInv, OrderInv, EncryptFirst, Advance
<1>4. CarriedInv'
  BY DEF IInv, TypeOK, ControlInv, CarriedInv, Fresh, EncryptFirst, Advance
<1>5. ProtectionInv'
  BY DEF IInv, TypeOK, ControlInv, ProtectionInv, EncryptFirst, Advance
<1>6. WholeInv'
  BY DEF IInv, TypeOK, WholeInv, IsWhole, EncryptFirst, Advance
<1>7. OrderInv'
  BY DEF IInv, TypeOK, InitialisedInv, OrderInv, NotAfter, EncryptFirst, Advance
<1> QED
  BY <1>1, <1>2, <1>3, <1>4, <1>5, <1>6, <1>7 DEF IInv

LEMMA Step_EncryptLast ==
  ASSUME IInv, EncryptLast PROVE IInv'
<1>1. TypeOK'
  <2>1. hmeta' \in Hmeta /\ fram' \in Fram /\ snapshot' \in Data
    BY DEF IInv, TypeOK, EncryptLast, Advance
  <2> HIDE DEF Data, Hmeta, Fram
  <2> QED
    BY <2>1 DEF IInv, TypeOK, EncryptLast, Advance
<1>2. ControlInv'
  BY DEF IInv, TypeOK, ControlInv, EncryptLast, Advance
<1>3. InitialisedInv'
  BY DEF IInv, TypeOK, ControlInv, InitialisedInv, OrderInv, EncryptLast, Advance
<1>4. CarriedInv'
  BY DEF IInv, TypeOK, ControlInv, CarriedInv, Fresh, EncryptLast, Advance
<1>5. ProtectionInv'
  BY DEF IInv, TypeOK, ControlInv, ProtectionInv, EncryptLast, Advance
<1>6. WholeInv'
  BY DEF IInv, TypeOK, WholeInv, IsWhole, EncryptLast, Advance
<1>7. OrderInv'
  BY DEF IInv, TypeOK, InitialisedInv, OrderInv, NotAfter, EncryptLast, Advance
<1> QED
  BY <1>1, <1>2, <1>3, <1>4, <1>5, <1>6, <1>7 DEF IInv

LEMMA Step_META_unlock_metadata ==
  ASSUME IInv, META_unlock_metadata PROVE IInv'
<1>1. TypeOK'
  <2>1. hmeta' \in Hmeta /\ fram' \in Fram /\ snapshot' \in Data
    BY DEF IInv, TypeOK, META_unlock_metadata, Advance
  <2> HIDE DEF Data, Hmeta, Fram
  <2> QED
    BY <2>1 DEF IInv, TypeOK, META_unlock_metadata, Advance
<1>2. ControlInv'
  BY DEF IInv, TypeOK, ControlInv, META_unlock_metadata, Advance
<1>3. InitialisedInv'
  BY DEF IInv, TypeOK, ControlInv, InitialisedInv, OrderInv, META_unlock_metadata,
      Advance
<1>4. CarriedInv'
  BY DEF IInv, TypeOK, ControlInv, CarriedInv, Fresh, META_unlock_metadata, Advance
<1>5. ProtectionInv'
  BY DEF IInv, TypeOK, ControlInv, ProtectionInv, META_unlock_metadata, Advance
<1>6. WholeInv'
  BY DEF IInv, TypeOK, WholeInv, IsWhole, META_unlock_metadata, Advance
<1>7. OrderInv'
  BY DEF IInv, TypeOK, InitialisedInv, OrderInv, NotAfter, META_unlock_metadata,
      Advance
<1> QED
  BY <1>1, <1>2, <1>3, <1>4, <1>5, <1>6, <1>7 DEF IInv

LEMMA Step_WriteFirst ==
  ASSUME IInv, WriteFirst PROVE IInv'
<1>1. TypeOK'
  <2>1. hmeta' \in Hmeta /\ fram' \in Fram /\ snapshot' \in Data
    BY DEF IInv, TypeOK, WriteFirst, Advance
  <2> HIDE DEF Data, Hmeta, Fram
  <2> QED
    BY <2>1 DEF IInv, TypeOK, WriteFirst, Advance
<1>2. ControlInv'
  BY DEF IInv, TypeOK, ControlInv, WriteFirst, Advance
<1>3. InitialisedInv'
  BY DEF IInv, TypeOK, ControlInv, InitialisedInv, OrderInv, WriteFirst, Advance
<1>4. CarriedInv'
  BY DEF IInv, TypeOK, ControlInv, CarriedInv, Fresh, WriteFirst, Advance
<1>5. ProtectionInv'
  BY DEF IInv, TypeOK, ControlInv, ProtectionInv, WriteFirst, Advance
<1>6. WholeInv'
  BY DEF IInv, TypeOK, WholeInv, IsWhole, WriteFirst, Advance
<1>7. OrderInv'
  BY DEF IInv, TypeOK, InitialisedInv, OrderInv, NotAfter, WriteFirst, Advance
<1> QED
  BY <1>1, <1>2, <1>3, <1>4, <1>5, <1>6, <1>7 DEF IInv

LEMMA Step_WriteLast ==
  ASSUME IInv, WriteLast PROVE IInv'
<1>1. TypeOK'
  <2>1. hmeta' \in Hmeta /\ fram' \in Fram /\ snapshot' \in Data
    BY DEF IInv, TypeOK, WriteLast, Advance
  <2> HIDE DEF Data, Hmeta, Fram
  <2> QED
    BY <2>1 DEF IInv, TypeOK, WriteLast, Advance
<1>2. ControlInv'
  BY DEF IInv, TypeOK, ControlInv, WriteLast, Advance
<1>3. InitialisedInv'
  BY DEF IInv, TypeOK, ControlInv, InitialisedInv, OrderInv, WriteLast, Advance
<1>4. CarriedInv'
  BY DEF IInv, TypeOK, ControlInv, CarriedInv, Fresh, WriteLast, Advance
<1>5. ProtectionInv'
  BY DEF IInv, TypeOK, ControlInv, ProtectionInv, WriteLast, Advance
<1>6. WholeInv'
  BY DEF IInv, TypeOK, WholeInv, IsWhole, WriteLast, Advance
<1>7. OrderInv'
  BY DEF IInv, TypeOK, InitialisedInv, OrderInv, NotAfter, WriteLast, Advance
<1> QED
  BY <1>1, <1>2, <1>3, <1>4, <1>5, <1>6, <1>7 DEF IInv

LEMMA Step_META_lock_metadata ==
  ASSUME IInv, META_lock_metadata PROVE IInv'
<1>1. TypeOK'
  <2>1. hmeta' \in Hmeta /\ fram' \in Fram /\ snapshot' \in Data
    BY DEF IInv, TypeOK, META_lock_metadata, Advance
  <2> HIDE DEF Data, Hmeta, Fram
  <2> QED
    BY <2>1 DEF IInv, TypeOK, META_lock_metadata, Advance
<1>2. ControlInv'
  BY DEF IInv, TypeOK, ControlInv, META_lock_metadata, Advance
<1>3. InitialisedInv'
  BY DEF IInv, TypeOK, ControlInv, InitialisedInv, OrderInv, META_lock_metadata,
      Advance
<1>4. CarriedInv'
  BY DEF IInv, TypeOK, ControlInv, CarriedInv, Fresh, META_lock_metadata, Advance
<1>5. ProtectionInv'
  BY DEF IInv, TypeOK, ControlInv, ProtectionInv, META_lock_metadata, Advance
<1>6. WholeInv'
  BY DEF IInv, TypeOK, WholeInv, IsWhole, META_lock_metadata, Advance
<1>7. OrderInv'
  BY DEF IInv, TypeOK, InitialisedInv, OrderInv, NotAfter, META_lock_metadata,
      Advance
<1> QED
  BY <1>1, <1>2, <1>3, <1>4, <1>5, <1>6, <1>7 DEF IInv

LEMMA Step_META_dump_counters ==
  ASSUME IInv, META_dump_counters PROVE IInv'
<1>1. TypeOK'
  <2>1. hmeta' \in Hmeta /\ fram' \in Fram /\ snapshot' \in Data
    BY DEF IInv, TypeOK, META_dump_counters
  <2> HIDE DEF Data, Hmeta, Fram
  <2> QED
    BY <2>1 DEF IInv, TypeOK, META_dump_counters
<1>2. ControlInv'
  BY DEF IInv, TypeOK, ControlInv, META_dump_counters
<1>3. InitialisedInv'
  BY DEF IInv, TypeOK, ControlInv, InitialisedInv, OrderInv, META_dump_counters
<1>4. CarriedInv'
  BY DEF IInv, TypeOK, ControlInv, CarriedInv, Fresh, META_dump_counters
<1>5. ProtectionInv'
  BY DEF IInv, TypeOK, ControlInv, ProtectionInv, META_dump_counters
<1>6. WholeInv'
  BY DEF IInv, TypeOK, WholeInv, IsWhole, META_dump_counters
<1>7. OrderInv'
  BY DEF IInv, TypeOK, InitialisedInv, OrderInv, NotAfter, META_dump_counters
<1> QED
  BY <1>1, <1>2, <1>3, <1>4, <1>5, <1>6, <1>7 DEF IInv

(* error_handler is entered from anywhere and abandons a dump under way. *)
LEMMA EnterStep ==
  ASSUME IInv, EnterErrorHandler(hmeta), AbandonDump,
         UNCHANGED <<debug, fram, snapshot, saves, overlap>>
  PROVE IInv'
<1>1. TypeOK'
  <2>1. cut' \in BOOLEAN
    BY DEF IInv, TypeOK, AbandonDump
  <2>2. hmeta' \in Hmeta /\ prevCrash' \in BOOLEAN
    BY DEF IInv, TypeOK, EnterErrorHandler
  <2> QED
    BY <2>1, <2>2 DEF IInv, TypeOK, EnterErrorHandler
<1>2. ControlInv'
  BY DEF IInv, TypeOK, ControlInv, EnterErrorHandler, AbandonDump
<1>3. InitialisedInv'
  BY DEF IInv, TypeOK, ControlInv, InitialisedInv, OrderInv, LogFails,
      EnterErrorHandler, AbandonDump
<1>4. CarriedInv'
  BY DEF IInv, TypeOK, ControlInv, CarriedInv, Fresh, EnterErrorHandler,
      AbandonDump
<1>5. ProtectionInv'
  BY DEF IInv, TypeOK, ControlInv, ProtectionInv, EnterErrorHandler,
      AbandonDump
<1>6. WholeInv'
  BY DEF IInv, TypeOK, WholeInv, IsWhole, EnterErrorHandler, AbandonDump
<1>7. OrderInv'
  BY DEF IInv, TypeOK, InitialisedInv, OrderInv, NotAfter, LogFails,
      EnterErrorHandler, AbandonDump
<1> QED
  BY <1>1, <1>2, <1>3, <1>4, <1>5, <1>6, <1>7 DEF IInv

(* error_handler ignores a failed call and goes on to the next one. *)
LEMMA IgnoreStep ==
  ASSUME IInv, pc \in DumpSteps \union {"counters"}, caller = "error",
         pc' \in {"counters", "finish"}, AbandonDump,
         UNCHANGED <<debug, hmeta, caller, prevCrash, fram, snapshot, saves, overlap>>
  PROVE IInv'
<1>1. TypeOK'
  <2>1. cut' \in BOOLEAN
    BY DEF IInv, TypeOK, AbandonDump
  <2> QED
    BY <2>1 DEF IInv, TypeOK
<1>2. ControlInv'
  BY DEF IInv, TypeOK, ControlInv, AbandonDump
<1>3. InitialisedInv'
  BY DEF IInv, TypeOK, ControlInv, InitialisedInv, OrderInv, DumpFails,
      EnterErrorHandler, AbandonDump
<1>4. CarriedInv'
  BY DEF IInv, TypeOK, ControlInv, CarriedInv, Fresh, DumpFails, EnterErrorHandler,
      AbandonDump
<1>5. ProtectionInv'
  BY DEF IInv, TypeOK, ControlInv, ProtectionInv, DumpFails, EnterErrorHandler,
      AbandonDump
<1>6. WholeInv'
  BY DEF IInv, TypeOK, WholeInv, IsWhole, AbandonDump
<1>7. OrderInv'
  BY DEF IInv, TypeOK, InitialisedInv, OrderInv, NotAfter, DumpFails,
      EnterErrorHandler, AbandonDump
<1> QED
  BY <1>1, <1>2, <1>3, <1>4, <1>5, <1>6, <1>7 DEF IInv

LEMMA Step_DumpFails ==
  ASSUME IInv, DumpFails PROVE IInv'
<1>1. CASE caller # "error"
  BY <1>1, EnterStep DEF DumpFails
<1>2. CASE caller = "error"
  BY <1>2, IgnoreStep DEF DumpFails
<1> QED
  BY <1>1, <1>2

LEMMA Step_FinishErrorHandler ==
  ASSUME IInv, FinishErrorHandler PROVE IInv'
<1>0. /\ pc' \in {"hang", "boot"} /\ caller' \in {"boot", caller}
      /\ hmeta' = ErasedHmeta /\ overlap' = FALSE
      /\ UNCHANGED <<fram, snapshot, prevCrash, saves, cut>>
  BY DEF FinishErrorHandler
<1>1. TypeOK'
  <2>1. ErasedHmeta \in Hmeta
    BY MetadataStoreAssumption
  <2>2. pc' \in Steps
    BY <1>0
  <2>3. caller' \in {"boot", "background", "error"}
    BY <1>0 DEF IInv, TypeOK
  <2>4. debug' \in BOOLEAN
    BY DEF IInv, TypeOK, FinishErrorHandler
  <2> HIDE DEF Data, Hmeta, Fram, ErasedHmeta, Steps
  <2> QED
    BY <1>0, <2>1, <2>2, <2>3, <2>4 DEF IInv, TypeOK
<1>2. ControlInv'
  BY DEF IInv, TypeOK, ControlInv, FinishErrorHandler
<1>3. InitialisedInv'
  BY DEF IInv, TypeOK, ControlInv, InitialisedInv, OrderInv, FinishErrorHandler
<1>4. CarriedInv'
  BY DEF IInv, TypeOK, ControlInv, CarriedInv, Fresh, FinishErrorHandler
<1>5. ProtectionInv'
  BY DEF IInv, TypeOK, ControlInv, ProtectionInv, FinishErrorHandler
<1>6. WholeInv'
  BY DEF IInv, TypeOK, WholeInv, IsWhole, FinishErrorHandler
<1>7. OrderInv'
  BY DEF IInv, TypeOK, InitialisedInv, OrderInv, NotAfter, FinishErrorHandler
<1> QED
  BY <1>1, <1>2, <1>3, <1>4, <1>5, <1>6, <1>7 DEF IInv

LEMMA Step_s_background_task ==
  ASSUME IInv, s_background_task PROVE IInv'
<1>1. TypeOK'
  <2>1. hmeta' \in Hmeta /\ fram' \in Fram /\ snapshot' \in Data
    BY DEF IInv, TypeOK, s_background_task, Advance
  <2> HIDE DEF Data, Hmeta, Fram
  <2> QED
    BY <2>1 DEF IInv, TypeOK, s_background_task, Advance
<1>2. ControlInv'
  BY DEF IInv, TypeOK, ControlInv, s_background_task, Advance
<1>3. InitialisedInv'
  BY DEF IInv, TypeOK, ControlInv, InitialisedInv, OrderInv, s_background_task,
      Advance
<1>4. CarriedInv'
  BY DEF IInv, TypeOK, ControlInv, CarriedInv, Fresh, s_background_task, Advance
<1>5. ProtectionInv'
  BY DEF IInv, TypeOK, ControlInv, ProtectionInv, s_background_task, Advance
<1>6. WholeInv'
  BY DEF IInv, TypeOK, WholeInv, IsWhole, s_background_task, Advance
<1>7. OrderInv'
  BY DEF IInv, TypeOK, InitialisedInv, OrderInv, NotAfter, s_background_task, Advance
<1> QED
  BY <1>1, <1>2, <1>3, <1>4, <1>5, <1>6, <1>7 DEF IInv

LEMMA Step_s_save_dhcp_client_record ==
  ASSUME IInv, s_save_dhcp_client_record PROVE IInv'
<1>0. saves' \in Serial /\ hmeta' \in Hmeta
  <2>1. saves' \in Serial
    BY MetadataStoreAssumption DEF IInv, TypeOK, s_save_dhcp_client_record
  <2>2. Whole(saves') \in Record
    BY <2>1
  <2> QED
    BY <2>1, <2>2 DEF IInv, TypeOK, s_save_dhcp_client_record
<1>1. TypeOK'
  BY <1>0, MetadataStoreAssumption DEF IInv, TypeOK, s_save_dhcp_client_record,
      Running
<1>2. ControlInv'
  BY DEF IInv, TypeOK, ControlInv, s_save_dhcp_client_record, Running
<1>3. InitialisedInv'
  BY DEF IInv, TypeOK, ControlInv, InitialisedInv, OrderInv,
      s_save_dhcp_client_record, Running
<1>4. CarriedInv'
  BY DEF IInv, TypeOK, ControlInv, CarriedInv, Fresh, s_save_dhcp_client_record,
      Running
<1>5. ProtectionInv'
  BY DEF IInv, TypeOK, ControlInv, ProtectionInv, s_save_dhcp_client_record, Running
<1>6. WholeInv'
  BY DEF IInv, TypeOK, WholeInv, IsWhole, s_save_dhcp_client_record, Running
<1>7. OrderInv'
  BY DEF IInv, TypeOK, InitialisedInv, OrderInv, NotAfter, s_save_dhcp_client_record,
      Running
<1> QED
  BY <1>1, <1>2, <1>3, <1>4, <1>5, <1>6, <1>7 DEF IInv

LEMMA Step_LogFails ==
  ASSUME IInv, LogFails PROVE IInv'
BY EnterStep DEF LogFails

LEMMA Step_Hang ==
  ASSUME IInv, Hang PROVE IInv'
<1>1. TypeOK'
  <2>1. hmeta' \in Hmeta /\ fram' \in Fram /\ snapshot' \in Data
    BY DEF IInv, TypeOK, Hang, AbandonDump, Running
  <2> HIDE DEF Data, Hmeta, Fram
  <2> QED
    BY <2>1 DEF IInv, TypeOK, Hang, AbandonDump, Running
<1>2. ControlInv'
  BY DEF IInv, TypeOK, ControlInv, Hang, AbandonDump, Running
<1>3. InitialisedInv'
  BY DEF IInv, TypeOK, ControlInv, InitialisedInv, OrderInv, Hang, AbandonDump,
      Running
<1>4. CarriedInv'
  BY DEF IInv, TypeOK, ControlInv, CarriedInv, Fresh, Hang, AbandonDump, Running
<1>5. ProtectionInv'
  BY DEF IInv, TypeOK, ControlInv, ProtectionInv, Hang, AbandonDump, Running
<1>6. WholeInv'
  BY DEF IInv, TypeOK, WholeInv, IsWhole, Hang, AbandonDump, Running
<1>7. OrderInv'
  BY DEF IInv, TypeOK, InitialisedInv, OrderInv, NotAfter, Hang, AbandonDump, Running
<1> QED
  BY <1>1, <1>2, <1>3, <1>4, <1>5, <1>6, <1>7 DEF IInv

LEMMA Step_Reset ==
  ASSUME IInv, Reset PROVE IInv'
<1>1. TypeOK'
  <2>1. hmeta' \in Hmeta /\ fram' \in Fram /\ snapshot' \in Data
    BY DEF IInv, TypeOK, Reset, AbandonDump
  <2> HIDE DEF Data, Hmeta, Fram
  <2> QED
    BY <2>1 DEF IInv, TypeOK, Reset, AbandonDump
<1>2. ControlInv'
  BY DEF IInv, TypeOK, ControlInv, Reset, AbandonDump
<1>3. InitialisedInv'
  BY DEF IInv, TypeOK, ControlInv, InitialisedInv, OrderInv, Reset, AbandonDump
<1>4. CarriedInv'
  BY DEF IInv, TypeOK, ControlInv, CarriedInv, Fresh, Reset, AbandonDump
<1>5. ProtectionInv'
  BY DEF IInv, TypeOK, ControlInv, ProtectionInv, Reset, AbandonDump
<1>6. WholeInv'
  BY DEF IInv, TypeOK, WholeInv, IsWhole, Reset, AbandonDump
<1>7. OrderInv'
  BY DEF IInv, TypeOK, InitialisedInv, OrderInv, NotAfter, Reset, AbandonDump
<1> QED
  BY <1>1, <1>2, <1>3, <1>4, <1>5, <1>6, <1>7 DEF IInv

LEMMA Step_PowerCycle ==
  ASSUME IInv, PowerCycle PROVE IInv'
<1>0. ErasedHmeta \in Hmeta
  BY MetadataStoreAssumption
<1>1. TypeOK'
  <2>1. hmeta' \in Hmeta /\ fram' \in Fram /\ snapshot' \in Data /\ pc' \in Steps
    BY <1>0, MetadataStoreAssumption DEF IInv, TypeOK, PowerCycle, AbandonDump
  <2> HIDE DEF Data, Hmeta, Fram, ErasedHmeta, Steps
  <2> QED
    BY <2>1 DEF IInv, TypeOK, PowerCycle, AbandonDump
<1>2. ControlInv'
  BY DEF IInv, TypeOK, ControlInv, PowerCycle, AbandonDump
<1>3. InitialisedInv'
  BY DEF IInv, TypeOK, ControlInv, InitialisedInv, OrderInv, PowerCycle, AbandonDump
<1>4. CarriedInv'
  BY DEF IInv, TypeOK, ControlInv, CarriedInv, Fresh, PowerCycle, AbandonDump
<1>5. ProtectionInv'
  BY DEF IInv, TypeOK, ControlInv, ProtectionInv, PowerCycle, AbandonDump
<1>6. WholeInv'
  BY DEF IInv, TypeOK, WholeInv, IsWhole, PowerCycle, AbandonDump
<1>7. OrderInv'
  BY DEF IInv, TypeOK, InitialisedInv, OrderInv, NotAfter, PowerCycle, AbandonDump
<1> QED
  BY <1>1, <1>2, <1>3, <1>4, <1>5, <1>6, <1>7 DEF IInv

----------------------------------------------------------------------------
LEMMA NextIInv == ASSUME IInv, [Next]_vars PROVE IInv'
<1>1. CASE Firmware
  BY <1>1, Step_Boot, Step_EncryptFirst, Step_EncryptLast, Step_META_unlock_metadata,
     Step_WriteFirst, Step_WriteLast, Step_META_lock_metadata, Step_META_dump_counters,
     Step_FinishErrorHandler, Step_s_background_task
  DEF Firmware, META_dump_metadata
<1>2. CASE Environment
  BY <1>2, Step_BootFails, Step_DumpFails, Step_LogFails, Step_Hang, Step_Reset,
     Step_PowerCycle
  DEF Environment
<1>3. CASE UNCHANGED vars
  BY <1>3 DEF vars, IInv, TypeOK, ControlInv, InitialisedInv, CarriedInv,
     ProtectionInv, WholeInv, OrderInv, Fresh, IsWhole, NotAfter
<1> QED
  BY <1>1, <1>2, <1>3, Step_s_save_dhcp_client_record DEF Next

LEMMA InductiveInvariant == Spec => []IInv
BY InitIInv, NextIInv, PTL DEF Spec

(* Every variable keeps its type, for either build and any number of saves. *)
THEOREM TypeCorrect == Spec => []TypeOK
<1>1. IInv => TypeOK
  BY DEF IInv
<1> QED
  BY <1>1, InductiveInvariant, PTL

(* An idle background task with new_metadata down has written everything,  *)
(* except what was saved inside the very dump that lowered the flag.       *)
THEOREM FlagCovers == Spec => []FlagCoversUnsaved
<1>1. IInv => FlagCoversUnsaved
  BY DEF IInv, CarriedInv, Fresh, FlagCoversUnsaved, Running
<1> QED
  BY <1>1, InductiveInvariant, PTL

(* The record in use after any history of resets, crashes and failed dumps *)
(* is one that was saved, unless a save or a power cut split it.           *)
THEOREM RecordWhole == Spec => []RecordWholeUnlessCut
<1>1. IInv => RecordWholeUnlessCut
  BY DEF IInv, WholeInv, IsWhole, RecordWholeUnlessCut
<1> QED
  BY <1>1, InductiveInvariant, PTL

(* The application never runs over an unprotected metadata region. *)
THEOREM Protected == Spec => []ProtectedWhileRunning
<1>1. IInv => ProtectedWhileRunning
  BY DEF IInv, ProtectionInv, ProtectedWhileRunning, Running
<1> QED
  BY <1>1, InductiveInvariant, PTL

(* No step of any caller of the dump takes the record in the FRAM back to  *)
(* an older one.                                                           *)
THEOREM NeverRegresses == Spec => FramNeverRegresses
<1> DEFINE Advances == /\ fram'.data.record.first >= fram.data.record.first
                      /\ fram'.data.record.last >= fram.data.record.last
<1>1. IInv /\ [Next]_vars => [Advances]_vars
  <2> SUFFICES ASSUME IInv, [Next]_vars PROVE Advances
    OBVIOUS
  <2>1. CASE WriteFirst
    BY <2>1 DEF IInv, TypeOK, OrderInv, NotAfter, WriteFirst, Advance
  <2>2. CASE WriteLast
    BY <2>2 DEF IInv, TypeOK, OrderInv, NotAfter, WriteLast, Advance
  <2>3. CASE fram'.data = fram.data
    BY <2>3 DEF IInv, TypeOK
  <2>4. fram'.data = fram.data \/ WriteFirst \/ WriteLast
    <3>1. fram \in Fram
      BY DEF IInv, TypeOK
    <3>2. CASE Firmware
      BY <3>1, <3>2 DEF Firmware, Boot, META_dump_metadata, EncryptFirst, EncryptLast,
         META_unlock_metadata, META_lock_metadata, META_dump_counters,
         FinishErrorHandler, s_background_task
    <3>3. CASE Environment
      BY <3>1, <3>3 DEF Environment, BootFails, DumpFails, LogFails, Hang, Reset,
         PowerCycle
    <3>4. CASE s_save_dhcp_client_record \/ UNCHANGED vars
      BY <3>4 DEF s_save_dhcp_client_record, vars
    <3> QED
      BY <3>2, <3>3, <3>4 DEF Next
  <2> QED
    BY <2>1, <2>2, <2>3, <2>4
<1> QED
  BY <1>1, InductiveInvariant, PTL DEF Spec, FramNeverRegresses
----------------------------------------------------------------------------
(* What the store keeps of each part of the record                         *)

(* The parts, with the steps of a dump in which the snapshot has them.     *)
Parts ==
  {<<"first", DumpSteps \ {"encrypt_first"}>>,
   <<"last", DumpSteps \ {"encrypt_first", "encrypt_last"}>>}

Durable(part) == fram.data.record[part]

(* A step saves a part, may bring the copy to the part in use, writes the  *)
(* copy, or falls back to what the FRAM has.                               *)
PartSaved(part, steps) ==
  /\ saves' = saves + 1 /\ InUse(part)' = saves' /\ Durable(part)' = Durable(part)
  /\ Copied(part, steps)' \in {Copied(part, steps), saves'}
PartCopied(part, steps) ==
  /\ saves' = saves /\ InUse(part)' = InUse(part) /\ Durable(part)' = Durable(part)
  /\ Copied(part, steps)' \in {Copied(part, steps), InUse(part)}
PartWritten(part, steps) ==
  /\ saves' = saves /\ InUse(part)' = InUse(part)
  /\ Copied(part, steps)' = Copied(part, steps) /\ Durable(part)' = Copied(part, steps)
PartLost(part, steps) ==
  /\ saves' = saves /\ Durable(part)' = Durable(part)
  /\ InUse(part)' = Durable(part) /\ Copied(part, steps)' = Durable(part)

PartMoves(part, steps) ==
  \/ PartSaved(part, steps) \/ PartCopied(part, steps)
  \/ PartWritten(part, steps) \/ PartLost(part, steps)

(* A settled store has written what it would hand out.                     *)
LEMMA SettledWrote ==
  ASSUME IInv', Settled', NEW part \in {"first", "last"}
  PROVE  Durable(part)' = InUse(part)'
BY DEF IInv, CarriedInv, InitialisedInv, Fresh, Settled, Running, Durable, InUse

(* A step that leaves hmeta's record and the FRAM as they are moves the    *)
(* copy at most, unless a dump goes on.                                    *)
LEMMA OnlyCopied ==
  ASSUME NEW ps \in Parts, saves' = saves,
         hmeta'.initialised = hmeta.initialised, hmeta'.data.record = hmeta.data.record,
         fram'.data.record = fram.data.record,
         pc' \notin ps[2] \/ (pc \in ps[2] /\ snapshot' = snapshot)
  PROVE  PartCopied(ps[1], ps[2])
BY DEF Parts, PartCopied, InUse, Durable, Copied

(* A step after which hmeta is not initialised, or holds what the FRAM     *)
(* has, falls back to that.                                                *)
LEMMA FallsBack ==
  ASSUME NEW ps \in Parts, saves' = saves, fram'.data.record = fram.data.record,
         ~hmeta'.initialised \/ hmeta'.data.record = fram.data.record,
         pc' \notin ps[2]
  PROVE  PartLost(ps[1], ps[2])
BY DEF Parts, PartLost, InUse, Durable, Copied

LEMMA BootMoves ==
  ASSUME IInv, Boot, NEW ps \in Parts
  PROVE  PartMoves(ps[1], ps[2])
<1>1. /\ saves' = saves /\ fram'.data.record = fram.data.record
      /\ pc' = "encrypt_first"
  BY DEF IInv, TypeOK, Boot, BootDebug, BootRelease, Configure, EnterErrorHandler
<1>2. pc' \notin ps[2]
  BY <1>1 DEF Parts
<1>3. Loaded.data.record = fram.data.record /\ Loaded \in Hmeta
  BY MetadataStoreAssumption DEF IInv, TypeOK, InitialisedInv, Loaded
<1>4. CASE BootDebug
  <2>1. hmeta'.data.record = fram.data.record
    BY <1>3, <1>4 DEF BootDebug, Configure
  <2>2. QED
    BY <1>1, <1>2, <2>1, FallsBack DEF PartMoves
<1>5. CASE BootRelease /\ hmeta.initialised /\ ~hmeta.data.crashed
  <2>1. hmeta'.data.record = hmeta.data.record /\ hmeta'.initialised = hmeta.initialised
    <3>1. EnterErrorHandler(hmeta) /\ hmeta \in Hmeta
      BY <1>5 DEF BootRelease, IInv, TypeOK
    <3>2. hmeta' = [hmeta EXCEPT !.data.crashed = TRUE]
      BY <3>1 DEF EnterErrorHandler
    <3>3. QED
      BY <3>1, <3>2
  <2>2. QED
    BY <1>1, <1>2, <2>1, OnlyCopied DEF PartMoves
<1>6. CASE BootRelease /\ ~(hmeta.initialised /\ ~hmeta.data.crashed)
  <2>1. EnterErrorHandler(Loaded) \/ Configure(Loaded)
    BY <1>6 DEF BootRelease
  <2>3. hmeta'.data.record = Loaded.data.record
    <3>1. hmeta' \in {[Loaded EXCEPT !.data.crashed = TRUE], [Loaded EXCEPT !.data.known = TRUE]}
      BY <2>1 DEF Configure, EnterErrorHandler
    <3>2. QED
      BY <1>3, <3>1
  <2>4. QED
    BY <1>1, <1>2, <1>3, <2>3, FallsBack DEF PartMoves
<1>7. QED
  BY <1>4, <1>5, <1>6 DEF Boot

LEMMA DumpMoves ==
  ASSUME IInv, META_dump_metadata, NEW ps \in Parts
  PROVE  PartMoves(ps[1], ps[2])
<1> USE DEF Advance
<1>1. CASE EncryptFirst
  BY <1>1 DEF EncryptFirst, IInv, TypeOK, Parts, PartMoves, PartCopied, InUse, Durable, Copied
<1>2. CASE EncryptLast
  BY <1>2 DEF EncryptLast, IInv, TypeOK, InitialisedInv,
     Parts, PartMoves, PartCopied, InUse, Durable, Copied
<1>3. CASE META_unlock_metadata
  BY <1>3 DEF META_unlock_metadata, IInv, TypeOK,
     Parts, PartMoves, PartCopied, InUse, Durable, Copied
<1>4. CASE WriteFirst
  BY <1>4 DEF WriteFirst, IInv, TypeOK, InitialisedInv,
     Parts, PartMoves, PartCopied, PartWritten, InUse, Durable, Copied
<1>5. CASE WriteLast
  BY <1>5 DEF WriteLast, IInv, TypeOK, InitialisedInv,
     Parts, PartMoves, PartCopied, PartWritten, InUse, Durable, Copied
<1>6. CASE META_lock_metadata
  <2>1. /\ saves' = saves /\ fram'.data.record = fram.data.record
        /\ hmeta'.initialised = hmeta.initialised /\ hmeta'.data.record = hmeta.data.record
        /\ pc' \in {"idle", "counters"}
    BY <1>6 DEF META_lock_metadata, IInv, TypeOK
  <2>2. pc' \notin ps[2]
    BY <2>1 DEF Parts
  <2>3. QED
    BY <2>1, <2>2, OnlyCopied DEF PartMoves
<1>7. QED
  BY <1>1, <1>2, <1>3, <1>4, <1>5, <1>6 DEF META_dump_metadata

LEMMA SaveMoves ==
  ASSUME IInv, s_save_dhcp_client_record, NEW ps \in Parts
  PROVE  PartMoves(ps[1], ps[2])
<1>1. hmeta.initialised
  BY DEF s_save_dhcp_client_record, Running, IInv, InitialisedInv
<1>2. QED
  BY <1>1 DEF s_save_dhcp_client_record, IInv, TypeOK, Parts, PartMoves, PartSaved,
     InUse, Durable, Copied

LEMMA OtherMoves ==
  ASSUME IInv, NEW ps \in Parts,
         \/ META_dump_counters \/ FinishErrorHandler \/ s_background_task \/ Environment
  PROVE  PartMoves(ps[1], ps[2])
<1>1. /\ saves' = saves /\ fram'.data.record = fram.data.record
  BY DEF META_dump_counters, FinishErrorHandler, s_background_task, Environment, BootFails,
     DumpFails, LogFails, Hang, Reset, PowerCycle, IInv, TypeOK
<1>2. pc' \notin ps[2]
  BY DEF META_dump_counters, FinishErrorHandler, s_background_task, Environment, BootFails,
     DumpFails, LogFails, Hang, Reset, PowerCycle, EnterErrorHandler, Advance, Parts
<1>3. CASE BootFails \/ FinishErrorHandler \/ PowerCycle
  <2>1. ~hmeta'.initialised
    <3>1. CASE BootFails
      <4>1. hmeta \in Hmeta
        BY DEF IInv, TypeOK
      <4>2. hmeta' = [hmeta EXCEPT !.initialised = FALSE, !.data.crashed = TRUE]
        BY <3>1 DEF BootFails, EnterErrorHandler
      <4>3. QED
        BY <4>1, <4>2
    <3>2. CASE FinishErrorHandler \/ PowerCycle
      BY <3>2 DEF FinishErrorHandler, PowerCycle
    <3>3. QED
      BY <1>3, <3>1, <3>2
  <2>2. QED
    BY <1>1, <1>2, <2>1, FallsBack DEF PartMoves
<1>4. CASE \/ META_dump_counters \/ s_background_task \/ DumpFails \/ LogFails \/ Hang \/ Reset
  <2>1. hmeta \in Hmeta
    BY DEF IInv, TypeOK
  <2>2. hmeta' = hmeta \/ EnterErrorHandler(hmeta)
    <3>1. CASE META_dump_counters \/ s_background_task
      BY <3>1 DEF META_dump_counters, s_background_task
    <3>2. CASE DumpFails \/ LogFails
      BY <3>2 DEF DumpFails, LogFails
    <3>3. CASE Hang \/ Reset
      BY <3>3 DEF Hang, Reset
    <3>4. QED
      BY <1>4, <3>1, <3>2, <3>3
  <2>3. hmeta' = hmeta \/ hmeta' = [hmeta EXCEPT !.data.crashed = TRUE]
    BY <2>2 DEF EnterErrorHandler
  <2>4. hmeta'.initialised = hmeta.initialised /\ hmeta'.data.record = hmeta.data.record
    BY <2>1, <2>3
  <2>5. QED
    BY <1>1, <1>2, <2>4, OnlyCopied DEF PartMoves
<1>5. QED
  BY <1>3, <1>4 DEF Environment

(* Every step is one that AbstractStore allows, of each part.              *)
LEMMA EveryPartMoves ==
  ASSUME IInv, [Next]_vars, NEW ps \in Parts
  PROVE  PartMoves(ps[1], ps[2])
<1>1. CASE UNCHANGED vars
  BY <1>1 DEF vars, PartMoves, PartCopied, InUse, Durable, Copied
<1>2. CASE Next
  BY <1>2, BootMoves, DumpMoves, SaveMoves, OtherMoves DEF Next, Firmware
<1>3. QED
  BY <1>1, <1>2

(* Over resets, crashes and power cuts each part of the record is stored   *)
(* as AbstractStore promises: it is only ever replaced by a newer one or   *)
(* falls back to the one in the FRAM, what is written there was in use     *)
(* after the last loss, and an idle store with new_metadata down has       *)
(* written what it would hand out.                                         *)
THEOREM StoreImplements == Spec => KeepsRecord
<1>1. Init => First!AbstractInit /\ Last!AbstractInit
  BY DEF Init, First!AbstractInit, Last!AbstractInit, InUse, Copied, Settled, Running
<1>2. IInv /\ IInv' /\ [Next]_vars =>
        [First!AbstractNext]_(First!abstractVars) /\ [Last!AbstractNext]_(Last!abstractVars)
  <2> SUFFICES ASSUME IInv, IInv', [Next]_vars
               PROVE  First!AbstractNext /\ Last!AbstractNext
    OBVIOUS
  <2>1. First!AbstractNext
    <3> DEFINE S == DumpSteps \ {"encrypt_first"}
    <3>1. <<"first", S>> \in Parts
      BY DEF Parts
    <3>2. PartMoves("first", S)
      BY <3>1, EveryPartMoves
    <3>3. First!Says
      BY SettledWrote DEF First!Says, Durable
    <3>4. QED
      BY <3>2, <3>3 DEF PartMoves, PartSaved, PartCopied, PartWritten, PartLost, Durable,
         First!AbstractNext, First!Save, First!Copy, First!Write, First!Lose
  <2>2. Last!AbstractNext
    <3> DEFINE S == DumpSteps \ {"encrypt_first", "encrypt_last"}
    <3>1. <<"last", S>> \in Parts
      BY DEF Parts
    <3>2. PartMoves("last", S)
      BY <3>1, EveryPartMoves
    <3>3. Last!Says
      BY SettledWrote DEF Last!Says, Durable
    <3>4. QED
      BY <3>2, <3>3 DEF PartMoves, PartSaved, PartCopied, PartWritten, PartLost, Durable,
         Last!AbstractNext, Last!Save, Last!Copy, Last!Write, Last!Lose
  <2>3. QED
    BY <2>1, <2>2
<1>3. QED
  BY <1>1, <1>2, InductiveInvariant, PTL DEF Spec, KeepsRecord, First!Promise, Last!Promise
=============================================================================
