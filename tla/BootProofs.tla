---------------------------- MODULE BootProofs ----------------------------
(***************************************************************************)
(* The safety properties of Boot, for either build and whichever bank the  *)
(* processor executes from.                                                *)
(***************************************************************************)
EXTENDS Boot, TLAPS

----------------------------------------------------------------------------
(* The inductive invariant.                                                *)

(* The digest of the current secure image has been computed in this boot,  *)
(* and, in the second set of steps, recorded in hmeta.                     *)
MeasuredSteps == FirstBootSteps \union {"check_current", "erase", "running"}
KnownSteps == (FirstBootSteps \ {"configure"}) \union {"erase", "running"}
RecordedSteps == KnownSteps \ {"record_s"}

MeasuredInv ==
  /\ pc \in MeasuredSteps \union {"measure"} => hmeta.initialised
  /\ pc \in MeasuredSteps => digest.s = SecureImage(Current)
  /\ pc \in KnownSteps => hmeta.data.known
  /\ pc \in RecordedSteps =>
       hmeta.data.s[Current] = [valid |-> TRUE, hash |-> digest.s]

(* What is known of the non-secure images on the way to the application.   *)
(* The copy is from bank 1 to bank 2; when bank 2 is current, the digest   *)
(* of bank 1 is not there and the check of the copy cannot succeed.        *)
CurrentNonSecureKnown ==
  /\ digest.ns[Current] = flash.ns[Current]
  /\ hmeta.data.ns[Current] = [valid |-> TRUE, hash |-> flash.ns[Current]]

BothVerified ==
  /\ flash.ns[1] = flash.ns[2]
  /\ \A b \in Banks : hmeta.data.ns[b] = [valid |-> TRUE, hash |-> flash.ns[b]]

NonSecureInv ==
  /\ pc \in {"measure", "configure", "record_s", "record_ns"} =>
       \A b \in Banks : digest.ns[b] = "zero"
  /\ pc \in {"copy_s", "write_s", "check_s", "copy_ns"} =>
       CurrentNonSecureKnown /\ digest.ns[Other] = "zero"
  /\ pc \in {"write_ns", "check_ns"} =>
       IF bankSwap THEN digest.ns[1] = "zero" ELSE CurrentNonSecureKnown
  /\ pc = "check_ns" =>
       hmeta.data.ns[2] = [valid |-> TRUE, hash |-> digest.ns[1]]
  /\ pc \in {"erase", "running"} /\ ~debug => BothVerified

(* An entry for the other bank is only ever valid beside a valid one for   *)
(* the current bank, and that one is right while the image is intact.      *)
Sound(d) ==
  /\ d.s[Other].valid => d.s[Current].valid
  /\ d.s[Current].valid =>
       d.s[Current].hash = SecureImage(Current) \/ flash.s[Current] = "torn"

SoundInv == Sound(hmeta.data) /\ Sound(fram)

(* After error_handler has reset the device once, the crash is on record   *)
(* wherever the next call of error_handler will look for it.               *)
OnceSwapped == swaps > 0 /\ ~unrecorded /\ flash.s[Current] # "torn"

CrashInv ==
  /\ pc = "dump" => hmeta.data.crashed
  /\ pc = "finish" => unrecorded \/ fram.crashed
  /\ OnceSwapped =>
       /\ swaps = 1 /\ ~debug /\ fram.crashed
       /\ pc = "start" => ~hmeta.initialised
       /\ pc \in MeasuredSteps \union {"measure"} => hmeta.data.crashed
       /\ pc = "dump" => prevCrash \/ ~hmeta.initialised
       /\ pc = "finish" => prevCrash

IInv ==
  /\ TypeOK
  /\ MeasuredInv
  /\ NonSecureInv
  /\ SoundInv
  /\ CrashInv

----------------------------------------------------------------------------
(* What the updates of the model do to the records they are applied to.    *)
USE DEF Banks

LEMMA CurrentOther ==
  /\ Current \in Banks /\ Other \in Banks /\ Current # Other
  /\ bankSwap => Current = 2 /\ Other = 1
  /\ ~bankSwap => Current = 1 /\ Other = 2
  /\ UNCHANGED bankSwap => Current' = Current /\ Other' = Other
  BY DEF Current, Other

LEMMA BlankTyped ==
  /\ ErasedHmeta \in Hmeta /\ BlankData \in Data
  /\ ~ErasedHmeta.initialised /\ ErasedHmeta.data = BlankData
  BY DEF ErasedHmeta, BlankData, NoEntries, Hmeta, Data, Entries, SecureDigest,
     NonSecureDigest, NoSecureDigest

LEMMA BlankSound == Sound(BlankData)
  BY CurrentOther DEF Sound, BlankData, NoEntries

LEMMA HmetaFields ==
  ASSUME NEW h \in Hmeta
  PROVE  h.initialised \in BOOLEAN /\ h.first_boot \in BOOLEAN /\ h.data \in Data
  BY DEF Hmeta

LEMMA DataFields ==
  ASSUME NEW d \in Data
  PROVE  /\ d.known \in BOOLEAN /\ d.crashed \in BOOLEAN
         /\ \A b \in Banks :
              /\ d.s[b].valid \in BOOLEAN /\ d.s[b].hash \in SecureDigest
              /\ d.ns[b].valid \in BOOLEAN /\ d.ns[b].hash \in NonSecureDigest
  BY DEF Data, Entries

LEMMA DataReplaced ==
  ASSUME NEW h \in Hmeta, NEW d \in Data
  PROVE  /\ [h EXCEPT !.data = d] \in Hmeta
         /\ [h EXCEPT !.data = d].data = d
         /\ [h EXCEPT !.data = d].initialised = h.initialised
         /\ [h EXCEPT !.data = d].first_boot = h.first_boot
  BY DEF Hmeta

LEMMA CrashMarked ==
  ASSUME NEW h \in Hmeta
  PROVE  LET g == [h EXCEPT !.data.crashed = TRUE] IN
         /\ g \in Hmeta /\ g.initialised = h.initialised
         /\ g.data.crashed
         /\ g.data.s = h.data.s /\ g.data.ns = h.data.ns
  BY DEF Hmeta, Data

LEMMA SecureLowered ==
  ASSUME NEW h \in Hmeta, NEW b \in Banks
  PROVE  LET g == [h EXCEPT !.data.s[b].valid = FALSE] IN
         /\ g \in Hmeta /\ g.initialised = h.initialised
         /\ g.data.known = h.data.known /\ g.data.crashed = h.data.crashed
         /\ g.data.ns = h.data.ns /\ g.data.s[b].valid = FALSE
  BY DEF Hmeta, Data, Entries

LEMMA SecureRaised ==
  ASSUME NEW h \in Hmeta, NEW b \in Banks
  PROVE  LET g == [h EXCEPT !.data.s[b].valid = TRUE] IN
         /\ g \in Hmeta /\ g.initialised = h.initialised
         /\ g.data.known = h.data.known /\ g.data.crashed = h.data.crashed
         /\ g.data.ns = h.data.ns /\ g.data.s[b].valid = TRUE
  BY DEF Hmeta, Data, Entries

LEMMA NonSecureLowered ==
  ASSUME NEW h \in Hmeta, NEW b \in Banks
  PROVE  LET g == [h EXCEPT !.data.ns[b].valid = FALSE] IN
         /\ g \in Hmeta /\ g.initialised = h.initialised
         /\ g.data.known = h.data.known /\ g.data.crashed = h.data.crashed
         /\ g.data.s = h.data.s /\ g.data.ns[b].hash = h.data.ns[b].hash
         /\ g.data.ns[b].valid = FALSE
  BY DEF Hmeta, Data, Entries

LEMMA NonSecureRaised ==
  ASSUME NEW h \in Hmeta, NEW b \in Banks
  PROVE  LET g == [h EXCEPT !.data.ns[b].valid = TRUE] IN
         /\ g \in Hmeta /\ g.initialised = h.initialised
         /\ g.data.known = h.data.known /\ g.data.crashed = h.data.crashed
         /\ g.data.s = h.data.s /\ g.data.ns[b].hash = h.data.ns[b].hash
         /\ g.data.ns[b].valid = TRUE
  BY DEF Hmeta, Data, Entries

LEMMA EntryRaised ==
  ASSUME NEW D, NEW r \in [valid : BOOLEAN, hash : D]
  PROVE  /\ [r EXCEPT !.valid = TRUE] \in [valid : BOOLEAN, hash : D]
         /\ [r EXCEPT !.valid = TRUE].hash = r.hash
         /\ [r EXCEPT !.valid = TRUE].valid
  OBVIOUS

LEMMA ValidEntry ==
  ASSUME NEW D, NEW r \in [valid : BOOLEAN, hash : D], r.valid
  PROVE  r = [valid |-> TRUE, hash |-> r.hash]
  OBVIOUS

(* Both setters end by raising s_firmware_1_valid.                         *)
LEMMA ValidRaised ==
  ASSUME NEW t \in Entries(SecureDigest), NEW c \in Banks, NEW g \in SecureDigest,
         t[c] = [valid |-> TRUE, hash |-> g]
  PROVE  /\ [t EXCEPT ![1].valid = TRUE] \in Entries(SecureDigest)
         /\ [t EXCEPT ![1].valid = TRUE][c] = [valid |-> TRUE, hash |-> g]
<1> DEFINE Entry == [valid : BOOLEAN, hash : SecureDigest]
           r == [t[1] EXCEPT !.valid = TRUE]
<1>1. t \in [Banks -> Entry]
  BY DEF Entries
<1>2. r \in Entry /\ r.hash = t[1].hash /\ r.valid
  BY <1>1, EntryRaised
<1>3. [t EXCEPT ![1].valid = TRUE] = [t EXCEPT ![1] = r]
  BY <1>1
<1>4. r = [valid |-> TRUE, hash |-> r.hash]
  BY <1>2, ValidEntry
<1> HIDE DEF r, Entry
<1>5. CASE c = 1
  <2>1. t[1].hash = g
    BY <1>5
  <2> QED
    BY <1>1, <1>2, <1>3, <1>4, <1>5, <2>1 DEF Entries, Entry
<1>6. CASE c = 2
  <2>1. [t EXCEPT ![1] = r] \in [Banks -> Entry] /\ [t EXCEPT ![1] = r][2] = t[2]
    BY <1>1, <1>2
  <2>2. t[2] = [valid |-> TRUE, hash |-> g]
    BY <1>6, Zenon
  <2> QED
    BY <1>3, <1>6, <2>1, <2>2, Zenon DEF Entries, Entry
<1> QED
  BY <1>5, <1>6

(* A hash stored for bank b: the entry of b is as given, and a valid entry *)
(* of another bank stays as it is.                                         *)
LEMMA SecureHashSet ==
  ASSUME NEW d \in Data, NEW b \in Banks, NEW h \in SecureDigest
  PROVE  /\ SetSecureHash(d, b, h) \in Data
         /\ SetSecureHash(d, b, h).s[b] = [valid |-> TRUE, hash |-> h]
         /\ SetSecureHash(d, b, h).ns = d.ns
         /\ SetSecureHash(d, b, h).known = d.known
         /\ SetSecureHash(d, b, h).crashed = d.crashed
<1> DEFINE t == [d.s EXCEPT ![b] = [valid |-> TRUE, hash |-> h]]
           u == [t EXCEPT ![1].valid = TRUE]
<1>1. /\ t \in Entries(SecureDigest) /\ t[b] = [valid |-> TRUE, hash |-> h]
      /\ d \in Data /\ d.s \in Entries(SecureDigest)
  BY DEF Data, Entries
<1> HIDE DEF t
<1>2. u \in Entries(SecureDigest) /\ u[b] = [valid |-> TRUE, hash |-> h]
  BY <1>1, ValidRaised
<1> HIDE DEF u
<1>3. SetSecureHash(d, b, h) = [d EXCEPT !.s = u]
  BY DEF SetSecureHash, Data, t, u
<1> QED
  BY <1>1, <1>2, <1>3 DEF Data

LEMMA SecureEntryKept ==
  ASSUME NEW d \in Data, NEW b \in Banks, NEW h \in SecureDigest, NEW g \in SecureDigest,
         NEW c \in Banks \ {b}, d.s[c] = [valid |-> TRUE, hash |-> g]
  PROVE  SetSecureHash(d, b, h).s[c] = [valid |-> TRUE, hash |-> g]
<1> DEFINE t == [d.s EXCEPT ![b] = [valid |-> TRUE, hash |-> h]]
           u == [t EXCEPT ![1].valid = TRUE]
<1>1. t \in Entries(SecureDigest) /\ t[c] = [valid |-> TRUE, hash |-> g]
  BY DEF Data, Entries
<1> HIDE DEF t
<1>2. u[c] = [valid |-> TRUE, hash |-> g]
  BY <1>1, ValidRaised, ZenonT(60)
<1> HIDE DEF u
<1>3. SetSecureHash(d, b, h) = [d EXCEPT !.s = u]
  BY DEF SetSecureHash, Data, t, u
<1> QED
  BY <1>2, <1>3 DEF Data

LEMMA NonSecureHashSet ==
  ASSUME NEW d \in Data, NEW b \in Banks, NEW h \in NonSecureDigest
  PROVE  /\ SetNonSecureHash(d, b, h) \in Data
         /\ SetNonSecureHash(d, b, h).ns[b] = [valid |-> TRUE, hash |-> h]
         /\ \A c \in Banks \ {b} : SetNonSecureHash(d, b, h).ns[c] = d.ns[c]
         /\ SetNonSecureHash(d, b, h).known = d.known
         /\ SetNonSecureHash(d, b, h).crashed = d.crashed
  BY DEF SetNonSecureHash, Data, Entries

LEMMA SecureEntryStays ==
  ASSUME NEW d \in Data, NEW b \in Banks, NEW h \in NonSecureDigest,
         NEW g \in SecureDigest, NEW c \in Banks, d.s[c] = [valid |-> TRUE, hash |-> g]
  PROVE  SetNonSecureHash(d, b, h).s[c] = [valid |-> TRUE, hash |-> g]
<1> DEFINE t == [d.ns EXCEPT ![b] = [valid |-> TRUE, hash |-> h]]
           w == d.s
           u == [w EXCEPT ![1].valid = TRUE]
<1>1. w \in Entries(SecureDigest) /\ w[c] = [valid |-> TRUE, hash |-> g]
  BY DEF Data
<1> HIDE DEF t, w
<1>2. u[c] = [valid |-> TRUE, hash |-> g]
  BY <1>1, ValidRaised, ZenonT(60)
<1> HIDE DEF u
<1>3. SetNonSecureHash(d, b, h) = [[d EXCEPT !.ns = t] EXCEPT !.s = u]
  BY DEF SetNonSecureHash, Data, t, u, w
<1> QED
  BY <1>2, <1>3 DEF Data

LEMMA SecureWritten ==
  ASSUME NEW f \in Flash, NEW b \in Banks, NEW c \in Content
  PROVE  LET g == [f EXCEPT !.s[b] = c] IN
         /\ g \in Flash /\ g.nsc = f.nsc /\ g.ns = f.ns /\ g.s[b] = c
         /\ \A a \in Banks \ {b} : g.s[a] = f.s[a]
  BY DEF Flash

LEMMA NonSecureWritten ==
  ASSUME NEW f \in Flash, NEW b \in Banks, NEW c \in Content
  PROVE  LET g == [f EXCEPT !.ns[b] = c] IN
         /\ g \in Flash /\ g.nsc = f.nsc /\ g.s = f.s /\ g.ns[b] = c
         /\ \A a \in Banks \ {b} : g.ns[a] = f.ns[a]
  BY DEF Flash

Digest == [s : SecureDigest, ns : [Banks -> NonSecureDigest]]

LEMMA DigestStored ==
  ASSUME NEW d \in Digest
  PROVE  /\ d.s \in SecureDigest
         /\ \A h \in SecureDigest :
              /\ [d EXCEPT !.s = h] \in Digest
              /\ [d EXCEPT !.s = h].s = h /\ [d EXCEPT !.s = h].ns = d.ns
         /\ \A b \in Banks : d.ns[b] \in NonSecureDigest
         /\ \A b \in Banks, h \in NonSecureDigest :
              /\ [d EXCEPT !.ns[b] = h] \in Digest
              /\ [d EXCEPT !.ns[b] = h].s = d.s
              /\ [d EXCEPT !.ns[b] = h].ns[b] = h
              /\ \A c \in Banks \ {b} : [d EXCEPT !.ns[b] = h].ns[c] = d.ns[c]
  BY DEF Digest

LEMMA NoDigestTyped == NoDigest \in Digest /\ \A b \in Banks : NoDigest.ns[b] = "zero"
  BY DEF NoDigest, Digest, SecureDigest, NonSecureDigest

LEMMA FlashFields ==
  ASSUME NEW f \in Flash, NEW b \in Banks
  PROVE  f.s[b] \in Content /\ f.nsc[b] \in Content /\ f.ns[b] \in Content
  BY DEF Flash

(* The types, in the form that the lemmas above need.                      *)
LEMMA Typed ==
  ASSUME TypeOK
  PROVE  /\ hmeta \in Hmeta /\ hmeta.data \in Data /\ fram \in Data
         /\ flash \in Flash /\ digest \in Digest
         /\ SecureImage(Current) \in SecureDigest
         /\ flash.ns[1] \in Content /\ flash.ns[2] \in Content
         /\ digest.s \in SecureDigest
         /\ digest.ns[1] \in NonSecureDigest /\ digest.ns[2] \in NonSecureDigest
<1>1. hmeta \in Hmeta /\ fram \in Data /\ flash \in Flash /\ digest \in Digest
  BY DEF TypeOK, Digest
<1>2. hmeta.data \in Data
  BY <1>1, HmetaFields
<1>3. SecureImage(Current) \in SecureDigest
  BY <1>1, FlashFields, CurrentOther DEF SecureImage, SecureDigest
<1> QED
  BY <1>1, <1>2, <1>3, FlashFields, DigestStored

----------------------------------------------------------------------------
(* One lemma per action.  The first step of each says what the action does *)
(* to the parts that the invariant speaks of.                              *)
USE DEF Steps, BootSteps, FirstBootSteps, MeasuredSteps, KnownSteps, RecordedSteps

(* error_handler is entered with the metadata h: it marks the crash and    *)
(* goes on to the dump.                                                    *)
LEMMA ErrorEntered ==
  ASSUME IInv, NEW h \in Hmeta, Sound(h.data), digest' \in Digest,
         OnceSwapped => h.data.crashed \/ ~h.initialised,
         prevCrash' = h.data.crashed, hmeta' = [h EXCEPT !.data.crashed = TRUE],
         pc' = "dump", UNCHANGED <<debug, bankSwap, flash, fram, swaps, unrecorded>>
  PROVE  IInv'
<1>1. /\ hmeta' \in Hmeta /\ hmeta'.initialised = h.initialised
      /\ hmeta'.data.crashed /\ hmeta'.data.s = h.data.s
  BY CrashMarked
<1>2. prevCrash' \in BOOLEAN
  BY HmetaFields, DataFields
<1>3. /\ pc' = "dump" /\ prevCrash' = h.data.crashed /\ digest' \in Digest
      /\ UNCHANGED <<debug, bankSwap, flash, fram, swaps, unrecorded>>
  OBVIOUS
<1>4. Sound(hmeta.data)'
  BY <1>1, <1>3, CurrentOther DEF Sound, SecureImage
<1>5. TypeOK'
  BY <1>1, <1>2, <1>3, CurrentOther DEF IInv, TypeOK, Digest
<1>6. MeasuredInv'
  BY <1>1, <1>2, <1>3, CurrentOther DEF IInv, MeasuredInv, SecureImage
<1>7. NonSecureInv'
  BY <1>1, <1>2, <1>3, CurrentOther DEF IInv, NonSecureInv, BothVerified,
     CurrentNonSecureKnown
<1>8. SoundInv'
  BY <1>3, <1>4, CurrentOther DEF IInv, SoundInv, Sound, SecureImage
<1>9. CrashInv'
  BY <1>1, <1>2, <1>3, CurrentOther DEF IInv, CrashInv, OnceSwapped
<1> QED
  BY <1>5, <1>6, <1>7, <1>8, <1>9 DEF IInv

LEMMA Step_Stutter ==
  ASSUME IInv, UNCHANGED vars PROVE IInv'
<1>1. UNCHANGED <<debug, bankSwap, flash, hmeta, fram, digest, pc, prevCrash,
                  swaps, unrecorded>>
  BY DEF vars
<1>2. TypeOK'
  BY <1>1, CurrentOther DEF IInv, TypeOK, Digest
<1>3. MeasuredInv'
  BY <1>1, CurrentOther DEF IInv, MeasuredInv, SecureImage
<1>4. NonSecureInv'
  BY <1>1, CurrentOther DEF IInv, NonSecureInv, BothVerified,
     CurrentNonSecureKnown
<1>5. SoundInv'
  BY <1>1, CurrentOther DEF IInv, SoundInv, Sound, SecureImage, MeasuredInv
<1>6. CrashInv'
  BY <1>1, CurrentOther DEF IInv, CrashInv, OnceSwapped
<1> QED
  BY <1>2, <1>3, <1>4, <1>5, <1>6 DEF IInv

LEMMA Step_META_Init ==
  ASSUME IInv, META_Init PROVE IInv'
<1>1. /\ pc = "start" /\ pc' = "measure"
      /\ hmeta' \in Hmeta /\ hmeta'.initialised
      /\ hmeta'.data.s = fram.s /\ hmeta'.data.ns = fram.ns
      /\ hmeta'.data.crashed <=> fram.crashed /\ ~debug
      /\ digest' = NoDigest
      /\ UNCHANGED <<debug, bankSwap, flash, fram, prevCrash, swaps, unrecorded>>
  BY Typed DEF IInv, TypeOK, META_Init, Advance, Loaded, ghosts, Hmeta, Data
<1>2. digest' \in Digest /\ \A b \in Banks : digest'.ns[b] = "zero"
  BY <1>1, NoDigestTyped
<1>3. TypeOK'
  BY <1>1, <1>2, CurrentOther DEF IInv, TypeOK, Digest
<1>4. MeasuredInv'
  BY <1>1, <1>2, CurrentOther DEF IInv, MeasuredInv, SecureImage
<1>5. NonSecureInv'
  BY <1>1, <1>2, CurrentOther DEF IInv, NonSecureInv, BothVerified,
     CurrentNonSecureKnown
<1>6. SoundInv'
  BY <1>1, <1>2, CurrentOther DEF IInv, SoundInv, Sound, SecureImage,
     MeasuredInv
<1>7. CrashInv'
  BY <1>1, <1>2, CurrentOther DEF IInv, CrashInv, OnceSwapped
<1> QED
  BY <1>3, <1>4, <1>5, <1>6, <1>7 DEF IInv

LEMMA Step_META_Reinit ==
  ASSUME IInv, META_Reinit PROVE IInv'
<1>1. /\ pc = "start" /\ pc' = "measure"
      /\ hmeta.initialised
      /\ hmeta' \in Hmeta
      /\ hmeta'.data = hmeta.data /\ (hmeta'.initialised <=> hmeta.initialised)
      /\ digest' = NoDigest
      /\ UNCHANGED <<debug, bankSwap, flash, fram, prevCrash, swaps, unrecorded>>
  BY Typed DEF IInv, META_Reinit, Reinit, Advance, ghosts, Hmeta
<1>2. digest' \in Digest /\ \A b \in Banks : digest'.ns[b] = "zero"
  BY <1>1, NoDigestTyped
<1>3. TypeOK'
  BY <1>1, <1>2, CurrentOther DEF IInv, TypeOK, Digest
<1>4. MeasuredInv'
  BY <1>1, <1>2, CurrentOther DEF IInv, MeasuredInv, SecureImage
<1>5. NonSecureInv'
  BY <1>1, <1>2, CurrentOther DEF IInv, NonSecureInv, BothVerified,
     CurrentNonSecureKnown
<1>6. SoundInv'
  BY <1>1, <1>2, CurrentOther DEF IInv, SoundInv, Sound, SecureImage,
     MeasuredInv
<1>7. CrashInv'
  BY <1>1, <1>2, CurrentOther DEF IInv, CrashInv, OnceSwapped
<1> QED
  BY <1>3, <1>4, <1>5, <1>6, <1>7 DEF IInv

LEMMA Step_MeasureCurrent ==
  ASSUME IInv, MeasureCurrent PROVE IInv'
<1>1. /\ pc = "measure" /\ pc' \in {"configure", "check_current"}
      /\ digest' = [digest EXCEPT !.s = SecureImage(Current)]
      /\ UNCHANGED <<debug, bankSwap, flash, hmeta, fram, prevCrash, swaps, unrecorded>>
  BY DEF MeasureCurrent, Advance, ghosts
<1>2. digest' \in Digest /\ digest'.s = SecureImage(Current) /\ digest'.ns = digest.ns
  BY <1>1, Typed, DigestStored DEF IInv
<1>3. /\ pc = "measure" /\ pc' \in {"configure", "check_current"}
      /\ UNCHANGED <<debug, bankSwap, flash, hmeta, fram, prevCrash, swaps, unrecorded>>
  BY <1>1
<1>4. TypeOK'
  BY <1>2, <1>3, CurrentOther DEF IInv, TypeOK, Digest
<1>5. MeasuredInv'
  BY <1>2, <1>3, CurrentOther DEF IInv, MeasuredInv, SecureImage
<1>6. NonSecureInv'
  BY <1>2, <1>3, CurrentOther DEF IInv, NonSecureInv, BothVerified,
     CurrentNonSecureKnown
<1>7. SoundInv'
  BY <1>2, <1>3, CurrentOther DEF IInv, SoundInv, Sound, SecureImage,
     MeasuredInv
<1>8. CrashInv'
  BY <1>2, <1>3, CurrentOther DEF IInv, CrashInv, OnceSwapped
<1> QED
  BY <1>4, <1>5, <1>6, <1>7, <1>8 DEF IInv

LEMMA Step_META_Configure ==
  ASSUME IInv, META_Configure PROVE IInv'
<1>1. /\ pc = "configure" /\ pc' = "record_s"
      /\ hmeta' \in Hmeta /\ fram' \in Data /\ fram' = hmeta'.data /\ hmeta'.data.known
      /\ hmeta'.data.s = hmeta.data.s /\ hmeta'.data.ns = hmeta.data.ns
      /\ (hmeta'.data.crashed <=> hmeta.data.crashed)
       /\ (hmeta'.initialised <=> hmeta.initialised)
      /\ UNCHANGED <<debug, bankSwap, flash, digest, prevCrash, swaps, unrecorded>>
  BY Typed DEF IInv, META_Configure, Advance, ghosts, Hmeta, Data
<1>2. TypeOK'
  BY <1>1, CurrentOther DEF IInv, TypeOK, Digest
<1>3. MeasuredInv'
  BY <1>1, CurrentOther DEF IInv, MeasuredInv, SecureImage
<1>4. NonSecureInv'
  BY <1>1, CurrentOther DEF IInv, NonSecureInv, BothVerified,
     CurrentNonSecureKnown
<1>5. SoundInv'
  BY <1>1, CurrentOther DEF IInv, SoundInv, Sound, SecureImage, MeasuredInv
<1>6. CrashInv'
  BY <1>1, CurrentOther DEF IInv, CrashInv, OnceSwapped
<1> QED
  BY <1>2, <1>3, <1>4, <1>5, <1>6 DEF IInv

LEMMA Step_RecordSecure ==
  ASSUME IInv, RecordSecure PROVE IInv'
<1>1. /\ pc = "record_s" /\ pc' = "record_ns"
      /\ hmeta' = [hmeta EXCEPT !.data = SetSecureHash(hmeta.data, Current, digest.s)]
      /\ UNCHANGED <<debug, bankSwap, flash, fram, digest, prevCrash, swaps, unrecorded>>
  BY DEF RecordSecure, Advance, ghosts
<1>2. hmeta.data \in Data /\ digest.s \in SecureDigest
  BY Typed, CurrentOther DEF IInv, NonSecureDigest
<1> DEFINE d == SetSecureHash(hmeta.data, Current, digest.s)
<1>3. /\ d \in Data
      /\ d.s[Current] = [valid |-> TRUE, hash |-> digest.s]
      /\ d.ns = hmeta.data.ns
      /\ d.known = hmeta.data.known /\ d.crashed = hmeta.data.crashed
  BY <1>2, SecureHashSet, CurrentOther
<1> HIDE DEF d
<1>4. hmeta' \in Hmeta /\ hmeta'.data = d /\ hmeta'.initialised = hmeta.initialised
  <2>1. hmeta' = [hmeta EXCEPT !.data = d]
    BY <1>1 DEF d
  <2> QED
    BY <2>1, <1>3, Typed, DataReplaced DEF IInv
<1>5. /\ pc = "record_s" /\ pc' = "record_ns"
      /\ UNCHANGED <<debug, bankSwap, flash, fram, digest, prevCrash, swaps, unrecorded>>
  BY <1>1
<1>6. TypeOK'
  BY <1>3, <1>4, <1>5, CurrentOther DEF IInv, TypeOK, Digest
<1>7. MeasuredInv'
  BY <1>3, <1>4, <1>5, CurrentOther DEF IInv, MeasuredInv, SecureImage
<1>8. NonSecureInv'
  BY <1>3, <1>4, <1>5, CurrentOther DEF IInv, NonSecureInv, BothVerified,
     CurrentNonSecureKnown
<1>9. SoundInv'
  BY <1>3, <1>4, <1>5, CurrentOther DEF IInv, SoundInv, Sound, SecureImage,
     MeasuredInv
<1>10. CrashInv'
  BY <1>3, <1>4, <1>5, CurrentOther DEF IInv, CrashInv, OnceSwapped
<1> QED
  BY <1>6, <1>7, <1>8, <1>9, <1>10 DEF IInv

LEMMA Step_RecordNonSecure ==
  ASSUME IInv, RecordNonSecure PROVE IInv'
<1>1. /\ pc = "record_ns" /\ pc' = "copy_s"
      /\ digest' = [digest EXCEPT !.ns[Current] = flash.ns[Current]]
      /\ hmeta' = [hmeta EXCEPT !.data =
                SetNonSecureHash(hmeta.data, Current, digest'.ns[Current])]
      /\ UNCHANGED <<debug, bankSwap, flash, fram, prevCrash, swaps, unrecorded>>
  BY DEF RecordNonSecure, Advance, ghosts
<1>2. /\ digest' \in Digest /\ digest'.s = digest.s
      /\ digest'.ns[Current] = flash.ns[Current]
      /\ digest'.ns[Other] = digest.ns[Other]
  BY <1>1, Typed, DigestStored, CurrentOther DEF IInv, NonSecureDigest
<1>3. hmeta.data \in Data /\ flash.ns[Current] \in NonSecureDigest
  BY Typed, CurrentOther DEF IInv, NonSecureDigest
<1>4. /\ hmeta.data.s[Current] = [valid |-> TRUE, hash |-> digest.s]
      /\ digest.s \in SecureDigest
  BY <1>1, Typed DEF IInv, MeasuredInv
<1> DEFINE d == SetNonSecureHash(hmeta.data, Current, flash.ns[Current])
<1>5. /\ d \in Data
      /\ d.ns[Current] = [valid |-> TRUE, hash |-> flash.ns[Current]]
      /\ d.s[Current] = [valid |-> TRUE, hash |-> digest.s]
      /\ d.known = hmeta.data.known /\ d.crashed = hmeta.data.crashed
  <2>1. d.s[Current] = [valid |-> TRUE, hash |-> digest.s]
    BY <1>3, <1>4, CurrentOther, SecureEntryStays
  <2> QED
    BY <1>3, <2>1, NonSecureHashSet, CurrentOther
<1> HIDE DEF d
<1>6. hmeta' \in Hmeta /\ hmeta'.data = d /\ hmeta'.initialised = hmeta.initialised
  <2>1. hmeta' = [hmeta EXCEPT !.data = d]
    BY <1>1, <1>2 DEF d
  <2> QED
    BY <2>1, <1>5, Typed, DataReplaced DEF IInv
<1>7. /\ pc = "record_ns" /\ pc' = "copy_s"
      /\ UNCHANGED <<debug, bankSwap, flash, fram, prevCrash, swaps, unrecorded>>
  BY <1>1
<1>8. TypeOK'
  BY <1>5, <1>6, <1>7, <1>2, CurrentOther DEF IInv, TypeOK, Digest
<1>9. MeasuredInv'
  BY <1>5, <1>6, <1>7, <1>2, CurrentOther DEF IInv, MeasuredInv, SecureImage
<1>10. NonSecureInv'
  BY <1>5, <1>6, <1>7, <1>2, CurrentOther DEF IInv, NonSecureInv, BothVerified,
     CurrentNonSecureKnown
<1>11. SoundInv'
  BY <1>5, <1>6, <1>7, <1>2, CurrentOther DEF IInv, SoundInv, Sound,
     SecureImage, MeasuredInv
<1>12. CrashInv'
  BY <1>5, <1>6, <1>7, <1>2, CurrentOther DEF IInv, CrashInv, OnceSwapped
<1> QED
  BY <1>8, <1>9, <1>10, <1>11, <1>12 DEF IInv

LEMMA Step_SkipCopies ==
  ASSUME IInv, SkipCopies PROVE IInv'
<1>1. /\ debug /\ pc = "copy_s" /\ pc' = "erase"
      /\ UNCHANGED <<debug, bankSwap, flash, hmeta, fram, digest, prevCrash,
                     swaps, unrecorded>>
  BY DEF SkipCopies, Advance, ghosts
<1>2. TypeOK'
  BY <1>1, CurrentOther DEF IInv, TypeOK, Digest
<1>3. MeasuredInv'
  BY <1>1, CurrentOther DEF IInv, MeasuredInv, SecureImage
<1>4. NonSecureInv'
  BY <1>1, CurrentOther DEF IInv, NonSecureInv, BothVerified,
     CurrentNonSecureKnown
<1>5. SoundInv'
  BY <1>1, CurrentOther DEF IInv, SoundInv, Sound, SecureImage, MeasuredInv
<1>6. CrashInv'
  BY <1>1, CurrentOther DEF IInv, CrashInv, OnceSwapped
<1> QED
  BY <1>2, <1>3, <1>4, <1>5, <1>6 DEF IInv

LEMMA Step_CopySecure ==
  ASSUME IInv, CopySecure PROVE IInv'
<1>1. /\ ~debug /\ pc = "copy_s" /\ pc' = "write_s"
      /\ hmeta' = [hmeta EXCEPT !.data.s[Other].valid = FALSE]
      /\ flash' = [flash EXCEPT !.s[Other] = "torn"]
      /\ UNCHANGED <<debug, bankSwap, fram, digest, prevCrash, swaps, unrecorded>>
  BY DEF CopySecure, Advance, ghosts
<1>2. hmeta \in Hmeta /\ flash \in Flash /\ "torn" \in Content
  BY Typed DEF IInv, Content
<1>3. /\ flash' \in Flash /\ flash'.nsc = flash.nsc /\ flash'.ns = flash.ns
      /\ flash'.s[Current] = flash.s[Current]
  <2>1. flash' = [flash EXCEPT !.s[Other] = "torn"]
    BY <1>1
  <2> QED
    BY <2>1, <1>2, SecureWritten, CurrentOther
<1>4. /\ hmeta' \in Hmeta /\ hmeta'.initialised = hmeta.initialised
      /\ hmeta'.data.known = hmeta.data.known /\ hmeta'.data.crashed = hmeta.data.crashed
      /\ hmeta'.data.ns = hmeta.data.ns
      /\ hmeta'.data.s[Other].valid = FALSE
       /\ hmeta'.data.s[Current] = hmeta.data.s[Current]
  <2>1. hmeta' = [hmeta EXCEPT !.data.s[Other].valid = FALSE]
    BY <1>1
  <2>2. hmeta'.data.s[Current] = hmeta.data.s[Current]
    BY <2>1, <1>2, CurrentOther DEF Hmeta, Data, Entries
  <2> QED
    BY <2>1, <2>2, <1>2, SecureLowered, CurrentOther
<1>5. /\ ~debug /\ pc = "copy_s" /\ pc' = "write_s"
      /\ UNCHANGED <<debug, bankSwap, fram, digest, prevCrash, swaps, unrecorded>>
  BY <1>1
<1>6. TypeOK'
  BY <1>3, <1>4, <1>5, CurrentOther DEF IInv, TypeOK, Digest
<1>7. MeasuredInv'
  BY <1>3, <1>4, <1>5, CurrentOther DEF IInv, MeasuredInv, SecureImage
<1>8. NonSecureInv'
  BY <1>3, <1>4, <1>5, CurrentOther DEF IInv, NonSecureInv, BothVerified,
     CurrentNonSecureKnown
<1>9. SoundInv'
  BY <1>3, <1>4, <1>5, CurrentOther DEF IInv, SoundInv, Sound, SecureImage,
     MeasuredInv
<1>10. CrashInv'
  BY <1>3, <1>4, <1>5, CurrentOther DEF IInv, CrashInv, OnceSwapped
<1> QED
  BY <1>6, <1>7, <1>8, <1>9, <1>10 DEF IInv

LEMMA Step_WriteSecure ==
  ASSUME IInv, WriteSecure PROVE IInv'
<1>1. /\ pc = "write_s" /\ pc' = "check_s"
      /\ \E c \in {flash.s[Current], "torn"} : flash' = [flash EXCEPT !.s[Other] = c]
      /\ hmeta' = [hmeta EXCEPT !.data = SetSecureHash(hmeta.data, Other, digest.s)]
      /\ UNCHANGED <<debug, bankSwap, fram, digest, prevCrash, swaps, unrecorded>>
  BY DEF WriteSecure, Advance, ghosts
<1>2. /\ flash' \in Flash /\ flash'.nsc = flash.nsc /\ flash'.ns = flash.ns
      /\ flash'.s[Current] = flash.s[Current]
  <2>1. PICK c \in {flash.s[Current], "torn"} : flash' = [flash EXCEPT !.s[Other] = c]
    BY <1>1
  <2>2. c \in Content
    BY Typed, FlashFields, CurrentOther DEF IInv, Content
  <2> QED
    BY <2>1, <2>2, Typed, SecureWritten, CurrentOther DEF IInv
<1>3. hmeta.data \in Data /\ digest.s \in SecureDigest
  BY Typed, CurrentOther DEF IInv, NonSecureDigest
<1>4. /\ hmeta.data.s[Current] = [valid |-> TRUE, hash |-> digest.s]
      /\ digest.s \in SecureDigest
  BY <1>1, Typed DEF IInv, MeasuredInv
<1> DEFINE d == SetSecureHash(hmeta.data, Other, digest.s)
<1>5. /\ d \in Data
      /\ d.s[Other].valid /\ d.s[Current] = [valid |-> TRUE, hash |-> digest.s]
      /\ d.ns = hmeta.data.ns
      /\ d.known = hmeta.data.known /\ d.crashed = hmeta.data.crashed
  <2>1. d.s[Current] = [valid |-> TRUE, hash |-> digest.s]
    BY <1>3, <1>4, CurrentOther, SecureEntryKept
  <2> QED
    BY <1>3, <2>1, SecureHashSet, CurrentOther
<1> HIDE DEF d
<1>6. hmeta' \in Hmeta /\ hmeta'.data = d /\ hmeta'.initialised = hmeta.initialised
  <2>1. hmeta' = [hmeta EXCEPT !.data = d]
    BY <1>1 DEF d
  <2> QED
    BY <2>1, <1>5, Typed, DataReplaced DEF IInv
<1>7. /\ pc = "write_s" /\ pc' = "check_s"
      /\ UNCHANGED <<debug, bankSwap, fram, digest, prevCrash, swaps, unrecorded>>
  BY <1>1
<1>8. TypeOK'
  BY <1>5, <1>6, <1>7, <1>2, CurrentOther DEF IInv, TypeOK, Digest
<1>9. MeasuredInv'
  BY <1>5, <1>6, <1>7, <1>2, CurrentOther DEF IInv, MeasuredInv, SecureImage
<1>10. NonSecureInv'
  BY <1>5, <1>6, <1>7, <1>2, CurrentOther DEF IInv, NonSecureInv, BothVerified,
     CurrentNonSecureKnown
<1>11. SoundInv'
  BY <1>5, <1>6, <1>7, <1>2, CurrentOther DEF IInv, SoundInv, Sound,
     SecureImage, MeasuredInv
<1>12. CrashInv'
  BY <1>5, <1>6, <1>7, <1>2, CurrentOther DEF IInv, CrashInv, OnceSwapped
<1> QED
  BY <1>8, <1>9, <1>10, <1>11, <1>12 DEF IInv

LEMMA Step_CheckSecure ==
  ASSUME IInv, CheckSecure PROVE IInv'
<1>1. PICK valid \in SecureHashMatches(hmeta.data, Other, SecureImage(Other)) :
        LET h == [hmeta EXCEPT !.data.s[Other].valid = valid]
        IN IF valid
           THEN hmeta' = h /\ pc' = "copy_ns" /\ UNCHANGED prevCrash
           ELSE EnterErrorHandler(h)
  BY DEF CheckSecure
<1>2. valid \in BOOLEAN
  BY DEF SecureHashMatches
<1>3. /\ pc = "check_s"
      /\ UNCHANGED <<debug, bankSwap, flash, fram, digest, swaps, unrecorded>>
  BY DEF CheckSecure, ghosts
<1>4. hmeta \in Hmeta /\ digest \in Digest
  BY Typed DEF IInv
<1>5. CASE valid = TRUE
  <2>1. /\ hmeta' = [hmeta EXCEPT !.data.s[Other].valid = TRUE]
        /\ pc' = "copy_ns" /\ UNCHANGED prevCrash
    BY <1>1, <1>5
  <2>2. hmeta'.data.s[Current] = hmeta.data.s[Current]
    BY <2>1, <1>4, CurrentOther DEF Hmeta, Data, Entries
  <2>3. /\ hmeta' \in Hmeta /\ hmeta'.initialised = hmeta.initialised
        /\ hmeta'.data.known = hmeta.data.known
        /\ hmeta'.data.crashed = hmeta.data.crashed
        /\ hmeta'.data.ns = hmeta.data.ns
    BY <2>1, <1>4, SecureRaised, CurrentOther
  <2>4. pc' = "copy_ns" /\ UNCHANGED prevCrash
    BY <2>1
  <2>5. TypeOK'
    BY <1>3, <2>2, <2>3, <2>4, CurrentOther DEF IInv, TypeOK, Digest
  <2>6. MeasuredInv'
    BY <1>3, <2>2, <2>3, <2>4, CurrentOther DEF IInv, MeasuredInv, SecureImage
  <2>7. NonSecureInv'
    BY <1>3, <2>2, <2>3, <2>4, CurrentOther DEF IInv, NonSecureInv,
       BothVerified, CurrentNonSecureKnown
  <2>8. SoundInv'
    BY <1>3, <2>2, <2>3, <2>4, CurrentOther DEF IInv, SoundInv, Sound,
       SecureImage, MeasuredInv
  <2>9. CrashInv'
    BY <1>3, <2>2, <2>3, <2>4, CurrentOther DEF IInv, CrashInv, OnceSwapped
  <2> QED
    BY <2>5, <2>6, <2>7, <2>8, <2>9 DEF IInv
<1>6. CASE valid = FALSE
  <2> DEFINE h == [hmeta EXCEPT !.data.s[Other].valid = FALSE]
  <2>1. /\ pc' = "dump" /\ prevCrash' = h.data.crashed
        /\ hmeta' = [h EXCEPT !.data.crashed = TRUE]
    BY <1>1, <1>6 DEF EnterErrorHandler
  <2>2. h.data.s[Current] = hmeta.data.s[Current]
    BY <1>4, CurrentOther DEF Hmeta, Data, Entries
  <2>3. /\ h \in Hmeta /\ h.data.crashed = hmeta.data.crashed
        /\ h.data.s[Other].valid = FALSE
    BY <1>4, SecureLowered, CurrentOther
  <2> HIDE DEF h
  <2>4. Sound(h.data)
    BY <2>2, <2>3 DEF IInv, SoundInv, Sound
  <2>5. OnceSwapped => h.data.crashed
    BY <1>3, <2>3 DEF IInv, CrashInv
  <2> QED
    BY <1>3, <1>4, <2>1, <2>3, <2>4, <2>5, ErrorEntered
<1> QED
  BY <1>2, <1>5, <1>6

LEMMA Step_CopyNonSecure ==
  ASSUME IInv, CopyNonSecure PROVE IInv'
<1>1. /\ pc = "copy_ns" /\ pc' = "write_ns"
      /\ hmeta' = [hmeta EXCEPT !.data.ns[2].valid = FALSE]
      /\ flash' = [flash EXCEPT !.ns[2] = "torn"]
      /\ UNCHANGED <<debug, bankSwap, fram, digest, prevCrash, swaps, unrecorded>>
  BY DEF CopyNonSecure, Advance, ghosts
<1>2. hmeta \in Hmeta /\ flash \in Flash /\ "torn" \in Content
  BY Typed DEF IInv, Content
<1>3. /\ flash' \in Flash /\ flash'.nsc = flash.nsc /\ flash'.s = flash.s
      /\ flash'.ns[1] = flash.ns[1]
  <2>1. flash' = [flash EXCEPT !.ns[2] = "torn"]
    BY <1>1
  <2> QED
    BY <2>1, <1>2, NonSecureWritten, CurrentOther
<1>4. /\ hmeta' \in Hmeta /\ hmeta'.initialised = hmeta.initialised
      /\ hmeta'.data.known = hmeta.data.known /\ hmeta'.data.crashed = hmeta.data.crashed
      /\ hmeta'.data.s = hmeta.data.s /\ hmeta'.data.ns[1] = hmeta.data.ns[1]
  <2>1. hmeta' = [hmeta EXCEPT !.data.ns[2].valid = FALSE]
    BY <1>1
  <2>2. hmeta'.data.ns[1] = hmeta.data.ns[1]
    BY <2>1, <1>2 DEF Hmeta, Data, Entries
  <2> QED
    BY <2>1, <2>2, <1>2, NonSecureLowered
<1>5. /\ pc = "copy_ns" /\ pc' = "write_ns"
      /\ UNCHANGED <<debug, bankSwap, fram, digest, prevCrash, swaps, unrecorded>>
  BY <1>1
<1>6. TypeOK'
  BY <1>3, <1>4, <1>5, CurrentOther DEF IInv, TypeOK, Digest
<1>7. MeasuredInv'
  BY <1>3, <1>4, <1>5, CurrentOther DEF IInv, MeasuredInv, SecureImage
<1>8. NonSecureInv'
  <2>1. CASE bankSwap
    <3>1. digest'.ns[1] = "zero" /\ bankSwap'
      BY <1>5, <2>1, CurrentOther DEF IInv, NonSecureInv
    <3> QED
      BY <1>5, <3>1 DEF NonSecureInv
  <2>2. CASE ~bankSwap
    <3>1. CurrentNonSecureKnown'
      BY <1>3, <1>4, <1>5, <2>2, CurrentOther DEF IInv, NonSecureInv, CurrentNonSecureKnown
    <3> QED
      BY <1>5, <2>2, <3>1 DEF NonSecureInv
  <2> QED
    BY <2>1, <2>2
<1>9. SoundInv'
  BY <1>3, <1>4, <1>5, CurrentOther DEF IInv, SoundInv, Sound, SecureImage,
     MeasuredInv
<1>10. CrashInv'
  BY <1>3, <1>4, <1>5, CurrentOther DEF IInv, CrashInv, OnceSwapped
<1> QED
  BY <1>6, <1>7, <1>8, <1>9, <1>10 DEF IInv

LEMMA Step_WriteNonSecure ==
  ASSUME IInv, WriteNonSecure PROVE IInv'
<1>1. /\ pc = "write_ns" /\ pc' = "check_ns"
      /\ \E c \in {flash.ns[1], "torn"} : flash' = [flash EXCEPT !.ns[2] = c]
      /\ hmeta' = [hmeta EXCEPT !.data = SetNonSecureHash(hmeta.data, 2, digest.ns[1])]
      /\ UNCHANGED <<debug, bankSwap, fram, digest, prevCrash, swaps, unrecorded>>
  BY DEF WriteNonSecure, Advance, ghosts
<1>2. /\ flash' \in Flash /\ flash'.nsc = flash.nsc /\ flash'.s = flash.s
      /\ flash'.ns[1] = flash.ns[1]
  <2>1. PICK c \in {flash.ns[1], "torn"} : flash' = [flash EXCEPT !.ns[2] = c]
    BY <1>1
  <2>2. c \in Content
    BY Typed DEF IInv, Content
  <2> QED
    BY <2>1, <2>2, Typed, NonSecureWritten DEF IInv
<1>3. hmeta.data \in Data /\ digest.ns[1] \in NonSecureDigest
  BY Typed, CurrentOther DEF IInv, NonSecureDigest
<1>4. /\ hmeta.data.s[Current] = [valid |-> TRUE, hash |-> digest.s]
      /\ digest.s \in SecureDigest
  BY <1>1, Typed DEF IInv, MeasuredInv
<1> DEFINE d == SetNonSecureHash(hmeta.data, 2, digest.ns[1])
<1>5. /\ d \in Data
      /\ d.ns[1] = hmeta.data.ns[1] /\ d.ns[2] = [valid |-> TRUE, hash |-> digest.ns[1]]
      /\ d.s[Current] = [valid |-> TRUE, hash |-> digest.s]
      /\ d.known = hmeta.data.known /\ d.crashed = hmeta.data.crashed
  <2>1. d.s[Current] = [valid |-> TRUE, hash |-> digest.s]
    BY <1>3, <1>4, CurrentOther, SecureEntryStays
  <2> QED
    BY <1>3, <2>1, NonSecureHashSet, CurrentOther
<1> HIDE DEF d
<1>6. hmeta' \in Hmeta /\ hmeta'.data = d /\ hmeta'.initialised = hmeta.initialised
  <2>1. hmeta' = [hmeta EXCEPT !.data = d]
    BY <1>1 DEF d
  <2> QED
    BY <2>1, <1>5, Typed, DataReplaced DEF IInv
<1>7. /\ pc = "write_ns" /\ pc' = "check_ns"
      /\ UNCHANGED <<debug, bankSwap, fram, digest, prevCrash, swaps, unrecorded>>
  BY <1>1
<1>8. TypeOK'
  BY <1>5, <1>6, <1>7, <1>2, CurrentOther DEF IInv, TypeOK, Digest
<1>9. MeasuredInv'
  BY <1>5, <1>6, <1>7, <1>2, CurrentOther DEF IInv, MeasuredInv, SecureImage
<1>10. NonSecureInv'
  <2>1. hmeta'.data.ns[2] = [valid |-> TRUE, hash |-> digest'.ns[1]]
    BY <1>5, <1>6, <1>7
  <2>2. CASE bankSwap
    <3>1. digest'.ns[1] = "zero" /\ bankSwap'
      BY <1>7, <2>2 DEF IInv, NonSecureInv
    <3> QED
      BY <1>7, <2>1, <3>1 DEF NonSecureInv
  <2>3. CASE ~bankSwap
    <3>1. CurrentNonSecureKnown'
      BY <1>2, <1>5, <1>6, <1>7, <2>3, CurrentOther
      DEF IInv, NonSecureInv, CurrentNonSecureKnown
    <3> QED
      BY <1>7, <2>1, <2>3, <3>1 DEF NonSecureInv
  <2> QED
    BY <2>2, <2>3
<1>11. SoundInv'
  BY <1>5, <1>6, <1>7, <1>2, CurrentOther DEF IInv, SoundInv, Sound,
     SecureImage, MeasuredInv
<1>12. CrashInv'
  BY <1>5, <1>6, <1>7, <1>2, CurrentOther DEF IInv, CrashInv, OnceSwapped
<1> QED
  BY <1>8, <1>9, <1>10, <1>11, <1>12 DEF IInv

LEMMA Step_CheckNonSecure ==
  ASSUME IInv, CheckNonSecure PROVE IInv'
<1>1. /\ pc = "check_ns" /\ UNCHANGED <<debug, bankSwap, flash, fram, swaps, unrecorded>>
      /\ digest' = [digest EXCEPT !.ns[2] = flash.ns[2]]
  BY DEF CheckNonSecure, ghosts
<1>2. hmeta \in Hmeta /\ digest \in Digest /\ flash.ns[2] \in Content
  BY Typed DEF IInv
<1>3. /\ digest' \in Digest /\ digest'.s = digest.s
      /\ digest'.ns[1] = digest.ns[1] /\ digest'.ns[2] = flash.ns[2]
  <2>1. flash.ns[2] \in NonSecureDigest
    BY <1>2 DEF NonSecureDigest
  <2> QED
    BY <1>1, <1>2, <2>1, DigestStored
<1>4. hmeta.data.ns[2] = [valid |-> TRUE, hash |-> digest.ns[1]]
  BY <1>1 DEF IInv, NonSecureInv
<1>5. pc = "check_ns" /\ UNCHANGED <<debug, bankSwap, flash, fram, swaps, unrecorded>>
  BY <1>1
<1>6. PICK valid :
        /\ valid = (digest'.ns[2] = hmeta.data.ns[2].hash)
        /\ LET h == [hmeta EXCEPT !.data.ns[2].valid = valid]
           IN IF valid
              THEN hmeta' = h /\ pc' = "erase" /\ UNCHANGED prevCrash
              ELSE EnterErrorHandler(h)
  BY Zenon DEF CheckNonSecure
<1>7. valid \in BOOLEAN
  BY <1>6
<1>8. CASE valid = TRUE
  <2>1. digest'.ns[2] = hmeta.data.ns[2].hash
    BY <1>6, <1>8, Zenon
  <2>2. hmeta.data.ns[2].hash = digest.ns[1]
    BY <1>4
  <2>3. flash.ns[2] = digest.ns[1]
    BY <1>3, <2>1, <2>2
  <2>4. /\ hmeta' = [hmeta EXCEPT !.data.ns[2].valid = TRUE]
        /\ pc' = "erase" /\ UNCHANGED prevCrash
    BY <1>6, <1>8
  <2>5. hmeta'.data.ns[1] = hmeta.data.ns[1]
    BY <2>4, <1>2 DEF Hmeta, Data, Entries
  <2>6. /\ hmeta' \in Hmeta /\ hmeta'.initialised = hmeta.initialised
        /\ hmeta'.data.known = hmeta.data.known
        /\ hmeta'.data.crashed = hmeta.data.crashed
        /\ hmeta'.data.s = hmeta.data.s
        /\ hmeta'.data.ns[2].valid /\ hmeta'.data.ns[2].hash = hmeta.data.ns[2].hash
    BY <2>4, <1>2, NonSecureRaised
  <2>7. hmeta'.data.ns[2] = [valid |-> TRUE, hash |-> digest.ns[1]]
    <3>1. hmeta'.data.ns[2] \in [valid : BOOLEAN, hash : NonSecureDigest]
      BY <2>6 DEF Hmeta, Data, Entries
    <3>2. hmeta'.data.ns[2].hash = digest.ns[1]
      BY <1>4, <2>6
    <3> QED
      BY <2>6, <3>1, <3>2, ValidEntry
  <2>8. ~bankSwap
    BY <1>1, <1>2, <2>3 DEF IInv, NonSecureInv, Content
  <2>9. pc' = "erase" /\ UNCHANGED prevCrash
    BY <2>4
  <2>10. BothVerified'
    <3>1. flash.ns[1] = digest.ns[1]
          /\ hmeta.data.ns[1] = [valid |-> TRUE, hash |-> flash.ns[1]]
      BY <1>1, <2>8, CurrentOther DEF IInv, NonSecureInv, CurrentNonSecureKnown
    <3> QED
      BY <1>5, <2>3, <2>5, <2>7, <3>1 DEF BothVerified
  <2>11. TypeOK'
    BY <1>3, <1>5, <2>5, <2>6, <2>9, CurrentOther DEF IInv, TypeOK, Digest
  <2>12. MeasuredInv'
    BY <1>3, <1>5, <2>5, <2>6, <2>9, CurrentOther DEF IInv, MeasuredInv,
       SecureImage
  <2>13. NonSecureInv'
    BY <2>9, <2>10 DEF NonSecureInv
  <2>14. SoundInv'
    BY <1>3, <1>5, <2>5, <2>6, <2>9, CurrentOther DEF IInv, SoundInv, Sound,
       SecureImage, MeasuredInv
  <2>15. CrashInv'
    BY <1>3, <1>5, <2>5, <2>6, <2>9, CurrentOther DEF IInv, CrashInv,
       OnceSwapped
  <2> QED
    BY <2>11, <2>12, <2>13, <2>14, <2>15 DEF IInv
<1>9. CASE valid = FALSE
  <2> DEFINE h == [hmeta EXCEPT !.data.ns[2].valid = FALSE]
  <2>1. /\ pc' = "dump" /\ prevCrash' = h.data.crashed
        /\ hmeta' = [h EXCEPT !.data.crashed = TRUE]
    BY <1>6, <1>9 DEF EnterErrorHandler
  <2>2. /\ h \in Hmeta /\ h.data.crashed = hmeta.data.crashed
        /\ h.data.s = hmeta.data.s
    BY <1>2, NonSecureLowered
  <2> HIDE DEF h
  <2>3. Sound(h.data)
    BY <2>2 DEF IInv, SoundInv, Sound
  <2>4. OnceSwapped => h.data.crashed
    BY <1>5, <2>2 DEF IInv, CrashInv
  <2> QED
    BY <1>3, <1>5, <2>1, <2>2, <2>3, <2>4, ErrorEntered
<1> QED
  BY <1>7, <1>8, <1>9

LEMMA Step_CheckCurrent ==
  ASSUME IInv, CheckCurrent PROVE IInv'
<1>1. PICK valid \in SecureHashMatches(hmeta.data, Current, digest.s) :
        \/ /\ ~valid /\ hmeta.data.s[Other].valid
           /\ SwapBanks /\ UNCHANGED <<hmeta, prevCrash>>
        \/ EnterErrorHandler(hmeta) /\ UNCHANGED swaps
  BY DEF CheckCurrent
<1>2. /\ pc = "check_current"
      /\ UNCHANGED <<debug, bankSwap, flash, fram, digest, unrecorded>>
  BY DEF CheckCurrent
<1>3. CASE EnterErrorHandler(hmeta) /\ UNCHANGED swaps
  <2>1. /\ prevCrash' = hmeta.data.crashed /\ pc' = "dump"
        /\ hmeta' = [hmeta EXCEPT !.data.crashed = TRUE]
    BY <1>3 DEF EnterErrorHandler
  <2>2. hmeta \in Hmeta /\ digest \in Digest /\ Sound(hmeta.data)
    BY Typed DEF IInv, SoundInv
  <2>3. OnceSwapped => hmeta.data.crashed
    BY <1>2 DEF IInv, CrashInv
  <2> QED
    BY <1>2, <1>3, <2>1, <2>2, <2>3, ErrorEntered
<1>4. CASE /\ ~valid /\ hmeta.data.s[Other].valid
           /\ SwapBanks /\ UNCHANGED <<hmeta, prevCrash>>
  <2>1. flash.s[Current] = "torn"
    <3>1. SUFFICES ASSUME flash.s[Current] # "torn" PROVE FALSE
      OBVIOUS
    <3>2. hmeta.data.s[Current].valid /\ hmeta.data.s[Current].hash = digest.s
      BY <1>2, <1>4, <3>1 DEF IInv, SoundInv, Sound, MeasuredInv
    <3> QED
      BY <1>1, <1>4, <3>2 DEF SecureHashMatches
  <2>2. pc' \in {"start", "hang"} /\ swaps' \in 0..2
    BY <1>4 DEF SwapBanks, IInv, TypeOK
  <2>3. UNCHANGED <<hmeta, prevCrash>>
    BY <1>4
  <2>4. TypeOK'
    BY <1>2, <2>1, <2>2, <2>3, CurrentOther DEF IInv, TypeOK, Digest
  <2>5. MeasuredInv'
    BY <1>2, <2>1, <2>2, <2>3, CurrentOther DEF IInv, MeasuredInv, SecureImage
  <2>6. NonSecureInv'
    BY <1>2, <2>1, <2>2, <2>3, CurrentOther DEF IInv, NonSecureInv,
       BothVerified, CurrentNonSecureKnown
  <2>7. SoundInv'
    BY <1>2, <2>1, <2>2, <2>3, CurrentOther DEF IInv, SoundInv, Sound,
       SecureImage, MeasuredInv
  <2>8. CrashInv'
    BY <1>2, <2>1, <2>2, <2>3, CurrentOther DEF IInv, CrashInv, OnceSwapped
  <2> QED
    BY <2>4, <2>5, <2>6, <2>7, <2>8 DEF IInv
<1> QED
  BY <1>1, <1>3, <1>4

LEMMA Step_JumpToNonSecure ==
  ASSUME IInv, JumpToNonSecure PROVE IInv'
<1>1. /\ pc = "erase" /\ pc' = "running"
      /\ hmeta' \in Hmeta
      /\ hmeta'.data = hmeta.data /\ (hmeta'.initialised <=> hmeta.initialised)
      /\ UNCHANGED <<debug, bankSwap, flash, fram, digest, prevCrash, swaps, unrecorded>>
  BY Typed DEF IInv, JumpToNonSecure, Advance, ghosts, Hmeta
<1>2. TypeOK'
  BY <1>1, CurrentOther DEF IInv, TypeOK, Digest
<1>3. MeasuredInv'
  BY <1>1, CurrentOther DEF IInv, MeasuredInv, SecureImage
<1>4. NonSecureInv'
  BY <1>1, CurrentOther DEF IInv, NonSecureInv, BothVerified,
     CurrentNonSecureKnown
<1>5. SoundInv'
  BY <1>1, CurrentOther DEF IInv, SoundInv, Sound, SecureImage, MeasuredInv
<1>6. CrashInv'
  BY <1>1, CurrentOther DEF IInv, CrashInv, OnceSwapped
<1> QED
  BY <1>2, <1>3, <1>4, <1>5, <1>6 DEF IInv

LEMMA Step_DumpMetadata ==
  ASSUME IInv, DumpMetadata PROVE IInv'
<1>1. /\ pc = "dump" /\ pc' = "finish" /\ hmeta.initialised
      /\ hmeta' \in Hmeta
      /\ hmeta'.data = hmeta.data /\ (hmeta'.initialised <=> hmeta.initialised)
      /\ fram' = hmeta.data /\ hmeta.data \in Data
      /\ UNCHANGED <<debug, bankSwap, flash, digest, prevCrash, swaps, unrecorded>>
  BY Typed DEF IInv, DumpMetadata, Advance, ghosts, Hmeta
<1>2. TypeOK'
  BY <1>1, CurrentOther DEF IInv, TypeOK, Digest
<1>3. MeasuredInv'
  BY <1>1, CurrentOther DEF IInv, MeasuredInv, SecureImage
<1>4. NonSecureInv'
  BY <1>1, CurrentOther DEF IInv, NonSecureInv, BothVerified,
     CurrentNonSecureKnown
<1>5. SoundInv'
  BY <1>1, CurrentOther DEF IInv, SoundInv, Sound, SecureImage, MeasuredInv
<1>6. CrashInv'
  BY <1>1, CurrentOther DEF IInv, CrashInv, OnceSwapped
<1> QED
  BY <1>2, <1>3, <1>4, <1>5, <1>6 DEF IInv

LEMMA Step_DumpNothing ==
  ASSUME IInv, DumpNothing PROVE IInv'
<1>1. /\ pc = "dump" /\ pc' = "finish" /\ unrecorded'
      /\ unrecorded' \in BOOLEAN
      /\ UNCHANGED <<debug, bankSwap, flash, hmeta, fram, digest, prevCrash, swaps>>
  BY DEF DumpNothing, Advance
<1>2. TypeOK'
  BY <1>1, CurrentOther DEF IInv, TypeOK, Digest
<1>3. MeasuredInv'
  BY <1>1, CurrentOther DEF IInv, MeasuredInv, SecureImage
<1>4. NonSecureInv'
  BY <1>1, CurrentOther DEF IInv, NonSecureInv, BothVerified,
     CurrentNonSecureKnown
<1>5. SoundInv'
  BY <1>1, CurrentOther DEF IInv, SoundInv, Sound, SecureImage, MeasuredInv
<1>6. CrashInv'
  BY <1>1, CurrentOther DEF IInv, CrashInv, OnceSwapped
<1> QED
  BY <1>2, <1>3, <1>4, <1>5, <1>6 DEF IInv

LEMMA Step_FinishErrorHandler ==
  ASSUME IInv, FinishErrorHandler PROVE IInv'
<1>1. /\ pc = "finish" /\ hmeta' = ErasedHmeta
      /\ UNCHANGED <<debug, bankSwap, flash, fram, digest, prevCrash, unrecorded>>
  BY DEF FinishErrorHandler
<1>2. hmeta' \in Hmeta /\ ~hmeta'.initialised /\ hmeta'.data = BlankData
  BY <1>1, BlankTyped
<1>3. \/ pc' = "hang" /\ UNCHANGED swaps
      \/ /\ pc' = "start" /\ ~debug /\ ~prevCrash
         /\ swaps' = IF swaps < 2 THEN swaps + 1 ELSE 2
  BY DEF FinishErrorHandler, SwapBanks
<1>4. Sound(hmeta.data)'
  BY <1>1, <1>2, BlankSound, CurrentOther DEF Sound, SecureImage
<1>5. /\ pc = "finish"
      /\ UNCHANGED <<debug, bankSwap, flash, fram, digest, prevCrash, unrecorded>>
  BY <1>1
<1>6. TypeOK'
  BY <1>2, <1>3, <1>5, CurrentOther DEF IInv, TypeOK, Digest
<1>7. MeasuredInv'
  BY <1>2, <1>3, <1>5, CurrentOther DEF IInv, MeasuredInv, SecureImage
<1>8. NonSecureInv'
  BY <1>2, <1>3, <1>5, CurrentOther DEF IInv, NonSecureInv, BothVerified,
     CurrentNonSecureKnown
<1>9. SoundInv'
  BY <1>4, <1>5, CurrentOther DEF IInv, SoundInv, Sound, SecureImage
<1>10. CrashInv'
  <2>1. CASE pc' = "hang" /\ UNCHANGED swaps
    BY <1>5, <2>1, CurrentOther DEF IInv, CrashInv, OnceSwapped
  <2>2. CASE /\ pc' = "start" /\ ~debug /\ ~prevCrash
             /\ swaps' = IF swaps < 2 THEN swaps + 1 ELSE 2
    <3>1. ~OnceSwapped
      BY <1>5, <2>2 DEF IInv, CrashInv
    <3>2. OnceSwapped' => swaps' = 1 /\ fram'.crashed
      BY <1>5, <2>2, <3>1, CurrentOther DEF IInv, TypeOK, CrashInv, OnceSwapped
    <3> QED
      BY <1>2, <1>5, <2>2, <3>2 DEF CrashInv
  <2> QED
    BY <1>3, <2>1, <2>2
<1> QED
  BY <1>6, <1>7, <1>8, <1>9, <1>10 DEF IInv

LEMMA Step_s_save_dhcp_client_record ==
  ASSUME IInv, s_save_dhcp_client_record PROVE IInv'
<1>1. /\ pc = "running" /\ hmeta' \in Hmeta
      /\ hmeta'.data = hmeta.data /\ (hmeta'.initialised <=> hmeta.initialised)
      /\ UNCHANGED <<debug, bankSwap, flash, fram, digest, pc, prevCrash, swaps, unrecorded>>
  BY Typed DEF IInv, s_save_dhcp_client_record, ghosts, Hmeta
<1>2. TypeOK'
  BY <1>1, CurrentOther DEF IInv, TypeOK, Digest
<1>3. MeasuredInv'
  BY <1>1, CurrentOther DEF IInv, MeasuredInv, SecureImage
<1>4. NonSecureInv'
  BY <1>1, CurrentOther DEF IInv, NonSecureInv, BothVerified,
     CurrentNonSecureKnown
<1>5. SoundInv'
  BY <1>1, CurrentOther DEF IInv, SoundInv, Sound, SecureImage, MeasuredInv
<1>6. CrashInv'
  BY <1>1, CurrentOther DEF IInv, CrashInv, OnceSwapped
<1> QED
  BY <1>2, <1>3, <1>4, <1>5, <1>6 DEF IInv

LEMMA Step_s_background_task ==
  ASSUME IInv, s_background_task PROVE IInv'
<1>1. /\ pc = "running" /\ hmeta' \in Hmeta
      /\ hmeta'.data = hmeta.data /\ (hmeta'.initialised <=> hmeta.initialised)
      /\ fram' = hmeta.data /\ hmeta.data \in Data
      /\ UNCHANGED <<debug, bankSwap, flash, digest, pc, prevCrash, swaps, unrecorded>>
  BY Typed DEF IInv, s_background_task, ghosts, Hmeta
<1>2. TypeOK'
  BY <1>1, CurrentOther DEF IInv, TypeOK, Digest
<1>3. MeasuredInv'
  BY <1>1, CurrentOther DEF IInv, MeasuredInv, SecureImage
<1>4. NonSecureInv'
  BY <1>1, CurrentOther DEF IInv, NonSecureInv, BothVerified,
     CurrentNonSecureKnown
<1>5. SoundInv'
  BY <1>1, CurrentOther DEF IInv, SoundInv, Sound, SecureImage, MeasuredInv
<1>6. CrashInv'
  BY <1>1, CurrentOther DEF IInv, CrashInv, OnceSwapped
<1> QED
  BY <1>2, <1>3, <1>4, <1>5, <1>6 DEF IInv

LEMMA Step_MetadataFails ==
  ASSUME IInv, MetadataFails PROVE IInv'
<1> DEFINE h == [hmeta EXCEPT !.initialised = FALSE, !.first_boot = FALSE,
                              !.new_metadata = IF Reinit THEN @ ELSE FALSE]
<1>1. h \in Hmeta /\ ~h.initialised /\ h.data = hmeta.data
  BY Typed DEF IInv, Hmeta
<1>2. /\ pc = "start" /\ pc' = "dump" /\ digest' = NoDigest
      /\ prevCrash' = h.data.crashed /\ hmeta' = [h EXCEPT !.data.crashed = TRUE]
      /\ UNCHANGED <<debug, bankSwap, flash, fram, swaps, unrecorded>>
  BY DEF MetadataFails, EnterErrorHandler, ghosts
<1> HIDE DEF h
<1>3. Sound(h.data) /\ digest' \in Digest
  BY <1>1, <1>2, NoDigestTyped DEF IInv, SoundInv
<1> QED
  BY <1>1, <1>2, <1>3, ErrorEntered

LEMMA Step_StepFails ==
  ASSUME IInv, StepFails PROVE IInv'
<1> DEFINE h == IF pc = "configure" THEN [hmeta EXCEPT !.data.known = TRUE] ELSE hmeta
<1>1. /\ h \in Hmeta /\ h.data.s = hmeta.data.s
      /\ h.data.crashed = hmeta.data.crashed /\ h.initialised = hmeta.initialised
  BY Typed DEF IInv, Hmeta, Data
<1>2. /\ pc \in {"measure", "configure", "record_ns", "write_s", "check_s",
                 "write_ns", "check_ns", "erase"}
      /\ pc' = "dump" /\ prevCrash' = h.data.crashed
      /\ hmeta' = [h EXCEPT !.data.crashed = TRUE]
      /\ UNCHANGED <<debug, bankSwap, flash, fram, digest, swaps, unrecorded>>
  BY DEF StepFails, EnterErrorHandler, ghosts
<1> HIDE DEF h
<1>3. Sound(h.data) /\ digest \in Digest
  BY <1>1, Typed DEF IInv, SoundInv, Sound
<1>4. OnceSwapped => h.data.crashed
  BY <1>1, <1>2 DEF IInv, CrashInv
<1> QED
  BY <1>1, <1>2, <1>3, <1>4, ErrorEntered

LEMMA Step_ServiceFails ==
  ASSUME IInv, ServiceFails PROVE IInv'
<1>1. /\ pc = "running" /\ pc' = "dump"
      /\ prevCrash' = hmeta.data.crashed /\ hmeta' = [hmeta EXCEPT !.data.crashed = TRUE]
      /\ UNCHANGED <<debug, bankSwap, flash, fram, digest, swaps, unrecorded>>
  BY DEF ServiceFails, EnterErrorHandler, ghosts
<1>2. hmeta \in Hmeta /\ digest \in Digest /\ Sound(hmeta.data)
  BY Typed DEF IInv, SoundInv
<1>3. OnceSwapped => hmeta.data.crashed
  BY <1>1 DEF IInv, CrashInv
<1> QED
  BY <1>1, <1>2, <1>3, ErrorEntered

LEMMA Step_Hang ==
  ASSUME IInv, Hang PROVE IInv'
<1>1. /\ pc = "running" /\ pc' = "hang"
      /\ UNCHANGED <<debug, bankSwap, flash, hmeta, fram, digest, prevCrash,
                     swaps, unrecorded>>
  BY DEF Hang, Advance, ghosts
<1>2. TypeOK'
  BY <1>1, CurrentOther DEF IInv, TypeOK, Digest
<1>3. MeasuredInv'
  BY <1>1, CurrentOther DEF IInv, MeasuredInv, SecureImage
<1>4. NonSecureInv'
  BY <1>1, CurrentOther DEF IInv, NonSecureInv, BothVerified,
     CurrentNonSecureKnown
<1>5. SoundInv'
  BY <1>1, CurrentOther DEF IInv, SoundInv, Sound, SecureImage, MeasuredInv
<1>6. CrashInv'
  BY <1>1, CurrentOther DEF IInv, CrashInv, OnceSwapped
<1> QED
  BY <1>2, <1>3, <1>4, <1>5, <1>6 DEF IInv

LEMMA Step_Reset ==
  ASSUME IInv, Reset PROVE IInv'
<1>1. /\ pc' = "start" /\ swaps' = 0 /\ unrecorded' \in BOOLEAN
      /\ UNCHANGED <<debug, bankSwap, flash, hmeta, fram, digest, prevCrash>>
  BY DEF Reset, Restart
<1>2. TypeOK'
  BY <1>1, CurrentOther DEF IInv, TypeOK, Digest
<1>3. MeasuredInv'
  BY <1>1, CurrentOther DEF IInv, MeasuredInv, SecureImage
<1>4. NonSecureInv'
  BY <1>1, CurrentOther DEF IInv, NonSecureInv, BothVerified,
     CurrentNonSecureKnown
<1>5. SoundInv'
  BY <1>1, CurrentOther DEF IInv, SoundInv, Sound, SecureImage, MeasuredInv
<1>6. CrashInv'
  BY <1>1, CurrentOther DEF IInv, CrashInv, OnceSwapped
<1> QED
  BY <1>2, <1>3, <1>4, <1>5, <1>6 DEF IInv

LEMMA Step_PowerCycle ==
  ASSUME IInv, PowerCycle PROVE IInv'
<1>1. /\ pc' = "start" /\ swaps' = 0 /\ unrecorded' \in BOOLEAN
      /\ hmeta' \in Hmeta /\ hmeta'.data = BlankData
      /\ UNCHANGED <<debug, bankSwap, flash, fram, digest, prevCrash>>
  BY BlankTyped DEF IInv, PowerCycle, Restart
<1>2. Sound(hmeta.data)'
  BY <1>1, BlankSound, CurrentOther DEF Sound, SecureImage
<1>3. TypeOK'
  BY <1>1, CurrentOther DEF IInv, TypeOK, Digest
<1>4. MeasuredInv'
  BY <1>1, CurrentOther DEF IInv, MeasuredInv, SecureImage
<1>5. NonSecureInv'
  BY <1>1, CurrentOther DEF IInv, NonSecureInv, BothVerified,
     CurrentNonSecureKnown
<1>6. SoundInv'
  BY <1>1, <1>2, CurrentOther DEF IInv, SoundInv, Sound, SecureImage
<1>7. CrashInv'
  BY <1>1, CurrentOther DEF IInv, CrashInv, OnceSwapped
<1> QED
  BY <1>3, <1>4, <1>5, <1>6, <1>7 DEF IInv

LEMMA Step_Corrupt ==
  ASSUME IInv, Corrupt PROVE IInv'
<1>1. /\ pc = "start" /\ pc' = "start"
      /\ flash' = [flash EXCEPT !.s[Current] = "torn"]
      /\ UNCHANGED <<debug, bankSwap, hmeta, fram, digest, prevCrash, swaps, unrecorded>>
  BY DEF Corrupt, ghosts
<1>2. /\ flash' \in Flash /\ flash'.nsc = flash.nsc /\ flash'.ns = flash.ns
      /\ flash'.s[Current] = "torn"
  BY <1>1, Typed, SecureWritten, CurrentOther DEF IInv, Content
<1>3. /\ pc = "start" /\ pc' = "start"
      /\ UNCHANGED <<debug, bankSwap, hmeta, fram, digest, prevCrash, swaps, unrecorded>>
  BY <1>1
<1>4. TypeOK'
  BY <1>2, <1>3, CurrentOther DEF IInv, TypeOK, Digest
<1>5. MeasuredInv'
  BY <1>2, <1>3, CurrentOther DEF IInv, MeasuredInv, SecureImage
<1>6. NonSecureInv'
  BY <1>2, <1>3, CurrentOther DEF IInv, NonSecureInv, BothVerified,
     CurrentNonSecureKnown
<1>7. SoundInv'
  BY <1>2, <1>3, CurrentOther DEF IInv, SoundInv, Sound, SecureImage,
     MeasuredInv
<1>8. CrashInv'
  BY <1>2, <1>3, CurrentOther DEF IInv, CrashInv, OnceSwapped
<1> QED
  BY <1>4, <1>5, <1>6, <1>7, <1>8 DEF IInv

LEMMA InitHolds == Init => IInv
<1> SUFFICES ASSUME Init PROVE IInv
  OBVIOUS
<1>1. /\ pc = "start" /\ swaps = 0 /\ unrecorded = FALSE
      /\ debug \in BOOLEAN /\ bankSwap \in BOOLEAN
      /\ hmeta = ErasedHmeta /\ fram = BlankData
      /\ digest = NoDigest /\ prevCrash = FALSE
  BY DEF Init
<1>2. flash \in Flash
  BY DEF Init, Flash, Content
<1>3. TypeOK
  <2>1. debug \in BOOLEAN /\ bankSwap \in BOOLEAN /\ prevCrash \in BOOLEAN /\ unrecorded \in BOOLEAN
    BY <1>1
  <2>2. hmeta \in Hmeta /\ fram \in Data
    BY <1>1, BlankTyped
  <2>3. digest \in [s : SecureDigest, ns : [Banks -> NonSecureDigest]]
    BY <1>1, NoDigestTyped DEF Digest
  <2>4. pc \in Steps /\ swaps \in 0..2
    BY <1>1
  <2> QED
    BY <1>2, <2>1, <2>2, <2>3, <2>4 DEF TypeOK
<1>4. MeasuredInv /\ NonSecureInv
  BY <1>1 DEF MeasuredInv, NonSecureInv
<1>5. SoundInv
  BY <1>1, BlankTyped, BlankSound DEF SoundInv
<1>6. CrashInv
  BY <1>1 DEF CrashInv, OnceSwapped
<1> QED
  BY <1>3, <1>4, <1>5, <1>6 DEF IInv

LEMMA NextHolds ==
  ASSUME IInv, [Next]_vars PROVE IInv'
<1>1. CASE boot_main
  BY <1>1, Step_META_Init, Step_META_Reinit, Step_MeasureCurrent,
     Step_META_Configure, Step_RecordSecure, Step_RecordNonSecure,
     Step_SkipCopies, Step_CopySecure, Step_WriteSecure, Step_CheckSecure,
     Step_CopyNonSecure, Step_WriteNonSecure, Step_CheckNonSecure,
     Step_CheckCurrent, Step_JumpToNonSecure DEF boot_main, FirstBoot
<1>2. CASE error_handler
  BY <1>2, Step_DumpMetadata, Step_DumpNothing, Step_FinishErrorHandler DEF
     error_handler
<1>3. CASE s_save_dhcp_client_record \/ s_background_task
  BY <1>3, Step_s_save_dhcp_client_record, Step_s_background_task
<1>4. CASE Faults
  BY <1>4, Step_MetadataFails, Step_StepFails, Step_ServiceFails, Step_Hang DEF
     Faults
<1>5. CASE Reset \/ PowerCycle \/ Corrupt
  BY <1>5, Step_Reset, Step_PowerCycle, Step_Corrupt
<1>6. CASE UNCHANGED vars
  BY <1>6, Step_Stutter
<1> QED
  BY <1>1, <1>2, <1>3, <1>4, <1>5, <1>6 DEF Next

----------------------------------------------------------------------------
(* The inductive invariant holds throughout, for either bank. *)
THEOREM InductiveInvariant == Spec => []IInv
<1>1. Init => IInv
  BY InitHolds
<1>2. IInv /\ [Next]_vars => IInv'
  BY NextHolds
<1> QED
  BY <1>1, <1>2, PTL DEF Spec

(* The metadata record, the flash, the digests and the position in boot    *)
(* keep to their types.                                                    *)
THEOREM TypeCorrect == Spec => []TypeOK
<1>1. IInv => TypeOK
  BY DEF IInv
<1> QED
  BY <1>1, InductiveInvariant, PTL

(* Whichever bank is current, a release build reaches the application      *)
(* (boot_main.c, lines 147 to 151) only over two equal non-secure images   *)
(* whose stored hashes are theirs.                                         *)
THEOREM ImagesVerified == Spec => []RunningImagesVerified
<1>1. IInv => RunningImagesVerified
  BY DEF IInv, NonSecureInv, BothVerified, RunningImagesVerified
<1> QED
  BY <1>1, InductiveInvariant, PTL

(* No path of error_handler or of a failed call leads to the application   *)
(* without this boot's measurement of the current secure image             *)
(* (boot_main.c, line 125).                                                *)
THEOREM BootIsMeasured == Spec => []RunningIsMeasured
<1>1. ASSUME IInv, pc = "running"
      PROVE  /\ hmeta.initialised /\ hmeta.data.known
             /\ hmeta.data.s[Current].hash = digest.s
             /\ digest.s # NoSecureDigest
  <2>1. /\ hmeta.initialised /\ hmeta.data.known
        /\ hmeta.data.s[Current] = [valid |-> TRUE, hash |-> digest.s]
        /\ digest.s = SecureImage(Current)
    BY <1>1 DEF IInv, MeasuredInv
  <2>2. flash.s[Current] \in Content
    BY <1>1, Typed, FlashFields, CurrentOther DEF IInv
  <2>3. SecureImage(Current) # NoSecureDigest
    BY <2>2 DEF SecureImage, NoSecureDigest, Content
  <2>4. hmeta.data.s[Current].hash = digest.s
    BY <2>1
  <2> QED
    BY <2>1, <2>3, <2>4
<1>2. IInv => RunningIsMeasured
  BY <1>1 DEF RunningIsMeasured
<1> QED
  BY <1>2, InductiveInvariant, PTL

(* A crash that could be recorded resets the device at most once           *)
(* (error.c, line 38), through whatever resets, power cycles and failures  *)
(* of other calls come in between.                                         *)
THEOREM ResetsOnce == Spec => []NoFlipFlopOnceRecorded
<1>1. IInv => NoFlipFlopOnceRecorded
  BY DEF IInv, TypeOK, CrashInv, OnceSwapped, NoFlipFlopOnceRecorded
<1> QED
  BY <1>1, InductiveInvariant, PTL

(* The non-secure image of the current bank is the one programmed, except  *)
(* in a release build that executes from bank 2: there the copy of bank 1  *)
(* overwrites it, is checked against the digest of bank 1, which nobody    *)
(* has computed, and so never gets past that check.                        *)
NonSecureCopySteps == {"copy_ns", "write_ns", "check_ns"}
SecureCopySteps == {"write_s", "check_s"}

ProgrammedInv ==
  /\ debug \/ ~bankSwap => flash.ns[Current] = "image"
  /\ pc \in SecureCopySteps \union NonSecureCopySteps => ~debug
  /\ pc \in {"erase", "running"} => debug \/ ~bankSwap

LEMMA CheckedFromBank1 ==
  ASSUME IInv, CheckNonSecure, pc' = "erase" PROVE ~bankSwap
<1>1. pc = "check_ns" /\ digest' = [digest EXCEPT !.ns[2] = flash.ns[2]]
  BY DEF CheckNonSecure
<1>2. digest'.ns[2] = hmeta.data.ns[2].hash
  BY Zenon DEF CheckNonSecure, EnterErrorHandler
<1>3. hmeta.data.ns[2].hash = digest.ns[1]
  BY <1>1 DEF IInv, NonSecureInv
<1>4. digest'.ns[2] = flash.ns[2] /\ flash.ns[2] \in Content
  BY <1>1, Typed DEF IInv, Digest
<1> QED
  BY <1>1, <1>2, <1>3, <1>4 DEF IInv, NonSecureInv, Content

LEMMA ProgrammedKept ==
  ASSUME IInv, ProgrammedInv, [Next]_vars PROVE ProgrammedInv'
<1>1. flash \in Flash /\ (UNCHANGED bankSwap => Current' = Current)
  BY Typed, CurrentOther DEF IInv
<1>2. CASE CopyNonSecure \/ WriteNonSecure
  <2>1. /\ pc \in NonSecureCopySteps /\ pc' \in NonSecureCopySteps
        /\ UNCHANGED <<debug, bankSwap>>
    BY <1>2 DEF CopyNonSecure, WriteNonSecure, Advance, NonSecureCopySteps
  <2>2. PICK c : flash' = [flash EXCEPT !.ns[2] = c]
    BY <1>2 DEF CopyNonSecure, WriteNonSecure
  <2>3. ~bankSwap => flash'.ns[Current] = flash.ns[Current]
    BY <1>1, <2>2, CurrentOther DEF Flash
  <2> QED
    BY <1>1, <2>1, <2>3 DEF ProgrammedInv, NonSecureCopySteps
<1>3. CASE CopySecure \/ WriteSecure
  <2>1. /\ pc' \in SecureCopySteps /\ ~debug
        /\ UNCHANGED <<debug, bankSwap>>
    BY <1>3 DEF ProgrammedInv, CopySecure, WriteSecure, Advance, SecureCopySteps
  <2>2. PICK c : flash' = [flash EXCEPT !.s[Other] = c]
    BY <1>3 DEF CopySecure, WriteSecure
  <2>3. flash'.ns = flash.ns
    BY <1>1, <2>2 DEF Flash
  <2> QED
    BY <1>1, <2>1, <2>3 DEF ProgrammedInv, SecureCopySteps
<1>4. CASE Corrupt
  <2>1. pc = "start" /\ pc' = "start" /\ UNCHANGED <<debug, bankSwap>>
    BY <1>4 DEF Corrupt
  <2>2. flash'.ns = flash.ns
    BY <1>1, <1>4 DEF Corrupt, Flash
  <2> QED
    BY <1>1, <2>1, <2>2 DEF ProgrammedInv, SecureCopySteps, NonSecureCopySteps
<1>5. CASE CheckSecure \/ CheckNonSecure
  <2>1. /\ pc \in SecureCopySteps \union NonSecureCopySteps
        /\ pc' \in {"copy_ns", "erase", "dump"}
        /\ UNCHANGED <<debug, bankSwap, flash>>
    BY <1>5 DEF CheckSecure, CheckNonSecure, EnterErrorHandler, SecureCopySteps,
       NonSecureCopySteps
  <2>2. pc' = "erase" => ~bankSwap
    <3>1. CheckSecure => pc' # "erase"
      BY DEF CheckSecure, EnterErrorHandler
    <3> QED
      BY <1>5, <3>1, CheckedFromBank1
  <2> QED
    BY <1>1, <2>1, <2>2 DEF ProgrammedInv, SecureCopySteps, NonSecureCopySteps
<1>6. CASE SkipCopies \/ JumpToNonSecure
  <2>1. /\ debug \/ pc = "erase"
        /\ pc' \in {"erase", "running"} /\ UNCHANGED <<debug, bankSwap, flash>>
    BY <1>6 DEF SkipCopies, JumpToNonSecure, Advance
  <2> QED
    BY <1>1, <2>1 DEF ProgrammedInv, SecureCopySteps, NonSecureCopySteps
<1>7. CASE \/ UNCHANGED <<debug, bankSwap, flash, pc>>
           \/ /\ UNCHANGED <<debug, bankSwap, flash>>
              /\ pc' \notin SecureCopySteps \union NonSecureCopySteps
              /\ pc' \notin {"erase", "running"}
  BY <1>1, <1>7 DEF ProgrammedInv
<1>8. CASE s_save_dhcp_client_record \/ s_background_task \/ UNCHANGED vars
  <2>1. UNCHANGED <<debug, bankSwap, flash, pc>>
    BY <1>8 DEF s_save_dhcp_client_record, s_background_task, vars
  <2> QED
    BY <1>7, <2>1
<1>9. CASE \/ META_Init \/ META_Reinit \/ MeasureCurrent
           \/ META_Configure \/ RecordSecure \/ RecordNonSecure \/ CheckCurrent
           \/ error_handler \/ Faults \/ Reset \/ PowerCycle
  <2>1. /\ UNCHANGED <<debug, bankSwap, flash>>
        /\ pc' \in {"start", "measure", "configure", "check_current", "record_s",
                    "record_ns", "copy_s", "dump", "finish", "hang"}
    BY <1>9 DEF META_Init, META_Reinit, MeasureCurrent, META_Configure,
       RecordSecure, RecordNonSecure, CheckCurrent, error_handler, DumpMetadata,
       DumpNothing, FinishErrorHandler, Faults, MetadataFails, StepFails,
       ServiceFails, Hang, Reset, PowerCycle, Restart, EnterErrorHandler,
       SwapBanks, Advance
  <2> QED
    BY <1>7, <2>1 DEF SecureCopySteps, NonSecureCopySteps
<1> QED
  BY <1>2, <1>3, <1>4, <1>5, <1>6, <1>8, <1>9 DEF Next, boot_main, FirstBoot

(* The non-secure firmware that runs is the one that was programmed into   *)
(* the current bank.  The first boot from bank 2 copies bank 1 over it     *)
(* (boot_main.c, line 150); no interruption of that copy, no inexact write *)
(* and no content of bank 1 lets what it leaves be run.                    *)
THEOREM ProgrammedRuns == Spec => []RunsAsProgrammed
<1>1. Init => ProgrammedInv
  <2>1. ASSUME Init
        PROVE  pc = "start" /\ flash.ns[Current] = "image"
    BY <2>1, CurrentOther DEF Init
  <2> QED
    BY <2>1 DEF ProgrammedInv, SecureCopySteps, NonSecureCopySteps
<1>2. IInv /\ ProgrammedInv /\ [Next]_vars => ProgrammedInv'
  BY ProgrammedKept
<1>3. ProgrammedInv => RunsAsProgrammed
  BY DEF ProgrammedInv, RunsAsProgrammed
<1> QED
  BY <1>1, <1>2, <1>3, InductiveInvariant, PTL DEF Spec
=============================================================================
