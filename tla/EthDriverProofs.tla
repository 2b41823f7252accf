--------------------------- MODULE EthDriverProofs ---------------------------
(***************************************************************************)
(* What holds of EthDriver for rings of any size and any pool.             *)
(*                                                                         *)
(* The packets are conserved because every step moves one from a place to  *)
(* another.  For the types it has to be known that BuffersInUse counts the *)
(* transmit descriptors that have a packet, and that HAL_ETH_ReadData      *)
(* never looks at more descriptors than are built.  That the IP thread     *)
(* hears of every event needs that nobody but it is in the paths that end  *)
(* with its going back to wait.                                            *)
(*                                                                         *)
(* The second half is about the order of the rings: every index is a       *)
(* number of descriptors ahead of another, and the state of a descriptor   *)
(* follows from how far ahead of them it is.  Told descriptor by           *)
(* descriptor and with Wrap for the remainder, what a step does to one     *)
(* index is linear arithmetic; only at the end the sets of descriptors and *)
(* their sizes that RingInStep speaks of are derived.                      *)
(***************************************************************************)
EXTENDS EthDriver, FiniteSetTheorems, FunctionTheorems, TLAPS

InUseCounts == inUse = Cardinality(Unsent)

ReadBounded ==
  /\ skipped + buildCnt <= R
  /\ pc # "read" => skipped = 0
  /\ hand = 1 => pc = "fill"

IpOwns == pc \in {"release", "read", "fill"} => ip = "busy"

IInv == TypeOK /\ PacketsConserved /\ InUseCounts /\ ReadBounded /\ IpOwns /\ EventHeard

----------------------------------------------------------------------------
(* The rings                                                               *)

(* The sets of descriptors with a packet are finite and no larger than     *)
(* their ring.                                                             *)
LEMMA Sizes ==
  /\ IsFiniteSet(Buffered) /\ Cardinality(Buffered) \in Nat
  /\ IsFiniteSet(Unsent) /\ Cardinality(Unsent) \in Nat /\ Cardinality(Unsent) <= T
<1>1. R \in Nat /\ T \in Nat /\ R > 0 /\ T > 0
  BY EthDriverAssumption
<1>2. IsFiniteSet(0..R - 1) /\ IsFiniteSet(0..T - 1) /\ Cardinality(0..T - 1) = T
  BY <1>1, FS_Interval
<1>3. Buffered \subseteq 0..R - 1 /\ Unsent \subseteq 0..T - 1
  BY DEF Buffered, Unsent
<1>4. IsFiniteSet(Buffered) /\ IsFiniteSet(Unsent) /\ Cardinality(Unsent) <= T
  BY <1>2, <1>3, FS_Subset
<1>5. QED
  BY <1>4, FS_CardinalityType

(* An index stays in its ring.                                             *)
LEMMA InRing ==
  ASSUME NEW d \in Nat
  PROVE  NextRx(d) \in 0..R - 1 /\ NextTx(d) \in 0..T - 1
<1>1. ASSUME NEW n \in Nat, NEW k \in Nat \ {0} PROVE n % k \in 0..k - 1
  BY <1>1, SMT
<1>2. QED
  BY <1>1, EthDriverAssumption DEF NextRx, NextTx

(* A receive descriptor that gets a buffer or keeps it.                    *)
LEMMA RxKeeps ==
  ASSUME TypeOK, NEW d \in 0..R - 1, NEW s \in {"dma", "full", "stray"},
         rx' = [rx EXCEPT ![d] = s]
  PROVE  /\ rx' \in [0..R - 1 -> RxStates]
         /\ Cardinality(Buffered') = Cardinality(Buffered) + (IF d \in Buffered THEN 0 ELSE 1)
<1>1. rx' \in [0..R - 1 -> RxStates]
  BY DEF TypeOK, RxStates
<1>2. Buffered' = Buffered \union {d}
  BY DEF TypeOK, Buffered
<1>3. CASE d \in Buffered
  <2>1. Buffered' = Buffered
    BY <1>2, <1>3
  <2>2. QED
    BY <1>1, <1>3, <2>1, Sizes
<1>4. CASE d \notin Buffered
  <2>1. Cardinality(Buffered') = Cardinality(Buffered) + 1
    BY <1>2, <1>4, Sizes, FS_AddElement
  <2>2. QED
    BY <1>1, <1>4, <2>1
<1>5. QED
  BY <1>3, <1>4

(* A receive descriptor whose buffer is taken.                             *)
LEMMA RxTaken ==
  ASSUME TypeOK, NEW d \in Buffered, rx' = [rx EXCEPT ![d] = "empty"]
  PROVE  /\ rx' \in [0..R - 1 -> RxStates]
         /\ Cardinality(Buffered') = Cardinality(Buffered) - 1
<1>1. rx' \in [0..R - 1 -> RxStates]
  BY DEF TypeOK, RxStates, Buffered
<1>2. Buffered' = Buffered \ {d}
  BY DEF TypeOK, Buffered
<1>3. QED
  BY <1>1, <1>2, Sizes, FS_RemoveElement

(* A transmit descriptor that gets a packet or keeps it.                   *)
LEMMA TxKeeps ==
  ASSUME TypeOK, NEW d \in 0..T - 1, NEW s \in {"dma", "sent"},
         tx' = [tx EXCEPT ![d] = s]
  PROVE  /\ tx' \in [0..T - 1 -> TxStates]
         /\ Cardinality(Unsent') = Cardinality(Unsent) + (IF tx[d] # "free" THEN 0 ELSE 1)
<1>1. tx' \in [0..T - 1 -> TxStates]
  BY DEF TypeOK, TxStates
<1>2. Unsent' = Unsent \union {d}
  BY DEF TypeOK, Unsent
<1>3. d \in Unsent <=> tx[d] # "free"
  BY DEF Unsent
<1>4. CASE d \in Unsent
  <2>1. Unsent' = Unsent
    BY <1>2, <1>4
  <2>2. QED
    BY <1>1, <1>3, <1>4, <2>1, Sizes
<1>5. CASE d \notin Unsent
  <2>1. Cardinality(Unsent') = Cardinality(Unsent) + 1
    BY <1>2, <1>5, Sizes, FS_AddElement
  <2>2. QED
    BY <1>1, <1>3, <1>5, <2>1
<1>6. QED
  BY <1>4, <1>5

(* A transmit descriptor whose packet is released.                         *)
LEMMA TxTaken ==
  ASSUME TypeOK, NEW d \in Unsent, tx' = [tx EXCEPT ![d] = "free"]
  PROVE  /\ tx' \in [0..T - 1 -> TxStates]
         /\ Cardinality(Unsent') = Cardinality(Unsent) - 1
<1>1. tx' \in [0..T - 1 -> TxStates]
  BY DEF TypeOK, TxStates, Unsent
<1>2. Unsent' = Unsent \ {d}
  BY DEF TypeOK, Unsent
<1>3. QED
  BY <1>1, <1>2, Sizes, FS_RemoveElement

(* A full transmit ring has no free descriptor.                            *)
LEMMA RoomLeft ==
  ASSUME TypeOK, NEW d \in 0..T - 1, tx[d] = "free"
  PROVE  Cardinality(Unsent) < T
<1>1. T \in Nat \ {0} /\ IsFiniteSet(0..T - 1) /\ Cardinality(0..T - 1) = T
  <2>1. T \in Nat /\ T > 0
    BY EthDriverAssumption
  <2>2. QED
    BY <2>1, FS_Interval
<1> DEFINE Ring == 0..T - 1
           Others == Ring \ {d}
<1>2. Unsent \subseteq Others
  BY DEF Unsent
<1> HIDE DEF Ring
<1>3. IsFiniteSet(Ring) /\ Cardinality(Ring) = T /\ d \in Ring
  BY <1>1 DEF Ring
<1>4. IsFiniteSet(Others) /\ Cardinality(Others) = T - 1
  BY <1>3, FS_RemoveElement
<1>5. Cardinality(Unsent) <= T - 1
  <2> HIDE DEF Others
  <2>1. QED
    BY <1>2, <1>4, FS_Subset
<1>6. QED
  BY <1>1, <1>5, Sizes

LEMMA RxSame == rx' = rx => Buffered' = Buffered
  BY DEF Buffered

LEMMA TxSame == tx' = tx => Unsent' = Unsent
  BY DEF Unsent

----------------------------------------------------------------------------
(* At first all packets are in the pool.                                   *)
LEMMA InitEstablishes == Init => IInv
<1> SUFFICES ASSUME Init PROVE IInv
  OBVIOUS
<1> R \in Nat /\ R > 0 /\ T \in Nat /\ T > 0 /\ Packets \in Nat
  BY EthDriverAssumption
<1>1. TypeOK /\ ReadBounded /\ IpOwns /\ EventHeard
  <2>1. rx \in [0..R - 1 -> RxStates] /\ tx \in [0..T - 1 -> TxStates]
    BY DEF Init, RxStates, TxStates
  <2>2. ReadBounded /\ IpOwns /\ EventHeard
    BY DEF Init, ReadBounded, IpOwns, EventHeard
  <2>3. 0 \in 0..R - 1 /\ 0 \in 0..T - 1 /\ 0 \in 0..R /\ 0 \in 0..T
    OBVIOUS
  <2>4. Packets \in 0..Packets /\ 0 \in 0..Packets
    OBVIOUS
  <2>5. irq \subseteq Completions /\ events \subseteq Completions /\ picked \subseteq Completions
    BY DEF Init
  <2>6. /\ rxIdx \in 0..R - 1 /\ buildIdx \in 0..R - 1 /\ rxDma \in 0..R - 1
        /\ buildCnt \in 0..R /\ skipped \in 0..R /\ hand \in 0..1
        /\ curTx \in 0..T - 1 /\ releaseIdx \in 0..T - 1 /\ txDma \in 0..T - 1
        /\ inUse \in 0..T
    BY <2>3 DEF Init
  <2>7. /\ available \in 0..Packets /\ stack \in 0..Packets /\ ipEvent \in BOOLEAN
        /\ enabled \in BOOLEAN /\ askew \in BOOLEAN /\ corrupt \in BOOLEAN
        /\ ip \in {"waiting", "woken", "busy"}
        /\ pc \in {"free", "release", "read", "fill", "start"}
        /\ gState \in {"READY", "BUSY", "STARTED", "ERROR"}
    BY <2>4 DEF Init
  <2>8. QED
    BY <2>1, <2>2, <2>5, <2>6, <2>7 DEF TypeOK
<1>2. Buffered = {} /\ Unsent = {}
  BY DEF Init, Buffered, Unsent
<1>3. Cardinality(Buffered) = 0 /\ Cardinality(Unsent) = 0
  BY <1>2, FS_EmptySet
<1>4. PacketsConserved /\ InUseCounts
  BY <1>3, EthDriverAssumption DEF Init, PacketsConserved, InUseCounts
<1>5. QED
  BY <1>1, <1>4 DEF IInv

----------------------------------------------------------------------------
(* The steps that move no packet leave both counts as they are.            *)
LEMMA NothingMoves ==
  ASSUME IInv, rx' = rx, tx' = tx, inUse' = inUse, hand' = hand, UNCHANGED poolVars
  PROVE  PacketsConserved' /\ InUseCounts'
<1>1. Buffered' = Buffered /\ Unsent' = Unsent
  BY RxSame, TxSame
<1>2. QED
  BY <1>1 DEF IInv, PacketsConserved, InUseCounts, poolVars

(* The DMA and the interrupt handler.                                      *)
LEMMA DeviceKeeps ==
  ASSUME IInv, DmaReceive \/ DmaTransmit \/ Interrupt \/ FatalBusError
  PROVE  IInv'
<1> USE DEF poolVars, readVars, txVars, rxVars, eventVars, linkVars
<1> TypeOK
  BY DEF IInv
<1>1. CASE DmaReceive
  <2>1. rxDma \in 0..R - 1 /\ rx[rxDma] \in {"dma", "stray"}
    BY <1>1 DEF DmaReceive, TypeOK
  <2>2. rx' \in [0..R - 1 -> RxStates] /\ Cardinality(Buffered') = Cardinality(Buffered)
    BY <1>1, <2>1, RxKeeps, Sizes DEF DmaReceive, Buffered
  <2>3. Unsent' = Unsent
    BY <1>1, TxSame DEF DmaReceive
  <2>4. rxDma' \in 0..R - 1
    BY <1>1, <2>1, InRing DEF DmaReceive
  <2>5. TypeOK'
    BY <1>1, <2>2, <2>4 DEF DmaReceive, TypeOK, Completions
  <2>6. PacketsConserved' /\ InUseCounts'
    BY <1>1, <2>2, <2>3 DEF DmaReceive, IInv, PacketsConserved, InUseCounts
  <2>7. ReadBounded' /\ IpOwns' /\ EventHeard'
    BY <1>1 DEF DmaReceive, IInv, ReadBounded, IpOwns, EventHeard
  <2>8. QED
    BY <2>5, <2>6, <2>7 DEF IInv
<1>2. CASE DmaTransmit
  <2>1. txDma \in 0..T - 1 /\ tx[txDma] = "dma"
    BY <1>2 DEF DmaTransmit, TypeOK
  <2>2. tx' \in [0..T - 1 -> TxStates] /\ Cardinality(Unsent') = Cardinality(Unsent)
    <3>1. tx' = [tx EXCEPT ![txDma] = "sent"] /\ "sent" \in {"dma", "sent"}
      BY <1>2 DEF DmaTransmit
    <3>2. /\ tx' \in [0..T - 1 -> TxStates]
          /\ Cardinality(Unsent') = Cardinality(Unsent) + (IF tx[txDma] # "free" THEN 0 ELSE 1)
      BY <2>1, <3>1, TxKeeps
    <3>3. QED
      BY <2>1, <3>2, Sizes
  <2>3. Buffered' = Buffered
    BY <1>2, RxSame DEF DmaTransmit
  <2>4. txDma' \in 0..T - 1
    BY <1>2, <2>1, InRing DEF DmaTransmit
  <2>5. TypeOK'
    BY <1>2, <2>2, <2>4 DEF DmaTransmit, TypeOK, Completions
  <2>6. PacketsConserved' /\ InUseCounts'
    BY <1>2, <2>2, <2>3 DEF DmaTransmit, IInv, PacketsConserved, InUseCounts
  <2>7. ReadBounded' /\ IpOwns' /\ EventHeard'
    BY <1>2 DEF DmaTransmit, IInv, ReadBounded, IpOwns, EventHeard
  <2>8. QED
    BY <2>5, <2>6, <2>7 DEF IInv
<1>3. CASE Interrupt
  <2>1. TypeOK'
    BY <1>3 DEF Interrupt, TypeOK
  <2>2. PacketsConserved' /\ InUseCounts'
    BY <1>3, NothingMoves DEF Interrupt
  <2>3. ReadBounded' /\ IpOwns' /\ EventHeard'
    BY <1>3 DEF Interrupt, IInv, ReadBounded, IpOwns, EventHeard
  <2>4. QED
    BY <2>1, <2>2, <2>3 DEF IInv
<1>4. CASE FatalBusError
  <2>1. TypeOK'
    BY <1>4 DEF FatalBusError, TypeOK
  <2>2. PacketsConserved' /\ InUseCounts'
    BY <1>4, NothingMoves DEF FatalBusError
  <2>3. ReadBounded' /\ IpOwns' /\ EventHeard'
    BY <1>4 DEF FatalBusError, IInv, ReadBounded, IpOwns, EventHeard
  <2>4. QED
    BY <2>1, <2>2, <2>3 DEF IInv
<1>5. QED
  BY <1>1, <1>2, <1>3, <1>4

(* The IP thread wakes, takes the events and releases sent packets.        *)
LEMMA DeferredKeeps ==
  ASSUME IInv, WakeIp \/ _nx_driver_deferred_processing \/ HAL_ETH_ReleaseTxPacket
  PROVE  IInv'
<1> USE DEF poolVars, readVars, txVars, rxVars, eventVars, linkVars
<1> TypeOK
  BY DEF IInv
<1>1. CASE WakeIp
  <2>1. TypeOK'
    BY <1>1 DEF WakeIp, TypeOK
  <2>2. PacketsConserved' /\ InUseCounts'
    BY <1>1, NothingMoves DEF WakeIp
  <2>3. ReadBounded' /\ IpOwns' /\ EventHeard'
    BY <1>1 DEF WakeIp, IInv, ReadBounded, IpOwns, EventHeard
  <2>4. QED
    BY <2>1, <2>2, <2>3 DEF IInv
<1>2. CASE _nx_driver_deferred_processing
  <2>1. TypeOK'
    BY <1>2 DEF _nx_driver_deferred_processing, TypeOK
  <2>2. PacketsConserved' /\ InUseCounts'
    BY <1>2, NothingMoves DEF _nx_driver_deferred_processing
  <2>3. ReadBounded'
    BY <1>2 DEF _nx_driver_deferred_processing, IInv, ReadBounded
  <2>4. IpOwns' /\ EventHeard'
    BY <1>2 DEF _nx_driver_deferred_processing, IInv, IpOwns, EventHeard
  <2>5. QED
    BY <2>1, <2>2, <2>3, <2>4 DEF IInv
<1>3. CASE ReleaseOne
  <2>1. releaseIdx \in 0..T - 1 /\ releaseIdx \in Unsent
    BY <1>3 DEF ReleaseOne, TypeOK, Unsent
  <2>2. /\ tx' \in [0..T - 1 -> TxStates]
        /\ Cardinality(Unsent') = Cardinality(Unsent) - 1
    BY <1>3, <2>1, TxTaken DEF ReleaseOne
  <2>3. Buffered' = Buffered
    BY <1>3, RxSame DEF ReleaseOne
  <2>4. releaseIdx' \in 0..T - 1
    BY <1>3, <2>1, InRing DEF ReleaseOne
  <2>5. \/ available' = available + 1 /\ stack' = stack
        \/ stack' = stack + 1 /\ available' = available
    BY <1>3 DEF ReleaseOne
  <2>6. InUseCounts' /\ inUse' \in 0..T
    BY <1>3, <2>2, Sizes, EthDriverAssumption DEF ReleaseOne, IInv, TypeOK, InUseCounts
  <2>7. PacketsConserved' /\ available' \in 0..Packets /\ stack' \in 0..Packets
    <3>1. hand' = hand /\ inUse > 0
      BY <1>3 DEF ReleaseOne
    <3>2. CASE available' = available + 1 /\ stack' = stack
      BY <2>2, <2>3, <3>1, <3>2, Sizes, EthDriverAssumption
      DEF IInv, TypeOK, PacketsConserved, InUseCounts
    <3>3. CASE stack' = stack + 1 /\ available' = available
      BY <2>2, <2>3, <3>1, <3>3, Sizes, EthDriverAssumption
      DEF IInv, TypeOK, PacketsConserved, InUseCounts
    <3>4. QED
      BY <2>5, <3>2, <3>3
  <2>8. TypeOK'
    BY <1>3, <2>2, <2>4, <2>6, <2>7 DEF ReleaseOne, TypeOK
  <2>9. ReadBounded' /\ IpOwns' /\ EventHeard'
    BY <1>3 DEF ReleaseOne, IInv, ReadBounded, IpOwns, EventHeard
  <2>10. QED
    BY <2>6, <2>7, <2>8, <2>9 DEF IInv
<1>4. CASE ReleaseEnd
  <2>1. TypeOK'
    BY <1>4 DEF ReleaseEnd, LeaveDriver, TypeOK
  <2>2. PacketsConserved' /\ InUseCounts'
    BY <1>4, NothingMoves DEF ReleaseEnd
  <2>3. ReadBounded' /\ IpOwns' /\ EventHeard'
    BY <1>4 DEF ReleaseEnd, LeaveDriver, IInv, ReadBounded, IpOwns, EventHeard
  <2>4. QED
    BY <2>1, <2>2, <2>3 DEF IInv
<1>5. QED
  BY <1>1, <1>2, <1>3, <1>4 DEF HAL_ETH_ReleaseTxPacket

(* The IP thread looks for a frame.                                        *)
LEMMA ReadKeeps ==
  ASSUME IInv, HAL_ETH_ReadData
  PROVE  IInv'
<1> USE DEF HAL_ETH_ReadData, poolVars, readVars, txVars, rxVars, eventVars, linkVars
<1> R \in Nat /\ R > 0
  BY EthDriverAssumption
<1> TypeOK /\ rxIdx \in 0..R - 1
  BY DEF IInv, TypeOK
<1> NextRx(rxIdx) \in 0..R - 1
  BY InRing
<1>1. CASE ReadRefused
  <2>1. TypeOK'
    BY <1>1 DEF ReadRefused, LeaveDriver, TypeOK
  <2>2. PacketsConserved' /\ InUseCounts'
    BY <1>1, NothingMoves DEF ReadRefused
  <2>3. ReadBounded' /\ IpOwns' /\ EventHeard'
    BY <1>1 DEF ReadRefused, LeaveDriver, IInv, ReadBounded, IpOwns, EventHeard
  <2>4. QED
    BY <2>1, <2>2, <2>3 DEF IInv
<1>2. CASE ReadFrame
  <2>1. rxIdx \in Buffered
    BY <1>2 DEF ReadFrame, Buffered
  <2>2. /\ rx' \in [0..R - 1 -> RxStates]
        /\ Cardinality(Buffered') = Cardinality(Buffered) - 1
    BY <1>2, <2>1, RxTaken DEF ReadFrame
  <2>3. Unsent' = Unsent
    BY TxSame
  <2>4. hand = 0 /\ skipped' = 0 /\ hand' = 1 /\ pc' = "fill"
    BY <1>2 DEF ReadFrame, IInv, ReadBounded, TypeOK
  <2>5. PacketsConserved' /\ InUseCounts'
    BY <2>2, <2>3, <2>4, Sizes DEF IInv, TypeOK, PacketsConserved, InUseCounts
  <2>6. buildCnt' \in 0..R
    BY <1>2 DEF ReadFrame, Readable, TypeOK
  <2>7. TypeOK'
    BY <1>2, <2>2, <2>4, <2>6 DEF ReadFrame, TypeOK
  <2>8. ReadBounded'
    <3>1. skipped' + buildCnt' <= R
      BY <1>2 DEF ReadFrame, Readable, TypeOK
    <3>2. QED
      BY <2>4, <3>1 DEF ReadBounded
  <2>9. IpOwns' /\ EventHeard'
    BY <1>2 DEF ReadFrame, IInv, IpOwns, EventHeard
  <2>10. QED
    BY <2>5, <2>7, <2>8, <2>9 DEF IInv
<1>3. CASE SkipFresh
  <2>1. skipped' \in 0..R /\ skipped' + buildCnt <= R
    BY <1>3 DEF SkipFresh, Readable, TypeOK
  <2>2. TypeOK'
    BY <1>3, <2>1 DEF SkipFresh, TypeOK
  <2>3. PacketsConserved' /\ InUseCounts'
    BY <1>3, NothingMoves DEF SkipFresh
  <2>4. ReadBounded' /\ IpOwns' /\ EventHeard'
    BY <1>3, <2>1 DEF SkipFresh, IInv, ReadBounded, IpOwns, EventHeard
  <2>5. QED
    BY <2>2, <2>3, <2>4 DEF IInv
<1>4. CASE ReadNothing
  <2>1. TypeOK'
    BY <1>4 DEF ReadNothing, TypeOK
  <2>2. PacketsConserved' /\ InUseCounts'
    BY <1>4, NothingMoves DEF ReadNothing
  <2>3. ReadBounded' /\ IpOwns' /\ EventHeard'
    BY <1>4 DEF ReadNothing, IInv, ReadBounded, IpOwns, EventHeard
  <2>4. QED
    BY <2>1, <2>2, <2>3 DEF IInv
<1>5. CASE ReadEnd
  <2>1. buildCnt' \in 0..R /\ skipped' = 0
    BY <1>5 DEF ReadEnd, IInv, ReadBounded, TypeOK
  <2>2. TypeOK'
    BY <1>5, <2>1 DEF ReadEnd, TypeOK
  <2>3. PacketsConserved' /\ InUseCounts'
    BY <1>5, NothingMoves DEF ReadEnd
  <2>4. ReadBounded' /\ IpOwns' /\ EventHeard'
    BY <1>5, <2>1 DEF ReadEnd, IInv, ReadBounded, IpOwns, EventHeard
  <2>5. QED
    BY <2>2, <2>3, <2>4 DEF IInv
<1>6. QED
  BY <1>1, <1>2, <1>3, <1>4, <1>5

(* A descriptor is built, and a packet that was read is handed over.       *)
LEMMA BuildKeeps ==
  ASSUME IInv, ETH_UpdateDescriptor \/ _nx_driver_hardware_packet_received
  PROVE  IInv'
<1> USE DEF poolVars, readVars, txVars, rxVars, eventVars, linkVars
<1> R \in Nat /\ R > 0 /\ Packets \in Nat
  BY EthDriverAssumption
<1> TypeOK
  BY DEF IInv
<1>1. CASE BuildOne
  <2> DEFINE s == IF rx[buildIdx] \in {"full", "stray"} THEN "stray" ELSE "dma"
  <2>1. /\ buildIdx \in 0..R - 1 /\ s \in {"dma", "full", "stray"}
        /\ rx' = [rx EXCEPT ![buildIdx] = s]
    BY <1>1 DEF BuildOne, TypeOK
  <2>2. /\ rx' \in [0..R - 1 -> RxStates]
        /\ Cardinality(Buffered') =
             Cardinality(Buffered) + (IF buildIdx \in Buffered THEN 0 ELSE 1)
    <3> HIDE DEF s
    <3>1. QED
      BY <2>1, RxKeeps
  <2>3. Unsent' = Unsent
    BY <1>1, TxSame DEF BuildOne
  <2>4. buildIdx' \in 0..R - 1
    BY <1>1, <2>1, InRing DEF BuildOne
  <2>5. /\ available' = available - (IF buildIdx \in Buffered THEN 0 ELSE 1)
        /\ available' \in 0..Packets
    BY <1>1 DEF BuildOne, Buildable, TypeOK
  <2>6. PacketsConserved' /\ InUseCounts'
    BY <1>1, <2>2, <2>3, <2>5, Sizes
    DEF BuildOne, IInv, TypeOK, PacketsConserved, InUseCounts
  <2>7. TypeOK'
    BY <1>1, <2>2, <2>4, <2>5 DEF BuildOne, Buildable, TypeOK
  <2>8. ReadBounded'
    BY <1>1 DEF BuildOne, Buildable, IInv, TypeOK, ReadBounded
  <2>9. IpOwns' /\ EventHeard'
    BY <1>1 DEF BuildOne, IInv, IpOwns, EventHeard
  <2>10. QED
    BY <2>6, <2>7, <2>8, <2>9 DEF IInv
<1>2. CASE _nx_driver_hardware_packet_received
  <2>1. Buffered' = Buffered /\ Unsent' = Unsent
    BY <1>2, RxSame, TxSame DEF _nx_driver_hardware_packet_received
  <2>2. PacketsConserved' /\ InUseCounts'
    BY <1>2, <2>1, Sizes
    DEF _nx_driver_hardware_packet_received, IInv, TypeOK, PacketsConserved, InUseCounts
  <2>3. stack' \in 0..Packets /\ hand' \in 0..1
    BY <1>2, Sizes
    DEF _nx_driver_hardware_packet_received, IInv, TypeOK, PacketsConserved
  <2>4. TypeOK'
    BY <1>2, <2>3 DEF _nx_driver_hardware_packet_received, LeaveDriver, TypeOK
  <2>5. ReadBounded' /\ IpOwns' /\ EventHeard'
    BY <1>2
    DEF _nx_driver_hardware_packet_received, LeaveDriver, IInv, ReadBounded, IpOwns, EventHeard
  <2>6. QED
    BY <2>2, <2>4, <2>5 DEF IInv
<1>3. QED
  BY <1>1, <1>2 DEF ETH_UpdateDescriptor

(* The link thread.                                                        *)
LEMMA LinkKeeps ==
  ASSUME IInv, _nx_driver_enable \/ Started \/ _nx_driver_disable
  PROVE  IInv'
<1> USE DEF poolVars, readVars, txVars, rxVars, eventVars, linkVars
<1> R \in Nat /\ R > 0
  BY EthDriverAssumption
<1> TypeOK
  BY DEF IInv
<1>1. CASE _nx_driver_enable
  <2>1. TypeOK'
    BY <1>1 DEF _nx_driver_enable, TypeOK
  <2>2. PacketsConserved' /\ InUseCounts'
    BY <1>1, NothingMoves DEF _nx_driver_enable
  <2>3. ReadBounded'
    BY <1>1 DEF _nx_driver_enable, IInv, TypeOK, ReadBounded
  <2>4. IpOwns' /\ EventHeard'
    BY <1>1 DEF _nx_driver_enable, IInv, IpOwns, EventHeard
  <2>5. QED
    BY <2>1, <2>2, <2>3, <2>4 DEF IInv
<1>2. CASE Started
  <2>1. TypeOK'
    BY <1>2 DEF Started, TypeOK
  <2>2. PacketsConserved' /\ InUseCounts'
    BY <1>2, NothingMoves DEF Started
  <2>3. ReadBounded' /\ IpOwns' /\ EventHeard'
    BY <1>2 DEF Started, IInv, ReadBounded, IpOwns, EventHeard
  <2>4. QED
    BY <2>1, <2>2, <2>3 DEF IInv
<1>3. CASE _nx_driver_disable
  <2>1. TypeOK'
    BY <1>3 DEF _nx_driver_disable, TypeOK
  <2>2. PacketsConserved' /\ InUseCounts'
    BY <1>3, NothingMoves DEF _nx_driver_disable
  <2>3. ReadBounded' /\ IpOwns' /\ EventHeard'
    BY <1>3 DEF _nx_driver_disable, IInv, ReadBounded, IpOwns, EventHeard
  <2>4. QED
    BY <2>1, <2>2, <2>3 DEF IInv
<1>4. QED
  BY <1>1, <1>2, <1>3

(* Packets are sent, taken from the pool and returned to it.               *)
LEMMA PacketsKeep ==
  ASSUME IInv, _nx_driver_packet_send \/ nx_packet_allocate \/ nx_packet_release
  PROVE  IInv'
<1> USE DEF poolVars, readVars, txVars, rxVars, eventVars, linkVars
<1> Packets \in Nat /\ T \in Nat
  BY EthDriverAssumption
<1> TypeOK
  BY DEF IInv
<1>1. CASE HAL_ETH_Transmit_IT
  <2>1. curTx \in 0..T - 1 /\ tx[curTx] = "free" /\ stack > 0
    BY <1>1 DEF HAL_ETH_Transmit_IT, MaySend, HasRoom, TypeOK
  <2>2. /\ tx' \in [0..T - 1 -> TxStates]
        /\ Cardinality(Unsent') = Cardinality(Unsent) + 1
    <3>1. tx' = [tx EXCEPT ![curTx] = "dma"] /\ "dma" \in {"dma", "sent"}
      BY <1>1 DEF HAL_ETH_Transmit_IT
    <3>2. /\ tx' \in [0..T - 1 -> TxStates]
          /\ Cardinality(Unsent') = Cardinality(Unsent) + (IF tx[curTx] # "free" THEN 0 ELSE 1)
      BY <2>1, <3>1, TxKeeps
    <3>3. QED
      BY <2>1, <3>2
  <2>3. Buffered' = Buffered
    BY <1>1, RxSame DEF HAL_ETH_Transmit_IT
  <2>4. curTx' \in 0..T - 1
    BY <1>1, <2>1, InRing DEF HAL_ETH_Transmit_IT
  <2>5. PacketsConserved' /\ InUseCounts'
    BY <1>1, <2>2, <2>3, Sizes, SMTT(30)
    DEF HAL_ETH_Transmit_IT, IInv, TypeOK, PacketsConserved, InUseCounts
  <2>6. inUse' \in 0..T /\ stack' \in 0..Packets
    BY <1>1, <2>1, RoomLeft, Sizes DEF HAL_ETH_Transmit_IT, IInv, TypeOK, InUseCounts
  <2>7. TypeOK'
    BY <1>1, <2>2, <2>4, <2>6 DEF HAL_ETH_Transmit_IT, TypeOK
  <2>8. ReadBounded' /\ IpOwns' /\ EventHeard'
    BY <1>1 DEF HAL_ETH_Transmit_IT, IInv, ReadBounded, IpOwns, EventHeard
  <2>9. QED
    BY <2>5, <2>7, <2>8 DEF IInv
<1>2. ASSUME /\ UNCHANGED <<rxVars, txVars, readVars, eventVars, ip, picked, pc, linkVars, corrupt>>
             /\ available' + stack' = available + stack
             /\ available' \in Nat /\ stack' \in Nat
      PROVE  IInv'
  <2>1. Buffered' = Buffered /\ Unsent' = Unsent
    BY <1>2, RxSame, TxSame
  <2>2. PacketsConserved' /\ InUseCounts'
    BY <1>2, <2>1, Sizes DEF IInv, TypeOK, PacketsConserved, InUseCounts
  <2>3. available + stack <= Packets
    BY Sizes DEF IInv, TypeOK, PacketsConserved
  <2>4. available' \in 0..Packets /\ stack' \in 0..Packets
    <3>1. available' + stack' <= Packets
      BY <1>2, <2>3
    <3>2. ASSUME NEW a \in Nat, NEW b \in Nat, a + b <= Packets
          PROVE  a \in 0..Packets /\ b \in 0..Packets
      BY <3>2
    <3>3. QED
      BY <1>2, <3>1, <3>2
  <2>5. TypeOK'
    BY <1>2, <2>4 DEF TypeOK
  <2>6. ReadBounded' /\ IpOwns' /\ EventHeard'
    BY <1>2 DEF IInv, ReadBounded, IpOwns, EventHeard
  <2>7. QED
    BY <2>2, <2>5, <2>6 DEF IInv
<1>3. CASE SendRefused
  BY <1>2, <1>3 DEF SendRefused, MaySend, TypeOK, poolVars
<1>4. CASE nx_packet_allocate
  BY <1>2, <1>4 DEF nx_packet_allocate, TypeOK
<1>5. CASE nx_packet_release
  BY <1>2, <1>5 DEF nx_packet_release, TypeOK
<1>6. QED
  BY <1>1, <1>3, <1>4, <1>5 DEF _nx_driver_packet_send

(* Every step keeps the invariant.                                         *)
LEMMA NextKeeps == IInv /\ [Next]_vars => IInv'
<1> SUFFICES ASSUME IInv, [Next]_vars PROVE IInv'
  OBVIOUS
<1>1. CASE Next
  BY <1>1, DeviceKeeps, DeferredKeeps, ReadKeeps, BuildKeeps, LinkKeeps, PacketsKeep
  DEF Next, IpThread
<1>2. CASE UNCHANGED vars
  <2> USE <1>2 DEF vars, rxVars, txVars, poolVars, readVars, eventVars, linkVars
  <2>1. PacketsConserved' /\ InUseCounts'
    BY NothingMoves
  <2>2. TypeOK'
    BY DEF IInv, TypeOK
  <2>3. ReadBounded' /\ IpOwns' /\ EventHeard'
    BY DEF IInv, ReadBounded, IpOwns, EventHeard
  <2>4. QED
    BY <2>1, <2>2, <2>3 DEF IInv
<1>3. QED
  BY <1>1, <1>2

----------------------------------------------------------------------------
(* In every behaviour of the driver the inductive invariant holds.         *)
THEOREM InductiveInvariant == Spec => []IInv
BY InitEstablishes, NextKeeps, PTL DEF Spec

(* The indices stay in their rings and the counters within their bounds:   *)
(* no more buffers in use than descriptors, no more to build than there    *)
(* are, no packet count beyond the pool.                                   *)
THEOREM TypeCorrect == Spec => []TypeOK
<1>1. IInv => TypeOK
  BY DEF IInv
<1>2. QED
  BY <1>1, InductiveInvariant, PTL

(* Whatever the size of the rings and of the pool, the driver loses no     *)
(* packet and gives none back twice.                                       *)
THEOREM PacketsKept == Spec => []PacketsConserved
<1>1. IInv => PacketsConserved
  BY DEF IInv
<1>2. QED
  BY <1>1, InductiveInvariant, PTL

(* No deferred event waits for an IP thread that sleeps.                   *)
THEOREM EventsHeard == Spec => []EventHeard
<1>1. IInv => EventHeard
  BY DEF IInv
<1>2. QED
  BY <1>1, InductiveInvariant, PTL

----------------------------------------------------------------------------
(* The order of the rings                                                  *)

(* Position i of a ring, one turn further at most; and how far x is ahead  *)
(* of d around it.                                                         *)
Wrap(i, size) == IF i < size THEN i ELSE i - size
Ahead(d, x, size) == IF d <= x THEN x - d ELSE (x - d) + size

(* The receive ring in order, with n frames to read.                       *)
RxOrder(n) ==
  /\ n + buildCnt <= R
  /\ rxIdx = Wrap(buildIdx + buildCnt, R)
  /\ rxDma = Wrap(rxIdx + n, R)
  /\ \A d \in 0..R - 1 :
       /\ rx[d] = "full" <=> Ahead(rxIdx, d, R) < n
       /\ rx[d] \in {"empty", "fresh"} <=> Ahead(buildIdx, d, R) < buildCnt
       /\ rx[d] # "stray"

(* A start found every descriptor built and none with a frame: what it     *)
(* counts as to build has its buffers.                                     *)
RxRebuilt ==
  /\ rxIdx = Wrap(buildIdx + buildCnt, R) /\ rxDma = rxIdx
  /\ \A d \in 0..R - 1 : rx[d] = "dma"

(* Before the first start.                                                 *)
RxUnused ==
  /\ rxIdx = 0 /\ rxDma = 0 /\ buildIdx = 0 /\ buildCnt = 0
  /\ \A d \in 0..R - 1 : rx[d] = "fresh"

(* Until a start finds the ring askew.  HAL_ETH_ReadData then never skips  *)
(* a descriptor, nor finds a frame without a buffer.                       *)
RxRing ==
  ~askew =>
    /\ skipped = 0
    /\ ~corrupt
    /\ \/ \E n \in 0..R : RxOrder(n)
       \/ RxRebuilt /\ pc = "start"
       \/ RxUnused /\ gState = "READY"

(* The transmit ring in order, with k packets sent and not released.       *)
TxOrder(k) ==
  /\ k <= inUse
  /\ txDma = Wrap(releaseIdx + k, T)
  /\ curTx = Wrap(releaseIdx + inUse, T)
  /\ \A d \in 0..T - 1 :
       /\ tx[d] = "sent" <=> Ahead(releaseIdx, d, T) < k
       /\ tx[d] # "free" <=> Ahead(releaseIdx, d, T) < inUse

TxRing == \E k \in 0..T : TxOrder(k)

(* The HAL is busy while the link thread builds the ring, and only then.   *)
Starting == pc = "start" <=> gState = "BUSY"

Frames == \E d \in 0..R - 1 : rx[d] = "full"

(* A frame to read has an event, or will be read before the IP thread goes *)
(* back to wait: with a packet in hand it comes round to read again.       *)
RxNoticed ==
  ~askew /\ Frames =>
    /\ gState # "BUSY"
    /\ gState = "STARTED" =>
         \/ "received" \in irq \union events
         \/ pc = "read" \/ (pc = "fill" /\ hand = 1)
         \/ pc = "release" /\ "received" \in picked

TxNoticed ==
  (\E d \in 0..T - 1 : tx[d] = "sent") =>
     "transmitted" \in irq \union events \/ pc = "release"

----------------------------------------------------------------------------
(* Once round the ring and on.                                             *)
LEMMA ModWrap ==
  ASSUME NEW size \in Nat \ {0}, NEW i \in Nat, i < size + size
  PROVE  i % size = Wrap(i, size)
<1>1. CASE i < size
  BY <1>1, SMT DEF Wrap
<1>2. CASE i >= size
  BY <1>2, SMT DEF Wrap
<1>3. QED
  BY <1>1, <1>2

(* INCR_RX_DESC_INDEX and INCR_TX_DESC_INDEX                               *)
LEMMA NextWraps ==
  /\ \A d \in 0..R - 1 : NextRx(d) = Wrap(d + 1, R)
  /\ \A d \in 0..T - 1 : NextTx(d) = Wrap(d + 1, T)
<1>1. ASSUME NEW size \in Nat \ {0}, NEW d \in 0..size - 1
      PROVE  (d + 1) % size = Wrap(d + 1, size)
  <2>1. d + 1 \in Nat /\ d + 1 < size + size
    OBVIOUS
  <2>2. QED
    BY <2>1, ModWrap
<1>2. QED
  BY <1>1, EthDriverAssumption DEF NextRx, NextTx

(* The n descriptors from d on are those less than n ahead of it.          *)
LEMMA SegmentAhead ==
  ASSUME NEW size \in Nat \ {0}, NEW d \in 0..size - 1, NEW n \in 0..size
  PROVE  Segment(d, n, size) = {x \in 0..size - 1 : Ahead(d, x, size) < n}
<1>1. ASSUME NEW i \in 0..n - 1
      PROVE  (d + i) % size = Wrap(d + i, size)
  <2>1. d + i \in Nat /\ d + i < size + size
    OBVIOUS
  <2>2. QED
    BY <2>1, ModWrap
<1>2. ASSUME NEW i \in 0..n - 1
      PROVE  /\ Wrap(d + i, size) \in 0..size - 1
             /\ Ahead(d, Wrap(d + i, size), size) = i
  BY DEF Wrap, Ahead
<1>3. ASSUME NEW x \in 0..size - 1
      PROVE  Ahead(d, x, size) \in 0..size - 1 /\ Wrap(d + Ahead(d, x, size), size) = x
  BY DEF Wrap, Ahead
<1>4. ASSUME NEW x \in Segment(d, n, size)
      PROVE  x \in 0..size - 1 /\ Ahead(d, x, size) < n
  <2>1. PICK i \in 0..n - 1 : x = (d + i) % size
    BY <1>4 DEF Segment
  <2>2. x = Wrap(d + i, size)
    BY <1>1, <2>1
  <2>3. i < n
    OBVIOUS
  <2>4. QED
    BY <1>2, <2>2, <2>3
<1>5. ASSUME NEW x \in 0..size - 1, Ahead(d, x, size) < n
      PROVE  x \in Segment(d, n, size)
  <2>1. Ahead(d, x, size) \in 0..n - 1
    BY <1>3, <1>5
  <2>2. x = (d + Ahead(d, x, size)) % size
    BY <1>1, <1>3, <2>1
  <2>3. QED
    BY <2>1, <2>2 DEF Segment
<1>6. QED
  BY <1>4, <1>5

(* There are n of them.                                                    *)
LEMMA SegmentSize ==
  ASSUME NEW size \in Nat \ {0}, NEW d \in 0..size - 1, NEW n \in 0..size
  PROVE  Cardinality(Segment(d, n, size)) = n
<1> DEFINE S == {x \in 0..size - 1 : Ahead(d, x, size) < n}
           f == [i \in 0..n - 1 |-> Wrap(d + i, size)]
<1>1. \A i \in 0..n - 1 : Wrap(d + i, size) \in 0..size - 1 /\ Ahead(d, Wrap(d + i, size), size) = i
  BY DEF Wrap, Ahead
<1>2. \A x \in 0..size - 1 :
        Ahead(d, x, size) \in 0..size - 1 /\ Wrap(d + Ahead(d, x, size), size) = x
  BY DEF Wrap, Ahead
<1>3. f \in [0..n - 1 -> S]
  BY <1>1
<1>4. \A i, j \in 0..n - 1 : f[i] = f[j] => i = j
  BY <1>1
<1>5. \A x \in S : \E i \in 0..n - 1 : f[i] = x
  <2>1. SUFFICES ASSUME NEW x \in S PROVE \E i \in 0..n - 1 : f[i] = x
    OBVIOUS
  <2>2. Ahead(d, x, size) \in 0..n - 1
    BY <1>2
  <2>3. f[Ahead(d, x, size)] = x
    BY <1>2, <2>2
  <2>4. QED
    BY <2>2, <2>3
<1>6. f \in Bijection(0..n - 1, S)
  <2> HIDE DEF f, S
  <2>1. f \in Injection(0..n - 1, S) /\ f \in Surjection(0..n - 1, S)
    BY <1>3, <1>4, <1>5 DEF Injection, IsInjective, Surjection
  <2>2. QED
    BY <2>1 DEF Bijection
<1>7. ExistsBijection(0..n - 1, S)
  BY <1>6 DEF ExistsBijection
<1>8. IsFiniteSet(0..n - 1) /\ Cardinality(0..n - 1) = n
  BY FS_Interval
<1>9. Cardinality(S) = n
  <2> HIDE DEF S
  <2>1. QED
    BY <1>7, <1>8, FS_Bijection
<1>10. QED
  BY <1>9, SegmentAhead

----------------------------------------------------------------------------
(* The receive ring                                                        *)

(* What RingInStep says in terms of sets, as long as the ring is in order. *)
LEMMA OrderInStep ==
  ASSUME IInv, NEW n \in 0..R, RxOrder(n), ~corrupt
  PROVE  RingInStep
<1>1. R \in Nat \ {0} /\ rxIdx \in 0..R - 1 /\ buildIdx \in 0..R - 1 /\ buildCnt \in 0..R
  BY EthDriverAssumption DEF IInv, TypeOK
<1> DEFINE full == {d \in 0..R - 1 : rx[d] = "full"}
           unbuilt == {d \in 0..R - 1 : rx[d] \in {"empty", "fresh"}}
<1>2. full = Segment(rxIdx, n, R)
  BY <1>1, SegmentAhead DEF RxOrder
<1>3. unbuilt = Segment(buildIdx, buildCnt, R)
  BY <1>1, SegmentAhead DEF RxOrder
<1>4. Cardinality(full) = n
  BY <1>1, <1>2, SegmentSize
<1>5. rxDma = (rxIdx + n) % R
  <2>1. rxIdx + n \in Nat /\ rxIdx + n < R + R
    BY <1>1
  <2>2. QED
    BY <1>1, <2>1, ModWrap DEF RxOrder
<1>6. rxIdx = (buildIdx + buildCnt) % R
  <2>1. buildIdx + buildCnt \in Nat /\ buildIdx + buildCnt < R + R
    BY <1>1
  <2>2. QED
    BY <1>1, <2>1, ModWrap DEF RxOrder
<1>7. \A d \in 0..R - 1 : rx[d] # "stray"
  BY DEF RxOrder
<1>8. QED
  <2> HIDE DEF full, unbuilt
  <2>1. full = Segment(rxIdx, Cardinality(full), R) /\ rxDma = (rxIdx + Cardinality(full)) % R
    BY <1>2, <1>4, <1>5
  <2>2. QED
    BY <1>3, <1>6, <1>7, <2>1 DEF RingInStep, full, unbuilt

(* The DMA puts a frame where the unread ones end.                         *)
LEMMA OrderReceive ==
  ASSUME IInv, NEW n \in 0..R, RxOrder(n), rx[rxDma] = "dma",
         rx' = [rx EXCEPT ![rxDma] = "full"], rxDma' = NextRx(rxDma),
         UNCHANGED <<rxIdx, buildIdx, buildCnt>>
  PROVE  n + 1 \in 0..R /\ RxOrder(n + 1)'
<1>1. /\ R \in Nat \ {0} /\ rxIdx \in 0..R - 1 /\ buildIdx \in 0..R - 1 /\ buildCnt \in 0..R
      /\ rxDma \in 0..R - 1 /\ rx \in [0..R - 1 -> RxStates]
  BY EthDriverAssumption DEF IInv, TypeOK
<1>2. ~(Ahead(rxIdx, rxDma, R) < n) /\ ~(Ahead(buildIdx, rxDma, R) < buildCnt)
  BY <1>1 DEF RxOrder
<1>3. Ahead(rxIdx, rxDma, R) = n /\ n + buildCnt < R
  BY <1>1, <1>2 DEF RxOrder, Wrap, Ahead
<1>4. rxDma' = Wrap(rxIdx' + (n + 1), R)
  BY <1>1, <1>3, NextWraps DEF RxOrder, Wrap
<1>5. ASSUME NEW d \in 0..R - 1, d # rxDma
      PROVE  Ahead(rxIdx, d, R) # n
  BY <1>1, <1>3, <1>5 DEF Ahead
<1>6. ASSUME NEW d \in 0..R - 1
      PROVE  /\ rx'[d] = "full" <=> Ahead(rxIdx', d, R) < n + 1
             /\ rx'[d] \in {"empty", "fresh"} <=> Ahead(buildIdx', d, R) < buildCnt'
             /\ rx'[d] # "stray"
  <2>1. CASE d = rxDma
    BY <1>1, <1>2, <1>3, <2>1
  <2>2. CASE d # rxDma
    <3>1. Ahead(rxIdx, d, R) \in Nat
      BY <1>1 DEF Ahead
    <3>2. Ahead(rxIdx, d, R) < n + 1 <=> Ahead(rxIdx, d, R) < n
      BY <1>5, <2>2, <3>1
    <3>3. rx'[d] = rx[d]
      BY <1>1, <2>2
    <3>4. QED
      BY <3>2, <3>3 DEF RxOrder
  <2>3. QED
    BY <2>1, <2>2
<1>7. QED
  BY <1>1, <1>3, <1>4, <1>6 DEF RxOrder

(* The oldest frame is read, and its descriptor is the last to build.      *)
LEMMA OrderRead ==
  ASSUME IInv, NEW n \in 0..R, RxOrder(n), rx[rxIdx] = "full",
         rx' = [rx EXCEPT ![rxIdx] = "empty"], rxIdx' = NextRx(rxIdx),
         buildCnt' = buildCnt + 1, UNCHANGED <<rxDma, buildIdx>>
  PROVE  n - 1 \in 0..R /\ RxOrder(n - 1)'
<1>1. /\ R \in Nat \ {0} /\ rxIdx \in 0..R - 1 /\ buildIdx \in 0..R - 1 /\ buildCnt \in 0..R
      /\ rxDma \in 0..R - 1 /\ rx \in [0..R - 1 -> RxStates]
  BY EthDriverAssumption DEF IInv, TypeOK
<1>2. n > 0 /\ buildCnt < R /\ Ahead(rxIdx, rxIdx, R) = 0
  BY <1>1 DEF RxOrder, Ahead
<1>3. Ahead(buildIdx, rxIdx, R) = buildCnt /\ rxIdx' = Wrap(rxIdx + 1, R)
  BY <1>1, <1>2, NextWraps DEF RxOrder, Wrap, Ahead
<1>4. rxIdx' = Wrap(buildIdx' + buildCnt', R) /\ rxDma' = Wrap(rxIdx' + (n - 1), R)
  BY <1>1, <1>2, <1>3 DEF RxOrder, Wrap
<1>5. ASSUME NEW d \in 0..R - 1, d # rxIdx
      PROVE  /\ Ahead(rxIdx', d, R) = Ahead(rxIdx, d, R) - 1
             /\ Ahead(buildIdx, d, R) # buildCnt
             /\ Ahead(rxIdx, d, R) \in Nat /\ Ahead(buildIdx, d, R) \in Nat
  BY <1>1, <1>3, <1>5 DEF Ahead, Wrap
<1>6. Ahead(rxIdx', rxIdx, R) = R - 1
  BY <1>1, <1>3 DEF Ahead, Wrap
<1>7. ASSUME NEW d \in 0..R - 1
      PROVE  /\ rx'[d] = "full" <=> Ahead(rxIdx', d, R) < n - 1
             /\ rx'[d] \in {"empty", "fresh"} <=> Ahead(buildIdx', d, R) < buildCnt'
             /\ rx'[d] # "stray"
  <2>1. CASE d = rxIdx
    BY <1>1, <1>3, <1>6, <2>1
  <2>2. CASE d # rxIdx
    <3>1. rx'[d] = rx[d]
      BY <1>1, <2>2
    <3>2. Ahead(rxIdx', d, R) < n - 1 <=> Ahead(rxIdx, d, R) < n
      BY <1>5, <2>2
    <3>3. Ahead(buildIdx', d, R) < buildCnt' <=> Ahead(buildIdx, d, R) < buildCnt
      BY <1>1, <1>5, <2>2
    <3>4. QED
      BY <3>1, <3>2, <3>3 DEF RxOrder
  <2>3. QED
    BY <2>1, <2>2
<1>8. n - 1 + buildCnt' <= R
  BY <1>1 DEF RxOrder
<1>9. QED
  BY <1>1, <1>2, <1>4, <1>7, <1>8 DEF RxOrder

(* The first of the descriptors to build gets a buffer.                    *)
LEMMA OrderBuild ==
  ASSUME IInv, NEW n \in 0..R, RxOrder(n), buildCnt > 0,
         rx' = [rx EXCEPT ![buildIdx] = IF @ \in {"full", "stray"} THEN "stray" ELSE "dma"],
         buildIdx' = NextRx(buildIdx), buildCnt' = buildCnt - 1, UNCHANGED <<rxIdx, rxDma>>
  PROVE  RxOrder(n)'
<1>1. /\ R \in Nat \ {0} /\ rxIdx \in 0..R - 1 /\ buildIdx \in 0..R - 1 /\ buildCnt \in 0..R
      /\ rxDma \in 0..R - 1 /\ rx \in [0..R - 1 -> RxStates]
  BY EthDriverAssumption DEF IInv, TypeOK
<1>2. Ahead(buildIdx, buildIdx, R) = 0 /\ rx[buildIdx] \in {"empty", "fresh"}
  BY <1>1 DEF RxOrder, Ahead
<1>3. rx' = [rx EXCEPT ![buildIdx] = "dma"]
  BY <1>2
<1>4. buildIdx' = Wrap(buildIdx + 1, R)
  BY <1>1, NextWraps
<1>5. rxIdx' = Wrap(buildIdx' + buildCnt', R) /\ rxDma' = Wrap(rxIdx' + n, R)
  BY <1>1, <1>4 DEF RxOrder, Wrap
<1>6. ASSUME NEW d \in 0..R - 1, d # buildIdx
      PROVE  /\ Ahead(buildIdx', d, R) = Ahead(buildIdx, d, R) - 1
             /\ Ahead(buildIdx, d, R) \in Nat
  BY <1>1, <1>4, <1>6 DEF Ahead, Wrap
<1>7. Ahead(buildIdx', buildIdx, R) = R - 1
  BY <1>1, <1>4 DEF Ahead, Wrap
<1>8. ASSUME NEW d \in 0..R - 1
      PROVE  /\ rx'[d] = "full" <=> Ahead(rxIdx', d, R) < n
             /\ rx'[d] \in {"empty", "fresh"} <=> Ahead(buildIdx', d, R) < buildCnt'
             /\ rx'[d] # "stray"
  <2>1. CASE d = buildIdx
    <3>1. rx[d] # "full" /\ rx'[d] = "dma"
      BY <1>1, <1>2, <1>3, <2>1
    <3>2. ~(Ahead(rxIdx', d, R) < n)
      BY <3>1 DEF RxOrder
    <3>3. ~(Ahead(buildIdx', d, R) < buildCnt')
      BY <1>1, <1>7, <2>1
    <3>4. QED
      BY <3>1, <3>2, <3>3
  <2>2. CASE d # buildIdx
    <3>1. rx'[d] = rx[d]
      BY <1>1, <1>3, <2>2
    <3>2. Ahead(buildIdx', d, R) < buildCnt' <=> Ahead(buildIdx, d, R) < buildCnt
      BY <1>1, <1>6, <2>2
    <3>3. QED
      BY <3>1, <3>2 DEF RxOrder
  <2>3. QED
    BY <2>1, <2>2
<1>9. n + buildCnt' <= R
  BY <1>1 DEF RxOrder
<1>10. QED
  BY <1>5, <1>8, <1>9 DEF RxOrder

(* What is read next has a frame, if it can be read and the ring is in     *)
(* order; if it cannot, there is no frame.                                 *)
LEMMA OrderReadable ==
  ASSUME IInv, NEW n \in 0..R, RxOrder(n), skipped = 0
  PROVE  /\ Readable => rx[rxIdx] = "full"
         /\ ~Readable => ~Frames
<1>1. /\ R \in Nat \ {0} /\ rxIdx \in 0..R - 1 /\ buildIdx \in 0..R - 1 /\ buildCnt \in 0..R
      /\ rx \in [0..R - 1 -> RxStates]
  BY EthDriverAssumption DEF IInv, TypeOK
<1>2. rx[rxIdx] \in RxStates /\ Ahead(rxIdx, rxIdx, R) = 0
  BY <1>1 DEF Ahead
<1>3. ASSUME Readable PROVE rx[rxIdx] = "full"
  <2>1. buildCnt < R
    BY <1>1, <1>3 DEF Readable
  <2>2. ~(Ahead(buildIdx, rxIdx, R) < buildCnt)
    BY <1>1, <2>1 DEF RxOrder, Wrap, Ahead
  <2>3. rx[rxIdx] \notin {"empty", "fresh"}
    BY <1>1, <2>2 DEF RxOrder
  <2>4. QED
    BY <1>2, <1>3, <2>3 DEF Readable, RxStates
<1>4. ASSUME n > 0 PROVE Readable
  <2>1. rx[rxIdx] = "full"
    BY <1>1, <1>2, <1>4 DEF RxOrder
  <2>2. 0 < R - buildCnt
    BY <1>1, <1>4 DEF RxOrder
  <2>3. QED
    BY <2>1, <2>2 DEF Readable
<1>5. ASSUME n = 0 PROVE ~Frames
  <2>1. ASSUME NEW d \in 0..R - 1 PROVE ~(Ahead(rxIdx, d, R) < n)
    BY <1>1, <1>5 DEF Ahead
  <2>2. QED
    BY <2>1 DEF RxOrder, Frames
<1>6. QED
  BY <1>3, <1>4, <1>5

----------------------------------------------------------------------------
(* The transmit ring                                                       *)

(* The DMA sends the first packet that is not sent yet.                    *)
LEMMA OrderSent ==
  ASSUME IInv, NEW k \in 0..T, TxOrder(k), tx[txDma] = "dma",
         tx' = [tx EXCEPT ![txDma] = "sent"], txDma' = NextTx(txDma),
         UNCHANGED <<curTx, releaseIdx, inUse>>
  PROVE  k + 1 \in 0..T /\ TxOrder(k + 1)'
<1>1. /\ T \in Nat \ {0} /\ releaseIdx \in 0..T - 1 /\ inUse \in 0..T
      /\ txDma \in 0..T - 1 /\ tx \in [0..T - 1 -> TxStates]
  BY EthDriverAssumption DEF IInv, TypeOK
<1>2. ~(Ahead(releaseIdx, txDma, T) < k) /\ Ahead(releaseIdx, txDma, T) < inUse
  BY <1>1 DEF TxOrder
<1>3. Ahead(releaseIdx, txDma, T) = k /\ k < inUse
  BY <1>1, <1>2 DEF TxOrder, Wrap, Ahead
<1>4. txDma' = Wrap(releaseIdx' + (k + 1), T)
  BY <1>1, <1>3, NextWraps DEF TxOrder, Wrap
<1>5. ASSUME NEW d \in 0..T - 1, d # txDma
      PROVE  Ahead(releaseIdx, d, T) # k
  BY <1>1, <1>3, <1>5 DEF Ahead
<1>6. ASSUME NEW d \in 0..T - 1
      PROVE  /\ tx'[d] = "sent" <=> Ahead(releaseIdx', d, T) < k + 1
             /\ tx'[d] # "free" <=> Ahead(releaseIdx', d, T) < inUse'
  <2>1. CASE d = txDma
    BY <1>1, <1>2, <1>3, <2>1
  <2>2. CASE d # txDma
    <3>1. Ahead(releaseIdx, d, T) \in Nat
      BY <1>1 DEF Ahead
    <3>2. Ahead(releaseIdx, d, T) < k + 1 <=> Ahead(releaseIdx, d, T) < k
      BY <1>5, <2>2, <3>1
    <3>3. tx'[d] = tx[d]
      BY <1>1, <2>2
    <3>4. QED
      BY <3>2, <3>3 DEF TxOrder
  <2>3. QED
    BY <2>1, <2>2
<1>7. k + 1 \in 0..T /\ k + 1 <= inUse'
  BY <1>1, <1>3
<1>8. QED
  BY <1>4, <1>6, <1>7 DEF TxOrder

(* The oldest packet is released.                                          *)
LEMMA OrderRelease ==
  ASSUME IInv, NEW k \in 0..T, TxOrder(k), inUse > 0, tx[releaseIdx] = "sent",
         tx' = [tx EXCEPT ![releaseIdx] = "free"], releaseIdx' = NextTx(releaseIdx),
         inUse' = inUse - 1, UNCHANGED <<curTx, txDma>>
  PROVE  k - 1 \in 0..T /\ TxOrder(k - 1)'
<1>1. /\ T \in Nat \ {0} /\ releaseIdx \in 0..T - 1 /\ inUse \in 0..T
      /\ txDma \in 0..T - 1 /\ curTx \in 0..T - 1 /\ tx \in [0..T - 1 -> TxStates]
  BY EthDriverAssumption DEF IInv, TypeOK
<1>2. k > 0 /\ Ahead(releaseIdx, releaseIdx, T) = 0
  BY <1>1 DEF TxOrder, Ahead
<1>3. releaseIdx' = Wrap(releaseIdx + 1, T)
  BY <1>1, NextWraps
<1>4. txDma' = Wrap(releaseIdx' + (k - 1), T) /\ curTx' = Wrap(releaseIdx' + inUse', T)
  BY <1>1, <1>2, <1>3 DEF TxOrder, Wrap
<1>5. ASSUME NEW d \in 0..T - 1, d # releaseIdx
      PROVE  /\ Ahead(releaseIdx', d, T) = Ahead(releaseIdx, d, T) - 1
             /\ Ahead(releaseIdx, d, T) \in Nat
  BY <1>1, <1>3, <1>5 DEF Ahead, Wrap
<1>6. Ahead(releaseIdx', releaseIdx, T) = T - 1
  BY <1>1, <1>3 DEF Ahead, Wrap
<1>7. ASSUME NEW d \in 0..T - 1
      PROVE  /\ tx'[d] = "sent" <=> Ahead(releaseIdx', d, T) < k - 1
             /\ tx'[d] # "free" <=> Ahead(releaseIdx', d, T) < inUse'
  <2>1. CASE d = releaseIdx
    <3>1. tx'[d] = "free"
      BY <1>1, <2>1
    <3>2. ~(Ahead(releaseIdx', d, T) < k - 1) /\ ~(Ahead(releaseIdx', d, T) < inUse')
      BY <1>1, <1>6, <2>1
    <3>3. QED
      BY <3>1, <3>2
  <2>2. CASE d # releaseIdx
    <3>1. tx'[d] = tx[d]
      BY <1>1, <2>2
    <3>2. Ahead(releaseIdx', d, T) < k - 1 <=> Ahead(releaseIdx, d, T) < k
      BY <1>5, <2>2
    <3>3. Ahead(releaseIdx', d, T) < inUse' <=> Ahead(releaseIdx, d, T) < inUse
      BY <1>1, <1>5, <2>2
    <3>4. QED
      BY <3>1, <3>2, <3>3 DEF TxOrder
  <2>3. QED
    BY <2>1, <2>2
<1>8. k - 1 \in 0..T /\ k - 1 <= inUse'
  BY <1>1, <1>2 DEF TxOrder
<1>9. QED
  BY <1>4, <1>7, <1>8 DEF TxOrder

(* A packet is put behind the others.                                      *)
LEMMA OrderTransmit ==
  ASSUME IInv, NEW k \in 0..T, TxOrder(k), tx[curTx] = "free",
         tx' = [tx EXCEPT ![curTx] = "dma"], curTx' = NextTx(curTx),
         inUse' = inUse + 1, UNCHANGED <<releaseIdx, txDma>>
  PROVE  TxOrder(k)'
<1>1. /\ T \in Nat \ {0} /\ releaseIdx \in 0..T - 1 /\ inUse \in 0..T
      /\ curTx \in 0..T - 1 /\ tx \in [0..T - 1 -> TxStates]
  BY EthDriverAssumption DEF IInv, TypeOK
<1>2. ~(Ahead(releaseIdx, curTx, T) < inUse) /\ ~(Ahead(releaseIdx, curTx, T) < k)
  BY <1>1 DEF TxOrder
<1>3. Ahead(releaseIdx, curTx, T) = inUse /\ inUse < T
  BY <1>1, <1>2 DEF TxOrder, Wrap, Ahead
<1>4. curTx' = Wrap(releaseIdx' + inUse', T)
  BY <1>1, <1>3, NextWraps DEF TxOrder, Wrap
<1>5. ASSUME NEW d \in 0..T - 1, d # curTx
      PROVE  Ahead(releaseIdx, d, T) # inUse
  BY <1>1, <1>3, <1>5 DEF Ahead
<1>6. ASSUME NEW d \in 0..T - 1
      PROVE  /\ tx'[d] = "sent" <=> Ahead(releaseIdx', d, T) < k
             /\ tx'[d] # "free" <=> Ahead(releaseIdx', d, T) < inUse'
  <2>1. CASE d = curTx
    <3>1. tx'[d] = "dma"
      BY <1>1, <2>1
    <3>2. QED
      BY <1>1, <1>2, <1>3, <2>1, <3>1
  <2>2. CASE d # curTx
    <3>1. Ahead(releaseIdx, d, T) \in Nat
      BY <1>1 DEF Ahead
    <3>2. Ahead(releaseIdx, d, T) < inUse' <=> Ahead(releaseIdx, d, T) < inUse
      BY <1>1, <1>5, <2>2, <3>1
    <3>3. tx'[d] = tx[d]
      BY <1>1, <2>2
    <3>4. QED
      BY <3>2, <3>3 DEF TxOrder
  <2>3. QED
    BY <2>1, <2>2
<1>7. QED
  BY <1>1, <1>4, <1>6 DEF TxOrder

(* When the next descriptor to release is not sent, none is.               *)
LEMMA NoneSent ==
  ASSUME IInv, TxRing, ~(inUse > 0 /\ tx[releaseIdx] = "sent"), NEW d \in 0..T - 1
  PROVE  tx[d] # "sent"
<1>1. T \in Nat \ {0} /\ releaseIdx \in 0..T - 1 /\ inUse \in 0..T
  BY EthDriverAssumption DEF IInv, TypeOK
<1>2. PICK k \in 0..T : TxOrder(k)
  BY DEF TxRing
<1>3. k = 0
  <2>1. SUFFICES ASSUME k > 0 PROVE FALSE
    OBVIOUS
  <2>2. Ahead(releaseIdx, releaseIdx, T) = 0
    BY <1>1 DEF Ahead
  <2>3. tx[releaseIdx] = "sent" /\ inUse > 0
    BY <1>1, <1>2, <2>1, <2>2 DEF TxOrder
  <2>4. QED
    BY <2>3
<1>4. ~(Ahead(releaseIdx, d, T) < k)
  BY <1>1, <1>3 DEF Ahead
<1>5. QED
  BY <1>2, <1>4 DEF TxOrder

----------------------------------------------------------------------------
(* A step that leaves a ring alone leaves it in order.                     *)
LEMMA TxRingSame == TxRing /\ UNCHANGED txVars => TxRing'
  BY DEF TxRing, TxOrder, txVars

LEMMA RxRingSame ==
  ASSUME RxRing, UNCHANGED <<rxVars, skipped, askew, corrupt>>,
         pc = "start" => pc' = "start", gState = "READY" => gState' = "READY"
  PROVE  RxRing'
<1>1. SUFFICES ASSUME ~askew PROVE RxRing'
  BY DEF RxRing
<1>2. skipped' = 0 /\ ~corrupt'
  BY <1>1 DEF RxRing
<1>3. CASE \E n \in 0..R : RxOrder(n)
  <2>1. PICK n \in 0..R : RxOrder(n)
    BY <1>3
  <2>2. RxOrder(n)'
    BY <2>1 DEF RxOrder, rxVars
  <2>3. QED
    BY <1>2, <2>2 DEF RxRing
<1>4. CASE RxRebuilt /\ pc = "start"
  BY <1>2, <1>4 DEF RxRing, RxRebuilt, rxVars
<1>5. CASE RxUnused /\ gState = "READY"
  BY <1>2, <1>5 DEF RxRing, RxUnused, rxVars
<1>6. QED
  BY <1>1, <1>3, <1>4, <1>5 DEF RxRing

(* Once started the ring is in order, or was not when it was started.      *)
LEMMA StartedInOrder ==
  ASSUME RxRing, Starting, gState = "STARTED", ~askew
  PROVE  skipped = 0 /\ ~corrupt /\ \E n \in 0..R : RxOrder(n)
BY DEF RxRing, Starting

----------------------------------------------------------------------------
(* The invariant of the rings, inductive with IInv                         *)
Rings == RxRing /\ TxRing /\ Starting /\ RxNoticed /\ TxNoticed

(* At first the receive ring is unused and nothing is to be sent.          *)
LEMMA InitRings == Init => Rings
<1> SUFFICES ASSUME Init PROVE Rings
  OBVIOUS
<1>1. R \in Nat /\ R > 0 /\ T \in Nat /\ T > 0
  BY EthDriverAssumption
<1>2. RxRing
  BY DEF Init, RxRing, RxUnused
<1>3. TxOrder(0)
  <2>1. 0 <= inUse /\ txDma = Wrap(releaseIdx + 0, T) /\ curTx = Wrap(releaseIdx + inUse, T)
    BY <1>1 DEF Init, Wrap
  <2>2. ASSUME NEW d \in 0..T - 1
        PROVE  tx[d] = "free" /\ ~(Ahead(releaseIdx, d, T) < 0) /\ inUse = 0
    BY <1>1 DEF Init, Ahead
  <2>3. QED
    BY <2>1, <2>2 DEF TxOrder
<1>4. TxRing
  BY <1>1, <1>3 DEF TxRing
<1>5. Starting /\ RxNoticed /\ TxNoticed
  BY DEF Init, Starting, RxNoticed, TxNoticed, Frames
<1>6. QED
  BY <1>2, <1>4, <1>5 DEF Rings

(* The DMA and the interrupt handler.                                      *)
LEMMA DeviceRings ==
  ASSUME IInv, Rings, DmaReceive \/ DmaTransmit \/ Interrupt \/ FatalBusError
  PROVE  Rings'
<1> USE DEF poolVars, readVars, txVars, rxVars, eventVars, linkVars, Rings
<1>1. CASE DmaReceive
  <2>1. gState = "STARTED" /\ gState' = gState /\ pc' = pc /\ askew' = askew /\ picked' = picked
    BY <1>1 DEF DmaReceive
  <2>2. RxRing'
    <3>1. SUFFICES ASSUME ~askew PROVE RxRing'
      BY <2>1 DEF RxRing
    <3>2. PICK n \in 0..R : RxOrder(n)
      BY <2>1, <3>1, StartedInOrder
    <3>3. rxDma \in 0..R - 1 /\ rx[rxDma] \in {"dma", "stray"} /\ rx[rxDma] # "stray"
      BY <1>1, <3>2 DEF DmaReceive, IInv, TypeOK, RxOrder
    <3>4. ~corrupt' /\ skipped' = 0
      BY <1>1, <2>1, <3>1, <3>3, StartedInOrder DEF DmaReceive
    <3>5. n + 1 \in 0..R /\ RxOrder(n + 1)'
      BY <1>1, <3>2, <3>3, OrderReceive DEF DmaReceive
    <3>6. QED
      BY <3>4, <3>5 DEF RxRing
  <2>3. TxRing'
    BY <1>1, TxRingSame DEF DmaReceive
  <2>4. Starting' /\ RxNoticed'
    BY <1>1, <2>1 DEF DmaReceive, Starting, RxNoticed
  <2>5. TxNoticed'
    BY <1>1 DEF DmaReceive, TxNoticed
  <2>6. QED
    BY <2>2, <2>3, <2>4, <2>5
<1>2. CASE DmaTransmit
  <2>1. RxRing'
    BY <1>2, RxRingSame DEF DmaTransmit
  <2>2. PICK k \in 0..T : TxOrder(k)
    BY DEF TxRing
  <2>3. k + 1 \in 0..T /\ TxOrder(k + 1)'
    BY <1>2, <2>2, OrderSent DEF DmaTransmit
  <2>4. Starting' /\ RxNoticed' /\ TxNoticed'
    BY <1>2 DEF DmaTransmit, Starting, RxNoticed, Frames, TxNoticed
  <2>5. QED
    BY <2>1, <2>3, <2>4 DEF TxRing
<1>3. CASE Interrupt
  <2>1. RxRing' /\ TxRing'
    BY <1>3, RxRingSame, TxRingSame DEF Interrupt
  <2>2. Starting' /\ RxNoticed' /\ TxNoticed'
    BY <1>3 DEF Interrupt, Starting, RxNoticed, Frames, TxNoticed
  <2>3. QED
    BY <2>1, <2>2
<1>4. CASE FatalBusError
  <2>1. RxRing' /\ TxRing'
    BY <1>4, RxRingSame, TxRingSame DEF FatalBusError
  <2>2. Starting' /\ RxNoticed' /\ TxNoticed'
    BY <1>4 DEF FatalBusError, Starting, RxNoticed, Frames, TxNoticed
  <2>3. QED
    BY <2>1, <2>2
<1>5. QED
  BY <1>1, <1>2, <1>3, <1>4

(* The IP thread wakes, takes the events and releases sent packets.        *)
LEMMA DeferredRings ==
  ASSUME IInv, Rings, WakeIp \/ _nx_driver_deferred_processing \/ HAL_ETH_ReleaseTxPacket
  PROVE  Rings'
<1> USE DEF poolVars, readVars, txVars, rxVars, eventVars, linkVars, Rings
<1>1. CASE WakeIp
  <2>1. RxRing' /\ TxRing'
    BY <1>1, RxRingSame, TxRingSame DEF WakeIp
  <2>2. Starting' /\ RxNoticed' /\ TxNoticed'
    BY <1>1 DEF WakeIp, Starting, RxNoticed, Frames, TxNoticed
  <2>3. QED
    BY <2>1, <2>2
<1>2. CASE _nx_driver_deferred_processing
  <2>1. RxRing' /\ TxRing'
    BY <1>2, RxRingSame, TxRingSame DEF _nx_driver_deferred_processing
  <2>2. Starting' /\ RxNoticed' /\ TxNoticed'
    BY <1>2 DEF _nx_driver_deferred_processing, Starting, RxNoticed, Frames, TxNoticed
  <2>3. QED
    BY <2>1, <2>2
<1>3. CASE ReleaseOne
  <2>1. RxRing'
    BY <1>3, RxRingSame DEF ReleaseOne
  <2>2. PICK k \in 0..T : TxOrder(k)
    BY DEF TxRing
  <2>3. k - 1 \in 0..T /\ TxOrder(k - 1)'
    BY <1>3, <2>2, OrderRelease DEF ReleaseOne
  <2>4. Starting' /\ RxNoticed' /\ TxNoticed'
    BY <1>3 DEF ReleaseOne, Starting, RxNoticed, Frames, TxNoticed
  <2>5. QED
    BY <2>1, <2>3, <2>4 DEF TxRing
<1>4. CASE ReleaseEnd
  <2>1. RxRing' /\ TxRing'
    BY <1>4, RxRingSame, TxRingSame DEF ReleaseEnd
  <2>2. TxNoticed'
    BY <1>4, NoneSent DEF ReleaseEnd, TxNoticed
  <2>3. Starting' /\ RxNoticed'
    BY <1>4 DEF ReleaseEnd, LeaveDriver, Starting, RxNoticed, Frames
  <2>4. QED
    BY <2>1, <2>2, <2>3
<1>5. QED
  BY <1>1, <1>2, <1>3, <1>4 DEF HAL_ETH_ReleaseTxPacket

(* The IP thread looks for a frame.                                        *)
LEMMA ReadRings ==
  ASSUME IInv, Rings, HAL_ETH_ReadData
  PROVE  Rings'
<1> USE DEF HAL_ETH_ReadData, poolVars, readVars, txVars, rxVars, eventVars, linkVars, Rings
<1>1. TxRing'
  BY TxRingSame
<1>2. TxNoticed' /\ Starting'
  BY DEF TxNoticed, Starting, ReadRefused, LeaveDriver, ReadFrame, SkipFresh, ReadNothing, ReadEnd
<1>3. CASE ReadRefused
  <2>1. RxRing'
    BY <1>3, RxRingSame DEF ReadRefused, LeaveDriver
  <2>2. RxNoticed'
    BY <1>3 DEF ReadRefused, LeaveDriver, RxNoticed, Frames
  <2>3. QED
    BY <1>1, <1>2, <2>1, <2>2
<1>4. CASE askew
  BY <1>1, <1>2, <1>4 DEF RxRing, RxNoticed
<1>5. CASE ~askew /\ ~ReadRefused
  <2>1. skipped = 0 /\ gState = "STARTED" /\ ~corrupt /\ pc = "read" /\ ~askew'
    BY <1>5, StartedInOrder DEF RxRing
  <2>2. PICK n \in 0..R : RxOrder(n)
    BY <1>5, <2>1, StartedInOrder
  <2>3. Readable => rx[rxIdx] = "full"
    BY <2>1, <2>2, OrderReadable
  <2>4. CASE ReadFrame
    <3>1. buildCnt' = buildCnt + 1 /\ ~corrupt' /\ skipped' = 0
      BY <2>1, <2>4, EthDriverAssumption DEF ReadFrame, IInv, TypeOK
    <3>2. n - 1 \in 0..R /\ RxOrder(n - 1)'
      BY <2>2, <2>4, <3>1, OrderRead DEF ReadFrame
    <3>3. RxRing'
      BY <3>1, <3>2 DEF RxRing
    <3>4. RxNoticed'
      BY <2>1, <2>4 DEF ReadFrame, RxNoticed
    <3>5. QED
      BY <1>1, <1>2, <3>3, <3>4
  <2>5. CASE ReadEnd
    <3>1. buildCnt' = buildCnt /\ UNCHANGED <<rxVars, skipped, askew, corrupt>>
      BY <2>1, <2>5, EthDriverAssumption DEF ReadEnd, IInv, TypeOK
    <3>2. RxRing'
      BY <2>1, <3>1, RxRingSame
    <3>3. ~Frames'
      BY <2>1, <2>2, <2>5, OrderReadable DEF ReadEnd, Frames
    <3>4. QED
      BY <1>1, <1>2, <3>2, <3>3 DEF RxNoticed
  <2>6. QED
    BY <1>5, <2>3, <2>4, <2>5 DEF SkipFresh, ReadNothing
<1>6. QED
  BY <1>3, <1>4, <1>5

(* A descriptor is built, and a packet that was read is handed over.       *)
LEMMA BuildRings ==
  ASSUME IInv, Rings, ETH_UpdateDescriptor \/ _nx_driver_hardware_packet_received
  PROVE  Rings'
<1> USE DEF poolVars, readVars, txVars, rxVars, eventVars, linkVars, Rings
<1>1. CASE BuildOne
  <2>1. /\ R \in Nat \ {0} /\ buildIdx \in 0..R - 1 /\ buildCnt \in 0..R
        /\ rx \in [0..R - 1 -> RxStates] /\ buildCnt > 0
    BY <1>1, EthDriverAssumption DEF BuildOne, Buildable, IInv, TypeOK
  <2>2. RxRing'
    <3>1. SUFFICES ASSUME ~askew PROVE RxRing'
      BY <1>1 DEF BuildOne, RxRing
    <3>2. ~corrupt' /\ skipped' = 0
      BY <1>1, <3>1 DEF BuildOne, RxRing
    <3>3. CASE \E n \in 0..R : RxOrder(n)
      <4>1. PICK n \in 0..R : RxOrder(n)
        BY <3>3
      <4>2. RxOrder(n)'
        BY <1>1, <2>1, <4>1, OrderBuild DEF BuildOne
      <4>3. QED
        BY <3>2, <4>2 DEF RxRing
    <3>4. CASE RxRebuilt /\ pc = "start"
      <4>1. \A d \in 0..R - 1 : rx'[d] = "dma"
        BY <1>1, <2>1, <3>4 DEF BuildOne, RxRebuilt
      <4>2. buildIdx' = Wrap(buildIdx + 1, R) /\ buildCnt' = buildCnt - 1
        BY <1>1, <2>1, NextWraps DEF BuildOne
      <4>3. rxIdx' = Wrap(buildIdx' + buildCnt', R) /\ rxDma' = rxIdx' /\ pc' = pc
        BY <1>1, <2>1, <3>4, <4>2 DEF BuildOne, RxRebuilt, Wrap
      <4>4. QED
        BY <3>2, <3>4, <4>1, <4>3 DEF RxRing, RxRebuilt
    <3>5. QED
      BY <2>1, <3>1, <3>3, <3>4 DEF RxRing, RxUnused
  <2>3. TxRing'
    BY <1>1, TxRingSame DEF BuildOne
  <2>4. Frames' => Frames
    BY <1>1, <2>1 DEF BuildOne, Frames
  <2>5. RxNoticed'
    BY <1>1, <2>4 DEF BuildOne, RxNoticed
  <2>6. Starting' /\ TxNoticed'
    BY <1>1 DEF BuildOne, Starting, TxNoticed
  <2>7. QED
    BY <2>2, <2>3, <2>5, <2>6
<1>2. CASE _nx_driver_hardware_packet_received
  <2> USE DEF _nx_driver_hardware_packet_received, LeaveDriver
  <2>1. RxRing' /\ TxRing'
    BY <1>2, RxRingSame, TxRingSame
  <2>2. Starting' /\ TxNoticed'
    BY <1>2 DEF Starting, TxNoticed
  <2>3. RxNoticed'
    BY <1>2 DEF RxNoticed, Frames
  <2>4. QED
    BY <2>1, <2>2, <2>3
<1>3. QED
  BY <1>1, <1>2 DEF ETH_UpdateDescriptor

(* The link thread.  A start that does not find the ring askew finds every *)
(* descriptor with a buffer and without a frame, or the ring unused.       *)
LEMMA LinkRings ==
  ASSUME IInv, Rings, _nx_driver_enable \/ Started \/ _nx_driver_disable
  PROVE  Rings'
<1> USE DEF poolVars, readVars, txVars, rxVars, eventVars, linkVars, Rings
<1>1. /\ R \in Nat \ {0} /\ buildIdx \in 0..R - 1 /\ buildCnt \in 0..R /\ rxIdx \in 0..R - 1
      /\ rx \in [0..R - 1 -> RxStates]
  BY EthDriverAssumption DEF IInv, TypeOK
<1>2. CASE _nx_driver_enable
  <2>1. TxRing'
    BY <1>2, TxRingSame DEF _nx_driver_enable
  <2>2. ASSUME ~askew'
        PROVE  ~askew /\ buildCnt = 0 /\ ~Frames
    BY <1>2, <2>2 DEF _nx_driver_enable, Frames
  <2>3. RxRing'
    <3>1. SUFFICES ASSUME ~askew' PROVE RxRing'
      BY DEF RxRing
    <3>2. ~corrupt' /\ skipped' = 0
      BY <1>2, <2>2, <3>1 DEF _nx_driver_enable, RxRing
    <3>3. CASE \E n \in 0..R : RxOrder(n)
      <4>1. PICK n \in 0..R : RxOrder(n)
        BY <3>3
      <4>2. n = 0
        <5>1. rx[rxIdx] # "full" /\ Ahead(rxIdx, rxIdx, R) = 0
          BY <1>1, <2>2, <3>1 DEF Frames, Ahead
        <5>2. ~(0 < n)
          BY <1>1, <4>1, <5>1 DEF RxOrder
        <5>3. QED
          BY <5>2
      <4>3. ASSUME NEW d \in 0..R - 1 PROVE rx[d] = "dma"
        <5>1. Ahead(buildIdx, d, R) >= 0
          BY <1>1 DEF Ahead
        <5>2. ~(Ahead(buildIdx, d, R) < buildCnt)
          BY <1>1, <2>2, <3>1, <5>1 DEF Ahead
        <5>3. rx[d] \notin {"empty", "fresh"} /\ rx[d] # "stray"
          BY <4>1, <5>2 DEF RxOrder
        <5>4. rx[d] # "full"
          BY <2>2, <3>1 DEF Frames
        <5>5. QED
          BY <1>1, <5>3, <5>4 DEF RxStates
      <4>4. rxIdx = buildIdx /\ rxDma = rxIdx
        BY <1>1, <2>2, <3>1, <4>1, <4>2 DEF RxOrder, Wrap
      <4>5. RxRebuilt' /\ pc' = "start"
        BY <1>1, <1>2, <4>3, <4>4 DEF _nx_driver_enable, RxRebuilt, Wrap
      <4>6. QED
        BY <3>2, <4>5 DEF RxRing
    <3>4. CASE RxUnused
      <4>1. rxIdx' = Wrap(buildIdx' + buildCnt', R) /\ rxDma' = Wrap(rxIdx' + 0, R) /\ buildCnt' = R
        BY <1>1, <1>2, <3>4 DEF _nx_driver_enable, RxUnused, Wrap
      <4>2. ASSUME NEW d \in 0..R - 1
            PROVE  /\ rx'[d] = "fresh"
                   /\ ~(Ahead(rxIdx', d, R) < 0)
                   /\ Ahead(buildIdx', d, R) < R
        BY <1>1, <1>2, <3>4 DEF _nx_driver_enable, RxUnused, Ahead
      <4>3. RxOrder(0)'
        BY <1>1, <4>1, <4>2 DEF RxOrder
      <4>4. QED
        BY <1>1, <3>2, <4>3 DEF RxRing
    <3>5. QED
      BY <1>2, <2>2, <3>1, <3>3, <3>4 DEF RxRing, _nx_driver_enable
  <2>4. Starting' /\ TxNoticed'
    BY <1>2 DEF _nx_driver_enable, Starting, TxNoticed
  <2>5. RxNoticed'
    <3>1. Frames' = Frames
      BY <1>2 DEF _nx_driver_enable, Frames
    <3>2. QED
      BY <2>2, <3>1 DEF RxNoticed
  <2>6. QED
    BY <2>1, <2>3, <2>4, <2>5
<1>3. CASE Started
  <2>1. TxRing'
    BY <1>3, TxRingSame DEF Started
  <2>2. RxRing'
    <3>1. SUFFICES ASSUME ~askew PROVE RxRing'
      BY <1>3 DEF Started, RxRing
    <3>2. ~corrupt' /\ skipped' = 0 /\ gState = "BUSY"
      BY <1>3, <3>1 DEF Started, RxRing, Starting
    <3>3. CASE \E n \in 0..R : RxOrder(n)
      <4>1. PICK n \in 0..R : RxOrder(n)
        BY <3>3
      <4>2. RxOrder(n)'
        BY <1>3, <4>1 DEF Started, RxOrder
      <4>3. QED
        BY <3>2, <4>2 DEF RxRing
    <3>4. CASE RxRebuilt
      <4>1. buildIdx \in Buffered
        BY <1>1, <3>4 DEF RxRebuilt, Buffered
      <4>2. buildCnt = 0
        BY <1>1, <1>3, <4>1 DEF Started, Buildable
      <4>3. rxDma = Wrap(rxIdx + 0, R)
        BY <1>1, <3>4 DEF RxRebuilt, Wrap
      <4>4. ASSUME NEW d \in 0..R - 1
            PROVE  /\ rx[d] = "dma"
                   /\ ~(Ahead(rxIdx, d, R) < 0) /\ ~(Ahead(buildIdx, d, R) < buildCnt)
        BY <1>1, <3>4, <4>2 DEF RxRebuilt, Ahead
      <4>5. RxOrder(0)
        BY <1>1, <3>4, <4>2, <4>3, <4>4 DEF RxOrder, RxRebuilt
      <4>6. RxOrder(0)'
        BY <1>3, <4>5 DEF Started, RxOrder
      <4>7. QED
        BY <1>1, <3>2, <4>6 DEF RxRing
    <3>5. QED
      BY <3>1, <3>2, <3>3, <3>4 DEF RxRing
  <2>3. Starting' /\ TxNoticed'
    BY <1>3 DEF Started, Starting, TxNoticed
  <2>4. RxNoticed'
    BY <1>3 DEF Started, RxNoticed, Frames, Starting
  <2>5. QED
    BY <2>1, <2>2, <2>3, <2>4
<1>4. CASE _nx_driver_disable
  <2>1. RxRing' /\ TxRing'
    BY <1>4, RxRingSame, TxRingSame DEF _nx_driver_disable
  <2>2. Starting' /\ TxNoticed'
    BY <1>4 DEF _nx_driver_disable, Starting, TxNoticed
  <2>3. RxNoticed'
    BY <1>4 DEF _nx_driver_disable, RxNoticed, Frames
  <2>4. QED
    BY <2>1, <2>2, <2>3
<1>5. QED
  BY <1>2, <1>3, <1>4

(* Packets are sent, taken from the pool and returned to it.               *)
LEMMA PacketsRings ==
  ASSUME IInv, Rings, _nx_driver_packet_send \/ nx_packet_allocate \/ nx_packet_release
  PROVE  Rings'
<1> USE DEF poolVars, readVars, txVars, rxVars, eventVars, linkVars, Rings
<1>1. CASE HAL_ETH_Transmit_IT
  <2>1. RxRing'
    BY <1>1, RxRingSame DEF HAL_ETH_Transmit_IT
  <2>2. PICK k \in 0..T : TxOrder(k)
    BY DEF TxRing
  <2>3. TxOrder(k)'
    BY <1>1, <2>2, OrderTransmit DEF HAL_ETH_Transmit_IT, HasRoom
  <2>4. Starting' /\ RxNoticed'
    BY <1>1 DEF HAL_ETH_Transmit_IT, Starting, RxNoticed, Frames
  <2>5. TxNoticed'
    BY <1>1 DEF HAL_ETH_Transmit_IT, TxNoticed, IInv, TypeOK
  <2>6. QED
    BY <2>1, <2>3, <2>4, <2>5 DEF TxRing
<1>2. CASE SendRefused \/ nx_packet_allocate \/ nx_packet_release
  <2> USE DEF SendRefused, nx_packet_allocate, nx_packet_release
  <2>1. RxRing' /\ TxRing'
    BY <1>2, RxRingSame, TxRingSame
  <2>2. Starting' /\ TxNoticed' /\ RxNoticed'
    BY <1>2 DEF Starting, TxNoticed, RxNoticed, Frames
  <2>3. QED
    BY <2>1, <2>2
<1>3. QED
  BY <1>1, <1>2 DEF _nx_driver_packet_send

(* Every step keeps the rings in order.                                    *)
LEMMA NextRings == IInv /\ Rings /\ [Next]_vars => Rings'
<1> SUFFICES ASSUME IInv, Rings, [Next]_vars PROVE Rings'
  OBVIOUS
<1>1. CASE Next
  BY <1>1, DeviceRings, DeferredRings, ReadRings, BuildRings, LinkRings, PacketsRings
  DEF Next, IpThread
<1>2. CASE UNCHANGED vars
  <2> USE <1>2 DEF vars, rxVars, txVars, poolVars, readVars, eventVars, linkVars, Rings
  <2>1. RxRing' /\ TxRing'
    BY RxRingSame, TxRingSame
  <2>2. Starting' /\ TxNoticed' /\ RxNoticed'
    BY DEF Starting, TxNoticed, RxNoticed, Frames
  <2>3. QED
    BY <2>1, <2>2
<1>3. QED
  BY <1>1, <1>2

(* In every behaviour of the driver the rings are in order.                *)
THEOREM RingsInvariant == Spec => []Rings
BY InitRings, NextRings, InductiveInvariant, PTL DEF Spec

(* Whatever the size of the rings, the descriptors to build are behind the *)
(* reader, the unread frames before it and the DMA before those, until a   *)
(* start finds the ring askew.                                             *)
THEOREM RingsInStep == Spec => []RingInStep
<1>1. ASSUME IInv, Rings PROVE RingInStep
  <2>1. CASE gState = "STARTED" /\ ~askew
    BY <1>1, <2>1, StartedInOrder, OrderInStep DEF Rings
  <2>2. CASE ~(gState = "STARTED" /\ ~askew)
    BY <2>2 DEF RingInStep
  <2>3. QED
    BY <2>1, <2>2
<1>2. QED
  BY <1>1, InductiveInvariant, RingsInvariant, PTL

(* No frame, sent or received, stays in its ring without an event that     *)
(* makes the IP thread fetch it.                                           *)
THEOREM NothingIsForgotten == Spec => []NothingForgotten
<1>1. ASSUME Rings PROVE NothingForgotten
  BY <1>1 DEF Rings, RxNoticed, TxNoticed, Frames, NothingForgotten
<1>2. QED
  BY <1>1, RingsInvariant, PTL

(* With every descriptor to build and no received event under way, nothing *)
(* is received until the link is taken down.                               *)
THEOREM StarvationLasts == Spec => StarvedUntilRestart
<1>1. ASSUME IInv, Rings, [Next]_vars, Starved, gState' = "STARTED" PROVE Starved'
  <2> USE DEF poolVars, readVars, txVars, rxVars, eventVars, linkVars
  <2>1. /\ gState = "STARTED" /\ ~askew /\ buildCnt = R
        /\ "received" \notin irq \union events \union picked
        /\ pc \notin {"read", "fill", "start"}
    BY <1>1 DEF Starved, Rings, Starting
  <2>2. ~DmaReceive
    <3>1. PICK n \in 0..R : RxOrder(n)
      BY <1>1, <2>1, StartedInOrder DEF Rings
    <3>2. rxDma \in 0..R - 1 /\ buildIdx \in 0..R - 1 /\ R \in Nat \ {0}
      BY <1>1, EthDriverAssumption DEF IInv, TypeOK
    <3>3. Ahead(buildIdx, rxDma, R) < buildCnt
      BY <2>1, <3>2 DEF Ahead
    <3>4. rx[rxDma] \in {"empty", "fresh"}
      BY <3>1, <3>2, <3>3 DEF RxOrder
    <3>5. QED
      BY <3>4 DEF DmaReceive
  <2>3. CASE Next
    <3>1. CASE DmaTransmit \/ Interrupt \/ FatalBusError
      BY <1>1, <2>1, <3>1 DEF Starved, DmaTransmit, Interrupt, FatalBusError
    <3>2. CASE WakeIp \/ _nx_driver_deferred_processing \/ HAL_ETH_ReleaseTxPacket
      <4>1. CASE WakeIp \/ ReleaseOne
        BY <2>1, <4>1 DEF Starved, WakeIp, ReleaseOne
      <4>2. CASE _nx_driver_deferred_processing
        BY <2>1, <4>2 DEF Starved, _nx_driver_deferred_processing
      <4>3. CASE ReleaseEnd
        BY <2>1, <4>3 DEF Starved, ReleaseEnd, LeaveDriver
      <4>4. QED
        BY <3>2, <4>1, <4>2, <4>3 DEF HAL_ETH_ReleaseTxPacket
    <3>3. ~HAL_ETH_ReadData /\ ~ETH_UpdateDescriptor /\ ~_nx_driver_hardware_packet_received
      BY <2>1 DEF HAL_ETH_ReadData, ETH_UpdateDescriptor, BuildOne,
                  _nx_driver_hardware_packet_received
    <3>4. ~_nx_driver_enable /\ ~Started /\ ~_nx_driver_disable
      BY <1>1, <2>1 DEF _nx_driver_enable, Started, _nx_driver_disable
    <3>5. CASE _nx_driver_packet_send \/ nx_packet_allocate \/ nx_packet_release
      BY <2>1, <3>5 DEF Starved, _nx_driver_packet_send, HAL_ETH_Transmit_IT, SendRefused,
                        nx_packet_allocate, nx_packet_release
    <3>6. QED
      BY <2>2, <2>3, <3>1, <3>2, <3>3, <3>4, <3>5 DEF Next, IpThread
  <2>4. CASE UNCHANGED vars
    BY <2>1, <2>4 DEF Starved, vars
  <2>5. QED
    BY <1>1, <2>3, <2>4
<1>2. QED
  BY <1>1, InductiveInvariant, RingsInvariant, PTL DEF Spec, StarvedUntilRestart
=============================================================================
