------------------------------ MODULE EthDriver ------------------------------
(***************************************************************************)
(* The Ethernet driver of the firmware, from the DMA to NetX Duo: the ring *)
(* of receive and the ring of transmit descriptors of the HAL, the         *)
(* interrupt handler that defers its work to the IP thread, the deferred   *)
(* processing there, sending, and the link thread that starts and stops    *)
(* the controller (nx_stm32_eth_driver.c, stm32h5xx_hal_eth.c).            *)
(*                                                                         *)
(* Threads enter the driver with the mutex nx_ip_protection: pc is where   *)
(* its owner is.  The DMA, the interrupt handler and the threads that take *)
(* packets from the pool or return them run at any time, in between.       *)
(*                                                                         *)
(* A frame fits one packet and one descriptor: a buffer holds 1536 bytes,  *)
(* a frame at most 1514.  A frame that arrives when the DMA has no         *)
(* descriptor is lost, and the error callback does nothing: no action.     *)
(***************************************************************************)
EXTENDS Naturals, FiniteSets

CONSTANTS
  R,        \* ETH_RX_DESC_CNT
  T,        \* ETH_TX_DESC_CNT
  Packets   \* the packets of nx_packet_pool

ASSUME EthDriverAssumption ==
  R \in Nat \ {0} /\ T \in Nat \ {0} /\ Packets \in Nat

VARIABLES
  rx,         \* each receive descriptor
  rxIdx,      \* RxDescIdx: the next one to read
  buildIdx,   \* RxBuildDescIdx: the next one to give back to the DMA
  buildCnt,   \* RxBuildDescCnt: how many there are to give back
  rxDma,      \* the receive descriptor the DMA is at
  tx,         \* each transmit descriptor
  curTx,      \* CurTxDesc
  releaseIdx, \* releaseIndex
  inUse,      \* BuffersInUse
  txDma,      \* the transmit descriptor the DMA is at
  available,  \* packets in the pool
  stack,      \* packets that NetX Duo, a socket or a thread has
  hand,       \* 1 when HAL_ETH_ReadData has a packet to return, or else 0
  skipped,    \* desccnt of HAL_ETH_ReadData
  irq,        \* the completions the DMA has an interrupt pending for
  events,     \* nx_driver_information_deferred_events
  ipEvent,    \* NX_IP_DRIVER_DEFERRED_EVENT is set for the IP thread
  ip,         \* the IP thread: waiting, woken or busy in the driver
  picked,     \* deferred_events, local to the deferred processing
  pc,         \* where the owner of nx_ip_protection is in the driver
  gState,     \* the state of the HAL
  enabled,    \* the driver is in NX_DRIVER_STATE_LINK_ENABLED
  askew,      \* history: a start found frames unread or descriptors unbuilt
  corrupt     \* a frame was put, or looked for, where no buffer is

rxVars == <<rx, rxIdx, buildIdx, buildCnt, rxDma>>
txVars == <<tx, curTx, releaseIdx, inUse, txDma>>
poolVars == <<available, stack>>
readVars == <<hand, skipped>>
eventVars == <<irq, events, ipEvent>>
linkVars == <<gState, enabled, askew>>
vars == <<rxVars, txVars, poolVars, readVars, eventVars, ip, picked, pc, linkVars, corrupt>>

Completions == {"received", "transmitted"}

(* A receive descriptor was never built, is the DMA's, holds a frame, or   *)
(* was read and has no buffer.  Stray, it is the DMA's again but its       *)
(* address word is still the VLAN tags of the frame it held: only a new    *)
(* buffer rewrites it.                                                     *)
RxStates == {"fresh", "dma", "full", "empty", "stray"}
TxStates == {"free", "dma", "sent"}

Buffered == {d \in 0..R - 1 : rx[d] \in {"dma", "full", "stray"}}
Unsent == {d \in 0..T - 1 : tx[d] # "free"}

TypeOK ==
  /\ rx \in [0..R - 1 -> RxStates]
  /\ rxIdx \in 0..R - 1 /\ buildIdx \in 0..R - 1 /\ rxDma \in 0..R - 1
  /\ buildCnt \in 0..R /\ skipped \in 0..R /\ hand \in 0..1
  /\ tx \in [0..T - 1 -> TxStates]
  /\ curTx \in 0..T - 1 /\ releaseIdx \in 0..T - 1 /\ txDma \in 0..T - 1
  /\ inUse \in 0..T
  /\ available \in 0..Packets /\ stack \in 0..Packets
  /\ irq \subseteq Completions /\ events \subseteq Completions /\ picked \subseteq Completions
  /\ ipEvent \in BOOLEAN
  /\ ip \in {"waiting", "woken", "busy"}
  /\ pc \in {"free", "release", "read", "fill", "start"}
  /\ gState \in {"READY", "BUSY", "STARTED", "ERROR"}
  /\ enabled \in BOOLEAN /\ askew \in BOOLEAN /\ corrupt \in BOOLEAN

Init ==
  /\ rx = [d \in 0..R - 1 |-> "fresh"]
  /\ rxIdx = 0 /\ buildIdx = 0 /\ buildCnt = 0 /\ rxDma = 0
  /\ tx = [d \in 0..T - 1 |-> "free"]
  /\ curTx = 0 /\ releaseIdx = 0 /\ inUse = 0 /\ txDma = 0
  /\ available = Packets /\ stack = 0 /\ hand = 0 /\ skipped = 0
  /\ irq = {} /\ events = {} /\ ipEvent = FALSE
  /\ ip = "waiting" /\ picked = {} /\ pc = "free"
  /\ gState = "READY" /\ enabled = FALSE /\ askew = FALSE /\ corrupt = FALSE

NextRx(d) == (d + 1) % R
NextTx(d) == (d + 1) % T

----------------------------------------------------------------------------
(* The DMA and the interrupt handler                                       *)

DmaReceive ==
  /\ gState = "STARTED" /\ rx[rxDma] \in {"dma", "stray"}
  /\ rx' = [rx EXCEPT ![rxDma] = "full"]
  /\ rxDma' = NextRx(rxDma)
  /\ corrupt' = (rx[rxDma] = "stray")
  /\ irq' = irq \union {"received"}
  /\ UNCHANGED <<rxIdx, buildIdx, buildCnt, txVars, poolVars, readVars, events, ipEvent,
                 ip, picked, pc, linkVars>>

DmaTransmit ==
  /\ gState = "STARTED" /\ tx[txDma] = "dma"
  /\ tx' = [tx EXCEPT ![txDma] = "sent"]
  /\ txDma' = NextTx(txDma)
  /\ irq' = irq \union {"transmitted"}
  /\ UNCHANGED <<rxVars, curTx, releaseIdx, inUse, poolVars, readVars, events, ipEvent,
                 ip, picked, pc, linkVars, corrupt>>

(* Mutant: the pending events are looked up after the new one is added. *)
InterruptLate ==
  /\ irq # {}
  /\ events' = events \union irq
  /\ ipEvent' = (ipEvent \/ events' = {})
  /\ irq' = {}
  /\ UNCHANGED <<rxVars, txVars, poolVars, readVars, ip, picked, pc, linkVars, corrupt>>

(* Mutant: the transmit callback defers a received event too. *)
InterruptMixed ==
  /\ irq # {}
  /\ events' = events \union irq \union {"received"}
  /\ ipEvent' = (ipEvent \/ events = {})
  /\ irq' = {}
  /\ UNCHANGED <<rxVars, txVars, poolVars, readVars, ip, picked, pc, linkVars, corrupt>>

(* HAL_ETH_IRQHandler with the two completion callbacks                    *)
Interrupt ==
  /\ irq # {}
  /\ events' = events \union irq
  /\ ipEvent' = (ipEvent \/ events = {})
  /\ irq' = {}
  /\ UNCHANGED <<rxVars, txVars, poolVars, readVars, ip, picked, pc, linkVars, corrupt>>

(* A fatal bus error stops the DMA; its interrupt is taken at once.        *)
FatalBusError ==
  /\ gState = "STARTED"
  /\ gState' = "ERROR"
  /\ UNCHANGED <<rxVars, txVars, poolVars, readVars, eventVars, ip, picked, pc,
                 enabled, askew, corrupt>>

----------------------------------------------------------------------------
(* The IP thread                                                           *)

(* tx_event_flags_get clears the flag before the thread has the mutex.     *)
WakeIp ==
  /\ ip = "waiting" /\ ipEvent
  /\ ip' = "woken" /\ ipEvent' = FALSE
  /\ UNCHANGED <<rxVars, txVars, poolVars, readVars, irq, events, picked, pc, linkVars, corrupt>>

(* Mutant: of two kinds of events only the first is served. *)
DeferOneKind ==
  /\ ip = "woken" /\ pc = "free"
  /\ picked' = IF "transmitted" \in events THEN {"transmitted"} ELSE events
  /\ events' = {}
  /\ pc' = IF "transmitted" \in events THEN "release"
           ELSE IF "received" \in events THEN "read" ELSE "free"
  /\ ip' = IF events = {} THEN "waiting" ELSE "busy"
  /\ UNCHANGED <<rxVars, txVars, poolVars, readVars, irq, ipEvent, linkVars, corrupt>>

(* _nx_driver_deferred_processing takes all events, and serves the         *)
(* transmitted ones before the received ones.                              *)
_nx_driver_deferred_processing ==
  /\ ip = "woken" /\ pc = "free"
  /\ picked' = events /\ events' = {}
  /\ pc' = IF "transmitted" \in events THEN "release"
           ELSE IF "received" \in events THEN "read" ELSE "free"
  /\ ip' = IF events = {} THEN "waiting" ELSE "busy"
  /\ UNCHANGED <<rxVars, txVars, poolVars, readVars, irq, ipEvent, linkVars, corrupt>>

LeaveDriver == pc' = "free" /\ ip' = "waiting" /\ picked' = {}

(* One packet of HAL_ETH_ReleaseTxPacket, or its end.  Every descriptor in *)
(* use has a packet, so that the entries without one, which the loop skips *)
(* and which only a frame of several descriptors has, do not occur.  The   *)
(* packet goes back to the pool, or stays with the TCP socket that keeps   *)
(* it until it is acknowledged (nx_packet_transmit_release).               *)
ReleaseOne ==
  /\ pc = "release" /\ inUse > 0 /\ tx[releaseIdx] = "sent"
  /\ tx' = [tx EXCEPT ![releaseIdx] = "free"]
  /\ releaseIdx' = NextTx(releaseIdx)
  /\ inUse' = inUse - 1
  /\ \/ available' = available + 1 /\ UNCHANGED stack
     \/ stack' = stack + 1 /\ UNCHANGED available
  /\ UNCHANGED <<rxVars, curTx, txDma, readVars, eventVars, ip, picked, pc,
                 linkVars, corrupt>>

ReleaseEnd ==
  /\ pc = "release" /\ ~(inUse > 0 /\ tx[releaseIdx] = "sent")
  /\ IF "received" \in picked THEN pc' = "read" /\ UNCHANGED <<ip, picked>> ELSE LeaveDriver
  /\ UNCHANGED <<rxVars, txVars, poolVars, readVars, eventVars, linkVars, corrupt>>

HAL_ETH_ReleaseTxPacket == ReleaseOne \/ ReleaseEnd

(* HAL_ETH_ReadData looks at descriptors from rxIdx on until one has a     *)
(* frame, is the DMA's, or the built ones are exhausted.                   *)
Readable == rx[rxIdx] \notin {"dma", "stray"} /\ skipped < R - buildCnt

ReadFrame ==
  /\ Readable /\ rx[rxIdx] = "full"
  /\ rx' = [rx EXCEPT ![rxIdx] = "empty"]
  /\ rxIdx' = NextRx(rxIdx)
  /\ buildCnt' = buildCnt + skipped + 1
  /\ hand' = 1 /\ skipped' = 0
  /\ pc' = "fill"
  /\ UNCHANGED <<buildIdx, rxDma, ip, picked, corrupt>>

SkipFresh ==
  /\ Readable /\ rx[rxIdx] = "fresh"
  /\ rxIdx' = NextRx(rxIdx)
  /\ skipped' = skipped + 1
  /\ UNCHANGED <<rx, buildIdx, buildCnt, rxDma, hand, ip, picked, pc, corrupt>>

(* The descriptor still says that a frame is in it, at address 0.          *)
ReadNothing ==
  /\ Readable /\ rx[rxIdx] = "empty"
  /\ corrupt' = TRUE
  /\ UNCHANGED <<rxVars, readVars, ip, picked, pc>>

ReadEnd ==
  /\ ~Readable
  /\ buildCnt' = buildCnt + skipped
  /\ skipped' = 0
  /\ pc' = "fill"
  /\ UNCHANGED <<rx, rxIdx, buildIdx, rxDma, hand, ip, picked, corrupt>>

ReadRefused ==
  /\ gState # "STARTED" /\ skipped = 0
  /\ LeaveDriver
  /\ UNCHANGED <<rxVars, readVars, corrupt>>

HAL_ETH_ReadData ==
  /\ pc = "read"
  /\ \/ ReadRefused
     \/ /\ gState = "STARTED" \/ skipped > 0
        /\ ReadFrame \/ SkipFresh \/ ReadNothing \/ ReadEnd
  /\ UNCHANGED <<txVars, poolVars, eventVars, linkVars>>

(* ETH_UpdateDescriptor, for HAL_ETH_ReadData and for HAL_ETH_Start_IT:    *)
(* one descriptor, while a buffer is attached or the pool has a packet.    *)
Buildable == buildCnt > 0 /\ (buildIdx \in Buffered \/ available > 0)

BuildOne ==
  /\ pc \in {"fill", "start"} /\ Buildable
  /\ rx' = [rx EXCEPT ![buildIdx] = IF @ \in {"full", "stray"} THEN "stray" ELSE "dma"]
  /\ available' = IF buildIdx \in Buffered THEN available ELSE available - 1
  /\ buildIdx' = NextRx(buildIdx)
  /\ buildCnt' = buildCnt - 1
  /\ UNCHANGED <<rxIdx, rxDma, txVars, stack, readVars, eventVars, ip, picked, pc,
                 linkVars, corrupt>>

(* Mutant: a descriptor for which there is no packet is passed over. *)
BuildNext ==
  \/ BuildOne
  \/ /\ pc \in {"fill", "start"} /\ buildCnt > 1 /\ ~Buildable
     /\ buildIdx' = NextRx(buildIdx)
     /\ buildCnt' = buildCnt - 1
     /\ UNCHANGED <<rx, rxIdx, rxDma, txVars, poolVars, readVars, eventVars, ip, picked, pc,
                    linkVars, corrupt>>

ETH_UpdateDescriptor == BuildOne

(* _nx_driver_hardware_packet_received: a packet that was read goes to     *)
(* NetX Duo and the next one is read; without one the thread is done.      *)
_nx_driver_hardware_packet_received ==
  /\ pc = "fill" /\ ~Buildable
  /\ IF hand = 1 THEN pc' = "read" /\ UNCHANGED <<ip, picked>> ELSE LeaveDriver
  /\ stack' = stack + hand
  /\ hand' = 0
  /\ UNCHANGED <<rxVars, txVars, available, skipped, eventVars, linkVars, corrupt>>

----------------------------------------------------------------------------
(* The link thread                                                         *)

(* HAL_ETH_Start_IT counts every descriptor as one to build, from buildIdx *)
(* on.  Where the reader and the DMA are is left as it was.                *)
_nx_driver_enable ==
  /\ pc = "free" /\ ~enabled /\ gState = "READY"
  /\ gState' = "BUSY"
  /\ buildCnt' = R
  /\ askew' = (askew \/ buildCnt # 0 \/ \E d \in 0..R - 1 : rx[d] = "full")
  /\ pc' = "start"
  /\ UNCHANGED <<rx, rxIdx, buildIdx, rxDma, txVars, poolVars, readVars, eventVars, ip, picked,
                 enabled, corrupt>>

Started ==
  /\ pc = "start" /\ ~Buildable
  /\ gState' = "STARTED" /\ enabled' = TRUE
  /\ pc' = "free"
  /\ UNCHANGED <<rxVars, txVars, poolVars, readVars, eventVars, ip, picked, askew, corrupt>>

(* HAL_ETH_Stop leaves the rings as they are, and its result is ignored.   *)
_nx_driver_disable ==
  /\ pc = "free" /\ enabled
  /\ gState' = IF gState = "STARTED" THEN "READY" ELSE gState
  /\ enabled' = FALSE
  /\ UNCHANGED <<rxVars, txVars, poolVars, readVars, eventVars, ip, picked, pc, askew, corrupt>>

----------------------------------------------------------------------------
(* Packets                                                                 *)

(* A packet is sent by a thread that has the mutex, or by the IP thread    *)
(* that answers a frame it has just read.  NetX Duo asks for no frame that *)
(* is longer than the driver allows.                                       *)
MaySend == stack > 0 /\ (pc = "free" \/ (pc = "read" /\ skipped = 0))

HasRoom == enabled /\ gState = "STARTED" /\ tx[curTx] = "free"

(* Mutant: CurTxDesc is not moved on. *)
TransmitInPlace ==
  /\ MaySend /\ HasRoom
  /\ tx' = [tx EXCEPT ![curTx] = "dma"]
  /\ inUse' = inUse + 1
  /\ stack' = stack - 1
  /\ UNCHANGED <<rxVars, curTx, releaseIdx, txDma, available, readVars, eventVars, ip, picked, pc,
                 linkVars, corrupt>>

HAL_ETH_Transmit_IT ==
  /\ MaySend /\ HasRoom
  /\ tx' = [tx EXCEPT ![curTx] = "dma"]
  /\ curTx' = NextTx(curTx)
  /\ inUse' = inUse + 1
  /\ stack' = stack - 1
  /\ UNCHANGED <<rxVars, releaseIdx, txDma, available, readVars, eventVars, ip, picked, pc,
                 linkVars, corrupt>>

(* Mutant: a packet that cannot be sent is not returned to the pool. *)
SendRefusedLeaks ==
  /\ MaySend /\ ~HasRoom
  /\ stack' = stack - 1
  /\ UNCHANGED <<rxVars, txVars, available, readVars, eventVars, ip, picked, pc, linkVars, corrupt>>

SendRefused ==
  /\ MaySend /\ ~HasRoom
  /\ \/ stack' = stack - 1 /\ available' = available + 1
     \/ UNCHANGED poolVars
  /\ UNCHANGED <<rxVars, txVars, readVars, eventVars, ip, picked, pc, linkVars, corrupt>>

_nx_driver_packet_send == HAL_ETH_Transmit_IT \/ SendRefused

nx_packet_allocate ==
  /\ available > 0
  /\ available' = available - 1 /\ stack' = stack + 1
  /\ UNCHANGED <<rxVars, txVars, readVars, eventVars, ip, picked, pc, linkVars, corrupt>>

nx_packet_release ==
  /\ stack > 0
  /\ available' = available + 1 /\ stack' = stack - 1
  /\ UNCHANGED <<rxVars, txVars, readVars, eventVars, ip, picked, pc, linkVars, corrupt>>

----------------------------------------------------------------------------
IpThread ==
  \/ _nx_driver_deferred_processing
  \/ HAL_ETH_ReleaseTxPacket
  \/ HAL_ETH_ReadData
  \/ ETH_UpdateDescriptor
  \/ _nx_driver_hardware_packet_received

Next ==
  /\ ~corrupt
  /\ \/ DmaReceive \/ DmaTransmit \/ Interrupt \/ FatalBusError
     \/ WakeIp \/ IpThread
     \/ _nx_driver_enable \/ Started \/ _nx_driver_disable
     \/ _nx_driver_packet_send \/ nx_packet_allocate \/ nx_packet_release

(* The DMA sends what it owns, an interrupt is taken, and a thread that is *)
(* ready runs; ThreadX gives the mutex to the threads that wait for it in  *)
(* turn.                                                                   *)
Fairness ==
  /\ WF_vars(~corrupt /\ DmaTransmit)
  /\ WF_vars(~corrupt /\ Interrupt)
  /\ WF_vars(~corrupt /\ WakeIp)
  /\ SF_vars(~corrupt /\ _nx_driver_deferred_processing)
  /\ WF_vars(~corrupt /\ IpThread)
  /\ WF_vars(~corrupt /\ Started)

Spec == Init /\ [][Next]_vars
FairSpec == Spec /\ Fairness

----------------------------------------------------------------------------
(* Every packet of the pool is in one place: no path through the driver    *)
(* loses or doubles one, a refused send, a full ring and a stop with       *)
(* packets under way included.                                             *)
PacketsConserved ==
  available + stack + hand + Cardinality(Buffered) + Cardinality(Unsent) = Packets

(* Deferred events have woken the IP thread, or will: the interrupt        *)
(* handler sets the flag for the first of them only.                       *)
EventHeard == events # {} => ipEvent \/ ip = "woken"

(* A frame sent or received is never left in its ring without an event     *)
(* that makes the IP thread fetch it.                                      *)
NothingForgotten ==
  /\ (\E d \in 0..T - 1 : tx[d] = "sent") =>
       "transmitted" \in irq \union events \/ pc = "release"
  /\ (\E d \in 0..R - 1 : rx[d] = "full") /\ gState = "STARTED" /\ ~askew =>
       \/ "received" \in irq \union events
       \/ pc \in {"read", "fill"}
       \/ pc = "release" /\ "received" \in picked

(* The n descriptors from d on, in a ring of size.                         *)
Segment(d, n, size) == {(d + i) % size : i \in 0..n - 1}

(* As long as no start found the ring askew, the descriptors to build are  *)
(* just behind the reader, the frames it has not read just before it and   *)
(* the DMA just before those: frames are read in the order they came, and  *)
(* no descriptor is lost when the pool is empty.                           *)
RingInStep ==
  gState = "STARTED" /\ ~askew =>
    LET full == {d \in 0..R - 1 : rx[d] = "full"}
        n == Cardinality(full)
    IN /\ full = Segment(rxIdx, n, R)
       /\ rxDma = (rxIdx + n) % R
       /\ {d \in 0..R - 1 : rx[d] \in {"empty", "fresh"}} = Segment(buildIdx, buildCnt, R)
       /\ rxIdx = (buildIdx + buildCnt) % R
       /\ ~corrupt /\ \A d \in 0..R - 1 : rx[d] # "stray"

(* With every descriptor to build and no received event on its way the DMA *)
(* receives nothing again until the link goes down and up, however many    *)
(* packets come back to the pool: only HAL_ETH_ReadData retries to build.  *)
Starved ==
  /\ gState = "STARTED" /\ ~askew /\ buildCnt = R
  /\ "received" \notin irq \union events \union picked
  /\ pc \notin {"read", "fill"}

StarvedUntilRestart == [][Starved /\ gState' = "STARTED" => Starved']_vars

(* A packet given to the DMA is released in the end, to the pool or to the *)
(* TCP socket that keeps it, unless the link goes down, or frames keep     *)
(* coming: then the loop that reads them need never end.                   *)
TransmittedReleased ==
  \/ []<><<DmaReceive>>_vars
  \/ \A d \in 0..T - 1 : tx[d] # "free" ~> (tx[d] = "free" \/ gState # "STARTED" \/ corrupt)
=============================================================================
