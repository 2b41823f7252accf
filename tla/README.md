# Formal verification of switch-v4-firmware

`switch-v4-firmware` is the firmware of an Ethernet switch built around two
microcontrollers. The primary one, an STM32H573 with TrustZone, runs a secure
bootloader (`src/primary/Secure/Bootloader`) and, above it, a non-secure
application on ThreadX and NetX Duo (`src/primary/NonSecure/Application`). The
secondary one (`src/secondary`) is a generated skeleton. This directory holds
TLA+ modules translated from the primary firmware, the TLC configurations that
model-check them on small instances, and proofs that TLAPS checks for every
value of the constants.

## 1. Inventory

Paths are relative to `src/primary/`. "S" is the secure world, "NS" the
non-secure one.

| part | state it keeps | operations | talks to |
|---|---|---|---|
| Bootloader, S (`boot_main.c`, `memory_tools.c`, `integrity.c`, `error.c`) | flash images of both banks, `hintegrity` digests, `previous_crash` | boot, copy and check an image, swap banks, `error_handler` | metadata store, log, flash, FRAM |
| Metadata store, S (`metadata.c`, `secure_nsc.c`) | `hmeta` in backup SRAM, one copy in the FRAM, FRAM protection bits | init / reinit / configure, set and check hashes, dump metadata and counters, save DHCP record | bootloader, background thread, nx_link thread |
| Log ring, S (`logging.c`) | head and tail offsets, 128 KiB of entries | init, write, dump to FRAM | every thread of both worlds, `error_handler` |
| Startup, NS (`state_machine.c`, `nx_app/nx_link_thread.c`, `tx_app.c`) | `state_machine_events` group, thread states, `linkdown` | resume threads in order, poll the link, DHCP callback | all NS threads |
| Comms, NS (`zenoh/comms_thread.c`, `switch/switch_diagnostics.c`) | session, publishers, heartbeat state, event counters | open / close / restart a Zenoh session, heartbeat, publish statistics | state machine flags, cleanup, Zenoh Pico |
| Session cleanup, NS (`zenoh/zenoh_cleanup.c`) | ThreadX and NetX lists of created objects | terminate and delete what lives in the Zenoh byte pool | comms thread |
| Zenoh platform layer, NS (`zenoh/system.c`) | condition variable: mutex, semaphore, `waiters` | init, wait, wait_until, signal, signal_all, tasks, clock | Zenoh Pico tasks, comms thread |
| Zenoh links, NS (`zenoh/zenoh_udp.c`, `network.c`, `zenoh_tcp.c`) | sockets, multicast group slots | open, listen, read, write, close | NetX |
| PHY, NS (`phy/`) | PHY handles, event flags | poll links, callbacks, statistics | MDIO mutex, state machine |
| Switch, NS (`switch/`) | SJA1105 handle, temperature, statistics | init, maintenance, publish, MDIO and SPI callbacks | comms, PHY |
| STP, NS (`stp/`) | bridge state, BPDU queue | thread, callbacks (thread disabled in `config.h`) | switch, NetX |
| PTP, NS (`ptp/`) | client state, servo callbacks | thread (never resumed) | NetX |
| Ethernet driver, NS (`nx_app/nx_stm32_eth_driver.c`, and below it `stm32h5xx_hal_eth.c`) | two descriptor rings, buffers in use, deferred events, HAL and driver state | interrupt, deferred processing, send, receive, start, stop | DMA, NetX IP thread, nx_link, packet pool |
| Generated core, vendored stacks (`Core/`, `Drivers/`, `Middlewares/`) | peripheral registers, kernels | initialisation, kernel services | all of the above |

How they interact. Boot is sequential: `boot_main` calls the other secure parts
and finally jumps to the non-secure image. From then on the secure world is
entered only through the calls of `secure_nsc.c` and through faults. The NS
threads run under ThreadX with strict priorities: state machine and nx_link 9,
NetX 10, STP 11, comms 12, Zenoh tasks 14, switch, PHY and background 15.
Switch, PHY, comms and Zenoh tasks are created with a time slice, so equal
priorities can interleave. They share the event flags group
`state_machine_events`, the log ring, `hmeta` (through the secure calls) and the
Zenoh session.

Hard behaviours: resets and power cuts between any two steps of boot, of a FRAM
dump or of a flash copy; preemption between the steps of a lock-free log entry,
of a dump, or between a check of a flag and the use of what it guards; event
flags that are set and cleared by different threads; a session that is torn down
while another thread is using it; signals that race timeouts; a DMA that fills and
empties descriptors while threads walk the same rings.

What makes each part correct:

* Bootloader - the application runs only over measured, verified, mirrored
  images; the executing image is never written; the device does not reset itself
  for ever.
* Metadata store - what was saved reaches the FRAM, whole, and the FRAM never
  goes back; the protection is on whenever threads run.
* Log ring - the walk from the tail along the entries' lengths reaches the head;
  live reservations do not overlap; a dump ends and stores the most recent
  entries.
* Startup - a thread is started only when what it needs is up, and is started
  once it is.
* Comms - nobody uses a session after its memory was released; a broken session
  is noticed and replaced.
* Condition variable - every signal wakes a waiter; no wait returns without a
  signal or a timeout; the counter accounts for every waiter.
* Ethernet driver - no packet of the pool is lost or returned twice; no frame
  sent or received is forgotten in its ring; the software's and the DMA's places in a
  ring stay in step.

`PROJECT.json` lists the hazards behind these, each at its line.

## 2. What is modelled

Every module is translated from the source; `PROJECT.json` maps each definition
to its lines. Actions carry the names of the functions where there is one
action per function, and a comment starting with "Mutant" marks a deliberately
wrong form of the definition that follows it, kept to show which mistake each
property would catch; no specification uses one.

The processor has one core, so an action is as large as the priorities allow: a
thread that nothing relevant can preempt runs from one blocking call to the
next in one action, a thread that can be preempted takes one action per access
to shared state.

### MetadataStore (`metadata.c`, `metadata.h`, `secure_nsc.c`, `error.c`, `background_thread.c`)

| model | code |
|---|---|
| `hmeta` | the handle in backup SRAM: `initialised`, `new_metadata`, and of the data whether the device ID is known, `crashed` and the DHCP record |
| `fram` | the metadata quarter and the block protection bits |
| `snapshot` | the static `encrypted_metadata` of `META_dump_metadata` |
| `Boot`, `BootFails` | `META_Init`, `META_Reinit`, `META_Configure`, reduced to their effect on the store |
| `EncryptFirst` ... `META_lock_metadata`, `META_dump_counters` | the steps of `META_dump_metadata` and of the counters dump that follows it |
| `s_background_task` | the secure call of the background thread (15), which tests the flag |
| `s_save_dhcp_client_record` | the call of nx_link (9), which preempts the dump anywhere |
| `DumpFails`, `LogFails`, `FinishErrorHandler` | `error_handler` with its own dump, then the reset or the stop |
| `Hang`, `Reset`, `PowerCycle` | what happens to the processor from outside |

A record is the number of the save that made it, kept as a first and a last
part, because the encryption and the FRAM write can each be cut in two.

`AbstractStore` is what a client may rely on for one value: the one in use is the
newest, or after a loss the durable one; only a value in use since the last loss
becomes durable; and a store that says it is settled has written what is in use. Each
part of the record implements it (`KeepsRecord`): in use is the part in `hmeta` while
that is initialised and the one in the FRAM otherwise, the copy is the snapshot while
a dump has one, and settled is the idle background task with `new_metadata` down,
except after a save inside the dump (finding 1). That the two parts belong to one
record is not promised; `RecordWholeUnlessCut` says when they do.

### Boot (`boot_main.c`, `memory_tools.c`, `integrity.c`, `metadata.c`, `error.c`)

The flash of both banks by region (`s`, `nsc`, `ns`), the digests of this boot,
`hmeta` and its copy in the FRAM. The content of a region is "image", "blank" or
"torn" and stands for its own digest; where the code compares one byte only
(metadata.c:395), the comparison may also say equal of two that differ. One
action per call `boot_main` makes, with its failure; `error_handler` up to the
dump, the dump, and the end. A dump is one step here: the dumps of this module
run with no thread to preempt them, and it either reaches the FRAM or does not
(`DumpNothing`, `StepFails`). What a dump leaves when power goes in the middle of
it is the subject of `MetadataStore`, for the DHCP record; a half-written set of
hashes is not modelled. DEBUG and release builds are both initial states, and so
are both values of the SWAP_BANK option byte (`bankSwap`), which no code of the
repository writes: `swap_banks` only resets.

### LogRing (`logging.c`)

The ring byte by byte, because walking the entries reads whatever lies where a
length should be, and every atomic access of `log_acquire_space` and `log_vwrite` as
an action, because these run without a lock on threads that preempt one another, two
of them time-sliced. `error_handler` takes over at any point and dumps;
`META_write_log` may refuse each write of the dump for want of room, or find the
FRAM locked or failing ("refused", "failed"; a write that fails counts as not
stored, whatever part of it reached the chip). Head and tail are `uint32_t` offsets
taken modulo `OffMod`. The three compare-exchanges are weak ones, which may fail on
the value expected while interrupts are on. `log_write` is the call; the ghosts
`published` and `stomped` record the entries in use and whether a late LOG_INVALID
store hit one.

### ZenohCleanup (`zenoh_cleanup.c`, with the lists of ThreadX and NetX)

The circular list of created objects of each kind, as a sequence from its head
pointer, and the walk's `current` and `next`. Deleting the head moves the head.
The kernel's list operations are external and modelled from their use: append
on create, unlink on delete, a stale control block points to itself. `Unlink`
takes one place out of a list, `NewLists` are the lists a session can leave.

### Comms (`comms_thread.c`, `switch_diagnostics.c`)

Three actors: the comms thread, between blocking calls; the switch thread
inside `publish_switch_diagnostics`, between shared accesses; and Zenoh Pico's
read task inside `heartbeat_sub_callback`. `comms` is the call the comms thread
is blocked in, `flags` the two Zenoh flags, `session` whether the session is open,
closed by Zenoh Pico, dropped by `z_drop` or cleared by retry (`none`), `stale` the
comparison of the heartbeat timestamp with the clock, `streak` and `remote` the
failure counter and its validity. The ghosts `server`, `refusals`, `misused` and
`leased` record what the properties speak of. `Dropped` and `Closed` are the two ends
of `z_drop`: the switch thread runs while it blocks, with CONNECTED still up over a
session that has been dropped, because the flag is lowered only after it returns
(comms_thread.c:289, 297). `Halt` is `Error_Handler`. Zenoh Pico's own behaviour (open,
drop, put, the session closing itself) is external: each call returns success or
failure, or, while the router still holds the lease of a session terminated before
(`leased`), it deadlocks and the comms thread is "stuck" for good (`Deadlocks`,
todo.md:13, which does not say in which call).

### Startup (`state_machine.c`, `nx_link_thread.c`)

The state machine and the link thread have the same priority and no time slice,
so each runs from one blocking call to the next; but one that is made ready
may find the other one ahead of it, hence the two `Ready` values of `machine`.
`flags` is the event group, `ip` whether the interface has an address, `record`
whether the FRAM remembers a lease. The address callback runs in the thread that
changes the address: nx_link when it restores a record or restarts DHCP, the IP
thread for a lease, the DHCP timer for an expiry.

### AbstractCondVar and CondVar (`zenoh/system.c`)

`AbstractCondVar` is what a caller may rely on: the threads that wait, the
wake-ups owed to them, never more of these than of those, and every owed wake-up
taken in the end. `CondVar` is the code: the mutex `m` of the caller, the count
`waiters` and the token count of the semaphore, both unsigned and wrapping, and
where each thread is in `_z_condvar_wait` or `_z_condvar_wait_until`. The sections
under the mutex of the condition variable block nowhere and are one step each.
The refinement mapping takes every thread from its counting in to its token or its
timeout as waiting, and the tokens, with the threads that have got one but do not
yet run, as owed.

The code keeps that promise up to a point, which the history variable `wrapped`
marks. A wait that times out and then has to wait for `m` decrements `waiters`
although a signal may have counted it out already. If no other thread waits, the
count goes from 0 to 4294967295. The promise ends there (`broken`); `Balanced` and
`NobodySleepsUncounted` hold beyond it.

### EthDriver (`nx_stm32_eth_driver.c`, `stm32h5xx_hal_eth.c`)

| model | code |
|---|---|
| `rx`, `tx` | the descriptors: OWN bit, frame status, attached buffer or packet |
| `rxIdx`, `buildIdx`, `buildCnt`, `curTx`, `releaseIdx`, `inUse` | the indices and counts of the two descriptor lists of the HAL |
| `rxDma`, `txDma` | where the DMA is |
| `available`, `stack`, `hand` | the packets in the pool, with NetX Duo and its users, and in the return value of `HAL_ETH_ReadData`; a packet released after transmission goes to the pool, or stays with the TCP socket that awaits its acknowledgement (`nx_packet_transmit_release`) |
| `irq`, `events`, `ipEvent`, `ip`, `picked` | pending interrupts, deferred events, the event flag of the IP thread, the thread, its local copy |
| `pc` | where the owner of `nx_ip_protection` is in the driver |
| `DmaReceive`, `DmaTransmit`, `FatalBusError` | the DMA |
| `Interrupt` | `HAL_ETH_IRQHandler` with `HAL_ETH_RxCpltCallback` and `HAL_ETH_TxCpltCallback` |
| `WakeIp`, `_nx_driver_deferred_processing`, `HAL_ETH_ReleaseTxPacket`, `HAL_ETH_ReadData`, `ETH_UpdateDescriptor`, `_nx_driver_hardware_packet_received` | the IP thread, one descriptor per action |
| `_nx_driver_enable`, `Started`, `_nx_driver_disable` | nx_link: `HAL_ETH_Start_IT`, which builds descriptors in between, and `HAL_ETH_Stop` |
| `_nx_driver_packet_send` | sending, from any thread or from the IP thread in answer to a frame |
| `nx_packet_allocate`, `nx_packet_release` | everybody else who uses the pool, without the mutex |

Every NetX Duo path into the driver takes `nx_ip_protection` (`nx_link.c:460` and
540, `nx_ip_driver_interface_direct_command.c:92`, `nx_ip_thread_entry.c:250`), so
there is one program counter; the DMA, the interrupt and the pool are outside it.
Two history variables delimit what holds. `askew` is set when the controller is
started with frames unread or descriptors unbuilt; `corrupt` when a frame goes to,
or is fetched from, an address where no buffer is, and there the model stops. That
the DMA keeps its place in its rings over a stop and a start is an assumption about
the hardware, which neither function resets.

## 3. The runs

| run | module, bounds | what it shows |
|---|---|---|
| `store` | MetadataStore, 3 saves | `FlagCoversUnsaved`, `RecordWholeUnlessCut`, `ProtectedWhileRunning`, `KeepsRecord`, `SaveReachesFram`: apart from a save inside the dump, nothing that was saved is lost, torn, overwritten by an older record or left unprotected, what was lost does not come back, and each part of the record implements `AbstractStore`, over resets, crashes and power cuts at every step, in both builds |
| `store_lost_save` | MetadataStore, 2 saves | finding 1 |
| `boot` | Boot, both builds, either bank current | the application runs over measured and verified images only, and the one that runs is the one programmed into the current bank, although the first boot from bank 2 copies bank 1 over it; the device does not reset itself for ever, and boot ends |
| `boot_intact` | Boot | finding 2 |
| `log` | LogRing, two writers, 7 calls, one overlap, offsets modulo 32, `error_handler` after 2 calls or in or after the seventh | two writers in every interleaving, nearly twice round the ring and over the wrap of the offsets: the ring never overflows, reservations do not overlap, messages stay in the buffer, no call fails while one other overlaps it, the chain reaches head, and a dump that begins between calls moves on at each step, is never refused for want of room and stores exactly the newest entries, or nothing at all after the wrap of head, or the oldest of them when the FRAM fails half way |
| `cleanup` | ZenohCleanup, up to 2 threads, 2 mutexes, 1 semaphore, 1 socket in 4 blocks | the walks touch only created objects, delete nothing of the system, leave nothing in the pool, and end, whatever part of the session was already gone |
| `cleanup_semaphores` | ZenohCleanup, 2 semaphores | finding 3 |
| `comms` | Comms, 3 retries, streak up to 7 | the flags never promise a session that has been cleared, publishing is never muted for ever, leases are waited for, a missed heartbeat is a real one, and, unless the deadlock of todo.md:13 strikes, a silent server is noticed, a reported failure ends the session, and the session comes back |
| `comms_clear` | Comms | finding 4 |
| `startup` | Startup, 1 reset | the address in use is from the network that is plugged in, the threads that need an address are started on one, and they are started |
| `condvar` | CondVar, 4 threads, modulus 5 | the count and the tokens account for every waiter, nobody sleeps uncounted, and the whole implements `AbstractCondVar`, with its liveness |
| `eth` | EthDriver, 3 receive and 2 transmit descriptors, 3 packets | packets are conserved, deferred events are heard, no frame is forgotten, the receive ring stays in step, starved reception stays starved until a restart, and what is sent is released |

Why these bounds are enough.

* *MaxSaves 3.* A dump has one record in the FRAM, one in the snapshot and one in
  `hmeta`; the third save is the one that lands inside a dump that already carries
  an older one. The theorems of section 5 hold for every number.
* *LogRing.* 16 bytes hold four longest entries of 4 and more short ones, with the
  module's assumption that three longest entries fit. Seven calls and the one of
  `error_handler` go almost twice round the ring and, modulo 32, wrap the offsets.
  One overlap means that two calls are under way at once; each of its interleavings
  is explored (4.4 million states), and each call may succeed, lose a
  compare-exchange to another or for no reason, or fail its reservation. The ring is
  tighter than the theorems of section 5 ask for: on one tighter still, with entries
  of 5 in 16, `EntriesIntact` fails, because a call that was preempted for a lap
  exchanges a stale offset. `FatalAt` limits when `error_handler` begins to before
  the ring is full and after it has wrapped; within these calls it begins at any
  step. DEBUG only decides whether the buffer starts cleared, and no property but
  the dump of a skipped byte could tell; the smaller state space is the one checked.
* *ZenohCleanup.* A walk step looks at one object and its two neighbours; two
  objects of a kind behind two of the system, or behind none, give every position of
  the pool's objects relative to the head.
* *MaxRetries 3 (5 in the code), MaxStreak 7.* Two long pauses and one refusal more.
  A smaller period has the same multiples; the counter is only compared with zero
  and taken modulo.
* *CondVar.* Four threads give a signaller beside two waiters of which one is late
  and a third who comes too early; the modulus is the least above the number of
  threads, so that the underflow and everything after it are reached. The theorems
  of section 5 hold for any number and modulus.
* *EthDriver.* Three receive descriptors can be unread, the DMA's and unbuilt at
  once; two transmit descriptors can be full; three packets leave none for a ring
  that is full, which is how the pool of 32 against the rings of the firmware can be
  exhausted by slower consumers.
* *MaxResets 1.* A reset leaves behind `record` and `link` only; everything after
  the second start is what follows the first with other initial values.
* *Boot* has no bound: two banks of three regions, each of three contents, in both
  builds and executing from either bank.

Deadlock is not checked in `log` (the calls are bounded and `error_handler`
stops the device), in `comms*` (`Error_Handler` stops it), in `condvar` (every
thread may wait, and nobody has to signal) and in `eth` (the model stops at
`corrupt`).

### Fairness

Only the firmware's own steps are weakly fair: a processor that is not reset
executes its next instruction, and the threads concerned have nothing above them
that runs for ever. Faults, resets, saves, reports, cables and heartbeats are never
assumed to happen. In `LogRing` only `error_handler` is fair, since its interrupts
are off. `Comms` assumes that each call which can block returns, unless it deadlocks.
Of the pauses and the event wait their timeouts see to it; of the calls of Zenoh
Pico, `z_drop` among them, it is an assumption, since its code is not in the
repository. What is known against it is in the model: `todo.md:13` says that a
session which is terminated and reopened within ten seconds deadlocks, and the code
does reopen one after 200 ms (`ZENOH_OPEN_SESSION_INTERVAL`, config.h:155, against
`Z_TRANSPORT_LEASE`, zenoh_generic_config.h:20), except after repeated refusals. So
`Deadlocks` may take any call of Zenoh Pico made within a lease, and `SilenceNoticed`,
`ReportHeeded` and `Reconnects` promise their result or "stuck". A switch thread that has begun
`zenoh_disconnected` ends it (WF on `PublisherReports`), and the read task its
callback. `SpecReachable` adds strong fairness of `OpenSucceeds`: a server that is
there is found in the end if it is tried again and again; `Reconnects` needs it. In
`Startup` strong fairness of `Lease` says that a DHCP server answers a client that
keeps asking; `CommsStarts` needs it. In `CondVar` a thread that is ready runs, the
caller's mutex is not kept for ever, and strong fairness of `Relock` is ThreadX
handing a mutex to its waiters in turn. In `EthDriver` the DMA sends what it owns,
an interrupt is taken, a ready thread runs, and strong fairness of the deferred
processing is again the mutex; nothing makes frames arrive, threads release packets
or the link change. `TransmittedReleased` leaves out an endless flood of frames,
which the loop of the IP thread does not survive.

## 4. Findings

Each is a run that TLC ends with a counterexample.

1. `store_lost_save`. `META_dump_metadata` lowers `new_metadata` at its end
   (metadata.c:302) whatever was saved since its snapshot: a DHCP record that
   nx_link saves during the dump is neither written nor flagged.
2. `boot_intact`. On every boot that is not the first, the `else` of the secure
   hash check (boot_main.c:169) calls `error_handler` even when the hash
   matches; the steps after it are unreachable. Every reboot that finds the device
   known ends in the error handler.
3. `cleanup_semaphores`. The do-while loops end when `current` is the head of the
   list at that moment. The semaphore list has only Zenoh Pico's own, so the first
   deletion moves the head on to the next and the loop ends after one semaphore;
   the rest remain on ThreadX's list inside a deleted pool.
4. `comms_clear`. `z_internal_session_null` clears the local session only. The
   switch thread, preempted after its second test of CONNECTED
   (switch_diagnostics.c:114), goes on to publish through `stats_pub`, whose
   mutexes and memory have been deleted.

## 5. Proofs

`MetadataStoreProofs` proves, from `MetadataStoreAssumption` (`MaxSaves \in Nat`)
alone, hence for any number of saves and either build:

| theorem | property |
|---|---|
| `TypeCorrect` | `TypeOK` |
| `FlagCovers` | `FlagCoversUnsaved` |
| `RecordWhole` | `RecordWholeUnlessCut` |
| `Protected` | `ProtectedWhileRunning` |
| `NeverRegresses` | `FramNeverRegresses`, which `KeepsRecord` contains and no run lists |
| `StoreImplements` | `KeepsRecord`, the whole refinement |

`StartupProofs` proves, from `StartupAssumption` (`MaxResets \in Nat`) alone,
hence for any number of resets:

| theorem | property |
|---|---|
| `TypeCorrect` | `TypeOK`, with ASSIGNED raised exactly while there is an address |
| `FreshAddress` | `AddressIsFresh` |
| `StartedOnAddress` | `WokenOnAddress` |

`CondVarProofs` proves, from `CondVarAssumption` (a finite set of threads, fewer
than the modulus), hence for any threads and for 2^32:

| theorem | property |
|---|---|
| `TypeCorrect` | `TypeOK` |
| `BalanceKept` | `Balanced` |
| `NobodySleeps` | `NobodySleepsUncounted` |
| `Implements` | `Spec => Abstract!Promise`: the safety part of the refinement |

`EthDriverProofs` proves, from `EthDriverAssumption` (rings that are not empty, a
pool of any size):

| theorem | property |
|---|---|
| `TypeCorrect` | `TypeOK` |
| `PacketsKept` | `PacketsConserved` |
| `EventsHeard` | `EventHeard` |
| `RingsInvariant` | the positions in both rings determine the state of each descriptor |
| `RingsInStep` | `RingInStep` |
| `NothingIsForgotten` | `NothingForgotten` |
| `StarvationLasts` | `StarvedUntilRestart`, an action property |

`ZenohCleanupProofs` proves, from `ZenohCleanupAssumption` (each list of the system
without repetition, disjoint from the pool), hence for any number of objects, of the
system and of Zenoh Pico:

| theorem | property |
|---|---|
| `TypeCorrect` | `TypeOK` |
| `WalkSafe` | `WalkOnCreated` |
| `SystemIsKept` | `SystemKept` |
| `PoolIsEmptied` | `PoolEmptied`, if `Anchored`; also that the next session never starts over linked blocks |

`LogRingProofs` proves, from `LogRingAssumption` (sizes that fit, as in `logging.h`)
and, except for the types, `Roomy`, hence for any number of threads and of calls:

| theorem | property |
|---|---|
| `TypeCorrect` | `TypeOK` |
| `Invariant` | the ring is a row of entries, and every offset a call has read has a place in it |
| `Bounded` | `RingBounded` |
| `Intact` | `EntriesIntact` |
| `Inside` | `MessagesInBuffer` |
| `MovesOn` | `DumpMovesOn` |
| `DumpIsNewest` | `CleanDumpIsNewest` |
| `ChainLeads` | `ChainReachesHead` |
| `NoneFails` | `NoCallFails` |

`CommsProofs` proves, from `CommsAssumption` (at least one retry, a bound on the
streak), hence for any number of retries:

| theorem | property |
|---|---|
| `TypeCorrect` | `TypeOK` |
| `ClearedIsTold` | `ClearedIsUnconnected` |
| `WaitIsNotMute` | `NeverMuted` |
| `LeasesExpire` | `LeasesRespected` |
| `MissingIsReal` | `MissIsReal` |

`BootProofs` proves, for both builds and whichever bank is current, from no
assumption:

| theorem | property |
|---|---|
| `TypeCorrect` | `TypeOK` |
| `ImagesVerified` | `RunningImagesVerified` |
| `BootIsMeasured` | `RunningIsMeasured` |
| `ResetsOnce` | `NoFlipFlopOnceRecorded` |
| `ProgrammedRuns` | `RunsAsProgrammed` |

The argument for the store is one inductive invariant, `IInv`. The properties are
not inductive: what the FRAM will hold depends on the snapshot, which depends on the
`hmeta` of some steps ago. `IInv` adds, to `TypeOK`, where the processor can be for
each caller of the dump (`ControlInv`), where `initialised` is up
(`InitialisedInv`), that a snapshot or a FRAM half-way through a dump carries the
live data unless a save overlapped it (`CarriedInv`), that the FRAM is unlocked only
between the unlock and the lock of a dump or after an abandoned one that boot or
error handling locks again (`ProtectionInv`), that what lies in each of the three
places is whole unless `cut` (`WholeInv`), and that the FRAM is never newer than the
snapshot nor the snapshot than `hmeta` (`OrderInv`), which is what
`FramNeverRegresses` follows from. One lemma per action shows that it preserves each
conjunct. For `StoreImplements` every step is shown to save a part, to move the copy,
to write it or to fall back on the FRAM (`EveryPartMoves`): a step that leaves the
records alone moves the copy at most (`OnlyCopied`), one after which `hmeta` is not
initialised or was loaded falls back (`FallsBack`), and `IInv` after the step gives
that a settled store has written what it would hand out (`SettledWrote`).

The argument for the startup is `TypeOK`, `AddressIsFresh` and the fact that
nx_link takes the link to be down while it starts (`StartingIsDown`): without it
the lease restored from the FRAM could be in use on a link that is up. A lemma
says once what `tx_event_flags_set` does for whoever calls it; `StartedOnAddress`
is an action property, shown from the invariant before and after the step.

The argument for the condition variable is `Balanced` itself, with what it means
for the threads: a signal moves one from the count to the tokens or wakes a
thread, a timeout moves one out of both. That a thread that sleeps is counted
follows because no thread is suspended while there are tokens. For `Implements`
each action of the code is shown to be an action of `AbstractCondVar` or to leave
the mapped variables alone; cardinalities of the sets of waiting and woken threads
make most of it.

The argument for the driver counts packets: the descriptors with a buffer and
those with an unsent packet are finite sets, and each step that changes one of them
adds or removes one descriptor and one packet elsewhere. `TypeOK` needs two facts
besides: `BuffersInUse` is the number of unsent descriptors (`InUseCounts`), and the
reader never looks at more descriptors than are built (`ReadBounded`).
`EventHeard` needs that only the IP thread is in the paths after which it goes back
to wait (`IpOwns`).

The argument for the comms thread has four parts beside the types. The two flags
and the late report of the switch thread are one fact, `FlagsTell`: while the
thread puts, waits or closes, a flag is up or the switch thread is about to raise
one; `NeverMuted` speaks of the wait only and is not inductive, since a put and a
close hand the flags over unchanged. `StreakEnded` ties a session in use to a
counter at zero. `RefusalsCounted` says that the refusals since the last long
pause are the streak modulo `MaxRetries`, except when the streak has just reached a
multiple and the pause is due; counting one more is then a fact about remainders,
which `ModuloStep` proves from the uniqueness of division. `HeartbeatOwned` keeps a
heartbeat, and the stamp the callback has made but not yet published, within its
session; `MissIsReal`, an action property, follows from it at the two places where
the loop is entered.

The argument for the bootloader follows the measurement from step to step.
`MeasuredInv` says from which step on the digest in SRAM is that of the current
secure image and from which it is recorded. `NonSecureInv` says what is known of
the non-secure images between the first digest and the jump; it is where the value of
`bankSwap` matters: from bank 2 the digest that the copy is checked against was never
computed and is zero, no image has it, and so a release build cannot reach the
application at all, rather than reach it unverified. `SoundInv` says that a valid entry of
the current bank is right unless that image is damaged, in `hmeta` as in the FRAM,
and that the other bank's is never valid alone; without it `CheckCurrent` could
swap over an intact image. `CrashInv` says that once `error_handler` has reset the
device the crash is where its next call will look for it, in the FRAM and after the
load in `hmeta`. `ProgrammedInv`, inductive beside `IInv`, follows the non-secure
image of the current bank: no step writes it in a DEBUG build or with bank 1
current, and where it may be overwritten, in a release build with bank 2 current,
`CheckedFromBank1` shows that the check of the copy does not let boot go on, in this
boot or in one after a reset. The lemmas before the actions state what each update
does to the nested records; `ErrorEntered` is shared by the six actions that end in
`error_handler`.

The argument for the rings of the driver is a second invariant, `Rings`, beside the
counts. It says of each descriptor how far ahead of the index of its reader, builder
or releaser it is (`Ahead`), and that this number tells its state: fewer than `n`
ahead of the reader is unread, fewer than `buildCnt` ahead of the builder is unbuilt,
the others are the DMA's, and the DMA stands at the first of them. The transmit ring
is told the same way from the releaser. With the numbers fixed, the modular successor
of an index moves every descriptor one nearer, and each action changes the one at
distance zero. `RingInStep` and `NothingForgotten` follow with the deferred events of
`EventHeard`; the receive half holds until a start finds the ring `askew`.

The argument for the cleanup is about one list. It is always what the system created
followed by blocks of the pool, without repetition (`WellLinked`), so a deletion takes
out one place and leaves the system's objects before it. A walk is at some place of its
list with `next` at the place after it and nothing of the pool behind it
(`AtPlace`); a deletion brings `next` to that same place, another step goes one on, and
a walk that comes round to the head has left no block. `PoolIsEmptied` has a
hypothesis the code does not meet for semaphores: `Anchored`, that each list begins with an
object of the system or has room for one block. It holds of threads (the timer),
mutexes (those of `tx_setup`) and UDP sockets (that of DHCP); without it the theorem is
false, and finding 3 is the counterexample.

The argument for the log unrolls the offsets. Places are offsets that never wrap,
and the invariant says that there are places for head, tail and every offset a call
has read, and a set of boundaries between tail and head, that agree with the
variables (`View`): each stretch between two boundaries is the reservation of one
call or a published entry, and no two calls have the same (`Claims`,
`PublishedLies`, `AllOwned`). A compare-exchange compares remainders, so it may
succeed on an offset that is a whole wrap old, and the check of the free space may
use a head or a tail that is not there any more. What excludes this is a budget:
from one moment at which no call is under way to the next, only the calls that
overlap can reserve, two entries each at most (`Left`); head stays in a window above
its place at that moment, and no offset that a call holds is a buffer old. A ring
must have room for the budget, which is the hypothesis `Roomy`: `(2 * MaxOverlaps +
6) * MaxEntry <= Size`. With the 128 KiB of the firmware and entries of at most 255
bytes it allows 254 calls to begin while one is preempted. Nothing in the code
enforces this; a call that is preempted for longer has no protection, and the TLC
instance named in section 3 shows that some such hypothesis is needed. For the dump,
`LengthLeads` says that in a state without a length in between each length leads
from its boundary to the next; `Dumping` then keeps `current_offset` at a boundary
and ties what was stored to the entries passed. The plain comparison of line 244
either holds at the first entry written, and then until head is reached, because the
offsets from there to head have not wrapped (`InOrder`), or fails at once.
`error_handler`'s own call, which runs before the dump with interrupts off, is shown
to leave no length in between either.

`ChainReachesHead` speaks of a recursive function, the walk along the lengths.
`ChainLeads` proves it without an induction theorem: the library's `WFMin` gives a
least number of every set of them (`Least`), which shows that the recursion has a
solution (`WalkExists`), and applied to the distances from the walk's places to head
shows that the nearest of them is head itself, since its length would lead to a
nearer one.

`NoneFails` is an account. A length that is read is that of an entry, unless the bytes
of the entry were reserved again after the call had loaded its tail (`Genuine`), for
which head has to be more than a buffer ahead of that tail (`LoadedTail`,
`OutOfReach`). So each error of a call is charged to one reservation by another call
since the ring was last at rest (`Charged`), of which there are at most two for each
call that overlaps (`FewBusy`). With one overlap that makes two errors, and a call
fails with the third. `Behind` and `Spaced` say where the tails that other calls have
loaded lie, so that no LOG_INVALID store goes to a length that another call is about to
read.
`NoCallFails` says `overlaps < 2` for this reason: with `MaxOverlaps = 3` in the same
ring of 16 bytes TLC finds a call that fails, although no LOG_INVALID store was late.
`Roomy` does not hold of that ring; whether a call can fail in one with room when more
calls overlap is open.

Model-checked only: the liveness properties (`SaveReachesFram`, `BootEnds`,
`CleanupEnds`, `SilenceNoticed`, `ReportHeeded`, `Reconnects`, `CommsStarts`, the
liveness half of `KeepsPromise`, `TransmittedReleased`), whose fairness is beyond
the prover. Every invariant and every action property a run checks is proved.
`TypeOK` of every module is proved; no run lists it.

## 6. Other observations

Not findings, because nothing in the repository says otherwise or because the
effect is harmless. The models contain those about the order of steps; those about
the clock, encodings, versions and the multicast filter are from reading the code.

* If the FRAM cannot be initialised, `crashed` is never recorded and `error_handler`
  resets the device for ever (error.c:38); `NoFlipFlopOnceRecorded` and `BootEnds`
  exclude exactly this with `unrecorded`.
* `META_check_s_firmware_hash` compares one byte (metadata.c:395), so a corrupt
  secure copy can pass with probability 1/256. The non-secure check compares all.
* The hashes set after `META_Configure` are not flagged for a dump (metadata.h:45),
  so those in the FRAM are the ones of before the first boot.
* A release build never clears `crashed` once it is in the FRAM (metadata.h:52).
* A first boot from bank 2 copies bank 1 over the image of the current bank: the
  arguments of the copy are fixed (boot_main.c:150), where the comment says "Copy
  current secure and non-secure firmwares into the other bank" (boot_main.c:147) and
  `copy_ns_firmware_to_other_bank`, which looks at the bank, is not used. The copy is
  then compared with a digest of bank 1 that was never computed, so the boot ends in
  `error_handler` and the overwritten image is not run (`RunsAsProgrammed`); a device
  with the option byte set has lost its application. The mutant of that property
  shows how little is needed for it to run what was copied.
* `log_dump_to_fram` may lose or merge entries when a writer was preempted inside
  one, and does not end at a length of zero (logging.c:240, 257): its properties are
  stated for a dump that begins at rest (`clean`). It stores nothing but the end log
  when `head` has wrapped its 32 bits and the oldest entry wanted has not
  (logging.c:244), which `CleanDumpIsNewest` allows; it stops without an end log when
  a write fails (logging.c:251), and nobody looks at its status (error.c:28).
* nx_link passes zero as the elapsed time when the link goes down
  (nx_link_thread.c:153), so the "immediate renewal" does not happen; and a restored
  lease never survives the first link up, when DHCP is restarted.
* log: a writer that frees the entry at the tail marks it LOG_INVALID only after it
  has moved the tail (logging.c:119); preempted in between, it stores into what may
  by then be another's reservation.
* condvar: after the underflow of `waiters` the next broadcast puts about 4*10^9
  tokens; CONDVAR_MAX_WAITERS_COUNT (0xff) is defined and not used; a waiter that
  comes after a signal may take the token meant for an earlier one, which the
  abstract specification allows, since Zenoh Pico's callers loop.
* clock: the clock stores microseconds in its nanosecond field (system.c:328) and
  timed waits read nanoseconds from it (system.c:283), so that they may end up to
  999 ms early.
* eth: when the pool is exhausted, no descriptor can be built and reception stops
  until the interface is restarted (`StarvedUntilRestart`): packets released later
  trigger nothing, and the error callback is empty ("TODO: VERY IMPORTANT",
  nx_stm32_eth_driver.c:2078). A restart with frames unread or descriptors unbuilt
  (`askew`) lets the DMA meet a stale descriptor. A fatal bus error is never
  recovered (stm32h5xx_hal_eth.c:1930). Packets sent while the link is down stay in
  the ring until it is up.
* stp: with STP disabled nothing takes the BPDUs out of the queue of
  `nx_stp_packet_deferred_receive`; harmless as long as no multicast group for them
  is joined, and none is.
* comms: the sum of the heartbeat timestamp and its timeout wraps after 49 days of
  milliseconds (comms_thread.c:239), once. The pause before a session is reopened is
  200 ms, where its lease is ten seconds (comms_thread.c:325): the deadlock of
  todo.md:13 can strike after every close, and after a reset within the lease.
  CONNECTED is still up when `z_drop` has dropped the session (comms_thread.c:289,
  297); a put in between is refused by Zenoh Pico, not by the flag.
* boot: `metadata.c:141` compares VERSION_MAJOR with the stored minor version, which
  shows only when a version is not 0.0.0. A failure to encode the statistics
  (switch_diagnostics.c:120) is reported, and the put goes on.
* nx_link can take the address away between the wake of the state machine and the
  start of comms; comms then fails to open and retries.

## 7. Not modelled

The `components` of `PROJECT.json` give the reason for each. In short: the
generated core, ThreadX, NetX Duo and the HAL are vendored and appear as what
their callers need of them; PHY, switch maintenance and STP are adapters around
submodules that are not in the repository (and STP is disabled); PTP is never
resumed; the signature code is numerical and
no boot step calls it; the Zenoh links hold no state a client session uses; the
secondary microcontroller is a skeleton.

Of the modelled parts, what is left out: of the Ethernet driver the timestamp
context descriptors, frames that span descriptors, the MAC's own interrupt, the
multicast filter and the failures of the PHY; of `system.c` the deletion of a
condition variable, the tasks and the allocator; of the log its formatting; of
boot the signing keys and the `ns_firmware_update_*` functions, which nothing calls;
of the metadata store the contents of the counters.

Nearly all of the lines of the repository are vendored device headers, HAL drivers,
ThreadX and NetX Duo. The C files of the application and the bootloader are about
9,000 of 607,000, so the modules' share of all lines is small and stays so; the
components above are the better measure.

## 8. Plan

Done: `MetadataStore`, `Boot`, `Comms`, `Startup`, `CondVar`, `EthDriver`,
`ZenohCleanup` and `LogRing` with their proofs; `AbstractCondVar` and `AbstractStore`
with their refinements, of which the safety is proved.

Next, in this order:

1. An abstract session manager that `Comms` implements, and `ZenohCleanup` composed
   with it.
2. Whether a call can fail in a ring with room (`Roomy`) when three or more calls
   overlap, for which the account of `NoneFails` is too coarse.
