-------------------------------- MODULE Comms --------------------------------
(***************************************************************************)
(* The comms thread, which keeps a Zenoh Pico session open, and the switch *)
(* thread, which publishes statistics through it.                          *)
(*                                                                         *)
(* The comms thread (priority 12) outranks Zenoh Pico's tasks (14) and the *)
(* switch thread (15): those run only while it is blocked.  So one action  *)
(* of the comms thread goes from one call that can block to the next, and  *)
(* the other threads take smaller steps between them.  The two threads     *)
(* share two event flags, CONNECTED and DISCONNECTED, and the memory of    *)
(* the session, which the comms thread takes away when it reconnects.      *)
(* Module ZenohCleanup has the steps of the cleanup.                       *)
(***************************************************************************)
EXTENDS Naturals

CONSTANTS
  MaxRetries,  \* ZENOH_MAX_RETRIES_BEFORE_LONG_PAUSE
  MaxStreak    \* bound: failure_streak

ASSUME CommsAssumption == MaxRetries \in Nat \ {0} /\ MaxStreak \in Nat

VARIABLES
  comms,      \* the call the comms thread is blocked in
  publisher,  \* where the switch thread is in publish_switch_diagnostics
  onward,     \* where it goes after zenoh_disconnected
  reader,     \* where Zenoh Pico's read task is in heartbeat_sub_callback
  flags,      \* state_machine_events_handle, the two Zenoh flags
  session,    \* "none", "open", "closed" by Zenoh Pico itself, or "dropped"
  heartbeat,  \* heartbeat_consumer_state
  stale,      \* heartbeat_consumer_timestamp is older than the timeout
  streak,     \* failure_streak
  remote,     \* failure_streak_valid
  server,     \* ghost: what this session has heard of the server
  refusals,   \* ghost: remote failures since a session or a long pause
  misused,    \* ghost: a session was published on after its memory had gone
  leased      \* ghost: a session was terminated within its lease

vars == <<comms, publisher, onward, reader, flags, session, heartbeat, stale,
          streak, remote, server, refusals, misused, leased>>

Absent == {"opening", "cleaning", "pausing", "long_pause"}
Present == {"declaring", "putting", "waiting", "closing"}

(* The state machine resumes the comms thread, which goes up to z_open.    *)
Init ==
  /\ comms = "opening"
  /\ publisher = "idle" /\ onward = "idle" /\ reader = "idle"
  /\ flags = {}
  /\ session = "none"
  /\ heartbeat = "not_started" /\ stale = FALSE
  /\ streak = 0 /\ remote = FALSE
  /\ server = "unheard" /\ refusals = 0 /\ misused = FALSE
  /\ leased \in BOOLEAN  \* before a reset there may have been a session

----------------------------------------------------------------------------
(* Mutant: the other flag stays up. *)
ConnectedToo == flags' = flags \union {"CONNECTED"}

zenoh_connected == flags' = {"CONNECTED"}

(* Mutant: nobody is told that the session is gone. *)
DisconnectedUntold == UNCHANGED flags

zenoh_disconnected == flags' = {"DISCONNECTED"}

(* From retry to the first call that can block: the session is forgotten,  *)
(* its tasks are terminated and its mutexes deleted.                       *)
Retry ==
  /\ comms' = "cleaning"
  /\ session' = "none"
  /\ reader' = "idle"
  /\ misused' = (misused \/ publisher = "putting")

Restart ==
  /\ zenoh_disconnected
  /\ Retry
  /\ leased' = TRUE
  /\ UNCHANGED <<publisher, onward, heartbeat, stale, streak, remote, server, refusals>>

(* Mutant: the server's heartbeat is not supervised. *)
LoopTopUnchecked ==
  /\ comms' = IF session = "closed" THEN "closing" ELSE "putting"
  /\ UNCHANGED heartbeat

(* The top of the main loop, up to z_drop or z_publisher_put.              *)
LoopTop ==
  \/ /\ session = "closed"
     /\ comms' = "closing"
     /\ UNCHANGED heartbeat
  \/ /\ session = "open" /\ heartbeat = "consuming" /\ stale
     /\ comms' = "closing"
     /\ heartbeat' = "missed"
  \/ /\ session = "open" /\ ~(heartbeat = "consuming" /\ stale)
     /\ comms' = "putting"
     /\ UNCHANGED heartbeat

----------------------------------------------------------------------------
(* z_open                                                                  *)

OpenSucceeds ==
  /\ comms = "opening"
  /\ comms' = "declaring"
  /\ session' = "open"
  /\ streak' = 0 /\ remote' = FALSE /\ refusals' = 0
  /\ UNCHANGED <<publisher, onward, reader, flags, heartbeat, stale, server, misused,
                 leased>>

(* Nobody was found, or its locator is of no use. *)
OpenFindsNone ==
  /\ comms = "opening"
  /\ Retry
  /\ remote' = FALSE
  /\ UNCHANGED <<publisher, onward, flags, heartbeat, stale, streak, server, refusals,
                 leased>>

(* The remote device answered with something unexpected. *)
OpenRefused ==
  /\ comms = "opening"
  /\ streak < MaxStreak
  /\ Retry
  /\ streak' = streak + 1 /\ remote' = TRUE /\ refusals' = refusals + 1
  /\ UNCHANGED <<publisher, onward, flags, heartbeat, stale, server, leased>>

(* Any other error of z_open, a declaration that fails, or a heartbeat or  *)
(* statistics that cannot be encoded: Error_Handler.  A put on memory that *)
(* has gone may return anything, or fault.                                 *)
Halt ==
  /\ \/ comms \in {"opening", "declaring", "putting"}
     \/ publisher = "encoding"
     \/ misused /\ publisher = "putting"
  /\ comms' = "halted"
  /\ UNCHANGED <<publisher, onward, reader, flags, session, heartbeat, stale, streak,
                 remote, server, refusals, misused, leased>>

----------------------------------------------------------------------------
(* The session                                                             *)

Declared ==
  /\ comms = "declaring"
  /\ zenoh_connected
  /\ LoopTop
  /\ UNCHANGED <<publisher, onward, reader, session, stale, streak, remote, server,
                 refusals, misused, leased>>

PutSucceeds ==
  /\ comms = "putting" /\ session = "open"
  /\ comms' = "waiting"
  /\ UNCHANGED <<publisher, onward, reader, flags, session, heartbeat, stale, streak,
                 remote, server, refusals, misused, leased>>

PutFails == comms = "putting" /\ Restart

(* DISCONNECTED is raised within HEARTBEAT_INTERVAL. *)
WakeDisconnected ==
  /\ comms = "waiting" /\ "DISCONNECTED" \in flags
  /\ Restart

(* Mutant: the interval is slept through. *)
WakeAnyhow ==
  /\ comms = "waiting"
  /\ LoopTop
  /\ UNCHANGED <<publisher, onward, reader, flags, session, stale, streak, remote,
                 server, refusals, misused, leased>>

WakeInterval ==
  /\ comms = "waiting" /\ "DISCONNECTED" \notin flags
  /\ LoopTop
  /\ UNCHANGED <<publisher, onward, reader, flags, session, stale, streak, remote,
                 server, refusals, misused, leased>>

(* z_drop takes the session down ...                                       *)
Dropped ==
  /\ comms = "closing" /\ session # "dropped"
  /\ session' = "dropped"
  /\ UNCHANGED <<comms, publisher, onward, reader, flags, heartbeat, stale, streak,
                 remote, server, refusals, misused, leased>>

(* ... and returns, and only now CONNECTED is lowered.                     *)
Closed == comms = "closing" /\ session = "dropped" /\ Restart

----------------------------------------------------------------------------
(* The pauses                                                              *)

(* Mutant: the streak is compared with the limit, and so pauses too late.  *)
CleanedLate ==
  /\ comms = "cleaning"
  /\ IF streak > MaxRetries /\ remote
     THEN comms' = "long_pause" /\ refusals' = 0
     ELSE comms' = "pausing" /\ UNCHANGED refusals
  /\ UNCHANGED <<publisher, onward, reader, flags, session, heartbeat, stale, streak,
                 remote, server, misused, leased>>

(* The sockets and the byte pool are gone. *)
Cleaned ==
  /\ comms = "cleaning"
  /\ IF streak # 0 /\ streak % MaxRetries = 0 /\ remote
     THEN comms' = "long_pause" /\ refusals' = 0
     ELSE comms' = "pausing" /\ UNCHANGED refusals
  /\ UNCHANGED <<publisher, onward, reader, flags, session, heartbeat, stale, streak,
                 remote, server, misused, leased>>

(* The loop goes round, up to z_open. *)
Reopen ==
  /\ comms \in {"pausing", "long_pause"}
  /\ comms' = "opening"
  /\ heartbeat' = "not_started"
  /\ server' = "unheard"
  /\ leased' = (leased /\ comms = "pausing")
  /\ UNCHANGED <<publisher, onward, reader, flags, session, stale, streak, remote,
                 refusals, misused>>

comms_thread_entry ==
  \/ OpenSucceeds \/ OpenFindsNone \/ OpenRefused
  \/ Declared \/ PutSucceeds \/ PutFails
  \/ WakeDisconnected \/ WakeInterval
  \/ Dropped \/ Closed \/ Cleaned \/ Reopen

----------------------------------------------------------------------------
(* publish_switch_diagnostics                                              *)

commsState == <<comms, reader, session, heartbeat, stale, streak, remote, server,
                refusals, leased>>

(* The first test: is publishing allowed? *)
PublishBegins ==
  /\ publisher = "idle" /\ "CONNECTED" \in flags
  /\ publisher' = "encoding"
  /\ UNCHANGED <<commsState, onward, flags, misused>>

(* The statistics have been read over SPI and encoded. *)
PublishEncoded ==
  /\ publisher = "encoding"
  /\ publisher' = "checking"
  /\ UNCHANGED <<commsState, onward, flags, misused>>

(* The second test: is publishing still allowed? *)
PublishChecked ==
  /\ publisher = "checking"
  /\ publisher' = IF "CONNECTED" \in flags THEN "allowed" ELSE "idle"
  /\ UNCHANGED <<commsState, onward, flags, misused>>

(* z_publisher_put is entered with stats_pub, whatever has become of it. *)
PublishPut ==
  /\ publisher \in {"allowed", "unencoded"}
  /\ publisher' = "putting"
  /\ misused' = (misused \/ session = "none")
  /\ UNCHANGED <<commsState, onward, flags>>

PublishSucceeds ==
  /\ publisher = "putting"
  /\ publisher' = "idle"
  /\ UNCHANGED <<commsState, onward, flags, misused>>

(* No memory for the payload or the encoding, or the put fails: the thread *)
(* calls zenoh_disconnected(false) and carries on.                         *)
PublishFails ==
  /\ \/ publisher = "encoding" /\ onward' = "checking"
     \/ publisher = "allowed" /\ onward' = "unencoded"
     \/ publisher = "putting" /\ onward' = "idle"
  /\ publisher' = "lowering"
  /\ UNCHANGED <<commsState, flags, misused>>

LowerConnected ==
  /\ publisher = "lowering"
  /\ publisher' = "raising"
  /\ flags' = flags \ {"CONNECTED"}
  /\ UNCHANGED <<commsState, onward, misused>>

RaiseDisconnected ==
  /\ publisher = "raising"
  /\ publisher' = onward
  /\ flags' = flags \union {"DISCONNECTED"}
  /\ UNCHANGED <<commsState, onward, misused>>

(* Mutant: one flag is raised before the other is lowered. *)
RaisedFirst ==
  \/ /\ publisher = "lowering"
     /\ publisher' = "raising"
     /\ flags' = flags \union {"DISCONNECTED"}
     /\ UNCHANGED <<commsState, onward, misused>>
  \/ /\ publisher = "raising"
     /\ publisher' = onward
     /\ flags' = flags \ {"CONNECTED"}
     /\ UNCHANGED <<commsState, onward, misused>>

PublisherReports == LowerConnected \/ RaiseDisconnected

publish_switch_diagnostics ==
  \/ PublishBegins \/ PublishEncoded \/ PublishChecked \/ PublishPut
  \/ PublishSucceeds \/ PublishFails \/ PublisherReports

----------------------------------------------------------------------------
(* Zenoh Pico                                                              *)

othersState == <<comms, publisher, onward, flags, streak, remote, refusals, misused,
                 leased>>

HeartbeatStamp ==
  /\ session = "open"
  /\ reader = "idle"
  /\ reader' = "stamped"
  /\ stale' = FALSE
  /\ server' = "heard"
  /\ UNCHANGED <<othersState, session, heartbeat>>

HeartbeatState ==
  /\ reader = "stamped"
  /\ reader' = "idle"
  /\ heartbeat' = IF heartbeat = "not_started" THEN "consuming" ELSE heartbeat
  /\ UNCHANGED <<othersState, session, stale, server>>

(* Mutant: the state changes before the timestamp of the last session. *)
StateFirst ==
  \/ /\ session = "open"
     /\ reader = "idle"
     /\ reader' = "stamped"
     /\ heartbeat' = IF heartbeat = "not_started" THEN "consuming" ELSE heartbeat
     /\ UNCHANGED <<othersState, session, stale, server>>
  \/ /\ reader = "stamped"
     /\ reader' = "idle"
     /\ stale' = FALSE
     /\ server' = "heard"
     /\ UNCHANGED <<othersState, session, heartbeat>>

heartbeat_sub_callback == HeartbeatStamp \/ HeartbeatState

(* HEARTBEAT_MISS_TIMEOUT passes without a heartbeat. *)
Timeout ==
  /\ ~stale
  /\ stale' = TRUE
  /\ server' = IF server = "heard" THEN "silent" ELSE server
  /\ UNCHANGED <<othersState, reader, session, heartbeat>>

(* The lease or the read task gives up on the transport. *)
SessionCloses ==
  /\ session = "open"
  /\ session' = "closed"
  /\ UNCHANGED <<othersState, reader, heartbeat, stale, server>>

(* Z_TRANSPORT_LEASE is over on the remote device.                         *)
LeaseExpires ==
  /\ leased
  /\ leased' = FALSE
  /\ UNCHANGED <<comms, publisher, onward, reader, flags, session, heartbeat, stale,
                 streak, remote, server, refusals, misused>>

(* todo.md, line 13: "terminating a Zenoh Pico session and reopening it    *)
(* within 10s causes a deadlock".  It does not say in which call.          *)
Deadlocks ==
  /\ leased /\ comms \in {"opening", "declaring", "putting", "closing"}
  /\ comms' = "stuck"
  /\ UNCHANGED <<publisher, onward, reader, flags, session, heartbeat, stale, streak,
                 remote, server, refusals, misused, leased>>

Next ==
  \/ Halt
  \/ /\ comms # "halted"
     /\ \/ comms_thread_entry
        \/ publish_switch_diagnostics
        \/ heartbeat_sub_callback
        \/ Timeout \/ SessionCloses
        \/ LeaseExpires \/ Deadlocks

Running(A) == comms # "halted" /\ A

(* Every blocking call of the comms thread returns, unless it deadlocks:   *)
(* the waits by their timeouts, the calls of Zenoh Pico by assumption.     *)
(* The switch thread is not kept from ending a zenoh_disconnected it has   *)
(* begun, nor the read task from ending its callback.                      *)
Spec ==
  /\ Init /\ [][Next]_vars
  /\ WF_vars(Running(comms_thread_entry))
  /\ WF_vars(Running(PublisherReports))
  /\ WF_vars(Running(HeartbeatState))

(* A server that is there: z_open succeeds in the end if it is tried again *)
(* and again.                                                              *)
SpecReachable == Spec /\ SF_vars(Running(OpenSucceeds))

----------------------------------------------------------------------------
(* The ranges of the variables, and the session is cleared exactly while   *)
(* the comms thread is between two of them: z_internal_session_null.       *)
TypeOK ==
  /\ comms \in Absent \union Present \union {"halted", "stuck"}
  /\ publisher \in {"idle", "encoding", "checking", "allowed", "unencoded", "putting",
                    "lowering", "raising"}
  /\ onward \in {"idle", "checking", "unencoded"}
  /\ reader \in {"idle", "stamped"}
  /\ flags \subseteq {"CONNECTED", "DISCONNECTED"}
  /\ session \in {"none", "open", "closed", "dropped"}
  /\ comms \in Absent => session = "none"
  /\ comms \in Present => session # "none"
  /\ session = "dropped" => comms \in {"closing", "halted", "stuck"}
  /\ heartbeat \in {"not_started", "consuming", "missed"}
  /\ {stale, remote, misused, leased} \subseteq BOOLEAN
  /\ streak \in 0..MaxStreak /\ refusals \in 0..streak
  /\ server \in {"unheard", "heard", "silent"}

(* Nobody who tests CONNECTED after retry has cleared the session and      *)
(* deleted its objects (comms_thread.c, line 306) finds it raised, on      *)
(* whichever way the comms thread came there and however late the switch   *)
(* thread reports.  Before that, from z_drop (line 289) to the next line   *)
(* but eight, the flag is up over a session that has been dropped.         *)
ClearedIsUnconnected == session = "none" => "CONNECTED" \notin flags

(* While the comms thread waits between two heartbeats, publishing is      *)
(* allowed or the thread is about to be woken.  Two threads lower and      *)
(* raise the flags, and a switch thread that reported its failure in the   *)
(* other order, late, could lower CONNECTED of the next session and leave  *)
(* nothing to wake the comms thread: no statistics until a reset.          *)
NeverMuted == comms = "waiting" => flags # {} \/ publisher = "raising"

(* No more than MaxRetries refusals follow one another without the long    *)
(* pause that lets the leases on the remote device expire, although a      *)
(* failed scout in between clears failure_streak_valid but not the streak. *)
LeasesRespected == refusals <= MaxRetries

(* Only a server that was heard in this session and then not for           *)
(* HEARTBEAT_MISS_TIMEOUT counts as missed.  The timestamp outlives the    *)
(* session, so the callback must write it before it changes the state.     *)
MissIsReal == [][heartbeat' = "missed" /\ heartbeat # "missed" => server = "silent"]_vars

(* A server that falls silent is given up, unless it speaks again.         *)
SilenceNoticed ==
  server = "silent" /\ comms \in Present
    ~> server # "silent" \/ comms \in Absent \union {"halted", "stuck"}

(* A failure that the switch thread reports on a session in use ends it:   *)
(* the flag it raises is not overwritten, and wakes the comms thread.      *)
ReportHeeded ==
  publisher = "raising" /\ comms \in {"putting", "waiting", "closing"}
    ~> comms \in {"cleaning", "halted", "stuck"}

(* A lost session comes back, and with it permission to publish, whatever  *)
(* reports of the old session are still under way, unless reopening it     *)
(* within the lease, which the short pause allows, ends in the deadlock.   *)
Reconnects ==
  comms = "cleaning" ~> flags = {"CONNECTED"} \/ comms \in {"halted", "stuck"}

(* comms_thread.c:306 says of retry: "Clear the session to make sure other *)
(* threads can't send messages".  The switch thread publishes through      *)
(* stats_pub, which is not cleared, on the strength of an earlier test.    *)
NotUsedAfterClear == ~misused
=============================================================================
