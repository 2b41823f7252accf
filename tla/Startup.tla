------------------------------- MODULE Startup -------------------------------
(***************************************************************************)
(* From reset to the start of the comms thread: the state machine thread   *)
(* waits for two events, which the link thread and the DHCP client raise.  *)
(*                                                                         *)
(* The state machine and the link thread share priority 9 without a time   *)
(* slice, so an action of either runs from one call that can block to the  *)
(* next, but the one that is made ready may find the other one ahead of    *)
(* it.  The IP thread (10), which brings the answers of a DHCP server,     *)
(* runs only while both are blocked; the DHCP thread's timer (3) does not  *)
(* wait for them.                                                          *)
(***************************************************************************)
EXTENDS Naturals

CONSTANT MaxResets  \* bound: resets of the device

ASSUME StartupAssumption == MaxResets \in Nat

VARIABLES
  machine,   \* the state machine: the event it waits for, or has been given
  nx_link,   \* the call the link thread is blocked in
  flags,     \* state_machine_events_handle
  linkdown,  \* linkdown of the link thread
  ip,        \* the interface has an address
  record,    \* the FRAM holds the record of a bound DHCP client
  link,      \* a PHY has a link
  resets,    \* how often the device was reset
  fresh      \* ghost: the address was leased since the link last went up

vars == <<machine, nx_link, flags, linkdown, ip, record, link, resets, fresh>>

Ready == {"link ready", "network ready"}

Init ==
  /\ machine = "link" /\ nx_link = "starting"
  /\ flags = {}
  /\ linkdown = TRUE /\ ip = FALSE /\ fresh = FALSE
  /\ record \in BOOLEAN /\ link \in BOOLEAN
  /\ resets = 0

----------------------------------------------------------------------------
(* tx_event_flags_set leaves f; whoever waits for f is made ready with it. *)
(* The loop of the state machine takes UPDATE away as it is served.        *)
tx_event_flags_set(f) ==
  /\ machine' = CASE machine = "link" /\ {"LINK_UP", "UPDATE"} \subseteq f -> "link ready"
                  [] machine = "network" /\ {"ASSIGNED", "UPDATE"} \subseteq f -> "network ready"
                  [] OTHER -> machine
  /\ flags' = IF machine = "running" THEN f \ {"UPDATE"} ELSE f

(* Mutant: UPDATE is raised before ASSIGNED is lowered. *)
UnassignedLate ==
  /\ ip' = FALSE
  /\ machine' = IF machine = "network" /\ "ASSIGNED" \in flags
                THEN "network ready" ELSE machine
  /\ flags' = (flags \ {"ASSIGNED"}) \union {"UPDATE"}

(* ip_address_change_notify_callback: the address comes, or goes.          *)
Assigned ==
  /\ ip' = TRUE
  /\ tx_event_flags_set(flags \union {"ASSIGNED", "UPDATE"})

Unassigned ==
  /\ ip' = FALSE
  /\ tx_event_flags_set((flags \ {"ASSIGNED"}) \union {"UPDATE"})

----------------------------------------------------------------------------
(* state_machine_thread_entry                                              *)

LinkSeen ==
  /\ machine = "link ready"
  /\ machine' = "network"
  /\ flags' = flags \ {"UPDATE"}
  /\ UNCHANGED <<nx_link, linkdown, ip, record, link, resets, fresh>>

(* The comms thread is resumed, and the loop entered. *)
NetworkSeen ==
  /\ machine = "network ready"
  /\ machine' = "running"
  /\ flags' = flags \ {"UPDATE"}
  /\ UNCHANGED <<nx_link, linkdown, ip, record, link, resets, fresh>>

state_machine_thread_entry == LinkSeen \/ NetworkSeen

----------------------------------------------------------------------------
(* nx_link_thread_entry                                                    *)

(* DHCP is started, and an address that the FRAM remembers is restored. *)
Start ==
  /\ nx_link = "starting"
  /\ nx_link' = "checking"
  /\ IF record THEN Assigned ELSE UNCHANGED <<machine, flags, ip>>
  /\ UNCHANGED <<linkdown, record, link, resets, fresh>>

(* The link just went up. *)
CheckUp ==
  /\ nx_link = "checking" /\ link /\ linkdown
  /\ nx_link' = "resolving"
  /\ tx_event_flags_set(flags \union {"LINK_UP", "UPDATE"})
  /\ fresh' = FALSE
  /\ UNCHANGED <<linkdown, ip, record, link, resets>>

(* The link just went down: the address is kept, since a time remaining of *)
(* zero is passed where the DHCP client expects the time elapsed.          *)
CheckDown ==
  /\ nx_link = "checking" /\ ~link /\ ~linkdown
  /\ nx_link' = "saving"
  /\ linkdown' = TRUE
  /\ UNCHANGED <<machine, flags, ip, record, link, resets, fresh>>

CheckSame ==
  /\ nx_link = "checking" /\ link = ~linkdown
  /\ nx_link' = "saving"
  /\ UNCHANGED <<machine, flags, linkdown, ip, record, link, resets, fresh>>

(* Mutant: an address from before is kept. *)
ResolvedKept ==
  /\ nx_link = "resolving" /\ ip
  /\ nx_link' = "saving"
  /\ linkdown' = FALSE
  /\ UNCHANGED <<machine, flags, ip, record, link, resets, fresh>>

(* An address is there: DHCP has to be restarted, once its mutex is free. *)
Resolved ==
  /\ nx_link = "resolving" /\ ip
  /\ nx_link' = "restarting"
  /\ UNCHANGED <<machine, flags, linkdown, ip, record, link, resets, fresh>>

(* No address came within ten ticks. *)
NotResolved ==
  /\ nx_link = "resolving" /\ ~ip
  /\ nx_link' = "saving"
  /\ linkdown' = FALSE
  /\ UNCHANGED <<machine, flags, ip, record, link, resets, fresh>>

(* Mutant: stopped and started, but not reinitialised. *)
RestartStale ==
  /\ nx_link = "restarting"
  /\ nx_link' = "saving"
  /\ linkdown' = FALSE
  /\ UNCHANGED <<machine, flags, ip, record, link, resets, fresh>>

(* DHCP is stopped, reinitialised and started. *)
Restart ==
  /\ nx_link = "restarting"
  /\ nx_link' = "saving"
  /\ linkdown' = FALSE
  /\ IF ip THEN Unassigned ELSE UNCHANGED <<machine, flags, ip>>
  /\ UNCHANGED <<record, link, resets, fresh>>

(* Every DHCP_RECORD_SAVE_INTERVAL the record of a bound client is saved.  *)
Save ==
  /\ nx_link = "saving"
  /\ nx_link' = "checking"
  /\ record' \in {record, record \/ ip}
  /\ UNCHANGED <<machine, flags, linkdown, ip, link, resets, fresh>>

nx_link_thread_entry ==
  \/ Start \/ CheckUp \/ CheckDown \/ CheckSame
  \/ Resolved \/ NotResolved \/ Restart \/ Save

----------------------------------------------------------------------------
(* The MAC is enabled from the check that finds the link up to the one     *)
(* that finds it down.                                                     *)
Enabled == ~linkdown \/ nx_link \in {"resolving", "restarting"}

(* A DHCP server grants a lease. *)
Lease ==
  /\ link /\ Enabled /\ ~ip
  /\ machine \notin Ready
  /\ Assigned
  /\ fresh' = TRUE
  /\ UNCHANGED <<nx_link, linkdown, record, link, resets>>

(* The lease runs out, or is refused. *)
Expire ==
  /\ ip
  /\ Unassigned
  /\ UNCHANGED <<nx_link, linkdown, record, link, resets, fresh>>

(* A cable is plugged or pulled. *)
Cable ==
  /\ link' = ~link
  /\ UNCHANGED <<machine, nx_link, flags, linkdown, ip, record, resets, fresh>>

(* The device is reset; the record stays in the FRAM. *)
Reset ==
  /\ resets < MaxResets
  /\ resets' = resets + 1
  /\ machine' = "link" /\ nx_link' = "starting"
  /\ flags' = {}
  /\ linkdown' = TRUE /\ ip' = FALSE /\ fresh' = FALSE
  /\ UNCHANGED <<record, link>>

Next ==
  \/ state_machine_thread_entry
  \/ nx_link_thread_entry
  \/ Lease \/ Expire \/ Cable \/ Reset

(* Both threads run when they are ready: nothing above them runs for ever. *)
(* A DHCP server answers in the end, if the client keeps asking.           *)
Spec ==
  /\ Init /\ [][Next]_vars
  /\ WF_vars(state_machine_thread_entry)
  /\ WF_vars(nx_link_thread_entry)
  /\ SF_vars(Lease)

----------------------------------------------------------------------------
(* The ranges of the variables; and ASSIGNED says whether there is an      *)
(* address, whichever of the two threads changed it last.                  *)
TypeOK ==
  /\ machine \in {"link", "network", "running"} \union Ready
  /\ nx_link \in {"starting", "checking", "resolving", "restarting", "saving"}
  /\ flags \subseteq {"LINK_UP", "ASSIGNED", "UPDATE"}
  /\ {linkdown, ip, record, link, fresh} \subseteq BOOLEAN
  /\ resets \in 0..MaxResets
  /\ "ASSIGNED" \in flags <=> ip

(* Whatever address is in use while the link is up was leased since it     *)
(* went up: an address restored from the FRAM, or kept over a change of    *)
(* networks, does not outlive the restart of DHCP.                         *)
AddressIsFresh ==
  ip /\ ~linkdown /\ nx_link \notin {"resolving", "restarting"} => fresh

(* The state machine is given its network at a moment when there is an     *)
(* address: an UPDATE that tells of a lost address does not start the      *)
(* threads that need one.                                                  *)
WokenOnAddress ==
  [][machine # "network ready" /\ machine' = "network ready" => ip']_vars

(* Once the link stays up the comms thread is started, though clearing     *)
(* UPDATE after the first wait may throw away the news of an address: the  *)
(* restart of DHCP brings it again.                                        *)
CommsStarts == <>[]link => <>[](machine = "running")
=============================================================================
