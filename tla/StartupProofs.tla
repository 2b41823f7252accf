---------------------------- MODULE StartupProofs ----------------------------
(***************************************************************************)
(* Proofs about Startup, for any number of resets.                         *)
(*                                                                         *)
(* AddressIsFresh is not inductive: the link thread may restore an old     *)
(* address as it starts, which is harmless only because it takes the link  *)
(* to be down until a check has found it up.                               *)
(***************************************************************************)
EXTENDS Startup, TLAPS

StartingIsDown == nx_link = "starting" => linkdown

IInv == TypeOK /\ AddressIsFresh /\ StartingIsDown

(* The link thread's own state, which the state machine leaves alone.       *)
nxState == <<nx_link, linkdown, fresh>>

----------------------------------------------------------------------------
(* What tx_event_flags_set(f) does, whoever calls it: the ranges are kept, *)
(* ASSIGNED is left as f has it, and a state machine that was not ready    *)
(* with a network is so only if f brings it the address.                   *)
LEMMA SetFlags ==
  ASSUME TypeOK, NEW f \in SUBSET {"LINK_UP", "ASSIGNED", "UPDATE"},
         tx_event_flags_set(f)
  PROVE  /\ machine' \in {"link", "network", "running"} \union Ready
         /\ flags' \subseteq {"LINK_UP", "ASSIGNED", "UPDATE"}
         /\ "ASSIGNED" \in flags' <=> "ASSIGNED" \in f
         /\ machine # "network ready" /\ machine' = "network ready" => "ASSIGNED" \in f
<1>1. machine' \in {machine, "link ready", "network ready"}
  BY DEF tx_event_flags_set
<1>2. machine' \in {"link", "network", "running"} \union Ready
  BY <1>1 DEF TypeOK, Ready
<1>3. flags' \in {f, f \ {"UPDATE"}}
  BY DEF tx_event_flags_set
<1>4. machine # "network ready" /\ machine' = "network ready" => "ASSIGNED" \in f
  BY DEF tx_event_flags_set
<1> QED BY <1>2, <1>3, <1>4

LEMMA AssignedSets ==
  ASSUME TypeOK, Assigned
  PROVE  /\ machine' \in {"link", "network", "running"} \union Ready
         /\ flags' \subseteq {"LINK_UP", "ASSIGNED", "UPDATE"}
         /\ "ASSIGNED" \in flags' /\ ip' = TRUE
<1> DEFINE f == flags \union {"ASSIGNED", "UPDATE"}
<1>1. f \in SUBSET {"LINK_UP", "ASSIGNED", "UPDATE"} /\ "ASSIGNED" \in f
  BY DEF TypeOK
<1>2. tx_event_flags_set(f) /\ ip' = TRUE
  BY DEF Assigned
<1> HIDE DEF f
<1> QED BY <1>1, <1>2, SetFlags

LEMMA UnassignedSets ==
  ASSUME TypeOK, Unassigned
  PROVE  /\ machine' \in {"link", "network", "running"} \union Ready
         /\ flags' \subseteq {"LINK_UP", "ASSIGNED", "UPDATE"}
         /\ "ASSIGNED" \notin flags' /\ ip' = FALSE
         /\ machine # "network ready" => machine' # "network ready"
<1> DEFINE f == (flags \ {"ASSIGNED"}) \union {"UPDATE"}
<1>1. f \in SUBSET {"LINK_UP", "ASSIGNED", "UPDATE"} /\ "ASSIGNED" \notin f
  BY DEF TypeOK
<1>2. tx_event_flags_set(f) /\ ip' = FALSE
  BY DEF Unassigned
<1> HIDE DEF f
<1> QED BY <1>1, <1>2, SetFlags

----------------------------------------------------------------------------
(* Each action keeps the invariant.  The conjuncts of an action that only  *)
(* moves one of the threads follow together.                               *)

LEMMA Step_state_machine ==
  ASSUME IInv, state_machine_thread_entry PROVE IInv'
<1>1. /\ machine' \in {"network", "running"}
      /\ flags' = flags \ {"UPDATE"}
      /\ UNCHANGED <<nxState, ip, record, link, resets>>
  BY DEF state_machine_thread_entry, LinkSeen, NetworkSeen, nxState
<1>2. TypeOK'
  BY <1>1 DEF IInv, TypeOK, nxState
<1>3. AddressIsFresh' /\ StartingIsDown'
  BY <1>1 DEF IInv, AddressIsFresh, StartingIsDown, nxState
<1> QED BY <1>2, <1>3 DEF IInv

LEMMA Step_Start ==
  ASSUME IInv, Start PROVE IInv'
<1>1. TypeOK'
  <2>1. CASE record
    BY <2>1, AssignedSets DEF IInv, TypeOK, Start
  <2>2. CASE ~record
    BY <2>2 DEF IInv, TypeOK, Start
  <2> QED BY <2>1, <2>2
<1>2. AddressIsFresh' /\ StartingIsDown'
  BY DEF IInv, AddressIsFresh, StartingIsDown, Start
<1> QED BY <1>1, <1>2 DEF IInv

LEMMA Step_CheckUp ==
  ASSUME IInv, CheckUp PROVE IInv'
<1> DEFINE f == flags \union {"LINK_UP", "UPDATE"}
<1>1. /\ f \in SUBSET {"LINK_UP", "ASSIGNED", "UPDATE"}
      /\ "ASSIGNED" \in f <=> "ASSIGNED" \in flags
  BY DEF IInv, TypeOK
<1>2. tx_event_flags_set(f)
  BY DEF CheckUp
<1> HIDE DEF f
<1>3. TypeOK'
  BY <1>1, <1>2, SetFlags DEF IInv, TypeOK, CheckUp
<1>4. AddressIsFresh' /\ StartingIsDown'
  BY DEF AddressIsFresh, StartingIsDown, CheckUp
<1> QED BY <1>3, <1>4 DEF IInv

LEMMA Step_Check ==
  ASSUME IInv, CheckDown \/ CheckSame PROVE IInv'
<1>1. TypeOK'
  <2>1. /\ nx_link' = "saving" /\ linkdown' \in {TRUE, linkdown}
        /\ UNCHANGED <<machine, flags, ip, record, link, resets, fresh>>
    BY DEF CheckDown, CheckSame
  <2> QED BY <2>1 DEF IInv, TypeOK
<1>2. AddressIsFresh' /\ StartingIsDown'
  BY DEF IInv, AddressIsFresh, StartingIsDown, CheckDown, CheckSame
<1> QED BY <1>1, <1>2 DEF IInv

LEMMA Step_Resolve ==
  ASSUME IInv, Resolved \/ NotResolved PROVE IInv'
<1>1. TypeOK'
  <2>1. /\ nx_link' \in {"restarting", "saving"} /\ linkdown' \in {FALSE, linkdown}
        /\ UNCHANGED <<machine, flags, ip, record, link, resets, fresh>>
    BY DEF Resolved, NotResolved
  <2> QED BY <2>1 DEF IInv, TypeOK
<1>2. AddressIsFresh' /\ StartingIsDown'
  BY DEF IInv, TypeOK, AddressIsFresh, StartingIsDown, Resolved, NotResolved
<1> QED BY <1>1, <1>2 DEF IInv

LEMMA Step_Restart ==
  ASSUME IInv, Restart PROVE IInv'
<1>1. TypeOK' /\ ip' = FALSE
  <2>1. CASE ip
    BY <2>1, UnassignedSets DEF IInv, TypeOK, Restart
  <2>2. CASE ~ip
    BY <2>2 DEF IInv, TypeOK, Restart
  <2> QED BY <2>1, <2>2
<1>2. AddressIsFresh' /\ StartingIsDown'
  BY <1>1 DEF AddressIsFresh, StartingIsDown, Restart
<1> QED BY <1>1, <1>2 DEF IInv

LEMMA Step_Save ==
  ASSUME IInv, Save PROVE IInv'
<1>1. TypeOK'
  BY DEF IInv, TypeOK, Save
<1>2. AddressIsFresh' /\ StartingIsDown'
  BY DEF IInv, AddressIsFresh, StartingIsDown, Save
<1> QED BY <1>1, <1>2 DEF IInv

LEMMA Step_Lease ==
  ASSUME IInv, Lease PROVE IInv'
<1>1. TypeOK'
  BY AssignedSets DEF IInv, TypeOK, Lease
<1>2. AddressIsFresh' /\ StartingIsDown'
  BY DEF IInv, AddressIsFresh, StartingIsDown, Lease
<1> QED BY <1>1, <1>2 DEF IInv

LEMMA Step_Expire ==
  ASSUME IInv, Expire PROVE IInv'
<1>1. TypeOK' /\ ip' = FALSE
  BY UnassignedSets DEF IInv, TypeOK, Expire
<1>2. AddressIsFresh' /\ StartingIsDown'
  BY <1>1 DEF IInv, AddressIsFresh, StartingIsDown, Expire
<1> QED BY <1>1, <1>2 DEF IInv

LEMMA Step_Cable ==
  ASSUME IInv, Cable PROVE IInv'
<1>1. TypeOK'
  BY DEF IInv, TypeOK, Cable
<1>2. AddressIsFresh' /\ StartingIsDown'
  BY DEF IInv, AddressIsFresh, StartingIsDown, Cable
<1> QED BY <1>1, <1>2 DEF IInv

LEMMA Step_Reset ==
  ASSUME IInv, Reset PROVE IInv'
<1>1. resets' \in 0..MaxResets
  BY StartupAssumption DEF IInv, TypeOK, Reset
<1>2. TypeOK'
  BY <1>1 DEF IInv, TypeOK, Reset
<1>3. AddressIsFresh' /\ StartingIsDown'
  BY DEF AddressIsFresh, StartingIsDown, Reset
<1> QED BY <1>2, <1>3 DEF IInv

LEMMA Inductive == Spec => []IInv
<1>1. Init => IInv
  <2> SUFFICES ASSUME Init PROVE IInv
    OBVIOUS
  <2>1. resets \in 0..MaxResets
    BY StartupAssumption DEF Init
  <2>2. TypeOK
    BY <2>1 DEF Init, TypeOK
  <2>3. AddressIsFresh /\ StartingIsDown
    BY DEF Init, AddressIsFresh, StartingIsDown
  <2> QED BY <2>2, <2>3 DEF IInv
<1>2. IInv /\ [Next]_vars => IInv'
  <2> SUFFICES ASSUME IInv, [Next]_vars PROVE IInv'
    OBVIOUS
  <2>1. CASE state_machine_thread_entry
    BY <2>1, Step_state_machine
  <2>2. CASE nx_link_thread_entry
    BY <2>2, Step_Start, Step_CheckUp, Step_Check, Step_Resolve, Step_Restart, Step_Save
       DEF nx_link_thread_entry
  <2>3. CASE Lease \/ Expire \/ Cable \/ Reset
    BY <2>3, Step_Lease, Step_Expire, Step_Cable, Step_Reset
  <2>4. CASE UNCHANGED vars
    BY <2>4 DEF vars, IInv, TypeOK, AddressIsFresh, StartingIsDown
  <2> QED BY <2>1, <2>2, <2>3, <2>4 DEF Next
<1> QED BY <1>1, <1>2, PTL DEF Spec

----------------------------------------------------------------------------
(* Every variable stays in its range, and ASSIGNED tells the state machine *)
(* the truth about the address (state_machine.c and nx_link_thread.c).     *)
THEOREM TypeCorrect == Spec => []TypeOK
<1>1. IInv => TypeOK
  BY DEF IInv
<1> QED BY <1>1, Inductive, PTL

(* While the link is up the address in use was leased since it went up:    *)
(* the restart of DHCP at every link up (nx_link_thread.c) drops whatever  *)
(* was restored or kept.                                                   *)
THEOREM FreshAddress == Spec => []AddressIsFresh
<1>1. IInv => AddressIsFresh
  BY DEF IInv
<1> QED BY <1>1, Inductive, PTL

(* The state machine (state_machine.c) leaves its second wait only at a    *)
(* moment when there is an address, however the events that woke it were   *)
(* raised and lowered before.                                              *)
THEOREM StartedOnAddress == Spec => WokenOnAddress
<1> DEFINE Woken == machine # "network ready" /\ machine' = "network ready"
<1>1. IInv /\ IInv' /\ [Next]_vars => [Woken => ip']_vars
  <2> SUFFICES ASSUME IInv, IInv', Next, Woken PROVE ip'
    BY DEF vars
  <2>1. CASE state_machine_thread_entry
    BY <2>1 DEF state_machine_thread_entry, LinkSeen, NetworkSeen
  <2>2. CASE Start
    BY <2>2, AssignedSets DEF Start, IInv
  <2>3. CASE CheckUp
    <3> DEFINE f == flags \union {"LINK_UP", "UPDATE"}
    <3>1. /\ f \in SUBSET {"LINK_UP", "ASSIGNED", "UPDATE"}
          /\ "ASSIGNED" \in f => "ASSIGNED" \in flags
          /\ tx_event_flags_set(f)
      BY <2>3 DEF IInv, TypeOK, CheckUp
    <3> HIDE DEF f
    <3>2. "ASSIGNED" \in flags
      BY <3>1, SetFlags DEF IInv
    <3> QED BY <2>3, <3>2 DEF IInv, TypeOK, CheckUp
  <2>4. CASE CheckDown \/ CheckSame \/ Resolved \/ NotResolved \/ Save \/ Cable \/ Reset
    BY <2>4 DEF CheckDown, CheckSame, Resolved, NotResolved, Save, Cable, Reset
  <2>5. CASE Restart
    BY <2>5, UnassignedSets DEF Restart, IInv
  <2>6. CASE Lease
    BY <2>6, AssignedSets DEF Lease, IInv
  <2>7. CASE Expire
    BY <2>7, UnassignedSets DEF Expire, IInv
  <2> QED BY <2>1, <2>2, <2>3, <2>4, <2>5, <2>6, <2>7 DEF Next, nx_link_thread_entry
<1> QED BY <1>1, Inductive, PTL DEF Spec, WokenOnAddress
=============================================================================
