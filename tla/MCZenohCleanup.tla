--------------------------- MODULE MCZenohCleanup ---------------------------
(* Instance of ZenohCleanup for TLC.  The timer thread and a thread of the *)
(* application, the two mutexes of tx_setup and the socket of DHCP come    *)
(* before any session; no semaphore does.                                  *)
EXTENDS ZenohCleanup, TLC
CONSTANTS timer, state_machine, sja1105_mutex, phy_mutex, dhcp_socket

Created ==
  [thread |-> <<timer, state_machine>>, mutex |-> <<sja1105_mutex, phy_mutex>>,
   semaphore |-> <<>>, udp |-> <<dhcp_socket>>]

(* Bounds on one session: with one semaphore, and with two.                *)
OneSemaphore == [thread |-> 2, mutex |-> 2, semaphore |-> 1, udp |-> 1]
TwoSemaphores == [OneSemaphore EXCEPT !.semaphore = 2]
Symmetry == Permutations(Pool)
=============================================================================
