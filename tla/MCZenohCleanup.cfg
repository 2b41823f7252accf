SPECIFICATION Spec
CONSTANTS
  Pool = {b1, b2, b3, b4}
  timer = timer
  state_machine = state_machine
  sja1105_mutex = sja1105_mutex
  phy_mutex = phy_mutex
  dhcp_socket = dhcp_socket
  System <- Created
  MaxOpen <- OneSemaphore
INVARIANTS
  WalkOnCreated
  SystemKept
  PoolEmptied
PROPERTY
  CleanupEnds
