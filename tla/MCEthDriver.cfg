SPECIFICATION FairSpec
CONSTANTS
  R = 3
  T = 2
  Packets = 3
INVARIANTS
  PacketsConserved
  EventHeard
  NothingForgotten
  RingInStep
PROPERTIES
  StarvedUntilRestart
  TransmittedReleased
CHECK_DEADLOCK FALSE
