SPECIFICATION SpecReachable
CONSTANTS
  MaxRetries = 3
  MaxStreak = 7
INVARIANTS
  ClearedIsUnconnected
  NeverMuted
  LeasesRespected
PROPERTIES
  MissIsReal
  SilenceNoticed
  ReportHeeded
  Reconnects
\* Error_Handler stops the device.
CHECK_DEADLOCK FALSE
