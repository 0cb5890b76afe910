SPECIFICATION FairSpec
CONSTANTS
  Clashing = {2}
  Count = 3
  Saved = {0, 2}
  Addresses = {1, 2, 3}
  AttemptTime = 2
  ApDelay = 4
  ScanTime = 1
  MaxEvents = 1
INVARIANTS
  PortalHasScan
  ReadyMeansTunnel
PROPERTIES
  ScanOwnsRadio
  SetupOpens
  JoinsReachable
CHECK_DEADLOCK FALSE
