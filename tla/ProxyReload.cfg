CONSTANTS
  Places = {"host", "sandbox"}
  MaxEdits = 3
  MaxOrphans = 1
  None = None
SPECIFICATION FairSpec
INVARIANT TypeOK
INVARIANT NoLostUpdate
INVARIANT TiniOutlivesChild
PROPERTY SignalReaches
PROPERTY HostReloadTakesEffect
CHECK_DEADLOCK FALSE
