CONSTANTS
  a1 = a1
  a2 = a2
  Agents = {a1,a2}
  Deployments <- Everywhere
  Modes = {"managed","standalone","forced"}
  MaxHash = 2
  Faults = {"crash","late","error"}
  HostFile = HostFile
  None = None
  Empty = Empty
  Refusal = Refusal
  Garbage = Garbage
  Standalone = Standalone
  Forced = Forced
SPECIFICATION FairSpec
INVARIANT TypeOK
INVARIANT IdentityPaired
INVARIANT ActiveIsApproved
INVARIANT ActiveIsSaved
PROPERTY KeepsPromise
PROPERTY ApprovedServes
CHECK_DEADLOCK FALSE
