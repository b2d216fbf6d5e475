CONSTANTS
  Names = {"ips1"}
  Clients = {c1}
  Rank <- MCRank
  Inside <- OwnText
  Guessable = {"ips1"}
  MaxId = 1
  Pids = {1,2}
  CustomIps <- NoIps
  Macs = {FALSE,TRUE}
  Cmds = {"ping","load"}
  MaxSlot = 2
  Ops = {"start","stop","restore","exec"}
  Faults = {"wipe","keep","launch","exit","kill","job","interrupt","helper","uplink"}
  None = None
SPECIFICATION Spec
INVARIANT TypeOK
INVARIANT DetachedArePersisted
INVARIANT ExecsListedOnce
