CONSTANTS
  Names = {"ips1", "ips12"}
  Clients = {c1}
  Rank <- MCRank
  Inside <- Prefixed
  Guessable = {"ips1", "ips12"}
  MaxId = 3
  Pids = {1,2,3}
  CustomIps <- NoIps
  Macs = {FALSE}
  Cmds = {}
  MaxSlot = 3
  Ops = {"start","stop","restore"}
  Faults = {"launch","setup","exit","kill"}
  None = None
SPECIFICATION Spec
INVARIANT UniqueIp
INVARIANT IdsOwned
INVARIANT OneInstance
INVARIANT PidFileIsOwn
