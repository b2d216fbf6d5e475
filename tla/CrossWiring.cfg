CONSTANTS
  Names = {"ips1", "snmp1"}
  Clients = {c1,c2}
  Rank <- MCRank
  Inside <- OwnText
  Guessable = {"ips1", "snmp1"}
  MaxId = 2
  Pids = {1,2}
  CustomIps <- NoIps
  Macs = {FALSE}
  Cmds = {}
  MaxSlot = 3
  Ops = {"start"}
  Faults = {}
  None = None
SPECIFICATION Spec
INVARIANT NoCrossWiring
