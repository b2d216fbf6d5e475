CONSTANTS
  Names = {"ips1", "snmp1"}
  Clients = {c1}
  Rank <- MCRank
  Inside <- OwnText
  Guessable = {"ips1", "snmp1"}
  MaxId = 1
  Pids = {1,2,3}
  CustomIps <- SharedNetIp
  Macs = {FALSE}
  Cmds = {"ping"}
  MaxSlot = 2
  Ops = {"start","stop","restore","exec"}
  Faults = {"wipe","keep","launch"}
  None = None
SPECIFICATION FairSpec
INVARIANT RunningIsConnected
INVARIANT NoStrayBridge
INVARIANT StoppedIsCutOff
PROPERTY RestoreIsTotal
PROPERTY InvocationsEnd
