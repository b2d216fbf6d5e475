--------------------------- MODULE SensorCtlProofs ---------------------------
(***************************************************************************)
(* Theorems about SensorCtl, for any names, clients, bounds and faults.    *)
(***************************************************************************)
EXTENDS SensorCtl, TLAPS

-----------------------------------------------------------------------------
(* Type correctness. *)

LEMMA NoLocalsType == NoLocals \in Locals
BY ConstantsAssumption DEF NoLocals, Locals, Slots

LEMMA BareType == Bare \in Records
BY DEF Bare, Records

LEMMA AutoIpType == \A id \in Ids : AutoIp(id) \in Ips
BY DEF Ips

\* A step of one client keeps all clients well typed if what it leaves in this
\* client's control state and shell variables is.
LEMMA ClientType ==
    ASSUME ClientsOK, NEW c \in Clients, NEW label \in Pcs, NEW v \in Locals,
           ClientOK(label, v),
           pc' = [pc EXCEPT ![c] = label], loc' = [loc EXCEPT ![c] = v]
    PROVE  ClientsOK'
<1>1. pc' \in [Clients -> Pcs] /\ loc' \in [Clients -> Locals]
  BY DEF ClientsOK
<1>2. ASSUME NEW d \in Clients PROVE ClientOK(pc'[d], loc'[d])
  <2>1. CASE d = c
    BY <2>1 DEF ClientsOK
  <2>2. CASE d # c
    BY <2>2 DEF ClientsOK
  <2>. QED  BY <2>1, <2>2
<1>. QED  BY <1>1, <1>2 DEF ClientsOK, ClientOK

LEMMA ClientSame ==
    ASSUME ClientsOK, UNCHANGED <<pc, loc>>
    PROVE  ClientsOK'
BY DEF ClientsOK, ClientOK

LEMMA GotoType ==
    ASSUME ClientsOK, NEW c \in Clients, NEW label \in Pcs, Goto(c, label),
           ClientOK(label, loc[c]), UNCHANGED loc
    PROVE  ClientsOK'
<1>1. loc[c] \in Locals /\ loc' = [loc EXCEPT ![c] = loc[c]]
  BY DEF ClientsOK
<1>. QED  BY <1>1, ClientType DEF Goto

LEMMA ExitType ==
    ASSUME ClientsOK, NEW c \in Clients, Exit(c)
    PROVE  ClientsOK'
<1>1. "idle" \in Pcs /\ ClientOK("idle", NoLocals)
  BY DEF Pcs, ClientOK, StartPcs, StopPcs, ExecPcs
<1>. QED  BY <1>1, NoLocalsType, ClientType DEF Exit, Goto

LEMMA ReturnType ==
    ASSUME ClientsOK, NEW c \in Clients, NEW label \in {"rlist", "rexec"},
           Return(c, label), loc[c].name \in Names
    PROVE  ClientsOK'
<1>1. CASE loc[c].restoring
  <2>1. label \in Pcs /\ ClientOK(label, loc[c])
    BY DEF Pcs, ClientOK, StartPcs, StopPcs, ExecPcs
  <2>. QED  BY <1>1, <2>1, GotoType DEF Return
<1>2. CASE ~loc[c].restoring
  BY <1>2, ExitType DEF Return
<1>. QED  BY <1>1, <1>2

\* Links that disappear with a network namespace leave the others as they were.
LEMMA DropLinksType ==
    ASSUME HostOK, NEW procNew, NEW jobsNew, DropLinks(procNew, jobsNew)
    PROVE  /\ veth' \in [Names -> Veths \cup {None}]
           /\ macvlan' \subseteq Pids \cup {None}
BY DEF HostOK, DropLinks

LEMMA PlugType ==
    ASSUME HostOK, NEW p \in Pids, NEW ip \in Ips, NEW links \in SUBSET (Pids \cup {None}),
           PlugPairs(p, ip), PlugMacvlan(p, links)
    PROVE  /\ veth' \in [Names -> Veths \cup {None}]
           /\ macvlan' \subseteq Pids \cup {None}
<1>1. ASSUME NEW m \in Names, Plugged(m, p)
      PROVE  [veth[m] EXCEPT !.peer = p, !.addr = ip] \in Veths
  BY <1>1 DEF Plugged, HostOK, Veths
<1>2. veth' \in [Names -> Veths \cup {None}]
  BY <1>1 DEF PlugPairs, HostOK
<1>. QED  BY <1>2 DEF PlugMacvlan

LEMMA UnsharedType ==
    ASSUME HostOK, NEW p \in Pids
    PROVE  Unshared(p) \in Procs \cup {None}
<1>1. CASE proc[p] = None \/ proc[p].stage = "setup"
  BY <1>1 DEF Unshared
<1>2. CASE ~(proc[p] = None \/ proc[p].stage = "setup")
  <2>1. proc[p] \in Procs
    BY <1>2 DEF HostOK
  <2>. QED  BY <1>2, <2>1 DEF Unshared, Procs
<1>. QED  BY <1>1, <1>2

LEMMA KillPidType ==
    ASSUME HostOK, NEW p \in Pids, KillPid(p), UNCHANGED <<jobs, bridges, uplink>>
    PROVE  HostOK'
<1>1. proc' \in [Pids -> Procs \cup {None}]
  BY UnsharedType DEF KillPid, HostOK
<1>2. veth' \in [Names -> Veths \cup {None}] /\ macvlan' \subseteq Pids \cup {None}
  BY DropLinksType DEF KillPid
<1>. QED  BY <1>1, <1>2 DEF KillPid, HostOK

LEMMA TypeInit == Init => TypeOK
<1>. SUFFICES ASSUME Init PROVE TypeOK
  OBVIOUS
<1>1. ClientsOK
  BY NoLocalsType DEF Init, ClientsOK, ClientOK, Pcs, StartPcs, StopPcs, ExecPcs
<1>2. FilesOK /\ HostOK
  BY DEF Init, FilesOK, HostOK
<1>. QED  BY <1>1, <1>2 DEF TypeOK

LEMMA FilesSame == ASSUME FilesOK, UNCHANGED files PROVE FilesOK'
BY DEF FilesOK, files

LEMMA HostSame == ASSUME HostOK, UNCHANGED <<procs, net>> PROVE HostOK'
BY DEF HostOK, procs, net

-----------------------------------------------------------------------------
(* One lemma per group of actions. *)

LEMMA StartStepType ==
    ASSUME TypeOK, NEW c \in Clients, Start(c) \/ StartStep(c)
    PROVE  TypeOK'
<1>. USE DEF TypeOK
<1>. DEFINE l == loc[c]
<1>0. l \in Locals /\ ClientOK(pc[c], l)
  BY DEF ClientsOK
<1>1. CASE Start(c)
  <2>1. PICK n \in Names, ip \in CustomIps \cup {None}, mac \in Macs, cmd \in BOOLEAN :
          loc' = [loc EXCEPT ![c] = [NoLocals EXCEPT !.name = n, !.ip = ip,
                                                     !.mac = mac, !.cmd = cmd]]
    BY <1>1 DEF Start
  <2>. DEFINE v == [NoLocals EXCEPT !.name = n, !.ip = ip, !.mac = mac, !.cmd = cmd]
  <2>2. mac \in BOOLEAN /\ ip \in Ips \cup {None}
    BY ConstantsAssumption DEF Ips
  <2>3. v \in Locals
    BY <2>2, NoLocalsType DEF NoLocals, Locals
  <2>4. "check" \in Pcs /\ ClientOK("check", v)
    BY DEF NoLocals, ClientOK, Pcs, StartPcs, StopPcs, ExecPcs
  <2>5. ClientsOK'
    BY <1>1, <2>1, <2>3, <2>4, ClientType DEF Start, Goto
  <2>. QED  BY <1>1, <2>5, FilesSame, HostSame DEF Start
<1>2. CASE CheckStart(c)
  <2>1. CASE Exit(c) /\ UNCHANGED files
    BY <1>2, <2>1, ExitType, FilesSame, HostSame DEF CheckStart
  <2>2. CASE ~(Exit(c) /\ UNCHANGED files)
    <3>. DEFINE label == IF l.ip = None THEN "pickid" ELSE "launch"
                v == [l EXCEPT !.cmd = FALSE]
    <3>1. v \in Locals /\ v.name = l.name /\ v.ip = l.ip
      BY <1>0 DEF Locals
    <3>2. label \in Pcs /\ ClientOK(label, v)
      BY <1>0, <1>2, <3>1 DEF CheckStart, ClientOK, Pcs, StartPcs, StopPcs, ExecPcs, Locals
    <3>3. ClientsOK'
      BY <1>2, <2>2, <3>1, <3>2, ClientType DEF CheckStart, Goto
    <3>4. FilesOK'
      BY <1>2, <2>2 DEF CheckStart, FilesOK
    <3>. QED  BY <1>2, <3>3, <3>4, HostSame DEF CheckStart
  <2>. QED  BY <2>1, <2>2
<1>3. CASE PickId(c)
  <2>1. PICK id \in FreeIds : loc' = [loc EXCEPT ![c].id = id, ![c].ip = AutoIp(id)]
    BY <1>3 DEF PickId
  <2>. DEFINE v == [l EXCEPT !.id = id, !.ip = AutoIp(id)]
  <2>2. id \in Ids /\ AutoIp(id) \in Ips
    BY AutoIpType DEF FreeIds
  <2>3. v \in Locals /\ v.name = l.name /\ v.ip \in Ips /\ v.id \in Ids
    BY <1>0, <2>2 DEF Locals
  <2>4. "claimid" \in Pcs /\ ClientOK("claimid", v)
    BY <1>0, <1>3, <2>3 DEF PickId, ClientOK, Pcs, StartPcs, StopPcs, ExecPcs
  <2>5. loc' = [loc EXCEPT ![c] = v]
    BY <2>1
  <2>6. ClientsOK'
    BY <1>3, <2>3, <2>4, <2>5, ClientType DEF PickId, Goto
  <2>. QED  BY <1>3, <2>6, FilesSame, HostSame DEF PickId
<1>4. CASE NoIdLeft(c)
  BY <1>4, ExitType, FilesSame, HostSame DEF NoIdLeft
<1>5. CASE ClaimId(c)
  <2>1. "launch" \in Pcs /\ ClientOK("launch", l)
    BY <1>0, <1>5 DEF ClaimId, ClientOK, Pcs, StartPcs, StopPcs, ExecPcs
  <2>2. ClientsOK'
    BY <1>5, <2>1, GotoType DEF ClaimId
  <2>3. FilesOK'
    BY <1>0, <1>5 DEF ClaimId, FilesOK, ClientOK, StartPcs
  <2>. QED  BY <1>5, <2>2, <2>3, HostSame DEF ClaimId
<1>6. CASE Launch(c)
  <2>1. PICK p \in Pids, q \in Pids :
          /\ proc' = [proc EXCEPT ![p] = [name |-> l.name, stage |-> "setup"]]
          /\ loc' = [loc EXCEPT ![c].pid = q]
    BY <1>6 DEF Launch
  <2>. DEFINE v == [l EXCEPT !.pid = q]
  <2>2. v \in Locals /\ v.name = l.name /\ v.ip = l.ip /\ v.pid \in Pids
    BY <1>0 DEF Locals
  <2>3. "record" \in Pcs /\ ClientOK("record", v)
    BY <1>0, <1>6, <2>2 DEF Launch, ClientOK, Pcs, StartPcs, StopPcs, ExecPcs
  <2>4. loc' = [loc EXCEPT ![c] = v]
    BY <2>1
  <2>5. ClientsOK'
    BY <1>6, <2>2, <2>3, <2>4, ClientType DEF Launch, Goto
  <2>6. l.name \in Names
    BY <1>0, <1>6 DEF Launch, ClientOK, StartPcs
  <2>7. HostOK'
    BY <1>6, <2>1, <2>6 DEF Launch, HostOK, Procs, net
  <2>. QED  BY <1>6, <2>5, <2>7, FilesSame DEF Launch
<1>7. CASE LaunchFails(c)
  <2>1. FilesOK'
    BY <1>7 DEF LaunchFails, FilesOK
  <2>. QED  BY <1>7, <2>1, ExitType, HostSame DEF LaunchFails
<1>8. CASE RecordStart(c)
  <2>1. "persist" \in Pcs /\ ClientOK("persist", l)
    BY <1>0, <1>8 DEF RecordStart, ClientOK, Pcs, StartPcs, StopPcs, ExecPcs
  <2>2. ClientsOK'
    BY <1>8, <2>1, GotoType DEF RecordStart
  <2>3. FilesOK'
    BY <1>0, <1>8 DEF RecordStart, FilesOK, ClientOK, StartPcs
  <2>. QED  BY <1>8, <2>2, <2>3, HostSame DEF RecordStart
<1>9. CASE PersistStart(c)
  <2>1. "bridge" \in Pcs /\ ClientOK("bridge", l)
    BY <1>0, <1>9 DEF PersistStart, ClientOK, Pcs, StartPcs, StopPcs, ExecPcs
  <2>2. ClientsOK'
    BY <1>9, <2>1, GotoType DEF PersistStart
  <2>3. l.name \in Names /\ l.ip \in Ips /\ l.mac \in BOOLEAN
    BY <1>0, <1>9 DEF PersistStart, ClientOK, StartPcs, Locals
  <2>4. (IF pers[l.name] = None THEN None ELSE pers[l.name].execs) \in ExecTables \cup {None}
    BY <2>3 DEF FilesOK, Records
  <2>5. pers' \in [Names -> Records \cup {None}]
    BY <1>9, <2>3, <2>4 DEF PersistStart, FilesOK, Records
  <2>. QED  BY <1>9, <2>2, <2>5, HostSame DEF PersistStart, FilesOK
<1>10. CASE SetupMacvlan(c)
  <2>1. l.name \in Names /\ l.ip \in Ips /\ l.pid \in Pids
    BY <1>0, <1>10 DEF SetupMacvlan, ClientOK, StartPcs
  <2>2. ClientsOK'
    BY <1>10, <2>1, ReturnType DEF SetupMacvlan
  <2>3. (IF HasNsLink(None) THEN macvlan ELSE macvlan \cup {None}) \in SUBSET (Pids \cup {None})
    BY DEF HostOK
  <2>4. veth' \in [Names -> Veths \cup {None}] /\ macvlan' \subseteq Pids \cup {None}
    BY <1>10, <2>1, <2>3, PlugType DEF SetupMacvlan
  <2>. QED  BY <1>10, <2>2, <2>4, FilesSame DEF SetupMacvlan, HostOK, procs
<1>14. CASE MacvlanRefused(c)
  BY <1>14, ExitType, FilesSame, HostSame DEF MacvlanRefused
<1>11. CASE SetupBridge(c)
  <2>1. "veth" \in Pcs /\ ClientOK("veth", l)
    BY <1>0, <1>11 DEF SetupBridge, ClientOK, Pcs, StartPcs, StopPcs, ExecPcs
  <2>2. ClientsOK'
    BY <1>11, <2>1, GotoType DEF SetupBridge
  <2>3. l.ip.net \in Nets
    BY <1>0, <1>11 DEF SetupBridge, ClientOK, StartPcs, Nets
  <2>. QED  BY <1>11, <2>2, <2>3, FilesSame DEF SetupBridge, HostOK, procs
<1>12. CASE AddVeth(c)
  <2>1. "plug" \in Pcs /\ ClientOK("plug", l)
    BY <1>0, <1>12 DEF AddVeth, ClientOK, Pcs, StartPcs, StopPcs, ExecPcs
  <2>2. ClientsOK'
    BY <1>12, <2>1, GotoType DEF AddVeth
  <2>3. l.ip.net \in Nets /\ l.name \in Names
    BY <1>0, <1>12 DEF AddVeth, ClientOK, StartPcs, Nets
  <2>. DEFINE added == IF veth[l.name] = None /\ ~HasNsLink(None)
                       THEN [peer |-> None, br |-> None, addr |-> None]
                       ELSE veth[l.name]
  <2>4. added \in Veths \cup {None}
    BY <2>3 DEF HostOK, Veths
  <2>5. added # None => [added EXCEPT !.br = l.ip.net] \in Veths
    BY <2>3, <2>4 DEF Veths
  <2>6. veth' \in [Names -> Veths \cup {None}]
    BY <1>12, <2>4, <2>5 DEF AddVeth, HostOK
  <2>. QED  BY <1>12, <2>2, <2>6, FilesSame DEF AddVeth, HostOK, procs
<1>13. CASE PlugVeth(c)
  <2>1. l.name \in Names /\ l.ip \in Ips /\ l.pid \in Pids
    BY <1>0, <1>13 DEF PlugVeth, ClientOK, StartPcs
  <2>2. ClientsOK'
    BY <1>13, <2>1, ReturnType DEF PlugVeth
  <2>3. macvlan \in SUBSET (Pids \cup {None})
    BY DEF HostOK
  <2>4. veth' \in [Names -> Veths \cup {None}] /\ macvlan' \subseteq Pids \cup {None}
    BY <1>13, <2>1, <2>3, PlugType DEF PlugVeth
  <2>. QED  BY <1>13, <2>2, <2>4, FilesSame DEF PlugVeth, HostOK, procs
<1>. QED
  BY <1>1, <1>2, <1>3, <1>4, <1>5, <1>6, <1>7, <1>8, <1>9, <1>10, <1>11, <1>12, <1>13,
     <1>14 DEF StartStep

LEMMA StopStepType ==
    ASSUME TypeOK, NEW c \in Clients, Stop(c) \/ StopStep(c)
    PROVE  TypeOK'
<1>. USE DEF TypeOK
<1>. DEFINE l == loc[c]
<1>0. l \in Locals /\ ClientOK(pc[c], l)
  BY DEF ClientsOK
<1>1. CASE Stop(c)
  <2>1. PICK n \in Names :
          /\ pidFile[n] # None
          /\ loc' = [loc EXCEPT ![c] = [NoLocals EXCEPT !.name = n, !.pid = pidFile[n],
                                                        !.ids = GrepIds(n)]]
    BY <1>1 DEF Stop
  <2>. DEFINE v == [NoLocals EXCEPT !.name = n, !.pid = pidFile[n], !.ids = GrepIds(n)]
  <2>2. pidFile[n] \in Pids /\ GrepIds(n) \in SUBSET Ids
    BY <2>1 DEF FilesOK, GrepIds
  <2>3. v \in Locals
    BY <2>2, NoLocalsType DEF NoLocals, Locals
  <2>4. v.name = n /\ v.pid = pidFile[n]
    BY DEF NoLocals
  <2>5. "kill" \in Pcs /\ ClientOK("kill", v)
    BY <2>2, <2>4 DEF ClientOK, Pcs, StartPcs, StopPcs, ExecPcs
  <2>6. ClientsOK'
    BY <1>1, <2>1, <2>3, <2>5, ClientType DEF Stop, Goto
  <2>. QED  BY <1>1, <2>6, FilesSame, HostSame DEF Stop
<1>2. CASE KillSandbox(c)
  <2>1. "unplug" \in Pcs /\ ClientOK("unplug", l) /\ l.pid \in Pids
    BY <1>0, <1>2 DEF KillSandbox, ClientOK, Pcs, StartPcs, StopPcs, ExecPcs
  <2>2. ClientsOK'
    BY <1>2, <2>1, GotoType DEF KillSandbox
  <2>3. HostOK'
    BY <1>2, <2>1, KillPidType DEF KillSandbox
  <2>. QED  BY <1>2, <2>2, <2>3, FilesSame DEF KillSandbox
<1>3. CASE DelVeth(c)
  <2>. DEFINE v == [l EXCEPT !.ip = ipFile[l.name]]
  <2>1. l.name \in Names
    BY <1>0, <1>3 DEF DelVeth, ClientOK, StopPcs
  <2>2. v \in Locals /\ v.name = l.name
    BY <1>0, <2>1 DEF FilesOK, Locals
  <2>3. "count" \in Pcs /\ ClientOK("count", v)
    BY <2>1, <2>2 DEF ClientOK, Pcs, StartPcs, StopPcs, ExecPcs
  <2>4. loc' = [loc EXCEPT ![c] = v]
    BY <1>3 DEF DelVeth
  <2>5. ClientsOK'
    BY <1>3, <2>2, <2>3, <2>4, ClientType DEF DelVeth, Goto
  <2>6. HostOK'
    BY <1>3 DEF DelVeth, HostOK, procs
  <2>. QED  BY <1>3, <2>5, <2>6, FilesSame DEF DelVeth
<1>4. CASE CountPorts(c)
  <2>. DEFINE label == IF l.ip # None /\ l.ip.net \in bridges /\ Ports(l.ip.net) = {}
                       THEN "delbridge" ELSE "clean"
  <2>1. label \in Pcs /\ ClientOK(label, l)
    BY <1>0, <1>4 DEF CountPorts, ClientOK, Pcs, StartPcs, StopPcs, ExecPcs, Locals
  <2>2. ClientsOK'
    BY <1>4, <2>1, GotoType DEF CountPorts
  <2>. QED  BY <1>4, <2>2, FilesSame, HostSame DEF CountPorts
<1>5. CASE DelBridge(c)
  <2>1. "clean" \in Pcs /\ ClientOK("clean", l)
    BY <1>0, <1>5 DEF DelBridge, ClientOK, Pcs, StartPcs, StopPcs, ExecPcs
  <2>2. ClientsOK'
    BY <1>5, <2>1, GotoType DEF DelBridge
  <2>3. ASSUME NEW n \in Names, n \in Ports(l.ip.net)
        PROVE  [veth[n] EXCEPT !.br = None] \in Veths
    BY <2>3 DEF Ports, HostOK, Veths
  <2>4. veth' \in [Names -> Veths \cup {None}]
    BY <1>5, <2>3 DEF DelBridge, HostOK
  <2>. QED  BY <1>5, <2>2, <2>4, FilesSame DEF DelBridge, HostOK, procs
<1>6. CASE CleanState(c)
  <2>1. "forget" \in Pcs /\ ClientOK("forget", l)
    BY <1>0, <1>6 DEF CleanState, ClientOK, Pcs, StartPcs, StopPcs, ExecPcs
  <2>2. ClientsOK'
    BY <1>6, <2>1, GotoType DEF CleanState
  <2>3. FilesOK'
    BY <1>6 DEF CleanState, FilesOK
  <2>. QED  BY <1>6, <2>2, <2>3, HostSame DEF CleanState
<1>7. CASE ForgetSandbox(c)
  <2>1. FilesOK'
    BY <1>7 DEF ForgetSandbox, FilesOK
  <2>. QED  BY <1>7, <2>1, ExitType, HostSame DEF ForgetSandbox
<1>. QED  BY <1>1, <1>2, <1>3, <1>4, <1>5, <1>6, <1>7 DEF StopStep

LEMMA ExecStepType ==
    ASSUME TypeOK, NEW c \in Clients, Exec(c) \/ ExecStep(c)
    PROVE  TypeOK'
<1>. USE DEF TypeOK
<1>. DEFINE l == loc[c]
<1>0. l \in Locals /\ ClientOK(pc[c], l)
  BY DEF ClientsOK
<1>1. CASE Exec(c)
  <2>1. PICK n \in Names, x \in Cmds :
          loc' = [loc EXCEPT ![c] = [NoLocals EXCEPT !.name = n, !.job = x]]
    BY <1>1 DEF Exec
  <2>. DEFINE v == [NoLocals EXCEPT !.name = n, !.job = x]
  <2>2. v \in Locals /\ v.name = n /\ v.job = x
    BY NoLocalsType DEF NoLocals, Locals
  <2>3. "xcheck" \in Pcs /\ ClientOK("xcheck", v)
    BY <2>2 DEF ClientOK, Pcs, StartPcs, StopPcs, ExecPcs
  <2>4. ClientsOK'
    BY <1>1, <2>1, <2>2, <2>3, ClientType DEF Exec, Goto
  <2>. QED  BY <1>1, <2>4, FilesSame, HostSame DEF Exec
<1>2. CASE CheckExec(c)
  <2>1. CASE Alive(pidFile[l.name])
    <3>. DEFINE v == [l EXCEPT !.pid = pidFile[l.name]]
    <3>1. l.name \in Names /\ l.job \in Cmds
      BY <1>0, <1>2 DEF CheckExec, ClientOK, ExecPcs
    <3>2. pidFile[l.name] \in Pids
      BY <2>1, <3>1 DEF Alive, FilesOK
    <3>3. v \in Locals /\ v.name = l.name /\ v.job = l.job /\ v.pid \in Pids
      BY <1>0, <3>2 DEF Locals
    <3>4. "xdir" \in Pcs /\ ClientOK("xdir", v)
      BY <3>1, <3>3 DEF ClientOK, Pcs, StartPcs, StopPcs, ExecPcs
    <3>5. loc' = [loc EXCEPT ![c] = v] /\ Goto(c, "xdir")
      BY <1>2, <2>1 DEF CheckExec
    <3>6. ClientsOK'
      BY <3>3, <3>4, <3>5, ClientType DEF Goto
    <3>. QED  BY <1>2, <3>6, FilesSame, HostSame DEF CheckExec
  <2>2. CASE ~Alive(pidFile[l.name])
    BY <1>2, <2>2, ExitType, FilesSame, HostSame DEF CheckExec
  <2>. QED  BY <2>1, <2>2
<1>3. CASE ExecDir(c)
  <2>. DEFINE n == l.name
              table == Table(n)
  <2>1. n \in Names /\ l.job \in Cmds /\ l.pid \in Pids
    BY <1>0, <1>3 DEF ExecDir, ClientOK, ExecPcs
  <2>2. ClientsOK'
    <3>1. PICK label \in {"xrun", "xcount"} : Goto(c, label) /\ UNCHANGED loc
      BY <1>3 DEF ExecDir
    <3>2. label \in Pcs /\ ClientOK(label, l)
      BY <2>1, <3>1 DEF ClientOK, Pcs, StartPcs, StopPcs, ExecPcs
    <3>. QED  BY <3>1, <3>2, GotoType
  <2>3. table \in ExecTables
    <3>1. CASE pers[n] = None \/ pers[n].execs = None
      <4>1. [s \in {} |-> None] \in [{} -> Cmds]
        OBVIOUS
      <4>. QED  BY <3>1, <4>1 DEF ExecTables, Table
    <3>2. CASE ~(pers[n] = None \/ pers[n].execs = None)
      BY <2>1, <3>2 DEF FilesOK, Records, Table
    <3>. QED  BY <3>1, <3>2
  <2>4. (IF pers[n] = None THEN Bare ELSE pers[n]) \in Records
    BY <2>1, BareType DEF FilesOK
  <2>5. [(IF pers[n] = None THEN Bare ELSE pers[n]) EXCEPT !.execs = table] \in Records
    BY <2>3, <2>4 DEF Records
  <2>6. pers' \in [Names -> Records \cup {None}]
    BY <1>3, <2>5 DEF ExecDir, MakeExecs, FilesOK
  <2>. QED  BY <1>3, <2>2, <2>6, HostSame DEF ExecDir, FilesOK
<1>6. CASE ExecCount(c)
  <2>. DEFINE count == Cardinality(DOMAIN Table(l.name))
              v == [l EXCEPT !.slot = count]
  <2>1. l.name \in Names /\ l.job \in Cmds /\ l.pid \in Pids /\ count \in Slots
    BY <1>0, <1>6 DEF ExecCount, ClientOK, ExecPcs
  <2>2. v \in Locals /\ v.name = l.name /\ v.job = l.job /\ v.pid = l.pid
    BY <1>0, <2>1 DEF Locals
  <2>3. "xwrite" \in Pcs /\ ClientOK("xwrite", v)
    BY <2>1, <2>2 DEF ClientOK, Pcs, StartPcs, StopPcs, ExecPcs
  <2>4. loc' = [loc EXCEPT ![c] = v] /\ Goto(c, "xwrite")
    BY <1>6 DEF ExecCount
  <2>. HIDE DEF v
  <2>5. ClientsOK'
    BY <2>2, <2>3, <2>4, ClientType DEF Goto
  <2>. QED  BY <1>6, <2>5, FilesSame, HostSame DEF ExecCount
<1>4. CASE ExecWrite(c)
  <2>. DEFINE n == l.name
              old == pers[n].execs
              table == [s \in DOMAIN old \cup {l.slot} |-> IF s = l.slot THEN l.job ELSE old[s]]
  <2>1. n \in Names /\ l.job \in Cmds /\ l.pid \in Pids /\ l.slot \in Slots
    BY <1>0, <1>4 DEF ExecWrite, ClientOK, ExecPcs, Locals
  <2>2. "xrun" \in Pcs /\ ClientOK("xrun", l)
    BY <2>1 DEF ClientOK, Pcs, StartPcs, StopPcs, ExecPcs
  <2>3. ClientsOK'
    BY <1>4, <2>2, GotoType DEF ExecWrite
  <2>4. pers' \in [Names -> Records \cup {None}]
    <3>1. CASE pers[n] = None \/ pers[n].execs = None
      BY <1>4, <3>1 DEF ExecWrite, FilesOK
    <3>2. CASE ~(pers[n] = None \/ pers[n].execs = None)
      <4>1. pers[n] \in Records /\ old \in ExecTables
        BY <2>1, <3>2 DEF FilesOK, Records
      <4>2. PICK S \in SUBSET Slots : old \in [S -> Cmds]
        BY <4>1 DEF ExecTables
      <4>3. table \in [S \cup {l.slot} -> Cmds] /\ S \cup {l.slot} \in SUBSET Slots
        BY <2>1, <4>2
      <4>4. table \in ExecTables
        BY <4>3 DEF ExecTables
      <4>5. [pers[n] EXCEPT !.execs = table] \in Records
        BY <4>1, <4>4 DEF Records
      <4>6. pers' = [pers EXCEPT ![n] = [pers[n] EXCEPT !.execs = table]]
        BY <1>4, <3>2 DEF ExecWrite
      <4>. QED  BY <4>5, <4>6 DEF FilesOK
    <3>. QED  BY <3>1, <3>2
  <2>. QED  BY <1>4, <2>3, <2>4, HostSame DEF ExecWrite, FilesOK
<1>5. CASE ExecRun(c)
  <2>1. l.name \in Names /\ l.job \in Cmds /\ l.pid \in Pids
    BY <1>0, <1>5 DEF ExecRun, ClientOK, ExecPcs
  <2>2. ClientsOK'
    BY <1>5, <2>1, ReturnType DEF ExecRun
  <2>. QED  BY <1>5, <2>1, <2>2, FilesSame DEF ExecRun, HostOK, net
<1>. QED  BY <1>1, <1>2, <1>3, <1>4, <1>5, <1>6 DEF ExecStep

LEMMA RestoreStepType ==
    ASSUME TypeOK, NEW c \in Clients, Restore(c) \/ RestoreStep(c)
    PROVE  TypeOK'
<1>. USE DEF TypeOK
<1>. DEFINE l == loc[c]
<1>0. l \in Locals /\ ClientOK(pc[c], l)
  BY DEF ClientsOK
<1>1. CASE Restore(c)
  <2>. DEFINE v == [NoLocals EXCEPT !.restoring = TRUE,
                                    !.todo = {n \in Names : pers[n] # None}]
  <2>1. v \in Locals
    BY NoLocalsType DEF NoLocals, Locals
  <2>2. "rnext" \in Pcs /\ ClientOK("rnext", v)
    BY DEF ClientOK, Pcs, StartPcs, StopPcs, ExecPcs
  <2>3. ClientsOK'
    BY <1>1, <2>1, <2>2, ClientType DEF Restore, Goto
  <2>. QED  BY <1>1, <2>3, FilesSame, HostSame DEF Restore
<1>2. CASE RestoreNext(c)
  <2>1. PICK n \in l.todo :
          IF pers[n] = None \/ Alive(pidFile[n])
          THEN loc' = [loc EXCEPT ![c].todo = @ \ {n}] /\ UNCHANGED pc
          ELSE /\ loc' = [loc EXCEPT ![c] =
                    [NoLocals EXCEPT !.name = n, !.ip = pers[n].ip,
                       !.mac = pers[n].mac, !.cmd = pers[n].cmd,
                       !.restoring = TRUE, !.todo = l.todo \ {n}]]
               /\ Goto(c, "check")
    BY <1>2 DEF RestoreNext
  <2>2. n \in Names /\ l.todo \in SUBSET Names
    BY <1>0 DEF Locals
  <2>3. ClientsOK'
    <3>1. CASE pers[n] = None \/ Alive(pidFile[n])
      <4>. DEFINE v == [l EXCEPT !.todo = l.todo \ {n}]
      <4>1. v \in Locals
        BY <1>0, <2>2 DEF Locals
      <4>2. "rnext" \in Pcs /\ ClientOK("rnext", v)
        BY DEF ClientOK, Pcs, StartPcs, StopPcs, ExecPcs
      <4>3. loc' = [loc EXCEPT ![c] = v]
        BY <2>1, <3>1
      <4>4. pc' = [pc EXCEPT ![c] = "rnext"]
        BY <1>2, <2>1, <3>1 DEF RestoreNext, ClientsOK
      <4>. QED  BY <4>1, <4>2, <4>3, <4>4, ClientType
    <3>2. CASE ~(pers[n] = None \/ Alive(pidFile[n]))
      <4>. DEFINE v == [NoLocals EXCEPT !.name = n, !.ip = pers[n].ip,
                          !.mac = pers[n].mac, !.cmd = pers[n].cmd,
                          !.restoring = TRUE, !.todo = l.todo \ {n}]
      <4>1. pers[n] \in Records
        BY <2>2, <3>2 DEF FilesOK
      <4>2. v \in Locals /\ v.name = n
        BY <2>2, <4>1, NoLocalsType DEF NoLocals, Locals, Records
      <4>3. "check" \in Pcs /\ ClientOK("check", v)
        BY <2>2, <4>2 DEF ClientOK, Pcs, StartPcs, StopPcs, ExecPcs
      <4>. QED  BY <2>1, <3>2, <4>2, <4>3, ClientType DEF Goto
    <3>. QED  BY <3>1, <3>2
  <2>. QED  BY <1>2, <2>3, FilesSame, HostSame DEF RestoreNext
<1>3. CASE RestoreEnds(c)
  BY <1>3, ExitType, FilesSame, HostSame DEF RestoreEnds
<1>5. CASE RestoreList(c)
  <2>. DEFINE v == [l EXCEPT !.left = ExecFiles(l.name)]
  <2>1. l.name \in Names
    BY <1>0, <1>5 DEF RestoreList, ClientOK
  <2>2. ExecFiles(l.name) \in SUBSET Slots
    <3>1. CASE pers[l.name] = None \/ pers[l.name].execs = None
      BY <3>1 DEF ExecFiles, Table
    <3>2. CASE ~(pers[l.name] = None \/ pers[l.name].execs = None)
      <4>1. pers[l.name].execs \in ExecTables
        BY <2>1, <3>2 DEF FilesOK, Records
      <4>. QED  BY <3>2, <4>1 DEF ExecFiles, ExecTables, Table
    <3>. QED  BY <3>1, <3>2
  <2>3. v \in Locals /\ v.name = l.name
    BY <1>0, <2>2 DEF Locals
  <2>4. "rexec" \in Pcs /\ ClientOK("rexec", v)
    BY <2>1, <2>3 DEF ClientOK, Pcs, StartPcs, StopPcs, ExecPcs
  <2>5. ClientsOK'
    BY <1>5, <2>3, <2>4, ClientType DEF RestoreList, Goto
  <2>. QED  BY <1>5, <2>5, FilesSame, HostSame DEF RestoreList
<1>4. CASE RestoreExec(c)
  <2>. DEFINE n == l.name
              present == l.left \cap ExecFiles(n)
  <2>1. n \in Names
    BY <1>0, <1>4 DEF RestoreExec, ClientOK
  <2>2. CASE Goto(c, "rnext") /\ loc' = [loc EXCEPT ![c] =
               [NoLocals EXCEPT !.restoring = TRUE, !.todo = l.todo]]
    <3>. DEFINE v == [NoLocals EXCEPT !.restoring = TRUE, !.todo = l.todo]
    <3>1. v \in Locals
      BY <1>0, NoLocalsType DEF NoLocals, Locals
    <3>2. "rnext" \in Pcs /\ ClientOK("rnext", v)
      BY DEF ClientOK, Pcs, StartPcs, StopPcs, ExecPcs
    <3>3. ClientsOK'
      BY <2>2, <3>1, <3>2, ClientType DEF Goto
    <3>. QED  BY <1>4, <3>3, FilesSame, HostSame DEF RestoreExec
  <2>3. ASSUME NEW s \in present, Goto(c, "xcheck"),
               loc' = [loc EXCEPT ![c].left = {t \in l.left : s < t}, ![c].job = pers[n].execs[s]]
        PROVE  TypeOK'
    <3>. DEFINE v == [l EXCEPT !.left = {t \in l.left : s < t}, !.job = pers[n].execs[s]]
    <3>1. pers[n] \in Records /\ pers[n].execs \in ExecTables /\ s \in DOMAIN pers[n].execs
      BY <2>1, <2>3 DEF FilesOK, Records, ExecFiles, Table
    <3>2. pers[n].execs[s] \in Cmds
      BY <3>1 DEF ExecTables
    <3>3. v \in Locals /\ v.name = n /\ v.job \in Cmds
      BY <1>0, <3>2 DEF Locals
    <3>4. "xcheck" \in Pcs /\ ClientOK("xcheck", v)
      BY <2>1, <3>3 DEF ClientOK, Pcs, StartPcs, StopPcs, ExecPcs
    <3>5. loc' = [loc EXCEPT ![c] = v]
      BY <2>3
    <3>6. ClientsOK'
      BY <2>3, <3>3, <3>4, <3>5, ClientType DEF Goto
    <3>. QED  BY <1>4, <3>6, FilesSame, HostSame DEF RestoreExec
  <2>. QED  BY <1>4, <2>2, <2>3 DEF RestoreExec
<1>. QED  BY <1>1, <1>2, <1>3, <1>4, <1>5 DEF RestoreStep

LEMMA EnvironmentType ==
    ASSUME TypeOK,
           \/ \E c \in Clients : Interrupt(c)
           \/ \E p \in Pids : AgentUp(p) \/ SensorExits(p)
           \/ \E n \in Names : ChaosKill(n)
           \/ JobExits \/ Reboot \/ UplinkChanges
    PROVE  TypeOK'
<1>. USE DEF TypeOK
<1>1. ASSUME NEW c \in Clients, Interrupt(c) PROVE TypeOK'
  BY <1>1, ExitType, FilesSame, HostSame DEF Interrupt
<1>2. ASSUME NEW p \in Pids, AgentUp(p) PROVE TypeOK'
  <2>1. proc[p] \in Procs
    BY <1>2 DEF AgentUp, HostOK
  <2>2. [proc[p] EXCEPT !.stage = "up"] \in Procs
    BY <2>1 DEF Procs
  <2>3. HostOK'
    BY <1>2, <2>2 DEF AgentUp, HostOK, net
  <2>4. FilesOK'
    BY <1>2, BareType DEF AgentUp, FilesOK
  <2>. QED  BY <1>2, <2>3, <2>4, ClientSame DEF AgentUp
<1>3. ASSUME NEW p \in Pids, SensorExits(p) PROVE TypeOK'
  <2>1. HostOK'
    BY <1>3, DropLinksType DEF SensorExits, HostOK
  <2>. QED  BY <1>3, <2>1, FilesSame, ClientSame DEF SensorExits
<1>4. ASSUME NEW n \in Names, ChaosKill(n) PROVE TypeOK'
  <2>1. pidFile[n] \in Pids
    BY <1>4 DEF ChaosKill, Alive, FilesOK
  <2>. QED  BY <1>4, <2>1, KillPidType, FilesSame, ClientSame DEF ChaosKill
<1>5. CASE JobExits
  <2>1. HostOK'
    BY <1>5, DropLinksType DEF JobExits, HostOK
  <2>. QED  BY <1>5, <2>1, FilesSame, ClientSame DEF JobExits
<1>6. CASE Reboot
  <2>1. "idle" \in Pcs /\ ClientOK("idle", NoLocals)
    BY DEF Pcs, ClientOK, StartPcs, StopPcs, ExecPcs
  <2>2. ClientsOK'
    BY <1>6, <2>1, NoLocalsType DEF Reboot, ClientsOK, ClientOK
  <2>3. alien' \subseteq Pids
    BY <1>6 DEF Reboot
  <2>4. HostOK'
    BY <1>6, <2>3 DEF Reboot, HostOK
  <2>5. FilesOK'
    BY <1>6 DEF Reboot, FilesOK
  <2>. QED  BY <2>2, <2>4, <2>5
<1>7. CASE UplinkChanges
  <2>1. HostOK'
    BY <1>7 DEF UplinkChanges, HostOK, procs
  <2>. QED  BY <1>7, <2>1, FilesSame, ClientSame DEF UplinkChanges
<1>. QED  BY <1>1, <1>2, <1>3, <1>4, <1>5, <1>6, <1>7

LEMMA TypeNext == TypeOK /\ [Next]_vars => TypeOK'
<1>. SUFFICES ASSUME TypeOK, [Next]_vars PROVE TypeOK'
  OBVIOUS
<1>1. CASE UNCHANGED vars
  BY <1>1, FilesSame, HostSame, ClientSame DEF vars, TypeOK
<1>2. CASE Next
  BY <1>2, StartStepType, StopStepType, ExecStepType, RestoreStepType, EnvironmentType
     DEF Next, ClientStep
<1>. QED  BY <1>1, <1>2

\* No step of any invocation, and no fault, leaves a file, the host or a shell
\* variable with a value it is not meant to have: whatever runs concurrently,
\* start never records an unset pid or address and stop never kills an unset pid.
THEOREM TypeCorrect == Spec => []TypeOK
BY TypeInit, TypeNext, PTL DEF Spec

-----------------------------------------------------------------------------
(* Addresses are unique while one invocation runs at a time, no name occurs  *)
(* in another one, operators leave the addresses to the script, and neither  *)
(* a reboot nor an interrupt cuts an invocation short.                       *)

SequentialUse ==
    /\ \A c, d \in Clients : c = d
    /\ CustomIps = {}
    /\ Faults \cap {"interrupt", "keep", "wipe"} = {}

LEMMA AutoIpInjective == \A i, j \in Ids : AutoIp(i) = AutoIp(j) => i = j
BY DEF AutoIp

LEMMA AutoIpIsSet == \A id \in Ids : AutoIp(id) # None
BY AutoIpType, NoneAssumption

LEMMA OwnsNone == \A n : Owns(n, None)
BY AutoIpIsSet DEF Owns

\* With one client, its state decides about all.
LEMMA OwnedByOne ==
    ASSUME SequentialUse, NEW c \in Clients, FilesOwned', ClientOwns(pc[c], loc[c])'
    PROVE  IdsOwned'
BY DEF SequentialUse, IdsOwned

LEMMA NotForgetting ==
    ASSUME SequentialUse, NEW c \in Clients, pc[c] # "forget"
    PROVE  \A n \in Names : ~Forgetting(n)
BY DEF SequentialUse, Forgetting

\* Steps that leave the files alone.
LEMMA FilesOwnedSame ==
    ASSUME SequentialUse, NEW c \in Clients, FilesOwned, pc[c] # "forget", UNCHANGED files
    PROVE  FilesOwned'
BY NotForgetting DEF FilesOwned, Owns, files

LEMMA IdleOwns ==
    ASSUME TypeOK, NEW c \in Clients, Exit(c)
    PROVE  ClientOwns(pc[c], loc[c])'
<1>1. pc'[c] = "idle"
  BY DEF Exit, Goto, TypeOK, ClientsOK
<1>. QED  BY <1>1 DEF ClientOwns, StartPcs, StopPcs

LEMMA StartStepOwned ==
    ASSUME SequentialUse, TypeOK, IdsOwned, NEW c \in Clients, Start(c) \/ StartStep(c)
    PROVE  IdsOwned'
<1>. USE DEF TypeOK, ClientsOK, Goto
<1>. DEFINE l == loc[c]
<1>0. /\ FilesOwned /\ ClientOwns(pc[c], l)
      /\ l \in Locals /\ ClientOK(pc[c], l)
  BY DEF IdsOwned
<1>1. CASE Start(c)
  <2>1. loc'[c].ip = None /\ loc'[c].id = None /\ pc'[c] = "check"
    BY <1>1 DEF Start, SequentialUse, NoLocals
  <2>2. ClientOwns(pc[c], loc[c])'
    BY <2>1, OwnsNone DEF ClientOwns, Owns, StartPcs, StopPcs
  <2>. QED  BY <1>0, <1>1, <2>2, FilesOwnedSame, OwnedByOne DEF Start
<1>2. CASE CheckStart(c)
  <2>1. CASE Exit(c) /\ UNCHANGED files
    BY <1>0, <1>2, <2>1, IdleOwns, FilesOwnedSame, OwnedByOne DEF CheckStart
  <2>2. CASE ~(Exit(c) /\ UNCHANGED files)
    <3>1. /\ l.name \in Names /\ l.id = None /\ Owns(l.name, l.ip)
          /\ \A n \in Names : ~Forgetting(n)
      BY <1>0, <1>2, NotForgetting DEF CheckStart, ClientOK, ClientOwns, StartPcs
    <3>2. /\ pidFile' = [pidFile EXCEPT ![l.name] = None]
          /\ ipFile' = IF pidFile[l.name] = None THEN ipFile
                       ELSE [ipFile EXCEPT ![l.name] = None]
          /\ UNCHANGED <<idFile, pers>>
          /\ loc' = [loc EXCEPT ![c].cmd = FALSE]
          /\ pc'[c] = IF l.ip = None THEN "pickid" ELSE "launch"
      BY <1>2, <2>2 DEF CheckStart
    <3>3. FilesOwned'
      <4>1. ASSUME NEW n \in Names, NEW ip, Owns(n, ip) PROVE Owns(n, ip)'
        BY <3>2, <4>1 DEF Owns
      <4>2. ASSUME NEW n \in Names
            PROVE  /\ ipFile'[n] = ipFile[n] \/ ipFile'[n] = None
                   /\ pidFile'[n] = None <=> ipFile'[n] = None
        BY <1>0, <3>1, <3>2 DEF FilesOwned, FilesOK
      <4>3. ASSUME NEW n \in Names PROVE Owns(n, ipFile[n])'
        <5>2. CASE ipFile'[n] = ipFile[n]
          BY <1>0, <3>2, <5>2 DEF FilesOwned, Owns
        <5>3. CASE ipFile'[n] = None
          BY <5>3, AutoIpIsSet DEF Owns
        <5>. QED  BY <4>2, <5>2, <5>3
      <4>. QED  BY <1>0, <3>1, <3>2, <4>2, <4>3 DEF FilesOwned, Owns
    <3>4. loc'[c].name = l.name /\ loc'[c].ip = l.ip /\ loc'[c].id = None
      BY <1>0, <3>1, <3>2 DEF Locals
    <3>5. ClientOwns(pc[c], loc[c])'
      BY <3>1, <3>2, <3>4 DEF ClientOwns, Owns, StartPcs, StopPcs
    <3>. QED  BY <3>3, <3>5, OwnedByOne
  <2>. QED  BY <2>1, <2>2
<1>3. CASE PickId(c)
  <2>1. PICK id \in FreeIds : loc' = [loc EXCEPT ![c].id = id, ![c].ip = AutoIp(id)]
    BY <1>3 DEF PickId
  <2>2. loc'[c].id = id /\ loc'[c].ip = AutoIp(id) /\ pc'[c] = "claimid"
    BY <1>0, <1>3, <2>1 DEF PickId, Locals
  <2>3. idFile'[id] = None
    BY <1>3 DEF PickId, FreeIds, files
  <2>4. ClientOwns(pc[c], loc[c])'
    BY <2>2, <2>3 DEF ClientOwns, StartPcs, StopPcs
  <2>. QED  BY <1>0, <1>3, <2>4, FilesOwnedSame, OwnedByOne DEF PickId
<1>4. CASE NoIdLeft(c)
  BY <1>0, <1>4, IdleOwns, FilesOwnedSame, OwnedByOne DEF NoIdLeft
<1>5. CASE ClaimId(c)
  <2>1. /\ l.name \in Names /\ l.id \in Ids /\ l.ip = AutoIp(l.id) /\ idFile[l.id] = None
        /\ \A n \in Names : ~Forgetting(n)
    BY <1>0, <1>5, NotForgetting DEF ClaimId, ClientOK, ClientOwns, StartPcs
  <2>2. /\ idFile' = [idFile EXCEPT ![l.id] = l.name] /\ pc'[c] = "launch"
        /\ UNCHANGED <<pidFile, ipFile, pers, loc>>
    BY <1>5 DEF ClaimId
  <2>3. ASSUME NEW n \in Names, NEW ip, Owns(n, ip)
        PROVE  ip # AutoIp(l.id) /\ Owns(n, ip)'
    <3>1. ip # AutoIp(l.id)
      BY <2>1, <2>3, NoneAssumption DEF Owns
    <3>. QED  BY <2>2, <2>3, <3>1 DEF Owns, FilesOK
  <2>4. FilesOwned'
    <3>1. ASSUME NEW n \in Names
          PROVE  Owns(n, ipFile[n])' /\ (pers[n] # None => Owns(n, pers[n].ip)')
      <4>1. Owns(n, ipFile[n]) /\ (pers[n] # None => Owns(n, pers[n].ip))
        BY <1>0, <2>1 DEF FilesOwned
      <4>2. Owns(n, ipFile[n])'
        BY <2>2, <2>3, <4>1 DEF Owns
      <4>3. CASE pers[n] # None
        BY <2>2, <2>3, <4>1, <4>2, <4>3 DEF Owns
      <4>. QED  BY <4>2, <4>3
    <3>. QED  BY <1>0, <2>2, <3>1 DEF FilesOwned
  <2>5. Unreferenced(l.id)'
    BY <1>0, <2>1, <2>2, <2>3 DEF FilesOwned, Unreferenced
  <2>6. Owns(l.name, l.ip)'
    BY <2>1, <2>2, AutoIpInjective DEF Owns, FilesOK
  <2>7. ClientOwns(pc[c], loc[c])'
    BY <2>2, <2>5, <2>6 DEF ClientOwns, Owns, Unreferenced, StartPcs, StopPcs
  <2>. QED  BY <2>4, <2>7, OwnedByOne
<1>6. CASE Launch(c)
  <2>1. PICK q \in Pids : loc' = [loc EXCEPT ![c].pid = q]
    BY <1>6 DEF Launch
  <2>2. loc'[c].name = l.name /\ loc'[c].ip = l.ip /\ pc'[c] = "record"
    BY <1>0, <1>6, <2>1 DEF Launch, Locals
  <2>3. Owns(l.name, l.ip)
    BY <1>0, <1>6 DEF Launch, ClientOwns, StartPcs
  <2>4. ClientOwns(pc[c], loc[c])'
    BY <1>6, <2>2, <2>3 DEF Launch, ClientOwns, Owns, StartPcs, StopPcs, files
  <2>. QED  BY <1>0, <1>6, <2>4, FilesOwnedSame, OwnedByOne DEF Launch
<1>7. CASE LaunchFails(c)
  <2>1. UNCHANGED <<pidFile, ipFile, pers>> /\ \A n \in Names : ~Forgetting(n)
    BY <1>7, NotForgetting DEF LaunchFails
  <2>2. FilesOwned'
    <3>1. CASE l.id = None
      BY <1>0, <1>7, <2>1, <3>1 DEF LaunchFails, FilesOwned, Owns
    <3>2. CASE l.id # None
      <4>1. Unreferenced(l.id) /\ idFile' = [idFile EXCEPT ![l.id] = None]
        BY <1>0, <1>7, <3>2 DEF LaunchFails, ClientOwns
      <4>2. ASSUME NEW n \in Names, NEW ip, Owns(n, ip), ip # AutoIp(l.id)
            PROVE  Owns(n, ip)'
        BY <4>1, <4>2 DEF Owns, FilesOK
      <4>3. ASSUME NEW n \in Names
            PROVE  Owns(n, ipFile[n])' /\ (pers[n] # None => Owns(n, pers[n].ip)')
        <5>1. Owns(n, ipFile[n]) /\ (pers[n] # None => Owns(n, pers[n].ip))
          BY <1>0, <2>1 DEF FilesOwned
        <5>2. Owns(n, ipFile[n])'
          BY <2>1, <4>1, <4>2, <5>1 DEF Owns, Unreferenced
        <5>3. CASE pers[n] # None
          BY <2>1, <4>1, <4>2, <5>1, <5>2, <5>3 DEF Owns, Unreferenced
        <5>. QED  BY <5>2, <5>3
      <4>. QED  BY <1>0, <2>1, <4>3 DEF FilesOwned
    <3>. QED  BY <3>1, <3>2
  <2>. QED  BY <1>7, <2>2, IdleOwns, OwnedByOne DEF LaunchFails
<1>8. CASE RecordStart(c)
  <2>1. /\ l.name \in Names /\ l.pid \in Pids /\ l.ip \in Ips /\ Owns(l.name, l.ip)
        /\ \A n \in Names : ~Forgetting(n)
    BY <1>0, <1>8, NotForgetting DEF RecordStart, ClientOK, ClientOwns, StartPcs
  <2>2. /\ pidFile' = [pidFile EXCEPT ![l.name] = l.pid]
        /\ ipFile' = [ipFile EXCEPT ![l.name] = l.ip]
        /\ pc'[c] = "persist" /\ UNCHANGED <<idFile, pers, loc>>
    BY <1>8 DEF RecordStart
  <2>3. FilesOwned'
    BY <1>0, <2>1, <2>2, NoneAssumption DEF FilesOwned, Owns, FilesOK
  <2>4. ClientOwns(pc[c], loc[c])'
    BY <2>1, <2>2 DEF ClientOwns, Owns, StartPcs, StopPcs
  <2>. QED  BY <2>3, <2>4, OwnedByOne
<1>9. CASE PersistStart(c)
  <2>1. /\ l.name \in Names /\ Owns(l.name, l.ip)
        /\ \A n \in Names : ~Forgetting(n)
    BY <1>0, <1>9, NotForgetting DEF PersistStart, ClientOK, ClientOwns, StartPcs
  <2>2. /\ \A n \in Names : n # l.name => pers'[n] = pers[n]
        /\ pers'[l.name].ip = l.ip
        /\ pc'[c] = "bridge" /\ UNCHANGED <<pidFile, ipFile, idFile, loc>>
    BY <1>9, <2>1 DEF PersistStart, FilesOK
  <2>3. FilesOwned'
    BY <1>0, <2>1, <2>2 DEF FilesOwned, Owns
  <2>4. ClientOwns(pc[c], loc[c])'
    BY <2>1, <2>2 DEF ClientOwns, Owns, StartPcs, StopPcs
  <2>. QED  BY <2>3, <2>4, OwnedByOne
<1>10. CASE SetupMacvlan(c)
  <2>1. ClientOwns(pc[c], loc[c])'
    <3>1. pc'[c] \in {"idle", "rlist"}
      BY <1>10 DEF SetupMacvlan, Return, Exit
    <3>. QED  BY <3>1 DEF ClientOwns, StartPcs, StopPcs
  <2>. QED  BY <1>0, <1>10, <2>1, FilesOwnedSame, OwnedByOne DEF SetupMacvlan
<1>14. CASE MacvlanRefused(c)
  BY <1>0, <1>14, IdleOwns, FilesOwnedSame, OwnedByOne DEF MacvlanRefused
<1>11. CASE SetupBridge(c)
  <2>1. ClientOwns(pc[c], loc[c])'
    BY <1>0, <1>11 DEF SetupBridge, ClientOwns, Owns, StartPcs, StopPcs, files
  <2>. QED  BY <1>0, <1>11, <2>1, FilesOwnedSame, OwnedByOne DEF SetupBridge
<1>12. CASE AddVeth(c)
  <2>1. ClientOwns(pc[c], loc[c])'
    BY <1>0, <1>12 DEF AddVeth, ClientOwns, Owns, StartPcs, StopPcs, files
  <2>. QED  BY <1>0, <1>12, <2>1, FilesOwnedSame, OwnedByOne DEF AddVeth
<1>13. CASE PlugVeth(c)
  <2>1. ClientOwns(pc[c], loc[c])'
    <3>1. pc'[c] \in {"idle", "rlist"}
      BY <1>13 DEF PlugVeth, Return, Exit
    <3>. QED  BY <3>1 DEF ClientOwns, StartPcs, StopPcs
  <2>. QED  BY <1>0, <1>13, <2>1, FilesOwnedSame, OwnedByOne DEF PlugVeth
<1>. QED
  BY <1>1, <1>2, <1>3, <1>4, <1>5, <1>6, <1>7, <1>8, <1>9, <1>10, <1>11, <1>12, <1>13,
     <1>14 DEF StartStep

LEMMA StopStepOwned ==
    ASSUME SequentialUse, TypeOK, IdsOwned, NEW c \in Clients, Stop(c) \/ StopStep(c)
    PROVE  IdsOwned'
<1>. USE DEF TypeOK, ClientsOK, Goto
<1>. DEFINE l == loc[c]
<1>0. /\ FilesOwned /\ ClientOwns(pc[c], l)
      /\ l \in Locals /\ ClientOK(pc[c], l)
  BY DEF IdsOwned
<1>1. CASE Stop(c)
  <2>1. PICK n \in Names :
          /\ pidFile[n] # None
          /\ loc' = [loc EXCEPT ![c] = [NoLocals EXCEPT !.name = n, !.pid = pidFile[n],
                                                        !.ids = GrepIds(n)]]
    BY <1>1 DEF Stop
  <2>2. loc'[c].name = n /\ loc'[c].ids = GrepIds(n) /\ pc'[c] = "kill"
    BY <1>1, <2>1 DEF Stop, NoLocals
  <2>3. \A id \in Ids : GrepIds(n) = {id} => idFile[id] = n
    \* The sensor has an address and its own id file is among the ones found.
    <3>1. ipFile[n] \in Ips /\ Owns(n, ipFile[n])
      BY <1>0, <2>1 DEF FilesOwned, FilesOK
    <3>2. PICK i \in Ids : ipFile[n] = AutoIp(i)
      BY <3>1 DEF Ips, SequentialUse
    <3>3. idFile[i] = n /\ n # None
      BY <3>1, <3>2, NoneAssumption DEF Owns
    <3>4. i \in GrepIds(n)
      BY <3>3, ConstantsAssumption DEF GrepIds
    <3>. QED  BY <3>3, <3>4
  <2>4. ClientOwns(pc[c], loc[c])'
    BY <1>1, <2>2, <2>3 DEF Stop, ClientOwns, StartPcs, StopPcs, GrepIds, files
  <2>. QED  BY <1>0, <1>1, <2>4, FilesOwnedSame, OwnedByOne DEF Stop
<1>2. CASE KillSandbox(c)
  <2>1. ClientOwns(pc[c], loc[c])'
    BY <1>0, <1>2 DEF KillSandbox, ClientOwns, StartPcs, StopPcs, files
  <2>. QED  BY <1>0, <1>2, <2>1, FilesOwnedSame, OwnedByOne DEF KillSandbox
<1>3. CASE DelVeth(c)
  <2>1. loc'[c].name = l.name /\ loc'[c].ids = l.ids /\ pc'[c] = "count"
    BY <1>0, <1>3 DEF DelVeth, Locals
  <2>2. ClientOwns(pc[c], loc[c])'
    BY <1>0, <1>3, <2>1 DEF DelVeth, ClientOwns, StartPcs, StopPcs, files
  <2>. QED  BY <1>0, <1>3, <2>2, FilesOwnedSame, OwnedByOne DEF DelVeth
<1>4. CASE CountPorts(c)
  <2>1. pc[c] = "count" /\ pc'[c] \in {"delbridge", "clean"} /\ loc' = loc /\ idFile' = idFile
    BY <1>4 DEF CountPorts, files
  <2>2. ClientOwns(pc[c], loc[c])'
    BY <1>0, <2>1 DEF ClientOwns, StartPcs, StopPcs
  <2>. QED  BY <1>0, <1>4, <2>2, FilesOwnedSame, OwnedByOne DEF CountPorts
<1>5. CASE DelBridge(c)
  <2>1. ClientOwns(pc[c], loc[c])'
    BY <1>0, <1>5 DEF DelBridge, ClientOwns, StartPcs, StopPcs, files
  <2>. QED  BY <1>0, <1>5, <2>1, FilesOwnedSame, OwnedByOne DEF DelBridge
<1>6. CASE CleanState(c)
  <2>1. /\ l.name \in Names /\ \A id \in Ids : l.ids = {id} => idFile[id] = l.name
        /\ \A n \in Names : ~Forgetting(n)
    BY <1>0, <1>6, NotForgetting DEF CleanState, ClientOK, ClientOwns, StopPcs
  <2>2. /\ pidFile' = [pidFile EXCEPT ![l.name] = None]
        /\ ipFile' = [ipFile EXCEPT ![l.name] = None]
        /\ idFile' = [id \in Ids |-> IF l.ids = {id} THEN None ELSE idFile[id]]
        /\ pc'[c] = "forget" /\ UNCHANGED <<pers, loc>>
    BY <1>6 DEF CleanState
  <2>4. ASSUME NEW n \in Names, n # l.name, NEW ip, Owns(n, ip) PROVE Owns(n, ip)'
    BY <2>1, <2>2, <2>4 DEF Owns
  <2>5. ASSUME NEW n \in Names
        PROVE  /\ pidFile'[n] = None <=> ipFile'[n] = None
               /\ Owns(n, ipFile[n])'
               /\ pers'[n] # None /\ ~Forgetting(n)' => Owns(n, pers[n].ip)'
    <3>1. CASE n = l.name
      <4>1. ipFile'[n] = None /\ pidFile'[n] = None
        BY <2>1, <2>2, <3>1 DEF FilesOK
      <4>2. Owns(n, ipFile[n])'
        BY <4>1, AutoIpIsSet DEF Owns
      <4>3. Forgetting(n)'
        BY <2>2, <3>1 DEF Forgetting
      <4>. QED  BY <4>1, <4>2, <4>3
    <3>2. CASE n # l.name
      <4>1. ipFile'[n] = ipFile[n] /\ pidFile'[n] = pidFile[n] /\ pers'[n] = pers[n]
        BY <2>1, <2>2, <3>2 DEF FilesOK
      <4>2. /\ pidFile[n] = None <=> ipFile[n] = None
            /\ Owns(n, ipFile[n])
            /\ pers[n] # None => Owns(n, pers[n].ip)
        BY <1>0, <2>1 DEF FilesOwned
      <4>3. Owns(n, ipFile[n])'
        BY <2>2, <2>4, <3>2, <4>1, <4>2 DEF Owns
      <4>4. CASE pers[n] # None
        <5>1. Owns(n, pers[n].ip)'
          BY <2>2, <2>4, <3>2, <4>2, <4>4 DEF Owns
        <5>. QED  BY <4>1, <4>2, <4>3, <5>1
      <4>. QED  BY <4>1, <4>2, <4>3, <4>4
    <3>. QED  BY <3>1, <3>2
  <2>6. FilesOwned'
    BY <2>5 DEF FilesOwned
  <2>7. ClientOwns(pc[c], loc[c])'
    BY <2>2 DEF ClientOwns, StartPcs, StopPcs
  <2>. QED  BY <2>6, <2>7, OwnedByOne
<1>7. CASE ForgetSandbox(c)
  <2>1. /\ pers' = [pers EXCEPT ![l.name] = None]
        /\ UNCHANGED <<pidFile, ipFile, idFile>>
    BY <1>7 DEF ForgetSandbox
  <2>2. \A n \in Names : n # l.name => ~Forgetting(n)
    BY DEF SequentialUse, Forgetting
  <2>3. FilesOwned'
    BY <1>0, <2>1, <2>2 DEF FilesOwned, Owns, FilesOK
  <2>. QED  BY <1>7, <2>3, IdleOwns, OwnedByOne DEF ForgetSandbox
<1>. QED  BY <1>1, <1>2, <1>3, <1>4, <1>5, <1>6, <1>7 DEF StopStep

LEMMA ExecStepOwned ==
    ASSUME SequentialUse, TypeOK, IdsOwned, NEW c \in Clients, Exec(c) \/ ExecStep(c)
    PROVE  IdsOwned'
<1>. USE DEF TypeOK, ClientsOK, Goto
<1>. DEFINE l == loc[c]
<1>0. FilesOwned /\ ClientOK(pc[c], l)
  BY DEF IdsOwned
<1>1. ASSUME pc'[c] \in ExecPcs \cup {"idle", "rexec"} PROVE ClientOwns(pc[c], loc[c])'
  BY <1>1 DEF ClientOwns, StartPcs, StopPcs, ExecPcs
<1>2. CASE Exec(c)
  <2>1. pc'[c] \in ExecPcs
    BY <1>2 DEF Exec, ExecPcs
  <2>. QED  BY <1>0, <1>1, <1>2, <2>1, FilesOwnedSame, OwnedByOne DEF Exec
<1>3. CASE CheckExec(c)
  <2>1. pc'[c] \in ExecPcs \cup {"idle"}
    BY <1>3 DEF CheckExec, Exit, ExecPcs
  <2>. QED  BY <1>0, <1>1, <1>3, <2>1, FilesOwnedSame, OwnedByOne DEF CheckExec
<1>4. CASE ExecDir(c)
  <2>1. /\ l.name \in Names /\ pc'[c] \in ExecPcs
        /\ UNCHANGED <<pidFile, ipFile, idFile>>
        /\ \A n \in Names : ~Forgetting(n)
    BY <1>0, <1>4, NotForgetting DEF ExecDir, ExecPcs, ClientOK
  <2>2. /\ \A n \in Names : n # l.name => pers'[n] = pers[n]
        /\ pers'[l.name].ip = IF pers[l.name] = None THEN None ELSE pers[l.name].ip
    <3>1. PICK table : pers' = [pers EXCEPT ![l.name] =
             [(IF pers[l.name] = None THEN Bare ELSE pers[l.name]) EXCEPT !.execs = table]]
      BY <1>4 DEF ExecDir, MakeExecs
    <3>2. pers'[l.name] =
             [(IF pers[l.name] = None THEN Bare ELSE pers[l.name]) EXCEPT !.execs = table]
      BY <2>1, <3>1 DEF FilesOK
    <3>3. (pers[l.name] # None => pers[l.name] \in Records)
      BY <2>1 DEF FilesOK
    <3>4. CASE pers[l.name] = None
      BY <2>1, <3>1, <3>2, <3>4 DEF FilesOK, Bare
    <3>5. CASE pers[l.name] # None
      BY <2>1, <3>1, <3>2, <3>3, <3>5 DEF FilesOK, Records
    <3>. QED  BY <3>4, <3>5
  <2>3. FilesOwned'
    <3>1. ASSUME NEW n \in Names
          PROVE  Owns(n, ipFile[n])' /\ (pers'[n] # None => Owns(n, pers[n].ip)')
      <4>1. Owns(n, ipFile[n]) /\ (pers[n] # None => Owns(n, pers[n].ip))
        BY <1>0, <2>1 DEF FilesOwned
      <4>2. CASE n = l.name
        BY <2>1, <2>2, <4>1, <4>2, AutoIpIsSet DEF Owns
      <4>3. CASE n # l.name
        BY <2>1, <2>2, <4>1, <4>3 DEF Owns
      <4>. QED  BY <4>2, <4>3
    <3>. QED  BY <1>0, <2>1, <3>1 DEF FilesOwned
  <2>. QED  BY <1>1, <2>1, <2>3, OwnedByOne
<1>5. CASE ExecWrite(c)
  <2>1. /\ l.name \in Names /\ pc'[c] \in ExecPcs
        /\ UNCHANGED <<pidFile, ipFile, idFile>>
        /\ \A n \in Names : ~Forgetting(n)
    BY <1>0, <1>5, NotForgetting DEF ExecWrite, ExecPcs, ClientOK
  <2>2. PICK table : pers' = IF pers[l.name] = None \/ pers[l.name].execs = None THEN pers
                             ELSE [pers EXCEPT ![l.name].execs = table]
    BY <1>5 DEF ExecWrite
  <2>3. \A n \in Names : /\ pers'[n] # None => pers[n] # None
                         /\ pers[n] # None => pers'[n].ip = pers[n].ip
    <3>1. CASE pers[l.name] = None \/ pers[l.name].execs = None
      BY <2>2, <3>1
    <3>2. CASE ~(pers[l.name] = None \/ pers[l.name].execs = None)
      BY <2>1, <2>2, <3>2 DEF FilesOK, Records
    <3>. QED  BY <3>1, <3>2
  <2>4. FilesOwned'
    BY <1>0, <2>1, <2>3 DEF FilesOwned, Owns
  <2>. QED  BY <1>1, <2>1, <2>4, OwnedByOne
<1>6. CASE ExecRun(c)
  <2>1. pc'[c] \in {"idle", "rexec"}
    BY <1>6 DEF ExecRun, Return, Exit
  <2>. QED  BY <1>0, <1>1, <1>6, <2>1, FilesOwnedSame, OwnedByOne DEF ExecRun
<1>7. CASE ExecCount(c)
  <2>1. pc'[c] \in ExecPcs
    BY <1>7 DEF ExecCount, ExecPcs
  <2>. QED  BY <1>0, <1>1, <1>7, <2>1, FilesOwnedSame, OwnedByOne DEF ExecCount
<1>. QED  BY <1>2, <1>3, <1>4, <1>5, <1>6, <1>7 DEF ExecStep

LEMMA RestoreStepOwned ==
    ASSUME SequentialUse, TypeOK, IdsOwned, NEW c \in Clients, Restore(c) \/ RestoreStep(c)
    PROVE  IdsOwned'
<1>. USE DEF TypeOK, ClientsOK, Goto
<1>. DEFINE l == loc[c]
<1>0. FilesOwned /\ UNCHANGED files /\ pc[c] \in {"idle", "rnext", "rlist", "rexec"}
  <2>1. CASE Restore(c)
    BY <2>1 DEF Restore, IdsOwned
  <2>2. CASE RestoreNext(c)
    BY <2>2 DEF RestoreNext, IdsOwned
  <2>3. CASE RestoreEnds(c)
    BY <2>3 DEF RestoreEnds, IdsOwned
  <2>4. CASE RestoreExec(c)
    BY <2>4 DEF RestoreExec, IdsOwned
  <2>5. CASE RestoreList(c)
    BY <2>5 DEF RestoreList, IdsOwned
  <2>. QED  BY <2>1, <2>2, <2>3, <2>4, <2>5 DEF RestoreStep
<1>1. FilesOwned'
  BY <1>0, FilesOwnedSame
<1>2. ASSUME pc'[c] \in {"idle", "rnext", "rlist", "rexec", "xcheck"}
      PROVE  ClientOwns(pc[c], loc[c])'
  BY <1>2 DEF ClientOwns, StartPcs, StopPcs
<1>3. CASE Restore(c)
  <2>1. pc'[c] = "rnext"
    BY <1>3 DEF Restore
  <2>. QED  BY <1>1, <1>2, <2>1, OwnedByOne
<1>4. CASE RestoreNext(c)
  <2>1. PICK n \in Names :
          IF pers[n] = None \/ Alive(pidFile[n])
          THEN UNCHANGED pc
          ELSE /\ loc'[c].name = n /\ loc'[c].ip = pers[n].ip /\ loc'[c].id = None
               /\ pc'[c] = "check"
    <3>1. l.todo \subseteq Names
      BY DEF Locals
    <3>2. PICK n \in l.todo :
            IF pers[n] = None \/ Alive(pidFile[n])
            THEN UNCHANGED pc
            ELSE /\ loc' = [loc EXCEPT ![c] =
                      [NoLocals EXCEPT !.name = n, !.ip = pers[n].ip,
                         !.mac = pers[n].mac, !.cmd = pers[n].cmd,
                         !.restoring = TRUE, !.todo = l.todo \ {n}]]
                 /\ Goto(c, "check")
      BY <1>4 DEF RestoreNext
    <3>3. CASE pers[n] = None \/ Alive(pidFile[n])
      BY <3>1, <3>2, <3>3
    <3>4. CASE ~(pers[n] = None \/ Alive(pidFile[n]))
      <4>1. loc'[c] = [NoLocals EXCEPT !.name = n, !.ip = pers[n].ip,
                         !.mac = pers[n].mac, !.cmd = pers[n].cmd,
                         !.restoring = TRUE, !.todo = l.todo \ {n}]
        BY <3>2, <3>4
      <4>2. loc'[c].name = n /\ loc'[c].ip = pers[n].ip /\ loc'[c].id = None
        BY <4>1 DEF NoLocals
      <4>3. pc'[c] = "check"
        BY <3>2, <3>4
      <4>. QED  BY <3>1, <3>4, <4>2, <4>3
    <3>. QED  BY <3>3, <3>4
  <2>2. CASE pers[n] = None \/ Alive(pidFile[n])
    BY <1>0, <1>1, <1>2, <2>1, <2>2, OwnedByOne
  <2>3. CASE ~(pers[n] = None \/ Alive(pidFile[n]))
    <3>1. Owns(n, pers[n].ip)
      BY <1>0, <2>3, NotForgetting DEF FilesOwned
    <3>2. ClientOwns(pc[c], loc[c])'
      BY <1>0, <2>1, <2>3, <3>1 DEF ClientOwns, Owns, StartPcs, StopPcs, files
    <3>. QED  BY <1>1, <3>2, OwnedByOne
  <2>. QED  BY <2>2, <2>3
<1>5. CASE RestoreEnds(c)
  BY <1>1, <1>5, IdleOwns, OwnedByOne DEF RestoreEnds
<1>6. CASE RestoreExec(c)
  <2>1. pc'[c] \in {"rnext", "xcheck"}
    BY <1>6 DEF RestoreExec
  <2>. QED  BY <1>1, <1>2, <2>1, OwnedByOne
<1>7. CASE RestoreList(c)
  <2>1. pc'[c] = "rexec"
    BY <1>7 DEF RestoreList
  <2>. QED  BY <1>1, <1>2, <2>1, OwnedByOne
<1>. QED  BY <1>3, <1>4, <1>5, <1>6, <1>7 DEF RestoreStep

LEMMA EnvironmentOwned ==
    ASSUME SequentialUse, TypeOK, IdsOwned,
           \/ \E c \in Clients : Interrupt(c)
           \/ \E p \in Pids : AgentUp(p) \/ SensorExits(p)
           \/ \E n \in Names : ChaosKill(n)
           \/ JobExits \/ Reboot \/ UplinkChanges
    PROVE  IdsOwned'
<1>1. ASSUME UNCHANGED <<files, pc, loc>> PROVE IdsOwned'
  BY <1>1 DEF IdsOwned, FilesOwned, ClientOwns, Owns, Unreferenced, Forgetting, files
<1>2. CASE \E c \in Clients : Interrupt(c)
  BY <1>2 DEF Interrupt, SequentialUse
<1>3. CASE Reboot
  BY <1>3 DEF Reboot, SequentialUse
<1>4. ASSUME NEW p \in Pids, AgentUp(p) PROVE IdsOwned'
  <2>1. /\ UNCHANGED <<pidFile, ipFile, idFile, pc, loc>>
        /\ proc[p].name \in Names
        /\ pers' = IF pers[proc[p].name] # None THEN pers
                   ELSE [pers EXCEPT ![proc[p].name] = Bare]
    BY <1>4 DEF AgentUp, TypeOK, HostOK, Procs
  <2>2. CASE pers[proc[p].name] # None
    BY <1>1, <2>1, <2>2 DEF files
  <2>3. CASE pers[proc[p].name] = None
    <3>1. \A n \in Names : \/ pers'[n] = pers[n]
                           \/ pers'[n].ip = None
      BY <2>1, <2>3 DEF TypeOK, FilesOK, Bare
    <3>2. FilesOwned'
      BY <2>1, <3>1, AutoIpIsSet DEF IdsOwned, FilesOwned, Owns, Forgetting
    <3>3. ASSUME NEW id \in Ids, Unreferenced(id) PROVE Unreferenced(id)'
      BY <2>1, <3>1, <3>3, AutoIpIsSet DEF Unreferenced
    <3>4. ASSUME NEW c \in Clients PROVE ClientOwns(pc[c], loc[c])'
      <4>1. ClientOwns(pc[c], loc[c]) /\ loc[c] \in Locals
        BY DEF IdsOwned, TypeOK, ClientsOK
      <4>2. loc[c].id # None => loc[c].id \in Ids
        BY <4>1 DEF Locals
      <4>. QED  BY <2>1, <3>3, <4>1, <4>2 DEF ClientOwns, Owns
    <3>. QED  BY <3>2, <3>4 DEF IdsOwned
  <2>. QED  BY <2>2, <2>3
<1>5. ASSUME NEW p \in Pids, SensorExits(p) PROVE IdsOwned'
  BY <1>1, <1>5 DEF SensorExits
<1>6. ASSUME NEW n \in Names, ChaosKill(n) PROVE IdsOwned'
  BY <1>1, <1>6 DEF ChaosKill
<1>7. CASE JobExits \/ UplinkChanges
  BY <1>1, <1>7 DEF JobExits, UplinkChanges
<1>. QED  BY <1>2, <1>3, <1>4, <1>5, <1>6, <1>7

LEMMA IdsInit == Init => IdsOwned
BY AutoIpIsSet DEF Init, IdsOwned, FilesOwned, ClientOwns, Owns, StartPcs, StopPcs

LEMMA IdsNext ==
    ASSUME SequentialUse PROVE TypeOK /\ IdsOwned /\ [Next]_vars => IdsOwned'
<1>. SUFFICES ASSUME TypeOK, IdsOwned, [Next]_vars PROVE IdsOwned'
  OBVIOUS
<1>1. CASE UNCHANGED vars
  BY <1>1 DEF vars, files, IdsOwned, FilesOwned, ClientOwns, Owns, Unreferenced, Forgetting
<1>2. CASE Next
  BY <1>2, StartStepOwned, StopStepOwned, ExecStepOwned, RestoreStepOwned, EnvironmentOwned
     DEF Next, ClientStep
<1>. QED  BY <1>1, <1>2

\* A sensor that runs has an address, and the id file of that address names it.
LEMMA OwnedIsUnique == ASSUME SequentialUse, TypeOK, IdsOwned PROVE UniqueIp
<1>. SUFFICES ASSUME NEW n \in Names, NEW m \in Names, ipFile[n] # None, ipFile[n] = ipFile[m]
              PROVE  n = m
  BY DEF UniqueIp
<1>1. ipFile[n] \in Ips
  BY DEF TypeOK, FilesOK
<1>2. PICK id \in Ids : ipFile[n] = AutoIp(id)
  BY <1>1 DEF Ips, SequentialUse
<1>3. idFile[id] = n /\ idFile[id] = m
  BY <1>2 DEF IdsOwned, FilesOwned, Owns
<1>. QED  BY <1>3

\* The invariant behind the uniqueness of addresses: every address in an ip
\* file, in a persistent directory or in the hands of start belongs to the
\* sensor that the id file of the address names.
THEOREM AddressesOwned == ASSUME SequentialUse PROVE Spec => []IdsOwned
<1>1. TypeOK /\ IdsOwned /\ [Next]_vars => IdsOwned'
  BY IdsNext
<1>. QED  BY <1>1, IdsInit, TypeCorrect, PTL DEF Spec

\* While one invocation runs at a time, no two running sensors share an address,
\* whatever happens to the processes: failed starts, failed sandbox setups,
\* agents that end, kills, and restores of any length.
THEOREM UniqueIpSequential == ASSUME SequentialUse PROVE Spec => []UniqueIp
<1>1. TypeOK /\ IdsOwned => UniqueIp
  BY OwnedIsUnique
<1>. QED  BY <1>1, AddressesOwned, TypeCorrect, PTL

-----------------------------------------------------------------------------
(* A pid file never names the container of another sensor, however many invocations run at *)
(* once and whatever fails, as long as the kernel does not hand out a pid that a pid file  *)
(* or an invocation still holds.                                                           *)

NoReuse == "reuse" \notin Faults

PidsOwn == PidFileIsOwn /\ LocalPidIsOwn

LEMMA PidsInit == Init => PidsOwn
BY DEF Init, PidsOwn, PidFileIsOwn, LocalPidIsOwn, NoLocals

\* No process appears, no pid file is written and no invocation learns a pid.
LEMMA QuietStep ==
    ASSUME TypeOK, TypeOK', PidsOwn,
           \A p \in Pids : proc'[p] # None => proc[p] # None /\ proc'[p].name = proc[p].name,
           \A n \in Names : pidFile'[n] \in {pidFile[n], None},
           \A d \in Clients : \/ loc'[d].pid = None
                              \/ loc'[d].pid = loc[d].pid /\ loc'[d].name = loc[d].name
    PROVE  PidsOwn'
<1>1. /\ \A n \in Names : pidFile'[n] # None => pidFile'[n] \in Pids
      /\ \A d \in Clients : loc'[d].pid # None => loc'[d].pid \in Pids
  BY DEF TypeOK, FilesOK, ClientsOK, Locals
<1>2. PidFileIsOwn'
  BY <1>1 DEF PidsOwn, PidFileIsOwn
<1>3. LocalPidIsOwn'
  BY <1>1 DEF PidsOwn, LocalPidIsOwn
<1>. QED  BY <1>2, <1>3 DEF PidsOwn

\* The same of a client's step that leaves the processes alone.
LEMMA QuietClient ==
    ASSUME TypeOK, TypeOK', PidsOwn, NEW c \in Clients, proc' = proc,
           \A n \in Names : pidFile'[n] \in {pidFile[n], None},
           \A d \in Clients : d # c => loc'[d] = loc[d],
           \/ loc'[c].pid = None
           \/ loc'[c].pid = loc[c].pid /\ loc'[c].name = loc[c].name
    PROVE  PidsOwn'
BY QuietStep

LEMMA LeavesPid ==
    ASSUME TypeOK, NEW c \in Clients, Exit(c)
    PROVE  /\ loc'[c].pid = None
           /\ \A d \in Clients : d # c => loc'[d] = loc[d]
BY DEF Exit, Goto, TypeOK, ClientsOK, NoLocals

LEMMA ReturnsPid ==
    ASSUME TypeOK, NEW c \in Clients, NEW label, Return(c, label)
    PROVE  /\ \A d \in Clients : d # c => loc'[d] = loc[d]
           /\ \/ loc'[c].pid = None
              \/ loc'[c].pid = loc[c].pid /\ loc'[c].name = loc[c].name
BY LeavesPid DEF Return

\* With KillPid or DropVeths a process keeps its name or disappears.
LEMMA UnsharedKeepsName ==
    ASSUME TypeOK, NEW p \in Pids, Unshared(p) # None
    PROVE  proc[p] # None /\ Unshared(p).name = proc[p].name
BY DEF Unshared, TypeOK, HostOK, Procs

LEMMA KillQuiet ==
    ASSUME TypeOK, NEW p \in Pids, KillPid(p)
    PROVE  \A q \in Pids : proc'[q] # None => proc[q] # None /\ proc'[q].name = proc[q].name
BY UnsharedKeepsName DEF KillPid, TypeOK, HostOK

LEMMA LaunchOwns ==
    ASSUME NoReuse, TypeOK, TypeOK', PidsOwn, NEW c \in Clients, Launch(c)
    PROVE  PidsOwn'
<1>1. PICK p \in Pids :
        /\ FreePid(p)
        /\ proc' = [proc EXCEPT ![p] = [name |-> loc[c].name, stage |-> "setup"]]
        /\ \E q \in Pids : /\ q = p \/ FreePid(q)
                           /\ loc' = [loc EXCEPT ![c].pid = q]
  BY DEF Launch
<1>2. PICK q \in Pids : (q = p \/ FreePid(q)) /\ loc' = [loc EXCEPT ![c].pid = q]
  BY <1>1
<1>3. /\ pidFile' = pidFile
      /\ \A n \in Names : pidFile[n] # p
      /\ \A d \in Clients : loc[d].pid # p
  BY <1>1 DEF Launch, FreePid, NoReuse, files
<1>4. PidFileIsOwn'
  BY <1>1, <1>3 DEF PidsOwn, PidFileIsOwn, TypeOK, HostOK, FilesOK
<1>5. loc'[c].pid = q /\ loc'[c].name = loc[c].name
  BY <1>2 DEF TypeOK, ClientsOK, Locals
<1>6. proc'[q] # None => proc'[q].name = loc[c].name
  BY <1>1, <1>2 DEF FreePid, TypeOK, HostOK
<1>7. ASSUME NEW d \in Clients, d # c, loc'[d].pid # None, proc'[loc'[d].pid] # None
      PROVE  proc'[loc'[d].pid].name = loc'[d].name
  <2>1. loc'[d] = loc[d]
    BY <1>2, <1>7
  <2>2. loc[d].pid \in Pids /\ loc[d].pid # p
    BY <1>3, <1>7, <2>1 DEF TypeOK, ClientsOK, Locals
  <2>. QED  BY <1>1, <1>7, <2>1, <2>2 DEF PidsOwn, LocalPidIsOwn, TypeOK, HostOK
<1>8. LocalPidIsOwn'
  BY <1>5, <1>6, <1>7 DEF LocalPidIsOwn
<1>. QED  BY <1>4, <1>8 DEF PidsOwn

LEMMA StartStepPids ==
    ASSUME NoReuse, TypeOK, TypeOK', PidsOwn, NEW c \in Clients, Start(c) \/ StartStep(c)
    PROVE  PidsOwn'
<1>. USE DEF TypeOK, FilesOK, HostOK, ClientsOK, files, procs
<1>1. CASE Start(c)
  <2>1. loc'[c].pid = None
    BY <1>1 DEF Start, NoLocals
  <2>. QED  BY <1>1, <2>1, QuietClient DEF Start
<1>2. CASE CheckStart(c)
  <2>1. CASE Exit(c) /\ UNCHANGED files
    BY <1>2, <2>1, LeavesPid, QuietClient DEF CheckStart
  <2>2. CASE ~(Exit(c) /\ UNCHANGED files)
    <3>1. /\ loc' = [loc EXCEPT ![c].cmd = FALSE]
          /\ pidFile' = [pidFile EXCEPT ![loc[c].name] = None] /\ proc' = proc
      BY <1>2, <2>2 DEF CheckStart
    <3>2. loc'[c].pid = loc[c].pid /\ loc'[c].name = loc[c].name
      BY <3>1 DEF Locals
    <3>. QED  BY <3>1, <3>2, QuietClient
  <2>. QED  BY <2>1, <2>2
<1>3. CASE PickId(c)
  <2>1. loc'[c].pid = loc[c].pid /\ loc'[c].name = loc[c].name
    BY <1>3 DEF PickId, Locals
  <2>. QED  BY <1>3, <2>1, QuietClient DEF PickId
<1>4. CASE NoIdLeft(c)
  BY <1>4, LeavesPid, QuietClient DEF NoIdLeft
<1>5. CASE ClaimId(c)
  BY <1>5, QuietClient DEF ClaimId
<1>6. CASE Launch(c)
  BY <1>6, LaunchOwns
<1>7. CASE LaunchFails(c)
  BY <1>7, LeavesPid, QuietClient DEF LaunchFails
<1>8. CASE RecordStart(c)
  <2>1. /\ pidFile' = [pidFile EXCEPT ![loc[c].name] = loc[c].pid]
        /\ UNCHANGED <<proc, loc>>
    BY <1>8 DEF RecordStart
  <2>. QED  BY <2>1 DEF PidsOwn, PidFileIsOwn, LocalPidIsOwn
<1>9. CASE PersistStart(c)
  BY <1>9, QuietClient DEF PersistStart
<1>10. CASE SetupMacvlan(c)
  BY <1>10, ReturnsPid, QuietClient DEF SetupMacvlan
<1>14. CASE MacvlanRefused(c)
  BY <1>14, LeavesPid, QuietClient DEF MacvlanRefused
<1>11. CASE SetupBridge(c)
  BY <1>11, QuietClient DEF SetupBridge
<1>12. CASE AddVeth(c)
  BY <1>12, QuietClient DEF AddVeth
<1>13. CASE PlugVeth(c)
  BY <1>13, ReturnsPid, QuietClient DEF PlugVeth
<1>. QED
  BY <1>1, <1>2, <1>3, <1>4, <1>5, <1>6, <1>7, <1>8, <1>9, <1>10, <1>11, <1>12, <1>13,
     <1>14 DEF StartStep

LEMMA StopStepPids ==
    ASSUME TypeOK, TypeOK', PidsOwn, NEW c \in Clients, Stop(c) \/ StopStep(c)
    PROVE  PidsOwn'
<1>. USE DEF TypeOK, FilesOK, HostOK, ClientsOK, files, procs
<1>1. CASE Stop(c)
  <2>1. PICK n \in Names :
          loc' = [loc EXCEPT ![c] = [NoLocals EXCEPT !.name = n, !.pid = pidFile[n],
                                                     !.ids = GrepIds(n)]]
    BY <1>1 DEF Stop
  <2>2. loc'[c].name = n /\ loc'[c].pid = pidFile[n] /\ \A d \in Clients : d # c => loc'[d] = loc[d]
    BY <2>1 DEF NoLocals
  <2>3. proc' = proc /\ pidFile' = pidFile
    BY <1>1 DEF Stop
  <2>4. PidFileIsOwn'
    BY <2>3 DEF PidsOwn, PidFileIsOwn
  <2>5. LocalPidIsOwn'
    BY <2>2, <2>3 DEF PidsOwn, PidFileIsOwn, LocalPidIsOwn
  <2>. QED  BY <2>4, <2>5 DEF PidsOwn
<1>2. CASE KillSandbox(c)
  <2>1. loc[c].pid \in Pids
    BY <1>2 DEF KillSandbox, ClientOK
  <2>. QED  BY <1>2, <2>1, KillQuiet, QuietStep DEF KillSandbox
<1>3. CASE DelVeth(c)
  <2>1. loc'[c].pid = loc[c].pid /\ loc'[c].name = loc[c].name
    BY <1>3 DEF DelVeth, Locals
  <2>. QED  BY <1>3, <2>1, QuietClient DEF DelVeth
<1>4. CASE CountPorts(c)
  BY <1>4, QuietClient DEF CountPorts
<1>5. CASE DelBridge(c)
  BY <1>5, QuietClient DEF DelBridge
<1>6. CASE CleanState(c)
  BY <1>6, QuietClient DEF CleanState
<1>7. CASE ForgetSandbox(c)
  BY <1>7, LeavesPid, QuietClient DEF ForgetSandbox
<1>. QED  BY <1>1, <1>2, <1>3, <1>4, <1>5, <1>6, <1>7 DEF StopStep

LEMMA ExecStepPids ==
    ASSUME TypeOK, TypeOK', PidsOwn, NEW c \in Clients, Exec(c) \/ ExecStep(c)
    PROVE  PidsOwn'
<1>. USE DEF TypeOK, FilesOK, HostOK, ClientsOK, files, procs
<1>1. CASE Exec(c)
  <2>1. loc'[c].pid = None
    BY <1>1 DEF Exec, NoLocals
  <2>. QED  BY <1>1, <2>1, QuietClient DEF Exec
<1>2. CASE CheckExec(c)
  <2>1. CASE Exit(c)
    BY <1>2, <2>1, LeavesPid, QuietClient DEF CheckExec
  <2>2. CASE loc' = [loc EXCEPT ![c].pid = pidFile[loc[c].name]]
    <3>1. loc[c].name \in Names
      BY <1>2 DEF CheckExec, ClientOK, ExecPcs
    <3>2. loc'[c].pid = pidFile[loc[c].name] /\ loc'[c].name = loc[c].name
      BY <2>2 DEF Locals
    <3>. QED  BY <1>2, <2>2, <3>1, <3>2 DEF CheckExec, PidsOwn, PidFileIsOwn, LocalPidIsOwn
  <2>. QED  BY <1>2, <2>1, <2>2 DEF CheckExec
<1>3. CASE ExecCount(c)
  <2>1. /\ loc'[c].pid = loc[c].pid /\ loc'[c].name = loc[c].name
        /\ \A d \in Clients : d # c => loc'[d] = loc[d]
    BY <1>3 DEF ExecCount, Locals
  <2>. QED  BY <1>3, <2>1, QuietClient DEF ExecCount
<1>4. CASE ExecDir(c) \/ ExecWrite(c)
  BY <1>4, QuietClient DEF ExecDir, ExecWrite
<1>5. CASE ExecRun(c)
  BY <1>5, ReturnsPid, QuietClient DEF ExecRun
<1>. QED  BY <1>1, <1>2, <1>3, <1>4, <1>5 DEF ExecStep

LEMMA RestoreStepPids ==
    ASSUME TypeOK, TypeOK', PidsOwn, NEW c \in Clients, Restore(c) \/ RestoreStep(c)
    PROVE  PidsOwn'
<1>. USE DEF TypeOK, FilesOK, HostOK, ClientsOK, files, procs
<1>1. CASE Restore(c)
  <2>1. loc'[c].pid = None
    BY <1>1 DEF Restore, NoLocals
  <2>. QED  BY <1>1, <2>1, QuietClient DEF Restore
<1>2. CASE RestoreNext(c)
  <2>1. /\ \A d \in Clients : d # c => loc'[d] = loc[d]
        /\ \/ loc'[c].pid = None
           \/ loc'[c].pid = loc[c].pid /\ loc'[c].name = loc[c].name
    <3>1. PICK n \in loc[c].todo :
            \/ loc' = [loc EXCEPT ![c].todo = @ \ {n}]
            \/ loc' = [loc EXCEPT ![c] =
                 [NoLocals EXCEPT !.name = n, !.ip = pers[n].ip,
                    !.mac = pers[n].mac, !.cmd = pers[n].cmd,
                    !.restoring = TRUE, !.todo = loc[c].todo \ {n}]]
      BY <1>2 DEF RestoreNext
    <3>2. CASE loc' = [loc EXCEPT ![c].todo = @ \ {n}]
      BY <3>2 DEF Locals
    <3>3. CASE loc' = [loc EXCEPT ![c] =
                 [NoLocals EXCEPT !.name = n, !.ip = pers[n].ip,
                    !.mac = pers[n].mac, !.cmd = pers[n].cmd,
                    !.restoring = TRUE, !.todo = loc[c].todo \ {n}]]
      <4>1. loc'[c].pid = None
        BY <3>3 DEF NoLocals
      <4>. QED  BY <3>3, <4>1
    <3>. QED  BY <3>1, <3>2, <3>3
  <2>. QED  BY <1>2, <2>1, QuietClient DEF RestoreNext
<1>3. CASE RestoreEnds(c)
  BY <1>3, LeavesPid, QuietClient DEF RestoreEnds
<1>4. CASE RestoreExec(c)
  <2>1. /\ \A d \in Clients : d # c => loc'[d] = loc[d]
        /\ \/ loc'[c].pid = None
           \/ loc'[c].pid = loc[c].pid /\ loc'[c].name = loc[c].name
    <3>1. \/ loc' = [loc EXCEPT ![c] = [NoLocals EXCEPT
                       !.restoring = TRUE, !.todo = loc[c].todo]]
          \/ \E w, j : loc' = [loc EXCEPT ![c].left = w, ![c].job = j]
      BY <1>4 DEF RestoreExec
    <3>2. CASE loc' = [loc EXCEPT ![c] = [NoLocals EXCEPT
                       !.restoring = TRUE, !.todo = loc[c].todo]]
      <4>1. loc'[c].pid = None
        BY <3>2 DEF NoLocals
      <4>. QED  BY <3>2, <4>1
    <3>3. CASE \E w, j : loc' = [loc EXCEPT ![c].left = w, ![c].job = j]
      BY <3>3 DEF Locals
    <3>. QED  BY <3>1, <3>2, <3>3
  <2>. QED  BY <1>4, <2>1, QuietClient DEF RestoreExec
<1>5. CASE RestoreList(c)
  <2>1. /\ \A d \in Clients : d # c => loc'[d] = loc[d]
        /\ loc'[c].pid = loc[c].pid /\ loc'[c].name = loc[c].name
    BY <1>5 DEF RestoreList, Locals
  <2>. QED  BY <1>5, <2>1, QuietClient DEF RestoreList
<1>. QED  BY <1>1, <1>2, <1>3, <1>4, <1>5 DEF RestoreStep

LEMMA EnvironmentPids ==
    ASSUME TypeOK, TypeOK', PidsOwn,
           \/ \E c \in Clients : Interrupt(c)
           \/ \E p \in Pids : AgentUp(p) \/ SensorExits(p)
           \/ \E n \in Names : ChaosKill(n)
           \/ JobExits \/ Reboot \/ UplinkChanges
    PROVE  PidsOwn'
<1>. USE DEF TypeOK, FilesOK, HostOK, ClientsOK, files, procs
<1>1. ASSUME NEW c \in Clients, Interrupt(c) PROVE PidsOwn'
  BY <1>1, LeavesPid, QuietClient DEF Interrupt
<1>2. ASSUME NEW p \in Pids, AgentUp(p) PROVE PidsOwn'
  <2>1. \A q \in Pids : proc'[q] # None => proc[q] # None /\ proc'[q].name = proc[q].name
    BY <1>2 DEF AgentUp, Procs
  <2>. QED  BY <1>2, <2>1, QuietStep DEF AgentUp
<1>3. ASSUME NEW p \in Pids, SensorExits(p) PROVE PidsOwn'
  BY <1>3, QuietStep DEF SensorExits
<1>4. ASSUME NEW n \in Names, ChaosKill(n) PROVE PidsOwn'
  <2>1. pidFile[n] \in Pids
    BY <1>4 DEF ChaosKill, Alive
  <2>. QED  BY <1>4, <2>1, KillQuiet, QuietStep DEF ChaosKill
<1>5. CASE JobExits
  BY <1>5, QuietStep DEF JobExits
<1>6. CASE Reboot
  <2>1. \A d \in Clients : loc'[d].pid = None
    BY <1>6 DEF Reboot, NoLocals
  <2>. QED  BY <1>6, <2>1, QuietStep DEF Reboot
<1>7. CASE UplinkChanges
  BY <1>7, QuietStep DEF UplinkChanges
<1>. QED  BY <1>1, <1>2, <1>3, <1>4, <1>5, <1>6, <1>7

LEMMA PidsNext ==
    ASSUME NoReuse PROVE TypeOK /\ TypeOK' /\ PidsOwn /\ [Next]_vars => PidsOwn'
<1>. SUFFICES ASSUME TypeOK, TypeOK', PidsOwn, [Next]_vars PROVE PidsOwn'
  OBVIOUS
<1>1. CASE UNCHANGED vars
  BY <1>1 DEF vars, files, procs, PidsOwn, PidFileIsOwn, LocalPidIsOwn
<1>2. CASE Next
  BY <1>2, StartStepPids, StopStepPids, ExecStepPids, RestoreStepPids, EnvironmentPids
     DEF Next, ClientStep
<1>. QED  BY <1>1, <1>2

\* Concurrent starts, stops, restores and execs, transient children that pgrep
\* meets, interrupts and reboots never leave a pid file that names the container
\* of another sensor, if pids are not reused: what stop kills is the sandbox it
\* was asked to stop.
THEOREM PidFilesOwn == ASSUME NoReuse PROVE Spec => []PidFileIsOwn
<1>1. TypeOK /\ TypeOK' /\ PidsOwn /\ [Next]_vars => PidsOwn'
  BY PidsNext
<1>2. PidsOwn => PidFileIsOwn
  BY DEF PidsOwn
<1>. QED  BY <1>1, <1>2, PidsInit, TypeCorrect, PTL DEF Spec
=============================================================================
