--------------------------- MODULE SensorUseProofs ---------------------------
(***************************************************************************)
(* Theorems about one invocation of sensor-ctl.sh at a time: instances are *)
(* not duplicated, detached commands are persisted once; where containers  *)
(* end only by stop or with the host, stop, start and restore leave every  *)
(* running sensor connected and no link or bridge behind; and restore      *)
(* leaves none stopped. What is assumed is in the hypotheses.              *)
(***************************************************************************)
EXTENDS SensorCtlProofs, FiniteSetTheorems

OneClient == \A c, d \in Clients : c = d

\* One client is at a point of its run, at work on a name.
Doing(labels, n) == \E c \in Clients : pc[c] \in labels /\ loc[c].name = n

LEMMA DoingOne ==
    ASSUME OneClient, NEW c \in Clients, NEW labels, NEW n
    PROVE  /\ Doing(labels, n) <=> pc[c] \in labels /\ loc[c].name = n
           /\ Doing(labels, n)' <=> pc'[c] \in labels /\ loc'[c].name = n
BY DEF OneClient, Doing

\* What the steps leave in the control state and the variables of the client.
LEMMA GoesTo ==
    ASSUME TypeOK, NEW c \in Clients, NEW label, Goto(c, label)
    PROVE  pc'[c] = label
BY DEF Goto, TypeOK, ClientsOK

LEMMA ExitLocals ==
    ASSUME TypeOK, NEW c \in Clients, Exit(c)
    PROVE  pc'[c] = "idle" /\ loc'[c] = NoLocals
BY DEF Exit, Goto, TypeOK, ClientsOK

LEMMA ReturnLocals ==
    ASSUME TypeOK, NEW c \in Clients, NEW label, Return(c, label)
    PROVE  \/ loc[c].restoring /\ pc'[c] = label /\ loc' = loc
           \/ ~loc[c].restoring /\ pc'[c] = "idle" /\ loc'[c] = NoLocals
BY ExitLocals DEF Return, Goto, TypeOK, ClientsOK

LEMMA ClientKnows ==
    ASSUME TypeOK, NEW c \in Clients
    PROVE  /\ loc[c] \in Locals /\ ClientOK(pc[c], loc[c])
           /\ pc[c] \in StartPcs \cup StopPcs \cup ExecPcs \cup {"rlist", "rexec"} =>
                 loc[c].name \in Names
BY DEF TypeOK, ClientsOK, ClientOK

LEMMA StartBegins ==
    ASSUME TypeOK, NEW c \in Clients, Start(c)
    PROVE  /\ pc[c] = "idle" /\ pc'[c] = "check"
           /\ loc'[c].name \in Names /\ ~loc'[c].restoring
           /\ UNCHANGED <<files, procs, net>>
<1>1. loc'[c].name \in Names /\ ~loc'[c].restoring
  BY DEF Start, NoLocals, TypeOK, ClientsOK
<1>2. pc[c] = "idle" /\ Goto(c, "check") /\ UNCHANGED <<files, procs, net>>
  BY DEF Start
<1>. QED  BY <1>1, <1>2, GoesTo

LEMMA StopBegins ==
    ASSUME TypeOK, NEW c \in Clients, Stop(c)
    PROVE  /\ pc[c] = "idle" /\ pc'[c] = "kill"
           /\ loc'[c].name \in Names /\ ~loc'[c].restoring
           /\ loc'[c].pid = pidFile[loc'[c].name] /\ loc'[c].pid # None
           /\ loc'[c].ids = GrepIds(loc'[c].name)
           /\ UNCHANGED <<files, procs, net>>
<1>1. PICK n \in Names :
        /\ pidFile[n] # None
        /\ loc'[c] = [NoLocals EXCEPT !.name = n, !.pid = pidFile[n], !.ids = GrepIds(n)]
  <2>1. loc \in [Clients -> Locals]
    BY DEF TypeOK, ClientsOK
  <2>2. PICK n \in Names :
          /\ pidFile[n] # None
          /\ loc' = [loc EXCEPT ![c] = [NoLocals EXCEPT !.name = n, !.pid = pidFile[n],
                                                        !.ids = GrepIds(n)]]
    BY Zenon DEF Stop
  <2>. QED  BY <2>1, <2>2, Zenon
<1>2. /\ loc'[c].name = n /\ ~loc'[c].restoring
      /\ loc'[c].pid = pidFile[n] /\ loc'[c].ids = GrepIds(n)
  BY <1>1 DEF NoLocals
<1>3. pc[c] = "idle" /\ Goto(c, "kill") /\ UNCHANGED <<files, procs, net>>
  BY DEF Stop
<1>. QED  BY <1>1, <1>2, <1>3, GoesTo

\* A start that goes on has found no process behind the pid file.
LEMMA CheckStartGoesOn ==
    ASSUME TypeOK, NEW c \in Clients, CheckStart(c), ~(Exit(c) /\ UNCHANGED files)
    PROVE  /\ ~Alive(pidFile[loc[c].name])
           /\ pidFile' = [pidFile EXCEPT ![loc[c].name] = None]
           /\ ipFile' = IF pidFile[loc[c].name] = None THEN ipFile
                        ELSE [ipFile EXCEPT ![loc[c].name] = None]
           /\ UNCHANGED <<idFile, pers, procs, net>>
           /\ pc'[c] \in {"pickid", "launch"}
           /\ loc'[c] = [loc[c] EXCEPT !.cmd = FALSE]
           /\ loc'[c].name = loc[c].name /\ loc'[c].restoring = loc[c].restoring
           /\ loc'[c].todo = loc[c].todo
<1>1. /\ ~Alive(pidFile[loc[c].name])
      /\ pidFile' = [pidFile EXCEPT ![loc[c].name] = None]
      /\ ipFile' = IF pidFile[loc[c].name] = None THEN ipFile
                   ELSE [ipFile EXCEPT ![loc[c].name] = None]
      /\ UNCHANGED <<idFile, pers, procs, net>>
      /\ Goto(c, IF loc[c].ip = None THEN "pickid" ELSE "launch")
      /\ loc' = [loc EXCEPT ![c].cmd = FALSE]
  BY DEF CheckStart
<1>2. loc'[c] = [loc[c] EXCEPT !.cmd = FALSE] /\ loc[c] \in Locals
  BY <1>1 DEF TypeOK, ClientsOK
<1>3. /\ loc'[c].name = loc[c].name /\ loc'[c].restoring = loc[c].restoring
      /\ loc'[c].todo = loc[c].todo
  BY <1>2 DEF Locals
<1>4. pc'[c] \in {"pickid", "launch"}
  BY <1>1 DEF Goto, TypeOK, ClientsOK
<1>. QED  BY <1>1, <1>2, <1>3, <1>4

-----------------------------------------------------------------------------
(* One instance of a sensor. *)

NoSplitStart == Faults \cap {"helper", "interrupt"} = {}

Absent(n) == \A p \in Pids : Unshare(p) => proc[p].name # n

\* Every unshare process is the one in its sensor's pid file, or about to be.
Recorded ==
    \A p \in Pids : Unshare(p) =>
        pidFile[proc[p].name] = p \/ Doing({"record"}, proc[p].name)

\* From its check on start knows that there is none, and from its kill on stop.
ClientAlone(label, l) ==
    /\ label \in {"pickid", "claimid", "launch", "unplug", "count", "delbridge", "clean"} =>
          Absent(l.name)
    /\ label = "record" =>
          \A p \in Pids : Unshare(p) /\ proc[p].name = l.name => p = l.pid
    /\ label = "kill" => l.pid = pidFile[l.name]

InstancesInv == Recorded /\ \A c \in Clients : ClientAlone(pc[c], loc[c])

\* Processes may die, and no unshare process appears.
FewerUnshares ==
    \A p \in Pids : Unshare(p)' => Unshare(p) /\ proc'[p].name = proc[p].name

LEMMA SameProcs ==
    ASSUME proc' = proc
    PROVE  /\ FewerUnshares
           /\ \A n : Absent(n)' <=> Absent(n)
BY DEF FewerUnshares, Unshare, Absent

\* No start is recorded and no pid file written; the client is where it may be.
LEMMA InstancesKept ==
    ASSUME OneClient, InstancesInv, NEW c \in Clients, FewerUnshares,
           pidFile' = pidFile,
           pc[c] = "record" => pc'[c] = "record" /\ loc'[c].name = loc[c].name,
           ClientAlone(pc[c], loc[c])'
    PROVE  InstancesInv'
<1>1. Recorded'
  BY DoingOne DEF InstancesInv, Recorded, FewerUnshares
<1>2. \A d \in Clients : ClientAlone(pc[d], loc[d])'
  BY DEF OneClient
<1>. QED  BY <1>1, <1>2 DEF InstancesInv

LEMMA InstancesInit == Init => InstancesInv
BY DEF Init, InstancesInv, Recorded, Unshare, ClientAlone

\* The client's variables do not matter where nothing is said of them.
LEMMA ElsewhereAlone ==
    ASSUME NEW c \in Clients,
           pc'[c] \notin {"pickid", "claimid", "launch", "record", "kill", "unplug", "count",
                          "delbridge", "clean"}
    PROVE  ClientAlone(pc[c], loc[c])'
BY DEF ClientAlone

LEMMA StartStepInstances ==
    ASSUME OneClient, NoSplitStart, TypeOK, InstancesInv, NEW c \in Clients,
           Start(c) \/ StartStep(c)
    PROVE  InstancesInv'
<1>. USE DEF files, procs
<1>. DEFINE l == loc[c]
<1>0. /\ l \in Locals /\ (pc[c] \in StartPcs => l.name \in Names)
      /\ ClientAlone(pc[c], l) /\ Recorded
      /\ pc \in [Clients -> Pcs] /\ loc \in [Clients -> Locals]
  BY ClientKnows DEF InstancesInv, TypeOK, ClientsOK
<1>1. CASE Start(c) \/ NoIdLeft(c) \/ LaunchFails(c) \/ MacvlanRefused(c)
  <2>1. /\ proc' = proc /\ pidFile' = pidFile /\ pc[c] # "record"
        /\ pc'[c] \in {"check", "idle"}
    <3>1. CASE Start(c)
      BY <3>1, StartBegins
    <3>2. CASE NoIdLeft(c)
      BY <3>2, ExitLocals DEF NoIdLeft
    <3>3. CASE LaunchFails(c)
      BY <3>3, ExitLocals DEF LaunchFails
    <3>4. CASE MacvlanRefused(c)
      BY <3>4, ExitLocals DEF MacvlanRefused
    <3>. QED  BY <1>1, <3>1, <3>2, <3>3, <3>4
  <2>. QED  BY <2>1, SameProcs, ElsewhereAlone, InstancesKept
<1>2. CASE CheckStart(c)
  <2>1. CASE Exit(c) /\ UNCHANGED files
    <3>1. proc' = proc /\ pidFile' = pidFile /\ pc[c] # "record" /\ pc'[c] = "idle"
      BY <1>2, <2>1, ExitLocals DEF CheckStart
    <3>. QED  BY <3>1, SameProcs, ElsewhereAlone, InstancesKept
  <2>2. CASE ~(Exit(c) /\ UNCHANGED files)
    <3>1. /\ ~Alive(pidFile[l.name]) /\ proc' = proc
          /\ pidFile' = [pidFile EXCEPT ![l.name] = None]
          /\ pc[c] = "check" /\ pc'[c] \in {"pickid", "launch"} /\ loc'[c].name = l.name
      BY <1>2, <2>2, CheckStartGoesOn DEF CheckStart
    <3>2. l.name \in Names /\ \A n : ~Doing({"record"}, n) /\ ~Doing({"record"}, n)'
      BY <1>0, <3>1, DoingOne DEF StartPcs
    <3>3. Absent(l.name)
      <4>1. ASSUME NEW p \in Pids, Unshare(p), proc[p].name = l.name PROVE FALSE
        <5>1. pidFile[l.name] = p
          BY <1>0, <3>2, <4>1 DEF Recorded
        <5>2. p # None
          BY NoneAssumption
        <5>. QED  BY <3>1, <4>1, <5>1, <5>2 DEF Alive
      <4>. QED  BY <4>1 DEF Absent
    <3>4. Absent(l.name)'
      BY <3>1, <3>3, SameProcs
    <3>5. Recorded'
      <4>1. ASSUME NEW p \in Pids, Unshare(p)' PROVE pidFile'[proc'[p].name] = p
        <5>1. Unshare(p) /\ proc'[p].name = proc[p].name /\ proc[p].name # l.name
          BY <3>1, <3>3, <4>1 DEF Unshare, Absent
        <5>2. pidFile[proc[p].name] = p
          BY <1>0, <3>2, <5>1 DEF Recorded
        <5>. QED  BY <3>1, <5>1, <5>2 DEF TypeOK, FilesOK
      <4>. QED  BY <4>1 DEF Recorded
    <3>6. ClientAlone(pc[c], loc[c])'
      BY <3>1, <3>4 DEF ClientAlone, Absent
    <3>. QED  BY <3>5, <3>6 DEF InstancesInv, OneClient
  <2>. QED  BY <2>1, <2>2
<1>3. CASE PickId(c) \/ ClaimId(c)
  <2>1. /\ proc' = proc /\ pidFile' = pidFile /\ pc[c] \in {"pickid", "claimid"}
        /\ Goto(c, "claimid") \/ Goto(c, "launch")
    BY <1>3 DEF PickId, ClaimId
  <2>2. loc'[c].name = l.name
    <3>1. CASE PickId(c)
      <4>1. PICK id \in Ids : loc' = [loc EXCEPT ![c].id = id, ![c].ip = AutoIp(id)]
        BY <3>1 DEF PickId, FreeIds
      <4>. QED  BY <1>0, <4>1 DEF Locals
    <3>2. CASE ClaimId(c)
      BY <3>2 DEF ClaimId
    <3>. QED  BY <1>3, <3>1, <3>2
  <2>3. pc'[c] \in {"claimid", "launch"}
    BY <2>1, GoesTo
  <2>4. \A p \in Pids : Unshare(p)' => proc'[p].name # l.name
    BY <1>0, <2>1 DEF ClientAlone, Absent, Unshare
  <2>5. ClientAlone(pc[c], loc[c])'
    BY <2>2, <2>3, <2>4 DEF ClientAlone, Absent
  <2>. QED  BY <2>1, <2>5, SameProcs, InstancesKept
<1>4. CASE Launch(c)
  <2>1. PICK p \in Pids :
          /\ FreePid(p)
          /\ proc' = [proc EXCEPT ![p] = [name |-> l.name, stage |-> "setup"]]
          /\ loc' = [loc EXCEPT ![c].pid = p]
    BY <1>4 DEF Launch, NoSplitStart
  <2>2. /\ pc[c] = "launch" /\ pc'[c] = "record" /\ pidFile' = pidFile
        /\ loc'[c].name = l.name /\ loc'[c].pid = p
    BY <1>0, <1>4, <2>1, GoesTo DEF Launch, Locals
  <2>3. Absent(l.name) /\ \A n : ~Doing({"record"}, n)
    BY <1>0, <2>2, DoingOne DEF ClientAlone
  <2>4. ASSUME NEW q \in Pids, q # p, Unshare(q)'
        PROVE  /\ Unshare(q) /\ proc'[q].name = proc[q].name /\ proc[q].name # l.name
               /\ pidFile'[proc'[q].name] = q
    BY <1>0, <2>1, <2>2, <2>3, <2>4 DEF Unshare, Absent, Recorded, TypeOK, HostOK
  <2>5. proc'[p].name = l.name
    BY <2>1 DEF TypeOK, HostOK
  <2>6. Recorded'
    <3>1. \E d \in Clients : pc'[d] \in {"record"} /\ loc'[d].name = proc'[p].name
      BY <2>2, <2>5
    <3>. QED  BY <2>4, <3>1 DEF Recorded, Doing
  <2>7. ClientAlone(pc[c], loc[c])'
    BY <2>2, <2>4, <2>5 DEF ClientAlone, Unshare
  <2>. QED  BY <2>6, <2>7 DEF InstancesInv, OneClient
<1>5. CASE RecordStart(c)
  <2>1. /\ pc[c] = "record" /\ pc'[c] = "persist" /\ proc' = proc /\ loc' = loc
        /\ pidFile' = [pidFile EXCEPT ![l.name] = l.pid] /\ l.name \in Names
    BY <1>0, <1>5 DEF RecordStart, Goto, StartPcs
  <2>2. ASSUME NEW p \in Pids, Unshare(p)' PROVE pidFile'[proc'[p].name] = p
    <3>1. Unshare(p) /\ proc'[p].name = proc[p].name
      BY <2>1, <2>2 DEF Unshare
    <3>2. CASE proc[p].name = l.name
      <4>1. p = l.pid
        BY <1>0, <2>1, <3>1, <3>2 DEF ClientAlone
      <4>. QED  BY <2>1, <3>1, <3>2, <4>1 DEF TypeOK, FilesOK
    <3>3. CASE proc[p].name # l.name
      <4>1. pidFile[proc[p].name] = p
        BY <1>0, <3>1, <3>3, DoingOne DEF Recorded
      <4>. QED  BY <2>1, <3>1, <3>3, <4>1 DEF TypeOK, FilesOK
    <3>. QED  BY <3>2, <3>3
  <2>3. ClientAlone(pc[c], loc[c])'
    BY <2>1, ElsewhereAlone
  <2>. QED  BY <2>2, <2>3 DEF InstancesInv, Recorded, OneClient
<1>6. CASE PersistStart(c) \/ SetupBridge(c) \/ AddVeth(c)
  <2>1. /\ proc' = proc /\ pidFile' = pidFile /\ pc[c] # "record"
        /\ pc'[c] \in {"bridge", "veth", "plug"}
    BY <1>0, <1>6 DEF PersistStart, SetupBridge, AddVeth, Goto
  <2>. QED  BY <2>1, SameProcs, ElsewhereAlone, InstancesKept
<1>7. CASE SetupMacvlan(c) \/ PlugVeth(c)
  <2>1. /\ proc' = proc /\ pidFile' = pidFile /\ pc[c] # "record"
        /\ pc'[c] \in {"rlist", "idle"}
    BY <1>7, ReturnLocals DEF SetupMacvlan, PlugVeth
  <2>. QED  BY <2>1, SameProcs, ElsewhereAlone, InstancesKept
<1>. QED  BY <1>1, <1>2, <1>3, <1>4, <1>5, <1>6, <1>7 DEF StartStep

LEMMA KillFewer ==
    ASSUME TypeOK, NEW p \in Pids, KillPid(p)
    PROVE  FewerUnshares /\ ~Unshare(p)'
<1>1. proc' = [proc EXCEPT ![p] = Unshared(p)]
  BY DEF KillPid
<1>2. Unshared(p) # None => Unshared(p).stage = "orphan"
  <2>1. CASE proc[p] = None \/ proc[p].stage = "setup"
    BY <2>1 DEF Unshared
  <2>2. CASE ~(proc[p] = None \/ proc[p].stage = "setup")
    BY <2>2 DEF Unshared, TypeOK, HostOK, Procs
  <2>. QED  BY <2>1, <2>2
<1>3. ~Unshare(p)'
  BY <1>1, <1>2 DEF Unshare, TypeOK, HostOK
<1>. QED  BY <1>1, <1>3 DEF FewerUnshares, Unshare, TypeOK, HostOK

LEMMA StopStepInstances ==
    ASSUME OneClient, TypeOK, InstancesInv, NEW c \in Clients, Stop(c) \/ StopStep(c)
    PROVE  InstancesInv'
<1>. USE DEF files, procs
<1>. DEFINE l == loc[c]
<1>0. /\ l \in Locals /\ ClientOK(pc[c], l) /\ (pc[c] \in StopPcs => l.name \in Names)
      /\ ClientAlone(pc[c], l) /\ Recorded
      /\ pc \in [Clients -> Pcs] /\ loc \in [Clients -> Locals]
  BY ClientKnows DEF InstancesInv, TypeOK, ClientsOK
<1>1. CASE Stop(c)
  <2>1. pc[c] = "idle" /\ proc' = proc /\ pidFile' = pidFile
    BY <1>1, StopBegins
  <2>2. loc'[c].pid = pidFile[loc'[c].name] /\ pc'[c] = "kill"
    BY <1>1, StopBegins
  <2>3. ClientAlone(pc[c], loc[c])'
    BY <2>1, <2>2 DEF ClientAlone
  <2>. QED  BY <2>1, <2>3, SameProcs, InstancesKept
<1>2. CASE KillSandbox(c)
  <2>1. /\ pc[c] = "kill" /\ pc'[c] = "unplug" /\ loc' = loc /\ pidFile' = pidFile
        /\ l.pid \in Pids /\ KillPid(l.pid)
    BY <1>0, <1>2 DEF KillSandbox, Goto, ClientOK
  <2>2. PICK k \in Pids : k = l.pid
    BY <2>1
  <2>3. FewerUnshares /\ ~Unshare(k)'
    BY <2>1, <2>2, KillFewer
  <2>4. Absent(l.name)'
    <3>1. ASSUME NEW p \in Pids, Unshare(p)' PROVE proc'[p].name # l.name
      <4>0. p # l.pid
        BY <2>2, <2>3, <3>1 DEF Unshare
      <4>1. Unshare(p) /\ proc'[p].name = proc[p].name /\ p # l.pid
        BY <2>3, <3>1, <4>0 DEF FewerUnshares
      <4>2. pidFile[proc[p].name] = p
        BY <1>0, <2>1, <4>1, DoingOne DEF Recorded
      <4>. QED  BY <1>0, <2>1, <4>1, <4>2 DEF ClientAlone
    <3>. QED  BY <2>1, <3>1 DEF Absent, Unshare
  <2>5. ClientAlone(pc[c], loc[c])'
    BY <2>1, <2>4 DEF ClientAlone, Absent
  <2>. QED  BY <2>1, <2>3, <2>5, InstancesKept
<1>3. CASE DelVeth(c) \/ CountPorts(c) \/ DelBridge(c)
  <2>1. /\ pc[c] \in {"unplug", "count", "delbridge"} /\ proc' = proc /\ pidFile' = pidFile
        /\ pc'[c] \in {"count", "delbridge", "clean"} /\ loc'[c].name = l.name
    BY <1>0, <1>3 DEF DelVeth, CountPorts, DelBridge, Goto, Locals
  <2>2. Absent(l.name)'
    BY <1>0, <2>1, SameProcs DEF ClientAlone
  <2>3. ClientAlone(pc[c], loc[c])'
    BY <2>1, <2>2 DEF ClientAlone, Absent
  <2>. QED  BY <2>1, <2>3, SameProcs, InstancesKept
<1>4. CASE CleanState(c)
  <2>1. /\ pc[c] = "clean" /\ pc'[c] = "forget" /\ proc' = proc
        /\ pidFile' = [pidFile EXCEPT ![l.name] = None]
    BY <1>0, <1>4 DEF CleanState, Goto
  <2>2. Absent(l.name) /\ \A n : ~Doing({"record"}, n)
    BY <1>0, <2>1, DoingOne DEF ClientAlone
  <2>3. ASSUME NEW p \in Pids, Unshare(p)' PROVE pidFile'[proc'[p].name] = p
    <3>1. Unshare(p) /\ proc'[p].name = proc[p].name /\ proc[p].name # l.name
      BY <2>1, <2>2, <2>3 DEF Unshare, Absent
    <3>2. pidFile[proc[p].name] = p
      BY <1>0, <2>2, <3>1 DEF Recorded
    <3>. QED  BY <2>1, <3>1, <3>2 DEF TypeOK, FilesOK
  <2>4. ClientAlone(pc[c], loc[c])'
    BY <2>1, ElsewhereAlone
  <2>. QED  BY <2>3, <2>4 DEF InstancesInv, Recorded, OneClient
<1>5. CASE ForgetSandbox(c)
  <2>1. pc[c] = "forget" /\ pc'[c] = "idle" /\ proc' = proc /\ pidFile' = pidFile
    BY <1>5, ExitLocals DEF ForgetSandbox
  <2>. QED  BY <2>1, SameProcs, ElsewhereAlone, InstancesKept
<1>. QED  BY <1>1, <1>2, <1>3, <1>4, <1>5 DEF StopStep

LEMMA ExecBegins ==
    ASSUME TypeOK, NEW c \in Clients, Exec(c)
    PROVE  /\ pc[c] = "idle" /\ pc'[c] = "xcheck" /\ UNCHANGED <<files, procs, net>>
           /\ loc'[c].name \in Names /\ ~loc'[c].restoring
<1>1. loc'[c].name \in Names /\ ~loc'[c].restoring
  BY DEF Exec, NoLocals, TypeOK, ClientsOK
<1>2. pc[c] = "idle" /\ Goto(c, "xcheck") /\ UNCHANGED <<files, procs, net>>
  BY DEF Exec
<1>. QED  BY <1>1, <1>2, GoesTo

\* The steps of exec -d and restore itself leave processes and pid files alone.
LEMMA ExecRestoreSteps ==
    ASSUME TypeOK, NEW c \in Clients,
           Exec(c) \/ ExecStep(c) \/ Restore(c) \/ RestoreStep(c)
    PROVE  /\ proc' = proc /\ pidFile' = pidFile /\ ipFile' = ipFile
           /\ alien' = alien /\ UNCHANGED net
           /\ pc[c] \in ExecPcs \cup {"idle", "rnext", "rlist", "rexec"}
           /\ pc'[c] \in ExecPcs \cup {"idle", "rnext", "rlist", "rexec", "check"}
<1>. USE DEF files, procs, ExecPcs
<1>0. pc \in [Clients -> Pcs]
  BY DEF TypeOK, ClientsOK
<1>1. CASE Exec(c) \/ ExecDir(c) \/ ExecWrite(c)
  <2>1. CASE Exec(c)
    BY <2>1, ExecBegins
  <2>2. CASE ExecDir(c)
    <3>1. Goto(c, "xrun") \/ Goto(c, "xcount")
      BY <2>2 DEF ExecDir
    <3>. QED  BY <2>2, <3>1, GoesTo DEF ExecDir
  <2>3. CASE ExecWrite(c)
    BY <2>3, GoesTo DEF ExecWrite
  <2>. QED  BY <1>1, <2>1, <2>2, <2>3
<1>2. CASE CheckExec(c) \/ ExecCount(c) \/ ExecRun(c)
  BY <1>0, <1>2, ExitLocals, ReturnLocals DEF CheckExec, ExecCount, ExecRun, Goto
<1>3. CASE Restore(c) \/ RestoreEnds(c) \/ RestoreList(c)
  BY <1>0, <1>3, ExitLocals DEF Restore, RestoreEnds, RestoreList, Goto
<1>4. CASE RestoreNext(c) \/ RestoreExec(c)
  <2>1. /\ proc' = proc /\ pidFile' = pidFile /\ ipFile' = ipFile /\ alien' = alien
        /\ UNCHANGED net /\ pc[c] \in {"rnext", "rexec"}
        /\ pc' = pc \/ Goto(c, "check") \/ Goto(c, "rnext") \/ Goto(c, "xcheck")
    <3>1. CASE RestoreNext(c)
      BY <3>1 DEF RestoreNext
    <3>2. CASE RestoreExec(c)
      BY <3>2 DEF RestoreExec
    <3>. QED  BY <1>4, <3>1, <3>2
  <2>. QED  BY <2>1, GoesTo
<1>. QED  BY <1>1, <1>2, <1>3, <1>4 DEF ExecStep, RestoreStep

LEMMA EnvironmentInstances ==
    ASSUME OneClient, TypeOK, InstancesInv,
           \/ \E p \in Pids : AgentUp(p) \/ SensorExits(p)
           \/ \E n \in Names : ChaosKill(n)
           \/ JobExits \/ Reboot \/ UplinkChanges
    PROVE  InstancesInv'
<1>. USE DEF files, procs
<1>1. CASE Reboot
  <2>1. /\ \A p \in Pids : ~Unshare(p)'
        /\ \A d \in Clients : pc'[d] = "idle"
    BY <1>1 DEF Reboot, Unshare
  <2>. QED  BY <2>1, ElsewhereAlone DEF InstancesInv, Recorded
<1>2. CASE ~Reboot
  <2>1. pidFile' = pidFile /\ pc' = pc /\ loc' = loc /\ FewerUnshares
    <3>1. ASSUME NEW p \in Pids, AgentUp(p)
          PROVE  pidFile' = pidFile /\ pc' = pc /\ loc' = loc /\ FewerUnshares
      BY <3>1 DEF AgentUp, FewerUnshares, Unshare, TypeOK, HostOK, Procs
    <3>2. ASSUME NEW p \in Pids, SensorExits(p)
          PROVE  pidFile' = pidFile /\ pc' = pc /\ loc' = loc /\ FewerUnshares
      BY <3>2 DEF SensorExits, FewerUnshares, Unshare, TypeOK, HostOK
    <3>3. ASSUME NEW n \in Names, ChaosKill(n)
          PROVE  pidFile' = pidFile /\ pc' = pc /\ loc' = loc /\ FewerUnshares
      <4>1. pidFile[n] \in Pids
        BY <3>3 DEF ChaosKill, Alive, TypeOK, FilesOK
      <4>. QED  BY <3>3, <4>1, KillFewer DEF ChaosKill
    <3>4. CASE JobExits \/ UplinkChanges
      BY <3>4, SameProcs DEF JobExits, UplinkChanges
    <3>. QED  BY <1>2, <3>1, <3>2, <3>3, <3>4
  <2>2. Recorded'
    BY <2>1 DEF InstancesInv, Recorded, FewerUnshares, Doing
  <2>3. ASSUME NEW d \in Clients PROVE ClientAlone(pc[d], loc[d])'
    <3>1. ClientAlone(pc[d], loc[d])
      BY DEF InstancesInv
    <3>. QED  BY <2>1, <3>1 DEF ClientAlone, FewerUnshares, Absent
  <2>. QED  BY <2>2, <2>3 DEF InstancesInv
<1>. QED  BY <1>1, <1>2

LEMMA InstancesNext ==
    ASSUME OneClient, NoSplitStart
    PROVE  TypeOK /\ InstancesInv /\ [Next]_vars => InstancesInv'
<1>. SUFFICES ASSUME TypeOK, InstancesInv, [Next]_vars PROVE InstancesInv'
  OBVIOUS
<1>1. CASE UNCHANGED vars
  BY <1>1 DEF vars, files, procs, InstancesInv, Recorded, ClientAlone, Absent, Unshare, Doing
<1>2. ASSUME NEW c \in Clients, Exec(c) \/ ExecStep(c) \/ Restore(c) \/ RestoreStep(c)
      PROVE  InstancesInv'
  <2>1. /\ proc' = proc /\ pidFile' = pidFile /\ pc[c] # "record"
        /\ pc'[c] \in ExecPcs \cup {"idle", "rnext", "rlist", "rexec", "check"}
    BY <1>2, ExecRestoreSteps DEF ExecPcs
  <2>. QED  BY <2>1, SameProcs, ElsewhereAlone, InstancesKept DEF ExecPcs
<1>3. ASSUME NEW c \in Clients, Interrupt(c) PROVE FALSE
  BY <1>3 DEF Interrupt, NoSplitStart
<1>. QED
  BY <1>1, <1>2, <1>3, StartStepInstances, StopStepInstances, EnvironmentInstances
     DEF Next, ClientStep

\* Restarts over stale pid files, restores, kills, failed starts and reboots never
\* lead to two containers of a sensor, even if pids are reused, as long as one
\* invocation runs at a time and a start that has launched one gets to record it.
THEOREM OneInstanceAlways ==
    ASSUME OneClient, NoSplitStart PROVE Spec => []OneInstance
<1>1. TypeOK /\ InstancesInv /\ [Next]_vars => InstancesInv'
  BY InstancesNext
<1>2. InstancesInv => OneInstance
  <2>. SUFFICES ASSUME InstancesInv, NEW p \in Pids, NEW q \in Pids, Unshare(p), Unshare(q),
                       proc[p].name = proc[q].name
                PROVE  p = q
    BY DEF OneInstance
  <2>1. CASE Doing({"record"}, proc[p].name)
    BY <2>1 DEF Doing, InstancesInv, ClientAlone
  <2>2. CASE ~Doing({"record"}, proc[p].name)
    BY <2>2 DEF InstancesInv, Recorded
  <2>. QED  BY <2>1, <2>2
<1>. QED  BY <1>1, <1>2, InstancesInit, TypeCorrect, PTL DEF Spec

-----------------------------------------------------------------------------
(* The commands that exec -d lists. *)

Listed(n, x) == \E s \in DOMAIN Table(n) : Table(n)[s] = x

SameTables == \A n \in Names : Table(n)' = Table(n)

LEMMA TableType == ASSUME TypeOK, NEW n \in Names PROVE Table(n) \in ExecTables
<1>1. CASE pers[n] = None \/ pers[n].execs = None
  <2>1. [s \in {} |-> None] \in [{} -> Cmds]
    OBVIOUS
  <2>. QED  BY <1>1, <2>1 DEF Table, ExecTables
<1>2. CASE ~(pers[n] = None \/ pers[n].execs = None)
  BY <1>2 DEF Table, TypeOK, FilesOK, Records
<1>. QED  BY <1>1, <1>2

LEMMA PersSame == ASSUME pers' = pers PROVE SameTables
BY DEF SameTables, Table

\* A persistent directory whose execs is replaced and one that is written.
LEMMA NewTable ==
    ASSUME TypeOK, NEW n \in Names, NEW r \in Records, pers' = [pers EXCEPT ![n] = r]
    PROVE  /\ pers'[n] = r /\ pers'[n] # None
           /\ Table(n)' = IF r.execs = None THEN [s \in {} |-> None] ELSE r.execs
           /\ \A m \in Names : m # n => pers'[m] = pers[m] /\ Table(m)' = Table(m)
<1>1. pers'[n] = r /\ r # None /\ \A m \in Names : m # n => pers'[m] = pers[m]
  BY NoneAssumption DEF TypeOK, FilesOK
<1>2. Table(n)' = IF r.execs = None THEN [s \in {} |-> None] ELSE r.execs
  BY <1>1 DEF Table
<1>3. ASSUME NEW m \in Names, m # n PROVE Table(m)' = Table(m)
  BY <1>1, <1>3 DEF Table
<1>. QED  BY <1>1, <1>2, <1>3

LEMMA PersistStartEffect ==
    ASSUME TypeOK, NEW c \in Clients, PersistStart(c), NEW n \in Names, n = loc[c].name
    PROVE  /\ pers'[n] # None /\ pers'[n].mac = loc[c].mac
           /\ \A m \in Names : m # n => pers'[m] = pers[m]
           /\ SameTables
<1>. DEFINE r == [ip |-> loc[c].ip, mac |-> loc[c].mac, cmd |-> TRUE,
                  execs |-> IF pers[n] = None THEN None ELSE pers[n].execs]
<1>1. pers' = [pers EXCEPT ![n] = r]
  BY DEF PersistStart
<1>2. r \in Records
  <2>1. loc[c].ip \in Ips \cup {None} /\ loc[c].mac \in BOOLEAN
    BY DEF TypeOK, ClientsOK, Locals
  <2>2. (IF pers[n] = None THEN None ELSE pers[n].execs) \in ExecTables \cup {None}
    BY DEF TypeOK, FilesOK, Records
  <2>. QED  BY <2>1, <2>2 DEF Records
<1>3. r.mac = loc[c].mac /\ r.execs = IF pers[n] = None THEN None ELSE pers[n].execs
  OBVIOUS
<1>. HIDE DEF r
<1>4. /\ pers'[n] = r /\ pers'[n] # None
      /\ Table(n)' = IF r.execs = None THEN [s \in {} |-> None] ELSE r.execs
      /\ \A m \in Names : m # n => pers'[m] = pers[m] /\ Table(m)' = Table(m)
  BY <1>1, <1>2, NewTable
<1>5. Table(n) = IF r.execs = None THEN [s \in {} |-> None] ELSE r.execs
  BY <1>3 DEF Table
<1>6. Table(n)' = Table(n)
  BY <1>4, <1>5
<1>7. SameTables
  BY <1>4, <1>6 DEF SameTables
<1>. QED  BY <1>3, <1>4, <1>7

LEMMA AgentUpTables ==
    ASSUME TypeOK, NEW p \in Pids, AgentUp(p)
    PROVE  /\ SameTables
           /\ \A n \in Names : \/ pers'[n] = pers[n]
                               \/ pers[n] = None /\ pers'[n] # None /\ proc[p].name = n
<1>1. CASE pers' = pers
  BY <1>1, PersSame
<1>2. CASE pers' # pers
  <2>1. proc[p].name \in Names
    BY DEF AgentUp, TypeOK, HostOK, Procs
  <2>2. PICK n \in Names : n = proc[p].name
    BY <2>1
  <2>3. pers[n] = None /\ pers' = [pers EXCEPT ![n] = Bare]
    BY <1>2, <2>2 DEF AgentUp
  <2>4. /\ pers'[n] # None /\ \A m \in Names : m # n => pers'[m] = pers[m] /\ Table(m)' = Table(m)
        /\ Table(n)' = IF Bare.execs = None THEN [s \in {} |-> None] ELSE Bare.execs
    BY <2>3, BareType, NewTable
  <2>5. Table(n)' = Table(n)
    BY <2>3, <2>4 DEF Bare, Table
  <2>. QED  BY <2>2, <2>3, <2>4, <2>5 DEF SameTables
<1>. QED  BY <1>1, <1>2

LEMMA ForgetEffect ==
    ASSUME TypeOK, NEW c \in Clients, ForgetSandbox(c), NEW n \in Names, n = loc[c].name
    PROVE  /\ pers'[n] = None /\ DOMAIN Table(n)' = {}
           /\ \A m \in Names : m # n => pers'[m] = pers[m] /\ Table(m)' = Table(m)
<1>1. pers'[n] = None /\ \A m \in Names : m # n => pers'[m] = pers[m]
  BY DEF ForgetSandbox, TypeOK, FilesOK
<1>2. ASSUME NEW m \in Names, m # n PROVE Table(m)' = Table(m)
  BY <1>1, <1>2 DEF Table
<1>3. Table(n)' = [s \in {} |-> None]
  BY <1>1 DEF Table
<1>. QED  BY <1>1, <1>2, <1>3

LEMMA ExecDirEffect ==
    ASSUME TypeOK, NEW c \in Clients, ExecDir(c), NEW n \in Names, n = loc[c].name
    PROVE  /\ SameTables
           /\ pers'[n] # None /\ pers'[n].execs # None
           /\ pers[n] # None => pers'[n].mac = pers[n].mac
           /\ \A m \in Names : m # n => pers'[m] = pers[m]
           /\ loc' = loc /\ pc[c] = "xdir"
           /\ \/ pc'[c] = "xrun" /\ Listed(n, loc[c].job)
              \/ pc'[c] = "xcount" /\ ~Listed(n, loc[c].job)
<1>. DEFINE r == [(IF pers[n] = None THEN Bare ELSE pers[n]) EXCEPT !.execs = Table(n)]
<1>1. /\ pers' = [pers EXCEPT ![n] = r] /\ pc[c] = "xdir" /\ loc' = loc
      /\ Goto(c, IF Listed(n, loc[c].job) THEN "xrun" ELSE "xcount")
  BY DEF ExecDir, MakeExecs, Listed
<1>2. /\ r \in Records /\ r.execs = Table(n) /\ Table(n) # None
      /\ pers[n] # None => r.mac = pers[n].mac
  <2>1. (IF pers[n] = None THEN Bare ELSE pers[n]) \in Records
    BY BareType DEF TypeOK, FilesOK
  <2>2. Table(n) \in ExecTables
    BY TableType
  <2>. QED  BY <2>1, <2>2, NoneAssumption DEF Records
<1>. HIDE DEF r
<1>3. /\ pers'[n] = r /\ pers'[n] # None
      /\ Table(n)' = IF r.execs = None THEN [s \in {} |-> None] ELSE r.execs
      /\ \A m \in Names : m # n => pers'[m] = pers[m] /\ Table(m)' = Table(m)
  BY <1>1, <1>2, NewTable
<1>4. /\ pers'[n] = r /\ pers'[n] # None /\ Table(n)' = Table(n)
      /\ \A m \in Names : m # n => pers'[m] = pers[m] /\ Table(m)' = Table(m)
  BY <1>2, <1>3
<1>5. SameTables
  BY <1>4 DEF SameTables
<1>6. pc'[c] = IF Listed(n, loc[c].job) THEN "xrun" ELSE "xcount"
  BY <1>1, GoesTo
<1>. QED  BY <1>1, <1>2, <1>4, <1>5, <1>6

LEMMA ExecCountEffect ==
    ASSUME TypeOK, NEW c \in Clients, ExecCount(c)
    PROVE  /\ UNCHANGED <<files, procs, net>> /\ pc[c] = "xcount" /\ pc'[c] = "xwrite"
           /\ loc'[c].name = loc[c].name /\ loc'[c].job = loc[c].job
           /\ loc'[c].pid = loc[c].pid
           /\ loc'[c].restoring = loc[c].restoring /\ loc'[c].todo = loc[c].todo
           /\ loc'[c].slot = Cardinality(DOMAIN Table(loc[c].name))
<1>1. /\ UNCHANGED <<files, procs, net>> /\ pc[c] = "xcount" /\ Goto(c, "xwrite")
      /\ loc' = [loc EXCEPT ![c].slot = Cardinality(DOMAIN Table(loc[c].name))]
  BY DEF ExecCount
<1>2. /\ loc'[c].name = loc[c].name /\ loc'[c].job = loc[c].job
      /\ loc'[c].pid = loc[c].pid
      /\ loc'[c].restoring = loc[c].restoring /\ loc'[c].todo = loc[c].todo
      /\ loc'[c].slot = Cardinality(DOMAIN Table(loc[c].name))
  BY <1>1 DEF TypeOK, ClientsOK, Locals
<1>. QED  BY <1>1, <1>2, GoesTo

LEMMA ExecWriteEffect ==
    ASSUME TypeOK, NEW c \in Clients, ExecWrite(c), NEW n \in Names, n = loc[c].name
    PROVE  /\ pc[c] = "xwrite" /\ pc'[c] = "xrun" /\ loc' = loc
           /\ \A m \in Names : m # n => pers'[m] = pers[m] /\ Table(m)' = Table(m)
           /\ pers[n] # None => pers'[n] # None /\ pers'[n].mac = pers[n].mac
           /\ \/ /\ pers' = pers /\ (pers[n] = None \/ pers[n].execs = None)
              \/ /\ pers[n] # None /\ pers[n].execs # None
                 /\ Table(n)' = [s \in DOMAIN Table(n) \cup {loc[c].slot} |->
                                   IF s = loc[c].slot THEN loc[c].job ELSE Table(n)[s]]
<1>1. pc[c] = "xwrite" /\ pc'[c] = "xrun" /\ loc' = loc
  BY GoesTo DEF ExecWrite
<1>2. CASE pers[n] = None \/ pers[n].execs = None
  <2>1. pers' = pers
    BY <1>2 DEF ExecWrite
  <2>. QED  BY <1>1, <1>2, <2>1, PersSame DEF SameTables
<1>3. CASE ~(pers[n] = None \/ pers[n].execs = None)
  <2>. DEFINE old   == pers[n].execs
              table == [s \in DOMAIN old \cup {loc[c].slot} |->
                          IF s = loc[c].slot THEN loc[c].job ELSE old[s]]
              r     == [pers[n] EXCEPT !.execs = table]
  <2>1. Table(n) = old /\ pers' = [pers EXCEPT ![n] = r]
    BY <1>3 DEF ExecWrite, Table
  <2>2. table \in ExecTables
    <3>1. PICK S \in SUBSET Slots : old \in [S -> Cmds]
      BY <1>3 DEF TypeOK, FilesOK, Records, ExecTables
    <3>2. loc[c].slot \in Slots /\ loc[c].job \in Cmds
      BY <1>1, ClientKnows DEF ClientOK, ExecPcs, Locals
    <3>3. table \in [S \cup {loc[c].slot} -> Cmds] /\ S \cup {loc[c].slot} \in SUBSET Slots
      BY <3>1, <3>2
    <3>. QED  BY <3>3 DEF ExecTables
  <2>. HIDE DEF table
  <2>3. r \in Records /\ r.execs = table /\ r.mac = pers[n].mac /\ table # None
    BY <1>3, <2>2, NoneAssumption DEF TypeOK, FilesOK, Records
  <2>. HIDE DEF r
  <2>4. /\ pers'[n] = r /\ pers'[n] # None /\ Table(n)' = table
        /\ \A m \in Names : m # n => pers'[m] = pers[m] /\ Table(m)' = Table(m)
    BY <2>1, <2>3, NewTable
  <2>5. table = [s \in DOMAIN Table(n) \cup {loc[c].slot} |->
                   IF s = loc[c].slot THEN loc[c].job ELSE Table(n)[s]]
    BY <2>1 DEF table
  <2>. QED  BY <1>1, <1>3, <2>3, <2>4, <2>5
<1>. QED  BY <1>2, <1>3

\* What start, stop and restore do to processes, pid files and tables.
LEMMA StartKeeps ==
    ASSUME TypeOK, NEW c \in Clients, Start(c) \/ StartStep(c)
    PROVE  /\ jobs' = jobs /\ SameTables
           /\ pc'[c] \in (StartPcs \ {"record"}) \cup {"idle", "rlist"} \/ Launch(c)
           /\ \/ Launch(c) \/ RecordStart(c)
              \/ proc' = proc /\ \A n \in Names : pidFile'[n] \in {pidFile[n], None}
<1>. USE DEF files, procs
<1>1. CASE Start(c)
  <2>1. pc'[c] = "check" /\ UNCHANGED <<files, procs>>
    BY <1>1, StartBegins
  <2>. QED  BY <2>1, PersSame DEF StartPcs
<1>2. CASE CheckStart(c)
  <2>1. CASE Exit(c) /\ UNCHANGED files
    BY <1>2, <2>1, ExitLocals, PersSame DEF CheckStart
  <2>2. CASE ~(Exit(c) /\ UNCHANGED files)
    <3>1. /\ pidFile' = [pidFile EXCEPT ![loc[c].name] = None]
          /\ pers' = pers /\ proc' = proc /\ jobs' = jobs /\ pc'[c] \in {"pickid", "launch"}
      BY <1>2, <2>2, CheckStartGoesOn
    <3>2. \A n \in Names : pidFile'[n] \in {pidFile[n], None}
      BY <3>1 DEF TypeOK, FilesOK
    <3>. QED  BY <3>1, <3>2, PersSame DEF StartPcs
  <2>. QED  BY <2>1, <2>2
<1>3. CASE PickId(c)
  <2>1. Goto(c, "claimid") /\ UNCHANGED <<files, procs>>
    BY <1>3 DEF PickId
  <2>. QED  BY <2>1, GoesTo, PersSame DEF StartPcs
<1>4. CASE ClaimId(c)
  <2>1. Goto(c, "launch") /\ UNCHANGED <<pidFile, pers, procs>>
    BY <1>4 DEF ClaimId
  <2>. QED  BY <2>1, GoesTo, PersSame DEF StartPcs
<1>5. CASE NoIdLeft(c) \/ LaunchFails(c) \/ MacvlanRefused(c)
  <2>1. Exit(c) /\ UNCHANGED <<pidFile, pers, procs>>
    BY <1>5 DEF NoIdLeft, LaunchFails, MacvlanRefused
  <2>. QED  BY <2>1, ExitLocals, PersSame
<1>6. CASE Launch(c)
  BY <1>6, PersSame DEF Launch
<1>7. CASE RecordStart(c)
  <2>1. Goto(c, "persist") /\ UNCHANGED <<pers, procs>>
    BY <1>7 DEF RecordStart
  <2>. QED  BY <1>7, <2>1, GoesTo, PersSame DEF StartPcs
<1>8. CASE PersistStart(c)
  <2>1. Goto(c, "bridge") /\ UNCHANGED <<pidFile, procs>> /\ loc[c].name \in Names
    BY <1>8, ClientKnows DEF PersistStart, StartPcs
  <2>2. SameTables
    BY <1>8, <2>1, PersistStartEffect
  <2>. QED  BY <2>1, <2>2, GoesTo DEF StartPcs
<1>9. CASE SetupBridge(c) \/ AddVeth(c)
  <2>1. (Goto(c, "veth") \/ Goto(c, "plug")) /\ UNCHANGED <<files, procs>>
    BY <1>9 DEF SetupBridge, AddVeth
  <2>. QED  BY <2>1, GoesTo, PersSame DEF StartPcs
<1>10. CASE SetupMacvlan(c) \/ PlugVeth(c)
  <2>1. Return(c, "rlist") /\ UNCHANGED <<files, procs>>
    BY <1>10 DEF SetupMacvlan, PlugVeth
  <2>. QED  BY <2>1, ReturnLocals, PersSame
<1>. QED
  BY <1>1, <1>2, <1>3, <1>4, <1>5, <1>6, <1>7, <1>8, <1>9, <1>10 DEF StartStep

LEMMA StopKeeps ==
    ASSUME TypeOK, NEW c \in Clients, Stop(c) \/ StopStep(c)
    PROVE  /\ jobs' = jobs /\ FewerUnshares
           /\ pers' = pers \/ ForgetSandbox(c)
           /\ pc'[c] \in StopPcs \cup {"idle"}
           /\ pc'[c] = "forget" => CleanState(c)
           /\ \A n \in Names : pidFile'[n] \in {pidFile[n], None}
<1>. USE DEF files, procs, StopPcs
<1>1. CASE Stop(c)
  <2>1. pc'[c] = "kill" /\ UNCHANGED <<files, procs>>
    BY <1>1, StopBegins
  <2>. QED  BY <2>1, SameProcs
<1>2. CASE KillSandbox(c)
  <2>1. Goto(c, "unplug") /\ UNCHANGED <<files, jobs>> /\ KillPid(loc[c].pid)
        /\ loc[c].pid \in Pids
    BY <1>2, ClientKnows DEF KillSandbox, ClientOK
  <2>. QED  BY <2>1, GoesTo, KillFewer
<1>3. CASE DelVeth(c) \/ CountPorts(c) \/ DelBridge(c)
  <2>1. /\ Goto(c, "count") \/ Goto(c, "delbridge") \/ Goto(c, "clean")
        /\ UNCHANGED <<files, procs>>
    BY <1>3 DEF DelVeth, CountPorts, DelBridge
  <2>. QED  BY <2>1, GoesTo, SameProcs
<1>4. CASE CleanState(c)
  <2>1. /\ Goto(c, "forget") /\ UNCHANGED <<pers, procs>>
        /\ pidFile' = [pidFile EXCEPT ![loc[c].name] = None]
    BY <1>4 DEF CleanState
  <2>2. \A n \in Names : pidFile'[n] \in {pidFile[n], None}
    BY <2>1 DEF TypeOK, FilesOK
  <2>. QED  BY <1>4, <2>1, <2>2, GoesTo, SameProcs
<1>5. CASE ForgetSandbox(c)
  <2>1. Exit(c) /\ UNCHANGED <<pidFile, procs>>
    BY <1>5 DEF ForgetSandbox
  <2>. QED  BY <1>5, <2>1, ExitLocals, SameProcs
<1>. QED  BY <1>1, <1>2, <1>3, <1>4, <1>5 DEF StopStep

LEMMA RestoreKeeps ==
    ASSUME TypeOK, NEW c \in Clients, Restore(c) \/ RestoreStep(c)
    PROVE  /\ UNCHANGED <<files, procs, net>>
           /\ pc[c] \in {"idle", "rnext", "rlist", "rexec"}
           /\ pc'[c] \in {"idle", "rnext", "rexec", "check", "xcheck"}
<1>1. CASE Restore(c)
  <2>1. pc[c] = "idle" /\ Goto(c, "rnext") /\ UNCHANGED <<files, procs, net>>
    BY <1>1 DEF Restore
  <2>. QED  BY <2>1, GoesTo
<1>2. CASE RestoreNext(c)
  <2>1. /\ pc[c] = "rnext" /\ UNCHANGED <<files, procs, net>>
        /\ pc' = pc \/ Goto(c, "check")
    BY <1>2 DEF RestoreNext
  <2>. QED  BY <2>1, GoesTo
<1>3. CASE RestoreEnds(c)
  <2>1. pc[c] = "rnext" /\ Exit(c) /\ UNCHANGED <<files, procs, net>>
    BY <1>3 DEF RestoreEnds
  <2>. QED  BY <2>1, ExitLocals
<1>4. CASE RestoreList(c)
  <2>1. pc[c] = "rlist" /\ Goto(c, "rexec") /\ UNCHANGED <<files, procs, net>>
    BY <1>4 DEF RestoreList
  <2>. QED  BY <2>1, GoesTo
<1>5. CASE RestoreExec(c)
  <2>1. /\ pc[c] = "rexec" /\ UNCHANGED <<files, procs, net>>
        /\ Goto(c, "rnext") \/ Goto(c, "xcheck")
    BY <1>5 DEF RestoreExec
  <2>. QED  BY <2>1, GoesTo
<1>. QED  BY <1>1, <1>2, <1>3, <1>4, <1>5 DEF RestoreStep

LEMMA CheckExecGoesOn ==
    ASSUME TypeOK, NEW c \in Clients, CheckExec(c)
    PROVE  /\ pc[c] = "xcheck" /\ UNCHANGED <<files, procs, net>>
           /\ \/ ~Alive(pidFile[loc[c].name]) /\ pc'[c] = "idle" /\ loc'[c] = NoLocals
              \/ /\ Alive(pidFile[loc[c].name]) /\ pc'[c] = "xdir"
                 /\ loc'[c].name = loc[c].name /\ loc'[c].pid = pidFile[loc[c].name]
                 /\ loc'[c].restoring = loc[c].restoring /\ loc'[c].todo = loc[c].todo
<1>1. pc[c] = "xcheck" /\ UNCHANGED <<files, procs, net>>
  BY DEF CheckExec
<1>2. CASE Alive(pidFile[loc[c].name])
  <2>1. Goto(c, "xdir") /\ loc' = [loc EXCEPT ![c].pid = pidFile[loc[c].name]]
    BY <1>2 DEF CheckExec
  <2>2. /\ loc'[c].name = loc[c].name /\ loc'[c].pid = pidFile[loc[c].name]
        /\ loc'[c].restoring = loc[c].restoring /\ loc'[c].todo = loc[c].todo
    BY <2>1 DEF TypeOK, ClientsOK, Locals
  <2>. QED  BY <1>1, <1>2, <2>1, <2>2, GoesTo
<1>3. CASE ~Alive(pidFile[loc[c].name])
  <2>1. Exit(c)
    BY <1>3 DEF CheckExec
  <2>. QED  BY <1>1, <1>3, <2>1, ExitLocals
<1>. QED  BY <1>2, <1>3

Adding == {"xcount", "xwrite"}

\* No command twice in a table, and none that the invocation is about to add.
ListedOnce ==
    /\ \A n \in Names : \A s, t \in DOMAIN Table(n) : Table(n)[s] = Table(n)[t] => s = t
    /\ \A c \in Clients : pc[c] \in Adding => ~Listed(loc[c].name, loc[c].job)

LEMMA ListedOnceKept ==
    ASSUME TypeOK, ListedOnce, SameTables,
           \A c \in Clients : pc'[c] \in Adding => pc[c] = pc'[c] /\ loc'[c] = loc[c]
    PROVE  ListedOnce'
<1>1. ASSUME NEW n \in Names, NEW s \in DOMAIN Table(n)', NEW t \in DOMAIN Table(n)',
             Table(n)'[s] = Table(n)'[t]
      PROVE  s = t
  BY <1>1 DEF ListedOnce, SameTables
<1>2. ASSUME NEW c \in Clients, pc'[c] \in Adding PROVE ~Listed(loc[c].name, loc[c].job)'
  <2>1. loc[c].name \in Names /\ ~Listed(loc[c].name, loc[c].job)
    BY <1>2, ClientKnows DEF ListedOnce, ExecPcs, Adding
  <2>2. PICK n \in Names : n = loc[c].name
    BY <2>1
  <2>3. PICK x : x = loc[c].job
    OBVIOUS
  <2>4. Table(n)' = Table(n) /\ ~Listed(n, x)
    BY <2>1, <2>2, <2>3 DEF SameTables
  <2>5. loc'[c].name = n /\ loc'[c].job = x
    BY <1>2, <2>2, <2>3
  <2>6. ~(\E s \in DOMAIN Table(n)' : Table(n)'[s] = x)
    BY <2>4 DEF Listed
  <2>. QED  BY <2>5, <2>6 DEF Listed
<1>. QED  BY <1>1, <1>2 DEF ListedOnce

\* What happens outside the invocations: a reboot, and what does less than that.
Happens ==
    \/ \E p \in Pids : AgentUp(p) \/ SensorExits(p)
    \/ \E n \in Names : ChaosKill(n)
    \/ JobExits \/ UplinkChanges

LEMMA EnvironmentKeeps ==
    ASSUME TypeOK, Happens
    PROVE  /\ UNCHANGED <<pidFile, ipFile, idFile, bridges, pc, loc>>
           /\ SameTables /\ FewerUnshares /\ jobs' \subseteq jobs
           /\ \A n \in Names : pers[n] = None \/ pers'[n] = pers[n]
<1>. USE DEF files, procs, net
<1>1. ASSUME NEW p \in Pids, AgentUp(p)
      PROVE  /\ UNCHANGED <<pidFile, ipFile, idFile, bridges, pc, loc>>
             /\ SameTables /\ FewerUnshares /\ jobs' \subseteq jobs
             /\ \A n \in Names : pers[n] = None \/ pers'[n] = pers[n]
  <2>1. UNCHANGED <<pidFile, ipFile, idFile, jobs, bridges, pc, loc>>
    BY <1>1 DEF AgentUp
  <2>2. FewerUnshares
    BY <1>1 DEF AgentUp, FewerUnshares, Unshare, TypeOK, HostOK, Procs
  <2>. QED  BY <1>1, <2>1, <2>2, AgentUpTables
<1>2. ASSUME NEW p \in Pids, SensorExits(p)
      PROVE  /\ UNCHANGED <<pidFile, ipFile, idFile, bridges, pc, loc>>
             /\ SameTables /\ FewerUnshares /\ jobs' \subseteq jobs
             /\ \A n \in Names : pers[n] = None \/ pers'[n] = pers[n]
  <2>1. UNCHANGED <<pidFile, ipFile, idFile, pers, jobs, bridges, pc, loc>>
    BY <1>2 DEF SensorExits
  <2>2. FewerUnshares
    BY <1>2 DEF SensorExits, FewerUnshares, Unshare, TypeOK, HostOK
  <2>. QED  BY <2>1, <2>2, PersSame
<1>3. ASSUME NEW n \in Names, ChaosKill(n)
      PROVE  /\ UNCHANGED <<pidFile, ipFile, idFile, bridges, pc, loc>>
             /\ SameTables /\ FewerUnshares /\ jobs' \subseteq jobs
             /\ \A m \in Names : pers[m] = None \/ pers'[m] = pers[m]
  <2>1. UNCHANGED <<pidFile, ipFile, idFile, pers, jobs, bridges, pc, loc>>
    BY <1>3 DEF ChaosKill
  <2>2. pidFile[n] \in Pids /\ KillPid(pidFile[n])
    BY <1>3 DEF ChaosKill, Alive, TypeOK, FilesOK
  <2>. QED  BY <2>1, <2>2, KillFewer, PersSame
<1>4. CASE JobExits
  <2>1. UNCHANGED <<pidFile, ipFile, idFile, pers, proc, bridges, pc, loc>> /\ jobs' \subseteq jobs
    BY <1>4 DEF JobExits
  <2>. QED  BY <2>1, SameProcs, PersSame
<1>5. CASE UplinkChanges
  <2>1. UNCHANGED <<pidFile, ipFile, idFile, pers, proc, jobs, bridges, pc, loc>>
    BY <1>5 DEF UplinkChanges
  <2>. QED  BY <2>1, SameProcs, PersSame
<1>. QED  BY <1>1, <1>2, <1>3, <1>4, <1>5 DEF Happens

LEMMA RebootKeeps ==
    ASSUME Reboot
    PROVE  /\ pers' = pers /\ jobs' = {} /\ bridges' = {} /\ macvlan' = {}
           /\ \A p \in Pids : proc'[p] = None
           /\ \A n \in Names : veth'[n] = None
           /\ \A c \in Clients : pc'[c] = "idle" /\ loc'[c] = NoLocals
BY DEF Reboot

LEMMA ListedOnceInit == Init => ListedOnce
BY DEF Init, ListedOnce, Table, Adding

LEMMA ListedOnceNext ==
    ASSUME OneClient
    PROVE  TypeOK /\ ListedOnce /\ [Next]_vars => ListedOnce'
<1>. SUFFICES ASSUME TypeOK, ListedOnce, [Next]_vars PROVE ListedOnce'
  OBVIOUS
<1>1. ASSUME NEW c \in Clients, SameTables, pc'[c] \notin Adding PROVE ListedOnce'
  BY <1>1, ListedOnceKept DEF OneClient
<1>2. CASE UNCHANGED vars
  <2>1. pers' = pers /\ pc' = pc /\ loc' = loc
    BY <1>2 DEF vars, files
  <2>. QED  BY <2>1, PersSame, ListedOnceKept
<1>3. ASSUME NEW c \in Clients, Start(c) \/ StartStep(c) PROVE ListedOnce'
  <2>1. SameTables /\ pc'[c] \notin Adding
    BY <1>3, StartKeeps, GoesTo DEF StartPcs, Launch, Adding
  <2>. QED  BY <1>1, <2>1
<1>4. ASSUME NEW c \in Clients, Stop(c) \/ StopStep(c) PROVE ListedOnce'
  <2>1. pc'[c] \notin Adding /\ (pers' = pers \/ ForgetSandbox(c))
    BY <1>4, StopKeeps DEF StopPcs, Adding
  <2>2. CASE pers' = pers
    BY <1>1, <2>1, <2>2, PersSame
  <2>3. CASE ForgetSandbox(c)
    <3>1. PICK n \in Names : n = loc[c].name
      BY <2>3, ClientKnows DEF ForgetSandbox, StopPcs
    <3>2. DOMAIN Table(n)' = {} /\ \A m \in Names : m # n => Table(m)' = Table(m)
      BY <2>3, <3>1, ForgetEffect
    <3>3. ASSUME NEW m \in Names, NEW s \in DOMAIN Table(m)', NEW t \in DOMAIN Table(m)',
                 Table(m)'[s] = Table(m)'[t]
          PROVE  s = t
      BY <3>2, <3>3 DEF ListedOnce
    <3>. QED  BY <2>1, <3>3 DEF ListedOnce, OneClient
  <2>. QED  BY <2>1, <2>2, <2>3
<1>5. ASSUME NEW c \in Clients, Restore(c) \/ RestoreStep(c) PROVE ListedOnce'
  <2>1. pers' = pers /\ pc'[c] \notin Adding
    BY <1>5, RestoreKeeps DEF files, Adding
  <2>. QED  BY <1>1, <2>1, PersSame
<1>6. ASSUME NEW c \in Clients, Exec(c) \/ CheckExec(c) \/ ExecRun(c) PROVE ListedOnce'
  <2>1. pers' = pers /\ pc'[c] \notin Adding
    BY <1>6, ExecBegins, CheckExecGoesOn, ReturnLocals DEF files, ExecRun, Adding
  <2>. QED  BY <1>1, <2>1, PersSame
<1>7. ASSUME NEW c \in Clients, ExecDir(c) \/ ExecCount(c) PROVE ListedOnce'
  <2>1. PICK n \in Names, x \in {loc[c].job} : n = loc[c].name /\ x = loc[c].job
    BY <1>7, ClientKnows DEF ExecDir, ExecCount, ExecPcs
  <2>2. /\ SameTables /\ loc'[c].name = n /\ loc'[c].job = x
        /\ pc'[c] \in Adding => ~Listed(n, x)
    <3>1. CASE ExecDir(c)
      BY <2>1, <3>1, ExecDirEffect DEF Adding
    <3>2. CASE ExecCount(c)
      BY <2>1, <3>2, ExecCountEffect, PersSame DEF ListedOnce, Adding, files
    <3>. QED  BY <1>7, <3>1, <3>2
  <2>3. CASE pc'[c] \notin Adding
    BY <1>1, <2>2, <2>3
  <2>4. CASE pc'[c] \in Adding
    <3>1. Table(n)' = Table(n) /\ ~(\E s \in DOMAIN Table(n) : Table(n)[s] = x)
      BY <2>2, <2>4 DEF SameTables, Listed
    <3>2. ~Listed(loc[c].name, loc[c].job)'
      BY <2>2, <3>1 DEF Listed
    <3>3. ASSUME NEW m \in Names, NEW s \in DOMAIN Table(m)', NEW t \in DOMAIN Table(m)',
                 Table(m)'[s] = Table(m)'[t]
          PROVE  s = t
      BY <2>2, <3>3 DEF ListedOnce, SameTables
    <3>. QED  BY <3>2, <3>3 DEF ListedOnce, OneClient
  <2>. QED  BY <2>3, <2>4
<1>8. ASSUME NEW c \in Clients, ExecWrite(c) PROVE ListedOnce'
  <2>1. PICK n \in Names : n = loc[c].name
    BY <1>8, ClientKnows DEF ExecWrite, ExecPcs
  <2>2. /\ pc[c] = "xwrite" /\ pc'[c] = "xrun" /\ loc' = loc
        /\ \A m \in Names : m # n => Table(m)' = Table(m)
        /\ \/ pers' = pers
           \/ Table(n)' = [s \in DOMAIN Table(n) \cup {loc[c].slot} |->
                             IF s = loc[c].slot THEN loc[c].job ELSE Table(n)[s]]
    BY <1>8, <2>1, ExecWriteEffect
  <2>3. CASE pers' = pers
    BY <1>1, <2>2, <2>3, PersSame DEF Adding
  <2>4. CASE Table(n)' = [s \in DOMAIN Table(n) \cup {loc[c].slot} |->
                            IF s = loc[c].slot THEN loc[c].job ELSE Table(n)[s]]
    <3>1. ~(\E s \in DOMAIN Table(n) : Table(n)[s] = loc[c].job)
      BY <2>1, <2>2 DEF ListedOnce, Listed, Adding
    <3>2. \A s, t \in DOMAIN Table(n) : Table(n)[s] = Table(n)[t] => s = t
      BY DEF ListedOnce
    <3>3. ASSUME NEW m \in Names, NEW s \in DOMAIN Table(m)', NEW t \in DOMAIN Table(m)',
                 Table(m)'[s] = Table(m)'[t]
          PROVE  s = t
      <4>1. CASE m # n
        BY <2>2, <3>3, <4>1 DEF ListedOnce
      <4>2. CASE m = n
        BY <2>4, <3>1, <3>2, <3>3, <4>2
      <4>. QED  BY <4>1, <4>2
    <3>. QED  BY <2>2, <3>3 DEF ListedOnce, OneClient, Adding
  <2>. QED  BY <2>2, <2>3, <2>4
<1>9. ASSUME NEW c \in Clients, Interrupt(c) PROVE ListedOnce'
  <2>1. pers' = pers /\ pc'[c] \notin Adding
    BY <1>9, ExitLocals DEF Interrupt, files, Adding
  <2>. QED  BY <1>1, <2>1, PersSame
<1>10. CASE Happens
  BY <1>10, EnvironmentKeeps, ListedOnceKept
<1>11. CASE Reboot
  BY <1>11, RebootKeeps, PersSame, ListedOnceKept DEF Adding
<1>. QED
  BY <1>2, <1>3, <1>4, <1>5, <1>6, <1>7, <1>8, <1>9, <1>10, <1>11
     DEF Next, ClientStep, ExecStep, Happens

\* However often restore runs the commands that are listed, and whatever fails or
\* is interrupted, exec -d lists a command of a sensor once, as long as no other
\* invocation lists one between its look at the list and its addition to it.
THEOREM ExecsListedOnceAlways == ASSUME OneClient PROVE Spec => []ExecsListedOnce
<1>1. TypeOK /\ ListedOnce /\ [Next]_vars => ListedOnce'
  BY ListedOnceNext
<1>2. ListedOnce => ExecsListedOnce
  BY DEF ListedOnce, ExecsListedOnce, Table
<1>. QED  BY <1>1, <1>2, ListedOnceInit, TypeCorrect, PTL DEF Spec

\* Files are numbered without gaps, and what runs in a recorded sensor is listed.
Numbered == \A n \in Names : \E k \in Nat : DOMAIN Table(n) = 0..(k - 1)

JobsListed ==
    \A p \in Pids, x \in Cmds :
        <<p, x>> \in jobs /\ Unshare(p) /\ pidFile[proc[p].name] = p => Listed(proc[p].name, x)

ClientLists(label, l) ==
    /\ label = "record" => ~HasJobs(l.pid)
    /\ label \in Adding => pers[l.name] # None /\ pers[l.name].execs # None
    /\ label = "xwrite" => /\ l.slot \in Nat /\ DOMAIN Table(l.name) = 0..(l.slot - 1)
    /\ label = "xrun" => Listed(l.name, l.job)
    /\ label = "forget" => pidFile[l.name] = None

JobsInv == Numbered /\ JobsListed /\ \A c \in Clients : ClientLists(pc[c], loc[c])

LEMMA ElsewhereLists ==
    ASSUME NEW c \in Clients, pc'[c] \notin {"record", "xcount", "xwrite", "xrun", "forget"}
    PROVE  ClientLists(pc[c], loc[c])'
BY DEF ClientLists, Adding

LEMMA NumberedKept == ASSUME Numbered, SameTables PROVE Numbered'
BY DEF Numbered, SameTables

\* Every command in a recorded sensor was in it before.
LEMMA JobsListedKept ==
    ASSUME TypeOK, JobsListed, SameTables,
           \A p \in Pids, x \in Cmds :
              <<p, x>> \in jobs' /\ Unshare(p)' /\ pidFile'[proc'[p].name] = p =>
                 /\ <<p, x>> \in jobs /\ Unshare(p) /\ pidFile[proc[p].name] = p
                 /\ proc'[p].name = proc[p].name
    PROVE  JobsListed'
<1>1. ASSUME NEW p \in Pids, NEW x \in Cmds,
             <<p, x>> \in jobs', Unshare(p)', pidFile'[proc'[p].name] = p
      PROVE  Listed(proc[p].name, x)'
  <2>1. /\ Unshare(p) /\ proc'[p].name = proc[p].name /\ proc[p].name \in Names
        /\ Listed(proc[p].name, x)
    BY <1>1 DEF JobsListed, Unshare, TypeOK, HostOK, Procs
  <2>2. PICK n \in Names : n = proc[p].name
    BY <2>1
  <2>3. \E s \in DOMAIN Table(n) : Table(n)[s] = x
    BY <2>1, <2>2 DEF Listed
  <2>4. Table(n)' = Table(n) /\ proc'[p].name = n
    BY <2>1, <2>2 DEF SameTables
  <2>5. \E s \in DOMAIN Table(n)' : Table(n)'[s] = x
    BY <2>3, <2>4
  <2>. QED  BY <2>4, <2>5 DEF Listed
<1>. QED  BY <1>1 DEF JobsListed, Unshare

LEMMA JobsInvKept ==
    ASSUME OneClient, TypeOK, JobsInv, SameTables, FewerUnshares, jobs' \subseteq jobs,
           \A n \in Names : pidFile'[n] \in {pidFile[n], None},
           NEW c \in Clients, ClientLists(pc[c], loc[c])'
    PROVE  JobsInv'
<1>0. \A p \in Pids, x \in Cmds :
         <<p, x>> \in jobs' /\ Unshare(p)' /\ pidFile'[proc'[p].name] = p =>
            /\ <<p, x>> \in jobs /\ Unshare(p) /\ pidFile[proc[p].name] = p
            /\ proc'[p].name = proc[p].name
  <2>1. ASSUME NEW p \in Pids, NEW x \in Cmds,
               <<p, x>> \in jobs', Unshare(p)', pidFile'[proc'[p].name] = p
        PROVE  /\ <<p, x>> \in jobs /\ Unshare(p) /\ pidFile[proc[p].name] = p
               /\ proc'[p].name = proc[p].name
    <3>1. Unshare(p) /\ proc'[p].name = proc[p].name /\ <<p, x>> \in jobs
      BY <2>1 DEF FewerUnshares
    <3>2. proc[p].name \in Names /\ p # None
      BY <3>1, NoneAssumption DEF Unshare, TypeOK, HostOK, Procs
    <3>. QED  BY <2>1, <3>1, <3>2
  <2>. QED  BY <2>1
<1>1. Numbered' /\ JobsListed'
  BY <1>0, NumberedKept, JobsListedKept DEF JobsInv
<1>. QED  BY <1>1 DEF JobsInv, OneClient

LEMMA LaunchEffect ==
    ASSUME TypeOK, NEW c \in Clients, Launch(c)
    PROVE  /\ pc[c] = "launch" /\ pc'[c] = "record" /\ UNCHANGED <<files, jobs, alien, net>>
           /\ loc'[c].name = loc[c].name /\ loc'[c].ip = loc[c].ip /\ loc'[c].mac = loc[c].mac
           /\ loc'[c].restoring = loc[c].restoring /\ loc'[c].todo = loc[c].todo
           /\ \E p, q \in Pids :
                 /\ FreePid(p) /\ FreePid(q) /\ ("helper" \notin Faults => q = p)
                 /\ loc'[c].pid = q /\ proc'[p] = [name |-> loc[c].name, stage |-> "setup"]
                 /\ \A r \in Pids : r # p => proc'[r] = proc[r]
<1>1. PICK p, q \in Pids :
        /\ FreePid(p) /\ FreePid(q) /\ ("helper" \notin Faults => q = p)
        /\ proc' = [proc EXCEPT ![p] = [name |-> loc[c].name, stage |-> "setup"]]
        /\ loc' = [loc EXCEPT ![c].pid = q]
  BY DEF Launch
<1>2. /\ loc'[c].name = loc[c].name /\ loc'[c].ip = loc[c].ip /\ loc'[c].mac = loc[c].mac
      /\ loc'[c].restoring = loc[c].restoring /\ loc'[c].todo = loc[c].todo
      /\ loc'[c].pid = q
  BY <1>1 DEF TypeOK, ClientsOK, Locals
<1>3. pc[c] = "launch" /\ Goto(c, "record") /\ UNCHANGED <<files, jobs, alien, net>>
  BY DEF Launch
<1>4. /\ proc'[p] = [name |-> loc[c].name, stage |-> "setup"]
      /\ \A r \in Pids : r # p => proc'[r] = proc[r]
  BY <1>1 DEF TypeOK, HostOK
<1>. QED  BY <1>1, <1>2, <1>3, <1>4, GoesTo

LEMMA RecordEffect ==
    ASSUME TypeOK, NEW c \in Clients, RecordStart(c), NEW n \in Names, n = loc[c].name
    PROVE  /\ pc[c] = "record" /\ pc'[c] = "persist" /\ loc' = loc
           /\ UNCHANGED <<idFile, pers, procs, net>>
           /\ pidFile'[n] = loc[c].pid /\ ipFile'[n] = loc[c].ip
           /\ \A m \in Names : m # n => pidFile'[m] = pidFile[m] /\ ipFile'[m] = ipFile[m]
<1>1. pc[c] = "record" /\ Goto(c, "persist") /\ loc' = loc /\ UNCHANGED <<idFile, pers, procs, net>>
  BY DEF RecordStart
<1>2. /\ pidFile'[n] = loc[c].pid /\ ipFile'[n] = loc[c].ip
      /\ \A m \in Names : m # n => pidFile'[m] = pidFile[m] /\ ipFile'[m] = ipFile[m]
  BY DEF RecordStart, TypeOK, FilesOK
<1>. QED  BY <1>1, <1>2, GoesTo

LEMMA StartStepJobs ==
    ASSUME OneClient, NoReuse, TypeOK, PidsOwn, JobsInv, NEW c \in Clients,
           Start(c) \/ StartStep(c)
    PROVE  JobsInv'
<1>. USE DEF files, procs
<1>1. CASE Launch(c)
  <2>1. PICK p, q \in Pids :
          /\ FreePid(p) /\ FreePid(q) /\ pc'[c] = "record" /\ loc'[c].pid = q
          /\ \A r \in Pids : r # p => proc'[r] = proc[r]
          /\ pers' = pers /\ pidFile' = pidFile /\ jobs' = jobs
    BY <1>1, LaunchEffect
  <2>2. ClientLists(pc[c], loc[c])'
    BY <2>1 DEF ClientLists, FreePid, HasJobs, Adding
  <2>3. ASSUME NEW r \in Pids, NEW x \in Cmds,
               <<r, x>> \in jobs', Unshare(r)', pidFile'[proc'[r].name] = r
        PROVE  /\ <<r, x>> \in jobs /\ Unshare(r) /\ pidFile[proc[r].name] = r
               /\ proc'[r].name = proc[r].name
    <3>1. r # p /\ proc'[r] = proc[r]
      BY <2>1, <2>3 DEF FreePid, HasJobs
    <3>. QED  BY <2>1, <2>3, <3>1 DEF Unshare
  <2>4. JobsListed'
    BY <2>1, <2>3, PersSame, JobsListedKept DEF JobsInv
  <2>. QED  BY <2>1, <2>2, <2>4, PersSame, NumberedKept DEF JobsInv, OneClient
<1>2. CASE RecordStart(c)
  <2>1. PICK n \in Names : n = loc[c].name
    BY <1>2, ClientKnows DEF RecordStart, StartPcs
  <2>2. /\ pc[c] = "record" /\ pc'[c] = "persist"
        /\ pers' = pers /\ jobs' = jobs /\ proc' = proc
        /\ pidFile'[n] = loc[c].pid /\ \A m \in Names : m # n => pidFile'[m] = pidFile[m]
    BY <1>2, <2>1, RecordEffect
  <2>3. ~HasJobs(loc[c].pid)
    BY <2>2 DEF JobsInv, ClientLists
  <2>4. ASSUME NEW r \in Pids, NEW x \in Cmds,
               <<r, x>> \in jobs', Unshare(r)', pidFile'[proc'[r].name] = r
        PROVE  /\ <<r, x>> \in jobs /\ Unshare(r) /\ pidFile[proc[r].name] = r
               /\ proc'[r].name = proc[r].name
    <3>1. Unshare(r) /\ proc[r].name \in Names
      BY <2>2, <2>4 DEF Unshare, TypeOK, HostOK, Procs
    <3>2. pidFile[proc[r].name] = r
      BY <2>2, <2>3, <2>4, <3>1 DEF HasJobs
    <3>. QED  BY <2>2, <2>4, <3>1, <3>2
  <2>5. JobsListed'
    BY <2>2, <2>4, PersSame, JobsListedKept DEF JobsInv
  <2>6. ClientLists(pc[c], loc[c])'
    BY <2>2, ElsewhereLists
  <2>. QED  BY <2>2, <2>5, <2>6, PersSame, NumberedKept DEF JobsInv, OneClient
<1>3. CASE ~Launch(c) /\ ~RecordStart(c)
  <2>1. /\ jobs' = jobs /\ SameTables /\ proc' = proc
        /\ \A n \in Names : pidFile'[n] \in {pidFile[n], None}
        /\ pc'[c] \notin {"record", "xcount", "xwrite", "xrun", "forget"}
    BY <1>3, StartKeeps DEF StartPcs
  <2>. QED  BY <2>1, SameProcs, ElsewhereLists, JobsInvKept
<1>. QED  BY <1>1, <1>2, <1>3

LEMMA StopStepJobs ==
    ASSUME OneClient, TypeOK, JobsInv, NEW c \in Clients, Stop(c) \/ StopStep(c)
    PROVE  JobsInv'
<1>0. /\ jobs' = jobs /\ FewerUnshares /\ pc'[c] \in StopPcs \cup {"idle"}
      /\ pc'[c] = "forget" => CleanState(c)
      /\ pers' = pers \/ ForgetSandbox(c)
      /\ \A n \in Names : pidFile'[n] \in {pidFile[n], None}
  BY StopKeeps
<1>1. CASE pers' = pers
  <2>1. ClientLists(pc[c], loc[c])'
    <3>1. CASE CleanState(c)
      <4>1. pidFile' = [pidFile EXCEPT ![loc[c].name] = None] /\ loc' = loc /\ loc[c].name \in Names
        BY <3>1, ClientKnows DEF CleanState, StopPcs
      <4>2. pidFile'[loc'[c].name] = None
        BY <4>1 DEF TypeOK, FilesOK
      <4>3. pc'[c] = "forget"
        BY <3>1, GoesTo DEF CleanState
      <4>. QED  BY <4>2, <4>3 DEF ClientLists, Adding
    <3>2. CASE ~CleanState(c)
      BY <1>0, <3>2, ElsewhereLists DEF StopPcs
    <3>. QED  BY <3>1, <3>2
  <2>. QED  BY <1>0, <1>1, <2>1, PersSame, JobsInvKept
<1>2. CASE ForgetSandbox(c)
  <2>1. pc[c] = "forget" /\ proc' = proc /\ pidFile' = pidFile /\ Exit(c)
    BY <1>2 DEF ForgetSandbox, procs
  <2>2. PICK n \in Names : n = loc[c].name
    BY <2>1, ClientKnows DEF StopPcs
  <2>3. DOMAIN Table(n)' = {} /\ \A m \in Names : m # n => Table(m)' = Table(m)
    BY <1>2, <2>2, ForgetEffect
  <2>4. pidFile[n] = None
    BY <2>1, <2>2 DEF JobsInv, ClientLists
  <2>5. Numbered'
    <3>1. {} = 0..(0 - 1) /\ 0 \in Nat
      OBVIOUS
    <3>. QED  BY <2>3, <3>1 DEF JobsInv, Numbered
  <2>6. JobsListed'
    <3>1. ASSUME NEW r \in Pids, NEW x \in Cmds,
                 <<r, x>> \in jobs', Unshare(r)', pidFile'[proc'[r].name] = r
          PROVE  Listed(proc[r].name, x)'
      <4>1. Unshare(r) /\ proc[r].name \in Names /\ proc[r].name # n
        BY <2>1, <2>4, <3>1, NoneAssumption DEF Unshare, TypeOK, HostOK, Procs
      <4>2. PICK m \in Names : m = proc[r].name
        BY <4>1
      <4>3. \E s \in DOMAIN Table(m) : Table(m)[s] = x
        BY <1>0, <2>1, <3>1, <4>1, <4>2 DEF JobsInv, JobsListed, Listed
      <4>4. Table(m)' = Table(m) /\ proc'[r].name = m
        BY <2>1, <2>3, <4>1, <4>2
      <4>5. \E s \in DOMAIN Table(m)' : Table(m)'[s] = x
        BY <4>3, <4>4
      <4>. QED  BY <4>4, <4>5 DEF Listed
    <3>. QED  BY <3>1 DEF JobsListed, Unshare
  <2>7. ClientLists(pc[c], loc[c])'
    BY <2>1, ExitLocals, ElsewhereLists
  <2>. QED  BY <2>5, <2>6, <2>7 DEF JobsInv, OneClient
<1>. QED  BY <1>0, <1>1, <1>2

LEMMA ExecStepJobs ==
    ASSUME OneClient, TypeOK, PidsOwn, JobsInv, NEW c \in Clients, Exec(c) \/ ExecStep(c)
    PROVE  JobsInv'
<1>. USE DEF files, procs
<1>1. CASE Exec(c) \/ CheckExec(c)
  <2>1. UNCHANGED <<pidFile, pers, proc, jobs>> /\ pc'[c] \in {"idle", "xcheck", "xdir"}
    BY <1>1, ExecBegins, CheckExecGoesOn
  <2>. QED  BY <2>1, SameProcs, PersSame, ElsewhereLists, JobsInvKept
<1>2. CASE ExecDir(c)
  <2>1. PICK n \in Names, x \in {loc[c].job} : n = loc[c].name /\ x = loc[c].job
    BY <1>2, ClientKnows DEF ExecDir, ExecPcs
  <2>2. /\ SameTables /\ pers'[n] # None /\ pers'[n].execs # None
        /\ loc' = loc
        /\ (pc'[c] = "xrun" /\ Listed(n, x)) \/ pc'[c] = "xcount"
    BY <1>2, <2>1, ExecDirEffect
  <2>3. UNCHANGED <<pidFile, proc, jobs>>
    BY <1>2 DEF ExecDir
  <2>4. Table(n)' = Table(n)
    BY <2>2 DEF SameTables
  <2>5. ClientLists(pc[c], loc[c])'
    <3>1. CASE pc'[c] = "xrun" /\ Listed(n, x)
      <4>1. \E s \in DOMAIN Table(n)' : Table(n)'[s] = x
        BY <2>4, <3>1 DEF Listed
      <4>. QED  BY <2>1, <2>2, <3>1, <4>1 DEF ClientLists, Listed, Adding
    <3>2. CASE pc'[c] = "xcount"
      BY <2>1, <2>2, <3>2 DEF ClientLists, Adding
    <3>. QED  BY <2>2, <3>1, <3>2
  <2>. QED  BY <2>2, <2>3, <2>5, SameProcs, JobsInvKept
<1>5. CASE ExecCount(c)
  <2>1. PICK n \in Names : n = loc[c].name
    BY <1>5, ClientKnows DEF ExecCount, ExecPcs
  <2>2. /\ UNCHANGED <<pidFile, pers, proc, jobs>> /\ pc[c] = "xcount" /\ pc'[c] = "xwrite"
        /\ loc'[c].name = n /\ loc'[c].slot = Cardinality(DOMAIN Table(n))
    BY <1>5, <2>1, ExecCountEffect
  <2>3. PICK k \in Nat : DOMAIN Table(n) = 0..(k - 1)
    BY DEF JobsInv, Numbered
  <2>4. Cardinality(0..(k - 1)) = k
    BY FS_Interval
  <2>5. Table(n)' = Table(n)
    BY <2>2, PersSame DEF SameTables
  <2>6. loc'[c].slot \in Nat /\ DOMAIN Table(n)' = 0..(loc'[c].slot - 1)
    BY <2>2, <2>3, <2>4, <2>5
  <2>7. pers'[n] # None /\ pers'[n].execs # None
    BY <2>1, <2>2 DEF JobsInv, ClientLists, Adding
  <2>8. ClientLists(pc[c], loc[c])'
    BY <2>2, <2>6, <2>7 DEF ClientLists
  <2>. QED  BY <2>2, <2>8, SameProcs, PersSame, JobsInvKept
<1>3. CASE ExecWrite(c)
  <2>1. PICK n \in Names : n = loc[c].name
    BY <1>3, ClientKnows DEF ExecWrite, ExecPcs
  <2>2. /\ pc[c] = "xwrite" /\ pc'[c] = "xrun" /\ loc' = loc
        /\ \A m \in Names : m # n => Table(m)' = Table(m)
        /\ \/ pers[n] = None \/ pers[n].execs = None
           \/ Table(n)' = [s \in DOMAIN Table(n) \cup {loc[c].slot} |->
                             IF s = loc[c].slot THEN loc[c].job ELSE Table(n)[s]]
    BY <1>3, <2>1, ExecWriteEffect
  <2>3. PICK k \in Nat : k = loc[c].slot /\ DOMAIN Table(n) = 0..(k - 1)
                         /\ pers[n] # None /\ pers[n].execs # None
    BY <2>1, <2>2 DEF JobsInv, ClientLists, Adding
  <2>4. Table(n)' = [s \in DOMAIN Table(n) \cup {k} |->
                       IF s = k THEN loc[c].job ELSE Table(n)[s]]
    BY <2>2, <2>3
  <2>5. DOMAIN Table(n)' = 0..((k + 1) - 1) /\ k + 1 \in Nat
    <3>1. 0..(k - 1) \cup {k} = 0..((k + 1) - 1)
      OBVIOUS
    <3>. QED  BY <2>3, <2>4, <3>1
  <2>6. Numbered'
    BY <2>2, <2>5 DEF JobsInv, Numbered
  <2>7. /\ k \in DOMAIN Table(n)' /\ Table(n)'[k] = loc[c].job
        /\ \A s \in DOMAIN Table(n) : s \in DOMAIN Table(n)' /\ Table(n)'[s] = Table(n)[s]
    BY <2>3, <2>4
  <2>8. JobsListed'
    <3>1. ASSUME NEW p \in Pids, NEW x \in Cmds,
                 <<p, x>> \in jobs', Unshare(p)', pidFile'[proc'[p].name] = p
          PROVE  Listed(proc[p].name, x)'
      <4>1. Unshare(p) /\ proc'[p].name = proc[p].name /\ proc[p].name \in Names
            /\ Listed(proc[p].name, x)
        BY <1>3, <3>1 DEF ExecWrite, JobsInv, JobsListed, Unshare, TypeOK, HostOK, Procs
      <4>2. PICK m \in Names : m = proc[p].name
        BY <4>1
      <4>3. \E s \in DOMAIN Table(m) : Table(m)[s] = x
        BY <4>1, <4>2 DEF Listed
      <4>4. \E s \in DOMAIN Table(m)' : Table(m)'[s] = x
        BY <2>2, <2>7, <4>3
      <4>. QED  BY <4>1, <4>2, <4>4 DEF Listed
    <3>. QED  BY <3>1 DEF JobsListed, Unshare
  <2>9. ClientLists(pc[c], loc[c])'
    BY <2>1, <2>2, <2>7 DEF ClientLists, Listed, Adding
  <2>. QED  BY <2>6, <2>8, <2>9 DEF JobsInv, OneClient
<1>4. CASE ExecRun(c)
  <2>1. /\ pc[c] = "xrun" /\ UNCHANGED <<pidFile, pers, proc>>
        /\ jobs' = IF Unshare(loc[c].pid) THEN jobs \cup {<<loc[c].pid, loc[c].job>>} ELSE jobs
        /\ pc'[c] \in {"rexec", "idle"}
    BY <1>4, ReturnLocals DEF ExecRun
  <2>2. JobsListed'
    <3>1. ASSUME NEW p \in Pids, NEW x \in Cmds,
                 <<p, x>> \in jobs', Unshare(p)', pidFile'[proc'[p].name] = p
          PROVE  Listed(proc[p].name, x)
      <4>1. Unshare(p) /\ pidFile[proc[p].name] = p
        BY <2>1, <3>1 DEF Unshare
      <4>2. CASE <<p, x>> \in jobs
        BY <4>1, <4>2 DEF JobsInv, JobsListed
      <4>3. CASE p = loc[c].pid /\ x = loc[c].job
        <5>1. proc[p].name = loc[c].name
          BY <4>1, <4>3, NoneAssumption DEF PidsOwn, LocalPidIsOwn, Unshare
        <5>. QED  BY <2>1, <4>3, <5>1 DEF JobsInv, ClientLists
      <4>. QED  BY <2>1, <3>1, <4>2, <4>3
    <3>. QED  BY <2>1, <3>1 DEF JobsListed, Listed, Table, Unshare
  <2>3. ClientLists(pc[c], loc[c])'
    BY <2>1, ElsewhereLists
  <2>. QED  BY <2>1, <2>2, <2>3, PersSame, NumberedKept DEF JobsInv, OneClient
<1>. QED  BY <1>1, <1>2, <1>3, <1>4, <1>5 DEF ExecStep

LEMMA HappensJobs == ASSUME TypeOK, JobsInv, Happens PROVE JobsInv'
<1>1. /\ UNCHANGED <<pidFile, pc, loc>> /\ SameTables /\ FewerUnshares /\ jobs' \subseteq jobs
      /\ \A n \in Names : pers[n] = None \/ pers'[n] = pers[n]
  BY EnvironmentKeeps
<1>2. ASSUME NEW p \in Pids, NEW x \in Cmds,
             <<p, x>> \in jobs', Unshare(p)', pidFile'[proc'[p].name] = p
      PROVE  /\ <<p, x>> \in jobs /\ Unshare(p) /\ pidFile[proc[p].name] = p
             /\ proc'[p].name = proc[p].name
  <2>1. Unshare(p) /\ proc'[p].name = proc[p].name
    BY <1>1, <1>2 DEF FewerUnshares
  <2>. QED  BY <1>1, <1>2, <2>1
<1>3. Numbered' /\ JobsListed'
  BY <1>1, <1>2, NumberedKept, JobsListedKept DEF JobsInv
<1>4. ASSUME NEW c \in Clients PROVE ClientLists(pc[c], loc[c])'
  <2>1. CASE pc[c] \notin {"record", "xcount", "xwrite", "xrun", "forget"}
    BY <1>1, <2>1, ElsewhereLists
  <2>2. CASE pc[c] \in {"record", "xcount", "xwrite", "xrun", "forget"}
    <3>1. PICK n \in Names, x \in {loc[c].job}, p \in {loc[c].pid} :
            n = loc[c].name /\ x = loc[c].job /\ p = loc[c].pid
      BY <2>2, ClientKnows DEF StartPcs, StopPcs, ExecPcs
    <3>2. Table(n)' = Table(n) /\ ClientLists(pc[c], loc[c])
      BY <1>1 DEF SameTables, JobsInv
    <3>3. pc[c] = "record" => ~HasJobs(p)'
      BY <1>1, <3>1, <3>2 DEF ClientLists, HasJobs
    <3>4. /\ pc[c] \in Adding => pers'[n] # None /\ pers'[n].execs # None
          /\ pc[c] = "xwrite" => loc[c].slot \in Nat /\ DOMAIN Table(n)' = 0..(loc[c].slot - 1)
      BY <1>1, <3>1, <3>2 DEF ClientLists
    <3>5. pc[c] = "xrun" => \E s \in DOMAIN Table(n)' : Table(n)'[s] = x
      BY <3>1, <3>2 DEF ClientLists, Listed
    <3>6. pc[c] = "forget" => pidFile'[n] = None
      BY <1>1, <3>1, <3>2 DEF ClientLists
    <3>. QED  BY <1>1, <3>1, <3>3, <3>4, <3>5, <3>6 DEF ClientLists, Listed, HasJobs
  <2>. QED  BY <2>1, <2>2
<1>. QED  BY <1>3, <1>4 DEF JobsInv

LEMMA JobsInit == Init => JobsInv
<1>. SUFFICES ASSUME Init PROVE JobsInv
  OBVIOUS
<1>1. {} = 0..(0 - 1) /\ 0 \in Nat
  OBVIOUS
<1>2. \A n \in Names : DOMAIN Table(n) = {}
  BY DEF Init, Table
<1>. QED  BY <1>1, <1>2 DEF Init, JobsInv, Numbered, JobsListed, ClientLists, Adding

LEMMA JobsNext ==
    ASSUME OneClient, NoReuse
    PROVE  TypeOK /\ PidsOwn /\ JobsInv /\ [Next]_vars => JobsInv'
<1>. SUFFICES ASSUME TypeOK, PidsOwn, JobsInv, [Next]_vars PROVE JobsInv'
  OBVIOUS
<1>1. CASE UNCHANGED vars
  <2>1. UNCHANGED <<pidFile, pers, proc, jobs, pc, loc>>
    BY <1>1 DEF vars, files, procs
  <2>. QED
    BY <2>1 DEF JobsInv, Numbered, JobsListed, ClientLists, Table, Listed, HasJobs, Unshare
<1>2. ASSUME NEW c \in Clients, Restore(c) \/ RestoreStep(c) \/ Interrupt(c) PROVE JobsInv'
  <2>1. /\ UNCHANGED <<pidFile, pers, proc, jobs>>
        /\ pc'[c] \notin {"record", "xcount", "xwrite", "xrun", "forget"}
    BY <1>2, RestoreKeeps, ExitLocals DEF Interrupt, files, procs
  <2>. QED  BY <2>1, SameProcs, PersSame, ElsewhereLists, JobsInvKept
<1>3. CASE Reboot
  <2>1. SameTables /\ jobs' = {} /\ \A c \in Clients : pc'[c] = "idle"
    BY <1>3, RebootKeeps, PersSame
  <2>2. \A c \in Clients : ClientLists(pc[c], loc[c])'
    BY <2>1, ElsewhereLists
  <2>. QED  BY <2>1, <2>2, NumberedKept DEF JobsInv, JobsListed
<1>. QED
  BY <1>1, <1>2, <1>3, StartStepJobs, StopStepJobs, ExecStepJobs, HappensJobs
     DEF Next, ClientStep, Happens

\* What runs detached in a running sensor can be restored: stops, starts over
\* stale pid files, failed starts, interrupted invocations and restores never leave
\* a command in the container that the sensor's pid file names without a file in
\* execs/, as long as invocations do not overlap and pids are not reused.
THEOREM DetachedArePersistedAlways ==
    ASSUME OneClient, NoReuse PROVE Spec => []DetachedArePersisted
<1>1. TypeOK /\ TypeOK' /\ PidsOwn /\ [Next]_vars => PidsOwn'
  BY PidsNext
<1>2. TypeOK /\ PidsOwn /\ JobsInv /\ [Next]_vars => JobsInv'
  BY JobsNext
<1>3. TypeOK /\ PidsOwn /\ JobsInv => DetachedArePersisted
  <2>. SUFFICES ASSUME TypeOK, PidsOwn, JobsInv, NEW n \in Names, NEW x \in Cmds,
                       Running(n), <<pidFile[n], x>> \in jobs
                PROVE  /\ pers[n] # None /\ pers[n].execs # None
                       /\ \E s \in DOMAIN pers[n].execs : pers[n].execs[s] = x
    BY DEF DetachedArePersisted
  <2>1. proc[pidFile[n]].name = n /\ Unshare(pidFile[n]) /\ pidFile[n] \in Pids
    BY DEF PidsOwn, PidFileIsOwn, Running, Unshare, TypeOK, FilesOK
  <2>2. Listed(n, x)
    BY <2>1 DEF JobsInv, JobsListed
  <2>. QED  BY <2>2 DEF Listed, Table
<1>. QED  BY <1>1, <1>2, <1>3, PidsInit, JobsInit, TypeCorrect, PTL DEF Spec

-----------------------------------------------------------------------------
(* The bridges and links of the sensors. *)

\* One invocation at a time, which is not interrupted and finds the container it
\* has launched; a container ends only by stop or with the host.
Undisturbed ==
    /\ OneClient
    /\ Faults \cap {"interrupt", "helper", "setup", "exit", "kill", "reuse"} = {}

Attached(m) == Running(m) /\ ipFile[m] # None /\ Connected(m)

\* A pair belongs to a sensor that runs, or is being plugged or unplugged.
PairsOwned(label, l) ==
    \A m \in Names : veth[m] = None \/ Attached(m) \/ (label \in {"plug", "unplug"} /\ l.name = m)

\* What runs is persisted and has a pair or no need of one, once start has got there.
RunningWired(label, l) ==
    \A m \in Names : Running(m) =>
        \/ pers[m] # None /\ (pers[m].mac \/ veth[m] # None)
        \/ label \in {"persist", "bridge", "veth"} /\ l.name = m

\* A bridge serves a sensor that runs or that is being stopped.
BridgesUsed(label, l) ==
    \A b \in bridges : \E m \in Names :
        /\ ipFile[m] # None /\ ipFile[m].net = b
        /\ Running(m) \/ (label \in {"unplug", "count", "delbridge"} /\ l.name = m)

\* A link lies in a namespace that some process keeps, never in the host's for good.
LinksHeld ==
    /\ \A p \in Pids : HasNsLink(p) => proc[p] # None \/ HasJobs(p)
    /\ None \notin macvlan

\* What start and stop have achieved so far.
ClientNet(label, l) ==
    /\ label \in {"pickid", "claimid", "launch", "record", "forget"} => pidFile[l.name] = None
    /\ label \in {"record", "persist", "bridge", "veth", "plug"} =>
          Unshare(l.pid) /\ ~HasNsLink(l.pid)
    /\ label \in {"persist", "bridge", "veth", "plug"} =>
          pidFile[l.name] = l.pid /\ ipFile[l.name] = l.ip
    /\ label \in {"bridge", "veth", "plug"} => pers[l.name] # None /\ pers[l.name].mac = l.mac
    /\ label \in {"veth", "plug"} => ~l.mac /\ l.ip.net \in bridges
    /\ label = "plug" => veth[l.name] = [peer |-> None, br |-> l.ip.net, addr |-> None]
    /\ label \in {"count", "delbridge"} => l.ip = ipFile[l.name]
    /\ label = "delbridge" => Ports(l.ip.net) = {}

NetOK(label, l) ==
    PairsOwned(label, l) /\ RunningWired(label, l) /\ BridgesUsed(label, l) /\ LinksHeld
    /\ ClientNet(label, l)

NetInv ==
    /\ \A c \in Clients : NetOK(pc[c], loc[c])
    /\ Clients = {} => NetOK("idle", NoLocals)

LEMMA ElsewhereNet ==
    ASSUME NEW c \in Clients,
           pc'[c] \notin {"pickid", "claimid", "launch", "record", "persist", "bridge", "veth",
                          "plug", "count", "delbridge", "forget"}
    PROVE  ClientNet(pc[c], loc[c])'
BY DEF ClientNet

\* No link of the host changes, and the invocation is not at work on one.
LEMMA NetKept ==
    ASSUME NEW c \in Clients, NetOK(pc[c], loc[c]),
           UNCHANGED <<pidFile, ipFile, proc, veth, macvlan, bridges>>, jobs \subseteq jobs',
           \A m \in Names : pers[m] # None => pers'[m] # None /\ pers'[m].mac = pers[m].mac,
           pc[c] \notin {"plug", "unplug", "persist", "bridge", "veth", "count", "delbridge"},
           ClientNet(pc[c], loc[c])'
    PROVE  NetOK(pc[c], loc[c])'
<1>1. \A m \in Names : Running(m)' <=> Running(m)
  BY DEF Running, Unshare
<1>2. PairsOwned(pc[c], loc[c])'
  <2>1. \A m \in Names : veth[m] = None \/ Attached(m)
    BY DEF NetOK, PairsOwned
  <2>2. \A m \in Names : Attached(m) => Attached(m)'
    BY <1>1 DEF Attached, Connected
  <2>. QED  BY <2>1, <2>2 DEF PairsOwned
<1>3. RunningWired(pc[c], loc[c])'
  BY <1>1 DEF NetOK, RunningWired
<1>4. BridgesUsed(pc[c], loc[c])'
  BY <1>1 DEF NetOK, BridgesUsed
<1>5. LinksHeld'
  BY DEF NetOK, LinksHeld, HasNsLink, HasJobs
<1>. QED  BY <1>2, <1>3, <1>4, <1>5 DEF NetOK

LEMMA CheckStartNet ==
    ASSUME TypeOK, NEW c \in Clients, NetOK(pc[c], loc[c]), CheckStart(c)
    PROVE  NetOK(pc[c], loc[c])'
<1>. USE DEF files, procs, net
<1>1. CASE Exit(c) /\ UNCHANGED files
  <2>1. pc[c] = "check" /\ pc'[c] = "idle" /\ UNCHANGED <<files, procs, net>>
    BY <1>1, ExitLocals DEF CheckStart
  <2>. QED  BY <2>1, ElsewhereNet, NetKept
<1>2. CASE ~(Exit(c) /\ UNCHANGED files)
  <2>1. PICK n \in Names : n = loc[c].name
    BY ClientKnows DEF CheckStart, StartPcs
  <2>2. /\ ~Alive(pidFile[n]) /\ UNCHANGED <<pers, procs, net>>
        /\ pidFile' = [pidFile EXCEPT ![n] = None]
        /\ \A m \in Names : m # n => ipFile'[m] = ipFile[m]
        /\ pc[c] = "check" /\ pc'[c] \in {"pickid", "launch"} /\ loc'[c].name = n
    BY <1>2, <2>1, CheckStartGoesOn DEF CheckStart, TypeOK, FilesOK
  <2>3. /\ ~Running(n) /\ ~Running(n)' /\ pidFile'[n] = None
        /\ \A m \in Names : m # n => pidFile'[m] = pidFile[m] /\ (Running(m)' <=> Running(m))
    BY <2>2 DEF Running, Alive, Unshare, TypeOK, FilesOK
  <2>4. PairsOwned(pc[c], loc[c])'
    <3>1. ASSUME NEW m \in Names, veth[m] # None PROVE Attached(m)'
      <4>1. Attached(m) /\ m # n
        BY <2>2, <2>3, <3>1 DEF NetOK, PairsOwned, Attached
      <4>. QED  BY <2>2, <2>3, <4>1 DEF Attached, Connected
    <3>. QED  BY <2>2, <3>1 DEF PairsOwned
  <2>5. RunningWired(pc[c], loc[c])'
    BY <2>2, <2>3 DEF NetOK, RunningWired
  <2>6. BridgesUsed(pc[c], loc[c])'
    BY <2>2, <2>3 DEF NetOK, BridgesUsed
  <2>7. LinksHeld'
    BY <2>2 DEF NetOK, LinksHeld, HasNsLink, HasJobs
  <2>8. ClientNet(pc[c], loc[c])'
    BY <2>2, <2>3 DEF ClientNet
  <2>. QED  BY <2>4, <2>5, <2>6, <2>7, <2>8 DEF NetOK
<1>. QED  BY <1>1, <1>2

LEMMA LaunchNet ==
    ASSUME Undisturbed, TypeOK, NEW c \in Clients, NetOK(pc[c], loc[c]), Launch(c)
    PROVE  NetOK(pc[c], loc[c])'
<1>. USE DEF files, procs, net
<1>0. PICK n \in Names : n = loc[c].name
  BY ClientKnows DEF Launch, StartPcs
<1>1. /\ pc[c] = "launch" /\ pc'[c] = "record" /\ UNCHANGED <<files, jobs, net>>
      /\ loc'[c].name = n
  BY <1>0, LaunchEffect
<1>2. PICK p \in Pids :
        /\ FreePid(p) /\ loc'[c].pid = p /\ proc'[p] = [name |-> n, stage |-> "setup"]
        /\ \A r \in Pids : r # p => proc'[r] = proc[r]
  BY <1>0, LaunchEffect DEF Undisturbed
<1>3. /\ proc'[p] # None /\ proc[p] = None /\ ~HasJobs(p)
      /\ \A m \in Names : pidFile[m] # p
  BY <1>2, NoneAssumption DEF FreePid, Undisturbed, Procs
<1>4. \A m \in Names : Running(m)' <=> Running(m)
  BY <1>1, <1>2, <1>3 DEF Running, Unshare, TypeOK, FilesOK
<1>5. PairsOwned(pc[c], loc[c])'
  BY <1>1, <1>4 DEF NetOK, PairsOwned, Attached, Connected
<1>6. RunningWired(pc[c], loc[c])'
  BY <1>1, <1>4 DEF NetOK, RunningWired
<1>7. BridgesUsed(pc[c], loc[c])'
  BY <1>1, <1>4 DEF NetOK, BridgesUsed
<1>8. /\ \A r \in Pids : HasNsLink(r)' <=> HasNsLink(r)
      /\ \A r \in Pids : HasJobs(r)' <=> HasJobs(r)
  BY <1>1 DEF HasNsLink, HasJobs
<1>9. LinksHeld'
  BY <1>1, <1>2, <1>3, <1>8 DEF NetOK, LinksHeld
<1>10. ~HasNsLink(p)' /\ Unshare(p)'
  BY <1>2, <1>3, <1>8 DEF NetOK, LinksHeld, Unshare
<1>11. pidFile'[n] = None
  BY <1>0, <1>1 DEF NetOK, ClientNet
<1>12. ClientNet(pc[c], loc[c])'
  BY <1>1, <1>2, <1>10, <1>11 DEF ClientNet, HasNsLink, Unshare
<1>. QED  BY <1>5, <1>6, <1>7, <1>9, <1>12 DEF NetOK

LEMMA RecordNet ==
    ASSUME TypeOK, NEW c \in Clients, NetOK(pc[c], loc[c]), RecordStart(c)
    PROVE  NetOK(pc[c], loc[c])'
<1>. USE DEF files, procs, net
<1>0. PICK n \in Names, p \in Pids : n = loc[c].name /\ p = loc[c].pid
  BY ClientKnows DEF RecordStart, StartPcs, ClientOK
<1>1. /\ pc[c] = "record" /\ pc'[c] = "persist" /\ loc' = loc
      /\ UNCHANGED <<pers, proc, jobs, veth, macvlan, bridges>>
      /\ pidFile'[n] = p /\ ipFile'[n] = loc[c].ip
      /\ \A m \in Names : m # n => pidFile'[m] = pidFile[m] /\ ipFile'[m] = ipFile[m]
  BY <1>0, RecordEffect
<1>2. pidFile[n] = None /\ Unshare(p) /\ ~HasNsLink(p)
  BY <1>0, <1>1 DEF NetOK, ClientNet
<1>3. /\ ~Running(n)
      /\ \A m \in Names : m # n => (Running(m)' <=> Running(m))
  BY <1>1, <1>2 DEF Running, Unshare
<1>4. PairsOwned(pc[c], loc[c])'
  <2>1. ASSUME NEW m \in Names, veth[m] # None PROVE Attached(m)'
    <3>1. Attached(m) /\ m # n
      BY <1>1, <1>3, <2>1 DEF NetOK, PairsOwned, Attached
    <3>. QED  BY <1>1, <1>3, <3>1 DEF Attached, Connected
  <2>. QED  BY <1>1, <2>1 DEF PairsOwned
<1>5. RunningWired(pc[c], loc[c])'
  BY <1>0, <1>1, <1>3 DEF NetOK, RunningWired
<1>6. BridgesUsed(pc[c], loc[c])'
  BY <1>1, <1>3 DEF NetOK, BridgesUsed
<1>7. LinksHeld'
  BY <1>1 DEF NetOK, LinksHeld, HasNsLink, HasJobs
<1>8. Unshare(p)' /\ ~HasNsLink(p)'
  BY <1>1, <1>2 DEF Unshare, HasNsLink
<1>9. ClientNet(pc[c], loc[c])'
  BY <1>0, <1>1, <1>8 DEF ClientNet, Unshare, HasNsLink
<1>. QED  BY <1>4, <1>5, <1>6, <1>7, <1>9 DEF NetOK

LEMMA PersistNet ==
    ASSUME TypeOK, NEW c \in Clients, NetOK(pc[c], loc[c]), PersistStart(c)
    PROVE  NetOK(pc[c], loc[c])'
<1>. USE DEF files, procs, net
<1>0. PICK n \in Names, p \in Pids : n = loc[c].name /\ p = loc[c].pid
  BY ClientKnows DEF PersistStart, StartPcs, ClientOK
<1>1. /\ pc[c] = "persist" /\ pc'[c] = "bridge" /\ loc' = loc
      /\ UNCHANGED <<pidFile, ipFile, proc, jobs, veth, macvlan, bridges>>
  BY GoesTo DEF PersistStart
<1>2. /\ pers'[n] # None /\ pers'[n].mac = loc[c].mac
      /\ \A m \in Names : m # n => pers'[m] = pers[m]
  BY <1>0, PersistStartEffect
<1>3. \A m \in Names : Running(m)' <=> Running(m)
  BY <1>1 DEF Running, Unshare
<1>4. PairsOwned(pc[c], loc[c])'
  BY <1>1, <1>3 DEF NetOK, PairsOwned, Attached, Connected
<1>5. RunningWired(pc[c], loc[c])'
  BY <1>0, <1>1, <1>2, <1>3 DEF NetOK, RunningWired
<1>6. BridgesUsed(pc[c], loc[c])'
  BY <1>1, <1>3 DEF NetOK, BridgesUsed
<1>7. LinksHeld'
  BY <1>1 DEF NetOK, LinksHeld, HasNsLink, HasJobs
<1>8. Unshare(p)' /\ ~HasNsLink(p)' /\ pidFile'[n] = p /\ ipFile'[n] = loc[c].ip
  BY <1>0, <1>1 DEF NetOK, ClientNet, Unshare, HasNsLink
<1>9. ClientNet(pc[c], loc[c])'
  BY <1>0, <1>1, <1>2, <1>8 DEF ClientNet, Unshare, HasNsLink
<1>. QED  BY <1>4, <1>5, <1>6, <1>7, <1>9 DEF NetOK

LEMMA StartQuietNet ==
    ASSUME TypeOK, NEW c \in Clients, NetOK(pc[c], loc[c]),
           Start(c) \/ PickId(c) \/ ClaimId(c) \/ NoIdLeft(c) \/ LaunchFails(c)
    PROVE  NetOK(pc[c], loc[c])'
<1>. USE DEF files, procs, net
<1>0. loc[c] \in Locals /\ loc \in [Clients -> Locals]
  BY DEF TypeOK, ClientsOK
<1>1. /\ UNCHANGED <<pidFile, ipFile, pers, proc, jobs, veth, macvlan, bridges>>
      /\ pc[c] \in {"idle", "pickid", "claimid", "launch"}
      /\ \/ pc'[c] \in {"idle", "check"}
         \/ /\ pc'[c] \in {"claimid", "launch"} /\ pc[c] \in {"pickid", "claimid"}
            /\ loc'[c].name = loc[c].name
  <2>1. CASE Start(c)
    BY <2>1, StartBegins
  <2>2. CASE PickId(c)
    <3>1. PICK id \in Ids : loc' = [loc EXCEPT ![c].id = id, ![c].ip = AutoIp(id)]
      BY <2>2 DEF PickId, FreeIds
    <3>2. loc'[c].name = loc[c].name
      BY <1>0, <3>1 DEF Locals
    <3>. QED  BY <2>2, <3>2, GoesTo DEF PickId
  <2>3. CASE ClaimId(c)
    BY <2>3, GoesTo DEF ClaimId
  <2>4. CASE NoIdLeft(c)
    BY <2>4, ExitLocals DEF NoIdLeft
  <2>5. CASE LaunchFails(c)
    BY <2>5, ExitLocals DEF LaunchFails
  <2>. QED  BY <1>1, <2>1, <2>2, <2>3, <2>4, <2>5
<1>2. ClientNet(pc[c], loc[c])'
  BY <1>1 DEF NetOK, ClientNet
<1>. QED  BY <1>1, <1>2, NetKept

\* Until its pair is plugged in, the container has no link, and no link lies in the host.
LEMMA NothingLoose ==
    ASSUME TypeOK, NEW c \in Clients, NetOK(pc[c], loc[c]),
           pc[c] \in {"bridge", "veth", "plug"}, NEW n \in Names, n = loc[c].name
    PROVE  /\ Unshare(loc[c].pid) /\ ~HasNsLink(loc[c].pid) /\ None \notin macvlan
           /\ Running(n) /\ pidFile[n] = loc[c].pid /\ ipFile[n] = loc[c].ip /\ loc[c].ip # None
           /\ \A m \in Names : m # n \/ pc[c] # "plug" =>
                 veth[m] = None \/ (Attached(m) /\ m # n /\ veth[m].peer \notin {None, loc[c].pid})
<1>1. loc[c].pid \in Pids /\ loc[c].ip \in Ips
  BY ClientKnows DEF ClientOK, StartPcs
<1>2. loc[c].pid # None /\ loc[c].ip # None
  BY <1>1, NoneAssumption
<1>3. Unshare(loc[c].pid) /\ ~HasNsLink(loc[c].pid) /\ None \notin macvlan
  BY DEF NetOK, LinksHeld, ClientNet
<1>4. pidFile[n] = loc[c].pid /\ ipFile[n] = loc[c].ip
  BY DEF NetOK, ClientNet
<1>5. ASSUME NEW m \in Names, m # n \/ pc[c] # "plug", veth[m] # None
      PROVE  Attached(m) /\ m # n /\ veth[m].peer \notin {None, loc[c].pid}
  <2>1. Attached(m)
    BY <1>5 DEF NetOK, PairsOwned
  <2>2. veth[m].peer = pidFile[m] /\ pidFile[m] # None
    BY <2>1 DEF Attached, Connected, Running
  <2>3. veth[m].peer # loc[c].pid
    BY <1>3, <1>5 DEF HasNsLink
  <2>. QED  BY <1>4, <2>1, <2>2, <2>3
<1>. QED  BY <1>2, <1>3, <1>4, <1>5 DEF Running

\* The links that PlugPairs leaves alone and the one that it plugs in.
LEMMA PlugPairsEffect ==
    ASSUME TypeOK, NEW p, NEW ip, PlugPairs(p, ip), NEW m \in Names
    PROVE  /\ ~Plugged(m, p) => veth'[m] = veth[m]
           /\ Unshare(p) /\ Plugged(m, p) =>
                 veth'[m] = [peer |-> p, br |-> veth[m].br, addr |-> ip]
<1>1. veth'[m] = IF Unshare(p) /\ Plugged(m, p)
                 THEN [veth[m] EXCEPT !.peer = p, !.addr = ip] ELSE veth[m]
  BY Zenon DEF PlugPairs
<1>2. Plugged(m, p) => [veth[m] EXCEPT !.peer = p, !.addr = ip]
                          = [peer |-> p, br |-> veth[m].br, addr |-> ip]
  <2>1. Plugged(m, p) => veth[m] \in Veths
    BY DEF Plugged, TypeOK, HostOK
  <2>2. ASSUME NEW v \in Veths
        PROVE  [v EXCEPT !.peer = p, !.addr = ip] = [peer |-> p, br |-> v.br, addr |-> ip]
    <3>1. [v EXCEPT !.peer = p] = [peer |-> p, br |-> v.br, addr |-> v.addr]
      BY DEF Veths
    <3>2. [[peer |-> p, br |-> v.br, addr |-> v.addr] EXCEPT !.addr = ip]
             = [peer |-> p, br |-> v.br, addr |-> ip]
      OBVIOUS
    <3>. QED  BY <3>1, <3>2, Zenon
  <2>. QED  BY <2>1, <2>2, Zenon
<1>. QED  BY <1>1, <1>2, Zenon

LEMMA MacvlanNet ==
    ASSUME TypeOK, NEW c \in Clients, NetOK(pc[c], loc[c]), MacvlanRefused(c) \/ SetupMacvlan(c)
    PROVE  NetOK(pc[c], loc[c])'
<1>. USE DEF files, procs, net
<1>0. PICK n \in Names, p \in Pids : n = loc[c].name /\ p = loc[c].pid
  BY ClientKnows DEF MacvlanRefused, SetupMacvlan, StartPcs, ClientOK
<1>1. /\ pc[c] = "bridge" /\ pc'[c] \in {"rlist", "idle"} /\ loc[c].mac
      /\ UNCHANGED <<pidFile, ipFile, pers, proc, jobs, bridges>>
  <2>1. CASE MacvlanRefused(c)
    BY <2>1, ExitLocals DEF MacvlanRefused
  <2>2. CASE SetupMacvlan(c)
    BY <2>2, ReturnLocals DEF SetupMacvlan
  <2>. QED  BY <2>1, <2>2
<1>2. /\ Unshare(p) /\ ~HasNsLink(p) /\ None \notin macvlan
      /\ \A m \in Names : veth[m] = None \/ (Attached(m) /\ veth[m].peer \notin {None, p})
  BY <1>0, <1>1, NothingLoose
<1>3. /\ \A m \in Names : veth'[m] = veth[m]
      /\ macvlan' \subseteq macvlan \cup {p} /\ None \notin macvlan'
  <2>1. CASE MacvlanRefused(c)
    BY <1>2, <2>1 DEF MacvlanRefused
  <2>2. CASE SetupMacvlan(c)
    <3>1. \A m \in Names : veth'[m] = veth[m]
      <4>1. \A m \in Names : ~Plugged(m, p)
        BY <1>2 DEF Plugged
      <4>2. PlugPairs(p, loc[c].ip)
        BY <1>0, <2>2 DEF SetupMacvlan
      <4>. QED  BY <4>1, <4>2, PlugPairsEffect
    <3>2. p # None
      BY NoneAssumption
    <3>3. ~HasNsLink(None)
      BY <1>2 DEF HasNsLink
    <3>4. PlugMacvlan(p, macvlan \cup {None})
      BY <1>0, <2>2, <3>3 DEF SetupMacvlan
    <3>. QED  BY <1>2, <3>1, <3>2, <3>4 DEF PlugMacvlan
  <2>. QED  BY <2>1, <2>2
<1>4. \A m \in Names : Running(m)' <=> Running(m)
  BY <1>1 DEF Running, Unshare
<1>5. PairsOwned(pc[c], loc[c])'
  BY <1>1, <1>2, <1>3, <1>4 DEF PairsOwned, Attached, Connected
<1>6. RunningWired(pc[c], loc[c])'
  <2>1. pers[n] # None /\ pers[n].mac
    BY <1>0, <1>1 DEF NetOK, ClientNet
  <2>. QED  BY <1>0, <1>1, <1>3, <1>4, <2>1 DEF NetOK, RunningWired
<1>7. BridgesUsed(pc[c], loc[c])'
  BY <1>1, <1>4 DEF NetOK, BridgesUsed
<1>8. LinksHeld'
  BY <1>1, <1>2, <1>3 DEF NetOK, LinksHeld, HasNsLink, HasJobs, Unshare
<1>. QED  BY <1>1, <1>5, <1>6, <1>7, <1>8, ElsewhereNet DEF NetOK

LEMMA BridgeNet ==
    ASSUME TypeOK, NEW c \in Clients, NetOK(pc[c], loc[c]), SetupBridge(c)
    PROVE  NetOK(pc[c], loc[c])'
<1>. USE DEF files, procs, net
<1>0. PICK n \in Names, p \in Pids : n = loc[c].name /\ p = loc[c].pid
  BY ClientKnows DEF SetupBridge, StartPcs, ClientOK
<1>1. /\ pc[c] = "bridge" /\ pc'[c] = "veth" /\ loc' = loc /\ ~loc[c].mac
      /\ UNCHANGED <<pidFile, ipFile, pers, proc, jobs, veth, macvlan>>
      /\ bridges' = bridges \cup {loc[c].ip.net}
  BY GoesTo DEF SetupBridge
<1>2. /\ Unshare(p) /\ ~HasNsLink(p) /\ Running(n) /\ pidFile[n] = p
      /\ ipFile[n] = loc[c].ip /\ ipFile[n] # None
      /\ \A m \in Names : veth[m] = None \/ Attached(m)
  BY <1>0, <1>1, NothingLoose
<1>3. \A m \in Names : Running(m)' <=> Running(m)
  BY <1>1 DEF Running, Unshare
<1>4. PairsOwned(pc[c], loc[c])'
  BY <1>1, <1>2, <1>3 DEF PairsOwned, Attached, Connected
<1>5. RunningWired(pc[c], loc[c])'
  BY <1>1, <1>3 DEF NetOK, RunningWired
<1>6. BridgesUsed(pc[c], loc[c])'
  <2>1. ASSUME NEW b \in bridges
        PROVE  \E m \in Names : ipFile[m] # None /\ ipFile[m].net = b /\ Running(m)
    BY <1>1 DEF NetOK, BridgesUsed
  <2>2. ASSUME NEW b \in bridges'
        PROVE  \E m \in Names : ipFile'[m] # None /\ ipFile'[m].net = b /\ Running(m)'
    BY <1>1, <1>2, <1>3, <2>1
  <2>. QED  BY <2>2 DEF BridgesUsed
<1>7. LinksHeld'
  BY <1>1 DEF NetOK, LinksHeld, HasNsLink, HasJobs
<1>8. Unshare(p)' /\ ~HasNsLink(p)'
  BY <1>1, <1>2 DEF Unshare, HasNsLink
<1>9. ClientNet(pc[c], loc[c])'
  BY <1>0, <1>1, <1>8 DEF NetOK, ClientNet, Unshare, HasNsLink
<1>. QED  BY <1>4, <1>5, <1>6, <1>7, <1>9 DEF NetOK

LEMMA AddVethNet ==
    ASSUME TypeOK, NEW c \in Clients, NetOK(pc[c], loc[c]), AddVeth(c)
    PROVE  NetOK(pc[c], loc[c])'
<1>. USE DEF files, procs, net
<1>0. PICK n \in Names, p \in Pids, b \in Nets :
        n = loc[c].name /\ p = loc[c].pid /\ b = loc[c].ip.net
  BY ClientKnows DEF AddVeth, StartPcs, ClientOK, Nets
<1>1. /\ pc[c] = "veth" /\ pc'[c] = "plug" /\ loc' = loc
      /\ UNCHANGED <<pidFile, ipFile, pers, proc, jobs, macvlan, bridges>>
  BY GoesTo DEF AddVeth
<1>2. /\ Unshare(p) /\ ~HasNsLink(p) /\ Running(n) /\ pidFile[n] = p
      /\ None \notin macvlan /\ ipFile[n] = loc[c].ip
      /\ \A m \in Names : veth[m] = None \/ (Attached(m) /\ m # n /\ veth[m].peer # None)
  BY <1>0, <1>1, NothingLoose
<1>3. ~loc[c].mac /\ b \in bridges /\ pers[n] # None /\ pers[n].mac = loc[c].mac
  BY <1>0, <1>1 DEF NetOK, ClientNet
<1>4. /\ veth'[n] = [peer |-> None, br |-> b, addr |-> None] /\ veth'[n] # None
      /\ \A m \in Names : m # n => veth'[m] = veth[m]
  <2>1. veth[n] = None /\ ~HasNsLink(None)
    BY <1>2 DEF HasNsLink
  <2>2. \A a \in {None, b} : [peer |-> None, br |-> a, addr |-> None] # None
    BY NoneAssumption DEF Veths
  <2>3. PICK added : /\ added = [peer |-> None, br |-> None, addr |-> None]
                     /\ veth' = [veth EXCEPT ![n] = [added EXCEPT !.br = b]]
    <3>1. [peer |-> None, br |-> None, addr |-> None] # None
      BY <2>2
    <3>. QED  BY <1>0, <1>3, <2>1, <3>1, Zenon DEF AddVeth
  <2>. QED  BY <2>2, <2>3 DEF TypeOK, HostOK
<1>5. \A m \in Names : Running(m)' <=> Running(m)
  BY <1>1 DEF Running, Unshare
<1>6. PairsOwned(pc[c], loc[c])'
  <2>1. ASSUME NEW m \in Names, m # n, veth'[m] # None PROVE Attached(m)'
    BY <1>1, <1>2, <1>4, <1>5, <2>1 DEF Attached, Connected
  <2>. QED  BY <1>0, <1>1, <2>1 DEF PairsOwned
<1>7. RunningWired(pc[c], loc[c])'
  BY <1>0, <1>1, <1>3, <1>4, <1>5 DEF NetOK, RunningWired
<1>8. BridgesUsed(pc[c], loc[c])'
  BY <1>1, <1>5 DEF NetOK, BridgesUsed
<1>9. \A q \in Pids : HasNsLink(q)' => HasNsLink(q)
  <2>1. \A q \in Pids : q # None
    BY NoneAssumption
  <2>. QED  BY <1>1, <1>4, <2>1 DEF HasNsLink
<1>10. LinksHeld'
  BY <1>1, <1>9 DEF NetOK, LinksHeld, HasJobs
<1>11. Unshare(p)' /\ ~HasNsLink(p)'
  BY <1>1, <1>2, <1>9 DEF Unshare
<1>12. ClientNet(pc[c], loc[c])'
  BY <1>0, <1>1, <1>2, <1>3, <1>4, <1>11 DEF ClientNet, Unshare, HasNsLink
<1>. QED  BY <1>6, <1>7, <1>8, <1>10, <1>12 DEF NetOK

LEMMA PlugVethNet ==
    ASSUME TypeOK, NEW c \in Clients, NetOK(pc[c], loc[c]), PlugVeth(c)
    PROVE  NetOK(pc[c], loc[c])'
<1>. USE DEF files, procs, net
<1>0. PICK n \in Names, p \in Pids, ip \in Ips :
        n = loc[c].name /\ p = loc[c].pid /\ ip = loc[c].ip
  BY ClientKnows DEF PlugVeth, StartPcs, ClientOK
<1>1. /\ pc[c] = "plug" /\ pc'[c] \in {"rlist", "idle"}
      /\ UNCHANGED <<pidFile, ipFile, pers, proc, jobs, bridges>>
      /\ PlugPairs(p, ip) /\ PlugMacvlan(p, macvlan)
  BY <1>0, ReturnLocals DEF PlugVeth
<1>2. /\ Unshare(p) /\ ~HasNsLink(p) /\ Running(n) /\ pidFile[n] = p
      /\ None \notin macvlan /\ ipFile[n] = ip /\ ip # None
      /\ \A m \in Names : m = n \/ veth[m] = None
                          \/ (Attached(m) /\ veth[m].peer \notin {None, p})
  BY <1>0, <1>1, NothingLoose
<1>3. /\ ip.net \in bridges
      /\ veth[n] = [peer |-> None, br |-> ip.net, addr |-> None]
  BY <1>0, <1>1 DEF NetOK, ClientNet
<1>4. macvlan' = macvlan
  BY <1>1, <1>2 DEF PlugMacvlan
<1>5. /\ veth'[n] = [peer |-> p, br |-> ip.net, addr |-> ip] /\ veth'[n] # None
      /\ \A m \in Names : m # n => veth'[m] = veth[m]
  <2>1. ip.net \in Nets
    BY DEF Nets
  <2>2. /\ [peer |-> None, br |-> ip.net, addr |-> None] # None
        /\ [peer |-> p, br |-> ip.net, addr |-> ip] # None
    BY <2>1, NoneAssumption DEF Veths
  <2>3. Plugged(n, p) /\ \A m \in Names : m # n => ~Plugged(m, p)
    BY <1>2, <1>3, <2>2 DEF Plugged
  <2>4. veth'[n] = [peer |-> p, br |-> veth[n].br, addr |-> ip]
    BY <1>1, <1>2, <2>3, PlugPairsEffect
  <2>5. \A m \in Names : m # n => veth'[m] = veth[m]
    BY <1>1, <2>3, PlugPairsEffect
  <2>. QED  BY <1>3, <2>2, <2>4, <2>5
<1>6. \A m \in Names : Running(m)' <=> Running(m)
  BY <1>1 DEF Running, Unshare
<1>7. PairsOwned(pc[c], loc[c])'
  <2>1. ASSUME NEW m \in Names, m # n, veth'[m] # None PROVE Attached(m)'
    BY <1>1, <1>2, <1>5, <1>6, <2>1 DEF Attached, Connected
  <2>2. Attached(n)'
    BY <1>1, <1>2, <1>3, <1>5, <1>6 DEF Attached, Connected
  <2>. QED  BY <2>1, <2>2 DEF PairsOwned
<1>8. RunningWired(pc[c], loc[c])'
  BY <1>1, <1>5, <1>6 DEF NetOK, RunningWired
<1>9. BridgesUsed(pc[c], loc[c])'
  BY <1>1, <1>6 DEF NetOK, BridgesUsed
<1>10. LinksHeld'
  BY <1>1, <1>2, <1>4, <1>5 DEF NetOK, LinksHeld, HasNsLink, HasJobs, Unshare
<1>. QED  BY <1>1, <1>7, <1>8, <1>9, <1>10, ElsewhereNet DEF NetOK

\* With the last process of its namespace a link goes, and no other link does.
LEMMA DropsLost ==
    ASSUME TypeOK, DropLinks(proc', jobs')
    PROVE  /\ macvlan' \subseteq macvlan
           /\ \A m \in Names : veth'[m] \in {veth[m], None}
           /\ \A m \in Names : veth[m] # None /\ veth[m].peer \in Pids /\ proc'[veth[m].peer] # None
                                  => veth'[m] = veth[m]
           /\ \A q \in Pids : HasNsLink(q)' => proc'[q] # None \/ HasJobs(q)'
<1>1. \A m \in Names :
        veth'[m] = IF /\ veth[m] # None /\ veth[m].peer # None /\ proc'[veth[m].peer] = None
                      /\ \A x \in Cmds : <<veth[m].peer, x>> \notin jobs'
                   THEN None ELSE veth[m]
  BY DEF DropLinks
<1>2. \A q \in macvlan' : /\ q \in macvlan
                          /\ q = None \/ proc'[q] # None \/ \E x \in Cmds : <<q, x>> \in jobs'
  BY DEF DropLinks
<1>3. ASSUME NEW q \in Pids, HasNsLink(q)' PROVE proc'[q] # None \/ HasJobs(q)'
  <2>1. q # None
    BY NoneAssumption
  <2>. QED  BY <1>1, <1>2, <1>3, <2>1 DEF HasNsLink, HasJobs
<1>. QED  BY <1>1, <1>2, <1>3

\* From its kill on stop works on a sensor that does not run.
LEMMA StoppedRunsNot ==
    ASSUME TypeOK, InstancesInv, PidsOwn, NEW c \in Clients, NEW n \in Names, n = loc[c].name,
           pc[c] \in {"unplug", "count", "delbridge", "clean"}
    PROVE  ~Running(n)
<1>1. Absent(n)
  BY DEF InstancesInv, ClientAlone
<1>. QED  BY <1>1 DEF Absent, Running, PidsOwn, PidFileIsOwn, Unshare, TypeOK, FilesOK

LEMMA KillNet ==
    ASSUME TypeOK, InstancesInv, PidsOwn, NEW c \in Clients, NetOK(pc[c], loc[c]), KillSandbox(c)
    PROVE  NetOK(pc[c], loc[c])'
<1>. USE DEF files, procs, net
<1>0. PICK n \in Names, p \in Pids : n = loc[c].name /\ p = loc[c].pid
  BY ClientKnows DEF KillSandbox, StopPcs, ClientOK
<1>1. /\ pc[c] = "kill" /\ pc'[c] = "unplug" /\ loc' = loc /\ KillPid(p)
      /\ UNCHANGED <<pidFile, ipFile, pers, jobs, bridges>> /\ DropLinks(proc', jobs')
  BY <1>0, GoesTo DEF KillSandbox, KillPid, DropLinks
<1>2. /\ pidFile[n] = p /\ ~Unshare(p)' /\ FewerUnshares
      /\ \A q \in Pids : q # p => proc'[q] = proc[q]
  BY <1>0, <1>1, KillFewer DEF InstancesInv, ClientAlone, KillPid, TypeOK, HostOK
<1>3. ~Running(n)'
  BY <1>1, <1>2 DEF Running, Unshare
<1>4. ASSUME NEW m \in Names, m # n
      PROVE  /\ Running(m)' <=> Running(m)
             /\ Running(m) => pidFile[m] \in Pids /\ proc'[pidFile[m]] # None
  <2>1. pidFile[m] # None => pidFile[m] \in Pids
    BY DEF TypeOK, FilesOK
  <2>2. pidFile[m] = p => ~Running(m)
    BY <1>2, <1>4 DEF Running, Unshare, PidsOwn, PidFileIsOwn
  <2>3. pidFile[m] = p => ~Running(m)'
    BY <1>1, <1>2 DEF Running, Unshare
  <2>4. pidFile[m] # None /\ pidFile[m] # p => proc'[pidFile[m]] = proc[pidFile[m]]
    BY <1>2, <2>1
  <2>. QED  BY <1>1, <2>1, <2>2, <2>3, <2>4 DEF Running, Unshare
<1>5. /\ macvlan' \subseteq macvlan
      /\ \A m \in Names : veth'[m] \in {veth[m], None}
      /\ \A q \in Pids : HasNsLink(q)' => proc'[q] # None \/ HasJobs(q)'
  BY <1>1, DropsLost
<1>6. \A m \in Names : m # n /\ Attached(m) => veth'[m] = veth[m]
  <2>1. ASSUME NEW m \in Names, m # n, Attached(m) PROVE veth'[m] = veth[m]
    <3>1. veth[m] # None /\ veth[m].peer = pidFile[m] /\ Running(m)
      BY <2>1 DEF Attached, Connected
    <3>. QED  BY <1>1, <1>4, <2>1, <3>1, DropsLost
  <2>. QED  BY <2>1
<1>7. PairsOwned(pc[c], loc[c])'
  <2>1. ASSUME NEW m \in Names, m # n, veth'[m] # None PROVE Attached(m)'
    <3>1. Attached(m)
      BY <1>1, <1>5, <2>1 DEF NetOK, PairsOwned
    <3>. QED  BY <1>1, <1>4, <1>6, <2>1, <3>1 DEF Attached, Connected
  <2>. QED  BY <1>0, <1>1, <2>1 DEF PairsOwned
<1>8. RunningWired(pc[c], loc[c])'
  <2>1. ASSUME NEW m \in Names, Running(m)'
        PROVE  pers'[m] # None /\ (pers'[m].mac \/ veth'[m] # None)
    <3>1. m # n /\ pers[m] # None /\ (pers[m].mac \/ veth[m] # None)
      BY <1>1, <1>3, <1>4, <2>1 DEF NetOK, RunningWired
    <3>2. veth[m] # None => Attached(m)
      BY <1>1 DEF NetOK, PairsOwned
    <3>. QED  BY <1>1, <1>6, <3>1, <3>2
  <2>. QED  BY <2>1 DEF RunningWired
<1>9. BridgesUsed(pc[c], loc[c])'
  BY <1>0, <1>1, <1>4 DEF NetOK, BridgesUsed
<1>10. LinksHeld'
  BY <1>5 DEF NetOK, LinksHeld
<1>11. ClientNet(pc[c], loc[c])'
  BY <1>1, ElsewhereNet
<1>. QED  BY <1>7, <1>8, <1>9, <1>10, <1>11 DEF NetOK

LEMMA DelVethNet ==
    ASSUME TypeOK, InstancesInv, PidsOwn, NEW c \in Clients, NetOK(pc[c], loc[c]), DelVeth(c)
    PROVE  NetOK(pc[c], loc[c])'
<1>. USE DEF files, procs, net
<1>0. PICK n \in Names : n = loc[c].name
  BY ClientKnows DEF DelVeth, StopPcs
<1>1. /\ pc[c] = "unplug" /\ pc'[c] = "count"
      /\ UNCHANGED <<pidFile, ipFile, pers, proc, jobs, macvlan, bridges>>
      /\ loc' = [loc EXCEPT ![c].ip = ipFile[n]]
      /\ veth' = [veth EXCEPT ![n] = None]
  BY <1>0, GoesTo DEF DelVeth
<1>2. /\ loc'[c].name = n /\ loc'[c].ip = ipFile[n]
      /\ veth'[n] = None /\ \A m \in Names : m # n => veth'[m] = veth[m]
  BY <1>0, <1>1 DEF TypeOK, ClientsOK, HostOK, Locals
<1>3. ~Running(n) /\ \A m \in Names : Running(m)' <=> Running(m)
  BY <1>0, <1>1, StoppedRunsNot DEF Running, Unshare
<1>4. PairsOwned(pc[c], loc[c])'
  <2>1. ASSUME NEW m \in Names, veth'[m] # None PROVE Attached(m)'
    <3>1. m # n /\ veth'[m] = veth[m] /\ Attached(m)
      BY <1>0, <1>1, <1>2, <2>1 DEF NetOK, PairsOwned
    <3>. QED  BY <1>1, <1>3, <3>1 DEF Attached, Connected
  <2>. QED  BY <2>1 DEF PairsOwned
<1>5. RunningWired(pc[c], loc[c])'
  BY <1>1, <1>2, <1>3 DEF NetOK, RunningWired
<1>6. BridgesUsed(pc[c], loc[c])'
  BY <1>0, <1>1, <1>2, <1>3 DEF NetOK, BridgesUsed
<1>7. LinksHeld'
  BY <1>1, <1>2 DEF NetOK, LinksHeld, HasNsLink, HasJobs
<1>8. ClientNet(pc[c], loc[c])'
  BY <1>1, <1>2 DEF ClientNet
<1>. QED  BY <1>4, <1>5, <1>6, <1>7, <1>8 DEF NetOK

\* While stop is past its unplug, every pair is attached and its bridge used.
LEMMA CountPortsNet ==
    ASSUME TypeOK, NEW c \in Clients, NetOK(pc[c], loc[c]), CountPorts(c)
    PROVE  NetOK(pc[c], loc[c])'
<1>. USE DEF files, procs, net
<1>0. PICK n \in Names, ip \in {loc[c].ip} : n = loc[c].name /\ ip = loc[c].ip
  BY ClientKnows DEF CountPorts, StopPcs
<1>1. /\ pc[c] = "count" /\ loc' = loc /\ loc'[c].name = n /\ loc'[c].ip = ip
      /\ UNCHANGED <<pidFile, ipFile, pers, proc, jobs, veth, macvlan, bridges>>
      /\ Goto(c, IF ip # None /\ ip.net \in bridges /\ Ports(ip.net) = {}
                 THEN "delbridge" ELSE "clean")
  BY <1>0 DEF CountPorts
<1>2. \/ pc'[c] = "delbridge" /\ Ports(ip.net) = {}
      \/ pc'[c] = "clean" /\ ~(ip # None /\ ip.net \in bridges /\ Ports(ip.net) = {})
  BY <1>1, GoesTo
<1>3. ip = ipFile[n] /\ \A m \in Names : Running(m)' <=> Running(m)
  BY <1>0, <1>1 DEF NetOK, ClientNet, Running, Unshare
<1>4. \A m \in Names : veth[m] = None \/ Attached(m)
  BY <1>1 DEF NetOK, PairsOwned
<1>5. PairsOwned(pc[c], loc[c])'
  BY <1>1, <1>3, <1>4 DEF PairsOwned, Attached, Connected
<1>6. RunningWired(pc[c], loc[c])'
  BY <1>1, <1>3 DEF NetOK, RunningWired
<1>7. BridgesUsed(pc[c], loc[c])'
  <2>1. ASSUME NEW b \in bridges
        PROVE  \E m \in Names : /\ ipFile[m] # None /\ ipFile[m].net = b
                                /\ Running(m) \/ (pc'[c] = "delbridge" /\ m = n)
    <3>1. PICK m \in Names : ipFile[m] # None /\ ipFile[m].net = b /\ (Running(m) \/ m = n)
      BY <1>0, <1>1 DEF NetOK, BridgesUsed
    <3>2. CASE m = n /\ pc'[c] = "clean"
      <4>1. Ports(b) # {}
        BY <1>2, <1>3, <3>1, <3>2
      <4>2. PICK k \in Names : veth[k] # None /\ veth[k].br = b
        BY <4>1 DEF Ports
      <4>3. /\ Running(k) /\ ipFile[k] # None
            /\ veth[k] = [peer |-> pidFile[k], br |-> ipFile[k].net, addr |-> ipFile[k]]
        BY <1>4, <4>2 DEF Attached, Connected
      <4>4. veth[k].br = ipFile[k].net
        BY <4>3
      <4>. QED  BY <4>2, <4>3, <4>4
    <3>. QED  BY <1>2, <3>1, <3>2
  <2>. QED  BY <1>1, <1>3, <2>1 DEF BridgesUsed
<1>8. LinksHeld'
  BY <1>1 DEF NetOK, LinksHeld, HasNsLink, HasJobs
<1>9. ClientNet(pc[c], loc[c])'
  BY <1>1, <1>2, <1>3 DEF ClientNet, Ports
<1>. QED  BY <1>5, <1>6, <1>7, <1>8, <1>9 DEF NetOK

LEMMA DelBridgeNet ==
    ASSUME TypeOK, NEW c \in Clients, NetOK(pc[c], loc[c]), DelBridge(c)
    PROVE  NetOK(pc[c], loc[c])'
<1>. USE DEF files, procs, net
<1>0. PICK n \in Names, ip \in {loc[c].ip} : n = loc[c].name /\ ip = loc[c].ip
  BY ClientKnows DEF DelBridge, StopPcs
<1>1. /\ pc[c] = "delbridge" /\ pc'[c] = "clean" /\ loc' = loc
      /\ UNCHANGED <<pidFile, ipFile, pers, proc, jobs, macvlan>>
      /\ bridges' = bridges \ {ip.net}
      /\ veth' = [m \in Names |-> IF m \in Ports(ip.net) THEN [veth[m] EXCEPT !.br = None]
                                                         ELSE veth[m]]
  BY <1>0, GoesTo DEF DelBridge
<1>2. ip = ipFile[n] /\ Ports(ip.net) = {}
  BY <1>0, <1>1 DEF NetOK, ClientNet
<1>3. /\ \A m \in Names : veth'[m] = veth[m]
      /\ \A m \in Names : Running(m)' <=> Running(m)
  BY <1>1, <1>2 DEF Running, Unshare
<1>4. PairsOwned(pc[c], loc[c])'
  <2>1. ASSUME NEW m \in Names, veth'[m] # None PROVE Attached(m)'
    <3>1. Attached(m) /\ veth[m] # None
      BY <1>1, <1>3, <2>1 DEF NetOK, PairsOwned
    <3>2. ipFile[m].net # ip.net
      BY <1>2, <3>1 DEF Attached, Connected, Ports
    <3>. QED  BY <1>1, <1>3, <3>1, <3>2 DEF Attached, Connected
  <2>. QED  BY <2>1 DEF PairsOwned
<1>5. RunningWired(pc[c], loc[c])'
  BY <1>1, <1>3 DEF NetOK, RunningWired
<1>6. BridgesUsed(pc[c], loc[c])'
  BY <1>0, <1>1, <1>2, <1>3 DEF NetOK, BridgesUsed
<1>7. LinksHeld'
  BY <1>1, <1>3 DEF NetOK, LinksHeld, HasNsLink, HasJobs
<1>. QED  BY <1>1, <1>4, <1>5, <1>6, <1>7, ElsewhereNet DEF NetOK

LEMMA CleanNet ==
    ASSUME TypeOK, InstancesInv, PidsOwn, NEW c \in Clients, NetOK(pc[c], loc[c]), CleanState(c)
    PROVE  NetOK(pc[c], loc[c])'
<1>. USE DEF files, procs, net
<1>0. PICK n \in Names : n = loc[c].name
  BY ClientKnows DEF CleanState, StopPcs
<1>1. /\ pc[c] = "clean" /\ pc'[c] = "forget" /\ loc' = loc
      /\ UNCHANGED <<pers, proc, jobs, veth, macvlan, bridges>>
      /\ pidFile'[n] = None /\ ipFile'[n] = None
      /\ \A m \in Names : m # n => pidFile'[m] = pidFile[m] /\ ipFile'[m] = ipFile[m]
  BY <1>0, GoesTo DEF CleanState, TypeOK, FilesOK
<1>2. /\ ~Running(n) /\ ~Running(n)'
      /\ \A m \in Names : m # n => (Running(m)' <=> Running(m))
  BY <1>0, <1>1, StoppedRunsNot DEF Running, Unshare
<1>3. PairsOwned(pc[c], loc[c])'
  <2>1. ASSUME NEW m \in Names, veth'[m] # None PROVE Attached(m)'
    <3>1. Attached(m) /\ m # n
      BY <1>1, <1>2, <2>1 DEF NetOK, PairsOwned, Attached
    <3>. QED  BY <1>1, <1>2, <3>1 DEF Attached, Connected
  <2>. QED  BY <2>1 DEF PairsOwned
<1>4. RunningWired(pc[c], loc[c])'
  BY <1>1, <1>2 DEF NetOK, RunningWired
<1>5. BridgesUsed(pc[c], loc[c])'
  BY <1>1, <1>2 DEF NetOK, BridgesUsed
<1>6. LinksHeld'
  BY <1>1 DEF NetOK, LinksHeld, HasNsLink, HasJobs
<1>7. ClientNet(pc[c], loc[c])'
  BY <1>0, <1>1 DEF ClientNet
<1>. QED  BY <1>3, <1>4, <1>5, <1>6, <1>7 DEF NetOK

LEMMA ForgetNet ==
    ASSUME TypeOK, NEW c \in Clients, NetOK(pc[c], loc[c]), ForgetSandbox(c)
    PROVE  NetOK(pc[c], loc[c])'
<1>. USE DEF files, procs, net
<1>0. PICK n \in Names : n = loc[c].name
  BY ClientKnows DEF ForgetSandbox, StopPcs
<1>1. /\ pc[c] = "forget" /\ pc'[c] = "idle"
      /\ UNCHANGED <<pidFile, ipFile, proc, jobs, veth, macvlan, bridges>>
      /\ \A m \in Names : m # n => pers'[m] = pers[m]
  BY <1>0, ExitLocals DEF ForgetSandbox, TypeOK, FilesOK
<1>2. ~Running(n) /\ \A m \in Names : Running(m)' <=> Running(m)
  BY <1>0, <1>1 DEF NetOK, ClientNet, Running, Unshare
<1>3. PairsOwned(pc[c], loc[c])'
  BY <1>1, <1>2 DEF NetOK, PairsOwned, Attached, Connected
<1>4. RunningWired(pc[c], loc[c])'
  BY <1>1, <1>2 DEF NetOK, RunningWired
<1>5. BridgesUsed(pc[c], loc[c])'
  BY <1>1, <1>2 DEF NetOK, BridgesUsed
<1>6. LinksHeld'
  BY <1>1 DEF NetOK, LinksHeld, HasNsLink, HasJobs
<1>. QED  BY <1>1, <1>3, <1>4, <1>5, <1>6, ElsewhereNet DEF NetOK

LEMMA ExecRestoreNet ==
    ASSUME TypeOK, NEW c \in Clients, NetOK(pc[c], loc[c]),
           Stop(c) \/ Exec(c) \/ ExecStep(c) \/ Restore(c) \/ RestoreStep(c)
    PROVE  NetOK(pc[c], loc[c])'
<1>. USE DEF files, procs, net
<1>1. /\ UNCHANGED <<pidFile, ipFile, proc, veth, macvlan, bridges>>
      /\ pc[c] \in ExecPcs \cup {"idle", "rnext", "rlist", "rexec"}
      /\ pc'[c] \in ExecPcs \cup {"idle", "rnext", "rlist", "rexec", "check", "kill"}
  BY StopBegins, ExecRestoreSteps
<1>2. /\ jobs \subseteq jobs'
      /\ \A m \in Names : pers[m] # None => pers'[m] # None /\ pers'[m].mac = pers[m].mac
  <2>1. CASE Stop(c) \/ Exec(c) \/ Restore(c) \/ RestoreStep(c)
    BY <2>1, StopBegins, ExecBegins, RestoreKeeps
  <2>2. CASE CheckExec(c)
    BY <2>2, CheckExecGoesOn
  <2>3. CASE ExecRun(c)
    BY <2>3 DEF ExecRun
  <2>5. CASE ExecCount(c)
    BY <2>5, ExecCountEffect
  <2>4. CASE ExecDir(c) \/ ExecWrite(c)
    <3>1. PICK n \in Names : n = loc[c].name
      BY <2>4, ClientKnows DEF ExecDir, ExecWrite, ExecPcs
    <3>2. jobs' = jobs
      BY <2>4 DEF ExecDir, ExecWrite
    <3>3. CASE ExecDir(c)
      BY <3>1, <3>2, <3>3, ExecDirEffect
    <3>4. CASE ExecWrite(c)
      BY <3>1, <3>2, <3>4, ExecWriteEffect
    <3>. QED  BY <2>4, <3>3, <3>4
  <2>. QED  BY <2>1, <2>2, <2>3, <2>4, <2>5 DEF ExecStep
<1>3. ClientNet(pc[c], loc[c])'
  BY <1>1, ElsewhereNet DEF ExecPcs
<1>. QED  BY <1>1, <1>2, <1>3, NetKept DEF ExecPcs

\* The end of a detached command may take the links of a container that is gone.
LEMMA HappensLinks ==
    ASSUME Undisturbed, TypeOK, LinksHeld, Happens
    PROVE  /\ \A p \in Pids : Unshare(p)' <=> Unshare(p)
           /\ \A m \in Names : \/ veth'[m] = veth[m]
                               \/ /\ veth'[m] = None /\ veth[m].peer \in Pids
                                  /\ ~Unshare(veth[m].peer)
           /\ macvlan' \subseteq macvlan
           /\ LinksHeld'
<1>. USE DEF files, procs, net
<1>1. ASSUME NEW p \in Pids, SensorExits(p) PROVE FALSE
  BY <1>1 DEF SensorExits, Undisturbed
<1>2. ASSUME NEW n \in Names, ChaosKill(n) PROVE FALSE
  BY <1>2 DEF ChaosKill, Undisturbed
<1>3. ASSUME NEW p \in Pids, AgentUp(p)
      PROVE  /\ \A q \in Pids : /\ Unshare(q)' <=> Unshare(q)
                                /\ proc[q] # None => proc'[q] # None
             /\ UNCHANGED <<jobs, veth, macvlan>>
  <2>1. [proc[p] EXCEPT !.stage = "up"] \in Procs
    BY <1>3 DEF AgentUp, TypeOK, HostOK, Procs
  <2>2. proc'[p] # None /\ proc'[p].stage = "up" /\ \A q \in Pids : q # p => proc'[q] = proc[q]
    BY <1>3, <2>1, NoneAssumption DEF AgentUp, TypeOK, HostOK, Procs
  <2>. QED  BY <1>3, <2>2 DEF AgentUp, Unshare
<1>4. CASE ~JobExits
  <2>1. /\ \A q \in Pids : (Unshare(q)' <=> Unshare(q)) /\ (proc[q] # None => proc'[q] # None)
        /\ UNCHANGED <<jobs, veth, macvlan>>
    BY <1>1, <1>2, <1>3, <1>4 DEF Happens, UplinkChanges, Unshare
  <2>. QED  BY <2>1 DEF LinksHeld, HasNsLink, HasJobs
<1>5. CASE JobExits
  <2>1. proc' = proc /\ DropLinks(proc', jobs')
    BY <1>5 DEF JobExits, DropLinks
  <2>2. LinksHeld'
    BY <2>1, DropsLost DEF LinksHeld
  <2>3. \A m \in Names : \/ veth'[m] = veth[m]
                         \/ veth'[m] = None /\ veth[m].peer \in Pids /\ ~Unshare(veth[m].peer)
    <3>1. ASSUME NEW m \in Names, veth'[m] # veth[m]
          PROVE  /\ veth'[m] = None /\ veth[m] # None
                 /\ veth[m].peer # None /\ proc[veth[m].peer] = None
      BY <2>1, <3>1 DEF DropLinks
    <3>2. \A m \in Names : veth[m] # None => veth[m].peer \in Pids \cup {None}
      BY DEF TypeOK, HostOK, Veths
    <3>. QED  BY <3>1, <3>2 DEF Unshare
  <2>. QED  BY <2>1, <2>2, <2>3, DropsLost DEF Unshare
<1>. QED  BY <1>4, <1>5

LEMMA HappensNet ==
    ASSUME Undisturbed, TypeOK, Happens, NEW label, NEW l, ClientOK(label, l),
           label = "unplug" => ~Running(l.name), NetOK(label, l)
    PROVE  NetOK(label, l)'
<1>1. /\ UNCHANGED <<pidFile, ipFile, bridges>>
      /\ \A n \in Names : pers[n] = None \/ pers'[n] = pers[n]
  BY EnvironmentKeeps
<1>2. /\ \A p \in Pids : Unshare(p)' <=> Unshare(p)
      /\ \A m \in Names : \/ veth'[m] = veth[m]
                          \/ /\ veth'[m] = None /\ veth[m].peer \in Pids
                             /\ ~Unshare(veth[m].peer)
      /\ macvlan' \subseteq macvlan
      /\ LinksHeld'
  BY HappensLinks DEF NetOK
<1>3. \A m \in Names : Running(m)' <=> Running(m)
  BY <1>1, <1>2 DEF Running, TypeOK, FilesOK
<1>4. ASSUME NEW m \in Names, Attached(m) PROVE veth'[m] = veth[m] /\ Attached(m)'
  <2>1. veth[m].peer = pidFile[m] /\ Unshare(pidFile[m])
    BY <1>4 DEF Attached, Connected, Running
  <2>2. veth'[m] = veth[m]
    BY <1>2, <2>1
  <2>. QED  BY <1>1, <1>3, <1>4, <2>2 DEF Attached, Connected
<1>5. PairsOwned(label, l)'
  BY <1>2, <1>4 DEF NetOK, PairsOwned
<1>6. RunningWired(label, l)'
  <2>1. ASSUME NEW m \in Names, Running(m), veth[m] # None PROVE veth'[m] # None
    <3>1. CASE Attached(m)
      BY <1>4, <2>1, <3>1
    <3>2. CASE ~Attached(m)
      <4>1. label = "plug" /\ l.name = m
        BY <2>1, <3>2 DEF NetOK, PairsOwned
      <4>2. veth[m].peer = None
        BY <4>1 DEF NetOK, ClientNet
      <4>. QED  BY <1>2, <2>1, <4>2, NoneAssumption
    <3>. QED  BY <3>1, <3>2
  <2>. QED  BY <1>1, <1>3, <2>1 DEF NetOK, RunningWired
<1>7. BridgesUsed(label, l)'
  BY <1>1, <1>3 DEF NetOK, BridgesUsed
<1>8. ClientNet(label, l)'
  <2>1. ASSUME label \in {"record", "persist", "bridge", "veth", "plug"}
        PROVE  Unshare(l.pid)' /\ ~HasNsLink(l.pid)'
    <3>1. l.pid \in Pids /\ Unshare(l.pid) /\ ~HasNsLink(l.pid)
      BY <2>1 DEF NetOK, ClientNet, ClientOK
    <3>. QED  BY <1>2, <3>1 DEF HasNsLink
  <2>2. label = "plug" => veth'[l.name] = veth[l.name]
    <3>1. label = "plug" => l.name \in Names /\ veth[l.name].peer = None
      BY DEF NetOK, ClientNet, ClientOK, StartPcs
    <3>. QED  BY <1>2, <3>1, NoneAssumption
  <2>3. label = "delbridge" => Ports(l.ip.net)' = {}
    BY <1>2 DEF NetOK, ClientNet, Ports
  <2>4. /\ label \in {"bridge", "veth", "plug"} => l.name \in Names
        /\ ClientNet(label, l)
    BY DEF NetOK, ClientOK, StartPcs
  <2>. QED  BY <1>1, <2>1, <2>2, <2>3, <2>4 DEF ClientNet, Unshare, HasNsLink, Ports
<1>. QED  BY <1>2, <1>5, <1>6, <1>7, <1>8 DEF NetOK

\* NetOK of the client is NetOK of the values that its variables have.
LEMMA NetOf ==
    ASSUME NEW c \in Clients, NEW label, NEW l
    PROVE  /\ label = pc[c] /\ l = loc[c] /\ NetOK(pc[c], loc[c]) => NetOK(label, l)
           /\ label = pc'[c] /\ l = loc'[c] /\ NetOK(label, l)' => NetOK(pc[c], loc[c])'
<1>1. ASSUME label = pc'[c], l = loc'[c], NetOK(label, l)' PROVE NetOK(pc[c], loc[c])'
  <2>1. PairsOwned(pc[c], loc[c])'
    BY <1>1 DEF NetOK, PairsOwned
  <2>2. RunningWired(pc[c], loc[c])'
    BY <1>1 DEF NetOK, RunningWired
  <2>3. BridgesUsed(pc[c], loc[c])'
    BY <1>1 DEF NetOK, BridgesUsed
  <2>4. ClientNet(pc[c], loc[c])'
    BY <1>1 DEF NetOK, ClientNet
  <2>. QED  BY <1>1, <2>1, <2>2, <2>3, <2>4 DEF NetOK
<1>. QED  BY <1>1

LEMMA RebootNet ==
    ASSUME TypeOK', Reboot
    PROVE  NetOK("idle", NoLocals)'
<1>1. /\ bridges' = {} /\ macvlan' = {}
      /\ \A p \in Pids : proc'[p] = None
      /\ \A n \in Names : veth'[n] = None
  BY RebootKeeps
<1>2. \A n \in Names : ~Running(n)'
  BY <1>1 DEF Running, Unshare, TypeOK, FilesOK
<1>. QED
  BY <1>1, <1>2
     DEF NetOK, PairsOwned, RunningWired, BridgesUsed, LinksHeld, HasNsLink, ClientNet

LEMMA NetInit == Init => NetInv
<1>. SUFFICES ASSUME Init PROVE NetInv
  OBVIOUS
<1>1. NetOK("idle", NoLocals)
  BY DEF Init, NetOK, PairsOwned, RunningWired, BridgesUsed, LinksHeld, HasNsLink, ClientNet,
         Running
<1>2. \A c \in Clients : pc[c] = "idle" /\ loc[c] = NoLocals
  BY DEF Init
<1>. QED  BY <1>1, <1>2 DEF NetInv

LEMMA StepNet ==
    ASSUME Undisturbed, TypeOK, InstancesInv, PidsOwn, NEW c \in Clients, NetOK(pc[c], loc[c]),
           \/ Start(c) \/ Stop(c) \/ Exec(c) \/ Restore(c) \/ ClientStep(c)
    PROVE  NetOK(pc[c], loc[c])'
<1>1. CASE Start(c) \/ StartStep(c)
  BY <1>1, StartQuietNet, CheckStartNet, LaunchNet, RecordNet, PersistNet, MacvlanNet, BridgeNet,
     AddVethNet, PlugVethNet DEF StartStep
<1>2. CASE StopStep(c)
  BY <1>2, KillNet, DelVethNet, CountPortsNet, DelBridgeNet, CleanNet, ForgetNet DEF StopStep
<1>3. CASE Stop(c) \/ Exec(c) \/ ExecStep(c) \/ Restore(c) \/ RestoreStep(c)
  BY <1>3, ExecRestoreNet
<1>. QED  BY <1>1, <1>2, <1>3 DEF ClientStep

LEMMA NetNext ==
    ASSUME Undisturbed
    PROVE  TypeOK /\ TypeOK' /\ InstancesInv /\ PidsOwn /\ NetInv /\ [Next]_vars => NetInv'
<1>. SUFFICES ASSUME TypeOK, TypeOK', InstancesInv, PidsOwn, NetInv, [Next]_vars PROVE NetInv'
  OBVIOUS
<1>1. CASE UNCHANGED vars
  <2>1. ASSUME NEW label, NEW l, NetOK(label, l) PROVE NetOK(label, l)'
    <3>1. \A m \in Names : /\ Running(m)' <=> Running(m)
                           /\ Attached(m)' <=> Attached(m)
      BY <1>1 DEF vars, files, procs, net, Running, Unshare, Attached, Connected
    <3>2. PairsOwned(label, l)' /\ RunningWired(label, l)' /\ BridgesUsed(label, l)'
      BY <1>1, <2>1, <3>1
         DEF vars, files, procs, net, NetOK, PairsOwned, RunningWired, BridgesUsed
    <3>3. LinksHeld' /\ ClientNet(label, l)'
      BY <1>1, <2>1
         DEF vars, files, procs, net, NetOK, LinksHeld, HasNsLink, HasJobs, ClientNet, Unshare,
             Ports
    <3>. QED  BY <3>2, <3>3 DEF NetOK
  <2>2. ASSUME NEW c \in Clients PROVE NetOK(pc[c], loc[c])'
    <3>1. PICK label, l : label = pc[c] /\ l = loc[c]
      OBVIOUS
    <3>2. label = pc'[c] /\ l = loc'[c]
      BY <1>1, <3>1 DEF vars
    <3>. QED  BY <2>1, <3>1, <3>2, NetOf DEF NetInv
  <2>3. NetOK("idle", NoLocals) => NetOK("idle", NoLocals)'
    BY <2>1
  <2>. QED  BY <2>2, <2>3 DEF NetInv
<1>2. ASSUME NEW c \in Clients,
             Start(c) \/ Stop(c) \/ Exec(c) \/ Restore(c) \/ ClientStep(c)
      PROVE  NetInv'
  <2>1. NetOK(pc[c], loc[c])'
    BY <1>2, StepNet DEF NetInv
  <2>2. \A d \in Clients : d = c
    BY DEF Undisturbed, OneClient
  <2>. QED  BY <2>1, <2>2 DEF NetInv
<1>3. ASSUME NEW c \in Clients, Interrupt(c) PROVE FALSE
  BY <1>3 DEF Interrupt, Undisturbed
<1>4. CASE Happens
  <2>1. ASSUME NEW c \in Clients PROVE NetOK(pc[c], loc[c])'
    <3>1. PICK label, l : label = pc[c] /\ l = loc[c]
      OBVIOUS
    <3>2. label = pc'[c] /\ l = loc'[c]
      BY <1>4, <3>1, EnvironmentKeeps
    <3>3. label = "unplug" => ~Running(l.name)
      BY <3>1, StoppedRunsNot, ClientKnows DEF StopPcs
    <3>4. ClientOK(label, l) /\ NetOK(label, l)
      BY <3>1, ClientKnows, NetOf DEF NetInv
    <3>5. NetOK(label, l)'
      BY <1>4, <3>3, <3>4, HappensNet
    <3>. QED  BY <3>1, <3>2, <3>5, NetOf
  <2>2. ClientOK("idle", NoLocals)
    BY DEF ClientOK, StartPcs, StopPcs, ExecPcs
  <2>3. NetOK("idle", NoLocals) => NetOK("idle", NoLocals)'
    BY <1>4, <2>2, HappensNet
  <2>. QED  BY <2>1, <2>3 DEF NetInv
<1>5. CASE Reboot
  <2>1. NetOK("idle", NoLocals)'
    BY <1>5, RebootNet
  <2>2. \A c \in Clients : "idle" = pc'[c] /\ NoLocals = loc'[c]
    BY <1>5, RebootKeeps
  <2>3. \A c \in Clients : NetOK(pc[c], loc[c])'
    BY <2>1, <2>2, NetOf
  <2>. QED  BY <2>1, <2>3 DEF NetInv
<1>. QED  BY <1>1, <1>2, <1>3, <1>4, <1>5 DEF Next, Happens

LEMMA NetAlways == ASSUME Undisturbed PROVE Spec => []NetInv
<1>0. OneClient /\ NoSplitStart /\ NoReuse
  BY DEF Undisturbed, NoSplitStart, NoReuse
<1>1. TypeOK /\ InstancesInv /\ [Next]_vars => InstancesInv'
  BY <1>0, InstancesNext
<1>2. TypeOK /\ TypeOK' /\ PidsOwn /\ [Next]_vars => PidsOwn'
  BY <1>0, PidsNext
<1>3. TypeOK /\ TypeOK' /\ InstancesInv /\ PidsOwn /\ NetInv /\ [Next]_vars => NetInv'
  BY NetNext
<1>. QED  BY <1>1, <1>2, <1>3, InstancesInit, PidsInit, NetInit, TypeCorrect, PTL DEF Spec

\* Between invocations nothing is half done.
LEMMA NetAtRest ==
    ASSUME NetInv, AllIdle
    PROVE  \E l : NetOK("idle", l)
BY DEF NetInv, AllIdle

\* As long as containers end only by stop or with the host: whatever stop, restart,
\* restore, failed launches and reboots do to other sensors, one that runs keeps its
\* pair, its address and its bridge, if it is not one of those on macvlan.
THEOREM RunningConnectedAlways ==
    ASSUME Undisturbed PROVE Spec => []RunningIsConnected
<1>1. NetInv => RunningIsConnected
  <2>. SUFFICES ASSUME NetInv, AllIdle, NEW n \in Names, Running(n),
                       pers[n] # None => ~pers[n].mac
                PROVE  Connected(n)
    BY DEF RunningIsConnected
  <2>1. PICK l : NetOK("idle", l)
    BY NetAtRest
  <2>2. veth[n] # None
    BY <2>1 DEF NetOK, RunningWired
  <2>3. Attached(n)
    BY <2>1, <2>2 DEF NetOK, PairsOwned
  <2>. QED  BY <2>3 DEF Attached
<1>. QED  BY <1>1, NetAlways, PTL

\* As long as containers end only by stop or with the host and nothing is interrupted,
\* every bridge that an invocation leaves serves the address of a sensor: stop takes
\* it away with its last port. The hypothesis is needed: when a container dies and the
\* sensor is started anew, CheckStart drops its ip file and nobody removes its bridge.
THEOREM NoStrayBridgeUndisturbed ==
    ASSUME Undisturbed PROVE Spec => []NoStrayBridge
<1>1. NetInv => NoStrayBridge
  <2>. SUFFICES ASSUME NetInv, AllIdle, NEW b \in bridges
                PROVE  \E n \in Names : ipFile[n] # None /\ ipFile[n].net = b
    BY DEF NoStrayBridge
  <2>1. PICK l : NetOK("idle", l)
    BY NetAtRest
  <2>. QED  BY <2>1 DEF NetOK, BridgesUsed
<1>. QED  BY <1>1, NetAlways, PTL

\* As long as containers end only by stop or with the host, a sensor that has been
\* stopped has no pair, although its agent lives on.
THEOREM StoppedCutOffAlways ==
    ASSUME Undisturbed PROVE Spec => []StoppedIsCutOff
<1>1. NetInv => StoppedIsCutOff
  <2>. SUFFICES ASSUME NetInv, AllIdle, NEW n \in Names, veth[n] # None
                PROVE  pidFile[n] # None
    BY DEF StoppedIsCutOff
  <2>1. PICK l : NetOK("idle", l)
    BY NetAtRest
  <2>. QED  BY <2>1 DEF NetOK, PairsOwned, Attached, Running
<1>. QED  BY <1>1, NetAlways, PTL

-----------------------------------------------------------------------------
(* What restore leaves stopped. *)

\* Nobody else disturbs restore, there is an interface for macvlan, and the agent of a
\* sensor whose directory the sensor script made before start wrote to it is known.
Restorable == Undisturbed /\ "uplink" \notin Faults /\ Guessable = Names

\* Each sensor of a persistent directory is to come, or runs, or is at work.
RestoreOK(label, l) ==
    /\ label \in {"rnext", "rlist", "rexec"} => l.restoring
    /\ l.restoring =>
          /\ label \notin StopPcs \cup {"idle"}
          /\ label = "check" => ~Running(l.name)
          /\ label \in ExecPcs \cup {"rlist", "rexec"} => Running(l.name)
          /\ \A n \in Names : pers[n] # None =>
                n \in l.todo \/ Running(n) \/ (label # "rnext" /\ l.name = n)

RestoreInv == alien = {} /\ uplink /\ \A c \in Clients : RestoreOK(pc[c], loc[c])

\* A step of start or exec goes on with the sensor that restore has come to.
LEMMA RestoreKept ==
    ASSUME NEW c \in Clients, RestoreOK(pc[c], loc[c]),
           loc'[c].restoring = loc[c].restoring, loc'[c].todo = loc[c].todo,
           loc'[c].name = loc[c].name, pc[c] # "rnext",
           pc'[c] \notin StopPcs \cup {"idle", "rnext", "check"},
           pc'[c] \in {"rlist", "rexec"} => loc[c].restoring,
           NEW n, n = loc[c].name,
           pc'[c] \in ExecPcs \cup {"rlist", "rexec"} => Running(n)',
           \A m \in Names : /\ Running(m) => Running(m)'
                            /\ m # n /\ pers'[m] # None => pers[m] # None
    PROVE  RestoreOK(pc[c], loc[c])'
<1>1. SUFFICES ASSUME loc'[c].restoring
               PROVE  /\ pc'[c] \notin StopPcs \cup {"idle"}
                      /\ pc'[c] = "check" => ~Running(n)'
                      /\ pc'[c] \in ExecPcs \cup {"rlist", "rexec"} => Running(n)'
                      /\ \A m \in Names : pers'[m] # None =>
                            m \in loc'[c].todo \/ Running(m)' \/ (pc'[c] # "rnext" /\ n = m)
  BY DEF RestoreOK, Running, Unshare
<1>2. \A m \in Names : pers[m] # None => m \in loc[c].todo \/ Running(m) \/ n = m
  BY <1>1 DEF RestoreOK
<1>. QED  BY <1>1, <1>2

\* An invocation that ends, or one of another kind, restores nothing.
LEMMA RestoresNot ==
    ASSUME NEW c \in Clients, ~loc'[c].restoring, pc'[c] \notin {"rnext", "rlist", "rexec"}
    PROVE  RestoreOK(pc[c], loc[c])'
BY DEF RestoreOK

LEMMA StartStepRestores ==
    ASSUME Restorable, TypeOK, RestoreInv, NEW c \in Clients, NetOK(pc[c], loc[c]), StartStep(c)
    PROVE  /\ RestoreOK(pc[c], loc[c])'
           /\ loc[c].restoring /\ pc[c] \notin {"launch", "pickid"} => pc'[c] # "idle"
<1>. USE DEF files, procs, net
<1>0. PICK n \in Names : n = loc[c].name
  BY ClientKnows DEF StartStep, CheckStart, PickId, NoIdLeft, ClaimId, Launch, LaunchFails,
     RecordStart, PersistStart, MacvlanRefused, SetupMacvlan, SetupBridge, AddVeth, PlugVeth,
     StartPcs
<1>1. RestoreOK(pc[c], loc[c]) /\ alien = {} /\ uplink
  BY DEF RestoreInv
<1>2. loc[c] \in Locals /\ loc \in [Clients -> Locals]
  BY DEF TypeOK, ClientsOK
<1>3. CASE NoIdLeft(c) \/ LaunchFails(c) \/ MacvlanRefused(c)
  <2>1. pc[c] \in {"pickid", "launch"} /\ Exit(c)
    BY <1>1, <1>3 DEF NoIdLeft, LaunchFails, MacvlanRefused
  <2>2. pc'[c] = "idle" /\ ~loc'[c].restoring
    BY <2>1, ExitLocals DEF NoLocals
  <2>. QED  BY <2>1, <2>2, RestoresNot
<1>4. CASE CheckStart(c)
  <2>1. CASE Exit(c) /\ UNCHANGED files
    <3>1. pc[c] = "check" /\ pc'[c] = "idle" /\ ~loc'[c].restoring
      BY <1>4, <2>1, ExitLocals DEF CheckStart, NoLocals
    <3>2. ASSUME loc[c].restoring PROVE FALSE
      <4>1. HasCommand(c)
        BY <1>0 DEF HasCommand, Restorable
      <4>2. ~Alive(pidFile[n])
        BY <1>0, <1>1, <3>1, <3>2 DEF RestoreOK, Running, Alive
      <4>3. Goto(c, IF loc[c].ip = None THEN "pickid" ELSE "launch")
        BY <1>0, <1>4, <4>1, <4>2 DEF CheckStart
      <4>4. pc'[c] = IF loc[c].ip = None THEN "pickid" ELSE "launch"
        BY <4>3, GoesTo
      <4>. QED  BY <3>1, <4>4
    <3>. QED  BY <3>1, <3>2, RestoresNot
  <2>2. CASE ~(Exit(c) /\ UNCHANGED files)
    <3>1. /\ ~Alive(pidFile[n]) /\ UNCHANGED <<pers, proc>>
          /\ pidFile' = [pidFile EXCEPT ![n] = None]
          /\ pc[c] = "check" /\ pc'[c] \in {"pickid", "launch"} /\ loc'[c].name = loc[c].name
          /\ loc'[c].restoring = loc[c].restoring /\ loc'[c].todo = loc[c].todo
      BY <1>0, <1>4, <2>2, CheckStartGoesOn DEF CheckStart
    <3>2. \A m \in Names : Running(m) => Running(m)'
      BY <3>1 DEF Running, Alive, Unshare, TypeOK, FilesOK
    <3>. QED  BY <1>0, <1>1, <3>1, <3>2, RestoreKept DEF StopPcs, ExecPcs
  <2>. QED  BY <2>1, <2>2
<1>5. CASE PickId(c) \/ ClaimId(c) \/ SetupBridge(c) \/ AddVeth(c)
  <2>1. /\ UNCHANGED <<pidFile, pers, proc>> /\ pc[c] # "rnext"
        /\ pc'[c] \in {"claimid", "launch", "veth", "plug"}
    <3>1. CASE PickId(c)
      BY <3>1, GoesTo DEF PickId
    <3>2. CASE ClaimId(c)
      BY <3>2, GoesTo DEF ClaimId
    <3>3. CASE SetupBridge(c) \/ AddVeth(c)
      BY <3>3, GoesTo DEF SetupBridge, AddVeth
    <3>. QED  BY <1>5, <3>1, <3>2, <3>3
  <2>2. /\ loc'[c].name = loc[c].name /\ loc'[c].restoring = loc[c].restoring
        /\ loc'[c].todo = loc[c].todo
    <3>1. CASE PickId(c)
      <4>1. PICK id \in Ids : loc' = [loc EXCEPT ![c].id = id, ![c].ip = AutoIp(id)]
        BY <3>1 DEF PickId, FreeIds
      <4>. QED  BY <1>2, <4>1 DEF Locals
    <3>2. CASE ~PickId(c)
      BY <1>5, <3>2 DEF ClaimId, SetupBridge, AddVeth
    <3>. QED  BY <3>1, <3>2
  <2>3. \A m \in Names : Running(m) => Running(m)'
    BY <2>1 DEF Running, Unshare
  <2>. QED  BY <1>0, <1>1, <2>1, <2>2, <2>3, RestoreKept DEF StopPcs, ExecPcs
<1>6. CASE Launch(c)
  <2>1. /\ pc[c] = "launch" /\ pc'[c] = "record" /\ UNCHANGED files
        /\ loc'[c].name = loc[c].name /\ loc'[c].restoring = loc[c].restoring
        /\ loc'[c].todo = loc[c].todo
    BY <1>6, LaunchEffect
  <2>2. \A m \in Names : Running(m) => Running(m)'
    <3>1. PICK p \in Pids : FreePid(p) /\ \A r \in Pids : r # p => proc'[r] = proc[r]
      BY <1>6, LaunchEffect
    <3>. QED  BY <2>1, <3>1 DEF FreePid, Running, Unshare, TypeOK, FilesOK
  <2>. QED  BY <1>0, <1>1, <2>1, <2>2, RestoreKept DEF StopPcs, ExecPcs
<1>7. CASE RecordStart(c)
  <2>1. /\ pc[c] = "record" /\ pc'[c] = "persist" /\ loc' = loc /\ UNCHANGED <<pers, proc>>
        /\ \A m \in Names : m # n => pidFile'[m] = pidFile[m]
    BY <1>0, <1>7, RecordEffect
  <2>2. pidFile[n] = None
    BY <1>0, <2>1 DEF NetOK, ClientNet
  <2>3. \A m \in Names : Running(m) => Running(m)'
    BY <2>1, <2>2 DEF Running, Unshare
  <2>. QED  BY <1>0, <1>1, <2>1, <2>3, RestoreKept DEF StopPcs, ExecPcs
<1>8. CASE PersistStart(c)
  <2>1. /\ pc[c] = "persist" /\ pc'[c] = "bridge" /\ loc' = loc /\ UNCHANGED <<pidFile, proc>>
        /\ \A m \in Names : m # n => pers'[m] = pers[m]
    BY <1>0, <1>8, PersistStartEffect, GoesTo DEF PersistStart
  <2>2. \A m \in Names : Running(m) => Running(m)'
    BY <2>1 DEF Running, Unshare
  <2>. QED  BY <1>0, <1>1, <2>1, <2>2, RestoreKept DEF StopPcs, ExecPcs
<1>9. CASE SetupMacvlan(c) \/ PlugVeth(c)
  <2>1. /\ UNCHANGED <<pidFile, pers, proc>> /\ pc[c] \in {"bridge", "plug"}
        /\ \/ loc[c].restoring /\ pc'[c] = "rlist" /\ loc' = loc
           \/ ~loc[c].restoring /\ pc'[c] = "idle" /\ loc'[c] = NoLocals
    BY <1>9, ReturnLocals DEF SetupMacvlan, PlugVeth
  <2>2. Running(n)' /\ \A m \in Names : Running(m) => Running(m)'
    BY <1>0, <2>1, NothingLoose DEF Running, Unshare
  <2>3. CASE loc[c].restoring
    <3>1. pc'[c] = "rlist" /\ loc' = loc
      BY <2>1, <2>3
    <3>. QED  BY <1>0, <1>1, <2>1, <2>2, <3>1, RestoreKept DEF StopPcs, ExecPcs
  <2>4. CASE ~loc[c].restoring
    <3>1. pc'[c] = "idle" /\ ~loc'[c].restoring
      BY <2>1, <2>4 DEF NoLocals
    <3>. QED  BY <2>4, <3>1, RestoresNot
  <2>. QED  BY <2>3, <2>4
<1>. QED  BY <1>3, <1>4, <1>5, <1>6, <1>7, <1>8, <1>9 DEF StartStep

LEMMA ExecStepRestores ==
    ASSUME Restorable, TypeOK, RestoreInv, NEW c \in Clients, ExecStep(c)
    PROVE  /\ RestoreOK(pc[c], loc[c])'
           /\ loc[c].restoring => pc'[c] # "idle"
<1>. USE DEF files, procs, net
<1>0. PICK n \in Names : n = loc[c].name
  BY ClientKnows DEF ExecStep, CheckExec, ExecDir, ExecCount, ExecWrite, ExecRun, ExecPcs
<1>1. pc[c] \in ExecPcs /\ UNCHANGED <<pidFile, proc>>
  BY DEF ExecStep, CheckExec, ExecDir, ExecCount, ExecWrite, ExecRun, ExecPcs
<1>2. /\ RestoreOK(pc[c], loc[c])
      /\ loc[c].restoring => Running(n)
      /\ \A m \in Names : Running(m)' <=> Running(m)
  BY <1>0, <1>1 DEF RestoreInv, RestoreOK, Running, Unshare
<1>3. CASE ~loc[c].restoring
  <2>1. ~loc'[c].restoring /\ pc'[c] \in ExecPcs \cup {"idle"}
    <3>1. CASE CheckExec(c)
      BY <1>3, <3>1, CheckExecGoesOn DEF ExecPcs, NoLocals
    <3>2. CASE ExecDir(c)
      BY <1>0, <1>3, <3>2, ExecDirEffect DEF ExecPcs
    <3>3. CASE ExecWrite(c)
      BY <1>0, <1>3, <3>3, ExecWriteEffect DEF ExecPcs
    <3>4. CASE ExecRun(c)
      BY <1>3, <3>4, ReturnLocals DEF ExecRun, NoLocals
    <3>5. CASE ExecCount(c)
      BY <1>3, <3>5, ExecCountEffect DEF ExecPcs
    <3>. QED  BY <3>1, <3>2, <3>3, <3>4, <3>5 DEF ExecStep
  <2>. QED  BY <1>3, <2>1, RestoresNot DEF ExecPcs
<1>4. CASE loc[c].restoring
  <2>1. Running(n) /\ Running(n)'
    BY <1>2, <1>4
  <2>2. /\ loc'[c].restoring = loc[c].restoring /\ loc'[c].todo = loc[c].todo
        /\ loc'[c].name = loc[c].name /\ pc'[c] \in {"xdir", "xcount", "xwrite", "xrun", "rexec"}
        /\ \A m \in Names : m # n => pers'[m] = pers[m]
    <3>1. CASE CheckExec(c)
      <4>1. Alive(pidFile[n])
        BY <2>1 DEF Running, Alive
      <4>. QED  BY <1>0, <3>1, <4>1, CheckExecGoesOn
    <3>2. CASE ExecDir(c)
      BY <1>0, <3>2, ExecDirEffect
    <3>3. CASE ExecWrite(c)
      BY <1>0, <3>3, ExecWriteEffect
    <3>4. CASE ExecRun(c)
      BY <1>4, <3>4, ReturnLocals DEF ExecRun
    <3>5. CASE ExecCount(c)
      BY <1>0, <3>5, ExecCountEffect
    <3>. QED  BY <3>1, <3>2, <3>3, <3>4, <3>5 DEF ExecStep
  <2>3. pc[c] # "rnext" /\ pc'[c] \notin StopPcs \cup {"idle", "rnext", "check"}
    BY <1>1, <2>2 DEF ExecPcs, StopPcs
  <2>. QED  BY <1>0, <1>2, <1>4, <2>1, <2>2, <2>3, RestoreKept
<1>. QED  BY <1>3, <1>4

LEMMA RestoreBegins ==
    ASSUME TypeOK, NEW c \in Clients, Restore(c)
    PROVE  /\ pc'[c] = "rnext" /\ UNCHANGED <<files, procs, net>>
           /\ loc'[c].restoring /\ loc'[c].todo = {n \in Names : pers[n] # None}
<1>1. loc'[c].restoring /\ loc'[c].todo = {n \in Names : pers[n] # None}
  BY DEF Restore, NoLocals, TypeOK, ClientsOK
<1>2. Goto(c, "rnext") /\ UNCHANGED <<files, procs, net>>
  BY DEF Restore
<1>. QED  BY <1>1, <1>2, GoesTo

LEMMA RestoreNextEffect ==
    ASSUME TypeOK, NEW c \in Clients, RestoreNext(c)
    PROVE  /\ pc[c] = "rnext" /\ UNCHANGED <<files, procs, net>>
           /\ \E n \in loc[c].todo :
                 /\ loc'[c].todo = loc[c].todo \ {n}
                 /\ \/ /\ pers[n] = None \/ Alive(pidFile[n])
                       /\ pc'[c] = "rnext" /\ loc'[c].restoring = loc[c].restoring
                    \/ /\ pers[n] # None /\ ~Alive(pidFile[n])
                       /\ pc'[c] = "check" /\ loc'[c].restoring /\ loc'[c].name = n
<1>1. pc[c] = "rnext" /\ UNCHANGED <<files, procs, net>>
  BY DEF RestoreNext
<1>2. loc \in [Clients -> Locals] /\ pc \in [Clients -> Pcs]
  BY DEF TypeOK, ClientsOK
<1>3. PICK n \in loc[c].todo :
        IF pers[n] = None \/ Alive(pidFile[n])
        THEN loc' = [loc EXCEPT ![c].todo = @ \ {n}] /\ UNCHANGED pc
        ELSE /\ loc' = [loc EXCEPT ![c] =
                 [NoLocals EXCEPT !.name = n, !.ip = pers[n].ip,
                    !.mac = pers[n].mac, !.cmd = pers[n].cmd,
                    !.restoring = TRUE, !.todo = loc[c].todo \ {n}]]
             /\ Goto(c, "check")
  BY Zenon DEF RestoreNext
<1>4. CASE pers[n] = None \/ Alive(pidFile[n])
  <2>1. loc' = [loc EXCEPT ![c].todo = @ \ {n}] /\ pc' = pc
    BY <1>3, <1>4
  <2>2. loc'[c].todo = loc[c].todo \ {n} /\ loc'[c].restoring = loc[c].restoring
    BY <1>2, <2>1 DEF Locals
  <2>. QED  BY <1>1, <1>4, <2>1, <2>2
<1>5. CASE pers[n] # None /\ ~Alive(pidFile[n])
  <2>1. /\ Goto(c, "check")
        /\ loc'[c] = [NoLocals EXCEPT !.name = n, !.ip = pers[n].ip,
                        !.mac = pers[n].mac, !.cmd = pers[n].cmd,
                        !.restoring = TRUE, !.todo = loc[c].todo \ {n}]
    BY <1>2, <1>3, <1>5, Zenon
  <2>2. loc'[c].todo = loc[c].todo \ {n} /\ loc'[c].restoring /\ loc'[c].name = n
    BY <2>1 DEF NoLocals
  <2>. QED  BY <1>1, <1>5, <2>1, <2>2, GoesTo
<1>. QED  BY <1>4, <1>5

LEMMA RestoreListEffect ==
    ASSUME TypeOK, NEW c \in Clients, RestoreList(c) \/ RestoreExec(c)
    PROVE  /\ pc[c] \in {"rlist", "rexec"} /\ UNCHANGED <<files, procs, net>>
           /\ loc'[c].todo = loc[c].todo
           /\ \/ /\ pc'[c] \in {"rexec", "xcheck"} /\ loc'[c].name = loc[c].name
                 /\ loc'[c].restoring = loc[c].restoring
              \/ pc'[c] = "rnext" /\ loc'[c].restoring
<1>1. pc[c] \in {"rlist", "rexec"} /\ UNCHANGED <<files, procs, net>>
  BY DEF RestoreList, RestoreExec
<1>2. loc \in [Clients -> Locals]
  BY DEF TypeOK, ClientsOK
<1>3. CASE RestoreList(c)
  <2>1. Goto(c, "rexec") /\ loc' = [loc EXCEPT ![c].left = ExecFiles(loc[c].name)]
    BY <1>3 DEF RestoreList
  <2>2. /\ loc'[c].todo = loc[c].todo /\ loc'[c].name = loc[c].name
        /\ loc'[c].restoring = loc[c].restoring
    BY <1>2, <2>1 DEF Locals
  <2>. QED  BY <1>1, <2>1, <2>2, GoesTo
<1>4. CASE RestoreExec(c)
  <2>1. \/ /\ Goto(c, "rnext")
           /\ loc' = [loc EXCEPT ![c] = [NoLocals EXCEPT
                        !.restoring = TRUE, !.todo = loc[c].todo]]
        \/ /\ Goto(c, "xcheck")
           /\ \E w, j : loc' = [loc EXCEPT ![c].left = w, ![c].job = j]
    BY <1>4 DEF RestoreExec
  <2>2. CASE /\ Goto(c, "rnext")
             /\ loc' = [loc EXCEPT ![c] = [NoLocals EXCEPT
                          !.restoring = TRUE, !.todo = loc[c].todo]]
    <3>1. loc'[c] = [NoLocals EXCEPT !.restoring = TRUE, !.todo = loc[c].todo]
      BY <1>2, <2>2, Zenon
    <3>2. loc'[c].restoring /\ loc'[c].todo = loc[c].todo
      BY <3>1 DEF NoLocals
    <3>. QED  BY <1>1, <2>2, <3>2, GoesTo
  <2>3. CASE /\ Goto(c, "xcheck")
             /\ \E w, j : loc' = [loc EXCEPT ![c].left = w, ![c].job = j]
    <3>1. /\ loc'[c].todo = loc[c].todo /\ loc'[c].name = loc[c].name
          /\ loc'[c].restoring = loc[c].restoring
      BY <1>2, <2>3 DEF Locals
    <3>. QED  BY <1>1, <2>3, <3>1, GoesTo
  <2>. QED  BY <2>1, <2>2, <2>3
<1>. QED  BY <1>3, <1>4

LEMMA RestoreStepRestores ==
    ASSUME TypeOK, RestoreInv, NEW c \in Clients, Restore(c) \/ RestoreStep(c)
    PROVE  /\ RestoreOK(pc[c], loc[c])'
           /\ RestoreStep(c) /\ pc'[c] = "idle" =>
                 \A n \in Names : pers[n] # None => Running(n)
<1>. USE DEF files, procs, net
<1>1. RestoreOK(pc[c], loc[c]) /\ alien = {} /\ UNCHANGED <<files, procs, net>>
  BY RestoreKeeps DEF RestoreInv
<1>2. /\ \A m \in Names : Running(m)' <=> Running(m)
      /\ \A m \in Names : Alive(pidFile[m]) <=> Running(m)
  BY <1>1 DEF Running, Alive, Unshare
<1>3. CASE Restore(c)
  BY <1>1, <1>3, RestoreBegins DEF RestoreOK, StopPcs, ExecPcs
<1>4. CASE RestoreNext(c)
  <2>1. pc[c] = "rnext" /\ loc[c].todo \subseteq Names
    BY <1>4, RestoreNextEffect, ClientKnows DEF Locals
  <2>2. /\ loc[c].restoring
        /\ \A m \in Names : pers[m] # None => m \in loc[c].todo \/ Running(m)
    BY <1>1, <2>1 DEF RestoreOK
  <2>3. PICK n \in Names :
          /\ loc'[c].todo = loc[c].todo \ {n}
          /\ \/ /\ pers[n] = None \/ Running(n)
                /\ pc'[c] = "rnext" /\ loc'[c].restoring
             \/ /\ pers[n] # None /\ ~Running(n)
                /\ pc'[c] = "check" /\ loc'[c].restoring /\ loc'[c].name = n
    BY <1>2, <1>4, <2>1, <2>2, RestoreNextEffect
  <2>4. CASE pc'[c] = "rnext"
    BY <1>1, <1>2, <2>2, <2>3, <2>4 DEF RestoreOK, StopPcs, ExecPcs
  <2>5. CASE pc'[c] = "check"
    <3>1. ~Running(n)' /\ loc'[c].name = n /\ loc'[c].restoring
      BY <1>2, <2>3, <2>5
    <3>2. \A m \in Names : pers'[m] # None => m \in loc'[c].todo \/ Running(m)' \/ m = n
      BY <1>1, <1>2, <2>2, <2>3
    <3>. QED  BY <2>5, <3>1, <3>2 DEF RestoreOK, StopPcs, ExecPcs, Running, Unshare
  <2>. QED  BY <2>3, <2>4, <2>5
<1>5. CASE RestoreEnds(c)
  <2>1. pc[c] = "rnext" /\ loc[c].todo = {} /\ Exit(c)
    BY <1>5 DEF RestoreEnds
  <2>2. \A m \in Names : pers[m] # None => Running(m)
    BY <1>1, <2>1 DEF RestoreOK
  <2>3. ~loc'[c].restoring /\ pc'[c] = "idle"
    BY <2>1, ExitLocals DEF NoLocals
  <2>. QED  BY <2>2, <2>3, RestoresNot
<1>6. CASE RestoreList(c) \/ RestoreExec(c)
  <2>1. PICK n \in Names : n = loc[c].name
    BY <1>6, RestoreListEffect, ClientKnows
  <2>2. /\ loc[c].restoring /\ Running(n) /\ Running(n)'
        /\ \A m \in Names : pers[m] # None => m \in loc[c].todo \/ Running(m) \/ m = n
    BY <1>1, <1>2, <1>6, <2>1, RestoreListEffect DEF RestoreOK
  <2>3. /\ loc'[c].todo = loc[c].todo /\ loc'[c].restoring
        /\ (pc'[c] \in {"rexec", "xcheck"} /\ loc'[c].name = n) \/ pc'[c] = "rnext"
    BY <1>6, <2>1, <2>2, RestoreListEffect
  <2>4. \A m \in Names : pers'[m] # None => m \in loc'[c].todo \/ Running(m)'
    BY <1>1, <1>2, <2>2, <2>3
  <2>. QED  BY <2>2, <2>3, <2>4 DEF RestoreOK, StopPcs, ExecPcs, Running, Unshare
<1>. QED  BY <1>3, <1>4, <1>5, <1>6 DEF RestoreStep

LEMMA StopStepRestores ==
    ASSUME TypeOK, RestoreInv, NEW c \in Clients, StopStep(c)
    PROVE  ~loc[c].restoring /\ RestoreOK(pc[c], loc[c])' /\ alien' = {} /\ uplink'
<1>. USE DEF files, procs, net
<1>1. pc[c] \in StopPcs /\ alien = {} /\ uplink
  BY DEF StopStep, KillSandbox, DelVeth, CountPorts, DelBridge, CleanState, ForgetSandbox,
         StopPcs, RestoreInv
<1>2. ~loc[c].restoring
  BY <1>1 DEF RestoreInv, RestoreOK
<1>3. ~loc'[c].restoring /\ pc'[c] \in StopPcs \cup {"idle"} /\ alien' = {} /\ uplink'
  <2>1. CASE KillSandbox(c)
    BY <1>1, <1>2, <2>1, GoesTo DEF KillSandbox, KillPid, StopPcs
  <2>2. CASE DelVeth(c)
    <3>1. loc' = [loc EXCEPT ![c].ip = ipFile[loc[c].name]]
      BY <2>2 DEF DelVeth
    <3>2. loc'[c].restoring = loc[c].restoring
      BY <3>1 DEF TypeOK, ClientsOK, Locals
    <3>. QED  BY <1>1, <1>2, <2>2, <3>2, GoesTo DEF DelVeth, StopPcs
  <2>3. CASE CountPorts(c) \/ DelBridge(c) \/ CleanState(c)
    <3>1. UNCHANGED <<alien, uplink, loc>>
      BY <2>3 DEF CountPorts, DelBridge, CleanState
    <3>2. pc'[c] \in StopPcs
      BY <2>3 DEF CountPorts, DelBridge, CleanState, Goto, StopPcs, TypeOK, ClientsOK
    <3>. QED  BY <1>1, <1>2, <3>1, <3>2
  <2>4. CASE ForgetSandbox(c)
    BY <1>1, <2>4, ExitLocals DEF ForgetSandbox, NoLocals
  <2>. QED  BY <2>1, <2>2, <2>3, <2>4 DEF StopStep
<1>. QED  BY <1>1, <1>2, <1>3, RestoresNot DEF StopPcs

LEMMA StartExecHost ==
    ASSUME NEW c \in Clients, StartStep(c) \/ ExecStep(c)
    PROVE  alien' = alien /\ uplink' = uplink
<1>. USE DEF files, procs, net
<1>1. CASE CheckStart(c) \/ PickId(c) \/ NoIdLeft(c) \/ ClaimId(c)
  BY <1>1 DEF CheckStart, PickId, NoIdLeft, ClaimId
<1>2. CASE Launch(c) \/ LaunchFails(c) \/ RecordStart(c) \/ PersistStart(c)
  BY <1>2 DEF Launch, LaunchFails, RecordStart, PersistStart
<1>3. CASE MacvlanRefused(c) \/ SetupMacvlan(c) \/ SetupBridge(c) \/ AddVeth(c) \/ PlugVeth(c)
  BY <1>3 DEF MacvlanRefused, SetupMacvlan, SetupBridge, AddVeth, PlugVeth
<1>4. CASE CheckExec(c) \/ ExecWrite(c) \/ ExecRun(c)
  BY <1>4 DEF CheckExec, ExecWrite, ExecRun
<1>5. CASE ExecDir(c) \/ ExecCount(c)
  BY <1>5 DEF ExecDir, ExecCount
<1>. QED  BY <1>1, <1>2, <1>3, <1>4, <1>5 DEF StartStep, ExecStep

\* The directory that the sensor script makes is that of a sensor which runs, or of the
\* one restore is starting.
LEMMA HappensRestores ==
    ASSUME Restorable, TypeOK, InstancesInv, RestoreInv, NEW c \in Clients,
           NetOK(pc[c], loc[c]), Happens
    PROVE  RestoreOK(pc[c], loc[c])'
<1>1. UNCHANGED <<pidFile, pc, loc>>
  BY EnvironmentKeeps
<1>2. \A m \in Names : Running(m)' <=> Running(m)
  <2>1. \A p \in Pids : Unshare(p)' <=> Unshare(p)
    BY HappensLinks DEF NetOK, Restorable
  <2>. QED  BY <1>1, <2>1 DEF Running, TypeOK, FilesOK
<1>3. \A m \in Names : pers'[m] # None =>
        pers[m] # None \/ Running(m) \/ (pc[c] = "record" /\ loc[c].name = m)
  <2>1. ASSUME NEW p \in Pids, AgentUp(p), NEW m \in Names, pers'[m] # None, pers[m] = None
        PROVE  Running(m) \/ (pc[c] = "record" /\ loc[c].name = m)
    <3>1. proc[p].name = m /\ Unshare(p)
      BY <2>1, AgentUpTables DEF AgentUp, Unshare
    <3>2. pidFile[m] = p \/ Doing({"record"}, m)
      BY <3>1 DEF InstancesInv, Recorded
    <3>3. p # None
      BY NoneAssumption
    <3>. QED  BY <3>1, <3>2, <3>3, DoingOne DEF Running, Restorable, Undisturbed
  <2>2. CASE ~(\E p \in Pids : AgentUp(p))
    <3>1. pers' = pers
      BY <2>2 DEF Happens, SensorExits, ChaosKill, JobExits, UplinkChanges, files
    <3>. QED  BY <3>1
  <2>. QED  BY <2>1, <2>2
<1>4. RestoreOK(pc[c], loc[c])
  BY DEF RestoreInv
<1>5. CASE loc[c].restoring
  <2>1. PICK l, label : l = loc[c] /\ label = pc[c]
    OBVIOUS
  <2>2. /\ label \notin StopPcs \cup {"idle"}
        /\ label = "check" => ~Running(l.name)
        /\ label \in ExecPcs \cup {"rlist", "rexec"} => Running(l.name)
        /\ \A n \in Names : pers[n] # None =>
              n \in l.todo \/ Running(n) \/ (label # "rnext" /\ l.name = n)
    BY <1>4, <1>5, <2>1 DEF RestoreOK
  <2>3. label \in StartPcs \cup StopPcs \cup ExecPcs \cup {"rlist", "rexec"} => l.name \in Names
    BY <2>1, ClientKnows
  <2>4. /\ label = "check" => ~Running(l.name)'
        /\ label \in ExecPcs \cup {"rlist", "rexec"} => Running(l.name)'
    BY <1>2, <2>2, <2>3 DEF StartPcs
  <2>5. \A n \in Names : pers'[n] # None =>
          n \in l.todo \/ Running(n)' \/ (label # "rnext" /\ l.name = n)
    BY <1>2, <1>3, <2>1, <2>2
  <2>6. label = pc'[c] /\ l = loc'[c] /\ l.restoring
    BY <1>1, <1>5, <2>1
  <2>. QED  BY <2>2, <2>4, <2>5, <2>6 DEF RestoreOK, Running, Unshare
<1>6. CASE ~loc[c].restoring
  BY <1>1, <1>4, <1>6 DEF RestoreOK
<1>. QED  BY <1>5, <1>6

LEMMA RestoreNextInv ==
    ASSUME Restorable
    PROVE  TypeOK /\ InstancesInv /\ NetInv /\ RestoreInv /\ [Next]_vars => RestoreInv'
<1>. SUFFICES ASSUME TypeOK, InstancesInv, NetInv, RestoreInv, [Next]_vars PROVE RestoreInv'
  OBVIOUS
<1>. USE DEF files, procs, net
<1>1. CASE UNCHANGED vars
  BY <1>1 DEF vars, RestoreInv, RestoreOK, Running, Unshare
<1>2. ASSUME NEW c \in Clients,
             Start(c) \/ Stop(c) \/ Exec(c) \/ Restore(c) \/ ClientStep(c)
      PROVE  RestoreInv'
  <2>1. RestoreOK(pc[c], loc[c])' /\ alien' = {} /\ uplink'
    <3>0. alien = {} /\ uplink /\ NetOK(pc[c], loc[c])
      BY DEF RestoreInv, NetInv
    <3>1. CASE Start(c) \/ Stop(c) \/ Exec(c)
      BY <3>0, <3>1, StartBegins, StopBegins, ExecBegins, RestoresNot
    <3>2. CASE StartStep(c) \/ ExecStep(c)
      BY <3>0, <3>2, StartStepRestores, ExecStepRestores, StartExecHost
    <3>3. CASE StopStep(c)
      BY <3>3, StopStepRestores
    <3>4. CASE Restore(c) \/ RestoreStep(c)
      BY <3>0, <3>4, RestoreStepRestores, RestoreKeeps
    <3>. QED  BY <1>2, <3>1, <3>2, <3>3, <3>4 DEF ClientStep
  <2>2. \A d \in Clients : d = c
    BY DEF Restorable, Undisturbed, OneClient
  <2>. QED  BY <2>1, <2>2 DEF RestoreInv
<1>3. ASSUME NEW c \in Clients, Interrupt(c) PROVE FALSE
  BY <1>3 DEF Interrupt, Restorable, Undisturbed
<1>4. CASE Happens
  <2>1. alien' = alien /\ uplink' = uplink
    BY <1>4 DEF Happens, AgentUp, SensorExits, ChaosKill, JobExits, UplinkChanges,
                Restorable, Undisturbed
  <2>2. \A c \in Clients : RestoreOK(pc[c], loc[c])'
    BY <1>4, HappensRestores DEF NetInv
  <2>. QED  BY <2>1, <2>2 DEF RestoreInv
<1>5. CASE Reboot
  <2>1. alien' = {} /\ uplink' = uplink
    BY <1>5 DEF Reboot, Restorable, Undisturbed
  <2>2. \A c \in Clients : pc'[c] = "idle" /\ ~loc'[c].restoring
    BY <1>5, RebootKeeps DEF NoLocals
  <2>. QED  BY <2>1, <2>2, RestoresNot DEF RestoreInv
<1>. QED  BY <1>1, <1>2, <1>3, <1>4, <1>5 DEF Next, Happens

LEMMA RestoreInit == Init => RestoreInv
<1>. SUFFICES ASSUME Init PROVE RestoreInv
  OBVIOUS
<1>1. \A c \in Clients : pc[c] = "idle" /\ ~loc[c].restoring
  BY DEF Init, NoLocals
<1>. QED  BY <1>1 DEF Init, RestoreInv, RestoreOK

\* A restore that comes to its end has left no persisted sensor stopped: the ones that
\* ran already, that lost their start to a reboot, or whose pid file is stale included.
THEOREM RestoreTotalAlways == ASSUME Restorable PROVE Spec => RestoreIsTotal
<1>0. OneClient /\ NoSplitStart /\ Undisturbed
  BY DEF Restorable, Undisturbed, NoSplitStart
<1>1. TypeOK /\ InstancesInv /\ [Next]_vars => InstancesInv'
  BY <1>0, InstancesNext
<1>2. TypeOK /\ InstancesInv /\ NetInv /\ RestoreInv /\ [Next]_vars => RestoreInv'
  BY RestoreNextInv
<1>3. TypeOK /\ NetInv /\ RestoreInv =>
        [\A c \in Clients :
            loc[c].restoring /\ ClientStep(c) /\ pc'[c] = "idle"
                             /\ pc[c] \notin {"launch", "pickid"} =>
               \A n \in Names : pers[n] # None => Running(n)]_vars
  <2>. SUFFICES ASSUME TypeOK, NetInv, RestoreInv, NEW c \in Clients,
                       loc[c].restoring, ClientStep(c), pc'[c] = "idle",
                       pc[c] \notin {"launch", "pickid"}
                PROVE  \A n \in Names : pers[n] # None => Running(n)
    OBVIOUS
  <2>1. ~StartStep(c) /\ ~ExecStep(c) /\ ~StopStep(c)
    BY StartStepRestores, ExecStepRestores, StopStepRestores DEF NetInv
  <2>. QED  BY <2>1, RestoreStepRestores DEF ClientStep
<1>4. Spec => []NetInv
  BY <1>0, NetAlways
<1>. QED  BY <1>1, <1>2, <1>3, <1>4, InstancesInit, RestoreInit, TypeCorrect, PTL
          DEF Spec, RestoreIsTotal
=============================================================================
