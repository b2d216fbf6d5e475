------------------------------ MODULE SensorCtl ------------------------------
(***************************************************************************)
(* sensor-ctl.sh: concurrent invocations of start, stop, restore and       *)
(* exec -d over the files of STATE_DIR and PERSIST_DIR, the host's bridges *)
(* and veth pairs, and the process trees that the sensor script creates.   *)
(* An invocation takes no lock, so each of its steps is one atomic action  *)
(* on the shared files, and steps of different invocations interleave.     *)
(***************************************************************************)
EXTENDS Naturals, FiniteSets

CONSTANTS
    Names,      \* sensor names
    Clients,    \* terminals (or the systemd unit) that run sensor-ctl.sh
    Rank,       \* the order in which the shell's glob lists the names
    Inside,     \* <<n, m>> \in Inside: the text of n occurs in the text of m
    Guessable,  \* names whose agent type start can deduce from the name
    MaxId,      \* bound: ids 1..MaxId stand for 100, 101, ...
    Pids,       \* bound: process ids of the "container_pid" process
    CustomIps,  \* addresses operators pass with --ip
    Macs,       \* the values of --mac operators use, a subset of BOOLEAN
    Cmds,       \* commands operators run with exec -d
    MaxSlot,    \* bound: the file names in execs/
    Ops,        \* operations the operators invoke
    Faults,     \* faults of the environment that may happen
    None

Ids == 1..MaxId
Slots == 0..MaxSlot

\* get_free_id's id yields the sensor's address 192.168.<id>.2 ...
AutoIp(id) == [net |-> id, host |-> 2]
Ips == {AutoIp(id) : id \in Ids} \cup CustomIps
\* ... and a bridge is named after the third octet of the address.
Nets == {ip.net : ip \in Ips}

AllOps == {"start", "stop", "restore", "exec"}
AllFaults == {"launch", "helper", "setup", "exit", "job", "kill", "interrupt",
              "keep", "wipe", "reuse", "uplink"}

ASSUME ConstantsAssumption ==
    /\ MaxId \in Nat /\ MaxSlot \in Nat
    /\ Pids \subseteq Nat
    /\ CustomIps \subseteq [net : Nat, host : Nat]
    /\ Rank \in [Names -> Nat]
    /\ \A n, m \in Names : Rank[n] = Rank[m] => n = m
    /\ Inside \subseteq Names \X Names
    /\ \A n \in Names : <<n, n>> \in Inside
    /\ Guessable \subseteq Names
    /\ Macs \subseteq BOOLEAN
    /\ Ops \subseteq AllOps /\ Faults \subseteq AllFaults

VARIABLES
    pidFile,  \* STATE_DIR/<name>.pid
    ipFile,   \* STATE_DIR/<name>.ip
    idFile,   \* STATE_DIR/id-<id>, which contains a name
    pers,     \* PERSIST_DIR/<name>/
    proc,     \* what is left of the process tree rooted at container_pid
    jobs,     \* commands that exec -d has put in a container's namespaces
    alien,    \* pids that belong to processes sensor-ctl did not start
    veth,     \* the host's ends veth-<name>
    macvlan,  \* the namespaces in which a veth-ns of type macvlan lies
    bridges,  \* the bridges br-<net>
    uplink,   \* the host has a default route
    pc,       \* control state of each client
    loc       \* shell variables of each client

files == <<pidFile, ipFile, idFile, pers>>
procs == <<proc, jobs, alien>>
net   == <<veth, macvlan, bridges, uplink>>
vars  == <<files, procs, net, pc, loc>>

-----------------------------------------------------------------------------
(* Types. *)

ExecTables == UNION {[S -> Cmds] : S \in SUBSET Slots}

Records == [ip : Ips \cup {None}, mac : BOOLEAN, cmd : BOOLEAN,
            execs : ExecTables \cup {None}]

\* A directory that mkdir -p has made and nothing has been written to.
Bare == [ip |-> None, mac |-> FALSE, cmd |-> FALSE, execs |-> None]

\* "setup": the sensor script still prepares the container; "up": unshare,
\* tini and the agent run; "orphan": unshare is dead, tini and the agent run.
Procs == [name : Names, stage : {"setup", "up", "orphan"}]

\* peer = None: veth-ns, the other end, still lies in the host's namespace.
Veths == [peer : Pids \cup {None}, br : Nets \cup {None}, addr : Ips \cup {None}]

Locals == [name : Names \cup {None}, id : Ids \cup {None}, ip : Ips \cup {None},
           mac : BOOLEAN, cmd : BOOLEAN, pid : Pids \cup {None},
           ids : SUBSET Ids, job : Cmds \cup {None}, slot : Slots,
           restoring : BOOLEAN, todo : SUBSET Names, left : SUBSET Slots]

NoLocals == [name |-> None, id |-> None, ip |-> None, mac |-> FALSE, cmd |-> FALSE,
             pid |-> None, ids |-> {}, job |-> None, slot |-> 0,
             restoring |-> FALSE, todo |-> {}, left |-> {}]

ASSUME NoneAssumption ==
    /\ None \notin Names /\ None \notin Pids /\ None \notin Ids /\ None \notin Nets
    /\ None \notin Ips /\ None \notin Cmds /\ None \notin ExecTables
    /\ None \notin Records /\ None \notin Procs /\ None \notin Veths

StartPcs == {"check", "pickid", "claimid", "launch", "record", "persist",
             "bridge", "veth", "plug"}
StopPcs  == {"kill", "unplug", "count", "delbridge", "clean", "forget"}
ExecPcs  == {"xcheck", "xdir", "xcount", "xwrite", "xrun"}
Pcs == {"idle", "rnext", "rlist", "rexec"} \cup StartPcs \cup StopPcs \cup ExecPcs

\* What an invocation knows at a point of its run.
ClientOK(label, l) ==
    /\ label \in StartPcs \cup StopPcs \cup ExecPcs \cup {"rlist", "rexec"} => l.name \in Names
    /\ label \in StartPcs \ {"check", "pickid"} \/ label = "delbridge" => l.ip \in Ips
    /\ label = "claimid" => l.id \in Ids
    /\ label \in {"record", "persist", "bridge", "veth", "plug"} => l.pid \in Pids
    /\ label = "kill" => l.pid \in Pids
    /\ label \in {"xdir", "xcount", "xwrite", "xrun"} => l.pid \in Pids
    /\ label \in ExecPcs => l.job \in Cmds

FilesOK ==
    /\ pidFile \in [Names -> Pids \cup {None}]
    /\ ipFile \in [Names -> Ips \cup {None}]
    /\ idFile \in [Ids -> Names \cup {None}]
    /\ pers \in [Names -> Records \cup {None}]

HostOK ==
    /\ proc \in [Pids -> Procs \cup {None}]
    /\ jobs \subseteq Pids \X Cmds
    /\ alien \subseteq Pids
    /\ veth \in [Names -> Veths \cup {None}]
    /\ macvlan \subseteq Pids \cup {None}
    /\ bridges \subseteq Nets
    /\ uplink \in BOOLEAN

ClientsOK ==
    /\ pc \in [Clients -> Pcs]
    /\ loc \in [Clients -> Locals]
    /\ \A c \in Clients : ClientOK(pc[c], loc[c])

\* Files, host and shell variables hold what they are meant to hold: no step
\* writes an unset variable to a file or acts on an unset name, pid or address.
TypeOK == FilesOK /\ HostOK /\ ClientsOK

-----------------------------------------------------------------------------
(* Helpers. *)

\* The unshare process that the pid file names is alive.
Unshare(p) == proc[p] # None /\ proc[p].stage # "orphan"

\* kill -0 on the pid succeeds.
Alive(p) == p # None /\ (Unshare(p) \/ p \in alien)

\* A process keeps the network namespace of p in existence.
HasJobs(p) == \E x \in Cmds : <<p, x>> \in jobs

\* A pid the kernel may hand out; the pid in a stale pid file, too, if the pids
\* wrap around while the file lies there ("reuse").
FreePid(p) ==
    /\ proc[p] = None /\ ~HasJobs(p) /\ p \notin alien
    /\ "reuse" \in Faults \/ \A n \in Names : pidFile[n] # p
    /\ \A c \in Clients : loc[c].pid # p

\* unshare dies; the agent, if it runs, is reparented and lives on.
Unshared(p) ==
    IF proc[p] = None \/ proc[p].stage = "setup" THEN None
    ELSE [proc[p] EXCEPT !.stage = "orphan"]

\* With its last process a network namespace and the links in it disappear.
DropLinks(procNew, jobsNew) ==
    LET Lost(p) == /\ p # None /\ procNew[p] = None
                   /\ \A x \in Cmds : <<p, x>> \notin jobsNew
    IN
    /\ veth' = [n \in Names |->
                  IF veth[n] # None /\ Lost(veth[n].peer) THEN None ELSE veth[n]]
    /\ macvlan' = {p \in macvlan : ~Lost(p)}

Ports(b) == {n \in Names : veth[n] # None /\ veth[n].br = b}

\* A link named veth-ns lies in the namespace of p, the host's if p = None.
HasNsLink(p) == p \in macvlan \/ \E n \in Names : veth[n] # None /\ veth[n].peer = p

Running(n) == pidFile[n] # None /\ Unshare(pidFile[n])

Goto(c, label) == pc' = [pc EXCEPT ![c] = label]

\* exit: the shell ends, and with it a restore that called the function.
Exit(c) == Goto(c, "idle") /\ loc' = [loc EXCEPT ![c] = NoLocals]

\* return: restore goes on with its next step, a plain invocation ends.
Return(c, label) ==
    IF loc[c].restoring
    THEN Goto(c, label) /\ UNCHANGED loc
    ELSE Exit(c)

-----------------------------------------------------------------------------
(* start *)

Start(c) ==
    /\ "start" \in Ops /\ pc[c] = "idle"
    /\ \E n \in Names, ip \in CustomIps \cup {None}, mac \in Macs, cmd \in BOOLEAN :
          loc' = [loc EXCEPT ![c] = [NoLocals EXCEPT !.name = n, !.ip = ip,
                                                     !.mac = mac, !.cmd = cmd]]
    /\ Goto(c, "check")
    /\ UNCHANGED <<files, procs, net>>

\* The agent to run comes from the command line, from the persisted start_cmd
\* or from the name; a running sensor is refused, a stale pid file removed.
HasCommand(c) ==
    LET n == loc[c].name IN
    \/ loc[c].cmd
    \/ pers[n] # None /\ pers[n].cmd
    \/ n \in Guessable

\* Mutant of CheckStart: a pid file is taken for a stale one unseen.
CheckStartTrusting(c) ==
    LET n == loc[c].name IN
    /\ pc[c] = "check" /\ HasCommand(c)
    /\ pidFile' = [pidFile EXCEPT ![n] = None]
    /\ ipFile' = [ipFile EXCEPT ![n] = None]
    /\ Goto(c, IF loc[c].ip = None THEN "pickid" ELSE "launch")
    /\ UNCHANGED <<loc, idFile, pers, procs, net>>

CheckStart(c) ==
    LET n == loc[c].name IN
    /\ pc[c] = "check"
    /\ \/ /\ ~HasCommand(c) \/ Alive(pidFile[n])
          /\ Exit(c)
          /\ UNCHANGED files
       \/ /\ HasCommand(c) /\ ~Alive(pidFile[n])
          /\ pidFile' = [pidFile EXCEPT ![n] = None]
          /\ ipFile' = IF pidFile[n] = None THEN ipFile
                       ELSE [ipFile EXCEPT ![n] = None]
          /\ Goto(c, IF loc[c].ip = None THEN "pickid" ELSE "launch")
          /\ loc' = [loc EXCEPT ![c].cmd = FALSE]  \* read for the last time
          /\ UNCHANGED <<idFile, pers>>
    /\ UNCHANGED <<procs, net>>

\* Mutant of FreeIds: an id is free once its sensor has no pid file.
FreeIdsOfStopped ==
    {id \in Ids : idFile[id] = None \/ pidFile[idFile[id]] = None}

\* get_free_id: the first id without a file. Nothing is reserved yet.
FreeIds == {id \in Ids : idFile[id] = None}

\* Mutant of PickId: the counter is incremented once too often.
PickIdPastFree(c) ==
    /\ pc[c] = "pickid"
    /\ \E id \in FreeIds :
          /\ \A other \in FreeIds : id <= other
          /\ loc' = [loc EXCEPT ![c].id = id + 1, ![c].ip = AutoIp(id + 1)]
    /\ Goto(c, "claimid")
    /\ UNCHANGED <<files, procs, net>>

PickId(c) ==
    /\ pc[c] = "pickid"
    /\ \E id \in FreeIds :
          /\ \A other \in FreeIds : id <= other
          /\ loc' = [loc EXCEPT ![c].id = id, ![c].ip = AutoIp(id)]
    /\ Goto(c, "claimid")
    /\ UNCHANGED <<files, procs, net>>

\* The bound on ids: an invocation that finds none gives up.
NoIdLeft(c) ==
    /\ pc[c] = "pickid" /\ FreeIds = {}
    /\ Exit(c)
    /\ UNCHANGED <<files, procs, net>>

ClaimId(c) ==
    /\ pc[c] = "claimid"
    /\ idFile' = [idFile EXCEPT ![loc[c].id] = loc[c].name]
    /\ Goto(c, "launch")
    /\ UNCHANGED <<pidFile, ipFile, pers, procs, net, loc>>

\* Mutant of Launch: pgrep without -P finds any container.
LaunchAnyChild(c) ==
    /\ pc[c] = "launch"
    /\ \E p \in Pids :
          /\ FreePid(p)
          /\ \A q \in Pids : FreePid(q) => p <= q
          /\ proc' = [proc EXCEPT ![p] = [name |-> loc[c].name, stage |-> "setup"]]
          /\ \E q \in Pids :
                (q = p \/ Unshare(q)) /\ loc' = [loc EXCEPT ![c].pid = q]
    /\ Goto(c, "record")
    /\ UNCHANGED <<files, jobs, alien, net>>

\* The sensor script is started in the background and pgrep finds its child.
\* "helper": pgrep meets a short-lived child of the script's first phase
\* instead, whose pid is dead by the time it is used.
Launch(c) ==
    /\ pc[c] = "launch"
    /\ \E p \in Pids :
          /\ FreePid(p)
          /\ \A q \in Pids : FreePid(q) => p <= q
          /\ proc' = [proc EXCEPT ![p] = [name |-> loc[c].name, stage |-> "setup"]]
          /\ \/ loc' = [loc EXCEPT ![c].pid = p]
             \/ /\ "helper" \in Faults
                /\ \E q \in Pids \ {p} : FreePid(q) /\ loc' = [loc EXCEPT ![c].pid = q]
    /\ Goto(c, "record")
    /\ UNCHANGED <<files, jobs, alien, net>>

\* No child appears within five seconds.
LaunchFails(c) ==
    /\ pc[c] = "launch"
    /\ "launch" \in Faults \/ \A p \in Pids : ~FreePid(p)
    /\ idFile' = IF loc[c].id = None THEN idFile
                 ELSE [idFile EXCEPT ![loc[c].id] = None]
    /\ Exit(c)
    /\ UNCHANGED <<pidFile, ipFile, pers, procs, net>>

RecordStart(c) ==
    LET n == loc[c].name IN
    /\ pc[c] = "record"
    /\ pidFile' = [pidFile EXCEPT ![n] = loc[c].pid]
    /\ ipFile' = [ipFile EXCEPT ![n] = loc[c].ip]
    /\ Goto(c, "persist")
    /\ UNCHANGED <<idFile, pers, procs, net, loc>>

PersistStart(c) ==
    LET n == loc[c].name IN
    /\ pc[c] = "persist"
    /\ pers' = [pers EXCEPT ![n] =
                  [ip |-> loc[c].ip, mac |-> loc[c].mac, cmd |-> TRUE,
                   execs |-> IF pers[n] = None THEN None ELSE pers[n].execs]]
    /\ Goto(c, "bridge")
    /\ UNCHANGED <<pidFile, ipFile, idFile, procs, net, loc>>

\* ip link set veth-ns netns <pid>; nsenter ... ip addr add. Whatever veth-ns
\* lies in the host's namespace is moved, unless the container has one.
Plugged(m, p) ==
    /\ veth[m] # None
    /\ veth[m].peer = p \/ (veth[m].peer = None /\ ~HasNsLink(p))

PlugPairs(p, ip) ==
    veth' = [m \in Names |->
               IF Unshare(p) /\ Plugged(m, p)
               THEN [veth[m] EXCEPT !.peer = p, !.addr = ip]
               ELSE veth[m]]

PlugMacvlan(p, links) ==
    macvlan' = IF Unshare(p) /\ None \in links /\ ~HasNsLink(p)
               THEN (links \ {None}) \cup {p}
               ELSE links

\* --mac: without a default route there is no interface to attach to.
MacvlanRefused(c) ==
    /\ pc[c] = "bridge" /\ loc[c].mac /\ ~uplink
    /\ Exit(c)
    /\ UNCHANGED <<files, procs, net>>

SetupMacvlan(c) ==
    /\ pc[c] = "bridge" /\ loc[c].mac /\ uplink
    /\ PlugPairs(loc[c].pid, loc[c].ip)
    /\ PlugMacvlan(loc[c].pid, IF HasNsLink(None) THEN macvlan ELSE macvlan \cup {None})
    /\ Return(c, "rlist")
    /\ UNCHANGED <<files, procs, bridges, uplink>>

\* The bridge is made if it is absent.
SetupBridge(c) ==
    /\ pc[c] = "bridge" /\ ~loc[c].mac
    /\ bridges' = bridges \cup {loc[c].ip.net}
    /\ Goto(c, "veth")
    /\ UNCHANGED <<files, procs, veth, macvlan, uplink, loc>>

\* ip link add veth-<name> type veth peer name veth-ns; ip link set ... master.
\* Both fail, and the script goes on, when the names exist or the bridge does not.
AddVeth(c) ==
    LET n == loc[c].name
        added == IF veth[n] = None /\ ~HasNsLink(None)
                 THEN [peer |-> None, br |-> None, addr |-> None]
                 ELSE veth[n]
    IN
    /\ pc[c] = "veth"
    /\ veth' = [veth EXCEPT ![n] =
                  IF added # None /\ loc[c].ip.net \in bridges
                  THEN [added EXCEPT !.br = loc[c].ip.net]
                  ELSE added]
    /\ Goto(c, "plug")
    /\ UNCHANGED <<files, procs, macvlan, bridges, uplink, loc>>

PlugVeth(c) ==
    /\ pc[c] = "plug"
    /\ PlugPairs(loc[c].pid, loc[c].ip)
    /\ PlugMacvlan(loc[c].pid, macvlan)
    /\ Return(c, "rlist")
    /\ UNCHANGED <<files, procs, bridges, uplink>>

-----------------------------------------------------------------------------
(* stop *)

\* The id file is looked up by grep: any file whose content contains the name.
GrepIds(n) == {id \in Ids : idFile[id] # None /\ <<n, idFile[id]>> \in Inside}

Stop(c) ==
    /\ "stop" \in Ops /\ pc[c] = "idle"
    /\ \E n \in Names :
          /\ pidFile[n] # None
          /\ loc' = [loc EXCEPT ![c] = [NoLocals EXCEPT !.name = n, !.pid = pidFile[n],
                                                        !.ids = GrepIds(n)]]
    /\ Goto(c, "kill")
    /\ UNCHANGED <<files, procs, net>>

\* kill, sleep 1, kill -9: only the process the pid file names.
KillPid(p) ==
    /\ proc' = [proc EXCEPT ![p] = Unshared(p)]
    /\ alien' = alien \ {p}
    /\ DropLinks(proc', jobs)

KillSandbox(c) ==
    /\ pc[c] = "kill"
    /\ KillPid(loc[c].pid)
    /\ Goto(c, "unplug")
    /\ UNCHANGED <<files, jobs, bridges, uplink, loc>>

\* Mutant of DelVeth: the address is not read, or read after it was removed.
DelVethNoIp(c) ==
    /\ pc[c] = "unplug"
    /\ veth' = [veth EXCEPT ![loc[c].name] = None]
    /\ Goto(c, "count")
    /\ UNCHANGED <<files, procs, macvlan, bridges, uplink, loc>>

\* Mutant of DelVeth: the pair is left to go with its namespace.
DelVethLeft(c) ==
    /\ pc[c] = "unplug"
    /\ loc' = [loc EXCEPT ![c].ip = ipFile[loc[c].name]]
    /\ Goto(c, "count")
    /\ UNCHANGED <<files, procs, net>>

DelVeth(c) ==
    LET n == loc[c].name IN
    /\ pc[c] = "unplug"
    /\ loc' = [loc EXCEPT ![c].ip = ipFile[n]]
    /\ veth' = [veth EXCEPT ![n] = None]
    /\ Goto(c, "count")
    /\ UNCHANGED <<files, procs, macvlan, bridges, uplink>>

\* Mutant of CountPorts: a bridge goes with the first sensor that leaves it.
CountPortsNever(c) ==
    LET ip == loc[c].ip IN
    /\ pc[c] = "count"
    /\ Goto(c, IF ip # None /\ ip.net \in bridges THEN "delbridge" ELSE "clean")
    /\ UNCHANGED <<files, procs, net, loc>>

CountPorts(c) ==
    LET ip == loc[c].ip IN
    /\ pc[c] = "count"
    /\ Goto(c, IF ip # None /\ ip.net \in bridges /\ Ports(ip.net) = {}
               THEN "delbridge" ELSE "clean")
    /\ UNCHANGED <<files, procs, net, loc>>

DelBridge(c) ==
    LET b == loc[c].ip.net IN
    /\ pc[c] = "delbridge"
    /\ bridges' = bridges \ {b}
    /\ veth' = [n \in Names |->
                  IF n \in Ports(b) THEN [veth[n] EXCEPT !.br = None] ELSE veth[n]]
    /\ Goto(c, "clean")
    /\ UNCHANGED <<files, procs, macvlan, uplink, loc>>

\* Mutant of CleanState: the ip file stays.
CleanStateKeepsIp(c) ==
    LET n == loc[c].name IN
    /\ pc[c] = "clean"
    /\ pidFile' = [pidFile EXCEPT ![n] = None]
    /\ idFile' = [id \in Ids |-> IF loc[c].ids = {id} THEN None ELSE idFile[id]]
    /\ Goto(c, "forget")
    /\ UNCHANGED <<ipFile, pers, procs, net, loc>>

\* rm -f "$id_file" names one file only if grep found exactly one.
CleanState(c) ==
    LET n == loc[c].name IN
    /\ pc[c] = "clean"
    /\ pidFile' = [pidFile EXCEPT ![n] = None]
    /\ ipFile' = [ipFile EXCEPT ![n] = None]
    /\ idFile' = [id \in Ids |-> IF loc[c].ids = {id} THEN None ELSE idFile[id]]
    /\ Goto(c, "forget")
    /\ UNCHANGED <<pers, procs, net, loc>>

ForgetSandbox(c) ==
    /\ pc[c] = "forget"
    /\ pers' = [pers EXCEPT ![loc[c].name] = None]
    /\ Exit(c)
    /\ UNCHANGED <<pidFile, ipFile, idFile, procs, net>>

-----------------------------------------------------------------------------
(* exec -d *)

Exec(c) ==
    /\ "exec" \in Ops /\ pc[c] = "idle"
    /\ \E n \in Names, x \in Cmds :
          loc' = [loc EXCEPT ![c] = [NoLocals EXCEPT !.name = n, !.job = x]]
    /\ Goto(c, "xcheck")
    /\ UNCHANGED <<files, procs, net>>

CheckExec(c) ==
    LET p == pidFile[loc[c].name] IN
    /\ pc[c] = "xcheck"
    /\ IF Alive(p)
       THEN loc' = [loc EXCEPT ![c].pid = p] /\ Goto(c, "xdir")
       ELSE Exit(c)
    /\ UNCHANGED <<files, procs, net>>

\* The files in execs/, none if there is no such directory.
Table(n) ==
    IF pers[n] = None \/ pers[n].execs = None THEN [s \in {} |-> None] ELSE pers[n].execs

MakeExecs(n) ==
    pers' = [pers EXCEPT ![n] =
               [(IF pers[n] = None THEN Bare ELSE pers[n]) EXCEPT !.execs = Table(n)]]

\* Mutant of ExecDir: the directory execs is not made.
ExecDirMissing(c) ==
    /\ pc[c] = "xdir"
    /\ Goto(c, "xcount")
    /\ UNCHANGED <<files, procs, net, loc>>

\* Mutant of ExecDir: restore lists the commands it runs once more.
ExecDirListsAgain(c) ==
    /\ pc[c] = "xdir"
    /\ MakeExecs(loc[c].name)
    /\ Goto(c, "xcount")
    /\ UNCHANGED <<pidFile, ipFile, idFile, procs, net, loc>>

\* mkdir -p execs; a command already listed is not listed twice.
ExecDir(c) ==
    LET n == loc[c].name IN
    /\ pc[c] = "xdir"
    /\ MakeExecs(n)
    /\ Goto(c, IF \E s \in DOMAIN Table(n) : Table(n)[s] = loc[c].job THEN "xrun" ELSE "xcount")
    /\ UNCHANGED <<pidFile, ipFile, idFile, procs, net, loc>>

\* The file's name is the number of files there are.
ExecCount(c) ==
    LET count == Cardinality(DOMAIN Table(loc[c].name)) IN
    /\ pc[c] = "xcount"
    /\ count \in Slots
    /\ loc' = [loc EXCEPT ![c].slot = count]
    /\ Goto(c, "xwrite")
    /\ UNCHANGED <<files, procs, net>>

\* The write fails silently if the directory has been removed meanwhile.
ExecWrite(c) ==
    LET n == loc[c].name IN
    /\ pc[c] = "xwrite"
    /\ pers' = IF pers[n] = None \/ pers[n].execs = None THEN pers
               ELSE [pers EXCEPT ![n].execs =
                       [s \in DOMAIN pers[n].execs \cup {loc[c].slot} |->
                          IF s = loc[c].slot THEN loc[c].job ELSE pers[n].execs[s]]]
    /\ Goto(c, "xrun")
    /\ UNCHANGED <<pidFile, ipFile, idFile, procs, net, loc>>

\* nsenter into the namespaces of the pid that CheckExec read.
ExecRun(c) ==
    /\ pc[c] = "xrun"
    /\ jobs' = IF Unshare(loc[c].pid) THEN jobs \cup {<<loc[c].pid, loc[c].job>>}
               ELSE jobs
    /\ Return(c, "rexec")
    /\ UNCHANGED <<files, proc, alien, net>>

-----------------------------------------------------------------------------
(* restore *)

Restore(c) ==
    /\ "restore" \in Ops /\ pc[c] = "idle"
    /\ loc' = [loc EXCEPT ![c] = [NoLocals EXCEPT
                 !.restoring = TRUE, !.todo = {n \in Names : pers[n] # None}]]
    /\ Goto(c, "rnext")
    /\ UNCHANGED <<files, procs, net>>

\* Mutants of RestoreNext: break instead of continue after a sensor that runs;
\* the same directory again after a sensor that runs.
RestoreNextBreaks(c) ==
    /\ pc[c] = "rnext"
    /\ \E n \in loc[c].todo :
          /\ \A m \in loc[c].todo : Rank[n] <= Rank[m]
          /\ IF pers[n] = None \/ Alive(pidFile[n])
             THEN Exit(c)
             ELSE /\ loc' = [loc EXCEPT ![c] =
                       [NoLocals EXCEPT !.name = n, !.ip = pers[n].ip,
                          !.mac = pers[n].mac, !.cmd = pers[n].cmd,
                          !.restoring = TRUE, !.todo = loc[c].todo \ {n}]]
                  /\ Goto(c, "check")
    /\ UNCHANGED <<files, procs, net>>

RestoreNextRepeats(c) ==
    /\ pc[c] = "rnext"
    /\ \E n \in loc[c].todo :
          loc' = [loc EXCEPT ![c] =
                    [NoLocals EXCEPT !.name = n, !.restoring = TRUE,
                                     !.todo = loc[c].todo]]
    /\ Goto(c, "rlist")
    /\ UNCHANGED <<files, procs, net>>

\* The next directory: skipped if it is gone or its sensor runs; otherwise
\* start is called with the persisted address, mode and command.
RestoreNext(c) ==
    /\ pc[c] = "rnext"
    /\ \E n \in loc[c].todo :
          /\ \A m \in loc[c].todo : Rank[n] <= Rank[m]
          /\ IF pers[n] = None \/ Alive(pidFile[n])
             THEN /\ loc' = [loc EXCEPT ![c].todo = @ \ {n}]
                  /\ UNCHANGED pc
             ELSE /\ loc' = [loc EXCEPT ![c] =
                       [NoLocals EXCEPT !.name = n, !.ip = pers[n].ip,
                          !.mac = pers[n].mac, !.cmd = pers[n].cmd,
                          !.restoring = TRUE, !.todo = loc[c].todo \ {n}]]
                  /\ Goto(c, "check")
    /\ UNCHANGED <<files, procs, net>>

RestoreEnds(c) ==
    /\ pc[c] = "rnext" /\ loc[c].todo = {}
    /\ Exit(c)
    /\ UNCHANGED <<files, procs, net>>

\* ls execs/ lists the detached commands once; they are run in the order of
\* their numbers, passing over files that are gone, then comes the next sensor.
ExecFiles(n) == DOMAIN Table(n)

RestoreList(c) ==
    /\ pc[c] = "rlist"
    /\ loc' = [loc EXCEPT ![c].left = ExecFiles(loc[c].name)]
    /\ Goto(c, "rexec")
    /\ UNCHANGED <<files, procs, net>>

RestoreExec(c) ==
    LET n == loc[c].name
        present == loc[c].left \cap ExecFiles(n)
    IN
    /\ pc[c] = "rexec"
    /\ \/ /\ present = {}
          /\ Goto(c, "rnext")
          /\ loc' = [loc EXCEPT ![c] = [NoLocals EXCEPT
                       !.restoring = TRUE, !.todo = loc[c].todo]]
       \/ \E s \in present :
             /\ \A t \in present : s <= t
             /\ loc' = [loc EXCEPT ![c].left = {t \in loc[c].left : s < t},
                                  ![c].job = pers[n].execs[s]]
             /\ Goto(c, "xcheck")
    /\ UNCHANGED <<files, procs, net>>

-----------------------------------------------------------------------------
(* The sensor script and its container. *)

\* Phase 2 ends: the state directory exists, unshare starts tini and the agent.
AgentUp(p) ==
    /\ proc[p] # None /\ proc[p].stage = "setup"
    /\ proc' = [proc EXCEPT ![p].stage = "up"]
    /\ pers' = IF pers[proc[p].name] # None THEN pers
               ELSE [pers EXCEPT ![proc[p].name] = Bare]
    /\ UNCHANGED <<pidFile, ipFile, idFile, jobs, alien, net, pc, loc>>

\* The setup fails, or the agent ends and tini and unshare end with it.
SensorExits(p) ==
    /\ proc[p] # None
    /\ (IF proc[p].stage = "setup" THEN "setup" ELSE "exit") \in Faults
    /\ proc' = [proc EXCEPT ![p] = None]
    /\ DropLinks(proc', jobs)
    /\ UNCHANGED <<files, jobs, alien, bridges, uplink, pc, loc>>

JobExits ==
    /\ "job" \in Faults
    /\ \E j \in jobs :
          /\ jobs' = jobs \ {j}
          /\ DropLinks(proc, jobs')
    /\ UNCHANGED <<files, proc, alien, bridges, uplink, pc, loc>>

-----------------------------------------------------------------------------
(* The environment. *)

\* sensor-chaos.sh kill
ChaosKill(n) ==
    /\ "kill" \in Faults
    /\ Alive(pidFile[n])
    /\ KillPid(pidFile[n])
    /\ UNCHANGED <<files, jobs, bridges, uplink, pc, loc>>

\* An invocation is interrupted between two of its commands.
Interrupt(c) ==
    /\ "interrupt" \in Faults
    /\ pc[c] # "idle"
    /\ Exit(c)
    /\ UNCHANGED <<files, procs, net>>

\* Processes, namespaces and links are lost. STATE_DIR lies in /tmp, which is
\* wiped or kept; a kept pid may be the pid of some other process now.
Reboot ==
    /\ proc' = [p \in Pids |-> None]
    /\ jobs' = {}
    /\ veth' = [n \in Names |-> None]
    /\ macvlan' = {}
    /\ bridges' = {}
    /\ uplink' \in (IF "uplink" \in Faults THEN BOOLEAN ELSE {uplink})
    /\ pc' = [c \in Clients |-> "idle"]
    /\ loc' = [c \in Clients |-> NoLocals]
    /\ \/ /\ "keep" \in Faults
          /\ UNCHANGED <<pidFile, ipFile, idFile>>
          /\ alien' \in (IF "reuse" \in Faults
                         THEN SUBSET {p \in Pids : \E n \in Names : pidFile[n] = p}
                         ELSE {{}})
       \/ /\ "wipe" \in Faults
          /\ pidFile' = [n \in Names |-> None]
          /\ ipFile' = [n \in Names |-> None]
          /\ idFile' = [id \in Ids |-> None]
          /\ alien' = {}
    /\ UNCHANGED pers

UplinkChanges ==
    /\ "uplink" \in Faults
    /\ uplink' = ~uplink
    /\ UNCHANGED <<files, procs, veth, macvlan, bridges, pc, loc>>

-----------------------------------------------------------------------------

Init ==
    /\ pidFile = [n \in Names |-> None]
    /\ ipFile = [n \in Names |-> None]
    /\ idFile = [id \in Ids |-> None]
    /\ pers = [n \in Names |-> None]
    /\ proc = [p \in Pids |-> None]
    /\ jobs = {}
    /\ alien = {}
    /\ veth = [n \in Names |-> None]
    /\ macvlan = {}
    /\ bridges = {}
    /\ uplink = TRUE
    /\ pc = [c \in Clients |-> "idle"]
    /\ loc = [c \in Clients |-> NoLocals]

StartStep(c) ==
    \/ CheckStart(c) \/ PickId(c) \/ NoIdLeft(c) \/ ClaimId(c)
    \/ Launch(c) \/ LaunchFails(c) \/ RecordStart(c) \/ PersistStart(c)
    \/ MacvlanRefused(c) \/ SetupMacvlan(c) \/ SetupBridge(c) \/ AddVeth(c) \/ PlugVeth(c)

StopStep(c) ==
    \/ KillSandbox(c) \/ DelVeth(c) \/ CountPorts(c) \/ DelBridge(c)
    \/ CleanState(c) \/ ForgetSandbox(c)

ExecStep(c) == CheckExec(c) \/ ExecDir(c) \/ ExecCount(c) \/ ExecWrite(c) \/ ExecRun(c)

RestoreStep(c) ==
    RestoreNext(c) \/ RestoreEnds(c) \/ RestoreList(c) \/ RestoreExec(c)

\* An invocation under way goes on.
ClientStep(c) == StartStep(c) \/ StopStep(c) \/ ExecStep(c) \/ RestoreStep(c)

Next ==
    \/ \E c \in Clients :
          \/ Start(c) \/ Stop(c) \/ Exec(c) \/ Restore(c)
          \/ ClientStep(c) \/ Interrupt(c)
    \/ \E p \in Pids : AgentUp(p) \/ SensorExits(p)
    \/ \E n \in Names : ChaosKill(n)
    \/ JobExits \/ Reboot \/ UplinkChanges

Spec == Init /\ [][Next]_vars

\* A shell script that has begun runs its next command; phase 2 of the sensor
\* script ends within its five seconds.
FairSpec ==
    /\ Spec
    /\ \A c \in Clients : WF_vars(ClientStep(c))
    /\ \A p \in Pids : WF_vars(AgentUp(p))
-----------------------------------------------------------------------------
(* Properties. Which of them hold depends on how the script is used: the      *)
(* runs name the number of clients, the faults and the names they assume.     *)

AllIdle == \A c \in Clients : pc[c] = "idle"

\* Two running sensors never have the same address (README.md, "Multi-Instance
\* Isolation": each instance has its own identity): get_free_id, the id files
\* and the persisted addresses must together hand out an address once.
UniqueIp ==
    \A n, m \in Names :
        Running(n) /\ Running(m) /\ ipFile[n] # None /\ ipFile[n] = ipFile[m] => n = m

\* Two running sensors never have the same address of those that get_free_id
\* picks (README.md, "Networking Architecture": subnets are automatically managed),
\* whatever addresses operators give to other sensors with --ip.
UniquePickedIp ==
    \A n, m \in Names, id \in Ids :
        Running(n) /\ Running(m) /\ ipFile[n] = AutoIp(id) /\ ipFile[m] = AutoIp(id) => n = m

\* Why UniqueIp holds when one invocation runs at a time, STATE_DIR is never lost
\* and no address is given with --ip: whatever holds an address - an ip file, a
\* persistent directory, a start under way - belongs to the sensor that the
\* address' id file names, and the one id file that stop removes is its own,
\* although grep finds those of all sensors whose names contain its name.
Owns(n, ip) == \A id \in Ids : ip = AutoIp(id) => idFile[id] = n

Forgetting(n) == \E c \in Clients : pc[c] = "forget" /\ loc[c].name = n

FilesOwned ==
    \A n \in Names :
        /\ pidFile[n] = None <=> ipFile[n] = None
        /\ Owns(n, ipFile[n])
        /\ pers[n] # None /\ ~Forgetting(n) => Owns(n, pers[n].ip)

Unreferenced(id) ==
    \A n \in Names : /\ ipFile[n] # AutoIp(id)
                     /\ pers[n] # None => pers[n].ip # AutoIp(id)

ClientOwns(label, l) ==
    /\ label \in StartPcs \ {"pickid", "claimid"} => Owns(l.name, l.ip)
    /\ label = "check" => l.id = None
    /\ label = "claimid" => idFile[l.id] = None /\ l.ip = AutoIp(l.id)
    /\ label = "launch" /\ l.id # None => Unreferenced(l.id)
    /\ label \in StopPcs \ {"forget"} => \A id \in Ids : l.ids = {id} => idFile[id] = l.name

IdsOwned == FilesOwned /\ \A c \in Clients : ClientOwns(pc[c], loc[c])

\* No second container of a name is launched while one is alive
\* (sensor-ctl.sh:259 refuses it): restore, start over a stale pid file and a
\* start after a failed start must all see the container that runs.
OneInstance ==
    \A p, q \in Pids :
        Unshare(p) /\ Unshare(q) /\ proc[p].name = proc[q].name => p = q

\* When nobody is at work, a sensor that runs in bridged mode is plugged into
\* the bridge of its address, by its own pair, with its own address:
\* stopping, killing or restarting other sensors has not cut it off.
Connected(n) ==
    /\ veth[n] # None
    /\ veth[n] = [peer |-> pidFile[n], br |-> ipFile[n].net, addr |-> ipFile[n]]
    /\ ipFile[n].net \in bridges

RunningIsConnected ==
    AllIdle => \A n \in Names :
        Running(n) /\ (pers[n] # None => ~pers[n].mac) => Connected(n)

\* The pair of one sensor never ends in the container of another one.
NoCrossWiring ==
    \A n, m \in Names :
        veth[n] # None /\ veth[n].peer # None /\ veth[n].peer = pidFile[m] => n = m

\* The pid a pid file names is not that of another sensor's container, so that
\* stop, exec, shell and the chaos tool act on the sensor they are given.
PidFileIsOwn ==
    \A n \in Names :
        pidFile[n] # None /\ proc[pidFile[n]] # None => proc[pidFile[n]].name = n

\* Why it holds: the pid that an invocation holds is not that of another
\* sensor's container than the one the invocation works on, either.
LocalPidIsOwn ==
    \A c \in Clients :
        loc[c].pid # None /\ proc[loc[c].pid] # None => proc[loc[c].pid].name = loc[c].name

\* When nobody is at work every bridge serves the address of some sensor:
\* stop removes a bridge with its last port and start makes no other.
NoStrayBridge ==
    AllIdle => \A b \in bridges : \E n \in Names : ipFile[n] # None /\ ipFile[n].net = b

\* When nobody is at work, a sensor without a pid file has no veth pair: its agent
\* outlives stop, which kills only the unshare above it (sensor-ctl.sh:122), but
\* it is off the network and the name of the pair is free for the next start.
StoppedIsCutOff ==
    AllIdle => \A n \in Names : veth[n] # None => pidFile[n] # None

\* No command is listed twice (sensor-ctl.sh:668, "avoid duplicates"), however
\* often restore runs the ones that are listed: it lists what it runs by exec -d.
ExecsListedOnce ==
    \A n \in Names :
        pers[n] # None /\ pers[n].execs # None =>
            \A s, t \in DOMAIN pers[n].execs : pers[n].execs[s] = pers[n].execs[t] => s = t

\* A detached command that runs in a running sensor is one restore would run
\* (README.md:33, the configuration of running sensors is saved).
DetachedArePersisted ==
    \A n \in Names, x \in Cmds :
        Running(n) /\ <<pidFile[n], x>> \in jobs =>
            /\ pers[n] # None /\ pers[n].execs # None
            /\ \E s \in DOMAIN pers[n].execs : pers[n].execs[s] = x

\* A restore that ends has left no persisted sensor stopped (sensor-ctl.sh:865,
\* restore all sensors from persistent config), unless a sensor script did not
\* start at all (or the bound on ids is met): the loop passes over no directory, neither
\* after a skip nor after the calls of start and exec, which exit the shell on an error.
RestoreIsTotal ==
    [][\A c \in Clients :
          loc[c].restoring /\ ClientStep(c) /\ pc'[c] = "idle"
                           /\ pc[c] \notin {"launch", "pickid"} =>
             \A n \in Names : pers[n] # None => Running(n)]_vars

\* Every invocation ends, restore with its two loops included.
InvocationsEnd == \A c \in Clients : pc[c] # "idle" ~> pc[c] = "idle"
=============================================================================
