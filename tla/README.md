# Verification of redborder-sensors

TLA+ models of redborder-sensors, checked with TLC, with theorems proved by
TLAPS. Paths such as `sensor-ctl.sh:285` are paths of the repository.

## 1. The system

redborder-sensors runs mock network sensors, each in a sandbox of Linux
namespaces, on one host. Its parts:

| Part | State it keeps | Operations | Talks to |
|---|---|---|---|
| `sensor-ctl.sh` | `/tmp/redborder-sensors`: `<name>.pid`, `<name>.ip`, `id-<id>`; `/var/lib/redborder-sensors/<name>`: `ip gw mac start_cmd execs/*`; bridges, veth pairs, iptables rules of the host | `start`, `stop`, `restore`, `exec [-d]`, and the read-only `list stats logs shell config` | launches `sensor`, kills it, enters its namespaces |
| `sensor` | the namespaces, mounts and cgroup of one sandbox | three phases: new namespaces, root file system, unprivileged `unshare` that runs `tini` | is polled by `pgrep` from `start`; creates the persistent directory again (`sensor:227`) |
| `sensor-chaos.sh` | the qdisc of a sandbox, tagged iptables rules | `loss delay rate block down up kill clear` | uses the pid and ip files |
| `tini.c` | pid of its child | forwards signals, reaps children | PID 1 of a sandbox, parent of its agent |
| `ips-agent.go` | UUID, status, key, node name in a state file | register, verify until claimed, send alerts, check in | the manager over HTTPS, a syslog target |
| `proxy-agent.go` | the same, and flow templates, and a configuration reloaded on SIGHUP | register/verify, three UDP listeners, heartbeat | the manager; telemetry agents; http2k |
| `telemetry-agent.go` | sequence numbers, time of the last template | NetFlow v5/v9, IPFIX, sFlow, syslog export | a collector over UDP |
| `snmp-agent.go`, `ipmi-agent.go`, `redfish-agent.go`, `webserver.go` | counters derived from the clock, a configuration | answer requests | pollers |
| `webproxy-agent.go` | open tunnels | CONNECT and plain HTTP forwarding | clients and origin servers |

What is hard about it, and therefore worth modelling:

* **Three records of one address.** `get_free_id` looks for a free `id-*` file,
  `start` claims it, the ip file and the persistent directory repeat the
  address, `restore` passes it back with `--ip` and so claims no id, and `stop`
  finds the id file by `grep`. Uniqueness of addresses is a property of all of
  these together, over long sequences of operations.
* **A pid file for a process tree.** The pid is that of an `unshare` process.
  The agent below it can outlive it, and with it a network namespace and the
  veth pair in it. `start`, `restore` and `exec` decide by `kill -0`.
* **No lock.** Invocations of the script (two terminals, the boot-time unit)
  interleave between any two commands; `veth-ns` is a name all starts share.
* **Reboots** keep the persistent directory and lose processes, links and,
  usually, `/tmp`. `restore` calls functions that `exit` the shell.
* In the agents: lost replies and crashes during registration, templates over a
  lossy datagram channel, signals racing `fork`, half-closed tunnels.

`PROJECT.json` lists every hazard at its line, with the properties that cover it.

What makes each component correct: addresses, bridges and pid files of
`sensor-ctl.sh` belong to one sensor each and restore is total; a registered
agent keeps one identity and ends up claimed if the manager approves it; a
decoded flow equals the exported one; an SNMP walk visits every OID once in
order; tini outlives its child and forwards what it is sent; a reload that is
signalled takes effect; a tunnel delivers its bytes in order in both directions and
comes down with either end; what chaos adds, clear removes.

## 2. The model of sensor-ctl.sh

`SensorCtl.tla` models the state-changing operations of `sensor-ctl.sh`, what
it sees of `sensor`, and `sensor-chaos.sh kill`.

| Variable | Code |
|---|---|
| `pidFile`, `ipFile`, `idFile` | the files of `STATE_DIR`, `None` for a file that does not exist |
| `pers` | `PERSIST_DIR/<name>`: address, `--mac`, whether a command is stored, `execs/` as a function from file numbers to commands |
| `proc` | by pid of the `unshare` process: the sandbox in `setup`, `up`, or `orphan` (unshare is dead, tini and the agent run) |
| `jobs`, `alien` | detached commands by namespace; pids of strangers that a stale pid file may name |
| `veth`, `macvlan`, `bridges`, `uplink` | links and bridges of the host, the default route |
| `pc`, `loc` | where each invocation is, and its shell variables |

An operation is a sequence of actions, one per command or group of commands
between which another invocation can make a difference: `Start`, `CheckStart`,
`PickId`, `ClaimId`, `Launch`, `RecordStart`, `PersistStart`, `SetupBridge`,
`AddVeth`, `PlugVeth` for `start`; `Stop`, `KillSandbox`, `DelVeth`,
`CountPorts`, `DelBridge`, `CleanState`, `ForgetSandbox` for `stop`; `Exec`,
`CheckExec`, `ExecDir`, `ExecCount`, `ExecWrite`, `ExecRun` for `exec -d`; `Restore`,
`RestoreNext`, the actions of `start`, `RestoreList`, and `RestoreExec` with
those of `exec` for `restore`, with the shell's semantics of `return` (restore
goes on) and `exit` (restore dies, too). A group of writes to one sensor's own
files (pid and ip file; the files of the persistent directory) is one action.

The environment: `AgentUp` and `SensorExits` (setup ends or fails, the agent
ends), `JobExits`, `ChaosKill`, `Interrupt` (between any two actions),
`Reboot` (keeping or wiping `/tmp`), `UplinkChanges`. The constant `Faults`
says which of them a run or a theorem admits. Commands that fail without
stopping the script (`ip link add` on a name that exists, `ip link set ...
netns` of a dead pid, a write to a removed directory) do what they do in the
shell: nothing, and the script goes on.

Abstracted: names are model values with two relations that the code computes on
their text, `Inside` (the `grep` of `sensor-ctl.sh:114`) and `Guessable` (the
agent type deduced from a name, 234); an address is its third octet and host part;
a command is a model value. Not modelled: iptables, ufw, firewalld, cgroups,
the gateway address, usage errors.

Bounds, all constants: `MaxId` ids (an invocation that finds none ends,
`NoIdLeft`), `Pids` (a start without a free pid fails as a launch does),
`MaxSlot` files of detached commands.

## 3. The model of registration

`Registration.tla` models how ips-agent and proxy-agent come to an identity:
`main` up to the alerts (`ips-agent.go:518`, `proxy-agent.go:600`), `register`,
`verify`, `loadState`, `saveState`, and the ips-agent's check-in, which saves
the state again. The two agents share the protocol; where they differ (which
answers to verify are saved, standalone mode, forced credentials) the action
asks `role[a].kind`.

| Variable | Code |
|---|---|
| `role` | which agent a process is and where it runs: in its sandbox, put there by `exec -d`, or by itself; chosen once from `Deployments` |
| `mode` | with a manager, without one, or with forced credentials |
| `state` | `State`: hash, uuid, status (keys and node name follow the uuid and are left out) |
| `pc` | `loop` is the head of the claim loop, `register` and `verify` wait for an answer, `truncate` and `write` are the two halves of `os.WriteFile`, `active` is the work after the loop |
| `file` | the state files: absent, `Empty`, `Garbage`, or a state |
| `answer`, `late`, `sensors` | the manager and the network |

`StateFile` says whose file an agent uses: every ips-agent of `exec -d` writes
`/var/state/ips-state.json` of the host, as `nsenter` enters no mount namespace
(`sensor-ctl.sh:684`). `Writable` says where it can be written: not in a sandbox,
whose `/var/state` belongs to root (`sensor:227`). Outside, the directory is
assumed to exist. The run has agents in and out of sandboxes, and `ActiveIsSaved` is about
those that can write their file and share it with nobody. That a sandbox keeps it, too,
as `sensor:224` says, is `IdentityPersists`, which fails (section 8).

The manager is not in the repository. It is modelled as the agents use it: it
knows a sensor by its hash, gives the same uuid for the same hash (a repeated
`register` makes no second sensor), answers with the status `registered`, or
`claimed` once an administrator has claimed the sensor, and refuses a `verify`
whose hash and uuid do not belong together. Another status, which `verify`
would take over, is not modelled (see the hazards).

Faults: an agent crashes at any point, also within a save; a request or an answer
is lost (`Timeout` before or after the manager has acted), a `register` arrives
after its sender has given up or died (`late`), the manager refuses. `MaxHash`
bounds the hashes agents may make up (an agent that needs another one does not
start), `Modes`, `Deployments` and `Faults` are constants.

`Enrollment.tla` is what registration promises: identities are given out once,
approved after that, and an agent serves under an approved one or none.
`KeepsPromise` maps `known` and `approved` to the manager's table and `serving` to
the uuids of agents at work; everything else, files and messages, is hidden.

## 4. The model of the flow pipeline

`Pipeline.tla` models flows from exporters to the proxy-agent: the loops of
`runNetFlowV9` and `runIPFIX` and the simpler ones of `runNetFlowV5` and
`runSFlow` (`telemetry-agent.go`), UDP, and `startUDPListener` with its four
`handle*` functions and `sendPayload` (`proxy-agent.go`).

| Variable | Code |
|---|---|
| `pc`, `stale` | whether `conn` is nil, and where in its loop the exporter is; `time.Since(lastTmpl) > 30*time.Second` |
| `net` | datagrams on their way, each a template or records |
| `templates` | `v9Templates` and `ipfixTemplates`; a name is protocol, source id and number (`Name`) |
| `busy` | by listener, the datagram that its handler is at and the documents it has still to post |

`Dial`, `SendTemplate` and `SendData` are the exporter's loop, `WriteFails` the
error paths that give up the connection, `Age` the passing of 30 s, `Receive` one
datagram up to its first post, `Post` one `sendPayload` (its result is ignored and
it ends after 10 s at most), `Restart` a proxy that starts with empty tables. The
network loses (`Lose`), repeats (`Receive` may leave the datagram) and reorders.

`Stream` is what an exporter writes for a datagram's records and `Decode` what a
handler makes of it with a list of fields, both value by value: one value stands
for the bytes of a field. Three fields stand for the seven that the proxy knows,
`other` for those it skips. Padding, which is shorter than a record, is left out, as
are field widths, port numbers, sequence numbers, syslog, enrichment and reloads.

The handlers look at the sender's address only to label a flow (`proxy-agent.go:348`,
352, 406, 410): a template replaces that of any other exporter with its name, and
records are decoded with what came last, whole or in part. The model does the same.
All telemetry-agents mean one list of fields by a name (`telemetry-agent.go:260`, 389), other
devices need not, and one may change its records. `Faithful` and `FlowsArrive` are
about exporters whose name has one meaning (`Unambiguous`), next to others that
mix theirs up on the same listener. `SizeAssumption` excludes templates of no bytes,
with which the loops at 355 and 413 would never end.

## 5. The model of polling

`Polling.tla` puts a monitoring tool and a network in front of three agents that
answer requests and remember nothing of them. What they answer are functions:

* `Snmp.tla`: `IsLess`, `GetNextOID`, and `HandlePdu` with GET, SET, GETNEXT and
  GETBULK (`snmp-agent.go:198-344`). An identifier is the sequence of its numbers,
  and a value is `"value"`; who is answered is `Accepted`. Values, their encoding and
  the size of a datagram are left out; every entry is assumed to have a type that the
  agent knows, and all entries to have different identifiers (`ConfiguredAssumption`).
* `Ipmi.tla`: the sensor records byte by byte (a byte that the tool does not look at is
  a number of its own), `GetSdr`, which reads them by record, offset and count, and the
  completion codes of the commands of a session (`ipmi-agent.go:25-121`).
* `Redfish.tla`: the mux with its exact patterns and subtrees, `authMiddleware`, and the
  links and actions of each resource (`redfish-agent.go:92-547`).

| Variable | Meaning |
|---|---|
| `kind` | what the tool does: one PDU of `Probes` (`probe`), `walk` with GETNEXT, `bulkwalk`, read the sensor records (`sdr`), `crawl` the resources, with or without (`stranger`) credentials |
| `log`, `request`, `retries`, `status` | the tool: what was answered, what it waits for (or `None`), how often it sent it again, and whether it is `"polling"`, `"done"` or `"gaveUp"` |
| `net` | packets on their way, in both directions |

`Respond` is the body of an agent's loop: one datagram read, one answer under the
number of its request (`ResponseId`: `RequestID` of SNMP, `reqSeq` of IPMI). The tools
are not in the repository. They are modelled as the protocols have them: the next
request of a walk is the last name it was told, the sensor records are read header
first and then in chunks, a crawler follows every link and calls every action once.
The network loses (`Lose`), repeats (`Respond` and `Take` may leave the packet)
and reorders; a full network loses a packet instead of refusing one. Redfish runs over
TCP; that it is given the same network only asks more of it, as it keeps nothing.

## 6. The model of the reload

`ProxyReload.tla` models what happens between an edit of the proxy-agent's configuration
and the agent's use of it: `loadConfig`, the SIGHUP goroutine, the rounds of
`main` and the start of the listeners (`proxy-agent.go:527-653`), `tini.c`, the staging of files (`sensor:172-222`)
and the process tree of a sandbox (`sensor:278`).

| Variable | Code |
|---|---|
| `place` | on the host's file system (`exec -d`) or in a sandbox |
| `file`, `staged` | the configuration and its copy in the sandbox, by number of the edit; `None` while it is half written, and for the defaults that `loadConfig` falls back to |
| `unshare`, `tini`, `child` | the processes, and how far tini and the agent are in starting up |
| `toTini`, `toChild` | a pending SIGHUP; signals of one number are not counted |
| `sigs` | the channel of capacity one |
| `loader`, `got` | `loadConfig`: about to read, about to store what it `got` |
| `orphans`, `zombies` | processes that were left to tini as the init of its namespace, and those it has not waited for |
| `config`, `current` | the configuration under `configMutex` and the copy that `main` works with, taken in every round |
| `main` | before its first copy, in the claim loop, about to start the listeners, at work |
| `taken`, `endpoint` | what is taken once: the configuration of the entry in `/etc/hosts` (629) and of the HTTP client (637), and that of the address to which a listener posts (533) |

`Signal` sends to whom an operator may send: the pid of the pid file (`unshare`, which
has no handler), tini, or the agent. `Deliver` is what the agent makes of it: before
`Exec` the handler it has inherited from tini finds a `child_pid` that is not positive;
before `Notify` the signal ends it; then the channel takes it unless it is full.
tini forwards only once `child_pid` is set (`ChildKnown`), and waits for whatever child ends
first (`Ended`), of which only the agent ends it (`IsChild`). `fork` and `execvp` may
fail. That `wait` fails (70) needs a tini without children, which there is not before
its agent is reaped.

## 7. The model of a tunnel

`WebTunnel.tla` models one CONNECT request to the webproxy-agent
(`webproxy-agent.go:82-143`, 165-169): `Authorize` and `Dial` with both outcomes,
`Hijack`, and two goroutines `transfer`, each with its own `pc` and buffer `hold`.
`in` and `out` are the bytes that wait at a connection and those on their way to an
end, at most `Window` of each; a copy blocks on a full one. Bytes are numbered by
their writer. `Close` does what the kernel does: a connection that is closed with
unread bytes is reset, and what is on its way may be lost. `ahead` is the byte that
net/http reads between the 200 and `Hijack`, which ends in the reader that
`handleConnect` drops (134). The ends write, read, shut their writing and close at will.

Plain HTTP requests (`handleHTTP`) are one call of the library, and not modelled. The error
paths of hijacking (128-139) cannot be taken: the server of the agent speaks HTTP/1,
whose `ResponseWriter` is a `Hijacker` and lets itself be hijacked once.

## 8. Runs

`MCSensorCtl.tla` gives values to `Rank`, `Inside` and `CustomIps`,
`MCRegistration.tla` to `Deployments`, `MCPipeline.tla` to the exporters' protocols,
names and field lists, `MCPolling.tla` to the configured identifiers and the probes.
`ProxyReload` and `WebTunnel` need no other values than numbers and strings and are
instantiated by their configurations.

| Run | Shows | Instance | Distinct states |
|---|---|---|---|
| `SensorUse.cfg` | `UniqueIp`, `IdsOwned`, `OneInstance`, `PidFileIsOwn` hold while one invocation runs at a time | 2 names, one inside the other, 3 ids, 3 pids, start/stop/restore, all process failures | 2.2 million |
| `SensorRestore.cfg` | `RunningIsConnected`, `NoStrayBridge`, `StoppedIsCutOff`, `RestoreIsTotal`, `InvocationsEnd` | 2 names, 1 id, 3 pids, an address given with `--ip` that shares the subnet, one detached command, all four operations, both kinds of reboot, failed launches | 910 thousand |
| `SensorExec.cfg` | `TypeOK`, `DetachedArePersisted`, `ExecsListedOnce` | 1 name, two detached commands that may end, 2 pids, all four operations, `--mac` or not, an uplink that comes and goes, kills, interrupts, transient children met by pgrep, both kinds of reboot | 2.9 million |
| `SharedIpAfterReboot.cfg` | violates `UniqueIp` | as `SensorUse`, with a reboot that wipes `/tmp` | |
| `CrossWiring.cfg` | violates `NoCrossWiring` | two concurrent starts | |
| `Registration.cfg` | `TypeOK`, `IdentityPaired`, `ActiveIsApproved`, `ActiveIsSaved`, `ApprovedServes`, and `KeepsPromise`: it implements `Enrollment` | 2 agents, an ips-agent and a proxy-agent, each by itself or in its sandbox, or two ips-agents on one file, all modes and faults, 2 hashes | 219 thousand |
| `Pipeline.cfg` | `TypeOK`, `Faithful` | a v9 and an IPFIX exporter with the same numbers and different fields, the latter also after a change of its fields, one that samples (sFlow); 2 records, 2 datagrams on their way | 1.1 million |
| `PipelineLive.cfg` | `FlowsArrive` | the same without the change | 41 thousand |
| `Polling.cfg` | `TypeOK`, `AnswersMatch`, `ReadsInOrder`, `AnswersTrue`, `RecordsWhole`, `LinksTrue`, `PollEnds` | 5 identifiers out of order, one the prefix of another; 288 PDUs; chunks of 25 bytes; 2 packets on their way, 2 retries | 21 thousand |
| `WebTunnel.cfg` | `TypeOK`, `InOrder`, `BytesArrive`, `LastBytesArrive`, `TunnelEnds` | 3 bytes each way through windows of 2 | 56 thousand |
| `ProxyReload.cfg` | `TypeOK`, `NoLostUpdate`, `TiniOutlivesChild`, `SignalReaches`, `HostReloadTakesEffect` | 3 edits, on the host or in a sandbox, one process left to tini | 16 thousand |
| `ReloadInSandbox.cfg` | violates `ReloadTakesEffect` | 1 edit in a sandbox | |

The three violations are disagreements between the code and what its messages or
the README say; `PROJECT.json` quotes each under `findings`. The models show more, each by a
change of one of these configurations:

* With two `Clients` in `SensorExec.cfg` `DetachedArePersisted` fails: two `exec -d` count
  the files of `execs/` before either writes its own (`sensor-ctl.sh:679`), and the
  later write replaces the earlier. In `CrossWiring.cfg`, which has two clients, `UniqueIp`
  fails as well: two starts find the same id free (`sensor-ctl.sh:285`).
* With `"kill"` among the `Faults` of `SensorRestore.cfg` `RunningIsConnected` and `NoStrayBridge` fail: after
  `sensor-chaos.sh kill` the agent keeps the veth pair, the next start cannot create
  it (`sensor-ctl.sh:453`) and reports a sensor up that has no network.
* `UniquePickedIp` in place of the invariants of `SensorUse.cfg`, with `CustomIps <- SharedNetIp`,
  fails: `ips1`, started with `--ip`, has no id file, and stop finds that of `ips12` by its
  grep (`sensor-ctl.sh:114`) and removes it; the next start gets the address of `ips12`.
* `IdentityPersists` in place of `ActiveIsSaved` in `Registration.cfg` fails: an ips-agent
  in its sandbox cannot write its state file (`sensor:227`) and registers as a new
  sensor after every restart, although `sensor:224` says that the mount persists it.
* `LinksLead` in place of `LinksTrue` in `Polling.cfg` fails: the manager's link to its
  interfaces (`redfish-agent.go:505`) is answered by the manager's handler (112), as
  the interfaces are registered below `Managers/Self` only (114).
* `EndpointFollows` in place of `HostReloadTakesEffect` in `ProxyReload.cfg` fails: a listener
  takes its endpoint once (`proxy-agent.go:533`), as main takes the entry in
  `/etc/hosts` (629) and the client (637). A reload between 629 and 533 even gives the
  two different domains.
* stop leaves tini and the agent running (`sensor-ctl.sh:122`, the `orphan` of
  `SensorCtl`): `StoppedIsCutOff` says what stop does achieve.

The properties that the passing runs check, and the hypotheses of the theorems, are the other
side of these: they say of which use of the code each property holds.

Two names of sensors are enough for addresses, bridges and pid files to be confused
between sensors, since each property relates two sensors at most; three ids and
pids let a sensor die, leave its traces and be started again next to another
one that runs. Deadlock is checked in `SensorCtl`: an invocation can always be made.
It is not checked in `Polling` and `WebTunnel`, where a poll and a tunnel end, in
`ProxyReload`, where edits run out, nor in `Registration`, where a proxy-agent at work has no steps of interest
left and hashes run out. There, two hashes let an agent lose its file and come back
as another sensor, or two agents meet at the manager; a third would add no new
pair. `Pipeline` needs two records for their order to matter and two datagrams for one
to overtake another; the exporters differ in all that the proxy tells apart, and two of
them in nothing but their fields, as one device before and after an update. A
`net` that is full (`MaxInFlight`) loses a datagram instead of refusing one.

The identifiers of `Polling` differ in length, in a number of two digits, and by
being a prefix of each other, and their configuration is not sorted, so that order by
length, by text or by position would all be noticed; `MaxRepetitions` of 3 makes a bulk
request end within and past the subtree; the longest record is 63 bytes, which makes two
full chunks and a rest. `MaxAsked` is longer than every poll. Three bytes and a
window of 2 let a copy block in the middle of a buffer, and let bytes be read ahead,
held, and on their way at once. Three edits let a signal come while another waits in the
channel and a third is being handled.

Every property of a passing run has a mutant of the code in `SensorCtl.tla`
(operators named after the action with a suffix, e.g. `CountPortsNever`) under
which TLC finds it violated; those of the other
modules stand before the operator they change as well.

**Fairness** (`FairSpec`, for `InvocationsEnd`, with two persisted sensors and a command
of each, so that both loops of restore go round while start and exec change the
directories they go over): a script that has begun runs
its next command (`WF` of `ClientStep`: nothing in it waits for another
invocation, `pgrep` is polled 50 times at most), and phase 2 of a sandbox ends.
Nothing is assumed of operators, failures or reboots.

For `ApprovedServes`, the `FairSpec` of `Registration` assumes that an agent that
runs takes its next step (`WF`), and, as a request can time out again and again,
that a manager that is asked infinitely often answers infinitely often, and that
answers arrive in time and are no refusals infinitely often (`SF`): the agents retry
every 10 s for ever. Nothing is assumed of the administrator: the property is about
sensors that have been claimed.

For `FlowsArrive`, the `FairSpec` of `Pipeline` assumes that exporters go on and time
passes (`WF` of `ExporterStep` and `Age`: their loops have no other end), that a
listener that posts gets on (`Post`: the client has a timeout), and that UDP is
fair: datagrams that are on their way again and again are received again and
again, however many are lost. The property excuses a proxy that is restarted for
ever and an exporter whose writes fail for ever, since nothing excludes either.

`PollEnds` assumes of `Polling` only that the tool's clock goes on (`WF` of `Tool`): it
sends, sends again, gives up or finishes; neither agent nor network has to do anything.
What could keep a poll from ending is a cycle of names, records or links.

The liveness of `WebTunnel` assumes that goroutines are scheduled (`WF` of `Connect` and of
each `Transfer`) and that an end reads what has come (`PeerReads`): one that never
does blocks its copy for ever, as there is no deadline on a tunnel. `ProxyReload` assumes
that an edit is finished and signalled, and that tini, the kernel and the goroutines
go on; `Round` is fair as the heartbeat and the claim loop have no other end. Nothing is
assumed of forks, execs and processes that fail or end, nor that the agent is claimed.

## 9. Proofs

`SensorCtlProofs.tla`, for all values of the constants that satisfy
`ConstantsAssumption` and `NoneAssumption`:

* `TypeCorrect`: `Spec => []TypeOK`, by itself inductive because `ClientsOK`
  says what an invocation knows at each point (`ClientOK`): where an action uses a
  name, a pid or an address, the variable is set. It holds for any number of
  concurrent invocations and all faults.
* `AddressesOwned`, `UniqueIpSequential`: under `SequentialUse` (one client, no
  `--ip` by hand, no reboot or interrupt; any names) `UniqueIp` is
  invariant. It is not inductive: an ip file can only be trusted if its id file
  is there, and so `IdsOwned` says that every address in an ip file, in a
  persistent directory or in the hands of `start` belongs to the sensor named by
  the id file of that address, that `start` claims an id nobody refers to, and
  that an id file that `stop` is to remove, the only one its grep has found, is its own
  (with a name inside another one grep may find two, and `rm` gets both paths as one
  argument and removes none: an id is lost, but none is shared). Between `CleanState` and `ForgetSandbox` the
  persistent directory of the sensor that is being stopped is exempt. The run
  `SensorUse` checks `IdsOwned`, too. Each condition of `SequentialUse` is needed:
  `SharedIpAfterReboot` drops the one on reboots, and section 8 shows what happens without
  those on `--ip` and on clients.
* `PidFilesOwn`: under `NoReuse`, `PidFileIsOwn` is invariant for any number of
  clients and all other faults. The strengthening `LocalPidIsOwn` says the same
  of the pids that invocations hold in their variables.

`SensorUseProofs.tla` is about `OneClient`, one invocation at a time, on any number of
sensors. The other hypotheses are needed as well: TLC finds the property (of the
three on links, `RunningIsConnected` and `NoStrayBridge`) violated when its run is given an
excluded fault or value, for the reuse of pids with a second name in `SensorExec`, and for
`"uplink"` with both values of `Macs`.

* `OneInstanceAlways`: under `NoSplitStart` (no fault `helper` or `interrupt`, which part
  what start launched from the pid file it writes), `OneInstance` is invariant, with
  reboots, kills and reused pids. `Recorded` says that every container is in its pid
  file or about to be; `ClientAlone` what the check has told start and the kill has told stop,
  which holds on to the end of each.
* `ExecsListedOnceAlways`: `ExecsListedOnce` is invariant under all faults. The invocation
  that is about to write a file remembers that its command is not listed (`ListedOnce`).
* `DetachedArePersistedAlways`: under `NoReuse`, `DetachedArePersisted` is invariant. `JobsInv`
  adds that files are numbered without gaps (`Numbered`), so that their count is a
  new number and no file is replaced, and that a container whose pid start has not yet
  written has no jobs, and one that stop forgets no pid file (`ClientLists`).
* `RunningConnectedAlways`, `NoStrayBridgeUndisturbed` and `StoppedCutOffAlways`: under `Undisturbed`
  (containers end only by stop or with the host, pids are not reused, invocations
  are not interrupted and find their container), the three properties of links are
  invariant, with failed launches, both kinds of reboot, macvlan and shared
  subnets. They are parts of one invariant `NetInv` that holds in the middle of invocations,
  too: a pair belongs to a sensor that runs or is being plugged or unplugged
  (`PairsOwned`); what runs has a pair or start is on its way to it (`RunningWired`); a bridge
  serves a sensor that runs or is being stopped (`BridgesUsed`), which is why counting its
  ports tells stop whether to delete it; a link lies in a namespace that a process
  keeps (`LinksHeld`); and `ClientNet` is what start and stop have achieved at each point. The
  faults that `Undisturbed` excludes leave a pair or a bridge that the next start meets:
  section 8 shows it for `kill`. The theorems say nothing of them.
* `RestoreTotalAlways`: under `Restorable`, `RestoreIsTotal` holds. `RestoreOK` says that every sensor
  with a persistent directory is still to come, runs, or is the one at work, and
  that restore calls start only for a sensor that does not run, and exec for one that
  does, where neither exits the shell. Besides `Undisturbed` it takes an interface for
  macvlan and agents that can be guessed from names (`Guessable = Names`): a reboot between
  `sensor:227` and the writes of start (`PersistStart`) leaves a directory without
  `start_cmd`, for which start needs to guess or exits, and restore with it.

`RegistrationProofs.tla`, for all agents, deployments, modes and faults, under
`RegistrationAssumption` and `DistinctAssumption`:

* `TypeCorrect`: `Spec => []TypeOK`.
* `IdentitiesPaired` and `ActiveApproved`: `IdentityPaired` and `ActiveIsApproved` are
  invariant. Neither is inductive. An agent learns its uuid and that it is claimed
  from an answer, and so `AnswersTrue` says that a pending answer is true of the
  hash in memory; it may have learned either in an earlier life, and so
  `StatesTruthful` says of memories and files alike that what they call claimed is
  claimed; `LoopGuards` says that nobody passes the loop unclaimed. The invariant
  `Inv` is the conjunction of these with `TypeOK` and `IdentityPaired`. The
  argument is that the manager's table only grows (`Grown`), so that what was true
  stays true in whatever file it lies, and that every state in a step comes from
  memory, a file, an answer or a fresh hash (`Sources`).
* `IdentitySaved`: `ActiveIsSaved` is invariant, in every deployment: it is about the agents that
  can write their state file and own it (`Writable`, `OwnsFile`), whoever else runs in a
  sandbox or shares files. Section 8 shows that the first is needed. `Saved` says at each
  point of the agent how far its file agrees with its memory, and a crash inside a
  save begins a new life without a uuid. Of `Inv` it needs `TypeOK` only.
* `PromiseKept`: `Spec => KeepsPromise`, from `Inv`: every step of an agent, of
  the manager and of the network maps to a step of `Enrollment` or to a stutter.

`PipelineProofs.tla`, for any exporters, field lists and numbers of records, under
`PipelineAssumption`, `LayoutAssumption` (which says what the fixed records of v5 and sFlow
are), `SizeAssumption` and `NoneAssumption`:

* `DecodeStream`: decoding what an exporter encodes with its own list of fields
  gives the flows it meant. It rests on the uniqueness of quotient and remainder
  (`QuotientUnique`) and on the last position of a field (`LastOfField`).
* `TypeCorrect` and `AlwaysFaithful`: `TypeOK` and `Faithful` are invariant. `Faithful`
  is not inductive without `TablesTrue`: a list in the tables is that of every
  unambiguous exporter with this name, whichever sent it and whenever. `TypeCorrect` covers
  the others: what is decoded with a wrong list are documents, too.

`SnmpProofs.tla`, for identifiers of any length and any table:

* `IsLessOrders`: `IsLess` is irreflexive, transitive and total. Transitivity is a case
  split on which of two pairs differs first; totality needs a least differing place,
  for which `LeastNat` cites that `<` is well founded.
* `GetNextIsSuccessor`: in a sorted table `GetNextOID` gives the first entry after the one
  asked for, and nothing exactly when there is none. Together they are why a walk
  meets every identifier once.
* The lemmas that `PollingProofs` needs of data of any length. The prover has no
  induction over operators, so each takes a least counterexample (`LeastNat`):
  `SortedExists` and `TableIsSorted` (what `sort.Slice` makes of the identifiers exists,
  and `OrderedOIDs` is it), `FlattensExists`, `FlattensUnique` and `FlattenAppend` (what
  `FlattenSeq` computes, and that one sequence more is appended), and `RepetitionsAre`: the loop of
  a bulk request yields a `Segment`, the table from the place after an identifier on and one
  `endOfMibView` at its end. `SegmentConcat` puts two of them together, which is why a walk
  may stop and go on anywhere; `SubtreeIsConvex` says that what lies between two
  identifiers of a subtree is in it.

`PollingProofs.tla`, for any table, root, probes, size of chunks and bounds, and whatever the
network loses, repeats and reorders, under `PollingAssumption` and `ConfiguredAssumption`:

* `TypeCorrect`, `AnswersMatchAlways`: `TypeOK` and `AnswersMatch` are invariant. Neither is
  inductive: an answer is only taken for that of its request because nothing else on its way has its
  number, and so `PacketsOK` says that every packet with the number of the pending request
  is this request or the agent's answer to it, and that nothing has a number that was
  not asked yet; `PendingOK`, that the tool waits for what it has to ask next. They make up
  `ExchangeInv`. From it follows `LogStep`: the network has no other effect on the log than
  that a question of the tool is appended with the agent's own answer. The other proofs
  rest on this alone and never look at packets.
* `ReadsInOrderAlways`: `WalkInv` says that all a walk has read, put together, is one `Segment` from
  what follows the root, whatever the number of repetitions. `ReadsInOrder` follows, as the
  table is in order and a subtree is convex.
* `AnswersTrueAlways`: for every PDU, with negative numbers of non-repeaters and repetitions too,
  the answer is what the set of configured identifiers demands. `FollowingIs` shows that
  `Following`, which the property defines by that set alone, is a `Segment` of the table.
* `RecordsWholeAlways`: `SdrInv` gives the phases of a tool that reads: in record `k` with `m` bytes
  of it (`InRecord`), past its reading (`AfterReading`), and `Closed`. In each, what was read is
  the records before and the part of the current one, for every `Chunk` that `PollingAssumption`
  admits, and the readings are those of the records before.
* `LinksTrueAlways`: `CrawlInv` says that a crawl asks for nothing but `Pages` and one reset. They
  are closed: each is answered with 200, links to pages only, and is found again under its
  own identifier (`PagesAreClosed`). A finished crawl has asked for every page, as each is linked from
  another, down from the root. The link of the manager to its interfaces is the one exception
  that the theorem names: it is answered with the manager.

`ProxyReloadProofs.tla`, for any number of edits and any places:

* `TypeCorrect`, `NothingLost` and `Outlives`: `TypeOK`, `NoLostUpdate` and
  `TiniOutlivesChild` are invariant. `NoLostUpdate` is about a moment at which nothing is
  on its way, and `Announced` says where its news is until then: with the operator, the
  kernel, the channel, or in what `loadConfig` is about to read or holds, where it only
  counts if it is still the file's. `OnHost` and `EditBounded` complete `IInv`. The step
  that needs the capacity of the channel is `Deliver`: a signal that is dropped
  finds another in the channel, and so a read still to come. `TiniOutlivesChild` is
  inductive with `TypeOK`, which says that there is a child once tini has forked it:
  signals, orphans and a failed `execvp` leave tini in its wait, and a failed `fork` leaves no
  child to outlive.

`WebTunnelProofs.tla`, for any number of bytes and any window, under
`TunnelAssumption`:

* `TypeCorrect` and `InOrderAlways`: `TypeOK` and `InOrder` are invariant. Bytes are
  numbered, and `Ordered` says of each direction that what arrived, what is on its way,
  what its goroutine holds and what waits count on one where the one before ends, from
  the byte that was read ahead (`Counts`, `Delivered`, `Held`). A buffer is in this chain only as
  long as it can still be delivered: once the goroutine stops copying, the destination is
  closed or its end has left, its buffer promises nothing, and once its source is
  closed neither do the bytes that wait (`Live`). `Fresh` says that nothing went through before
  `Hijack`, which `ReadAhead` needs, since it moves the beginning of the chain.

Every invariant that a passing run checks is a theorem, under the hypotheses named above, and so is
the refinement `KeepsPromise`. Model-checked only are the liveness
properties: `InvocationsEnd`, `ApprovedServes`, `FlowsArrive`, `PollEnds`, and those of `WebTunnel` and
of `ProxyReload`. They need the fairness of actions and with it ENABLED, which is out of
the prover's reach.

## 10. Not modelled

Done: `SensorCtl`, `Registration` with `Enrollment`, `Pipeline`, `Polling` with `Snmp`, `Ipmi`
and `Redfish`, `ProxyReload` with tini, `WebTunnel`.

* `sensor-chaos.sh` but for kill: loss, delay and rate are the last qdisc that was
  set, and block, unblock and clear are iptables commands. Whether clear removes what
  block added depends on what iptables compares and on no order of steps: its deletes
  (140, 141) leave out the address, protocol and port of the rules (109, 110), so that
  they match none of them.
* What depends on durations and sizes: a rate of zero, answers that do not fit in a
  datagram, counters that a random addend turns back, widths of flow fields.
* Malformed input: datagrams of the ipmi-agent that pass the check of their length and are
  shorter than the command's fields (`ipmi-agent.go:68`, 99, 113), identifiers of one number,
  which the SNMP library does not marshal (`snmp-agent.go:347`, whose error is ignored), and
  templates of no bytes (`SizeAssumption`). The tools and exporters of the models send none.
* The values that the agents make up: alerts, scenarios, sensor readings, health;
  request signing, keys and TLS; syslog and the enrichment of flows, which are functions
  of one message.
* `webserver.go`: handlers that answer from the configuration and keep no state;
  packaging, the service unit, shell completion and the example program.
