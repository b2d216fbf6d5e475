---------------------------- MODULE Registration ----------------------------
(***************************************************************************)
(* How ips-agent and proxy-agent obtain their identity: the register and   *)
(* verify requests to the manager, repeated until an administrator has     *)
(* claimed the sensor, and the state file that carries the identity over   *)
(* a restart. The manager and the network are external.                    *)
(***************************************************************************)
EXTENDS Naturals

CONSTANTS
    Agents,     \* processes that run an agent
    Deployments,\* which agent each process may be, and where it may run:
                \* in its sandbox, put there by exec -d, or by itself
    Modes,      \* the configurations agents are started with
    MaxHash,    \* bound: hashes that agents may make up
    Faults,
    HostFile,   \* the file /var/state/ips-state.json of the host
    None, Empty, Garbage, Standalone, Forced, Refusal

Hashes == 1..MaxHash
Uuids == 1..MaxHash

Roles == [kind : {"ips", "proxy"}, place : {"sandbox", "exec", "alone"}]

ASSUME RegistrationAssumption ==
    /\ MaxHash \in Nat
    /\ Deployments \subseteq [Agents -> Roles]
    /\ Modes \subseteq {"managed", "standalone", "forced"}
    /\ Faults \subseteq {"crash", "late", "error"}
    /\ HostFile \notin Agents
    /\ {None, Standalone, Forced} \cap Uuids = {}

States == [hash : Hashes, uuid : Uuids \cup {None, Standalone, Forced},
           status : {"unregistered", "registered", "claimed"}]

Answers == [status : {"registered", "claimed"}, uuid : Uuids]
Entries == [uuid : Uuids, claimed : BOOLEAN]

ASSUME DistinctAssumption ==
    /\ {None, Empty, Garbage} \cap States = {}
    /\ None \notin Entries \cup Answers
    /\ Refusal \notin Answers \cup {None}

VARIABLES
    role,   \* the deployment
    pc,     \* where an agent is
    mode,   \* the configuration it was started with
    state,  \* its State, in memory
    answer, \* the manager's answer to its pending request
    file,   \* the state files
    made,   \* hashes made up so far
    sensors,\* the manager's table: an identity for each hash it has seen
    late    \* hashes in register requests that nobody waits for any more

agentVars == <<pc, mode, state, answer>>
managerVars == <<sensors, late>>
vars == <<role, agentVars, file, made, managerVars>>

Serving == {"active", "retruncate", "rewrite"}

TypeOK ==
    /\ role \in Deployments
    /\ pc \in [Agents -> {"off", "loop", "register", "verify", "truncate", "write"}
                           \cup Serving]
    /\ mode \in [Agents -> {"managed", "standalone", "forced"}]
    /\ state \in [Agents -> States \cup {None}]
    /\ \A a \in Agents : pc[a] # "off" => state[a] # None
    /\ answer \in [Agents -> Answers \cup {None, Refusal}]
    /\ file \in [Agents \cup {HostFile} -> States \cup {None, Empty, Garbage}]
    /\ made \in 0..MaxHash
    /\ sensors \in [Hashes -> Entries \cup {None}]
    /\ late \subseteq Hashes

-----------------------------------------------------------------------------
(* Helpers. *)

\* sensor-ctl.sh passes every ips-agent the path /var/state/ips-state.json,
\* which is a directory of the sensor's own in a sandbox; exec -d runs it on
\* the host's file system. A proxy-agent puts SENSOR_NAME into the path.
StateFile(a) == IF role[a].kind = "ips" /\ role[a].place = "exec" THEN HostFile ELSE a

\* In a sandbox the directory belongs to root, the agent does not run as root,
\* and /sensor-data, the proxy-agent's directory, does not exist.
Writable(a) == role[a].place # "sandbox"

Goto(a, label) == pc' = [pc EXCEPT ![a] = label]

Claimed(h) == sensors[h] # None /\ sensors[h].claimed

-----------------------------------------------------------------------------
(* The agent. *)

\* Mutants of Loaded: the state stays nil if the file cannot be read; the hash is
\* made up before the file is read.
LoadedNil(a) ==
    IF file[StateFile(a)] \in States THEN {file[StateFile(a)]} ELSE {None}

LoadedAnew(a) ==
    {IF file[StateFile(a)] \in States THEN [file[StateFile(a)] EXCEPT !.hash = h]
     ELSE [hash |-> h, uuid |-> None, status |-> "unregistered"] :
        h \in {made + 1} \cap Hashes}

\* loadState: a file that is missing, empty or not JSON is no state.
Loaded(a) ==
    IF file[StateFile(a)] \in States THEN {file[StateFile(a)]}
    ELSE {[hash |-> h, uuid |-> None, status |-> "unregistered"] :
             h \in {made + 1} \cap Hashes}

\* Mutant of Configured: whoever has a uuid counts as claimed (as ips-agent.go:527
\* does for a state without a status).
ConfiguredByUuid(a, m, s) ==
    IF m = "forced" THEN [s EXCEPT !.uuid = Forced, !.status = "claimed"]
    ELSE IF s.uuid # None THEN [s EXCEPT !.status = "claimed"]
    ELSE s

\* Without a manager an ips-agent makes up an identity; a proxy-agent with
\* forced credentials takes the configured one.
Configured(a, m, s) ==
    IF m = "forced" THEN [s EXCEPT !.uuid = Forced, !.status = "claimed"]
    ELSE IF m = "standalone" /\ role[a].kind = "ips" /\ s.uuid = None
         THEN [s EXCEPT !.uuid = Standalone, !.status = "claimed"]
    ELSE s

Start(a) ==
    /\ pc[a] = "off"
    /\ \E m \in Modes, s \in Loaded(a) :
          /\ m = "forced" => role[a].kind = "proxy"
          /\ mode' = [mode EXCEPT ![a] = m]
          /\ state' = [state EXCEPT ![a] = Configured(a, m, s)]
          /\ made' = IF s = file[StateFile(a)] THEN made ELSE made + 1
          /\ Goto(a, IF m = "forced" \/ Configured(a, m, s) # s THEN "truncate" ELSE "loop")
    /\ UNCHANGED <<role, answer, file, managerVars>>

\* Mutant of Loop: only an unregistered agent has to wait.
LoopRegistered(a) ==
    /\ pc[a] = "loop"
    /\ Goto(a, IF mode[a] = "standalone" \/ state[a].status # "unregistered" THEN "active"
               ELSE "register")
    /\ UNCHANGED <<role, mode, state, answer, file, made, managerVars>>

\* The head of the loop; with no manager there is no loop.
Loop(a) ==
    /\ pc[a] = "loop"
    /\ Goto(a, IF mode[a] = "standalone" \/ state[a].status = "claimed" THEN "active"
               ELSE IF state[a].status = "unregistered" THEN "register"
               ELSE "verify")
    /\ UNCHANGED <<role, mode, state, answer, file, made, managerVars>>

\* register: an answer with the status registered or claimed is taken over and
\* saved, any other is an error.
Register(a) ==
    /\ pc[a] = "register" /\ answer[a] # None
    /\ IF answer[a] = Refusal
       THEN Goto(a, "loop") /\ UNCHANGED state
       ELSE /\ state' = [state EXCEPT ![a].uuid = answer[a].uuid,
                                      ![a].status = answer[a].status]
            /\ Goto(a, "truncate")
    /\ answer' = [answer EXCEPT ![a] = None]
    /\ UNCHANGED <<role, mode, file, made, managerVars>>

\* Mutants of Verify: the status is not taken over; it is not saved.
VerifyKeepsStatus(a) ==
    /\ pc[a] = "verify" /\ answer[a] # None
    /\ Goto(a, IF answer[a] = Refusal THEN "loop" ELSE "truncate")
    /\ answer' = [answer EXCEPT ![a] = None]
    /\ UNCHANGED <<role, mode, state, file, made, managerVars>>

VerifyUnsaved(a) ==
    /\ pc[a] = "verify" /\ answer[a] # None
    /\ IF answer[a] = Refusal THEN UNCHANGED state
       ELSE state' = [state EXCEPT ![a].status = answer[a].status]
    /\ Goto(a, "loop")
    /\ answer' = [answer EXCEPT ![a] = None]
    /\ UNCHANGED <<role, mode, file, made, managerVars>>

\* verify takes the status over, and not the uuid. The ips-agent saves it only
\* if it is claimed, the proxy-agent always.
Verify(a) ==
    /\ pc[a] = "verify" /\ answer[a] # None
    /\ IF answer[a] = Refusal
       THEN Goto(a, "loop") /\ UNCHANGED state
       ELSE /\ state' = [state EXCEPT ![a].status = answer[a].status]
            /\ Goto(a, IF role[a].kind = "proxy" \/ answer[a].status = "claimed"
                       THEN "truncate" ELSE "loop")
    /\ answer' = [answer EXCEPT ![a] = None]
    /\ UNCHANGED <<role, mode, file, made, managerVars>>

\* A register request that is not answered yet may still be on its way when its
\* sender has stopped waiting.
Abandon(a) ==
    late' = IF "late" \in Faults /\ pc[a] = "register" /\ answer[a] = None
            THEN late \cup {state[a].hash} ELSE late

\* The client's timeout of 10 s.
Timeout(a) ==
    /\ pc[a] \in {"register", "verify"}
    /\ Goto(a, "loop")
    /\ answer' = [answer EXCEPT ![a] = None]
    /\ Abandon(a)
    /\ UNCHANGED <<role, mode, state, file, made, sensors>>

\* saveState: os.WriteFile truncates the file, and then writes it; its error
\* is ignored. Back to the loop, or to the alerts after a heartbeat.
Truncate(a) ==
    /\ pc[a] \in {"truncate", "retruncate"}
    /\ IF Writable(a)
       THEN /\ file' = [file EXCEPT ![StateFile(a)] = Empty]
            /\ Goto(a, IF pc[a] = "truncate" THEN "write" ELSE "rewrite")
       ELSE /\ Goto(a, IF pc[a] = "truncate" THEN "loop" ELSE "active")
            /\ UNCHANGED file
    /\ UNCHANGED <<role, mode, state, answer, made, managerVars>>

\* Bytes of another process that has written since the truncation may stick out.
Write(a) ==
    LET f == StateFile(a) IN
    /\ pc[a] \in {"write", "rewrite"}
    /\ \/ file' = [file EXCEPT ![f] = state[a]]
       \/ file[f] # Empty /\ file' = [file EXCEPT ![f] = Garbage]
    /\ Goto(a, IF pc[a] = "write" THEN "loop" ELSE "active")
    /\ UNCHANGED <<role, mode, state, answer, made, managerVars>>

\* Every tenth alert an ips-agent checks in, which changes nothing, and saves.
Heartbeat(a) ==
    /\ pc[a] = "active" /\ role[a].kind = "ips" /\ mode[a] = "managed"
    /\ Goto(a, "retruncate")
    /\ UNCHANGED <<role, mode, state, answer, file, made, managerVars>>

Crash(a) ==
    /\ "crash" \in Faults
    /\ pc[a] # "off"
    /\ Goto(a, "off")
    /\ state' = [state EXCEPT ![a] = None]
    /\ answer' = [answer EXCEPT ![a] = None]
    /\ Abandon(a)
    /\ UNCHANGED <<role, mode, file, made, sensors>>

-----------------------------------------------------------------------------
(* The manager. *)

Enter(h) ==
    LET free == {u \in Uuids : \A g \in Hashes : sensors[g] = None \/ sensors[g].uuid # u}
    IN  IF sensors[h] # None THEN UNCHANGED sensors
        ELSE \E u \in free :
                /\ \A v \in free : u <= v
                /\ sensors' = [sensors EXCEPT ![h] = [uuid |-> u, claimed |-> FALSE]]

AnswerOf(entry) == [uuid |-> entry.uuid,
                    status |-> IF entry.claimed THEN "claimed" ELSE "registered"]

AnswerRegister(a) ==
    /\ pc[a] = "register" /\ answer[a] = None
    /\ Enter(state[a].hash)
    /\ answer' = [answer EXCEPT ![a] = AnswerOf(sensors'[state[a].hash])]
    /\ UNCHANGED <<role, pc, mode, state, file, made, late>>

\* A hash and uuid that do not belong together are refused.
AnswerVerify(a) ==
    LET entry == sensors[state[a].hash] IN
    /\ pc[a] = "verify" /\ answer[a] = None
    /\ answer' = [answer EXCEPT ![a] =
                    IF entry # None /\ entry.uuid = state[a].uuid
                    THEN AnswerOf(entry) ELSE Refusal]
    /\ UNCHANGED <<role, pc, mode, state, file, made, managerVars>>

AnswerError(a) ==
    /\ "error" \in Faults
    /\ pc[a] \in {"register", "verify"} /\ answer[a] = None
    /\ answer' = [answer EXCEPT ![a] = Refusal]
    /\ UNCHANGED <<role, pc, mode, state, file, made, managerVars>>

LateRegister(h) ==
    /\ h \in late
    /\ late' = late \ {h}
    /\ Enter(h)
    /\ UNCHANGED <<role, agentVars, file, made>>

\* An administrator claims the sensor.
Claim(h) ==
    /\ sensors[h] # None
    /\ sensors' = [sensors EXCEPT ![h].claimed = TRUE]
    /\ UNCHANGED <<role, agentVars, file, made, late>>

-----------------------------------------------------------------------------

Init ==
    /\ role \in Deployments
    /\ pc = [a \in Agents |-> "off"]
    /\ mode = [a \in Agents |-> "managed"]
    /\ state = [a \in Agents |-> None]
    /\ answer = [a \in Agents |-> None]
    /\ file = [f \in Agents \cup {HostFile} |-> None]
    /\ made = 0
    /\ sensors = [h \in Hashes |-> None]
    /\ late = {}

AgentStep(a) ==
    \/ Loop(a) \/ Register(a) \/ Verify(a) \/ Truncate(a) \/ Write(a)

Next ==
    \/ \E a \in Agents :
          \/ Start(a) \/ AgentStep(a) \/ Heartbeat(a) \/ Timeout(a) \/ Crash(a)
          \/ AnswerRegister(a) \/ AnswerVerify(a) \/ AnswerError(a)
    \/ \E h \in Hashes : LateRegister(h) \/ Claim(h)

Spec == Init /\ [][Next]_vars

\* A started agent runs on; a manager that is asked again and again answers some
\* day, and some day its answer arrives in time.
FairSpec ==
    /\ Spec
    /\ \A a \in Agents :
          /\ WF_vars(AgentStep(a))
          /\ SF_vars(AnswerRegister(a) \/ AnswerVerify(a))
          /\ SF_vars((Register(a) \/ Verify(a)) /\ answer[a] # Refusal)

-----------------------------------------------------------------------------
(* Properties. *)

\* s names the identity that the manager keeps for its hash.
Paired(s) == s.uuid \in Uuids => sensors[s.hash] # None /\ sensors[s.hash].uuid = s.uuid

\* Whatever requests and answers are lost or late, and whoever crashes, an agent
\* and a state file hold a hash and a uuid that belong together at the manager:
\* verify, which sends both, is never refused for good.
IdentityPaired ==
    /\ \A a \in Agents : state[a] # None => Paired(state[a])
    /\ \A f \in Agents \cup {HostFile} : file[f] \in States => Paired(file[f])

\* An agent with a manager sends alerts or flows under an identity of the
\* manager's only once an administrator has claimed it (ips-agent.go:536, the
\* loop until claimed), also if it has the identity from its file.
ActiveIsApproved ==
    \A a \in Agents :
        pc[a] \in Serving /\ mode[a] = "managed" /\ state[a].uuid \in Uuids =>
            Claimed(state[a].hash)

\* An agent that has its state file to itself.
OwnsFile(a) == \A b \in Agents \ {a} : StateFile(b) # StateFile(a)

\* An agent that is at work and is not saving has its identity in its state file,
\* if that can be written and is its own: register, verify and the heartbeat, whose
\* errors of saving are ignored (ips-agent.go:545, 562, 569, 686), save what they learn.
ActiveIsSaved ==
    \A a \in Agents :
        pc[a] = "active" /\ state[a].uuid # None /\ OwnsFile(a) /\ Writable(a)
            => file[StateFile(a)] = state[a]

\* The same wherever the agent runs, as the mount that sensor makes for it says
\* (sensor:224, "persists IPS registration state (UUID, private key) and any other
\* agent state across container restarts"): a restart does not lose the identity.
IdentityPersists ==
    \A a \in Agents :
        pc[a] = "active" /\ state[a].uuid # None /\ OwnsFile(a) => file[StateFile(a)] = state[a]

(* Why IdentityPaired and ActiveIsApproved hold. *)

\* An answer is pending for a request only, and what it says is true.
AnswersTrue ==
    \A a \in Agents :
        /\ answer[a] # None => pc[a] \in {"register", "verify"}
        /\ answer[a] \in Answers =>
              LET entry == sensors[state[a].hash] IN
              /\ entry # None /\ entry.uuid = answer[a].uuid
              /\ answer[a].status = "claimed" => entry.claimed
              /\ pc[a] = "verify" => state[a].uuid = answer[a].uuid

\* A state with the status claimed and an identity of the manager's is claimed.
Truthful(s) == s.uuid \in Uuids /\ s.status = "claimed" => Claimed(s.hash)

StatesTruthful ==
    /\ \A a \in Agents : state[a] # None => Truthful(state[a])
    /\ \A f \in Agents \cup {HostFile} : file[f] \in States => Truthful(file[f])

\* Nobody leaves the loop with another status than claimed.
LoopGuards ==
    \A a \in Agents :
        pc[a] \in Serving /\ mode[a] # "standalone" => state[a].status = "claimed"

\* An agent that waits and is claimed goes to work, or is stopped.
ApprovedServes ==
    \A a \in Agents :
        pc[a] \in {"loop", "register", "verify"} /\ mode[a] = "managed" /\ Claimed(state[a].hash)
            ~> pc[a] \in Serving \cup {"off"}

\* What registration promises, of the identities at the manager.
Identities(H) == {sensors[h].uuid : h \in H}

Promise == INSTANCE Enrollment WITH
    Nobody <- None,
    known <- Identities({h \in Hashes : sensors[h] # None}),
    approved <- Identities({h \in Hashes : Claimed(h)}),
    serving <- [a \in Agents |->
                  IF pc[a] \in Serving /\ mode[a] = "managed" /\ state[a].uuid \in Uuids
                  THEN state[a].uuid ELSE None]

KeepsPromise == Promise!Spec
=============================================================================
