---------------------------- MODULE ProxyReload -----------------------------
(***************************************************************************)
(* The configuration of the proxy-agent is edited and the agent is sent    *)
(* SIGHUP to read it again: on the host's file system, where exec -d runs  *)
(* it, or under tini in a sandbox, whose files are copies made when it     *)
(* starts.                                                                 *)
(***************************************************************************)
EXTENDS Naturals

CONSTANTS
    Places,   \* where the agent may run
    MaxEdits, \* bound: edits of the configuration
    MaxOrphans, \* bound: processes that are left to tini
    None      \* a file that cannot be parsed; the defaults of the command line

ASSUME ReloadAssumption ==
    /\ Places \subseteq {"host", "sandbox"} /\ Places # {}
    /\ MaxEdits \in Nat /\ MaxOrphans \in Nat
    /\ None \notin 0..MaxEdits

Configs == 0..MaxEdits \cup {None}

VARIABLES
    place,    \* where the agent runs
    file,     \* the configuration on the host, None while it is being written
    staged,   \* its copy in the sandbox
    edits,    \* how often it was edited
    operator, \* "idle", "editing" or about to "signal"
    unshare,  \* the process of the pid file is there
    tini,     \* "staging", "start", "armed", "forked", "waiting", "exited"; "none" on the host
    child,    \* the agent: "none", "forked", "default", "notified" or "dead"
    orphans,  \* how many processes were left to tini
    zombies,  \* those of them that have ended and were not waited for
    toTini,   \* a SIGHUP is pending for tini
    toChild,  \* a SIGHUP is pending for its child
    sigs,     \* signals in the channel of capacity one
    loader,   \* loadConfig: "idle", about to "read" or to "store"
    got,      \* what it read
    config,   \* the configuration that all goroutines share
    main,     \* "loading", "claiming", "starting" its listeners or "posting"
    current,  \* the one that main works with
    taken,    \* that of the entry in /etc/hosts and of the HTTP client
    endpoint  \* that of the address to which a listener posts

vars == <<place, file, staged, edits, operator, unshare, tini, child, orphans, zombies,
          toTini, toChild, sigs, loader, got, config, main, current, taken, endpoint>>
files == <<place, file, staged, edits, operator>>
family == <<orphans, zombies>>
processes == <<unshare, tini, child, toTini, toChild, family>>
copies == <<main, current, taken, endpoint>>
agent == <<sigs, loader, got, config, copies>>

\* A goroutine or main itself runs loadConfig when it starts.
Init ==
    /\ place \in Places
    /\ file = 0 /\ staged = None /\ edits = 0 /\ operator = "idle"
    /\ unshare = (place = "sandbox")
    /\ tini = IF place = "sandbox" THEN "staging" ELSE "none"
    /\ child = IF place = "sandbox" THEN "none" ELSE "default"
    /\ toTini = FALSE /\ toChild = FALSE
    /\ orphans = 0 /\ zombies = 0
    /\ sigs = 0 /\ loader = "read" /\ got = None /\ config = None
    /\ main = "loading" /\ current = None /\ taken = None /\ endpoint = None

-----------------------------------------------------------------------------
(* The operator. *)

BeginEdit ==
    /\ operator = "idle" /\ edits < MaxEdits
    /\ operator' = "editing"
    /\ file' = None
    /\ UNCHANGED <<place, staged, edits, processes, agent>>

EndEdit ==
    /\ operator = "editing"
    /\ operator' = "signal"
    /\ edits' = edits + 1
    /\ file' = edits'
    /\ UNCHANGED <<place, staged, processes, agent>>

\* kill -HUP of the pid in the pid file, of tini or of the agent. The first
\* dies of it and leaves the rest alone.
Signal ==
    /\ operator = "signal"
    /\ operator' = "idle"
    /\ \/ /\ unshare
          /\ unshare' = FALSE
          /\ UNCHANGED <<toTini, toChild>>
       \/ /\ tini \notin {"none", "staging", "exited"}
          /\ toTini' = TRUE
          /\ UNCHANGED <<unshare, toChild>>
       \/ /\ child # "none"
          /\ toChild' = (toChild \/ child # "dead")
          /\ UNCHANGED <<unshare, toTini>>
    /\ UNCHANGED <<place, file, staged, edits, tini, child, family, agent>>

-----------------------------------------------------------------------------
(* The sandbox and tini. *)

\* The process of the pid file copies the files before it becomes the unshare.
Stage ==
    /\ tini = "staging" /\ unshare
    /\ tini' = "start"
    /\ staged' = file
    /\ UNCHANGED <<place, file, edits, operator, unshare, child, toTini, toChild, family, agent>>

Arm ==
    /\ tini = "start"
    /\ tini' = "armed"
    /\ UNCHANGED <<unshare, child, toTini, toChild, family, files, agent>>

Fork ==
    /\ tini = "armed"
    /\ tini' = "forked"
    /\ child' = "forked"
    /\ UNCHANGED <<unshare, toTini, toChild, family, files, agent>>

\* perror and return 1.
ForkFails ==
    /\ tini = "armed"
    /\ tini' = "exited"
    /\ UNCHANGED <<unshare, child, toTini, toChild, family, files, agent>>

\* child_pid is set.
Wait ==
    /\ tini = "forked"
    /\ tini' = "waiting"
    /\ UNCHANGED <<unshare, child, toTini, toChild, family, files, agent>>

\* The child's number stays with the stack of main: for a mutant.
NeverKnown == FALSE
ChildKnown == tini = "waiting"

\* forward_signal, which has no child to forward to before Wait. As the init of its
\* namespace tini is not ended by a signal that it has no handler for, and a wait that is
\* interrupted (EINTR) goes on.
Forward ==
    /\ toTini
    /\ toTini' = FALSE
    /\ toChild' = (toChild \/ (ChildKnown /\ child # "dead"))
    /\ UNCHANGED <<unshare, tini, child, family, files, agent>>

\* A process whose parent has ended, a command run in the sandbox for instance, becomes a
\* child of tini as the init of its namespace, and ends.
OrphanEnds ==
    /\ tini \notin {"none", "staging", "exited"}
    /\ orphans < MaxOrphans
    /\ orphans' = orphans + 1
    /\ zombies' = zombies + 1
    /\ UNCHANGED <<unshare, tini, child, toTini, toChild, files, agent>>

\* What wait may return. It does not fail, as tini stays with a child until its end.
Ended == {p \in {"child", "orphan"} : IF p = "child" THEN child = "dead" ELSE zombies > 0}

\* Whatever has ended is taken for the agent: for a mutant.
AnyChild(p) == TRUE
IsChild(p) == p = "child"

Reap ==
    /\ tini = "waiting"
    /\ \E p \in Ended :
          /\ tini' = IF IsChild(p) THEN "exited" ELSE tini
          /\ zombies' = IF p = "orphan" THEN zombies - 1 ELSE zombies
    /\ UNCHANGED <<unshare, child, orphans, toTini, toChild, files, agent>>

-----------------------------------------------------------------------------
(* The agent. *)

\* SIG_DFL and execvp.
Exec ==
    /\ child = "forked"
    /\ child' = "default"
    /\ UNCHANGED <<unshare, tini, toTini, toChild, family, files, agent>>

\* return 127.
ExecFails ==
    /\ child = "forked"
    /\ child' = "dead"
    /\ UNCHANGED <<unshare, tini, toTini, toChild, family, files, agent>>

\* A channel without an end, and one that nothing waits in while the configuration is
\* being read: for mutants.
QueuedUnbounded == sigs + 1
QueuedUnbuffered == IF loader = "idle" THEN 1 ELSE sigs
Queued == 1

\* Before Exec the handler that tini left swallows the signal; before signal.Notify it
\* ends the agent; then it goes to the channel, which holds one.
Deliver ==
    /\ toChild
    /\ toChild' = FALSE
    /\ child' = IF child = "default" THEN "dead" ELSE child
    /\ sigs' = IF child = "notified" THEN Queued ELSE sigs
    /\ UNCHANGED <<unshare, tini, toTini, family, files, loader, got, config, copies>>

Running == child \in {"default", "notified"}

Read ==
    /\ Running /\ loader = "read"
    /\ loader' = "store"
    /\ got' = IF place = "host" THEN file ELSE staged
    /\ UNCHANGED <<sigs, config, copies, files, processes>>

Store ==
    /\ Running /\ loader = "store"
    /\ loader' = "idle"
    /\ config' = got
    /\ UNCHANGED <<sigs, got, copies, files, processes>>

\* main goes on to signal.Notify after its own loadConfig.
Notify ==
    /\ child = "default" /\ loader = "idle"
    /\ child' = "notified"
    /\ UNCHANGED <<unshare, tini, toTini, toChild, family, files, agent>>

Reload ==
    /\ child = "notified" /\ loader = "idle" /\ sigs > 0
    /\ sigs' = sigs - 1
    /\ loader' = "read"
    /\ UNCHANGED <<got, config, copies, files, processes>>

\* main takes the configuration for a round of the claim loop or a heartbeat, and once
\* before them.
Round ==
    /\ child = "notified"
    /\ current' = config
    /\ main' = IF main = "loading" THEN "claiming" ELSE main
    /\ UNCHANGED <<sigs, loader, got, config, taken, endpoint, files, processes>>

\* The agent is claimed. The entry in /etc/hosts and the HTTP client are made of the
\* configuration of the last round, and never again.
Claimed ==
    /\ child = "notified" /\ main = "claiming"
    /\ main' = "starting"
    /\ taken' = current
    /\ UNCHANGED <<sigs, loader, got, config, current, endpoint, files, processes>>

\* A listener makes its endpoint of the configuration that it finds, once, too.
Listen ==
    /\ child = "notified" /\ main = "starting"
    /\ main' = "posting"
    /\ endpoint' = config
    /\ UNCHANGED <<sigs, loader, got, config, current, taken, files, processes>>

-----------------------------------------------------------------------------
Operator == BeginEdit \/ EndEdit \/ Signal
Tini == Stage \/ Arm \/ Fork \/ ForkFails \/ Wait \/ Reap
Child == Exec \/ ExecFails \/ Notify
Loader == Reload \/ Read \/ Store
Main == Round \/ Claimed \/ Listen
Next == Operator \/ Tini \/ Forward \/ OrphanEnds \/ Child \/ Deliver \/ Loader \/ Main

Spec == Init /\ [][Next]_vars

\* An edit is finished and followed by its signal, the kernel delivers, the processes
\* and goroutines are scheduled.
FairSpec ==
    /\ Spec
    /\ WF_vars(EndEdit \/ Signal) /\ WF_vars(Tini) /\ WF_vars(Child)
    /\ WF_vars(Forward) /\ WF_vars(Deliver) /\ WF_vars(Loader) /\ WF_vars(Round)

-----------------------------------------------------------------------------
(* Properties. *)

\* The variables have their types, there is a child once tini has forked it, and main gets
\* on only in an agent that has asked for the signal.
TypeOK ==
    /\ place \in Places
    /\ {file, staged, got, config, current, taken, endpoint} \subseteq Configs
    /\ edits \in 0..MaxEdits
    /\ operator \in {"idle", "editing", "signal"}
    /\ {unshare, toTini, toChild} \subseteq BOOLEAN
    /\ tini \in {"none", "staging", "start", "armed", "forked", "waiting", "exited"}
    /\ child \in {"none", "forked", "default", "notified", "dead"}
    /\ tini \in {"staging", "start", "armed"} => child = "none"
    /\ tini \in {"forked", "waiting"} => child # "none"
    /\ orphans \in 0..MaxOrphans /\ zombies \in 0..orphans
    /\ main \in {"loading", "claiming", "starting", "posting"}
    /\ main # "loading" => child = "notified"
    /\ sigs \in 0..1
    /\ loader \in {"idle", "read", "store"}

\* Once the last edit was signalled and nothing is on its way, an agent on the host that
\* lived to ask for the signal has the file's configuration: a signal that comes while
\* the file is read, or while another waits in the channel of one, is not lost, and a
\* file that was read half written is read again.
NoLostUpdate ==
    place = "host" /\ child = "notified" /\ operator = "idle"
    /\ ~toChild /\ sigs = 0 /\ loader = "idle"
        => config = file

\* tini, and with it the sandbox, ends after its child, or when it has not got one: neither
\* a signal that interrupts its wait nor the end of another process ends it before.
TiniOutlivesChild == tini = "exited" => child \in {"dead", "none"}

\* A SIGHUP that tini gets while it waits for an agent with a handler makes the agent
\* read its configuration again.
SignalReaches ==
    toTini /\ tini = "waiting" /\ child = "notified" ~> loader = "read"

\* An edit of the configuration of an agent that runs takes effect once it is signalled:
\* main makes its next rounds with it.
ReloadTakesEffect ==
    \A c \in 1..MaxEdits :
        operator = "signal" /\ file = c /\ child = "notified" ~> current = c \/ file # c

\* It does on the host.
HostReloadTakesEffect == place = "host" => ReloadTakesEffect

\* An edit that is signalled to an agent that posts takes effect on where its listeners
\* post to.
EndpointFollows ==
    \A c \in 1..MaxEdits :
        operator = "signal" /\ file = c /\ main = "posting" ~> endpoint = c \/ file # c
=============================================================================
