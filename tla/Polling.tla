------------------------------ MODULE Polling -------------------------------
(***************************************************************************)
(* A monitoring tool polls the snmp-agent, the ipmi-agent or the           *)
(* redfish-agent of a sandbox. What is on its way may be lost, repeated or *)
(* overtaken. The agents keep nothing of a request; the tool, which is not *)
(* part of this repository, asks on from what it was told.                 *)
(***************************************************************************)
EXTENDS Integers, Sequences, FiniteSets, FiniteSetsExt, SequencesExt, Snmp, Ipmi, Redfish

CONSTANTS
    Root,        \* what is walked
    Probes,      \* single PDUs
    MaxRepetitions, \* that a bulk walk asks for
    Chunk,       \* bytes of a record that are read at a time
    MaxInFlight, \* bound: packets on their way
    MaxAsked,    \* bound: requests of a poll
    MaxRetries   \* of a request, before the tool gives up

ASSUME PollingAssumption ==
    /\ Root \in Seq(Nat)
    /\ MaxRepetitions \in Nat \ {0}
    /\ Chunk \in 1..245 \* more makes a message longer than its length byte can say
    /\ MaxInFlight \in Nat \ {0}
    /\ MaxAsked \in Nat
    /\ MaxRetries \in Nat
    /\ Probes \subseteq
         [agent : {"snmp"}, tag : {"get", "set", "next", "bulk"}, vars : Seq(Seq(Nat)),
          version : Int, community : BOOLEAN, nonRepeaters : Int, maxRepetitions : Int]

\* A stranger crawls without credentials.
Kinds == {"probe", "walk", "bulkwalk", "sdr", "crawl", "stranger"}

VARIABLES
    kind,    \* what the tool does
    log,     \* the requests that were answered, with their answers
    request, \* the one that is not answered yet, or None
    retries, \* how often it was sent again
    net,     \* packets on their way
    status   \* "polling", "done" or "gaveUp"

None == [id |-> 0] \* requests are numbered from 1

vars == <<kind, log, request, retries, net, status>>

-----------------------------------------------------------------------------
(* The agents. *)

Pdu(tag, oid) ==
    [agent |-> "snmp", tag |-> tag, vars |-> <<oid>>, version |-> 1, community |-> TRUE,
     nonRepeaters |-> 0, maxRepetitions |-> MaxRepetitions]

Command(cmd) == [agent |-> "ipmi", cmd |-> cmd]
Get(method, path) == [agent |-> "redfish", method |-> method, path |-> path,
                      auth |-> kind # "stranger"]

Answers(ask) == ask.agent # "snmp" \/ Accepted(ask)

AnswerTo(ask) ==
    CASE ask.agent = "snmp" -> HandlePdu(ask)
      [] ask.agent = "ipmi" -> HandlePacket(ask)
      [] ask.agent = "redfish" -> Serve(ask)

-----------------------------------------------------------------------------
(* The tools. *)

\* A walk goes on from the last name until it leaves the subtree.
Bindings == FlattenSeq([i \in 1..Len(log) |-> log[i].answer])
InTree(b) == b.value = "value" /\ IsPrefix(Root, b.name)
WalkOn(tag) ==
    IF log = <<>> THEN {Pdu(tag, Root)}
    ELSE IF InTree(Last(Bindings)) THEN {Pdu(tag, Last(Bindings).name)} ELSE {}

\* The tool opens a session and reads the header of each record, its rest in chunks
\* and its sensor.
Opening == <<"capabilities", "challenge", "activate", "privilege", "guid", "repository", "reserve">>
Sdr(rid, off, cnt) == [agent |-> "ipmi", cmd |-> "sdr", rid |-> rid, off |-> off, cnt |-> cnt]
Reading(sensor) == [agent |-> "ipmi", cmd |-> "reading", sensor |-> sensor]
Headers == {i \in 1..Len(log) : log[i].ask.cmd = "sdr" /\ log[i].ask.off = 0}
DataOf(i) == Tail(log[i].answer.data)
Record == FlattenSeq([i \in 1..(Len(log) - Max(Headers) + 1) |-> DataOf(Max(Headers) + i - 1)])

ReadOn ==
    LET last == log[Len(log)]
        size == Header + Record[Header] IN
    IF Len(log) < Len(Opening) THEN {Command(Opening[Len(log) + 1])}
    ELSE IF Len(log) = Len(Opening) THEN {Sdr(0, 0, Header)}
    ELSE CASE last.ask.cmd = "sdr" ->
                 {IF Len(Record) < size
                  THEN Sdr(last.ask.rid, Len(Record), Min({Chunk, size - Len(Record)}))
                  ELSE Reading(Record[Header + 3])}
           [] last.ask.cmd = "reading" ->
                 LET read == log[Len(log) - 1].answer.data[1]
                 IN {IF read = LastRecord THEN Command("close") ELSE Sdr(read, 0, Header)}
           [] OTHER -> {}

\* The crawler follows every link and calls every action once.
Asked == {log[i].ask : i \in 1..Len(log)}
Linked(f) == UNION {log[i].answer.resource[f] : i \in 1..Len(log)}
CrawlOn ==
    LET ways == {Get("GET", p) : p \in {<<>>} \cup Linked("links")}
                    \cup {Get("POST", p) : p \in Linked("targets")}
    IN IF ways \subseteq Asked THEN {} ELSE {CHOOSE w \in ways : w \notin Asked}

AskOn ==
    CASE kind = "probe" -> IF log = <<>> THEN Probes ELSE {}
      [] kind = "walk" -> WalkOn("next")
      [] kind = "bulkwalk" -> WalkOn("bulk")
      [] kind = "sdr" -> ReadOn
      [] kind \in {"crawl", "stranger"} -> CrawlOn

-----------------------------------------------------------------------------
(* The network and the exchange. *)

\* A packet more; when there is no room, another is lost.
Sent(packets, p) ==
    IF Cardinality(packets \cup {p}) <= MaxInFlight THEN {packets \cup {p}}
    ELSE {(packets \ {q}) \cup {p} : q \in packets}

IsRequest(p) == "ask" \in DOMAIN p

Init ==
    /\ kind \in Kinds
    /\ log = <<>>
    /\ request = None
    /\ retries = 0
    /\ net = {}
    /\ status = "polling"

Ask ==
    /\ status = "polling" /\ request = None
    /\ Len(log) < MaxAsked
    /\ \E a \in AskOn : request' = [id |-> Len(log) + 1, ask |-> a]
    /\ net' \in Sent(net, request')
    /\ UNCHANGED <<kind, log, retries, status>>

Retry ==
    /\ status = "polling" /\ request # None
    /\ retries < MaxRetries
    /\ retries' = retries + 1
    /\ net' \in Sent(net, request)
    /\ UNCHANGED <<kind, log, request, status>>

\* A response without the number of its request: for a mutant.
NoResponseId(p) == 0
\* The number of what was asked last: for a mutant.
LatestId(p) == IF request = None THEN p.id ELSE request.id
ResponseId(p) == p.id

\* The agent takes a request and answers it under the request's number. The network
\* may have repeated it.
Respond(p) ==
    /\ IsRequest(p)
    /\ \E packets \in {net, net \ {p}} :
          net' \in IF Answers(p.ask)
                   THEN Sent(packets, [id |-> ResponseId(p), answer |-> AnswerTo(p.ask)])
                   ELSE {packets}
    /\ UNCHANGED <<kind, log, request, retries, status>>

Lose(p) ==
    /\ net' = net \ {p}
    /\ UNCHANGED <<kind, log, request, retries, status>>

\* An answer that nobody waits for is dropped.
Take(p) ==
    /\ ~IsRequest(p) /\ request # None /\ p.id = request.id
    /\ net' \in {net, net \ {p}}
    /\ log' = Append(log, [ask |-> request.ask, answer |-> p.answer])
    /\ request' = None
    /\ retries' = 0
    /\ UNCHANGED <<kind, status>>

GiveUp ==
    /\ status = "polling" /\ request # None
    /\ retries = MaxRetries
    /\ status' = "gaveUp"
    /\ request' = None
    /\ UNCHANGED <<kind, log, retries, net>>

Finish ==
    /\ status = "polling" /\ request = None
    /\ AskOn = {}
    /\ status' = "done"
    /\ UNCHANGED <<kind, log, request, retries, net>>

Tool == Ask \/ Retry \/ GiveUp \/ Finish
Next == Tool \/ \E p \in net : Respond(p) \/ Lose(p) \/ Take(p)

Spec == Init /\ [][Next]_vars
\* The tool's own clock goes on.
FairSpec == Spec /\ WF_vars(Tool)

-----------------------------------------------------------------------------
(* Properties. *)

\* The variables have their types, an answered request is answered in its turn, and no
\* packet has a number that was not asked yet.
TypeOK ==
    /\ kind \in Kinds
    /\ status \in {"polling", "done", "gaveUp"}
    /\ retries \in 0..MaxRetries
    /\ request # None => request.id = Len(log) + 1
    /\ Cardinality(net) <= MaxInFlight
    /\ \A p \in net : p.id \in 1..(Len(log) + 1)

\* Every request is answered with what the agent says to this request and to no other one,
\* though requests and answers are repeated, come late and overtake each other. The
\* agent keeps nothing but the number that it gives back.
AnswersMatch ==
    \A i \in 1..Len(log) :
        Answers(log[i].ask) /\ log[i].answer = AnswerTo(log[i].ask)

\* The order of RFC 3416, in which a walk reads.
Before(a, b) ==
    \/ IsStrictPrefix(a, b)
    \/ \E k \in DOMAIN a \cap DOMAIN b :
          a[k] < b[k] /\ SubSeq(a, 1, k - 1) = SubSeq(b, 1, k - 1)

\* The configured identifiers after one, in their order.
LaterThan(oid) ==
    LET later == {o \in ToSet(Configured) : Before(oid, o)}
    IN [k \in 1..Cardinality(later) |->
            CHOOSE o \in later : Cardinality({p \in later : Before(p, o)}) = k - 1]

\* A walk reads the identifiers of its subtree in order and each once, and all of them
\* when it comes to its end, whatever order the configuration has them in, whatever the
\* network repeats or delays, with getNextOID as with a bulk request.
ReadsInOrder ==
    kind \in {"walk", "bulkwalk"} =>
        LET bindings == Bindings
            found == {i \in 1..Len(bindings) : InTree(bindings[i])}
            read == {bindings[i].name : i \in found}
            tree == {o \in ToSet(Configured) : IsStrictPrefix(Root, o)}
        IN /\ \A i, j \in found : i < j => Before(bindings[i].name, bindings[j].name)
           /\ read \subseteq tree
           /\ \A o \in tree \ read : status # "done" /\ \A n \in read : Before(n, o)

\* The bindings for one variable are the next ones in order, up to the end of the table.
Following(oid, n) ==
    LET later == LaterThan(oid)
        m == Min({n, Len(later)})
    IN [k \in 1..m |-> Binding(later[k], "value")]
         \o (IF m = n THEN <<>>
             ELSE <<Binding(IF m = 0 THEN oid ELSE later[m], "endOfMibView")>>)

\* What handlePacket answers is what the set of configured identifiers says: the value or
\* the lack of it for GET, the successor for GETNEXT, and for GETBULK one successor
\* of each of the first variables and up to maxRepetitions of each other one.
AnswersTrue ==
    kind = "probe" => \A i \in 1..Len(log) :
        LET pdu == log[i].ask
            Has(oid) == oid \in ToSet(Configured)
            Of(j) == CASE pdu.tag \in {"get", "set"} ->
                            <<Binding(pdu.vars[j],
                                IF Has(pdu.vars[j]) THEN "value"
                                ELSE IF pdu.tag = "get" THEN "noSuchObject" ELSE "endOfMibView")>>
                       [] pdu.tag = "next" \/ (pdu.tag = "bulk" /\ j <= pdu.nonRepeaters) ->
                            Following(pdu.vars[j], 1)
                       [] OTHER -> Following(pdu.vars[j], Max({0, pdu.maxRepetitions}))
        IN /\ pdu.community /\ pdu.version <= 1
           /\ log[i].answer = FlattenSeq([j \in 1..Len(pdu.vars) |-> Of(j)])

\* What is read of the sensor records in chunks is the repository, byte by byte and from
\* its first record to its last, as many as were announced, and each sensor's reading is
\* one for the unit of its record: degrees or RPM.
RecordsWhole ==
    kind = "sdr" =>
        LET Asks(i, cmd) == log[i].ask.cmd = cmd
            read == FlattenSeq([i \in 1..Len(log) |->
                        IF Asks(i, "sdr") THEN DataOf(i) ELSE <<>>])
            readings == FlattenSeq([i \in 1..Len(log) |->
                        IF Asks(i, "reading") THEN log[i].answer.data ELSE <<>>])
        IN /\ IsPrefix(read, FlattenSeq(SdrRepo))
           /\ IsPrefix(readings, [i \in 1..Len(Sensors) |->
                                IF Sensors[i].unit = 18 THEN 100 ELSE 38])
           /\ status = "done" =>
                 /\ read = FlattenSeq(SdrRepo)
                 /\ \A i \in 1..Len(log) :
                       Asks(i, "repository") => log[i].answer.data = <<Len(readings)>>

\* A link is followed to the resource whose @odata.id it is (redfish-agent.go:505 and
\* 514, the manager and its interfaces name the same identifier).
LinksLead ==
    kind = "crawl" => \A i \in 1..Len(log) :
        log[i].ask.method = "GET" => log[i].answer.resource.id = log[i].ask.path

\* No link and no action that the redfish-agent advertises leads nowhere. A link is
\* followed to the resource whose @odata.id it is, but for the link of manager 1 to its
\* interfaces (redfish-agent.go:505), where the manager itself is served (112), since
\* the interfaces are registered below Managers/Self only (114). So a crawl finds every
\* resource except the memory, which nothing links to, and the interfaces; without
\* credentials there is nothing beyond the root.
LinksTrue ==
    /\ kind = "stranger" => \A i \in 1..Len(log) :
          (log[i].answer.code = 200) = (log[i].ask.path = <<>>)
    /\ kind = "crawl" =>
        LET found == {log[i].answer : i \in 1..Len(log)}
            resources == {a.resource : a \in {b \in found : b.code = 200}}
        IN /\ \A i \in 1..Len(log) :
                 log[i].answer.code = IF log[i].ask.method = "POST" THEN 204 ELSE 200
           /\ \A i \in 1..Len(log) : log[i].ask.method = "GET" =>
                 log[i].answer.resource.id =
                     IF log[i].ask.path = Ethernet THEN Manager1 ELSE log[i].ask.path
           /\ status = "done" =>
                 {r.id : r \in resources} = {p[1] : p \in Exact} \
                     {Memory1, ManagerSelf, EthernetSelf, Reset("1"), Reset("Self")}

\* Every poll comes to an end: there is no cycle of names, records or links.
PollEnds == <>(status # "polling")
=============================================================================
