------------------------------ MODULE Pipeline ------------------------------
(***************************************************************************)
(* Flows on their way from exporters, the telemetry-agents and whoever     *)
(* else sends NetFlow v5 and v9, IPFIX or sFlow, over UDP to the           *)
(* listeners of the proxy-agent, which posts each as one JSON document.    *)
(***************************************************************************)
EXTENDS Naturals, Sequences, FiniteSets

CONSTANTS
    Exporters,
    Protocol,    \* of each exporter
    Source,      \* the source id (v9) or observation domain (IPFIX) it writes
    Template,    \* the number of its template
    Layout,      \* the field types of its records in their order; a device that
                 \* comes to send another layout is two exporters of one name
    Records,     \* records in a datagram
    MaxInFlight, \* bound: datagrams on their way
    None

Fields == {"lan", "wan", "bytes"}  \* stand for those the proxy knows
FieldTypes == Fields \cup {"other"}

Protocols == {"v5", "v9", "ipfix", "sflow"}
Templated(e) == Protocol[e] \in {"v9", "ipfix"}

ASSUME PipelineAssumption ==
    /\ Protocol \in [Exporters -> Protocols]
    /\ Layout \in [Exporters -> Seq(FieldTypes)]
    /\ Records \in Nat \ {0}
    /\ MaxInFlight \in Nat

\* The records of v5, and the frame headers in the samples of sFlow, have one
\* layout for all.
FixedLayout(p) == IF p = "v5" THEN <<"lan", "wan", "other", "bytes">>
                  ELSE <<"bytes", "lan", "wan">>

ASSUME LayoutAssumption ==
    \A e \in Exporters : ~Templated(e) => Layout[e] = FixedLayout(Protocol[e])

\* Nobody announces records of no bytes: the proxy would never finish reading them
\* (proxy-agent.go:355 and 413, "for pReader.Len() >= tSize").
ASSUME SizeAssumption == \A e \in Exporters : Layout[e] # <<>>

Datagrams == [from : Exporters, body : {"template", "data"}]

Listeners == {2055, 6343}
Listener(e) == IF Protocol[e] = "sflow" THEN 6343 ELSE 2055

\* What a listener has still to post: documents of an exporter's flows.
Documents == [Fields -> {None} \cup (Exporters \X Nat \X FieldTypes)]
Posts == [from : Exporters, todo : Seq(Documents) \ {<<>>}]

ASSUME NoneAssumption == None \notin Seq(FieldTypes) \cup Posts

VARIABLES
    pc,        \* of an exporter: about to dial, at the top of its loop, or about
               \* to write data
    stale,     \* its last template is older than 30 s
    net,       \* datagrams on their way
    templates, \* the layout the proxy has for each name
    busy       \* what a listener is posting: an exporter's flows

vars == <<pc, stale, net, templates, busy>>

-----------------------------------------------------------------------------
(* Encoding and decoding. *)

\* The value that exporter e reports for field f of its k-th flow.
Value(e, k, f) == <<e, k, f>>

\* The records of a datagram, value by value.
Stream(e) ==
    LET n == Len(Layout[e]) IN
    [i \in 1..(Records * n) |->
        Value(e, ((i - 1) \div n) + 1, Layout[e][((i - 1) % n) + 1])]

Has(layout, f) == \E j \in 1..Len(layout) : layout[j] = f

LastOf(layout, f) ==
    CHOOSE j \in 1..Len(layout) :
        layout[j] = f /\ \A i \in 1..Len(layout) : layout[i] = f => i <= j

\* A field the layout has not keeps its zero value; of one that it has twice, the
\* last counts. What is left behind the last whole record is padding.
Decode(stream, layout) ==
    LET n == Len(layout) IN
    [k \in 1..(Len(stream) \div n) |->
        [f \in Fields |->
            IF Has(layout, f) THEN stream[(k - 1) * n + LastOf(layout, f)] ELSE None]]

\* Mutant of Name: the templates of both protocols in one table.
NameWithoutProtocol(e) == <<"v9", Source[e], Template[e]>>

\* v9Templates and ipfixTemplates: by source and number, not by address.
Name(e) == <<Protocol[e], Source[e], Template[e]>>

Names == {Name(e) : e \in Exporters}

-----------------------------------------------------------------------------
(* The exporter. *)

\* When no more datagrams fit, one of the others is lost.
Send(e, body) ==
    LET d == [from |-> e, body |-> body] IN
    net' \in {N \in SUBSET (net \cup {d}) :
                d \in N /\ Cardinality(N) = IF Cardinality(net \cup {d}) > MaxInFlight
                                             THEN MaxInFlight ELSE Cardinality(net \cup {d})}

Dial(e) ==
    /\ pc[e] = "dial"
    /\ pc' = [pc EXCEPT ![e] = "top"]
    /\ stale' = [stale EXCEPT ![e] = TRUE]
    /\ UNCHANGED <<net, templates, busy>>

\* Mutant of Age: a template is sent once in a connection.
AgeNever(e) == UNCHANGED vars

\* Thirty seconds have passed since the last template.
Age(e) ==
    /\ stale' = [stale EXCEPT ![e] = TRUE]
    /\ UNCHANGED <<pc, net, templates, busy>>

SendTemplate(e) ==
    /\ pc[e] = "top" /\ Templated(e) /\ stale[e]
    /\ Send(e, "template")
    /\ stale' = [stale EXCEPT ![e] = FALSE]
    /\ pc' = [pc EXCEPT ![e] = "data"]
    /\ UNCHANGED <<templates, busy>>

AtData(e) == pc[e] = "data" \/ (pc[e] = "top" /\ ~(Templated(e) /\ stale[e]))

SendData(e) ==
    /\ AtData(e)
    /\ Send(e, "data")
    /\ pc' = [pc EXCEPT ![e] = "top"]
    /\ UNCHANGED <<stale, templates, busy>>

\* conn.Write of a template or of data reports an error, an unreachable port for
\* instance; the connection is given up.
WriteFails(e) ==
    /\ pc[e] # "dial"
    /\ pc' = [pc EXCEPT ![e] = "dial"]
    /\ UNCHANGED <<stale, net, templates, busy>>

-----------------------------------------------------------------------------
(* The network. *)

Lose(d) ==
    /\ d \in net
    /\ net' = net \ {d}
    /\ UNCHANGED <<pc, stale, templates, busy>>

-----------------------------------------------------------------------------
(* The proxy. *)

\* startUDPListener reads a datagram, which may come a second time, and
\* handleNetFlowV5, handleNetFlowV9, handleIPFIX or handleSFlow decodes it. Data
\* whose template is not known, or is longer than they are, is dropped.
Receive(d) ==
    LET e == d.from
        l == Listener(e)
        layout == IF Templated(e) THEN templates[Name(e)] ELSE FixedLayout(Protocol[e])
        decoded == IF layout = None THEN <<>> ELSE Decode(Stream(e), layout)
    IN
    /\ d \in net /\ busy[l] = None
    /\ net' \in {net, net \ {d}}
    /\ \/ /\ d.body = "template"
          /\ templates' = [templates EXCEPT ![Name(e)] = Layout[e]]
          /\ UNCHANGED busy
       \/ /\ d.body = "data"
          /\ busy' = IF decoded = <<>> THEN busy
                     ELSE [busy EXCEPT ![l] = [from |-> e, todo |-> decoded]]
          /\ UNCHANGED templates
    /\ UNCHANGED <<pc, stale>>

\* Mutant of Post: the listener goes on to post what is not there.
PostOn(l) ==
    /\ busy[l] # None
    /\ busy' = [busy EXCEPT ![l].todo = Tail(busy[l].todo)]
    /\ UNCHANGED <<pc, stale, net, templates>>

\* sendPayload, whose errors are ignored; the listener reads nothing meanwhile.
Post(l) ==
    /\ busy[l] # None
    /\ \/ Len(busy[l].todo) = 1 /\ busy' = [busy EXCEPT ![l] = None]
       \/ Len(busy[l].todo) > 1 /\ busy' = [busy EXCEPT ![l].todo = Tail(busy[l].todo)]
    /\ UNCHANGED <<pc, stale, net, templates>>

\* The proxy starts again and knows no template.
Restart ==
    /\ templates' = [n \in Names |-> None]
    /\ busy' = [l \in Listeners |-> None]
    /\ UNCHANGED <<pc, stale, net>>

-----------------------------------------------------------------------------

Init ==
    /\ pc = [e \in Exporters |-> "dial"]
    /\ stale = [e \in Exporters |-> TRUE]
    /\ net = {}
    /\ templates = [n \in Names |-> None]
    /\ busy = [l \in Listeners |-> None]

Next ==
    \/ \E e \in Exporters :
          Dial(e) \/ Age(e) \/ SendTemplate(e) \/ SendData(e) \/ WriteFails(e)
    \/ \E d \in Datagrams : Lose(d) \/ Receive(d)
    \/ \E l \in Listeners : Post(l)
    \/ Restart

Spec == Init /\ [][Next]_vars

ExporterStep(e) == Dial(e) \/ SendTemplate(e) \/ SendData(e)

\* An exporter goes on, and time with it, and so does a listener. Of datagrams that
\* are sent again and again, some arrive.
FairSpec ==
    /\ Spec
    /\ \A e \in Exporters : WF_vars(ExporterStep(e)) /\ WF_vars(Age(e))
    /\ \A d \in Datagrams : []<>(d \in net) => []<><<Receive(d)>>_vars
    /\ \A l \in Listeners : WF_vars(Post(l))

-----------------------------------------------------------------------------
(* Properties. *)

\* The flows of a datagram as its exporter meant them.
Flows(e) ==
    [k \in 1..Records |->
        [f \in Fields |-> IF Has(Layout[e], f) THEN Value(e, k, f) ELSE None]]

TypeOK ==
    /\ pc \in [Exporters -> {"dial", "top", "data"}]
    /\ stale \in [Exporters -> BOOLEAN]
    /\ net \subseteq Datagrams
    /\ templates \in [Names -> {None} \cup {Layout[e] : e \in Exporters}]
    /\ busy \in [Listeners -> {None} \cup Posts]

\* Whoever exports with the protocol, the source and the template number of e means the
\* same layout, as all telemetry-agents do. The proxy has no sender in its tables
\* (proxy-agent.go:348, 352, 406, 410), so that the records of the others are decoded
\* with what came last.
Unambiguous(e) ==
    \A d \in Exporters :
        /\ Templated(e)
        /\ Protocol[d] = Protocol[e] /\ Source[d] = Source[e] /\ Template[d] = Template[e]
        => Layout[d] = Layout[e]

\* In whatever order templates and data arrive, and whatever the proxy has lost, what
\* it posts of a datagram is what an unambiguous exporter meant, complete and in order,
\* although others mix up their templates on the same listener at the same time.
Faithful ==
    \A l \in Listeners :
        busy[l] # None /\ Unambiguous(busy[l].from) =>
            \E k \in 1..Records : busy[l].todo = SubSeq(Flows(busy[l].from), k, Records)

\* Flows of an unambiguous exporter arrive again and again, unless the proxy is restarted or the
\* exporter's writes fail for ever:
\* a template that is lost, overtaken by its data or forgotten is sent again
\* (telemetry-agent.go:296, 30 s, and 293, on reconnect).
FlowsArrive ==
    \A e \in Exporters : Unambiguous(e) =>
        \/ []<>(\E l \in Listeners : busy[l] # None /\ busy[l].from = e)
        \/ []<><<Restart>>_vars
        \/ []<><<WriteFails(e)>>_vars
=============================================================================
