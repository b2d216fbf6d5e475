------------------------------ MODULE Redfish -------------------------------
(***************************************************************************)
(* How the redfish-agent answers a request. A path is the sequence of its  *)
(* segments below /redfish/v1.                                             *)
(***************************************************************************)
EXTENDS Naturals, Sequences, SequencesExt

Chassis == <<"Chassis">>
Chassis1 == <<"Chassis", "1">>
Thermal == <<"Chassis", "1", "Thermal">>
Power == <<"Chassis", "1", "Power">>
Systems == <<"Systems">>
System1 == <<"Systems", "1">>
Memories == <<"Systems", "1", "Memory">>
Memory1 == <<"Systems", "1", "Memory", "1">>
Reset(system) == <<"Systems", system, "Actions", "ComputerSystem.Reset">>
Managers == <<"Managers">>
Manager1 == <<"Managers", "1">>
ManagerSelf == <<"Managers", "Self">>
Ethernet == <<"Managers", "1", "EthernetInterfaces">>
Ethernet1 == <<"Managers", "1", "EthernetInterfaces", "1">>
EthernetSelf == <<"Managers", "Self", "EthernetInterfaces">>

\* The patterns of the mux without and with a slash at their end.
Exact == {<<<<>>, "ServiceRoot">>,
          <<Chassis, "ChassisCollection">>, <<Chassis1, "Chassis">>,
          <<Thermal, "Thermal">>, <<Power, "Power">>,
          <<Systems, "SystemsCollection">>, <<System1, "System">>, <<Memory1, "Memory">>,
          <<Reset("1"), "SystemReset">>, <<Reset("Self"), "SystemReset">>,
          <<Managers, "ManagersCollection">>, <<Manager1, "Manager">>,
          <<ManagerSelf, "Manager">>, <<EthernetSelf, "EthernetInterfaces">>}

Subtrees == {<<<<>>, "NotFound">>,
             <<Chassis, "ChassisCollection">>, <<Chassis1, "Chassis">>,
             <<Thermal, "Thermal">>, <<Power, "Power">>,
             <<Systems, "SystemsCollection">>, <<System1, "System">>,
             <<Memories, "MemoryCollection">>,
             <<Managers, "ManagersCollection">>, <<Manager1, "Manager">>}

\* What a handler writes: its @odata.id, the links it gives and the targets of its
\* actions.
Resource(id, links) == [id |-> id, links |-> links, targets |-> {}]

ChassisTree ==
    [ChassisCollection |-> Resource(Chassis, {Chassis1}),
     Chassis |-> Resource(Chassis1, {Thermal, Power}),
     Thermal |-> Resource(Thermal, {}),
     Power |-> Resource(Power, {})]

SystemsTree ==
    [SystemsCollection |-> Resource(Systems, {System1}),
     System |-> [Resource(System1, {}) EXCEPT !.targets = {Reset("1")}],
     MemoryCollection |-> Resource(Memories, {Memory1}),
     Memory |-> Resource(Memory1, {})]

ManagersTree ==
    [ManagersCollection |-> Resource(Managers, {Manager1}),
     Manager |-> Resource(Manager1, {Ethernet}),
     EthernetInterfaces |-> Resource(Ethernet, {Ethernet1})]

ServiceRoot == Resource(<<>>, {Systems, Chassis, Managers})

Written(handler) ==
    CASE handler \in DOMAIN ChassisTree -> ChassisTree[handler]
      [] handler \in DOMAIN SystemsTree -> SystemsTree[handler]
      [] handler \in DOMAIN ManagersTree -> ManagersTree[handler]
      [] handler = "ServiceRoot" -> ServiceRoot

\* The shortest pattern: for a mutant.
RouteToShortest(path) ==
    LET above == {p \in Subtrees : IsPrefix(p[1], path)}
    IN (CHOOSE p \in above : \A q \in above : Len(p[1]) <= Len(q[1]))[2]

\* The longest pattern that matches. A path that only has a subtree is redirected to it.
Route(path) ==
    LET exact == {p \in Exact : p[1] = path}
        above == {p \in Subtrees : IsPrefix(p[1], path)}
    IN IF exact # {} THEN (CHOOSE p \in exact : TRUE)[2]
       ELSE (CHOOSE p \in above : \A q \in above : Len(p[1]) >= Len(q[1]))[2]

Reply(code, resource) == [code |-> code, resource |-> resource]

\* authMiddleware, the mux and the handler.
Serve(ask) ==
    LET handler == Route(ask.path) IN
    IF ask.path # <<>> /\ ~ask.auth THEN Reply(401, Resource(<<>>, {}))
    ELSE CASE handler = "SystemReset" ->
                 Reply(IF ask.method = "POST" THEN 204 ELSE 405, Resource(<<>>, {}))
           [] handler = "NotFound" -> Reply(404, Resource(<<>>, {}))
           [] OTHER -> Reply(200, Written(handler))
=============================================================================
