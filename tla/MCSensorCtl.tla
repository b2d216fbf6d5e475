---------------------------- MODULE MCSensorCtl ----------------------------
(* Instances of SensorCtl for TLC. *)
EXTENDS SensorCtl

MCRank == [n \in Names |-> IF n = "ips1" THEN 1 ELSE 2]

\* No name occurs in another one.
OwnText == {<<n, n>> : n \in Names}

\* The text of ips1 is a part of the text of ips12.
Prefixed == OwnText \cup {<<"ips1", "ips12">>}

NoIps == {}

\* An address that operators give to a sensor in the subnet of id 100.
SharedNetIp == {[net |-> 1, host |-> 10]}
=============================================================================
