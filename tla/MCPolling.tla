----------------------------- MODULE MCPolling ------------------------------
(* An instance of Polling for TLC. *)
EXTENDS Polling

\* Not in their order; one is a prefix of another, two differ in length or size only.
MCConfigured == <<<<1, 10>>, <<2, 1>>, <<1, 2>>, <<1, 1, 0>>, <<1, 1>>>>
MCRoot == <<1>>

Names == ToSet(MCConfigured) \cup {<<1>>, <<1, 1, 5>>, <<3>>}
Plain1 == [agent : {"snmp"}, tag : {"get", "next", "set"}, vars : {<<n>> : n \in Names},
           version : {1, 3}, community : BOOLEAN, nonRepeaters : {0}, maxRepetitions : {0}]
Bulk == [agent : {"snmp"}, tag : {"bulk"}, vars : {<<m, n>> : m \in {<<1>>, <<1, 2>>}, n \in Names},
         version : {1}, community : {TRUE}, nonRepeaters : -1..2, maxRepetitions : {-1, 1, 3}]
MCProbes == Plain1 \cup Bulk
=============================================================================
