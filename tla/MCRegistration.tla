--------------------------- MODULE MCRegistration ---------------------------
(* Instances of Registration for TLC. *)
EXTENDS Registration, TLC

CONSTANTS a1, a2

Role(kind, place) == [kind |-> kind, place |-> place]

\* An ips-agent and a proxy-agent, each by itself or in its sandbox; two ips-agents
\* that exec -d has started and that have one state file.
Everywhere ==
    {(a1 :> Role("ips", p)) @@ (a2 :> Role("proxy", q)) : p, q \in {"alone", "sandbox"}}
        \cup {[a \in Agents |-> Role("ips", "exec")]}
=============================================================================
