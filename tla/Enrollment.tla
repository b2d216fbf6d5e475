----------------------------- MODULE Enrollment -----------------------------
(***************************************************************************)
(* What registration promises: the manager gets to know identities, an     *)
(* administrator claims some of them, and an agent works under one of      *)
(* those and under no other.                                               *)
(***************************************************************************)
CONSTANTS
    Agents,
    Uuids,
    Nobody   \* not a member of Uuids

VARIABLES
    known,     \* identities the manager has given out
    approved,  \* those the administrator has claimed
    serving    \* the identity under which an agent works, if it does

vars == <<known, approved, serving>>

Init ==
    /\ known = {}
    /\ approved = {}
    /\ serving = [a \in Agents |-> Nobody]

GiveOut(u) ==
    /\ u \notin known
    /\ known' = known \cup {u}
    /\ UNCHANGED <<approved, serving>>

Approve(u) ==
    /\ u \in known
    /\ approved' = approved \cup {u}
    /\ UNCHANGED <<known, serving>>

Serve(a) ==
    /\ serving[a] = Nobody
    /\ \E u \in approved : serving' = [serving EXCEPT ![a] = u]
    /\ UNCHANGED <<known, approved>>

Leave(a) ==
    /\ serving' = [serving EXCEPT ![a] = Nobody]
    /\ UNCHANGED <<known, approved>>

Next ==
    \/ \E u \in Uuids : GiveOut(u) \/ Approve(u)
    \/ \E a \in Agents : Serve(a) \/ Leave(a)

Spec == Init /\ [][Next]_vars
=============================================================================
