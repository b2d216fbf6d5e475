-------------------------- MODULE ProxyReloadProofs --------------------------
(***************************************************************************)
(* Theorems about ProxyReload, for any number of edits and any places.     *)
(***************************************************************************)
EXTENDS ProxyReload, TLAPS

\* On the host the agent is there from the start, without a tini.
OnHost ==
    place = "host" => ~unshare /\ tini = "none" /\ child \in {"default", "notified", "dead"}

\* An edit that is being made is one of those that the bound allows.
EditBounded == operator = "editing" => edits < MaxEdits

\* What an agent on the host has not configured yet is announced: the operator is about
\* to signal it, the signal is pending or in the channel, or loadConfig is about to read
\* or to store the file as it is.
Announced ==
    place = "host" /\ child # "dead" =>
          \/ operator # "idle"
          \/ toChild
          \/ sigs > 0
          \/ loader = "read"
          \/ loader = "store" /\ got = file
          \/ loader = "idle" /\ config = file

IInv == TypeOK /\ OnHost /\ EditBounded /\ TiniOutlivesChild /\ Announced

\* The five parts hold at first.
LEMMA InitIInv == Init => IInv
<1> SUFFICES ASSUME Init PROVE IInv
  OBVIOUS
<1> USE ReloadAssumption DEF Init
<1>1. TypeOK
  <2>1. {file, staged, got, config, current, taken, endpoint} \subseteq Configs
    BY DEF Configs
  <2>2. {unshare, toTini, toChild} \subseteq BOOLEAN
    OBVIOUS
  <2>3. place = "host" \/ place = "sandbox"
    OBVIOUS
  <2>4. /\ tini \in {"none", "staging", "start", "armed", "forked", "waiting", "exited"}
        /\ child \in {"none", "forked", "default", "notified", "dead"}
        /\ tini \in {"staging", "start", "armed"} => child = "none"
        /\ tini \notin {"forked", "waiting"}
    BY <2>3
  <2> QED BY <2>1, <2>2, <2>4 DEF TypeOK
<1>2. OnHost /\ EditBounded /\ TiniOutlivesChild /\ Announced
  BY DEF OnHost, EditBounded, TiniOutlivesChild, Announced
<1> QED BY <1>1, <1>2 DEF IInv

\* Every step of the operator, of tini, of the kernel and of the agent keeps the types.
LEMMA TypeStep == TypeOK /\ EditBounded /\ [Next]_vars => TypeOK'
<1> SUFFICES ASSUME TypeOK, EditBounded, [Next]_vars PROVE TypeOK'
  OBVIOUS
<1> USE ReloadAssumption DEF TypeOK, files, family, processes, copies, agent
<1>1. CASE BeginEdit
  BY <1>1 DEF BeginEdit, Configs
<1>2. CASE EndEdit
  <2>1. edits' \in 0..MaxEdits /\ file' = edits'
    BY <1>2 DEF EndEdit, EditBounded
  <2>2. file' \in Configs
    BY <2>1 DEF Configs
  <2> QED BY <1>2, <2>1, <2>2 DEF EndEdit
<1>3. CASE Signal
  BY <1>3 DEF Signal
<1>4. CASE Stage \/ Arm \/ Fork \/ ForkFails \/ Wait
  BY <1>4 DEF Stage, Arm, Fork, ForkFails, Wait
<1>11. CASE Reap
  <2>1. PICK p \in Ended : /\ tini' = IF IsChild(p) THEN "exited" ELSE tini
                           /\ zombies' = IF p = "orphan" THEN zombies - 1 ELSE zombies
    BY <1>11 DEF Reap
  <2>2. zombies' \in 0..orphans
    BY <2>1 DEF Ended
  <2> QED BY <1>11, <2>1, <2>2 DEF Reap
<1>12. CASE OrphanEnds
  BY <1>12 DEF OrphanEnds
<1>5. CASE Forward
  <2>1. toChild' \in BOOLEAN /\ toTini' \in BOOLEAN
    BY <1>5 DEF Forward
  <2> QED BY <1>5, <2>1 DEF Forward
<1>6. CASE Child
  BY <1>6 DEF Child, Exec, ExecFails, Notify
<1>7. CASE Deliver
  <2>1. sigs' \in 0..1
    BY <1>7 DEF Deliver, Queued
  <2>2. /\ child' \in {"none", "forked", "default", "notified", "dead"}
        /\ (child' = "none" <=> child = "none") /\ (child = "notified" => child' = "notified")
    BY <1>7 DEF Deliver
  <2>3. toChild' \in BOOLEAN
    BY <1>7 DEF Deliver
  <2> QED BY <1>7, <2>1, <2>2, <2>3 DEF Deliver
<1>8. CASE Loader
  BY <1>8 DEF Loader, Reload, Read, Store
<1>9. CASE Main
  BY <1>9 DEF Main, Round, Claimed, Listen
<1>10. CASE UNCHANGED vars
  BY <1>10 DEF vars
<1> QED
  BY <1>1, <1>2, <1>3, <1>4, <1>5, <1>6, <1>7, <1>8, <1>9, <1>10, <1>11, <1>12
     DEF Next, Operator, Tini

\* The agent of the host stays without a tini, and tini ends after its child.
LEMMA ProcessStep ==
    IInv /\ [Next]_vars => OnHost' /\ EditBounded' /\ TiniOutlivesChild'
<1> SUFFICES ASSUME IInv, [Next]_vars PROVE OnHost' /\ EditBounded' /\ TiniOutlivesChild'
  OBVIOUS
<1> USE DEF IInv, TypeOK, OnHost, EditBounded, TiniOutlivesChild, files, family, processes,
            copies, agent
<1>1. CASE Operator
  BY <1>1 DEF Operator, BeginEdit, EndEdit, Signal
<1>2. CASE Stage \/ Arm \/ Fork \/ ForkFails \/ Wait \/ OrphanEnds
  BY <1>2 DEF Stage, Arm, Fork, ForkFails, Wait, OrphanEnds
<1>8. CASE Reap
  BY <1>8 DEF Reap, Ended, IsChild
<1>3. CASE Forward
  BY <1>3 DEF Forward
<1>4. CASE Child
  BY <1>4 DEF Child, Exec, ExecFails, Notify
<1>5. CASE Deliver
  BY <1>5 DEF Deliver
<1>6. CASE Loader \/ Main
  BY <1>6 DEF Loader, Reload, Read, Store, Main, Round, Claimed, Listen
<1>7. CASE UNCHANGED vars
  BY <1>7 DEF vars
<1> QED BY <1>1, <1>2, <1>3, <1>4, <1>5, <1>6, <1>7, <1>8 DEF Next, Tini

\* An announcement is passed on from the operator to the configuration: who takes it
\* from one place puts it in the next one.
LEMMA AnnouncedStep == IInv /\ [Next]_vars => Announced'
<1> SUFFICES ASSUME IInv, [Next]_vars, (place = "host" /\ child # "dead")' PROVE Announced'
  BY DEF Announced
<1>1. /\ place = "host" /\ ~unshare /\ tini = "none"
      /\ child \in {"default", "notified"} /\ sigs \in 0..1 /\ Announced
  <2>1. place = "host"
    BY DEF Next, Operator, BeginEdit, EndEdit, Signal, Tini, Stage, Arm, Fork, ForkFails, Wait,
           Reap, Forward, OrphanEnds, Child, Exec, ExecFails, Notify, Deliver, Loader, Reload,
           Read, Store, Main, Round, Claimed, Listen, files, family, processes, copies,
           agent, vars
  <2>2. tini = "none"
    BY <2>1 DEF IInv, OnHost
  <2>3. child # "dead"
    BY <2>2 DEF Next, Operator, BeginEdit, EndEdit, Signal, Tini, Stage, Arm, Fork, ForkFails,
                Wait, Reap, Forward, OrphanEnds, Child, Exec, ExecFails, Notify, Deliver,
                Loader, Reload, Read, Store, Main, Round, Claimed, Listen, files, family,
                processes, copies, agent, vars
  <2> QED BY <2>1, <2>3 DEF IInv, OnHost, TypeOK
<1> USE <1>1 DEF Announced, files, family, processes, copies, agent
<1>2. CASE BeginEdit \/ EndEdit
  BY <1>2 DEF BeginEdit, EndEdit
<1>3. CASE Signal
  BY <1>3 DEF Signal
<1>4. CASE Tini \/ Forward \/ OrphanEnds
  BY <1>4 DEF Tini, Stage, Arm, Fork, ForkFails, Wait, Reap, Forward, OrphanEnds
<1>5. CASE Child
  BY <1>5 DEF Child, Exec, ExecFails, Notify
<1>6. CASE Deliver
  BY <1>6 DEF Deliver, Queued
<1>7. CASE Reload
  BY <1>7 DEF Reload
<1>8. CASE Read
  BY <1>8 DEF Read
<1>9. CASE Store
  BY <1>9 DEF Store
<1>10. CASE Main
  BY <1>10 DEF Main, Round, Claimed, Listen
<1>11. CASE UNCHANGED vars
  BY <1>11 DEF vars
<1> QED
  BY <1>2, <1>3, <1>4, <1>5, <1>6, <1>7, <1>8, <1>9, <1>10, <1>11
     DEF Next, Operator, Loader

LEMMA Inductive == Spec => []IInv
<1>1. IInv /\ [Next]_vars => IInv'
  BY TypeStep, ProcessStep, AnnouncedStep DEF IInv
<1> QED BY InitIInv, <1>1, PTL DEF Spec

\* The variables keep their types, and the channel never holds more than one signal.
THEOREM TypeCorrect == Spec => []TypeOK
<1>1. IInv => TypeOK
  BY DEF IInv
<1> QED BY Inductive, <1>1, PTL

\* No edit of the configuration is lost to an agent on the host, whichever step of
\* loadConfig its signal meets.
THEOREM NothingLost == Spec => []NoLostUpdate
<1>1. IInv => NoLostUpdate
  BY DEF IInv, Announced, NoLostUpdate
<1> QED BY Inductive, <1>1, PTL

\* tini stays as long as its child does, whatever signals interrupt its wait and whatever
\* other processes end.
THEOREM Outlives == Spec => []TiniOutlivesChild
<1>1. IInv => TiniOutlivesChild
  BY DEF IInv
<1> QED BY Inductive, <1>1, PTL
=============================================================================
