------------------------- MODULE RegistrationProofs -------------------------
(* Theorems about Registration, for any agents, deployments and faults. *)
EXTENDS Registration, TLAPS

(***************************************************************************)
(* Types.                                                                  *)
(***************************************************************************)

LEMMA LoadedType ==
    ASSUME TypeOK, NEW a \in Agents, NEW s \in Loaded(a)
    PROVE  /\ s \in States
           /\ s # file[StateFile(a)] => made + 1 \in Hashes /\ s.uuid = None
                                         /\ s.status = "unregistered"
<1>1. CASE file[StateFile(a)] \in States
  BY <1>1 DEF Loaded
<1>2. CASE file[StateFile(a)] \notin States
  BY <1>2 DEF Loaded, States
<1> QED BY <1>1, <1>2

LEMMA ConfiguredType ==
    ASSUME NEW a, NEW m, NEW s \in States
    PROVE  Configured(a, m, s) \in States
BY DEF Configured, States

LEMMA StateFileType ==
    ASSUME NEW a \in Agents
    PROVE  StateFile(a) \in Agents \cup {HostFile}
BY DEF StateFile

LEMMA EnterType ==
    ASSUME TypeOK, NEW h \in Hashes, Enter(h)
    PROVE  /\ sensors' \in [Hashes -> Entries \cup {None}]
           /\ sensors'[h] \in Entries
<1>1. CASE sensors[h] # None
  BY <1>1 DEF TypeOK, Enter
<1>2. CASE sensors[h] = None
  <2>1. PICK u \in Uuids : sensors' = [sensors EXCEPT ![h] = [uuid |-> u, claimed |-> FALSE]]
    BY <1>2 DEF Enter
  <2>2. [uuid |-> u, claimed |-> FALSE] \in Entries
    BY DEF Entries
  <2> QED BY <2>1, <2>2 DEF TypeOK
<1> QED BY <1>1, <1>2

LEMMA AnswerOfType ==
    ASSUME NEW e \in Entries
    PROVE  AnswerOf(e) \in Answers
BY DEF Entries, Answers, AnswerOf

LEMMA TypeInit == Init => TypeOK
BY RegistrationAssumption DEF Init, TypeOK

LEMMA TypeStep == TypeOK /\ [Next]_vars => TypeOK'
<1> SUFFICES ASSUME TypeOK, [Next]_vars PROVE TypeOK'
  OBVIOUS
<1> USE DEF agentVars, managerVars
<1>1. ASSUME NEW a \in Agents, Start(a) PROVE TypeOK'
  <2>1. PICK m \in Modes, s \in Loaded(a) :
              /\ mode' = [mode EXCEPT ![a] = m]
              /\ state' = [state EXCEPT ![a] = Configured(a, m, s)]
              /\ made' = IF s = file[StateFile(a)] THEN made ELSE made + 1
              /\ Goto(a, IF m = "forced" \/ Configured(a, m, s) # s
                         THEN "truncate" ELSE "loop")
    BY <1>1 DEF Start
  <2>2. Configured(a, m, s) \in States
    BY LoadedType, ConfiguredType
  <2>3. made' \in 0..MaxHash
    BY <2>1, LoadedType, RegistrationAssumption DEF TypeOK, Hashes
  <2>4. m \in {"managed", "standalone", "forced"}
    BY RegistrationAssumption
  <2> QED BY <1>1, <2>1, <2>2, <2>3, <2>4, DistinctAssumption
          DEF Start, TypeOK, Goto
<1>2. ASSUME NEW a \in Agents, Loop(a) \/ Heartbeat(a) PROVE TypeOK'
  BY <1>2 DEF Loop, Heartbeat, TypeOK, Goto, Serving
<1>3. ASSUME NEW a \in Agents, Register(a) PROVE TypeOK'
  <2>1. CASE answer[a] = Refusal
    BY <1>3, <2>1 DEF Register, TypeOK, Goto
  <2>2. CASE answer[a] # Refusal
    <3>1. answer[a] \in Answers /\ state[a] \in States
      BY <1>3, <2>2 DEF Register, TypeOK
    <3>2. [state[a] EXCEPT !.uuid = answer[a].uuid, !.status = answer[a].status] \in States
      BY <3>1 DEF States, Answers
    <3>3. state' = [state EXCEPT ![a] =
                      [state[a] EXCEPT !.uuid = answer[a].uuid, !.status = answer[a].status]]
      BY <1>3, <2>2, <3>1 DEF Register, TypeOK
    <3>4. state' \in [Agents -> States \cup {None}] /\ state'[a] # None
      BY <3>2, <3>3, DistinctAssumption DEF TypeOK
    <3>5. \A b \in Agents : pc'[b] # "off" => state'[b] # None
      BY <1>3, <2>2, <3>3, <3>4 DEF Register, TypeOK, Goto
    <3> QED BY <1>3, <2>2, <3>4, <3>5 DEF Register, TypeOK, Goto
  <2> QED BY <2>1, <2>2
<1>4. ASSUME NEW a \in Agents, Verify(a) PROVE TypeOK'
  <2>1. CASE answer[a] = Refusal
    BY <1>4, <2>1 DEF Verify, TypeOK, Goto
  <2>2. CASE answer[a] # Refusal
    <3>1. answer[a] \in Answers /\ state[a] \in States
      BY <1>4, <2>2 DEF Verify, TypeOK
    <3>2. [state[a] EXCEPT !.status = answer[a].status] \in States
      BY <3>1 DEF States, Answers
    <3> QED BY <1>4, <2>2, <3>2, DistinctAssumption DEF Verify, TypeOK, Goto
  <2> QED BY <2>1, <2>2
<1>5. ASSUME NEW a \in Agents, Timeout(a) PROVE TypeOK'
  BY <1>5, DistinctAssumption DEF Timeout, Abandon, TypeOK, Goto, States
<1>6. ASSUME NEW a \in Agents, Truncate(a) PROVE TypeOK'
  BY <1>6, StateFileType DEF Truncate, TypeOK, Goto, Serving
<1>7. ASSUME NEW a \in Agents, Write(a) PROVE TypeOK'
  <2>1. state[a] \in States
    BY <1>7 DEF Write, TypeOK
  <2> QED BY <1>7, <2>1, StateFileType DEF Write, TypeOK, Goto, Serving
<1>8. ASSUME NEW a \in Agents, Crash(a) PROVE TypeOK'
  BY <1>8, DistinctAssumption DEF Crash, Abandon, TypeOK, Goto, States
<1>9. ASSUME NEW a \in Agents, AnswerRegister(a) PROVE TypeOK'
  <2>1. state[a].hash \in Hashes
    BY <1>9 DEF AnswerRegister, TypeOK, States
  <2>2. AnswerOf(sensors'[state[a].hash]) \in Answers
    BY <1>9, <2>1, EnterType, AnswerOfType DEF AnswerRegister
  <2> QED BY <1>9, <2>1, <2>2, EnterType DEF AnswerRegister, TypeOK
<1>10. ASSUME NEW a \in Agents, AnswerVerify(a) PROVE TypeOK'
  <2>1. state[a].hash \in Hashes
    BY <1>10 DEF AnswerVerify, TypeOK, States
  <2> QED BY <1>10, <2>1, AnswerOfType DEF AnswerVerify, TypeOK
<1>11. ASSUME NEW a \in Agents, AnswerError(a) PROVE TypeOK'
  BY <1>11 DEF AnswerError, TypeOK
<1>12. ASSUME NEW h \in Hashes, LateRegister(h) PROVE TypeOK'
  BY <1>12, EnterType DEF LateRegister, TypeOK
<1>13. ASSUME NEW h \in Hashes, Claim(h) PROVE TypeOK'
  <2>1. [sensors[h] EXCEPT !.claimed = TRUE] \in Entries
    BY <1>13 DEF Claim, TypeOK, Entries
  <2> QED BY <1>13, <2>1 DEF Claim, TypeOK
<1>14. CASE UNCHANGED vars
  BY <1>14 DEF vars, TypeOK
<1> QED
  BY <1>1, <1>2, <1>3, <1>4, <1>5, <1>6, <1>7, <1>8, <1>9, <1>10, <1>11, <1>12,
     <1>13, <1>14 DEF Next, AgentStep

\* Every variable keeps its type: above all, an agent that runs has a state, and
\* no hash is made up beyond the bound.
THEOREM TypeCorrect == Spec => []TypeOK
BY TypeInit, TypeStep, PTL DEF Spec

(***************************************************************************)
(* Identities. The manager never takes back what it has entered, so what   *)
(* is true of a state stays true, and new states are made of answers.      *)
(***************************************************************************)

Inv == TypeOK /\ AnswersTrue /\ IdentityPaired /\ StatesTruthful /\ LoopGuards

Grown ==
    \A h \in Hashes : sensors[h] # None =>
        /\ sensors'[h] # None /\ sensors'[h].uuid = sensors[h].uuid
        /\ sensors[h].claimed => sensors'[h].claimed

LEMMA EnterGrows ==
    ASSUME TypeOK, NEW h \in Hashes, Enter(h)
    PROVE  Grown
<1>1. CASE sensors[h] # None
  BY <1>1 DEF Enter, Grown
<1>2. CASE sensors[h] = None
  <2>1. PICK u \in Uuids : sensors' = [sensors EXCEPT ![h] = [uuid |-> u, claimed |-> FALSE]]
    BY <1>2 DEF Enter
  <2> QED BY <1>2, <2>1 DEF Grown, TypeOK
<1> QED BY <1>1, <1>2

LEMMA Grows == TypeOK /\ [Next]_vars => Grown
<1> SUFFICES ASSUME TypeOK, [Next]_vars PROVE Grown
  OBVIOUS
<1>1. CASE UNCHANGED sensors
  BY <1>1 DEF Grown
<1>2. ASSUME NEW a \in Agents, AnswerRegister(a) PROVE Grown
  <2>1. state[a].hash \in Hashes
    BY <1>2 DEF AnswerRegister, TypeOK, States
  <2> QED BY <1>2, <2>1, EnterGrows DEF AnswerRegister
<1>3. ASSUME NEW h \in Hashes, LateRegister(h) PROVE Grown
  BY <1>3, EnterGrows DEF LateRegister
<1>4. ASSUME NEW h \in Hashes, Claim(h) PROVE Grown
  <2>1. sensors' = [sensors EXCEPT ![h] = [sensors[h] EXCEPT !.claimed = TRUE]]
    BY <1>4 DEF Claim, TypeOK
  <2>2. sensors[h] \in Entries
    BY <1>4 DEF Claim, TypeOK
  <2>3. [sensors[h] EXCEPT !.claimed = TRUE] \in Entries
    BY <2>2 DEF Entries
  <2> QED BY <2>1, <2>2, <2>3, DistinctAssumption DEF Grown, TypeOK, Entries
<1>5. ASSUME NEW a \in Agents, Start(a) \/ AgentStep(a) \/ Heartbeat(a) \/ Timeout(a)
                                \/ Crash(a) \/ AnswerVerify(a) \/ AnswerError(a)
      PROVE UNCHANGED sensors
  BY <1>5 DEF Start, AgentStep, Heartbeat, Timeout, Crash, AnswerVerify, AnswerError,
              Loop, Register, Verify, Truncate, Write, managerVars
<1> QED
  BY <1>1, <1>2, <1>3, <1>4, <1>5 DEF Next, vars, managerVars

Good(s) == Paired(s) /\ Truthful(s)

LEMMA GoodStays ==
    ASSUME Grown, NEW s \in States, Good(s)
    PROVE  Good(s)'
BY DEF Grown, Good, Paired, Truthful, Claimed, States

\* Where the states of a step come from.
Sources ==
    /\ \A a \in Agents :
          state'[a] \in {state[a], None} \/ \E s \in States : Good(s) /\ state'[a] = s
    /\ \A f \in Agents \cup {HostFile} :
          file'[f] \in {file[f], Empty, Garbage} \/ \E s \in States : Good(s) /\ file'[f] = s

LEMMA RegisterSources ==
    ASSUME Inv, NEW a \in Agents, Register(a) \/ Verify(a)
    PROVE  Sources
<1> USE DEF Inv
<1>1. CASE answer[a] = Refusal
  BY <1>1 DEF Register, Verify, TypeOK, Sources
<1>2. CASE answer[a] # Refusal
  <2>1. answer[a] \in Answers /\ state[a] \in States /\ Good(state[a])
    BY <1>2 DEF Register, Verify, TypeOK, IdentityPaired, StatesTruthful, Good
  <2>2. LET entry == sensors[state[a].hash] IN
        /\ entry # None /\ entry.uuid = answer[a].uuid
        /\ answer[a].status = "claimed" => entry.claimed
        /\ pc[a] = "verify" => state[a].uuid = answer[a].uuid
    BY <2>1 DEF AnswersTrue
  <2>3. CASE Register(a)
    <3> DEFINE s == [state[a] EXCEPT !.uuid = answer[a].uuid, !.status = answer[a].status]
    <3>1. s \in States /\ s.hash = state[a].hash /\ s.uuid = answer[a].uuid
                      /\ s.status = answer[a].status
      BY <2>1 DEF States, Answers
    <3>2. Good(s)
      BY <2>2, <3>1 DEF Good, Paired, Truthful, Claimed
    <3>3. state' = [state EXCEPT ![a] = s] /\ UNCHANGED file
      BY <1>2, <2>3 DEF Register, TypeOK
    <3> QED BY <3>1, <3>2, <3>3 DEF Sources, TypeOK
  <2>4. CASE Verify(a)
    <3> DEFINE s == [state[a] EXCEPT !.status = answer[a].status]
    <3>1. s \in States /\ s.hash = state[a].hash /\ s.uuid = answer[a].uuid
                      /\ s.status = answer[a].status
      BY <2>1, <2>2, <2>4 DEF States, Answers, Verify
    <3>2. Good(s)
      BY <2>2, <3>1 DEF Good, Paired, Truthful, Claimed
    <3>3. state' = [state EXCEPT ![a] = s] /\ UNCHANGED file
      BY <1>2, <2>4 DEF Verify, TypeOK
    <3> QED BY <3>1, <3>2, <3>3 DEF Sources, TypeOK
  <2> QED BY <2>3, <2>4
<1> QED BY <1>1, <1>2

LEMMA ConfiguredGood ==
    ASSUME NEW a, NEW m, NEW s \in States, Good(s)
    PROVE  Good(Configured(a, m, s))
BY RegistrationAssumption DEF Configured, States, Good, Paired, Truthful

LEMMA StartSources ==
    ASSUME Inv, NEW a \in Agents, Start(a)
    PROVE  Sources
<1> USE DEF Inv
<1>1. PICK m \in Modes, s \in Loaded(a) :
            state' = [state EXCEPT ![a] = Configured(a, m, s)]
  BY DEF Start
<1>2. s \in States /\ Good(s)
  <2>1. CASE s = file[StateFile(a)]
    BY <2>1, LoadedType, StateFileType DEF IdentityPaired, StatesTruthful, Good
  <2>2. CASE s # file[StateFile(a)]
    BY <2>2, LoadedType, RegistrationAssumption DEF Good, Paired, Truthful
  <2> QED BY <2>1, <2>2
<1>3. Configured(a, m, s) \in States /\ Good(Configured(a, m, s))
  BY <1>2, ConfiguredType, ConfiguredGood
<1> QED BY <1>1, <1>3 DEF Start, Sources, TypeOK

LEMMA StepSources == Inv /\ [Next]_vars => Sources
<1> SUFFICES ASSUME Inv, [Next]_vars PROVE Sources
  OBVIOUS
<1> USE DEF Inv, agentVars, managerVars
<1>1. ASSUME NEW a \in Agents, Truncate(a) PROVE Sources
  BY <1>1, StateFileType DEF Truncate, Sources, TypeOK
<1>2. ASSUME NEW a \in Agents, Write(a) PROVE Sources
  <2>1. state[a] \in States /\ Good(state[a])
    BY <1>2 DEF Write, TypeOK, IdentityPaired, StatesTruthful, Good
  <2> QED BY <1>2, <2>1, StateFileType DEF Write, Sources, TypeOK
<1>3. ASSUME NEW a \in Agents, Crash(a) PROVE Sources
  BY <1>3 DEF Crash, Sources, TypeOK
<1>4. ASSUME NEW a \in Agents, Loop(a) \/ Heartbeat(a) \/ Timeout(a) \/ AnswerRegister(a)
                                \/ AnswerVerify(a) \/ AnswerError(a)
      PROVE UNCHANGED <<state, file>>
  BY <1>4 DEF Loop, Heartbeat, Timeout, AnswerRegister, AnswerVerify, AnswerError
<1>5. ASSUME NEW h \in Hashes, LateRegister(h) \/ Claim(h) PROVE UNCHANGED <<state, file>>
  BY <1>5 DEF LateRegister, Claim
<1>6. CASE UNCHANGED <<state, file>>
  BY <1>6 DEF Sources
<1> QED
  BY <1>1, <1>2, <1>3, <1>4, <1>5, <1>6, StartSources, RegisterSources
     DEF Next, AgentStep, vars

LEMMA StatesStep == Inv /\ [Next]_vars => (IdentityPaired /\ StatesTruthful)'
<1> SUFFICES ASSUME Inv, [Next]_vars PROVE (IdentityPaired /\ StatesTruthful)'
  OBVIOUS
<1>1. Grown /\ Sources
  BY Grows, StepSources DEF Inv
<1>2. ASSUME NEW a \in Agents, state'[a] # None PROVE Good(state[a])'
  <2>1. PICK s \in States : Good(s) /\ state'[a] = s
    BY <1>1, <1>2 DEF Sources, Inv, TypeOK, IdentityPaired, StatesTruthful, Good
  <2> QED BY <1>1, <2>1, GoodStays
<1>3. ASSUME NEW f \in Agents \cup {HostFile}, file'[f] \in States PROVE Good(file[f])'
  <2>1. PICK s \in States : Good(s) /\ file'[f] = s
    BY <1>1, <1>3, DistinctAssumption
       DEF Sources, Inv, IdentityPaired, StatesTruthful, Good
  <2> QED BY <1>1, <2>1, GoodStays
<1> QED BY <1>2, <1>3 DEF IdentityPaired, StatesTruthful, Good

\* What AnswersTrue says of one agent.
AnswerTrue(a) ==
    /\ answer[a] # None => pc[a] \in {"register", "verify"}
    /\ answer[a] \in Answers =>
          LET entry == sensors[state[a].hash] IN
          /\ entry # None /\ entry.uuid = answer[a].uuid
          /\ answer[a].status = "claimed" => entry.claimed
          /\ pc[a] = "verify" => state[a].uuid = answer[a].uuid

LEMMA AnswerStays ==
    ASSUME Inv, Grown, NEW a \in Agents, pc'[a] = pc[a], state'[a] = state[a],
           answer'[a] = answer[a]
    PROVE  AnswerTrue(a)'
<1>1. CASE answer[a] \in Answers
  <2>1. state[a] \in States
    BY <1>1, DistinctAssumption DEF Inv, TypeOK, AnswersTrue
  <2>2. state[a].hash \in Hashes
    BY <2>1 DEF States
  <2> QED BY <1>1, <2>2 DEF Inv, Grown, AnswersTrue, AnswerTrue
<1>2. CASE answer[a] \notin Answers
  BY <1>2 DEF Inv, AnswersTrue, AnswerTrue
<1> QED BY <1>1, <1>2

LEMMA NoAnswer ==
    ASSUME NEW a \in Agents, answer'[a] \in {None, Refusal},
           answer'[a] # None => pc'[a] \in {"register", "verify"}
    PROVE  AnswerTrue(a)'
BY DistinctAssumption DEF AnswerTrue

LEMMA AnswersStep == Inv /\ [Next]_vars => AnswersTrue'
<1> SUFFICES ASSUME Inv, [Next]_vars, NEW b \in Agents PROVE AnswerTrue(b)'
  BY DEF AnswersTrue, AnswerTrue
<1> USE DEF agentVars, managerVars
<1>1. Grown
  BY Grows DEF Inv
<1>2. TypeOK /\ TypeOK' /\ AnswersTrue
  BY TypeStep DEF Inv
\* An agent that acts has no answer pending afterwards; the others keep theirs.
<1>3. ASSUME NEW a \in Agents, Register(a) \/ Verify(a) \/ Timeout(a) \/ Crash(a)
      PROVE AnswerTrue(b)'
  <2>1. CASE a = b
    BY <1>2, <1>3, <2>1, NoAnswer DEF Register, Verify, Timeout, Crash, TypeOK
  <2>2. CASE a # b
    BY <1>1, <1>2, <1>3, <2>2, AnswerStays DEF Register, Verify, Timeout, Crash, TypeOK, Goto
  <2> QED BY <2>1, <2>2
<1>4. ASSUME NEW a \in Agents,
             Start(a) \/ Loop(a) \/ Truncate(a) \/ Write(a) \/ Heartbeat(a)
      PROVE AnswerTrue(b)'
  <2>1. CASE a = b
    BY <1>2, <1>4, <2>1, NoAnswer
       DEF Start, Loop, Truncate, Write, Heartbeat, AnswersTrue
  <2>2. CASE a # b
    BY <1>1, <1>2, <1>4, <2>2, AnswerStays
       DEF Start, Loop, Truncate, Write, Heartbeat, TypeOK, Goto
  <2> QED BY <2>1, <2>2
<1>5. ASSUME NEW a \in Agents, AnswerRegister(a) PROVE AnswerTrue(b)'
  <2>1. CASE a = b
    <3>1. state[a].hash \in Hashes
      BY <1>2, <1>5 DEF AnswerRegister, TypeOK, States
    <3> DEFINE entry == sensors'[state[a].hash]
    <3>2. entry \in Entries
      BY <1>2, <1>5, <3>1, EnterType DEF AnswerRegister
    <3>3. answer'[a] = AnswerOf(entry) /\ pc'[a] = "register" /\ state'[a] = state[a]
      BY <1>2, <1>5 DEF AnswerRegister, TypeOK
    <3> QED BY <2>1, <3>2, <3>3, DistinctAssumption DEF AnswerTrue, AnswerOf, Entries
  <2>2. CASE a # b
    BY <1>1, <1>2, <1>5, <2>2, AnswerStays DEF AnswerRegister, TypeOK
  <2> QED BY <2>1, <2>2
<1>6. ASSUME NEW a \in Agents, AnswerVerify(a) PROVE AnswerTrue(b)'
  <2>1. CASE a = b
    <3> DEFINE entry == sensors[state[a].hash]
    <3>1. pc'[a] = "verify" /\ state'[a] = state[a] /\ sensors' = sensors
      BY <1>6 DEF AnswerVerify
    <3>2. CASE entry # None /\ entry.uuid = state[a].uuid
      <4>1. answer'[a] = AnswerOf(entry)
        BY <1>2, <1>6, <3>2 DEF AnswerVerify, TypeOK
      <4> QED BY <2>1, <3>1, <3>2, <4>1 DEF AnswerTrue, AnswerOf
    <3>3. CASE ~(entry # None /\ entry.uuid = state[a].uuid)
      <4>1. answer'[a] = Refusal
        BY <1>2, <1>6, <3>3 DEF AnswerVerify, TypeOK
      <4> QED BY <2>1, <3>1, <4>1, NoAnswer
    <3> QED BY <3>2, <3>3
  <2>2. CASE a # b
    BY <1>1, <1>2, <1>6, <2>2, AnswerStays DEF AnswerVerify, TypeOK
  <2> QED BY <2>1, <2>2
<1>7. ASSUME NEW a \in Agents, AnswerError(a) PROVE AnswerTrue(b)'
  <2>1. CASE a = b
    BY <1>2, <1>7, <2>1, NoAnswer DEF AnswerError, TypeOK
  <2>2. CASE a # b
    BY <1>1, <1>2, <1>7, <2>2, AnswerStays DEF AnswerError, TypeOK
  <2> QED BY <2>1, <2>2
<1>8. ASSUME NEW h \in Hashes, LateRegister(h) \/ Claim(h) PROVE AnswerTrue(b)'
  BY <1>1, <1>8, AnswerStays DEF LateRegister, Claim
<1>9. CASE UNCHANGED vars
  BY <1>1, <1>9, AnswerStays DEF vars
<1> QED
  BY <1>3, <1>4, <1>5, <1>6, <1>7, <1>8, <1>9 DEF Next, AgentStep

LEMMA LoopGuardsStep == Inv /\ [Next]_vars => LoopGuards'
<1> SUFFICES ASSUME Inv, [Next]_vars PROVE LoopGuards'
  OBVIOUS
<1> USE DEF Inv, LoopGuards, agentVars, managerVars
<1>1. ASSUME NEW a \in Agents, Loop(a) PROVE LoopGuards'
  BY <1>1 DEF Loop, Goto, TypeOK, Serving
<1>2. ASSUME NEW a \in Agents, Truncate(a) \/ Write(a) \/ Heartbeat(a) PROVE LoopGuards'
  BY <1>2 DEF Truncate, Write, Heartbeat, Goto, TypeOK, Serving
<1>3. ASSUME NEW a \in Agents, Start(a) PROVE LoopGuards'
  <2>1. pc'[a] \notin Serving /\ \A b \in Agents \ {a} : pc'[b] = pc[b]
    BY <1>3 DEF Start, Goto, TypeOK, Serving
  <2>2. \A b \in Agents \ {a} : state'[b] = state[b] /\ mode'[b] = mode[b]
    BY <1>3 DEF Start, TypeOK
  <2> QED BY <2>1, <2>2
<1>4. ASSUME NEW a \in Agents, Register(a) \/ Verify(a) \/ Timeout(a) \/ Crash(a)
      PROVE LoopGuards'
  <2>1. pc'[a] \notin Serving /\ \A b \in Agents \ {a} : pc'[b] = pc[b]
    BY <1>4 DEF Register, Verify, Timeout, Crash, Goto, TypeOK, Serving
  <2>2. mode' = mode /\ \A b \in Agents \ {a} : state'[b] = state[b]
    BY <1>4 DEF Register, Verify, Timeout, Crash, TypeOK
  <2> QED BY <2>1, <2>2
<1>5. ASSUME NEW a \in Agents, AnswerRegister(a) \/ AnswerVerify(a) \/ AnswerError(a)
      PROVE UNCHANGED <<pc, mode, state>>
  BY <1>5 DEF AnswerRegister, AnswerVerify, AnswerError
<1>6. ASSUME NEW h \in Hashes, LateRegister(h) \/ Claim(h)
      PROVE UNCHANGED <<pc, mode, state>>
  BY <1>6 DEF LateRegister, Claim
<1>7. CASE UNCHANGED <<pc, mode, state>>
  BY <1>7
<1> QED BY <1>1, <1>2, <1>3, <1>4, <1>5, <1>6, <1>7 DEF Next, AgentStep, vars

LEMMA InvInit == Init => Inv
BY TypeInit, DistinctAssumption
   DEF Init, Inv, AnswersTrue, IdentityPaired, StatesTruthful, LoopGuards, Serving

LEMMA InvStep == Inv /\ [Next]_vars => Inv'
BY TypeStep, AnswersStep, StatesStep, LoopGuardsStep DEF Inv

THEOREM InvAlways == Spec => []Inv
BY InvInit, InvStep, PTL DEF Spec

\* Under lost, late and refused requests, crashes and shared state files an agent
\* and a file never hold a hash and a uuid of two different sensors.
THEOREM IdentitiesPaired == Spec => []IdentityPaired
<1>1. Inv => IdentityPaired
  BY DEF Inv
<1> QED BY <1>1, InvAlways, PTL

LEMMA Approved == Inv => ActiveIsApproved
BY DEF Inv, TypeOK, StatesTruthful, Truthful, LoopGuards, ActiveIsApproved, Serving

\* No agent with a manager works under an identity of the manager's that the
\* administrator has not claimed, wherever it has it from.
THEOREM ActiveApproved == Spec => []ActiveIsApproved
BY Approved, InvAlways, PTL

(***************************************************************************)
(* Registration implements Enrollment.                                     *)
(***************************************************************************)

Known == Identities({h \in Hashes : sensors[h] # None})
Approvals == Identities({h \in Hashes : Claimed(h)})
ServesAs(a) ==
    IF pc[a] \in Serving /\ mode[a] = "managed" /\ state[a].uuid \in Uuids
    THEN state[a].uuid ELSE None

LEMMA PromiseInit == Init => Promise!Init
BY DEF Init, Promise!Init, Identities, Claimed, Serving

\* An entry more at the manager is an identity given out.
LEMMA EnterPromise ==
    ASSUME TypeOK, NEW h \in Hashes, Enter(h), UNCHANGED <<pc, mode, state>>
    PROVE  [Promise!Next]_(Promise!vars)
<1>1. CASE sensors[h] # None
  BY <1>1 DEF Enter, Promise!vars, Identities, Claimed
<1>2. CASE sensors[h] = None
  <2>1. PICK u \in Uuids :
              /\ \A g \in Hashes : sensors[g] = None \/ sensors[g].uuid # u
              /\ sensors' = [sensors EXCEPT ![h] = [uuid |-> u, claimed |-> FALSE]]
    BY <1>2 DEF Enter
  <2> DEFINE entry == [uuid |-> u, claimed |-> FALSE]
  <2>0. entry \in Entries
    BY DEF Entries
  <2>2. entry # None
    BY <2>0, DistinctAssumption
  <2>3. u \notin Known
    BY <2>1 DEF Known, Identities
  <2>4. Known' = Known \cup {u}
    BY <1>2, <2>1, <2>2 DEF Known, Identities, TypeOK
  <2>5. \A g \in Hashes : Claimed(g)' = Claimed(g)
    BY <1>2, <2>1 DEF Claimed, TypeOK
  <2>6. Approvals' = Approvals
    BY <1>2, <2>1, <2>5 DEF Approvals, Identities, TypeOK, Claimed
  <2>7. Promise!GiveOut(u)
    BY <2>3, <2>4, <2>6 DEF Promise!GiveOut, Known, Approvals
  <2> QED BY <2>7 DEF Promise!Next
<1> QED BY <1>1, <1>2

LEMMA ClaimPromise ==
    ASSUME TypeOK, NEW h \in Hashes, Claim(h)
    PROVE  [Promise!Next]_(Promise!vars)
<1> DEFINE u == sensors[h].uuid
<1>1. sensors[h] \in Entries /\ u \in Uuids
  BY DEF Claim, TypeOK, Entries
<1> DEFINE entry == [sensors[h] EXCEPT !.claimed = TRUE]
<1>0. entry \in Entries /\ entry.uuid = u /\ entry.claimed
  BY <1>1 DEF Entries
<1>2. sensors' = [sensors EXCEPT ![h] = entry] /\ UNCHANGED <<pc, mode, state>>
  BY DEF Claim, agentVars
<1> HIDE DEF entry
<1>3. entry # None
  BY <1>0, DistinctAssumption
<1>4. u \in Known /\ Known' = Known
  BY <1>0, <1>1, <1>2, <1>3, DistinctAssumption DEF Known, Identities, TypeOK
<1>5. Approvals' = Approvals \cup {u}
  <2> DEFINE C == {g \in Hashes : sensors[g] # None /\ sensors[g].claimed}
  <2>1. C' = C \cup {h}
    BY <1>0, <1>2, <1>3 DEF TypeOK
  <2>2. \A g \in Hashes : sensors'[g] # None => sensors'[g].uuid = sensors[g].uuid
    BY <1>0, <1>2 DEF TypeOK
  <2>3. Approvals = {sensors[g].uuid : g \in C} /\ Approvals' = {sensors'[g].uuid : g \in C'}
    BY DEF Approvals, Identities, Claimed
  <2>4. \A g \in C' : g \in Hashes /\ sensors'[g] # None
    OBVIOUS
  <2>5. {sensors'[g].uuid : g \in C'} = {sensors[g].uuid : g \in C'}
    BY <2>2, <2>4
  <2> HIDE DEF C
  <2> QED BY <2>1, <2>3, <2>5
<1>6. Promise!Approve(u)
  BY <1>2, <1>4, <1>5 DEF Promise!Approve, Known, Approvals
<1> QED BY <1>1, <1>6 DEF Promise!Next

\* An agent that leaves the loop with a claimed identity begins to serve.
LEMMA LoopPromise ==
    ASSUME Inv, NEW a \in Agents, Loop(a)
    PROVE  [Promise!Next]_(Promise!vars)
<1> USE DEF Inv
<1>1. /\ UNCHANGED <<mode, state, sensors>>
      /\ pc[a] = "loop" /\ ServesAs(a) = None
      /\ \A b \in Agents \ {a} : pc'[b] = pc[b]
  BY DEF Loop, Goto, TypeOK, ServesAs, Serving, managerVars
<1>2. Known' = Known /\ Approvals' = Approvals
  BY <1>1 DEF Known, Approvals, Identities, Claimed
<1>3. \A b \in Agents \ {a} : ServesAs(b)' = ServesAs(b)
  BY <1>1 DEF ServesAs
<1>4. CASE ServesAs(a)' = None
  <2>1. \A b \in Agents : ServesAs(b)' = ServesAs(b)
    BY <1>1, <1>3, <1>4
  <2> QED BY <1>2, <2>1 DEF Promise!vars, Known, Approvals, ServesAs
<1>5. CASE ServesAs(a)' # None
  <2>1. /\ pc'[a] = "active" /\ mode[a] = "managed" /\ state[a].uuid \in Uuids
        /\ ServesAs(a)' = state[a].uuid
    BY <1>1, <1>5 DEF ServesAs, Loop, Goto, TypeOK, Serving
  <2>2. state[a].status = "claimed" /\ state[a] \in States
    BY <2>1 DEF Loop, Goto, TypeOK
  <2>3. Claimed(state[a].hash) /\ Paired(state[a]) /\ state[a].hash \in Hashes
    BY <2>1, <2>2, DistinctAssumption
       DEF StatesTruthful, Truthful, IdentityPaired, States
  <2>4. state[a].uuid \in Approvals
    BY <2>1, <2>3 DEF Approvals, Identities, Paired
  <2>5. [b \in Agents |-> ServesAs(b)'] =
           [[b \in Agents |-> ServesAs(b)] EXCEPT ![a] = state[a].uuid]
    BY <1>3, <2>1
  <2>6. Promise!Serve(a)
    BY <1>1, <1>2, <2>4, <2>5 DEF Promise!Serve, Known, Approvals, ServesAs
  <2> QED BY <2>6 DEF Promise!Next
<1> QED BY <1>4, <1>5

LEMMA CrashPromise ==
    ASSUME TypeOK, NEW a \in Agents, Crash(a)
    PROVE  [Promise!Next]_(Promise!vars)
<1>1. /\ UNCHANGED <<mode, sensors>> /\ pc'[a] = "off"
      /\ \A b \in Agents \ {a} : pc'[b] = pc[b] /\ state'[b] = state[b]
  BY DEF Crash, Goto, TypeOK
<1>2. Known' = Known /\ Approvals' = Approvals
  BY <1>1 DEF Known, Approvals, Identities, Claimed
<1>3. [b \in Agents |-> ServesAs(b)'] = [[b \in Agents |-> ServesAs(b)] EXCEPT ![a] = None]
  BY <1>1 DEF ServesAs, Serving
<1>4. Promise!Leave(a)
  BY <1>2, <1>3 DEF Promise!Leave, Known, Approvals, ServesAs
<1> QED BY <1>4 DEF Promise!Next

LEMMA PromiseStep == Inv /\ [Next]_vars => [Promise!Next]_(Promise!vars)
<1> SUFFICES ASSUME Inv, [Next]_vars PROVE [Promise!Next]_(Promise!vars)
  OBVIOUS
<1> USE DEF Inv, agentVars, managerVars
\* The other steps show nothing of themselves.
<1>1. ASSUME sensors' = sensors, \A a \in Agents : ServesAs(a)' = ServesAs(a)
      PROVE  [Promise!Next]_(Promise!vars)
  BY <1>1 DEF Promise!vars, ServesAs, Identities, Claimed
<1>2. ASSUME NEW a \in Agents, Start(a) PROVE [Promise!Next]_(Promise!vars)
  <2>1. sensors' = sensors /\ pc[a] \notin Serving /\ pc'[a] \notin Serving
    BY <1>2 DEF Start, Goto, TypeOK, Serving
  <2>2. \A b \in Agents \ {a} : pc'[b] = pc[b] /\ state'[b] = state[b] /\ mode'[b] = mode[b]
    BY <1>2 DEF Start, Goto, TypeOK
  <2> QED BY <1>1, <2>1, <2>2 DEF ServesAs
<1>3. ASSUME NEW a \in Agents, Register(a) \/ Verify(a) \/ Timeout(a)
      PROVE [Promise!Next]_(Promise!vars)
  <2>1. sensors' = sensors /\ mode' = mode /\ pc[a] \notin Serving /\ pc'[a] \notin Serving
    BY <1>3 DEF Register, Verify, Timeout, Goto, TypeOK, Serving
  <2>2. \A b \in Agents \ {a} : pc'[b] = pc[b] /\ state'[b] = state[b]
    BY <1>3 DEF Register, Verify, Timeout, Goto, TypeOK
  <2> QED BY <1>1, <2>1, <2>2 DEF ServesAs
<1>4. ASSUME NEW a \in Agents, Truncate(a) \/ Write(a) \/ Heartbeat(a)
      PROVE [Promise!Next]_(Promise!vars)
  <2>1. /\ UNCHANGED <<sensors, mode, state>>
        /\ pc'[a] \in Serving <=> pc[a] \in Serving
    BY <1>4 DEF Truncate, Write, Heartbeat, Goto, TypeOK, Serving
  <2>2. \A b \in Agents \ {a} : pc'[b] = pc[b]
    BY <1>4 DEF Truncate, Write, Heartbeat, Goto, TypeOK
  <2> QED BY <1>1, <2>1, <2>2 DEF ServesAs
<1>5. ASSUME NEW a \in Agents, AnswerRegister(a) PROVE [Promise!Next]_(Promise!vars)
  <2>1. state[a].hash \in Hashes
    BY <1>5 DEF AnswerRegister, TypeOK, States
  <2> QED BY <1>5, <2>1, EnterPromise DEF AnswerRegister
<1>6. ASSUME NEW a \in Agents, AnswerVerify(a) \/ AnswerError(a)
      PROVE [Promise!Next]_(Promise!vars)
  BY <1>1, <1>6 DEF AnswerVerify, AnswerError, ServesAs
<1>7. ASSUME NEW h \in Hashes, LateRegister(h) PROVE [Promise!Next]_(Promise!vars)
  BY <1>7, EnterPromise DEF LateRegister
<1>8. CASE UNCHANGED vars
  BY <1>1, <1>8 DEF vars, ServesAs
<1> QED
  BY <1>2, <1>3, <1>4, <1>5, <1>6, <1>7, <1>8, LoopPromise, CrashPromise, ClaimPromise
     DEF Next, AgentStep

\* Agents register, lose answers, crash and restart in any way, and still only
\* identities that the manager gave out and an administrator claimed are served.
THEOREM PromiseKept == Spec => KeepsPromise
BY PromiseInit, PromiseStep, InvAlways, PTL DEF Spec, KeepsPromise, Promise!Spec

(***************************************************************************)
(* The state file is up to date whenever its only writer is not saving.    *)
(***************************************************************************)

\* Memory and file agree but while a save is under way, which a crash may cut short
\* (a new life without a uuid begins then); verify is only sent for a registered
\* state, so that the answer "registered", which is not saved, changes nothing.
Saved(a) ==
    /\ pc[a] \in {"loop", "register", "verify", "active"} /\ state[a].uuid # None =>
          file[StateFile(a)] = state[a]
    /\ pc[a] \in {"write", "rewrite"} => file[StateFile(a)] = Empty
    /\ pc[a] = "verify" => state[a].status = "registered"

AllSaved == \A a \in Agents : OwnsFile(a) /\ Writable(a) => Saved(a)

\* Nothing that Saved(a) speaks of has changed.
LEMMA SavedSame ==
    ASSUME NEW a \in Agents, Saved(a), role' = role, pc'[a] = pc[a],
           state'[a] = state[a], file'[StateFile(a)] = file[StateFile(a)]
    PROVE  Saved(a)'
BY DEF Saved, StateFile

LEMMA OwnFile ==
    ASSUME TypeOK, NEW a \in Agents, OwnsFile(a), NEW b \in Agents, b # a, NEW content,
           file' = [file EXCEPT ![StateFile(b)] = content]
    PROVE  file'[StateFile(a)] = file[StateFile(a)]
BY StateFileType DEF OwnsFile, TypeOK

\* The step of one agent leaves the files of the agents that have one alone.
LEMMA OthersSaved ==
    ASSUME TypeOK, NEW a \in Agents, OwnsFile(a), Saved(a), NEW b \in Agents, b # a,
           \/ Start(b) \/ AgentStep(b) \/ Heartbeat(b) \/ Timeout(b) \/ Crash(b)
           \/ AnswerRegister(b) \/ AnswerVerify(b) \/ AnswerError(b)
    PROVE  Saved(a)'
<1> USE DEF agentVars, managerVars
<1>1. role' = role /\ pc'[a] = pc[a] /\ state'[a] = state[a]
  <2>1. CASE Start(b) \/ Timeout(b) \/ Crash(b)
    BY <2>1 DEF Start, Timeout, Crash, Goto, TypeOK
  <2>2. CASE AgentStep(b)
    BY <2>2 DEF AgentStep, Loop, Register, Verify, Truncate, Write, Goto, TypeOK
  <2>3. CASE Heartbeat(b) \/ AnswerRegister(b) \/ AnswerVerify(b) \/ AnswerError(b)
    BY <2>3 DEF Heartbeat, AnswerRegister, AnswerVerify, AnswerError, Goto, TypeOK
  <2> QED BY <2>1, <2>2, <2>3
<1>2. CASE Truncate(b) \/ Write(b)
  <2>1. file' = file \/ \E content : file' = [file EXCEPT ![StateFile(b)] = content]
    BY <1>2 DEF Truncate, Write
  <2> QED BY <1>1, <2>1, OwnFile, SavedSame
<1>3. CASE ~(Truncate(b) \/ Write(b))
  <2>1. file' = file
    BY <1>3 DEF Start, AgentStep, Loop, Register, Verify, Heartbeat, Timeout, Crash,
                AnswerRegister, AnswerVerify, AnswerError
  <2> QED BY <1>1, <2>1, SavedSame
<1> QED BY <1>2, <1>3

LEMMA StartSaved ==
    ASSUME TypeOK, NEW a \in Agents, Start(a)
    PROVE  Saved(a)'
<1>1. PICK m \in Modes, s \in Loaded(a) :
            /\ state' = [state EXCEPT ![a] = Configured(a, m, s)]
            /\ Goto(a, IF m = "forced" \/ Configured(a, m, s) # s
                       THEN "truncate" ELSE "loop")
  BY DEF Start
<1>2. /\ state'[a] = Configured(a, m, s)
      /\ UNCHANGED <<role, file>>
  BY <1>1 DEF Start, TypeOK
<1>3. CASE m = "forced" \/ Configured(a, m, s) # s
  <2>1. pc'[a] = "truncate"
    BY <1>1, <1>3 DEF Goto, TypeOK
  <2> QED BY <2>1 DEF Saved
<1>4. CASE ~(m = "forced" \/ Configured(a, m, s) # s)
  <2>1. pc'[a] = "loop" /\ state'[a] = s
    BY <1>1, <1>2, <1>4 DEF Goto, TypeOK
  <2>2. s = file[StateFile(a)] \/ s.uuid = None
    BY LoadedType
  <2> QED BY <1>2, <2>1, <2>2 DEF Saved, StateFile
<1> QED BY <1>3, <1>4

LEMMA VerifySaved ==
    ASSUME TypeOK, NEW a \in Agents, Saved(a), Verify(a)
    PROVE  Saved(a)'
<1>1. /\ pc[a] = "verify" /\ state[a] \in States /\ state[a].status = "registered"
      /\ UNCHANGED <<role, file>>
  BY DEF Verify, TypeOK, Saved
<1>2. CASE pc'[a] = "truncate"
  BY <1>2 DEF Saved
<1>3. CASE pc'[a] # "truncate"
  <2>1. pc'[a] = "loop"
    BY <1>3 DEF Verify, Goto, TypeOK
  <2>2. state'[a] = state[a]
    <3>1. CASE answer[a] = Refusal
      BY <3>1 DEF Verify
    <3>2. CASE answer[a] # Refusal
      <4>1. answer[a] \in Answers /\ answer[a].status # "claimed"
        BY <1>3, <3>2 DEF Verify, Goto, TypeOK
      <4>2. answer[a].status = state[a].status
        BY <1>1, <4>1 DEF Answers
      <4>3. state'[a] = [state[a] EXCEPT !.status = answer[a].status]
        BY <3>2 DEF Verify, TypeOK
      <4> QED BY <1>1, <4>2, <4>3 DEF States
    <3> QED BY <3>1, <3>2
  <2> QED BY <1>1, <2>1, <2>2 DEF Saved, StateFile
<1> QED BY <1>2, <1>3

\* The agent's own steps.
LEMMA OwnSaved ==
    ASSUME TypeOK, NEW a \in Agents, Writable(a), Saved(a),
           \/ Start(a) \/ AgentStep(a) \/ Heartbeat(a) \/ Timeout(a) \/ Crash(a)
           \/ AnswerRegister(a) \/ AnswerVerify(a) \/ AnswerError(a)
    PROVE  Saved(a)'
<1> USE DEF agentVars, managerVars
<1>1. CASE Loop(a)
  <2>1. /\ pc[a] = "loop" /\ UNCHANGED <<role, state, file>>
        /\ pc'[a] \in {"active", "register", "verify"}
        /\ pc'[a] = "verify" => state[a].status \notin {"claimed", "unregistered"}
    BY <1>1 DEF Loop, Goto, TypeOK
  <2>2. state[a] \in States
    BY <2>1 DEF TypeOK
  <2>3. pc'[a] = "verify" => state[a].status = "registered"
    BY <2>1, <2>2 DEF States
  <2> QED BY <2>1, <2>3 DEF Saved, StateFile
<1>2. CASE Register(a)
  <2>1. /\ pc[a] = "register" /\ UNCHANGED <<role, file>>
        /\ \/ pc'[a] = "truncate"
           \/ pc'[a] = "loop" /\ state' = state
    BY <1>2 DEF Register, Goto, TypeOK
  <2> QED BY <2>1 DEF Saved, StateFile
<1>3. CASE Truncate(a)
  <2>1. /\ pc'[a] \in {"write", "rewrite"} /\ role' = role
        /\ file' = [file EXCEPT ![StateFile(a)] = Empty]
    BY <1>3 DEF Truncate, Goto, TypeOK
  <2> QED BY <2>1, StateFileType DEF Saved, StateFile, TypeOK
<1>4. CASE Write(a)
  <2>1. file[StateFile(a)] = Empty
    BY <1>4 DEF Write, Saved
  <2>2. /\ pc'[a] \in {"loop", "active"} /\ UNCHANGED <<role, state>>
        /\ file' = [file EXCEPT ![StateFile(a)] = state[a]]
    BY <1>4, <2>1 DEF Write, Goto, TypeOK
  <2>3. file'[StateFile(a)] = state[a] /\ StateFile(a)' = StateFile(a)
    BY <2>2, StateFileType DEF StateFile, TypeOK
  <2> QED BY <2>2, <2>3 DEF Saved
<1>5. CASE Heartbeat(a) \/ Crash(a)
  <2>1. pc'[a] \in {"retruncate", "off"}
    BY <1>5 DEF Heartbeat, Crash, Goto, TypeOK
  <2> QED BY <2>1 DEF Saved
<1>6. CASE Timeout(a)
  <2>1. /\ pc[a] \in {"register", "verify"} /\ pc'[a] = "loop"
        /\ UNCHANGED <<role, state, file>>
    BY <1>6 DEF Timeout, Goto, TypeOK
  <2> QED BY <2>1 DEF Saved, StateFile
<1>7. CASE AnswerRegister(a) \/ AnswerVerify(a) \/ AnswerError(a)
  BY <1>7, SavedSame DEF AnswerRegister, AnswerVerify, AnswerError
<1> QED
  BY <1>1, <1>2, <1>3, <1>4, <1>5, <1>6, <1>7, StartSaved, VerifySaved DEF AgentStep

LEMMA SavedInit == Init => AllSaved
BY DEF Init, AllSaved, Saved

LEMMA SavedStep == TypeOK /\ AllSaved /\ [Next]_vars => AllSaved'
<1> SUFFICES ASSUME TypeOK, AllSaved, [Next]_vars, NEW a \in Agents, OwnsFile(a)', Writable(a)'
             PROVE  Saved(a)'
  BY DEF AllSaved
<1> USE DEF agentVars, managerVars
<1>1. role' = role
  BY DEF Next, vars, Start, AgentStep, Loop, Register, Verify, Truncate, Write, Heartbeat,
         Timeout, Crash, AnswerRegister, AnswerVerify, AnswerError, LateRegister, Claim
<1>2. OwnsFile(a) /\ Writable(a) /\ Saved(a)
  BY <1>1 DEF AllSaved, OwnsFile, StateFile, Writable
<1>3. ASSUME NEW h \in Hashes, LateRegister(h) \/ Claim(h) PROVE Saved(a)'
  BY <1>2, <1>3, SavedSame DEF LateRegister, Claim
<1>4. CASE UNCHANGED vars
  BY <1>2, <1>4, SavedSame DEF vars
<1> QED
  BY <1>2, <1>3, <1>4, OthersSaved, OwnSaved DEF Next

\* A crash of an agent that is at work and not just saving loses no identity,
\* whatever requests are late, lost or refused and wherever the others run, if its
\* state file can be written, which it cannot in a sandbox, and is its own.
THEOREM IdentitySaved == Spec => []ActiveIsSaved
<1>1. AllSaved => ActiveIsSaved
  BY DEF AllSaved, Saved, OwnsFile, ActiveIsSaved
<1> QED BY <1>1, SavedInit, SavedStep, TypeCorrect, PTL DEF Spec
=============================================================================
