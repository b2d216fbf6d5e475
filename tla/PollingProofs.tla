---------------------------- MODULE PollingProofs ----------------------------
(***************************************************************************)
(* Theorems about Polling, for any configuration, subtree, probes, chunks  *)
(* and bounds, and whatever the network loses, repeats and reorders.       *)
(***************************************************************************)
EXTENDS Polling, SnmpProofs, FiniteSetTheorems

-----------------------------------------------------------------------------
(* The exchange: every request is answered once and with its own answer, so that the tools *)
(* may be looked at as if they called the agents.                                          *)

Exchanged(a) == [ask |-> a, answer |-> AnswerTo(a)]

\* What the tool waits for is the next thing that it has to ask.
PendingOK ==
    request # None => /\ request = [id |-> Len(log) + 1, ask |-> request.ask]
                      /\ request.ask \in AskOn
                      /\ status = "polling"

\* Only what belongs to the pending request has its number.
PacketOK(p) ==
    /\ p.id \in 1..(Len(log) + 1)
    /\ p = [id |-> p.id, ask |-> p.ask] \/ p = [id |-> p.id, answer |-> p.answer]
    /\ p.id = Len(log) + 1 /\ status = "polling" => request # None
    /\ p.id = Len(log) + 1 /\ request # None =>
          IF IsRequest(p) THEN p.ask = request.ask
          ELSE Answers(request.ask) /\ p.answer = AnswerTo(request.ask)

PacketsOK == \A p \in net : PacketOK(p)

ExchangeInv ==
    /\ \E S : log \in Seq(S)
    /\ kind \in Kinds /\ status \in {"polling", "done", "gaveUp"} /\ retries \in 0..MaxRetries
    /\ PendingOK
    /\ status = "done" => AskOn = {}
    /\ IsFiniteSet(net) /\ Cardinality(net) <= MaxInFlight
    /\ PacketsOK
    /\ AnswersMatch

LEMMA ExchangeInit == Init => ExchangeInv
<1> SUFFICES ASSUME Init PROVE ExchangeInv
  OBVIOUS
<1>1. log \in Seq({}) /\ Len(log) = 0
  BY DEF Init
<1>2. IsFiniteSet(net) /\ Cardinality(net) <= MaxInFlight
  BY PollingAssumption, FS_EmptySet DEF Init
<1> QED
  BY <1>1, <1>2, PollingAssumption DEF Init, ExchangeInv, PendingOK, PacketsOK, AnswersMatch

\* What is asked next depends on what the tool does and was told.
LEMMA AskOnSame == ASSUME kind' = kind, log' = log PROVE AskOn' = AskOn
BY DEF AskOn, WalkOn, Bindings, InTree, ReadOn, Headers, DataOf, Record, CrawlOn, Asked, Linked,
       Get, Pdu, Command, Sdr, Reading, Opening

\* The network keeps packets that are on their way or are sent.
LEMMA SentOK ==
    ASSUME IsFiniteSet(net), Cardinality(net) <= MaxInFlight, NEW base \in SUBSET net, NEW p,
           NEW packets \in Sent(base, p)
    PROVE  /\ packets \subseteq net \cup {p}
           /\ IsFiniteSet(packets) /\ Cardinality(packets) <= MaxInFlight
<1>1. /\ IsFiniteSet(base) /\ Cardinality(base) <= Cardinality(net)
      /\ Cardinality(base) \in Nat /\ Cardinality(net) \in Nat
  BY FS_Subset, FS_CardinalityType
<1>2. CASE Cardinality(base \cup {p}) <= MaxInFlight
  <2>1. packets = base \cup {p}
    BY <1>2 DEF Sent
  <2> QED BY <1>1, <1>2, <2>1, FS_AddElement
<1>3. CASE ~(Cardinality(base \cup {p}) <= MaxInFlight)
  <2>1. PICK q \in base : packets = (base \ {q}) \cup {p}
    BY <1>3 DEF Sent
  <2>2. IsFiniteSet(base \ {q}) /\ Cardinality(base \ {q}) = Cardinality(base) - 1
    BY <1>1, FS_RemoveElement
  <2>3. /\ IsFiniteSet((base \ {q}) \cup {p})
        /\ Cardinality((base \ {q}) \cup {p}) <= Cardinality(base \ {q}) + 1
    <3> DEFINE rest == base \ {q}
    <3>1. IsFiniteSet(rest) /\ Cardinality(rest) \in Nat
      BY <2>2, FS_CardinalityType
    <3> HIDE DEF rest
    <3>2. /\ IsFiniteSet(rest \cup {p})
          /\ Cardinality(rest \cup {p}) =
                IF p \in rest THEN Cardinality(rest) ELSE Cardinality(rest) + 1
      BY <3>1, FS_AddElement, Zenon
    <3>3. Cardinality(rest \cup {p}) <= Cardinality(rest) + 1
      BY <3>1, <3>2
    <3> QED BY <3>2, <3>3 DEF rest
  <2>4. Cardinality(packets) \in Nat
    BY <2>1, <2>3, FS_CardinalityType
  <2> QED BY <1>1, <2>1, <2>2, <2>3, <2>4, PollingAssumption
<1> QED BY <1>2, <1>3

LEMMA RemovedOK ==
    ASSUME IsFiniteSet(net), Cardinality(net) <= MaxInFlight, NEW packets \in SUBSET net
    PROVE  IsFiniteSet(packets) /\ Cardinality(packets) <= MaxInFlight
<1>1. /\ IsFiniteSet(packets) /\ Cardinality(packets) <= Cardinality(net)
      /\ Cardinality(packets) \in Nat /\ Cardinality(net) \in Nat
  BY FS_Subset, FS_CardinalityType
<1> QED BY <1>1, PollingAssumption

\* The pending request is answered, and nothing else is noted.
Answering ==
    /\ request # None /\ status = "polling"
    /\ request.ask \in AskOn /\ Answers(request.ask)
    /\ log' = Append(log, Exchanged(request.ask))
    /\ request' = None
    /\ UNCHANGED <<kind, status>>

LEMMA AppendLog ==
    ASSUME \E S : log \in Seq(S), NEW e, log' = Append(log, e)
    PROVE  /\ Len(log) \in Nat /\ Len(log') = Len(log) + 1
           /\ \A i \in 1..Len(log) : log'[i] = log[i]
           /\ log'[Len(log) + 1] = e
           /\ (\E S : log \in Seq(S))'
<1>1. PICK S : log \in Seq(S)
  OBVIOUS
<1> DEFINE T == S \cup {e}
<1>2. log \in Seq(T) /\ e \in T /\ Len(log) \in Nat
  BY <1>1
<1> HIDE DEF T
<1>3. /\ log' \in Seq(T) /\ Len(log') = Len(log) + 1
      /\ \A i \in 1..Len(log) : log'[i] = log[i]
      /\ log'[Len(log) + 1] = e
  BY <1>2, AppendProperties
<1> QED BY <1>2, <1>3

LEMMA TakeAnswers ==
    ASSUME ExchangeInv, NEW p \in net, Take(p)
    PROVE  Answering
<1>1. p.id = Len(log) + 1 /\ ~IsRequest(p) /\ request # None /\ PacketOK(p)
  BY DEF ExchangeInv, PacketsOK, PendingOK, Take
<1>2. Answers(request.ask) /\ p.answer = AnswerTo(request.ask)
  BY <1>1 DEF PacketOK
<1> QED BY <1>2 DEF ExchangeInv, PendingOK, Take, Answering, Exchanged

\* Nothing is noted; what is sent belongs to the pending request or to an earlier one.
LEMMA QuietKeeps ==
    ASSUME ExchangeInv, kind' = kind, log' = log, retries' \in 0..MaxRetries,
           status' \in {"polling", "done", "gaveUp"},
           IsFiniteSet(net'), Cardinality(net') <= MaxInFlight,
           PendingOK', status' = "done" => AskOn = {}, PacketsOK'
    PROVE  ExchangeInv'
BY AskOnSame DEF ExchangeInv, AnswersMatch

\* A request that is sent belongs to its number.
LEMMA RequestOK ==
    ASSUME ExchangeInv, NEW r, r = [id |-> Len(log) + 1, ask |-> r.ask],
           log' = log, status' = status, status = "polling", request' = r
    PROVE  PacketOK(r)' /\ request' # None
<1>1. r.id = Len(log) + 1 /\ Len(log) \in Nat
  BY LenProperties DEF ExchangeInv
<1>2. r # None
  BY <1>1 DEF None
<1>3. IsRequest(r)
  BY DEF IsRequest
<1> QED BY <1>1, <1>2, <1>3 DEF PacketOK, IsRequest

LEMMA ExchangeNext == ASSUME ExchangeInv, [Next]_vars PROVE ExchangeInv'
<1>1. CASE Ask
  <2>1. PICK a \in AskOn : request' = [id |-> Len(log) + 1, ask |-> a]
    BY <1>1 DEF Ask
  <2>0. PICK r : r = request'
    OBVIOUS
  <2>2. PacketOK(r)' /\ request' # None
    BY <1>1, <2>1, <2>0, RequestOK DEF Ask
  <2>3. net' \subseteq net \cup {r} /\ IsFiniteSet(net') /\ Cardinality(net') <= MaxInFlight
    BY <1>1, <2>0, SentOK DEF Ask, ExchangeInv
  <2>4. \A p \in net : p.id # Len(log) + 1 /\ PacketOK(p)
    BY <1>1 DEF Ask, ExchangeInv, PacketsOK, PacketOK
  <2>5. PacketsOK'
    <3> SUFFICES ASSUME NEW p \in net' PROVE PacketOK(p)'
      BY DEF PacketsOK
    <3>1. CASE p \in net
      BY <1>1, <2>4, <3>1 DEF Ask, PacketOK, IsRequest
    <3> QED BY <2>2, <2>3, <3>1
  <2>6. PendingOK'
    BY <1>1, <2>1, AskOnSame DEF Ask, PendingOK
  <2> QED BY <1>1, <2>3, <2>5, <2>6, QuietKeeps DEF Ask, ExchangeInv
<1>2. CASE Retry
  <2>0. PICK r : r = request
    OBVIOUS
  <2>1. PacketOK(r)'
    BY <1>2, <2>0, RequestOK DEF Retry, ExchangeInv, PendingOK
  <2>2. net' \subseteq net \cup {r} /\ IsFiniteSet(net') /\ Cardinality(net') <= MaxInFlight
    BY <1>2, <2>0, SentOK DEF Retry, ExchangeInv
  <2>3. PacketsOK'
    <3> SUFFICES ASSUME NEW p \in net' PROVE PacketOK(p)'
      BY DEF PacketsOK
    <3>1. CASE p \in net
      BY <1>2, <3>1 DEF Retry, PacketOK, PacketsOK, IsRequest, ExchangeInv
    <3> QED BY <2>1, <2>2, <3>1
  <2>4. PendingOK'
    BY <1>2, AskOnSame DEF Retry, PendingOK, ExchangeInv
  <2>5. retries' \in 0..MaxRetries
    BY <1>2, PollingAssumption DEF Retry, ExchangeInv
  <2> QED BY <1>2, <2>2, <2>3, <2>4, <2>5, QuietKeeps DEF Retry, ExchangeInv
<1>3. CASE GiveUp
  <2>1. PacketsOK'
    BY <1>3 DEF GiveUp, PacketOK, PacketsOK, ExchangeInv
  <2>2. PendingOK'
    BY <1>3 DEF GiveUp, PendingOK, None
  <2> QED BY <1>3, <2>1, <2>2, QuietKeeps DEF GiveUp, ExchangeInv
<1>4. CASE Finish
  <2>1. PacketsOK'
    BY <1>4 DEF Finish, PacketOK, PacketsOK, ExchangeInv
  <2>2. PendingOK'
    BY <1>4 DEF Finish, PendingOK
  <2> QED BY <1>4, <2>1, <2>2, QuietKeeps DEF Finish, ExchangeInv
<1>5. ASSUME NEW p \in net, Respond(p) PROVE ExchangeInv'
  <2> DEFINE answer == [id |-> p.id, answer |-> AnswerTo(p.ask)]
  <2>1. PICK packets \in {net, net \ {p}} :
            net' \in IF Answers(p.ask) THEN Sent(packets, answer) ELSE {packets}
    BY <1>5 DEF Respond, ResponseId
  <2>2. \A q \in net : PacketOK(q)'
    BY <1>5 DEF Respond, PacketOK, PacketsOK, ExchangeInv, IsRequest
  <2>3. IsRequest(p) /\ PacketOK(p)
    BY <1>5 DEF Respond, ExchangeInv, PacketsOK
  <2>4. Answers(p.ask) => PacketOK(answer)'
    <3>1. answer.id = p.id /\ answer.answer = AnswerTo(p.ask) /\ ~IsRequest(answer)
      BY DEF IsRequest
    <3>2. ~IsRequest(answer)'
      BY DEF IsRequest
    <3> HIDE DEF answer
    <3> QED BY <1>5, <2>3, <3>1, <3>2 DEF Respond, PacketOK, answer
  <2> HIDE DEF answer
  <2>5. /\ net' \subseteq net \cup (IF Answers(p.ask) THEN {answer} ELSE {})
        /\ IsFiniteSet(net') /\ Cardinality(net') <= MaxInFlight
    <3>1. packets \in SUBSET net
      BY <2>1
    <3>2. CASE Answers(p.ask)
      BY <2>1, <3>1, <3>2, SentOK DEF ExchangeInv
    <3>3. CASE ~Answers(p.ask)
      BY <2>1, <3>1, <3>3, FS_Subset, FS_CardinalityType, PollingAssumption DEF ExchangeInv
    <3> QED BY <3>2, <3>3
  <2>6. PacketsOK'
    <3> SUFFICES ASSUME NEW q \in net' PROVE PacketOK(q)'
      BY DEF PacketsOK
    <3> QED BY <2>2, <2>4, <2>5
  <2>7. PendingOK'
    BY <1>5, AskOnSame DEF Respond, PendingOK, ExchangeInv
  <2> QED BY <1>5, <2>5, <2>6, <2>7, QuietKeeps DEF Respond, ExchangeInv
<1>6. ASSUME NEW p \in net, Lose(p) PROVE ExchangeInv'
  <2>1. IsFiniteSet(net') /\ Cardinality(net') <= MaxInFlight
    BY <1>6, RemovedOK DEF Lose, ExchangeInv
  <2>2. PacketsOK'
    BY <1>6 DEF Lose, PacketOK, PacketsOK, ExchangeInv, IsRequest
  <2>3. PendingOK'
    BY <1>6, AskOnSame DEF Lose, PendingOK, ExchangeInv
  <2> QED BY <1>6, <2>1, <2>2, <2>3, QuietKeeps DEF Lose, ExchangeInv
<1>7. ASSUME NEW p \in net, Take(p) PROVE ExchangeInv'
  <2>1. Answering
    BY <1>7, TakeAnswers
  <2>2. PICK e : e = Exchanged(request.ask)
    OBVIOUS
  <2>3. Len(log) \in Nat /\ (\E S : log \in Seq(S))'
    BY <2>1, <2>2, AppendLog DEF Answering, ExchangeInv
  <2>4. /\ Len(log') = Len(log) + 1
        /\ \A i \in 1..Len(log) : log'[i] = log[i]
        /\ log'[Len(log) + 1] = Exchanged(request.ask)
    BY <2>1, <2>2, AppendLog DEF Answering, ExchangeInv
  <2>5. AnswersMatch'
    <3> SUFFICES ASSUME NEW i \in 1..Len(log')
                 PROVE  Answers(log'[i].ask) /\ log'[i].answer = AnswerTo(log'[i].ask)
      BY DEF AnswersMatch
    <3>1. CASE i \in 1..Len(log)
      BY <2>4, <3>1 DEF ExchangeInv, AnswersMatch
    <3>2. CASE i = Len(log) + 1
      BY <2>1, <2>4, <3>2 DEF Answering, Exchanged
    <3> QED BY <2>3, <2>4, <3>1, <3>2
  <2>6. IsFiniteSet(net') /\ Cardinality(net') <= MaxInFlight /\ net' \subseteq net
    BY <1>7, RemovedOK DEF Take, ExchangeInv
  <2>7. PacketsOK'
    BY <2>1, <2>3, <2>4, <2>6 DEF PacketOK, PacketsOK, ExchangeInv, Answering
  <2>8. PendingOK'
    BY <2>1 DEF PendingOK, Answering
  <2>9. retries' \in 0..MaxRetries
    BY <1>7, PollingAssumption DEF Take
  <2> QED BY <2>1, <2>3, <2>5, <2>6, <2>7, <2>8, <2>9 DEF ExchangeInv, Answering
<1>8. CASE UNCHANGED vars
  <2>1. PendingOK'
    BY <1>8, AskOnSame DEF vars, PendingOK, ExchangeInv
  <2>2. PacketsOK'
    BY <1>8 DEF vars, PacketOK, PacketsOK, ExchangeInv, IsRequest
  <2> QED BY <1>8, <2>1, <2>2, QuietKeeps DEF vars, ExchangeInv
<1> QED BY <1>1, <1>2, <1>3, <1>4, <1>5, <1>6, <1>7, <1>8 DEF Next, Tool

LEMMA ExchangeAlways == Spec => []ExchangeInv
BY ExchangeInit, ExchangeNext, PTL DEF Spec

\* The variables have their types, and no packet has a number that was not asked yet.
THEOREM TypeCorrect == Spec => []TypeOK
<1>1. ExchangeInv => TypeOK
  <2> SUFFICES ASSUME ExchangeInv PROVE TypeOK
    OBVIOUS
  <2>1. request # None => request.id = Len(log) + 1
    BY DEF ExchangeInv, PendingOK
  <2>2. \A p \in net : p.id \in 1..(Len(log) + 1)
    BY DEF ExchangeInv, PacketsOK, PacketOK
  <2> QED BY <2>1, <2>2 DEF ExchangeInv, TypeOK
<1> QED BY <1>1, ExchangeAlways, PTL

\* Every request is answered with what the agent says to this request and to no other one,
\* whatever is lost, repeated, delayed and reordered: the number that an answer gives
\* back is enough to tell them apart.
THEOREM AnswersMatchAlways == Spec => []AnswersMatch
<1>1. ExchangeInv => AnswersMatch
  BY DEF ExchangeInv
<1> QED BY <1>1, ExchangeAlways, PTL

\* What a step does to the log: nothing, or one question of the tool with its answer.
LEMMA LogStep ==
    ASSUME ExchangeInv, [Next]_vars
    PROVE  /\ kind' = kind
           /\ \/ log' = log
              \/ \E a \in AskOn : Answers(a) /\ log' = Append(log, Exchanged(a))
<1>1. ASSUME NEW p \in net, Take(p)
      PROVE  kind' = kind /\ \E a \in AskOn : Answers(a) /\ log' = Append(log, Exchanged(a))
  BY <1>1, TakeAnswers DEF Answering
<1> QED BY <1>1 DEF Next, Tool, Ask, Retry, GiveUp, Finish, Respond, Lose, vars

-----------------------------------------------------------------------------
(* Walks. *)

\* The order of RFC 3416 is isLess.
LEMMA BeforeIsLess ==
    ASSUME NEW a \in OID, NEW b \in OID
    PROVE  Before(a, b) <=> IsLess(a, b)
<1>0. Len(a) \in Nat /\ Len(b) \in Nat
  BY OidIs
<1>1. /\ Len(a) \in Nat /\ Len(b) \in Nat /\ DOMAIN a = 1..Len(a) /\ DOMAIN b = 1..Len(b)
      /\ \A m \in 1..Len(a) : a[m] \in Nat
      /\ \A m \in 1..Len(b) : b[m] \in Nat
  BY OidIs
<1>2. ASSUME NEW k \in 1..Len(a), k \in 1..Len(b)
      PROVE  SubSeq(a, 1, k - 1) = SubSeq(b, 1, k - 1) <=> \A m \in 1..(k - 1) : a[m] = b[m]
  <2>1. k - 1 \in Int /\ \A m \in 1..(k - 1) : a[m] \in Nat /\ b[m] \in Nat
    BY <1>1, <1>2
  <2>2. /\ SubSeq(a, 1, k - 1) \in Seq(Nat) /\ Len(SubSeq(a, 1, k - 1)) = k - 1
        /\ \A i \in 1..(k - 1) : SubSeq(a, 1, k - 1)[i] = a[i]
    BY <1>1, <2>1, SubSeqProperties
  <2>3. /\ SubSeq(b, 1, k - 1) \in Seq(Nat) /\ Len(SubSeq(b, 1, k - 1)) = k - 1
        /\ \A i \in 1..(k - 1) : SubSeq(b, 1, k - 1)[i] = b[i]
    BY <1>1, <2>1, SubSeqProperties
  <2> QED BY <2>2, <2>3, SeqEqual
<1>3. IsStrictPrefix(a, b) <=> Len(a) < Len(b) /\ \A m \in 1..Len(a) : a[m] = b[m]
  <2>1. a = b <=> Len(a) = Len(b) /\ \A m \in 1..Len(a) : a[m] = b[m]
    BY SeqEqual DEF OID
  <2>2. IsPrefix(a, b) <=> Len(a) <= Len(b) /\ \A m \in 1..Len(a) : a[m] = b[m]
    BY PrefixIs
  <2>3. ASSUME IsStrictPrefix(a, b)
        PROVE  Len(a) < Len(b) /\ \A m \in 1..Len(a) : a[m] = b[m]
    <3>1. Len(a) <= Len(b) /\ \A m \in 1..Len(a) : a[m] = b[m]
      BY <2>2, <2>3 DEF IsStrictPrefix
    <3>2. Len(a) # Len(b)
      BY <2>1, <2>3, <3>1, Zenon DEF IsStrictPrefix
    <3>3. Len(a) < Len(b)
      BY <1>0, <3>1, <3>2
    <3> QED BY <3>1, <3>3
  <2>4. ASSUME Len(a) < Len(b), \A m \in 1..Len(a) : a[m] = b[m]
        PROVE  IsStrictPrefix(a, b)
    <3>1. Len(a) <= Len(b) /\ Len(a) # Len(b)
      BY <1>0, <2>4
    <3>2. IsPrefix(a, b) /\ a # b
      BY <2>1, <2>2, <2>4, <3>1, Zenon
    <3> QED BY <3>2 DEF IsStrictPrefix
  <2> QED BY <2>3, <2>4
<1>4. ASSUME Before(a, b) PROVE IsLess(a, b)
  <2>1. CASE IsStrictPrefix(a, b)
    <3>1. Len(a) + 1 \in 1..Len(b) /\ \A m \in 1..((Len(a) + 1) - 1) : a[m] = b[m]
      BY <1>1, <1>3, <2>1
    <3> QED BY <1>1, <3>1 DEF IsLess
  <2>2. CASE ~IsStrictPrefix(a, b)
    <3>1. PICK k \in 1..Len(a) : /\ k \in 1..Len(b) /\ a[k] < b[k]
                                  /\ SubSeq(a, 1, k - 1) = SubSeq(b, 1, k - 1)
      BY <1>1, <1>4, <2>2 DEF Before
    <3>2. \A m \in 1..(k - 1) : a[m] = b[m]
      BY <1>2, <3>1
    <3>3. k <= Len(a) + 1
      BY <1>1
    <3> QED BY <3>1, <3>2, <3>3 DEF IsLess
  <2> QED BY <2>1, <2>2
<1>5. ASSUME IsLess(a, b) PROVE Before(a, b)
  <2>1. PICK k \in 1..Len(b) : /\ k <= Len(a) => a[k] < b[k]
                               /\ k <= Len(a) + 1
                               /\ \A m \in 1..(k - 1) : a[m] = b[m]
    BY <1>5 DEF IsLess
  <2>2. CASE k <= Len(a)
    <3>1. k \in 1..Len(a)
      BY <2>2
    <3> QED BY <1>1, <1>2, <2>1, <2>2, <3>1 DEF Before
  <2>3. CASE ~(k <= Len(a))
    <3>1. k = Len(a) + 1
      BY <1>1, <2>1, <2>3
    <3> QED BY <1>1, <1>3, <2>1, <3>1 DEF Before
  <2> QED BY <2>2, <2>3
<1> QED BY <1>4, <1>5

LEMMA RootIsOID == Root \in OID
BY PollingAssumption DEF OID

LEMMA FlattenOne ==
    ASSUME NEW S, NEW s \in Seq(S)
    PROVE  FlattenSeq(<<s>>) = s
<1>1. <<>> \in Seq(Seq(S)) /\ Append(<<>>, s) = <<s>> /\ <<>> \in Seq(S)
  OBVIOUS
<1>2. FlattenSeq(<<s>>) = <<>> \o s
  BY <1>1, FlattenAppend, FlattenEmpty
<1> QED BY <1>2, ConcatEmptySeq

\* The bindings of one answer follow those of the answers before.
LEMMA BindingsMore ==
    ASSUME \E S : log \in Seq(S), NEW e, log' = Append(log, e),
           \A i \in 1..Len(log) : log[i].answer \in Seq(Bindable),
           e.answer \in Seq(Bindable)
    PROVE  /\ Bindings \in Seq(Bindable) /\ Bindings' = Bindings \o e.answer
           /\ (\A i \in 1..Len(log) : log[i].answer \in Seq(Bindable))'
           /\ log = <<>> => Bindings = <<>>
<1> DEFINE n == Len(log)
           ss == [i \in 1..n |-> log[i].answer]
           tt == [i \in 1..(n + 1) |-> log'[i].answer]
<1>1. /\ n \in Nat /\ Len(log') = n + 1
      /\ \A i \in 1..n : log'[i] = log[i]
      /\ log'[n + 1] = e
  BY AppendLog
<1>2. ss \in Seq(Seq(Bindable)) /\ Len(ss) = n
  BY <1>1
<1>3. \A i \in 1..(n + 1) : log'[i].answer \in Seq(Bindable)
  BY <1>1
<1>4. tt \in Seq(Seq(Bindable)) /\ Len(tt) = n + 1
  BY <1>1, <1>3
<1>5. /\ Len(tt) = Len(ss) + 1 /\ tt[Len(ss) + 1] = e.answer
      /\ \A i \in 1..Len(ss) : tt[i] = ss[i]
  <2>1. (\A i \in 1..n : tt[i] = ss[i]) /\ tt[n + 1] = e.answer
    BY <1>1
  <2> HIDE DEF ss, tt
  <2> QED BY <1>2, <1>4, <2>1
<1>6. Bindings = FlattenSeq(ss)
  BY DEF Bindings
<1>7. Bindings' = FlattenSeq(tt)
  BY <1>1 DEF Bindings
<1> HIDE DEF ss, tt
<1>8. FlattenSeq(ss) \in Seq(Bindable) /\ FlattenSeq(tt) = FlattenSeq(ss) \o e.answer
  BY <1>2, <1>4, <1>5, FlattenMore
<1>9. log = <<>> => Bindings = <<>>
  <2> SUFFICES ASSUME log = <<>> PROVE Bindings = <<>>
    OBVIOUS
  <2>1. Len(ss) = 0
    BY <1>2
  <2>2. ss = <<>>
    BY <1>2, <2>1, EmptySeq
  <2> QED BY <1>6, <2>2, FlattenEmpty
<1> QED BY <1>1, <1>3, <1>6, <1>7, <1>8, <1>9

\* One PDU of a walk.
LEMMA WalkAnswer ==
    ASSUME NEW oid \in OID, NEW tag \in {"next", "bulk"}
    PROVE  \E n \in Nat \ {0} : AnswerTo(Pdu(tag, oid)) = Segment(oid, n)
<1> DEFINE pdu == Pdu(tag, oid)
<1>1. AnswerTo(pdu) = HandlePdu(pdu)
  BY DEF AnswerTo, Pdu
<1>2. pdu.tag = tag /\ pdu.vars = <<oid>> /\ pdu.nonRepeaters = 0
      /\ pdu.maxRepetitions = MaxRepetitions
  BY DEF Pdu
<1> HIDE DEF pdu
<1>3. CASE tag = "next"
  <2>1. HandlePdu(pdu) = [i \in 1..1 |-> NextBinding(oid)]
    BY <1>2, <1>3 DEF HandlePdu
  <2>2. Segment(oid, 0) = <<>>
    BY SegmentType, PlacesIs, EmptySeq
  <2>3. Segment(oid, 1) = Append(<<>>, NextBinding(oid))
    <3>1. 1 \in Nat \ {0} /\ 1 - 1 = 0
      OBVIOUS
    <3> QED BY <2>2, <3>1, SegmentStep
  <2>4. [i \in 1..1 |-> NextBinding(oid)] = Append(<<>>, NextBinding(oid))
    OBVIOUS
  <2> QED BY <1>1, <2>1, <2>3, <2>4 DEF pdu
<1>4. CASE tag = "bulk"
  <2>1. MaxRepetitions \in Nat \ {0} /\ Clipped(MaxRepetitions) = MaxRepetitions
    BY PollingAssumption DEF Clipped
  <2>2. ~NonRepeater(pdu, 1)
    BY <1>2 DEF NonRepeater, Clipped
  <2> DEFINE s == Segment(oid, MaxRepetitions)
  <2>3. Repetitions(oid, Clipped(MaxRepetitions)) = s /\ s \in Seq(Bindable)
    BY <2>1, RepetitionsAre, SegmentType
  <2> HIDE DEF s
  <2>4. HandlePdu(pdu) = FlattenSeq([i \in 1..1 |->
            IF NonRepeater(pdu, i) THEN <<NextBinding(oid)>> ELSE s])
    BY <1>2, <1>4, <2>3 DEF HandlePdu
  <2>5. [i \in 1..1 |-> IF NonRepeater(pdu, i) THEN <<NextBinding(oid)>> ELSE s] = <<s>>
    BY <2>2
  <2>6. HandlePdu(pdu) = s
    BY <2>3, <2>4, <2>5, FlattenOne
  <2> QED BY <1>1, <2>1, <2>6 DEF s, pdu
<1> QED BY <1>3, <1>4

\* All that a walk has read is one part of the table, from what follows its root.
WalkInv ==
    kind \in {"walk", "bulkwalk"} =>
        /\ \A i \in 1..Len(log) : log[i].answer \in Seq(Bindable)
        /\ \E n \in Nat : Bindings = Segment(Root, n) /\ (log # <<>> => n # 0)

LEMMA WalkInit == Init => WalkInv
<1> SUFFICES ASSUME Init PROVE WalkInv
  OBVIOUS
<1>1. log = <<>> /\ Len(log) = 0
  BY DEF Init
<1>2. [i \in 1..Len(log) |-> log[i].answer] = <<>>
  BY <1>1
<1>3. Bindings = <<>>
  BY <1>2, FlattenEmpty DEF Bindings
<1>4. Segment(Root, 0) = <<>>
  BY RootIsOID, SegmentType, PlacesIs, EmptySeq
<1> QED BY <1>1, <1>3, <1>4 DEF WalkInv

LEMMA WalkNext == ASSUME ExchangeInv, WalkInv, [Next]_vars PROVE WalkInv'
<1>1. kind' = kind
  BY LogStep
<1>2. CASE log' = log
  <2>1. Bindings' = Bindings
    BY <1>2 DEF Bindings
  <2> QED BY <1>1, <1>2, <2>1 DEF WalkInv
<1>3. CASE \E a \in AskOn : log' = Append(log, Exchanged(a))
  <2> SUFFICES ASSUME kind \in {"walk", "bulkwalk"} PROVE WalkInv'
    BY <1>1 DEF WalkInv
  <2>1. PICK a \in AskOn : log' = Append(log, Exchanged(a))
    BY <1>3
  <2>2. PICK tag \in {"next", "bulk"} : a \in WalkOn(tag)
    BY DEF AskOn
  <2>3. PICK n \in Nat : Bindings = Segment(Root, n) /\ (log # <<>> => n # 0)
    BY DEF WalkInv
  <2>4. \A i \in 1..Len(log) : log[i].answer \in Seq(Bindable)
    BY DEF WalkInv
  <2>5. \E S : log \in Seq(S)
    BY DEF ExchangeInv
  <2>6. PICK e : e = Exchanged(a)
    OBVIOUS
  <2>7. e.answer = AnswerTo(a)
    BY <2>6 DEF Exchanged
  <2>8. CASE log = <<>>
    <3>1. a = Pdu(tag, Root)
      BY <2>2, <2>8 DEF WalkOn
    <3>2. PICK m \in Nat \ {0} : e.answer = Segment(Root, m)
      BY <2>7, <3>1, RootIsOID, WalkAnswer
    <3>3. e.answer \in Seq(Bindable)
      BY <3>2, RootIsOID, SegmentType
    <3>4. /\ Bindings' = <<>> \o e.answer
          /\ (\A i \in 1..Len(log) : log[i].answer \in Seq(Bindable))'
      BY <2>1, <2>4, <2>5, <2>6, <2>8, <3>3, BindingsMore
    <3>5. Bindings' = Segment(Root, m)
      BY <3>2, <3>3, <3>4, ConcatEmptySeq
    <3> QED BY <3>2, <3>4, <3>5 DEF WalkInv
  <2>9. CASE log # <<>>
    <3>1. InTree(Last(Bindings)) /\ a = Pdu(tag, Last(Bindings).name)
      BY <2>2, <2>9 DEF WalkOn
    <3>2. n \in Nat \ {0} /\ Last(Segment(Root, n)).value = "value"
      BY <2>3, <2>9, <3>1 DEF InTree
    <3> DEFINE o == Last(Segment(Root, n)).name
    <3>3. o \in OID /\ a = Pdu(tag, o)
      BY <2>3, <3>1, <3>2, RootIsOID, SegmentConcat
    <3> HIDE DEF o
    <3>4. PICK m \in Nat \ {0} : e.answer = Segment(o, m)
      BY <2>7, <3>3, WalkAnswer
    <3>5. e.answer \in Seq(Bindable)
      BY <3>3, <3>4, SegmentType
    <3>6. /\ Bindings' = Bindings \o e.answer
          /\ (\A i \in 1..Len(log) : log[i].answer \in Seq(Bindable))'
      BY <2>1, <2>4, <2>5, <2>6, <3>5, BindingsMore
    <3>7. Bindings' = Segment(Root, n + m)
      BY <2>3, <3>2, <3>4, <3>6, RootIsOID, SegmentConcat DEF o
    <3>8. n + m \in Nat /\ n + m # 0
      BY <3>2
    <3> QED BY <3>6, <3>7, <3>8 DEF WalkInv
  <2> QED BY <2>8, <2>9
<1> QED BY <1>2, <1>3, LogStep

\* Places of the table are ordered like their identifiers.
LEMMA TableOrder ==
    ASSUME NEW i \in 1..Size, NEW j \in 1..Size
    PROVE  /\ OrderedOIDs[i] \in OID /\ OrderedOIDs[j] \in OID
           /\ i < j => IsLess(OrderedOIDs[i], OrderedOIDs[j])
BY TableIsSorted DEF SortedIn, Size

LEMMA TableHasAll ==
    ASSUME NEW o \in ToSet(Configured)
    PROVE  \E i \in 1..Size : OrderedOIDs[i] = o
BY TableIsSorted, LenProperties DEF ToSet, Size

LEMMA ConfiguredAreOIDs == ToSet(Configured) \subseteq OID
BY ConfiguredAssumption DEF ToSet, OID

LEMMA WalkReadsInOrder == ASSUME ExchangeInv, WalkInv PROVE ReadsInOrder
<1> SUFFICES ASSUME kind \in {"walk", "bulkwalk"} PROVE ReadsInOrder
  BY DEF ReadsInOrder
<1> DEFINE found == {i \in 1..Len(Bindings) : InTree(Bindings[i])}
           read == {Bindings[i].name : i \in found}
           tree == {o \in ToSet(Configured) : IsStrictPrefix(Root, o)}
           s == From(Root)
<1>1. PICK n \in Nat : Bindings = Segment(Root, n) /\ (log # <<>> => n # 0)
  BY DEF WalkInv
<1> DEFINE p == Places(Root, n)
<1>2. /\ Size \in Nat /\ s \in 1..(Size + 1) /\ p \in 0..n
      /\ p = IF n <= Size - s + 2 THEN n ELSE Size - s + 2
      /\ Len(Bindings) = p /\ \A k \in 1..p : Bindings[k] = Place(Root, k)
  BY <1>1, RootIsOID, PlacesIs, SegmentType DEF Segment, Places
<1> HIDE DEF p, s
\* What was found stands in the table.
<1>3. ASSUME NEW k \in 1..p
      PROVE  /\ Bindings[k].value = "value" =>
                   /\ s + k - 1 \in 1..Size
                   /\ Bindings[k].name = OrderedOIDs[s + k - 1]
             /\ Bindings[k].value # "value" => s + k - 1 = Size + 1
  <2>1. Bindings[k] = Place(Root, k)
    BY <1>2
  <2>2. /\ s + k - 1 <= Size => /\ s + k - 1 \in 1..Size
                                /\ Place(Root, k) = Binding(OrderedOIDs[s + k - 1], "value")
        /\ s + k - 1 > Size => s + k - 1 = Size + 1
    BY <1>2, RootIsOID, PlaceIs DEF p, s
  <2>3. ~(s + k - 1 <= Size) => Place(Root, k).value = "endOfMibView"
    BY DEF Place, Binding, s
  <2>4. CASE s + k - 1 <= Size
    BY <2>1, <2>2, <2>4 DEF Binding
  <2>5. CASE ~(s + k - 1 <= Size)
    <3>1. s + k - 1 = Size + 1
      BY <1>2, <2>2, <2>5
    <3> QED BY <2>1, <2>3, <2>5, <3>1
  <2> QED BY <2>4, <2>5
<1>4. \A i \in 1..Size : IsLess(Root, OrderedOIDs[i]) <=> i >= s
  BY RootIsOID, FromIs DEF s
<1>5. \A k \in found : /\ k \in 1..p /\ s + k - 1 \in 1..Size
                       /\ Bindings[k].name = OrderedOIDs[s + k - 1]
                       /\ IsPrefix(Root, OrderedOIDs[s + k - 1])
  BY <1>2, <1>3 DEF InTree
<1>6. \A i, j \in found : i < j => Before(Bindings[i].name, Bindings[j].name)
  <2> SUFFICES ASSUME NEW i \in found, NEW j \in found, i < j
               PROVE  Before(Bindings[i].name, Bindings[j].name)
    OBVIOUS
  <2> DEFINE x == s + i - 1 y == s + j - 1
  <2>1. x \in 1..Size /\ y \in 1..Size
    BY <1>5
  <2>2. x < y
    BY <1>2, <1>5
  <2> HIDE DEF x, y
  <2>3. Before(OrderedOIDs[x], OrderedOIDs[y])
    BY <2>1, <2>2, TableOrder, BeforeIsLess
  <2> QED BY <1>5, <2>3 DEF x, y
<1>7. read \subseteq tree
  <2> SUFFICES ASSUME NEW k \in found PROVE Bindings[k].name \in tree
    OBVIOUS
  <2> DEFINE x == s + k - 1
  <2>1. x \in 1..Size /\ Bindings[k].name = OrderedOIDs[x] /\ IsPrefix(Root, OrderedOIDs[x])
    BY <1>5
  <2>2. x >= s
    BY <1>2, <1>5
  <2> HIDE DEF x
  <2>3. IsLess(Root, OrderedOIDs[x])
    BY <1>4, <2>1, <2>2
  <2>4. OrderedOIDs[x] # Root
    BY <2>3, RootIsOID, IsLessIrreflexive
  <2>5. OrderedOIDs[x] \in ToSet(Configured)
    BY <2>1, TableIsSorted, LenProperties DEF ToSet, Size
  <2> QED BY <2>1, <2>4, <2>5 DEF IsStrictPrefix
\* What was not found comes later.
<1>8. ASSUME NEW o \in tree \ read
      PROVE  \E x \in 1..Size : o = OrderedOIDs[x] /\ x > s + p - 1 /\ IsPrefix(Root, o)
  <2>1. o \in ToSet(Configured) /\ o \in OID /\ IsPrefix(Root, o) /\ o # Root
    BY ConfiguredAreOIDs DEF IsStrictPrefix
  <2>2. PICK x \in 1..Size : OrderedOIDs[x] = o
    BY <2>1, TableHasAll
  <2>3. IsLess(Root, o)
    BY <2>1, RootIsOID, BeforeIsLess DEF Before
  <2>4. x >= s
    BY <1>4, <2>2, <2>3
  <2>5. ASSUME x <= s + p - 1 PROVE FALSE
    <3> DEFINE k == x - s + 1
    <3>1. k \in 1..p /\ s + k - 1 = x
      BY <1>2, <2>4, <2>5
    <3> HIDE DEF k
    <3>2. Bindings[k].value = "value" /\ Bindings[k].name = o
      BY <1>2, <1>3, <2>2, <3>1
    <3>3. k \in found
      BY <1>2, <2>1, <3>1, <3>2 DEF InTree
    <3> QED BY <3>2, <3>3
  <2>6. x > s + p - 1
    BY <1>2, <2>5
  <2> QED BY <2>1, <2>2, <2>6
<1>9. ASSUME NEW o \in tree \ read PROVE \A m \in read : Before(m, o)
  <2> SUFFICES ASSUME NEW k \in found PROVE Before(Bindings[k].name, o)
    OBVIOUS
  <2>1. PICK x \in 1..Size : o = OrderedOIDs[x] /\ x > s + p - 1
    BY <1>8
  <2> DEFINE y == s + k - 1
  <2>2. y \in 1..Size /\ Bindings[k].name = OrderedOIDs[y] /\ k \in 1..p
    BY <1>5
  <2>3. y < x
    BY <1>2, <2>1, <2>2
  <2> HIDE DEF y
  <2> QED BY <2>1, <2>2, <2>3, TableOrder, BeforeIsLess
\* A walk that is done has left the subtree or the table.
<1>10. ASSUME NEW o \in tree \ read PROVE status # "done"
  <2> SUFFICES ASSUME status = "done" PROVE FALSE
    OBVIOUS
  <2>1. PICK x \in 1..Size : o = OrderedOIDs[x] /\ x > s + p - 1 /\ IsPrefix(Root, o)
    BY <1>8
  <2>2. AskOn = {}
    BY DEF ExchangeInv
  <2>3. PICK tag \in {"next", "bulk"} : WalkOn(tag) = {}
    BY <2>2 DEF AskOn
  <2>4. log # <<>> /\ ~InTree(Last(Bindings))
    BY <2>3 DEF WalkOn
  <2>5. p \in 1..p /\ Last(Bindings) = Bindings[p]
    BY <1>1, <1>2, <2>4 DEF Last
  <2>6. CASE Bindings[p].value = "value"
    <3> DEFINE y == s + p - 1
    <3>1. y \in 1..Size /\ Bindings[p].name = OrderedOIDs[y]
      BY <1>3, <2>5, <2>6
    <3>2. ~IsPrefix(Root, OrderedOIDs[y])
      BY <2>4, <2>5, <2>6, <3>1 DEF InTree
    <3>3. y >= s /\ y < x
      BY <1>2, <2>1, <2>5
    <3> HIDE DEF y
    <3>4. IsLess(Root, OrderedOIDs[y]) /\ IsLess(OrderedOIDs[y], OrderedOIDs[x])
      BY <1>4, <2>1, <3>1, <3>3, TableOrder
    <3> QED BY <2>1, <3>1, <3>2, <3>4, RootIsOID, TableOrder, SubtreeIsConvex
  <2>7. CASE Bindings[p].value # "value"
    <3>1. s + p - 1 = Size + 1
      BY <1>3, <2>5, <2>7
    <3> QED BY <1>2, <2>1, <3>1
  <2> QED BY <2>6, <2>7
<1> HIDE DEF found
<1>11. \A o \in tree \ read : status # "done" /\ \A m \in read : Before(m, o)
  BY <1>9, <1>10
<1> QED BY <1>6, <1>7, <1>11 DEF ReadsInOrder, found

\* A walk reads the identifiers of its subtree in order and each once, and all of them when
\* it is done, with getNextOID as with bulk requests of any size.
THEOREM ReadsInOrderAlways == Spec => []ReadsInOrder
<1>1. ExchangeInv /\ WalkInv /\ [Next]_vars => WalkInv'
  BY WalkNext
<1>2. ExchangeInv /\ WalkInv => ReadsInOrder
  BY WalkReadsInOrder
<1> QED BY <1>1, <1>2, WalkInit, ExchangeAlways, PTL DEF Spec

-----------------------------------------------------------------------------
(* Single PDUs. *)

\* A part of the table has as many identifiers as places.
LEMMA PartOfTable ==
    ASSUME NEW s \in 1..(Size + 1), NEW c \in 0..(Size - s + 1)
    PROVE  Cardinality({OrderedOIDs[s + k - 1] : k \in 1..c}) = c
<1> DEFINE part == {OrderedOIDs[s + k - 1] : k \in 1..c}
           f == [k \in 1..c |-> OrderedOIDs[s + k - 1]]
<1>1. Size \in Nat
  BY TableIsSorted, ConfiguredAssumption DEF Size
<1>2. f \in Surjection(1..c, part)
  BY DEF Surjection
<1>3. ASSUME NEW i \in 1..c, NEW j \in 1..c, f[i] = f[j] PROVE i = j
  <2> DEFINE x == s + i - 1 y == s + j - 1
  <2>1. x \in 1..Size /\ y \in 1..Size /\ (x < y <=> i < j) /\ (y < x <=> j < i)
    BY <1>1
  <2>2. f[i] = OrderedOIDs[x] /\ f[j] = OrderedOIDs[y]
    OBVIOUS
  <2> HIDE DEF x, y, f
  <2>3. ~(x < y) /\ ~(y < x)
    BY <1>3, <2>1, <2>2, TableOrder, IsLessIrreflexive
  <2> QED BY <1>1, <2>1, <2>3
<1>4. f \in Injection(1..c, part)
  <2>1. f \in [1..c -> part] /\ DOMAIN f = 1..c
    OBVIOUS
  <2> HIDE DEF f, part
  <2> QED BY <1>3, <2>1 DEF Injection, IsInjective
<1>5. ExistsBijection(1..c, part)
  <2> HIDE DEF f, part
  <2> QED BY <1>2, <1>4 DEF Bijection, ExistsBijection
<1>6. c \in Nat
  BY <1>1
<1> HIDE DEF part
<1>7. Cardinality(part) = c
  BY <1>5, <1>6, FS_CountingElements
<1> QED BY <1>7 DEF part

\* Counting those before it finds the place of an identifier.
LEMMA LaterThanIs ==
    ASSUME NEW oid \in OID
    PROVE  LaterThan(oid) =
              [k \in 1..(Size - From(oid) + 1) |-> OrderedOIDs[From(oid) + k - 1]]
<1> DEFINE s == From(oid)
           c == Size - s + 1
           later == {o \in ToSet(Configured) : Before(oid, o)}
           At(k) == OrderedOIDs[s + k - 1]
<1>1. Size \in Nat /\ s \in 1..(Size + 1) /\ c \in 0..(Size - s + 1)
      /\ \A i \in 1..Size : IsLess(oid, OrderedOIDs[i]) <=> i >= s
  BY FromIs, TableIsSorted, ConfiguredAssumption DEF Size
<1> HIDE DEF s
<1>2. \A k \in 1..c : s + k - 1 \in 1..Size /\ s + k - 1 >= s
  BY <1>1
<1>3. ASSUME NEW i \in 1..Size
      PROVE  OrderedOIDs[i] \in ToSet(Configured) /\ (Before(oid, OrderedOIDs[i]) <=> i >= s)
  <2>1. OrderedOIDs[i] \in OID
    BY TableOrder
  <2>2. OrderedOIDs[i] \in ToSet(Configured)
    BY TableIsSorted, LenProperties DEF ToSet, Size
  <2> QED BY <1>1, <2>1, <2>2, BeforeIsLess
<1>4. later = {At(k) : k \in 1..c}
  <2>1. ASSUME NEW k \in 1..c PROVE At(k) \in later
    BY <1>2, <1>3
  <2>2. ASSUME NEW o \in later PROVE \E k \in 1..c : o = At(k)
    <3>1. PICK i \in 1..Size : OrderedOIDs[i] = o
      BY TableHasAll
    <3>2. i >= s
      BY <1>3, <3>1
    <3>3. i - s + 1 \in 1..c /\ s + (i - s + 1) - 1 = i
      BY <1>1, <3>2
    <3> QED BY <3>1, <3>3
  <2> QED BY <2>1, <2>2
<1> HIDE DEF later
<1>5. Cardinality(later) = c
  BY <1>1, <1>4, PartOfTable
<1>6. ASSUME NEW j \in 1..c, NEW k \in 1..c PROVE Before(At(j), At(k)) <=> j < k
  <2> DEFINE x == s + j - 1 y == s + k - 1
  <2>1. x \in 1..Size /\ y \in 1..Size /\ (x < y <=> j < k) /\ (y < x <=> k < j)
        /\ (x = y <=> j = k)
    BY <1>1, <1>2
  <2> HIDE DEF x, y
  <2>2. OrderedOIDs[x] \in OID /\ OrderedOIDs[y] \in OID
    BY <2>1, TableOrder
  <2>3. Before(OrderedOIDs[x], OrderedOIDs[y]) <=> IsLess(OrderedOIDs[x], OrderedOIDs[y])
    BY <2>2, BeforeIsLess
  <2>4. CASE x < y
    BY <2>1, <2>3, <2>4, TableOrder DEF x, y
  <2>5. CASE x = y
    <3>1. ~IsLess(OrderedOIDs[x], OrderedOIDs[y])
      BY <2>2, <2>5, IsLessIrreflexive
    <3>2. ~(j < k)
      BY <2>1, <2>5
    <3> QED BY <2>3, <3>1, <3>2 DEF x, y
  <2>6. CASE y < x
    <3>1. IsLess(OrderedOIDs[y], OrderedOIDs[x])
      BY <2>1, <2>6, TableOrder
    <3>2. ~IsLess(OrderedOIDs[x], OrderedOIDs[y])
      BY <2>2, <3>1, IsLessIrreflexive, IsLessTransitive
    <3>3. ~(j < k)
      BY <2>1, <2>6
    <3> QED BY <2>3, <3>2, <3>3 DEF x, y
  <2>7. x \in Int /\ y \in Int
    BY <2>1
  <2> QED BY <2>4, <2>5, <2>6, <2>7
<1> DEFINE Rank(o) == Cardinality({p \in later : Before(p, o)})
<1>7. ASSUME NEW k \in 1..c PROVE Rank(At(k)) = k - 1
  <2>1. {p \in later : Before(p, At(k))} = {At(j) : j \in 1..(k - 1)}
    <3>1. ASSUME NEW p \in later, Before(p, At(k)) PROVE \E j \in 1..(k - 1) : p = At(j)
      <4>1. PICK j \in 1..c : p = At(j)
        BY <1>4
      <4>2. j < k
        BY <1>6, <3>1, <4>1
      <4>3. j \in 1..(k - 1)
        <5>1. c \in Int
          BY <1>1
        <5> HIDE DEF c
        <5> QED BY <4>2, <5>1
      <4> QED BY <4>1, <4>3
    <3>2. ASSUME NEW j \in 1..(k - 1) PROVE At(j) \in later /\ Before(At(j), At(k))
      <4>1. j \in 1..c /\ j < k
        BY <1>1
      <4> QED BY <1>4, <1>6, <4>1
    <3> HIDE DEF At
    <3> QED BY <3>1, <3>2
  <2>2. k - 1 \in 0..(Size - s + 1)
    BY <1>1
  <2>3. Cardinality({At(j) : j \in 1..(k - 1)}) = k - 1
    BY <1>1, <2>2, PartOfTable
  <2> QED BY <2>1, <2>3
<1> HIDE DEF Rank, At, c
<1>8. ASSUME NEW k \in 1..c PROVE (CHOOSE o \in later : Rank(o) = k - 1) = At(k)
  <2>1. At(k) \in later /\ Rank(At(k)) = k - 1
    BY <1>4, <1>7
  <2>2. ASSUME NEW o \in later, Rank(o) = k - 1 PROVE o = At(k)
    <3>1. PICK j \in 1..c : o = At(j)
      BY <1>4
    <3>2. j - 1 = k - 1 /\ j \in Int /\ k \in Int
      BY <1>7, <2>2, <3>1
    <3>3. j = k
      BY <3>2
    <3> QED BY <3>1, <3>3
  <2> QED BY <2>1, <2>2
<1>9. LaterThan(oid) = [k \in 1..c |-> CHOOSE o \in later : Rank(o) = k - 1]
  BY <1>5 DEF LaterThan, later, Rank
<1>10. [k \in 1..c |-> CHOOSE o \in later : Rank(o) = k - 1] = [k \in 1..c |-> At(k)]
  BY <1>8
<1> QED BY <1>9, <1>10 DEF At, c, s

\* The lesser of two numbers.
LEMMA MinOf ==
    ASSUME NEW a \in Nat, NEW b \in Nat
    PROVE  Min({a, b}) \in {a, b} /\ Min({a, b}) <= a /\ Min({a, b}) <= b
<1>1. \E x \in {a, b} : \A y \in {a, b} : x <= y
  OBVIOUS
<1>2. Min({a, b}) \in {a, b} /\ \A y \in {a, b} : Min({a, b}) <= y
  BY <1>1 DEF Min
<1> QED BY <1>2

\* The bindings that follow an identifier are those of the table from its place on.
LEMMA FollowingIs ==
    ASSUME NEW oid \in OID, NEW n \in Nat
    PROVE  Following(oid, n) = Segment(oid, n)
<1> DEFINE s == From(oid) c == Size - s + 1 later == LaterThan(oid) m == Min({n, Len(later)})
           value == [k \in 1..m |-> Binding(later[k], "value")]
           end == IF m = n THEN <<>>
                  ELSE <<Binding(IF m = 0 THEN oid ELSE later[m], "endOfMibView")>>
           p == Places(oid, n)
<1>1. /\ Size \in Nat /\ s \in 1..(Size + 1) /\ c \in Nat
      /\ p = IF n <= c + 1 THEN n ELSE c + 1
  BY PlacesIs DEF Places
<1>2. \A k \in 1..c : s + k - 1 \in 1..Size /\ OrderedOIDs[s + k - 1] \in OID
  BY <1>1, TableOrder
<1>3. later = [k \in 1..c |-> OrderedOIDs[s + k - 1]]
  BY LaterThanIs
<1>4. Len(later) = c /\ \A k \in 1..c : later[k] = OrderedOIDs[s + k - 1]
  BY <1>1, <1>3
<1> HIDE DEF later
<1>5. m = IF n <= c THEN n ELSE c
  <2>1. m = Min({n, c}) /\ c \in Nat
    BY <1>1, <1>4
  <2> HIDE DEF m, c
  <2> QED BY <2>1, MinOf
<1>6. Following(oid, n) = value \o end
  BY DEF Following, later
<1>7. Segment(oid, n) \in Seq(Bindable) /\ Len(Segment(oid, n)) = p
      /\ \A k \in 1..p : Segment(oid, n)[k] = Place(oid, k)
  BY SegmentType DEF Segment
<1> HIDE DEF m
<1>8. m \in Nat /\ m <= c
  BY <1>1, <1>5
<1>9. \A k \in 1..m : later[k] \in OID /\ Binding(later[k], "value") \in Bindable
                      /\ Binding(later[k], "endOfMibView") \in Bindable
  <2> SUFFICES ASSUME NEW k \in 1..m PROVE later[k] \in OID
    BY DEF Binding, Bindable
  <2>1. k \in 1..c
    <3> HIDE DEF c
    <3> QED BY <1>1, <1>8
  <2> QED BY <1>2, <1>4, <2>1
<1>10. value \in Seq(Bindable) /\ Len(value) = m /\ \A k \in 1..m : value[k] = Place(oid, k)
  <2>1. value \in Seq(Bindable) /\ Len(value) = m
    BY <1>8, <1>9
  <2>2. ASSUME NEW k \in 1..m PROVE value[k] = Place(oid, k)
    <3>1. k \in 1..c
      <4> HIDE DEF c
      <4> QED BY <1>1, <1>8
    <3>2. s + k - 1 <= Size
      BY <1>1, <3>1
    <3> QED BY <1>4, <3>1, <3>2 DEF Place
  <2> QED BY <2>1, <2>2
<1> HIDE DEF value
<1>11. CASE m = n
  <2>1. p = m
    <3> HIDE DEF c, p
    <3> QED BY <1>1, <1>5, <1>11
  <2>2. value \o end = value
    BY <1>10, <1>11, ConcatEmptySeq
  <2>3. value = Segment(oid, n)
    <3> HIDE DEF p
    <3> QED BY <1>7, <1>10, <2>1, SeqEqual
  <2> QED BY <1>6, <2>2, <2>3
<1>12. CASE m # n
  <2>1. m = c /\ p = c + 1
    <3> HIDE DEF c, p
    <3> QED BY <1>1, <1>5, <1>12
  <2>2. end = <<Place(oid, p)>>
    <3>1. p = Size - s + 2 /\ ~(s + p - 1 <= Size)
      BY <1>1, <2>1
    <3>2. m = 0 <=> p = 1
      BY <1>1, <2>1
    <3>3. m # 0 => later[m] = OrderedOIDs[Size]
      <4>1. m # 0 => m \in 1..c /\ s + m - 1 = Size
        BY <1>1, <2>1
      <4> QED BY <1>4, <4>1
    <3>4. Place(oid, p) = Binding(IF p = 1 THEN oid ELSE OrderedOIDs[Size], "endOfMibView")
      <4> HIDE DEF p
      <4> QED BY <3>1 DEF Place
    <3>5. end = <<Binding(IF m = 0 THEN oid ELSE later[m], "endOfMibView")>>
      BY <1>12
    <3> HIDE DEF p, end
    <3>6. (IF m = 0 THEN oid ELSE later[m]) = (IF p = 1 THEN oid ELSE OrderedOIDs[Size])
      BY <3>2, <3>3
    <3> QED BY <3>4, <3>5, <3>6
  <2>3. Place(oid, p) \in Bindable
    <3>1. p \in 1..p
      BY <1>1, <2>1
    <3> QED BY <3>1, PlaceIs
  <2>4. p = m + 1 /\ p \in Nat
    BY <1>8, <2>1
  <2> HIDE DEF end, p
  <2>5. /\ value \o end \in Seq(Bindable) /\ Len(value \o end) = p
        /\ \A k \in 1..p : (value \o end)[k] = IF k <= m THEN value[k] ELSE end[k - m]
    <3>1. end \in Seq(Bindable) /\ Len(end) = 1
      BY <2>2, <2>3
    <3>2. Len(value) + Len(end) = p
      BY <1>10, <2>4, <3>1
    <3> QED BY <1>10, <3>1, <3>2, ConcatProperties
  <2>6. ASSUME NEW k \in 1..p PROVE (value \o end)[k] = Segment(oid, n)[k]
    <3>1. CASE k <= m
      <4>1. k \in 1..m
        BY <1>8, <3>1
      <4> QED BY <1>7, <1>10, <2>5, <3>1, <4>1
    <3>2. CASE ~(k <= m)
      <4>1. k = p /\ k - m = 1
        BY <1>8, <2>4, <3>2
      <4>2. end[1] = Place(oid, p)
        BY <2>2
      <4> QED BY <1>7, <2>5, <3>2, <4>1, <4>2
    <3> QED BY <3>1, <3>2
  <2> QED BY <1>6, <1>7, <2>5, <2>6, SeqEqual
<1> QED BY <1>11, <1>12

\* A probe asks one of the PDUs that it may ask.
ProbeInv == kind = "probe" => \A i \in 1..Len(log) : log[i].ask \in Probes

LEMMA ProbeNext == ASSUME ExchangeInv, ProbeInv, [Next]_vars PROVE ProbeInv'
<1>1. kind' = kind
  BY LogStep
<1>2. CASE log' = log
  BY <1>1, <1>2 DEF ProbeInv
<1>3. CASE \E a \in AskOn : log' = Append(log, Exchanged(a))
  <2> SUFFICES ASSUME kind = "probe" PROVE ProbeInv'
    BY <1>1 DEF ProbeInv
  <2>1. PICK a \in AskOn : log' = Append(log, Exchanged(a))
    BY <1>3
  <2>2. a \in Probes
    BY DEF AskOn
  <2>3. PICK e : e = Exchanged(a)
    OBVIOUS
  <2>4. /\ Len(log) \in Nat /\ Len(log') = Len(log) + 1
        /\ \A i \in 1..Len(log) : log'[i] = log[i]
        /\ log'[Len(log) + 1] = e
    BY <2>1, <2>3, AppendLog DEF ExchangeInv
  <2>5. ASSUME NEW i \in 1..Len(log') PROVE log'[i].ask \in Probes
    <3>1. CASE i \in 1..Len(log)
      BY <2>4, <3>1 DEF ProbeInv
    <3>2. CASE i = Len(log) + 1
      BY <2>2, <2>3, <2>4, <3>2 DEF Exchanged
    <3> QED BY <2>4, <3>1, <3>2
  <2> QED BY <2>5 DEF ProbeInv
<1> QED BY <1>2, <1>3, LogStep

\* One step of getNextOID is the first part of what follows.
LEMMA SegmentOne == ASSUME NEW oid \in OID PROVE Segment(oid, 1) = <<NextBinding(oid)>>
<1>1. Segment(oid, 0) = <<>>
  BY SegmentType, PlacesIs, EmptySeq
<1>2. 1 \in Nat \ {0} /\ 1 - 1 = 0
  OBVIOUS
<1>3. Segment(oid, 1) = Append(<<>>, NextBinding(oid))
  BY <1>1, <1>2, SegmentStep
<1> QED BY <1>3

\* What is answered for the variables of a PDU.
OfVariable(pdu, j) ==
    LET oid == pdu.vars[j]
        has == oid \in ToSet(Configured) IN
    CASE pdu.tag \in {"get", "set"} ->
            <<Binding(oid, IF has THEN "value"
                           ELSE IF pdu.tag = "get" THEN "noSuchObject" ELSE "endOfMibView")>>
      [] pdu.tag = "next" \/ (pdu.tag = "bulk" /\ j <= pdu.nonRepeaters) -> Following(oid, 1)
      [] OTHER -> Following(oid, Max({0, pdu.maxRepetitions}))

LEMMA ClippedIsMax == ASSUME NEW n \in Int PROVE Clipped(n) = Max({0, n}) /\ Clipped(n) \in Nat
<1> DEFINE m == Max({0, n})
<1>1. \E x \in {0, n} : \A y \in {0, n} : x >= y
  OBVIOUS
<1>2. m \in {0, n} /\ \A y \in {0, n} : m >= y
  BY <1>1 DEF Max
<1> HIDE DEF m
<1>3. m = Clipped(n)
  BY <1>2 DEF Clipped
<1> QED BY <1>3 DEF Clipped, m

LEMMA PduAnswer ==
    ASSUME NEW pdu \in Probes
    PROVE  HandlePdu(pdu) = FlattenSeq([j \in 1..Len(pdu.vars) |-> OfVariable(pdu, j)])
<1> DEFINE n == Len(pdu.vars)
<1>1. /\ pdu.tag \in {"get", "set", "next", "bulk"} /\ pdu.vars \in Seq(OID)
      /\ pdu.nonRepeaters \in Int /\ pdu.maxRepetitions \in Int
  BY PollingAssumption DEF OID
<1>2. n \in Nat /\ \A j \in 1..n : pdu.vars[j] \in OID
  BY <1>1
<1>3. \A o \in OID : Following(o, 1) = <<NextBinding(o)>>
  BY FollowingIs, SegmentOne
<1>4. CASE pdu.tag = "bulk"
  <2> DEFINE max == Clipped(pdu.maxRepetitions)
             Handled(j) == IF NonRepeater(pdu, j) THEN <<NextBinding(pdu.vars[j])>>
                           ELSE Repetitions(pdu.vars[j], max)
  <2>1. max \in Nat /\ max = Max({0, pdu.maxRepetitions})
    BY <1>1, ClippedIsMax
  <2> HIDE DEF max
  <2>2. ASSUME NEW j \in 1..n PROVE Handled(j) = OfVariable(pdu, j)
    <3>1. NonRepeater(pdu, j) <=> j <= pdu.nonRepeaters
      BY <1>1, <1>2 DEF NonRepeater, Clipped
    <3>2. pdu.vars[j] \in OID
      BY <1>2
    <3>3. Following(pdu.vars[j], max) = Repetitions(pdu.vars[j], max)
      BY <2>1, <3>2, FollowingIs, RepetitionsAre
    <3>4. OfVariable(pdu, j) = IF j <= pdu.nonRepeaters THEN Following(pdu.vars[j], 1)
                               ELSE Following(pdu.vars[j], max)
      BY <1>4, <2>1 DEF OfVariable
    <3> QED BY <1>3, <3>1, <3>2, <3>3, <3>4
  <2>3. HandlePdu(pdu) = FlattenSeq([j \in 1..n |-> Handled(j)])
    BY <1>4 DEF HandlePdu, max
  <2> HIDE DEF Handled
  <2>4. [j \in 1..n |-> Handled(j)] = [j \in 1..n |-> OfVariable(pdu, j)]
    BY <2>2
  <2> QED BY <2>3, <2>4
<1>5. CASE pdu.tag = "next"
  <2> DEFINE x == [j \in 1..n |-> NextBinding(pdu.vars[j])]
  <2>1. HandlePdu(pdu) = x
    BY <1>5 DEF HandlePdu
  <2>2. ASSUME NEW j \in 1..n PROVE OfVariable(pdu, j) = <<x[j]>>
    <3>1. OfVariable(pdu, j) = Following(pdu.vars[j], 1)
      BY <1>5 DEF OfVariable
    <3> QED BY <1>2, <1>3, <3>1
  <2>3. \E S : x \in Seq(S) /\ Len(x) = n
    <3>1. x \in Seq({x[j] : j \in 1..n}) /\ Len(x) = n
      BY <1>2
    <3> QED BY <3>1
  <2> HIDE DEF x
  <2>4. FlattenSeq([j \in 1..n |-> <<x[j]>>]) = x
    BY <2>3, FlattenSingles
  <2>5. [j \in 1..n |-> <<x[j]>>] = [j \in 1..n |-> OfVariable(pdu, j)]
    BY <2>2
  <2> QED BY <2>1, <2>4, <2>5
<1>6. CASE pdu.tag \in {"get", "set"}
  <2> DEFINE x == [j \in 1..n |-> GetBinding(pdu.tag, pdu.vars[j])]
  <2>1. HandlePdu(pdu) = x
    BY <1>6 DEF HandlePdu
  <2>2. ASSUME NEW j \in 1..n PROVE OfVariable(pdu, j) = <<x[j]>>
    <3>1. Contains(Configured, pdu.vars[j]) <=> pdu.vars[j] \in ToSet(Configured)
      <4>1. DOMAIN Configured = 1..Len(Configured)
        BY ConfiguredAssumption
      <4> QED BY <4>1 DEF Contains, ToSet
    <3>2. x[j] = Binding(pdu.vars[j], IF pdu.vars[j] \in ToSet(Configured) THEN "value"
                           ELSE IF pdu.tag = "get" THEN "noSuchObject" ELSE "endOfMibView")
      BY <3>1 DEF GetBinding
    <3> QED BY <1>6, <3>2 DEF OfVariable
  <2>3. \E S : x \in Seq(S) /\ Len(x) = n
    <3>1. x \in Seq({x[j] : j \in 1..n}) /\ Len(x) = n
      BY <1>2
    <3> QED BY <3>1
  <2> HIDE DEF x
  <2>4. FlattenSeq([j \in 1..n |-> <<x[j]>>]) = x
    BY <2>3, FlattenSingles
  <2>5. [j \in 1..n |-> <<x[j]>>] = [j \in 1..n |-> OfVariable(pdu, j)]
    BY <2>2
  <2> QED BY <2>1, <2>4, <2>5
<1> QED BY <1>1, <1>4, <1>5, <1>6

\* What handlePacket answers to a PDU of any shape is what the set of configured
\* identifiers says.
THEOREM AnswersTrueAlways == Spec => []AnswersTrue
<1>1. Init => ProbeInv
  BY DEF Init, ProbeInv
<1>2. ExchangeInv /\ ProbeInv /\ [Next]_vars => ProbeInv'
  BY ProbeNext
<1>3. ExchangeInv /\ ProbeInv => AnswersTrue
  <2> SUFFICES ASSUME ExchangeInv, ProbeInv, kind = "probe", NEW i \in 1..Len(log)
               PROVE  LET pdu == log[i].ask IN
                      /\ pdu.community /\ pdu.version <= 1
                      /\ log[i].answer = FlattenSeq([j \in 1..Len(pdu.vars) |-> OfVariable(pdu, j)])
    BY DEF AnswersTrue, OfVariable
  <2>1. log[i].ask \in Probes /\ Answers(log[i].ask) /\ log[i].answer = AnswerTo(log[i].ask)
    BY DEF ExchangeInv, AnswersMatch, ProbeInv
  <2>2. log[i].ask.agent = "snmp"
    BY <2>1, PollingAssumption
  <2>3. log[i].ask.community /\ log[i].ask.version <= 1
    BY <2>1, <2>2 DEF Answers, Accepted
  <2>4. log[i].answer = HandlePdu(log[i].ask)
    BY <2>1, <2>2 DEF AnswerTo
  <2> QED BY <2>1, <2>3, <2>4, PduAnswer
<1> QED BY <1>1, <1>2, <1>3, ExchangeAlways, PTL DEF Spec

-----------------------------------------------------------------------------
(* Sensor records: what was read is the repository up to a record, and a part of this one. *)

\* The first places of a sequence.
LEMMA FirstOf ==
    ASSUME NEW S, NEW s \in Seq(S), NEW m \in Nat, m <= Len(s)
    PROVE  Len(SubSeq(s, 1, m)) = m /\ \A i \in 1..m : SubSeq(s, 1, m)[i] = s[i]
<1>1. \A i \in 1..m : s[i] \in S
  OBVIOUS
<1> QED BY <1>1, SubSeqProperties

\* A part of a sequence, and what is read after it.
LEMMA PartMore ==
    ASSUME NEW x \in Seq(Nat), NEW m \in Nat, NEW more \in Seq(Nat),
           m + Len(more) <= Len(x), \A j \in 1..Len(more) : more[j] = x[m + j]
    PROVE  /\ SubSeq(x, 1, m) \in Seq(Nat)
           /\ SubSeq(x, 1, m + Len(more)) = SubSeq(x, 1, m) \o more
<1>1. PICK S : S = Nat
  OBVIOUS
<1>2. x \in Seq(S) /\ more \in Seq(S)
  BY <1>1
<1>3. SubSeq(x, 1, m) \in Seq(S) /\ SubSeq(x, 1, m + Len(more)) = SubSeq(x, 1, m) \o more
  BY <1>2, SubSeqMore, Zenon
<1> QED BY <1>1, <1>3

LEMMA BytesAssociative ==
    ASSUME NEW a \in Seq(Nat), NEW b \in Seq(Nat), NEW c \in Seq(Nat)
    PROVE  (a \o b) \o c = a \o (b \o c)
BY ConcatAssociative

\* A prefix stays one behind the same start.
LEMMA PrefixConcatOf ==
    ASSUME NEW base \in Seq(Nat), NEW part \in Seq(Nat), NEW r \in Seq(Nat),
           Len(part) <= Len(r), \A i \in 1..Len(part) : part[i] = r[i]
    PROVE  /\ base \o part \in Seq(Nat) /\ base \o r \in Seq(Nat)
           /\ IsPrefix(base \o part, base \o r)
<1>1. Len(base) \in Nat /\ Len(part) \in Nat /\ Len(r) \in Nat
  OBVIOUS
<1>2. /\ base \o part \in Seq(Nat) /\ Len(base \o part) = Len(base) + Len(part)
      /\ \A i \in 1..(Len(base) + Len(part)) :
            (base \o part)[i] = IF i <= Len(base) THEN base[i] ELSE part[i - Len(base)]
  BY ConcatProperties
<1>3. /\ base \o r \in Seq(Nat) /\ Len(base \o r) = Len(base) + Len(r)
      /\ \A i \in 1..(Len(base) + Len(r)) :
            (base \o r)[i] = IF i <= Len(base) THEN base[i] ELSE r[i - Len(base)]
  BY ConcatProperties
<1>4. ASSUME NEW i \in 1..(Len(base) + Len(part))
      PROVE  (base \o part)[i] = (base \o r)[i]
  <2>1. i \in 1..(Len(base) + Len(r))
    BY <1>1
  <2>2. ~(i <= Len(base)) => i - Len(base) \in 1..Len(part)
    BY <1>1
  <2> QED BY <1>2, <1>3, <2>1, <2>2
<1>5. Len(base \o part) <= Len(base \o r)
  BY <1>1, <1>2, <1>3
<1> QED BY <1>2, <1>3, <1>4, <1>5, PrefixOf

\* The records of the repository, and what precedes and follows one of them.
Records == 4
Whole(k) == FlattenSeq(SubSeq(SdrRepo, 1, k))
RecordId(k) == IF k = 1 THEN 0 ELSE k
NextRecord(k) == IF k = Records THEN LastRecord ELSE k + 1
Expected == [i \in 1..Len(Sensors) |-> IF Sensors[i].unit = 18 THEN 100 ELSE 38]

LEMMA RecordsAre ==
    /\ SdrRepo \in Seq(Seq(Nat)) /\ Len(SdrRepo) = Records
    /\ Expected \in Seq(Nat) /\ Len(Expected) = Records
    /\ \A k \in 1..Records :
          /\ SdrRepo[k] \in Seq(Nat)
          /\ Len(SdrRepo[k]) = Header + SdrRepo[k][Header]
          /\ Len(SdrRepo[k]) \in Nat /\ Len(SdrRepo[k]) >= Header + 43
          /\ SdrRepo[k][Header + 3] = k
          /\ Expected[k] = IF k = 4 THEN 100 ELSE 38
<1>1. Len(Sensors) = 4 /\ \A k \in 1..4 : Sensors[k].name \in Nat /\ Sensors[k].unit \in Nat
  BY DEF Sensors
<1>2. ASSUME NEW k \in 1..4
      PROVE  /\ SdrRepo[k] = CreateFullSensorRecord(k, Sensors[k])
             /\ Expected[k] = IF Sensors[k].unit = 18 THEN 100 ELSE 38
  BY <1>1 DEF SdrRepo, Expected
<1>3. ASSUME NEW k \in 1..4
      PROVE  /\ SdrRepo[k] \in Seq(Nat)
             /\ Len(SdrRepo[k]) = Header + SdrRepo[k][Header]
             /\ Len(SdrRepo[k]) \in Nat /\ Len(SdrRepo[k]) >= Header + 43
             /\ SdrRepo[k][Header + 3] = k
  <2> DEFINE len == Header + 43 + Sensors[k].name
             At(i) == CASE i = 5 -> 43 + Sensors[k].name
                        [] i = Header + 3 -> k
                        [] i = Header + 17 -> Sensors[k].unit
                        [] OTHER -> 1000 * k + i
  <2>1. SdrRepo[k] = [i \in 1..len |-> At(i)]
    <3>1. SdrRepo[k] = CreateFullSensorRecord(k, Sensors[k])
      BY <1>2
    <3>2. CreateFullSensorRecord(k, Sensors[k]) = [i \in 1..len |-> At(i)]
      BY Zenon DEF CreateFullSensorRecord
    <3> QED BY <3>1, <3>2, Zenon
  <2>2. len \in Nat /\ len >= 48 /\ len = Header + (43 + Sensors[k].name)
    BY <1>1 DEF Header
  <2>3. \A i \in 1..len : At(i) \in Nat
    BY <1>1 DEF Header
  <2>4. At(5) = 43 + Sensors[k].name /\ At(8) = k
    BY DEF Header
  <2> HIDE DEF At, len
  <2>5. SdrRepo[k] \in Seq(Nat) /\ Len(SdrRepo[k]) = len
    BY <2>1, <2>2, <2>3
  <2>6. SdrRepo[k][5] = At(5) /\ SdrRepo[k][8] = At(8)
    BY <2>1, <2>2
  <2> QED BY <2>2, <2>4, <2>5, <2>6 DEF Header
<1>4. SdrRepo \in Seq(Seq(Nat)) /\ Len(SdrRepo) = 4
  <2>1. SdrRepo = [i \in 1..4 |-> SdrRepo[i]]
    BY <1>1 DEF SdrRepo
  <2>2. \A i \in 1..4 : SdrRepo[i] \in Seq(Nat)
    BY <1>3
  <2> QED BY <2>1, <2>2
<1>5. Expected \in Seq(Nat) /\ Len(Expected) = 4
  BY <1>1 DEF Expected
<1>6. ASSUME NEW k \in 1..4 PROVE Expected[k] = IF k = 4 THEN 100 ELSE 38
  <2>1. Sensors[k].unit = 18 <=> k = 4
    BY DEF Sensors
  <2> QED BY <1>2, <2>1
<1> QED BY <1>3, <1>4, <1>5, <1>6 DEF Records

\* The records up to one are those before it and the one.
LEMMA WholeMore ==
    ASSUME NEW k \in 1..Records
    PROVE  /\ Whole(k) \in Seq(Nat) /\ Whole(k - 1) \in Seq(Nat)
           /\ Whole(k) = Whole(k - 1) \o SdrRepo[k]
<1> DEFINE one == <<SdrRepo[k]>>
<1>1. one \in Seq(Seq(Nat)) /\ Len(one) = 1 /\ one[1] = SdrRepo[k] /\ SdrRepo[k] \in Seq(Nat)
  BY RecordsAre
<1>2. PICK m \in Nat : m = k - 1
  BY DEF Records
<1> HIDE DEF one
<1>3. /\ m + Len(one) <= Len(SdrRepo) /\ m + Len(one) = k
      /\ \A j \in 1..Len(one) : one[j] = SdrRepo[m + j]
  BY <1>1, <1>2, RecordsAre DEF Records
<1>5. /\ SubSeq(SdrRepo, 1, m) \in Seq(Seq(Nat))
      /\ SubSeq(SdrRepo, 1, m + Len(one)) = SubSeq(SdrRepo, 1, m) \o one
  <2>1. PICK S : S = Seq(Nat)
    OBVIOUS
  <2>2. SdrRepo \in Seq(S) /\ one \in Seq(S)
    BY <1>1, <2>1, RecordsAre
  <2>3. m + Len(one) <= Len(SdrRepo) /\ \A j \in 1..Len(one) : one[j] = SdrRepo[m + j]
    BY <1>3
  <2>4. /\ SubSeq(SdrRepo, 1, m) \in Seq(S)
        /\ SubSeq(SdrRepo, 1, m + Len(one)) = SubSeq(SdrRepo, 1, m) \o one
    BY <2>2, <2>3, SubSeqMore, Zenon
  <2> QED BY <2>1, <2>4
<1>6. SubSeq(SdrRepo, 1, k) = Append(SubSeq(SdrRepo, 1, m), SdrRepo[k])
  <2> DEFINE s == SubSeq(SdrRepo, 1, m) r == SdrRepo[k]
  <2>1. s \o <<r>> = Append(s, r)
    <3> HIDE DEF s, r
    <3> QED BY <1>1, <1>5, AppendIsConcat DEF s, r
  <2> QED BY <1>3, <1>5, <2>1 DEF one
<1>7. /\ FlattenSeq(SubSeq(SdrRepo, 1, m)) \in Seq(Nat)
      /\ FlattenSeq(SubSeq(SdrRepo, 1, k)) = FlattenSeq(SubSeq(SdrRepo, 1, m)) \o SdrRepo[k]
  BY <1>1, <1>5, <1>6, FlattenAppend
<1>8. Whole(k) \in Seq(Nat)
  BY <1>1, <1>7, ConcatProperties DEF Whole
<1> QED BY <1>2, <1>7, <1>8 DEF Whole

\* The records up to none and up to the last.
LEMMA WholeEnds == Whole(0) = <<>> /\ Whole(Records) = FlattenSeq(SdrRepo)
<1>1. SdrRepo \in Seq(Seq(Nat)) /\ Len(SdrRepo) = Records
  BY RecordsAre
<1>2. /\ SubSeq(SdrRepo, 1, 0) \in Seq(Seq(Nat)) /\ Len(SubSeq(SdrRepo, 1, 0)) = 0
      /\ SubSeq(SdrRepo, 1, Records) = SdrRepo
  BY <1>1 DEF Records
<1>3. SubSeq(SdrRepo, 1, 0) = <<>>
  BY <1>2, EmptySeq
<1> QED BY <1>2, <1>3, FlattenEmpty DEF Whole

\* The records up to one are a start of the repository.
LEMMA WholeIsPrefix ==
    ASSUME NEW k \in 0..Records
    PROVE  Whole(k) \in Seq(Nat) /\ IsPrefix(Whole(k), Whole(Records))
<1>1. \A j \in 1..Records : Whole(j) \in Seq(Nat) /\ Whole(j - 1) \in Seq(Nat)
                            /\ IsPrefix(Whole(j - 1), Whole(j))
  <2> SUFFICES ASSUME NEW j \in 1..Records
               PROVE  /\ Whole(j) \in Seq(Nat) /\ Whole(j - 1) \in Seq(Nat)
                      /\ IsPrefix(Whole(j - 1), Whole(j))
    OBVIOUS
  <2>1. SdrRepo[j] \in Seq(Nat)
    BY RecordsAre
  <2> QED BY <2>1, WholeMore, PrefixConcat
<1>2. /\ \A j \in 0..4 : Whole(j) \in Seq(Nat)
      /\ IsPrefix(Whole(0), Whole(1)) /\ IsPrefix(Whole(1), Whole(2))
      /\ IsPrefix(Whole(2), Whole(3)) /\ IsPrefix(Whole(3), Whole(4))
  <2>1. /\ \A j \in 1..4 : Whole(j) \in Seq(Nat) /\ Whole(j - 1) \in Seq(Nat)
                           /\ IsPrefix(Whole(j - 1), Whole(j))
    BY <1>1 DEF Records
  <2>2. 1 - 1 = 0 /\ 2 - 1 = 1 /\ 3 - 1 = 2 /\ 4 - 1 = 3
    OBVIOUS
  <2>3. Whole(0) \in Seq(Nat) /\ IsPrefix(Whole(0), Whole(1))
    BY <2>1, <2>2
  <2>4. IsPrefix(Whole(1), Whole(2)) /\ IsPrefix(Whole(2), Whole(3)) /\ IsPrefix(Whole(3), Whole(4))
    BY <2>1, <2>2
  <2>5. \A j \in 0..4 : j = 0 \/ j \in 1..4
    OBVIOUS
  <2> QED BY <2>1, <2>3, <2>4, <2>5
<1>3. IsPrefix(Whole(4), Whole(4))
  BY <1>2, PrefixOf
<1>4. IsPrefix(Whole(2), Whole(4))
  BY <1>2, PrefixTransitive
<1>5. IsPrefix(Whole(1), Whole(4))
  BY <1>2, <1>4, PrefixTransitive
<1>6. IsPrefix(Whole(0), Whole(4))
  BY <1>2, <1>5, PrefixTransitive
<1>7. k \in {0, 1, 2, 3, 4}
  BY DEF Records
<1> QED BY <1>2, <1>3, <1>4, <1>5, <1>6, <1>7 DEF Records

\* The answer to a request for a part of a record.
LEMMA SdrAnswer ==
    ASSUME NEW k \in 1..Records, NEW off \in Nat, NEW cnt \in Nat, off + cnt <= Len(SdrRepo[k])
    PROVE  LET data == AnswerTo(Sdr(RecordId(k), off, cnt)).data IN
           /\ data \in Seq(Nat) /\ data[1] = NextRecord(k)
           /\ Tail(data) \in Seq(Nat) /\ Len(Tail(data)) = cnt
           /\ \A j \in 1..cnt : Tail(data)[j] = SdrRepo[k][off + j]
<1> DEFINE ask == Sdr(RecordId(k), off, cnt)
           part == [j \in 1..cnt |-> ByteOf(SdrRepo[k], off + j)]
           data == AnswerTo(ask).data
           next == NextRecord(k)
<1>1. AnswerTo(ask) = GetSdr(RecordId(k), off, cnt)
  BY DEF AnswerTo, HandlePacket, Sdr, Plain
<1>2. /\ SdrRepo[k] \in Seq(Nat) /\ Len(SdrRepo[k]) \in Nat
      /\ \A j \in 1..Len(SdrRepo[k]) : SdrRepo[k][j] \in Nat
  BY RecordsAre
<1>3. k = IF RecordId(k) = 0 THEN 1 ELSE RecordId(k)
  BY DEF RecordId, Records
<1>4. data = <<next>> \o part
  <2>1. ~(k > Len(SdrRepo)) /\ (k = Len(SdrRepo) <=> k = Records)
    BY RecordsAre DEF Records
  <2>2. GetSdr(RecordId(k), off, cnt) =
           Answer(0, <<IF k = Len(SdrRepo) THEN LastRecord ELSE k + 1>> \o part)
    BY <1>3, <2>1 DEF GetSdr
  <2> HIDE DEF ask, part
  <2> QED BY <1>1, <2>1, <2>2 DEF Answer, NextRecord
<1>5. \A j \in 1..cnt : off + j \in 1..Len(SdrRepo[k]) /\ off + j <= Len(SdrRepo[k])
  BY <1>2
<1>6. \A j \in 1..cnt : part[j] = SdrRepo[k][off + j] /\ part[j] \in Nat
  BY <1>2, <1>5 DEF ByteOf
<1>7. part \in Seq(Nat) /\ Len(part) = cnt
  <2> DEFINE At(j) == ByteOf(SdrRepo[k], off + j)
  <2>1. \A j \in 1..cnt : At(j) \in Nat
    BY <1>6
  <2> HIDE DEF At
  <2>2. [j \in 1..cnt |-> At(j)] \in Seq(Nat) /\ Len([j \in 1..cnt |-> At(j)]) = cnt
    BY <2>1
  <2> QED BY <2>2, Zenon DEF At
<1>8. next \in Nat
  BY DEF NextRecord, LastRecord, Records
<1> HIDE DEF part, data, next
<1>9. /\ data \in Seq(Nat) /\ Len(data) = cnt + 1 /\ data[1] = next
      /\ \A j \in 1..cnt : data[j + 1] = part[j]
  <2> DEFINE one == <<next>>
  <2>1. one \in Seq(Nat) /\ Len(one) = 1 /\ one[1] = next
    BY <1>8
  <2> HIDE DEF one
  <2>2. /\ one \o part \in Seq(Nat) /\ Len(one \o part) = Len(one) + Len(part)
        /\ \A j \in 1..(Len(one) + Len(part)) :
              (one \o part)[j] = IF j <= Len(one) THEN one[j] ELSE part[j - Len(one)]
    BY <1>7, <2>1, ConcatProperties
  <2>3. data = one \o part
    BY <1>4 DEF one
  <2>4. /\ data \in Seq(Nat) /\ Len(data) = 1 + cnt
        /\ \A j \in 1..(1 + cnt) : data[j] = IF j <= 1 THEN one[j] ELSE part[j - 1]
    BY <1>7, <2>1, <2>2, <2>3
  <2>5. ASSUME NEW j \in 1..cnt PROVE data[j + 1] = part[j]
    <3>1. j + 1 \in 1..(1 + cnt) /\ ~(j + 1 <= 1) /\ (j + 1) - 1 = j
      OBVIOUS
    <3> QED BY <2>4, <3>1
  <2>6. data[1] = next
    <3>1. 1 \in 1..(1 + cnt)
      OBVIOUS
    <3> QED BY <2>1, <2>4, <3>1
  <2> QED BY <2>4, <2>5, <2>6
<1>10. /\ Tail(data) \in Seq(Nat) /\ Len(Tail(data)) = cnt
       /\ \A j \in 1..cnt : Tail(data)[j] = part[j]
  <2>1. data # <<>>
    BY <1>9
  <2>2. /\ Tail(data) \in Seq(Nat) /\ Len(Tail(data)) = Len(data) - 1
        /\ \A j \in 1..(Len(data) - 1) : Tail(data)[j] = data[j + 1]
    BY <1>9, <2>1, HeadTailProperties
  <2> QED BY <1>9, <2>2
<1> QED BY <1>6, <1>9, <1>10 DEF data, next

\* What an exchange adds to the bytes and to the readings that were read.
BytesOf(e) == IF e.ask.cmd = "sdr" THEN Tail(e.answer.data) ELSE <<>>
ValuesOf(e) == IF e.ask.cmd = "reading" THEN e.answer.data ELSE <<>>
ReadSoFar == FlattenSeq([i \in 1..Len(log) |-> BytesOf(log[i])])
ReadingsSoFar == FlattenSeq([i \in 1..Len(log) |-> ValuesOf(log[i])])

SoFarTyped ==
    \A i \in 1..Len(log) : BytesOf(log[i]) \in Seq(Nat) /\ ValuesOf(log[i]) \in Seq(Nat)

\* One exchange more.
LEMMA SoFarMore ==
    ASSUME \E S : log \in Seq(S), SoFarTyped, NEW e, log' = Append(log, e),
           BytesOf(e) \in Seq(Nat), ValuesOf(e) \in Seq(Nat)
    PROVE  /\ SoFarTyped'
           /\ ReadSoFar \in Seq(Nat) /\ ReadSoFar' = ReadSoFar \o BytesOf(e)
           /\ ReadingsSoFar \in Seq(Nat) /\ ReadingsSoFar' = ReadingsSoFar \o ValuesOf(e)
<1> DEFINE n == Len(log)
           bytes == [i \in 1..n |-> BytesOf(log[i])]
           values == [i \in 1..n |-> ValuesOf(log[i])]
           moreBytes == [i \in 1..(n + 1) |-> BytesOf(log'[i])]
           moreValues == [i \in 1..(n + 1) |-> ValuesOf(log'[i])]
<1>1. /\ n \in Nat /\ Len(log') = n + 1 /\ log'[n + 1] = e
      /\ \A i \in 1..n : log'[i] = log[i]
  BY AppendLog
<1>2. \A i \in 1..(n + 1) : i \in 1..n \/ i = n + 1
  BY <1>1
<1>3. \A i \in 1..(n + 1) : BytesOf(log'[i]) \in Seq(Nat) /\ ValuesOf(log'[i]) \in Seq(Nat)
  BY <1>1, <1>2 DEF SoFarTyped
<1>4. bytes \in Seq(Seq(Nat)) /\ Len(bytes) = n /\ \A i \in 1..n : bytes[i] = BytesOf(log[i])
  <2> DEFINE B(i) == BytesOf(log[i])
  <2>1. \A i \in 1..n : B(i) \in Seq(Nat)
    BY DEF SoFarTyped
  <2> HIDE DEF B, n
  <2>2. LET f == [i \in 1..n |-> B(i)]
        IN f \in Seq(Seq(Nat)) /\ Len(f) = n /\ \A i \in 1..n : f[i] = B(i)
    BY <1>1, <2>1
  <2> QED BY <2>2, Zenon DEF B
<1>5. values \in Seq(Seq(Nat)) /\ Len(values) = n /\ \A i \in 1..n : values[i] = ValuesOf(log[i])
  <2> DEFINE B(i) == ValuesOf(log[i])
  <2>1. \A i \in 1..n : B(i) \in Seq(Nat)
    BY DEF SoFarTyped
  <2> HIDE DEF B, n
  <2>2. LET f == [i \in 1..n |-> B(i)]
        IN f \in Seq(Seq(Nat)) /\ Len(f) = n /\ \A i \in 1..n : f[i] = B(i)
    BY <1>1, <2>1
  <2> QED BY <2>2, Zenon DEF B
<1>6. /\ moreBytes \in Seq(Seq(Nat)) /\ Len(moreBytes) = n + 1
      /\ \A i \in 1..(n + 1) : moreBytes[i] = BytesOf(log'[i])
  <2> DEFINE B(i) == BytesOf(log'[i])
  <2>1. \A i \in 1..(n + 1) : B(i) \in Seq(Nat)
    BY <1>3
  <2> HIDE DEF B, n
  <2>2. LET f == [i \in 1..(n + 1) |-> B(i)]
        IN f \in Seq(Seq(Nat)) /\ Len(f) = n + 1 /\ \A i \in 1..(n + 1) : f[i] = B(i)
    BY <1>1, <2>1
  <2> QED BY <2>2, Zenon DEF B
<1>7. /\ moreValues \in Seq(Seq(Nat)) /\ Len(moreValues) = n + 1
      /\ \A i \in 1..(n + 1) : moreValues[i] = ValuesOf(log'[i])
  <2> DEFINE B(i) == ValuesOf(log'[i])
  <2>1. \A i \in 1..(n + 1) : B(i) \in Seq(Nat)
    BY <1>3
  <2> HIDE DEF B, n
  <2>2. LET f == [i \in 1..(n + 1) |-> B(i)]
        IN f \in Seq(Seq(Nat)) /\ Len(f) = n + 1 /\ \A i \in 1..(n + 1) : f[i] = B(i)
    BY <1>1, <2>1
  <2> QED BY <2>2, Zenon DEF B
<1> HIDE DEF bytes, values, moreBytes, moreValues
<1>8. /\ Len(moreBytes) = Len(bytes) + 1 /\ moreBytes[Len(bytes) + 1] = BytesOf(e)
      /\ \A i \in 1..Len(bytes) : moreBytes[i] = bytes[i]
  <2>1. \A i \in 1..n : bytes[i] = BytesOf(log[i]) /\ moreBytes[i] = BytesOf(log[i])
    <3>1. \A i \in 1..n : i \in 1..(n + 1)
      BY <1>1
    <3> QED BY <1>1, <1>4, <1>6, <3>1, Zenon
  <2>2. moreBytes[n + 1] = BytesOf(e)
    <3>1. n + 1 \in 1..(n + 1)
      BY <1>1
    <3> QED BY <1>1, <1>6, <3>1, Zenon
  <2> HIDE DEF n
  <2> QED BY <1>4, <1>6, <2>1, <2>2
<1>9. /\ Len(moreValues) = Len(values) + 1 /\ moreValues[Len(values) + 1] = ValuesOf(e)
      /\ \A i \in 1..Len(values) : moreValues[i] = values[i]
  <2>1. \A i \in 1..n : values[i] = ValuesOf(log[i]) /\ moreValues[i] = ValuesOf(log[i])
    <3>1. \A i \in 1..n : i \in 1..(n + 1)
      BY <1>1
    <3> QED BY <1>1, <1>5, <1>7, <3>1, Zenon
  <2>2. moreValues[n + 1] = ValuesOf(e)
    <3>1. n + 1 \in 1..(n + 1)
      BY <1>1
    <3> QED BY <1>1, <1>7, <3>1, Zenon
  <2> HIDE DEF n
  <2> QED BY <1>5, <1>7, <2>1, <2>2
<1>10. /\ FlattenSeq(bytes) \in Seq(Nat)
       /\ FlattenSeq(moreBytes) = FlattenSeq(bytes) \o BytesOf(e)
  BY <1>4, <1>6, <1>8, FlattenMore
<1>11. /\ FlattenSeq(values) \in Seq(Nat)
       /\ FlattenSeq(moreValues) = FlattenSeq(values) \o ValuesOf(e)
  BY <1>5, <1>7, <1>9, FlattenMore
<1>12. /\ ReadSoFar = FlattenSeq(bytes) /\ ReadSoFar' = FlattenSeq(moreBytes)
       /\ ReadingsSoFar = FlattenSeq(values) /\ ReadingsSoFar' = FlattenSeq(moreValues)
  BY <1>1, Zenon DEF ReadSoFar, ReadingsSoFar, bytes, values, moreBytes, moreValues,
                     BytesOf, ValuesOf
<1>13. SoFarTyped'
  BY <1>1, <1>3 DEF SoFarTyped, BytesOf, ValuesOf
<1> QED BY <1>10, <1>11, <1>12, <1>13

\* The last header is at h, and nothing but sensor records was read since.
HeaderAt(h) ==
    /\ h \in Headers /\ \A i \in Headers : i <= h
    /\ \A i \in h..Len(log) : log[i].ask.cmd = "sdr"

\* The record that is being read begins with the last header.
PartsFrom(h) == [i \in 1..(Len(log) - h + 1) |-> DataOf(h + i - 1)]

RecordBegins == \A h : HeaderAt(h) => Record = FlattenSeq(PartsFrom(h))

LEMMA RecordIs == RecordBegins
<1> SUFFICES ASSUME NEW h, HeaderAt(h) PROVE Record = FlattenSeq(PartsFrom(h))
  BY DEF RecordBegins
<1>1. /\ \A i \in Headers : i \in Int
      /\ h \in Headers /\ \A i \in Headers : h >= i
  BY DEF Headers, HeaderAt
<1>2. \A g \in Headers : (\A i \in Headers : g >= i) => g = h
  BY <1>1
<1>3. Max(Headers) = h
  BY <1>1, <1>2 DEF Max
<1> QED BY <1>3, Zenon DEF Record, PartsFrom

\* A header begins a record.
LEMMA RecordStart ==
    ASSUME \E S : log \in Seq(S), NEW e, log' = Append(log, e),
           e.ask.cmd = "sdr", e.ask.off = 0, BytesOf(e) \in Seq(Nat)
    PROVE  (\E h : HeaderAt(h))' /\ Record' = BytesOf(e)
<1>1. PICK h : h = Len(log) + 1
  OBVIOUS
<1>2. /\ Len(log) \in Nat /\ Len(log') = h /\ log'[h] = e /\ h \in 1..h
  BY <1>1, AppendLog
<1>3. HeaderAt(h)'
  BY <1>2 DEF HeaderAt, Headers
<1>4. Record' = FlattenSeq([i \in 1..(Len(log') - h + 1) |-> Tail(log'[h + i - 1].answer.data)])
  <2>1. RecordBegins'
    BY RecordIs, PTL
  <2>2. Record' = FlattenSeq(PartsFrom(h)')
    BY <1>3, <2>1, Zenon DEF RecordBegins
  <2> QED BY <2>2, Zenon DEF PartsFrom, DataOf
<1>5. BytesOf(e) = Tail(e.answer.data)
  BY DEF BytesOf
<1>6. [i \in 1..(Len(log') - h + 1) |-> Tail(log'[h + i - 1].answer.data)] = <<BytesOf(e)>>
  <2> DEFINE B(i) == Tail(log'[h + i - 1].answer.data)
  <2>1. B(1) = BytesOf(e)
    <3>1. h + 1 - 1 = h
      BY <1>2
    <3> QED BY <1>2, <1>5, <3>1
  <2>2. Len(log') - h + 1 = 1
    BY <1>2
  <2> HIDE DEF B
  <2>3. [i \in 1..1 |-> B(i)] = <<B(1)>>
    OBVIOUS
  <2> QED BY <2>1, <2>2, <2>3, Zenon DEF B
<1>7. FlattenSeq(<<BytesOf(e)>>) = BytesOf(e)
  BY FlattenOne
<1> QED BY <1>3, <1>4, <1>6, <1>7

\* What is read next goes on with it.
LEMMA RecordMore ==
    ASSUME \E S : log \in Seq(S), SoFarTyped, NEW h, HeaderAt(h), NEW e, log' = Append(log, e),
           e.ask.cmd = "sdr", e.ask.off # 0, BytesOf(e) \in Seq(Nat)
    PROVE  HeaderAt(h)' /\ Record' = Record \o BytesOf(e)
<1> DEFINE n == Len(log) - h + 1
           parts == [i \in 1..n |-> Tail(log[h + i - 1].answer.data)]
           more == [i \in 1..(n + 1) |-> Tail(log'[h + i - 1].answer.data)]
<1>1. /\ Len(log) \in Nat /\ Len(log') = Len(log) + 1 /\ log'[Len(log) + 1] = e
      /\ \A i \in 1..Len(log) : log'[i] = log[i]
  BY AppendLog
<1>2. h \in 1..Len(log) /\ \A i \in h..Len(log) : log[i].ask.cmd = "sdr"
  BY DEF HeaderAt, Headers
<1>3. HeaderAt(h)'
  <2>1. \A i \in Headers' : i \in Headers
    BY <1>1 DEF Headers
  <2>2. h \in Headers'
    BY <1>1, <1>2 DEF Headers, HeaderAt
  <2>3. \A i \in h..Len(log') : log'[i].ask.cmd = "sdr"
    BY <1>1, <1>2
  <2> QED BY <2>1, <2>2, <2>3 DEF HeaderAt
<1>4. n \in Nat /\ n + 1 = Len(log') - h + 1 /\ h + (n + 1) - 1 = Len(log) + 1
  BY <1>1, <1>2
<1>5. Record = FlattenSeq(parts)
  BY RecordIs, Zenon DEF RecordBegins, PartsFrom, DataOf
<1>6. Record' = FlattenSeq(more)
  <2>1. RecordBegins'
    BY RecordIs, PTL
  <2>2. Record' = FlattenSeq(PartsFrom(h)')
    BY <1>3, <2>1, Zenon DEF RecordBegins
  <2> QED BY <1>4, <2>2, Zenon DEF PartsFrom, DataOf
<1>7. \A i \in 1..n : h + i - 1 \in h..Len(log) /\ h + i - 1 \in 1..Len(log)
  BY <1>1, <1>2
<1>8. \A i \in 1..n : Tail(log[h + i - 1].answer.data) \in Seq(Nat)
  BY <1>2, <1>7 DEF SoFarTyped, BytesOf
<1>9. \A i \in 1..n : Tail(log'[h + i - 1].answer.data) = Tail(log[h + i - 1].answer.data)
  BY <1>1, <1>7
<1>10. Tail(log'[h + (n + 1) - 1].answer.data) = BytesOf(e)
  BY <1>1, <1>4 DEF BytesOf
<1> HIDE DEF n
<1>11. parts \in Seq(Seq(Nat)) /\ Len(parts) = n
  <2> DEFINE B(i) == Tail(log[h + i - 1].answer.data)
  <2>1. \A i \in 1..n : B(i) \in Seq(Nat)
    BY <1>8
  <2> HIDE DEF B
  <2>2. LET f == [i \in 1..n |-> B(i)] IN f \in Seq(Seq(Nat)) /\ Len(f) = n
    BY <1>4, <2>1
  <2> QED BY <2>2, Zenon DEF B
<1>12. more \in Seq(Seq(Nat)) /\ Len(more) = n + 1
  <2> DEFINE B(i) == Tail(log'[h + i - 1].answer.data)
  <2>0. \A i \in 1..(n + 1) : i \in 1..n \/ i = n + 1
    BY <1>4
  <2>1. \A i \in 1..(n + 1) : B(i) \in Seq(Nat)
    BY <1>8, <1>9, <1>10, <2>0
  <2> HIDE DEF B
  <2>2. LET f == [i \in 1..(n + 1) |-> B(i)] IN f \in Seq(Seq(Nat)) /\ Len(f) = n + 1
    BY <1>4, <2>1
  <2> QED BY <2>2, Zenon DEF B
<1>13. \A i \in 1..n : more[i] = parts[i]
  <2>1. \A i \in 1..n : i \in 1..(n + 1)
    BY <1>4
  <2> QED BY <1>9, <2>1, Zenon
<1>14. more[n + 1] = BytesOf(e)
  <2>1. n + 1 \in 1..(n + 1)
    BY <1>4
  <2> QED BY <1>10, <2>1, Zenon
<1> HIDE DEF parts, more
<1>15. FlattenSeq(more) = FlattenSeq(parts) \o BytesOf(e)
  <2>1. /\ Len(more) = Len(parts) + 1 /\ more[Len(parts) + 1] = BytesOf(e)
        /\ \A i \in 1..Len(parts) : more[i] = parts[i]
    BY <1>11, <1>12, <1>13, <1>14
  <2> QED BY <1>11, <1>12, <2>1, FlattenMore
<1> QED BY <1>3, <1>5, <1>6, <1>15

\* An exchange that reads a part of a record.
PartRead(e, k, m, cnt) ==
    /\ e.ask.cmd = "sdr" /\ e.ask.rid = RecordId(k) /\ e.ask.off = m
    /\ e.answer.data[1] = NextRecord(k)
    /\ BytesOf(e) \in Seq(Nat) /\ ValuesOf(e) = <<>> /\ ValuesOf(e) \in Seq(Nat)
    /\ SubSeq(SdrRepo[k], 1, m) \in Seq(Nat)
    /\ SubSeq(SdrRepo[k], 1, m + cnt) = SubSeq(SdrRepo[k], 1, m) \o BytesOf(e)

\* It reads on where the parts before it ended.
LEMMA ReadSdr ==
    ASSUME NEW k \in 1..Records, NEW m \in Nat, NEW cnt \in Nat, m + cnt <= Len(SdrRepo[k]),
           NEW e, e = Exchanged(Sdr(RecordId(k), m, cnt))
    PROVE  PartRead(e, k, m, cnt)
<1>1. e.ask.cmd = "sdr" /\ e.ask.rid = RecordId(k) /\ e.ask.off = m
  BY DEF Exchanged, Sdr
<1>2. e.answer = AnswerTo(Sdr(RecordId(k), m, cnt))
  BY DEF Exchanged
<1>3. BytesOf(e) = Tail(e.answer.data) /\ ValuesOf(e) = <<>>
  BY <1>1 DEF BytesOf, ValuesOf
<1>4. PICK more : more = BytesOf(e)
  OBVIOUS
<1>5. /\ e.answer.data[1] = NextRecord(k)
      /\ more \in Seq(Nat) /\ Len(more) = cnt
      /\ \A j \in 1..cnt : more[j] = SdrRepo[k][m + j]
  <2>1. PICK data : data = AnswerTo(Sdr(RecordId(k), m, cnt)).data
    OBVIOUS
  <2>2. /\ data[1] = NextRecord(k)
        /\ Tail(data) \in Seq(Nat) /\ Len(Tail(data)) = cnt
        /\ \A j \in 1..cnt : Tail(data)[j] = SdrRepo[k][m + j]
    BY <2>1, SdrAnswer
  <2>3. e.answer.data = data /\ more = Tail(data)
    BY <1>2, <1>3, <1>4, <2>1
  <2> QED BY <2>2, <2>3
<1>6. PICK r : r = SdrRepo[k]
  OBVIOUS
<1>7. r \in Seq(Nat) /\ m + Len(more) <= Len(r) /\ \A j \in 1..Len(more) : more[j] = r[m + j]
  BY <1>5, <1>6, RecordsAre
<1>8. SubSeq(r, 1, m) \in Seq(Nat) /\ SubSeq(r, 1, m + Len(more)) = SubSeq(r, 1, m) \o more
  BY <1>5, <1>7, PartMore, Zenon
<1>9. m + Len(more) = m + cnt /\ <<>> \in Seq(Nat)
  BY <1>5
<1>10. SubSeq(r, 1, m + cnt) = SubSeq(r, 1, m) \o more
  BY <1>8, <1>9, Zenon
<1> QED BY <1>1, <1>3, <1>4, <1>5, <1>6, <1>8, <1>9, <1>10, Zenon DEF PartRead

\* The header of a record and some of its rest were read, its sensor was read, or all was.
InRecord(k, m) ==
    LET last == log[Len(log)] IN
    /\ last.ask.cmd = "sdr" /\ last.ask.rid = RecordId(k)
    /\ last.answer.data[1] = NextRecord(k)
    /\ \E h : HeaderAt(h)
    /\ Record = SubSeq(SdrRepo[k], 1, m)
    /\ ReadSoFar = Whole(k - 1) \o SubSeq(SdrRepo[k], 1, m)
    /\ ReadingsSoFar = SubSeq(Expected, 1, k - 1)

AfterReading(k) ==
    /\ log[Len(log)].ask.cmd = "reading" /\ log[Len(log) - 1].answer.data[1] = NextRecord(k)
    /\ ReadSoFar = Whole(k) /\ ReadingsSoFar = SubSeq(Expected, 1, k)

Closed ==
    /\ log[Len(log)].ask.cmd = "close"
    /\ ReadSoFar = Whole(Records) /\ ReadingsSoFar = Expected

\* The first part of a record begins it, the next ones go on with it.
LEMMA HeaderRead ==
    ASSUME \E S : log \in Seq(S), SoFarTyped, NEW k \in 1..Records,
           ReadSoFar = Whole(k - 1), ReadingsSoFar = SubSeq(Expected, 1, k - 1),
           NEW e, log' = Append(log, e), e = Exchanged(Sdr(RecordId(k), 0, Header))
    PROVE  SoFarTyped' /\ InRecord(k, Header)'
<1>1. /\ 0 \in Nat /\ Header \in Nat /\ 0 + Header <= Len(SdrRepo[k])
      /\ 0 + Header = Header
  BY RecordsAre DEF Header
<1>2. /\ e.ask.cmd = "sdr" /\ e.ask.rid = RecordId(k) /\ e.ask.off = 0
      /\ e.answer.data[1] = NextRecord(k)
      /\ BytesOf(e) \in Seq(Nat) /\ ValuesOf(e) = <<>> /\ ValuesOf(e) \in Seq(Nat)
      /\ SubSeq(SdrRepo[k], 1, 0) \in Seq(Nat)
      /\ SubSeq(SdrRepo[k], 1, 0 + Header) = SubSeq(SdrRepo[k], 1, 0) \o BytesOf(e)
  <2>1. PartRead(e, k, 0, Header)
    BY <1>1, ReadSdr, Zenon
  <2> QED BY <2>1 DEF PartRead
<1>3. SubSeq(SdrRepo[k], 1, Header) = BytesOf(e)
  <2>1. SubSeq(SdrRepo[k], 1, 0) = <<>>
    BY RecordsAre, SubSeqEmpty
  <2> QED BY <1>1, <1>2, <2>1, ConcatEmptySeq
<1>4. /\ SoFarTyped'
      /\ ReadSoFar \in Seq(Nat) /\ ReadSoFar' = ReadSoFar \o BytesOf(e)
      /\ ReadingsSoFar \in Seq(Nat) /\ ReadingsSoFar' = ReadingsSoFar \o ValuesOf(e)
  BY <1>2, SoFarMore
<1>5. (\E h : HeaderAt(h))' /\ Record' = BytesOf(e)
  BY <1>2, RecordStart
<1>6. ReadingsSoFar' = ReadingsSoFar
  BY <1>2, <1>4, ConcatEmptySeq
<1>7. log'[Len(log')] = e
  BY AppendLog
<1> QED BY <1>2, <1>3, <1>4, <1>5, <1>6, <1>7
        DEF InRecord, RecordId, NextRecord, Whole, Expected

LEMMA ChunkRead ==
    ASSUME \E S : log \in Seq(S), SoFarTyped, NEW k \in 1..Records, NEW m \in Nat, m # 0,
           InRecord(k, m), NEW cnt \in Nat, m + cnt <= Len(SdrRepo[k]),
           NEW e, log' = Append(log, e), e = Exchanged(Sdr(RecordId(k), m, cnt))
    PROVE  SoFarTyped' /\ InRecord(k, m + cnt)'
<1>1. /\ e.ask.cmd = "sdr" /\ e.ask.rid = RecordId(k) /\ e.ask.off = m
      /\ e.answer.data[1] = NextRecord(k)
      /\ BytesOf(e) \in Seq(Nat) /\ ValuesOf(e) = <<>> /\ ValuesOf(e) \in Seq(Nat)
      /\ SubSeq(SdrRepo[k], 1, m) \in Seq(Nat)
      /\ SubSeq(SdrRepo[k], 1, m + cnt) = SubSeq(SdrRepo[k], 1, m) \o BytesOf(e)
  <2>1. PartRead(e, k, m, cnt)
    BY ReadSdr, Zenon
  <2> QED BY <2>1 DEF PartRead
<1>2. /\ SoFarTyped'
      /\ ReadSoFar \in Seq(Nat) /\ ReadSoFar' = ReadSoFar \o BytesOf(e)
      /\ ReadingsSoFar \in Seq(Nat) /\ ReadingsSoFar' = ReadingsSoFar \o ValuesOf(e)
  BY <1>1, SoFarMore
<1>3. PICK h : HeaderAt(h)
  BY DEF InRecord
<1>4. HeaderAt(h)' /\ Record' = Record \o BytesOf(e)
  BY <1>1, <1>3, RecordMore
<1>5. ReadingsSoFar' = ReadingsSoFar
  BY <1>1, <1>2, ConcatEmptySeq
<1>6. Record' = SubSeq(SdrRepo[k], 1, m + cnt)
  BY <1>1, <1>4 DEF InRecord
<1>7. ReadSoFar' = Whole(k - 1) \o SubSeq(SdrRepo[k], 1, m + cnt)
  <2>1. PICK a : a = Whole(k - 1)
    OBVIOUS
  <2>2. PICK b : b = SubSeq(SdrRepo[k], 1, m)
    OBVIOUS
  <2>3. PICK c : c = BytesOf(e)
    OBVIOUS
  <2>4. a \in Seq(Nat) /\ b \in Seq(Nat) /\ c \in Seq(Nat)
    BY <1>1, <2>1, <2>2, <2>3, WholeMore
  <2>5. (a \o b) \o c = a \o (b \o c)
    BY <2>4, BytesAssociative
  <2>6. ReadSoFar = a \o b
    BY <2>1, <2>2 DEF InRecord
  <2> QED BY <1>1, <1>2, <2>1, <2>2, <2>3, <2>5, <2>6, Zenon
<1>8. log'[Len(log')] = e
  BY AppendLog
<1> QED BY <1>1, <1>2, <1>4, <1>5, <1>6, <1>7, <1>8
        DEF InRecord, RecordId, NextRecord, Whole, Expected

\* After a whole record its sensor is read.
LEMMA ReadingRead ==
    ASSUME \E S : log \in Seq(S), SoFarTyped, NEW k \in 1..Records,
           InRecord(k, Len(SdrRepo[k])), log # <<>>,
           NEW e, log' = Append(log, e), e = Exchanged(Reading(k))
    PROVE  SoFarTyped' /\ AfterReading(k)'
<1>1. e.ask.cmd = "reading" /\ e.answer.data = <<Expected[k]>> /\ Expected[k] \in Nat
  <2>1. Expected[k] = (IF k = 4 THEN 100 ELSE 38) /\ Expected[k] \in Nat
    BY RecordsAre
  <2>2. e.ask = Reading(k) /\ e.answer = AnswerTo(Reading(k))
    BY DEF Exchanged
  <2>3. AnswerTo(Reading(k)) = Answer(0, <<IF k = 4 THEN 100 ELSE 38>>)
    BY DEF AnswerTo, Reading, HandlePacket, Plain
  <2> QED BY <2>1, <2>2, <2>3 DEF Reading, Answer
<1>2. BytesOf(e) = <<>> /\ BytesOf(e) \in Seq(Nat)
      /\ ValuesOf(e) = <<Expected[k]>> /\ ValuesOf(e) \in Seq(Nat)
  BY <1>1 DEF BytesOf, ValuesOf
<1>3. /\ SoFarTyped'
      /\ ReadSoFar \in Seq(Nat) /\ ReadSoFar' = ReadSoFar \o BytesOf(e)
      /\ ReadingsSoFar \in Seq(Nat) /\ ReadingsSoFar' = ReadingsSoFar \o ValuesOf(e)
  BY <1>2, SoFarMore
<1>4. ReadSoFar' = Whole(k)
  <2>1. ReadSoFar' = ReadSoFar
    BY <1>2, <1>3, ConcatEmptySeq
  <2>2. PICK r : r = SdrRepo[k]
    OBVIOUS
  <2>3. SubSeq(r, 1, Len(r)) = r
    BY <2>2, RecordsAre
  <2>4. ReadSoFar = Whole(k - 1) \o SdrRepo[k]
    BY <2>2, <2>3 DEF InRecord
  <2> QED BY <2>1, <2>4, WholeMore
<1>5. ReadingsSoFar' = SubSeq(Expected, 1, k)
  <2>1. PICK x : x = Expected
    OBVIOUS
  <2>2. PICK one : one = <<x[k]>>
    OBVIOUS
  <2>3. PICK n \in Nat : n = k - 1
    BY DEF Records
  <2>4. x \in Seq(Nat) /\ one \in Seq(Nat) /\ Len(one) = 1 /\ one[1] = x[k] /\ Len(x) = Records
    BY <1>1, <2>1, <2>2, RecordsAre
  <2>5. /\ n + Len(one) <= Len(x) /\ n + Len(one) = k
        /\ \A j \in 1..Len(one) : one[j] = x[n + j]
    BY <2>3, <2>4 DEF Records
  <2>6. SubSeq(x, 1, n + Len(one)) = SubSeq(x, 1, n) \o one
    BY <2>4, <2>5, PartMore, Zenon
  <2> QED BY <1>2, <1>3, <2>1, <2>2, <2>3, <2>5, <2>6 DEF InRecord
<1>6. log'[Len(log')] = e /\ log'[Len(log') - 1] = log[Len(log)]
  <2>1. PICK S : log \in Seq(S)
    OBVIOUS
  <2>2. Len(log) \in Nat /\ Len(log) \in 1..Len(log)
    BY <2>1, EmptySeq
  <2> QED BY <2>2, AppendLog
<1> QED BY <1>1, <1>3, <1>4, <1>5, <1>6
        DEF InRecord, AfterReading, NextRecord, Whole, Expected

\* Other commands add nothing.
LEMMA PlainRead ==
    ASSUME \E S : log \in Seq(S), SoFarTyped, NEW cmd, cmd \notin {"sdr", "reading"},
           NEW e, log' = Append(log, e), e = Exchanged(Command(cmd))
    PROVE  SoFarTyped' /\ ReadSoFar' = ReadSoFar /\ ReadingsSoFar' = ReadingsSoFar
           /\ log'[Len(log')].ask.cmd = cmd
<1>1. e.ask.cmd = cmd
  BY DEF Exchanged, Command
<1>2. BytesOf(e) = <<>> /\ ValuesOf(e) = <<>> /\ BytesOf(e) \in Seq(Nat) /\ ValuesOf(e) \in Seq(Nat)
  BY <1>1 DEF BytesOf, ValuesOf
<1>3. /\ SoFarTyped'
      /\ ReadSoFar \in Seq(Nat) /\ ReadSoFar' = ReadSoFar \o BytesOf(e)
      /\ ReadingsSoFar \in Seq(Nat) /\ ReadingsSoFar' = ReadingsSoFar \o ValuesOf(e)
  BY <1>2, SoFarMore
<1>4. log'[Len(log')] = e
  BY AppendLog
<1> QED BY <1>1, <1>2, <1>3, <1>4, ConcatEmptySeq

\* The session is open, and the first header was read.
Opened == Len(log) \in Nat /\ Len(log) > Len(Opening)

\* A tool that has begun to read the records is in one of these phases.
Phase ==
    \/ \E k \in 1..Records, m \in Nat :
          Header <= m /\ m <= Len(SdrRepo[k]) /\ InRecord(k, m)
    \/ \E k \in 1..Records : AfterReading(k)
    \/ Closed

SdrInv ==
    kind = "sdr" =>
       /\ \A i \in 1..Len(log) :
             IF i <= Len(Opening) THEN log[i].ask = Command(Opening[i])
             ELSE log[i].ask.cmd \in {"sdr", "reading", "close"}
       /\ SoFarTyped
       /\ Len(log) <= Len(Opening) => ReadSoFar = <<>> /\ ReadingsSoFar = <<>>
       /\ Opened => Phase

\* The commands that open a session.
LEMMA OpeningIs ==
    /\ Len(Opening) = 7
    /\ \A i \in 1..Len(Opening) : Opening[i] \notin {"sdr", "reading"}
    /\ \A i \in 1..Len(Opening) :
          Opening[i] = "repository" => AnswerTo(Command(Opening[i])).data = <<Records>>
<1>1. Len(Opening) = 7
  BY DEF Opening
<1>2. \A i \in 1..7 : Opening[i] \notin {"sdr", "reading"}
  BY DEF Opening
<1>3. AnswerTo(Command("repository")).data = <<Records>>
  BY RecordsAre DEF AnswerTo, Command, HandlePacket, Plain, Answer
<1> QED BY <1>1, <1>2, <1>3

\* What the tool asks when the session is open.
LEMMA ReadOnAfter ==
    ASSUME Opened
    PROVE  /\ log[Len(log)].ask.cmd = "sdr" =>
                 ReadOn = {IF Len(Record) < Header + Record[Header]
                           THEN Sdr(log[Len(log)].ask.rid, Len(Record),
                                    Min({Chunk, (Header + Record[Header]) - Len(Record)}))
                           ELSE Reading(Record[Header + 3])}
           /\ log[Len(log)].ask.cmd = "reading" =>
                 ReadOn = {IF log[Len(log) - 1].answer.data[1] = LastRecord THEN Command("close")
                           ELSE Sdr(log[Len(log) - 1].answer.data[1], 0, Header)}
           /\ log[Len(log)].ask.cmd = "close" => ReadOn = {}
<1>1. ~(Len(log) < Len(Opening)) /\ Len(log) # Len(Opening)
  <2>1. PICK n : n = Len(log)
    OBVIOUS
  <2>2. PICK w : w = Len(Opening)
    OBVIOUS
  <2>3. n \in Nat /\ n > w /\ w = 7
    BY <2>1, <2>2, OpeningIs DEF Opened
  <2>4. ~(n < w) /\ n # w
    BY <2>3
  <2> QED BY <2>1, <2>2, <2>4
<1>2. ASSUME log[Len(log)].ask.cmd = "sdr"
      PROVE  ReadOn = {IF Len(Record) < Header + Record[Header]
                       THEN Sdr(log[Len(log)].ask.rid, Len(Record),
                                Min({Chunk, (Header + Record[Header]) - Len(Record)}))
                       ELSE Reading(Record[Header + 3])}
  BY <1>1, <1>2, Zenon DEF ReadOn
<1>3. ASSUME log[Len(log)].ask.cmd = "reading"
      PROVE  ReadOn = {IF log[Len(log) - 1].answer.data[1] = LastRecord THEN Command("close")
                       ELSE Sdr(log[Len(log) - 1].answer.data[1], 0, Header)}
  BY <1>1, <1>3, Zenon DEF ReadOn
<1>4. ASSUME log[Len(log)].ask.cmd = "close" PROVE ReadOn = {}
  BY <1>1, <1>4, Zenon DEF ReadOn
<1> QED BY <1>2, <1>3, <1>4

\* In the middle of a record its rest is asked for, and after it its sensor.
LEMMA AskInRecord ==
    ASSUME Opened,
           NEW k \in 1..Records, NEW m \in Nat, Header <= m, m <= Len(SdrRepo[k]), InRecord(k, m),
           NEW a \in ReadOn
    PROVE  \/ m = Len(SdrRepo[k]) /\ a = Reading(k)
           \/ \E cnt \in Nat : /\ m + cnt <= Len(SdrRepo[k])
                               /\ a = Sdr(RecordId(k), m, cnt)
<1>1. /\ Record = SubSeq(SdrRepo[k], 1, m) /\ log[Len(log)].ask.cmd = "sdr"
      /\ log[Len(log)].ask.rid = RecordId(k)
  BY DEF InRecord
<1>2. PICK r : r = SdrRepo[k]
  OBVIOUS
<1>3. r \in Seq(Nat) /\ Len(r) >= Header + 43
  BY <1>2, RecordsAre
<1>9. Len(r) = Header + r[Header] /\ r[Header + 3] = k
  BY <1>2, RecordsAre
<1>10. m <= Len(r) /\ Len(r) \in Nat
  BY <1>2, RecordsAre
<1>4. Len(Record) = m /\ \A i \in 1..m : Record[i] = r[i]
  <2>2. Len(SubSeq(r, 1, m)) = m /\ \A i \in 1..m : SubSeq(r, 1, m)[i] = r[i]
    BY <1>3, <1>10, FirstOf
  <2> QED BY <1>1, <1>2, <2>2
<1>5. Header + Record[Header] = Len(r)
  <2>1. Header \in 1..m
    BY DEF Header
  <2>2. Record[Header] = r[Header]
    BY <1>4, <2>1
  <2> QED BY <1>9, <2>2
<1>6. ReadOn = {IF m < Len(r) THEN Sdr(RecordId(k), m, Min({Chunk, Len(r) - m}))
                ELSE Reading(Record[Header + 3])}
  <2>1. PICK size : size = Header + Record[Header]
    OBVIOUS
  <2>2. PICK n : n = Len(Record)
    OBVIOUS
  <2>3. ReadOn = {IF n < size THEN Sdr(RecordId(k), n, Min({Chunk, size - n}))
                  ELSE Reading(Record[Header + 3])}
    <3>1. ReadOn = {IF Len(Record) < Header + Record[Header]
                    THEN Sdr(log[Len(log)].ask.rid, Len(Record),
                             Min({Chunk, (Header + Record[Header]) - Len(Record)}))
                    ELSE Reading(Record[Header + 3])}
      BY <1>1, ReadOnAfter
    <3> QED BY <1>1, <2>1, <2>2, <3>1, Zenon
  <2>4. n = m /\ size = Len(r)
    BY <1>4, <1>5, <2>1, <2>2
  <2> QED BY <2>3, <2>4, Zenon
<1>7. CASE m < Len(r)
  <2>1. PICK cnt : cnt = Min({Chunk, Len(r) - m})
    OBVIOUS
  <2>2. cnt \in Nat /\ m + cnt <= Len(r)
    <3>1. PICK rest : rest = Len(r) - m
      OBVIOUS
    <3>2. Chunk \in Nat /\ rest \in Nat
      BY <1>7, <1>10, <3>1, PollingAssumption
    <3>3. cnt \in {Chunk, rest} /\ cnt <= rest
      BY <2>1, <3>1, <3>2, MinOf
    <3> QED BY <1>10, <3>1, <3>2, <3>3
  <2> QED BY <1>2, <1>6, <1>7, <2>1, <2>2
<1>8. CASE ~(m < Len(r))
  <2>1. m = Len(r) /\ Record[Header + 3] = k
    <3>1. m = Len(r)
      BY <1>8, <1>10
    <3>2. Header + 3 \in 1..m
      BY <1>3, <3>1 DEF Header
    <3> QED BY <1>4, <1>9, <3>1, <3>2
  <2> QED BY <1>2, <1>6, <1>8, <2>1
<1> QED BY <1>7, <1>8

\* After a reading comes the next record, or the end.
LEMMA AskAfterReading ==
    ASSUME Opened,
           NEW k \in 1..Records, AfterReading(k), NEW a \in ReadOn
    PROVE  IF k = Records THEN a = Command("close")
           ELSE k + 1 \in 1..Records /\ a = Sdr(RecordId(k + 1), 0, Header)
<1>1. ReadOn = {IF NextRecord(k) = LastRecord THEN Command("close")
                ELSE Sdr(NextRecord(k), 0, Header)}
  BY ReadOnAfter DEF AfterReading
<1>2. CASE k = Records
  BY <1>1, <1>2 DEF NextRecord
<1>3. CASE k # Records
  <2>1. NextRecord(k) = k + 1 /\ k + 1 # LastRecord /\ RecordId(k + 1) = k + 1
        /\ k + 1 \in 1..Records
    BY <1>3 DEF NextRecord, RecordId, LastRecord, Records
  <2> QED BY <1>1, <1>3, <2>1
<1> QED BY <1>2, <1>3

\* No record is shorter than a header.
LEMMA HeaderFits ==
    Header \in Nat /\ Header <= Header /\ \A k \in 1..Records : Header <= Len(SdrRepo[k])
<1> SUFFICES ASSUME NEW k \in 1..Records PROVE Header <= Len(SdrRepo[k])
  BY DEF Header
<1>1. PICK size : size = Len(SdrRepo[k])
  OBVIOUS
<1>2. size \in Nat /\ size >= Header + 43
  BY <1>1, RecordsAre
<1> QED BY <1>1, <1>2 DEF Header

\* A phase leads to a phase.
LEMMA PhaseNext ==
    ASSUME \E S : log \in Seq(S), Opened, SoFarTyped, Phase, NEW a \in ReadOn,
           log' = Append(log, Exchanged(a))
    PROVE  SoFarTyped' /\ Phase' /\ a.cmd \in {"sdr", "reading", "close"}
<1>1. PICK e : e = Exchanged(a)
  OBVIOUS
<1>2. log' = Append(log, e)
  BY <1>1
<1>3. /\ \A k \in 1..Records, off \in Nat, cnt \in Nat : Sdr(RecordId(k), off, cnt).cmd = "sdr"
      /\ \A k : Reading(k).cmd = "reading"
      /\ Command("close").cmd = "close"
  BY DEF Sdr, Reading, Command
<1>4. ASSUME NEW k \in 1..Records, NEW m \in Nat, Header <= m, m <= Len(SdrRepo[k]), InRecord(k, m)
      PROVE  SoFarTyped' /\ Phase' /\ a.cmd \in {"sdr", "reading", "close"}
  <2>1. CASE m = Len(SdrRepo[k]) /\ a = Reading(k)
    <3>1. log # <<>>
      <4>1. PICK n : n = Len(log)
        OBVIOUS
      <4>2. n \in Nat /\ n > 7
        BY <4>1, OpeningIs DEF Opened
      <4> QED BY <4>1, <4>2
    <3>2. e = Exchanged(Reading(k))
      BY <1>1, <2>1
    <3>3. InRecord(k, Len(SdrRepo[k]))
      BY <1>4, <2>1
    <3>4. SoFarTyped' /\ AfterReading(k)'
      BY <1>2, <3>1, <3>2, <3>3, ReadingRead
    <3> QED BY <1>3, <2>1, <3>4 DEF Phase, AfterReading, Whole, Expected, NextRecord
  <2>2. ASSUME NEW cnt \in Nat, m + cnt <= Len(SdrRepo[k]), a = Sdr(RecordId(k), m, cnt)
        PROVE  SoFarTyped' /\ Phase' /\ a.cmd \in {"sdr", "reading", "close"}
    <3>1. e = Exchanged(Sdr(RecordId(k), m, cnt)) /\ m # 0
      BY <1>1, <1>4, <2>2 DEF Header
    <3>2. SoFarTyped' /\ InRecord(k, m + cnt)'
      BY <1>2, <1>4, <2>2, <3>1, ChunkRead
    <3>3. m + cnt \in Nat /\ Header <= m + cnt
      BY <1>4 DEF Header
    <3>4. Phase'
      BY <2>2, <3>2, <3>3 DEF Phase
    <3> QED BY <1>3, <2>2, <3>2, <3>4
  <2> QED BY <1>4, <2>1, <2>2, AskInRecord
<1>5. ASSUME NEW k \in 1..Records, AfterReading(k)
      PROVE  SoFarTyped' /\ Phase' /\ a.cmd \in {"sdr", "reading", "close"}
  <2>1. CASE k = Records /\ a = Command("close")
    <3>1. /\ SoFarTyped' /\ ReadSoFar' = ReadSoFar /\ ReadingsSoFar' = ReadingsSoFar
          /\ log'[Len(log')].ask.cmd = "close"
      BY <1>1, <1>2, <2>1, PlainRead
    <3>2. SubSeq(Expected, 1, Records) = Expected
      BY RecordsAre
    <3>3. ReadSoFar = Whole(Records) /\ ReadingsSoFar = SubSeq(Expected, 1, Records)
      BY <1>5, <2>1 DEF AfterReading
    <3>4. Closed'
      BY <3>1, <3>2, <3>3 DEF Closed, Whole, Expected
    <3> QED BY <1>3, <2>1, <3>1, <3>4 DEF Phase
  <2>2. ASSUME k + 1 \in 1..Records, a = Sdr(RecordId(k + 1), 0, Header)
        PROVE  SoFarTyped' /\ Phase' /\ a.cmd \in {"sdr", "reading", "close"}
    <3>1. PICK j \in 1..Records : j = k + 1
      BY <2>2
    <3>2. ReadSoFar = Whole(j - 1) /\ ReadingsSoFar = SubSeq(Expected, 1, j - 1)
      <4>1. j - 1 = k
        BY <3>1 DEF Records
      <4> QED BY <1>5, <4>1 DEF AfterReading
    <3>3. SoFarTyped' /\ InRecord(j, Header)'
      BY <1>1, <1>2, <2>2, <3>1, <3>2, HeaderRead
    <3>4. Header \in Nat /\ Header <= Header /\ Header <= Len(SdrRepo[j])
      BY HeaderFits
    <3>5. Phase'
      BY <3>3, <3>4 DEF Phase
    <3>6. a.cmd = "sdr"
      BY <2>2 DEF Sdr
    <3> QED BY <3>3, <3>5, <3>6
  <2> QED BY <1>5, <2>1, <2>2, AskAfterReading
<1>6. CASE Closed
  <2>1. log[Len(log)].ask.cmd = "close"
    BY <1>6 DEF Closed
  <2>2. ReadOn = {}
    BY <2>1, ReadOnAfter
  <2> QED BY <2>2
<1> QED BY <1>4, <1>5, <1>6 DEF Phase

\* A tool that reads the records stays in its phases.
LEMMA SdrNext == ASSUME ExchangeInv, SdrInv, [Next]_vars PROVE SdrInv'
<1> SUFFICES ASSUME kind = "sdr" PROVE SdrInv'
  BY LogStep DEF SdrInv
<1>1. CASE log' = log
  <2>1. ReadSoFar' = ReadSoFar /\ ReadingsSoFar' = ReadingsSoFar /\ SoFarTyped' = SoFarTyped
    BY <1>1 DEF ReadSoFar, ReadingsSoFar, SoFarTyped
  <2>2. Phase' <=> Phase
    BY <1>1, <2>1 DEF Phase, InRecord, AfterReading, Closed, Record, HeaderAt, Headers, DataOf
  <2> QED BY <1>1, <2>1, <2>2 DEF SdrInv, Opened
<1>2. CASE \E a \in AskOn : log' = Append(log, Exchanged(a))
  <2>1. PICK a \in AskOn : log' = Append(log, Exchanged(a))
    BY <1>2
  <2>2. PICK e : e = Exchanged(a)
    OBVIOUS
  <2>3. PICK n : n = Len(log)
    OBVIOUS
  <2>4. /\ n \in Nat /\ Len(log') = n + 1
        /\ \A i \in 1..n : log'[i] = log[i]
        /\ log'[n + 1] = e /\ e.ask = a
    BY <2>1, <2>2, <2>3, AppendLog DEF ExchangeInv, Exchanged
  <2>5. a \in ReadOn
    BY DEF AskOn
  <2>6. /\ \E S : log \in Seq(S)
        /\ SoFarTyped /\ (n <= 7 => ReadSoFar = <<>> /\ ReadingsSoFar = <<>>)
        /\ Opened => Phase
    BY <2>3, OpeningIs DEF SdrInv, ExchangeInv
  <2>7. \A i \in 1..n : IF i <= 7 THEN log'[i].ask = Command(Opening[i])
                        ELSE log'[i].ask.cmd \in {"sdr", "reading", "close"}
    BY <2>3, <2>4, OpeningIs DEF SdrInv
  <2> DEFINE Kept ==
               /\ IF n + 1 <= 7 THEN a = Command(Opening[n + 1])
                  ELSE a.cmd \in {"sdr", "reading", "close"}
               /\ SoFarTyped'
               /\ n + 1 <= 7 => ReadSoFar' = <<>> /\ ReadingsSoFar' = <<>>
               /\ n + 1 > 7 => Phase'
  <2>8. ASSUME n < 7 PROVE Kept
    <3>1. a = Command(Opening[n + 1])
      BY <2>3, <2>5, <2>8, OpeningIs DEF ReadOn
    <3>2. Opening[n + 1] \notin {"sdr", "reading"}
      BY <2>4, <2>8, OpeningIs
    <3>3. /\ SoFarTyped' /\ ReadSoFar' = ReadSoFar /\ ReadingsSoFar' = ReadingsSoFar
      <4>1. PICK cmd : cmd = Opening[n + 1]
        OBVIOUS
      <4>2. cmd \notin {"sdr", "reading"} /\ e = Exchanged(Command(cmd)) /\ log' = Append(log, e)
        BY <2>1, <2>2, <3>1, <3>2, <4>1
      <4> QED BY <2>6, <4>2, PlainRead
    <3>4. n <= 7 /\ n + 1 <= 7 /\ ~(n + 1 > 7)
      BY <2>4, <2>8
    <3>5. ReadSoFar' = <<>> /\ ReadingsSoFar' = <<>>
      BY <2>6, <3>3, <3>4
    <3> QED BY <3>1, <3>3, <3>4, <3>5, Zenon
  <2>9. ASSUME n = 7 PROVE Kept
    <3>1. a = Sdr(RecordId(1), 0, Header)
      BY <2>3, <2>5, <2>9, OpeningIs DEF ReadOn, RecordId
    <3>2. PICK k \in 1..Records : k = 1
      BY DEF Records
    <3>3. ReadSoFar = Whole(k - 1) /\ ReadingsSoFar = SubSeq(Expected, 1, k - 1)
      <4>1. k - 1 = 0
        BY <3>2
      <4>2. SubSeq(Expected, 1, 0) = <<>>
        BY RecordsAre, SubSeqEmpty
      <4> QED BY <2>6, <2>9, <4>1, <4>2, WholeEnds
    <3>4. SoFarTyped' /\ InRecord(k, Header)'
      BY <2>1, <2>2, <2>6, <3>1, <3>2, <3>3, HeaderRead
    <3>5. Header \in Nat /\ Header <= Header /\ Header <= Len(SdrRepo[k])
      BY HeaderFits
    <3>6. Phase'
      BY <3>4, <3>5 DEF Phase
    <3>7. a.cmd = "sdr"
      BY <3>1 DEF Sdr
    <3> QED BY <2>9, <3>4, <3>6, <3>7
  <2>10. ASSUME n > 7 PROVE Kept
    <3>1. Opened
      BY <2>3, <2>4, <2>10, OpeningIs DEF Opened
    <3>2. SoFarTyped' /\ Phase' /\ a.cmd \in {"sdr", "reading", "close"}
      BY <2>1, <2>5, <2>6, <3>1, PhaseNext
    <3>3. ~(n + 1 <= 7)
      BY <2>4, <2>10
    <3> QED BY <3>2, <3>3
  <2>11. Kept
    BY <2>4, <2>8, <2>9, <2>10
  <2>12. Opening' = Opening
    BY DEF Opening
  <2>13. ASSUME NEW i \in 1..Len(log')
         PROVE  IF i <= 7 THEN log'[i].ask = Command(Opening[i])
                ELSE log'[i].ask.cmd \in {"sdr", "reading", "close"}
    <3>1. CASE i \in 1..n
      BY <2>7, <3>1
    <3>2. CASE i = n + 1
      BY <2>4, <2>11, <3>2
    <3> QED BY <2>4, <3>1, <3>2
  <2>14. Len(log') <= 7 => ReadSoFar' = <<>> /\ ReadingsSoFar' = <<>>
    BY <2>4, <2>11
  <2>15. Opened' => Phase'
    BY <2>4, <2>11, OpeningIs DEF Opened, Opening
  <2> QED BY <2>11, <2>13, <2>14, <2>15, OpeningIs DEF SdrInv, Opening, Command
<1> QED BY <1>1, <1>2, LogStep

\* In every phase a start of the repository was read, in the end all of it.
LEMMA SdrRecordsWhole == ASSUME ExchangeInv, SdrInv PROVE RecordsWhole
<1> SUFFICES ASSUME kind = "sdr" PROVE RecordsWhole
  BY DEF RecordsWhole
<1>1. /\ \A i \in 1..Len(log) :
            IF i <= Len(Opening) THEN log[i].ask = Command(Opening[i])
            ELSE log[i].ask.cmd \in {"sdr", "reading", "close"}
      /\ Len(log) <= Len(Opening) => ReadSoFar = <<>> /\ ReadingsSoFar = <<>>
      /\ Opened => Phase
  BY DEF SdrInv
<1>2. PICK n : n = Len(log)
  OBVIOUS
<1>3. n \in Nat
  <2>1. PICK S : log \in Seq(S)
    BY DEF ExchangeInv
  <2> QED BY <1>2, <2>1
<1>4. n > 7 => Opened
  BY <1>2, <1>3, OpeningIs DEF Opened
<1>5. IsPrefix(ReadSoFar, Whole(Records)) /\ IsPrefix(ReadingsSoFar, Expected)
  <2>1. IsPrefix(Whole(0), Whole(Records))
    BY WholeIsPrefix DEF Records
  <2>2. \A k \in 0..Records : IsPrefix(SubSeq(Expected, 1, k), Expected)
    <3> SUFFICES ASSUME NEW k \in 0..Records PROVE IsPrefix(SubSeq(Expected, 1, k), Expected)
      OBVIOUS
    <3>1. PICK x : x = Expected
      OBVIOUS
    <3>2. x \in Seq(Nat) /\ k \in Nat /\ k <= Len(x)
      <4>1. x \in Seq(Nat) /\ Len(x) = Records
        BY <3>1, RecordsAre
      <4> QED BY <4>1 DEF Records
    <3>3. /\ SubSeq(x, 1, k) \in Seq(Nat) /\ Len(SubSeq(x, 1, k)) = k
          /\ \A i \in 1..k : SubSeq(x, 1, k)[i] = x[i]
      BY <3>2, FirstOf
    <3>4. IsPrefix(SubSeq(x, 1, k), x)
      BY <3>2, <3>3, PrefixOf
    <3> QED BY <3>1, <3>4
  <2>3. CASE n <= 7
    <3>1. ReadSoFar = Whole(0) /\ ReadingsSoFar = <<>>
      BY <1>1, <1>2, <2>3, OpeningIs, WholeEnds
    <3>2. SubSeq(Expected, 1, 0) = <<>>
      BY RecordsAre, SubSeqEmpty
    <3>3. 0 \in 0..Records
      BY DEF Records
    <3> QED BY <2>1, <2>2, <3>1, <3>2, <3>3
  <2>4. ASSUME NEW k \in 1..Records, NEW m \in Nat, m <= Len(SdrRepo[k]), InRecord(k, m)
        PROVE  IsPrefix(ReadSoFar, Whole(Records)) /\ IsPrefix(ReadingsSoFar, Expected)
    <3>1. k - 1 \in 0..Records /\ k \in 0..Records
      BY DEF Records
    <3>2. PICK r : r = SdrRepo[k]
      OBVIOUS
    <3>3. PICK part : part = SubSeq(r, 1, m)
      OBVIOUS
    <3>4. r \in Seq(Nat) /\ m <= Len(r)
      BY <2>4, <3>2, RecordsAre
    <3>5. part \in Seq(Nat) /\ Len(part) = m /\ \A i \in 1..m : part[i] = r[i]
      BY <3>3, <3>4, FirstOf
    <3>6. PICK base : base = Whole(k - 1)
      OBVIOUS
    <3>7. base \in Seq(Nat) /\ base \o r = Whole(k)
      BY <3>2, <3>6, WholeMore
    <3>8. ReadSoFar = base \o part /\ ReadingsSoFar = SubSeq(Expected, 1, k - 1)
      BY <2>4, <3>2, <3>3, <3>6 DEF InRecord
    <3>9. base \o part \in Seq(Nat) /\ base \o r \in Seq(Nat) /\ IsPrefix(base \o part, base \o r)
      BY <3>4, <3>5, <3>7, PrefixConcatOf
    <3>10. IsPrefix(base \o r, Whole(Records)) /\ Whole(Records) \in Seq(Nat)
      <4>1. Records \in 0..Records
        BY DEF Records
      <4>2. Whole(Records) \in Seq(Nat) /\ IsPrefix(Whole(k), Whole(Records))
        BY <3>1, <4>1, WholeIsPrefix
      <4> QED BY <3>7, <4>2
    <3>11. IsPrefix(base \o part, Whole(Records))
      BY <3>9, <3>10, PrefixTransitive
    <3> QED BY <2>2, <3>1, <3>8, <3>11
  <2>5. ASSUME NEW k \in 1..Records, AfterReading(k)
        PROVE  IsPrefix(ReadSoFar, Whole(Records)) /\ IsPrefix(ReadingsSoFar, Expected)
    <3>1. k \in 0..Records
      BY DEF Records
    <3> QED BY <2>2, <2>5, <3>1, WholeIsPrefix DEF AfterReading
  <2>6. ASSUME Closed
        PROVE  IsPrefix(ReadSoFar, Whole(Records)) /\ IsPrefix(ReadingsSoFar, Expected)
    <3>1. Records \in 0..Records /\ SubSeq(Expected, 1, Records) = Expected
      BY RecordsAre DEF Records
    <3> QED BY <2>2, <2>6, <3>1, WholeIsPrefix DEF Closed
  <2> QED BY <1>1, <1>3, <1>4, <2>3, <2>4, <2>5, <2>6 DEF Phase
<1>6. ASSUME status = "done" PROVE ReadSoFar = Whole(Records) /\ ReadingsSoFar = Expected
  <2>1. ReadOn = {}
    BY <1>6 DEF ExchangeInv, AskOn
  <2>2. n > 7 /\ Opened
    <3>1. ASSUME n < 7 PROVE FALSE
      BY <1>2, <2>1, <3>1, OpeningIs DEF ReadOn
    <3>2. ASSUME n = 7 PROVE FALSE
      BY <1>2, <2>1, <3>2, OpeningIs DEF ReadOn
    <3> QED BY <1>3, <1>4, <3>1, <3>2
  <2>3. log[n].ask.cmd \notin {"sdr", "reading"}
    BY <1>2, <2>1, <2>2, ReadOnAfter
  <2>4. Closed
    BY <1>1, <1>2, <2>2, <2>3 DEF Phase, InRecord, AfterReading
  <2> QED BY <2>4 DEF Closed
<1>7. ASSUME NEW i \in 1..Len(log), log[i].ask.cmd = "repository"
      PROVE  log[i].answer.data = <<Records>>
  <2>1. i <= Len(Opening) /\ log[i].ask = Command(Opening[i])
    BY <1>1, <1>7
  <2>2. Opening[i] = "repository" /\ i \in 1..Len(Opening)
    BY <1>7, <2>1, OpeningIs DEF Command
  <2>3. log[i].answer = AnswerTo(Command(Opening[i]))
    BY <2>1 DEF ExchangeInv, AnswersMatch
  <2> QED BY <2>2, <2>3, OpeningIs
<1>8. Whole(Records) = FlattenSeq(SdrRepo) /\ Len(Expected) = Records
  BY WholeEnds, RecordsAre
<1>9. ASSUME status = "done", NEW i \in 1..Len(log), log[i].ask.cmd = "repository"
      PROVE  log[i].answer.data = <<Len(ReadingsSoFar)>>
  BY <1>6, <1>7, <1>8, <1>9
<1> DEFINE read == FlattenSeq([i \in 1..Len(log) |->
                       IF log[i].ask.cmd = "sdr" THEN DataOf(i) ELSE <<>>])
           readings == FlattenSeq([i \in 1..Len(log) |->
                       IF log[i].ask.cmd = "reading" THEN log[i].answer.data ELSE <<>>])
<1>10. read = ReadSoFar /\ readings = ReadingsSoFar
  BY Zenon DEF ReadSoFar, ReadingsSoFar, BytesOf, ValuesOf, DataOf
<1>11. RecordsWhole <=>
          /\ IsPrefix(read, FlattenSeq(SdrRepo)) /\ IsPrefix(readings, Expected)
          /\ status = "done" =>
                /\ read = FlattenSeq(SdrRepo)
                /\ \A i \in 1..Len(log) :
                      log[i].ask.cmd = "repository" => log[i].answer.data = <<Len(readings)>>
  BY Zenon DEF RecordsWhole, Expected
<1> HIDE DEF read, readings
<1> QED BY <1>5, <1>6, <1>8, <1>9, <1>10, <1>11

\* The records that are read in chunks are the repository, byte by byte, as many as were
\* announced, and each sensor's reading is one for the unit of its record, whatever the
\* chunks are.
THEOREM RecordsWholeAlways == Spec => []RecordsWhole
<1>1. Init => SdrInv
  <2> SUFFICES ASSUME Init PROVE SdrInv
    OBVIOUS
  <2>1. log = <<>> /\ Len(log) = 0
    BY DEF Init
  <2>2. SoFarTyped
    BY <2>1 DEF SoFarTyped
  <2>3. ReadSoFar = <<>> /\ ReadingsSoFar = <<>>
    <3>1. /\ [i \in 1..Len(log) |-> BytesOf(log[i])] = <<>>
          /\ [i \in 1..Len(log) |-> ValuesOf(log[i])] = <<>>
      BY <2>1
    <3> QED BY <3>1, FlattenEmpty DEF ReadSoFar, ReadingsSoFar
  <2>4. ~Opened
    BY <2>1, OpeningIs DEF Opened
  <2> QED BY <2>1, <2>2, <2>3, <2>4 DEF SdrInv
<1>2. ExchangeInv /\ SdrInv /\ [Next]_vars => SdrInv'
  BY SdrNext
<1>3. ExchangeInv /\ SdrInv => RecordsWhole
  BY SdrRecordsWhole
<1> QED BY <1>1, <1>2, <1>3, ExchangeAlways, PTL DEF Spec

-----------------------------------------------------------------------------
(* Crawls. *)

\* A path that is a pattern of the mux belongs to the handler of this pattern.
LEMMA RouteExact ==
    ASSUME NEW path, NEW handler, <<path, handler>> \in Exact,
           \A p \in Exact : p[1] = path => p = <<path, handler>>
    PROVE  Route(path) = handler
<1> DEFINE exact == {p \in Exact : p[1] = path}
           above == {p \in Subtrees : IsPrefix(p[1], path)}
           longest == CHOOSE p \in above : \A q \in above : Len(p[1]) >= Len(q[1])
<1>1. exact = {<<path, handler>>}
  OBVIOUS
<1>2. Route(path) = IF exact # {} THEN (CHOOSE p \in exact : TRUE)[2] ELSE longest[2]
  BY DEF Route
<1> HIDE DEF exact, longest
<1>3. (CHOOSE p \in exact : TRUE) = <<path, handler>>
  BY <1>1
<1>4. Route(path) = <<path, handler>>[2]
  BY <1>1, <1>2, <1>3
<1> QED BY <1>4

\* No path stands for another one.
LEMMA PathsDiffer ==
        /\ <<>> \notin {Chassis, Chassis1, Thermal, Power, Systems, System1, Memory1,
          Reset("1"), Reset("Self"), Managers, Manager1, ManagerSelf, EthernetSelf}
        /\ Chassis \notin {<<>>, Chassis1, Thermal, Power, Systems, System1, Memory1,
          Reset("1"), Reset("Self"), Managers, Manager1, ManagerSelf, EthernetSelf}
        /\ Chassis1 \notin {<<>>, Chassis, Thermal, Power, Systems, System1, Memory1,
          Reset("1"), Reset("Self"), Managers, Manager1, ManagerSelf, EthernetSelf}
        /\ Thermal \notin {<<>>, Chassis, Chassis1, Power, Systems, System1, Memory1,
          Reset("1"), Reset("Self"), Managers, Manager1, ManagerSelf, EthernetSelf}
        /\ Power \notin {<<>>, Chassis, Chassis1, Thermal, Systems, System1, Memory1,
          Reset("1"), Reset("Self"), Managers, Manager1, ManagerSelf, EthernetSelf}
        /\ Systems \notin {<<>>, Chassis, Chassis1, Thermal, Power, System1, Memory1,
          Reset("1"), Reset("Self"), Managers, Manager1, ManagerSelf, EthernetSelf}
        /\ System1 \notin {<<>>, Chassis, Chassis1, Thermal, Power, Systems, Memory1,
          Reset("1"), Reset("Self"), Managers, Manager1, ManagerSelf, EthernetSelf}
        /\ Reset("1") \notin {<<>>, Chassis, Chassis1, Thermal, Power, Systems, System1,
          Memory1, Reset("Self"), Managers, Manager1, ManagerSelf, EthernetSelf}
        /\ Managers \notin {<<>>, Chassis, Chassis1, Thermal, Power, Systems, System1,
          Memory1, Reset("1"), Reset("Self"), Manager1, ManagerSelf, EthernetSelf}
        /\ Manager1 \notin {<<>>, Chassis, Chassis1, Thermal, Power, Systems, System1,
          Memory1, Reset("1"), Reset("Self"), Managers, ManagerSelf, EthernetSelf}
        /\ Ethernet \notin {<<>>, Chassis, Chassis1, Thermal, Power, Systems, System1,
          Memory1, Reset("1"), Reset("Self"), Managers, Manager1, ManagerSelf, EthernetSelf}
BY DEF Chassis, Chassis1, Thermal, Power, Systems, System1, Memory1, Reset,
         Managers, Manager1, ManagerSelf, Ethernet, EthernetSelf

LEMMA ExactRoutes ==
    /\ Route(<<>>) = "ServiceRoot"
    /\ Route(Chassis) = "ChassisCollection"
    /\ Route(Chassis1) = "Chassis"
    /\ Route(Thermal) = "Thermal"
    /\ Route(Power) = "Power"
    /\ Route(Systems) = "SystemsCollection"
    /\ Route(System1) = "System"
    /\ Route(Reset("1")) = "SystemReset"
    /\ Route(Managers) = "ManagersCollection"
    /\ Route(Manager1) = "Manager"
<1>1. Route(<<>>) = "ServiceRoot"
  <2>1. /\ <<<<>>, "ServiceRoot">> \in Exact
        /\ \A p \in Exact : p[1] = <<>> => p = <<<<>>, "ServiceRoot">>
    BY PathsDiffer DEF Exact
  <2> QED BY <2>1, RouteExact
<1>2. Route(Chassis) = "ChassisCollection"
  <2>1. /\ <<Chassis, "ChassisCollection">> \in Exact
        /\ \A p \in Exact : p[1] = Chassis => p = <<Chassis, "ChassisCollection">>
    BY PathsDiffer DEF Exact
  <2> QED BY <2>1, RouteExact
<1>3. Route(Chassis1) = "Chassis"
  <2>1. /\ <<Chassis1, "Chassis">> \in Exact
        /\ \A p \in Exact : p[1] = Chassis1 => p = <<Chassis1, "Chassis">>
    BY PathsDiffer DEF Exact
  <2> QED BY <2>1, RouteExact
<1>4. Route(Thermal) = "Thermal"
  <2>1. /\ <<Thermal, "Thermal">> \in Exact
        /\ \A p \in Exact : p[1] = Thermal => p = <<Thermal, "Thermal">>
    BY PathsDiffer DEF Exact
  <2> QED BY <2>1, RouteExact
<1>5. Route(Power) = "Power"
  <2>1. /\ <<Power, "Power">> \in Exact
        /\ \A p \in Exact : p[1] = Power => p = <<Power, "Power">>
    BY PathsDiffer DEF Exact
  <2> QED BY <2>1, RouteExact
<1>6. Route(Systems) = "SystemsCollection"
  <2>1. /\ <<Systems, "SystemsCollection">> \in Exact
        /\ \A p \in Exact : p[1] = Systems => p = <<Systems, "SystemsCollection">>
    BY PathsDiffer DEF Exact
  <2> QED BY <2>1, RouteExact
<1>7. Route(System1) = "System"
  <2>1. /\ <<System1, "System">> \in Exact
        /\ \A p \in Exact : p[1] = System1 => p = <<System1, "System">>
    BY PathsDiffer DEF Exact
  <2> QED BY <2>1, RouteExact
<1>8. Route(Reset("1")) = "SystemReset"
  <2>1. /\ <<Reset("1"), "SystemReset">> \in Exact
        /\ \A p \in Exact : p[1] = Reset("1") => p = <<Reset("1"), "SystemReset">>
    BY PathsDiffer DEF Exact
  <2> QED BY <2>1, RouteExact
<1>9. Route(Managers) = "ManagersCollection"
  <2>1. /\ <<Managers, "ManagersCollection">> \in Exact
        /\ \A p \in Exact : p[1] = Managers => p = <<Managers, "ManagersCollection">>
    BY PathsDiffer DEF Exact
  <2> QED BY <2>1, RouteExact
<1>10. Route(Manager1) = "Manager"
  <2>1. /\ <<Manager1, "Manager">> \in Exact
        /\ \A p \in Exact : p[1] = Manager1 => p = <<Manager1, "Manager">>
    BY PathsDiffer DEF Exact
  <2> QED BY <2>1, RouteExact
<1> QED BY <1>1, <1>2, <1>3, <1>4, <1>5, <1>6, <1>7, <1>8, <1>9, <1>10

\* The interfaces of manager 1 have no pattern of their own: they belong to the manager.
LEMMA EthernetRoute == Route(Ethernet) = "Manager"
<1> DEFINE exact == {p \in Exact : p[1] = Ethernet}
           above == {p \in Subtrees : IsPrefix(p[1], Ethernet)}
           Longest(p) == \A q \in above : Len(p[1]) >= Len(q[1])
           longest == CHOOSE p \in above : Longest(p)
           manager == <<Manager1, "Manager">>
           Segments == {"Chassis", "1", "Thermal", "Power", "Systems", "Memory", "Managers",
                        "EthernetInterfaces"}
<1>1. exact = {}
  BY PathsDiffer DEF Exact
<1>2. \A p \in Subtrees : p[1] \in Seq(Segments)
  <2>1. <<>> \in Seq(Segments) /\ Chassis \in Seq(Segments) /\ Chassis1 \in Seq(Segments)
    BY DEF Chassis, Chassis1
  <2>2. Thermal \in Seq(Segments) /\ Power \in Seq(Segments) /\ Systems \in Seq(Segments)
    BY DEF Thermal, Power, Systems
  <2>3. System1 \in Seq(Segments) /\ Memories \in Seq(Segments)
    BY DEF System1, Memories
  <2>4. Managers \in Seq(Segments) /\ Manager1 \in Seq(Segments)
    BY DEF Managers, Manager1
  <2>5. \A p \in Subtrees : p[1] \in {<<>>, Chassis, Chassis1, Thermal, Power, Systems, System1,
                                    Memories, Managers, Manager1}
    BY DEF Subtrees
  <2> HIDE DEF Segments
  <2> QED BY <2>1, <2>2, <2>3, <2>4, <2>5
<1>3. /\ Ethernet \in Seq(Segments) /\ Len(Ethernet) = 3
      /\ Ethernet[1] = "Managers" /\ Ethernet[2] = "1"
  BY DEF Ethernet
<1>4. \A p \in Subtrees :
         IsPrefix(p[1], Ethernet) <=>
            Len(p[1]) <= Len(Ethernet) /\ \A m \in 1..Len(p[1]) : p[1][m] = Ethernet[m]
  <2> HIDE DEF Segments
  <2> QED BY <1>2, <1>3, PrefixOf
<1> HIDE DEF Segments
<1>5. manager \in above /\ Len(manager[1]) = 2
  <2>1. manager \in Subtrees /\ manager[1] = Manager1
    BY DEF Subtrees
  <2>2. Len(Manager1) = 2 /\ Manager1[1] = "Managers" /\ Manager1[2] = "1"
    BY DEF Manager1
  <2> HIDE DEF manager
  <2>3. IsPrefix(manager[1], Ethernet)
    <3>1. \A m \in 1..2 : Manager1[m] = Ethernet[m]
      BY <1>3, <2>2
    <3>2. /\ Len(manager[1]) <= Len(Ethernet)
          /\ \A m \in 1..Len(manager[1]) : manager[1][m] = Ethernet[m]
      BY <1>3, <2>1, <2>2, <3>1
    <3> QED BY <1>4, <2>1, <3>2
  <2> QED BY <2>1, <2>2, <2>3
<1>6. ASSUME NEW p \in above PROVE p = manager \/ Len(p[1]) < 2
  <2> SUFFICES ASSUME p # manager, ~(Len(p[1]) < 2) PROVE FALSE
    OBVIOUS
  <2>1. Len(p[1]) \in Nat
    BY <1>2, LenProperties
  <2>2. p[1][1] = "Managers"
    <3>1. 1 \in 1..Len(p[1])
      BY <2>1
    <3> QED BY <1>3, <1>4, <3>1
  <2>3. Len(<<>>) = 0 /\ Len(Chassis) = 1 /\ Len(Systems) = 1 /\ Len(Managers) = 1
    BY DEF Chassis, Systems, Managers
  <2>4. p[1] # <<>> /\ p[1] # Chassis /\ p[1] # Systems /\ p[1] # Managers
    BY <2>1, <2>3
  <2>5. p \in Subtrees
    OBVIOUS
  <2> HIDE DEF above
  <2>6. p[1] \in {Chassis1, Thermal, Power, System1, Memories}
    BY <2>4, <2>5 DEF Subtrees
  <2>7. p[1][1] \in {"Chassis", "Systems"}
    BY <2>6 DEF Chassis1, Thermal, Power, System1, Memories
  <2> QED BY <2>2, <2>7
<1>7. \A p \in above : Len(p[1]) \in Nat
  BY <1>2, LenProperties
<1>8. Route(Ethernet) = IF exact # {} THEN (CHOOSE p \in exact : TRUE)[2] ELSE longest[2]
  BY DEF Route
<1> HIDE DEF exact, above
<1>9. Longest(manager) /\ \A p \in above : Longest(p) => p = manager
  <2> HIDE DEF manager
  <2>1. \A p \in above : p = manager \/ Len(p[1]) < Len(manager[1])
    BY <1>5, <1>6
  <2>2. Len(manager[1]) = 2
    BY <1>5
  <2>3. Longest(manager)
    <3> SUFFICES ASSUME NEW q \in above PROVE Len(manager[1]) >= Len(q[1])
      OBVIOUS
    <3>1. CASE q = manager
      <4>1. Len(q[1]) = Len(manager[1])
        BY <3>1
      <4>2. Len(q[1]) = 2
        BY <2>2, <4>1
      <4> QED BY <2>2, <4>2
    <3>2. CASE q # manager
      BY <1>7, <2>1, <2>2, <3>2
    <3> QED BY <3>1, <3>2
  <2>4. ASSUME NEW p \in above, Longest(p) PROVE p = manager
    <3>1. Len(p[1]) >= Len(manager[1]) /\ Len(p[1]) \in Nat
      BY <1>5, <1>7, <2>4
    <3> QED BY <2>1, <2>2, <3>1
  <2> QED BY <2>3, <2>4
<1> HIDE DEF Longest
<1>10. longest = manager
  BY <1>5, <1>9
<1> HIDE DEF longest
<1>11. Route(Ethernet) = manager[2]
  BY <1>1, <1>8, <1>10
<1> QED BY <1>11

\* A request with credentials and one without.
Call(method, path) ==
    [agent |-> "redfish", method |-> method, path |-> path, auth |-> TRUE]
Bare(method, path) ==
    [agent |-> "redfish", method |-> method, path |-> path, auth |-> FALSE]

LEMMA CallIs ==
    ASSUME NEW method, NEW path
    PROVE  /\ AnswerTo(Call(method, path)) = Serve(Call(method, path))
           /\ kind = "crawl" => Get(method, path) = Call(method, path)
           /\ Call(method, path).method = method
BY DEF AnswerTo, Get, Call

LEMMA BareIs ==
    ASSUME NEW method, NEW path
    PROVE  /\ AnswerTo(Bare(method, path)) = Serve(Bare(method, path))
           /\ kind = "stranger" => Get(method, path) = Bare(method, path)
           /\ Bare(method, path).path = path
           /\ ~Bare(method, path).auth
BY DEF AnswerTo, Get, Bare

\* What there is to read for who follows the links, and under which identifier.
Documents ==
    {<<>>, Chassis, Chassis1, Thermal, Power, Systems, System1, Managers, Manager1}
Pages == Documents \cup {Ethernet}

\* What a page of the agent says.
Page(path) == Serve(Call("GET", path))

LEMMA PagesAre ==
    /\ Page(<<>>) = Reply(200, Resource(<<>>, {Systems, Chassis, Managers}))
    /\ Page(Chassis) = Reply(200, Resource(Chassis, {Chassis1}))
    /\ Page(Chassis1) = Reply(200, Resource(Chassis1, {Thermal, Power}))
    /\ Page(Thermal) = Reply(200, Resource(Thermal, {}))
    /\ Page(Power) = Reply(200, Resource(Power, {}))
    /\ Page(Systems) = Reply(200, Resource(Systems, {System1}))
    /\ Page(System1) = Reply(200, [id |-> System1, links |-> {}, targets |-> {Reset("1")}])
    /\ Page(Managers) = Reply(200, Resource(Managers, {Manager1}))
    /\ Page(Manager1) = Reply(200, Resource(Manager1, {Ethernet}))
    /\ Page(Ethernet) = Page(Manager1)
    /\ Serve(Call("POST", Reset("1"))) = Reply(204, Resource(<<>>, {}))
<1>1. ASSUME NEW path, NEW handler, Route(path) = handler,
             handler # "SystemReset", handler # "NotFound"
      PROVE  Page(path) = Reply(200, Written(handler))
  BY <1>1 DEF Page, Serve, Call
<1>2. /\ Written("ServiceRoot") = ServiceRoot
      /\ Written("ChassisCollection") = Resource(Chassis, {Chassis1})
      /\ Written("Chassis") = Resource(Chassis1, {Thermal, Power})
      /\ Written("Thermal") = Resource(Thermal, {})
      /\ Written("Power") = Resource(Power, {})
  BY DEF Written, ChassisTree, SystemsTree, ManagersTree
<1>3. /\ Written("SystemsCollection") = Resource(Systems, {System1})
      /\ Written("System") = [id |-> System1, links |-> {}, targets |-> {Reset("1")}]
  BY DEF Written, ChassisTree, SystemsTree, ManagersTree, Resource
<1>4. /\ Written("ManagersCollection") = Resource(Managers, {Manager1})
      /\ Written("Manager") = Resource(Manager1, {Ethernet})
  BY DEF Written, ChassisTree, SystemsTree, ManagersTree
<1>5. Serve(Call("POST", Reset("1"))) = Reply(204, Resource(<<>>, {}))
  BY ExactRoutes DEF Serve, Call
<1>6. /\ Page(<<>>) = Reply(200, Written("ServiceRoot"))
      /\ Page(Chassis) = Reply(200, Written("ChassisCollection"))
      /\ Page(Chassis1) = Reply(200, Written("Chassis"))
      /\ Page(Thermal) = Reply(200, Written("Thermal"))
      /\ Page(Power) = Reply(200, Written("Power"))
  BY <1>1, ExactRoutes
<1>7. /\ Page(Systems) = Reply(200, Written("SystemsCollection"))
      /\ Page(System1) = Reply(200, Written("System"))
      /\ Page(Managers) = Reply(200, Written("ManagersCollection"))
      /\ Page(Manager1) = Reply(200, Written("Manager"))
      /\ Page(Ethernet) = Reply(200, Written("Manager"))
  BY <1>1, ExactRoutes, EthernetRoute
<1>8. /\ Page(<<>>) = Reply(200, Resource(<<>>, {Systems, Chassis, Managers}))
      /\ Page(Chassis) = Reply(200, Resource(Chassis, {Chassis1}))
      /\ Page(Chassis1) = Reply(200, Resource(Chassis1, {Thermal, Power}))
      /\ Page(Thermal) = Reply(200, Resource(Thermal, {}))
      /\ Page(Power) = Reply(200, Resource(Power, {}))
  BY <1>2, <1>6 DEF ServiceRoot
<1>9. /\ Page(Systems) = Reply(200, Resource(Systems, {System1}))
      /\ Page(System1) = Reply(200, [id |-> System1, links |-> {}, targets |-> {Reset("1")}])
      /\ Page(Managers) = Reply(200, Resource(Managers, {Manager1}))
      /\ Page(Manager1) = Reply(200, Resource(Manager1, {Ethernet}))
      /\ Page(Ethernet) = Page(Manager1)
  BY <1>3, <1>4, <1>7
<1> QED BY <1>5, <1>8, <1>9

\* Links and targets lead to pages and to the reset of the system.
LEMMA PagesAreClosed ==
    ASSUME NEW path \in Pages
    PROVE  /\ Page(path).code = 200
           /\ Page(path).resource.links \subseteq Pages
           /\ Page(path).resource.targets \subseteq {Reset("1")}
           /\ Page(path).resource.id \in Documents
<1>1. CASE path \in {<<>>, Chassis, Chassis1, Thermal, Power}
  BY <1>1, PagesAre DEF Reply, Resource, Documents, Pages
<1>2. CASE path \in {Systems, System1}
  BY <1>2, PagesAre DEF Reply, Resource, Documents, Pages
<1>3. CASE path \in {Managers, Manager1}
  BY <1>3, PagesAre DEF Reply, Resource, Documents, Pages
<1>4. CASE path = Ethernet
  <2>1. Page(path) = Reply(200, Resource(Manager1, {Ethernet}))
    BY <1>4, PagesAre
  <2>2. Page(path).code = 200 /\ Page(path).resource = Resource(Manager1, {Ethernet})
    BY <2>1 DEF Reply
  <2>3. Manager1 \in Documents /\ Ethernet \in Pages
    BY DEF Documents, Pages
  <2> QED BY <2>2, <2>3 DEF Resource
<1> QED BY <1>1, <1>2, <1>3, <1>4 DEF Pages, Documents

\* A page has the identifier of its path, the interfaces of manager 1 apart.
LEMMA PageId == ASSUME NEW path \in Documents PROVE Page(path).resource.id = path
BY PagesAre DEF Documents, Reply, Resource

LEMMA DocumentsAre ==
    Documents = {p[1] : p \in Exact} \
                   {Memory1, ManagerSelf, EthernetSelf, Reset("1"), Reset("Self")}
<1>1. Documents \subseteq {p[1] : p \in Exact}
  <2> SUFFICES ASSUME NEW d \in Documents PROVE \E p \in Exact : p[1] = d
    OBVIOUS
  <2>1. \E h : <<d, h>> \in Exact
    BY DEF Documents, Exact
  <2> QED BY <2>1
<1> DEFINE Unlinked == {Memory1, ManagerSelf, EthernetSelf, Reset("1"), Reset("Self")}
<1>2. \A d \in Documents : d \notin Unlinked
  BY PathsDiffer DEF Documents
<1>3. \A p \in Exact : p[1] \in Documents \cup Unlinked
  BY DEF Exact, Documents
<1> QED BY <1>1, <1>2, <1>3

\* Who crawls asks for pages and for the reset; who has no credentials asks without.
CrawlInv ==
    /\ kind = "crawl" => \A i \in 1..Len(log) :
          \/ \E path \in Pages : log[i].ask = Call("GET", path)
          \/ log[i].ask = Call("POST", Reset("1"))
    /\ kind = "stranger" => \A i \in 1..Len(log) :
          \E method, path : log[i].ask = Bare(method, path)

LEMMA CrawledPages ==
    ASSUME ExchangeInv, CrawlInv, kind = "crawl", NEW i \in 1..Len(log)
    PROVE  \/ \E path \in Pages :
                 log[i].ask = Call("GET", path) /\ log[i].answer = Page(path)
           \/ /\ log[i].ask = Call("POST", Reset("1"))
              /\ log[i].answer = Reply(204, Resource(<<>>, {}))
<1>1. log[i].answer = AnswerTo(log[i].ask)
  BY DEF ExchangeInv, AnswersMatch
<1>2. CASE \E path \in Pages : log[i].ask = Call("GET", path)
  <2>1. PICK path \in Pages : log[i].ask = Call("GET", path)
    BY <1>2
  <2>2. log[i].answer = Page(path)
    BY <1>1, <2>1, CallIs DEF Page
  <2> QED BY <2>1, <2>2
<1>3. CASE log[i].ask = Call("POST", Reset("1"))
  <2>1. log[i].answer = Serve(Call("POST", Reset("1")))
    BY <1>1, <1>3, CallIs
  <2> QED BY <1>3, <2>1, PagesAre
<1> QED BY <1>2, <1>3 DEF CrawlInv

\* What the crawler was told to follow are pages and the reset.
LEMMA LinkedPages ==
    ASSUME ExchangeInv, CrawlInv, kind = "crawl"
    PROVE  Linked("links") \subseteq Pages /\ Linked("targets") \subseteq {Reset("1")}
<1>1. ASSUME NEW i \in 1..Len(log)
      PROVE  /\ log[i].answer.resource.links \subseteq Pages
             /\ log[i].answer.resource.targets \subseteq {Reset("1")}
  <2>1. CASE \E path \in Pages : log[i].answer = Page(path)
    BY <2>1, PagesAreClosed
  <2>2. CASE log[i].answer = Reply(204, Resource(<<>>, {}))
    BY <2>2 DEF Reply, Resource
  <2> QED BY <2>1, <2>2, CrawledPages
<1>2. \A i \in 1..Len(log) :
         /\ log[i].answer.resource["links"] \subseteq Pages
         /\ log[i].answer.resource["targets"] \subseteq {Reset("1")}
  BY <1>1
<1> QED BY <1>2 DEF Linked

\* What a crawler asks.
LEMMA CrawlAsks ==
    ASSUME kind \in {"crawl", "stranger"}, NEW a \in AskOn
    PROVE  \/ a = Get("GET", <<>>)
           \/ \E p \in Linked("links") : a = Get("GET", p)
           \/ \E p \in Linked("targets") : a = Get("POST", p)
<1> DEFINE ways == {Get("GET", p) : p \in {<<>>} \cup Linked("links")}
                      \cup {Get("POST", p) : p \in Linked("targets")}
<1>1. CrawlOn = IF ways \subseteq Asked THEN {} ELSE {CHOOSE w \in ways : w \notin Asked}
  BY DEF CrawlOn
<1>2. a \in CrawlOn
  BY DEF AskOn
<1> HIDE DEF ways
<1>3. a \in ways
  BY <1>1, <1>2
<1> QED BY <1>3 DEF ways

LEMMA CrawlNext == ASSUME ExchangeInv, CrawlInv, [Next]_vars PROVE CrawlInv'
<1>1. kind' = kind
  BY LogStep
<1>2. CASE log' = log
  BY <1>1, <1>2 DEF CrawlInv
<1>3. CASE \E a \in AskOn : log' = Append(log, Exchanged(a))
  <2>1. PICK a \in AskOn : log' = Append(log, Exchanged(a))
    BY <1>3
  <2>2. PICK e : e = Exchanged(a)
    OBVIOUS
  <2>3. /\ Len(log) \in Nat /\ Len(log') = Len(log) + 1
        /\ \A i \in 1..Len(log) : log'[i] = log[i]
        /\ log'[Len(log) + 1] = e /\ e.ask = a
    BY <2>1, <2>2, AppendLog DEF ExchangeInv, Exchanged
  <2>4. ASSUME kind = "crawl"
        PROVE  \/ \E path \in Pages : a = Call("GET", path)
               \/ a = Call("POST", Reset("1"))
    <3>1. \A method, path : Get(method, path) = Call(method, path)
      BY <2>4, CallIs
    <3>2. <<>> \in Pages
      BY DEF Pages, Documents
    <3> QED BY <2>4, <3>1, <3>2, CrawlAsks, LinkedPages
  <2>5. ASSUME kind = "stranger" PROVE \E method, path : a = Bare(method, path)
    <3>1. \A method, path : Get(method, path) = Bare(method, path)
      BY <2>5, BareIs
    <3> QED BY <2>5, <3>1, CrawlAsks
  <2>6. ASSUME NEW i \in 1..Len(log') PROVE i \in 1..Len(log) \/ log'[i].ask = a
    BY <2>3
  <2>7. \A i \in 1..Len(log) : log'[i].ask = log[i].ask
    BY <2>3
  <2>8. ASSUME kind = "crawl", NEW i \in 1..Len(log')
        PROVE  \/ \E path \in Pages : log'[i].ask = Call("GET", path)
               \/ log'[i].ask = Call("POST", Reset("1"))
    <3>1. CASE i \in 1..Len(log)
      BY <2>7, <2>8, <3>1 DEF CrawlInv
    <3>2. CASE log'[i].ask = a
      BY <2>4, <2>8, <3>2
    <3> QED BY <2>6, <3>1, <3>2
  <2>9. ASSUME kind = "stranger", NEW i \in 1..Len(log')
        PROVE  \E method, path : log'[i].ask = Bare(method, path)
    <3>1. CASE i \in 1..Len(log)
      BY <2>7, <2>9, <3>1 DEF CrawlInv
    <3>2. CASE log'[i].ask = a
      BY <2>5, <2>9, <3>2
    <3> QED BY <2>6, <3>1, <3>2
  <2> QED BY <1>1, <2>8, <2>9 DEF CrawlInv, Call, Bare
<1> QED BY <1>2, <1>3, LogStep

\* A crawl that is done has read every page that is linked.
LEMMA CrawlFindsAll ==
    ASSUME ExchangeInv, CrawlInv, kind = "crawl", status = "done", NEW path \in Documents
    PROVE  \E i \in 1..Len(log) : log[i].answer = Page(path)
<1> DEFINE Read(p) == \E i \in 1..Len(log) : log[i].answer = Page(p)
           ways == {Get("GET", p) : p \in {<<>>} \cup Linked("links")}
                      \cup {Get("POST", p) : p \in Linked("targets")}
<1>1. ways \subseteq Asked
  <2>1. CrawlOn = {}
    BY DEF ExchangeInv, AskOn
  <2>2. CrawlOn = IF ways \subseteq Asked THEN {} ELSE {CHOOSE w \in ways : w \notin Asked}
    BY DEF CrawlOn
  <2> HIDE DEF ways
  <2> QED BY <2>1, <2>2
<1>2. ASSUME NEW p \in {<<>>} \cup Linked("links") PROVE Read(p)
  <2>1. Get("GET", p) \in Asked
    BY <1>1
  <2>2. PICK i \in 1..Len(log) : log[i].ask = Call("GET", p)
    <3>1. Get("GET", p) = Call("GET", p)
      BY CallIs
    <3> QED BY <2>1, <3>1 DEF Asked
  <2>3. log[i].answer = AnswerTo(Call("GET", p))
    BY <2>2 DEF ExchangeInv, AnswersMatch
  <2>4. log[i].answer = Page(p)
    BY <2>3, CallIs DEF Page
  <2> QED BY <2>4
<1>3. ASSUME NEW p, Read(p), NEW q \in Page(p).resource.links PROVE Read(q)
  <2>1. PICK i \in 1..Len(log) : log[i].answer = Page(p)
    BY <1>3
  <2>2. q \in log[i].answer.resource["links"]
    BY <1>3, <2>1
  <2>3. q \in Linked("links")
    BY <2>2 DEF Linked
  <2> QED BY <1>2, <2>3
<1> HIDE DEF Read
<1>4. Read(<<>>)
  BY <1>2
<1>5. Read(Systems) /\ Read(Chassis) /\ Read(Managers)
  <2>1. Page(<<>>).resource.links = {Systems, Chassis, Managers}
    BY PagesAre DEF Reply, Resource
  <2> QED BY <1>3, <1>4, <2>1
<1>6. Read(System1) /\ Read(Chassis1) /\ Read(Manager1)
  <2>1. /\ Page(Systems).resource.links = {System1}
        /\ Page(Chassis).resource.links = {Chassis1}
        /\ Page(Managers).resource.links = {Manager1}
    BY PagesAre DEF Reply, Resource
  <2> QED BY <1>3, <1>5, <2>1
<1>7. Read(Thermal) /\ Read(Power)
  <2>1. Page(Chassis1).resource.links = {Thermal, Power}
    BY PagesAre DEF Reply, Resource
  <2> QED BY <1>3, <1>6, <2>1
<1>8. Read(path)
  BY <1>4, <1>5, <1>6, <1>7 DEF Documents
<1> QED BY <1>8 DEF Read

LEMMA CrawlLinksTrue == ASSUME ExchangeInv, CrawlInv PROVE LinksTrue
<1>1. ASSUME kind = "stranger", NEW i \in 1..Len(log)
      PROVE  (log[i].answer.code = 200) = (log[i].ask.path = <<>>)
  <2>1. PICK method, path : log[i].ask = Bare(method, path)
    BY <1>1 DEF CrawlInv
  <2>2. PICK ask : ask = log[i].ask
    OBVIOUS
  <2>3. log[i].answer = Serve(ask) /\ ask.path = path /\ ~ask.auth
    BY <2>1, <2>2, BareIs DEF ExchangeInv, AnswersMatch
  <2>4. CASE path # <<>>
    <3>1. Serve(ask) = Reply(401, Resource(<<>>, {}))
      BY <2>3, <2>4 DEF Serve
    <3>2. log[i].answer.code # 200
      BY <2>3, <3>1 DEF Reply
    <3> QED BY <2>2, <2>3, <2>4, <3>2
  <2>5. CASE path = <<>>
    <3>1. Route(ask.path) = "ServiceRoot"
      BY <2>3, <2>5, ExactRoutes
    <3>2. Serve(ask) = Reply(200, Written("ServiceRoot"))
      BY <2>3, <2>5, <3>1 DEF Serve
    <3>3. log[i].answer.code = 200
      BY <2>3, <3>2 DEF Reply
    <3> QED BY <2>2, <2>3, <2>5, <3>3
  <2> QED BY <2>4, <2>5
<1>2. ASSUME kind = "crawl"
      PROVE  LET found == {log[i].answer : i \in 1..Len(log)}
                 resources == {a.resource : a \in {b \in found : b.code = 200}}
             IN /\ \A i \in 1..Len(log) :
                      log[i].answer.code = IF log[i].ask.method = "POST" THEN 204 ELSE 200
                /\ \A i \in 1..Len(log) : log[i].ask.method = "GET" =>
                      log[i].answer.resource.id =
                          IF log[i].ask.path = Ethernet THEN Manager1 ELSE log[i].ask.path
                /\ status = "done" => {r.id : r \in resources} = Documents
  <2> DEFINE found == {log[i].answer : i \in 1..Len(log)}
             resources == {a.resource : a \in {b \in found : b.code = 200}}
  <2>1. ASSUME NEW i \in 1..Len(log)
        PROVE  log[i].answer.code = IF log[i].ask.method = "POST" THEN 204 ELSE 200
    <3>1. CASE \E path \in Pages :
                  log[i].ask = Call("GET", path) /\ log[i].answer = Page(path)
      <4>1. PICK path \in Pages : log[i].ask = Call("GET", path) /\ log[i].answer = Page(path)
        BY <3>1
      <4>2. log[i].answer.code = 200 /\ log[i].ask.method = "GET"
        BY <4>1, PagesAreClosed, CallIs
      <4> QED BY <4>2
    <3>2. CASE /\ log[i].ask = Call("POST", Reset("1"))
               /\ log[i].answer = Reply(204, Resource(<<>>, {}))
      <4>1. log[i].answer.code = 204 /\ log[i].ask.method = "POST"
        BY <3>2, CallIs DEF Reply
      <4> QED BY <4>1
    <3> QED BY <1>2, <3>1, <3>2, CrawledPages
  <2>0. ASSUME NEW i \in 1..Len(log), log[i].ask.method = "GET"
        PROVE  log[i].answer.resource.id =
                   IF log[i].ask.path = Ethernet THEN Manager1 ELSE log[i].ask.path
    <3>1. log[i].ask # Call("POST", Reset("1"))
      BY <2>0, CallIs
    <3>2. PICK path \in Pages : log[i].ask = Call("GET", path) /\ log[i].answer = Page(path)
      BY <1>2, <3>1, CrawledPages
    <3>3. log[i].ask.path = path
      BY <3>2 DEF Call
    <3>4. CASE path = Ethernet
      <4>1. Page(path).resource.id = Manager1
        BY <3>4, PagesAre DEF Reply, Resource
      <4> QED BY <3>2, <3>3, <3>4, <4>1
    <3>5. CASE path # Ethernet
      <4>1. path \in Documents
        BY <3>5 DEF Pages
      <4> QED BY <3>2, <3>3, <3>5, <4>1, PageId
    <3> QED BY <3>4, <3>5
  <2>2. ASSUME NEW r \in resources PROVE \E path \in Pages : r = Page(path).resource
    <3>1. PICK i \in 1..Len(log) : log[i].answer.code = 200 /\ r = log[i].answer.resource
      OBVIOUS
    <3>2. log[i].answer # Reply(204, Resource(<<>>, {}))
      BY <3>1 DEF Reply
    <3>3. \E path \in Pages : log[i].answer = Page(path)
      BY <1>2, <3>2, CrawledPages
    <3> QED BY <3>1, <3>3
  <2>3. ASSUME NEW path \in Documents, status = "done" PROVE Page(path).resource \in resources
    <3>1. PICK i \in 1..Len(log) : log[i].answer = Page(path)
      BY <1>2, <2>3, CrawlFindsAll
    <3>2. Page(path).code = 200
      BY PagesAreClosed DEF Pages
    <3> QED BY <3>1, <3>2
  <2> HIDE DEF resources
  <2>4. \A r \in resources : r.id \in Documents
    BY <2>2, PagesAreClosed
  <2>5. status = "done" => {r.id : r \in resources} = Documents
    <3> SUFFICES ASSUME status = "done", NEW path \in Documents
                 PROVE  \E r \in resources : r.id = path
      BY <2>4
    <3> QED BY <2>3, PageId
  <2> QED BY <2>0, <2>1, <2>5 DEF resources
<1> QED BY <1>1, <1>2, DocumentsAre DEF LinksTrue

\* No link and no action that the agent advertises leads nowhere, each but the manager's
\* to its interfaces leads to the resource that has it for an identifier, and a crawl that
\* is done has found all but the memory and those interfaces; without credentials there
\* is nothing beyond the root.
THEOREM LinksTrueAlways == Spec => []LinksTrue
<1>1. Init => CrawlInv
  BY DEF Init, CrawlInv
<1>2. ExchangeInv /\ CrawlInv /\ [Next]_vars => CrawlInv'
  BY CrawlNext
<1>3. ExchangeInv /\ CrawlInv => LinksTrue
  BY CrawlLinksTrue
<1> QED BY <1>1, <1>2, <1>3, ExchangeAlways, PTL DEF Spec
=============================================================================
