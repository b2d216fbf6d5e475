--------------------------- MODULE PipelineProofs ---------------------------
(* Theorems about Pipeline, for any exporters and layouts. *)
EXTENDS Pipeline, TLAPS, SequenceTheorems, WellFoundedInduction

(***************************************************************************)
(* What is decoded with the layout it was encoded with is what was meant.  *)
(***************************************************************************)

\* Division finds the record, its remainder the field.
LEMMA QuotientUnique ==
    ASSUME NEW n \in Nat \ {0}, NEW q \in Nat, NEW r \in Nat, r < n
    PROVE  (q * n + r) \div n = q /\ (q * n + r) % n = r
<1> DEFINE a == q * n + r
           p == a \div n
           s == a % n
<1>1. a \in Nat /\ p \in Int /\ s \in 0..(n - 1) /\ a = n * p + s
  OBVIOUS
<1> HIDE DEF p, s
<1>2. n * (p - q) = r - s
  BY <1>1
<1>3. CASE p - q >= 1
  <2>1. n * (p - q) >= n
    BY <1>1, <1>3
  <2> QED BY <1>1, <1>2, <2>1
<1>4. CASE p - q <= -1
  <2>1. n * (p - q) <= -n
    BY <1>1, <1>4
  <2> QED BY <1>1, <1>2, <2>1
<1>5. p = q
  BY <1>1, <1>3, <1>4
<1>6. s = r
  BY <1>1, <1>2, <1>5
<1> QED BY <1>5, <1>6 DEF p, s

LEMMA LastOfField ==
    ASSUME NEW layout \in Seq(FieldTypes), NEW f, Has(layout, f)
    PROVE  LastOf(layout, f) \in 1..Len(layout) /\ layout[LastOf(layout, f)] = f
<1> DEFINE Back == {Len(layout) - j : j \in {i \in 1..Len(layout) : layout[i] = f}}
           R == OpToRel(<, Nat)
<1>1. Back \subseteq Nat /\ Back # {}
  BY DEF Has
<1>2. PICK x \in Back : \A y \in Back : <<y, x>> \notin R
  <2> HIDE DEF Back, R
  <2>1. IsWellFoundedOn(R, Nat)
    BY NatLessThanWellFounded DEF R
  <2> QED BY <1>1, <2>1, WFMin
<1>3. \A y \in Back : ~(y < x)
  BY <1>1, <1>2 DEF OpToRel
<1>4. PICK j \in 1..Len(layout) : layout[j] = f /\ x = Len(layout) - j
  BY <1>2
<1>5. ASSUME NEW i \in 1..Len(layout), layout[i] = f PROVE i <= j
  <2>1. Len(layout) - i \in Back
    BY <1>5
  <2>2. ~(Len(layout) - i < x)
    BY <1>3, <2>1
  <2> QED BY <1>4, <2>2
<1> QED BY <1>4, <1>5 DEF LastOf

LEMMA StreamLength ==
    ASSUME NEW e \in Exporters
    PROVE  /\ Len(Layout[e]) \in Nat \ {0}
           /\ Len(Stream(e)) = Records * Len(Layout[e])
           /\ Len(Stream(e)) \div Len(Layout[e]) = Records
<1> DEFINE n == Len(Layout[e])
<1>1. n \in Nat \ {0} /\ Records \in Nat
  BY PipelineAssumption, SizeAssumption, EmptySeq DEF FieldTypes
<1>2. Records * n \in Nat
  BY <1>1
<1>3. Len(Stream(e)) = Records * n
  BY <1>2 DEF Stream
<1> HIDE DEF n
<1>4. (Records * n + 0) \div n = Records
  <2>1. 0 \in Nat /\ 0 < n
    BY <1>1
  <2> QED BY <1>1, <2>1, QuotientUnique, Zenon
<1>5. (Records * n) \div n = Records
  BY <1>1, <1>2, <1>4
<1> QED BY <1>1, <1>3, <1>5 DEF n

\* Field j of record k is where Decode looks for it.
LEMMA StreamValue ==
    ASSUME NEW e \in Exporters, NEW k \in 1..Records, NEW j \in 1..Len(Layout[e])
    PROVE  Stream(e)[(k - 1) * Len(Layout[e]) + j] = Value(e, k, Layout[e][j])
<1> DEFINE n == Len(Layout[e])
           i == (k - 1) * n + j
<1>1. n \in Nat \ {0} /\ Records \in Nat /\ j \in 1..n
  BY StreamLength, PipelineAssumption
<1>2. i \in 1..(Records * n)
  <2> HIDE DEF n
  <2>1. (k - 1) * n + n <= Records * n
    <3>1. (k - 1) * n + n = k * n
      BY <1>1
    <3>2. Records * n - k * n = (Records - k) * n
      BY <1>1
    <3>3. (Records - k) * n >= 0
      BY <1>1
    <3>4. k * n \in Int /\ Records * n \in Int
      BY <1>1
    <3> QED BY <3>1, <3>2, <3>3, <3>4
  <2>2. (k - 1) * n \in Nat
    BY <1>1
  <2> QED BY <1>1, <2>1, <2>2
<1>4. (i - 1) \div n = k - 1 /\ (i - 1) % n = j - 1
  <2> DEFINE q == k - 1
             r == j - 1
  <2>1. q \in Nat /\ r \in Nat /\ r < n /\ i - 1 = q * n + r
    BY <1>1
  <2> HIDE DEF n, i, q, r
  <2>2. (q * n + r) \div n = q /\ (q * n + r) % n = r
    BY <1>1, <2>1, QuotientUnique, Zenon
  <2> QED BY <2>1, <2>2 DEF q, r
<1>5. Stream(e)[i] = Value(e, ((i - 1) \div n) + 1, Layout[e][((i - 1) % n) + 1])
  BY <1>2 DEF Stream
<1>6. (k - 1) + 1 = k /\ (j - 1) + 1 = j
  BY <1>1
<1> QED BY <1>4, <1>5, <1>6

LEMMA DecodeStream ==
    ASSUME NEW e \in Exporters
    PROVE  Decode(Stream(e), Layout[e]) = Flows(e)
<1> DEFINE n == Len(Layout[e])
           field(k, f) == IF Has(Layout[e], f)
                          THEN Stream(e)[(k - 1) * n + LastOf(Layout[e], f)] ELSE None
<1>1. Layout[e] \in Seq(FieldTypes)
  BY PipelineAssumption
<1>2. ASSUME NEW k \in 1..Records, NEW f \in Fields, Has(Layout[e], f)
      PROVE  Stream(e)[(k - 1) * n + LastOf(Layout[e], f)] = Value(e, k, f)
  <2> DEFINE j == LastOf(Layout[e], f)
  <2>1. j \in 1..n /\ Layout[e][j] = f
    BY <1>1, <1>2, LastOfField
  <2> HIDE DEF j
  <2>2. Stream(e)[(k - 1) * n + j] = Value(e, k, Layout[e][j])
    BY <2>1, StreamValue
  <2> QED BY <2>1, <2>2 DEF j
<1>3. Decode(Stream(e), Layout[e]) = [k \in 1..Records |-> [f \in Fields |-> field(k, f)]]
  BY StreamLength DEF Decode
<1> QED BY <1>2, <1>3 DEF Flows

LEMMA FlowsType ==
    ASSUME NEW e \in Exporters
    PROVE  Flows(e) \in Seq(Documents) /\ Len(Flows(e)) = Records
<1>1. \A k \in 1..Records :
         [f \in Fields |-> IF Has(Layout[e], f) THEN Value(e, k, f) ELSE None] \in Documents
  BY PipelineAssumption DEF Documents, Value, FieldTypes
<1> QED BY <1>1, PipelineAssumption DEF Flows

(***************************************************************************)
(* What is decoded with any other layout is still made of what was sent.   *)
(***************************************************************************)

LEMMA RecordEnds ==
    ASSUME NEW L \in Nat, NEW n \in Nat \ {0}, NEW k \in 1..(L \div n), NEW j \in 1..n
    PROVE  (k - 1) * n + j \in 1..L
<1> DEFINE q == L \div n
           s == L % n
<1>1. q \in Nat /\ s \in 0..(n - 1) /\ L = n * q + s
  OBVIOUS
<1>2. k \in 1..q
  OBVIOUS
<1> HIDE DEF q, s
<1>3. (k - 1) * n \in Nat /\ (k - 1) * n + n = n * k
  BY <1>2
<1>4. n * q - n * k = n * (q - k) /\ n * (q - k) >= 0 /\ n * q \in Int /\ n * k \in Int
  BY <1>1, <1>2
<1> QED BY <1>1, <1>3, <1>4

LEMMA DecodeType ==
    ASSUME NEW e \in Exporters, NEW layout \in Seq(FieldTypes), layout # <<>>
    PROVE  Decode(Stream(e), layout) \in Seq(Documents)
<1> DEFINE n == Len(layout)
           m == Len(Layout[e])
           L == Len(Stream(e))
<1>1. n \in Nat \ {0} /\ m \in Nat \ {0} /\ Records \in Nat /\ L = Records * m /\ L \in Nat
  BY StreamLength, PipelineAssumption, EmptySeq DEF FieldTypes
<1>2. ASSUME NEW i \in 1..L PROVE Stream(e)[i] \in Exporters \X Nat \X FieldTypes
  <2> DEFINE k == (i - 1) \div m
             j == (i - 1) % m
  <2>1. i - 1 \in Nat
    BY <1>1
  <2>2. k \in Nat /\ j \in 0..(m - 1)
    <3> HIDE DEF m
    <3>1. ASSUME NEW a \in Nat PROVE a \div m \in Nat /\ a % m \in 0..(m - 1)
      BY <1>1
    <3> QED BY <2>1, <3>1
  <2>3. Stream(e)[i] = Value(e, k + 1, Layout[e][j + 1])
    BY <1>1 DEF Stream
  <2> HIDE DEF k, j
  <2>4. j + 1 \in 1..m /\ k + 1 \in Nat
    BY <1>1, <2>2
  <2>5. Layout[e][j + 1] \in FieldTypes
    BY <2>4, PipelineAssumption
  <2> QED BY <2>3, <2>4, <2>5 DEF Value
<1>3. L \div n \in Nat
  <2>1. ASSUME NEW a \in Nat, NEW b \in Nat \ {0} PROVE a \div b \in Nat
    OBVIOUS
  <2> QED BY <1>1, <2>1
<1>4. ASSUME NEW k \in 1..(L \div n), NEW f \in Fields, Has(layout, f)
      PROVE  Stream(e)[(k - 1) * n + LastOf(layout, f)] \in Exporters \X Nat \X FieldTypes
  <2> DEFINE j == LastOf(layout, f)
  <2>1. j \in 1..n
    BY <1>4, LastOfField
  <2> HIDE DEF j
  <2>2. (k - 1) * n + j \in 1..L
    BY <1>1, <2>1, RecordEnds, Zenon
  <2> QED BY <1>2, <2>2 DEF j
<1>5. \A k \in 1..(L \div n) :
         [f \in Fields |-> IF Has(layout, f)
                          THEN Stream(e)[(k - 1) * n + LastOf(layout, f)] ELSE None] \in Documents
  BY <1>4 DEF Documents
<1> QED BY <1>3, <1>5 DEF Decode

(***************************************************************************)
(* The invariant.                                                          *)
(***************************************************************************)

\* What an unambiguous template is called by is the layout of all who call it so.
TablesTrue ==
    \A e \in Exporters :
        Templated(e) /\ Unambiguous(e) => templates[Name(e)] \in {None, Layout[e]}

Inv == TypeOK /\ TablesTrue /\ Faithful

LEMMA InvInit == Init => Inv
BY DEF Init, Inv, TypeOK, TablesTrue, Faithful, Unambiguous, Names

LEMMA ExporterStepInv ==
    ASSUME Inv, NEW e \in Exporters,
           Dial(e) \/ Age(e) \/ SendTemplate(e) \/ SendData(e) \/ WriteFails(e)
    PROVE  Inv'
<1>1. UNCHANGED <<templates, busy>>
  BY DEF Dial, Age, SendTemplate, SendData, WriteFails
<1>2. pc' \in [Exporters -> {"dial", "top", "data"}] /\ stale' \in [Exporters -> BOOLEAN]
  BY DEF Inv, TypeOK, Dial, Age, SendTemplate, SendData, WriteFails
<1>3. net' \subseteq Datagrams
  BY DEF Inv, TypeOK, Dial, Age, SendTemplate, SendData, WriteFails, Send, Datagrams
<1> QED BY <1>1, <1>2, <1>3 DEF Inv, TypeOK, TablesTrue, Faithful, Unambiguous

LEMMA ReceiveInv ==
    ASSUME Inv, NEW d \in Datagrams, Receive(d)
    PROVE  Inv'
<1> DEFINE e == d.from
           l == Listener(e)
           layout == IF Templated(e) THEN templates[Name(e)] ELSE FixedLayout(Protocol[e])
           decoded == IF layout = None THEN <<>> ELSE Decode(Stream(e), layout)
<1>1. e \in Exporters /\ l \in Listeners /\ Name(e) \in Names
  BY DEF Datagrams, Listener, Listeners, Names
<1>2. pc' = pc /\ stale' = stale /\ net' \subseteq Datagrams
  BY DEF Receive, Inv, TypeOK
<1>3. CASE d.body = "template"
  <2>1. templates' = [templates EXCEPT ![Name(e)] = Layout[e]] /\ busy' = busy
    BY <1>3 DEF Receive
  <2>2. \A c \in Exporters :
           Templated(c) /\ Unambiguous(c) /\ Name(c) = Name(e) => Layout[c] = Layout[e]
    BY <1>1 DEF Unambiguous, Name
  <2>3. TablesTrue'
    BY <1>1, <2>1, <2>2 DEF Inv, TypeOK, TablesTrue, Names, Unambiguous
  <2> QED BY <1>1, <1>2, <2>1, <2>3 DEF Inv, TypeOK, Faithful, Unambiguous
<1>4. CASE d.body = "data" /\ decoded = <<>>
  <2>1. UNCHANGED <<templates, busy>>
    BY <1>4 DEF Receive
  <2> QED BY <1>2, <2>1 DEF Inv, TypeOK, TablesTrue, Faithful, Unambiguous
<1>5. CASE d.body = "data" /\ decoded # <<>>
  <2> DEFINE post == [from |-> e, todo |-> decoded]
  <2>1. busy' = [busy EXCEPT ![l] = post] /\ templates' = templates
    BY <1>5 DEF Receive
  <2>2. layout # None /\ decoded = Decode(Stream(e), layout)
    BY <1>5
  <2>3. layout \in Seq(FieldTypes) /\ layout # <<>>
    BY <1>1, <2>2, PipelineAssumption, SizeAssumption, LayoutAssumption DEF Inv, TypeOK
  <2> HIDE DEF layout
  <2>4. post \in Posts
    BY <1>1, <1>5, <2>2, <2>3, DecodeType DEF Posts
  <2>5. Unambiguous(e) => decoded = Flows(e)
    <3>1. Unambiguous(e) => layout = Layout[e]
      BY <1>1, <2>2, LayoutAssumption DEF Inv, TablesTrue, layout
    <3> QED BY <1>1, <2>2, <3>1, DecodeStream
  <2>6. Flows(e) = SubSeq(Flows(e), 1, Records)
    BY <1>1, FlowsType, SubSeqFull
  <2>7. 1 \in 1..Records
    BY PipelineAssumption
  <2> HIDE DEF decoded
  <2>8. post.from = e /\ post.todo = decoded
    OBVIOUS
  <2> HIDE DEF post
  <2>9. Faithful'
    BY <1>1, <2>1, <2>5, <2>6, <2>7, <2>8 DEF Inv, TypeOK, Faithful, Unambiguous
  <2> QED BY <1>1, <1>2, <2>1, <2>4, <2>9 DEF Inv, TypeOK, TablesTrue, Unambiguous
<1> QED BY <1>3, <1>4, <1>5 DEF Datagrams

LEMMA AboveOne == \A n \in Nat : n > 1 => n # 1 /\ n - 1 # 0
OBVIOUS

LEMMA PostInv ==
    ASSUME Inv, NEW l \in Listeners, Post(l)
    PROVE  Inv'
<1> DEFINE e == busy[l].from
           todo == busy[l].todo
<1>1. busy[l] \in Posts /\ e \in Exporters /\ todo \in Seq(Documents) /\ todo # <<>>
  BY DEF Inv, TypeOK, Post, Posts
<1>2. ASSUME Unambiguous(e)
      PROVE  \E k \in 1..Records : todo = SubSeq(Flows(e), k, Records)
  BY <1>2 DEF Inv, Faithful, Post
<1>3. Records \in Nat /\ Flows(e) \in Seq(Documents) /\ Len(Flows(e)) = Records
  BY <1>1, FlowsType, PipelineAssumption
<1>4. UNCHANGED <<pc, stale, net, templates>> /\ Len(todo) \in Nat
  <2>1. ASSUME NEW S, NEW seq \in Seq(S) PROVE Len(seq) \in Nat
    OBVIOUS
  <2> QED BY <1>1, <2>1, Zenon DEF Post
<1>5. CASE Len(todo) = 1
  <2>1. busy' = [busy EXCEPT ![l] = None]
    BY <1>5 DEF Post
  <2> QED BY <1>4, <2>1 DEF Inv, TypeOK, TablesTrue, Faithful, Unambiguous
<1>6. CASE Len(todo) > 1
  <2> DEFINE rest == [busy[l] EXCEPT !.todo = Tail(todo)]
  <2>1. busy' = [busy EXCEPT ![l] = rest]
    <3>1. Len(todo) # 1
      BY <1>4, <1>6, AboveOne, Zenon
    <3>2. busy' = [busy EXCEPT ![l].todo = Tail(todo)]
      BY <3>1 DEF Post
    <3> QED BY <3>2
  <2>2. Len(Tail(todo)) = Len(todo) - 1 /\ Tail(todo) \in Seq(Documents)
    BY <1>1, HeadTailProperties
  <2>3. Tail(todo) # <<>>
    <3>1. Len(todo) - 1 # 0
      BY <1>4, <1>6, AboveOne, Zenon
    <3>2. Len(<<>>) = 0
      OBVIOUS
    <3> QED BY <2>2, <3>1, <3>2, Zenon
  <2>4. rest \in Posts /\ rest.from = e /\ rest.todo = Tail(todo)
    BY <1>1, <2>2, <2>3 DEF Posts
  <2>5. ASSUME Unambiguous(e)
        PROVE  \E k \in 1..Records : Tail(todo) = SubSeq(Flows(e), k, Records)
    <3>1. PICK k \in 1..Records : todo = SubSeq(Flows(e), k, Records)
      BY <1>2, <2>5
    <3>2. Len(todo) = Records - k + 1
      BY <1>3, <3>1, SubSeqProperties
    <3>3. k + 1 \in 1..Records
      BY <1>3, <1>6, <3>2
    <3>4. Tail(todo) = SubSeq(Flows(e), k + 1, Records)
      BY <1>3, <3>1, <3>3, HeadTailOfSubSeq
    <3> QED BY <3>3, <3>4
  <2> HIDE DEF rest
  <2>6. Faithful'
    BY <2>1, <2>4, <2>5 DEF Inv, TypeOK, Faithful, Unambiguous
  <2> QED BY <1>4, <2>1, <2>4, <2>6 DEF Inv, TypeOK, TablesTrue, Unambiguous
<1> QED BY <1>5, <1>6 DEF Post

LEMMA InvStep == Inv /\ [Next]_vars => Inv'
<1> SUFFICES ASSUME Inv, [Next]_vars PROVE Inv'
  OBVIOUS
<1>1. ASSUME NEW d \in Datagrams, Lose(d) PROVE Inv'
  BY <1>1 DEF Lose, Inv, TypeOK, TablesTrue, Faithful, Unambiguous
<1>2. CASE Restart
  BY <1>2 DEF Restart, Inv, TypeOK, TablesTrue, Faithful, Unambiguous, Names
<1>3. CASE UNCHANGED vars
  BY <1>3 DEF vars, Inv, TypeOK, TablesTrue, Faithful, Unambiguous
<1> QED BY <1>1, <1>2, <1>3, ExporterStepInv, ReceiveInv, PostInv DEF Next

THEOREM InvAlways == Spec => []Inv
BY InvInit, InvStep, PTL DEF Spec

\* The tables and the documents to be posted stay well typed.
THEOREM TypeCorrect == Spec => []TypeOK
<1>1. Inv => TypeOK
  BY DEF Inv
<1> QED BY <1>1, InvAlways, PTL

\* Over a network that loses, repeats and reorders, with restarts of the proxy at any
\* moment and with exporters that take each other's names, every datagram of an exporter
\* whose name is its own, or has one meaning, is posted as it meant it, or dropped.
THEOREM AlwaysFaithful == Spec => []Faithful
<1>1. Inv => Faithful
  BY DEF Inv
<1> QED BY <1>1, InvAlways, PTL
=============================================================================
