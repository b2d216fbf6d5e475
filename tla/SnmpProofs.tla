----------------------------- MODULE SnmpProofs -----------------------------
(***************************************************************************)
(* Theorems about Snmp, for object identifiers and tables of any length.   *)
(***************************************************************************)
EXTENDS Snmp, TLAPS, SequenceTheorems, WellFoundedInduction

OID == Seq(Nat)

LEMMA LeastNat ==
    ASSUME NEW S \in SUBSET Nat, S # {}
    PROVE  \E m \in S : \A k \in S : m <= k
<1> DEFINE R == OpToRel(<, Nat)
<1>1. PICK m \in S : \A k \in S : <<k, m>> \notin R
  <2>1. IsWellFoundedOn(R, Nat)
    BY NatLessThanWellFounded
  <2> HIDE DEF R
  <2> QED BY <2>1, WFMin
<1>2. \A k \in S : ~(k < m)
  BY <1>1 DEF OpToRel
<1> QED BY <1>2

LEMMA IsLessIrreflexive == \A a \in OID : ~IsLess(a, a)
BY DEF OID, IsLess

LEMMA IsLessTransitive ==
    ASSUME NEW a \in OID, NEW b \in OID, NEW c \in OID, IsLess(a, b), IsLess(b, c)
    PROVE  IsLess(a, c)
<1>1. PICK k \in 1..Len(b) : /\ k <= Len(a) => a[k] < b[k]
                             /\ k <= Len(a) + 1
                             /\ \A m \in 1..(k - 1) : a[m] = b[m]
  BY DEF IsLess
<1>2. PICK j \in 1..Len(c) : /\ j <= Len(b) => b[j] < c[j]
                             /\ j <= Len(b) + 1
                             /\ \A m \in 1..(j - 1) : b[m] = c[m]
  BY DEF IsLess
<1>3. /\ Len(a) \in Nat /\ Len(b) \in Nat /\ Len(c) \in Nat
      /\ \A m \in 1..Len(a) : a[m] \in Nat
      /\ \A m \in 1..Len(b) : b[m] \in Nat
      /\ \A m \in 1..Len(c) : c[m] \in Nat
  BY DEF OID
<1>4. CASE k < j
  <2>1. k \in 1..Len(c) /\ b[k] = c[k]
    BY <1>1, <1>2, <1>3, <1>4
  <2>2. \A m \in 1..(k - 1) : a[m] = c[m]
    BY <1>1, <1>2, <1>3, <1>4
  <2> QED BY <1>1, <2>1, <2>2 DEF IsLess
<1>5. CASE j < k
  <2>1. j <= Len(a) /\ j <= Len(b) /\ a[j] = b[j]
    BY <1>1, <1>2, <1>3, <1>5
  <2>2. \A m \in 1..(j - 1) : a[m] = c[m]
    BY <1>1, <1>2, <1>3, <1>5
  <2>3. b[j] < c[j] /\ j \in 1..Len(c) /\ j <= Len(a) + 1
    BY <1>2, <1>3, <2>1
  <2> QED BY <2>1, <2>2, <2>3 DEF IsLess
<1>6. CASE j = k
  <2>1. k <= Len(a) => a[k] < c[k]
    BY <1>1, <1>2, <1>3, <1>6
  <2>2. \A m \in 1..(k - 1) : a[m] = c[m]
    BY <1>1, <1>2, <1>3, <1>6
  <2> QED BY <1>1, <1>2, <1>6, <2>1, <2>2 DEF IsLess
<1> QED BY <1>1, <1>2, <1>4, <1>5, <1>6

\* Where two identifiers differ first, or one of them ends, decides.
LEMMA IsLessTotal ==
    ASSUME NEW a \in OID, NEW b \in OID, a # b
    PROVE  IsLess(a, b) \/ IsLess(b, a)
<1> DEFINE Differ == {k \in Nat \ {0} : \/ k = Len(a) + 1 \/ k = Len(b) + 1
                                        \/ k <= Len(a) /\ k <= Len(b) /\ a[k] # b[k]}
<1>1. /\ Len(a) \in Nat /\ Len(b) \in Nat
      /\ \A m \in 1..Len(a) : a[m] \in Nat
      /\ \A m \in 1..Len(b) : b[m] \in Nat
  BY DEF OID
<1>2. PICK k \in Differ : \A m \in Differ : k <= m
  <2>1. Len(a) + 1 \in Differ
    BY <1>1
  <2>2. Differ \in SUBSET Nat /\ Differ # {}
    BY <2>1
  <2> HIDE DEF Differ
  <2> QED BY <2>2, LeastNat
<1>3. k <= Len(a) + 1 /\ k <= Len(b) + 1 /\ k >= 1
  <2>1. Len(a) + 1 \in Differ /\ Len(b) + 1 \in Differ
    BY <1>1
  <2> QED BY <1>2, <2>1
<1>4. \A m \in 1..(k - 1) : a[m] = b[m]
  <2> TAKE m \in 1..(k - 1)
  <2>1. m \notin Differ /\ m \in Nat \ {0} /\ m <= Len(a) /\ m <= Len(b)
    BY <1>1, <1>2, <1>3
  <2> QED BY <1>1, <2>1
<1>5. CASE k = Len(a) + 1
  <2>1. CASE k = Len(b) + 1
    <3>1. Len(a) = Len(b) /\ \A m \in 1..Len(a) : a[m] = b[m]
      BY <1>1, <1>4, <1>5, <2>1
    <3>2. a = b
      BY <3>1, SeqEqual DEF OID
    <3> QED BY <3>2
  <2>2. CASE k # Len(b) + 1
    <3>1. k \in 1..Len(b)
      BY <1>1, <1>3, <2>2
    <3> QED BY <1>1, <1>4, <1>5, <3>1 DEF IsLess
  <2> QED BY <2>1, <2>2
<1>6. CASE k # Len(a) + 1 /\ k = Len(b) + 1
  <2>1. k \in 1..Len(a)
    BY <1>1, <1>3, <1>6
  <2> QED BY <1>1, <1>4, <1>6, <2>1 DEF IsLess
<1>7. CASE k # Len(a) + 1 /\ k # Len(b) + 1
  <2>1. k \in 1..Len(a) /\ k \in 1..Len(b) /\ a[k] # b[k]
    BY <1>1, <1>2, <1>3, <1>7
  <2>2. a[k] < b[k] \/ b[k] < a[k]
    BY <1>1, <2>1
  <2> QED BY <1>1, <1>4, <2>1, <2>2 DEF IsLess
<1> QED BY <1>5, <1>6, <1>7

\* isLess orders the object identifiers strictly and totally, number by number and a
\* prefix before what it begins: the order that GETNEXT goes by.
\* isLess is a strict total order, so that sort.Slice has one result.
THEOREM IsLessOrders ==
    /\ \A a \in OID : ~IsLess(a, a)
    /\ \A a, b, c \in OID : IsLess(a, b) /\ IsLess(b, c) => IsLess(a, c)
    /\ \A a, b \in OID : a # b => IsLess(a, b) \/ IsLess(b, a)
BY IsLessIrreflexive, IsLessTransitive, IsLessTotal

-----------------------------------------------------------------------------

\* What sort.Slice makes of the configuration.
SortedIn(table) == \A i, j \in 1..Len(table) : i < j => IsLess(table[i], table[j])

Later(table, oid) == {i \in 1..Len(table) : IsLess(oid, table[i])}

\* In a sorted table getNextOID finds the first identifier that is later than the one
\* asked for, whether that one is in the table or not, and nothing when there is none.
\* Each step of a walk goes on in the table, and so a walk ends.
THEOREM GetNextIsSuccessor ==
    ASSUME NEW table \in Seq(OID), SortedIn(table), NEW oid \in OID
    PROVE  /\ Later(table, oid) = {} => GetNextOID(table, oid) = <<>>
           /\ Later(table, oid) # {} =>
                \E i \in Later(table, oid) :
                   /\ GetNextOID(table, oid) = table[i]
                   /\ \A j \in Later(table, oid) : i <= j
<1> DEFINE At(i) == IsLess(oid, table[i]) \/ oid = table[i]
           First == CHOOSE i \in 1..Len(table) : At(i) /\ \A j \in 1..(i - 1) : ~At(j)
           Next == GetNextOID(table, oid)
<1>1. Len(table) \in Nat /\ \A i \in 1..Len(table) : table[i] \in OID
  OBVIOUS
<1>2. CASE ~\E i \in 1..Len(table) : At(i)
  BY <1>2 DEF GetNextOID, Later
<1>3. CASE \E i \in 1..Len(table) : At(i)
  <2>1. \E i \in 1..Len(table) : At(i) /\ \A j \in 1..(i - 1) : ~At(j)
    <3> DEFINE S == {i \in 1..Len(table) : At(i)}
    <3>1. S \in SUBSET Nat /\ S # {}
      BY <1>1, <1>3
    <3>2. PICK m \in S : \A k \in S : m <= k
      <4> HIDE DEF S
      <4> QED BY <3>1, LeastNat
    <3>3. m \in 1..Len(table) /\ At(m)
      BY <3>2
    <3>4. \A j \in 1..(m - 1) : ~At(j)
      BY <1>1, <3>2, <3>3
    <3> QED BY <3>3, <3>4
  <2>2. First \in 1..Len(table) /\ At(First) /\ \A j \in 1..(First - 1) : ~At(j)
    <3> HIDE DEF At
    <3> QED BY <2>1
  <2>3. Next = IF IsLess(oid, table[First]) THEN table[First]
               ELSE IF First < Len(table) THEN table[First + 1] ELSE <<>>
    BY <1>3 DEF GetNextOID
  <2> HIDE DEF First, Next
  <2>4. \A j \in Later(table, oid) : First <= j
    BY <1>1, <2>2 DEF Later
  <2>5. CASE IsLess(oid, table[First])
    <3>1. First \in Later(table, oid) /\ Next = table[First]
      BY <2>2, <2>3, <2>5 DEF Later
    <3> QED BY <2>4, <3>1 DEF Next
  <2>6. CASE ~IsLess(oid, table[First])
    <3>1. oid = table[First] /\ First \notin Later(table, oid)
      BY <2>2, <2>6 DEF Later
    <3>2. \A j \in Later(table, oid) : First + 1 <= j
      BY <1>1, <2>2, <2>4, <3>1 DEF Later
    <3>3. CASE First < Len(table)
      <4>1. First + 1 \in Later(table, oid)
        BY <1>1, <2>2, <3>1, <3>3 DEF Later, SortedIn
      <4> QED BY <2>3, <2>6, <3>2, <3>3, <4>1 DEF Next
    <3>4. CASE ~(First < Len(table))
      <4>1. Later(table, oid) = {}
        BY <1>1, <2>2, <3>2, <3>4 DEF Later
      <4> QED BY <2>3, <2>6, <3>4, <4>1 DEF Next
    <3> QED BY <3>3, <3>4
  <2> QED BY <2>5, <2>6
<1> QED BY <1>2, <1>3

-----------------------------------------------------------------------------
(* FlattenSeq. *)

\* The function that FlattenSeq builds, up to a place.
Flattens(ss, n, f) ==
    f = [i \in 1..n |-> IF i = 1 THEN ss[i] ELSE f[i - 1] \o ss[i]]

LEMMA FlattensExists ==
    ASSUME NEW S, NEW ss \in Seq(Seq(S)), NEW n \in 0..Len(ss)
    PROVE  \E f \in [1..n -> Seq(S)] : Flattens(ss, n, f)
<1> DEFINE P(k) == \E f \in [1..k -> Seq(S)] : Flattens(ss, k, f)
           Bad == {k \in 0..Len(ss) : ~P(k)}
<1> SUFFICES ASSUME Bad # {} PROVE FALSE
  OBVIOUS
<1>1. PICK m \in Bad : \A k \in Bad : m <= k
  <2>1. Bad \in SUBSET Nat
    OBVIOUS
  <2> HIDE DEF Bad
  <2> QED BY <2>1, LeastNat
<1>2. CASE m = 0
  <2>1. Flattens(ss, 0, <<>>) /\ <<>> \in [1..0 -> Seq(S)]
    BY DEF Flattens
  <2> QED BY <1>1, <1>2, <2>1
<1>3. CASE m # 0
  <2>1. m - 1 \in 0..Len(ss) /\ m \in 1..Len(ss)
    BY <1>1, <1>3
  <2>2. PICK f \in [1..(m - 1) -> Seq(S)] : Flattens(ss, m - 1, f)
    <3>1. m - 1 \notin Bad
      <4> HIDE DEF Bad
      <4> QED BY <1>1, <2>1
    <3>2. P(m - 1)
      <4> HIDE DEF P
      <4> QED BY <2>1, <3>1
    <3> QED BY <3>2
  <2> DEFINE last == IF m = 1 THEN ss[m] ELSE f[m - 1] \o ss[m]
             g == [i \in 1..m |-> IF i = m THEN last ELSE f[i]]
  <2>3. ss[m] \in Seq(S) /\ last \in Seq(S)
    BY <2>1
  <2>4. g \in [1..m -> Seq(S)]
    BY <2>1, <2>3
  <2>5. Flattens(ss, m, g)
    <3> SUFFICES ASSUME NEW i \in 1..m
                 PROVE  g[i] = IF i = 1 THEN ss[i] ELSE g[i - 1] \o ss[i]
      BY DEF Flattens
    <3>1. CASE i = m
      BY <2>1, <3>1
    <3>2. CASE i # m
      <4>1. i \in 1..(m - 1) /\ (i # 1 => i - 1 \in 1..m /\ i - 1 # m)
        BY <2>1, <3>2
      <4>2. f[i] = IF i = 1 THEN ss[i] ELSE f[i - 1] \o ss[i]
        BY <2>2, <4>1 DEF Flattens
      <4> QED BY <3>2, <4>1, <4>2
    <3> QED BY <3>1, <3>2
  <2> QED BY <1>1, <2>4, <2>5
<1> QED BY <1>2, <1>3

Agree(s, t, n) == \A i \in 1..n : s[i] = t[i]

LEMMA FlattensUnique ==
    ASSUME NEW ss, NEW tt, NEW n \in Nat, NEW m \in Nat, n <= m,
           Agree(ss, tt, n),
           NEW f, NEW g, Flattens(ss, n, f), Flattens(tt, m, g)
    PROVE  Agree(f, g, n)
<1> DEFINE Bad == {i \in 1..n : f[i] # g[i]}
<1> SUFFICES ASSUME Bad # {} PROVE FALSE
  BY DEF Agree
<1>1. PICK k \in Bad : \A j \in Bad : k <= j
  <2>1. Bad \in SUBSET Nat
    OBVIOUS
  <2> HIDE DEF Bad
  <2> QED BY <2>1, LeastNat
<1>2. k \in 1..n /\ k \in 1..m /\ f[k] # g[k]
  BY <1>1
<1>3. /\ f[k] = IF k = 1 THEN ss[k] ELSE f[k - 1] \o ss[k]
      /\ g[k] = IF k = 1 THEN tt[k] ELSE g[k - 1] \o tt[k]
  BY <1>2 DEF Flattens
<1>4. k # 1 => k - 1 \in 1..n /\ f[k - 1] = g[k - 1]
  BY <1>1, <1>2
<1>5. ss[k] = tt[k]
  BY <1>2 DEF Agree
<1> QED BY <1>2, <1>3, <1>4, <1>5

LEMMA FlattenSeqIs ==
    ASSUME NEW S, NEW ss \in Seq(Seq(S)), Len(ss) # 0
    PROVE  \E f \in [1..Len(ss) -> Seq(S)] :
              Flattens(ss, Len(ss), f) /\ FlattenSeq(ss) = f[Len(ss)]
<1> DEFINE g == CHOOSE f : Flattens(ss, Len(ss), f)
<1>1. Len(ss) \in Nat /\ Len(ss) \in 0..Len(ss) /\ Len(ss) \in 1..Len(ss)
  OBVIOUS
<1>2. PICK f \in [1..Len(ss) -> Seq(S)] : Flattens(ss, Len(ss), f)
  BY <1>1, FlattensExists
<1>3. Flattens(ss, Len(ss), g)
  BY <1>2
<1>4. FlattenSeq(ss) = g[Len(ss)]
  BY DEF FlattenSeq, Flattens
<1> HIDE DEF g
<1>5. \A i \in 1..Len(ss) : f[i] = g[i]
  <2>1. Agree(f, g, Len(ss))
    BY <1>1, <1>2, <1>3, FlattensUnique DEF Agree
  <2> QED BY <2>1 DEF Agree
<1> QED BY <1>1, <1>2, <1>4, <1>5

LEMMA FlattenEmpty == FlattenSeq(<<>>) = <<>>
BY DEF FlattenSeq

\* FlattenSeq is a sequence, and one of them more is appended to it.
LEMMA FlattenAppend ==
    ASSUME NEW S, NEW ss \in Seq(Seq(S)), NEW s \in Seq(S)
    PROVE  /\ FlattenSeq(ss) \in Seq(S)
           /\ FlattenSeq(Append(ss, s)) = FlattenSeq(ss) \o s
<1> DEFINE tt == Append(ss, s)
<1>1. /\ tt \in Seq(Seq(S)) /\ Len(tt) = Len(ss) + 1 /\ tt[Len(tt)] = s
      /\ \A i \in 1..Len(ss) : tt[i] = ss[i]
      /\ Len(ss) \in Nat /\ Len(tt) # 0
  BY AppendProperties
<1> HIDE DEF tt
<1>2. PICK g \in [1..Len(tt) -> Seq(S)] :
          Flattens(tt, Len(tt), g) /\ FlattenSeq(tt) = g[Len(tt)]
  BY <1>1, FlattenSeqIs
<1>3. CASE Len(ss) = 0
  <2>1. ss = <<>> /\ FlattenSeq(ss) = <<>>
    BY <1>3, EmptySeq, FlattenEmpty
  <2>2. FlattenSeq(tt) = s
    BY <1>1, <1>2, <1>3 DEF Flattens
  <2>3. <<>> \o s = s
    BY ConcatEmptySeq
  <2>4. <<>> \in Seq(S)
    OBVIOUS
  <2> QED BY <2>1, <2>2, <2>3, <2>4 DEF tt
<1>4. CASE Len(ss) # 0
  <2>1. PICK f \in [1..Len(ss) -> Seq(S)] :
            Flattens(ss, Len(ss), f) /\ FlattenSeq(ss) = f[Len(ss)]
    BY <1>4, FlattenSeqIs
  <2>2. \A i \in 1..Len(ss) : f[i] = g[i]
    <3>1. Len(ss) \in Nat /\ Len(tt) \in Nat /\ Len(ss) <= Len(tt)
      BY <1>1
    <3>2. Agree(ss, tt, Len(ss))
      BY <1>1 DEF Agree
    <3>3. Agree(f, g, Len(ss))
      BY <1>2, <2>1, <3>1, <3>2, FlattensUnique, Zenon
    <3> QED BY <3>3 DEF Agree
  <2>3. Len(ss) \in 1..Len(ss) /\ Len(tt) \in 1..Len(tt) /\ Len(tt) # 1 /\ Len(tt) - 1 = Len(ss)
    BY <1>1, <1>4
  <2>4. g[Len(tt)] = g[Len(tt) - 1] \o tt[Len(tt)]
    BY <1>2, <2>3 DEF Flattens
  <2> QED BY <1>1, <1>2, <2>1, <2>2, <2>3, <2>4 DEF tt
<1> QED BY <1>3, <1>4

\* A part of a sequence and what follows it.
LEMMA SubSeqMore ==
    ASSUME NEW S, NEW x \in Seq(S), NEW m \in Nat, NEW more \in Seq(S),
           m + Len(more) <= Len(x), \A j \in 1..Len(more) : more[j] = x[m + j]
    PROVE  /\ SubSeq(x, 1, m) \in Seq(S) /\ Len(SubSeq(x, 1, m)) = m
           /\ \A i \in 1..m : SubSeq(x, 1, m)[i] = x[i]
           /\ SubSeq(x, 1, m + Len(more)) = SubSeq(x, 1, m) \o more
<1> DEFINE c == Len(more) part == SubSeq(x, 1, m) whole == SubSeq(x, 1, m + c)
<1>1. Len(x) \in Nat /\ c \in Nat /\ \A i \in 1..Len(x) : x[i] \in S
  OBVIOUS
<1>2. \A i \in 1..(m + c) : x[i] \in S
  BY <1>1
<1>3. part \in Seq(S) /\ Len(part) = m /\ \A i \in 1..m : part[i] = x[i]
  BY <1>2, SubSeqProperties
<1>4. whole \in Seq(S) /\ Len(whole) = m + c /\ \A i \in 1..(m + c) : whole[i] = x[i]
  BY <1>2, SubSeqProperties
<1> HIDE DEF part, whole
<1>5. /\ part \o more \in Seq(S) /\ Len(part \o more) = m + c
      /\ \A i \in 1..(m + c) : (part \o more)[i] = IF i <= m THEN part[i] ELSE more[i - m]
  <2>1. /\ part \o more \in Seq(S) /\ Len(part \o more) = Len(part) + Len(more)
        /\ \A i \in 1..(Len(part) + Len(more)) :
              (part \o more)[i] = IF i <= Len(part) THEN part[i] ELSE more[i - Len(part)]
    BY <1>3, ConcatProperties
  <2>2. Len(part) = m
    BY <1>3
  <2> QED BY <2>1, <2>2
<1>6. ASSUME NEW i \in 1..(m + c) PROVE (part \o more)[i] = whole[i]
  <2>1. CASE i <= m
    <3>1. i \in 1..m
      BY <2>1
    <3> QED BY <1>3, <1>4, <1>5, <2>1, <3>1
  <2>2. CASE ~(i <= m)
    <3>1. i - m \in 1..c /\ m + (i - m) = i
      BY <2>2
    <3> QED BY <1>4, <1>5, <2>2, <3>1
  <2> QED BY <2>1, <2>2
<1>7. part \o more = whole
  BY <1>4, <1>5, <1>6, SeqEqual
<1> QED BY <1>3, <1>7 DEF part, whole

\* A list with one sequence more makes up what the list made up and that sequence.
LEMMA FlattenMore ==
    ASSUME NEW S, NEW ss \in Seq(Seq(S)), NEW tt \in Seq(Seq(S)), NEW x \in Seq(S),
           Len(tt) = Len(ss) + 1, \A i \in 1..Len(ss) : tt[i] = ss[i], tt[Len(ss) + 1] = x
    PROVE  /\ FlattenSeq(ss) \in Seq(S) /\ FlattenSeq(tt) \in Seq(S)
           /\ FlattenSeq(tt) = FlattenSeq(ss) \o x
<1> DEFINE n == Len(ss) more == Append(ss, x)
<1>1. n \in Nat /\ more \in Seq(Seq(S)) /\ Len(more) = n + 1 /\ more[n + 1] = x
      /\ \A i \in 1..n : more[i] = ss[i]
  BY AppendProperties
<1> HIDE DEF more, n
<1>2. \A i \in 1..(n + 1) : tt[i] = more[i]
  <2> SUFFICES ASSUME NEW i \in 1..(n + 1) PROVE tt[i] = more[i]
    OBVIOUS
  <2>1. CASE i \in 1..n
    BY <1>1, <2>1 DEF n
  <2>2. CASE i = n + 1
    BY <1>1, <2>2 DEF n
  <2> QED BY <1>1, <2>1, <2>2
<1>3. tt = more
  BY <1>1, <1>2, SeqEqual DEF n
<1>4. FlattenSeq(ss) \in Seq(S) /\ FlattenSeq(more) = FlattenSeq(ss) \o x
  BY FlattenAppend DEF more
<1>5. FlattenSeq(ss) \o x \in Seq(S)
  BY <1>4, ConcatProperties
<1> QED BY <1>3, <1>4, <1>5

\* One element more of a sequence.
LEMMA OneMore ==
    ASSUME NEW S, NEW x \in Seq(S), NEW i \in 1..Len(x)
    PROVE  /\ SubSeq(x, 1, i) = SubSeq(x, 1, i - 1) \o <<x[i]>>
           /\ SubSeq(x, 1, i - 1) \in Seq(S) /\ Len(SubSeq(x, 1, i - 1)) = i - 1
<1>1. PICK one : one = <<x[i]>>
  OBVIOUS
<1>2. one \in Seq(S) /\ Len(one) = 1 /\ one[1] = x[i]
  BY <1>1
<1>3. PICK m \in Nat : m = i - 1
  OBVIOUS
<1>4. m + Len(one) = i
  BY <1>2, <1>3
<1>5. m + Len(one) <= Len(x) /\ \A j \in 1..Len(one) : one[j] = x[m + j]
  BY <1>2, <1>3
<1>6. one \in Seq(S)
  BY <1>2
<1>7. /\ SubSeq(x, 1, m) \in Seq(S) /\ Len(SubSeq(x, 1, m)) = m
      /\ SubSeq(x, 1, m + Len(one)) = SubSeq(x, 1, m) \o one
  BY <1>5, <1>6, SubSeqMore, SMT
<1> QED BY <1>1, <1>3, <1>4, <1>7

\* Sequences of one element each make up the whole.
LEMMA FlattenSingles ==
    ASSUME NEW S, NEW x \in Seq(S)
    PROVE  FlattenSeq([i \in 1..Len(x) |-> <<x[i]>>]) = x
<1> DEFINE n == Len(x) ss == [i \in 1..n |-> <<x[i]>>] g == [i \in 1..n |-> SubSeq(x, 1, i)]
<1>1. n \in Nat /\ (\A i \in 1..n : x[i] \in S) /\ x = [i \in 1..n |-> x[i]]
  OBVIOUS
<1>2. ss \in Seq(Seq(S)) /\ Len(ss) = n
  BY <1>1
<1>3. CASE n = 0
  <2>1. ss = <<>> /\ x = <<>>
    BY <1>1, <1>3
  <2> QED BY <2>1, FlattenEmpty
<1>4. CASE n # 0
  <2>1. Flattens(ss, n, g)
    <3> SUFFICES ASSUME NEW i \in 1..n
                 PROVE  g[i] = IF i = 1 THEN ss[i] ELSE g[i - 1] \o ss[i]
      BY DEF Flattens
    <3> DEFINE one == <<x[i]>>
    <3>1. one \in Seq(S) /\ Len(one) = 1 /\ one[1] = x[i]
      BY <1>1
    <3>2. i - 1 \in Nat /\ 1 \in Nat /\ (i - 1) + 1 = i /\ i <= Len(x)
      BY <1>1
    <3> HIDE DEF one
    <3>3. /\ SubSeq(x, 1, i) = SubSeq(x, 1, i - 1) \o one
          /\ SubSeq(x, 1, i - 1) \in Seq(S) /\ Len(SubSeq(x, 1, i - 1)) = i - 1
      BY <3>2, OneMore DEF one
    <3>4. CASE i = 1
      <4>1. SubSeq(x, 1, i - 1) = <<>>
        BY <3>3, <3>4, EmptySeq
      <4>2. SubSeq(x, 1, i) = one
        BY <3>1, <3>3, <4>1, ConcatEmptySeq
      <4> QED BY <3>4, <4>2 DEF one
    <3>5. CASE i # 1
      <4>1. i - 1 \in 1..n
        BY <1>1, <3>5
      <4> QED BY <3>3, <3>5, <4>1 DEF one
    <3> QED BY <3>4, <3>5
  <2> HIDE DEF ss, g
  <2>2. PICK f \in [1..n -> Seq(S)] : Flattens(ss, n, f) /\ FlattenSeq(ss) = f[n]
    BY <1>2, <1>4, FlattenSeqIs
  <2>3. Agree(f, g, n)
    <3>1. Agree(ss, ss, n) /\ n <= n
      BY <1>1 DEF Agree
    <3> HIDE DEF n
    <3> QED BY <1>1, <2>1, <2>2, <3>1, FlattensUnique
  <2>4. FlattenSeq(ss) = g[n]
    <3>1. n \in 1..n
      BY <1>1, <1>4
    <3> QED BY <2>2, <2>3, <3>1 DEF Agree
  <2>5. g[n] = x
    <3>1. /\ SubSeq(x, 1, n) \in Seq(S) /\ Len(SubSeq(x, 1, n)) = n
          /\ \A k \in 1..n : SubSeq(x, 1, n)[k] = x[k]
      BY <1>1, SubSeqProperties
    <3>2. SubSeq(x, 1, n) = x
      BY <1>1, <3>1, SeqEqual
    <3>3. n \in 1..n
      BY <1>1, <1>4
    <3> QED BY <3>2, <3>3 DEF g
  <2> QED BY <2>4, <2>5 DEF ss
<1> QED BY <1>3, <1>4

-----------------------------------------------------------------------------
(* The table in order. *)

\* Two sequences of one length have the same elements.
SameElements(t, s, n) ==
    /\ \A i \in 1..n : \E j \in 1..n : t[i] = s[j]
    /\ \A j \in 1..n : \E i \in 1..n : t[i] = s[j]

\* What sort.Slice makes of any number of different identifiers.
LEMMA SortedExists ==
    ASSUME NEW s \in Seq(OID), \A i, j \in 1..Len(s) : i # j => s[i] # s[j],
           NEW n \in 0..Len(s)
    PROVE  \E t \in [1..n -> OID] : /\ SameElements(t, s, n)
                                    /\ \A i, j \in 1..n : i < j => IsLess(t[i], t[j])
<1> DEFINE P(k) == \E t \in [1..k -> OID] :
                        /\ SameElements(t, s, k)
                        /\ \A i, j \in 1..k : i < j => IsLess(t[i], t[j])
           Bad == {k \in 0..Len(s) : ~P(k)}
<1> SUFFICES ASSUME Bad # {} PROVE FALSE
  OBVIOUS
<1>1. PICK m \in Bad : \A k \in Bad : m <= k
  <2>1. Bad \in SUBSET Nat
    OBVIOUS
  <2> HIDE DEF Bad
  <2> QED BY <2>1, LeastNat
<1>2. m \in 0..Len(s) /\ ~P(m) /\ Len(s) \in Nat
  <2> HIDE DEF P
  <2> QED BY <1>1
<1>3. CASE m = 0
  <2>1. /\ <<>> \in [1..0 -> OID] /\ SameElements(<<>>, s, 0)
        /\ \A i, j \in 1..0 : i < j => IsLess(<<>>[i], <<>>[j])
    BY DEF SameElements
  <2>2. P(0)
    BY <2>1, Zenon
  <2> HIDE DEF P
  <2> QED BY <1>2, <1>3, <2>2
<1>4. CASE m # 0
  <2>1. m - 1 \in 0..Len(s) /\ m \in 1..Len(s)
    BY <1>2, <1>4
  <2>2. P(m - 1)
    <3>1. m - 1 \notin Bad
      <4> HIDE DEF Bad
      <4> QED BY <1>1, <2>1
    <3> HIDE DEF P
    <3> QED BY <2>1, <3>1
  <2>3. PICK t \in [1..(m - 1) -> OID] :
            /\ SameElements(t, s, m - 1)
            /\ \A i, j \in 1..(m - 1) : i < j => IsLess(t[i], t[j])
    BY <2>2
  <2> DEFINE x == s[m]
             After == {i \in 1..m : i = m \/ IsLess(x, t[i])}
  <2>4. x \in OID /\ \A i \in 1..(m - 1) : t[i] # x
    <3>1. \A i \in 1..(m - 1) : s[i] # x
      BY <2>1
    <3>2. \A i \in 1..(m - 1) : \E j \in 1..(m - 1) : t[i] = s[j]
      BY <2>3 DEF SameElements
    <3>3. x \in OID
      BY <2>1
    <3> HIDE DEF x
    <3> QED BY <3>1, <3>2, <3>3
  <2> HIDE DEF x
  <2>5. PICK p \in After : \A i \in After : p <= i
    <3>1. After \in SUBSET Nat /\ m \in After
      BY <2>1
    <3> HIDE DEF After
    <3> QED BY <3>1, LeastNat
  <2>6. p \in 1..m /\ (p = m \/ IsLess(x, t[p]))
    BY <2>5
  <2>7. \A i \in 1..(p - 1) : IsLess(t[i], x)
    <3> TAKE i \in 1..(p - 1)
    <3>1. i \in 1..(m - 1) /\ i \notin After
      BY <2>5, <2>6
    <3> QED BY <2>4, <3>1, IsLessTotal
  <2>8. \A i \in p..(m - 1) : IsLess(x, t[i])
    <3> TAKE i \in p..(m - 1)
    <3>1. i \in 1..(m - 1) /\ p \in 1..(m - 1) /\ IsLess(x, t[p]) /\ (i # p => p < i)
      BY <2>6
    <3> QED BY <2>3, <2>4, <3>1, IsLessTransitive
  <2> DEFINE g == [i \in 1..m |-> IF i < p THEN t[i] ELSE IF i = p THEN x ELSE t[i - 1]]
  <2>9. g \in [1..m -> OID]
    <3>1. \A i \in 1..m : /\ i < p => i \in 1..(m - 1)
                          /\ i > p => i - 1 \in 1..(m - 1)
      BY <2>6
    <3> QED BY <2>4, <2>6, <3>1
  <2>10. SameElements(g, s, m)
    <3>1. ASSUME NEW i \in 1..m PROVE \E j \in 1..m : g[i] = s[j]
      <4>1. CASE i = p
        BY <2>1, <4>1 DEF x
      <4>2. CASE i < p
        <5>1. i \in 1..(m - 1) /\ g[i] = t[i]
          BY <2>6, <4>2
        <5>2. PICK j \in 1..(m - 1) : t[i] = s[j]
          BY <2>3, <5>1 DEF SameElements
        <5> QED BY <2>1, <5>1, <5>2
      <4>3. CASE i > p
        <5>1. i - 1 \in 1..(m - 1) /\ g[i] = t[i - 1]
          BY <2>6, <4>3
        <5>2. PICK j \in 1..(m - 1) : t[i - 1] = s[j]
          BY <2>3, <5>1 DEF SameElements
        <5> QED BY <2>1, <5>1, <5>2
      <4> QED BY <2>6, <4>1, <4>2, <4>3
    <3>2. ASSUME NEW j \in 1..m PROVE \E i \in 1..m : g[i] = s[j]
      <4>1. CASE j = m
        BY <2>6, <4>1 DEF x
      <4>2. CASE j # m
        <5>1. PICK i \in 1..(m - 1) : t[i] = s[j]
          <6>1. j \in 1..(m - 1)
            BY <2>1, <4>2
          <6> QED BY <2>3, <6>1 DEF SameElements
        <5>2. CASE i < p
          BY <2>6, <5>1, <5>2
        <5>3. CASE ~(i < p)
          <6>1. i + 1 \in 1..m /\ ~(i + 1 < p) /\ i + 1 # p /\ (i + 1) - 1 = i
            BY <2>6, <5>3
          <6> QED BY <5>1, <6>1
        <5> QED BY <5>2, <5>3
      <4> QED BY <4>1, <4>2
    <3> HIDE DEF g
    <3> QED BY <3>1, <3>2 DEF SameElements
  <2>11. \A i, j \in 1..m : i < j => IsLess(g[i], g[j])
    <3> SUFFICES ASSUME NEW i \in 1..m, NEW j \in 1..m, i < j PROVE IsLess(g[i], g[j])
      OBVIOUS
    <3>1. CASE j < p
      <4>1. i \in 1..(m - 1) /\ j \in 1..(m - 1) /\ g[i] = t[i] /\ g[j] = t[j]
        BY <2>6, <3>1
      <4> QED BY <2>3, <4>1
    <3>2. CASE j = p
      <4>1. i \in 1..(p - 1) /\ g[i] = t[i] /\ g[j] = x
        BY <2>6, <3>2
      <4> QED BY <2>7, <4>1
    <3>3. CASE j > p /\ i < p
      <4>1. i \in 1..(m - 1) /\ j - 1 \in 1..(m - 1) /\ g[i] = t[i] /\ g[j] = t[j - 1] /\ i < j - 1
        BY <2>6, <3>3
      <4> QED BY <2>3, <4>1
    <3>4. CASE j > p /\ i = p
      <4>1. j - 1 \in p..(m - 1) /\ g[i] = x /\ g[j] = t[j - 1]
        BY <2>6, <3>4
      <4> QED BY <2>8, <4>1
    <3>5. CASE i > p
      <4>1. /\ i - 1 \in 1..(m - 1) /\ j - 1 \in 1..(m - 1) /\ i - 1 < j - 1
            /\ g[i] = t[i - 1] /\ g[j] = t[j - 1]
        BY <2>6, <3>5
      <4> QED BY <2>3, <4>1
    <3> QED BY <2>6, <3>1, <3>2, <3>3, <3>4, <3>5
  <2>12. P(m)
    <3> HIDE DEF g
    <3> QED BY <2>9, <2>10, <2>11
  <2> HIDE DEF P
  <2> QED BY <1>2, <2>12
<1> QED BY <1>3, <1>4

\* The table of the agent has every configured identifier, in order.
LEMMA TableIsSorted ==
    /\ OrderedOIDs \in Seq(OID) /\ Len(OrderedOIDs) = Len(Configured)
    /\ ToSet(OrderedOIDs) = ToSet(Configured)
    /\ SortedIn(OrderedOIDs)
<1> DEFINE n == Len(Configured)
           Ok(t) == /\ ToSet(t) = ToSet(Configured)
                    /\ \A i, j \in 1..n : i < j => IsLess(t[i], t[j])
<1>1. Configured \in Seq(OID) /\ n \in Nat /\ DOMAIN Configured = 1..n
  BY ConfiguredAssumption DEF OID
<1>2. PICK t \in [1..n -> OID] : /\ SameElements(t, Configured, n)
                                 /\ \A i, j \in 1..n : i < j => IsLess(t[i], t[j])
  <2>1. n \in 0..n
    BY <1>1
  <2> QED BY <1>1, <2>1, SortedExists, ConfiguredAssumption
<1>3. t \in [1..n -> ToSet(Configured)] /\ Ok(t)
  <2>1. \A i \in 1..n : t[i] \in ToSet(Configured)
    BY <1>1, <1>2 DEF ToSet, SameElements
  <2>2. ToSet(t) = ToSet(Configured)
    <3>1. ToSet(t) \subseteq ToSet(Configured)
      BY <2>1 DEF ToSet
    <3>2. \A j \in 1..n : Configured[j] \in ToSet(t)
      BY <1>2 DEF ToSet, SameElements
    <3>3. ToSet(Configured) \subseteq ToSet(t)
      BY <1>1, <3>2 DEF ToSet
    <3> QED BY <3>1, <3>3
  <2> QED BY <1>2, <2>1, <2>2
<1>4. OrderedOIDs = CHOOSE table \in [1..n -> ToSet(Configured)] : Ok(table)
  BY DEF OrderedOIDs
<1> HIDE DEF Ok
<1>5. OrderedOIDs \in [1..n -> ToSet(Configured)] /\ Ok(OrderedOIDs)
  BY <1>3, <1>4
<1>6. ToSet(Configured) \subseteq OID
  BY <1>1 DEF ToSet
<1>7. OrderedOIDs \in Seq(OID) /\ Len(OrderedOIDs) = n
  <2>1. OrderedOIDs \in [1..n -> OID]
    BY <1>5, <1>6
  <2> HIDE DEF n
  <2> QED BY <1>1, <2>1
<1> QED BY <1>5, <1>7 DEF Ok, SortedIn

Size == Len(Configured)
Bindable == [name : OID, value : {"value", "noSuchObject", "endOfMibView"}]

\* Where the identifiers that are later than one begin in the table.
From(oid) ==
    CHOOSE s \in 1..(Size + 1) :
        \A i \in 1..Size : IsLess(oid, OrderedOIDs[i]) <=> i >= s

LEMMA FromIs ==
    ASSUME NEW oid \in OID
    PROVE  /\ From(oid) \in 1..(Size + 1)
           /\ \A i \in 1..Size : IsLess(oid, OrderedOIDs[i]) <=> i >= From(oid)
<1> DEFINE After == {i \in 1..(Size + 1) : i = Size + 1 \/ IsLess(oid, OrderedOIDs[i])}
<1>1. /\ Size \in Nat /\ OrderedOIDs \in Seq(OID) /\ Len(OrderedOIDs) = Size
      /\ \A i \in 1..Size : OrderedOIDs[i] \in OID
  BY TableIsSorted, ConfiguredAssumption DEF Size
<1>2. PICK s \in After : \A i \in After : s <= i
  <2>1. After \in SUBSET Nat /\ Size + 1 \in After
    BY <1>1
  <2> HIDE DEF After
  <2> QED BY <2>1, LeastNat
<1>3. s \in 1..(Size + 1) /\ (s <= Size => IsLess(oid, OrderedOIDs[s]))
  BY <1>1, <1>2
<1>4. ASSUME NEW i \in 1..Size PROVE IsLess(oid, OrderedOIDs[i]) <=> i >= s
  <2>1. CASE i < s
    <3>1. i \notin After
      <4> HIDE DEF After
      <4> QED BY <1>1, <1>2, <1>3, <2>1
    <3> QED BY <1>1, <1>3, <2>1, <3>1
  <2>2. CASE i = s
    BY <1>1, <1>3, <2>2
  <2>3. CASE i > s
    <3>1. s \in 1..Size /\ IsLess(OrderedOIDs[s], OrderedOIDs[i])
      BY <1>1, <1>3, <2>3, TableIsSorted DEF SortedIn
    <3> QED BY <1>1, <1>3, <2>3, <3>1, IsLessTransitive
  <2> QED BY <1>1, <1>3, <2>1, <2>2, <2>3
<1> DEFINE Good(x) == \A i \in 1..Size : IsLess(oid, OrderedOIDs[i]) <=> i >= x
<1>5. Good(s)
  BY <1>4
<1>6. From(oid) = CHOOSE x \in 1..(Size + 1) : Good(x)
  BY DEF From
<1> HIDE DEF Good
<1>7. From(oid) \in 1..(Size + 1) /\ Good(From(oid))
  BY <1>3, <1>5, <1>6
<1> QED BY <1>7 DEF Good

\* After the one at a place comes the one at the next place.
LEMMA FromPlace ==
    ASSUME NEW i \in 1..Size
    PROVE  OrderedOIDs[i] \in OID /\ From(OrderedOIDs[i]) = i + 1
<1> DEFINE oid == OrderedOIDs[i] s == From(oid)
<1>1. /\ Size \in Nat /\ OrderedOIDs \in Seq(OID) /\ Len(OrderedOIDs) = Size
      /\ \A j \in 1..Size : OrderedOIDs[j] \in OID
  BY TableIsSorted, ConfiguredAssumption DEF Size
<1>2. s \in 1..(Size + 1) /\ \A j \in 1..Size : IsLess(oid, OrderedOIDs[j]) <=> j >= s
  BY <1>1, FromIs
<1>3. ~IsLess(oid, OrderedOIDs[i])
  BY <1>1, IsLessIrreflexive
<1>4. i + 1 \in 1..Size => IsLess(oid, OrderedOIDs[i + 1])
  BY <1>1, TableIsSorted DEF SortedIn
<1> HIDE DEF s
<1>5. s > i /\ (i + 1 \in 1..Size => i + 1 >= s)
  BY <1>1, <1>2, <1>3, <1>4
<1>6. s = i + 1
  BY <1>1, <1>2, <1>5
<1> QED BY <1>1, <1>6 DEF s

\* What one step of getNextOID binds.
LEMMA NextBindingIs ==
    ASSUME NEW oid \in OID
    PROVE  NextBinding(oid) =
              IF From(oid) <= Size THEN Binding(OrderedOIDs[From(oid)], "value")
              ELSE Binding(oid, "endOfMibView")
<1> DEFINE s == From(oid) table == OrderedOIDs next == GetNextOID(table, oid)
<1>1. table \in Seq(OID) /\ SortedIn(table) /\ Len(table) = Size /\ Size \in Nat
  BY TableIsSorted, ConfiguredAssumption DEF Size
<1>2. s \in 1..(Size + 1) /\ \A i \in 1..Size : IsLess(oid, table[i]) <=> i >= s
  BY FromIs
<1>3. Later(table, oid) = {i \in 1..Size : i >= s}
  BY <1>1, <1>2 DEF Later
<1>4. /\ Later(table, oid) = {} => next = <<>>
      /\ Later(table, oid) # {} =>
            \E i \in Later(table, oid) :
               next = table[i] /\ \A j \in Later(table, oid) : i <= j
  <2> HIDE DEF table
  <2> QED BY <1>1, GetNextIsSuccessor
<1>5. NextBinding(oid) = IF next = <<>> THEN Binding(oid, "endOfMibView")
                         ELSE Binding(next, "value")
  BY DEF NextBinding
<1> HIDE DEF next, s, table
<1>6. CASE s <= Size
  <2>1. s \in Later(table, oid)
    BY <1>1, <1>2, <1>3, <1>6
  <2>2. PICK i \in Later(table, oid) : next = table[i] /\ \A j \in Later(table, oid) : i <= j
    BY <1>4, <2>1
  <2>3. i = s
    BY <1>1, <1>2, <1>3, <2>1, <2>2
  <2>4. table[s] # <<>>
    <3>1. IsLess(oid, table[s])
      BY <1>2, <1>6
    <3>2. ~IsLess(oid, <<>>)
      BY DEF IsLess
    <3> QED BY <3>1, <3>2
  <2> QED BY <1>5, <1>6, <2>2, <2>3, <2>4 DEF s, table
<1>7. CASE ~(s <= Size)
  <2>1. Later(table, oid) = {}
    BY <1>1, <1>2, <1>3, <1>7
  <2> QED BY <1>4, <1>5, <1>7, <2>1 DEF s
<1> QED BY <1>6, <1>7

-----------------------------------------------------------------------------
(* What one variable of a request is answered with. *)

\* The bindings that follow one identifier: the table from its place on, up to n of them,
\* and one that says that the table has ended.
Place(oid, k) ==
    IF From(oid) + k - 1 <= Size THEN Binding(OrderedOIDs[From(oid) + k - 1], "value")
    ELSE Binding(IF k = 1 THEN oid ELSE OrderedOIDs[Size], "endOfMibView")
Places(oid, n) == IF n <= Size - From(oid) + 2 THEN n ELSE Size - From(oid) + 2
Segment(oid, n) == [k \in 1..Places(oid, n) |-> Place(oid, k)]

LEMMA PlacesIs ==
    ASSUME NEW oid \in OID, NEW n \in Nat
    PROVE  /\ Size \in Nat /\ From(oid) \in 1..(Size + 1)
           /\ Places(oid, n) \in 0..n /\ Places(oid, n) <= Size - From(oid) + 2
BY FromIs, TableIsSorted, ConfiguredAssumption DEF Places, Size

LEMMA PlaceIs ==
    ASSUME NEW oid \in OID, NEW n \in Nat, NEW k \in 1..Places(oid, n)
    PROVE  /\ Place(oid, k) \in Bindable
           /\ From(oid) + k - 1 <= Size =>
                 /\ From(oid) + k - 1 \in 1..Size
                 /\ Place(oid, k) = Binding(OrderedOIDs[From(oid) + k - 1], "value")
           /\ From(oid) + k - 1 > Size => From(oid) + k - 1 = Size + 1
<1> DEFINE s == From(oid)
<1>1. Size \in Nat /\ s \in 1..(Size + 1) /\ k \in Nat /\ k >= 1 /\ k <= Size - s + 2
  BY PlacesIs
<1>2. \A i \in 1..Size : OrderedOIDs[i] \in OID
  BY TableIsSorted DEF Size
<1> HIDE DEF s
<1>3. \A o \in OID : Binding(o, "value") \in Bindable /\ Binding(o, "endOfMibView") \in Bindable
  BY DEF Binding, Bindable
<1>4. CASE s + k - 1 <= Size
  <2>1. s + k - 1 \in 1..Size /\ ~(s + k - 1 > Size)
    BY <1>1, <1>4
  <2>2. Place(oid, k) = Binding(OrderedOIDs[s + k - 1], "value")
    BY <1>4 DEF Place, s
  <2> QED BY <1>2, <1>3, <1>4, <2>1, <2>2 DEF s
<1>5. CASE ~(s + k - 1 <= Size)
  <2>1. s + k - 1 = Size + 1
    BY <1>1, <1>5
  <2>2. (IF k = 1 THEN oid ELSE OrderedOIDs[Size]) \in OID
    BY <1>1, <1>2, <2>1
  <2>3. Place(oid, k) = Binding(IF k = 1 THEN oid ELSE OrderedOIDs[Size], "endOfMibView")
    BY <1>5 DEF Place, s
  <2> QED BY <1>3, <1>5, <2>1, <2>2, <2>3 DEF s
<1> QED BY <1>4, <1>5

LEMMA SegmentType ==
    ASSUME NEW oid \in OID, NEW n \in Nat
    PROVE  Segment(oid, n) \in Seq(Bindable) /\ Len(Segment(oid, n)) = Places(oid, n)
<1>1. Places(oid, n) \in Nat
  BY PlacesIs
<1>2. \A k \in 1..Places(oid, n) : Place(oid, k) \in Bindable
  BY PlaceIs
<1> QED BY <1>1, <1>2 DEF Segment

\* One step more.
LEMMA SegmentStep ==
    ASSUME NEW oid \in OID, NEW n \in Nat \ {0}, NEW seg, seg = Segment(oid, n - 1)
    PROVE  Segment(oid, n) =
              IF seg # <<>> /\ Last(seg).value = "endOfMibView" THEN seg
              ELSE Append(seg, NextBinding(IF n = 1 THEN oid ELSE Last(seg).name))
<1> DEFINE s == From(oid) m == Places(oid, n - 1)
<1>1. /\ Size \in Nat /\ s \in 1..(Size + 1) /\ m \in 0..(n - 1) /\ n - 1 \in Nat
      /\ m = IF n - 1 <= Size - s + 2 THEN n - 1 ELSE Size - s + 2
      /\ Places(oid, n) = IF n <= Size - s + 2 THEN n ELSE Size - s + 2
  BY PlacesIs DEF Places
<1>2. seg \in Seq(Bindable) /\ Len(seg) = m /\ \A k \in 1..m : seg[k] = Place(oid, k)
  BY <1>1, SegmentType DEF Segment
<1>3. seg # <<>> <=> m # 0
  BY <1>2, EmptySeq
<1> HIDE DEF m, s
<1>4. CASE m = Size - s + 2
  <2>1. m # 0 /\ ~(s + m - 1 <= Size) /\ m \in 1..m /\ Places(oid, n) = m
    BY <1>1, <1>4
  <2>2. Last(seg).value = "endOfMibView"
    <3>1. Last(seg) = Place(oid, m)
      BY <1>2, <2>1 DEF Last
    <3> QED BY <2>1, <3>1 DEF Place, Binding, s
  <2>3. Segment(oid, n) = seg
    BY <2>1 DEF Segment, m, s
  <2> QED BY <1>3, <2>1, <2>2, <2>3
<1>5. CASE m # Size - s + 2
  <2>1. m = n - 1 /\ n <= Size - s + 2 /\ Places(oid, n) = n /\ s + m - 1 <= Size
    BY <1>1, <1>5
  <2>2. m # 0 => Last(seg) = Binding(OrderedOIDs[s + m - 1], "value")
    BY <1>1, <1>2, <2>1 DEF Place, Last, s
  <2>3. ~(seg # <<>> /\ Last(seg).value = "endOfMibView")
    BY <1>3, <2>2 DEF Binding
  <2>4. NextBinding(IF n = 1 THEN oid ELSE Last(seg).name) = Place(oid, n)
    <3>1. CASE n = 1
      BY <1>1, <2>1, <3>1, NextBindingIs DEF Place, s
    <3>2. CASE n # 1
      <4>1. s + m - 1 \in 1..Size /\ s + m - 1 + 1 = s + n - 1 /\ m # 0
        BY <1>1, <2>1, <3>2
      <4>2. PICK o \in OID : o = OrderedOIDs[s + m - 1] /\ From(o) = s + n - 1
        BY <4>1, FromPlace
      <4>3. Last(seg).name = o
        BY <2>2, <4>1, <4>2 DEF Binding
      <4>4. NextBinding(o) = IF s + n - 1 <= Size THEN Binding(OrderedOIDs[s + n - 1], "value")
                             ELSE Binding(o, "endOfMibView")
        BY <4>2, NextBindingIs
      <4>5. ~(s + n - 1 <= Size) => s + m - 1 = Size
        BY <1>1, <4>1
      <4> QED BY <3>2, <4>2, <4>3, <4>4, <4>5 DEF Place, s
    <3> QED BY <3>1, <3>2
  <2>5. Segment(oid, n) = Append(seg, Place(oid, n))
    <3>1. Place(oid, n) \in Bindable
      BY <1>1, <2>1, PlaceIs
    <3>2. /\ Append(seg, Place(oid, n)) \in Seq(Bindable) /\ Len(Append(seg, Place(oid, n))) = n
          /\ \A k \in 1..n : Append(seg, Place(oid, n))[k] = Place(oid, k)
      <4> DEFINE p == Place(oid, n) more == Append(seg, p)
      <4>1. /\ more \in Seq(Bindable) /\ Len(more) = m + 1 /\ more[m + 1] = p
            /\ \A k \in 1..m : more[k] = seg[k]
        <5> HIDE DEF p
        <5> QED BY <1>2, <3>1, AppendProperties DEF p
      <4> HIDE DEF more
      <4> QED BY <1>1, <1>2, <2>1, <4>1 DEF more
    <3>3. Segment(oid, n) \in Seq(Bindable) /\ Len(Segment(oid, n)) = n
      BY <2>1, SegmentType
    <3>4. \A k \in 1..n : Segment(oid, n)[k] = Place(oid, k)
      BY <2>1 DEF Segment
    <3> QED BY <3>2, <3>3, <3>4, SeqEqual
  <2> QED BY <2>3, <2>4, <2>5
<1> QED BY <1>4, <1>5

\* What handlePacket repeats for one variable is the next part of the table.
LEMMA RepetitionsAre ==
    ASSUME NEW oid \in OID, NEW n \in Nat
    PROVE  Repetitions(oid, n) = Segment(oid, n)
<1> DEFINE Step(seg, k) ==
               IF seg # <<>> /\ Last(seg).value = "endOfMibView" THEN seg
               ELSE Append(seg, NextBinding(IF k = 1 THEN oid ELSE Last(seg).name))
           IsRep(f) == f = [k \in 0..n |-> IF k = 0 THEN <<>> ELSE Step(f[k - 1], k)]
           rep == CHOOSE f : IsRep(f)
           segs == [k \in 0..n |-> Segment(oid, k)]
<1>1. Repetitions(oid, n) = rep[n]
  BY DEF Repetitions
<1>2. Segment(oid, 0) = <<>>
  BY SegmentType, PlacesIs, EmptySeq
<1>3. ASSUME NEW k \in 1..n PROVE Segment(oid, k) = Step(Segment(oid, k - 1), k)
  <2>1. k \in Nat \ {0}
    OBVIOUS
  <2> QED BY <2>1, SegmentStep
<1> HIDE DEF Step
<1>4. IsRep(segs)
  <2> SUFFICES ASSUME NEW k \in 0..n
               PROVE  segs[k] = IF k = 0 THEN <<>> ELSE Step(segs[k - 1], k)
    OBVIOUS
  <2>1. CASE k = 0
    BY <1>2, <2>1
  <2>2. CASE k # 0
    <3>1. k \in 1..n /\ k - 1 \in 0..n
      BY <2>2
    <3> QED BY <1>3, <2>2, <3>1
  <2> QED BY <2>1, <2>2
<1>5. IsRep(rep)
  <2> HIDE DEF segs, IsRep
  <2> QED BY <1>4
<1> DEFINE Bad == {k \in 0..n : rep[k] # segs[k]}
<1>6. Bad = {}
  <2> SUFFICES ASSUME Bad # {} PROVE FALSE
    OBVIOUS
  <2>1. PICK k \in Bad : \A j \in Bad : k <= j
    <3>1. Bad \in SUBSET Nat
      OBVIOUS
    <3> HIDE DEF Bad
    <3> QED BY <3>1, LeastNat
  <2>2. k \in 0..n /\ rep[k] # segs[k]
    BY <2>1
  <2>3. k # 0 => rep[k - 1] = segs[k - 1]
    <3> SUFFICES ASSUME k # 0 PROVE rep[k - 1] = segs[k - 1]
      OBVIOUS
    <3>1. k - 1 \notin Bad /\ k - 1 \in 0..n
      <4> HIDE DEF Bad
      <4> QED BY <2>1, <2>2
    <3> HIDE DEF rep, segs
    <3> QED BY <3>1
  <2> HIDE DEF rep, segs
  <2>4. rep[k] = IF k = 0 THEN <<>> ELSE Step(rep[k - 1], k)
    BY <1>5, <2>2
  <2>5. segs[k] = IF k = 0 THEN <<>> ELSE Step(segs[k - 1], k)
    BY <1>4, <2>2
  <2> QED BY <2>2, <2>3, <2>4, <2>5
<1>7. n \in 0..n /\ n \notin Bad
  <2> HIDE DEF Bad
  <2> QED BY <1>6
<1>8. rep[n] = segs[n]
  <2> HIDE DEF rep, segs
  <2> QED BY <1>7
<1> HIDE DEF rep
<1> QED BY <1>1, <1>7, <1>8

\* A walk that goes on from the last name it was told goes on in the table.
LEMMA SegmentConcat ==
    ASSUME NEW oid \in OID, NEW n \in Nat \ {0}, NEW m \in Nat,
           Last(Segment(oid, n)).value = "value"
    PROVE  /\ Last(Segment(oid, n)).name \in OID
           /\ Segment(oid, n) \o Segment(Last(Segment(oid, n)).name, m) = Segment(oid, n + m)
<1> DEFINE s == From(oid) p == Places(oid, n) seg == Segment(oid, n)
<1>1. /\ Size \in Nat /\ s \in 1..(Size + 1) /\ p = IF n <= Size - s + 2 THEN n ELSE Size - s + 2
      /\ n + m \in Nat /\ n \in Nat
  BY PlacesIs DEF Places
<1>2. p \in 1..n
  BY <1>1
<1>3. /\ seg \in Seq(Bindable) /\ Len(seg) = p /\ \A k \in 1..p : seg[k] = Place(oid, k)
      /\ Last(seg) = Place(oid, p)
  BY <1>1, <1>2, SegmentType DEF Segment, Last
<1>4. s + p - 1 <= Size /\ Last(seg) = Binding(OrderedOIDs[s + p - 1], "value")
  BY <1>3 DEF Place, Binding
<1> HIDE DEF s, p, seg
<1>5. p = n /\ s + n - 1 \in 1..Size
  BY <1>1, <1>2, <1>4
<1>6. PICK o \in OID : o = OrderedOIDs[s + n - 1] /\ From(o) = s + n
  BY <1>1, <1>5, FromPlace
<1>7. Last(seg).name = o
  BY <1>4, <1>5, <1>6 DEF Binding
<1> DEFINE more == Segment(o, m) q == Places(o, m)
<1>8. /\ more \in Seq(Bindable) /\ Len(more) = q /\ \A k \in 1..q : more[k] = Place(o, k)
      /\ q = IF m <= Size - (s + n) + 2 THEN m ELSE Size - (s + n) + 2
  BY <1>6, SegmentType DEF Segment, Places
<1>0. Places(oid, n + m) = IF n + m <= Size - s + 2 THEN n + m ELSE Size - s + 2
  BY DEF Places, s
<1> HIDE DEF more, q
<1>9. Places(oid, n + m) = n + q
  BY <1>1, <1>5, <1>8, <1>0
<1>10. q \in Nat
  BY <1>1, <1>5, <1>8
<1>11. ASSUME NEW k \in 1..q PROVE Place(o, k) = Place(oid, n + k)
  <2>1. /\ s + n + k - 1 = s + (n + k) - 1 /\ n + k # 1
        /\ ~(s + n + k - 1 <= Size) /\ k = 1 => s + n - 1 = Size
    BY <1>1, <1>5, <1>8, <1>10
  <2>2. Place(o, k) = IF s + n + k - 1 <= Size THEN Binding(OrderedOIDs[s + n + k - 1], "value")
                      ELSE Binding(IF k = 1 THEN o ELSE OrderedOIDs[Size], "endOfMibView")
    BY <1>6 DEF Place
  <2>3. Place(oid, n + k) =
           IF s + (n + k) - 1 <= Size THEN Binding(OrderedOIDs[s + (n + k) - 1], "value")
           ELSE Binding(IF n + k = 1 THEN oid ELSE OrderedOIDs[Size], "endOfMibView")
    BY DEF Place, s
  <2>4. CASE s + n + k - 1 <= Size
    BY <2>1, <2>2, <2>3, <2>4
  <2>5. CASE ~(s + n + k - 1 <= Size)
    <3>1. (IF k = 1 THEN o ELSE OrderedOIDs[Size]) = OrderedOIDs[Size]
      BY <1>6, <2>1, <2>5
    <3> QED BY <2>1, <2>2, <2>3, <2>5, <3>1
  <2> QED BY <2>4, <2>5
<1>12. seg \o more = Segment(oid, n + m)
  <2>1. /\ seg \o more \in Seq(Bindable) /\ Len(seg \o more) = n + q
        /\ \A k \in 1..(n + q) : (seg \o more)[k] = IF k <= n THEN seg[k] ELSE more[k - n]
    <3>1. seg \in Seq(Bindable) /\ more \in Seq(Bindable) /\ Len(seg) = n /\ Len(more) = q
      BY <1>3, <1>5, <1>8
    <3> QED BY <3>1, ConcatProperties
  <2>2. Segment(oid, n + m) \in Seq(Bindable) /\ Len(Segment(oid, n + m)) = n + q
    BY <1>1, <1>9, SegmentType
  <2>3. ASSUME NEW k \in 1..(n + q) PROVE (seg \o more)[k] = Segment(oid, n + m)[k]
    <3>1. Segment(oid, n + m)[k] = Place(oid, k)
      BY <1>9 DEF Segment
    <3>2. CASE k <= n
      <4>1. k \in 1..p
        BY <1>5, <3>2, <1>10
      <4> QED BY <1>3, <2>1, <3>1, <3>2, <4>1
    <3>3. CASE ~(k <= n)
      <4>1. k - n \in 1..q /\ n + (k - n) = k
        BY <1>1, <1>10, <3>3
      <4>2. more[k - n] = Place(oid, k)
        BY <1>8, <1>11, <4>1
      <4> QED BY <2>1, <3>1, <3>3, <4>2
    <3> QED BY <3>2, <3>3
  <2> QED BY <2>1, <2>2, <2>3, SeqEqual
<1> QED BY <1>6, <1>7, <1>12 DEF seg, more

-----------------------------------------------------------------------------
(* Prefixes. *)

LEMMA OidIs ==
    ASSUME NEW a \in OID
    PROVE  Len(a) \in Nat /\ DOMAIN a = 1..Len(a) /\ \A m \in 1..Len(a) : a[m] \in Nat
BY LenProperties DEF OID

LEMMA PrefixOf ==
    ASSUME NEW S, NEW a \in Seq(S), NEW b \in Seq(S)
    PROVE  IsPrefix(a, b) <=> Len(a) <= Len(b) /\ \A m \in 1..Len(a) : a[m] = b[m]
<1>1. /\ Len(a) \in Nat /\ Len(b) \in Nat
      /\ \A m \in 1..Len(a) : a[m] \in S
      /\ \A m \in 1..Len(b) : b[m] \in S
  OBVIOUS
<1>2. /\ SubSeq(a, 1, Len(a)) \in Seq(S) /\ Len(SubSeq(a, 1, Len(a))) = Len(a)
      /\ \A i \in 1..Len(a) : SubSeq(a, 1, Len(a))[i] = a[i]
  BY <1>1, SubSeqProperties
<1>3. Len(a) <= Len(b) =>
         /\ SubSeq(b, 1, Len(a)) \in Seq(S) /\ Len(SubSeq(b, 1, Len(a))) = Len(a)
         /\ \A i \in 1..Len(a) : SubSeq(b, 1, Len(a))[i] = b[i]
  BY <1>1, SubSeqProperties
<1>4. Len(a) <= Len(b) =>
         (SubSeq(a, 1, Len(a)) = SubSeq(b, 1, Len(a)) <=> \A m \in 1..Len(a) : a[m] = b[m])
  BY <1>2, <1>3, SeqEqual
<1> QED BY <1>4 DEF IsPrefix

LEMMA PrefixIs ==
    ASSUME NEW a \in OID, NEW b \in OID
    PROVE  IsPrefix(a, b) <=> Len(a) <= Len(b) /\ \A m \in 1..Len(a) : a[m] = b[m]
BY PrefixOf DEF OID

LEMMA PrefixConcat ==
    ASSUME NEW S, NEW s \in Seq(S), NEW t \in Seq(S)
    PROVE  s \o t \in Seq(S) /\ IsPrefix(s, s \o t)
<1>1. /\ s \o t \in Seq(S) /\ Len(s \o t) = Len(s) + Len(t)
      /\ \A i \in 1..(Len(s) + Len(t)) : (s \o t)[i] = IF i <= Len(s) THEN s[i] ELSE t[i - Len(s)]
  BY ConcatProperties
<1>2. Len(s) \in Nat /\ Len(t) \in Nat
  OBVIOUS
<1>3. Len(s) <= Len(s \o t) /\ \A i \in 1..Len(s) : s[i] = (s \o t)[i]
  BY <1>1, <1>2
<1> QED BY <1>1, <1>3, PrefixOf

LEMMA PrefixTransitive ==
    ASSUME NEW S, NEW a \in Seq(S), NEW b \in Seq(S), NEW c \in Seq(S),
           IsPrefix(a, b), IsPrefix(b, c)
    PROVE  IsPrefix(a, c)
<1>1. Len(a) \in Nat /\ Len(b) \in Nat /\ Len(c) \in Nat
  OBVIOUS
<1>2. Len(a) <= Len(b) /\ \A i \in 1..Len(a) : a[i] = b[i]
  BY PrefixOf
<1>3. Len(b) <= Len(c) /\ \A i \in 1..Len(b) : b[i] = c[i]
  BY PrefixOf
<1>4. Len(a) <= Len(c) /\ \A i \in 1..Len(a) : a[i] = c[i]
  BY <1>1, <1>2, <1>3
<1> QED BY <1>4, PrefixOf

\* What lies between a subtree's root and one of its identifiers is in the subtree.
LEMMA SubtreeIsConvex ==
    ASSUME NEW r \in OID, NEW x \in OID, NEW y \in OID,
           IsLess(r, x), IsLess(x, y), IsPrefix(r, y)
    PROVE  IsPrefix(r, x)
<1>1. /\ Len(r) \in Nat /\ Len(x) \in Nat /\ Len(y) \in Nat
      /\ \A m \in 1..Len(x) : x[m] \in Nat
      /\ \A m \in 1..Len(y) : y[m] \in Nat
  BY OidIs
<1>2. PICK k \in 1..Len(x) : /\ k <= Len(r) => r[k] < x[k]
                             /\ k <= Len(r) + 1
                             /\ \A m \in 1..(k - 1) : r[m] = x[m]
  BY DEF IsLess
<1>3. Len(r) <= Len(y) /\ \A m \in 1..Len(r) : r[m] = y[m]
  BY PrefixIs
<1>4. CASE k <= Len(r)
  <2>1. k \in 1..Len(r) /\ y[k] < x[k] /\ \A m \in 1..(k - 1) : y[m] = x[m]
    BY <1>1, <1>2, <1>3, <1>4
  <2>2. k <= Len(y) + 1
    BY <1>1, <1>3, <1>4
  <2>3. IsLess(y, x)
    BY <1>2, <2>1, <2>2 DEF IsLess
  <2> QED BY <2>3, IsLessTransitive, IsLessIrreflexive
<1>5. CASE ~(k <= Len(r))
  <2>1. Len(r) <= Len(x) /\ \A m \in 1..Len(r) : r[m] = x[m]
    BY <1>1, <1>2, <1>5
  <2> QED BY <2>1, PrefixIs
<1> QED BY <1>4, <1>5
=============================================================================
