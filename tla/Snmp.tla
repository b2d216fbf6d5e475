-------------------------------- MODULE Snmp --------------------------------
(***************************************************************************)
(* How the snmp-agent answers a PDU. An object identifier is the sequence  *)
(* of its numbers; a value is "value", whatever it is.                     *)
(***************************************************************************)
EXTENDS Integers, Sequences, SequencesExt

CONSTANT Configured \* the object identifiers of the configuration, in its order

ASSUME ConfiguredAssumption ==
    /\ Configured \in Seq(Seq(Nat))
    /\ \A i, j \in 1..Len(Configured) : i # j => Configured[i] # Configured[j]

\* The shorter is less: for a mutant.
ShorterIsLess(a, b) ==
    Len(a) < Len(b) \/ (Len(a) = Len(b) /\ \E k \in 1..Len(b) :
                            a[k] < b[k] /\ \A m \in 1..(k - 1) : a[m] = b[m])

\* Number by number; a proper prefix is less.
IsLess(a, b) ==
    \E k \in 1..Len(b) :
       /\ k <= Len(a) => a[k] < b[k]
       /\ k <= Len(a) + 1
       /\ \A m \in 1..(k - 1) : a[m] = b[m]

\* The configured identifiers in order.
OrderedOIDs ==
    CHOOSE table \in [1..Len(Configured) -> ToSet(Configured)] :
        /\ ToSet(table) = ToSet(Configured)
        /\ \A i, j \in 1..Len(Configured) : i < j => IsLess(table[i], table[j])

\* The identifier itself when it is in the table: for a mutant.
NextOrSame(table, oid) ==
    LET i == SelectInSeq(table, LAMBDA o : IsLess(oid, o) \/ oid = o)
    IN IF i = 0 THEN <<>> ELSE table[i]

\* <<>> stands for not found.
GetNextOID(table, oid) ==
    LET At(i) == IsLess(oid, table[i]) \/ oid = table[i]
        First == CHOOSE i \in 1..Len(table) : At(i) /\ \A j \in 1..(i - 1) : ~At(j)
    IN IF ~\E i \in 1..Len(table) : At(i) THEN <<>>
       ELSE IF IsLess(oid, table[First]) THEN table[First]
       ELSE IF First < Len(table) THEN table[First + 1] ELSE <<>>

Binding(name, value) == [name |-> name, value |-> value]

NextBinding(oid) ==
    LET next == GetNextOID(OrderedOIDs, oid)
    IN IF next = <<>> THEN Binding(oid, "endOfMibView") ELSE Binding(next, "value")

\* Up to n bindings for one variable; the first endOfMibView is the last.
Repetitions(oid, n) ==
    LET Done(bs) == bs # <<>> /\ Last(bs).value = "endOfMibView"
        rep[k \in 0..n] ==
            IF k = 0 THEN <<>>
            ELSE IF Done(rep[k - 1]) THEN rep[k - 1]
            ELSE Append(rep[k - 1], NextBinding(IF k = 1 THEN oid ELSE Last(rep[k - 1]).name))
    IN rep[n]

GetBinding(tag, oid) ==
    IF Contains(Configured, oid) THEN Binding(oid, "value")
    ELSE Binding(oid, IF tag = "get" THEN "noSuchObject" ELSE "endOfMibView")

Clipped(n) == IF n < 0 THEN 0 ELSE n

\* The variables of a bulk request that are not repeated: one too few, for a mutant.
OneRepeaterMore(pdu, i) == i < Clipped(pdu.nonRepeaters)
NonRepeater(pdu, i) == i <= Clipped(pdu.nonRepeaters)

HandlePdu(pdu) ==
    CASE pdu.tag = "bulk" ->
            FlattenSeq([i \in 1..Len(pdu.vars) |->
                IF NonRepeater(pdu, i) THEN <<NextBinding(pdu.vars[i])>>
                ELSE Repetitions(pdu.vars[i], Clipped(pdu.maxRepetitions))])
      [] pdu.tag = "next" -> [i \in 1..Len(pdu.vars) |-> NextBinding(pdu.vars[i])]
      [] OTHER -> [i \in 1..Len(pdu.vars) |-> GetBinding(pdu.tag, pdu.vars[i])]

\* A message of SNMPv3 or with another community is not answered.
Accepted(pdu) == pdu.version <= 1 /\ pdu.community
=============================================================================
