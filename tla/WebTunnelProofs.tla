--------------------------- MODULE WebTunnelProofs ---------------------------
(***************************************************************************)
(* Theorems about WebTunnel, for any number of bytes and any window.       *)
(***************************************************************************)
EXTENDS WebTunnel, TLAPS, SequenceTheorems

\* A sequence counts on from a number.
Counts(s, n) == \A i \in 1..Len(s) : s[i] = n + i

\* Bytes that were read ahead of what comes from this end.
Skipped(e) == IF e = "client" THEN Len(ahead) ELSE 0

\* What was delivered of the bytes of an end, and where the next buffer begins.
Delivered(e) == Skipped(e) + Len(got[Other(e)]) + Len(out[Other(e)])
Held(e) == Delivered(e) + Len(hold[e])

\* Whether a buffer of this direction may still be written.
Live(e) == pc[e] \in {"none", "copy"} /\ ~closed[Other(e)] /\ peer[Other(e)] # "closed"

BuffersOK ==
    /\ ahead \in Seq(Nat) /\ Len(ahead) <= 1
    /\ in \in [Ends -> Seq(Nat)] /\ hold \in [Ends -> Seq(Nat)]
    /\ out \in [Ends -> Seq(Nat)] /\ got \in [Ends -> Seq(Nat)]
    /\ pc \in [Ends -> {"none", "copy", "source", "destination", "end"}]

\* Before Hijack nothing went through.
Fresh ==
    phase # "tunnel" =>
        \A e \in Ends : hold[e] = <<>> /\ out[e] = <<>> /\ got[e] = <<>> /\ ~closed[e]

\* Byte for byte the buffers on the way of an end's bytes go on where the one before
\* ends, as long as what they hold can still be delivered.
ArrivedInOrder(e) ==
    /\ Counts(got[Other(e)], Skipped(e))
    /\ Counts(out[Other(e)], Skipped(e) + Len(got[Other(e)]))
    /\ Delivered(e) <= written[e]
    /\ Len(in[e]) <= written[e]
HeldInOrder(e) ==
    Live(e) => Counts(hold[e], Delivered(e)) /\ Held(e) <= written[e]
WaitingInOrder(e) ==
    Live(e) /\ ~closed[e] =>
        /\ Counts(in[e], Held(e))
        /\ Held(e) + Len(in[e]) <= written[e]
        /\ peer[e] # "closed" => Held(e) + Len(in[e]) = written[e]

Ordered == \A e \in Ends : ArrivedInOrder(e) /\ HeldInOrder(e) /\ WaitingInOrder(e)

IInv == TypeOK /\ BuffersOK /\ Fresh /\ Ordered

-----------------------------------------------------------------------------
(* Counting sequences. *)

LEMMA Others ==
    /\ \A e \in Ends : Other(e) \in Ends /\ Other(e) # e /\ Other(Other(e)) = e
    /\ \A e, f \in Ends : f = e \/ f = Other(e)
BY DEF Ends, Other

LEMMA CountsEmpty == \A n \in Nat : Counts(<<>>, n) /\ Len(<<>>) = 0
BY DEF Counts

LEMMA CountsAppend ==
    ASSUME NEW s \in Seq(Nat), NEW n \in Nat, Counts(s, n), NEW x \in Nat, x = n + Len(s) + 1
    PROVE  Counts(Append(s, x), n) /\ Len(Append(s, x)) = Len(s) + 1 /\ Append(s, x) \in Seq(Nat)
<1>1. Len(s) \in Nat /\ Len(Append(s, x)) = Len(s) + 1 /\ Append(s, x) \in Seq(Nat)
  OBVIOUS
<1>2. \A i \in 1..(Len(s) + 1) : Append(s, x)[i] = n + i
  BY <1>1 DEF Counts
<1> QED BY <1>1, <1>2 DEF Counts

\* A sequence and one that goes on where it ends.
LEMMA CountsConcat ==
    ASSUME NEW s \in Seq(Nat), NEW t \in Seq(Nat), NEW n \in Nat,
           Counts(s, n), Counts(t, n + Len(s))
    PROVE  Counts(s \o t, n) /\ Len(s \o t) = Len(s) + Len(t) /\ s \o t \in Seq(Nat)
<1>1. /\ Len(s) \in Nat /\ Len(t) \in Nat
      /\ Len(s \o t) = Len(s) + Len(t) /\ s \o t \in Seq(Nat)
      /\ \A i \in 1..(Len(s) + Len(t)) :
            (s \o t)[i] = IF i <= Len(s) THEN s[i] ELSE t[i - Len(s)]
  BY ConcatProperties
<1>2. ASSUME NEW i \in 1..Len(s \o t) PROVE (s \o t)[i] = n + i
  BY <1>1 DEF Counts
<1> QED BY <1>1, <1>2 DEF Counts

\* Its beginning, and what is left, count on as well.
LEMMA CountsFront ==
    ASSUME NEW s \in Seq(Nat), NEW n \in Nat, Counts(s, n), NEW k \in 0..Len(s)
    PROVE  Counts(SubSeq(s, 1, k), n) /\ Len(SubSeq(s, 1, k)) = k /\ SubSeq(s, 1, k) \in Seq(Nat)
<1>1. /\ SubSeq(s, 1, k) \in Seq(Nat)
      /\ Len(SubSeq(s, 1, k)) = k
      /\ \A i \in 1..k : SubSeq(s, 1, k)[i] = s[i]
  <2>1. \A i \in 1..k : s[i] \in Nat
    OBVIOUS
  <2>2. /\ SubSeq(s, 1, k) \in Seq(Nat)
        /\ Len(SubSeq(s, 1, k)) = IF 1 <= k THEN k - 1 + 1 ELSE 0
        /\ \A i \in 1..(k - 1 + 1) : SubSeq(s, 1, k)[i] = s[1 + i - 1]
    BY <2>1, SubSeqProperties
  <2> QED BY <2>2
<1> QED BY <1>1 DEF Counts

LEMMA CountsBack ==
    ASSUME NEW s \in Seq(Nat), NEW n \in Nat, Counts(s, n), NEW k \in 0..Len(s)
    PROVE  /\ Counts(SubSeq(s, k + 1, Len(s)), n + k)
           /\ Len(SubSeq(s, k + 1, Len(s))) = Len(s) - k
           /\ SubSeq(s, k + 1, Len(s)) \in Seq(Nat)
<1> DEFINE t == SubSeq(s, k + 1, Len(s))
<1>1. /\ t \in Seq(Nat)
      /\ Len(t) = Len(s) - k
      /\ \A i \in 1..(Len(s) - k) : t[i] = s[k + i]
  <2>1. \A i \in (k + 1)..Len(s) : s[i] \in Nat
    OBVIOUS
  <2>2. /\ t \in Seq(Nat)
        /\ Len(t) = IF k + 1 <= Len(s) THEN Len(s) - (k + 1) + 1 ELSE 0
        /\ \A i \in 1..(Len(s) - (k + 1) + 1) : t[i] = s[(k + 1) + i - 1]
    BY <2>1, SubSeqProperties
  <2> QED BY <2>2
<1> QED BY <1>1 DEF Counts

LEMMA SubSeqLengths ==
    ASSUME NEW s \in Seq(Nat), NEW k \in 0..Len(s)
    PROVE  /\ Len(SubSeq(s, 1, k)) = k /\ Len(SubSeq(s, k + 1, Len(s))) = Len(s) - k
           /\ SubSeq(s, 1, k) \in Seq(Nat) /\ SubSeq(s, k + 1, Len(s)) \in Seq(Nat)
<1>1. \A i \in 1..Len(s) : s[i] \in Nat
  OBVIOUS
<1>2. \A i \in 1..k : s[i] \in Nat
  BY <1>1
<1>3. \A i \in (k + 1)..Len(s) : s[i] \in Nat
  BY <1>1
<1>4. /\ SubSeq(s, 1, k) \in Seq(Nat)
      /\ Len(SubSeq(s, 1, k)) = IF 1 <= k THEN k - 1 + 1 ELSE 0
  BY <1>2, SubSeqProperties
<1>5. /\ SubSeq(s, k + 1, Len(s)) \in Seq(Nat)
      /\ Len(SubSeq(s, k + 1, Len(s))) = IF k + 1 <= Len(s) THEN Len(s) - (k + 1) + 1 ELSE 0
  BY <1>3, SubSeqProperties
<1> QED BY <1>4, <1>5

LEMMA CountsTail ==
    ASSUME NEW s \in Seq(Nat), NEW n \in Nat, Counts(s, n), s # <<>>
    PROVE  /\ Head(s) = n + 1
           /\ Counts(Tail(s), n + 1) /\ Len(Tail(s)) = Len(s) - 1 /\ Tail(s) \in Seq(Nat)
<1>1. Len(s) \in Nat /\ Len(s) > 0
  BY EmptySeq
<1>2. /\ Tail(s) \in Seq(Nat) /\ Len(Tail(s)) = Len(s) - 1
      /\ \A i \in 1..Len(Tail(s)) : Tail(s)[i] = s[i + 1]
  BY HeadTailProperties
<1>3. Head(s) = s[1]
  OBVIOUS
<1> QED BY <1>1, <1>2, <1>3 DEF Counts

\* What a connection that is closed still brings to its end is a beginning.
LEMMA CloseCuts ==
    ASSUME BuffersOK, NEW e \in Ends, Close(e)
    PROVE  \E k \in 0..Len(out[e]) : out' = [out EXCEPT ![e] = SubSeq(out[e], 1, k)]
<1>1. out[e] \in Seq(Nat)
  BY DEF BuffersOK
<1>2. SubSeq(out[e], 1, Len(out[e])) = out[e]
  BY <1>1, SubSeqFull
<1>3. Len(out[e]) \in 0..Len(out[e])
  BY <1>1
<1> QED BY <1>1, <1>2, <1>3 DEF Close, Prefixes

-----------------------------------------------------------------------------
(* The invariant. *)

LEMMA InitIInv == Init => IInv
<1> SUFFICES ASSUME Init PROVE IInv
  OBVIOUS
<1>1. TypeOK
  BY TunnelAssumption DEF Init, TypeOK
<1>2. BuffersOK
  BY DEF Init, BuffersOK
<1>3. Fresh
  BY DEF Init, Fresh
<1>4. ASSUME NEW e \in Ends PROVE ArrivedInOrder(e) /\ HeldInOrder(e) /\ WaitingInOrder(e)
  <2>1. /\ got[Other(e)] = <<>> /\ out[Other(e)] = <<>> /\ hold[e] = <<>> /\ in[e] = <<>>
        /\ written[e] = 0
    BY <1>4, Others DEF Init
  <2>2. Skipped(e) = 0
    BY DEF Skipped, Init
  <2>3. Delivered(e) = 0 /\ Held(e) = 0
    BY <2>1, <2>2 DEF Delivered, Held
  <2> QED
    BY <2>1, <2>2, <2>3, CountsEmpty DEF ArrivedInOrder, HeldInOrder, WaitingInOrder
<1> QED BY <1>1, <1>2, <1>3, <1>4 DEF IInv, Ordered

\* Every step keeps the types and the bounds of the buffers.
LEMMA TypeStep == IInv /\ [Next]_vars => TypeOK' /\ BuffersOK'
<1> SUFFICES ASSUME IInv, [Next]_vars PROVE TypeOK' /\ BuffersOK'
  OBVIOUS
<1> USE TunnelAssumption DEF IInv, TypeOK, BuffersOK
<1>1. CASE Connect
  BY <1>1 DEF Connect, Authorize, Dial, Hijack, Started
<1>2. CASE ReadAhead
  <2>1. in["client"] \in Seq(Nat) /\ in["client"] # <<>> /\ "client" \in Ends
    BY <1>2 DEF ReadAhead, Ends
  <2>2. /\ Head(in["client"]) \in Nat /\ Tail(in["client"]) \in Seq(Nat)
        /\ Len(Tail(in["client"])) = Len(in["client"]) - 1
    BY <2>1, HeadTailProperties
  <2> QED BY <1>2, <2>1, <2>2 DEF ReadAhead
<1>3. ASSUME NEW e \in Ends, PeerWrites(e) PROVE TypeOK' /\ BuffersOK'
  <2>1. written[e] + 1 \in 0..MaxBytes /\ written'[e] = written[e] + 1
    BY <1>3 DEF PeerWrites
  <2>2. /\ Append(in[e], written'[e]) \in Seq(Nat)
        /\ Len(Append(in[e], written'[e])) = Len(in[e]) + 1
        /\ Len(in[e]) < Window /\ Len(in[e]) \in Nat
    BY <1>3, <2>1 DEF PeerWrites
  <2>3. in' \in [Ends -> Seq(Nat)] /\ \A f \in Ends : Len(in'[f]) <= Window
    BY <1>3, <2>1, <2>2 DEF PeerWrites
  <2> QED BY <1>3, <2>1, <2>3 DEF PeerWrites
<1>4. ASSUME NEW e \in Ends, PeerReads(e) PROVE TypeOK' /\ BuffersOK'
  <2>1. got[e] \o out[e] \in Seq(Nat)
    OBVIOUS
  <2> QED BY <1>4, <2>1 DEF PeerReads
<1>5. ASSUME NEW e \in Ends, PeerShuts(e) \/ PeerCloses(e) PROVE TypeOK' /\ BuffersOK'
  <2>1. CASE PeerShuts(e)
    BY <2>1 DEF PeerShuts
  <2>2. CASE PeerCloses(e)
    <3>1. <<>> \in Seq(Nat) /\ Len(<<>>) = 0
      OBVIOUS
    <3>2. PICK rest \in {in[e], <<>>} : in' = [in EXCEPT ![e] = rest]
      BY <2>2 DEF PeerCloses
    <3>3. in' \in [Ends -> Seq(Nat)] /\ \A f \in Ends : Len(in'[f]) <= Window
      <4>1. rest \in Seq(Nat) /\ Len(rest) <= Window
        <5>1. in[e] \in Seq(Nat) /\ Len(in[e]) <= Window /\ 0 <= Window
          OBVIOUS
        <5> QED BY <3>1, <3>2, <5>1
      <4> QED BY <3>2, <4>1
    <3>4. out' \in [Ends -> Seq(Nat)] /\ \A f \in Ends : Len(out'[f]) <= Window
      BY <2>2, <3>1 DEF PeerCloses
    <3>5. peer' \in [Ends -> {"open", "shut", "closed"}]
      BY <2>2 DEF PeerCloses
    <3> QED BY <2>2, <3>3, <3>4, <3>5 DEF PeerCloses
  <2> QED BY <1>5, <2>1, <2>2
<1>6. ASSUME NEW e \in Ends, CopyRead(e) PROVE TypeOK' /\ BuffersOK'
  <2>1. PICK n \in 1..Len(in[e]) :
          /\ hold' = [hold EXCEPT ![e] = SubSeq(in[e], 1, n)]
          /\ in' = [in EXCEPT ![e] = SubSeq(@, n + 1, Len(@))]
    BY <1>6 DEF CopyRead
  <2>2. /\ SubSeq(in[e], 1, n) \in Seq(Nat)
        /\ SubSeq(in[e], n + 1, Len(in[e])) \in Seq(Nat)
        /\ Len(SubSeq(in[e], n + 1, Len(in[e]))) <= Window
    <3>1. in[e] \in Seq(Nat) /\ Len(in[e]) \in Nat /\ Len(in[e]) <= Window /\ n \in 1..Len(in[e])
      OBVIOUS
    <3> HIDE DEF IInv, TypeOK, BuffersOK
    <3>2. n \in 0..Len(in[e]) /\ Window \in Nat
      BY <3>1, TunnelAssumption
    <3>3. /\ SubSeq(in[e], 1, n) \in Seq(Nat) /\ SubSeq(in[e], n + 1, Len(in[e])) \in Seq(Nat)
          /\ Len(SubSeq(in[e], n + 1, Len(in[e]))) = Len(in[e]) - n
      BY <3>1, <3>2, SubSeqLengths
    <3> QED BY <3>1, <3>2, <3>3
  <2> QED BY <1>6, <2>1, <2>2 DEF CopyRead
<1>7. ASSUME NEW e \in Ends, CopyWrite(e) PROVE TypeOK' /\ BuffersOK'
  <2>1. Head(hold[e]) \in Nat /\ Tail(hold[e]) \in Seq(Nat)
    BY <1>7, HeadTailProperties DEF CopyWrite
  <2>2. /\ Append(out[Other(e)], Head(hold[e])) \in Seq(Nat)
        /\ Len(Append(out[Other(e)], Head(hold[e]))) <= Window
    <3>1. /\ out[Other(e)] \in Seq(Nat) /\ Len(out[Other(e)]) < Window
          /\ Len(out[Other(e)]) \in Nat
      BY <1>7, Others DEF CopyWrite
    <3> HIDE DEF IInv, TypeOK, BuffersOK
    <3> QED BY <2>1, <3>1, TunnelAssumption
  <2>3. out' \in [Ends -> Seq(Nat)] /\ \A f \in Ends : Len(out'[f]) <= Window
    <3> DEFINE more == Append(out[Other(e)], Head(hold[e]))
    <3>1. out' = out \/ out' = [out EXCEPT ![Other(e)] = more]
      BY <1>7 DEF CopyWrite
    <3>2. more \in Seq(Nat) /\ Len(more) <= Window
      BY <2>2
    <3>3. out \in [Ends -> Seq(Nat)] /\ \A f \in Ends : Len(out[f]) <= Window
      OBVIOUS
    <3> HIDE DEF IInv, TypeOK, BuffersOK, more
    <3>4. CASE out' = [out EXCEPT ![Other(e)] = more]
      <4>1. \A f \in Ends : out'[f] = out[f] \/ out'[f] = more
        BY <3>3, <3>4
      <4>2. out' \in [Ends -> Seq(Nat)]
        BY <3>2, <3>3, <3>4
      <4> QED BY <3>2, <3>3, <4>1, <4>2
    <3> QED BY <3>1, <3>3, <3>4
  <2> QED BY <1>7, <2>1, <2>3 DEF CopyWrite, WriteAll
<1>8. ASSUME NEW e \in Ends, WriteFails(e) \/ CopyEnds(e) PROVE TypeOK' /\ BuffersOK'
  <2>1. /\ pc' = [pc EXCEPT ![e] = "source"] /\ pc[e] = "copy" /\ hold' \in [Ends -> Seq(Nat)]
        /\ UNCHANGED <<phase, peer, written, in, ahead, out, got, closed>>
    <3>1. CASE WriteFails(e)
      <4>1. <<>> \in Seq(Nat)
        OBVIOUS
      <4> QED BY <3>1, <4>1 DEF WriteFails, Copying
    <3>2. CASE CopyEnds(e)
      BY <3>2 DEF CopyEnds, Copying
    <3> QED BY <1>8, <3>1, <3>2
  <2> QED BY <2>1
<1>9. ASSUME NEW e \in Ends, Close(e)
      PROVE  /\ closed' \in [Ends -> BOOLEAN]
             /\ in' \in [Ends -> Seq(Nat)] /\ out' \in [Ends -> Seq(Nat)]
             /\ \A f \in Ends : Len(in'[f]) <= Window /\ Len(out'[f]) <= Window
  <2>1. PICK k \in 0..Len(out[e]) : out' = [out EXCEPT ![e] = SubSeq(out[e], 1, k)]
    BY <1>9, CloseCuts
  <2>2. SubSeq(out[e], 1, k) \in Seq(Nat) /\ Len(SubSeq(out[e], 1, k)) <= Window
    OBVIOUS
  <2>3. out' \in [Ends -> Seq(Nat)] /\ \A f \in Ends : Len(out'[f]) <= Window
    BY <2>1, <2>2
  <2>4. in' \in [Ends -> Seq(Nat)] /\ \A f \in Ends : Len(in'[f]) <= Window
    BY <1>9 DEF Close
  <2> QED BY <1>9, <2>3, <2>4 DEF Close
<1>10. ASSUME NEW e \in Ends, CloseSource(e) PROVE TypeOK' /\ BuffersOK'
  BY <1>9, <1>10 DEF CloseSource
<1>11. ASSUME NEW e \in Ends, CloseDestination(e) PROVE TypeOK' /\ BuffersOK'
  <2>1. Close(Other(e)) /\ Other(e) \in Ends
    BY <1>11, Others DEF CloseDestination, CloseOther
  <2>2. /\ closed' \in [Ends -> BOOLEAN]
        /\ in' \in [Ends -> Seq(Nat)] /\ out' \in [Ends -> Seq(Nat)]
        /\ \A f \in Ends : Len(in'[f]) <= Window /\ Len(out'[f]) <= Window
    BY <1>9, <2>1
  <2>3. /\ pc[e] = "destination" /\ pc' = [pc EXCEPT ![e] = "end"]
        /\ UNCHANGED <<phase, peer, written, ahead, hold, got>>
    BY <1>11 DEF CloseDestination
  <2> QED BY <2>2, <2>3
<1>12. CASE UNCHANGED vars
  BY <1>12 DEF vars
<1> QED
  BY <1>1, <1>2, <1>3, <1>4, <1>5, <1>6, <1>7, <1>8, <1>10, <1>11, <1>12
     DEF Next, Peer, Transfer

\* Nothing goes through before Hijack, since no goroutine runs.
LEMMA FreshStep == IInv /\ [Next]_vars => Fresh'
<1> SUFFICES ASSUME IInv, [Next]_vars, phase' # "tunnel" PROVE
        \A e \in Ends : hold'[e] = <<>> /\ out'[e] = <<>> /\ got'[e] = <<>> /\ ~closed'[e]
  BY DEF Fresh
<1> USE DEF IInv, TypeOK, BuffersOK, Fresh
<1>1. phase # "tunnel"
  BY DEF Next, Connect, Authorize, Dial, Hijack, ReadAhead, Peer, PeerWrites, PeerReads,
         PeerShuts, PeerCloses, Transfer, CopyRead, CopyWrite, WriteFails, CopyEnds,
         CloseSource, CloseDestination, vars
<1>2. \A e \in Ends : pc[e] = "none"
  BY <1>1
<1>3. \A e \in Ends : ~Transfer(e) /\ ~PeerReads(e)
  BY <1>1, <1>2 DEF Transfer, CopyRead, CopyWrite, WriteFails, CopyEnds, CloseSource,
                    CloseDestination, Copying, PeerReads
<1>4. CASE Connect \/ ReadAhead \/ UNCHANGED vars
  BY <1>1, <1>4 DEF Connect, Authorize, Dial, Hijack, ReadAhead, vars
<1>5. ASSUME NEW e \in Ends, PeerWrites(e) \/ PeerShuts(e) \/ PeerCloses(e)
      PROVE  \A f \in Ends : hold'[f] = <<>> /\ out'[f] = <<>> /\ got'[f] = <<>> /\ ~closed'[f]
  BY <1>1, <1>5 DEF PeerWrites, PeerShuts, PeerCloses
<1> QED BY <1>3, <1>4, <1>5 DEF Next, Peer

\* The lengths that the order is stated with are numbers.
LEMMA Sizes ==
    ASSUME TypeOK, BuffersOK, NEW e \in Ends
    PROVE  /\ Other(e) \in Ends /\ written[e] \in Nat
           /\ Skipped(e) \in Nat /\ Delivered(e) \in Nat /\ Held(e) \in Nat
           /\ got[Other(e)] \in Seq(Nat) /\ out[Other(e)] \in Seq(Nat)
           /\ hold[e] \in Seq(Nat) /\ in[e] \in Seq(Nat)
           /\ Len(got[Other(e)]) \in Nat /\ Len(out[Other(e)]) \in Nat
           /\ Len(hold[e]) \in Nat /\ Len(in[e]) \in Nat
<1>1. Other(e) \in Ends
  BY Others
<1>2. Len(ahead) \in Nat
  BY DEF BuffersOK
<1>3. Skipped(e) \in Nat
  BY <1>2 DEF Skipped
<1>4. /\ got[Other(e)] \in Seq(Nat) /\ out[Other(e)] \in Seq(Nat)
      /\ hold[e] \in Seq(Nat) /\ in[e] \in Seq(Nat)
  BY <1>1 DEF BuffersOK
<1>5. /\ Len(got[Other(e)]) \in Nat /\ Len(out[Other(e)]) \in Nat
      /\ Len(hold[e]) \in Nat /\ Len(in[e]) \in Nat
  BY <1>4
<1>6. written[e] \in Nat
  BY TunnelAssumption DEF TypeOK
<1>7. Delivered(e) \in Nat
  BY <1>3, <1>5 DEF Delivered
<1>8. Held(e) \in Nat
  BY <1>5, <1>7 DEF Held
<1> QED BY <1>1, <1>3, <1>4, <1>5, <1>6, <1>7, <1>8

InOrderOf(e) == ArrivedInOrder(e) /\ HeldInOrder(e) /\ WaitingInOrder(e)

\* A step that changes nothing on the way of an end's bytes, and revives no direction.
LEMMA OrderFramed ==
    ASSUME NEW e \in Ends, InOrderOf(e),
           Skipped(e)' = Skipped(e), Delivered(e)' = Delivered(e), Held(e)' = Held(e),
           written'[e] = written[e], in'[e] = in[e], hold'[e] = hold[e],
           out'[Other(e)] = out[Other(e)], got'[Other(e)] = got[Other(e)],
           Live(e)' => Live(e), closed[e] => closed'[e], peer[e] = "closed" => peer'[e] = "closed"
    PROVE  InOrderOf(e)'
<1>1. ArrivedInOrder(e)'
  BY DEF InOrderOf, ArrivedInOrder, Counts, Other
<1>2. HeldInOrder(e)'
  BY DEF InOrderOf, HeldInOrder, Counts
<1>3. WaitingInOrder(e)'
  BY DEF InOrderOf, WaitingInOrder, Counts
<1> QED BY <1>1, <1>2, <1>3 DEF InOrderOf

\* A step that changes no buffer and no byte count at all.
LEMMA OrderKept ==
    ASSUME NEW e \in Ends, InOrderOf(e),
           UNCHANGED <<written, in, ahead, hold, out, got>>,
           Live(e)' => Live(e), closed[e] => closed'[e], peer[e] = "closed" => peer'[e] = "closed"
    PROVE  InOrderOf(e)'
<1>1. Skipped(e)' = Skipped(e) /\ Delivered(e)' = Delivered(e) /\ Held(e)' = Held(e)
  BY DEF Skipped, Delivered, Held
<1> QED BY <1>1, OrderFramed

\* What the steps of the HTTP server and of the ends do to the bytes of f.
LEMMA ConnectOrder == ASSUME IInv, NEW f \in Ends, Connect PROVE InOrderOf(f)'
<1>1. UNCHANGED <<written, in, ahead, hold, out, got, peer, closed>>
  BY DEF Connect, Authorize, Dial, Hijack
<1>2. InOrderOf(f)
  BY DEF IInv, Ordered, InOrderOf
<1>3. pc[f] \in {"none", "copy"} \/ pc' = pc
  BY DEF Connect, Authorize, Dial, Hijack, IInv, TypeOK
<1>4. Live(f)' => Live(f)
  BY <1>1, <1>3 DEF Live
<1> QED BY <1>1, <1>2, <1>4, OrderKept

\* What is read ahead is skipped, and nothing has been delivered before.
LEMMA ReadAheadOrder == ASSUME IInv, NEW f \in Ends, ReadAhead PROVE InOrderOf(f)'
<1>1. /\ got[Other(f)] = <<>> /\ out[Other(f)] = <<>> /\ hold[f] = <<>>
      /\ ~closed[f] /\ pc[f] = "none"
      /\ ahead = <<>> /\ in["client"] # <<>>
      /\ UNCHANGED <<written, hold, out, got, pc, peer, closed>>
  BY Others DEF ReadAhead, IInv, Fresh, TypeOK
<1>2. InOrderOf(f) /\ in[f] \in Seq(Nat) /\ written[f] \in Nat
  BY Sizes DEF IInv, Ordered, InOrderOf
<1>3. Live(f)' = Live(f)
  BY <1>1 DEF Live
<1>4. CASE f = "server"
  <2>1. in'[f] = in[f] /\ Skipped(f)' = Skipped(f)
    BY <1>4 DEF ReadAhead, Skipped, IInv, BuffersOK, Ends
  <2>2. Delivered(f)' = Delivered(f) /\ Held(f)' = Held(f)
    BY <1>1, <2>1 DEF Delivered, Held
  <2> QED BY <1>1, <1>2, <1>3, <2>1, <2>2, OrderFramed
<1>5. CASE f = "client"
  <2>1. Len(ahead) = 0 /\ Len(ahead') = 1 /\ in'[f] = Tail(in[f])
    BY <1>1, <1>5 DEF ReadAhead, IInv, BuffersOK, Ends
  <2>2. /\ Skipped(f) = 0 /\ Delivered(f) = 0 /\ Held(f) = 0
    BY <1>1, <1>5, <2>1 DEF Skipped, Delivered, Held
  <2>3. Skipped(f)' = 1 /\ Delivered(f)' = 1 /\ Held(f)' = 1
    <3>1. Skipped(f)' = 1
      BY <1>5, <2>1 DEF Skipped
    <3>2. Delivered(f)' = Skipped(f)' + Len(got'[Other(f)]) + Len(out'[Other(f)])
      BY DEF Delivered, Other
    <3>3. Held(f)' = Delivered(f)' + Len(hold'[f])
      BY DEF Held
    <3> QED BY <1>1, <3>1, <3>2, <3>3
  <2>4. Len(Tail(in[f])) = Len(in[f]) - 1 /\ Len(in[f]) \in Nat /\ Len(in[f]) > 0
    BY <1>1, <1>2, <1>5, EmptySeq, HeadTailProperties
  <2>5. Counts(in[f], 0) => Counts(Tail(in[f]), 1)
    BY <1>1, <1>2, <1>5, CountsTail
  <2>6. ArrivedInOrder(f)'
    BY <1>1, <1>2, <2>1, <2>2, <2>3, <2>4 DEF InOrderOf, ArrivedInOrder, Counts, Other
  <2>7. HeldInOrder(f)'
    BY <1>1, <1>2, <2>2, <2>3, <2>4 DEF InOrderOf, ArrivedInOrder, HeldInOrder, Counts
  <2>8. WaitingInOrder(f)'
    BY <1>1, <1>2, <1>3, <2>1, <2>2, <2>3, <2>4, <2>5 DEF InOrderOf, WaitingInOrder
  <2> QED BY <2>6, <2>7, <2>8 DEF InOrderOf
<1> QED BY <1>4, <1>5 DEF Ends

\* A byte that an end writes goes on where what waits ends.
LEMMA WritesOrder ==
    ASSUME IInv, NEW e \in Ends, PeerWrites(e), NEW f \in Ends PROVE InOrderOf(f)'
<1>1. /\ UNCHANGED <<ahead, hold, out, got, pc, peer, closed>>
      /\ peer[e] = "open" /\ written' = [written EXCEPT ![e] = @ + 1]
      /\ in' = IF closed[e] THEN in ELSE [in EXCEPT ![e] = Append(@, written'[e])]
  BY DEF PeerWrites
<1>2. /\ InOrderOf(f) /\ in[f] \in Seq(Nat) /\ Len(in[f]) \in Nat /\ written[f] \in Nat
      /\ Held(f) \in Nat /\ Delivered(f) \in Nat
  BY Sizes DEF IInv, Ordered, InOrderOf
<1>3. /\ Live(f)' = Live(f) /\ Delivered(f)' = Delivered(f)
      /\ Held(f)' = Held(f) /\ Skipped(f)' = Skipped(f)
  BY <1>1 DEF Live, Delivered, Held, Skipped
<1>4. CASE f # e
  <2>1. in'[f] = in[f] /\ written'[f] = written[f]
    BY <1>1, <1>4 DEF IInv, TypeOK, BuffersOK
  <2> QED BY <1>1, <1>2, <1>3, <2>1, OrderFramed
<1>5. CASE f = e
  <2>1. written'[f] = written[f] + 1
    BY <1>1, <1>5 DEF IInv, TypeOK
  <2>2. HeldInOrder(f)'
    BY <1>1, <1>2, <1>3, <2>1 DEF InOrderOf, HeldInOrder, Counts
  <2>3. CASE closed[f]
    <3>1. in'[f] = in[f]
      BY <1>1, <1>5, <2>3
    <3> QED
      BY <1>1, <1>2, <1>3, <2>1, <2>2, <2>3, <3>1
         DEF InOrderOf, ArrivedInOrder, WaitingInOrder, Counts
  <2>4. CASE ~closed[f]
    <3>1. in'[f] = Append(in[f], written[f] + 1)
      BY <1>1, <1>5, <2>1, <2>4 DEF IInv, BuffersOK
    <3>2. Len(in'[f]) = Len(in[f]) + 1
      BY <1>2, <3>1
    <3>3. ArrivedInOrder(f)'
      BY <1>1, <1>2, <1>3, <2>1, <3>2 DEF InOrderOf, ArrivedInOrder, Counts
    <3>4. ASSUME Live(f)
          PROVE  Counts(in'[f], Held(f)) /\ Held(f) + Len(in'[f]) = written'[f]
      <4>1. Counts(in[f], Held(f)) /\ Held(f) + Len(in[f]) = written[f]
        BY <1>1, <1>2, <1>5, <2>4, <3>4 DEF InOrderOf, WaitingInOrder
      <4>2. Counts(Append(in[f], written[f] + 1), Held(f))
        BY <1>2, <4>1, CountsAppend
      <4> QED BY <1>2, <2>1, <3>1, <3>2, <4>1, <4>2
    <3>5. WaitingInOrder(f)'
      BY <1>1, <1>2, <1>3, <2>1, <3>2, <3>4 DEF WaitingInOrder
    <3> QED BY <2>2, <3>3, <3>5 DEF InOrderOf
  <2> QED BY <2>3, <2>4
<1> QED BY <1>4, <1>5

\* What an end reads goes from what is on its way to what it got.
LEMMA ReadsOrder ==
    ASSUME IInv, NEW e \in Ends, PeerReads(e), NEW f \in Ends PROVE InOrderOf(f)'
<1>1. /\ UNCHANGED <<written, in, ahead, hold, pc, peer, closed>>
      /\ got' = [got EXCEPT ![e] = @ \o out[e]] /\ out' = [out EXCEPT ![e] = <<>>]
  BY DEF PeerReads
<1>2. /\ InOrderOf(f) /\ Other(f) \in Ends /\ Skipped(f) \in Nat
      /\ got[Other(f)] \in Seq(Nat) /\ out[Other(f)] \in Seq(Nat)
  BY Sizes DEF IInv, Ordered, InOrderOf
<1>3. Skipped(f)' = Skipped(f) /\ Live(f)' = Live(f)
  BY <1>1 DEF Skipped, Live
<1>4. CASE e # Other(f)
  <2>1. got'[Other(f)] = got[Other(f)] /\ out'[Other(f)] = out[Other(f)]
    BY <1>1, <1>2, <1>4 DEF IInv, BuffersOK
  <2>2. Delivered(f)' = Delivered(f) /\ Held(f)' = Held(f)
    BY <1>1, <1>3, <2>1 DEF Delivered, Held, Other
  <2> QED
    BY <1>1, <1>2, <1>3, <2>1, <2>2, OrderFramed
<1>5. CASE e = Other(f)
  <2>1. got'[Other(f)] = got[Other(f)] \o out[Other(f)] /\ out'[Other(f)] = <<>>
    BY <1>1, <1>2, <1>5 DEF IInv, BuffersOK
  <2>2. /\ Counts(got'[Other(f)], Skipped(f))
        /\ Len(got'[Other(f)]) = Len(got[Other(f)]) + Len(out[Other(f)])
        /\ Len(got[Other(f)]) \in Nat /\ Len(out[Other(f)]) \in Nat
        /\ Len(out'[Other(f)]) = 0
    <3>1. Counts(got[Other(f)] \o out[Other(f)], Skipped(f))
      BY <1>2, CountsConcat DEF InOrderOf, ArrivedInOrder
    <3>2. Len(got[Other(f)] \o out[Other(f)]) = Len(got[Other(f)]) + Len(out[Other(f)])
      BY <1>2
    <3>3. Len(out'[Other(f)]) = 0
      BY <2>1
    <3> QED BY <1>2, <2>1, <3>1, <3>2, <3>3
  <2>3. Delivered(f)' = Delivered(f) /\ Held(f)' = Held(f)
    <3>1. Delivered(f)' = Skipped(f)' + Len(got'[Other(f)]) + Len(out'[Other(f)])
      BY DEF Delivered, Other
    <3>2. Delivered(f)' = Skipped(f) + (Len(got[Other(f)]) + Len(out[Other(f)])) + 0
      BY <1>3, <2>2, <3>1
    <3>3. Delivered(f) = Skipped(f) + (Len(got[Other(f)]) + Len(out[Other(f)])) + 0
      <4>1. \A a, b, c \in Nat : a + b + c = a + (b + c) + 0
        OBVIOUS
      <4>2. Skipped(f) \in Nat /\ Len(got[Other(f)]) \in Nat /\ Len(out[Other(f)]) \in Nat
        BY <1>2, <2>2
      <4>3. Delivered(f) = Skipped(f) + Len(got[Other(f)]) + Len(out[Other(f)])
        BY DEF Delivered
      <4> QED BY <4>1, <4>2, <4>3
    <3> QED BY <1>1, <3>2, <3>3 DEF Held
  <2>4. Counts(out'[Other(f)], Skipped(f) + Len(got'[Other(f)]))
    BY <2>2 DEF Counts
  <2>5. ArrivedInOrder(f)'
    BY <1>1, <1>2, <1>3, <2>2, <2>3, <2>4 DEF InOrderOf, ArrivedInOrder, Other
  <2>6. HeldInOrder(f)' /\ WaitingInOrder(f)'
    BY <1>1, <1>2, <1>3, <2>3 DEF InOrderOf, HeldInOrder, WaitingInOrder, Counts
  <2> QED BY <2>5, <2>6 DEF InOrderOf
<1> QED BY <1>4, <1>5

\* Nothing but what is on its way to e, and what waits from it, is lost when e closes.
LEMMA ClosesOrder ==
    ASSUME IInv, NEW e \in Ends, PeerShuts(e) \/ PeerCloses(e), NEW f \in Ends
    PROVE  InOrderOf(f)'
<1>1. CASE PeerShuts(e)
  <2>1. /\ UNCHANGED <<written, in, ahead, hold, out, got, pc, closed>>
        /\ peer' = [peer EXCEPT ![e] = "shut"] /\ peer[e] = "open"
    BY <1>1 DEF PeerShuts
  <2>2. \A g \in Ends : peer'[g] = "closed" <=> peer[g] = "closed"
    BY <2>1 DEF IInv, TypeOK
  <2>3. Live(f)' => Live(f)
    BY <2>1, <2>2, Others DEF Live
  <2>4. InOrderOf(f)
    BY DEF IInv, Ordered, InOrderOf
  <2> QED BY <2>1, <2>2, <2>3, <2>4, OrderKept
<1>2. CASE PeerCloses(e)
  <2>1. /\ UNCHANGED <<written, ahead, hold, got, pc, closed>>
        /\ peer' = [peer EXCEPT ![e] = "closed"] /\ out' = [out EXCEPT ![e] = <<>>]
    BY <1>2 DEF PeerCloses
  <2>2. PICK rest : in' = [in EXCEPT ![e] = rest] /\ rest \in {in[e], <<>>}
    BY <1>2 DEF PeerCloses
  <2>3. /\ InOrderOf(f) /\ Other(f) \in Ends /\ Other(f) # f /\ Skipped(f) \in Nat
        /\ Len(got[Other(f)]) \in Nat /\ Len(out[Other(f)]) \in Nat /\ Len(hold[f]) \in Nat
        /\ written[f] \in Nat /\ Len(in[f]) \in Nat
    BY Sizes, Others DEF IInv, Ordered, InOrderOf
  <2>4. Skipped(f)' = Skipped(f)
    BY <2>1 DEF Skipped
  <2>5. CASE f = e
    <3>1. out'[Other(f)] = out[Other(f)] /\ peer'[f] = "closed" /\ peer'[Other(f)] = peer[Other(f)]
      BY <2>1, <2>3, <2>5 DEF IInv, TypeOK, BuffersOK
    <3>2. in'[f] = in[f] \/ in'[f] = <<>>
      BY <2>2, <2>5 DEF IInv, BuffersOK
    <3>3. Delivered(f)' = Delivered(f) /\ Held(f)' = Held(f) /\ Live(f)' = Live(f)
      BY <2>1, <2>4, <3>1 DEF Delivered, Held, Live, Other
    <3>4. Len(in'[f]) <= Len(in[f]) /\ Len(in'[f]) \in Nat
      BY <2>3, <3>2
    <3>5. Counts(in[f], Held(f)) => Counts(in'[f], Held(f))
      BY <3>2 DEF Counts
    <3>6. ArrivedInOrder(f)' /\ HeldInOrder(f)'
      BY <2>1, <2>3, <2>4, <3>1, <3>3, <3>4
         DEF InOrderOf, ArrivedInOrder, HeldInOrder, Counts, Other
    <3>7. Held(f) \in Nat
      BY Sizes DEF IInv
    <3>8. WaitingInOrder(f)'
      BY <2>1, <2>3, <3>1, <3>3, <3>4, <3>5, <3>7 DEF InOrderOf, WaitingInOrder
    <3> QED BY <3>6, <3>8 DEF InOrderOf
  <2>6. CASE f # e
    <3>1. Other(f) = e
      BY <2>6, Others
    <3>2. out'[Other(f)] = <<>> /\ peer'[Other(f)] = "closed" /\ in'[f] = in[f]
      BY <2>1, <2>2, <2>3, <2>6, <3>1 DEF IInv, TypeOK, BuffersOK
    <3>3. ~Live(f)'
      BY <3>2 DEF Live, Other
    <3>4. Delivered(f)' = Skipped(f) + Len(got[Other(f)]) + 0
      <4>1. Len(out'[Other(f)]) = 0
        BY <3>2
      <4>2. Delivered(f)' = Skipped(f)' + Len(got'[Other(f)]) + Len(out'[Other(f)])
        BY DEF Delivered, Other
      <4> QED BY <2>1, <2>4, <4>1, <4>2
    <3>5. ArrivedInOrder(f)'
      <4>1. Counts(out'[Other(f)], Skipped(f) + Len(got[Other(f)]))
        BY <2>3, <3>2 DEF Counts
      <4>2. Delivered(f)' <= written[f]
        BY <2>3, <3>4 DEF InOrderOf, ArrivedInOrder, Delivered
      <4> QED
        BY <2>1, <2>3, <2>4, <3>2, <4>1, <4>2 DEF InOrderOf, ArrivedInOrder, Other
    <3> QED BY <3>3, <3>5 DEF InOrderOf, HeldInOrder, WaitingInOrder
  <2> QED BY <2>5, <2>6
<1> QED BY <1>1, <1>2

\* What a transfer reads goes from what waits to its buffer.
LEMMA CopyReadOrder ==
    ASSUME IInv, NEW e \in Ends, CopyRead(e), NEW f \in Ends PROVE InOrderOf(f)'
<1>1. /\ UNCHANGED <<written, ahead, out, got, pc, peer, closed>>
      /\ ~closed[e] /\ hold[e] = <<>>
  BY DEF CopyRead
<1>2. PICK n \in 1..Len(in[e]) :
         /\ hold' = [hold EXCEPT ![e] = SubSeq(in[e], 1, n)]
         /\ in' = [in EXCEPT ![e] = SubSeq(@, n + 1, Len(@))]
  BY DEF CopyRead
<1>3. /\ InOrderOf(f) /\ in[f] \in Seq(Nat) /\ Len(in[f]) \in Nat /\ Len(hold[f]) \in Nat
      /\ written[f] \in Nat /\ Delivered(f) \in Nat
  BY Sizes DEF IInv, Ordered, InOrderOf
<1>4. Live(f)' = Live(f) /\ Delivered(f)' = Delivered(f) /\ Skipped(f)' = Skipped(f)
  BY <1>1 DEF Live, Delivered, Skipped
<1>5. CASE f # e
  <2>1. in'[f] = in[f] /\ hold'[f] = hold[f]
    BY <1>2, <1>5 DEF IInv, BuffersOK
  <2>2. Held(f)' = Held(f)
    BY <1>4, <2>1 DEF Held
  <2> QED BY <1>1, <1>3, <1>4, <2>1, <2>2, OrderFramed
<1>6. CASE f = e
  <2>1. hold'[f] = SubSeq(in[f], 1, n) /\ in'[f] = SubSeq(in[f], n + 1, Len(in[f]))
    BY <1>2, <1>6 DEF IInv, BuffersOK
  <2>2. Held(f) = Delivered(f)
    <3>1. Len(hold[f]) = 0
      BY <1>1, <1>6
    <3> QED BY <1>3, <3>1 DEF Held
  <2>3. n \in 0..Len(in[f]) /\ n \in Nat
    BY <1>2, <1>3, <1>6
  <2>4. Len(in'[f]) = Len(in[f]) - n /\ Len(hold'[f]) = n
    <3>1. /\ Len(SubSeq(in[f], n + 1, Len(in[f]))) = Len(in[f]) - n
          /\ Len(SubSeq(in[f], 1, n)) = n
      BY <1>3, <2>3, SubSeqLengths
    <3> QED BY <2>1, <3>1
  <2>5. Held(f)' = Delivered(f) + n
    <3>1. Held(f)' = Delivered(f)' + Len(hold'[f])
      BY DEF Held
    <3> QED BY <1>4, <2>4, <3>1
  <2>6. ASSUME Live(f)
        PROVE  /\ Counts(hold'[f], Delivered(f)) /\ Counts(in'[f], Delivered(f) + n)
               /\ Delivered(f) + Len(in[f]) <= written[f]
               /\ peer[f] # "closed" => Delivered(f) + Len(in[f]) = written[f]
    <3>1. /\ Counts(in[f], Delivered(f))
          /\ Delivered(f) + Len(in[f]) <= written[f]
          /\ peer[f] # "closed" => Delivered(f) + Len(in[f]) = written[f]
      BY <1>1, <1>3, <1>6, <2>2, <2>6 DEF InOrderOf, WaitingInOrder
    <3>2. Counts(SubSeq(in[f], 1, n), Delivered(f))
      BY <1>3, <2>3, <3>1, CountsFront
    <3>3. Counts(SubSeq(in[f], n + 1, Len(in[f])), Delivered(f) + n)
      BY <1>3, <2>3, <3>1, CountsBack
    <3> QED BY <2>1, <3>1, <3>2, <3>3
  <2>7. ArrivedInOrder(f)'
    BY <1>1, <1>3, <1>4, <2>3, <2>4 DEF InOrderOf, ArrivedInOrder, Counts
  <2>8. HeldInOrder(f)'
    BY <1>1, <1>3, <1>4, <2>3, <2>5, <2>6 DEF HeldInOrder
  <2>9. WaitingInOrder(f)'
    BY <1>1, <1>3, <1>4, <2>3, <2>4, <2>5, <2>6 DEF WaitingInOrder
  <2> QED BY <2>7, <2>8, <2>9 DEF InOrderOf
<1> QED BY <1>5, <1>6

\* What it writes goes from its buffer to what is on its way to the other end.
LEMMA CopyWriteOrder ==
    ASSUME IInv, NEW e \in Ends, CopyWrite(e), NEW f \in Ends PROVE InOrderOf(f)'
<1>1. /\ UNCHANGED <<written, in, ahead, got, pc, peer, closed>>
      /\ hold[e] # <<>> /\ hold' = [hold EXCEPT ![e] = Tail(hold[e])]
      /\ out' = IF peer[Other(e)] = "closed" THEN out
                ELSE [out EXCEPT ![Other(e)] = Append(@, Head(hold[e]))]
      /\ ~closed[Other(e)] /\ pc[e] = "copy"
  BY DEF CopyWrite, WriteAll, Copying
<1>2. /\ InOrderOf(f) /\ Other(f) \in Ends /\ Other(e) \in Ends
      /\ Skipped(f) \in Nat /\ written[f] \in Nat /\ Delivered(f) \in Nat
      /\ Len(got[Other(f)]) \in Nat /\ out[Other(f)] \in Seq(Nat) /\ Len(out[Other(f)]) \in Nat
      /\ hold[f] \in Seq(Nat) /\ Len(hold[f]) \in Nat /\ Len(in[f]) \in Nat
  BY Sizes DEF IInv, Ordered, InOrderOf
<1>3. Skipped(f)' = Skipped(f) /\ Live(f)' = Live(f)
  BY <1>1 DEF Skipped, Live
<1>4. CASE f # e
  <2>1. Other(f) # Other(e)
    BY <1>4, Others
  <2>2. out'[Other(f)] = out[Other(f)] /\ hold'[f] = hold[f]
    BY <1>1, <1>2, <1>4, <2>1 DEF IInv, BuffersOK
  <2>3. Delivered(f)' = Delivered(f) /\ Held(f)' = Held(f)
    BY <1>1, <1>3, <2>2 DEF Delivered, Held, Other
  <2> QED BY <1>1, <1>2, <1>3, <2>2, <2>3, OrderFramed
<1>5. CASE f = e /\ peer[Other(e)] = "closed"
  <2>1. out' = out /\ ~Live(f)
    BY <1>1, <1>5 DEF Live
  <2>2. Delivered(f)' = Delivered(f)
    BY <1>1, <1>3, <2>1 DEF Delivered
  <2> QED
    BY <1>1, <1>2, <1>3, <2>1, <2>2
       DEF InOrderOf, ArrivedInOrder, HeldInOrder, WaitingInOrder, Counts
<1>6. CASE f = e /\ peer[Other(e)] # "closed"
  <2>1. Live(f)
    BY <1>1, <1>6 DEF Live
  <2>2. /\ out'[Other(f)] = Append(out[Other(f)], Head(hold[f])) /\ hold'[f] = Tail(hold[f])
    BY <1>1, <1>2, <1>6 DEF IInv, BuffersOK
  <2>3. /\ Counts(hold[f], Delivered(f)) /\ Held(f) <= written[f]
        /\ Held(f) = Delivered(f) + Len(hold[f])
        /\ Delivered(f) = Skipped(f) + Len(got[Other(f)]) + Len(out[Other(f)])
        /\ Counts(out[Other(f)], Skipped(f) + Len(got[Other(f)]))
        /\ Counts(got[Other(f)], Skipped(f)) /\ Len(in[f]) <= written[f]
    BY <1>2, <2>1 DEF InOrderOf, HeldInOrder, ArrivedInOrder, Held, Delivered
  <2>4. /\ Head(hold[f]) = Delivered(f) + 1
        /\ Counts(Tail(hold[f]), Delivered(f) + 1)
        /\ Len(Tail(hold[f])) = Len(hold[f]) - 1
    BY <1>1, <1>2, <1>6, <2>3, CountsTail
  <2>5. /\ Counts(Append(out[Other(f)], Head(hold[f])), Skipped(f) + Len(got[Other(f)]))
        /\ Len(Append(out[Other(f)], Head(hold[f]))) = Len(out[Other(f)]) + 1
    <3>1. /\ Skipped(f) + Len(got[Other(f)]) \in Nat /\ Head(hold[f]) \in Nat
          /\ Head(hold[f]) = (Skipped(f) + Len(got[Other(f)])) + Len(out[Other(f)]) + 1
      <4>1. Skipped(f) \in Nat /\ Len(got[Other(f)]) \in Nat /\ Delivered(f) \in Nat
        BY <1>2
      <4>2. Skipped(f) + Len(got[Other(f)]) \in Nat
        BY <4>1
      <4>3. Head(hold[f]) = Delivered(f) + 1
        BY <2>4
      <4>4. Head(hold[f]) \in Nat
        BY <4>1, <4>3
      <4>5. Delivered(f) = Skipped(f) + Len(got[Other(f)]) + Len(out[Other(f)])
        BY DEF Delivered
      <4> QED BY <4>2, <4>3, <4>4, <4>5
    <3> QED BY <1>2, <2>3, <3>1, CountsAppend
  <2>6. Delivered(f)' = Delivered(f) + 1
    <3>1. Delivered(f)' = Skipped(f)' + Len(got'[Other(f)]) + Len(out'[Other(f)])
      BY DEF Delivered, Other
    <3>2. /\ Len(got'[Other(f)]) = Len(got[Other(f)]) /\ Skipped(f)' = Skipped(f)
          /\ Len(out'[Other(f)]) = Len(out[Other(f)]) + 1
      BY <1>1, <1>3, <2>2, <2>5
    <3>3. \A a, b, c \in Nat : a + b + (c + 1) = a + b + c + 1
      OBVIOUS
    <3>4. Skipped(f) \in Nat /\ Len(got[Other(f)]) \in Nat /\ Len(out[Other(f)]) \in Nat
      BY <1>2
    <3>5. Delivered(f) = Skipped(f) + Len(got[Other(f)]) + Len(out[Other(f)])
      BY DEF Delivered
    <3>6. Delivered(f)' = Skipped(f) + Len(got[Other(f)]) + (Len(out[Other(f)]) + 1)
      BY <3>1, <3>2
    <3>7. Skipped(f) + Len(got[Other(f)]) + (Len(out[Other(f)]) + 1) = Delivered(f) + 1
      BY <3>3, <3>4, <3>5
    <3> QED BY <3>6, <3>7
  <2>7. Held(f)' = Held(f)
    <3>1. Held(f)' = Delivered(f)' + Len(hold'[f])
      BY DEF Held
    <3> QED BY <1>2, <2>2, <2>3, <2>4, <2>6, <3>1
  <2>8. Len(hold[f]) > 0
    BY <1>1, <1>2, <1>6, EmptySeq
  <2>9. ArrivedInOrder(f)'
    <3>1. Delivered(f) + 1 <= written[f]
      BY <1>2, <2>3, <2>8
    <3>2. Counts(got'[Other(f)], Skipped(f)')
      BY <1>1, <1>3, <2>3
    <3>3. Counts(out'[Other(f)], Skipped(f)' + Len(got'[Other(f)]))
      BY <1>1, <1>3, <2>2, <2>5
    <3> QED BY <1>1, <2>3, <2>6, <3>1, <3>2, <3>3 DEF ArrivedInOrder, Other, Counts
  <2>10. HeldInOrder(f)'
    <3>1. Counts(hold'[f], Delivered(f)')
      BY <2>2, <2>4, <2>6
    <3> QED BY <1>1, <2>3, <2>7, <3>1 DEF HeldInOrder, Counts
  <2>11. WaitingInOrder(f)'
    BY <1>1, <1>2, <1>3, <2>7 DEF InOrderOf, WaitingInOrder, Counts
  <2> QED BY <2>9, <2>10, <2>11 DEF InOrderOf
<1> QED BY <1>5, <1>6, <1>4

\* A direction that stops copying promises no more than what has arrived.
LEMMA StopsOrder ==
    ASSUME IInv, NEW e \in Ends, WriteFails(e) \/ CopyEnds(e), NEW f \in Ends
    PROVE  InOrderOf(f)'
<1>1. /\ UNCHANGED <<written, in, ahead, out, got, peer, closed>>
      /\ pc' = [pc EXCEPT ![e] = "source"]
      /\ hold' = hold \/ hold' = [hold EXCEPT ![e] = <<>>]
  BY DEF WriteFails, CopyEnds
<1>2. InOrderOf(f)
  BY DEF IInv, Ordered, InOrderOf
<1>3. Skipped(f)' = Skipped(f) /\ Delivered(f)' = Delivered(f)
  BY <1>1 DEF Skipped, Delivered
<1>4. CASE f # e
  <2>1. hold'[f] = hold[f] /\ pc'[f] = pc[f]
    BY <1>1, <1>4 DEF IInv, BuffersOK
  <2>2. Live(f)' = Live(f) /\ Held(f)' = Held(f)
    BY <1>1, <1>3, <2>1 DEF Live, Held
  <2> QED BY <1>1, <1>2, <1>3, <2>1, <2>2, OrderFramed
<1>5. CASE f = e
  <2>1. pc'[f] = "source"
    BY <1>1, <1>5 DEF IInv, BuffersOK
  <2>2. ~Live(f)'
    BY <2>1 DEF Live
  <2> QED
    BY <1>1, <1>2, <1>3, <2>2
       DEF InOrderOf, ArrivedInOrder, HeldInOrder, WaitingInOrder, Counts
<1> QED BY <1>4, <1>5

\* A connection that the agent closes drops what waits from its end, and keeps a
\* beginning of what is on its way to it.
LEMMA CloseOrder ==
    ASSUME IInv, NEW e \in Ends, Close(e), NEW f \in Ends,
           UNCHANGED <<written, ahead, hold, got, peer>>,
           pc'[f] \in {"none", "copy"} => pc[f] \in {"none", "copy"}
    PROVE  InOrderOf(f)'
<1>1. PICK k \in 0..Len(out[e]) : out' = [out EXCEPT ![e] = SubSeq(out[e], 1, k)]
  BY CloseCuts DEF IInv
<1>2. closed' = [closed EXCEPT ![e] = TRUE] /\ in' = [in EXCEPT ![e] = <<>>]
  BY DEF Close
<1>3. /\ InOrderOf(f) /\ Other(f) \in Ends /\ Other(f) # f /\ Skipped(f) \in Nat
      /\ Len(got[Other(f)]) \in Nat /\ out[Other(f)] \in Seq(Nat) /\ Len(out[Other(f)]) \in Nat
      /\ written[f] \in Nat /\ Len(in[f]) \in Nat
  BY Sizes, Others DEF IInv, Ordered, InOrderOf
<1>4. Skipped(f)' = Skipped(f)
  BY DEF Skipped
<1>5. CASE f = e
  <2>1. /\ out'[Other(f)] = out[Other(f)] /\ closed'[f] /\ in'[f] = <<>>
        /\ closed'[Other(f)] = closed[Other(f)]
    BY <1>1, <1>2, <1>3, <1>5 DEF IInv, TypeOK, BuffersOK
  <2>2. Delivered(f)' = Delivered(f)
    BY <1>4, <2>1 DEF Delivered, Other
  <2>3. Held(f)' = Held(f)
    BY <2>2 DEF Held
  <2>4. Live(f)' => Live(f)
    BY <2>1 DEF Live, Other
  <2>5. Len(in'[f]) = 0
    BY <2>1
  <2>6. ArrivedInOrder(f)'
    BY <1>3, <1>4, <2>1, <2>2, <2>5 DEF InOrderOf, ArrivedInOrder, Counts, Other
  <2>7. HeldInOrder(f)' /\ WaitingInOrder(f)'
    BY <1>3, <2>1, <2>2, <2>3, <2>4 DEF InOrderOf, HeldInOrder, WaitingInOrder, Counts
  <2> QED BY <2>6, <2>7 DEF InOrderOf
<1>6. CASE f # e
  <2>1. Other(f) = e
    BY <1>6, Others
  <2>2. /\ out'[Other(f)] = SubSeq(out[Other(f)], 1, k) /\ closed'[Other(f)]
        /\ in'[f] = in[f]
    BY <1>1, <1>2, <1>3, <1>6, <2>1 DEF IInv, TypeOK, BuffersOK
  <2>3. ~Live(f)'
    BY <2>2 DEF Live, Other
  <2>4. /\ Counts(SubSeq(out[Other(f)], 1, k), Skipped(f) + Len(got[Other(f)]))
        /\ Len(SubSeq(out[Other(f)], 1, k)) = k /\ k \in 0..Len(out[Other(f)])
    <3>1. Counts(out[Other(f)], Skipped(f) + Len(got[Other(f)]))
      BY <1>3 DEF InOrderOf, ArrivedInOrder
    <3>2. Skipped(f) + Len(got[Other(f)]) \in Nat /\ k \in 0..Len(out[Other(f)])
      BY <1>1, <1>3, <2>1
    <3> QED BY <1>3, <3>1, <3>2, CountsFront
  <2>5. Delivered(f)' = Skipped(f) + Len(got[Other(f)]) + k
    <3>1. Delivered(f)' = Skipped(f)' + Len(got'[Other(f)]) + Len(out'[Other(f)])
      BY DEF Delivered, Other
    <3> QED BY <1>4, <2>2, <2>4, <3>1
  <2>6. Delivered(f)' <= written[f]
    BY <1>3, <2>4, <2>5 DEF InOrderOf, ArrivedInOrder, Delivered
  <2>7. Counts(out'[Other(f)], Skipped(f)' + Len(got'[Other(f)]))
    BY <1>4, <2>2, <2>4
  <2>8. ArrivedInOrder(f)'
    BY <1>3, <1>4, <2>2, <2>6, <2>7 DEF InOrderOf, ArrivedInOrder, Other, Counts
  <2> QED BY <2>3, <2>8 DEF InOrderOf, HeldInOrder, WaitingInOrder
<1> QED BY <1>5, <1>6

\* Every step keeps the order, one case for each action.
LEMMA OrderedStep == IInv /\ [Next]_vars => Ordered'
<1> SUFFICES ASSUME IInv, [Next]_vars, NEW f \in Ends PROVE InOrderOf(f)'
  BY DEF Ordered, InOrderOf
<1>1. CASE Connect
  BY <1>1, ConnectOrder
<1>2. CASE ReadAhead
  BY <1>2, ReadAheadOrder
<1>3. ASSUME NEW e \in Ends, Peer(e) PROVE InOrderOf(f)'
  BY <1>3, WritesOrder, ReadsOrder, ClosesOrder DEF Peer
<1>4. ASSUME NEW e \in Ends, Transfer(e) PROVE InOrderOf(f)'
  <2>1. CASE CopyRead(e)
    BY <2>1, CopyReadOrder
  <2>2. CASE CopyWrite(e)
    BY <2>2, CopyWriteOrder
  <2>3. CASE WriteFails(e) \/ CopyEnds(e)
    BY <2>3, StopsOrder
  <2>4. CASE CloseSource(e)
    <3>1. /\ Close(e) /\ pc' = [pc EXCEPT ![e] = "destination"]
          /\ UNCHANGED <<written, ahead, hold, got, peer>>
      BY <2>4 DEF CloseSource
    <3>2. pc'[f] \in {"none", "copy"} => pc[f] \in {"none", "copy"}
      BY <3>1 DEF IInv, BuffersOK
    <3> QED BY <3>1, <3>2, CloseOrder
  <2>5. CASE CloseDestination(e)
    <3>1. /\ Close(Other(e)) /\ pc' = [pc EXCEPT ![e] = "end"]
          /\ UNCHANGED <<written, ahead, hold, got, peer>>
      BY <2>5 DEF CloseDestination, CloseOther
    <3>2. pc'[f] \in {"none", "copy"} => pc[f] \in {"none", "copy"}
      BY <3>1 DEF IInv, BuffersOK
    <3> QED BY <3>1, <3>2, CloseOrder, Others
  <2> QED BY <1>4, <2>1, <2>2, <2>3, <2>4, <2>5 DEF Transfer
<1>5. CASE UNCHANGED vars
  <2>1. InOrderOf(f)
    BY DEF IInv, Ordered, InOrderOf
  <2> QED BY <1>5, <2>1, OrderKept DEF vars, Live
<1> QED BY <1>1, <1>2, <1>3, <1>4, <1>5 DEF Next

LEMMA Inductive == Spec => []IInv
<1>1. Init => IInv
  BY InitIInv
<1>2. IInv /\ [Next]_vars => IInv'
  BY TypeStep, FreshStep, OrderedStep DEF IInv
<1> QED BY <1>1, <1>2, PTL DEF Spec

\* The variables keep their types, the buffers their bounds, and goroutines run exactly
\* in a tunnel (handleConnect).
THEOREM TypeCorrect == Spec => []TypeOK
<1>1. IInv => TypeOK
  BY DEF IInv
<1> QED BY <1>1, Inductive, PTL

\* Two sequences that count on from the same number: the longer starts with the shorter.
LEMMA CountsPrefix ==
    ASSUME NEW s \in Seq(Nat), NEW t \in Seq(Nat), NEW n \in Nat,
           Counts(s, n), Counts(t, n), Len(s) <= Len(t)
    PROVE  IsPrefix(s, t) /\ (Len(s) = Len(t) => s = t)
<1>1. Len(s) \in Nat /\ Len(t) \in Nat
  OBVIOUS
<1>2. \A i \in 1..Len(s) : s[i] = n + i /\ t[i] = n + i
  BY <1>1 DEF Counts
<1>3. SubSeq(s, 1, Len(s)) = SubSeq(t, 1, Len(s))
  <2> DEFINE a == SubSeq(s, 1, Len(s))
             b == SubSeq(t, 1, Len(s))
  <2>1. /\ Counts(a, n) /\ Len(a) = Len(s) /\ a \in Seq(Nat)
    BY <1>1, CountsFront
  <2>2. /\ Counts(b, n) /\ Len(b) = Len(s) /\ b \in Seq(Nat)
    BY <1>1, CountsFront
  <2> HIDE DEF a, b
  <2>3. \A i \in 1..Len(s) : a[i] = b[i]
    BY <2>1, <2>2 DEF Counts
  <2>4. a = b
    BY <2>1, <2>2, <2>3, SeqEqual
  <2> QED BY <2>4 DEF a, b
<1>4. IsPrefix(s, t)
  BY <1>3 DEF IsPrefix
<1>5. Len(s) = Len(t) => s = t
  BY <1>2, SeqEqual
<1> QED BY <1>4, <1>5

\* What an end wrote into the tunnel counts on from what was skipped.
LEMMA Sources ==
    ASSUME TypeOK, BuffersOK, NEW e \in Ends, Delivered(e) <= written[e]
    PROVE  /\ Source(e) \in Seq(Nat) /\ Len(Source(e)) = written[e] - Skipped(e)
           /\ Counts(Source(e), Skipped(e)) /\ Skipped(e) <= written[e]
<1>1. /\ written[e] \in Nat /\ Skipped(e) \in Nat
      /\ Len(got[Other(e)]) \in Nat /\ Len(out[Other(e)]) \in Nat
  BY Sizes
<1>2. Skipped(e) <= written[e]
  BY <1>1 DEF Delivered
<1> DEFINE m == written[e] - Skipped(e)
<1>3. m \in Nat
  BY <1>1, <1>2
<1>4. Source(e) = [i \in 1..m |-> i + Skipped(e)]
  BY DEF Source, Skipped
<1> HIDE DEF m
<1>5. \A i \in 1..m : i + Skipped(e) \in Nat
  BY <1>1, <1>3
<1>6. Source(e) \in [1..m -> Nat]
  BY <1>4, <1>5
<1>7. Source(e) \in Seq(Nat) /\ Len(Source(e)) = m
  BY <1>3, <1>6
<1>8. Counts(Source(e), Skipped(e))
  <2>1. \A i \in 1..m : Source(e)[i] = Skipped(e) + i
    BY <1>1, <1>3, <1>4
  <2> QED BY <1>7, <2>1 DEF Counts
<1> QED BY <1>2, <1>7, <1>8 DEF m

\* What an end gets through the tunnel is a beginning of what the other wrote into it,
\* in order and without a gap, and nothing is lost while both directions are copied
\* (handleConnect and transfer).
THEOREM InOrderAlways == Spec => []InOrder
<1>1. IInv => InOrder
  <2> SUFFICES ASSUME IInv, NEW e \in Ends
               PROVE  LET arrived == got[Other(e)] \o out[Other(e)] IN
                      /\ IsPrefix(arrived, Source(e))
                      /\ (\A f \in Ends : pc[f] \in {"none", "copy"} /\ peer[f] # "closed"
                                             /\ ~closed[f])
                            => arrived \o hold[e] \o in[e] = Source(e)
    BY DEF InOrder
  <2> DEFINE arrived == got[Other(e)] \o out[Other(e)]
  <2>1. /\ Other(e) \in Ends /\ Skipped(e) \in Nat /\ written[e] \in Nat
        /\ Delivered(e) \in Nat /\ Held(e) \in Nat
        /\ got[Other(e)] \in Seq(Nat) /\ out[Other(e)] \in Seq(Nat)
        /\ hold[e] \in Seq(Nat) /\ in[e] \in Seq(Nat)
        /\ Len(got[Other(e)]) \in Nat /\ Len(out[Other(e)]) \in Nat
        /\ Len(hold[e]) \in Nat /\ Len(in[e]) \in Nat
    BY Sizes DEF IInv
  <2>2. ArrivedInOrder(e) /\ HeldInOrder(e) /\ WaitingInOrder(e)
    BY DEF IInv, Ordered
  <2>3. /\ Source(e) \in Seq(Nat) /\ Len(Source(e)) = written[e] - Skipped(e)
        /\ Counts(Source(e), Skipped(e))
    BY <2>2, Sources DEF IInv, ArrivedInOrder
  <2>4. /\ Counts(arrived, Skipped(e)) /\ arrived \in Seq(Nat)
        /\ Len(arrived) = Len(got[Other(e)]) + Len(out[Other(e)])
    BY <2>1, <2>2, CountsConcat DEF ArrivedInOrder
  <2> HIDE DEF arrived
  <2>5. Skipped(e) + Len(arrived) = Delivered(e) /\ Delivered(e) <= written[e]
    <3>1. Skipped(e) + Len(arrived) = Skipped(e) + Len(got[Other(e)]) + Len(out[Other(e)])
      <4>1. Skipped(e) \in Nat /\ Len(got[Other(e)]) \in Nat /\ Len(out[Other(e)]) \in Nat
        BY <2>1
      <4>2. Len(arrived) = Len(got[Other(e)]) + Len(out[Other(e)])
        BY <2>4
      <4> DEFINE k == Skipped(e)
                 g == Len(got[Other(e)])
                 o == Len(out[Other(e)])
      <4>3. k \in Nat /\ g \in Nat /\ o \in Nat /\ Len(arrived) = g + o
        BY <4>1, <4>2
      <4> HIDE DEF k, g, o
      <4>4. k + Len(arrived) = k + g + o
        BY <4>3
      <4> QED BY <4>4 DEF k, g, o
    <3> QED BY <2>2, <3>1 DEF Delivered, ArrivedInOrder
  <2> DEFINE a == Len(arrived)
             h == Len(hold[e])
             i == Len(in[e])
             k == Skipped(e)
             w == written[e]
  <2>6. a \in Nat /\ h \in Nat /\ i \in Nat /\ k \in Nat /\ w \in Nat
    <3>1. Len(arrived) \in Nat
      <4>1. arrived \in Seq(Nat)
        BY <2>4
      <4> QED BY <4>1
    <3> QED BY <2>1, <3>1
  <2>7. k + a = Delivered(e) /\ Delivered(e) <= w /\ Len(Source(e)) = w - k
    BY <2>3, <2>5
  <2>8. IsPrefix(arrived, Source(e))
    <3>1. Len(arrived) \in Nat /\ Len(arrived) <= Len(Source(e))
      <4>1. k + a <= w /\ Len(Source(e)) = w - k
        BY <2>7
      <4> HIDE DEF a, k, w
      <4>2. a \in Nat /\ a <= w - k
        BY <2>6, <4>1
      <4> QED BY <4>1, <4>2 DEF a
    <3> QED BY <2>1, <2>3, <2>4, <3>1, CountsPrefix
  <2>9. ASSUME \A f \in Ends : pc[f] \in {"none", "copy"} /\ peer[f] # "closed" /\ ~closed[f]
        PROVE  arrived \o hold[e] \o in[e] = Source(e)
    <3>1. Live(e) /\ ~closed[e] /\ peer[e] # "closed"
      BY <2>1, <2>9 DEF Live
    <3>2. /\ Counts(hold[e], Delivered(e)) /\ Counts(in[e], Held(e))
          /\ Held(e) + Len(in[e]) = written[e] /\ Held(e) = Delivered(e) + Len(hold[e])
      BY <2>2, <3>1 DEF HeldInOrder, WaitingInOrder, Held
    <3> DEFINE sent == arrived \o hold[e]
    <3>3. /\ Counts(sent, Skipped(e)) /\ sent \in Seq(Nat)
          /\ Len(sent) = Len(arrived) + Len(hold[e])
      <4>1. Counts(hold[e], Skipped(e) + Len(arrived))
        BY <2>5, <3>2
      <4> QED BY <2>1, <2>4, <4>1, CountsConcat
    <3> HIDE DEF sent
    <3>4. /\ Counts(sent \o in[e], Skipped(e)) /\ sent \o in[e] \in Seq(Nat)
          /\ Len(sent \o in[e]) = Len(sent) + Len(in[e])
      <4>1. Skipped(e) + Len(sent) = Held(e)
        <5>1. Len(sent) = a + h /\ Held(e) = (k + a) + h
          BY <2>7, <3>2, <3>3
        <5> HIDE DEF a, h, k
        <5>2. k + (a + h) = (k + a) + h
          BY <2>6
        <5> QED BY <5>1, <5>2 DEF k
      <4>2. Counts(in[e], Skipped(e) + Len(sent))
        BY <3>2, <4>1
      <4> QED BY <2>1, <3>3, <4>2, CountsConcat
    <3>5. Len(sent \o in[e]) = Len(Source(e))
      <4>1. /\ Len(sent \o in[e]) = (a + h) + i /\ Len(Source(e)) = w - k
            /\ ((k + a) + h) + i = w
        BY <2>7, <3>2, <3>3, <3>4
      <4> HIDE DEF a, h, i, k, w
      <4>2. (a + h) + i = w - k
        BY <2>6, <4>1
      <4> QED BY <4>1, <4>2
    <3> DEFINE all == sent \o in[e]
    <3>6. all \in Seq(Nat) /\ Counts(all, k) /\ Len(all) = Len(Source(e))
      BY <3>4, <3>5
    <3> HIDE DEF all
    <3>7. Len(all) \in Nat /\ Len(all) <= Len(Source(e))
      BY <3>6
    <3>8. all = Source(e)
      BY <2>1, <2>3, <3>6, <3>7, CountsPrefix
    <3> QED BY <3>8 DEF all, sent
  <2> QED BY <2>8, <2>9 DEF arrived
<1> QED BY <1>1, Inductive, PTL
=============================================================================
