----------------------------- MODULE WebTunnel ------------------------------
(***************************************************************************)
(* One CONNECT request to the webproxy-agent: authorised or not, dialled   *)
(* or not, and then the tunnel: a connection to the client, one to the     *)
(* server, and a goroutine for each direction that copies until the end of *)
(* its source and closes both.                                             *)
(***************************************************************************)
EXTENDS Naturals, Sequences, SequencesExt

CONSTANTS
    MaxBytes, \* bound: bytes that an end writes
    Window    \* bytes on their way to an end before a write blocks

ASSUME TunnelAssumption == MaxBytes \in Nat /\ Window \in Nat \ {0}

Ends == {"client", "server"}
Other(e) == IF e = "client" THEN "server" ELSE "client"

VARIABLES
    phase,   \* "asked", "dialing", "refused", "answered" (200 is sent) or "tunnel"
    peer,    \* an end is "open", has "shut" its writing, or is "closed"
    written, \* bytes that an end wrote into the tunnel; they are numbered
    in,      \* those of them that wait to be read
    ahead,   \* bytes that the HTTP server read before it gave the connection away
    pc,      \* transfer with this source: "none", "copy", "source", "destination" (about
             \* to close it) or "end"
    hold,    \* its buffer
    out,     \* bytes on their way to an end
    got,     \* bytes that an end has read
    closed   \* the agent has closed its connection to an end

vars == <<phase, peer, written, in, ahead, pc, hold, out, got, closed>>

Init ==
    /\ phase = "asked"
    /\ peer = [e \in Ends |-> "open"]
    /\ written = [e \in Ends |-> 0]
    /\ pc = [e \in Ends |-> "none"]
    /\ closed = [e \in Ends |-> FALSE]
    /\ ahead = <<>>
    /\ in = [e \in Ends |-> <<>>]
    /\ hold = [e \in Ends |-> <<>>]
    /\ out = [e \in Ends |-> <<>>]
    /\ got = [e \in Ends |-> <<>>]

-----------------------------------------------------------------------------
(* The client and the server. *)

Connected(e) == phase \in {"answered", "tunnel"} /\ peer[e] # "closed"

PeerWrites(e) ==
    /\ Connected(e) /\ peer[e] = "open"
    /\ written[e] < MaxBytes
    /\ Len(in[e]) < Window
    /\ written' = [written EXCEPT ![e] = @ + 1]
    /\ in' = IF closed[e] THEN in ELSE [in EXCEPT ![e] = Append(@, written'[e])]
    /\ UNCHANGED <<phase, peer, ahead, pc, hold, out, got, closed>>

PeerReads(e) ==
    /\ Connected(e)
    /\ out[e] # <<>>
    /\ got' = [got EXCEPT ![e] = @ \o out[e]]
    /\ out' = [out EXCEPT ![e] = <<>>]
    /\ UNCHANGED <<phase, peer, written, in, ahead, pc, hold, closed>>

PeerShuts(e) ==
    /\ Connected(e) /\ peer[e] = "open"
    /\ peer' = [peer EXCEPT ![e] = "shut"]
    /\ UNCHANGED <<phase, written, in, ahead, pc, hold, out, got, closed>>

\* An end that closes with bytes to read resets the connection.
PeerCloses(e) ==
    /\ Connected(e)
    /\ peer' = [peer EXCEPT ![e] = "closed"]
    /\ \E rest \in IF out[e] = <<>> THEN {in[e]} ELSE {in[e], <<>>} :
          in' = [in EXCEPT ![e] = rest]
    /\ out' = [out EXCEPT ![e] = <<>>]
    /\ UNCHANGED <<phase, written, ahead, pc, hold, got, closed>>

-----------------------------------------------------------------------------
(* handleProxy and handleConnect. *)

Authorize ==
    /\ phase = "asked"
    /\ phase' \in {"dialing", "refused"}
    /\ UNCHANGED <<peer, written, in, ahead, pc, hold, out, got, closed>>

Dial ==
    /\ phase = "dialing"
    /\ phase' \in {"answered", "refused"}
    /\ UNCHANGED <<peer, written, in, ahead, pc, hold, out, got, closed>>

\* Until Hijack stops it, the HTTP server reads ahead a byte. It ends in the reader that
\* Hijack returns and handleConnect drops.
ReadAhead ==
    /\ phase = "answered"
    /\ ahead = <<>> /\ in["client"] # <<>>
    /\ ahead' = <<Head(in["client"])>>
    /\ in' = [in EXCEPT !["client"] = Tail(@)]
    /\ UNCHANGED <<phase, peer, written, pc, hold, out, got, closed>>

\* One direction only, for a mutant, and both.
StartedOne == [client |-> "copy", server |-> "none"]
Started == [e \in Ends |-> "copy"]

Hijack ==
    /\ phase = "answered"
    /\ phase' = "tunnel"
    /\ pc' = Started
    /\ UNCHANGED <<peer, written, in, ahead, hold, out, got, closed>>

-----------------------------------------------------------------------------
(* transfer, whose source is e. *)

Copying(e) == pc[e] = "copy"

CopyRead(e) ==
    /\ Copying(e) /\ hold[e] = <<>>
    /\ ~closed[e] /\ in[e] # <<>>
    /\ \E n \in 1..Len(in[e]) :
          /\ hold' = [hold EXCEPT ![e] = SubSeq(in[e], 1, n)]
          /\ in' = [in EXCEPT ![e] = SubSeq(@, n + 1, Len(@))]
    /\ UNCHANGED <<phase, peer, written, ahead, pc, out, got, closed>>

\* One write for each read, whatever it takes (for a mutant), and until all is written.
WriteOnce(e) == <<>>
WriteAll(e) == Tail(hold[e])

CopyWrite(e) ==
    /\ Copying(e) /\ hold[e] # <<>>
    /\ ~closed[Other(e)] /\ Len(out[Other(e)]) < Window
    /\ out' = IF peer[Other(e)] = "closed" THEN out
              ELSE [out EXCEPT ![Other(e)] = Append(@, Head(hold[e]))]
    /\ hold' = [hold EXCEPT ![e] = WriteAll(e)]
    /\ UNCHANGED <<phase, peer, written, in, ahead, pc, got, closed>>

WriteFails(e) ==
    /\ Copying(e) /\ hold[e] # <<>>
    /\ closed[Other(e)] \/ peer[Other(e)] = "closed"
    /\ hold' = [hold EXCEPT ![e] = <<>>]
    /\ pc' = [pc EXCEPT ![e] = "source"]
    /\ UNCHANGED <<phase, peer, written, in, ahead, out, got, closed>>

\* The end that is seen before the last bytes: for a mutant.
AtEndEarly(e) == closed[e] \/ peer[e] # "open"

\* The end of file, or an error of a connection that the other goroutine has closed.
AtEnd(e) == closed[e] \/ (in[e] = <<>> /\ peer[e] # "open")

CopyEnds(e) ==
    /\ Copying(e) /\ hold[e] = <<>>
    /\ AtEnd(e)
    /\ pc' = [pc EXCEPT ![e] = "source"]
    /\ UNCHANGED <<phase, peer, written, in, ahead, hold, out, got, closed>>

\* A connection that is closed with bytes to read is reset: what is on its way to its
\* end may be lost.
Close(e) ==
    /\ closed' = [closed EXCEPT ![e] = TRUE]
    /\ in' = [in EXCEPT ![e] = <<>>]
    /\ \E rest \in IF in[e] = <<>> THEN {out[e]} ELSE Prefixes(out[e]) :
          out' = [out EXCEPT ![e] = rest]

CloseSource(e) ==
    /\ pc[e] = "source"
    /\ pc' = [pc EXCEPT ![e] = "destination"]
    /\ Close(e)
    /\ UNCHANGED <<phase, peer, written, ahead, hold, got>>

\* The destination stays open: for a mutant.
CloseNothing(e) == UNCHANGED <<closed, in, out>>
CloseOther(e) == Close(Other(e))

CloseDestination(e) ==
    /\ pc[e] = "destination"
    /\ pc' = [pc EXCEPT ![e] = "end"]
    /\ CloseOther(e)
    /\ UNCHANGED <<phase, peer, written, ahead, hold, got>>

Transfer(e) ==
    CopyRead(e) \/ CopyWrite(e) \/ WriteFails(e) \/ CopyEnds(e)
        \/ CloseSource(e) \/ CloseDestination(e)

Peer(e) == PeerWrites(e) \/ PeerReads(e) \/ PeerShuts(e) \/ PeerCloses(e)
Connect == Authorize \/ Dial \/ Hijack
Next == Connect \/ ReadAhead \/ \E e \in Ends : Peer(e) \/ Transfer(e)

Spec == Init /\ [][Next]_vars

\* The goroutines are scheduled, and an end reads what comes.
FairSpec ==
    /\ Spec
    /\ WF_vars(Connect)
    /\ \A e \in Ends : WF_vars(Transfer(e)) /\ WF_vars(PeerReads(e))

-----------------------------------------------------------------------------
(* Properties. *)

\* What an end wrote and the HTTP server did not read ahead.
Source(e) ==
    [i \in 1..(written[e] - (IF e = "client" THEN Len(ahead) ELSE 0)) |->
        i + (IF e = "client" THEN Len(ahead) ELSE 0)]

\* The variables have their types, buffers hold what they can, and goroutines run in a
\* tunnel only.
TypeOK ==
    /\ phase \in {"asked", "dialing", "refused", "answered", "tunnel"}
    /\ peer \in [Ends -> {"open", "shut", "closed"}]
    /\ written \in [Ends -> 0..MaxBytes]
    /\ closed \in [Ends -> BOOLEAN]
    /\ \A e \in Ends : Len(in[e]) <= Window /\ Len(out[e]) <= Window
    /\ \A e \in Ends : pc[e] # "none" <=> phase = "tunnel"

\* What an end gets is the beginning of what the other wrote, in its order, once and
\* without a gap, but for a byte that was read ahead; and as long as both directions
\* are copied every byte is somewhere.
InOrder ==
    \A e \in Ends :
        LET arrived == got[Other(e)] \o out[Other(e)] IN
        /\ IsPrefix(arrived, Source(e))
        /\ (\A f \in Ends : pc[f] \in {"none", "copy"} /\ peer[f] # "closed" /\ ~closed[f])
              => arrived \o hold[e] \o in[e] = Source(e)

\* While both ends stay, what one writes the other gets, also when both write at once.
\* Only of the client's bytes one may be missing, if the HTTP server has read it ahead.
BytesArrive ==
    \A e \in Ends : \A n \in 1..MaxBytes :
        written[e] >= n ~> \/ Len(got[Other(e)]) + (IF e = "client" THEN Len(ahead) ELSE 0) >= n
                           \/ \E f \in Ends : peer[f] # "open"

\* An end that has written all it will and shuts its writing has all of it delivered,
\* as long as the other writes nothing and stays.
LastBytesArrive ==
    \A e \in Ends :
        peer[e] = "shut" ~> \/ got[Other(e)] = Source(e)
                            \/ written[Other(e)] > 0
                            \/ peer[Other(e)] # "open" \/ peer[e] = "closed"

\* A tunnel that one end leaves comes down: both goroutines end and both connections
\* are closed.
TunnelEnds ==
    \A e \in Ends :
        phase = "tunnel" /\ peer[e] # "open" ~> \A f \in Ends : pc[f] = "end" /\ closed[f]
=============================================================================
