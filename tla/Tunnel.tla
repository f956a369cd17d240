------------------------------- MODULE Tunnel -------------------------------
(***************************************************************************)
(* tunnelHandler.Handle and pipe (internal/proxy/tunnel.go:29-78): the     *)
(* handler, the two goroutines that copy one direction each, and the two   *)
(* peers.  Chunks of a direction are numbered in the order they were sent. *)
(***************************************************************************)
EXTENDS Naturals, Sequences

CONSTANTS
    MaxChunks,  \* bound on what a peer sends
    EarlyData   \* the client sends before it has read the reply to CONNECT

ASSUME TunnelAssumption ==
    /\ MaxChunks \in Nat
    /\ EarlyData \in BOOLEAN

VARIABLES
    pc,      \* where the handler is
    status,  \* the reply to CONNECT
    copier,  \* where the goroutine that copies each direction is
    sent,    \* how many chunks were sent in each direction
    taken,   \* how many of them the proxy has read
    rcvd,    \* the chunks delivered in each direction
    eof,     \* the directions the proxy has half-closed (CloseWrite)
    fin,     \* the peers that send no more
    gone     \* the peers that vanished, which read no more either

streams == <<sent, taken, rcvd, eof>>
peers == <<fin, gone>>
vars == <<pc, status, copier, streams, peers>>

Directions == {"up", "down"}
Peers == {"client", "upstream"}

\* Who sends in a direction, and who receives.
Src == [up |-> "client", down |-> "upstream"]
Dst == [up |-> "upstream", down |-> "client"]

Init ==
    /\ pc = "dial"
    /\ status = "none"
    /\ copier = [d \in Directions |-> "idle"]
    /\ sent = [d \in Directions |-> 0]
    /\ taken = [d \in Directions |-> 0]
    /\ rcvd = [d \in Directions |-> <<>>]
    /\ eof = {}
    /\ fin = {}
    /\ gone = {}

Goto(from, to) == pc = from /\ pc' = to

CopierGoto(d, from, to) ==
    /\ copier[d] = from
    /\ copier' = [copier EXCEPT ![d] = to]

-----------------------------------------------------------------------------
(* Handle *)

Dial ==
    /\ Goto("dial", "hijack")
    /\ UNCHANGED <<status, copier, streams, peers>>

DialFails ==
    /\ Goto("dial", "returned")
    /\ status' = "502"
    /\ UNCHANGED <<copier, streams, peers>>

\* hijackConn returns the buffered reader with what the HTTP server has read
\* ahead of the request, and Handle drops it.
Hijack ==
    /\ Goto("hijack", "ack")
    /\ \E n \in 0 .. sent["up"] : taken' = [taken EXCEPT !["up"] = n]
    /\ UNCHANGED <<status, copier, sent, rcvd, eof, peers>>

HijackFails ==
    /\ Goto("hijack", "returned")
    /\ UNCHANGED <<status, copier, streams, peers>>

Ack ==
    /\ Goto("ack", "pipe")
    /\ status' = "200"
    /\ copier' = [d \in Directions |-> "read"]
    /\ UNCHANGED <<streams, peers>>

AckFails ==
    /\ Goto("ack", "returned")
    /\ "client" \in gone
    /\ UNCHANGED <<status, copier, streams, peers>>

ReturnOnFirst ==
    /\ Goto("pipe", "returned")
    /\ \E d \in Directions : copier[d] = "done"
    /\ UNCHANGED <<status, copier, streams, peers>>

\* Both goroutines have reported; the deferred Closes end both connections.
Return ==
    /\ Goto("pipe", "returned")
    /\ \A d \in Directions : copier[d] = "done"
    /\ UNCHANGED <<status, copier, streams, peers>>

-----------------------------------------------------------------------------
(* copyHalf: io.Copy, then CloseWrite, then done.  Operators named for what *)
(* they get wrong are no part of Next.                                      *)

CopyReadUnchecked(d) ==
    /\ CopierGoto(d, "read", "write")
    /\ taken' = [taken EXCEPT ![d] = @ + 1]
    /\ UNCHANGED <<pc, status, sent, rcvd, eof, peers>>

CopyRead(d) ==
    /\ CopierGoto(d, "read", "write")
    /\ taken[d] < sent[d]
    /\ taken' = [taken EXCEPT ![d] = @ + 1]
    /\ UNCHANGED <<pc, status, sent, rcvd, eof, peers>>

\* End of stream, or an error that loses what was not read yet.
CopyEnds(d) ==
    /\ CopierGoto(d, "read", "close")
    /\ (taken[d] = sent[d] /\ Src[d] \in fin) \/ Src[d] \in gone
    /\ UNCHANGED <<pc, status, streams, peers>>

CopyWrite(d) ==
    /\ CopierGoto(d, "write", "read")
    /\ rcvd' = [rcvd EXCEPT ![d] = Append(@, taken[d])]
    /\ UNCHANGED <<pc, status, sent, taken, eof, peers>>

CopyWriteIgnoresError(d) ==
    /\ CopierGoto(d, "write", "read")
    /\ Dst[d] \in gone
    /\ UNCHANGED <<pc, status, streams, peers>>

CopyWriteFails(d) ==
    /\ CopierGoto(d, "write", "close")
    /\ Dst[d] \in gone
    /\ UNCHANGED <<pc, status, streams, peers>>

CopyJustStops(d) ==
    /\ CopierGoto(d, "close", "done")
    /\ UNCHANGED <<pc, status, streams, peers>>

CloseWrite(d) ==
    /\ CopierGoto(d, "close", "done")
    /\ eof' = eof \union {d}
    /\ UNCHANGED <<pc, status, sent, taken, rcvd, peers>>

Copy(d) ==
    CopyRead(d) \/ CopyEnds(d) \/ CopyWrite(d) \/ CopyWriteFails(d) \/ CloseWrite(d)

-----------------------------------------------------------------------------
(* The peers, external. *)

\* The client speaks first only after 200, unless it sends early; the
\* upstream once it is connected.
MaySend(p) ==
    /\ p \notin fin
    /\ IF p = "client" THEN status = "200" \/ (EarlyData /\ pc \in {"dial", "hijack"})
                       ELSE pc \in {"hijack", "ack", "pipe"}

Send(d) ==
    /\ MaySend(Src[d])
    /\ sent[d] < MaxChunks
    /\ sent' = [sent EXCEPT ![d] = @ + 1]
    /\ UNCHANGED <<pc, status, copier, taken, rcvd, eof, peers>>

Finish(p) ==
    /\ MaySend(p)
    /\ fin' = fin \union {p}
    /\ UNCHANGED <<pc, status, copier, streams, gone>>

Vanish(p) ==
    /\ p \notin gone
    /\ gone' = gone \union {p}
    /\ fin' = fin \union {p}
    /\ UNCHANGED <<pc, status, copier, streams>>

-----------------------------------------------------------------------------

SetUp == Dial \/ DialFails \/ Hijack \/ HijackFails \/ Ack \/ AckFails

Returned ==
    /\ pc = "returned"
    /\ UNCHANGED vars

Next ==
    \/ SetUp \/ Return \/ Returned
    \/ \E d \in Directions : (pc = "pipe" /\ Copy(d)) \/ Send(d)
    \/ \E p \in Peers : Finish(p) \/ Vanish(p)

\* A peer whose incoming direction has ended finishes its own: what the
\* half-close is for (tunnel.go:57-59).
FinishAfterEOF(d) == d \in eof /\ Finish(Dst[d])

\* Goroutines run when they can.  Peers read what they are sent (CopyWrite is
\* always enabled) and finish when told that nothing more will come.
Spec ==
    /\ Init /\ [][Next]_vars
    /\ WF_vars(SetUp) /\ WF_vars(Return)
    /\ \A d \in Directions :
        WF_vars(pc = "pipe" /\ Copy(d)) /\ WF_vars(FinishAfterEOF(d))

-----------------------------------------------------------------------------
(* Properties *)

\* Types of the variables.
TypeOK ==
    /\ pc \in {"dial", "hijack", "ack", "pipe", "returned"}
    /\ status \in {"none", "200", "502"}
    /\ copier \in [Directions -> {"idle", "read", "write", "close", "done"}]
    /\ sent \in [Directions -> 0 .. MaxChunks]
    /\ taken \in [Directions -> 0 .. MaxChunks]
    /\ \A d \in Directions : taken[d] <= sent[d]
    /\ rcvd \in [Directions -> Seq(1 .. MaxChunks)]
    /\ eof \subseteq Directions
    /\ fin \subseteq Peers
    /\ gone \subseteq fin

\* A peer vanished, or the handler gave up before there was a tunnel.
Broken == gone # {} \/ (pc = "returned" /\ status # "200")

Up == INSTANCE Relay WITH
    sent <- sent["up"], rcvd <- rcvd["up"],
    fin <- "client" \in fin, eof <- "up" \in eof, broken <- Broken

Down == INSTANCE Relay WITH
    sent <- sent["down"], rcvd <- rcvd["down"],
    fin <- "upstream" \in fin, eof <- "down" \in eof, broken <- Broken

\* tunnel.go:17, 57-59: each direction is a Relay.  Bytes arrive verbatim, and
\* all of them before the half-close, whichever direction ends first.  With
\* EarlyData it fails: what the client sent before the reply, and Hijack took,
\* is lost.
Relays == Up!Safe /\ Down!Safe

\* tunnel.go:57-73: while both peers are there, what was sent arrives and the
\* end of it too, though the other direction is silent, full of data or ended.
Delivers == Up!Live /\ Down!Live

\* tunnel.go:57-59, 75-77: when either peer finishes or vanishes, the other
\* learns of it and the handler returns.
Terminates ==
    \A p \in Peers : (pc = "pipe" /\ p \in fin) ~> pc = "returned"
=============================================================================
