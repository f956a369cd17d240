-------------------------------- MODULE Mitm --------------------------------
(***************************************************************************)
(* mitmHandler.Handle (internal/proxy/mitm.go:40-145): the life of one     *)
(* intercepted connection, from CONNECT to the return of the handler, with *)
(* the client and the upstream as actors of their own.  Connections share  *)
(* only the leaf cache (LeafCache) and read-only configuration, so one     *)
(* connection is enough.                                                   *)
(*                                                                         *)
(* The four directions of the two TLS connections are the sequences of     *)
(* everything ever written to them; got and read say how far the handler   *)
(* has read.  Request and reply bodies travel with their heads.            *)
(***************************************************************************)
EXTENDS Naturals, Sequences

CONSTANTS
    Token,        \* the credential of this host
    Own,          \* an Authorization value of the client's own
    MaxRequests   \* bound on the requests of a connection

ASSUME MitmAssumption ==
    /\ Token # Own
    /\ MaxRequests \in Nat

VARIABLES
    pc,        \* where the handler is
    status,    \* the reply to CONNECT
    client,    \* the client's side of the connection is open
    upstream,  \* the upstream's side of the connection is open
    sent,      \* requests the client has sent
    got,       \* how many of them the handler has read
    fwd,       \* requests written to the upstream
    answered,  \* how many of them the upstream has answered
    replies,   \* replies the upstream has sent
    read,      \* how many of them the handler has read
    out        \* replies written to the client

peers == <<client, upstream>>
requests == <<sent, got, fwd>>
responses == <<answered, replies, read, out>>
vars == <<pc, status, peers, requests, responses>>

Requests == [auth : SUBSET {Own}, close : BOOLEAN]
Forwarded == [auth : SUBSET {Own, Token}, close : BOOLEAN]
Kinds == {"interim", "final", "cut", "malformed"}
Replies == [to : Nat \ {0}, kind : Kinds, close : BOOLEAN]

Init ==
    /\ pc = "leafCert"
    /\ status = "none"
    /\ client = TRUE
    /\ upstream = FALSE
    /\ sent = <<>>
    /\ got = 0
    /\ fwd = <<>>
    /\ answered = 0
    /\ replies = <<>>
    /\ read = 0
    /\ out = <<>>

Goto(from, to) == pc = from /\ pc' = to

-----------------------------------------------------------------------------
(* Setting the connection up.  Every step may fail: the handler returns,   *)
(* and its deferred Closes take the connections down.  Only the first can  *)
(* still tell the client why.                                              *)

SetUpPhases == {"leafCert", "hijack", "ack", "clientTLS", "dial", "upstreamTLS"}

NextPhase ==
    [leafCert |-> "hijack", hijack |-> "ack", ack |-> "clientTLS",
     clientTLS |-> "dial", dial |-> "upstreamTLS", upstreamTLS |-> "readReq"]

SetUp ==
    /\ pc \in SetUpPhases
    /\ pc' = NextPhase[pc]
    /\ status' = IF pc = "ack" THEN "200" ELSE status
    /\ upstream' = (pc = "upstreamTLS")
    /\ UNCHANGED <<client, requests, responses>>

SetUpFails ==
    /\ pc \in SetUpPhases
    /\ pc' = "returned"
    /\ status' = IF pc = "leafCert" THEN "500" ELSE status
    /\ UNCHANGED <<peers, requests, responses>>

-----------------------------------------------------------------------------
(* The request-response loop.  Operators named for what they get wrong are *)
(* no part of Next.                                                        *)

ReadRequestUnchecked ==
    /\ Goto("readReq", "writeReq")
    /\ got' = got + 1
    /\ UNCHANGED <<status, peers, sent, fwd, responses>>

ReadRequest ==
    /\ Goto("readReq", "writeReq")
    /\ got < Len(sent)
    /\ got' = got + 1
    /\ UNCHANGED <<status, peers, sent, fwd, responses>>

\* What has come is no request, or the client is gone, read to the end or not.
ReadRequestFails ==
    /\ Goto("readReq", "returned")
    /\ got < Len(sent) \/ ~ client
    /\ UNCHANGED <<status, peers, requests, responses>>

AddBearer(r) == [auth |-> r.auth \union {Token}, close |-> r.close]

\* injectBearer: Header.Set replaces whatever the client sent.
InjectBearer(r) == [auth |-> {Token}, close |-> r.close]

WriteRequest ==
    /\ Goto("writeReq", "readResp")
    /\ fwd' = Append(fwd, InjectBearer(sent[got]))
    /\ UNCHANGED <<status, peers, sent, got, responses>>

\* The upstream is gone, or the client goes while its body is being copied.
WriteRequestFails ==
    /\ Goto("writeReq", "returned")
    /\ ~ client \/ ~ upstream
    /\ UNCHANGED <<status, peers, requests, responses>>

Malformed == read < Len(replies) /\ replies[read + 1].kind = "malformed"

ReadResponse ==
    /\ Goto("readResp", "writeResp")
    /\ read < Len(replies)
    /\ ~ Malformed
    /\ read' = read + 1
    /\ UNCHANGED <<status, peers, requests, answered, replies, out>>

ReadResponseGoesOn ==
    /\ Goto("readResp", "readReq")
    /\ Malformed \/ ~ upstream
    /\ UNCHANGED <<status, peers, requests, responses>>

\* The same of a reply.
ReadResponseFails ==
    /\ Goto("readResp", "returned")
    /\ Malformed \/ ~ upstream
    /\ UNCHANGED <<status, peers, requests, responses>>

MustClose == sent[got].close \/ replies[read].close

WriteResponseKeepAlive ==
    /\ Goto("writeResp", IF sent[got].close THEN "returned" ELSE "readReq")
    /\ replies[read].kind # "cut"
    /\ out' = Append(out, replies[read])
    /\ UNCHANGED <<status, peers, requests, answered, replies, read>>

WriteResponseUnchecked ==
    /\ Goto("writeResp", IF MustClose THEN "returned" ELSE "readReq")
    /\ out' = Append(out, replies[read])
    /\ UNCHANGED <<status, peers, requests, answered, replies, read>>

WriteResponseAfterClose ==
    /\ Goto("writeResp", IF MustClose THEN "returned" ELSE "readReq")
    /\ replies[read].kind # "cut"
    /\ out' = IF MustClose THEN out ELSE Append(out, replies[read])
    /\ UNCHANGED <<status, peers, requests, answered, replies, read>>

WriteResponse ==
    /\ Goto("writeResp", IF MustClose THEN "returned" ELSE "readReq")
    /\ replies[read].kind # "cut"
    /\ out' = Append(out, replies[read])
    /\ UNCHANGED <<status, peers, requests, answered, replies, read>>

\* The client is gone, or the reply's body ends early.
WriteResponseFails ==
    /\ Goto("writeResp", "returned")
    /\ ~ client \/ replies[read].kind = "cut"
    /\ UNCHANGED <<status, peers, requests, responses>>

-----------------------------------------------------------------------------
(* The client and the upstream, external.  The client may send requests    *)
(* without waiting for replies, and none after one that asks to close.     *)

Secured == pc \notin {"leafCert", "hijack", "ack", "clientTLS", "returned"}

ClientSends ==
    /\ Secured /\ client
    /\ Len(sent) < MaxRequests
    /\ sent # <<>> => ~ sent[Len(sent)].close
    /\ \E r \in Requests : sent' = Append(sent, r)
    /\ UNCHANGED <<pc, status, peers, got, fwd, responses>>

ClientLeaves ==
    /\ client
    /\ client' = FALSE
    /\ UNCHANGED <<pc, status, upstream, requests, responses>>

\* The upstream answers requests in order; after Connection: close it leaves.
Reply(kind, close) ==
    /\ upstream
    /\ answered < Len(fwd)
    /\ replies' = Append(replies, [to |-> answered + 1, kind |-> kind, close |-> close])
    /\ UNCHANGED <<pc, status, client, requests, read, out>>

UpstreamAnswers ==
    \E close \in BOOLEAN :
        /\ Reply("final", close)
        /\ answered' = answered + 1
        /\ upstream' = ~ close

UpstreamCutsShort ==
    /\ Reply("cut", FALSE)
    /\ UNCHANGED answered
    /\ upstream' = FALSE

\* One 100 or 103 per request is enough to matter.
UpstreamInterim ==
    /\ \A i \in DOMAIN replies : replies[i].to # answered + 1
    /\ Reply("interim", FALSE)
    /\ UNCHANGED <<answered, upstream>>

\* It takes what it sends for an answer.
UpstreamGarbles ==
    /\ Reply("malformed", FALSE)
    /\ answered' = answered + 1
    /\ UNCHANGED upstream

UpstreamLeaves ==
    /\ upstream
    /\ upstream' = FALSE
    /\ UNCHANGED <<pc, status, client, requests, responses>>

-----------------------------------------------------------------------------

Handle ==
    \/ SetUp \/ SetUpFails
    \/ ReadRequest \/ ReadRequestFails
    \/ WriteRequest \/ WriteRequestFails
    \/ ReadResponse \/ ReadResponseFails
    \/ WriteResponse \/ WriteResponseFails

Environment ==
    \/ ClientSends \/ ClientLeaves
    \/ UpstreamAnswers \/ UpstreamCutsShort \/ UpstreamInterim
    \/ UpstreamGarbles \/ UpstreamLeaves

\* The handler has returned.
Returned ==
    /\ pc = "returned"
    /\ UNCHANGED vars

Next == Handle \/ Environment \/ Returned

\* The handler's goroutine runs whenever it can, and an upstream that stays
\* answers.  The client owes nothing.
Spec == Init /\ [][Next]_vars /\ WF_vars(Handle) /\ WF_vars(UpstreamAnswers)

-----------------------------------------------------------------------------
(* Properties *)

LoopPhases == {"readReq", "writeReq", "readResp", "writeResp"}

\* Types of the variables; what is forwarded carries the token.
TypeOK ==
    /\ pc \in SetUpPhases \union LoopPhases \union {"returned"}
    /\ status \in {"none", "200", "500"}
    /\ client \in BOOLEAN
    /\ upstream \in BOOLEAN
    /\ sent \in Seq(Requests)
    /\ got \in 0 .. Len(sent)
    /\ fwd \in Seq(Forwarded)
    /\ answered \in 0 .. Len(fwd)
    /\ replies \in Seq(Replies)
    /\ read \in 0 .. Len(replies)
    /\ out \in Seq(Replies)

\* mitm.go:39, 109-110: the upstream gets the client's requests, each once,
\* in order, and each with the token as its only Authorization value.
ForwardedInOrder ==
    /\ Len(fwd) <= Len(sent)
    /\ \A i \in 1 .. Len(fwd) : fwd[i] = [auth |-> {Token}, close |-> sent[i].close]

\* The upstream has sent no 1xx reply so far.
OnlyFinal == \A i \in 1 .. Len(replies) : replies[i].kind # "interim"

\* mitm.go:100-138: the k-th reply the client gets answers its k-th request,
\* though it may have sent several before the first reply.
AnswersMatch ==
    OnlyFinal => \A k \in 1 .. Len(out) : out[k].kind = "final" /\ out[k].to = k

Answered(i) == \E k \in 1 .. Len(out) : out[k].to = i /\ out[k].kind = "final"

\* mitm.go:127-144: the handler waits for the next request only when every
\* one it has read was forwarded and finally answered.
NothingLeftBehind ==
    pc = "readReq" /\ OnlyFinal => Len(fwd) = got /\ \A i \in 1 .. got : Answered(i)

\* mitm.go:140: after a reply that closes, or the reply to a request that
\* closes, the handler forwards nothing more, though requests may be waiting.
CloseHonoured ==
    \A k \in 1 .. Len(out) :
        out[k].close \/ sent[k].close => Len(fwd) = k /\ pc = "returned"

\* A peer has given the connection up, or sent what cannot be read.
PeerFailed ==
    ~ client \/ ~ upstream \/ \E i \in 1 .. Len(replies) : replies[i].kind = "malformed"

\* mitm.go:39, 96: a request the handler has read is answered, as long as
\* neither peer fails.
EveryRequestAnswered ==
    \A i \in 1 .. MaxRequests : got >= i ~> Answered(i) \/ PeerFailed

\* The same for an upstream that sends final replies only.
AnsweredUnlessInterim ==
    \A i \in 1 .. MaxRequests :
        got >= i ~> Answered(i) \/ PeerFailed \/ ~ OnlyFinal
=============================================================================
