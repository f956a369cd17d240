----------------------------- MODULE MitmProofs -----------------------------
(***************************************************************************)
(* Proofs about Mitm, for any number of requests.                          *)
(***************************************************************************)
EXTENDS Mitm, TLAPS

-----------------------------------------------------------------------------
(* The handler's place in the conversation.  ForwardInv holds whatever the *)
(* upstream sends.                                                         *)

ForwardInv ==
    /\ ForwardedInOrder
    /\ pc \in SetUpPhases => got = 0
    /\ pc \in SetUpPhases \union {"readReq", "readResp", "writeResp"} => Len(fwd) = got
    /\ pc = "writeReq" => got = Len(fwd) + 1
    /\ pc = "writeResp" => got > 0 /\ read > 0
    /\ pc = "readResp" => got > 0

BaseInv == TypeOK /\ ForwardInv

LEMMA InitBase == Init => BaseInv
<1> SUFFICES ASSUME Init PROVE BaseInv
  OBVIOUS
<1>1. Len(<<>>) = 0
  OBVIOUS
<1>2. TypeOK
  <2>1. client \in BOOLEAN /\ upstream \in BOOLEAN
    BY Zenon DEF Init
  <2>2. <<>> \in Seq(Requests) /\ <<>> \in Seq(Forwarded) /\ <<>> \in Seq(Replies)
    OBVIOUS
  <2>3. QED
    BY <1>1, <2>1, <2>2 DEF Init, TypeOK, SetUpPhases
<1>3. ForwardInv
  BY <1>1 DEF Init, ForwardInv, ForwardedInOrder, SetUpPhases
<1>4. QED
  BY <1>2, <1>3 DEF BaseInv

LEMMA TypeStep == BaseInv /\ [Next]_vars => TypeOK'
<1> SUFFICES ASSUME BaseInv, [Next]_vars PROVE TypeOK'
  OBVIOUS
<1> USE MitmAssumption
    DEF BaseInv, TypeOK, ForwardInv, SetUpPhases, LoopPhases, Goto, peers,
        requests, responses
<1>1. ASSUME SetUp PROVE TypeOK'
  <2>1. pc' \in SetUpPhases \union LoopPhases
    BY <1>1 DEF SetUp, NextPhase
  <2>2. upstream' \in BOOLEAN
    BY <1>1, Zenon DEF SetUp
  <2>3. QED
    BY <1>1, <2>1, <2>2 DEF SetUp
<1>2. ASSUME SetUpFails PROVE TypeOK'
  BY <1>2 DEF SetUpFails
<1>3. ASSUME ReadRequest PROVE TypeOK'
  BY <1>3 DEF ReadRequest
<1>4. ASSUME WriteRequest PROVE TypeOK'
  <2>1. got \in 1 .. Len(sent) /\ sent[got] \in Requests
    BY <1>4 DEF WriteRequest
  <2>2. InjectBearer(sent[got]) \in Forwarded
    BY <2>1 DEF InjectBearer, Requests, Forwarded
  <2>3. fwd' \in Seq(Forwarded) /\ Len(fwd') = Len(fwd) + 1
    BY <1>4, <2>2 DEF WriteRequest
  <2>4. QED
    BY <1>4, <2>3 DEF WriteRequest
<1>5. ASSUME ReadResponse PROVE TypeOK'
  BY <1>5 DEF ReadResponse
<1>6. ASSUME WriteResponse PROVE TypeOK'
  <2>1. read \in 1 .. Len(replies) /\ replies[read] \in Replies
    BY <1>6 DEF WriteResponse
  <2>2. out' \in Seq(Replies)
    BY <1>6, <2>1 DEF WriteResponse
  <2>3. QED
    BY <1>6, <2>2 DEF WriteResponse
<1>7. ASSUME \/ ReadRequestFails \/ WriteRequestFails \/ ReadResponseFails
             \/ WriteResponseFails
      PROVE  TypeOK'
  BY <1>7 DEF ReadRequestFails, WriteRequestFails, ReadResponseFails, WriteResponseFails
<1>8. ASSUME ClientSends PROVE TypeOK'
  <2>1. PICK r \in Requests : sent' = Append(sent, r)
    BY <1>8 DEF ClientSends
  <2>2. sent' \in Seq(Requests) /\ Len(sent') = Len(sent) + 1
    BY <2>1
  <2>3. QED
    BY <1>8, <2>2 DEF ClientSends
<1>9. ASSUME ClientLeaves \/ UpstreamLeaves PROVE TypeOK'
  BY <1>9 DEF ClientLeaves, UpstreamLeaves
<1>10. ASSUME NEW kind \in Kinds, NEW close \in BOOLEAN,
             Reply(kind, close)
      PROVE  replies' \in Seq(Replies) /\ Len(replies') = Len(replies) + 1
  <2>1. [to |-> answered + 1, kind |-> kind, close |-> close] \in Replies
    BY DEF Replies
  <2>2. QED
    BY <1>10, <2>1 DEF Reply
<1>11. ASSUME UpstreamAnswers \/ UpstreamGarbles PROVE TypeOK'
  <2>1. PICK kind \in Kinds, close \in BOOLEAN :
          Reply(kind, close) /\ answered' = answered + 1
    BY <1>11 DEF UpstreamAnswers, UpstreamGarbles, Kinds
  <2>2. upstream' \in BOOLEAN
    BY <1>11, Zenon DEF UpstreamAnswers, UpstreamGarbles
  <2>3. replies' \in Seq(Replies) /\ Len(replies') = Len(replies) + 1
    BY <1>10, <2>1, Zenon
  <2>4. QED
    BY <2>1, <2>2, <2>3 DEF Reply
<1>12. ASSUME UpstreamCutsShort PROVE TypeOK'
  <2>1. Reply("cut", FALSE) /\ UNCHANGED answered
    BY <1>12 DEF UpstreamCutsShort
  <2>2. upstream' \in BOOLEAN
    BY <1>12, Zenon DEF UpstreamCutsShort
  <2>3. replies' \in Seq(Replies) /\ Len(replies') = Len(replies) + 1
    BY <1>10, <2>1, Zenon DEF Kinds
  <2>4. QED
    BY <2>1, <2>2, <2>3 DEF Reply
<1>13. ASSUME UpstreamInterim PROVE TypeOK'
  <2>1. Reply("interim", FALSE) /\ UNCHANGED <<answered, upstream>>
    BY <1>13 DEF UpstreamInterim
  <2>2. replies' \in Seq(Replies) /\ Len(replies') = Len(replies) + 1
    BY <1>10, <2>1, Zenon DEF Kinds
  <2>3. QED
    BY <2>1, <2>2 DEF Reply
<1>14. CASE UNCHANGED vars
  BY <1>14 DEF vars
<1>15. QED
  BY <1>1, <1>2, <1>3, <1>4, <1>5, <1>6, <1>7, <1>8, <1>9, <1>11, <1>12, <1>13, <1>14
     DEF Next, Handle, Environment, Returned

\* The client only adds requests behind those the handler has read, and the
\* handler forwards the one it has just read.
LEMMA ForwardStep == BaseInv /\ [Next]_vars => ForwardInv'
<1> SUFFICES ASSUME BaseInv, [Next]_vars PROVE ForwardInv'
  OBVIOUS
<1> USE MitmAssumption
    DEF BaseInv, TypeOK, ForwardInv, ForwardedInOrder, SetUpPhases, LoopPhases,
        Goto, peers, requests, responses
<1>1. ASSUME SetUp \/ SetUpFails PROVE ForwardInv'
  BY <1>1 DEF SetUp, SetUpFails, NextPhase
<1>2. ASSUME ReadRequest \/ ReadRequestFails PROVE ForwardInv'
  BY <1>2 DEF ReadRequest, ReadRequestFails
<1>3. ASSUME WriteRequest PROVE ForwardInv'
  <2>1. got = Len(fwd) + 1 /\ got <= Len(sent)
    BY <1>3 DEF WriteRequest
  <2>2. /\ Len(fwd') = Len(fwd) + 1
        /\ \A i \in 1 .. Len(fwd) : fwd'[i] = fwd[i]
        /\ fwd'[Len(fwd) + 1] = InjectBearer(sent[got])
    BY <1>3 DEF WriteRequest
  <2>3. ForwardedInOrder'
    <3>1. sent' = sent
      BY <1>3 DEF WriteRequest
    <3>2. ASSUME NEW i \in 1 .. Len(fwd')
          PROVE  fwd'[i] = [auth |-> {Token}, close |-> sent[i].close]
      <4>1. CASE i \in 1 .. Len(fwd)
        BY <2>2, <4>1
      <4>2. CASE i = Len(fwd) + 1
        BY <2>1, <2>2, <4>2 DEF InjectBearer
      <4>3. QED
        BY <2>1, <2>2, <4>1, <4>2
    <3>3. QED
      BY <2>1, <2>2, <3>1, <3>2
  <2>4. QED
    BY <1>3, <2>1, <2>2, <2>3 DEF WriteRequest
<1>4. ASSUME ReadResponse PROVE ForwardInv'
  BY <1>4 DEF ReadResponse
<1>5. ASSUME WriteResponse PROVE ForwardInv'
  BY <1>5 DEF WriteResponse
<1>6. ASSUME WriteRequestFails \/ ReadResponseFails \/ WriteResponseFails
      PROVE  ForwardInv'
  BY <1>6 DEF WriteRequestFails, ReadResponseFails, WriteResponseFails
<1>7. ASSUME ClientSends PROVE ForwardInv'
  <2>1. PICK r \in Requests : sent' = Append(sent, r)
    BY <1>7 DEF ClientSends
  <2>2. /\ Len(sent') = Len(sent) + 1
        /\ \A i \in 1 .. Len(sent) : sent'[i] = sent[i]
    BY <2>1
  <2>3. QED
    BY <1>7, <2>2 DEF ClientSends
<1>8. ASSUME \/ ClientLeaves \/ UpstreamLeaves \/ UpstreamAnswers
             \/ UpstreamCutsShort \/ UpstreamInterim \/ UpstreamGarbles
      PROVE  ForwardInv'
  BY <1>8 DEF ClientLeaves, UpstreamLeaves, UpstreamAnswers,
              UpstreamCutsShort, UpstreamInterim, UpstreamGarbles, Reply
<1>9. CASE UNCHANGED vars
  BY <1>9 DEF vars
<1>10. QED
  BY <1>1, <1>2, <1>3, <1>4, <1>5, <1>6, <1>7, <1>8, <1>9
     DEF Next, Handle, Environment, Returned

LEMMA BaseInvariance == Spec => []BaseInv
<1>1. BaseInv /\ [Next]_vars => BaseInv'
  BY TypeStep, ForwardStep DEF BaseInv
<1>2. QED
  BY <1>1, InitBase, PTL DEF Spec

\* Types, for any number of requests, pipelined or not.
THEOREM TypeCorrect == Spec => []TypeOK
<1>1. BaseInv => TypeOK
  BY DEF BaseInv
<1>2. QED
  BY <1>1, BaseInvariance, PTL

\* mitm.go:39, 109-110: every request is forwarded once, in order, with the
\* token as its only Authorization value, whatever client and upstream do.
THEOREM TokenOnEveryRequest == Spec => []ForwardedInOrder
<1>1. BaseInv => ForwardedInOrder
  BY DEF BaseInv, ForwardInv
<1>2. QED
  BY <1>1, BaseInvariance, PTL

-----------------------------------------------------------------------------
(* The replies. *)

\* Until an interim one, the upstream's replies answer the requests one by
\* one; only the last may be cut short, and then the upstream is gone.
RepliesInv ==
    /\ OnlyFinal => \A i \in 1 .. Len(replies) : replies[i].to = i
    /\ OnlyFinal /\ upstream => Len(replies) = answered
    /\ pc \in SetUpPhases => Len(replies) = 0

\* The handler is one reply behind, or none.
LockstepInv ==
    /\ pc \in SetUpPhases \union {"readReq"} => read = got /\ Len(out) = got
    /\ pc \in {"writeReq", "readResp"} => read = got - 1 /\ Len(out) = got - 1
    /\ pc = "writeResp" => read = got /\ Len(out) = got - 1

\* It has relayed the upstream's replies, whole and in order, and stopped at
\* the first that closes; what it cannot read it does not relay.
RelayedInv ==
    /\ pc = "writeResp" => replies[read].kind # "malformed"
    /\ Len(out) <= Len(fwd)
    /\ Len(out) <= Len(replies)
    /\ \A k \in 1 .. Len(out) :
        /\ out[k] = replies[k]
        /\ out[k].kind \notin {"cut", "malformed"}
        /\ out[k].close \/ sent[k].close => Len(fwd) = k /\ pc = "returned"

AnswerInv == RepliesInv /\ LockstepInv /\ RelayedInv

LEMMA InitAnswer == Init => AnswerInv
<1> SUFFICES ASSUME Init PROVE AnswerInv
  OBVIOUS
<1>1. Len(<<>>) = 0
  OBVIOUS
<1>2. ~ upstream
  BY Zenon DEF Init
<1>3. QED
  BY <1>1, <1>2 DEF Init, AnswerInv, RepliesInv, LockstepInv, RelayedInv, SetUpPhases

LEMMA RepliesStep == BaseInv /\ RepliesInv /\ [Next]_vars => RepliesInv'
<1> SUFFICES ASSUME BaseInv, RepliesInv, [Next]_vars PROVE RepliesInv'
  OBVIOUS
<1> USE DEF RepliesInv
<1>1. ASSUME NEW kind \in Kinds, NEW close \in BOOLEAN,
             Reply(kind, close)
      PROVE  /\ pc' \notin SetUpPhases
             /\ OnlyFinal' => /\ kind # "interim"
                              /\ Len(replies') = answered + 1
                              /\ \A i \in 1 .. Len(replies') : replies'[i].to = i
  <2> DEFINE r == [to |-> answered + 1, kind |-> kind, close |-> close]
  <2>1. upstream /\ replies' = Append(replies, r)
    BY <1>1 DEF Reply
  <2>2. replies \in Seq(Replies)
    BY DEF BaseInv, TypeOK
  <2>3. r.to = answered + 1 /\ r.kind = kind
    OBVIOUS
  <2> HIDE DEF r
  <2>4. /\ Len(replies') = Len(replies) + 1
        /\ replies'[Len(replies) + 1] = r
        /\ \A i \in 1 .. Len(replies) : replies'[i] = replies[i]
    BY <2>1, <2>2
  <2>5. pc' \notin SetUpPhases
    BY <1>1 DEF Reply, BaseInv, TypeOK, ForwardInv
  <2>6. ASSUME OnlyFinal'
        PROVE  /\ kind # "interim"
               /\ Len(replies') = answered + 1
               /\ \A i \in 1 .. Len(replies') : replies'[i].to = i
    <3>1. OnlyFinal /\ kind # "interim"
      BY <2>2, <2>3, <2>4, <2>6 DEF OnlyFinal
    <3>2. Len(replies) = answered
      BY <2>1, <3>1
    <3>3. ASSUME NEW i \in 1 .. Len(replies') PROVE replies'[i].to = i
      <4>1. CASE i \in 1 .. Len(replies)
        BY <2>4, <3>1, <4>1
      <4>2. CASE i = Len(replies) + 1
        BY <2>3, <2>4, <3>2, <4>2
      <4>3. QED
        BY <2>2, <2>4, <4>1, <4>2
    <3>4. QED
      BY <2>4, <3>1, <3>2, <3>3
  <2>7. QED
    BY <2>5, <2>6
<1>2. ASSUME UpstreamAnswers \/ UpstreamGarbles PROVE RepliesInv'
  <2>1. PICK kind \in Kinds, close \in BOOLEAN :
          Reply(kind, close) /\ answered' = answered + 1
    BY <1>2 DEF UpstreamAnswers, UpstreamGarbles, Kinds
  <2>2. QED
    BY <1>1, <2>1
<1>3. ASSUME UpstreamCutsShort PROVE RepliesInv'
  <2>1. Reply("cut", FALSE) /\ ~ upstream'
    BY <1>3, Zenon DEF UpstreamCutsShort
  <2>2. /\ pc' \notin SetUpPhases
        /\ OnlyFinal' => \A i \in 1 .. Len(replies') : replies'[i].to = i
    BY <1>1, <2>1, Zenon DEF Kinds
  <2>3. QED
    BY <2>1, <2>2
<1>4. ASSUME UpstreamInterim PROVE RepliesInv'
  <2>1. pc' \notin SetUpPhases /\ ~ OnlyFinal'
    BY <1>1, <1>4, Zenon DEF UpstreamInterim, Kinds
  <2>2. QED
    BY <2>1
<1>5. ASSUME SetUp PROVE RepliesInv'
  <2>1. Len(replies) = 0 /\ answered = 0
    BY <1>5 DEF SetUp, BaseInv, TypeOK, ForwardInv
  <2>2. QED
    BY <1>5, <2>1 DEF SetUp, responses, OnlyFinal
<1>6. ASSUME \/ SetUpFails \/ ReadRequest \/ ReadRequestFails \/ WriteRequest
             \/ WriteRequestFails \/ ReadResponse \/ ReadResponseFails
             \/ WriteResponse \/ WriteResponseFails \/ ClientSends
             \/ ClientLeaves
      PROVE  RepliesInv'
  BY <1>6 DEF SetUpFails, ReadRequest, ReadRequestFails, WriteRequest,
     WriteRequestFails, ReadResponse, ReadResponseFails, WriteResponse,
     WriteResponseFails, ClientSends, ClientLeaves, Goto, SetUpPhases, peers,
     requests, responses, OnlyFinal
<1>7. ASSUME UpstreamLeaves PROVE RepliesInv'
  <2>1. ~ upstream' /\ UNCHANGED <<pc, replies, answered>>
    BY <1>7, Zenon DEF UpstreamLeaves, responses
  <2>2. QED
    BY <2>1 DEF OnlyFinal
<1>8. CASE UNCHANGED vars
  BY <1>8 DEF vars, peers, responses, OnlyFinal
<1>9. QED
  BY <1>2, <1>3, <1>4, <1>5, <1>6, <1>7, <1>8 DEF Next, Handle, Environment, Returned

LEMMA LockstepStep == BaseInv /\ LockstepInv /\ [Next]_vars => LockstepInv'
<1> SUFFICES ASSUME BaseInv, LockstepInv, [Next]_vars PROVE LockstepInv'
  OBVIOUS
<1> USE DEF LockstepInv, SetUpPhases, Goto, requests, responses
<1>0. got \in Nat /\ read \in Nat /\ Len(out) \in Nat /\ out \in Seq(Replies)
  BY DEF BaseInv, TypeOK
<1>1. ASSUME SetUp PROVE LockstepInv'
  BY <1>1 DEF SetUp, NextPhase
<1>2. ASSUME ReadRequest PROVE LockstepInv'
  BY <1>0, <1>2 DEF ReadRequest
<1>3. ASSUME WriteRequest PROVE LockstepInv'
  BY <1>3 DEF WriteRequest
<1>4. ASSUME ReadResponse PROVE LockstepInv'
  BY <1>0, <1>4 DEF ReadResponse
<1>5. ASSUME WriteResponse PROVE LockstepInv'
  BY <1>0, <1>5 DEF WriteResponse
<1>6. ASSUME \/ SetUpFails \/ ReadRequestFails \/ WriteRequestFails
             \/ ReadResponseFails \/ WriteResponseFails
      PROVE  LockstepInv'
  BY <1>6 DEF SetUpFails, ReadRequestFails, WriteRequestFails,
              ReadResponseFails, WriteResponseFails
<1>7. ASSUME Environment PROVE LockstepInv'
  BY <1>7 DEF Environment, ClientSends, ClientLeaves, UpstreamAnswers,
              UpstreamCutsShort, UpstreamInterim, UpstreamGarbles, UpstreamLeaves, Reply
<1>8. CASE UNCHANGED vars
  BY <1>8 DEF vars
<1>9. QED
  BY <1>1, <1>2, <1>3, <1>4, <1>5, <1>6, <1>7, <1>8 DEF Next, Handle, Returned

LEMMA RelayedStep == BaseInv /\ LockstepInv /\ RelayedInv /\ [Next]_vars => RelayedInv'
<1> SUFFICES ASSUME BaseInv, LockstepInv, RelayedInv, [Next]_vars
             PROVE  RelayedInv'
  OBVIOUS
<1> USE DEF RelayedInv, requests, responses, Goto
<1>0. /\ Len(out) \in Nat /\ Len(replies) \in Nat /\ Len(fwd) \in Nat
      /\ Len(sent) \in Nat /\ Len(fwd) <= Len(sent)
      /\ sent \in Seq(Requests) /\ fwd \in Seq(Forwarded)
      /\ out \in Seq(Replies) /\ replies \in Seq(Replies)
  BY DEF BaseInv, TypeOK, ForwardInv, ForwardedInOrder
<1>1. ASSUME SetUp \/ SetUpFails \/ ReadRequest \/ ReadRequestFails
             \/ WriteRequestFails \/ ReadResponse \/ ReadResponseFails
             \/ WriteResponseFails
      PROVE  RelayedInv'
  BY <1>1 DEF SetUp, SetUpFails, NextPhase, SetUpPhases, ReadRequest,
     ReadRequestFails, WriteRequestFails, ReadResponse, Malformed, ReadResponseFails,
     WriteResponseFails
<1>2. ASSUME WriteRequest PROVE RelayedInv'
  BY <1>0, <1>2 DEF WriteRequest
<1>3. ASSUME WriteResponse PROVE RelayedInv'
  <2> DEFINE n == Len(out) + 1
  <2>1. read = n /\ got = n /\ Len(fwd) = n /\ n <= Len(replies)
    BY <1>0, <1>3 DEF WriteResponse, LockstepInv, BaseInv, TypeOK, ForwardInv
  <2>2. replies[n].kind \notin {"cut", "malformed"}
    BY <1>3, <2>1 DEF WriteResponse
  <2>3. /\ Len(out') = n
        /\ out'[n] = replies[n]
        /\ \A k \in 1 .. Len(out) : out'[k] = out[k]
    BY <1>0, <1>3, <2>1 DEF WriteResponse
  <2>4. \A k \in 1 .. Len(out) : ~ (out[k].close \/ sent[k].close)
    BY <1>3 DEF WriteResponse
  <2>5. replies[n].close \/ sent[n].close => pc' = "returned"
    BY <1>3, <2>1 DEF WriteResponse, MustClose
  <2>6. UNCHANGED <<sent, fwd, replies>>
    BY <1>3 DEF WriteResponse
  <2> HIDE DEF n
  <2>7. ASSUME NEW k \in 1 .. n
        PROVE  /\ out'[k] = replies[k]
               /\ out'[k].kind \notin {"cut", "malformed"}
               /\ out'[k].close \/ sent[k].close => Len(fwd) = k /\ pc' = "returned"
    <3>1. CASE k = n
      BY <2>1, <2>2, <2>3, <2>5, <3>1
    <3>2. CASE k \in 1 .. Len(out)
      BY <2>3, <2>4, <3>2
    <3>3. QED
      BY <1>0, <3>1, <3>2 DEF n
  <2>8. pc' # "writeResp"
    BY <1>3 DEF WriteResponse
  <2>9. QED
    BY <2>1, <2>3, <2>6, <2>7, <2>8
<1>4. ASSUME ClientSends PROVE RelayedInv'
  <2>1. PICK r \in Requests : sent' = Append(sent, r)
    BY <1>4 DEF ClientSends
  <2>2. \A k \in 1 .. Len(sent) : sent'[k] = sent[k]
    BY <1>0, <2>1
  <2>3. QED
    BY <1>0, <1>4, <2>2 DEF ClientSends
<1>5. ASSUME NEW kind, NEW close, Reply(kind, close) PROVE RelayedInv'
  <2>1. /\ Len(replies') = Len(replies) + 1
        /\ \A k \in 1 .. Len(replies) : replies'[k] = replies[k]
    BY <1>0, <1>5 DEF Reply
  <2>2. pc = "writeResp" => read \in 1 .. Len(replies)
    BY DEF BaseInv, TypeOK, ForwardInv
  <2>3. QED
    BY <1>0, <1>5, <2>1, <2>2 DEF Reply
<1>6. ASSUME UpstreamAnswers \/ UpstreamCutsShort \/ UpstreamInterim \/ UpstreamGarbles
      PROVE  RelayedInv'
  BY <1>5, <1>6, Zenon DEF UpstreamAnswers, UpstreamCutsShort, UpstreamInterim, UpstreamGarbles
<1>7. ASSUME ClientLeaves \/ UpstreamLeaves PROVE RelayedInv'
  BY <1>7 DEF ClientLeaves, UpstreamLeaves
<1>8. CASE UNCHANGED vars
  BY <1>8 DEF vars
<1>9. QED
  BY <1>1, <1>2, <1>3, <1>4, <1>6, <1>7, <1>8 DEF Next, Handle, Environment, Returned

LEMMA AnswerInvariance == Spec => [](BaseInv /\ AnswerInv)
<1>1. BaseInv /\ AnswerInv /\ [Next]_vars => AnswerInv'
  BY RepliesStep, LockstepStep, RelayedStep DEF AnswerInv
<1>2. QED
  BY <1>1, InitAnswer, BaseInvariance, PTL DEF Spec

\* With final replies only, what was relayed is final and answers in order.
LEMMA FinalReplies ==
  BaseInv /\ AnswerInv /\ OnlyFinal =>
    \A k \in 1 .. Len(out) : out[k].kind = "final" /\ out[k].to = k
<1> SUFFICES ASSUME BaseInv, AnswerInv, OnlyFinal, NEW k \in 1 .. Len(out)
             PROVE  out[k].kind = "final" /\ out[k].to = k
  OBVIOUS
<1>1. out[k] = replies[k] /\ out[k].kind \notin {"cut", "malformed"} /\ k \in 1 .. Len(replies)
  BY DEF AnswerInv, RelayedInv, BaseInv, TypeOK
<1>2. replies[k].to = k /\ replies[k].kind # "interim"
  BY <1>1 DEF AnswerInv, RepliesInv, OnlyFinal
<1>3. replies[k] \in Replies
  BY <1>1 DEF BaseInv, TypeOK
<1>4. QED
  BY <1>1, <1>2, <1>3 DEF Replies, Kinds

\* mitm.go:100-138: until the upstream sends an interim reply, the k-th reply
\* the client gets is the whole answer to its k-th request.
THEOREM RepliesAnswerRequests == Spec => []AnswersMatch
<1>1. BaseInv /\ AnswerInv => AnswersMatch
  BY FinalReplies DEF AnswersMatch
<1>2. QED
  BY <1>1, AnswerInvariance, PTL

\* mitm.go:127-144: and the handler leaves no request behind unanswered.
THEOREM Lockstep == Spec => []NothingLeftBehind
<1>1. BaseInv /\ AnswerInv => NothingLeftBehind
  BY FinalReplies DEF BaseInv, TypeOK, ForwardInv, AnswerInv, LockstepInv,
                      NothingLeftBehind, Answered
<1>2. QED
  BY <1>1, AnswerInvariance, PTL

\* mitm.go:140: nothing follows a reply after which the connection closes,
\* whatever the upstream sends.
THEOREM NothingAfterClose == Spec => []CloseHonoured
<1>1. AnswerInv => CloseHonoured
  BY DEF AnswerInv, RelayedInv, CloseHonoured
<1>2. QED
  BY <1>1, AnswerInvariance, PTL

\* What the client gets is a prefix of what the upstream sends, and no more
\* replies than requests went out.
RelayedVerbatim ==
    /\ Len(out) <= Len(fwd) /\ Len(out) <= Len(replies)
    /\ \A k \in 1 .. Len(out) : out[k] = replies[k]

\* mitm.go:127-138: replies are passed on whole, once and in order, whatever
\* they are, interim ones among them.
THEOREM RepliesPassedOn == Spec => []RelayedVerbatim
<1>1. AnswerInv => RelayedVerbatim
  BY DEF AnswerInv, RelayedInv, RelayedVerbatim
<1>2. QED
  BY <1>1, AnswerInvariance, PTL

-----------------------------------------------------------------------------
(* The safety half of AnsweredUnlessInterim. *)

\* The handler has something to do, to read, or to give up.
HandlerRuns ==
    \/ pc \in SetUpPhases \union {"writeReq", "writeResp"}
    \/ pc = "readReq" /\ (got < Len(sent) \/ ~ client)
    \/ pc = "readResp" /\ (read < Len(replies) \/ ~ upstream)

\* It does nothing unless it has.
LEMMA HandleRuns == ASSUME BaseInv, Handle PROVE HandlerRuns
  BY DEF Handle, SetUp, SetUpFails, ReadRequest, ReadRequestFails, WriteRequest,
         WriteRequestFails, ReadResponse, Malformed, ReadResponseFails, WriteResponse,
         WriteResponseFails, Goto, HandlerRuns

\* A handler that waits is done, or waits for whoever's turn it is.
WaitsForWhoOwes ==
    ~ HandlerRuns /\ OnlyFinal =>
        \/ pc = "returned"
        \/ pc = "readReq" /\ client /\ \A i \in 1 .. Len(sent) : Answered(i)
        \/ pc = "readResp" /\ upstream /\ answered < Len(fwd)

\* mitm.go:100-138: the handler waits for the client only when it has answered
\* all that the client sent, and for the upstream only while that owes a reply:
\* it never waits for one that has been given, and the two never wait for each
\* other through it.
THEOREM WaitsForAnAnswerDue == Spec => []WaitsForWhoOwes
<1>1. BaseInv /\ AnswerInv => WaitsForWhoOwes
  <2> SUFFICES ASSUME BaseInv, AnswerInv, ~ HandlerRuns, OnlyFinal, pc # "returned"
               PROVE  \/ pc = "readReq" /\ client /\ \A i \in 1 .. Len(sent) : Answered(i)
                      \/ pc = "readResp" /\ upstream /\ answered < Len(fwd)
    BY DEF WaitsForWhoOwes
  <2>1. /\ got \in Nat /\ Len(sent) \in Nat /\ got <= Len(sent)
        /\ Len(fwd) \in Nat /\ Len(replies) \in Nat /\ read \in Nat /\ read <= Len(replies)
    BY DEF BaseInv, TypeOK
  <2>2. CASE pc = "readReq"
    <3>1. client /\ got = Len(sent) /\ Len(out) = got
      BY <2>1, <2>2 DEF HandlerRuns, AnswerInv, LockstepInv
    <3>2. \A k \in 1 .. Len(out) : out[k].kind = "final" /\ out[k].to = k
      BY FinalReplies
    <3>3. QED
      BY <2>2, <3>1, <3>2 DEF Answered
  <2>3. CASE pc = "readResp"
    <3>1. upstream /\ read = Len(replies)
      BY <2>1, <2>3 DEF HandlerRuns
    <3>2. read = got - 1 /\ Len(fwd) = got /\ Len(replies) = answered
      BY <2>3, <3>1 DEF BaseInv, ForwardInv, AnswerInv, LockstepInv, RepliesInv
    <3>3. answered \in Nat
      BY DEF BaseInv, TypeOK
    <3>4. Len(replies) = got - 1 /\ Len(fwd) = got /\ answered = Len(replies)
      BY <3>1, <3>2
    <3>5. answered < Len(fwd)
      BY <2>1, <3>3, <3>4
    <3>6. QED
      BY <2>3, <3>1, <3>5
  <2>4. QED
    BY <2>2, <2>3 DEF HandlerRuns, BaseInv, TypeOK, LoopPhases
<1>2. QED
  BY <1>1, AnswerInvariance, PTL
=============================================================================
