---------------------------- MODULE TunnelProofs ----------------------------
(***************************************************************************)
(* Proofs about Tunnel, for any amount of data in both directions.         *)
(***************************************************************************)
EXTENDS Tunnel, TLAPS

-----------------------------------------------------------------------------
(* The inductive invariant. *)

\* The handler's phase, the reply and the copiers agree.
PhaseInv ==
    /\ status = "200" => pc \in {"pipe", "returned"}
    /\ pc \in {"dial", "hijack", "ack"} =>
        /\ status # "200"
        /\ \A d \in Directions : copier[d] = "idle"
    /\ pc = "pipe" => status = "200" /\ \A d \in Directions : copier[d] # "idle"
    /\ pc = "returned" /\ status = "200" => \A d \in Directions : copier[d] = "done"
    /\ \A d \in Directions : copier[d] = "idle" => rcvd[d] = <<>>
    /\ \A d \in Directions : d \in eof <=> copier[d] = "done"

\* The first k chunks were lost; of the others the copier has written what it
\* has read, in order, but for the chunk in its hands.  It stops at the end of
\* its source unless one of the peers vanished.
CopyInv(d, k) ==
    /\ Len(rcvd[d]) + k <= taken[d]
    /\ copier[d] \in {"idle", "read"} => Len(rcvd[d]) + k = taken[d]
    /\ copier[d] = "write" => Len(rcvd[d]) + k + 1 = taken[d]
    /\ copier[d] \in {"close", "done"} /\ gone = {} =>
        Src[d] \in fin /\ Len(rcvd[d]) + k = sent[d]
    /\ \A i \in 1 .. Len(rcvd[d]) : rcvd[d][i] = k + i

\* A client that waits for the reply is silent until then, and loses nothing.
PatientInv ==
    ~ EarlyData => (pc \in {"dial", "hijack", "ack"} => sent["up"] = 0) /\ CopyInv("up", 0)

IInv ==
    /\ TypeOK /\ PhaseInv
    /\ CopyInv("down", 0)
    /\ \E k \in Nat : CopyInv("up", k)
    /\ PatientInv

LEMMA InitIInv == Init => IInv
<1> SUFFICES ASSUME Init PROVE IInv
  OBVIOUS
<1>1. Len(<<>>) = 0 /\ <<>> \in Seq(1 .. MaxChunks) /\ 0 \in Nat
  OBVIOUS
<1>2. TypeOK
  BY <1>1, TunnelAssumption DEF Init, TypeOK, Directions, Peers
<1>3. PhaseInv
  BY <1>1 DEF Init, PhaseInv, Directions
<1>4. \A d \in Directions : CopyInv(d, 0)
  BY <1>1 DEF Init, CopyInv, Directions
<1>5. QED
  BY <1>1, <1>2, <1>3, <1>4 DEF IInv, PatientInv, Init, Directions

\* What keeps a direction as it is: its copier stands still, and its source, if
\* it has finished, sends no more.
LEMMA StandsStill ==
  ASSUME NEW d \in Directions, NEW k \in Nat, CopyInv(d, k),
         copier'[d] = copier[d], rcvd'[d] = rcvd[d], taken'[d] = taken[d],
         sent'[d] = sent[d] \/ Src[d] \notin fin,
         fin \subseteq fin', gone \subseteq gone'
  PROVE  CopyInv(d, k)'
  BY DEF CopyInv

\* When both directions stand still, only types, phases and the client's
\* patience are left to show.
LEMMA BothStandStill ==
  ASSUME IInv, TypeOK', PhaseInv',
         ~ EarlyData => (pc' \in {"dial", "hijack", "ack"} => sent'["up"] = 0),
         \A d \in Directions :
            /\ copier'[d] = copier[d] /\ rcvd'[d] = rcvd[d] /\ taken'[d] = taken[d]
            /\ sent'[d] = sent[d] \/ Src[d] \notin fin,
         fin \subseteq fin', gone \subseteq gone'
  PROVE  IInv'
<1>1. PICK k \in Nat : CopyInv("up", k)
  BY DEF IInv
<1>2. 0 \in Nat /\ "up" \in Directions /\ "down" \in Directions
  BY DEF Directions
<1>3. CopyInv("up", k)'
  BY <1>1, <1>2, StandsStill
<1>4. CopyInv("down", 0)'
  BY <1>2, StandsStill DEF IInv
<1>5. ~ EarlyData => CopyInv("up", 0)'
  <2>1. ~ EarlyData => CopyInv("up", 0)
    BY DEF IInv, PatientInv
  <2>2. QED
    BY <1>2, <2>1, StandsStill
<1>6. PatientInv'
  BY <1>5 DEF PatientInv
<1>7. QED
  BY <1>3, <1>4, <1>6 DEF IInv

LEMMA SetUpStep ==
  ASSUME IInv, SetUp \/ Return PROVE IInv'
<1> USE TunnelAssumption DEF Goto, streams, peers
<1>1. ASSUME Dial \/ DialFails \/ HijackFails \/ AckFails \/ Return PROVE IInv'
  <2>1. TypeOK' /\ PhaseInv'
    BY <1>1 DEF Dial, DialFails, HijackFails, AckFails, Return, IInv, TypeOK, PhaseInv, Directions
  <2>2. ~ EarlyData => (pc' \in {"dial", "hijack", "ack"} => sent'["up"] = 0)
    BY <1>1 DEF Dial, DialFails, HijackFails, AckFails, Return, IInv, PatientInv
  <2>3. UNCHANGED <<copier, rcvd, taken, sent, fin, gone>>
    BY <1>1 DEF Dial, DialFails, HijackFails, AckFails, Return
  <2>4. QED
    BY <2>1, <2>2, <2>3, BothStandStill
<1>2. ASSUME Hijack PROVE IInv'
  <2>1. PICK n \in 0 .. sent["up"] : taken' = [taken EXCEPT !["up"] = n]
    BY <1>2 DEF Hijack
  <2>2. sent["up"] \in 0 .. MaxChunks
    BY DEF IInv, TypeOK, Directions
  <2>3. n \in Nat /\ n \in 0 .. MaxChunks /\ n <= sent["up"]
    BY <2>1, <2>2
  <2>4. taken'["up"] = n /\ taken'["down"] = taken["down"]
    BY <2>1 DEF IInv, TypeOK, Directions
  <2>5. TypeOK'
    BY <1>2, <2>1, <2>3 DEF Hijack, IInv, TypeOK, Directions
  <2>6. PhaseInv'
    BY <1>2 DEF Hijack, IInv, PhaseInv
  <2>7. copier["up"] = "idle" /\ rcvd["up"] = <<>>
    BY <1>2 DEF Hijack, IInv, PhaseInv, Directions
  <2>8. CopyInv("up", n)'
    <3>1. copier'["up"] = "idle" /\ rcvd'["up"] = <<>> /\ Len(<<>>) = 0
      BY <1>2, <2>7 DEF Hijack
    <3>2. QED
      BY <2>3, <2>4, <3>1 DEF CopyInv
  <2>9. CopyInv("down", 0)'
    BY <1>2, <2>4, StandsStill DEF Hijack, IInv, Directions
  <2>10. PatientInv'
    <3>1. ~ EarlyData => sent["up"] = 0 /\ n = 0
      BY <1>2, <2>3 DEF Hijack, IInv, PatientInv
    <3>2. QED
      BY <1>2, <2>8, <3>1 DEF Hijack, PatientInv
  <2>11. QED
    BY <2>3, <2>5, <2>6, <2>8, <2>9, <2>10 DEF IInv
<1>3. ASSUME Ack PROVE IInv'
  <2>1. TypeOK' /\ PhaseInv'
    BY <1>3 DEF Ack, IInv, TypeOK, PhaseInv, Directions
  <2>2. ASSUME NEW d \in Directions, NEW k \in Nat, CopyInv(d, k) PROVE CopyInv(d, k)'
    BY <1>3, <2>2 DEF Ack, CopyInv, IInv, PhaseInv
  <2>3. CopyInv("down", 0)' /\ \E k \in Nat : CopyInv("up", k)'
    BY <2>2 DEF IInv, Directions
  <2>4. PatientInv'
    BY <1>3, <2>2 DEF Ack, IInv, PatientInv, Directions
  <2>5. QED
    BY <2>1, <2>3, <2>4 DEF IInv
<1>4. QED
  BY <1>1, <1>2, <1>3 DEF SetUp

\* A step of a copier: its own direction, with k chunks lost.
LEMMA CopyOwn ==
  ASSUME TypeOK, PhaseInv, NEW d \in Directions, NEW k \in Nat, CopyInv(d, k),
         pc = "pipe", Copy(d)
  PROVE  TypeOK' /\ PhaseInv' /\ CopyInv(d, k)'
<1> USE TunnelAssumption DEF TypeOK, PhaseInv, CopyInv, CopierGoto, peers
<1>1. CASE CopyRead(d)
  BY <1>1 DEF CopyRead
<1>2. CASE CopyEnds(d)
  BY <1>2 DEF CopyEnds, streams
<1>3. CASE CopyWrite(d)
  <2>1. PICK n \in Nat, t \in 1 .. MaxChunks : n = Len(rcvd[d]) /\ t = taken[d] /\ t = n + k + 1
    BY <1>3 DEF CopyWrite
  <2>2. rcvd'[d] = Append(rcvd[d], t) /\ rcvd[d] \in Seq(1 .. MaxChunks)
    BY <1>3, <2>1 DEF CopyWrite
  <2>3. /\ rcvd'[d] \in Seq(1 .. MaxChunks)
        /\ Len(rcvd'[d]) = n + 1
        /\ \A i \in 1 .. n + 1 : rcvd'[d][i] = IF i <= n THEN rcvd[d][i] ELSE t
    BY <2>1, <2>2
  <2>4. \A e \in Directions \ {d} : rcvd'[e] = rcvd[e]
    BY <1>3 DEF CopyWrite
  <2>5. TypeOK'
    BY <1>3, <2>3 DEF CopyWrite
  <2>6. PhaseInv'
    BY <1>3, <2>4 DEF CopyWrite
  <2>7. \A i \in 1 .. Len(rcvd'[d]) : rcvd'[d][i] = k + i
    <3>1. ASSUME NEW i \in 1 .. n + 1 PROVE rcvd'[d][i] = k + i
      <4>1. CASE i <= n
        <5>1. i \in 1 .. Len(rcvd[d])
          BY <2>1, <4>1
        <5>2. QED
          BY <2>3, <4>1, <5>1
      <4>2. CASE ~ (i <= n)
        BY <2>1, <2>3, <4>2
      <4>3. QED
        BY <4>1, <4>2
    <3>2. QED
      BY <2>3, <3>1
  <2>8. CopyInv(d, k)'
    BY <1>3, <2>1, <2>3, <2>7 DEF CopyWrite
  <2>9. QED
    BY <2>5, <2>6, <2>8
<1>4. CASE CopyWriteFails(d)
  BY <1>4 DEF CopyWriteFails, streams
<1>5. CASE CloseWrite(d)
  BY <1>5 DEF CloseWrite
<1>6. QED
  BY <1>1, <1>2, <1>3, <1>4, <1>5 DEF Copy

\* The other direction stands still.
LEMMA CopyOther ==
  ASSUME TypeOK, NEW d \in Directions, Copy(d),
         NEW e \in Directions \ {d}, NEW k \in Nat, CopyInv(e, k)
  PROVE  CopyInv(e, k)'
<1>1. /\ copier'[e] = copier[e] /\ rcvd'[e] = rcvd[e] /\ taken'[e] = taken[e]
      /\ UNCHANGED <<sent, fin, gone>>
  BY DEF Copy, CopyRead, CopyEnds, CopyWrite, CopyWriteFails, CloseWrite, CopierGoto,
         TypeOK, streams, peers
<1>2. QED
  BY <1>1, StandsStill

LEMMA CopyStep ==
  ASSUME IInv, NEW d \in Directions, pc = "pipe", Copy(d) PROVE IInv'
<1> USE DEF IInv
<1>1. PICK k \in Nat : CopyInv("up", k)
  OBVIOUS
<1>2. ASSUME NEW e \in Directions, NEW j \in Nat, CopyInv(e, j) PROVE CopyInv(e, j)'
  BY <1>2, CopyOwn, CopyOther
<1>3. CopyInv("up", k)' /\ CopyInv("down", 0)'
  BY <1>1, <1>2 DEF Directions
<1>4. TypeOK' /\ PhaseInv'
  <2>1. CASE d = "up"
    BY <1>1, <2>1, CopyOwn
  <2>2. CASE d = "down"
    BY <2>2, CopyOwn
  <2>3. QED
    BY <2>1, <2>2 DEF Directions
<1>5. PatientInv'
  <2>1. pc' = "pipe"
    BY DEF Copy, CopyRead, CopyEnds, CopyWrite, CopyWriteFails, CloseWrite
  <2>2. ~ EarlyData => CopyInv("up", 0)'
    BY <1>2 DEF PatientInv, Directions
  <2>3. QED
    BY <2>1, <2>2 DEF PatientInv
<1>6. QED
  BY <1>3, <1>4, <1>5

LEMMA PeerStep ==
  ASSUME IInv,
         \/ \E d \in Directions : Send(d)
         \/ \E p \in Peers : Finish(p) \/ Vanish(p)
  PROVE  IInv'
<1> USE TunnelAssumption DEF Directions, Peers, Src
<1>1. ASSUME NEW d \in Directions, Send(d) PROVE IInv'
  <2>1. TypeOK' /\ PhaseInv'
    <3>1. UNCHANGED <<pc, status, copier, taken, rcvd, eof, fin, gone>>
      BY <1>1 DEF Send, peers
    <3>2. /\ sent' \in [Directions -> 0 .. MaxChunks]
          /\ \A e \in Directions : taken[e] <= sent'[e]
      BY <1>1 DEF Send, IInv, TypeOK
    <3>3. TypeOK'
      BY <3>1, <3>2 DEF IInv, TypeOK
    <3>4. PhaseInv'
      BY <3>1 DEF IInv, PhaseInv
    <3>5. QED
      BY <3>3, <3>4
  <2>2. ~ EarlyData => (pc' \in {"dial", "hijack", "ack"} => sent'["up"] = 0)
    <3>1. pc' = pc /\ sent' = [sent EXCEPT ![d] = sent[d] + 1] /\ MaySend(Src[d])
      BY <1>1 DEF Send, peers
    <3>2. ~ EarlyData /\ pc \in {"dial", "hijack", "ack"} => d # "up"
      BY <3>1 DEF MaySend, IInv, PhaseInv
    <3>3. sent \in [Directions -> 0 .. MaxChunks]
      BY DEF IInv, TypeOK
    <3>4. d # "up" => sent'["up"] = sent["up"]
      BY <3>1, <3>3
    <3>5. QED
      BY <3>1, <3>2, <3>4 DEF IInv, PatientInv
  <2>3. \A e \in Directions : sent'[e] = sent[e] \/ Src[e] \notin fin
    BY <1>1 DEF Send, MaySend, IInv, TypeOK
  <2>4. UNCHANGED <<copier, rcvd, taken, fin, gone>>
    BY <1>1 DEF Send, peers
  <2>5. QED
    BY <2>1, <2>2, <2>3, <2>4, BothStandStill
<1>2. ASSUME NEW p \in Peers, Finish(p) \/ Vanish(p) PROVE IInv'
  <2>1. TypeOK' /\ PhaseInv'
    BY <1>2 DEF Finish, Vanish, streams, IInv, TypeOK, PhaseInv
  <2>2. ~ EarlyData => (pc' \in {"dial", "hijack", "ack"} => sent'["up"] = 0)
    BY <1>2 DEF Finish, Vanish, streams, IInv, PatientInv
  <2>3. UNCHANGED <<copier, rcvd, taken, sent>> /\ fin \subseteq fin' /\ gone \subseteq gone'
    BY <1>2 DEF Finish, Vanish, streams
  <2>4. QED
    BY <2>1, <2>2, <2>3, BothStandStill
<1>3. QED
  BY <1>1, <1>2

LEMMA Invariance == Spec => []IInv
<1>1. ASSUME IInv, UNCHANGED vars PROVE IInv'
  <2>1. TypeOK' /\ PhaseInv'
    BY <1>1 DEF IInv, TypeOK, PhaseInv, vars, streams, peers
  <2>2. ~ EarlyData => (pc' \in {"dial", "hijack", "ack"} => sent'["up"] = 0)
    BY <1>1 DEF IInv, PatientInv, vars, streams
  <2>3. UNCHANGED <<copier, rcvd, taken, sent, fin, gone>>
    BY <1>1 DEF vars, streams, peers
  <2>4. QED
    BY <1>1, <2>1, <2>2, <2>3, BothStandStill
<1>2. IInv /\ [Next]_vars => IInv'
  BY <1>1, SetUpStep, CopyStep, PeerStep DEF Next, Returned
<1>3. QED
  BY <1>2, InitIInv, PTL DEF Spec

\* Types, for a client that waits for the reply and for one that does not.
THEOREM TypeCorrect == Spec => []TypeOK
<1>1. IInv => TypeOK
  BY DEF IInv
<1>2. QED
  BY <1>1, Invariance, PTL

-----------------------------------------------------------------------------
(* What arrives. *)

\* The upstream gets a stretch of what the client sent, without a gap; an end
\* of the stream that no peer's vanishing explains comes after all of it.
UpStretch ==
    \E k \in Nat :
        /\ k + Len(rcvd["up"]) <= sent["up"]
        /\ \A i \in 1 .. Len(rcvd["up"]) : rcvd["up"][i] = k + i
        /\ "up" \in eof /\ gone = {} => k + Len(rcvd["up"]) = sent["up"]

\* tunnel.go:40-50: what Hijack drops is all that a client that sends early
\* loses: from the first of its chunks that arrives on, every one does, in order.
THEOREM ArrivesWithoutGap == Spec => []UpStretch
<1>1. IInv => UpStretch
  <2> SUFFICES ASSUME IInv PROVE UpStretch
    OBVIOUS
  <2>1. PICK k \in Nat : CopyInv("up", k)
    BY DEF IInv
  <2>2. /\ Len(rcvd["up"]) \in Nat /\ sent["up"] \in Nat /\ taken["up"] \in Nat
        /\ taken["up"] <= sent["up"]
    BY TunnelAssumption DEF IInv, TypeOK, Directions
  <2>3. "up" \in eof => copier["up"] = "done"
    BY DEF IInv, PhaseInv, Directions
  <2>4. k + Len(rcvd["up"]) <= sent["up"]
    BY <2>1, <2>2 DEF CopyInv
  <2>5. \A i \in 1 .. Len(rcvd["up"]) : rcvd["up"][i] = k + i
    BY <2>1 DEF CopyInv
  <2>6. "up" \in eof /\ gone = {} => k + Len(rcvd["up"]) = sent["up"]
    BY <2>1, <2>2, <2>3 DEF CopyInv
  <2>7. QED
    BY <2>4, <2>5, <2>6 DEF UpStretch
<1>2. QED
  BY <1>1, Invariance, PTL

-----------------------------------------------------------------------------
(* Each step is a step of both relays, or invisible to them. *)

Maps == [Up!Next]_(Up!vars) /\ [Down!Next]_(Down!vars)

LEMMA SetUpMaps ==
  ASSUME IInv, SetUp \/ Return \/ UNCHANGED vars PROVE Maps
<1> USE DEF Maps, Up!vars, Down!vars, Broken, Goto, streams, peers
<1>1. ASSUME DialFails \/ HijackFails \/ AckFails PROVE Maps
  <2>1. Up!Break /\ Down!Break
    BY <1>1 DEF DialFails, HijackFails, AckFails, Up!Break, Down!Break, IInv, PhaseInv
  <2>2. QED
    BY <2>1 DEF Up!Next, Down!Next
<1>2. ASSUME Dial \/ Hijack \/ Ack PROVE Maps
  BY <1>2 DEF Dial, Hijack, Ack
<1>3. ASSUME Return PROVE Maps
  BY <1>3 DEF Return, IInv, PhaseInv
<1>4. ASSUME UNCHANGED vars PROVE Maps
  BY <1>4 DEF vars
<1>5. QED
  BY <1>1, <1>2, <1>3, <1>4 DEF SetUp

\* A copier that has lost nothing.
LEMMA CopyMaps ==
  ASSUME IInv, NEW d \in Directions, CopyInv(d, 0), pc = "pipe", Copy(d) PROVE Maps
<1> USE DEF Maps, Up!vars, Down!vars, Broken, CopierGoto, streams, peers
<1>1. ASSUME CopyRead(d) \/ CopyEnds(d) \/ CopyWriteFails(d) PROVE Maps
  BY <1>1 DEF CopyRead, CopyEnds, CopyWriteFails
<1>2. ASSUME CopyWrite(d) PROVE Maps
  <2>1. d \notin eof /\ Len(rcvd[d]) + 1 = taken[d] /\ taken[d] <= sent[d]
    BY <1>2, TunnelAssumption DEF CopyWrite, IInv, TypeOK, PhaseInv, CopyInv
  <2>2. /\ Len(rcvd[d]) \in Nat /\ sent[d] \in Nat
        /\ taken[d] = Len(rcvd[d]) + 1 /\ Len(rcvd[d]) < sent[d]
    BY <2>1, TunnelAssumption DEF IInv, TypeOK
  <2>3. rcvd' = [rcvd EXCEPT ![d] = Append(rcvd[d], Len(rcvd[d]) + 1)]
    BY <1>2, <2>2 DEF CopyWrite
  <2>4. /\ d = "up" => Up!Deliver /\ UNCHANGED Down!vars
        /\ d = "down" => Down!Deliver /\ UNCHANGED Up!vars
    BY <1>2, <2>1, <2>2, <2>3 DEF CopyWrite, Up!Deliver, Down!Deliver, IInv, TypeOK, Directions
  <2>5. QED
    BY <2>4 DEF Up!Next, Down!Next, Directions
<1>3. ASSUME CloseWrite(d) PROVE Maps
  <2>1. d \notin eof /\ (gone = {} => Src[d] \in fin /\ Len(rcvd[d]) = sent[d])
    BY <1>3 DEF CloseWrite, IInv, TypeOK, PhaseInv, CopyInv
  <2>2. /\ d = "up" => Up!End /\ UNCHANGED Down!vars
        /\ d = "down" => Down!End /\ UNCHANGED Up!vars
    BY <1>3, <2>1 DEF CloseWrite, Up!End, Down!End, Src, Directions
  <2>3. QED
    BY <2>2 DEF Up!Next, Down!Next, Directions
<1>4. QED
  BY <1>1, <1>2, <1>3 DEF Copy

\* What the copier of one direction does is invisible in the other.
LEMMA CopyUpHidden ==
  ASSUME TypeOK, Copy("up") PROVE UNCHANGED Down!vars
  BY DEF TypeOK, Copy, CopyRead, CopyEnds, CopyWrite, CopyWriteFails, CloseWrite,
         CopierGoto, Down!vars, Broken, Directions, streams, peers

LEMMA PeerMaps ==
  ASSUME IInv,
         \/ \E d \in Directions : Send(d)
         \/ \E p \in Peers : Finish(p) \/ Vanish(p)
  PROVE  Maps
<1> USE DEF Maps, Up!vars, Down!vars, Broken, streams, peers, Directions, Peers, Src
<1>1. ASSUME NEW d \in Directions, Send(d) PROVE Maps
  <2>1. /\ d = "up" => Up!Send /\ UNCHANGED Down!vars
        /\ d = "down" => Down!Send /\ UNCHANGED Up!vars
    BY <1>1 DEF Send, MaySend, Up!Send, Down!Send, IInv, TypeOK
  <2>2. QED
    BY <2>1 DEF Up!Next, Down!Next
<1>2. ASSUME NEW p \in Peers, Finish(p) PROVE Maps
  <2>1. /\ p = "client" => Up!Finish /\ UNCHANGED Down!vars
        /\ p = "upstream" => Down!Finish /\ UNCHANGED Up!vars
    BY <1>2 DEF Finish, Up!Finish, Down!Finish
  <2>2. QED
    BY <2>1 DEF Up!Next, Down!Next
<1>3. ASSUME NEW p \in Peers, Vanish(p) PROVE Maps
  <2>1. gone' # {} /\ Broken' = TRUE
    BY <1>3 DEF Vanish
  <2>2. Up!Break /\ Down!Break
    BY <1>3, <2>1 DEF Vanish, Up!Break, Down!Break
  <2>3. QED
    BY <2>2 DEF Up!Next, Down!Next
<1>4. QED
  BY <1>1, <1>2, <1>3

LEMMA StepMaps ==
  ASSUME IInv, [Next]_vars
  PROVE  [Down!Next]_(Down!vars) /\ (~ EarlyData => [Up!Next]_(Up!vars))
<1>1. ASSUME NEW d \in Directions, pc = "pipe", Copy(d)
      PROVE  [Down!Next]_(Down!vars) /\ (~ EarlyData => [Up!Next]_(Up!vars))
  <2>1. CASE d = "down"
    BY <1>1, <2>1, CopyMaps DEF IInv, Maps
  <2>2. CASE d = "up" /\ EarlyData
    BY <1>1, <2>2, CopyUpHidden DEF IInv
  <2>3. CASE d = "up" /\ ~ EarlyData
    BY <1>1, <2>3, CopyMaps DEF IInv, PatientInv, Maps
  <2>4. QED
    BY <2>1, <2>2, <2>3 DEF Directions
<1>2. CASE SetUp \/ Return \/ UNCHANGED vars
  BY <1>2, SetUpMaps DEF Maps
<1>3. CASE \/ \E d \in Directions : Send(d)
           \/ \E p \in Peers : Finish(p) \/ Vanish(p)
  BY <1>3, PeerMaps DEF Maps
<1>4. QED
  BY <1>1, <1>2, <1>3 DEF Next, Returned

\* tunnel.go:17, 57-59: for any amount of data, each direction is a Relay:
\* what arrives is what was sent, in order, whoever finishes first or
\* vanishes, and a half-close never overtakes data.
THEOREM ImplementsRelay == ASSUME ~ EarlyData PROVE Spec => Relays
<1>1. Init => Up!Init /\ Down!Init
  BY DEF Init, Up!Init, Down!Init, Broken, Directions
<1>2. IInv /\ [Next]_vars => [Up!Next]_(Up!vars) /\ [Down!Next]_(Down!vars)
  BY StepMaps
<1>3. QED
  BY <1>1, <1>2, Invariance, PTL DEF Spec, Relays, Up!Safe, Down!Safe

\* The upstream's direction is a Relay even for a client that sends early.
THEOREM DownstreamRelayed == Spec => Down!Safe
<1>1. Init => Down!Init
  BY DEF Init, Down!Init, Broken, Directions
<1>2. IInv /\ [Next]_vars => [Down!Next]_(Down!vars)
  BY StepMaps
<1>3. QED
  BY <1>1, <1>2, Invariance, PTL DEF Spec, Down!Safe

-----------------------------------------------------------------------------
(* The safety half of Terminates: nobody waits for one who was not told. *)

\* The copier of d has something to read, to write or to close.
CopierRuns(d) ==
    \/ copier[d] = "read" /\ (taken[d] < sent[d] \/ Src[d] \in fin)
    \/ copier[d] \in {"write", "close"}

\* No copier moves unless it has.
LEMMA CopyRuns ==
  ASSUME IInv, NEW d \in Directions, Copy(d) PROVE CopierRuns(d)
  BY DEF Copy, CopyRead, CopyEnds, CopyWrite, CopyWriteFails, CloseWrite, CopierGoto,
         CopierRuns, IInv, TypeOK

BothReported == \A d \in Directions : copier[d] = "done"

\* A peer that has been told of the end of its incoming direction goes on.
ToldPeer == \E d \in eof : MaySend(Dst[d])

\* A session that has begun to end waits for nobody who waits for it.
NeverStuck ==
    pc = "pipe" /\ fin # {} =>
        BothReported \/ (\E d \in Directions : CopierRuns(d)) \/ ToldPeer

\* tunnel.go:57-77: once a peer has finished or vanished, the handler can
\* return, a copier can go on, or what is waited for is a peer that knows of
\* the end: no order of ends leaves the two copiers waiting on each other.
THEOREM WaitsForToldPeers == Spec => []NeverStuck
<1>1. IInv => NeverStuck
  <2> SUFFICES ASSUME IInv, pc = "pipe", fin # {},
                      \A d \in Directions : ~ CopierRuns(d)
               PROVE  BothReported \/ ToldPeer
    BY DEF NeverStuck
  <2>1. ASSUME NEW d \in Directions, Src[d] \in fin PROVE copier[d] = "done" /\ d \in eof
    BY <2>1 DEF IInv, TypeOK, PhaseInv, CopierRuns
  <2>2. PICK d \in Directions : Src[d] \in fin
    BY DEF IInv, TypeOK, Directions, Peers, Src
  <2>3. CASE Dst[d] \in fin
    <3>1. \A e \in Directions : Src[e] \in fin
      BY <2>2, <2>3 DEF Directions, Src, Dst
    <3>2. QED
      BY <2>1, <3>1 DEF BothReported
  <2>4. CASE Dst[d] \notin fin
    <3>1. MaySend(Dst[d])
      BY <2>4 DEF MaySend, IInv, PhaseInv
    <3>2. QED
      BY <2>1, <2>2, <3>1 DEF ToldPeer
  <2>5. QED
    BY <2>3, <2>4
<1>2. QED
  BY <1>1, Invariance, PTL
=============================================================================
