--------------------------- MODULE SessionProofs ---------------------------
(***************************************************************************)
(* Proofs about Session, for any number of connections and signals and any *)
(* exit codes, with signals in every phase.                                *)
(***************************************************************************)
EXTENDS Session, SequenceTheorems, TLAPS

-----------------------------------------------------------------------------
(* The inductive invariant. *)

\* How far main, the child and the forwarding goroutine are, together.
PhaseInv ==
    /\ main \in {"spawn", "wait", "resolve", "start"} =>
        child = "none" /\ fwd = "off" /\ ~runErr
    /\ main = "notify" => fwd = "off"
    /\ main = "waitChild" => fwd # "off"
    /\ main \in {"notify", "waitChild"} => child # "none"
    /\ main = "cancel" => child = "exited"
    /\ child = "running" => main \in {"notify", "waitChild", "killed", "hungUp"}
    /\ child = "running" /\ main = "killed" => fwd = "off"
    /\ fwd # "off" => child # "none"
    /\ fwd \in {"cancelled", "done", "stopped"} => child = "exited"

\* The port and the http.Server, from the time main knows the address.
PortInv ==
    /\ main \notin {"drain", "exit", "exited", "killed", "hungUp"} => ~closing
    /\ main \in {"resolve", "start", "notify", "waitChild", "cancel", "shutdown"} => HasAddr
    /\ main = "drain" => closing
    /\ srv = "stopped" => closing
    /\ srv \in {"bound", "stored", "serving"} /\ ~closing => open
    /\ srv = "serving" /\ closing => ~open

\* What main remembers of the child is what the child did.
CodeInv ==
    /\ main \in {"cancel", "shutdown", "drain", "exit"} /\ ~runErr =>
        child = "exited" /\ code = childCode
    /\ ExitCodePropagates

\* Nothing is accepted once the listener is closed, so drained stays drained.
DrainInv == down = "drained" => closing /\ Pending = {}

\* Signals are in the channel or sent on, in their order.
QueueInv ==
    /\ fwd = "off" => queue = <<>> /\ heard = <<>> /\ taken = <<>>
    /\ child # "exited" => heard \o queue = taken

IInv == TypeOK /\ PhaseInv /\ PortInv /\ CodeInv /\ DrainInv /\ QueueInv

\* What Forward moves from the channel to the child stays in order.
LEMMA MoveHead ==
  ASSUME NEW h \in Seq(Signals), NEW q \in Seq(Signals), q # <<>>
  PROVE  /\ Tail(q) \in Seq(Signals) /\ Len(Tail(q)) = Len(q) - 1
         /\ Head(q) \in Signals
         /\ Append(h, Head(q)) \o Tail(q) = h \o q
<1>1. Tail(q) \in Seq(Signals) /\ Len(Tail(q)) = Len(q) - 1 /\ Head(q) \in Signals
  BY HeadTailProperties
<1>2. q = <<Head(q)>> \o Tail(q)
  BY <1>1
<1>3. Append(h, Head(q)) = h \o <<Head(q)>>
  BY <1>1, AppendIsConcat
<1>4. (h \o <<Head(q)>>) \o Tail(q) = h \o (<<Head(q)>> \o Tail(q))
  BY <1>1, ConcatAssociative
<1>5. QED
  BY <1>1, <1>2, <1>3, <1>4

\* What Signal adds to the channel comes last.
LEMMA MoveIn ==
  ASSUME NEW h \in Seq(Signals), NEW q \in Seq(Signals), NEW s \in Signals
  PROVE  h \o Append(q, s) = Append(h \o q, s)
<1>1. <<s>> \in Seq(Signals) /\ h \o q \in Seq(Signals)
  BY ConcatProperties
<1>2. (h \o q) \o <<s>> = h \o (q \o <<s>>)
  BY <1>1, ConcatAssociative
<1>3. Append(q, s) = q \o <<s>> /\ Append(h \o q, s) = (h \o q) \o <<s>>
  BY <1>1, AppendIsConcat
<1>4. QED
  BY <1>2, <1>3

LEMMA InitIInv == Init => IInv
<1> SUFFICES ASSUME Init PROVE IInv
  OBVIOUS
<1> USE DEF Init
<1>1. <<>> \in Seq(Signals) /\ Len(<<>>) = 0 /\ <<>> \o <<>> = <<>>
  OBVIOUS
<1>2. /\ nsig \in 0 .. MaxSignals
      /\ conn \in [Conns -> {"none", "backlog", "pending", "hijacked", "closed"}]
      /\ code \in -1 .. 255 /\ status \in 0 .. 255 /\ childCode \in -1 .. 255
  BY SessionAssumption
<1>3. /\ queue \in Seq(Signals) /\ Len(queue) <= ChannelCap
      /\ heard \in Seq(Signals) /\ taken \in Seq(Signals)
  BY <1>1 DEF ChannelCap
<1>4. TypeOK
  BY <1>2, <1>3, Zenon DEF TypeOK, MainPhases
<1>5. PhaseInv /\ PortInv /\ CodeInv /\ DrainInv
  BY DEF PhaseInv, PortInv, CodeInv, DrainInv, HasAddr, ExitCodePropagates
<1>6. QueueInv
  BY <1>1 DEF QueueInv
<1>7. QED
  BY <1>4, <1>5, <1>6 DEF IInv

LEMMA MainStep ==
  ASSUME IInv, Main, UNCHANGED platform PROVE IInv'
<1> USE SessionAssumption
    DEF IInv, TypeOK, PhaseInv, PortInv, CodeInv, DrainInv, QueueInv, HasAddr,
        ExitCodePropagates, Pending, MainPhases, Goto, Advance, GiveUp, Rest, ShutdownEnds,
        ServerGoto, ConnGoto, ExitWith, ResetBacklog,
        ChannelCap, mainVars, srvVars, childVars, sigVars
<1>1. ASSUME Spawn PROVE IInv'
  BY <1>1 DEF Spawn
<1>2. ASSUME Ready PROVE IInv'
  BY <1>2 DEF Ready
<1>3. ASSUME StartupTimeout PROVE IInv'
  BY <1>3 DEF StartupTimeout
<1>4. ASSUME Resolve PROVE IInv'
  BY <1>4 DEF Resolve
<1>5. ASSUME ResolveFails PROVE IInv'
  BY <1>5 DEF ResolveFails
<1>6. ASSUME Start PROVE IInv'
  BY <1>6 DEF Start
<1>7. ASSUME StartFails PROVE IInv'
  BY <1>7 DEF StartFails
<1>8. ASSUME Notify PROVE IInv'
  BY <1>8 DEF Notify
<1>9. ASSUME Wait PROVE IInv'
  BY <1>9 DEF Wait
<1>10. ASSUME WaitFails PROVE IInv'
  BY <1>10 DEF WaitFails
<1>11. ASSUME CancelSignals PROVE IInv'
  BY <1>11 DEF CancelSignals
<1>12. ASSUME ShutdownFindsNone PROVE IInv'
  BY <1>12 DEF ShutdownFindsNone
<1>13. ASSUME Shutdown PROVE IInv'
  <2>1. conn' \in [Conns -> {"none", "backlog", "pending", "hijacked", "closed"}]
    BY <1>13 DEF Shutdown
  <2>2. /\ main = "shutdown" /\ main' = "drain" /\ closing' = TRUE
        /\ open' \in BOOLEAN /\ (srv = "stored" \/ open' = FALSE)
        /\ UNCHANGED <<code, runErr, down, status, srv, childVars, sigVars>>
    BY <1>13 DEF Shutdown
  <2>3. TypeOK'
    BY <2>1, <2>2
  <2>4. PhaseInv' /\ PortInv' /\ CodeInv' /\ QueueInv'
    BY <2>2
  <2>5. Pending' \subseteq Pending
    BY <1>13 DEF Shutdown
  <2>6. DrainInv'
    BY <2>2, <2>5
  <2>7. QED
    BY <2>3, <2>4, <2>6
<1>14. ASSUME Drained PROVE IInv'
  BY <1>14 DEF Drained
<1>15. ASSUME DrainTimesOut PROVE IInv'
  BY <1>15 DEF DrainTimesOut
<1>16. ASSUME Exit PROVE IInv'
  BY <1>16 DEF Exit
<1>17. QED
  BY <1>1, <1>2, <1>3, <1>4, <1>5, <1>6, <1>7, <1>8, <1>9, <1>10, <1>11, <1>12, <1>13, <1>14, <1>15, <1>16 DEF Main

LEMMA ServerStep ==
  ASSUME IInv, Alive, Server, UNCHANGED platform PROVE IInv'
<1> USE SessionAssumption
    DEF IInv, TypeOK, PhaseInv, PortInv, CodeInv, DrainInv, QueueInv, HasAddr,
        ExitCodePropagates, Pending, MainPhases, Goto, Advance, GiveUp, Rest, ShutdownEnds,
        ServerGoto, ConnGoto, ExitWith, ResetBacklog,
        ChannelCap, mainVars, srvVars, childVars, sigVars
<1>1. ASSUME Listen PROVE IInv'
  BY <1>1 DEF Listen
<1>2. ASSUME ListenFails PROVE IInv'
  BY <1>2 DEF ListenFails
<1>3. ASSUME StoreServer PROVE IInv'
  BY <1>3 DEF StoreServer
<1>4. ASSUME Serve PROVE IInv'
  BY <1>4 DEF Serve
<1>5. ASSUME ServeReturns PROVE IInv'
  <2>1. conn' \in [Conns -> {"none", "backlog", "pending", "hijacked", "closed"}]
    BY <1>5 DEF ServeReturns, ClosePort
  <2>2. srv' \in {"stopped", "failed", srv} /\ open' \in BOOLEAN /\ closing' \in BOOLEAN
    BY <1>5 DEF ServeReturns, ClosePort
  <2>3. UNCHANGED <<mainVars, childVars, sigVars>>
    BY <1>5 DEF ServeReturns, ClosePort
  <2>4. TypeOK'
    BY <2>1, <2>2, <2>3
  <2>5. Pending' \subseteq Pending
    BY <1>5 DEF ServeReturns, ClosePort
  <2>6. PhaseInv' /\ CodeInv' /\ QueueInv'
    BY <2>3
  <2>7. PortInv'
    BY <1>5 DEF ServeReturns, ClosePort
  <2>8. DrainInv'
    BY <1>5, <2>5 DEF ServeReturns, ClosePort
  <2>9. QED
    BY <2>4, <2>6, <2>7, <2>8
<1>6. ASSUME ServeFails PROVE IInv'
  <2>1. conn' \in [Conns -> {"none", "backlog", "pending", "hijacked", "closed"}]
    BY <1>6 DEF ServeFails, ClosePort
  <2>2. srv' \in {"stopped", "failed", srv} /\ open' \in BOOLEAN /\ closing' \in BOOLEAN
    BY <1>6 DEF ServeFails, ClosePort
  <2>3. UNCHANGED <<mainVars, childVars, sigVars>>
    BY <1>6 DEF ServeFails, ClosePort
  <2>4. TypeOK'
    BY <2>1, <2>2, <2>3
  <2>5. Pending' \subseteq Pending
    BY <1>6 DEF ServeFails, ClosePort
  <2>6. PhaseInv' /\ CodeInv' /\ QueueInv'
    BY <2>3
  <2>7. PortInv'
    BY <1>6 DEF ServeFails, ClosePort
  <2>8. DrainInv'
    BY <1>6, <2>5 DEF ServeFails, ClosePort
  <2>9. QED
    BY <2>4, <2>6, <2>7, <2>8
<1>7. QED
  BY <1>1, <1>2, <1>3, <1>4, <1>5, <1>6 DEF Server

LEMMA ConnStep ==
  ASSUME IInv, UNCHANGED platform,
         NEW c \in Conns, Connect(c) \/ Accept(c) \/ HijackConn(c) \/ EndConn(c)
  PROVE  IInv'
<1> USE SessionAssumption
    DEF IInv, TypeOK, PhaseInv, PortInv, CodeInv, DrainInv, QueueInv, HasAddr,
        ExitCodePropagates, Pending, MainPhases, Goto, Advance, GiveUp, Rest, ShutdownEnds,
        ServerGoto, ConnGoto, ExitWith, ResetBacklog,
        ChannelCap, mainVars, srvVars, childVars, sigVars
<1>1. ASSUME Connect(c) PROVE IInv'
  BY <1>1 DEF Connect
<1>2. ASSUME Accept(c) PROVE IInv'
  BY <1>2 DEF Accept
<1>3. ASSUME HijackConn(c) PROVE IInv'
  BY <1>3 DEF HijackConn
<1>4. ASSUME EndConn(c) PROVE IInv'
  <2>1. conn' \in [Conns -> {"none", "backlog", "pending", "hijacked", "closed"}]
    BY <1>4 DEF EndConn
  <2>2. srv' \in {"stopped", "failed", srv} /\ open' \in BOOLEAN /\ closing' \in BOOLEAN
    BY <1>4 DEF EndConn
  <2>3. UNCHANGED <<mainVars, childVars, sigVars>>
    BY <1>4 DEF EndConn
  <2>4. TypeOK'
    BY <2>1, <2>2, <2>3
  <2>5. Pending' \subseteq Pending
    BY <1>4 DEF EndConn
  <2>6. PhaseInv' /\ CodeInv' /\ QueueInv'
    BY <2>3
  <2>7. PortInv'
    BY <1>4 DEF EndConn
  <2>8. DrainInv'
    BY <1>4, <2>5 DEF EndConn
  <2>9. QED
    BY <2>4, <2>6, <2>7, <2>8
<1>5. QED
  BY <1>1, <1>2, <1>3, <1>4

LEMMA SignalStep ==
  ASSUME IInv, Alive, UNCHANGED platform,
         Forward \/ KillChild \/ StopForwarding \/ (\E s \in Signals : Signal(s))
  PROVE  IInv'
<1> USE SessionAssumption
    DEF IInv, TypeOK, PhaseInv, PortInv, CodeInv, DrainInv, QueueInv, HasAddr,
        ExitCodePropagates, Pending, MainPhases, ChannelCap, mainVars, srvVars, childVars
<1>1. ASSUME Forward PROVE IInv'
  <2>0. heard \in Seq(Signals) /\ queue \in Seq(Signals) /\ queue # <<>>
    BY <1>1 DEF Forward
  <2> HIDE DEF IInv, TypeOK, PhaseInv, PortInv, CodeInv, DrainInv, QueueInv
  <2>1. /\ Tail(queue) \in Seq(Signals) /\ Len(Tail(queue)) = Len(queue) - 1
        /\ Append(heard, Head(queue)) \in Seq(Signals)
        /\ Append(heard, Head(queue)) \o Tail(queue) = heard \o queue
    BY <2>0, MoveHead, AppendProperties
  <2> USE DEF IInv, TypeOK, PhaseInv, PortInv, CodeInv, DrainInv, QueueInv
  <2>2. TypeOK'
    BY <1>1, <2>1 DEF Forward
  <2>3. PhaseInv' /\ PortInv' /\ CodeInv' /\ DrainInv'
    BY <1>1 DEF Forward
  <2>4. QueueInv'
    BY <1>1, <2>1 DEF Forward
  <2>5. QED
    BY <2>2, <2>3, <2>4
<1>2. ASSUME StopForwarding PROVE IInv'
  BY <1>2 DEF StopForwarding
<1>3. ASSUME NEW s \in Signals, Signal(s) PROVE IInv'
  <2>1. /\ Append(queue, s) \in Seq(Signals) /\ Len(Append(queue, s)) = Len(queue) + 1
        /\ Append(taken, s) \in Seq(Signals)
        /\ heard \o Append(queue, s) = Append(heard \o queue, s)
    BY MoveIn, AppendProperties
  <2>2. main' \in MainPhases \union {"exited", "killed", "hungUp"} /\ nsig' \in 0 .. MaxSignals
    BY <1>3 DEF Signal
  <2>3. /\ queue' \in Seq(Signals) /\ Len(queue') <= ChannelCap
         /\ taken' \in Seq(Signals)
    <3>1. CASE Registered /\ Len(queue) < ChannelCap
      <4>1. queue' = Append(queue, s) /\ taken' = Append(taken, s)
        BY <1>3, <3>1 DEF Signal
      <4>2. QED
        BY <2>1, <3>1, <4>1
    <3>2. CASE ~(Registered /\ Len(queue) < ChannelCap)
      <4>1. queue' = queue /\ taken' = taken
        BY <1>3, <3>2 DEF Signal
      <4>2. QED
        BY <4>1
    <3>3. QED
      BY <3>1, <3>2
  <2>4. TypeOK'
    BY <1>3, <2>2, <2>3 DEF Signal
  <2>5. PhaseInv' /\ PortInv' /\ CodeInv' /\ DrainInv'
    BY <1>3 DEF Signal, Registered
  <2>6. QueueInv'
    <3>1. heard' = heard /\ child' = child /\ fwd' = fwd
      BY <1>3 DEF Signal
    <3>2. CASE Registered /\ Len(queue) < ChannelCap
      <4>1. queue' = Append(queue, s) /\ taken' = Append(taken, s) /\ fwd # "off"
        BY <1>3, <3>2 DEF Signal, Registered
      <4>2. QED
        BY <2>1, <3>1, <4>1
    <3>3. CASE ~(Registered /\ Len(queue) < ChannelCap)
      <4>1. queue' = queue /\ taken' = taken
        BY <1>3, <3>3 DEF Signal
      <4>2. QED
        BY <3>1, <4>1
    <3>4. QED
      BY <3>2, <3>3
  <2>7. QED
    BY <2>4, <2>5, <2>6
<1>4. ASSUME KillChild PROVE IInv'
  <2>1. /\ Tail(queue) \in Seq(Signals) /\ Len(Tail(queue)) = Len(queue) - 1
        /\ Append(heard, Head(queue)) \in Seq(Signals)
    BY <1>4, MoveHead, AppendProperties DEF KillChild
  <2>2. childCode' \in -1 .. 255 /\ child' \in {child, "exited"} /\ heard' \in Seq(Signals)
    <3>1. CASE child = "running"
      <4>1. child' = "exited" /\ childCode' = 1 /\ heard' = Append(heard, Head(queue))
        BY <1>4, <3>1 DEF KillChild, TerminatedCode
      <4> HIDE DEF IInv, TypeOK, PhaseInv, PortInv, CodeInv, DrainInv, QueueInv
      <4>2. childCode' \in -1 .. 255
        BY <4>1
      <4>3. QED
        BY <2>1, <4>1, <4>2
    <3>2. CASE child # "running"
      BY <1>4, <3>2 DEF KillChild
    <3>3. QED
      BY <3>1, <3>2
  <2>3. TypeOK'
    BY <1>4, <2>1, <2>2 DEF KillChild
  <2>4. child' = "exited" /\ child # "none" /\ fwd # "off" /\ fwd' = "done"
    BY <1>4 DEF KillChild
  <2>5. PhaseInv' /\ PortInv' /\ DrainInv' /\ QueueInv'
    BY <1>4, <2>4 DEF KillChild
  <2>6. CodeInv'
    BY <1>4 DEF KillChild
  <2>7. QED
    BY <2>3, <2>5, <2>6
<1>5. QED
  BY <1>1, <1>2, <1>3, <1>4

LEMMA ChildStep ==
  ASSUME IInv, ChildExits, UNCHANGED platform PROVE IInv'
<1> USE DEF IInv, ChildExits, ChannelCap, mainVars, srvVars, sigVars
<1>1. childCode' \in -1 .. 255
  BY SessionAssumption DEF KilledCode
<1>2. TypeOK'
  BY <1>1 DEF TypeOK
<1>3. PhaseInv' /\ PortInv' /\ CodeInv' /\ DrainInv' /\ QueueInv'
  BY DEF PhaseInv, PortInv, CodeInv, DrainInv, QueueInv, HasAddr, ExitCodePropagates, Pending
<1>4. QED
  BY <1>2, <1>3

LEMMA HangUpStep ==
  ASSUME IInv, HangUp, UNCHANGED platform PROVE IInv'
  BY DEF HangUp, Rest, IInv, TypeOK, PhaseInv, PortInv, CodeInv, DrainInv, QueueInv, HasAddr,
         ExitCodePropagates, Pending, ChannelCap, srvVars, childVars, sigVars

LEMMA StutterStep ==
  ASSUME IInv, UNCHANGED vars PROVE IInv'
  BY DEF IInv, TypeOK, PhaseInv, PortInv, CodeInv, DrainInv, QueueInv, HasAddr,
         ExitCodePropagates, Pending, ChannelCap, vars, mainVars, srvVars, childVars, sigVars

LEMMA NextIInv == IInv /\ [Next]_vars => IInv'
<1> SUFFICES ASSUME IInv, [Next]_vars PROVE IInv'
  OBVIOUS
<1>1. CASE Alive /\ Goroutines /\ UNCHANGED platform
  BY <1>1, MainStep, ServerStep, ConnStep, SignalStep, HangUpStep DEF Goroutines
<1>2. CASE ChildExits /\ UNCHANGED platform
  BY <1>2, ChildStep
<1>3. CASE Over \/ UNCHANGED vars
  BY <1>3, StutterStep DEF Over
<1>4. QED
  BY <1>1, <1>2, <1>3 DEF Next

LEMMA Invariance == Spec => []IInv
  BY InitIInv, NextIInv, PTL DEF Spec

-----------------------------------------------------------------------------
(* Theorems *)

\* Types of Session's variables (all of main.go:229-282, process.go:124-141).
THEOREM TypeCorrect == Spec => []TypeOK
  BY Invariance, PTL DEF IInv

\* The child never runs beside a live program whose port is closed, unless
\* accepting failed for good (main.go:229-260).
THEOREM ProxyWhileChildRuns == Spec => []ChildHasProxy
<1>1. IInv => ChildHasProxy
  BY DEF IInv, TypeOK, PhaseInv, PortInv, ChildHasProxy, HasAddr, Alive, MainPhases
<1>2. QED
  BY <1>1, Invariance, PTL

\* The exit status is the child's (main.go:273-282, process.go:93-105).
THEOREM ExitStatusIsChilds == Spec => []ExitCodePropagates
  BY Invariance, PTL DEF IInv, CodeInv

\* When Shutdown returns without an error, no handler was in the middle of a
\* request, and none is when the program ends (server.go:133-138).
THEOREM NoRequestCut == Spec => []RequestsDrained
<1>1. IInv => RequestsDrained
  BY DEF IInv, DrainInv, RequestsDrained
<1>2. QED
  BY <1>1, Invariance, PTL

\* Signals reach a running child in order, once each (signals_unix.go:17-33).
THEOREM SignalsForwardedInOrder == Spec => []SignalsInOrder
<1>1. IInv => SignalsInOrder
  BY DEF IInv, QueueInv, SignalsInOrder
<1>2. QED
  BY <1>1, Invariance, PTL

\* process.go:124-141: with signals at any time and on either platform, the
\* child is orphaned only by a signal nobody registers for, or by one that
\* comes before main has registered; once it has, no number of signals will.
THEOREM OrphansOnlyInTheGap == Spec => []OrphansExplained
<1>1. IInv => OrphansExplained
  BY DEF IInv, PhaseInv, QueueInv, OrphansExplained, Alive, MainPhases
<1>2. QED
  BY <1>1, Invariance, PTL

\* The program reports success only for a child that has exited with 0.
SuccessIsReal ==
    main = "exited" /\ status = 0 => child = "exited" /\ childCode = 0

\* main.go:229-282, process.go:93-105: a port that does not open, a name that
\* does not resolve, a child that does not start or cannot be waited for, or
\* that a signal ended, never looks like success.
THEOREM NoFalseSuccess == Spec => []SuccessIsReal
<1>1. Init => SuccessIsReal
  BY DEF Init, SuccessIsReal
<1>2. IInv /\ SuccessIsReal /\ [Next]_vars => SuccessIsReal'
  <2> SUFFICES ASSUME IInv, SuccessIsReal, [Next]_vars PROVE SuccessIsReal'
    OBVIOUS
  <2> USE DEF SuccessIsReal
  <2>1. CASE Exit
    <3>1. child' = child /\ childCode' = childCode
      BY <2>1 DEF Exit, Rest, childVars
    <3>2. status' = IF runErr THEN 1 ELSE code % 256
      BY <2>1 DEF Exit, ExitWith
    <3>3. ~ runErr => child = "exited" /\ code = childCode
      BY <2>1 DEF Exit, IInv, CodeInv
    <3>4. childCode \in -1 .. 255
      BY DEF IInv, TypeOK
    <3>5. ~ runErr /\ status' = 0 => childCode = 0
      BY <3>2, <3>3, <3>4
    <3>6. QED
      BY <3>1, <3>2, <3>3, <3>5
  <2>2. CASE Main /\ ~ Exit
    BY <2>2 DEF Main, Goto, Advance, GiveUp, ShutdownEnds, ExitWith, Spawn, Ready,
       StartupTimeout, Resolve, ResolveFails, Start, StartFails, Notify, Wait,
       WaitFails, CancelSignals, ShutdownFindsNone, Shutdown, Drained, DrainTimesOut
  <2>3. CASE Server
    BY <2>3 DEF Server, ServerGoto, Listen, ListenFails, StoreServer, Serve,
       ServeReturns, ServeFails, mainVars, childVars
  <2>4. CASE Alive /\ (Forward \/ KillChild \/ StopForwarding)
    BY <2>4 DEF Alive, MainPhases, Forward, KillChild, StopForwarding, mainVars
  <2>5. ASSUME NEW c \in Conns, Connect(c) \/ Accept(c) \/ HijackConn(c) \/ EndConn(c)
        PROVE  SuccessIsReal'
    BY <2>5 DEF Connect, Accept, HijackConn, EndConn, ConnGoto, mainVars, childVars
  <2>6. ASSUME NEW s \in Signals, Signal(s) PROVE SuccessIsReal'
    BY <2>6 DEF Signal, childVars
  <2>7. CASE ChildExits \/ HangUp
    BY <2>7 DEF ChildExits, HangUp, mainVars
  <2>8. CASE Over \/ UNCHANGED vars
    BY <2>8 DEF Over, vars, mainVars, childVars
  <2>9. QED
    BY <2>1, <2>2, <2>3, <2>4, <2>5, <2>6, <2>7, <2>8 DEF Next, Goroutines
<1>3. QED
  BY <1>1, <1>2, Invariance, PTL DEF Spec

-----------------------------------------------------------------------------
(* The safety halves of SignalsReachChild and Terminates. *)

\* A signal that the channel took and a running child has not had is in the
\* channel, and the forwarder reads it.
SignalIsOnItsWay ==
    Alive /\ child = "running" /\ Len(heard) < Len(taken) => fwd = "on" /\ queue # <<>>

\* signals_unix.go:17-33, signals_windows.go:17-37: no signal is left in a
\* channel that nobody reads while the child it is for still runs: main stops
\* the forwarder, and on Windows the forwarder itself, only after the child.
THEOREM NoSignalStranded == Spec => []SignalIsOnItsWay
<1>1. IInv => SignalIsOnItsWay
  <2> SUFFICES ASSUME IInv, Alive, child = "running", Len(heard) < Len(taken)
               PROVE  fwd = "on" /\ queue # <<>>
    BY DEF SignalIsOnItsWay
  <2>1. heard \in Seq(Signals) /\ queue \in Seq(Signals) /\ heard \o queue = taken
    BY DEF IInv, TypeOK, QueueInv
  <2>2. Len(taken) = Len(heard) + Len(queue)
    BY <2>1, ConcatProperties
  <2>3. queue # <<>>
    BY <2>1, <2>2
  <2>4. fwd = "on"
    BY <2>3 DEF IInv, TypeOK, PhaseInv, QueueInv
  <2>5. QED
    BY <2>3, <2>4
<1>2. QED
  BY <1>1, Invariance, PTL

\* A step of the forwarder gives a running child one signal more, or ends it.
ForwardingDelivers ==
    child = "running" /\ Len(queue') < Len(queue) =>
        Len(heard') = Len(heard) + 1

\* signals_unix.go:21-25, signals_windows.go:20-27: what leaves the channel
\* while the child runs has reached it.
THEOREM EachReceiptDelivers == Spec => [][ForwardingDelivers]_vars
<1>1. IInv /\ [Next]_vars => ForwardingDelivers
  <2> SUFFICES ASSUME IInv, [Next]_vars, child = "running",
                      Len(queue') < Len(queue)
               PROVE  Len(heard') = Len(heard) + 1
    BY DEF ForwardingDelivers
  <2>1. heard \in Seq(Signals) /\ queue \in Seq(Signals) /\ queue' # queue
    BY DEF IInv, TypeOK
  <2>2. ASSUME Forward \/ KillChild PROVE Len(heard') = Len(heard) + 1
    <3>1. heard' = Append(heard, Head(queue))
      BY <2>2 DEF Forward, KillChild
    <3>2. QED
      BY <2>1, <3>1
  <2>3. ASSUME NEW s \in Signals, Signal(s) PROVE FALSE
    <3>1. queue' = Append(queue, s)
      BY <2>3 DEF Signal
    <3>2. Len(queue') = Len(queue) + 1
      BY <2>1, <3>1
    <3>3. QED
      BY <2>1, <3>2
  <2>4. ASSUME Main \/ Server \/ StopForwarding \/ ChildExits \/ HangUp \/ Over \/ UNCHANGED vars
        PROVE  FALSE
    BY <2>1, <2>4 DEF Main, Goto, Advance, GiveUp, ShutdownEnds, ExitWith, Rest, Spawn, Ready,
       StartupTimeout, Resolve, ResolveFails, Start, StartFails, Notify, Wait,
       WaitFails, CancelSignals, ShutdownFindsNone, Shutdown, Drained, DrainTimesOut,
       Exit, Server, ServerGoto, Listen, ListenFails, StoreServer, Serve,
       ServeReturns, ServeFails, StopForwarding, ChildExits, HangUp, Over, vars, sigVars
  <2>5. ASSUME NEW c \in Conns, Connect(c) \/ Accept(c) \/ HijackConn(c) \/ EndConn(c)
        PROVE  FALSE
    BY <2>1, <2>5 DEF Connect, Accept, HijackConn, EndConn, ConnGoto, sigVars
  <2>6. QED
    BY <2>2, <2>3, <2>4, <2>5 DEF Next, Goroutines
<1>2. QED
  BY <1>1, Invariance, PTL DEF Spec

\* Where main is on its way; a signal that nothing is registered for ends it.
Order ==
    <<"spawn", "wait", "resolve", "start", "notify", "waitChild", "cancel",
      "shutdown", "drain", "exit", "exited", "killed", "hungUp">>

PlaceOf(m) == CHOOSE i \in 1 .. 13 : Order[i] = m

\* A guard of an action of main holds (shutdown and drain have one for each case).
MainRuns == Alive /\ (main = "waitChild" => child = "exited")

\* While the program lives, main waits for nothing but a child that runs,
MainWaitsForChild == Alive /\ ~ MainRuns => child = "running"

\* and its steps lead forwards: there are eleven at most.
MainGoesForward == main' # main => PlaceOf(main') > PlaceOf(main)

\* process.go:124-141, main.go:254-282: nothing that the server, a handler, a
\* client or the operator does or fails to do holds main up.
THEOREM MainIsNotHeldUp == Spec => []MainWaitsForChild /\ [][MainGoesForward]_vars
<1>1. IInv => MainWaitsForChild
  BY DEF IInv, TypeOK, PhaseInv, MainWaitsForChild, MainRuns
<1>2. IInv /\ [Next]_vars => MainGoesForward
  <2> SUFFICES ASSUME IInv, [Next]_vars PROVE MainGoesForward
    OBVIOUS
  <2>1. /\ PlaceOf("spawn") = 1 /\ PlaceOf("wait") = 2 /\ PlaceOf("resolve") = 3
        /\ PlaceOf("start") = 4 /\ PlaceOf("notify") = 5 /\ PlaceOf("waitChild") = 6
        /\ PlaceOf("cancel") = 7 /\ PlaceOf("shutdown") = 8 /\ PlaceOf("drain") = 9
        /\ PlaceOf("exit") = 10 /\ PlaceOf("exited") = 11 /\ PlaceOf("killed") = 12
        /\ PlaceOf("hungUp") = 13
    BY DEF PlaceOf, Order
  <2>2. CASE Main
    BY <2>1, <2>2 DEF MainGoesForward, Main, Goto, Advance, GiveUp, ShutdownEnds,
       ExitWith, Spawn, Ready, StartupTimeout, Resolve, ResolveFails, Start, StartFails,
       Notify, Wait, WaitFails, CancelSignals, ShutdownFindsNone, Shutdown, Drained,
       DrainTimesOut, Exit
  <2>3. CASE Server
    BY <2>3 DEF MainGoesForward, Server, ServerGoto, Listen, ListenFails, StoreServer,
       Serve, ServeReturns, ServeFails, mainVars
  <2>4. CASE Forward \/ KillChild \/ StopForwarding
    BY <2>4 DEF MainGoesForward, Forward, KillChild, StopForwarding, mainVars
  <2>5. ASSUME NEW c \in Conns, Connect(c) \/ Accept(c) \/ HijackConn(c) \/ EndConn(c)
        PROVE  MainGoesForward
    BY <2>5 DEF MainGoesForward, Connect, Accept, HijackConn, EndConn, ConnGoto, mainVars
  <2>6. ASSUME NEW s \in Signals, Alive /\ Signal(s) PROVE MainGoesForward
    BY <2>1, <2>6 DEF MainGoesForward, Signal, Alive, MainPhases
  <2>7. CASE Alive /\ HangUp
    BY <2>1, <2>7 DEF MainGoesForward, HangUp, Alive, MainPhases
  <2>8. CASE ChildExits \/ Over \/ UNCHANGED vars
    BY <2>8 DEF MainGoesForward, ChildExits, Over, vars, mainVars
  <2>9. QED
    BY <2>2, <2>3, <2>4, <2>5, <2>6, <2>7, <2>8 DEF Next, Goroutines
<1>3. QED
  BY <1>1, <1>2, Invariance, PTL DEF Spec
=============================================================================
