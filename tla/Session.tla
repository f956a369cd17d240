------------------------------ MODULE Session ------------------------------
(***************************************************************************)
(* One run of the program: runRootCmd (cmd/stellaris-auth/main.go:144-283) *)
(* from the moment it has a proxy.Server to its exit, the goroutine in     *)
(* ListenAndServe (internal/proxy/server.go), the child and the goroutine  *)
(* that forwards signals to it (internal/runner), connections to the proxy *)
(* and the operator who sends signals.                                     *)
(***************************************************************************)
EXTENDS Integers, Sequences

CONSTANTS
    Platforms,  \* what the program may have been built for
    Conns,      \* connections to the proxy
    ExitCodes,  \* codes with which a child may exit
    MaxSignals  \* bound on the signals the operator sends

MainPhases ==
    {"spawn", "wait", "resolve", "start", "notify", "waitChild", "cancel",
     "shutdown", "drain", "exit"}

ASSUME SessionAssumption ==
    /\ Platforms \subseteq {"unix", "windows"}
    /\ ExitCodes \subseteq 0 .. 255
    /\ MaxSignals \in Nat

VARIABLES
    platform, \* unix or windows
    main,     \* where main is; exited, killed by a signal, or hung up
    code,     \* what Run returned
    runErr,   \* Run returned an error
    down,     \* what Shutdown found or did
    status,   \* the exit status of the process
    srv,      \* where the goroutine in ListenAndServe is
    open,     \* the port is open
    closing,  \* http.Server.inShutdown
    child,    \* the child process
    childCode,
    fwd,      \* the forwarding goroutine
    queue,    \* its channel of signals
    heard,    \* the signals the forwarder acted on, in order
    taken,    \* the signals the channel took, in order
    nsig,     \* how many signals the operator sent
    conn      \* the state of each connection

mainVars == <<main, code, runErr, down, status>>
srvVars == <<srv, open, closing>>
childVars == <<child, childCode>>
sigVars == <<fwd, queue, heard, taken, nsig>>
vars == <<platform, mainVars, srvVars, childVars, sigVars, conn>>

\* The signals the program registers for; see HangUp for the others.
Signals == {"INT", "TERM"}
ChannelCap == IF platform = "unix" THEN 2 ELSE 1

\* ExitError.ExitCode of a child that a signal killed, and of one that Kill
\* ended on Windows.
KilledCode == -1
TerminatedCode == 1

Init ==
    /\ platform \in Platforms
    /\ main = "spawn" /\ code = 0 /\ runErr = FALSE /\ down = "no" /\ status = 0
    /\ srv = "off" /\ open = FALSE /\ closing = FALSE
    /\ child = "none" /\ childCode = 0
    /\ fwd = "off" /\ queue = <<>> /\ heard = <<>> /\ taken = <<>> /\ nsig = 0
    /\ conn = [c \in Conns |-> "none"]

Alive == main \in MainPhases

Goto(from, to) == main = from /\ main' = to

\* The process ends: its goroutines stop where they are.
ExitWith(s) == main' = "exited" /\ status' = s

\* main is on its own: the rest of the program and the world stand still.
Rest == UNCHANGED <<srvVars, childVars, sigVars, conn>>

Advance(from, to) == Goto(from, to) /\ UNCHANGED <<code, runErr, down, status>> /\ Rest

GiveUp(from) == main = from /\ ExitWith(1) /\ UNCHANGED <<code, runErr, down>> /\ Rest

-----------------------------------------------------------------------------
(* main: runRootCmd and Runner.Run.  Operators named for what they get      *)
(* wrong are no part of Next.                                               *)

Spawn ==
    /\ Goto("spawn", "wait")
    /\ srv' = "listen"
    /\ UNCHANGED <<code, runErr, down, status, open, closing, childVars, sigVars, conn>>

\* Server.Addr: the pointer to the listener is stored.
HasAddr == srv \notin {"off", "listen", "unbound"}

ReadyAtOnce == Advance("wait", "resolve")

Ready == HasAddr /\ Advance("wait", "resolve")

\* Five seconds of polling; the error of ListenAndServe is not looked at.
StartupTimeout == GiveUp("wait")

Resolve == Advance("resolve", "start")

ResolveFails == GiveUp("resolve")

Start ==
    /\ Goto("start", "notify")
    /\ child' = "running"
    /\ UNCHANGED <<code, runErr, down, status, srvVars, childCode, sigVars, conn>>

StartFails ==
    /\ Goto("start", "shutdown")
    /\ code' = 1 /\ runErr' = TRUE
    /\ UNCHANGED <<down, status>> /\ Rest

\* setupSignalForwarding: from here on a signal does not end the process.
Notify ==
    /\ Goto("notify", "waitChild")
    /\ fwd' = "on"
    /\ UNCHANGED <<code, runErr, down, status, srvVars, childVars, queue, heard, taken, nsig, conn>>

\* Run gives up waiting when the first signal is forwarded.
WaitUntilSignal ==
    /\ Goto("waitChild", "cancel")
    /\ child = "exited" \/ heard # <<>>
    /\ code' = childCode
    /\ UNCHANGED <<runErr, down, status>> /\ Rest

Wait ==
    /\ Goto("waitChild", "cancel")
    /\ child = "exited"
    /\ code' = childCode
    /\ UNCHANGED <<runErr, down, status>> /\ Rest

\* wait4 has no status to give (SIGCHLD was ignored by whoever started us).
WaitFails ==
    /\ Goto("waitChild", "cancel")
    /\ child = "exited"
    /\ code' = 1 /\ runErr' = TRUE
    /\ UNCHANGED <<down, status>> /\ Rest

CancelSignals ==
    /\ Goto("cancel", "shutdown")
    /\ fwd' = IF fwd = "on" THEN "cancelled" ELSE fwd
    /\ UNCHANGED <<code, runErr, down, status, srvVars, childVars, queue, heard, taken, nsig, conn>>

\* The connections that nobody has accepted when the port closes are reset.
ResetBacklog ==
    conn' = [c \in Conns |-> IF conn[c] = "backlog" THEN "closed" ELSE conn[c]]

\* http.Server.Shutdown closes the listener if Serve has registered it.
Shutdown ==
    /\ Goto("shutdown", "drain")
    /\ srv # "bound"
    /\ closing' = TRUE
    /\ IF srv = "stored" THEN UNCHANGED <<open, conn>> ELSE open' = FALSE /\ ResetBacklog
    /\ UNCHANGED <<code, runErr, down, status, srv, childVars, sigVars>>

ShutdownEnds(from, how) ==
    /\ Goto(from, "exit")
    /\ down' = how
    /\ UNCHANGED <<code, runErr, status>> /\ Rest

\* Server.Shutdown returns at once when no http.Server is stored yet.
ShutdownFindsNone == srv = "bound" /\ ShutdownEnds("shutdown", "noServer")

Pending == {c \in Conns : conn[c] = "pending"}

DrainedAtOnce == ShutdownEnds("drain", "drained")

Drained == Pending = {} /\ ShutdownEnds("drain", "drained")

\* A context without a deadline.
DrainNeverTimesOut == Pending = {} /\ ShutdownEnds("drain", "timedOut")

\* Five seconds are over: the error is logged.
DrainTimesOut == Pending # {} /\ ShutdownEnds("drain", "timedOut")

\* Exit without a look at the result of a run that succeeded.
ExitZero ==
    /\ main = "exit"
    /\ ExitWith(IF runErr THEN 1 ELSE 0)
    /\ UNCHANGED <<code, runErr, down>> /\ Rest

\* An exit status wider than eight bits.
ExitRaw ==
    /\ main = "exit"
    /\ ExitWith(IF runErr THEN 1 ELSE code)
    /\ UNCHANGED <<code, runErr, down>> /\ Rest

\* cobra turns an error into 1; os.Exit keeps eight bits.
Exit ==
    /\ main = "exit"
    /\ ExitWith(IF runErr THEN 1 ELSE code % 256)
    /\ UNCHANGED <<code, runErr, down>> /\ Rest

Main ==
    \/ Spawn \/ Ready \/ StartupTimeout \/ Resolve \/ ResolveFails
    \/ Start \/ StartFails \/ Notify \/ Wait \/ WaitFails \/ CancelSignals
    \/ ShutdownFindsNone \/ Shutdown \/ Drained \/ DrainTimesOut \/ Exit

-----------------------------------------------------------------------------
(* ListenAndServe, and the goroutines that serve connections *)

ServerGoto(from, to) ==
    srv = from /\ srv' = to /\ UNCHANGED <<mainVars, closing, childVars, sigVars>>

Listen == ServerGoto("listen", "bound") /\ open' = TRUE /\ UNCHANGED conn

ListenFails == ServerGoto("listen", "unbound") /\ UNCHANGED <<open, conn>>

StoreServer == ServerGoto("bound", "stored") /\ UNCHANGED <<open, conn>>

Serve == ~closing /\ ServerGoto("stored", "serving") /\ UNCHANGED <<open, conn>>

ClosePort == open' = FALSE /\ ResetBacklog

\* ErrServerClosed: Serve sees inShutdown at its start or after Accept.
ServeReturns ==
    /\ closing
    /\ ServerGoto("stored", "stopped") \/ ServerGoto("serving", "stopped")
    /\ ClosePort

\* Accept fails for good; main learns of it only after the child has exited.
ServeFails == ServerGoto("serving", "failed") /\ ClosePort

Server == Listen \/ ListenFails \/ StoreServer \/ Serve \/ ServeReturns \/ ServeFails

ConnGoto(c, from, to) ==
    /\ conn[c] = from
    /\ conn' = [conn EXCEPT ![c] = to]
    /\ UNCHANGED <<mainVars, srvVars, childVars, sigVars>>

Connect(c) == open /\ ConnGoto(c, "none", "backlog")

Accept(c) == srv = "serving" /\ open /\ ConnGoto(c, "backlog", "pending")

\* A handler takes the connection over: http.Server no longer counts it.
HijackConn(c) == ConnGoto(c, "pending", "hijacked")

\* The handler answers 405 or 502, or an established session ends.
EndConn(c) == ConnGoto(c, "pending", "closed") \/ ConnGoto(c, "hijacked", "closed")

-----------------------------------------------------------------------------
(* Signals, and the child *)

\* Forwarding that goes on holding the signal it has delivered.
ForwardAgain ==
    /\ platform = "unix" /\ fwd \in {"on", "cancelled"}
    /\ queue # <<>>
    /\ heard' = IF child = "running" /\ Len(heard) < MaxSignals
                THEN Append(heard, Head(queue)) ELSE heard
    /\ UNCHANGED <<mainVars, srvVars, childVars, fwd, queue, taken, nsig, conn>>

\* One signal and no more.
ForwardOnce ==
    /\ platform = "unix" /\ fwd = "on"
    /\ heard = <<>>
    /\ queue # <<>>
    /\ queue' = Tail(queue)
    /\ heard' = IF child = "running" THEN Append(heard, Head(queue)) ELSE heard
    /\ UNCHANGED <<mainVars, srvVars, childVars, fwd, taken, nsig, conn>>

\* Process.Signal of a child that is gone is ErrProcessDone, ignored.
Forward ==
    /\ platform = "unix" /\ fwd \in {"on", "cancelled"}
    /\ queue # <<>>
    /\ queue' = Tail(queue)
    /\ heard' = IF child = "running" THEN Append(heard, Head(queue)) ELSE heard
    /\ UNCHANGED <<mainVars, srvVars, childVars, fwd, taken, nsig, conn>>

\* The goroutine ends although Kill has failed.
KillFails ==
    /\ platform = "windows" /\ fwd \in {"on", "cancelled"}
    /\ queue # <<>>
    /\ queue' = Tail(queue) /\ heard' = Append(heard, Head(queue))
    /\ fwd' = "done"
    /\ UNCHANGED <<mainVars, srvVars, childVars, taken, nsig, conn>>

\* On Windows the first signal kills the child and ends the goroutine.
KillChild ==
    /\ platform = "windows" /\ fwd \in {"on", "cancelled"}
    /\ queue # <<>>
    /\ queue' = Tail(queue)
    /\ fwd' = "done"
    /\ IF child = "running"
       THEN /\ child' = "exited" /\ childCode' = TerminatedCode
            /\ heard' = Append(heard, Head(queue))
       ELSE UNCHANGED <<childVars, heard>>
    /\ UNCHANGED <<mainVars, srvVars, taken, nsig, conn>>

\* The select takes done, perhaps before what is left in the channel; signal.Stop.
StopForwarding ==
    /\ fwd \in {"cancelled", "done"} /\ fwd' = "stopped"
    /\ UNCHANGED <<mainVars, srvVars, childVars, queue, heard, taken, nsig, conn>>

Registered == fwd \in {"on", "cancelled", "done"}

\* A Windows program has no other signal to send; a console that closes ends
\* the child as well.
Sent(s) == platform = "unix" \/ s = "INT"

\* The runtime drops a signal when the channel is full, and ends the process
\* when nothing is registered.
Signal(s) ==
    /\ nsig < MaxSignals /\ Sent(s)
    /\ nsig' = nsig + 1
    /\ main' = IF Registered THEN main ELSE "killed"
    /\ IF Registered /\ Len(queue) < ChannelCap
       THEN queue' = Append(queue, s) /\ taken' = Append(taken, s)
       ELSE UNCHANGED <<queue, taken>>
    /\ UNCHANGED <<code, runErr, down, status, srvVars, childVars, fwd, heard, conn>>

\* SIGHUP, SIGQUIT and SIGKILL, for which nothing is ever registered, and a
\* program that is ended on Windows: the default action, in any phase.
HangUp ==
    /\ main' = "hungUp"
    /\ UNCHANGED <<code, runErr, down, status>> /\ Rest

ChildExits ==
    /\ child = "running" /\ child' = "exited"
    /\ childCode' \in ExitCodes \union (IF platform = "unix" THEN {KilledCode} ELSE {})
    /\ UNCHANGED <<mainVars, srvVars, sigVars, conn>>

-----------------------------------------------------------------------------

Over ==
    /\ ~Alive /\ child # "running"
    /\ UNCHANGED vars

Goroutines ==
    \/ Main \/ Server \/ Forward \/ KillChild \/ StopForwarding
    \/ \E c \in Conns : Connect(c) \/ Accept(c) \/ HijackConn(c) \/ EndConn(c)
    \/ \E s \in Signals : Signal(s)
    \/ HangUp

Next ==
    \/ Alive /\ Goroutines /\ UNCHANGED platform
    \/ ChildExits /\ UNCHANGED platform
    \/ Over

\* Goroutines and timers of a live process run; nothing is promised of the
\* child, of clients, or of how long a handler takes.
Spec ==
    /\ Init /\ [][Next]_vars
    /\ WF_vars(Alive /\ Main /\ UNCHANGED platform)
    /\ WF_vars(Alive /\ Server /\ UNCHANGED platform)
    /\ WF_vars(Alive /\ (Forward \/ KillChild) /\ UNCHANGED platform)

-----------------------------------------------------------------------------
(* Properties *)

\* Types of the variables.
TypeOK ==
    /\ platform \in Platforms
    /\ main \in MainPhases \union {"exited", "killed", "hungUp"}
    /\ code \in -1 .. 255 /\ runErr \in BOOLEAN
    /\ down \in {"no", "noServer", "drained", "timedOut"}
    /\ status \in 0 .. 255
    /\ srv \in {"off", "listen", "unbound", "bound", "stored", "serving", "stopped", "failed"}
    /\ open \in BOOLEAN /\ closing \in BOOLEAN
    /\ child \in {"none", "running", "exited"} /\ childCode \in -1 .. 255
    /\ fwd \in {"off", "on", "cancelled", "done", "stopped"}
    /\ queue \in Seq(Signals) /\ Len(queue) <= ChannelCap
    /\ heard \in Seq(Signals) /\ taken \in Seq(Signals)
    /\ nsig \in 0 .. MaxSignals
    /\ conn \in [Conns -> {"none", "backlog", "pending", "hijacked", "closed"}]

\* main.go:229-240, 254-260: while the child runs and the program lives, the
\* port it was told of is open, unless accepting failed for good.
ChildHasProxy ==
    child = "running" /\ Alive => open \/ srv = "failed"

\* README.md:69: the exit status is the child's: the program fails when the
\* child fails and succeeds when it succeeds.
ExitCodePropagates ==
    main = "exited" /\ ~runErr /\ child # "none" =>
        child = "exited" /\ status = childCode % 256

\* server.go:131-132: unless its context expires, Shutdown lets every request
\* that is being handled (and not taken over) finish before the program ends.
RequestsDrained ==
    main = "exited" /\ down = "drained" => Pending = {}

\* signals_unix.go:19-25, signals_windows.go:19-27: the forwarder acts on the
\* signals the channel took, in their order and on each once, until the child
\* exits: on Windows by its own hand, at the first of them.
SignalsInOrder ==
    child = "running" => heard \o queue = taken

\* process.go:124-141: a child is left without its proxy and its parent only
\* by a signal that nothing is ever registered for, or by one that finds the
\* forwarding not yet set up: never by the second, the third or the one that
\* finds the channel full, and on Windows not by one after the forwarder's end.
OrphansExplained ==
    child = "running" =>
        \/ Alive
        \/ main = "hungUp"
        \/ main = "killed" /\ fwd = "off" /\ taken = <<>>

\* server.go:131: Shutdown drains active connections honouring its context.
AllConnectionsDrained ==
    main = "exited" /\ down = "drained" =>
        \A c \in Conns : conn[c] \notin {"pending", "hijacked"}

\* main.go:254-282: once the child has exited, so does the program, however
\* long handlers and clients take.
Terminates == child = "exited" ~> ~Alive

\* signals_unix.go:19-25, signals_windows.go:19-27: a signal the channel took
\* reaches the child, or the child or the program is gone before.
SignalsReachChild ==
    \A k \in 1 .. MaxSignals :
        Len(taken) >= k ~> (Len(heard) >= k \/ child # "running" \/ ~Alive)
=============================================================================
