---- MODULE GnetTransports ----
(***************************************************************************)
(* The lifecycles of the four gnet transports.  UDP is GnetServer as it    *)
(* is.  UDS also owns a socket file: gnet makes it when it binds and       *)
(* removes it when the engine shuts down, and Stop removes it after        *)
(* closing stopChan.  The dummy transport gives the started channel room   *)
(* for one signal, so that OnInitComplete does not wait for a receiver.    *)
(* TCP, on gnet v2, keeps the engine OnBoot is called with, and its Stop   *)
(* asks that engine to stop and waits until it has or the server's context *)
(* is done; nothing closes its stopChan.                                   *)
(***************************************************************************)
EXTENDS GnetServer

CONSTANT Kinds

ASSUME KindsAssumption == Kinds \subseteq {"udp", "uds", "dummy", "tcp"}

VARIABLES
    kind,        \* which transport this is
    socket,      \* UDS: the socket file exists
    eng,         \* TCP: the engine OnBoot stored, 0 before the first OnBoot
    stopReq,     \* TCP: engines that were asked to stop
    stopping,    \* a Stop is between its two steps: UDS the generation of the
                 \* stopChan it closed, TCP the engine it waits for, else -1
    stopResult,  \* UDS and TCP: what the last Stop returned
    ctxDone      \* TCP: the server's context is done

ownVars == <<kind, socket, eng, stopReq, stopping, stopResult, ctxDone>>
vars == <<serverVars, ownVars>>

Idle == -1

TypeOK ==
    /\ ServerTypeOK
    /\ kind \in Kinds
    /\ socket \in BOOLEAN /\ ctxDone \in BOOLEAN
    /\ eng \in Gens /\ stopping \in Gens \cup {Idle}
    /\ stopReq \in SUBSET Starts
    /\ stopResult \in {"none", "ok", "error"}

Init ==
    /\ NewServer
    /\ kind \in Kinds
    /\ socket = FALSE /\ eng = 0 /\ stopReq = {} /\ stopping = Idle
    /\ stopResult = "none" /\ ctxDone = FALSE

Rest == UNCHANGED ownVars

-----------------------------------------------------------------------------
(* Booting and the start signal.                                            *)

\* gnet has bound the address, for UDS the socket file, when it calls
\* OnInitComplete; OnBoot of TCP stores the engine before it signals.
Boot(g) ==
    /\ OnInitComplete(g)
    /\ socket' = (kind = "uds" \/ socket)
    /\ eng' = IF kind = "tcp" THEN g ELSE eng
    /\ UNCHANGED <<kind, stopReq, stopping, stopResult, ctxDone>>

\* The signal is sent on an unbuffered channel: Start or a waiter takes it.
Signal(g) ==
    /\ kind # "dummy"
    /\ SignalStart(g) \/ \E p \in Waiters : SignalWaiter(g, p)
    /\ Rest

\* Dummy: the send puts the signal into the channel.
SignalBuffered(g) ==
    /\ kind = "dummy" /\ ~panicked /\ engine[g] = "init" /\ started[sendsOn[g]] = "open"
    /\ started' = [started EXCEPT ![sendsOn[g]] = "token"]
    /\ engine' = [engine EXCEPT ![g] = "running"]
    /\ UNCHANGED <<gen, stopClosed, sendsOn, starting, result, waiter, stops, panicked, toStop>>
    /\ Rest

\* Dummy: Start receives the signal and closes the channel.
StartTakesSignal ==
    /\ ~panicked /\ starting # 0 /\ started[starting] = "token"
    /\ started' = [started EXCEPT ![starting] = "closed"]
    /\ StartReturns("ok")
    /\ UNCHANGED <<gen, stopClosed, engine, sendsOn, waiter, stops, panicked, toStop>>
    /\ Rest

\* Dummy: a caller of WaitStarted receives the signal instead.
WaiterTakesSignal(p) ==
    /\ ~panicked /\ waiter[p].at = "waiting" /\ started[waiter[p].on] = "token"
    /\ started' = [started EXCEPT ![waiter[p].on] = "open"]
    /\ waiter' = [waiter EXCEPT ![p].at = "released"]
    /\ UNCHANGED <<gen, stopClosed, engine, sendsOn, starting, result, stops, panicked, toStop>>
    /\ Rest

\* The engine shuts down at a tick; UDS removes the file of its listener.
Shutdown(g) ==
    /\ Tick(g)
    /\ socket' = FALSE
    /\ UNCHANGED <<kind, eng, stopReq, stopping, stopResult, ctxDone>>

-----------------------------------------------------------------------------
(* Stop.                                                                    *)

\* UDP and dummy: Stop only closes stopChan.
Stop ==
    /\ kind \in {"udp", "dummy"}
    /\ CloseStopChan
    /\ Rest

\* UDS: close(s.stopChan).
StopCloses ==
    /\ kind = "uds" /\ stopping = Idle
    /\ CloseStopChan
    /\ stopping' = IF gen \in stopClosed THEN Idle ELSE gen
    /\ UNCHANGED <<kind, socket, eng, stopReq, stopResult, ctxDone>>

\* UDS: os.Remove fails if the file is already gone.
StopRemoves ==
    /\ kind = "uds" /\ ~panicked /\ stopping # Idle
    /\ stopping' = Idle
    /\ stopResult' = IF socket THEN "ok" ELSE "error"
    /\ socket' = FALSE
    /\ UNCHANGED <<serverVars, kind, eng, stopReq, ctxDone>>

Over(g) == engine[g] \in {"ended", "failed"}

\* Mutant: Stop does not wait for the engine it asked to stop.
MutReturnsAtOnce ==
    /\ kind = "tcp" /\ ~panicked /\ stopping = Idle /\ stops < MaxStops
    /\ stops' = stops + 1
    /\ toStop' = toStop \cup Running
    /\ IF eng = 0 \/ (eng # 0 /\ Over(eng))
       THEN stopResult' = "error" /\ UNCHANGED stopReq
       ELSE stopReq' = stopReq \cup {eng} /\ stopResult' = "ok"
    /\ UNCHANGED <<gen, stopClosed, started, engine, sendsOn, starting, result, waiter,
                   panicked, kind, socket, eng, stopping, ctxDone>>

\* TCP: s.eng.Stop(s.ctx), an error if there is no engine or it has shut down.
StopCall ==
    /\ kind = "tcp" /\ ~panicked /\ stopping = Idle /\ stops < MaxStops
    /\ stops' = stops + 1
    /\ toStop' = toStop \cup Running
    /\ IF eng = 0 \/ (eng # 0 /\ Over(eng))
       THEN stopResult' = "error" /\ UNCHANGED <<stopReq, stopping>>
       ELSE /\ stopReq' = stopReq \cup {eng}
            /\ stopping' = eng
            /\ UNCHANGED stopResult
    /\ UNCHANGED <<gen, stopClosed, started, engine, sendsOn, starting, result, waiter,
                   panicked, kind, socket, eng, ctxDone>>

\* TCP: gnet stops an engine that runs and was asked to.
EngineStops(g) ==
    /\ ~panicked /\ engine[g] = "running" /\ g \in stopReq
    /\ engine' = [engine EXCEPT ![g] = "ended"]
    /\ UNCHANGED <<gen, stopClosed, started, sendsOn, starting, result, waiter, stops,
                   panicked, toStop>>
    /\ Rest

\* A TCP Stop returns with r.
StopReturnsWith(r) ==
    /\ stopping' = Idle
    /\ stopResult' = r
    /\ UNCHANGED <<serverVars, kind, socket, eng, stopReq, ctxDone>>

\* TCP: the engine has shut down, Stop returns nil.
StopDone ==
    kind = "tcp" /\ ~panicked /\ stopping # Idle /\ Over(stopping) /\ StopReturnsWith("ok")

\* TCP: the context is done first, Stop returns its error.
StopCancelled ==
    kind = "tcp" /\ ~panicked /\ stopping # Idle /\ ctxDone /\ StopReturnsWith("error")

\* Whoever owns the context cancels it.
Cancel ==
    /\ kind = "tcp" /\ ~ctxDone
    /\ ctxDone' = TRUE
    /\ UNCHANGED <<serverVars, kind, socket, eng, stopReq, stopping, stopResult>>

-----------------------------------------------------------------------------

Engine(g) ==
    \/ Boot(g) \/ Signal(g) \/ SignalBuffered(g) \/ Shutdown(g) \/ EngineStops(g)
    \/ (ServeFails(g) \/ SignalPanics(g)) /\ Rest

Next ==
    \/ (StartCall \/ StartError \/ StartSeesEnd \/ StartTimeout) /\ Rest
    \/ StartTakesSignal
    \/ \E g \in Starts : Engine(g)
    \/ \E p \in Waiters : (WaitStarted(p) \/ WaiterSeesClose(p)) /\ Rest
    \/ \E p \in Waiters : WaiterTakesSignal(p)
    \/ Stop \/ StopCloses \/ StopRemoves
    \/ StopCall \/ StopDone \/ StopCancelled \/ Cancel

\* gnet calls OnInitComplete and Tick and serves the stop requests of running
\* engines, timers fire, channel operations that can go on do; nobody has to
\* call Start, Stop or WaitStarted.
Fairness ==
    /\ WF_vars((StartError \/ StartSeesEnd) /\ Rest) /\ WF_vars(StartTimeout /\ Rest)
    /\ \A g \in Starts :
        /\ WF_vars(Boot(g)) /\ WF_vars(Signal(g) \/ SignalBuffered(g))
        /\ WF_vars(Shutdown(g)) /\ WF_vars(EngineStops(g))
    /\ WF_vars(StopRemoves) /\ WF_vars(StopDone)

Spec == Init /\ [][Next]_vars

FairSpec == Spec /\ Fairness

-----------------------------------------------------------------------------

\* The engine of Start g has got past OnInitComplete.
Booted(g) ==
    engine[g] \in {"running", "ended"} \/ (engine[g] = "failed" /\ sendsOn[g] # 0)

NoTimeout == \A g \in Starts : result[g] # "timeout"

\* Nobody is told that the server is up before an engine is: neither a caller
\* of Start that gets nil nor a goroutine that waited on WaitStarted; and as
\* long as no Start has timed out, the engine is the one of that Start.
UpMeansBooted ==
    /\ \A p \in Waiters : waiter[p].at = "released" => \E g \in Starts : Booted(g)
    /\ \A g \in Starts : result[g] = "ok" =>
          /\ \E h \in Starts : Booted(h)
          /\ NoTimeout => Booted(g)

\* Only a second Stop, or the engine of a Start that had timed out, closes or
\* sends on a closed channel.
PanicNeedsMisuse == panicked => stops >= 2 \/ ~NoTimeout

\* UDP, UDS, dummy: a running engine that Stop was called for shuts down,
\* unless Start is called again before its next tick.
StopEndsEngine ==
    \A g \in Starts :
        kind # "tcp" /\ g \in toStop /\ gen = g ~> Over(g) \/ gen # g \/ panicked

\* Start returns, also when its engine never signals or when a waiter took
\* the signal.
StartAlwaysReturns == \A g \in Starts : starting = g ~> starting # g \/ panicked

\* UDS: a Stop that returned nil has removed the socket file, and nothing makes
\* it again before the next Start.
SocketStaysRemoved == stopResult = "ok" /\ gen = 1 => ~socket

\* UDS: once Stop has been called for a running server the file disappears, the
\* tick and Stop racing to remove it, unless Start is called again.
SocketDisappears ==
    kind = "uds" /\ toStop # {} /\ gen = 1 ~> ~socket \/ gen # 1 \/ panicked

\* Dummy: the engine of a Start that timed out before gnet was ready still comes
\* up and can be stopped, unless Start is called again: nothing leaves it
\* hanging in OnInitComplete.
LateBootCanBeStopped ==
    kind = "dummy" /\ engine[1] \in {"init", "running"} /\ gen = 1 /\ 1 \in stopClosed
        ~> Over(1) \/ gen # 1 \/ panicked

\* Dummy: a closed channel means that Start has taken a signal sent on it; and
\* as long as no Start has timed out, the one signal of an engine is never
\* delivered twice.
SignalDeliveredOnce ==
    kind = "dummy" => \A g \in Starts :
        LET got == {p \in Waiters : waiter[p] = [at |-> "released", on |-> g]}
        IN  /\ started[g] = "closed" => result[g] = "ok" /\ \E h \in Starts : sendsOn[h] = g
            /\ NoTimeout =>
                  /\ started[g] = "token" => got = {}
                  /\ started[g] = "open" => Cardinality(got) <= 1

\* TCP: with one Start, a Stop that returned nil leaves no engine running,
\* whoever consumed the start signal and whether or not Start timed out.  (After
\* a second one it may be another engine that Stop has ended.)
StopIsSynchronous == kind = "tcp" /\ stopResult = "ok" /\ gen = 1 => Running = {}

\* TCP: a Stop that waits for a running engine returns.
StopReturns ==
    \A g \in Starts :
        kind = "tcp" /\ stopping = g /\ engine[g] = "running" ~> stopping # g \/ panicked

\* TCP: the running engine is the one Stop asks to shut down, also after further
\* Starts, unless one of them has got to OnBoot as well: a Start whose engine
\* fails before, since the address is taken, does not make Stop forget it.
RunningEngineKnown ==
    kind = "tcp" => \A g \in Running :
        (\A h \in Starts \ {g} : sendsOn[h] = 0) => eng = g

\* What callers of Start, Stop and WaitStarted were told agrees with the engines
\* and the socket file: nobody hears that the server is up before some engine is
\* (before his own, if no Start has timed out); until then, too, one signal of a
\* dummy engine goes to one receiver; Stop has the running TCP engine, unless two
\* have booted; and with one Start a Stop that returned nil has ended it (TCP), or
\* the socket file stays away (UDS).
LifecycleInv ==
    /\ TypeOK /\ SignalDeliveredOnce /\ UpMeansBooted
    /\ RunningEngineKnown /\ StopIsSynchronous /\ SocketStaysRemoved

\* A Stop has its effect in the end, whoever it races with: the engines it was
\* called for shut down, an engine that boots late can be stopped, the socket
\* file goes, and a Stop that waits returns.
StopTakesEffect == StopEndsEngine /\ LateBootCanBeStopped /\ SocketDisappears /\ StopReturns
====
