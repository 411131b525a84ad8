---- MODULE GnetServer ----
(***************************************************************************)
(* What the gnet transports (UDP, UDS, TCP, dummy) have in common: Start   *)
(* replaces the stopChan and started fields, runs the engine in a          *)
(* goroutine and waits for its signal, for its error or for two seconds;   *)
(* other goroutines wait on the channel WaitStarted returned; Tick and     *)
(* OnInitComplete read the fields again whenever gnet calls them.  The     *)
(* channels a call of Start makes, and the engine it runs, are known by    *)
(* the number of that call; generation 0 is what NewServer made.           *)
(* The actions are mapped to transports/udp/server.go; the module that     *)
(* extends this one adds what differs.                                     *)
(***************************************************************************)
EXTENDS Integers, FiniteSets

CONSTANTS
    MaxStarts,   \* bound: calls of Start (one at a time)
    MaxStops,    \* bound: calls of Stop
    Waiters      \* goroutines that call WaitStarted

ASSUME BoundsAssumption == MaxStarts \in Nat /\ MaxStops \in Nat

VARIABLES
    gen,         \* the generation the stopChan and started fields hold
    stopClosed,  \* generations whose stopChan is closed
    started,     \* state of each generation's started channel
    engine,      \* state of the gnet engine each Start runs
    sendsOn,     \* the generation of the channel an engine is sending on
    starting,    \* the Start that is in its select, or 0
    result,      \* what each Start returned
    waiter,      \* what each waiter is doing, and on which channel
    stops,       \* calls of Stop so far
    panicked,    \* a closed channel was closed or sent on
    toStop       \* history: engines that were running when Stop was called

serverVars == <<gen, stopClosed, started, engine, sendsOn, starting, result,
                waiter, stops, panicked, toStop>>

Starts == 1 .. MaxStarts
Gens   == 0 .. MaxStarts

ServerTypeOK ==
    /\ gen \in Gens /\ starting \in Gens
    /\ stopClosed \in SUBSET Gens
    /\ started \in [Gens -> {"open", "token", "closed"}]
    /\ engine \in [Starts -> {"none", "booting", "init", "running", "failed", "ended"}]
    /\ sendsOn \in [Starts -> Gens]
    /\ result \in [Starts -> {"none", "ok", "error", "timeout"}]
    /\ waiter \in [Waiters -> [at : {"idle", "waiting", "released"}, on : Gens]]
    /\ stops \in 0 .. MaxStops
    /\ panicked \in BOOLEAN
    /\ toStop \in SUBSET Starts
    /\ starting # 0 => starting = gen /\ result[starting] = "none"

\* NewServer makes the two channels and no engine.
NewServer ==
    /\ gen = 0 /\ stopClosed = {} /\ starting = 0 /\ stops = 0
    /\ started = [g \in Gens |-> "open"]
    /\ engine = [g \in Starts |-> "none"]
    /\ sendsOn = [g \in Starts |-> 0]
    /\ result = [g \in Starts |-> "none"]
    /\ waiter = [p \in Waiters |-> [at |-> "idle", on |-> 0]]
    /\ panicked = FALSE /\ toStop = {}

-----------------------------------------------------------------------------
(* Start.                                                                   *)

\* New channels, and a goroutine that calls gnet.Serve.
StartCall ==
    /\ ~panicked /\ starting = 0 /\ gen < MaxStarts
    /\ gen' = gen + 1
    /\ starting' = gen + 1
    /\ engine' = [engine EXCEPT ![gen + 1] = "booting"]
    /\ UNCHANGED <<stopClosed, started, sendsOn, result, waiter, stops, panicked, toStop>>

\* The select of Start is over, with result r.
StartReturns(r) ==
    /\ result' = [result EXCEPT ![starting] = r]
    /\ starting' = 0

\* Mutant: Start closes stopChan when it returns an error.
MutErrorClosesStop ==
    /\ ~panicked /\ starting # 0 /\ engine[starting] = "failed"
    /\ StartReturns("error")
    /\ stopClosed' = stopClosed \cup {gen}
    /\ UNCHANGED <<gen, started, engine, sendsOn, waiter, stops, panicked, toStop>>

\* case err := <-errChan with an error from gnet.Serve
StartError ==
    /\ ~panicked /\ starting # 0 /\ engine[starting] = "failed"
    /\ StartReturns("error")
    /\ UNCHANGED <<gen, stopClosed, started, engine, sendsOn, waiter, stops, panicked, toStop>>

\* case err := <-errChan after gnet.Serve returned nil and closed it
StartSeesEnd ==
    /\ ~panicked /\ starting # 0 /\ engine[starting] = "ended"
    /\ StartReturns("ok")
    /\ UNCHANGED <<gen, stopClosed, started, engine, sendsOn, waiter, stops, panicked, toStop>>

\* Mutant: the timer only covers the time before OnInitComplete.
MutTimerBeforeInit ==
    /\ ~panicked /\ starting # 0 /\ engine[starting] = "booting"
    /\ StartReturns("timeout")
    /\ UNCHANGED <<gen, stopClosed, started, engine, sendsOn, waiter, stops, panicked, toStop>>

\* case <-time.After(2 * time.Second)
StartTimeout ==
    /\ ~panicked /\ starting # 0
    /\ StartReturns("timeout")
    /\ UNCHANGED <<gen, stopClosed, started, engine, sendsOn, waiter, stops, panicked, toStop>>

-----------------------------------------------------------------------------
(* The engine.                                                              *)

\* gnet.Serve fails: the address is taken, an event loop does not start.
ServeFails(g) ==
    /\ ~panicked /\ engine[g] \in {"booting", "running"}
    /\ engine' = [engine EXCEPT ![g] = "failed"]
    /\ UNCHANGED <<gen, stopClosed, started, sendsOn, starting, result, waiter, stops,
                   panicked, toStop>>

\* gnet calls OnInitComplete, which is about to send on the started channel
\* the field holds now.
OnInitComplete(g) ==
    /\ ~panicked /\ engine[g] = "booting"
    /\ engine' = [engine EXCEPT ![g] = "init"]
    /\ sendsOn' = [sendsOn EXCEPT ![g] = gen]
    /\ UNCHANGED <<gen, stopClosed, started, starting, result, waiter, stops, panicked, toStop>>

\* The send meets the receive of Start, which then closes the channel.
SignalStart(g) ==
    /\ ~panicked /\ engine[g] = "init"
    /\ starting # 0 /\ sendsOn[g] = starting /\ started[starting] = "open"
    /\ started' = [started EXCEPT ![starting] = "closed"]
    /\ engine' = [engine EXCEPT ![g] = "running"]
    /\ StartReturns("ok")
    /\ UNCHANGED <<gen, stopClosed, sendsOn, waiter, stops, panicked, toStop>>

\* The send meets the receive of somebody who called WaitStarted.
SignalWaiter(g, p) ==
    /\ ~panicked /\ engine[g] = "init"
    /\ waiter[p] = [at |-> "waiting", on |-> sendsOn[g]] /\ started[sendsOn[g]] = "open"
    /\ waiter' = [waiter EXCEPT ![p].at = "released"]
    /\ engine' = [engine EXCEPT ![g] = "running"]
    /\ UNCHANGED <<gen, stopClosed, started, sendsOn, starting, result, stops, panicked, toStop>>

\* A send on a channel that Start has already closed.
SignalPanics(g) ==
    /\ ~panicked /\ engine[g] = "init" /\ started[sendsOn[g]] = "closed"
    /\ panicked' = TRUE
    /\ UNCHANGED <<gen, stopClosed, started, engine, sendsOn, starting, result, waiter, stops,
                   toStop>>

\* Mutant: Tick watches the stopChan that NewServer made.
MutTickOldChannel(g) ==
    /\ ~panicked /\ engine[g] = "running" /\ 0 \in stopClosed
    /\ engine' = [engine EXCEPT ![g] = "ended"]
    /\ UNCHANGED <<gen, stopClosed, started, sendsOn, starting, result, waiter, stops,
                   panicked, toStop>>

\* gnet calls Tick once a second: Shutdown if the stopChan the field holds
\* now is closed.
Tick(g) ==
    /\ ~panicked /\ engine[g] = "running" /\ gen \in stopClosed
    /\ engine' = [engine EXCEPT ![g] = "ended"]
    /\ UNCHANGED <<gen, stopClosed, started, sendsOn, starting, result, waiter, stops,
                   panicked, toStop>>

-----------------------------------------------------------------------------
(* WaitStarted and Stop.                                                    *)

\* The caller gets the channel the field holds now and receives from it.
WaitStarted(p) ==
    /\ ~panicked /\ waiter[p].at = "idle"
    /\ waiter' = [waiter EXCEPT ![p] = [at |-> "waiting", on |-> gen]]
    /\ UNCHANGED <<gen, stopClosed, started, engine, sendsOn, starting, result, stops,
                   panicked, toStop>>

\* A receive from a closed channel returns.
WaiterSeesClose(p) ==
    /\ ~panicked /\ waiter[p].at = "waiting" /\ started[waiter[p].on] = "closed"
    /\ waiter' = [waiter EXCEPT ![p].at = "released"]
    /\ UNCHANGED <<gen, stopClosed, started, engine, sendsOn, starting, result, stops,
                   panicked, toStop>>

\* The engines a call of Stop is about.
Running == {g \in Starts : engine[g] = "running"}

\* Stop closes the stopChan the field holds; closing it twice panics.
CloseStopChan ==
    /\ ~panicked /\ stops < MaxStops
    /\ stops' = stops + 1
    /\ toStop' = toStop \cup Running
    /\ IF gen \in stopClosed
       THEN panicked' = TRUE /\ UNCHANGED stopClosed
       ELSE stopClosed' = stopClosed \cup {gen} /\ UNCHANGED panicked
    /\ UNCHANGED <<gen, started, engine, sendsOn, starting, result, waiter>>
====
