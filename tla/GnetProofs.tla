---- MODULE GnetProofs ----
(***************************************************************************)
(* Proofs about the gnet transports, in two parts: their lifecycles, and   *)
(* the requests they serve.                                                *)
(***************************************************************************)
EXTENDS GnetTransports, GnetRequests, MessagesProofs, FiniteSetTheorems

-----------------------------------------------------------------------------
(***************************************************************************)
(* The lifecycles, for any number of Starts, Stops and waiters: who may be *)
(* told that a server is up, when a channel operation panics, and what a   *)
(* Stop that returned nil leaves.                                          *)
(***************************************************************************)

(* The inductive invariant.                                                 *)

\* A Start that was not called has no engine and no result; an engine sends on
\* a channel from OnInitComplete on.
EnginesKnown ==
    \A g \in Starts :
        /\ g > gen => engine[g] = "none" /\ result[g] = "none"
        /\ engine[g] \in {"none", "booting"} => sendsOn[g] = 0
        /\ engine[g] \in {"init", "running", "ended"} => sendsOn[g] # 0

\* Until a Start times out, an engine that has not signalled is the one of the
\* running Start, and each engine signals on the channel of its own Start.
OwnSignal ==
    NoTimeout => \A g \in Starts :
        /\ engine[g] \in {"booting", "init"} => starting = g
        /\ sendsOn[g] \in {0, g}

\* A channel with a signal in it, or closed, is one an engine has signalled on;
\* Start closes it when it returns nil.
SignalSent ==
    /\ \A g \in Gens : started[g] # "open" => \E h \in Starts : Booted(h) /\ sendsOn[h] = g
    /\ \A g \in Starts : started[g] = "closed" => result[g] = "ok"

\* Waiter p took the signal of generation g, or saw its channel closed.
Got(p, g) == waiter[p].at = "released" /\ waiter[p].on = g

\* Dummy: the one signal of an engine is to be sent, in the channel, or taken.
DummySignal ==
    kind = "dummy" /\ NoTimeout => \A g \in Starts :
        /\ ~Booted(g) => started[g] = "open" /\ \A p \in Waiters : ~Got(p, g)
        /\ started[g] = "token" => \A p \in Waiters : ~Got(p, g)
        /\ started[g] = "open" => \A p, q \in Waiters : Got(p, g) /\ Got(q, g) => p = q

StopCounted == stopClosed # {} => stops >= 1

\* TCP: engines are stored when they boot and at no other time, a Stop waits for one of them, and one
\* that returned nil has seen an engine end.
TcpStop ==
    /\ eng <= gen
    /\ kind = "tcp" =>
        /\ \A g \in Starts : engine[g] \in {"init", "running", "ended"} => eng # 0
        /\ eng # 0 => sendsOn[eng] # 0
        /\ stopping # Idle => stopping \in 1 .. gen
        /\ stopResult = "ok" => \E g \in 1 .. gen : Over(g)

\* UDS: the socket file was made by an engine that booted, and so was the one
\* that a Stop has removed.
UdsStop ==
    /\ socket => kind = "uds" /\ \E g \in 1 .. gen : engine[g] \notin {"none", "booting"}
    /\ kind = "uds" /\ stopResult = "ok" =>
        /\ \E g \in 1 .. gen : engine[g] \notin {"none", "booting"}
        /\ gen = 1 => ~socket

GnetIInv ==
    /\ TypeOK /\ EnginesKnown /\ OwnSignal /\ SignalSent /\ UpMeansBooted /\ DummySignal
    /\ StopCounted /\ PanicNeedsMisuse /\ TcpStop /\ UdsStop

LEMMA GnetInit == Init => GnetIInv
<1> SUFFICES ASSUME Init PROVE GnetIInv
  OBVIOUS
<1>1. /\ panicked \in BOOLEAN /\ socket \in BOOLEAN /\ ctxDone \in BOOLEAN
      /\ ~panicked /\ ~socket
  BY Zenon DEF Init, NewServer
<1>2. TypeOK
  BY <1>1, BoundsAssumption DEF Init, NewServer, TypeOK, ServerTypeOK, Starts, Gens, Idle
<1>3. EnginesKnown /\ OwnSignal /\ SignalSent /\ UpMeansBooted
  BY DEF Init, NewServer, EnginesKnown, OwnSignal, SignalSent, UpMeansBooted, Starts, Gens
<1>4. DummySignal
  BY DEF Init, NewServer, DummySignal, Got, Starts, Gens
<1>5. StopCounted /\ PanicNeedsMisuse /\ TcpStop /\ UdsStop
  BY <1>1 DEF Init, NewServer, StopCounted, PanicNeedsMisuse, TcpStop, UdsStop, Starts, Gens
<1> QED BY <1>2, <1>3, <1>4, <1>5 DEF GnetIInv

-----------------------------------------------------------------------------
(* The steps.  The engines and the results come first.                      *)

LEMMA BooleansNext ==
    TypeOK /\ Next => panicked' \in BOOLEAN /\ socket' \in BOOLEAN /\ ctxDone' \in BOOLEAN
BY ZenonT(40) DEF TypeOK, ServerTypeOK, Next, Engine, Rest, ownVars, serverVars, StartCall, StartError, StartSeesEnd, StartTimeout,
      StartTakesSignal, Boot, OnInitComplete, Signal, SignalStart, SignalWaiter, SignalBuffered,
      SignalPanics, Shutdown, Tick, EngineStops, ServeFails, WaitStarted, WaiterSeesClose,
      WaiterTakesSignal, Stop, CloseStopChan, StopCloses, StopRemoves, StopCall, StopDone,
      StopCancelled, StopReturnsWith, Cancel

LEMMA TypeNext == GnetIInv /\ Next => TypeOK' /\ EnginesKnown'
<1> SUFFICES ASSUME GnetIInv, Next PROVE TypeOK' /\ EnginesKnown'
  OBVIOUS
<1> DEFINE Goal == TypeOK' /\ EnginesKnown'
<1>b. panicked' \in BOOLEAN /\ socket' \in BOOLEAN /\ ctxDone' \in BOOLEAN
  BY BooleansNext DEF GnetIInv
<1> USE <1>b, BoundsAssumption DEF GnetIInv, TypeOK, ServerTypeOK, EnginesKnown, Starts, Gens, Idle, Rest, ownVars,
        serverVars, StartReturns
<1>1. CASE StartCall /\ Rest
  BY <1>1 DEF StartCall
<1>2. CASE (StartError \/ StartSeesEnd \/ StartTimeout) /\ Rest
  <2>1. PICK r \in {"error", "ok", "timeout"} :
            starting # 0 /\ result' = [result EXCEPT ![starting] = r] /\ starting' = 0
    BY <1>2 DEF StartError, StartSeesEnd, StartTimeout
  <2>2. UNCHANGED <<gen, stopClosed, started, engine, sendsOn, waiter, stops, toStop, ownVars>>
    BY <1>2 DEF StartError, StartSeesEnd, StartTimeout
  <2> QED BY <2>1, <2>2
<1>3. CASE StartTakesSignal
  BY <1>3 DEF StartTakesSignal
<1>4. ASSUME NEW g \in Starts, Boot(g) PROVE Goal
  BY <1>4 DEF Boot, OnInitComplete
<1>5. ASSUME NEW g \in Starts, Signal(g) PROVE Goal
  <2>1. CASE SignalStart(g) /\ Rest
    BY <2>1 DEF SignalStart
  <2>2. ASSUME NEW p \in Waiters, SignalWaiter(g, p) /\ Rest PROVE Goal
    <3>1. /\ waiter' = [waiter EXCEPT ![p].at = "released"]
          /\ engine[g] = "init" /\ engine' = [engine EXCEPT ![g] = "running"]
          /\ UNCHANGED <<gen, stopClosed, started, sendsOn, starting, result, stops, toStop, ownVars>>
      BY <2>2 DEF SignalWaiter
    <3>2. waiter' \in [Waiters -> [at : {"idle", "waiting", "released"}, on : Gens]]
      BY <3>1, ZenonT(60)
    <3> QED BY <3>1, <3>2
  <2> QED BY <1>5, <2>1, <2>2 DEF Signal
<1>6. ASSUME NEW g \in Starts, SignalBuffered(g) PROVE Goal
  BY <1>6 DEF SignalBuffered
<1>7. ASSUME NEW g \in Starts, Shutdown(g) \/ EngineStops(g) PROVE Goal
  <2>1. engine[g] = "running" /\ engine' = [engine EXCEPT ![g] = "ended"]
    BY <1>7 DEF Shutdown, Tick, EngineStops
  <2>2. UNCHANGED <<gen, stopClosed, started, sendsOn, starting, result, waiter, stops, toStop,
                    kind, eng, stopReq, stopping, stopResult>>
    BY <1>7 DEF Shutdown, Tick, EngineStops
  <2> QED BY <2>1, <2>2
<1>8. ASSUME NEW g \in Starts, (ServeFails(g) \/ SignalPanics(g)) /\ Rest PROVE Goal
  <2>1. \/ engine[g] \in {"booting", "running"} /\ engine' = [engine EXCEPT ![g] = "failed"]
        \/ UNCHANGED engine
    BY <1>8 DEF ServeFails, SignalPanics
  <2>2. UNCHANGED <<gen, stopClosed, started, sendsOn, starting, result, waiter, stops, toStop, ownVars>>
    BY <1>8 DEF ServeFails, SignalPanics
  <2>3. CASE UNCHANGED engine
    BY <2>2, <2>3
  <2>4. CASE engine[g] \in {"booting", "running"} /\ engine' = [engine EXCEPT ![g] = "failed"]
    BY <2>2, <2>4
  <2> QED BY <2>1, <2>3, <2>4
<1>9. ASSUME NEW p \in Waiters, ((WaitStarted(p) \/ WaiterSeesClose(p)) /\ Rest) \/ WaiterTakesSignal(p) PROVE Goal
  <2>1. waiter' \in [Waiters -> [at : {"idle", "waiting", "released"}, on : Gens]]
    <3>1. \/ waiter' = [waiter EXCEPT ![p] = [at |-> "waiting", on |-> gen]]
          \/ waiter' = [waiter EXCEPT ![p].at = "released"]
      BY <1>9 DEF WaitStarted, WaiterSeesClose, WaiterTakesSignal
    <3>2. CASE waiter' = [waiter EXCEPT ![p] = [at |-> "waiting", on |-> gen]]
      BY <3>2
    <3>3. CASE waiter' = [waiter EXCEPT ![p].at = "released"]
      BY <3>3, ZenonT(60)
    <3> QED BY <3>1, <3>2, <3>3
  <2>2. started' \in [Gens -> {"open", "token", "closed"}]
    BY <1>9 DEF WaitStarted, WaiterSeesClose, WaiterTakesSignal
  <2>3. UNCHANGED <<gen, stopClosed, engine, sendsOn, starting, result, stops, toStop, ownVars>>
    BY <1>9 DEF WaitStarted, WaiterSeesClose, WaiterTakesSignal
  <2> QED BY <2>1, <2>2, <2>3
<1>10. CASE Stop \/ StopCloses
  <2>1. stops' \in 0 .. MaxStops /\ toStop' \in SUBSET Starts /\ stopClosed' \in SUBSET Gens
    <3>1. /\ stops < MaxStops /\ stops' = stops + 1 /\ toStop' = toStop \cup Running
          /\ stopClosed' = stopClosed \/ stopClosed' = stopClosed \cup {gen}
      BY <1>10 DEF Stop, StopCloses, CloseStopChan
    <3>2. stops' \in 0 .. MaxStops
      BY <3>1
    <3>3. toStop' \in SUBSET Starts
      BY <3>1 DEF Running
    <3>4. stopClosed' \in SUBSET Gens
      BY <3>1, ZenonT(60)
    <3> QED BY <3>2, <3>3, <3>4
  <2>2. UNCHANGED <<gen, started, engine, sendsOn, starting, result, waiter, kind, eng, stopReq, stopResult>>
    BY <1>10 DEF Stop, StopCloses, CloseStopChan
  <2>3. stopping' \in Gens \cup {Idle}
    BY <1>10 DEF Stop, StopCloses
  <2> QED BY <2>1, <2>2, <2>3
<1>11. CASE StopRemoves \/ StopDone \/ StopCancelled \/ Cancel
  BY <1>11, ZenonT(60) DEF StopRemoves, StopDone, StopCancelled, StopReturnsWith, Cancel
<1>12. CASE StopCall
  <2>1. stops' \in 0 .. MaxStops /\ toStop' \in SUBSET Starts
    <3>1. stops < MaxStops /\ stops' = stops + 1 /\ toStop' = toStop \cup Running
      BY <1>12 DEF StopCall
    <3>2. stops' \in 0 .. MaxStops
      BY <3>1
    <3>3. toStop' \in SUBSET Starts
      BY <3>1 DEF Running
    <3> QED BY <3>2, <3>3
  <2>2. UNCHANGED <<gen, stopClosed, started, engine, sendsOn, starting, result, waiter, kind, eng>>
    BY <1>12 DEF StopCall
  <2>3. stopping' \in Gens \cup {Idle} /\ stopReq' \in SUBSET Starts /\ stopResult' \in {"none", "ok", "error"}
    <3>1. \/ UNCHANGED <<stopReq, stopping>> /\ stopResult' = "error"
          \/ eng # 0 /\ stopReq' = stopReq \cup {eng} /\ stopping' = eng /\ stopResult' = stopResult
      BY <1>12 DEF StopCall
    <3>2. CASE UNCHANGED <<stopReq, stopping>> /\ stopResult' = "error"
      BY <3>2
    <3>3. CASE eng # 0 /\ stopReq' = stopReq \cup {eng} /\ stopping' = eng /\ stopResult' = stopResult
      <4>1. eng \in Starts
        BY <3>3
      <4> QED BY <3>3, <4>1
    <3> QED BY <3>1, <3>2, <3>3
  <2> QED BY <2>1, <2>2, <2>3
<1> QED BY <1>1, <1>2, <1>3, <1>4, <1>5, <1>6, <1>7, <1>8, <1>9, <1>10, <1>11, <1>12 DEF Next, Engine

\* Stop and what ends it change neither the engines nor the channels Start made.
StopSteps == Stop \/ StopCloses \/ StopRemoves \/ StopCall \/ StopDone \/ StopCancelled \/ Cancel

WaiterSteps ==
    \E p \in Waiters : ((WaitStarted(p) \/ WaiterSeesClose(p)) /\ Rest) \/ WaiterTakesSignal(p)

ReturnSteps == StartTakesSignal \/ ((StartError \/ StartSeesEnd \/ StartTimeout) /\ Rest)

LEMMA NextCases ==
    Next => StopSteps \/ WaiterSteps \/ ReturnSteps \/ (StartCall /\ Rest) \/ \E g \in Starts : Engine(g)
<1> SUFFICES ASSUME Next, ~StopSteps, ~ReturnSteps, ~(StartCall /\ Rest), ~\E g \in Starts : Engine(g)
             PROVE  WaiterSteps
  OBVIOUS
<1>1. \/ \E p \in Waiters : (WaitStarted(p) \/ WaiterSeesClose(p)) /\ Rest
      \/ \E p \in Waiters : WaiterTakesSignal(p)
  BY DEF Next, StopSteps, ReturnSteps
<1> QED BY <1>1 DEF WaiterSteps

LEMMA StopKeepsEngines ==
    StopSteps => UNCHANGED <<gen, starting, result, engine, sendsOn, started, waiter, kind>>
BY DEF StopSteps, Stop, StopCloses, CloseStopChan, StopRemoves, StopCall, StopDone, StopCancelled,
       StopReturnsWith, Cancel, Rest, ownVars, serverVars

\* A Start that timed out has done so for good.
LEMMA TimeoutStays == GnetIInv /\ Next /\ NoTimeout' => NoTimeout
<1> SUFFICES ASSUME GnetIInv, Next PROVE NoTimeout' => NoTimeout
  OBVIOUS
<1>1. UNCHANGED result \/ \E r \in {"error", "ok", "timeout"} : starting # 0 /\ result' = [result EXCEPT ![starting] = r]
  <2>1. CASE StopSteps
    BY <2>1, StopKeepsEngines
  <2>2. CASE \E g \in Starts : Engine(g)
    BY <2>2 DEF Engine, Boot, OnInitComplete, Signal, SignalStart, SignalWaiter, SignalBuffered,
          SignalPanics, Shutdown, Tick, EngineStops, ServeFails, StartReturns
  <2>3. CASE ReturnSteps \/ StartCall
    BY <2>3 DEF ReturnSteps, StartCall, StartError, StartSeesEnd, StartTimeout, StartTakesSignal, StartReturns
  <2>4. CASE WaiterSteps
    BY <2>4 DEF WaiterSteps, WaitStarted, WaiterSeesClose, WaiterTakesSignal
  <2> QED BY <2>1, <2>2, <2>3, <2>4, NextCases
<1> QED BY <1>1 DEF GnetIInv, TypeOK, ServerTypeOK, NoTimeout, Starts, Gens

\* So has an engine that booted, and it keeps the channel it signalled on.
LEMMA BootedStays ==
    ASSUME GnetIInv, Next, NEW h \in Starts, Booted(h)
    PROVE  Booted(h)' /\ sendsOn'[h] = sendsOn[h]
<1> DEFINE Goal == Booted(h)' /\ sendsOn'[h] = sendsOn[h]
<1> USE DEF GnetIInv, TypeOK, ServerTypeOK, EnginesKnown, Booted, Starts, Gens, StartReturns
<1>1. CASE StopSteps
  BY <1>1, StopKeepsEngines
<1>2. ASSUME NEW g \in Starts, Engine(g) PROVE Goal
  <2>1. CASE Boot(g)
    BY <2>1 DEF Boot, OnInitComplete
  <2>2. CASE Signal(g) \/ SignalBuffered(g)
    <3>1. engine[g] = "init" /\ engine' = [engine EXCEPT ![g] = "running"] /\ UNCHANGED sendsOn
      BY <2>2 DEF Signal, SignalStart, SignalWaiter, SignalBuffered
    <3> QED BY <3>1
  <2>3. CASE Shutdown(g) \/ EngineStops(g) \/ ServeFails(g)
    <3>1. /\ engine' = [engine EXCEPT ![g] = "ended"] \/ engine' = [engine EXCEPT ![g] = "failed"]
          /\ UNCHANGED sendsOn
      BY <2>3 DEF Shutdown, Tick, EngineStops, ServeFails
    <3> QED BY <3>1
  <2>4. CASE SignalPanics(g)
    BY <2>4 DEF SignalPanics
  <2> QED BY <1>2, <2>1, <2>2, <2>3, <2>4 DEF Engine
<1>3. CASE ReturnSteps
  BY <1>3 DEF ReturnSteps, StartError, StartSeesEnd, StartTimeout, StartTakesSignal
<1>4. CASE StartCall
  BY <1>4 DEF StartCall
<1>5. CASE WaiterSteps
  BY <1>5 DEF WaiterSteps, WaitStarted, WaiterSeesClose, WaiterTakesSignal
<1> QED BY <1>1, <1>2, <1>3, <1>4, <1>5, NextCases

-----------------------------------------------------------------------------
(* The start signal.                                                        *)

LEMMA OwnSignalNext == GnetIInv /\ Next => OwnSignal'
<1> SUFFICES ASSUME GnetIInv, Next, NoTimeout' PROVE OwnSignal'
  BY DEF OwnSignal
<1>a. NoTimeout
  BY TimeoutStays
<1> USE <1>a DEF GnetIInv, TypeOK, ServerTypeOK, EnginesKnown, OwnSignal, Starts, Gens, StartReturns
<1>1. CASE StopSteps
  BY <1>1, StopKeepsEngines
<1>2. ASSUME NEW g \in Starts, Engine(g) PROVE OwnSignal'
  <2>1. CASE Boot(g)
    BY <2>1 DEF Boot, OnInitComplete
  <2>2. CASE SignalStart(g)
    BY <2>2 DEF SignalStart
  <2>3. CASE SignalPanics(g)
    BY <2>3 DEF SignalPanics
  <2>4. ASSUME (\E p \in Waiters : SignalWaiter(g, p)) \/ SignalBuffered(g) \/ Shutdown(g) \/ EngineStops(g) \/ ServeFails(g)
        PROVE  OwnSignal'
    <3>1. /\ \/ engine' = [engine EXCEPT ![g] = "running"]
             \/ engine' = [engine EXCEPT ![g] = "ended"]
             \/ engine' = [engine EXCEPT ![g] = "failed"]
          /\ UNCHANGED <<sendsOn, starting>>
      BY <2>4 DEF SignalWaiter, SignalBuffered, Shutdown, Tick, EngineStops, ServeFails
    <3> QED BY <3>1, ZenonT(60)
  <2> QED BY <1>2, <2>1, <2>2, <2>3, <2>4 DEF Engine, Signal
<1>3. CASE StartTakesSignal
  <2>1. PICK h \in Starts : Booted(h) /\ sendsOn[h] = starting
    BY <1>3 DEF StartTakesSignal, SignalSent
  <2>2. h = starting /\ engine[h] \notin {"booting", "init"}
    BY <1>3, <2>1 DEF StartTakesSignal, Booted
  <2> QED BY <1>3, <2>2 DEF StartTakesSignal
<1>4. CASE StartError \/ StartSeesEnd
  BY <1>4 DEF StartError, StartSeesEnd
<1>5. CASE StartTimeout
  BY <1>5 DEF StartTimeout, NoTimeout
<1>6. CASE StartCall
  BY <1>6 DEF StartCall
<1>7. CASE WaiterSteps
  BY <1>7 DEF WaiterSteps, WaitStarted, WaiterSeesClose, WaiterTakesSignal
<1> QED BY <1>1, <1>2, <1>3, <1>4, <1>5, <1>6, <1>7, NextCases DEF ReturnSteps

LEMMA SignalSentNext == GnetIInv /\ Next => SignalSent'
<1> SUFFICES ASSUME GnetIInv, Next PROVE SignalSent'
  OBVIOUS
<1>a. \A h \in Starts : Booted(h) => Booted(h)' /\ sendsOn'[h] = sendsOn[h]
  BY BootedStays
<1>b. ASSUME UNCHANGED started, NEW g \in Gens, started'[g] # "open"
      PROVE  \E h \in Starts : Booted(h)' /\ sendsOn'[h] = g
  BY <1>a, <1>b DEF GnetIInv, SignalSent
<1>c. ASSUME UNCHANGED <<started, result>> PROVE SignalSent'
  BY <1>b, <1>c DEF GnetIInv, SignalSent, Gens, Starts
<1> USE DEF GnetIInv, TypeOK, ServerTypeOK, EnginesKnown, Starts, Gens, StartReturns
<1>1. CASE StopSteps
  BY <1>1, <1>c, StopKeepsEngines
<1>2. ASSUME NEW g \in Starts, Engine(g) PROVE SignalSent'
  <2>1. CASE SignalStart(g)
    <3>1. Booted(g)' /\ sendsOn'[g] = starting
      BY <2>1 DEF SignalStart, Booted
    <3> QED BY <2>1, <3>1, <1>a DEF SignalStart, SignalSent
  <2>2. CASE SignalBuffered(g)
    <3>1. Booted(g)' /\ sendsOn'[g] = sendsOn[g]
      BY <2>2 DEF SignalBuffered, Booted
    <3> QED BY <2>2, <3>1, <1>a DEF SignalBuffered, SignalSent
  <2>3. CASE ~SignalStart(g) /\ ~SignalBuffered(g)
    <3>1. UNCHANGED <<started, result>>
      BY <1>2, <2>3 DEF Engine, Signal, Boot, OnInitComplete, SignalWaiter, Shutdown, Tick, EngineStops,
            ServeFails, SignalPanics
    <3> QED BY <3>1, <1>c
  <2> QED BY <2>1, <2>2, <2>3
<1>3. CASE StartTakesSignal
  BY <1>3, <1>a DEF StartTakesSignal, SignalSent
<1>4. CASE StartError \/ StartSeesEnd \/ StartTimeout
  <2>1. /\ UNCHANGED started /\ starting # 0
        /\ \E r \in {"error", "ok", "timeout"} : result' = [result EXCEPT ![starting] = r]
    BY <1>4 DEF StartError, StartSeesEnd, StartTimeout
  <2>2. \A g \in Starts : started[g] = "closed" => result'[g] = "ok"
    BY <2>1 DEF SignalSent
  <2> QED BY <1>b, <2>1, <2>2 DEF SignalSent
<1>5. CASE StartCall
  BY <1>5, <1>c DEF StartCall
<1>6. CASE WaiterSteps
  <2>1. UNCHANGED result /\ \A g \in Gens : started'[g] # "open" => started'[g] = started[g]
    BY <1>6 DEF WaiterSteps, WaitStarted, WaiterSeesClose, WaiterTakesSignal
  <2> QED BY <1>a, <2>1 DEF SignalSent
<1> QED BY <1>1, <1>2, <1>3, <1>4, <1>5, <1>6, NextCases DEF ReturnSteps

\* Whoever is told that the server is up: a waiter that is released, and a Start
\* that returns nil.
LEMMA UpMeansBootedNext == GnetIInv /\ Next => UpMeansBooted'
<1> SUFFICES ASSUME GnetIInv, Next PROVE UpMeansBooted'
  OBVIOUS
<1> DEFINE Up == \E h \in Starts : Booted(h)'
<1>a. \A h \in Starts : Booted(h) => Booted(h)'
  BY BootedStays
<1>b. NoTimeout' => NoTimeout
  BY TimeoutStays
<1>c. \A g \in Starts : result[g] = "ok" => Up /\ (NoTimeout' => Booted(g)')
  BY <1>a, <1>b DEF GnetIInv, UpMeansBooted
<1>d. \A p \in Waiters : waiter[p].at = "released" => Up
  BY <1>a DEF GnetIInv, UpMeansBooted
<1>e. \A g \in Gens : started[g] # "open" => Up
  BY <1>a DEF GnetIInv, SignalSent
<1>1. ASSUME NEW p \in Waiters, waiter'[p].at = "released" PROVE Up
  <2>1. CASE StopSteps \/ ReturnSteps \/ StartCall
    <3>1. UNCHANGED waiter
      BY <2>1, StopKeepsEngines DEF ReturnSteps, StartCall, StartError, StartSeesEnd, StartTimeout, StartTakesSignal
    <3> QED BY <1>1, <1>d, <3>1
  <2>2. ASSUME NEW g \in Starts, Engine(g) PROVE Up
    <3>1. CASE UNCHANGED waiter
      BY <1>1, <1>d, <3>1
    <3>2. ASSUME NEW q \in Waiters, SignalWaiter(g, q) PROVE Up
      BY <3>2 DEF SignalWaiter, Booted, GnetIInv, TypeOK, ServerTypeOK
    <3> QED BY <2>2, <3>1, <3>2 DEF Engine, Signal, Boot, OnInitComplete, SignalStart, SignalBuffered, SignalPanics,
              Shutdown, Tick, EngineStops, ServeFails
  <2>3. CASE WaiterSteps
    <3>1. waiter[p].at = "released" \/ \E g \in Gens : started[g] # "open"
      BY <1>1, <2>3 DEF WaiterSteps, WaitStarted, WaiterSeesClose, WaiterTakesSignal, GnetIInv, TypeOK, ServerTypeOK
    <3> QED BY <3>1, <1>d, <1>e
  <2> QED BY <2>1, <2>2, <2>3, NextCases
<1>2. ASSUME NEW g \in Starts, result'[g] = "ok" PROVE Up /\ (NoTimeout' => Booted(g)')
  <2> USE DEF GnetIInv, TypeOK, ServerTypeOK, EnginesKnown, OwnSignal, Starts, Gens, StartReturns
  <2>1. CASE StopSteps \/ WaiterSteps \/ StartCall
    <3>1. UNCHANGED result
      BY <2>1, StopKeepsEngines DEF WaiterSteps, WaitStarted, WaiterSeesClose, WaiterTakesSignal, StartCall
    <3> QED BY <1>2, <1>c, <3>1
  <2>2. ASSUME NEW h \in Starts, Engine(h) PROVE Up /\ (NoTimeout' => Booted(g)')
    <3>1. CASE UNCHANGED result
      BY <1>2, <1>c, <3>1
    <3>2. CASE SignalStart(h)
      <4>1. Booted(h)' /\ sendsOn[h] = starting /\ result' = [result EXCEPT ![starting] = "ok"]
        BY <3>2 DEF SignalStart, Booted
      <4>2. CASE g = starting
        BY <1>b, <4>1, <4>2
      <4>3. CASE g # starting
        BY <1>2, <1>c, <4>1, <4>3
      <4> QED BY <4>2, <4>3
    <3> QED BY <2>2, <3>1, <3>2 DEF Engine, Signal, Boot, OnInitComplete, SignalWaiter, SignalBuffered, SignalPanics,
              Shutdown, Tick, EngineStops, ServeFails
  <2>3. CASE StartTakesSignal
    <3>1. PICK h \in Starts : Booted(h) /\ sendsOn[h] = starting
      BY <2>3 DEF StartTakesSignal, SignalSent
    <3>2. Booted(h)' /\ result' = [result EXCEPT ![starting] = "ok"]
      BY <3>1, <1>a, <2>3 DEF StartTakesSignal
    <3>3. CASE g = starting
      BY <1>b, <3>1, <3>2, <3>3, <2>3 DEF StartTakesSignal
    <3>4. CASE g # starting
      BY <1>2, <1>c, <3>2, <3>4
    <3> QED BY <3>3, <3>4
  <2>4. CASE StartSeesEnd
    <3>1. engine[starting] = "ended" /\ UNCHANGED engine /\ starting # 0 /\ result' = [result EXCEPT ![starting] = "ok"]
      BY <2>4 DEF StartSeesEnd
    <3>2. \A h \in Starts : h = starting => Booted(h)'
      BY <3>1 DEF Booted
    <3> QED BY <1>2, <1>c, <3>1, <3>2
  <2>5. CASE StartError \/ StartTimeout
    <3>1. result[g] = "ok"
      BY <1>2, <2>5 DEF StartError, StartTimeout
    <3> QED BY <1>c, <3>1
  <2> QED BY <2>1, <2>2, <2>3, <2>4, <2>5, NextCases DEF ReturnSteps
<1> QED BY <1>1, <1>2 DEF UpMeansBooted

-----------------------------------------------------------------------------
(* Panics.                                                                  *)

LEMMA PanicNext == GnetIInv /\ Next => PanicNeedsMisuse' /\ StopCounted'
<1> SUFFICES ASSUME GnetIInv, Next PROVE PanicNeedsMisuse' /\ StopCounted'
  OBVIOUS
<1>a. NoTimeout' => NoTimeout
  BY TimeoutStays
<1>b. stops \in Nat
  BY BoundsAssumption DEF GnetIInv, TypeOK, ServerTypeOK
<1>1. ASSUME UNCHANGED <<panicked, stops, stopClosed>> PROVE PanicNeedsMisuse' /\ StopCounted'
  BY <1>1, <1>a DEF GnetIInv, PanicNeedsMisuse, StopCounted
<1>2. CASE CloseStopChan
  <2>1. stops' = stops + 1 /\ (stopClosed = {} => gen \notin stopClosed)
    BY <1>2 DEF CloseStopChan
  <2>2. stops' >= 1 /\ (stopClosed # {} => stops' >= 2)
    BY <1>b, <2>1 DEF GnetIInv, StopCounted
  <2>3. panicked' => stopClosed # {} \/ panicked
    BY <1>2 DEF CloseStopChan
  <2>4. panicked => stops' >= 2 \/ ~NoTimeout
    BY <1>b, <2>1 DEF GnetIInv, PanicNeedsMisuse
  <2> QED BY <1>a, <2>2, <2>3, <2>4 DEF PanicNeedsMisuse, StopCounted
<1>3. ASSUME NEW g \in Starts, SignalPanics(g) PROVE PanicNeedsMisuse' /\ StopCounted'
  <2>1. engine[g] = "init" /\ started[sendsOn[g]] = "closed" /\ UNCHANGED <<stops, stopClosed, result>>
    BY <1>3 DEF SignalPanics
  <2>2. ~NoTimeout
    <3> SUFFICES ASSUME NoTimeout PROVE FALSE
      OBVIOUS
    <3>1. starting = g /\ sendsOn[g] = g
      BY <2>1 DEF GnetIInv, OwnSignal, EnginesKnown
    <3>2. result[g] = "ok" /\ g # 0
      BY <2>1, <3>1 DEF GnetIInv, SignalSent, Starts
    <3> QED BY <3>1, <3>2 DEF GnetIInv, TypeOK, ServerTypeOK
  <2> QED BY <1>a, <2>1, <2>2 DEF PanicNeedsMisuse, StopCounted, GnetIInv
<1>4. CASE StopCall
  <2>1. stops' = stops + 1 /\ UNCHANGED <<panicked, stopClosed>>
    BY <1>4 DEF StopCall
  <2> QED BY <1>a, <1>b, <2>1 DEF GnetIInv, PanicNeedsMisuse, StopCounted
<1>5. CASE StopSteps
  BY <1>1, <1>2, <1>4, <1>5 DEF StopSteps, Stop, StopCloses, StopRemoves, StopDone, StopCancelled, StopReturnsWith,
     Cancel, serverVars
<1>6. CASE \E g \in Starts : Engine(g)
  BY <1>1, <1>3, <1>6 DEF Engine, Signal, Boot, OnInitComplete, SignalStart, SignalWaiter, SignalBuffered, Shutdown,
     Tick, EngineStops, ServeFails
<1>7. CASE ReturnSteps \/ WaiterSteps \/ StartCall
  BY <1>1, <1>7 DEF ReturnSteps, StartError, StartSeesEnd, StartTimeout, StartTakesSignal, StartCall,
     WaiterSteps, WaitStarted, WaiterSeesClose, WaiterTakesSignal
<1> QED BY <1>5, <1>6, <1>7, NextCases

-----------------------------------------------------------------------------
(* The dummy transport's buffered signal.                                   *)

LEMMA DummySignalNext == GnetIInv /\ Next => DummySignal'
<1> SUFFICES ASSUME GnetIInv, Next, kind' = "dummy", NoTimeout', NEW g \in Starts
             PROVE  /\ ~Booted(g)' => started'[g] = "open" /\ \A p \in Waiters : ~Got(p, g)'
                    /\ started'[g] = "token" => \A p \in Waiters : ~Got(p, g)'
                    /\ started'[g] = "open" => \A p, q \in Waiters : Got(p, g)' /\ Got(q, g)' => p = q
  BY DEF DummySignal
<1> DEFINE Goal == /\ ~Booted(g)' => started'[g] = "open" /\ \A p \in Waiters : ~Got(p, g)'
                   /\ started'[g] = "token" => \A p \in Waiters : ~Got(p, g)'
                   /\ started'[g] = "open" => \A p, q \in Waiters : Got(p, g)' /\ Got(q, g)' => p = q
<1>a. NoTimeout /\ kind = "dummy"
  <2>1. UNCHANGED kind
    BY StopKeepsEngines, NextCases DEF ReturnSteps, StartError, StartSeesEnd, StartTimeout, StartTakesSignal, StartCall,
       WaiterSteps, WaitStarted, WaiterSeesClose, WaiterTakesSignal, Engine, Signal, Boot, SignalBuffered,
       Shutdown, EngineStops, Rest, ownVars
  <2> QED BY <2>1, TimeoutStays
<1>b. Booted(g) => Booted(g)'
  BY BootedStays
<1>c. /\ ~Booted(g) => started[g] = "open" /\ \A p \in Waiters : ~Got(p, g)
      /\ started[g] = "token" => \A p \in Waiters : ~Got(p, g)
      /\ started[g] = "open" => \A p, q \in Waiters : Got(p, g) /\ Got(q, g) => p = q
  BY <1>a DEF GnetIInv, DummySignal
<1>1. ASSUME UNCHANGED <<started, waiter>> PROVE Goal
  BY <1>1, <1>b, <1>c DEF Got
<1> USE DEF GnetIInv, TypeOK, ServerTypeOK, Starts, Gens
<1>2. ASSUME NEW h \in Starts, SignalBuffered(h) PROVE Goal
  <2>1. sendsOn[h] = h /\ ~Booted(h)
    BY <1>2, <1>a DEF SignalBuffered, OwnSignal, EnginesKnown, Booted
  <2>2. started' = [started EXCEPT ![h] = "token"] /\ UNCHANGED waiter
    BY <1>2, <2>1 DEF SignalBuffered
  <2>3. CASE g # h
    BY <1>b, <1>c, <2>2, <2>3 DEF Got
  <2>4. CASE g = h
    <3>1. Booted(g)'
      BY <1>2, <2>4 DEF SignalBuffered, Booted
    <3> QED BY <1>c, <2>1, <2>2, <2>4, <3>1 DEF Got
  <2> QED BY <2>3, <2>4
<1>3. CASE StartTakesSignal
  <2>1. started' = [started EXCEPT ![starting] = "closed"] /\ UNCHANGED waiter /\ started[starting] = "token"
    BY <1>3 DEF StartTakesSignal
  <2> QED BY <1>b, <1>c, <2>1 DEF Got
<1>4. ASSUME NEW p \in Waiters, WaiterTakesSignal(p) PROVE Goal
  <2> DEFINE n == waiter[p].on
  <2>1. /\ waiter[p].at = "waiting" /\ started[n] = "token" /\ n \in Gens
        /\ started' = [started EXCEPT ![n] = "open"]
        /\ waiter' = [waiter EXCEPT ![p].at = "released"]
    BY <1>4 DEF WaiterTakesSignal
  <2>2. waiter'[p].on = n /\ waiter'[p].at = "released" /\ \A q \in Waiters : q # p => waiter'[q] = waiter[q]
    BY <2>1
  <2>3. CASE g # n
    <3>1. started'[g] = started[g] /\ \A q \in Waiters : Got(q, g)' => Got(q, g)
      BY <2>1, <2>2, <2>3 DEF Got
    <3> QED BY <1>b, <1>c, <3>1
  <2>4. CASE g = n
    <3>1. started'[g] = "open" /\ \A q \in Waiters : Got(q, g)' => q = p
      BY <1>c, <2>1, <2>2, <2>4 DEF Got
    <3>2. Booted(g)'
      BY <1>b, <1>c, <2>1, <2>4
    <3> QED BY <3>1, <3>2
  <2> QED BY <2>3, <2>4
<1>5. ASSUME NEW p \in Waiters, WaiterSeesClose(p) PROVE Goal
  <2>1. /\ started[waiter[p].on] = "closed" /\ UNCHANGED started
        /\ waiter' = [waiter EXCEPT ![p].at = "released"]
    BY <1>5 DEF WaiterSeesClose
  <2>2. waiter'[p].on = waiter[p].on /\ \A q \in Waiters : q # p => waiter'[q] = waiter[q]
    BY <2>1
  <2>3. started[g] # "closed" => \A q \in Waiters : Got(q, g)' => Got(q, g)
    BY <2>1, <2>2 DEF Got
  <2> QED BY <1>b, <1>c, <2>1, <2>3
<1>6. ASSUME NEW p \in Waiters, WaitStarted(p) PROVE Goal
  <2>1. UNCHANGED started /\ waiter' = [waiter EXCEPT ![p] = [at |-> "waiting", on |-> gen]]
    BY <1>6 DEF WaitStarted
  <2>2. \A q \in Waiters : Got(q, g)' => Got(q, g)
    BY <2>1 DEF Got
  <2> QED BY <1>b, <1>c, <2>1, <2>2
<1>7. CASE StopSteps \/ StartCall \/ StartError \/ StartSeesEnd \/ StartTimeout
  <2>1. UNCHANGED <<started, waiter>>
    BY <1>7, StopKeepsEngines DEF StartError, StartSeesEnd, StartTimeout, StartCall
  <2> QED BY <1>1, <2>1
<1>8. ASSUME NEW h \in Starts, Engine(h) PROVE Goal
  <2>1. SignalBuffered(h) \/ UNCHANGED <<started, waiter>>
    BY <1>8, <1>a DEF Engine, Signal, Boot, OnInitComplete, SignalPanics, Shutdown, Tick, EngineStops, ServeFails
  <2> QED BY <1>1, <1>2, <2>1
<1> QED BY <1>3, <1>4, <1>5, <1>6, <1>7, <1>8, NextCases DEF ReturnSteps, WaiterSteps

-----------------------------------------------------------------------------
(* What Stop leaves.                                                        *)

\* Engines only go forward.
LEMMA EnginesGoOn ==
    ASSUME GnetIInv, Next
    PROVE  /\ gen' >= gen
           /\ \A g \in Starts :
                /\ engine[g] \notin {"none", "booting"} => engine'[g] \notin {"none", "booting"}
                /\ Over(g) => Over(g)'
                /\ engine'[g] \in {"init", "running", "ended"} =>
                        engine[g] \in {"init", "running", "ended"} \/ Boot(g)
<1> DEFINE Goal ==
        /\ gen' >= gen
        /\ \A g \in Starts :
             /\ engine[g] \notin {"none", "booting"} => engine'[g] \notin {"none", "booting"}
             /\ Over(g) => Over(g)'
             /\ engine'[g] \in {"init", "running", "ended"} =>
                     engine[g] \in {"init", "running", "ended"} \/ Boot(g)
<1> USE DEF GnetIInv, TypeOK, ServerTypeOK, EnginesKnown, Starts, Gens, Over
<1>1. ASSUME UNCHANGED <<gen, engine>> PROVE Goal
  BY <1>1, BoundsAssumption
<1>2. CASE StartCall
  BY <1>2, BoundsAssumption DEF StartCall
<1>3. ASSUME NEW h \in Starts, Boot(h) PROVE Goal
  <2>1. engine[h] = "booting" /\ engine' = [engine EXCEPT ![h] = "init"] /\ UNCHANGED gen
    BY <1>3 DEF Boot, OnInitComplete
  <2> QED BY <1>3, <2>1, BoundsAssumption
<1>4. ASSUME NEW h \in Starts, Signal(h) \/ SignalBuffered(h) PROVE Goal
  <2>1. engine[h] = "init" /\ engine' = [engine EXCEPT ![h] = "running"] /\ UNCHANGED gen
    BY <1>4 DEF Signal, SignalStart, SignalWaiter, SignalBuffered
  <2> QED BY <2>1, BoundsAssumption
<1>5. ASSUME NEW h \in Starts, Shutdown(h) \/ EngineStops(h) PROVE Goal
  <2>1. engine[h] = "running" /\ engine' = [engine EXCEPT ![h] = "ended"] /\ UNCHANGED gen
    BY <1>5 DEF Shutdown, Tick, EngineStops
  <2> QED BY <2>1, BoundsAssumption
<1>6. ASSUME NEW h \in Starts, ServeFails(h) PROVE Goal
  <2>1. engine[h] \in {"booting", "running"} /\ engine' = [engine EXCEPT ![h] = "failed"] /\ UNCHANGED gen
    BY <1>6 DEF ServeFails
  <2> QED BY <2>1, BoundsAssumption
<1>7. ASSUME NEW h \in Starts, SignalPanics(h) PROVE Goal
  BY <1>1, <1>7 DEF SignalPanics
<1>8. CASE StopSteps \/ ReturnSteps \/ WaiterSteps
  <2>1. UNCHANGED <<gen, engine>>
    BY <1>8, StopKeepsEngines DEF ReturnSteps, StartError, StartSeesEnd, StartTimeout, StartTakesSignal,
       WaiterSteps, WaitStarted, WaiterSeesClose, WaiterTakesSignal
  <2> QED BY <1>1, <2>1
<1>9. ASSUME NEW h \in Starts, Engine(h) PROVE Goal
  <2>1. Boot(h) \/ Signal(h) \/ SignalBuffered(h) \/ Shutdown(h) \/ EngineStops(h) \/ ServeFails(h) \/ SignalPanics(h)
    BY <1>9 DEF Engine
  <2> HIDE DEF Goal
  <2> QED BY <2>1, <1>3, <1>4, <1>5, <1>6, <1>7
<1>10. CASE \E h \in Starts : Engine(h)
  BY <1>9, <1>10, Zenon
<1>11. StopSteps \/ WaiterSteps \/ ReturnSteps \/ StartCall \/ \E h \in Starts : Engine(h)
  BY NextCases, Zenon
<1> QED BY <1>2, <1>8, <1>10, <1>11, Zenon

\* The step changes nothing of its own of the transport but what Stop, Boot,
\* and Shutdown do.
LEMMA OwnSteps ==
    Next => \/ UNCHANGED ownVars
            \/ \E g \in Starts : Boot(g)
            \/ \E g \in Starts : Shutdown(g)
            \/ StopCloses \/ StopRemoves \/ StopCall \/ StopDone \/ StopCancelled \/ Cancel
BY DEF Next, Engine, Rest, Signal, SignalBuffered, StartTakesSignal, WaiterTakesSignal, EngineStops, Stop

\* Only a boot gives an engine a channel to signal on.
LEMMA SignalsKept == Next => UNCHANGED sendsOn \/ \E g \in Starts : Boot(g)
BY DEF Next, Engine, Rest, Signal, SignalBuffered, StartTakesSignal, WaiterTakesSignal, EngineStops, Stop,
       StartCall, StartError, StartSeesEnd, StartTimeout, SignalStart, SignalWaiter, SignalPanics,
       ServeFails, Shutdown, Tick, WaitStarted, WaiterSeesClose, CloseStopChan, StopCloses, StopRemoves,
       StopCall, StopDone, StopCancelled, StopReturnsWith, Cancel, serverVars

LEMMA TcpStopNext == GnetIInv /\ Next => TcpStop'
<1> SUFFICES ASSUME GnetIInv, Next PROVE TcpStop'
  OBVIOUS
<1>a. TypeOK /\ TcpStop /\ EnginesKnown /\ MaxStarts \in Nat
  BY BoundsAssumption DEF GnetIInv
<1>t. gen \in Nat /\ gen' \in Nat /\ gen <= MaxStarts /\ gen' <= MaxStarts
  BY <1>a, TypeNext DEF TypeOK, ServerTypeOK, Gens
<1>b. gen' >= gen /\ \A g \in Starts : Over(g) => Over(g)'
  BY EnginesGoOn
<1>c. \A g \in Starts : engine'[g] \in {"init", "running", "ended"} =>
          engine[g] \in {"init", "running", "ended"} \/ Boot(g)
  BY EnginesGoOn
<1>d. (\E g \in 1 .. gen : Over(g)) => \E g \in 1 .. gen' : Over(g)'
  BY <1>a, <1>b, <1>t DEF Starts
<1>e. (~\E g \in Starts : Boot(g)) => UNCHANGED sendsOn
  BY SignalsKept
<1>1. ASSUME NEW g \in Starts, Boot(g) PROVE TcpStop'
  <2>1. /\ eng' = IF kind = "tcp" THEN g ELSE eng
        /\ g <= gen /\ UNCHANGED <<kind, stopping, stopResult, gen>>
        /\ sendsOn' = [sendsOn EXCEPT ![g] = gen]
    BY <1>1, <1>a, <1>t DEF Boot, OnInitComplete, EnginesKnown, Starts
  <2>3. sendsOn'[g] = gen /\ gen # 0
    BY <1>1, <1>a, <1>t, <2>1 DEF TypeOK, ServerTypeOK, Starts
  <2>2. g # 0 /\ g \in Nat
    BY <1>a DEF Starts
  <2> QED BY <1>a, <1>d, <1>t, <2>1, <2>2, <2>3 DEF TcpStop, Idle
<1>2. ASSUME ~\E g \in Starts : Boot(g) PROVE UNCHANGED eng
  BY <1>2, OwnSteps DEF ownVars, Shutdown, StopCloses, StopRemoves, StopCall, StopDone, StopCancelled, StopReturnsWith, Cancel
<1>3. ASSUME ~\E g \in Starts : Boot(g), UNCHANGED <<kind, stopping, stopResult>> PROVE TcpStop'
  <2>1. eng' <= gen'
    BY <1>2, <1>3, <1>a, <1>b, <1>t DEF TcpStop, TypeOK, Gens
  <2>2. kind = "tcp" => \A g \in Starts : engine'[g] \in {"init", "running", "ended"} => eng # 0
    BY <1>3, <1>a, <1>c DEF TcpStop
  <2>3. kind = "tcp" /\ stopping # Idle => stopping \in 1 .. gen'
    BY <1>a, <1>b, <1>t DEF TcpStop
  <2> QED BY <1>2, <1>3, <1>a, <1>d, <1>e, <2>1, <2>2, <2>3 DEF TcpStop, Idle
<1>4. CASE StopCloses \/ StopRemoves
  <2>1. kind' = "uds" /\ UNCHANGED <<eng, gen>>
    BY <1>4, <1>2 DEF StopCloses, CloseStopChan, StopRemoves, serverVars
  <2> QED BY <1>a, <2>1 DEF TcpStop
<1>5. CASE StopCall
  <2>1. /\ UNCHANGED <<gen, engine, eng, kind, sendsOn>>
        /\ \/ stopResult' = "error" /\ UNCHANGED stopping
           \/ eng # 0 /\ stopping' = eng /\ UNCHANGED stopResult
    BY <1>5 DEF StopCall
  <2>2. eng # 0 => eng \in 1 .. gen
    BY <1>a, <1>t DEF TcpStop, TypeOK, Gens
  <2> QED BY <1>a, <2>1, <2>2 DEF TcpStop, Over, Idle
<1>6. CASE StopDone
  <2>1. /\ UNCHANGED <<gen, engine, eng, kind, sendsOn>> /\ kind = "tcp" /\ stopping # Idle /\ Over(stopping) /\ stopping' = Idle
    BY <1>6 DEF StopDone, StopReturnsWith, serverVars
  <2>2. stopping \in 1 .. gen
    BY <1>a, <2>1 DEF TcpStop
  <2>3. \E g \in 1 .. gen : Over(g)
    BY <2>1, <2>2
  <2> QED BY <1>a, <2>1, <2>3 DEF TcpStop, Over
<1>7. CASE StopCancelled
  <2>1. UNCHANGED <<gen, engine, eng, kind, sendsOn>> /\ stopping' = Idle /\ stopResult' = "error"
    BY <1>7 DEF StopCancelled, StopReturnsWith, serverVars
  <2> QED BY <1>a, <2>1 DEF TcpStop, Over
<1>8. CASE Cancel \/ UNCHANGED ownVars \/ \E g \in Starts : Shutdown(g)
  <2>1. UNCHANGED <<kind, stopping, stopResult>>
    BY <1>8 DEF Cancel, ownVars, Shutdown
  <2> QED BY <1>1, <1>3, <2>1
<1> QED BY <1>1, <1>4, <1>5, <1>6, <1>7, <1>8, OwnSteps

LEMMA UdsStopNext == GnetIInv /\ Next => UdsStop'
<1> SUFFICES ASSUME GnetIInv, Next PROVE UdsStop'
  OBVIOUS
<1> DEFINE Past == \E g \in 1 .. gen : engine[g] \notin {"none", "booting"}
           PastNow == \E g \in 1 .. gen' : engine'[g] \notin {"none", "booting"}
<1>a. TypeOK /\ UdsStop /\ EnginesKnown /\ MaxStarts \in Nat
  BY BoundsAssumption DEF GnetIInv
<1>b. gen \in Nat /\ gen' \in Nat /\ gen <= MaxStarts /\ gen' <= MaxStarts /\ gen' >= gen
  BY <1>a, TypeNext, EnginesGoOn DEF TypeOK, ServerTypeOK, Gens
<1>c. Past => PastNow
  <2>1. \A g \in Starts : engine[g] \notin {"none", "booting"} => engine'[g] \notin {"none", "booting"}
    BY EnginesGoOn
  <2> QED BY <1>a, <1>b, <2>1 DEF Starts
<1>d. /\ socket => kind = "uds" /\ Past
      /\ kind = "uds" /\ stopResult = "ok" => Past /\ (gen = 1 => ~socket)
  BY <1>a DEF UdsStop
<1>e. SUFFICES /\ socket' => kind' = "uds" /\ PastNow
               /\ kind' = "uds" /\ stopResult' = "ok" => PastNow /\ (gen' = 1 => ~socket')
  BY DEF UdsStop
<1>f. Past /\ gen' = 1 => gen = 1
  BY <1>b
<1> HIDE DEF Past, PastNow
<1>1. ASSUME NEW g \in Starts, Boot(g)
      PROVE  /\ socket' => kind' = "uds" /\ PastNow
             /\ kind' = "uds" /\ stopResult' = "ok" => PastNow /\ (gen' = 1 => ~socket')
  <2>1. /\ engine[g] = "booting" /\ engine' = [engine EXCEPT ![g] = "init"]
        /\ UNCHANGED <<kind, stopResult, gen>>
    BY <1>1 DEF Boot, OnInitComplete
  <2>2. socket' <=> kind = "uds" \/ socket
    BY <1>1, <1>a, Zenon DEF Boot, TypeOK
  <2>3. g \in 1 .. gen
    BY <2>1, <1>a, <1>b DEF EnginesKnown, Starts
  <2>4. PastNow
    BY <2>1, <2>3, <1>a DEF PastNow, TypeOK, ServerTypeOK
  <2>5. Past => gen # 1
    BY <2>1, <2>3 DEF Past
  <2> QED BY <1>d, <2>1, <2>2, <2>4, <2>5
<1>2. CASE StopRemoves
  <2>1. ~socket' /\ UNCHANGED kind
    BY <1>2, Zenon DEF StopRemoves
  <2>2. stopResult' = "ok" => socket
    BY <1>2 DEF StopRemoves
  <2> QED BY <1>c, <1>d, <2>1, <2>2
<1>3. ASSUME NEW g \in Starts, Shutdown(g)
      PROVE  /\ socket' => kind' = "uds" /\ PastNow
             /\ kind' = "uds" /\ stopResult' = "ok" => PastNow /\ (gen' = 1 => ~socket')
  <2>1. ~socket' /\ UNCHANGED <<kind, stopResult>>
    BY <1>3, Zenon DEF Shutdown
  <2> QED BY <1>c, <1>d, <2>1
<1>4. CASE StopCall \/ StopDone \/ StopCancelled
  <2>1. UNCHANGED <<socket, kind>> /\ kind = "tcp"
    BY <1>4 DEF StopCall, StopDone, StopCancelled, StopReturnsWith
  <2> QED BY <1>d, <2>1
<1>5. CASE StopCloses \/ Cancel \/ UNCHANGED ownVars
  <2>1. UNCHANGED <<socket, kind, stopResult>>
    BY <1>5 DEF StopCloses, Cancel, ownVars
  <2> QED BY <1>c, <1>d, <1>f, <2>1
<1> QED BY <1>1, <1>2, <1>3, <1>4, <1>5, OwnSteps

LEMMA GnetStep == GnetIInv /\ [Next]_vars => GnetIInv'
<1>1. GnetIInv /\ Next => GnetIInv'
  BY TypeNext, OwnSignalNext, SignalSentNext, UpMeansBootedNext, DummySignalNext, PanicNext, TcpStopNext,
     UdsStopNext DEF GnetIInv
<1>2. GnetIInv /\ UNCHANGED vars => GnetIInv'
  BY DEF vars, serverVars, ownVars, GnetIInv, TypeOK, ServerTypeOK, EnginesKnown, OwnSignal, SignalSent,
         UpMeansBooted, DummySignal, Got, Booted, Over, NoTimeout, StopCounted, PanicNeedsMisuse, TcpStop, UdsStop
<1> QED BY <1>1, <1>2

LEMMA InductiveHolds == Spec => []GnetIInv
BY GnetInit, GnetStep, PTL DEF Spec

-----------------------------------------------------------------------------

\* With the signals of an engine in one place each, at most one waiter can have
\* taken one.
LEMMA OneTaker ==
    ASSUME NEW S \in SUBSET Waiters, \A p, q \in S : p = q
    PROVE  Cardinality(S) <= 1
<1>1. CASE S = {}
  BY <1>1, FS_EmptySet
<1>2. ASSUME NEW p \in S PROVE Cardinality(S) <= 1
  <2>1. S = {p}
    OBVIOUS
  <2>2. Cardinality(S) = 1
    BY <2>1, FS_Singleton
  <2> QED BY <2>2
<1> QED BY <1>1, <1>2

LEMMA DeliveredOnce == GnetIInv => SignalDeliveredOnce
<1> SUFFICES ASSUME GnetIInv, kind = "dummy", NEW g \in Starts
             PROVE  LET got == {p \in Waiters : waiter[p] = [at |-> "released", on |-> g]}
                    IN  /\ started[g] = "closed" => result[g] = "ok" /\ \E h \in Starts : sendsOn[h] = g
                        /\ NoTimeout =>
                              /\ started[g] = "token" => got = {}
                              /\ started[g] = "open" => Cardinality(got) <= 1
  BY DEF SignalDeliveredOnce
<1> DEFINE got == {p \in Waiters : waiter[p] = [at |-> "released", on |-> g]}
<1>1. \A p \in got : p \in Waiters /\ Got(p, g)
  BY DEF Got
<1>2. started[g] = "closed" => result[g] = "ok" /\ \E h \in Starts : sendsOn[h] = g
  BY DEF GnetIInv, SignalSent, Starts, Gens
<1>3. ASSUME NoTimeout, started[g] = "token" PROVE got = {}
  BY <1>1, <1>3 DEF GnetIInv, DummySignal
<1>4. ASSUME NoTimeout, started[g] = "open" PROVE Cardinality(got) <= 1
  <2>1. got \in SUBSET Waiters /\ \A p, q \in got : p = q
    BY <1>1, <1>4 DEF GnetIInv, DummySignal
  <2> QED BY <2>1, OneTaker
<1> QED BY <1>2, <1>3, <1>4

\* In every state of the four lifecycles, for any number of Starts, Stops and
\* waiters (LifecycleInv): a caller of Start that got nil and a waiter that was
\* released have an engine that booted behind them, the caller's own as long as no
\* Start has timed out; as long as none has, the signal of a dummy engine is not
\* delivered twice; a TCP engine that runs is the one Stop reaches if no other has
\* booted.  For the first Start alone: a TCP Stop that returned nil leaves no
\* engine running, a UDS Stop that did no socket file.
THEOREM LifecycleCorrect == Spec => []LifecycleInv
<1>1. GnetIInv => LifecycleInv
  <2> SUFFICES ASSUME GnetIInv PROVE LifecycleInv
    OBVIOUS
  <2>1. SignalDeliveredOnce
    BY DeliveredOnce
  <2>2. RunningEngineKnown
    <3> SUFFICES ASSUME kind = "tcp", NEW g \in Running, \A h \in Starts \ {g} : sendsOn[h] = 0 PROVE eng = g
      BY DEF RunningEngineKnown
    <3>1. eng # 0 /\ sendsOn[eng] # 0 /\ eng \in Gens
      BY DEF GnetIInv, TcpStop, TypeOK, Running
    <3>2. eng \in Starts
      BY <3>1, BoundsAssumption DEF Gens, Starts
    <3> QED BY <3>1, <3>2
  <2>3. StopIsSynchronous
    BY BoundsAssumption DEF GnetIInv, TypeOK, ServerTypeOK, EnginesKnown, TcpStop, StopIsSynchronous, Running, Over, Starts, Gens
  <2>4. SocketStaysRemoved
    BY DEF GnetIInv, UdsStop, SocketStaysRemoved
  <2> QED BY <2>1, <2>2, <2>3, <2>4 DEF GnetIInv, LifecycleInv
<1> QED BY <1>1, InductiveHolds, PTL

\* Closing a closed channel, or sending on one, takes a second Stop or a Start that
\* timed out (PanicNeedsMisuse), in whatever order Start, Stop, WaitStarted and the
\* engine meet.
THEOREM PanicsOnlyAfterMisuse == Spec => []PanicNeedsMisuse
<1>1. GnetIInv => PanicNeedsMisuse
  BY DEF GnetIInv
<1> QED BY <1>1, InductiveHolds, PTL

-----------------------------------------------------------------------------
(***************************************************************************)
(* The requests over UDP, UDS, TCP and dummy, for all keys, payloads and   *)
(* lengths of the receive buffer: what the handlers keep although the      *)
(* values they pass on are slices of a buffer that is read into again, and *)
(* although a stream is cut into requests wherever a read happens to end.  *)
(***************************************************************************)

(* What clients send, and the parts of a frame.                             *)

LEMMA SentTyped ==
    ASSUME NEW f \in Sent
    PROVE  /\ f \in Seq(Bytes) /\ Len(f) \in Nat /\ Len(f) >= 2 + KeyLen /\ KeyLen \in Nat
           /\ Transports \cap {"udp", "dummy"} # {} => Len(f) <= MaxFrame
<1>1. PICK m \in [handler : {WriteHandlerType, ReadHandlerType} \cup OtherHandlers, key : Keys, data : Payloads] :
        f = Encode(m)
  BY DEF Sent
<1>2. m \in Message /\ m.data \in Payloads
  BY MessagesAssumption, RequestsAssumption, HandlersAssumption DEF Message, Bytes
<1>3. f \in Seq(Bytes) /\ Len(f) = MsgLen(m) /\ MsgLen(m) \in Nat
  BY <1>1, <1>2, EncodeBytes
<1>4. Header \in Nat /\ Header >= 2 + KeyLen /\ KeyLen \in Nat
  BY SizesAssumption DEF Header
<1>5. MsgLen(m) = Header + Len(m.data) /\ Len(m.data) \in Nat
  BY <1>2, MessagesAssumption DEF MsgLen
<1>6. Transports \cap {"udp", "dummy"} # {} => Header + Len(m.data) <= MaxFrame
  BY <1>2, DatagramAssumption
<1> QED BY <1>3, <1>4, <1>5, <1>6

LEMMA DatagramTyped ==
    ASSUME NEW f \in Datagrams, Transports \cap {"udp", "dummy"} # {}
    PROVE  f \in Seq(Bytes) /\ Len(f) \in Nat /\ Len(f) <= MaxFrame
<1>1. CASE f \in Sent
  BY <1>1, SentTyped
<1>2. ASSUME NEW g \in Sent, NEW n \in {0, KeyLen, 1 + KeyLen}, f = SubSeq(g, 1, n) PROVE f \in Seq(Bytes) /\ Len(f) \in Nat /\ Len(f) <= MaxFrame
  <2>1. g \in Seq(Bytes) /\ Len(g) \in Nat /\ Len(g) >= 2 + KeyLen /\ KeyLen \in Nat /\ Len(g) <= MaxFrame
    BY SentTyped
  <2>2. n \in 0 .. Len(g) /\ MaxFrame \in Nat
    BY <2>1, RequestsAssumption
  <2>3. \A i \in 1 .. n : g[i] \in Bytes
    BY <2>1, <2>2
  <2>4. f \in Seq(Bytes) /\ Len(f) = n
    BY <1>2, <2>2, <2>3, SubSeqProperties
  <2> QED BY <2>1, <2>2, <2>4
<1> QED BY <1>1, <1>2 DEF Datagrams

LEMMA FrameParts ==
    ASSUME NEW f \in Seq(Bytes), Len(f) >= 1 + KeyLen
    PROVE  /\ KeyOf(f) \in AllKeys
           /\ Len(RemainingPart(f)) = Len(f) - (1 + KeyLen)
<1>1. KeyLen \in Nat /\ Len(f) \in Nat
  BY SizesAssumption
<1>2. \A i \in 1 .. Len(f) : f[i] \in Bytes
  OBVIOUS
<1>3. KeyOf(f) \in [1 .. KeyLen -> Bytes]
  <2>1. \A i \in 2 .. 1 + KeyLen : f[i] \in Bytes
    BY <1>1, <1>2
  <2>2. SubSeq(f, 2, 1 + KeyLen) \in Seq(Bytes) /\ Len(SubSeq(f, 2, 1 + KeyLen)) = KeyLen
    BY <1>1, <2>1, SubSeqProperties
  <2>3. KeyOf(f) \in Seq(Bytes) /\ Len(KeyOf(f)) = KeyLen
    BY <2>2 DEF KeyOf
  <2> QED BY <2>3, LenProperties
<1>4. Len(RemainingPart(f)) = Len(f) - (1 + KeyLen)
  <2>1. \A i \in 2 + KeyLen .. Len(f) : f[i] \in Bytes
    BY <1>1, <1>2
  <2>2. 2 + KeyLen \in Int /\ Len(f) \in Int
    BY <1>1
  <2>3. Len(SubSeq(f, 2 + KeyLen, Len(f))) = IF 2 + KeyLen <= Len(f) THEN Len(f) - (2 + KeyLen) + 1 ELSE 0
    BY <2>1, <2>2, SubSeqProperties
  <2> QED BY <1>1, <2>3 DEF RemainingPart
<1> QED BY <1>3, <1>4 DEF AllKeys

-----------------------------------------------------------------------------
(* The handlers and the batch writer.                                       *)

\* A write of key k was acknowledged whose value has n bytes.
WriteOf(k, n) == \E f \in written : KeyOf(f) = k /\ Len(RemainingPart(f)) = n

DataTyped ==
    /\ packet \in [1 .. MaxFrame -> Bytes]
    /\ handlerRegistry \subseteq {WriteHandlerType, ReadHandlerType}
    /\ pending \in [AllKeys -> Seq(0 .. MaxFrame)]
    /\ store \in [AllKeys -> Seq(Seq(Bytes))] /\ \A k \in AllKeys : Len(store[k]) <= 1
    /\ written \subseteq Seq(Bytes)
    /\ out \in Replies
    /\ transport \in Transports

\* What was acknowledged had a byte after the key, and fits the receive buffer.
WrittenFrames == \A f \in written : Len(f) \in 2 + KeyLen .. MaxFrame

\* A slice waits for a commit, or its copy is in the database, under the key
\* of a write that was acknowledged and with the length of what followed the key.
SlicesWritten ==
    /\ \A k \in AllKeys : \A i \in DOMAIN pending[k] : WriteOf(k, pending[k][i])
    /\ \A k \in AllKeys : store[k] # <<>> => WriteOf(k, Len(store[k][1]))

DataIInv == DataTyped /\ WrittenFrames /\ SlicesWritten

\* Nothing stored is empty: at least a byte followed the key.
LEMMA NoEmptyValue ==
    ASSUME DataIInv, NEW k \in AllKeys, store[k] # <<>>
    PROVE  store[k][1] # <<>> /\ store[k][1] \in Seq(Bytes)
<1>1. PICK f \in written : KeyOf(f) = k /\ Len(RemainingPart(f)) = Len(store[k][1])
  BY DEF DataIInv, SlicesWritten, WriteOf
<1>2. f \in Seq(Bytes) /\ Len(f) >= 2 + KeyLen /\ Len(f) \in Nat /\ KeyLen \in Nat
  BY SizesAssumption, RequestsAssumption DEF DataIInv, DataTyped, WrittenFrames
<1>3. Len(RemainingPart(f)) >= 1
  BY <1>2, FrameParts
<1>4. store[k][1] \in Seq(Bytes)
  BY DEF DataIInv, DataTyped
<1> QED BY <1>1, <1>3, <1>4

RefuseTexts ==
    {"0x01", "Invalid action", "Unknown action", "Invalid message format", "Error reading"}

\* How a frame may end: refused, accepted, or answered with a value.
LEMMA Outcomes ==
    ASSUME DataIInv, NEW f \in Seq(Bytes), Dispatch(f)
    PROVE  \/ \E why \in RefuseTexts :
                /\ Refuse(why)
                /\ transport \in {"uds", "tcp"} /\ Len(f) >= 2 + KeyLen =>
                    \/ why = "Unknown action"
                    \/ why = "Invalid action" /\ f[1] \notin {WriteHandlerType, ReadHandlerType}
                    \/ why = "Error reading" /\ f[1] = ReadHandlerType /\ f[1] # WriteHandlerType
           \/ f[1] = WriteHandlerType /\ Len(f) >= 2 + KeyLen /\ BufferAndAck(f)
           \/ /\ f[1] = ReadHandlerType /\ f[1] # WriteHandlerType /\ Len(f) >= 1 + KeyLen
              /\ store[KeyOf(f)] # <<>>
              /\ out' = [kind |-> "value", key |-> KeyOf(f), value |-> store[KeyOf(f)][1]]
              /\ UNCHANGED <<pending, store, written>>
<1>1. Len(f) \in Nat /\ KeyLen \in Nat
  BY SizesAssumption
<1>2. CASE Len(f) < 1 \/ ~FromByte(f[1])
  <2>1. Refuse("Invalid action")
    BY <1>2 DEF Dispatch
  <2>2. Len(f) >= 2 + KeyLen => f[1] \notin {WriteHandlerType, ReadHandlerType}
    BY <1>1, <1>2 DEF FromByte
  <2> QED BY <2>1, <2>2 DEF RefuseTexts
<1>3. CASE FromByte(f[1]) /\ ~(Len(f) < 1) /\ f[1] \notin handlerRegistry
  <2>1. Refuse("Unknown action")
    BY <1>3 DEF Dispatch
  <2> QED BY <2>1 DEF RefuseTexts
<1>4. CASE FromByte(f[1]) /\ ~(Len(f) < 1) /\ f[1] \in handlerRegistry
  <2>1. Handle(f) /\ transport \in {"udp", "dummy", "uds", "tcp"}
    BY <1>4, RequestsAssumption DEF Dispatch, DataIInv, DataTyped
  <2>2. CASE transport = "dummy"
    <3>1. Refuse("0x01")
      BY <2>1, <2>2 DEF Handle, HandleWriteDummy, HandleReadDummy
    <3> QED BY <2>2, <3>1 DEF RefuseTexts
  <2>3. CASE transport # "dummy" /\ f[1] = WriteHandlerType
    <3>1. HandleWrite(f)
      BY <2>1, <2>3 DEF Handle, HandleWriteUDS, HandleWriteTCP
    <3>2. CASE Len(f) < 2 + KeyLen
      <4>1. Refuse("0x01")
        BY <3>1, <3>2 DEF HandleWrite
      <4>2. ~(Len(f) >= 2 + KeyLen)
        BY <1>1, <3>2
      <4> QED BY <4>1, <4>2 DEF RefuseTexts
    <3>3. CASE ~(Len(f) < 2 + KeyLen)
      <4>1. BufferAndAck(f)
        BY <3>1, <3>3 DEF HandleWrite
      <4>2. Len(f) >= 2 + KeyLen
        BY <1>1, <3>3
      <4> QED BY <2>3, <4>1, <4>2
    <3> QED BY <3>2, <3>3
  <2>4. CASE transport # "dummy" /\ f[1] # WriteHandlerType
    <3>1. HandleRead(f) /\ f[1] = ReadHandlerType
      BY <1>4, <2>1, <2>4 DEF Handle, HandleReadUDS, HandleReadTCP, FromByte
    <3>2. CASE Len(f) < 1 + KeyLen
      <4>1. Refuse("Invalid message format")
        BY <3>1, <3>2 DEF HandleRead
      <4>2. ~(Len(f) >= 2 + KeyLen)
        BY <1>1, <3>2
      <4> QED BY <4>1, <4>2 DEF RefuseTexts
    <3>3. CASE ~(Len(f) < 1 + KeyLen) /\ store[KeyOf(f)] = <<>>
      <4>1. Refuse("Error reading")
        BY <3>1, <3>3 DEF HandleRead
      <4> QED BY <2>4, <3>1, <4>1 DEF RefuseTexts
    <3>4. CASE ~(Len(f) < 1 + KeyLen) /\ store[KeyOf(f)] # <<>>
      <4>1. Len(f) >= 1 + KeyLen
        BY <1>1, <3>4
      <4>2. KeyOf(f) \in AllKeys
        BY <4>1, FrameParts
      <4>3. store[KeyOf(f)][1] # <<>>
        BY <3>4, <4>2, NoEmptyValue
      <4> QED BY <2>4, <3>1, <3>4, <4>1, <4>3 DEF HandleRead
    <3> QED BY <3>2, <3>3, <3>4
  <2> QED BY <2>1, <2>2, <2>3, <2>4
<1> QED BY <1>2, <1>3, <1>4

LEMMA CopyAtTyped ==
    ASSUME NEW b \in [1 .. MaxFrame -> Bytes], NEW f \in Seq(Bytes)
    PROVE  CopyAt(b, 0, f) \in [1 .. MaxFrame -> Bytes]
<1>1. MaxFrame \in Nat
  BY RequestsAssumption
<1> SUFFICES ASSUME NEW i \in 1 .. MaxFrame
             PROVE  (IF i - 0 \in DOMAIN f THEN f[i - 0] ELSE b[i]) \in Bytes
  BY DEF CopyAt
<1> QED OBVIOUS

LEMMA DispatchStep ==
    ASSUME DataIInv, NEW f \in Seq(Bytes), Len(f) <= MaxFrame, Dispatch(f)
    PROVE  DataIInv'
<1>1. /\ packet' \in [1 .. MaxFrame -> Bytes] /\ transport' \in Transports
      /\ handlerRegistry' \subseteq {WriteHandlerType, ReadHandlerType}
  BY CopyAtTyped DEF Dispatch, DataIInv, DataTyped
<1>2. MaxFrame \in Nat /\ KeyLen \in Nat /\ Len(f) \in Nat
  BY RequestsAssumption, SizesAssumption
<1>3. AllKeys' = AllKeys /\ Replies' = Replies
  BY DEF AllKeys, Replies
<1>4. ASSUME UNCHANGED <<pending, store, written>>, out' \in Replies PROVE DataIInv'
  <2>1. DataTyped'
    BY <1>1, <1>4 DEF DataTyped, DataIInv
  <2>2. WrittenFrames'
    BY <1>4 DEF WrittenFrames, DataIInv
  <2>3. SlicesWritten'
    BY <1>4 DEF SlicesWritten, WriteOf, DataIInv
  <2> QED BY <1>4, <2>1, <2>2, <2>3 DEF DataIInv
<1>5. ASSUME NEW why \in RefuseTexts, Refuse(why) PROVE DataIInv'
  <2>1. out' \in Replies /\ UNCHANGED <<pending, store, written>>
    BY <1>5 DEF Refuse, RefuseTexts, Replies
  <2> QED BY <1>4, <2>1
<1>6. CASE Len(f) >= 2 + KeyLen /\ BufferAndAck(f)
  <2> DEFINE k == KeyOf(f)
             n == Len(RemainingPart(f))
  <2>1. k \in AllKeys /\ n = Len(f) - (1 + KeyLen) /\ n \in 0 .. MaxFrame
    BY <1>2, <1>6, FrameParts
  <2>2. /\ pending' = [pending EXCEPT ![k] = Append(@, n)] /\ written' = written \cup {f}
        /\ out' = [kind |-> "0x00"] /\ store' = store
    BY <1>6 DEF BufferAndAck
  <2>3. KeyOf(f) = k /\ Len(RemainingPart(f)) = n
    OBVIOUS
  <2> HIDE DEF k, n
  <2>4. pending \in [AllKeys -> Seq(0 .. MaxFrame)]
    BY DEF DataIInv, DataTyped
  <2>5. pending[k] \in Seq(0 .. MaxFrame)
    BY <2>1, <2>4
  <2>6. /\ Append(pending[k], n) \in Seq(0 .. MaxFrame)
        /\ \A i \in DOMAIN Append(pending[k], n) :
            \/ i \in DOMAIN pending[k] /\ Append(pending[k], n)[i] = pending[k][i]
            \/ Append(pending[k], n)[i] = n
    BY <2>1, <2>5
  <2>7. /\ pending' \in [AllKeys -> Seq(0 .. MaxFrame)]
        /\ pending'[k] = Append(pending[k], n)
        /\ \A q \in AllKeys \ {k} : pending'[q] = pending[q]
    BY <2>1, <2>2, <2>4, <2>6
  <2>8. out' \in Replies
    BY <2>2 DEF Replies
  <2>9. DataTyped'
    BY <1>1, <1>3, <2>2, <2>7, <2>8 DEF DataTyped, DataIInv
  <2>10. WrittenFrames'
    BY <1>2, <1>6, <2>2 DEF WrittenFrames, DataIInv
  <2> DEFINE WriteOf2(q, x) == \E g \in written' : KeyOf(g) = q /\ Len(RemainingPart(g)) = x
  <2>11. (\A q, x : WriteOf(q, x) => WriteOf2(q, x)) /\ WriteOf2(k, n)
    BY <2>2, <2>3 DEF WriteOf
  <2>12. SlicesWritten'
    <3>1. /\ \A q \in AllKeys : \A i \in DOMAIN pending[q] : WriteOf(q, pending[q][i])
          /\ \A q \in AllKeys : store[q] # <<>> => WriteOf(q, Len(store[q][1]))
      BY DEF DataIInv, SlicesWritten
    <3> HIDE DEF WriteOf2
    <3>2. ASSUME NEW q \in AllKeys, NEW i \in DOMAIN pending'[q] PROVE WriteOf2(q, pending'[q][i])
      <4>1. CASE q = k
        <5>1. i \in DOMAIN Append(pending[k], n) /\ pending'[q][i] = Append(pending[k], n)[i]
          BY <2>7, <3>2, <4>1
        <5>2. CASE i \in DOMAIN pending[k] /\ Append(pending[k], n)[i] = pending[k][i]
          BY <2>1, <2>11, <3>1, <4>1, <5>1, <5>2
        <5>3. CASE Append(pending[k], n)[i] = n
          BY <2>11, <4>1, <5>1, <5>3
        <5> QED BY <2>6, <5>1, <5>2, <5>3
      <4>2. CASE q # k
        <5>1. pending'[q] = pending[q]
          BY <2>7, <4>2
        <5> QED BY <2>11, <3>1, <3>2, <5>1
      <4> QED BY <4>1, <4>2
    <3>3. ASSUME NEW q \in AllKeys, store'[q] # <<>> PROVE WriteOf2(q, Len(store'[q][1]))
      BY <2>2, <2>11, <3>1, <3>3
    <3> QED BY <1>3, <3>2, <3>3 DEF SlicesWritten, WriteOf, WriteOf2
  <2> QED BY <2>8, <2>9, <2>10, <2>12 DEF DataIInv
<1>7. CASE /\ Len(f) >= 1 + KeyLen /\ store[KeyOf(f)] # <<>>
           /\ out' = [kind |-> "value", key |-> KeyOf(f), value |-> store[KeyOf(f)][1]]
           /\ UNCHANGED <<pending, store, written>>
  <2>1. KeyOf(f) \in AllKeys
    BY <1>7, FrameParts
  <2>2. store[KeyOf(f)][1] \in Seq(Bytes)
    BY <1>7, <2>1, NoEmptyValue
  <2>3. out' \in Replies
    BY <1>7, <2>1, <2>2 DEF Replies
  <2> QED BY <1>4, <1>7, <2>3
<1> QED BY <1>5, <1>6, <1>7, Outcomes

\* A whole request is answered with one of its answers.
LEMMA DispatchAnswers ==
    ASSUME DataIInv, NEW f \in Sent, Dispatch(f), transport \in {"uds", "tcp"}
    PROVE  out' \in Answers(f)
<1>1. f \in Seq(Bytes) /\ Len(f) >= 2 + KeyLen
  BY SentTyped
<1>2. ASSUME NEW why \in RefuseTexts, Refuse(why),
             \/ why = "Unknown action"
             \/ why = "Invalid action" /\ f[1] \notin {WriteHandlerType, ReadHandlerType}
             \/ why = "Error reading" /\ f[1] = ReadHandlerType /\ f[1] # WriteHandlerType
      PROVE  out' \in Answers(f)
  BY <1>2 DEF Refuse, Answers
<1>3. CASE f[1] = WriteHandlerType /\ BufferAndAck(f)
  BY <1>3 DEF BufferAndAck, Answers
<1>4. CASE /\ f[1] = ReadHandlerType /\ f[1] # WriteHandlerType /\ Len(f) >= 1 + KeyLen
           /\ store[KeyOf(f)] # <<>>
           /\ out' = [kind |-> "value", key |-> KeyOf(f), value |-> store[KeyOf(f)][1]]
  <2>1. KeyOf(f) \in AllKeys
    BY <1>1, <1>4, FrameParts
  <2>2. store[KeyOf(f)][1] \in Seq(Bytes)
    BY <1>4, <2>1, NoEmptyValue
  <2> QED BY <1>4, <2>2 DEF Answers
<1> QED BY <1>1, <1>2, <1>3, <1>4, Outcomes

\* What a commit finds in the receive buffer is as long as what was written.
LEMMA SliceTyped ==
    ASSUME DataIInv, NEW k \in AllKeys, NEW i \in DOMAIN pending[k]
    PROVE  Slice(pending[k][i]) \in Seq(Bytes) /\ Len(Slice(pending[k][i])) = pending[k][i]
<1>1. PICK f \in written : KeyOf(f) = k /\ Len(RemainingPart(f)) = pending[k][i]
  BY DEF DataIInv, SlicesWritten, WriteOf
<1>2. /\ f \in Seq(Bytes) /\ Len(f) >= 2 + KeyLen /\ Len(f) <= MaxFrame
      /\ Len(f) \in Nat /\ KeyLen \in Nat /\ MaxFrame \in Nat
  BY SizesAssumption, RequestsAssumption DEF DataIInv, DataTyped, WrittenFrames
<1>3. Len(RemainingPart(f)) = Len(f) - (1 + KeyLen)
  BY <1>2, FrameParts
<1>4. PICK n \in Nat : n = pending[k][i] /\ 1 + KeyLen + n <= MaxFrame
  <2>1. pending[k][i] = Len(f) - (1 + KeyLen)
    BY <1>1, <1>3
  <2>2. Len(f) - (1 + KeyLen) \in Nat /\ 1 + KeyLen + (Len(f) - (1 + KeyLen)) <= MaxFrame
    BY <1>2
  <2> QED BY <2>1, <2>2
<1>5. packet \in [1 .. MaxFrame -> Bytes]
  BY DEF DataIInv, DataTyped
<1>6. PICK lo \in Int, hi \in Int : lo = 2 + KeyLen /\ hi = 1 + KeyLen + n
  BY <1>2, <1>4
<1>7. \A q \in lo .. hi : packet[q] \in Bytes
  BY <1>2, <1>4, <1>5, <1>6
<1>8. SubSeq(packet, lo, hi) \in Seq(Bytes) /\ Len(SubSeq(packet, lo, hi)) = IF lo <= hi THEN hi - lo + 1 ELSE 0
  BY <1>6, <1>7, SubSeqProperties
<1>9. (IF lo <= hi THEN hi - lo + 1 ELSE 0) = n
  <2>1. n \in Nat /\ KeyLen \in Nat
    BY <1>2, <1>4
  <2>2. hi = lo + n - 1 /\ lo \in Int /\ hi \in Int
    BY <1>6, <2>1
  <2> QED BY <2>1, <2>2
<1>10. Slice(pending[k][i]) = SubSeq(packet, lo, hi)
  BY <1>4, <1>6 DEF Slice
<1> QED BY <1>4, <1>8, <1>9, <1>10

LEMMA FlushStep ==
    ASSUME DataIInv, NEW k \in AllKeys, NEW n \in DOMAIN pending[k], Flush(k, n)
    PROVE  DataIInv'
<1> DEFINE v == Slice(pending[k][n])
<1>1. v \in Seq(Bytes) /\ Len(v) = pending[k][n]
  BY SliceTyped
<1>2. /\ store' = [store EXCEPT ![k] = <<v>>]
      /\ pending' = [pending EXCEPT ![k] = SubSeq(pending[k], n + 1, Len(pending[k]))]
      /\ UNCHANGED <<transport, packet, handlerRegistry, written, out>>
  BY DEF Flush, Put
<1> HIDE DEF v
<1>3. /\ pending \in [AllKeys -> Seq(0 .. MaxFrame)]
      /\ store \in [AllKeys -> Seq(Seq(Bytes))] /\ \A q \in AllKeys : Len(store[q]) <= 1
  BY DEF DataIInv, DataTyped
<1>4. PICK p \in Seq(0 .. MaxFrame) : p = pending[k]
  BY <1>3
<1>5. PICK l \in Nat : l = Len(p) /\ n \in 1 .. l /\ DOMAIN p = 1 .. l /\ \A i \in 1 .. l : p[i] \in 0 .. MaxFrame
  <2>1. Len(p) \in Nat /\ DOMAIN p = 1 .. Len(p) /\ \A i \in 1 .. Len(p) : p[i] \in 0 .. MaxFrame
    BY LenProperties, ElementOfSeq
  <2>2. n \in DOMAIN p
    BY <1>4
  <2> QED BY <2>1, <2>2
<1>6. PICK p2 : p2 = SubSeq(p, n + 1, l)
  OBVIOUS
<1>7. p2 \in Seq(0 .. MaxFrame) /\ \A i \in DOMAIN p2 : i + n \in DOMAIN p /\ p2[i] = p[i + n]
  <2>1. PICK lo \in Int : lo = n + 1
    BY <1>5
  <2>2. \A i \in lo .. l : p[i] \in 0 .. MaxFrame
    BY <1>5, <2>1
  <2>3. /\ p2 \in Seq(0 .. MaxFrame)
        /\ Len(p2) = IF lo <= l THEN l - lo + 1 ELSE 0
        /\ \A i \in 1 .. l - lo + 1 : p2[i] = p[lo + i - 1]
    BY <1>5, <1>6, <2>1, <2>2, SubSeqProperties
  <2>4. (IF lo <= l THEN l - lo + 1 ELSE 0) = l - n /\ l - lo + 1 = l - n
    BY <1>5, <2>1
  <2>5. DOMAIN p2 = 1 .. l - n
    BY <2>3, <2>4
  <2> SUFFICES ASSUME NEW i \in 1 .. l - n PROVE i + n \in 1 .. l /\ p2[i] = p[i + n]
    BY <1>5, <2>3, <2>5
  <2>6. lo + i - 1 = i + n /\ i + n \in 1 .. l
    BY <1>5, <2>1
  <2>7. p2[i] = p[lo + i - 1]
    BY <2>3, <2>4
  <2> QED BY <2>6, <2>7
<1>8. /\ pending' \in [AllKeys -> Seq(0 .. MaxFrame)] /\ pending'[k] = p2
      /\ \A q \in AllKeys \ {k} : pending'[q] = pending[q]
  BY <1>2, <1>3, <1>4, <1>5, <1>6, <1>7
<1>9. <<v>> \in Seq(Seq(Bytes)) /\ Len(<<v>>) = 1 /\ <<v>>[1] = v
  BY <1>1
<1>10. /\ store' \in [AllKeys -> Seq(Seq(Bytes))] /\ store'[k] = <<v>>
       /\ \A q \in AllKeys \ {k} : store'[q] = store[q]
  BY <1>2, <1>3, <1>9
<1>11. \A q \in AllKeys : Len(store'[q]) <= 1
  <2> TAKE q \in AllKeys
  <2>1. CASE q = k
    <3>1. Len(store'[q]) = 1
      BY <1>9, <1>10, <2>1
    <3> QED BY <3>1
  <2>2. CASE q # k
    BY <1>3, <1>10, <2>2
  <2> QED BY <2>1, <2>2
<1>12. DataTyped'
  BY <1>2, <1>8, <1>10, <1>11 DEF DataTyped, DataIInv, AllKeys, Replies
<1>13. WrittenFrames'
  BY <1>2 DEF WrittenFrames, DataIInv
<1>14. SlicesWritten'
  <2>1. /\ \A q \in AllKeys : \A i \in DOMAIN pending[q] : WriteOf(q, pending[q][i])
        /\ \A q \in AllKeys : store[q] # <<>> => WriteOf(q, Len(store[q][1]))
    BY DEF DataIInv, SlicesWritten
  <2>2. ASSUME NEW q \in AllKeys, NEW i \in DOMAIN pending'[q] PROVE WriteOf(q, pending'[q][i])
    <3>1. CASE q = k
      BY <1>4, <1>7, <1>8, <2>1, <2>2, <3>1
    <3>2. CASE q # k
      BY <1>8, <2>1, <2>2, <3>2
    <3> QED BY <3>1, <3>2
  <2>3. ASSUME NEW q \in AllKeys, store'[q] # <<>> PROVE WriteOf(q, Len(store'[q][1]))
    <3>1. CASE q = k
      <4>1. Len(store'[q][1]) = pending[k][n]
        BY <1>1, <1>9, <1>10, <3>1
      <4> QED BY <2>1, <3>1, <4>1
    <3>2. CASE q # k
      BY <1>10, <2>1, <2>3, <3>2
    <3> QED BY <3>1, <3>2
  <2> QED BY <1>2, <2>2, <2>3 DEF SlicesWritten, WriteOf, AllKeys
<1> QED BY <1>12, <1>13, <1>14 DEF DataIInv

-----------------------------------------------------------------------------
(* The stream.                                                              *)

\* The requests n + 1 .. Len(a) lie on the wire w one behind the other, from
\* its first to its last byte: o[i] is where request i begins.  FlattenSeq says
\* the same by recursion; positions need no induction.
Offsets(w, a, n, o) ==
    /\ o \in [n + 1 .. Len(a) + 1 -> 0 .. Len(w)]
    /\ o[n + 1] = 0 /\ o[Len(a) + 1] = Len(w)
    /\ \A i, k \in n + 1 .. Len(a) + 1 : i <= k => o[i] <= o[k]
    /\ \A i \in n + 1 .. Len(a) : o[i + 1] = o[i] + Len(a[i])
    /\ \A i \in n + 1 .. Len(a) : \A p \in 1 .. Len(a[i]) : w[o[i] + p] = a[i][p]

Laid(w, a, n) == n \in 0 .. Len(a) /\ \E o : Offsets(w, a, n, o)

LEMMA SentSeq ==
    ASSUME NEW a \in Seq(Sent), NEW i \in 1 .. Len(a)
    PROVE  a[i] \in Sent /\ a[i] \in Seq(Bytes) /\ Len(a[i]) \in Nat /\ Len(a[i]) >= 1
<1>1. a[i] \in Sent
  BY ElementOfSeq
<1> QED BY <1>1, SentTyped

\* One more request behind the others.
LEMMA LaidAppend ==
    ASSUME NEW w \in Seq(Bytes), NEW a \in Seq(Sent), NEW n, Laid(w, a, n), NEW f \in Sent
    PROVE  Laid(w \o f, Append(a, f), n)
<1>1. PICK o : Offsets(w, a, n, o)
  BY DEF Laid
<1>2. PICK l \in Nat, z \in Nat, y \in Nat : l = Len(a) /\ z = Len(w) /\ y = Len(f)
  BY SentTyped
<1>3. n \in 0 .. l
  BY <1>2 DEF Laid
<1>4. PICK b : b = Append(a, f)
  OBVIOUS
<1>5. Len(b) = l + 1 /\ b[l + 1] = f /\ \A i \in 1 .. l : b[i] = a[i]
  BY <1>2, <1>4, AppendProperties
<1>6. PICK u : u = w \o f
  OBVIOUS
<1>7. Len(u) = z + y /\ (\A i \in 1 .. z : u[i] = w[i]) /\ \A i \in 1 .. y : u[z + i] = f[i]
  <2>1. f \in Seq(Bytes)
    BY SentTyped
  <2> QED BY <1>2, <1>6, <2>1, Concat
<1>8. /\ o \in [n + 1 .. l + 1 -> 0 .. z] /\ o[n + 1] = 0 /\ o[l + 1] = z
      /\ \A i, k \in n + 1 .. l + 1 : i <= k => o[i] <= o[k]
      /\ \A i \in n + 1 .. l : o[i + 1] = o[i] + Len(a[i])
      /\ \A i \in n + 1 .. l : \A p \in 1 .. Len(a[i]) : w[o[i] + p] = a[i][p]
  BY <1>1, <1>2 DEF Offsets
<1> DEFINE o2 == [i \in n + 1 .. l + 2 |-> IF i = l + 2 THEN z + y ELSE o[i]]
<1>9. /\ o2 \in [n + 1 .. l + 2 -> 0 .. z + y] /\ o2[l + 2] = z + y
      /\ \A i \in n + 1 .. l + 1 : o2[i] = o[i]
  BY <1>2, <1>3, <1>8
<1> HIDE DEF o2
<1>10. o2[n + 1] = 0
  BY <1>2, <1>3, <1>8, <1>9
<1>11. \A i, k \in n + 1 .. l + 2 : i <= k => o2[i] <= o2[k]
  <2> SUFFICES ASSUME NEW i \in n + 1 .. l + 2, NEW k \in n + 1 .. l + 2, i <= k PROVE o2[i] <= o2[k]
    OBVIOUS
  <2>1. CASE k = l + 2
    <3>1. o2[i] \in 0 .. z + y /\ o2[k] = z + y
      BY <1>9, <2>1
    <3> QED BY <1>2, <3>1
  <2>2. CASE k # l + 2
    <3>1. i \in n + 1 .. l + 1 /\ k \in n + 1 .. l + 1
      BY <1>2, <1>3, <2>2
    <3>2. o2[i] = o[i] /\ o2[k] = o[k]
      BY <1>9, <3>1
    <3>3. o[i] <= o[k]
      BY <1>8, <3>1
    <3> QED BY <3>2, <3>3
  <2> QED BY <2>1, <2>2
<1>12. ASSUME NEW i \in n + 1 .. l + 1
       PROVE  o2[i + 1] = o2[i] + Len(b[i]) /\ \A p \in 1 .. Len(b[i]) : u[o2[i] + p] = b[i][p]
  <2>1. CASE i = l + 1
    <3>1. b[i] = f /\ Len(b[i]) = y
      BY <1>2, <1>5, <2>1
    <3>2. i + 1 = l + 2 /\ o2[i + 1] = z + y
      BY <1>2, <1>9, <2>1
    <3>3. l + 1 \in n + 1 .. l + 1 /\ o2[i] = z
      BY <1>2, <1>3, <1>8, <1>9, <2>1
    <3> QED BY <1>2, <1>7, <3>1, <3>2, <3>3
  <2>2. CASE i # l + 1
    <3>1. i \in n + 1 .. l /\ i \in 1 .. l /\ i \in n + 1 .. l + 1 /\ i + 1 \in n + 1 .. l + 1
      BY <1>2, <1>3, <2>2
    <3>2. o2[i] = o[i] /\ o2[i + 1] = o[i + 1] /\ b[i] = a[i]
      BY <1>5, <1>9, <3>1
    <3>3. o[i] \in 0 .. z /\ o[i + 1] \in 0 .. z /\ o[i + 1] = o[i] + Len(a[i])
      BY <1>8, <3>1
    <3>4. Len(a[i]) \in Nat
      BY <1>2, <3>1, SentSeq
    <3>5. ASSUME NEW p \in 1 .. Len(a[i]) PROVE u[o[i] + p] = a[i][p]
      <4>1. o[i] + p \in 1 .. z
        BY <1>2, <3>3, <3>4
      <4>2. w[o[i] + p] = a[i][p]
        BY <1>8, <3>1
      <4> QED BY <1>7, <4>1, <4>2
    <3> QED BY <3>2, <3>3, <3>5
  <2> QED BY <2>1, <2>2
<1>13. n \in 0 .. Len(b) /\ Len(b) + 1 = l + 2
  BY <1>2, <1>3, <1>5
<1>14. Offsets(u, b, n, o2)
  <2>1. Len(b) = l + 1 /\ Len(u) = z + y
    BY <1>5, <1>7
  <2>2. o2[Len(b) + 1] = Len(u)
    BY <1>9, <1>13, <2>1
  <2> QED BY <1>9, <1>10, <1>11, <1>12, <1>13, <2>1, <2>2 DEF Offsets
<1> QED BY <1>4, <1>6, <1>13, <1>14 DEF Laid

\* Nothing is on the wire when every request was answered.
LEMMA LaidNothing ==
    ASSUME NEW w \in Seq(Bytes), NEW a \in Seq(Sent), Laid(w, a, Len(a))
    PROVE  Len(w) = 0
BY DEF Laid, Offsets

\* The first bytes are the first request without an answer, all of it, and
\* what is behind them the other ones.
LEMMA LaidRead ==
    ASSUME NEW w \in Seq(Bytes), NEW a \in Seq(Sent), NEW n, Laid(w, a, n), n # Len(a)
    PROVE  /\ n + 1 \in 1 .. Len(a)
           /\ SubSeq(w, 1, Len(a[n + 1])) = a[n + 1]
           /\ Laid(SubSeq(w, Len(a[n + 1]) + 1, Len(w)), a, n + 1)
<1>1. PICK o : Offsets(w, a, n, o)
  BY DEF Laid
<1>2. PICK l \in Nat, z \in Nat : l = Len(a) /\ z = Len(w)
  OBVIOUS
<1>3. n \in 0 .. l /\ n < l /\ n + 1 \in 1 .. l
  BY <1>2 DEF Laid
<1>4. PICK f \in Sent : f = a[n + 1]
  BY <1>2, <1>3, SentSeq
<1>5. PICK y \in Nat : y = Len(f) /\ y >= 1
  BY <1>4, SentTyped, SizesAssumption
<1>6. /\ o \in [n + 1 .. l + 1 -> 0 .. z] /\ o[n + 1] = 0 /\ o[l + 1] = z
      /\ \A i, k \in n + 1 .. l + 1 : i <= k => o[i] <= o[k]
      /\ \A i \in n + 1 .. l : o[i + 1] = o[i] + Len(a[i])
      /\ \A i \in n + 1 .. l : \A p \in 1 .. Len(a[i]) : w[o[i] + p] = a[i][p]
  BY <1>1, <1>2 DEF Offsets
<1>7. o[n + 2] = y /\ y <= z
  <2>1. n + 1 \in n + 1 .. l /\ n + 2 \in n + 1 .. l + 1 /\ (n + 1) + 1 = n + 2
    BY <1>2, <1>3
  <2>2. o[n + 2] = o[n + 1] + Len(a[n + 1]) /\ o[n + 2] \in 0 .. z
    BY <1>6, <2>1
  <2> QED BY <1>2, <1>4, <1>5, <1>6, <2>2
<1>8. SubSeq(w, 1, y) = f
  <2>1. f \in Seq(Bytes)
    BY <1>4, SentTyped
  <2>2. \A i \in 1 .. y : w[i] \in Bytes
    BY <1>2, <1>7, ElementOfSeq
  <2>3. /\ SubSeq(w, 1, y) \in Seq(Bytes) /\ Len(SubSeq(w, 1, y)) = y
        /\ \A i \in 1 .. y : SubSeq(w, 1, y)[i] = w[i]
    BY <1>5, <2>2, SubSeqProperties
  <2>4. \A i \in 1 .. y : w[i] = f[i]
    <3> TAKE i \in 1 .. y
    <3>1. n + 1 \in n + 1 .. l /\ Len(a[n + 1]) = y
      BY <1>3, <1>4, <1>5
    <3>2. w[o[n + 1] + i] = a[n + 1][i]
      BY <1>6, <3>1
    <3>3. o[n + 1] + i = i
      BY <1>6
    <3> QED BY <1>4, <3>2, <3>3
  <2> QED BY <1>5, <2>1, <2>3, <2>4, SeqEqual
<1>9. PICK u : u = SubSeq(w, y + 1, z)
  OBVIOUS
<1>10. Len(u) = z - y /\ \A i \in 1 .. z - y : u[i] = w[y + i]
  <2>1. PICK lo \in Int : lo = y + 1
    BY <1>5
  <2>2. \A i \in lo .. z : w[i] \in Bytes
    BY <1>2, <1>5, <2>1, ElementOfSeq
  <2>3. /\ Len(u) = IF lo <= z THEN z - lo + 1 ELSE 0
        /\ \A i \in 1 .. z - lo + 1 : u[i] = w[lo + i - 1]
    BY <1>2, <1>9, <2>1, <2>2, SubSeqProperties
  <2>4. (IF lo <= z THEN z - lo + 1 ELSE 0) = z - y /\ z - lo + 1 = z - y
    BY <1>2, <1>5, <1>7, <2>1
  <2>5. ASSUME NEW i \in 1 .. z - y PROVE u[i] = w[y + i]
    <3>1. lo + i - 1 = y + i
      BY <1>5, <2>1
    <3> QED BY <2>3, <2>4, <3>1
  <2> QED BY <2>3, <2>4, <2>5
<1> DEFINE o2 == [i \in n + 2 .. l + 1 |-> o[i] - y]
<1>11. \A i \in n + 2 .. l + 1 : o[i] \in y .. z /\ o[i] \in Int
  <2> TAKE i \in n + 2 .. l + 1
  <2>1. i \in n + 1 .. l + 1 /\ n + 2 \in n + 1 .. l + 1 /\ n + 2 <= i
    BY <1>2, <1>3
  <2>2. o[n + 2] <= o[i] /\ o[i] \in 0 .. z
    BY <1>6, <2>1
  <2> QED BY <1>5, <1>7, <2>2
<1>12. o2 \in [n + 2 .. l + 1 -> 0 .. z - y] /\ \A i \in n + 2 .. l + 1 : o2[i] = o[i] - y
  BY <1>2, <1>5, <1>11
<1> HIDE DEF o2
<1>13. o2[n + 2] = 0 /\ o2[l + 1] = z - y
  <2>1. n + 2 \in n + 2 .. l + 1 /\ l + 1 \in n + 2 .. l + 1
    BY <1>2, <1>3
  <2>2. o2[n + 2] = o[n + 2] - y /\ o2[l + 1] = o[l + 1] - y
    BY <1>12, <2>1
  <2>3. o[n + 2] = y /\ o[l + 1] = z
    BY <1>6, <1>7
  <2> QED BY <1>2, <1>5, <2>2, <2>3
<1>14. \A i, k \in n + 2 .. l + 1 : i <= k => o2[i] <= o2[k]
  <2> SUFFICES ASSUME NEW i \in n + 2 .. l + 1, NEW k \in n + 2 .. l + 1, i <= k PROVE o2[i] <= o2[k]
    OBVIOUS
  <2>1. o[i] <= o[k]
    BY <1>2, <1>3, <1>6
  <2>2. o[i] \in Int /\ o[k] \in Int /\ o2[i] = o[i] - y /\ o2[k] = o[k] - y
    BY <1>11, <1>12
  <2> QED BY <1>5, <2>1, <2>2
<1>15. ASSUME NEW i \in n + 2 .. l
       PROVE  o2[i + 1] = o2[i] + Len(a[i]) /\ \A p \in 1 .. Len(a[i]) : u[o2[i] + p] = a[i][p]
  <2>1. i \in n + 1 .. l /\ i \in n + 2 .. l + 1 /\ i + 1 \in n + 2 .. l + 1 /\ i \in 1 .. l
    BY <1>2, <1>3
  <2>2. /\ o[i] \in y .. z /\ o[i + 1] \in y .. z /\ o2[i] = o[i] - y /\ o2[i + 1] = o[i + 1] - y
        /\ o[i + 1] = o[i] + Len(a[i])
    BY <1>6, <1>11, <1>12, <2>1
  <2>3. Len(a[i]) \in Nat
    BY <1>2, <2>1, SentSeq
  <2>4. o2[i + 1] = o2[i] + Len(a[i])
    BY <1>2, <1>5, <2>2, <2>3
  <2>5. ASSUME NEW p \in 1 .. Len(a[i]) PROVE u[o2[i] + p] = a[i][p]
    <3>1. o2[i] + p \in 1 .. z - y /\ y + (o2[i] + p) = o[i] + p
      <4>1. PICK s \in Int, t \in Int, m \in Nat : s = o[i] /\ t = o2[i] /\ m = Len(a[i])
        BY <1>2, <1>5, <2>2, <2>3
      <4>2. t = s - y /\ s >= y /\ s + m <= z /\ p \in 1 .. m
        <5>1. o[i + 1] = s + m /\ o[i + 1] \in y .. z /\ o[i] \in y .. z
          BY <2>2, <4>1
        <5> QED BY <1>2, <1>5, <2>2, <2>5, <4>1, <5>1
      <4>3. t + p \in 1 .. z - y /\ y + (t + p) = s + p
        <5>1. z \in Int /\ y \in Int /\ p \in Int /\ 1 <= p /\ p <= m
          BY <1>2, <1>5, <4>2
        <5>2. s \in Int /\ t \in Int /\ m \in Int
          BY <4>1
        <5> QED BY <4>2, <5>1, <5>2
      <4> QED BY <4>1, <4>3
    <3>2. u[o2[i] + p] = w[y + (o2[i] + p)]
      BY <1>10, <3>1
    <3>3. w[o[i] + p] = a[i][p]
      BY <1>6, <2>1
    <3> QED BY <3>1, <3>2, <3>3
  <2> QED BY <2>4, <2>5
<1>16. Offsets(u, a, n + 1, o2)
  <2>1. (n + 1) + 1 = n + 2 /\ Len(a) + 1 = l + 1 /\ Len(a) = l /\ Len(u) = z - y
    BY <1>2, <1>3, <1>10
  <2> QED BY <1>12, <1>13, <1>14, <1>15, <2>1 DEF Offsets
<1>17. Laid(u, a, n + 1)
  BY <1>2, <1>3, <1>16 DEF Laid
<1> QED BY <1>2, <1>3, <1>4, <1>5, <1>8, <1>9, <1>17

\* The recursive function in FlattenSeq.
Flattens(q, f) == f = [i \in 1 .. Len(q) |-> IF i = 1 THEN q[i] ELSE f[i - 1] \o q[i]]

LEMMA FlattenSeqFlattens ==
    ASSUME NEW q, Len(q) # 0, NEW g, Flattens(q, g)
    PROVE  \E f : Flattens(q, f) /\ FlattenSeq(q) = f[Len(q)]
<1> DEFINE c == CHOOSE f : Flattens(q, f)
<1>1. Flattens(q, c)
  BY Zenon
<1>2. FlattenSeq(q) = c[Len(q)]
  BY Zenon DEF FlattenSeq, Flattens
<1> QED BY <1>1, <1>2

\* No two functions flatten a sequence.
LEMMA FlattensOnce ==
    ASSUME NEW q, NEW N \in Nat, N = Len(q), NEW f, NEW g, Flattens(q, f), Flattens(q, g)
    PROVE  \A i \in 1 .. N : f[i] = g[i]
<1> DEFINE T == {i \in 1 .. N : f[i] # g[i]}
<1> SUFFICES ASSUME T # {} PROVE FALSE
  OBVIOUS
<1>1. PICK x \in T : \A y \in T : x <= y
  <2>1. T \subseteq Nat
    OBVIOUS
  <2> HIDE DEF T
  <2> QED BY <2>1, LeastNumber
<1>2. x \in 1 .. N /\ f[x] # g[x]
  OBVIOUS
<1>3. /\ f[x] = IF x = 1 THEN q[x] ELSE f[x - 1] \o q[x]
      /\ g[x] = IF x = 1 THEN q[x] ELSE g[x - 1] \o q[x]
  BY <1>2, Zenon DEF Flattens
<1>4. x # 1
  BY <1>2, <1>3
<1>5. x - 1 \in 1 .. N /\ ~(x <= x - 1)
  BY <1>2, <1>4
<1>6. f[x - 1] = g[x - 1]
  BY <1>1, <1>5
<1> QED BY <1>2, <1>3, <1>4, <1>6

\* The requests without an answer, flattened, are the wire.
LEMMA LaidFlat ==
    ASSUME NEW w \in Seq(Bytes), NEW a \in Seq(Sent), NEW n, Laid(w, a, n)
    PROVE  w = FlattenSeq(SubSeq(a, n + 1, Len(a)))
<1>1. PICK o : Offsets(w, a, n, o)
  BY DEF Laid
<1>2. PICK l \in Nat, z \in Nat : l = Len(a) /\ z = Len(w)
  OBVIOUS
<1>3. n \in 0 .. l /\ n \in Nat
  BY <1>2 DEF Laid
<1>4. /\ o \in [n + 1 .. l + 1 -> 0 .. z] /\ o[n + 1] = 0 /\ o[l + 1] = z
      /\ \A i \in n + 1 .. l : o[i + 1] = o[i] + Len(a[i])
      /\ \A i \in n + 1 .. l : \A p \in 1 .. Len(a[i]) : w[o[i] + p] = a[i][p]
  BY <1>1, <1>2 DEF Offsets
<1>5. PICK q : q = SubSeq(a, n + 1, l)
  OBVIOUS
<1>6. PICK N \in Nat : N = l - n
  <2>1. l \in Nat /\ n \in Nat /\ n <= l
    BY <1>2, <1>3
  <2>2. l - n \in Nat
    BY <2>1
  <2> QED BY <2>2
<1>7. q \in Seq(Sent) /\ Len(q) = N /\ \A i \in 1 .. N : q[i] = a[n + i]
  <2>1. PICK lo \in Int : lo = n + 1
    BY <1>3
  <2>2. \A i \in lo .. l : a[i] \in Sent
    BY <1>2, <1>3, <2>1, ElementOfSeq
  <2>3. /\ q \in Seq(Sent) /\ Len(q) = IF lo <= l THEN l - lo + 1 ELSE 0
        /\ \A i \in 1 .. l - lo + 1 : q[i] = a[lo + i - 1]
    BY <1>2, <1>5, <2>1, <2>2, SubSeqProperties
  <2>4. (IF lo <= l THEN l - lo + 1 ELSE 0) = N /\ l - lo + 1 = N
    BY <1>2, <1>3, <1>6, <2>1
  <2>5. ASSUME NEW i \in 1 .. N PROVE q[i] = a[n + i]
    <3>1. lo + i - 1 = n + i
      BY <1>3, <2>1
    <3> QED BY <2>3, <2>4, <3>1
  <2> QED BY <2>3, <2>4, <2>5
<1>8. CASE N = 0
  <2>1. o[l + 1] = o[n + 1]
    BY <1>2, <1>3, <1>6, <1>8
  <2>2. z = 0
    BY <1>4, <2>1
  <2>3. w = <<>> /\ q = <<>>
    <3>1. Len(w) = 0 /\ Len(q) = 0
      BY <1>2, <1>7, <1>8, <2>2
    <3> QED BY <1>7, <3>1, EmptySeq
  <2>4. FlattenSeq(q) = q
    BY <1>7, <1>8, Zenon DEF FlattenSeq
  <2> QED BY <1>2, <1>5, <2>3, <2>4
<1>9. CASE N # 0
  <2> DEFINE g == [i \in 1 .. N |-> SubSeq(w, 1, o[n + 1 + i])]
  <2>1. ASSUME NEW x \in 0 .. z
        PROVE  /\ SubSeq(w, 1, x) \in Seq(Bytes) /\ Len(SubSeq(w, 1, x)) = x
               /\ \A i \in 1 .. x : SubSeq(w, 1, x)[i] = w[i]
    <3>1. \A i \in 1 .. x : w[i] \in Bytes
      BY <1>2, ElementOfSeq
    <3>2. x \in Nat
      BY <1>2
    <3> QED BY <3>1, <3>2, SubSeqProperties
  <2>2. ASSUME NEW i \in 1 .. N, NEW x, NEW y, NEW e, x = o[n + i], y = o[n + i + 1], e = q[i]
        PROVE  SubSeq(w, 1, y) = SubSeq(w, 1, x) \o e
    <3>1. n + i \in n + 1 .. l /\ n + i \in n + 1 .. l + 1 /\ (n + i) + 1 \in n + 1 .. l + 1 /\ n + i \in 1 .. l
      BY <1>2, <1>3, <1>6
    <3>2. /\ x \in 0 .. z /\ y \in 0 .. z /\ y = x + Len(e) /\ e = a[n + i]
          /\ \A p \in 1 .. Len(e) : w[x + p] = e[p]
      <4>1. PICK j : j = n + i /\ j \in n + 1 .. l /\ j \in n + 1 .. l + 1 /\ j + 1 \in n + 1 .. l + 1
        BY <3>1
      <4>2. o[j] \in 0 .. z /\ o[j + 1] \in 0 .. z /\ o[j + 1] = o[j] + Len(a[j])
        BY <1>4, <4>1
      <4>3. \A p \in 1 .. Len(a[j]) : w[o[j] + p] = a[j][p]
        BY <1>4, <4>1
      <4>4. e = a[j] /\ x = o[j] /\ y = o[j + 1]
        BY <1>7, <2>2, <4>1
      <4> QED BY <4>1, <4>2, <4>3, <4>4
    <3>3. e \in Seq(Bytes)
      BY <1>2, <3>1, <3>2, SentSeq
    <3>4. PICK m \in Nat : m = Len(e) /\ y = x + m
      BY <3>2, <3>3
    <3>5. PICK u : u = SubSeq(w, 1, x)
      OBVIOUS
    <3>6. u \in Seq(Bytes) /\ Len(u) = x /\ \A p \in 1 .. x : u[p] = w[p]
      BY <2>1, <3>2, <3>5
    <3>7. /\ u \o e \in Seq(Bytes) /\ Len(u \o e) = y
          /\ \A p \in 1 .. x : (u \o e)[p] = w[p]
          /\ \A p \in 1 .. m : (u \o e)[x + p] = e[p]
      BY <3>3, <3>4, <3>6, Concat
    <3>8. /\ SubSeq(w, 1, y) \in Seq(Bytes) /\ Len(SubSeq(w, 1, y)) = y
          /\ \A p \in 1 .. y : SubSeq(w, 1, y)[p] = w[p]
      BY <2>1, <3>2
    <3>9. ASSUME NEW p \in 1 .. y PROVE (u \o e)[p] = w[p]
      <4>1. x \in Nat /\ m \in Nat /\ y = x + m
        BY <1>2, <3>2, <3>4
      <4>2. CASE p <= x
        BY <3>7, <4>1, <4>2
      <4>3. CASE ~(p <= x)
        <5>1. p - x \in 1 .. m /\ x + (p - x) = p
          BY <4>1, <4>3
        <5>2. (u \o e)[x + (p - x)] = e[p - x] /\ w[x + (p - x)] = e[p - x]
          BY <3>2, <3>4, <3>7, <5>1
        <5> QED BY <5>1, <5>2
      <4> QED BY <4>2, <4>3
    <3>10. PICK s \in Seq(Bytes), t \in Seq(Bytes) : s = SubSeq(w, 1, y) /\ t = u \o e
      BY <3>7, <3>8
    <3>11. Len(s) = y /\ Len(t) = y
      BY <3>7, <3>8, <3>10
    <3>12. \A p \in 1 .. y : s[p] = t[p]
      BY <3>8, <3>9, <3>10
    <3>13. s = t
      BY <3>10, <3>11, <3>12, SeqEqual
    <3> QED BY <3>5, <3>10, <3>13
  <2>3. ASSUME NEW i \in 1 .. N
        PROVE  SubSeq(w, 1, o[n + 1 + i]) = IF i = 1 THEN q[i] ELSE g[i - 1] \o q[i]
    <3>1. n + i + 1 = n + 1 + i
      BY <1>3
    <3>2. SubSeq(w, 1, o[n + 1 + i]) = SubSeq(w, 1, o[n + i]) \o q[i]
      BY <2>2, <3>1, ZenonT(30)
    <3>3. CASE i = 1
      <4>1. o[n + i] = 0
        BY <1>4, <3>3
      <4>2. 0 \in 0 .. z
        BY <1>2
      <4>3. SubSeq(w, 1, 0) = <<>>
        BY <2>1, <4>2
      <4>4. q[i] \in Seq(Bytes)
        BY <1>7, SentSeq
      <4>5. <<>> \o q[i] = q[i]
        BY <4>4
      <4> QED BY <3>2, <3>3, <4>1, <4>3, <4>5
    <3>4. CASE i # 1
      <4>1. i - 1 \in 1 .. N /\ n + 1 + (i - 1) = n + i
        BY <1>3, <3>4
      <4>2. g[i - 1] = SubSeq(w, 1, o[n + i])
        BY <4>1
      <4> QED BY <3>2, <3>4, <4>2
    <3> QED BY <3>3, <3>4
  <2>4. Flattens(q, g)
    <3>1. g = [i \in 1 .. N |-> IF i = 1 THEN q[i] ELSE g[i - 1] \o q[i]]
      BY <2>3
    <3> HIDE DEF g
    <3> QED BY <1>7, <3>1, Zenon DEF Flattens
  <2>5. g[N] = SubSeq(w, 1, z)
    <3>1. N \in 1 .. N /\ n + 1 + N = l + 1
      BY <1>2, <1>3, <1>6, <1>9
    <3> QED BY <1>4, <3>1
  <2> HIDE DEF g
  <2>6. PICK f : Flattens(q, f) /\ FlattenSeq(q) = f[N]
    BY <1>7, <1>9, <2>4, FlattenSeqFlattens
  <2>7. f[N] = g[N]
    <3>1. N \in 1 .. N
      BY <1>6, <1>9
    <3> QED BY <1>7, <2>4, <2>6, <3>1, FlattensOnce
  <2>8. SubSeq(w, 1, z) = w
    <3>1. z \in 0 .. z
      BY <1>2
    <3>2. /\ SubSeq(w, 1, z) \in Seq(Bytes) /\ Len(SubSeq(w, 1, z)) = z
          /\ \A i \in 1 .. z : SubSeq(w, 1, z)[i] = w[i]
      BY <2>1, <3>1
    <3> QED BY <1>2, <3>2, SeqEqual
  <2> QED BY <1>2, <1>5, <2>5, <2>6, <2>7, <2>8
<1> QED BY <1>8, <1>9

StreamTyped ==
    /\ open \in BOOLEAN /\ torn \in BOOLEAN
    /\ wire \in Seq(Bytes) /\ asked \in Seq(Sent) /\ answers \in Seq(Replies)

\* Until a read is torn, the bytes on an open connection are the requests that
\* have no answer.
WireIsUnanswered == ~torn /\ open => Laid(wire, asked, Len(answers))

StreamIInv == StreamTyped /\ AnsweredInOrder /\ WireIsUnanswered

RequestsIInv == DataIInv /\ StreamIInv

LEMMA StreamKept ==
    ASSUME StreamIInv, UNCHANGED stream
    PROVE  StreamIInv'
BY DEF StreamIInv, StreamTyped, AnsweredInOrder, WireIsUnanswered, stream

LEMMA DataKept ==
    ASSUME DataIInv, UNCHANGED <<transport, packet, handlerRegistry, pending, store, written, out>>
    PROVE  DataIInv'
<1>1. DataTyped'
  BY DEF DataIInv, DataTyped
<1>2. WrittenFrames'
  BY DEF DataIInv, WrittenFrames
<1>3. SlicesWritten'
  BY DEF DataIInv, SlicesWritten, WriteOf
<1> QED BY <1>1, <1>2, <1>3 DEF DataIInv

\* Handlers come and go; no request is affected before the next one.
LEMMA RegistryStep ==
    ASSUME DataIInv, NEW h \in {WriteHandlerType, ReadHandlerType},
           RegisterHandler(h) \/ DeregisterHandler(h)
    PROVE  DataIInv'
<1>1. /\ UNCHANGED <<transport, packet, pending, store, written, out>>
      /\ handlerRegistry' \subseteq {WriteHandlerType, ReadHandlerType}
  BY DEF RegisterHandler, DeregisterHandler, DataIInv, DataTyped
<1>2. DataTyped'
  BY <1>1 DEF DataIInv, DataTyped
<1>3. WrittenFrames'
  BY <1>1 DEF DataIInv, WrittenFrames
<1>4. SlicesWritten'
  BY <1>1 DEF DataIInv, SlicesWritten, WriteOf
<1> QED BY <1>2, <1>3, <1>4 DEF DataIInv

LEMMA ClientWriteStep ==
    ASSUME StreamIInv, NEW f \in Sent, ClientWrite(f)
    PROVE  StreamIInv'
<1>1. /\ wire \in Seq(Bytes) /\ asked \in Seq(Sent) /\ answers \in Seq(Replies)
      /\ f \in Seq(Bytes)
  BY SentTyped DEF StreamIInv, StreamTyped
<1>2. wire' = wire \o f /\ asked' = Append(asked, f) /\ answers' = answers
  BY DEF ClientWrite
<1>3. (torn' <=> torn) /\ (open' <=> open) /\ torn' \in BOOLEAN /\ open' \in BOOLEAN
  BY Zenon DEF ClientWrite, StreamIInv, StreamTyped
<1>4. wire' \in Seq(Bytes)
  BY <1>1, <1>2, Concat
<1>5. /\ asked' \in Seq(Sent) /\ Len(asked') = Len(asked) + 1
      /\ \A i \in 1 .. Len(asked) : asked'[i] = asked[i]
  BY <1>1, <1>2, AppendProperties
<1>6. StreamTyped'
  BY <1>1, <1>2, <1>3, <1>4, <1>5 DEF StreamTyped, Sent, Replies, AllKeys
<1>7. ASSUME ~torn
      PROVE  Len(answers') <= Len(asked') /\ \A i \in DOMAIN answers' : answers'[i] \in Answers(asked'[i])
  <2>1. Len(answers) <= Len(asked) /\ \A i \in DOMAIN answers : answers[i] \in Answers(asked[i])
    BY <1>7 DEF StreamIInv, AnsweredInOrder
  <2>2. Len(answers) \in Nat /\ Len(asked) \in Nat /\ DOMAIN answers = 1 .. Len(answers)
    BY <1>1
  <2>3. ASSUME NEW i \in DOMAIN answers PROVE answers[i] \in Answers(asked'[i])
    <3>1. asked'[i] = asked[i]
      BY <1>5, <2>1, <2>2
    <3> QED BY <2>1, <3>1
  <2> QED BY <1>2, <1>5, <2>1, <2>2, <2>3
<1>8. AnsweredInOrder'
  BY <1>3, <1>7 DEF AnsweredInOrder, Answers
<1>9. ASSUME ~torn, open PROVE Laid(wire', asked', Len(answers'))
  <2>1. Laid(wire, asked, Len(answers))
    BY <1>9 DEF StreamIInv, WireIsUnanswered
  <2> QED BY <1>1, <1>2, <2>1, LaidAppend
<1>10. WireIsUnanswered'
  BY <1>3, <1>9 DEF WireIsUnanswered
<1> QED BY <1>6, <1>8, <1>10 DEF StreamIInv

LEMMA CloseStep ==
    ASSUME StreamIInv, OnClose
    PROVE  StreamIInv'
<1>1. wire' = <<>> /\ asked' = asked /\ answers' = answers
  BY DEF OnClose
<1>2. (torn' <=> torn) /\ ~open' /\ torn' \in BOOLEAN /\ open' \in BOOLEAN
  BY Zenon DEF OnClose, StreamIInv, StreamTyped
<1>3. StreamTyped'
  BY <1>1, <1>2 DEF StreamIInv, StreamTyped
<1>4. AnsweredInOrder'
  BY <1>1, <1>2 DEF StreamIInv, AnsweredInOrder
<1>5. WireIsUnanswered'
  BY <1>2 DEF WireIsUnanswered
<1> QED BY <1>3, <1>4, <1>5 DEF StreamIInv

\* A read of n bytes: one whole request, which gets one of its answers, or torn.
LEMMA ReadStep ==
    ASSUME RequestsIInv, NEW n \in 1 .. Len(wire), transport \in {"uds", "tcp"},
           Dispatch(SubSeq(wire, 1, n)), Consumed(n)
    PROVE  RequestsIInv'
<1>1. /\ wire \in Seq(Bytes) /\ asked \in Seq(Sent) /\ answers \in Seq(Replies)
      /\ open \in BOOLEAN /\ torn \in BOOLEAN
  BY DEF RequestsIInv, StreamIInv, StreamTyped
<1>2. PICK z \in Nat, l \in Nat, k \in Nat :
        /\ z = Len(wire) /\ l = Len(asked) /\ k = Len(answers)
        /\ n \in 1 .. z /\ DOMAIN answers = 1 .. k /\ \A i \in 1 .. z : wire[i] \in Bytes
  BY <1>1, ElementOfSeq
<1>3. SubSeq(wire, 1, n) \in Seq(Bytes) /\ Len(SubSeq(wire, 1, n)) = n
  <2>1. \A i \in 1 .. n : wire[i] \in Bytes
    BY <1>2
  <2> QED BY <1>2, <2>1, SubSeqProperties
<1>4. n <= MaxFrame
  BY DEF Consumed
<1>5. DataIInv'
  BY <1>3, <1>4, DispatchStep DEF RequestsIInv
<1>6. wire' = SubSeq(wire, n + 1, z) /\ asked' = asked
  BY <1>2 DEF Consumed
<1>7. wire' \in Seq(Bytes)
  <2>1. PICK lo \in Int : lo = n + 1
    BY <1>2
  <2>2. \A i \in lo .. z : wire[i] \in Bytes
    BY <1>2, <2>1
  <2> QED BY <1>2, <1>6, <2>1, <2>2, SubSeqProperties
<1>8. /\ open' \in BOOLEAN /\ torn' \in BOOLEAN /\ (open' <=> open)
      /\ (torn' <=> torn \/ n # Len(asked[Len(answers) + 1]))
  BY <1>1, Zenon DEF Consumed
<1>9. answers' = IF torn' THEN answers ELSE Append(answers, out')
  BY DEF Consumed
<1>10. out' \in Replies
  BY <1>5 DEF DataIInv, DataTyped, Replies, AllKeys
<1>11. /\ ~torn' => answers' = Append(answers, out')
       /\ answers' \in Seq(Replies)
  <2>1. Append(answers, out') \in Seq(Replies)
    BY <1>1, <1>10, AppendProperties
  <2>2. CASE torn'
    BY <1>1, <1>9, <2>2
  <2>3. CASE ~torn'
    BY <1>9, <2>1, <2>3
  <2> QED BY <2>2, <2>3
<1>12. StreamTyped'
  <2>1. asked' \in Seq(Sent)
    BY <1>1, <1>6
  <2> QED BY <1>7, <1>8, <1>11, <2>1 DEF StreamTyped, Sent, Replies, AllKeys
<1>13. ASSUME ~torn'
       PROVE  /\ Len(answers') <= Len(asked')
              /\ \A i \in DOMAIN answers' : answers'[i] \in Answers(asked'[i])
              /\ Laid(wire', asked', Len(answers'))
  <2>1. ~torn /\ open /\ n = Len(asked[Len(answers) + 1])
    <3>1. ~torn /\ n = Len(asked[Len(answers) + 1])
      BY <1>8, <1>13
    <3>2. open
      BY DEF Consumed
    <3> QED BY <3>1, <3>2
  <2>2. Laid(wire, asked, k)
    BY <1>2, <2>1 DEF RequestsIInv, StreamIInv, WireIsUnanswered
  <2>3. k # Len(asked)
    <3> SUFFICES ASSUME k = Len(asked) PROVE FALSE
      OBVIOUS
    <3>1. Len(wire) = 0
      BY <1>1, <2>2, LaidNothing
    <3> QED BY <1>2, <3>1
  <2>4. /\ k + 1 \in 1 .. Len(asked)
        /\ SubSeq(wire, 1, Len(asked[k + 1])) = asked[k + 1]
        /\ Laid(SubSeq(wire, Len(asked[k + 1]) + 1, Len(wire)), asked, k + 1)
    BY <1>1, <2>2, <2>3, LaidRead
  <2>5. n = Len(asked[k + 1])
    BY <1>2, <2>1
  <2>6. SubSeq(wire, 1, n) = asked[k + 1] /\ Laid(wire', asked', k + 1)
    BY <1>2, <1>6, <2>4, <2>5
  <2>7. asked[k + 1] \in Sent
    BY <1>1, <2>4, SentSeq
  <2>8. out' \in Answers(asked[k + 1])
    BY <2>6, <2>7, DispatchAnswers DEF RequestsIInv
  <2>9. /\ Len(answers') = k + 1 /\ DOMAIN answers' = 1 .. k + 1 /\ answers'[k + 1] = out'
        /\ \A i \in 1 .. k : answers'[i] = answers[i]
    <3>1. answers' = Append(answers, out')
      BY <1>11, <1>13
    <3> QED BY <1>1, <1>2, <1>10, <3>1, AppendProperties
  <2>10. \A i \in 1 .. k : answers[i] \in Answers(asked[i])
    BY <1>2, <2>1 DEF RequestsIInv, StreamIInv, AnsweredInOrder
  <2>11. ASSUME NEW i \in 1 .. k + 1 PROVE answers'[i] \in Answers(asked[i])
    <3>1. CASE i = k + 1
      BY <2>8, <2>9, <3>1
    <3>2. CASE i # k + 1
      <4>1. i \in 1 .. k
        BY <1>2, <3>2
      <4> QED BY <2>9, <2>10, <4>1
    <3> QED BY <3>1, <3>2
  <2>12. Len(answers') <= Len(asked')
    BY <1>2, <1>6, <2>4, <2>9
  <2> QED BY <1>6, <2>6, <2>9, <2>11, <2>12
<1>14. AnsweredInOrder'
  BY <1>13 DEF AnsweredInOrder, Answers
<1>15. WireIsUnanswered'
  BY <1>13 DEF WireIsUnanswered
<1> QED BY <1>5, <1>12, <1>14, <1>15 DEF RequestsIInv, StreamIInv

-----------------------------------------------------------------------------
(* The specification.                                                       *)

LEMMA RequestsBegin ==
    ASSUME RequestsInit
    PROVE  RequestsIInv
<1>1. DataTyped
  <2>1. packet \in [1 .. MaxFrame -> Bytes]
    <3>1. 0 \in Bytes
      BY SizesAssumption DEF Bytes
    <3> QED BY <3>1 DEF RequestsInit
  <2>2. pending \in [AllKeys -> Seq(0 .. MaxFrame)]
    <3>1. pending = [k \in AllKeys |-> <<>>]
      BY DEF RequestsInit
    <3>2. <<>> \in Seq(0 .. MaxFrame)
      OBVIOUS
    <3> QED BY <3>1, <3>2, Zenon
  <2>3. store \in [AllKeys -> Seq(Seq(Bytes))] /\ \A k \in AllKeys : Len(store[k]) <= 1
    <3>1. store = [k \in AllKeys |-> <<>>]
      BY DEF RequestsInit
    <3>2. <<>> \in Seq(Seq(Bytes)) /\ Len(<<>>) <= 1
      OBVIOUS
    <3> QED BY <3>1, <3>2, Zenon
  <2>4. out \in Replies
    BY DEF RequestsInit, Replies
  <2> QED BY <2>1, <2>2, <2>3, <2>4 DEF RequestsInit, DataTyped
<1>2. WrittenFrames
  BY DEF RequestsInit, WrittenFrames
<1>9. SlicesWritten
  <2>1. ASSUME NEW k \in AllKeys PROVE pending[k] = <<>> /\ store[k] = <<>>
    BY DEF RequestsInit
  <2>2. DOMAIN <<>> = {}
    OBVIOUS
  <2> QED BY <2>1, <2>2, Zenon DEF SlicesWritten
<1>3. open \in BOOLEAN /\ torn \in BOOLEAN
  BY Zenon DEF RequestsInit
<1>4. wire = <<>> /\ asked = <<>> /\ answers = <<>>
  BY DEF RequestsInit
<1>5. StreamTyped
  BY <1>3, <1>4 DEF StreamTyped
<1>6. AnsweredInOrder
  BY <1>4 DEF AnsweredInOrder
<1>7. Offsets(<<>>, <<>>, 0, [i \in {1} |-> 0])
  BY DEF Offsets
<1>8. WireIsUnanswered
  BY <1>4, <1>7 DEF WireIsUnanswered, Laid
<1> QED BY <1>1, <1>2, <1>5, <1>6, <1>8, <1>9 DEF RequestsIInv, DataIInv, StreamIInv

LEMMA RequestsStep ==
    ASSUME RequestsIInv, [RequestsNext]_requestVars
    PROVE  RequestsIInv'
<1>1. DataIInv /\ StreamIInv
  BY DEF RequestsIInv
<1>2. ASSUME NEW f \in Datagrams, React(f) \/ ReactDummy(f) PROVE RequestsIInv'
  <2>1. Dispatch(f) /\ transport \in {"udp", "dummy"} /\ UNCHANGED stream
    BY <1>2 DEF React, ReactDummy
  <2>2. Transports \cap {"udp", "dummy"} # {}
    BY <1>1, <2>1 DEF DataIInv, DataTyped
  <2>3. f \in Seq(Bytes) /\ Len(f) <= MaxFrame
    BY <2>2, DatagramTyped
  <2>4. DataIInv'
    BY <1>1, <2>1, <2>3, DispatchStep
  <2>5. StreamIInv'
    BY <1>1, <2>1, StreamKept
  <2> QED BY <2>4, <2>5 DEF RequestsIInv
<1>3. ASSUME NEW f \in Sent, ClientWrite(f) PROVE RequestsIInv'
  <2>1. UNCHANGED <<transport, packet, handlerRegistry, pending, store, written, out>>
    BY <1>3 DEF ClientWrite
  <2>2. DataIInv'
    BY <1>1, <2>1, DataKept
  <2>3. StreamIInv'
    BY <1>1, <1>3, ClientWriteStep
  <2> QED BY <2>2, <2>3 DEF RequestsIInv
<1>4. ASSUME NEW n \in 1 .. Len(wire), ReactUDS(n) \/ OnTraffic(n) PROVE RequestsIInv'
  <2>1. transport \in {"uds", "tcp"} /\ Dispatch(SubSeq(wire, 1, n)) /\ Consumed(n)
    BY <1>4 DEF ReactUDS, OnTraffic
  <2> QED BY <2>1, ReadStep
<1>5. CASE OnClose
  <2>1. UNCHANGED <<transport, packet, handlerRegistry, pending, store, written, out>>
    BY <1>5 DEF OnClose
  <2>2. DataIInv'
    BY <1>1, <2>1, DataKept
  <2>3. StreamIInv'
    BY <1>1, <1>5, CloseStep
  <2> QED BY <2>2, <2>3 DEF RequestsIInv
<1>6. ASSUME NEW h \in {WriteHandlerType, ReadHandlerType}, RegisterHandler(h) \/ DeregisterHandler(h)
      PROVE  RequestsIInv'
  <2>1. DataIInv'
    BY <1>1, <1>6, RegistryStep
  <2>2. UNCHANGED stream
    BY <1>6 DEF RegisterHandler, DeregisterHandler
  <2>3. StreamIInv'
    BY <1>1, <2>2, StreamKept
  <2> QED BY <2>1, <2>3 DEF RequestsIInv
<1>7. ASSUME NEW k \in AllKeys, NEW n \in DOMAIN pending[k], Flush(k, n) PROVE RequestsIInv'
  <2>1. DataIInv'
    BY <1>1, <1>7, FlushStep
  <2>2. UNCHANGED stream
    BY <1>7 DEF Flush, Put
  <2>3. StreamIInv'
    BY <1>1, <2>2, StreamKept
  <2> QED BY <2>1, <2>3 DEF RequestsIInv
<1>8. CASE UNCHANGED requestVars
  <2>1. UNCHANGED <<transport, packet, handlerRegistry, pending, store, written, out>> /\ UNCHANGED stream
    BY <1>8 DEF requestVars
  <2>2. DataIInv'
    BY <1>1, <2>1, DataKept
  <2>3. StreamIInv'
    BY <1>1, <2>1, StreamKept
  <2> QED BY <2>2, <2>3 DEF RequestsIInv
<1> QED BY <1>2, <1>3, <1>4, <1>5, <1>6, <1>7, <1>8 DEF RequestsNext

LEMMA RequestsSafe ==
    ASSUME RequestsIInv
    PROVE  RequestsInv
<1>1. RequestsTypeOK
  <2>1. \A k \in AllKeys : store[k] = <<>> \/ (store[k] \in Seq(Seq(Bytes)) /\ Len(store[k]) = 1)
    <3> TAKE k \in AllKeys
    <3>1. store[k] \in Seq(Seq(Bytes)) /\ Len(store[k]) <= 1
      BY DEF RequestsIInv, DataIInv, DataTyped
    <3>2. PICK m \in Nat : m = Len(store[k]) /\ m <= 1
      BY <3>1, LenProperties
    <3>3. m = 0 \/ m = 1
      <4>1. m \in Nat /\ m <= 1
        BY <3>2
      <4> QED BY <4>1
    <3>4. m = 0 => store[k] = <<>>
      BY <3>1, <3>2, EmptySeq
    <3> QED BY <3>1, <3>2, <3>3, <3>4
  <2> QED BY <2>1 DEF RequestsIInv, DataIInv, DataTyped, StreamIInv, StreamTyped, RequestsTypeOK
<1>2. OnlyWrittenKeys
  <2> SUFFICES ASSUME NEW k \in AllKeys, store[k] # <<>> \/ pending[k] # <<>> PROVE WritesOf(k) # {}
    BY DEF OnlyWrittenKeys
  <2>1. CASE store[k] # <<>>
    BY <2>1 DEF RequestsIInv, DataIInv, SlicesWritten, WriteOf, WritesOf
  <2>2. CASE pending[k] # <<>>
    <3>1. pending[k] \in Seq(0 .. MaxFrame)
      BY DEF RequestsIInv, DataIInv, DataTyped
    <3>2. 1 \in DOMAIN pending[k]
      BY <2>2, <3>1
    <3> QED BY <3>2 DEF RequestsIInv, DataIInv, SlicesWritten, WriteOf, WritesOf
  <2> QED BY <2>1, <2>2
<1>3. LengthsKept
  BY DEF RequestsIInv, DataIInv, SlicesWritten, WriteOf, WritesOf, LengthsKept
<1> QED BY <1>1, <1>2, <1>3 DEF RequestsInv, RequestsIInv, DataIInv, StreamIInv

\* Whatever datagrams arrive in whatever order, and wherever the reads of a
\* stream end (RequestsInv): only keys of acknowledged writes reach the database,
\* and what is stored for one has the length of what followed the key, the length
\* field included, in such a write.
THEOREM RequestsCorrect == RequestsSpec => []RequestsInv
<1>1. RequestsInit => RequestsIInv
  BY RequestsBegin
<1>2. RequestsIInv /\ [RequestsNext]_requestVars => RequestsIInv'
  BY RequestsStep
<1>3. RequestsIInv => RequestsInv
  BY RequestsSafe
<1> QED BY <1>1, <1>2, <1>3, PTL DEF RequestsSpec

\* As long as every read of OnTraffic, or of the UDS server's React, returned one
\* whole request, the i-th answer is an answer of the i-th request, also after
\* the connection was closed, and the bytes on an open connection are the requests
\* without an answer.
THEOREM AnswersKeepOrder == RequestsSpec => []AnswersMatch
<1>1. RequestsInit => RequestsIInv
  BY RequestsBegin
<1>2. RequestsIInv /\ [RequestsNext]_requestVars => RequestsIInv'
  BY RequestsStep
<1>3. RequestsIInv => AnswersMatch
  <2> SUFFICES ASSUME RequestsIInv PROVE AnswersMatch
    OBVIOUS
  <2>1. ASSUME ~torn, open PROVE wire = FlattenSeq(SubSeq(asked, Len(answers) + 1, Len(asked)))
    <3>1. Laid(wire, asked, Len(answers)) /\ wire \in Seq(Bytes) /\ asked \in Seq(Sent)
      BY <2>1 DEF RequestsIInv, StreamIInv, StreamTyped, WireIsUnanswered
    <3> QED BY <3>1, LaidFlat
  <2> QED BY <2>1 DEF AnswersMatch, RequestsIInv, StreamIInv
<1> QED BY <1>1, <1>2, <1>3, PTL DEF RequestsSpec
====
