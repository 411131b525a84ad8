---- MODULE QuicServer ----
(***************************************************************************)
(* The lifecycle of the QUIC transport, transports/quic/server.go: Start   *)
(* listens, closes the started channel and launches the accept loop, which *)
(* launches a goroutine per connection, which launches one per stream.     *)
(* Every goroutine is counted in a WaitGroup, for which Stop waits.        *)
(* A connection has at most one stream here.  A listener is named by the   *)
(* number of the Start that made it; at most one is open, since they all   *)
(* have the same address.                                                  *)
(***************************************************************************)
EXTENDS Integers, FiniteSets

CONSTANTS
    Conns,      \* connections clients may open
    MaxStarts,  \* bound: calls of Start
    MaxStops    \* bound: calls of Stop

ASSUME BoundsAssumption == IsFiniteSet(Conns) /\ MaxStarts \in Nat /\ MaxStops \in Nat

VARIABLES
    listener,   \* the listener field; 0 is nil
    bound,      \* the listener that is open, or 0
    started,    \* the started channel is closed
    stopClosed, \* stopChan is closed
    starts,     \* calls of Start so far
    startPc,    \* where the call of Start is
    stops,      \* calls of Stop so far
    stopPc,     \* where the call of Stop is
    acceptor,   \* the goroutine of acceptConnections
    acceptsOn,  \* the listener whose Accept it called last
    conn,       \* each connection and the goroutine of handleConnection
    dialed,     \* the listener each connection was opened to
    up,         \* connections that are established and not closed
    stream,     \* the goroutine of handleStream of each connection's stream
    wg,         \* the counter of the WaitGroup
    panicked

startVars == <<listener, started, starts, startPc>>
stopVars  == <<stopClosed, stops, stopPc>>
connVars  == <<conn, dialed, up, stream>>
vars == <<startVars, bound, stopVars, acceptor, acceptsOn, connVars, wg, panicked>>

Listeners == 1 .. MaxStarts

TypeOK ==
    /\ {listener, bound, acceptsOn} \subseteq Listeners \cup {0}
    /\ started \in BOOLEAN /\ stopClosed \in BOOLEAN /\ panicked \in BOOLEAN
    /\ starts \in 0 .. MaxStarts /\ stops \in 0 .. MaxStops
    /\ startPc \in {"idle", "listening", "signalled", "returned", "error"}
    /\ stopPc \in {"idle", "closing", "waiting", "returned", "error"}
    /\ acceptor \in {"none", "select", "accept", "done"}
    /\ conn \in [Conns -> {"none", "queued", "handled", "done"}]
    /\ dialed \in [Conns -> Listeners \cup {0}]
    /\ up \subseteq Conns
    /\ stream \in [Conns -> {"none", "handled", "done"}]
    /\ wg \in Nat

Init ==
    /\ listener = 0 /\ bound = 0 /\ started = FALSE /\ stopClosed = FALSE
    /\ starts = 0 /\ stops = 0 /\ startPc = "idle" /\ stopPc = "idle"
    /\ acceptor = "none" /\ acceptsOn = 0 /\ dialed = [c \in Conns |-> 0]
    /\ conn = [c \in Conns |-> "none"] /\ stream = [c \in Conns |-> "none"]
    /\ up = {} /\ wg = 0 /\ panicked = FALSE

-----------------------------------------------------------------------------
(* Start.                                                                   *)

\* quic.ListenAddr succeeds or fails; it fails while the address is in use.
\* What it returns is the new value of the field, a failure too.
Listen ==
    /\ ~panicked /\ startPc \in {"idle", "returned", "error"} /\ starts < MaxStarts
    /\ starts' = starts + 1
    /\ \/ bound = 0 /\ bound' = starts' /\ listener' = starts' /\ startPc' = "listening"
       \/ listener' = 0 /\ startPc' = "error" /\ UNCHANGED bound
    /\ UNCHANGED <<started, stopVars, acceptor, acceptsOn, connVars, wg, panicked>>

\* close(s.started): a panic for a second Start that got here.
SignalStarted ==
    /\ ~panicked /\ startPc = "listening"
    /\ started' = TRUE /\ panicked' = started
    /\ startPc' = "signalled"
    /\ UNCHANGED <<listener, bound, starts, stopVars, acceptor, acceptsOn, connVars, wg>>

SpawnAcceptor ==
    /\ ~panicked /\ startPc = "signalled"
    /\ wg' = wg + 1
    /\ acceptor' = "select" /\ startPc' = "returned"
    /\ UNCHANGED <<listener, bound, started, starts, stopVars, acceptsOn, connVars, panicked>>

-----------------------------------------------------------------------------
(* acceptConnections, handleConnection and handleStream.                    *)

\* The steps of the goroutines change their own places and the WaitGroup.
Quiet == UNCHANGED <<startVars, bound, stopVars, panicked>>

\* The select: leave when stopChan is closed, else call Accept of the listener
\* the field names now; nil is a panic.
AcceptorSelect ==
    /\ ~panicked /\ acceptor = "select"
    /\ \/ stopClosed /\ acceptor' = "done" /\ wg' = wg - 1 /\ UNCHANGED <<acceptsOn, panicked>>
       \/ /\ ~stopClosed /\ acceptsOn' = listener
          /\ acceptor' = "accept" /\ panicked' = (listener = 0) /\ UNCHANGED wg
    /\ UNCHANGED <<startVars, bound, stopVars, connVars>>

\* Accept returns a connection, also one that is still in the queue of a
\* listener that was closed.
Accept(c) ==
    /\ ~panicked /\ acceptor = "accept" /\ conn[c] = "queued" /\ dialed[c] = acceptsOn
    /\ wg' = wg + 1
    /\ conn' = [conn EXCEPT ![c] = "handled"]
    /\ acceptor' = "select"
    /\ UNCHANGED <<acceptsOn, dialed, up, stream>> /\ Quiet

\* Accept returns an error: the loop ends.
AcceptFails ==
    /\ ~panicked /\ acceptor = "accept"
    /\ bound # acceptsOn /\ \A c \in Conns : ~(conn[c] = "queued" /\ dialed[c] = acceptsOn)
    /\ acceptor' = "done" /\ wg' = wg - 1
    /\ UNCHANGED <<acceptsOn, connVars>> /\ Quiet

\* AcceptStream returns a stream.
AcceptStream(c) ==
    /\ ~panicked /\ conn[c] = "handled" /\ c \in up /\ stream[c] = "none"
    /\ wg' = wg + 1
    /\ stream' = [stream EXCEPT ![c] = "handled"]
    /\ UNCHANGED <<acceptor, acceptsOn, conn, dialed, up>> /\ Quiet

\* Mutant: the deferred Done is missing.
MutNoDone(c) ==
    /\ ~panicked /\ conn[c] = "handled" /\ c \notin up
    /\ conn' = [conn EXCEPT ![c] = "done"]
    /\ UNCHANGED <<acceptor, acceptsOn, dialed, up, stream, wg>> /\ Quiet

\* AcceptStream fails on a closed connection: handleConnection returns.
ConnectionEnds(c) ==
    /\ ~panicked /\ conn[c] = "handled" /\ c \notin up
    /\ conn' = [conn EXCEPT ![c] = "done"]
    /\ wg' = wg - 1
    /\ UNCHANGED <<acceptor, acceptsOn, dialed, up, stream>> /\ Quiet

\* handleStream returns: its stream has ended or sent what it cannot decode,
\* or the connection is closed.
StreamEnds(c) ==
    /\ ~panicked /\ stream[c] = "handled"
    /\ stream' = [stream EXCEPT ![c] = "done"]
    /\ wg' = wg - 1
    /\ UNCHANGED <<acceptor, acceptsOn, conn, dialed, up>> /\ Quiet

\* Clients connect while a listener is open, and go away.
Dial(c) ==
    /\ ~panicked /\ bound # 0 /\ conn[c] = "none"
    /\ conn' = [conn EXCEPT ![c] = "queued"] /\ dialed' = [dialed EXCEPT ![c] = bound]
    /\ up' = up \cup {c}
    /\ UNCHANGED <<acceptor, acceptsOn, stream, wg>> /\ Quiet

PeerCloses(c) ==
    /\ ~panicked /\ c \in up
    /\ up' = up \ {c}
    /\ UNCHANGED <<acceptor, acceptsOn, conn, dialed, stream, wg>> /\ Quiet

-----------------------------------------------------------------------------
(* Stop.                                                                    *)

Goroutine == <<acceptor, acceptsOn, conn, dialed, stream, wg>>

\* close(s.stopChan): a panic the second time.
StopCall ==
    /\ ~panicked /\ stopPc \in {"idle", "returned", "error"} /\ stops < MaxStops
    /\ stops' = stops + 1
    /\ stopClosed' = TRUE /\ panicked' = stopClosed
    /\ stopPc' = "closing"
    /\ UNCHANGED <<startVars, bound, up, Goroutine>>

\* A listener made with ListenAddr closes its connections, too.
Closed ==
    /\ bound' = IF bound = listener THEN 0 ELSE bound
    /\ up' = {c \in up : dialed[c] # listener}

\* Mutant: Stop returns without waiting for the goroutines.
MutNoWait ==
    /\ ~panicked /\ stopPc = "closing" /\ listener # 0
    /\ Closed
    /\ stopPc' = "returned"
    /\ UNCHANGED <<startVars, stopClosed, stops, Goroutine, panicked>>

\* Mutant: the listener is left open.
MutNoClose ==
    /\ ~panicked /\ stopPc = "closing"
    /\ stopPc' = "waiting"
    /\ UNCHANGED <<startVars, bound, stopClosed, stops, up, Goroutine, panicked>>

\* s.listener.Close(): a panic when the field is nil; an error ends Stop.
CloseListener ==
    /\ ~panicked /\ stopPc = "closing"
    /\ panicked' = (listener = 0)
    /\ Closed
    /\ stopPc' \in {"waiting", "error"}
    /\ UNCHANGED <<startVars, stopClosed, stops, Goroutine>>

\* s.wg.Wait()
StopReturns ==
    /\ ~panicked /\ stopPc = "waiting" /\ wg = 0
    /\ stopPc' = "returned"
    /\ UNCHANGED <<startVars, bound, stopClosed, stops, up, Goroutine, panicked>>

Goroutines(c) == ConnectionEnds(c) \/ (c \notin up /\ StreamEnds(c))

Next ==
    \/ Listen \/ SignalStarted \/ SpawnAcceptor
    \/ AcceptorSelect \/ AcceptFails
    \/ \E c \in Conns :
        \/ Accept(c) \/ AcceptStream(c) \/ ConnectionEnds(c) \/ StreamEnds(c)
        \/ Dial(c) \/ PeerCloses(c)
    \/ StopCall \/ CloseListener \/ StopReturns

Spec == Init /\ [][Next]_vars

(* Runnable goroutines run; a stream's goroutine need not end while its     *)
(* connection is up.                                                        *)
Fairness ==
    /\ WF_vars(SignalStarted) /\ WF_vars(SpawnAcceptor)
    /\ WF_vars(AcceptorSelect) /\ WF_vars(AcceptFails) /\ WF_vars(\E c \in Conns : Accept(c))
    /\ \A c \in Conns : WF_vars(Goroutines(c))
    /\ WF_vars(CloseListener) /\ WF_vars(StopReturns)

FairSpec == Spec /\ Fairness

-----------------------------------------------------------------------------

\* The goroutines that have called or will call wg.Done.
Running ==
    (IF acceptor \in {"select", "accept"} THEN 1 ELSE 0)
        + Cardinality({c \in Conns : conn[c] = "handled"})
        + Cardinality({c \in Conns : stream[c] = "handled"})

\* The WaitGroup counts exactly the goroutines that are running, so it never
\* goes negative (which panics) and never holds Stop back for nothing.
WaitGroupExact == wg = Running

\* When Stop has returned nil no connection and no stream is being handled,
\* nor will be: nobody uses the database behind the handlers any more.  The
\* accept loop may still be starting, if Stop overtook Start.
QuietAfterStop ==
    stopPc = "returned" /\ ~panicked =>
        \A c \in Conns : conn[c] # "handled" /\ stream[c] # "handled"

\* Without a second Start and a second Stop only one thing brings the process
\* down: a Stop that finds no listener, before Start made one or after it failed.
\* A second Start that fails takes the listener of the first away, under the
\* accept loop and under Stop.
PanicNeedsMisuse ==
    panicked => starts > 1 \/ stops > 1 \/ (stops = 1 /\ listener = 0)

\* The WaitGroup, the channels and the listener agree at every step.
QuicInv == TypeOK /\ WaitGroupExact /\ PanicNeedsMisuse

\* Stop returns, whatever the clients do, and however it interleaves with
\* Start and with connections that are just being accepted, or the process
\* panics: it does when the field is nil, which a second Start that fails makes
\* it while the first listener is open.
StopCompletes ==
    stopPc = "closing" ~> panicked \/ stopPc \in {"returned", "error"}
====
