---- MODULE Client ----
(***************************************************************************)
(* Client of client/client.go over its transports, one of which is the     *)
(* TCPTransport of TcpClient; the others are reduced to their interface.   *)
(* Start and Close go through the map of transports in the random order of *)
(* Go's range and return at the first error.  Both take c.mu for reading,  *)
(* so they may run at the same time; RegisterTransport does not take it.   *)
(***************************************************************************)
EXTENDS TcpClient

CONSTANT Others  \* names of further transports, of which one is registered late

ASSUME OthersAssumption == "tcp" \notin Others /\ "none" \notin Others

VARIABLES
    transports,  \* c.transports: the names in the map
    loop,        \* the running Start and the running or last Close
    other,       \* the other transports that are connected
    since,       \* history: a Connect was called after the last Close began
    fatal        \* the runtime found the map read and written at once

loopVars   == <<transports, loop, other, since>>
clientVars == <<tcpVars, loopVars, fatal>>

Names == {"tcp"} \cup Others

Idle == [pc |-> "idle", todo |-> {}, at |-> "none"]

ClientTypeOK ==
    /\ TcpTypeOK
    /\ transports \subseteq Names /\ other \subseteq Others
    /\ \A l \in {"start", "close"} :
        /\ loop[l].pc \in {"idle", "run", "ok"}
        /\ loop[l].todo \subseteq transports /\ loop[l].at \in {"tcp", "none"}

ClientInit ==
    /\ TcpInit
    /\ \E late \in SUBSET Others : transports = Names \ late
    /\ loop = [l \in {"start", "close"} |-> Idle]
    /\ other = {}
    /\ since = FALSE /\ fatal = FALSE

-----------------------------------------------------------------------------
(* Start and Close.                                                         *)

Running(l) == loop[l].pc = "run"

\* The loop l may go to the next transport n.
At(l, n) == Alive /\ Running(l) /\ loop[l].at = "none" /\ n \in loop[l].todo

Begin(l) ==
    /\ Alive /\ ~Running(l)
    /\ loop' = [loop EXCEPT ![l] = [pc |-> "run", todo |-> transports, at |-> "none"]]

\* The last transport ends the loop; only Close keeps that there was no error.
Done(l, n) ==
    LET left == loop[l].todo \ {n}
    IN  loop' = [loop EXCEPT ![l] =
            IF left # {} THEN [pc |-> "run", todo |-> left, at |-> "none"]
            ELSE IF l = "close" THEN [Idle EXCEPT !.pc = "ok"] ELSE Idle]

Calls(l, n) == loop' = [loop EXCEPT ![l].at = n]
Fails(l) == loop' = [loop EXCEPT ![l] = Idle]

\* Both bounds keep the calls that TcpClient counts possible.
StartCall ==
    /\ connects < MaxConnects /\ Begin("start")
    /\ UNCHANGED <<tcpVars, transports, other, since>>

CloseCall ==
    /\ closes < MaxCloses /\ Begin("close")
    /\ since' = FALSE
    /\ UNCHANGED <<tcpVars, transports, other>>

\* transport.Connect of another transport.
StartOther(n) ==
    /\ At("start", n) /\ n \in Others
    /\ \/ other' = other \cup {n} /\ Done("start", n)
       \/ Fails("start") /\ UNCHANGED other
    /\ since' = (loop["close"].pc # "idle")
    /\ UNCHANGED <<tcpVars, transports>>

\* Connect of the TCP transport, and how it returns.
StartTcp ==
    /\ \/ At("start", "tcp") /\ Connect /\ Calls("start", "tcp") /\ since' = (loop["close"].pc # "idle")
       \/ StoreConn /\ Done("start", "tcp") /\ UNCHANGED since
       \/ DialFails /\ Fails("start") /\ UNCHANGED since
    /\ UNCHANGED <<transports, other>>

CloseOther(n) ==
    /\ At("close", n) /\ n \in Others
    /\ \/ other' = other \ {n} /\ Done("close", n)
       \/ Fails("close") /\ UNCHANGED other
    /\ UNCHANGED <<tcpVars, transports, since>>

\* Mutant: Close stops the event loop and does not wait for it.
MutNoWait ==
    /\ \/ At("close", "tcp") /\ Close /\ Done("close", "tcp")
       \/ CloseReturns /\ UNCHANGED loop
    /\ UNCHANGED <<transports, other, since>>

\* Close of the TCP transport, which waits for the gnet client it stops.
CloseTcp ==
    /\ \/ At("close", "tcp") /\ Close /\ (IF closing' = 0 THEN Done("close", "tcp") ELSE Calls("close", "tcp"))
       \/ CloseReturns /\ Done("close", "tcp")
    /\ UNCHANGED <<transports, other, since>>

\* RegisterTransport writes the map without a lock.  A running loop may or may
\* not meet the new entry, or the runtime ends the process.
RegisterTransport(n) ==
    /\ Alive /\ n \notin transports
    /\ transports' = transports \cup {n}
    /\ \/ UNCHANGED <<loop, fatal>>
       \/ \E l \in {"start", "close"} :
            /\ Running(l) /\ UNCHANGED fatal
            /\ loop' = [loop EXCEPT ![l].todo = @ \cup {n}]
       \/ (\E l \in {"start", "close"} : Running(l)) /\ fatal' = TRUE /\ UNCHANGED loop
    /\ UNCHANGED <<tcpVars, other, since>>

-----------------------------------------------------------------------------

\* The steps of TcpClient that change nothing here.
Within ==
    /\ \/ Dialed
       \/ \E i \in Clients : OnOpen(i) \/ GoesDown(i) \/ OnClose(i)
       \/ \E s \in Senders : SendCall(s) \/ SendCheck(s) \/ SendWrite(s)
    /\ UNCHANGED loopVars

Start == StartTcp \/ \E n \in Others : StartOther(n)

CloseAll == CloseTcp \/ \E n \in Others : CloseOther(n)

ClientNext ==
    /\ ~fatal
    /\ \/ (StartCall \/ CloseCall \/ Start \/ CloseAll \/ Within) /\ UNCHANGED fatal
       \/ \E n \in Names : RegisterTransport(n)

\* Goroutines that can run do, until the runtime ends the process: the loops of
\* Start and Close, Send, and an event loop, which runs its callbacks and, once
\* stopped, closes its connection.
Fairness ==
    /\ WF_clientVars(~fatal /\ Start /\ UNCHANGED fatal)
    /\ WF_clientVars(~fatal /\ CloseAll /\ UNCHANGED fatal)
    /\ WF_tcpVars(~fatal /\ StoreConn) /\ WF_tcpVars(~fatal /\ (Dialed \/ DialFails))
    /\ WF_tcpVars(~fatal /\ CloseReturns)
    /\ \A i \in Clients :
        /\ WF_tcpVars(~fatal /\ OnOpen(i)) /\ WF_tcpVars(~fatal /\ OnClose(i))
        /\ WF_tcpVars(~fatal /\ i \in stopped /\ GoesDown(i))
    /\ \A s \in Senders : SF_tcpVars(~fatal /\ SendCheck(s)) /\ WF_tcpVars(~fatal /\ SendWrite(s))

ClientSpec == ClientInit /\ [][ClientNext]_clientVars /\ Fairness

-----------------------------------------------------------------------------

\* The fields of the client, of its TCP transport and of the connections.
ClientInv == ClientTypeOK /\ OpenIsUsed /\ CloseIsSynchronous

\* When Close has returned nil and no Connect came after it began, no other
\* transport is connected, also after Starts that failed half way and while one
\* is still running, and the TCP transport has no connection left but those of
\* gnet clients that a later Connect replaced: nobody can stop these any more.
CloseLeavesReplaced ==
    loop["close"].pc = "ok" /\ ~since =>
        other = {} /\ \A i \in Clients : link[i] \in {"none", "closed"} \/ i < client

\* Send, Start and Close return, or the process ends: an error of one transport
\* or a connection that goes down while it is being made leaves nobody waiting.
ClientCallsReturn ==
    /\ \A s \in Senders : pc[s] = "lock" ~> pc[s] = "returned" \/ ~Alive \/ fatal
    /\ \A l \in {"start", "close"} : Running(l) ~> ~Running(l) \/ ~Alive \/ fatal
====
