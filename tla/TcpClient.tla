---- MODULE TcpClient ----
(***************************************************************************)
(* TCPTransport of client/tcp.go.  Every Connect makes a gnet client of    *)
(* its own, whose event loop runs OnOpen and OnClose; these write t.conn,  *)
(* which Connect writes too, and Send reads it twice.  Only Send takes     *)
(* t.mu.  Client.Start is a Connect of every transport and may be called   *)
(* again, so a transport can be connected more than once.  Client has the  *)
(* next-state relation, in which Start and Close make the calls.           *)
(***************************************************************************)
EXTENDS Integers, FiniteSets

CONSTANTS
    Senders,      \* goroutines that call Send
    MaxConnects,  \* bound on the calls of Connect
    MaxSends,     \* bound on the calls of Send of one goroutine
    MaxCloses     \* bound on the calls of Close

ASSUME TcpClientAssumption ==
    /\ MaxConnects \in Nat \ {0} /\ MaxSends \in Nat /\ MaxCloses \in Nat
    /\ "none" \notin Senders

VARIABLES
    connects,  \* calls of Connect so far; the last one made gnet client `connects'
    dialing,   \* where the running Connect is: idle, dial or store
    client,    \* t.client, 0 for nil
    stopped,   \* gnet clients whose Stop was called
    link,      \* for each gnet client its connection
    conn,      \* t.conn, 0 for nil
    closing,   \* the gnet client a running Close waits for, or 0
    closes,    \* calls of Close so far
    mu,        \* the sender that holds t.mu, or "none"
    pc,        \* where each sender is
    sends      \* calls of Send so far

connVars == <<connects, dialing, client, link>>
closeVars == <<stopped, closing, closes>>
sendVars == <<mu, pc, sends>>
tcpVars == <<connVars, closeVars, sendVars, conn>>

Clients == 1..MaxConnects

\* A connection: not made; made by Dial; open, after OnOpen; down, its
\* descriptor closed and OnClose still to run; or closed.
Links == {"none", "dialed", "open", "down", "closed"}

TcpTypeOK ==
    /\ connects \in 0..MaxConnects /\ dialing \in {"idle", "dial", "store"}
    /\ client \in 0..MaxConnects /\ conn \in 0..MaxConnects
    /\ closing \in 0..MaxConnects /\ stopped \subseteq Clients
    /\ closes \in 0..MaxCloses
    /\ link \in [Clients -> Links]
    /\ mu \in Senders \cup {"none"}
    /\ pc \in [Senders -> {"idle", "lock", "write", "returned", "panicked"}]
    /\ sends \in [Senders -> 0..MaxSends]

TcpInit ==
    /\ connects = 0 /\ dialing = "idle" /\ client = 0 /\ conn = 0
    /\ stopped = {} /\ closing = 0 /\ closes = 0
    /\ link = [i \in Clients |-> "none"]
    /\ mu = "none"
    /\ pc = [s \in Senders |-> "idle"]
    /\ sends = [s \in Senders |-> 0]

\* A nil dereference in Send ends the process.
Alive == \A s \in Senders : pc[s] # "panicked"

SetLink(i, l) == link' = [link EXCEPT ![i] = l]

\* Connect up to Dial: a new gnet client replaces the one t.client held.
Connect ==
    /\ Alive /\ dialing = "idle" /\ connects < MaxConnects
    /\ connects' = connects + 1
    /\ client' = connects + 1
    /\ dialing' = "dial"
    /\ UNCHANGED <<link, conn, closeVars, sendVars>>

\* gnet makes the connection and hands it to the client's event loop.
Dialed ==
    /\ Alive /\ dialing = "dial" /\ connects \notin stopped
    /\ dialing' = "store"
    /\ SetLink(connects, "dialed")
    /\ UNCHANGED <<connects, client, conn, closeVars, sendVars>>

\* Mutant: a Dial that fails clears the connection the transport had.
MutClearOnError ==
    /\ Alive /\ dialing = "dial"
    /\ dialing' = "idle"
    /\ conn' = 0
    /\ UNCHANGED <<connects, client, link, closeVars, sendVars>>

\* Dial fails: Connect returns the error, t.conn and t.client stay.
DialFails ==
    /\ Alive /\ dialing = "dial"
    /\ dialing' = "idle"
    /\ UNCHANGED <<connects, client, link, conn, closeVars, sendVars>>

\* t.conn = conn: Connect stores what Dial returned.  OnOpen may have run, and
\* OnClose too.
StoreConn ==
    /\ Alive /\ dialing = "store"
    /\ dialing' = "idle"
    /\ conn' = connects
    /\ UNCHANGED <<connects, client, link, closeVars, sendVars>>

OnOpen(i) ==
    /\ Alive /\ link[i] = "dialed"
    /\ SetLink(i, "open")
    /\ conn' = i
    /\ UNCHANGED <<connects, dialing, client, closeVars, sendVars>>

\* The server closes the connection, it breaks, OnTraffic asks for its end, or
\* the stopped event loop closes it.
GoesDown(i) ==
    /\ Alive /\ link[i] = "open"
    /\ SetLink(i, "down")
    /\ UNCHANGED <<connects, dialing, client, conn, closeVars, sendVars>>

\* OnClose clears t.conn, whichever connection it holds.
OnClose(i) ==
    /\ Alive /\ link[i] = "down"
    /\ SetLink(i, "closed")
    /\ conn' = 0
    /\ UNCHANGED <<connects, dialing, client, closeVars, sendVars>>

\* Close stops the gnet client t.client holds and waits for its event loop;
\* without a client, or with one stopped before, it returns at once.
Close ==
    /\ Alive /\ closing = 0 /\ closes < MaxCloses
    /\ closes' = closes + 1
    /\ IF client = 0 \/ client \in stopped
       THEN UNCHANGED <<stopped, closing>>
       ELSE stopped' = stopped \cup {client} /\ closing' = client
    /\ UNCHANGED <<connVars, conn, sendVars>>

\* The stopped event loop has closed its connection: Close returns.
CloseReturns ==
    /\ Alive /\ closing # 0 /\ link[closing] \in {"none", "closed"}
    /\ closing' = 0
    /\ UNCHANGED <<stopped, closes, connVars, conn, sendVars>>

SendCall(s) ==
    /\ Alive /\ pc[s] \in {"idle", "returned"} /\ sends[s] < MaxSends
    /\ pc' = [pc EXCEPT ![s] = "lock"]
    /\ sends' = [sends EXCEPT ![s] = @ + 1]
    /\ UNCHANGED <<mu, conn, connVars, closeVars>>

\* Mutant: the early return of Send keeps the lock.
MutKeepsLock(s) ==
    /\ Alive /\ pc[s] = "lock" /\ mu = "none"
    /\ mu' = s
    /\ pc' = [pc EXCEPT ![s] = IF conn = 0 THEN "returned" ELSE "write"]
    /\ UNCHANGED <<sends, conn, connVars, closeVars>>

\* Mutant: Send writes without checking t.conn.
MutNoCheck(s) ==
    /\ Alive /\ pc[s] = "lock" /\ mu = "none"
    /\ pc' = [pc EXCEPT ![s] = "write"]
    /\ mu' = s
    /\ UNCHANGED <<sends, conn, connVars, closeVars>>

\* Send locks t.mu and checks t.conn; it returns "no active connection",
\* unlocking, when there is none.
SendCheck(s) ==
    /\ Alive /\ pc[s] = "lock" /\ mu = "none"
    /\ IF conn = 0
       THEN pc' = [pc EXCEPT ![s] = "returned"] /\ UNCHANGED mu
       ELSE pc' = [pc EXCEPT ![s] = "write"] /\ mu' = s
    /\ UNCHANGED <<sends, conn, connVars, closeVars>>

\* t.conn.AsyncWrite reads t.conn again.  What it returns, an error perhaps for
\* a connection that is down, is what Send returns.
SendWrite(s) ==
    /\ Alive /\ pc[s] = "write"
    /\ mu' = "none"
    /\ pc' = [pc EXCEPT ![s] = IF conn = 0 THEN "panicked" ELSE "returned"]
    /\ UNCHANGED <<sends, conn, connVars, closeVars>>

-----------------------------------------------------------------------------

\* Until some connection is closed, a transport with an open connection has one
\* to send on: a second Connect that fails, or that is between Dial and its
\* assignment, does not take the first connection away.
OpenIsUsed ==
    (\A i \in Clients : link[i] # "closed") /\ (\E i \in Clients : link[i] = "open")
        => conn # 0

\* Send dereferences nil only if some OnClose ran, between its check and its
\* write: before a connection is closed Send is safe, also without a connection
\* and while Connect is replacing one.
PanicNeedsClose ==
    (\E s \in Senders : pc[s] = "panicked") => \E i \in Clients : link[i] = "closed"

\* A Close that stopped a client returns only after the client's connection is
\* closed, whatever Connect is doing at the time.
CloseIsSynchronous ==
    \A i \in stopped : closing # i => link[i] \in {"none", "closed"}
====
