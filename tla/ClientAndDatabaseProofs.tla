---- MODULE ClientAndDatabaseProofs ----
(***************************************************************************)
(* Proofs about the two ends of the library: the client that makes the     *)
(* requests, and the database that keeps what they write.                  *)
(***************************************************************************)
EXTENDS Client, Database, TLAPS

-----------------------------------------------------------------------------
(***************************************************************************)
(* The client, for any number of senders, transports, Connects, Sends and  *)
(* Closes: which connections a Close leaves behind, and when Send can meet *)
(* a nil connection.                                                       *)
(***************************************************************************)

(* The TCP transport.                                                       *)

\* The gnet client of the last Connect is the one the transport holds, its
\* connection is made by its Dial alone, and later clients have none.
Fresh ==
    /\ client = connects
    /\ dialing # "idle" => connects # 0
    /\ dialing = "dial" => link[connects] = "none"
    /\ \A i \in Clients : i > connects => link[i] = "none"

SomeClosed == \E i \in Clients : link[i] = "closed"

\* A sender that has passed its check finds a connection when it writes, unless
\* some OnClose ran.
WriteHasConn == (\E s \in Senders : pc[s] = "write") /\ conn = 0 => SomeClosed

TcpIInv == TcpTypeOK /\ Fresh /\ OpenIsUsed /\ WriteHasConn /\ PanicNeedsClose /\ CloseIsSynchronous

\* The steps of the transport, whoever makes the call.
TcpNext ==
    \/ Connect \/ Dialed \/ DialFails \/ StoreConn \/ Close \/ CloseReturns
    \/ \E i \in Clients : OnOpen(i) \/ GoesDown(i) \/ OnClose(i)
    \/ \E s \in Senders : SendCall(s) \/ SendCheck(s) \/ SendWrite(s)

LEMMA TcpBegin == TcpInit => TcpIInv
BY TcpClientAssumption DEF TcpInit, TcpIInv, TcpTypeOK, Fresh, OpenIsUsed, WriteHasConn, SomeClosed, PanicNeedsClose,
       CloseIsSynchronous, Clients, Links

LEMMA TcpStep == TcpIInv /\ TcpNext => TcpIInv'
<1> SUFFICES ASSUME TcpIInv, TcpNext PROVE TcpIInv'
  OBVIOUS
<1> USE TcpClientAssumption DEF TcpIInv, TcpTypeOK, Fresh, OpenIsUsed, WriteHasConn, SomeClosed, PanicNeedsClose,
       CloseIsSynchronous, Clients, Links, SetLink, connVars, closeVars, sendVars
<1>1. CASE Connect
  BY <1>1 DEF Connect
<1>2. CASE Dialed
  BY <1>2 DEF Dialed
<1>3. CASE DialFails
  BY <1>3 DEF DialFails
<1>4. CASE StoreConn
  BY <1>4 DEF StoreConn
<1>5. CASE Close
  <2>1. /\ closing = 0 /\ closes < MaxCloses /\ closes' = closes + 1
        /\ UNCHANGED <<connects, dialing, client, link, conn, mu, pc, sends>>
        /\ \/ UNCHANGED <<stopped, closing>>
           \/ client # 0 /\ stopped' = stopped \cup {client} /\ closing' = client
    BY <1>5 DEF Close
  <2>2. closes' \in 0 .. MaxCloses
    BY <2>1
  <2>3. stopped' \subseteq Clients /\ closing' \in 0 .. MaxConnects
    <3>1. CASE UNCHANGED <<stopped, closing>>
      BY <3>1
    <3>2. CASE client # 0 /\ stopped' = stopped \cup {client} /\ closing' = client
      <4>1. client \in Clients
        BY <3>2
      <4> QED BY <3>2, <4>1
    <3> QED BY <2>1, <3>1, <3>2
  <2>4. TcpTypeOK'
    BY <2>1, <2>2, <2>3
  <2>5. CloseIsSynchronous'
    <3>1. \A i \in stopped : link[i] \in {"none", "closed"}
      BY <2>1
    <3>2. \A i \in stopped' : closing' # i => i \in stopped
      BY <2>1
    <3>3. link' = link
      BY <2>1
    <3> QED BY <3>1, <3>2, <3>3
  <2> QED BY <2>1, <2>4, <2>5
<1>6. CASE CloseReturns
  BY <1>6 DEF CloseReturns
<1>7. ASSUME NEW i \in Clients, OnOpen(i) PROVE TcpIInv'
  BY <1>7 DEF OnOpen
<1>8. ASSUME NEW i \in Clients, GoesDown(i) PROVE TcpIInv'
  BY <1>8 DEF GoesDown
<1>9. ASSUME NEW i \in Clients, OnClose(i) PROVE TcpIInv'
  BY <1>9 DEF OnClose
<1>10. ASSUME NEW s \in Senders, SendCall(s) PROVE TcpIInv'
  BY <1>10 DEF SendCall
<1>11. ASSUME NEW s \in Senders, SendCheck(s) PROVE TcpIInv'
  BY <1>11 DEF SendCheck
<1>12. ASSUME NEW s \in Senders, SendWrite(s) PROVE TcpIInv'
  BY <1>12 DEF SendWrite
<1> QED BY <1>1, <1>2, <1>3, <1>4, <1>5, <1>6, <1>7, <1>8, <1>9, <1>10, <1>11, <1>12 DEF TcpNext

-----------------------------------------------------------------------------
(* Start and Close of the client.                                           *)

LoopTypeOK ==
    /\ loop \in [{"start", "close"} ->
                  [pc : {"idle", "run", "ok"}, todo : SUBSET transports, at : {"tcp", "none"}]]
    /\ transports \subseteq Names /\ "tcp" \in transports
    /\ other \subseteq Others \cap transports
    /\ since \in BOOLEAN

\* A Close waits for a gnet client only while its loop is at the TCP transport,
\* and for the last client unless a Connect came in between.
ClosingAtTcp ==
    closing # 0 =>
        /\ loop["close"].pc = "run" /\ loop["close"].at = "tcp" /\ "tcp" \in loop["close"].todo
        /\ closing \in stopped
        /\ ~since => closing = client

\* What a Close has behind it is closed, until a Connect comes after it: the
\* last gnet client is stopped and no other transport is connected.
BehindClose ==
    loop["close"].pc # "idle" /\ ~since =>
        /\ "tcp" \notin loop["close"].todo => client = 0 \/ client \in stopped
        /\ other \subseteq loop["close"].todo

OkIsAll == loop["close"].pc = "ok" => loop["close"].todo = {}

ClientIInv == TcpIInv /\ LoopTypeOK /\ ClosingAtTcp /\ BehindClose /\ OkIsAll

LEMMA ClientInitHolds == ClientInit => ClientIInv
<1> SUFFICES ASSUME ClientInit PROVE ClientIInv
  OBVIOUS
<1>1. TcpIInv
  BY TcpBegin DEF ClientInit
<1>2. since \in BOOLEAN /\ ~since
  BY Zenon DEF ClientInit
<1>3. LoopTypeOK
  BY <1>2, OthersAssumption DEF ClientInit, LoopTypeOK, Names, Idle
<1> QED BY <1>1, <1>2, <1>3 DEF ClientInit, ClientIInv, ClosingAtTcp, BehindClose, OkIsAll, Idle, TcpInit

\* Every step of the client is one of the transport or leaves it alone.
LEMMA TcpPart == ClientIInv /\ ClientNext => TcpIInv'
<1> SUFFICES ASSUME ClientIInv, ClientNext PROVE TcpIInv'
  OBVIOUS
<1>1. TcpNext \/ UNCHANGED tcpVars
  BY DEF ClientNext, StartCall, CloseCall, Start, StartTcp, StartOther, CloseAll, CloseTcp, CloseOther,
         Within, RegisterTransport, TcpNext
<1>2. CASE TcpNext
  BY <1>2, TcpStep DEF ClientIInv
<1>3. CASE UNCHANGED tcpVars
  BY <1>3 DEF ClientIInv, TcpIInv, tcpVars, connVars, closeVars, sendVars, TcpTypeOK, Fresh, OpenIsUsed,
              WriteHasConn, SomeClosed, PanicNeedsClose, CloseIsSynchronous
<1> QED BY <1>1, <1>2, <1>3

LoopIInv == LoopTypeOK /\ ClosingAtTcp /\ BehindClose /\ OkIsAll

LEMMA LoopPart == ClientIInv /\ ClientNext => LoopIInv'
<1> SUFFICES ASSUME ClientIInv, ClientNext PROVE LoopIInv'
  OBVIOUS
<1>a. TcpTypeOK /\ client = connects
  BY DEF ClientIInv, TcpIInv, Fresh
<1> USE <1>a, OthersAssumption DEF ClientIInv, LoopIInv, LoopTypeOK, ClosingAtTcp, BehindClose, OkIsAll, Names, Idle,
        Running, At, Begin, Done, Calls, Fails
<1>1. CASE StartCall
  BY <1>1 DEF StartCall, tcpVars, connVars, closeVars
<1>2. CASE CloseCall
  <2>1. since' \in BOOLEAN /\ ~since'
    BY <1>2, Zenon DEF CloseCall
  <2> QED BY <1>2, <2>1 DEF CloseCall, tcpVars, connVars, closeVars
<1>3. ASSUME NEW n \in Others, StartOther(n) PROVE LoopIInv'
  <2>1. since' \in BOOLEAN /\ (since' <=> loop["close"].pc # "idle")
    BY <1>3, Zenon DEF StartOther
  <2> QED BY <1>3, <2>1 DEF StartOther, tcpVars, connVars, closeVars
<1>4. CASE StartTcp
  <2>1. UNCHANGED <<transports, other>>
    BY <1>4 DEF StartTcp
  <2>2. CASE At("start", "tcp") /\ Connect /\ Calls("start", "tcp") /\ since' = (loop["close"].pc # "idle")
    <3>1. since' \in BOOLEAN /\ (since' <=> loop["close"].pc # "idle")
      BY <2>2, Zenon
    <3>2. /\ UNCHANGED <<closing, stopped>>
          /\ loop' = [loop EXCEPT !["start"].at = "tcp"]
      BY <2>2 DEF Connect, closeVars
    <3> QED BY <2>1, <3>1, <3>2
  <2>3. CASE StoreConn /\ Done("start", "tcp") /\ UNCHANGED since
    BY <2>1, <2>3 DEF StoreConn, closeVars
  <2>4. CASE DialFails /\ Fails("start") /\ UNCHANGED since
    BY <2>1, <2>4 DEF DialFails, closeVars
  <2> QED BY <1>4, <2>2, <2>3, <2>4 DEF StartTcp
<1>5. ASSUME NEW n \in Others, CloseOther(n) PROVE LoopIInv'
  BY <1>5 DEF CloseOther, tcpVars, connVars, closeVars
<1>6. CASE CloseTcp
  BY <1>6 DEF CloseTcp, Close, CloseReturns, connVars
<1>7. CASE Within
  BY <1>7 DEF Within, Dialed, OnOpen, GoesDown, OnClose, SendCall, SendCheck, SendWrite, connVars, closeVars, loopVars
<1>8. ASSUME NEW n \in Names, RegisterTransport(n) PROVE LoopIInv'
  BY <1>8 DEF RegisterTransport, tcpVars, connVars, closeVars
<1> QED BY <1>1, <1>2, <1>3, <1>4, <1>5, <1>6, <1>7, <1>8 DEF ClientNext, Start, CloseAll

LEMMA ClientStep == ClientIInv /\ [ClientNext]_clientVars => ClientIInv'
<1>1. ClientIInv /\ ClientNext => ClientIInv'
  BY TcpPart, LoopPart DEF ClientIInv, LoopIInv
<1>2. ClientIInv /\ UNCHANGED clientVars => ClientIInv'
  BY DEF ClientIInv, TcpIInv, clientVars, loopVars, tcpVars, connVars, closeVars, sendVars, TcpTypeOK, Fresh,
         OpenIsUsed, WriteHasConn, SomeClosed, PanicNeedsClose, CloseIsSynchronous, LoopTypeOK,
         ClosingAtTcp, BehindClose, OkIsAll
<1> QED BY <1>1, <1>2

LEMMA InductiveHolds == ClientSpec => []ClientIInv
BY ClientInitHolds, ClientStep, PTL DEF ClientSpec

\* In every state the fields of the client, of its TCP transport and of the
\* connections agree (ClientInv): a transport with an open connection has one to
\* send on until some connection is closed, and a Close that stopped a gnet
\* client returns only after its connection is closed.
THEOREM ClientCorrect == ClientSpec => []ClientInv
<1>1. ClientIInv => ClientInv
  BY DEF ClientIInv, TcpIInv, ClientInv, ClientTypeOK, LoopTypeOK
<1> QED BY <1>1, InductiveHolds, PTL

\* Send meets a nil t.conn, between its check and its write, only after some
\* OnClose ran (PanicNeedsClose), however often Connect replaces the connection.
THEOREM SendSafeBeforeClose == ClientSpec => []PanicNeedsClose
<1>1. ClientIInv => PanicNeedsClose
  BY DEF ClientIInv, TcpIInv
<1> QED BY <1>1, InductiveHolds, PTL

\* A Close that returned nil, with no Connect since it began, leaves connections
\* only to gnet clients that a later Connect had replaced (CloseLeavesReplaced).
THEOREM CloseLeavesNoOther == ClientSpec => []CloseLeavesReplaced
<1>1. ClientIInv => CloseLeavesReplaced
  <2> SUFFICES ASSUME ClientIInv, loop["close"].pc = "ok", ~since
               PROVE  other = {} /\ \A i \in Clients : link[i] \in {"none", "closed"} \/ i < client
    BY DEF CloseLeavesReplaced
  <2>1. other = {}
    BY DEF ClientIInv, BehindClose, OkIsAll
  <2>2. client = 0 \/ (client \in stopped /\ closing = 0)
    BY DEF ClientIInv, BehindClose, OkIsAll, ClosingAtTcp
  <2>3. client \in stopped /\ client \in Clients => link[client] \in {"none", "closed"}
    BY <2>2, TcpClientAssumption DEF ClientIInv, TcpIInv, CloseIsSynchronous, Clients
  <2>4. ASSUME NEW i \in Clients, ~(i < client) PROVE link[i] \in {"none", "closed"}
    BY <2>2, <2>3, <2>4, TcpClientAssumption DEF ClientIInv, TcpIInv, Fresh, TcpTypeOK, Clients
  <2> QED BY <2>1, <2>4
<1> QED BY <1>1, InductiveHolds, PTL

-----------------------------------------------------------------------------
(***************************************************************************)
(* The database, for every set of callers, keys and values: Db implements  *)
(* Provider.                                                               *)
(***************************************************************************)

Call == [op : Abs!Ops, key : Keys, value : Values, result : Abs!Results]
Txn == [kind : {"view", "begun", "changed"}, db : Stores]

-----------------------------------------------------------------------------
(* The operators of Provider.                                               *)

LEMMA EffectType ==
    ASSUME NEW op \in Abs!Ops, NEW k \in Keys, NEW v \in Values, NEW s \in Stores
    PROVE  Abs!Effect(op, k, v, s) \in Stores
BY DEF Abs!Effect, Stores

LEMMA OutcomeType ==
    ASSUME NEW op \in Abs!Ops, NEW k \in Keys, NEW s \in Stores
    PROVE  /\ Abs!Outcome(op, k, s) \in Abs!Results
           /\ Abs!Outcome(op, k, s) # "none"
BY DatabaseAssumption DEF Abs!Outcome, Abs!Ops, Abs!Results, Stores

\* A caller without a transaction has the kind none, and only such a caller.
LEMMA TxnKind ==
    ASSUME TypeOK, NEW c \in Callers
    PROVE  /\ txn[c].kind \in {"none", "view", "begun", "changed"}
           /\ txn[c].kind # "none" => txn[c] \in Txn
           /\ txn[c].kind = "none" => txn[c] = NoTxn
BY DEF TypeOK, NoTxn, Txn

\* A caller that waits for its result has a call.
LEMMA PendingCall ==
    ASSUME TypeOK, NEW c \in Callers, Abs!Pending(c)
    PROVE  call[c] \in Call /\ call[c].result = "none"
BY DEF TypeOK, Abs!Calls, Abs!Pending, Call

LEMMA ResultCall ==
    ASSUME NEW m \in Call, NEW r \in Abs!Results
    PROVE  /\ [m EXCEPT !.result = r] \in Call
           /\ [m EXCEPT !.result = r] \in Abs!Calls
           /\ [m EXCEPT !.result = r] # Abs!Idle
           /\ [m EXCEPT !.result = r].result = r
           /\ [m EXCEPT !.result = r].op = m.op
BY DEF Call, Abs!Calls, Abs!Idle, Abs!Ops

-----------------------------------------------------------------------------
(* Type correctness and the transactions that are open.                     *)

LEMMA TypeInit == Init => TypeOK
BY DEF Init, Abs!Init, TypeOK, Stores, Abs!Calls, Abs!Idle, NoTxn

\* An answer in the range of results keeps the type of the calls.
LEMMA AnswerType ==
    ASSUME TypeOK, NEW c \in Callers, Abs!Pending(c), NEW r \in Abs!Results, Answer(c, r)
    PROVE  /\ call' \in [Callers -> Abs!Calls]
           /\ call'[c] = [call[c] EXCEPT !.result = r]
           /\ \A d \in Callers \ {c} : call'[d] = call[d]
BY PendingCall, ResultCall DEF TypeOK, Answer

\* A caller keeps its transaction and its call through a step of another one,
\* which commits nothing while the caller has the write transaction.
LEMMA MatchesKept ==
    ASSUME NEW d \in Callers, TxnMatches(d),
           call'[d] = call[d], txn'[d] = txn[d],
           txn[d].kind \in {"begun", "changed"} => store' = store
    PROVE  TxnMatches(d)'
BY DEF TxnMatches, Abs!Pending, Abs!Outcome, Abs!Effect

\* A caller without a transaction has nothing to match.
LEMMA MatchesNone == ASSUME NEW d \in Callers, txn'[d].kind = "none" PROVE TxnMatches(d)'
BY DEF TxnMatches

LEMMA InvInit == Init => DbInv
<1> SUFFICES ASSUME Init PROVE DbInv
  OBVIOUS
<1>1. \A c \in Callers : txn[c].kind = "none"
  BY DEF Init, NoTxn
<1>2. writer \notin Callers
  BY DatabaseAssumption DEF Init
<1> QED BY TypeInit, <1>1, <1>2 DEF DbInv, WriterHasTxn, TxnMatchesCall, TxnMatches

LEMMA InvNext == DbInv /\ [Next]_vars => DbInv'
<1> SUFFICES ASSUME DbInv, [Next]_vars PROVE DbInv'
  OBVIOUS
<1> USE DEF DbInv
<1>1. ASSUME NEW c \in Callers, Invoke(c) PROVE DbInv'
  <2>1. call' \in [Callers -> Abs!Calls] /\ \A d \in Callers \ {c} : call'[d] = call[d]
    BY <1>1 DEF Invoke, Abs!Invoke, TypeOK, Abs!Calls, Abs!Results
  <2>2. txn[c].kind = "none"
    BY <1>1 DEF Invoke, Abs!Invoke, TxnMatchesCall, TxnMatches, Abs!Pending
  <2>3. txn' = txn /\ store' = store /\ env' = env /\ writer' = writer
    BY <1>1 DEF Invoke, Abs!Invoke
  <2>4. TypeOK' /\ WriterHasTxn'
    BY <2>1, <2>3 DEF TypeOK, WriterHasTxn
  <2>5. TxnMatchesCall'
    BY <2>1, <2>2, <2>3, MatchesKept, MatchesNone DEF TxnMatchesCall
  <2> QED BY <2>4, <2>5
<1>2. ASSUME NEW c \in Callers, Return(c) PROVE DbInv'
  <2>1. call' \in [Callers -> Abs!Calls] /\ \A d \in Callers \ {c} : call'[d] = call[d]
    BY <1>2 DEF Return, Abs!Return, TypeOK, Abs!Calls
  <2>2. txn[c].kind = "none"
    BY <1>2 DEF Return, Abs!Return, TxnMatchesCall, TxnMatches, Abs!Pending
  <2>3. txn' = txn /\ store' = store /\ env' = env /\ writer' = writer
    BY <1>2 DEF Return, Abs!Return
  <2>4. TypeOK' /\ WriterHasTxn'
    BY <2>1, <2>3 DEF TypeOK, WriterHasTxn
  <2>5. TxnMatchesCall'
    BY <2>1, <2>2, <2>3, MatchesKept, MatchesNone DEF TxnMatchesCall
  <2> QED BY <2>4, <2>5
<1>3. ASSUME NEW c \in Callers, BeginFails(c) PROVE DbInv'
  <2>1. Abs!Pending(c) /\ txn[c].kind = "none" /\ "error" \in Abs!Results /\ Answer(c, "error")
    BY <1>3 DEF BeginFails, Waiting, Abs!Results
  <2>2. call' \in [Callers -> Abs!Calls] /\ \A d \in Callers \ {c} : call'[d] = call[d]
    BY <2>1, AnswerType
  <2>3. txn' = txn /\ store' = store /\ env' = env /\ writer' = writer
    BY <1>3 DEF BeginFails
  <2>4. TypeOK' /\ WriterHasTxn'
    BY <2>2, <2>3 DEF TypeOK, WriterHasTxn
  <2>5. TxnMatchesCall'
    BY <2>1, <2>2, <2>3, MatchesKept, MatchesNone DEF TxnMatchesCall
  <2> QED BY <2>4, <2>5
<1>4. ASSUME NEW c \in Callers, BeginView(c) PROVE DbInv'
  <2>1. /\ call' = call /\ store' = store /\ env' = env /\ writer' = writer
        /\ txn' = [txn EXCEPT ![c] = [kind |-> "view", db |-> store]]
        /\ Abs!Pending(c) /\ call[c].op \in {"Get", "Exists"} /\ txn[c].kind = "none"
    BY <1>4 DEF BeginView, Waiting
  <2>2. /\ txn'[c].kind = "view" /\ txn' \in [Callers -> {NoTxn} \cup Txn]
        /\ \A d \in Callers \ {c} : txn'[d] = txn[d]
    BY <2>1 DEF TypeOK, Txn
  <2>3. TypeOK' /\ WriterHasTxn'
    BY <2>1, <2>2 DEF TypeOK, Txn, WriterHasTxn
  <2>4. TxnMatchesCall'
    <3>1. TxnMatches(c)'
      BY <2>1, <2>2 DEF TxnMatches, Abs!Pending
    <3> QED BY <2>1, <2>2, <3>1, MatchesKept DEF TxnMatchesCall
  <2> QED BY <2>3, <2>4
<1>5. ASSUME NEW c \in Callers, BeginUpdate(c) PROVE DbInv'
  <2>1. /\ call' = call /\ store' = store /\ env' = env /\ writer' = c /\ writer = "none"
        /\ txn' = [txn EXCEPT ![c] = [kind |-> "begun", db |-> store]]
        /\ Abs!Pending(c) /\ call[c].op \in {"Set", "Delete"} /\ txn[c].kind = "none"
    BY <1>5 DEF BeginUpdate, Waiting
  <2>2. /\ txn'[c].kind = "begun" /\ txn'[c].db = store /\ txn' \in [Callers -> {NoTxn} \cup Txn]
        /\ \A d \in Callers \ {c} : txn'[d] = txn[d]
    BY <2>1 DEF TypeOK, Txn
  <2>3. TypeOK' /\ WriterHasTxn'
    BY <2>1, <2>2, DatabaseAssumption DEF TypeOK, Txn, WriterHasTxn
  <2>4. TxnMatchesCall'
    <3>1. TxnMatches(c)'
      BY <2>1, <2>2 DEF TxnMatches, Abs!Pending
    <3> QED BY <2>1, <2>2, <3>1, MatchesKept DEF TxnMatchesCall
  <2> QED BY <2>3, <2>4
<1>6. ASSUME NEW c \in Callers, txn[c].kind # "none",
             NEW r \in Abs!Results, Answer(c, r),
             txn' = [txn EXCEPT ![c] = NoTxn], env' = env,
             writer' = IF txn[c].kind = "view" THEN writer ELSE "none",
             store' \in Stores,
             \A d \in Callers \ {c} : txn[d].kind \in {"begun", "changed"} => store' = store
      PROVE  DbInv'
  <2>1. Abs!Pending(c)
    BY <1>6 DEF TxnMatchesCall, TxnMatches
  <2>2. call' \in [Callers -> Abs!Calls] /\ \A d \in Callers \ {c} : call'[d] = call[d]
    BY <1>6, <2>1, AnswerType
  <2>3. /\ txn'[c].kind = "none" /\ \A d \in Callers \ {c} : txn'[d] = txn[d]
        /\ txn' \in [Callers -> {NoTxn} \cup Txn]
    BY <1>6 DEF TypeOK, NoTxn, Txn
  <2>4. TypeOK'
    BY <1>6, <2>2, <2>3 DEF TypeOK, Txn
  <2>5. WriterHasTxn'
    BY <1>6, <2>3, TxnKind, DatabaseAssumption DEF WriterHasTxn, TypeOK
  <2>6. TxnMatchesCall'
    BY <1>6, <2>2, <2>3, MatchesKept, MatchesNone DEF TxnMatchesCall
  <2> QED BY <2>4, <2>5, <2>6
<1>7. ASSUME NEW c \in Callers, View(c) PROVE DbInv'
  <2>1. \E r \in Abs!Results : Answer(c, r)
    <3>1. txn[c] \in Txn /\ call[c] \in Call
      BY <1>7, TxnKind, PendingCall DEF View, TxnMatchesCall, TxnMatches
    <3>2. Abs!Outcome("Get", call[c].key, txn[c].db) \in Abs!Results
      BY <3>1, OutcomeType DEF Txn, Call, Abs!Ops
    <3> QED BY <1>7, <3>2 DEF View, Abs!Results
  <2> QED BY <1>6, <1>7, <2>1 DEF View, TypeOK
<1>8. ASSUME NEW c \in Callers, NEW r \in {"error", "ErrNotFound"},
             txn[c].kind \in {"begun", "changed"}, Abort(c, r)
      PROVE  DbInv'
  BY <1>6, <1>8 DEF Abort, Abs!Results, TypeOK
<1>9. ASSUME NEW c \in Callers, Change(c) PROVE DbInv'
  <2> DEFINE outcome == Abs!Outcome(call[c].op, call[c].key, txn[c].db)
             new == Abs!Effect(call[c].op, call[c].key, call[c].value, txn[c].db)
  <2>1. CASE Abort(c, "error")
    BY <1>8, <1>9, <2>1 DEF Change
  <2>2. CASE outcome = "ErrNotFound" /\ Abort(c, outcome)
    BY <1>8, <1>9, <2>2 DEF Change
  <2>3. CASE /\ outcome # "ErrNotFound"
             /\ txn' = [txn EXCEPT ![c] = [kind |-> "changed", db |-> new]]
             /\ UNCHANGED <<env, store, call, writer>>
    <3>1. /\ txn[c] \in Txn /\ call[c] \in Call /\ Abs!Pending(c) /\ txn[c].db = store
          /\ call[c].op \notin {"Get", "Exists"}
      BY <1>9, TxnKind, PendingCall DEF Change, TxnMatchesCall, TxnMatches
    <3>2. new \in Stores
      BY <3>1, EffectType DEF Txn, Call
    <3>3. outcome = "ok"
      BY <2>3, <3>1 DEF Abs!Outcome, Call, Abs!Ops
    <3>4. /\ txn'[c].kind = "changed" /\ txn'[c].db = new /\ txn' \in [Callers -> {NoTxn} \cup Txn]
          /\ \A d \in Callers \ {c} : txn'[d] = txn[d]
      BY <2>3, <3>2 DEF TypeOK, Txn
    <3>5. TypeOK' /\ WriterHasTxn'
      BY <1>9, <2>3, <3>4 DEF Change, TypeOK, Txn, WriterHasTxn
    <3>6. TxnMatchesCall'
      <4>1. TxnMatches(c)'
        BY <2>3, <3>1, <3>3, <3>4 DEF TxnMatches, Abs!Pending, Abs!Outcome, Abs!Effect
      <4> QED BY <2>3, <3>4, <4>1, MatchesKept DEF TxnMatchesCall
    <3> QED BY <3>5, <3>6
  <2> QED BY <1>9, <2>1, <2>2, <2>3 DEF Change
<1>10. ASSUME NEW c \in Callers, Commit(c) PROVE DbInv'
  <2>1. CASE Abort(c, "error")
    BY <1>8, <1>10, <2>1 DEF Commit
  <2>2. CASE /\ store' = txn[c].db /\ Answer(c, "ok")
             /\ txn' = [txn EXCEPT ![c] = NoTxn] /\ writer' = "none" /\ env' = env
    <3>1. txn[c].db \in Stores
      BY <1>10, TxnKind DEF Commit, Txn
    <3>2. \A d \in Callers \ {c} : txn[d].kind \notin {"begun", "changed"}
      BY <1>10 DEF Commit, WriterHasTxn
    <3>3. "ok" \in Abs!Results
      BY DEF Abs!Results
    <3> QED BY <1>6, <1>10, <2>2, <3>1, <3>2, <3>3 DEF Commit
  <2> QED BY <1>10, <2>1, <2>2 DEF Commit
<1>11. CASE CloseEnv \/ Destroy
  BY <1>11 DEF CloseEnv, Destroy, TypeOK, Stores, WriterHasTxn, TxnMatchesCall, TxnMatches
<1>12. CASE UNCHANGED vars
  <2>1. TypeOK' /\ WriterHasTxn'
    BY <1>12 DEF vars, TypeOK, WriterHasTxn
  <2>2. TxnMatchesCall'
    BY <1>12, MatchesKept DEF vars, TxnMatchesCall
  <2> QED BY <2>1, <2>2
<1> QED
  BY <1>1, <1>2, <1>3, <1>4, <1>5, <1>7, <1>9, <1>10, <1>11, <1>12 DEF Next, Operation

\* The invariant of Db holds in every reachable state.
THEOREM DbCorrect == Spec => []DbInv
BY InvInit, InvNext, PTL DEF Spec

\* The state of Db is always one the code can be in.
THEOREM DbTypeCorrect == Spec => []TypeOK
<1>1. DbInv => TypeOK
  BY DEF DbInv
<1> QED BY DbCorrect, <1>1, PTL

\* Update excludes writers and forgets none of its transactions, also when Put,
\* Del or the commit fails: no Set or Delete can find the database blocked by a
\* call that has returned.
THEOREM WriterCorrect == Spec => []WriterHasTxn
<1>1. DbInv => WriterHasTxn
  BY DEF DbInv
<1> QED BY DbCorrect, <1>1, PTL

\* What Set and Delete commit is their effect on everything committed before
\* them: Update loses no update of another caller.
THEOREM TxnCorrect == Spec => []TxnMatchesCall
<1>1. DbInv => TxnMatchesCall
  BY DEF DbInv
<1> QED BY DbCorrect, <1>1, PTL

-----------------------------------------------------------------------------
(* Db implements Provider.                                                  *)

\* Only a view that is open makes the abstract call differ from the call.
LEMMA BarOfCall ==
    ASSUME NEW c \in Callers
    PROVE  /\ txn[c].kind # "view" => callBar[c] = call[c]
           /\ txn[c].kind = "view" =>
                callBar[c] = [call[c] EXCEPT !.result = Abs!Outcome(call[c].op, call[c].key, txn[c].db)]
BY DEF callBar

\* When one caller's call changes, the abstract calls of the others stay.
LEMMA BarKept ==
    ASSUME NEW c \in Callers,
           \A d \in Callers \ {c} : call'[d] = call[d] /\ txn'[d] = txn[d]
    PROVE  /\ \A d \in Callers \ {c} : callBar'[d] = callBar[d]
           /\ callBar' = [callBar EXCEPT ![c] = callBar'[c]]
<1>1. \A d \in Callers \ {c} : callBar'[d] = callBar[d]
  <2> TAKE d \in Callers \ {c}
  <2>1. call'[d] = call[d] /\ txn'[d] = txn[d]
    OBVIOUS
  <2> QED BY <2>1, Zenon DEF callBar
<1>2. /\ callBar = [d \in Callers |-> callBar[d]]
      /\ callBar' = [d \in Callers |-> callBar'[d]]
  BY DEF callBar
<1> QED BY <1>1, <1>2

LEMMA StepImplements ==
    ASSUME DbInv, DbInv', [Next]_vars PROVE [Bar!Next]_(Bar!vars)
<1> USE DEF DbInv
<1>1. ASSUME NEW c \in Callers, Invoke(c) PROVE Bar!Next
  <2>1. /\ txn' = txn /\ store' = store /\ call[c] = Abs!Idle
        /\ \A d \in Callers \ {c} : call'[d] = call[d]
    BY <1>1 DEF Invoke, Abs!Invoke, TypeOK
  <2>2. PICK op \in Abs!Ops, k \in Keys, v \in Values :
            call' = [call EXCEPT ![c] = [op |-> op, key |-> k, value |-> v, result |-> "none"]]
    BY <1>1 DEF Invoke, Abs!Invoke
  <2>3. call'[c] = [op |-> op, key |-> k, value |-> v, result |-> "none"]
    BY <2>2 DEF TypeOK
  <2>4. txn[c].kind = "none"
    BY <2>1 DEF TxnMatchesCall, TxnMatches, Abs!Pending
  <2>5. callBar[c] = Abs!Idle /\ callBar'[c] = call'[c]
    BY <2>1, <2>4 DEF callBar
  <2>6. callBar' = [callBar EXCEPT ![c] = callBar'[c]]
    BY <2>1, BarKept
  <2>7. Bar!Invoke(c)
    BY <2>1, <2>3, <2>5, <2>6 DEF Bar!Invoke, Bar!Idle, Abs!Idle, Bar!Ops, Abs!Ops
  <2> QED BY <2>7 DEF Bar!Next
<1>2. ASSUME NEW c \in Callers, Return(c) PROVE Bar!Next
  <2>1. /\ txn' = txn /\ store' = store /\ call[c] # Abs!Idle /\ call[c].result # "none"
        /\ \A d \in Callers \ {c} : call'[d] = call[d] /\ call'[c] = Abs!Idle
    BY <1>2 DEF Return, Abs!Return, TypeOK
  <2>2. call'[c] = Abs!Idle /\ txn[c].kind = "none"
    BY <1>2, <2>1 DEF Return, Abs!Return, TypeOK, TxnMatchesCall, TxnMatches, Abs!Pending
  <2>3. callBar[c] = call[c] /\ callBar'[c] = Abs!Idle
    BY <2>1, <2>2 DEF callBar
  <2>4. callBar' = [callBar EXCEPT ![c] = callBar'[c]]
    BY <2>1, BarKept
  <2>5. Bar!Return(c)
    BY <2>1, <2>3, <2>4 DEF Bar!Return, Bar!Idle, Abs!Idle
  <2> QED BY <2>5 DEF Bar!Next
\* A call that fails, before or in its transaction.
<1>3. ASSUME NEW c \in Callers, Abs!Pending(c), txn[c].kind # "view", Answer(c, "error"),
             store' = store, txn'[c].kind = "none",
             \A d \in Callers \ {c} : txn'[d] = txn[d]
      PROVE  Bar!Next
  <2>1. /\ call'[c] = [call[c] EXCEPT !.result = "error"]
        /\ \A d \in Callers \ {c} : call'[d] = call[d]
    BY <1>3, AnswerType DEF Abs!Results
  <2>2. callBar[c] = call[c] /\ callBar'[c] = [callBar[c] EXCEPT !.result = "error"]
    BY <1>3, <2>1 DEF callBar
  <2>3. callBar' = [callBar EXCEPT ![c] = callBar'[c]]
    BY <1>3, <2>1, BarKept
  <2>4. Bar!Pending(c)
    BY <1>3, <2>2 DEF Bar!Pending, Abs!Pending, Bar!Idle, Abs!Idle
  <2>5. Bar!Fail(c)
    BY <1>3, <2>2, <2>3, <2>4 DEF Bar!Fail
  <2> QED BY <2>5 DEF Bar!Next
\* A call that takes effect.
<1>4. ASSUME NEW c \in Callers, Abs!Pending(c), txn[c].kind # "view",
             callBar'[c] = [call[c] EXCEPT !.result = Abs!Outcome(call[c].op, call[c].key, store)],
             store' = Abs!Effect(call[c].op, call[c].key, call[c].value, store),
             \A d \in Callers \ {c} : call'[d] = call[d] /\ txn'[d] = txn[d]
      PROVE  Bar!Next
  <2>1. callBar[c] = call[c]
    BY <1>4 DEF callBar
  <2>2. callBar' = [callBar EXCEPT ![c] = callBar'[c]]
    BY <1>4, BarKept
  <2>3. Bar!Pending(c)
    BY <1>4, <2>1 DEF Bar!Pending, Abs!Pending, Bar!Idle, Abs!Idle
  <2>4. Bar!Apply(c)
    BY <1>4, <2>1, <2>2, <2>3, ZenonT(60) DEF Bar!Apply, Bar!Outcome, Bar!Effect, Abs!Outcome, Abs!Effect
  <2> QED BY <2>4 DEF Bar!Next
<1>5. ASSUME NEW c \in Callers, BeginFails(c) PROVE Bar!Next
  BY <1>3, <1>5 DEF BeginFails, Waiting
<1>6. ASSUME NEW c \in Callers, BeginView(c) PROVE Bar!Next
  <2>1. /\ Abs!Pending(c) /\ txn[c].kind = "none" /\ call' = call /\ store' = store
        /\ call[c].op \in {"Get", "Exists"}
        /\ txn' = [txn EXCEPT ![c] = [kind |-> "view", db |-> store]]
    BY <1>6 DEF BeginView, Waiting
  <2>2. txn'[c] = [kind |-> "view", db |-> store] /\ \A d \in Callers \ {c} : txn'[d] = txn[d]
    BY <2>1 DEF TypeOK
  <2>3. callBar'[c] = [call[c] EXCEPT !.result = Abs!Outcome(call[c].op, call[c].key, store)]
    BY <2>1, <2>2 DEF callBar, Abs!Outcome
  <2>4. Abs!Effect(call[c].op, call[c].key, call[c].value, store) = store
    BY <2>1 DEF Abs!Effect
  <2> QED BY <1>4, <2>1, <2>2, <2>3, <2>4
<1>7. ASSUME NEW c \in Callers, View(c) PROVE UNCHANGED Bar!vars
  <2>1. /\ txn[c].kind = "view" /\ call[c].op \in {"Get", "Exists"} /\ store' = store
        /\ txn[c] \in Txn /\ call[c] \in Call
        /\ txn'[c].kind = "none" /\ \A d \in Callers \ {c} : txn'[d] = txn[d]
    BY <1>7, TxnKind, PendingCall DEF View, TxnMatchesCall, TxnMatches, TypeOK, NoTxn
  <2>2. /\ call'[c] = [call[c] EXCEPT !.result = Abs!Outcome(call[c].op, call[c].key, txn[c].db)]
        /\ \A d \in Callers \ {c} : call'[d] = call[d]
    <3> DEFINE got == Abs!Outcome("Get", call[c].key, txn[c].db)
               read == IF call[c].op = "Get" THEN got
                       ELSE IF got = "ErrNotFound" THEN "false" ELSE "true"
    <3>1. txn[c].db[call[c].key] \in Values \cup {NoValue}
      BY <2>1 DEF Txn, Call, Stores
    <3>2. read = Abs!Outcome(call[c].op, call[c].key, txn[c].db)
      BY <2>1, <3>1, DatabaseAssumption DEF Abs!Outcome
    <3>3. Answer(c, read)
      BY <1>7 DEF View
    <3> HIDE DEF read
    <3> QED BY <3>2, <3>3 DEF Answer, TypeOK
  <2>3. callBar'[c] = callBar[c]
    BY <2>1, <2>2 DEF callBar
  <2>4. callBar' = callBar
    BY <2>1, <2>2, <2>3, BarKept DEF callBar
  <2> QED BY <2>1, <2>4 DEF Bar!vars
<1>8. ASSUME NEW c \in Callers, BeginUpdate(c) PROVE UNCHANGED Bar!vars
  <2>1. /\ call' = call /\ store' = store /\ txn[c].kind = "none"
        /\ txn'[c].kind = "begun" /\ \A d \in Callers \ {c} : txn'[d] = txn[d]
    BY <1>8 DEF BeginUpdate, Waiting, TypeOK
  <2>2. callBar' = callBar
    BY <2>1, BarKept DEF callBar
  <2> QED BY <2>1, <2>2 DEF Bar!vars
<1>9. ASSUME NEW c \in Callers, txn[c].kind \in {"begun", "changed"}, Abort(c, "error") PROVE Bar!Next
  <2>1. Abs!Pending(c)
    BY <1>9 DEF TxnMatchesCall, TxnMatches
  <2> QED BY <1>3, <1>9, <2>1 DEF Abort, TypeOK, NoTxn
<1>10. ASSUME NEW c \in Callers, Change(c) PROVE [Bar!Next]_(Bar!vars)
  <2> DEFINE outcome == Abs!Outcome(call[c].op, call[c].key, txn[c].db)
  <2>1. CASE Abort(c, "error")
    BY <1>9, <1>10, <2>1 DEF Change
  <2>2. CASE outcome = "ErrNotFound" /\ Abort(c, outcome)
    <3>1. /\ Abs!Pending(c) /\ txn[c].kind = "begun" /\ txn[c].db = store
          /\ call[c].op \notin {"Get", "Exists"} /\ call[c] \in Call
          /\ store' = store
          /\ txn'[c].kind = "none" /\ \A d \in Callers \ {c} : txn'[d] = txn[d]
      BY <1>10, <2>2, PendingCall DEF Change, TxnMatchesCall, TxnMatches, Abort, TypeOK, NoTxn
    <3>2. /\ call'[c] = [call[c] EXCEPT !.result = outcome]
          /\ \A d \in Callers \ {c} : call'[d] = call[d]
      BY <2>2 DEF Abort, Answer, TypeOK
    <3>3. call[c].op = "Delete" /\ store[call[c].key] = NoValue
      BY <2>2, <3>1 DEF Abs!Outcome, Call, Abs!Ops
    <3>4. Abs!Effect(call[c].op, call[c].key, call[c].value, store) = store
      BY <3>1, <3>3 DEF Abs!Effect, TypeOK, Stores
    <3>5. callBar'[c] = [call[c] EXCEPT !.result = Abs!Outcome(call[c].op, call[c].key, store)]
      BY <3>1, <3>2 DEF callBar
    <3> QED BY <1>4, <3>1, <3>2, <3>4, <3>5
  <2>3. CASE UNCHANGED <<store, call>> /\ txn'[c].kind = "changed"
    <3>1. txn[c].kind = "begun" /\ \A d \in Callers \ {c} : txn'[d] = txn[d]
      BY <1>10, <2>3 DEF Change, Abort, TypeOK
    <3>2. callBar' = callBar
      BY <2>3, <3>1, BarKept DEF callBar
    <3> QED BY <2>3, <3>2 DEF Bar!vars
  <2> QED BY <1>10, <2>1, <2>2, <2>3 DEF Change, TypeOK
<1>11. ASSUME NEW c \in Callers, Commit(c) PROVE Bar!Next
  <2>1. CASE Abort(c, "error")
    BY <1>9, <1>11, <2>1 DEF Commit
  <2>2. CASE store' = txn[c].db /\ Answer(c, "ok") /\ txn' = [txn EXCEPT ![c] = NoTxn]
    <3>1. /\ Abs!Pending(c) /\ txn[c].kind = "changed"
          /\ Abs!Outcome(call[c].op, call[c].key, store) = "ok"
          /\ store' = Abs!Effect(call[c].op, call[c].key, call[c].value, store)
      BY <1>11, <2>2 DEF Commit, TxnMatchesCall, TxnMatches
    <3>2. /\ call'[c] = [call[c] EXCEPT !.result = "ok"]
          /\ \A d \in Callers \ {c} : call'[d] = call[d] /\ txn'[d] = txn[d]
          /\ txn'[c].kind = "none"
      BY <2>2 DEF Answer, TypeOK, NoTxn
    <3>3. callBar'[c] = call'[c]
      BY <3>2 DEF callBar
    <3> QED BY <1>4, <3>1, <3>2, <3>3
  <2> QED BY <1>11, <2>1, <2>2 DEF Commit
<1>12. CASE CloseEnv
  BY <1>12 DEF CloseEnv, Bar!vars, callBar, Abs!Outcome
<1>13. CASE Destroy
  <2>1. callBar' = callBar
    BY <1>13 DEF Destroy, callBar
  <2> QED BY <1>13, <2>1 DEF Destroy, Bar!Next, Bar!Clear
<1>14. CASE UNCHANGED vars
  BY <1>14 DEF vars, Bar!vars, callBar, Abs!Outcome
<1> QED
  BY <1>1, <1>2, <1>5, <1>6, <1>7, <1>8, <1>10, <1>11, <1>12, <1>13, <1>14 DEF Next, Operation

\* Db implements Provider for every set of callers, keys and values: each Set,
\* Get, Exists and Delete that returns took effect at one moment of its call,
\* or failed without an effect.
THEOREM ProviderImplemented == Spec => ImplementsProvider
<1>1. Init => Bar!Init
  <2> SUFFICES ASSUME Init PROVE Bar!Init
    OBVIOUS
  <2>1. callBar = call
    BY DEF Init, Abs!Init, callBar, NoTxn
  <2> QED BY <2>1 DEF Init, Abs!Init, Bar!Init, Bar!Idle, Abs!Idle
<1>2. DbInv /\ DbInv' /\ [Next]_vars => [Bar!Next]_(Bar!vars)
  BY StepImplements
<1> QED BY <1>1, <1>2, InvInit, InvNext, PTL DEF Spec, ImplementsProvider, Bar!Spec
====
