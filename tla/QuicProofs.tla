---- MODULE QuicProofs ----
(***************************************************************************)
(* Proofs about QUIC, in two parts: the lifecycle of the transport and     *)
(* the requests over its streams.                                          *)
(***************************************************************************)
EXTENDS QuicTransport, QuicStreams, MessagesProofs, FiniteSetTheorems

-----------------------------------------------------------------------------
(***************************************************************************)
(* The lifecycle, for any number of connections, Starts, Stops and runs of *)
(* certs local: the WaitGroup is exact, Stop leaves nobody who handles     *)
(* requests, and no server has parts of two key pairs.                     *)
(***************************************************************************)

\* The goroutines of handleConnection, or of handleStream, that are running.
Handled(f) == {c \in Conns : f[c] = "handled"}

\* Their number is one.
LEMMA HandledCount ==
    ASSUME NEW S, NEW f \in [Conns -> S]
    PROVE  IsFiniteSet(Handled(f)) /\ Cardinality(Handled(f)) \in Nat
<1>1. IsFiniteSet(Handled(f))
  BY BoundsAssumption, FS_Subset DEF Handled
<1> QED BY <1>1, FS_CardinalityType

\* A goroutine that is launched adds one to their number.
LEMMA OneMore ==
    ASSUME NEW S, NEW f \in [Conns -> S], NEW c \in Conns, f[c] # "handled"
    PROVE  Cardinality(Handled([f EXCEPT ![c] = "handled"])) = Cardinality(Handled(f)) + 1
<1>1. Handled([f EXCEPT ![c] = "handled"]) = Handled(f) \cup {c} /\ c \notin Handled(f)
  BY DEF Handled
<1> QED BY <1>1, HandledCount, FS_AddElement

\* A goroutine that returns takes one away.
LEMMA OneLess ==
    ASSUME NEW S, NEW f \in [Conns -> S], NEW c \in Conns, f[c] = "handled"
    PROVE  /\ Cardinality(Handled([f EXCEPT ![c] = "done"])) = Cardinality(Handled(f)) - 1
           /\ Cardinality(Handled(f)) >= 1
<1>1. Handled([f EXCEPT ![c] = "done"]) = Handled(f) \ {c} /\ c \in Handled(f)
  BY DEF Handled
<1>2. IsFiniteSet(Handled(f)) /\ Cardinality(Handled(f)) \in Nat
  BY HandledCount
<1>3. Cardinality(Handled([f EXCEPT ![c] = "done"])) = Cardinality(Handled(f)) - 1
  BY <1>1, <1>2, FS_RemoveElement
<1>4. Cardinality(Handled(f)) # 0
  BY <1>1, <1>2, FS_EmptySet
<1>5. Cardinality(Handled(f)) >= 1
  BY <1>2, <1>4
<1> QED BY <1>3, <1>5

\* A connection that is queued is not handled yet.
LEMMA SameCount ==
    ASSUME NEW S, NEW f \in [Conns -> S], NEW c \in Conns, f[c] # "handled"
    PROVE  Handled([f EXCEPT ![c] = "queued"]) = Handled(f)
BY DEF Handled

\* Nobody is running when the counter is zero.
LEMMA NobodyRuns ==
    ASSUME NEW S, NEW f \in [Conns -> S], Cardinality(Handled(f)) = 0
    PROVE  \A c \in Conns : f[c] # "handled"
<1>1. Handled(f) = {}
  BY HandledCount, FS_EmptySet
<1> QED BY <1>1 DEF Handled

-----------------------------------------------------------------------------
(* The lifecycle.                                                           *)

\* The acceptor, as the WaitGroup counts it.
Acceptor == IF acceptor \in {"select", "accept"} THEN 1 ELSE 0

LEMMA RunningIs == Running = Acceptor + Cardinality(Handled(conn)) + Cardinality(Handled(stream))
BY DEF Running, Acceptor, Handled

\* close(s.started) is what keeps a second Start from launching a second accept
\* loop, which the counter would not know.
OneAcceptor ==
    /\ startPc = "signalled" => started
    /\ acceptor # "none" => started
    /\ startPc = "signalled" /\ ~panicked => acceptor = "none"

\* The calls that were needed to get where Start and Stop are.
CallsCounted ==
    /\ started \/ startPc # "idle" => starts >= 1
    /\ started /\ startPc = "listening" => starts >= 2
    /\ stopClosed => stops >= 1
    /\ stopPc # "idle" => stopClosed

\* The accept loop finds a listener in the field unless a second Start has put
\* nil there.
HasListener ==
    /\ startPc \in {"listening", "signalled"} => listener # 0
    /\ acceptor # "none" => listener # 0 \/ starts > 1

\* After Stop has returned no accept loop is waiting in Accept: one that is
\* launched later finds stopChan closed.
NoLateAccept == stopPc = "returned" /\ ~panicked => acceptor # "accept"

\* The inductive invariant.
QuicIInv ==
    /\ TypeOK /\ WaitGroupExact /\ OneAcceptor /\ CallsCounted /\ HasListener
    /\ PanicNeedsMisuse /\ NoLateAccept /\ QuietAfterStop

LEMMA QuicInit == Init => QuicIInv
<1> SUFFICES ASSUME Init PROVE QuicIInv
  OBVIOUS
<1>1. Handled(conn) = {} /\ Handled(stream) = {}
  BY DEF Init, Handled
<1>2. Running = 0
  BY <1>1, RunningIs, FS_EmptySet DEF Init, Acceptor
<1>3. TypeOK
  <2>1. started \in BOOLEAN /\ stopClosed \in BOOLEAN /\ panicked \in BOOLEAN
    BY Zenon DEF Init
  <2> QED BY <2>1, BoundsAssumption DEF Init, TypeOK
<1>4. WaitGroupExact
  BY <1>2 DEF Init, WaitGroupExact
<1>5. OneAcceptor /\ CallsCounted /\ HasListener /\ PanicNeedsMisuse /\ NoLateAccept /\ QuietAfterStop
  BY DEF Init, OneAcceptor, CallsCounted, HasListener, PanicNeedsMisuse, NoLateAccept, QuietAfterStop
<1> QED BY <1>3, <1>4, <1>5 DEF QuicIInv

\* The counter follows every goroutine, and stays a natural number.
LEMMA WaitGroupNext == QuicIInv /\ Next => WaitGroupExact' /\ wg' \in Nat
<1> SUFFICES ASSUME QuicIInv, Next PROVE WaitGroupExact' /\ wg' \in Nat
  OBVIOUS
<1> DEFINE nc == Cardinality(Handled(conn))
           ns == Cardinality(Handled(stream))
<1>a. /\ conn \in [Conns -> {"none", "queued", "handled", "done"}]
      /\ stream \in [Conns -> {"none", "handled", "done"}]
  BY DEF QuicIInv, TypeOK
<1>b. nc \in Nat /\ ns \in Nat
  BY <1>a, HandledCount
<1>c. wg = Acceptor + nc + ns /\ wg \in Nat
  BY RunningIs DEF QuicIInv, WaitGroupExact, TypeOK
<1>d. Acceptor \in {0, 1}
  BY DEF Acceptor
<1> DEFINE Exact ==
             /\ wg' = Acceptor' + Cardinality(Handled(conn')) + Cardinality(Handled(stream'))
             /\ wg' \in Nat
<1>e. SUFFICES Exact
  <2>1. Running' = Acceptor' + Cardinality(Handled(conn')) + Cardinality(Handled(stream'))
    BY DEF Running, Acceptor, Handled
  <2> QED BY <1>e, <2>1 DEF WaitGroupExact
<1>1. CASE Listen \/ SignalStarted \/ StopCall \/ CloseListener \/ StopReturns
  <2>1. UNCHANGED <<acceptor, conn, stream, wg>>
    BY <1>1 DEF Listen, SignalStarted, StopCall, CloseListener, StopReturns, connVars, Goroutine
  <2> QED BY <2>1, <1>c DEF Acceptor
<1>2. CASE SpawnAcceptor
  <2>1. acceptor = "none" /\ acceptor' = "select" /\ wg' = wg + 1 /\ UNCHANGED <<conn, stream>>
    BY <1>2 DEF SpawnAcceptor, QuicIInv, OneAcceptor, connVars
  <2> QED BY <2>1, <1>b, <1>c DEF Acceptor
<1>3. CASE AcceptorSelect \/ AcceptFails
  <2>1. /\ acceptor \in {"select", "accept"} /\ UNCHANGED <<conn, stream>>
        /\ \/ acceptor' = "done" /\ wg' = wg - 1
           \/ acceptor' = "accept" /\ wg' = wg
    BY <1>3 DEF AcceptorSelect, AcceptFails, connVars
  <2> QED BY <2>1, <1>b, <1>c DEF Acceptor
<1>4. ASSUME NEW c \in Conns, Accept(c) PROVE Exact
  <2>1. Cardinality(Handled(conn')) = nc + 1
    BY <1>4, <1>a, OneMore DEF Accept
  <2>2. acceptor = "accept" /\ acceptor' = "select" /\ wg' = wg + 1 /\ stream' = stream
    BY <1>4 DEF Accept
  <2> QED BY <2>1, <2>2, <1>b, <1>c DEF Acceptor
<1>5. ASSUME NEW c \in Conns, AcceptStream(c) PROVE Exact
  <2>1. Cardinality(Handled(stream')) = ns + 1
    BY <1>5, <1>a, OneMore DEF AcceptStream
  <2>2. acceptor' = acceptor /\ wg' = wg + 1 /\ conn' = conn
    BY <1>5 DEF AcceptStream
  <2> QED BY <2>1, <2>2, <1>b, <1>c, <1>d DEF Acceptor
<1>6. ASSUME NEW c \in Conns, ConnectionEnds(c) PROVE Exact
  <2>1. Cardinality(Handled(conn')) = nc - 1 /\ nc >= 1
    BY <1>6, <1>a, OneLess DEF ConnectionEnds
  <2>2. acceptor' = acceptor /\ wg' = wg - 1 /\ stream' = stream
    BY <1>6 DEF ConnectionEnds
  <2> QED BY <2>1, <2>2, <1>b, <1>c, <1>d DEF Acceptor
<1>7. ASSUME NEW c \in Conns, StreamEnds(c) PROVE Exact
  <2>1. Cardinality(Handled(stream')) = ns - 1 /\ ns >= 1
    BY <1>7, <1>a, OneLess DEF StreamEnds
  <2>2. acceptor' = acceptor /\ wg' = wg - 1 /\ conn' = conn
    BY <1>7 DEF StreamEnds
  <2> QED BY <2>1, <2>2, <1>b, <1>c, <1>d DEF Acceptor
<1>8. ASSUME NEW c \in Conns, Dial(c) \/ PeerCloses(c) PROVE Exact
  <2>1. Handled(conn') = Handled(conn)
    BY <1>8, <1>a, SameCount DEF Dial, PeerCloses
  <2>2. UNCHANGED <<acceptor, stream, wg>>
    BY <1>8 DEF Dial, PeerCloses
  <2> QED BY <2>1, <2>2, <1>c DEF Acceptor
<1> QED BY <1>1, <1>2, <1>3, <1>4, <1>5, <1>6, <1>7, <1>8 DEF Next

LEMMA TypeNext == QuicIInv /\ Next => TypeOK'
<1> SUFFICES ASSUME QuicIInv, Next PROVE TypeOK'
  OBVIOUS
<1>1. wg' \in Nat
  BY WaitGroupNext
<1> USE BoundsAssumption, <1>1 DEF QuicIInv, TypeOK
<1>2. CASE Listen
  BY <1>2 DEF Listen, Listeners, stopVars, connVars
<1>3. CASE SignalStarted \/ SpawnAcceptor
  BY <1>3 DEF SignalStarted, SpawnAcceptor, stopVars, connVars
<1>4. CASE AcceptorSelect \/ AcceptFails
  BY <1>4 DEF AcceptorSelect, AcceptFails, Quiet, startVars, stopVars, connVars
<1>5. ASSUME NEW c \in Conns, Accept(c) \/ AcceptStream(c) \/ Dial(c) \/ PeerCloses(c) PROVE TypeOK'
  BY <1>5 DEF Accept, AcceptStream, Dial, PeerCloses, Quiet, startVars, stopVars
<1>6. ASSUME NEW c \in Conns, ConnectionEnds(c) \/ StreamEnds(c) PROVE TypeOK'
  BY <1>6 DEF ConnectionEnds, StreamEnds, Quiet, startVars, stopVars
<1>7. CASE StopCall
  BY <1>7 DEF StopCall, startVars, Goroutine
<1>8. CASE CloseListener \/ StopReturns
  BY <1>8 DEF CloseListener, StopReturns, Closed, startVars, Goroutine
<1> QED BY <1>2, <1>3, <1>4, <1>5, <1>6, <1>7, <1>8 DEF Next

\* What Stop relies on when it returns: nothing is running.
LEMMA StopFindsNobody ==
    QuicIInv /\ wg = 0 =>
        /\ acceptor \notin {"select", "accept"}
        /\ \A c \in Conns : conn[c] # "handled" /\ stream[c] # "handled"
<1> SUFFICES ASSUME QuicIInv, wg = 0
             PROVE  /\ acceptor \notin {"select", "accept"}
                    /\ \A c \in Conns : conn[c] # "handled" /\ stream[c] # "handled"
  OBVIOUS
<1>1. /\ conn \in [Conns -> {"none", "queued", "handled", "done"}]
      /\ stream \in [Conns -> {"none", "handled", "done"}]
  BY DEF QuicIInv, TypeOK
<1>2. Cardinality(Handled(conn)) \in Nat /\ Cardinality(Handled(stream)) \in Nat
  BY <1>1, HandledCount
<1>3. Acceptor + Cardinality(Handled(conn)) + Cardinality(Handled(stream)) = 0 /\ Acceptor \in {0, 1}
  BY RunningIs DEF QuicIInv, WaitGroupExact, Acceptor
<1>4. Acceptor = 0 /\ Cardinality(Handled(conn)) = 0 /\ Cardinality(Handled(stream)) = 0
  BY <1>2, <1>3
<1>5. acceptor \notin {"select", "accept"}
  BY <1>4 DEF Acceptor
<1>6. \A c \in Conns : conn[c] # "handled"
  BY <1>1, <1>4, NobodyRuns
<1>7. \A c \in Conns : stream[c] # "handled"
  BY <1>1, <1>4, NobodyRuns
<1> QED BY <1>5, <1>6, <1>7

LEMMA LifecycleNext ==
    QuicIInv /\ Next =>
        /\ OneAcceptor' /\ CallsCounted' /\ HasListener'
        /\ PanicNeedsMisuse' /\ NoLateAccept' /\ QuietAfterStop'
<1> DEFINE Goal ==
        /\ OneAcceptor' /\ CallsCounted' /\ HasListener'
        /\ PanicNeedsMisuse' /\ NoLateAccept' /\ QuietAfterStop'
<1> SUFFICES ASSUME QuicIInv, Next PROVE Goal
  OBVIOUS
<1>a. TypeOK
  BY DEF QuicIInv
<1> USE <1>a DEF QuicIInv, TypeOK, OneAcceptor, CallsCounted, HasListener, PanicNeedsMisuse,
        NoLateAccept, QuietAfterStop
<1>1. CASE Listen
  BY <1>1 DEF Listen, stopVars, connVars
<1>2. CASE SignalStarted
  <2>1. started' /\ (panicked' <=> started) /\ ~panicked /\ startPc = "listening" /\ startPc' = "signalled"
    BY <1>2, Zenon DEF SignalStarted, TypeOK
  <2>2. UNCHANGED <<listener, starts, stopVars, acceptor, conn, stream>>
    BY <1>2, Zenon DEF SignalStarted, connVars
  <2>3. CASE started
    BY <2>1, <2>2, <2>3 DEF stopVars
  <2>4. CASE ~started
    BY <2>1, <2>2, <2>4 DEF stopVars
  <2> QED BY <2>3, <2>4
<1>3. CASE SpawnAcceptor
  BY <1>3 DEF SpawnAcceptor, stopVars, connVars
<1>4. CASE AcceptorSelect
  <2>1. /\ acceptor = "select" /\ acceptor' \in {"done", "accept"} /\ ~panicked
        /\ acceptor' = "accept" => ~stopClosed
        /\ panicked' => listener = 0
        /\ UNCHANGED startVars /\ UNCHANGED stopVars /\ UNCHANGED connVars
    BY <1>4 DEF AcceptorSelect, startVars, stopVars, connVars
  <2> QED BY <2>1 DEF startVars, stopVars, connVars
<1>10. CASE AcceptFails
  BY <1>10 DEF AcceptFails, Quiet, startVars, stopVars, connVars
<1>5. ASSUME NEW c \in Conns, Accept(c) \/ AcceptStream(c) \/ Dial(c) \/ PeerCloses(c) PROVE Goal
  BY <1>5 DEF Accept, AcceptStream, Dial, PeerCloses, Quiet, startVars, stopVars
<1>6. ASSUME NEW c \in Conns, ConnectionEnds(c) \/ StreamEnds(c) PROVE Goal
  BY <1>6 DEF ConnectionEnds, StreamEnds, Quiet, startVars, stopVars
<1>7. CASE StopCall
  BY <1>7 DEF StopCall, startVars, Goroutine
<1>8. CASE CloseListener
  <2>1. /\ stopPc = "closing" /\ stopPc' \in {"waiting", "error"} /\ ~panicked
        /\ panicked' => listener = 0
        /\ UNCHANGED <<startVars, stopClosed, stops, Goroutine>>
    BY <1>8, Zenon DEF CloseListener
  <2> QED BY <2>1 DEF startVars, Goroutine
<1>9. CASE StopReturns
  BY <1>9, StopFindsNobody DEF StopReturns, startVars, Goroutine
<1> QED BY <1>1, <1>2, <1>3, <1>4, <1>5, <1>6, <1>7, <1>8, <1>9, <1>10 DEF Next

LEMMA QuicStep == QuicIInv /\ [Next]_vars => QuicIInv'
<1>1. QuicIInv /\ Next => QuicIInv'
  BY WaitGroupNext, TypeNext, LifecycleNext DEF QuicIInv
<1>2. QuicIInv /\ UNCHANGED vars => QuicIInv'
  BY DEF QuicIInv, vars, startVars, stopVars, connVars, TypeOK, WaitGroupExact, Running,
         OneAcceptor, CallsCounted, HasListener, PanicNeedsMisuse, NoLateAccept, QuietAfterStop
<1> QED BY <1>1, <1>2

-----------------------------------------------------------------------------
(* The key pair.                                                            *)

\* While the files are one complete pair since GetTLSConfig began, what it has
\* read so far is of that pair; and it goes on past Compare only with one.
PairRead ==
    /\ steady => C!Matching(certFile, keyFile)
    /\ steady /\ load \in {"readKey", "compare"} => cert = certFile
    /\ steady /\ load = "compare" => key = keyFile
    /\ load \in {"rootCA", "loaded"} => C!Matching(cert, key)

\* A file that certs local has truncated and not written yet is torn, so the
\* files are no pair, whenever GetTLSConfig looks.
WritersUnsteady ==
    /\ certsPc = "writeCert" => ~steady /\ certFile = C!Torn
    /\ certsPc = "writeKey" => ~steady /\ keyFile = C!Torn

CertIInv == C!TypeOK /\ PairRead /\ WritersUnsteady /\ C!TlsSound

LEMMA CertInit == C!Init => CertIInv
<1> SUFFICES ASSUME C!Init PROVE CertIInv
  OBVIOUS
<1>1. ~steady /\ steady \in BOOLEAN
  BY Zenon DEF C!Init
<1> QED BY <1>1, RunsAssumption
      DEF C!Init, C!TypeOK, C!Missing, C!Torn, CertIInv, PairRead, WritersUnsteady, C!TlsSound

LEMMA CertNext == CertIInv /\ C!Next => CertIInv'
<1> SUFFICES ASSUME CertIInv, C!Next PROVE CertIInv'
  OBVIOUS
<1> USE RunsAssumption DEF CertIInv, C!TypeOK, PairRead, WritersUnsteady, C!TlsSound,
        C!Matching, C!Missing, C!Torn
<1>1. CASE C!Generate
  BY <1>1 DEF C!Generate, C!files
<1>2. CASE C!Open
  <2>1. ~steady' /\ steady' \in BOOLEAN
    BY <1>2, Zenon DEF C!Open
  <2> QED BY <1>2, <2>1 DEF C!Open
<1>3. CASE C!Write
  BY <1>3 DEF C!Write
<1>4. CASE C!CertsFails
  BY <1>4 DEF C!CertsFails, C!files
<1>5. CASE C!Stat
  <2>1. CASE load = "statCert"
    <3>1. /\ steady' \in BOOLEAN
          /\ steady' <=> C!Matching(certFile, keyFile)
      BY <1>5, <2>1, Zenon DEF C!Stat
    <3>2. /\ load' = IF certFile = C!Missing THEN "failed" ELSE "statKey"
          /\ UNCHANGED <<certFile, keyFile, runs, certsPc, rootCA, cert, key>>
      BY <1>5, <2>1, Zenon DEF C!Stat, C!Disk, C!files
    <3> QED BY <2>1, <3>1, <3>2
  <2>2. CASE load = "statKey"
    BY <1>5, <2>2 DEF C!Stat, C!Disk, C!files
  <2> QED BY <1>5, <2>1, <2>2 DEF C!Stat
<1>6. CASE C!Read
  BY <1>6 DEF C!Read, C!Disk, C!files
<1>7. CASE C!Compare
  BY <1>7 DEF C!Compare, C!Disk, C!files
<1>8. CASE C!ReadRootCA
  BY <1>8 DEF C!ReadRootCA, C!Disk, C!files
<1> QED BY <1>1, <1>2, <1>3, <1>4, <1>5, <1>6, <1>7, <1>8
      DEF C!Next, C!CertsLocal, C!GetTLSConfig

-----------------------------------------------------------------------------
(* The composition.                                                         *)

LEMMA TransportInitHolds == TransportInit => QuicIInv /\ CertIInv
BY QuicInit, CertInit DEF TransportInit

LEMMA TransportStep ==
    QuicIInv /\ CertIInv /\ [TransportNext]_allVars => QuicIInv' /\ CertIInv'
<1>1. QuicIInv /\ UNCHANGED vars => QuicIInv'
  BY QuicStep
<1>2. CertIInv /\ UNCHANGED certVars => CertIInv'
  BY DEF CertIInv, certVars, C!TypeOK, PairRead, WritersUnsteady, C!TlsSound, C!Matching,
         C!Missing, C!Torn
<1>3. QuicIInv /\ Next => QuicIInv'
  BY QuicStep
<1>4. [TransportNext]_allVars =>
          \/ C!Next /\ UNCHANGED vars
          \/ Next /\ UNCHANGED certVars
          \/ UNCHANGED vars /\ UNCHANGED certVars
  BY DEF TransportNext, allVars
<1> QED BY <1>1, <1>2, <1>3, <1>4, CertNext

LEMMA InductiveHolds == TransportSpec => [](QuicIInv /\ CertIInv)
BY TransportInitHolds, TransportStep, PTL DEF TransportSpec

\* The WaitGroup counts exactly the goroutines that run, its counter never goes
\* below zero, and nothing but a second Start (which leaves no listener when it
\* fails), a second Stop or a Stop without a listener brings the process down,
\* for any number of connections.
THEOREM QuicCorrect == TransportSpec => []QuicInv
<1>1. QuicIInv => QuicInv
  BY DEF QuicIInv, QuicInv
<1> QED BY <1>1, InductiveHolds, PTL

\* Once Stop has returned nil no goroutine handles a connection or a stream, and
\* none ever does again, however Stop interleaved with Start and Accept.
THEOREM StopLeavesQuiet == TransportSpec => []QuietAfterStop
<1>1. QuicIInv => QuietAfterStop
  BY DEF QuicIInv
<1> QED BY <1>1, InductiveHolds, PTL

\* No server gets a certificate with the key of another run of certs local, and
\* when both files could be read loading fails only for a bad root CA or files
\* that were not one complete pair all the time, however often and wherever
\* certs local is interrupted.
THEOREM TlsCorrect == TransportSpec => []TlsSound
<1>1. CertIInv => TlsSound
  BY DEF CertIInv, TlsSound
<1> QED BY <1>1, InductiveHolds, PTL

-----------------------------------------------------------------------------
(***************************************************************************)
(* The requests, for any finite set of streams, any number of messages on  *)
(* each, all keys, payloads and lengths of the fields: every handler gets  *)
(* what one client sent, in order and whole, whatever becomes of the       *)
(* stream; every answer belongs to the request the client waits for; and a *)
(* read never returns an older write of QUIC than one before it, whatever  *)
(* the writers of the other transports commit.                             *)
(***************************************************************************)

(* The inductive invariant.  Its parts are about one stream and are written *)
(* as predicates of what is kept for it: se the messages sent, ha handled,  *)
(* an the answers, wi the wire, re the replies, pc, ms and go the           *)
(* goroutine, its message and what db.Get returned, cl and br closed and      *)
(* broken, and du what is stored.                                           *)

\* Requests are answered, handled and sent in one order, and at most the
\* last has no answer: the client waits for it before it writes the next one.
Turns(se, ha, an) ==
    /\ Len(an) <= Len(ha) /\ Len(ha) <= Len(se)
    /\ Len(se) <= Len(an) + 1 /\ Len(se) <= MaxMsgs
    /\ \A i \in 1 .. Len(ha) : ha[i] = se[i]

\* Where that one is: whole on the wire, with a handler that has not begun or
\* not ended, or given up by a goroutine that is gone.
Outstanding(se, ha, an, wi, pc, ms, cl, br) ==
    /\ wi # <<>> =>
        /\ ~br /\ Len(ha) = Len(se) - 1 /\ pc \in {"read", "gone"}
        /\ pc = "read" => wi = Encode(Last(se))
    /\ pc \in {"write", "get"} => Len(ha) = Len(se) - 1
    /\ pc \in {"ack", "value"} => Len(ha) = Len(se) /\ Len(an) = Len(se) - 1
    /\ pc \in {"write", "get", "ack", "value"} => wi = <<>> /\ ms = Last(se)
    /\ pc \in {"write", "ack"} => ms.handler = WriteHandlerType
    /\ pc \in {"get", "value"} => ms.handler = ReadHandlerType
    /\ pc = "gone" /\ Len(ha) = Len(se) => cl \/ br

\* Answer a is one of request m.
IsAnswer(a, m) == a.kind \in Answers(m) /\ (a.kind = "value" => a.key = m.key)

\* What is on its way back is the answer to it, behind the length that
\* announces a value.
Answering(se, ha, an, wi, re, pc, br) ==
    /\ br => wi = <<>> /\ re = <<>>
    /\ re # <<>> =>
        Len(ha) = Len(se) /\ Len(an) = Len(se) - 1 /\ pc \in {"read", "value", "gone"}
    /\ Len(re) <= 2
    /\ \A i \in 1 .. Len(re) : re[i].kind = "length" \/ IsAnswer(re[i], Last(se))
    /\ Len(re) = 2 => re[1].kind = "length" /\ re[2].kind # "length"
    /\ Len(re) = 1 => (pc = "value" <=> re[1].kind = "length")
    /\ pc = "value" => Len(re) <= 1

\* Every answer the client has read is one of the request in its place.
Answered(se, an) == \A i \in 1 .. Len(an) : IsAnswer(an[i], se[i])

\* The answer is on its way unless the goroutine or the connection is gone.
OnItsWay(se, an, wi, re, pc, br) ==
    pc = "read" /\ wi = <<>> /\ re = <<>> /\ ~br => Len(an) = Len(se)

\* b may be read after a, if that is a value of the key k.
AtMost(a, k, b) == a.kind = "value" /\ a.key = k => Before(a, b)

\* st may be read after a, and so may everything committed over st.
UpTo(a, st) == Before(a, st) /\ a.num <= st.last

Known(a, k, st) == a.kind = "value" /\ a.key = k => UpTo(a, st)

\* The database goes from d to e: by a newer write of QUIC or by one of another
\* transport.
Advance(d, e) ==
    \/ e = d
    \/ e.others = d.others /\ e.num = e.last /\ d.last < e.last
    \/ e.others > d.others /\ e.num = 0 /\ d.last = e.last

\* No value that was read is newer than the committed one, and what a read
\* handler holds or has sent is not older than what the client has seen.
ReadsBelow(an, re, pc, ms, go, du) ==
    /\ pc = "value" =>
        UpTo(go, du[ms.key]) /\ \A i \in 1 .. Len(an) : AtMost(an[i], ms.key, go)
    /\ \A j \in 1 .. Len(re) : \A k \in Keys : Known(re[j], k, du[k])
    /\ \A i \in 1 .. Len(an) : \A k \in Keys : Known(an[i], k, du[k])
    /\ \A i \in 1 .. Len(an), j \in 1 .. Len(re) :
        re[j].kind = "value" => AtMost(an[i], re[j].key, re[j])

InOrder(an) ==
    \A i, j \in 1 .. Len(an) : i < j /\ an[j].kind = "value" => AtMost(an[i], an[j].key, an[j])

\* What is kept for one stream, and its types.
Typed(se, ha, an, wi, re, pc, ms, go) ==
    /\ se \in Seq(Requests) /\ ha \in Seq(Requests \cup {NoMsg})
    /\ an \in Seq(Replies) /\ re \in Seq(Replies)
    /\ wi \in Seq(Bytes) /\ go \in Stored /\ ms \in Requests \cup {NoMsg}
    /\ pc \in {"read", "write", "ack", "get", "value", "gone"}

OneStream(se, ha, an, wi, re, pc, ms, go, cl, br, du) ==
    /\ Typed(se, ha, an, wi, re, pc, ms, go)
    /\ Turns(se, ha, an)
    /\ Outstanding(se, ha, an, wi, pc, ms, cl, br)
    /\ Answering(se, ha, an, wi, re, pc, br) /\ Answered(se, an)
    /\ OnItsWay(se, an, wi, re, pc, br)
    /\ ReadsBelow(an, re, pc, ms, go, du) /\ InOrder(an)

StreamOK(s) ==
    OneStream(sent[s], handled[s], answers[s], wire[s], replies[s],
              spc[s], msg[s], got[s], closed[s], broken[s], stored)

\* The writes of v to k that handlers took, and the batch writer accepted.
HandledWrites(h, k, v) ==
    {p \in Streams \X (1 .. MaxMsgs) :
        /\ p[2] \in 1 .. Len(h[p[1]])
        /\ h[p[1]][p[2]].handler = WriteHandlerType
        /\ h[p[1]][p[2]].key = k /\ h[p[1]][p[2]].data = v}

AcceptedWrites(vs, k, v) == {j \in 1 .. Len(vs[k]) : vs[k][j] = v}

WritesCounted ==
    \A k \in Keys, v \in Payloads :
        Cardinality(HandledWrites(handled, k, v)) = Cardinality(AcceptedWrites(values, k, v))

MsgTyped == msg \in [Streams -> Requests \cup {NoMsg}]

StreamsIInv ==
    /\ StreamsTypeOK /\ MsgTyped
    /\ \A s \in Streams : StreamOK(s)
    /\ WritesCounted

-----------------------------------------------------------------------------
(* What is kept for one stream, through every step of its client and of its *)
(* goroutine.                                                               *)

\* Only messages of the wire format are sent, short enough for the length
\* field.
LEMMA RequestTyped ==
    ASSUME NEW m \in Requests
    PROVE  m \in Message /\ m.key \in Keys /\ MsgLen(m) < Modulus
<1>1. m \in Message /\ m.key \in Keys /\ (m.data \in Payloads \/ m.data = <<>>)
  <2>1. WriteHandlerType \in Bytes /\ ReadHandlerType \in Bytes /\ OtherHandlers \subseteq Bytes
    BY HandlersAssumption, QuicAssumption DEF Bytes
  <2>2. Keys \subseteq [1 .. KeyLen -> Bytes] /\ Payloads \subseteq Seq(Bytes) /\ <<>> \in Seq(Bytes)
    BY MessagesAssumption
  <2> QED BY <2>1, <2>2 DEF Requests, Message
<1>2. CASE m.data \in Payloads
  BY <1>1, <1>2, PayloadAssumption DEF MsgLen
<1>3. CASE m.data = <<>>
  BY <1>1, <1>3, ModulusTyped, HeaderTyped DEF MsgLen
<1> QED BY <1>1, <1>2, <1>3

LEMMA FrameOf ==
    ASSUME NEW m \in Requests
    PROVE  Encode(m) \in Seq(Bytes) /\ Len(Encode(m)) = MsgLen(m) /\ MsgLen(m) \in Nat /\ Encode(m) # <<>>
<1>1. m \in Message
  BY RequestTyped
<1>2. Encode(m) \in Seq(Bytes) /\ Len(Encode(m)) = MsgLen(m) /\ MsgLen(m) \in Nat
  BY <1>1, EncodeBytes
<1>3. Len(m.data) \in Nat
  BY <1>1 DEF Message
<1>4. \A n \in Nat : Header + n > 0
  BY HeaderTyped
<1>5. MsgLen(m) > 0
  BY <1>3, <1>4, Zenon DEF MsgLen
<1>6. \A q \in Seq(Bytes) : Len(q) > 0 => q # <<>>
  OBVIOUS
<1>7. Encode(m) # <<>>
  BY <1>2, <1>5, <1>6, Zenon
<1> QED BY <1>2, <1>7

LEMMA LastTyped ==
    ASSUME NEW se \in Seq(Requests), Len(se) >= 1
    PROVE  Last(se) \in Requests
BY DEF Last

\* A client that writes has no answer to wait for: the goroutine waits in
\* stream.Read, and nothing is on its way in either direction.
LEMMA IdleWhenAnswered ==
    ASSUME NEW se, NEW ha, NEW an, NEW wi, NEW re, NEW pc, NEW ms, NEW go, NEW cl, NEW br, NEW du,
           OneStream(se, ha, an, wi, re, pc, ms, go, cl, br, du), ~cl, ~br, Len(an) = Len(se)
    PROVE  pc = "read" /\ wi = <<>> /\ re = <<>> /\ Len(ha) = Len(se)
<1>1. Len(ha) = Len(se)
  BY DEF OneStream, Typed, Turns
<1>2. wi = <<>> /\ re = <<>>
  BY <1>1 DEF OneStream, Typed, Outstanding, Answering
<1>3. pc = "read"
  BY <1>1 DEF OneStream, Typed, Outstanding
<1> QED BY <1>1, <1>2, <1>3

LEMMA WriteKeeps ==
    ASSUME NEW se, NEW ha, NEW an, NEW wi, NEW re, NEW pc, NEW ms, NEW go, NEW cl, NEW br, NEW du,
           OneStream(se, ha, an, wi, re, pc, ms, go, cl, br, du),
           NEW m \in Requests, ~cl, ~br, Len(an) = Len(se), Len(se) < MaxMsgs
    PROVE  OneStream(Append(se, m), ha, an, wi \o Encode(m), re, pc, ms, go, cl, br, du)
<1>1. pc = "read" /\ wi = <<>> /\ re = <<>> /\ Len(ha) = Len(se)
  BY IdleWhenAnswered
<1>2. /\ se \in Seq(Requests) /\ ha \in Seq(Requests \cup {NoMsg}) /\ an \in Seq(Replies)
      /\ Len(se) \in Nat /\ MaxMsgs \in Nat
  BY QuicAssumption DEF OneStream, Typed
<1>3. PICK sx, wx : sx = Append(se, m) /\ wx = wi \o Encode(m)
  OBVIOUS
<1>4. /\ sx \in Seq(Requests) /\ Len(sx) = Len(se) + 1 /\ sx[Len(se) + 1] = m
      /\ \A i \in 1 .. Len(se) : sx[i] = se[i]
  BY <1>2, <1>3
<1>5. wx = Encode(m) /\ wx \in Seq(Bytes) /\ wx # <<>>
  BY <1>1, <1>3, FrameOf, ConcatEmptySeq
<1>6. Last(sx) = m
  BY <1>4 DEF Last
<1>7. Typed(sx, ha, an, wx, re, pc, ms, go)
  BY <1>4, <1>5 DEF OneStream, Typed
<1>8. Turns(sx, ha, an)
  BY <1>1, <1>2, <1>4, SMTT(30) DEF OneStream, Turns
<1>9. Outstanding(sx, ha, an, wx, pc, ms, cl, br)
  BY <1>1, <1>2, <1>4, <1>5, <1>6 DEF Outstanding
<1>10. Answering(sx, ha, an, wx, re, pc, br)
  BY <1>1 DEF OneStream, Answering
<1>11. Answered(sx, an)
  BY <1>2, <1>4 DEF OneStream, Answered
<1>12. OnItsWay(sx, an, wx, re, pc, br)
  BY <1>5 DEF OnItsWay
<1> QED BY <1>3, <1>7, <1>8, <1>9, <1>10, <1>11, <1>12 DEF OneStream

LEMMA FirstAndRest ==
    ASSUME NEW S, NEW q \in Seq(S), q # <<>>
    PROVE  /\ Len(q) \in Nat \ {0} /\ Head(q) = q[1] /\ q[1] \in S
           /\ Tail(q) \in Seq(S) /\ Len(Tail(q)) = Len(q) - 1
           /\ \A i \in 1 .. Len(q) - 1 : Tail(q)[i] = q[i + 1]
OBVIOUS

\* The client reads the length of a value: an answer is still to come.
LEMMA ReadLengthKeeps ==
    ASSUME NEW se, NEW ha, NEW an, NEW wi, NEW re, NEW pc, NEW ms, NEW go, NEW cl, NEW br, NEW du,
           OneStream(se, ha, an, wi, re, pc, ms, go, cl, br, du), re # <<>>, Head(re).kind = "length"
    PROVE  OneStream(se, ha, an, wi, Tail(re), pc, ms, go, cl, br, du)
<1>1. re \in Seq(Replies) /\ Len(re) \in Nat
  BY DEF OneStream, Typed
<1>0. Len(re) >= 1 /\ Tail(re) \in Seq(Replies)
  BY <1>1, FirstAndRest
<1>2. PICK l \in Nat, rx \in Seq(Replies) : l = Len(re) /\ l >= 1 /\ rx = Tail(re)
  BY <1>0, <1>1
<1>3. /\ rx \in Seq(Replies) /\ Len(rx) = l - 1 /\ re[1].kind = "length"
      /\ \A i \in 1 .. l - 1 : rx[i] = re[i + 1]
  BY <1>1, <1>2, FirstAndRest
<1>4. /\ Len(ha) = Len(se) /\ Len(an) = Len(se) - 1 /\ pc \in {"read", "value", "gone"} /\ ~br /\ l <= 2
      /\ l = 2 => re[2].kind # "length" /\ pc # "value"
      /\ l = 1 => pc = "value"
  BY <1>2, <1>3 DEF OneStream, Answering
<1>5. Typed(se, ha, an, wi, rx, pc, ms, go)
  BY <1>3 DEF OneStream, Typed
<1>6. Answering(se, ha, an, wi, rx, pc, br)
  <2>1. CASE l = 1
    BY <1>3, <1>4, <2>1 DEF Answering
  <2>2. CASE l = 2
    <3>1. Len(rx) = 1 /\ rx[1] = re[2] /\ re[2].kind # "length" /\ IsAnswer(re[2], Last(se))
      BY <1>2, <1>3, <1>4, <2>2 DEF OneStream, Answering
    <3>2. \A i \in 1 .. Len(rx) : rx[i] = re[2]
      BY <3>1
    <3> QED BY <1>4, <3>1, <3>2, <2>2 DEF Answering
  <2> QED BY <1>2, <1>4, <2>1, <2>2
<1>7. OnItsWay(se, an, wi, rx, pc, br)
  <2>1. rx = <<>> => l = 1
    BY <1>2, <1>3
  <2> QED BY <1>4, <2>1 DEF OnItsWay
<1>8. ReadsBelow(an, rx, pc, ms, go, du)
  <2>1. \A j \in 1 .. Len(rx) : j + 1 \in 1 .. Len(re) /\ rx[j] = re[j + 1]
    BY <1>2, <1>3
  <2> QED BY <2>1 DEF OneStream, ReadsBelow
<1> QED BY <1>2, <1>5, <1>6, <1>7, <1>8 DEF OneStream

\* The client reads an answer: it is the one of its last request.
LEMMA ReadAnswerKeeps ==
    ASSUME NEW se, NEW ha, NEW an, NEW wi, NEW re, NEW pc, NEW ms, NEW go, NEW cl, NEW br, NEW du,
           OneStream(se, ha, an, wi, re, pc, ms, go, cl, br, du), re # <<>>, Head(re).kind # "length"
    PROVE  OneStream(se, ha, Append(an, Head(re)), wi, Tail(re), pc, ms, go, cl, br, du)
<1>1. /\ re \in Seq(Replies) /\ an \in Seq(Replies) /\ Len(re) \in Nat /\ Len(an) \in Nat
      /\ Len(se) \in Nat /\ Len(ha) \in Nat
  BY DEF OneStream, Typed
<1>2. PICK h \in Replies : h = Head(re) /\ h = re[1] /\ Len(re) >= 1 /\ h.kind # "length"
  BY <1>1, FirstAndRest
<1>3. /\ Len(ha) = Len(se) /\ Len(an) = Len(se) - 1 /\ ~br
      /\ Len(re) = 1 /\ pc \in {"read", "gone"} /\ IsAnswer(h, Last(se))
  <2>1. /\ Len(ha) = Len(se) /\ Len(an) = Len(se) - 1 /\ ~br
        /\ pc \in {"read", "value", "gone"} /\ Len(re) <= 2
        /\ Len(re) # 2 /\ (Len(re) = 1 => pc # "value")
    BY <1>2 DEF OneStream, Answering
  <2>4. \A n \in Nat : n >= 1 /\ n <= 2 /\ n # 2 => n = 1 /\ 1 \in 1 .. n
    OBVIOUS
  <2>2. Len(re) = 1 /\ 1 \in 1 .. Len(re)
    BY <1>1, <1>2, <2>1, <2>4, Zenon
  <2>3. IsAnswer(h, Last(se))
    BY <1>2, <2>2 DEF OneStream, Answering
  <2> QED BY <2>1, <2>2, <2>3
<1>4. PICK ax \in Seq(Replies), n \in Nat : ax = Append(an, h) /\ n = Len(an)
  <2>1. Append(an, h) \in Seq(Replies)
    BY <1>1, <1>2
  <2> QED BY <1>1, <2>1, Zenon
<1>5. /\ ax \in Seq(Replies) /\ Len(ax) = n + 1 /\ ax[n + 1] = h /\ Len(se) = n + 1 /\ Len(ha) = n + 1
      /\ \A i \in 1 .. n : ax[i] = an[i]
  BY <1>1, <1>3, <1>4
<1>6. Tail(re) = <<>>
  <2>1. Tail(re) \in Seq(Replies) /\ Len(Tail(re)) = 0
    BY <1>1, <1>3, FirstAndRest
  <2>2. \A q \in Seq(Replies) : Len(q) = 0 => q = <<>>
    OBVIOUS
  <2> QED BY <2>1, <2>2
<1>7. Typed(se, ha, ax, wi, <<>>, pc, ms, go)
  BY <1>5 DEF OneStream, Typed
<1>8. Turns(se, ha, ax)
  BY <1>4, <1>5 DEF OneStream, Turns
<1>9. Outstanding(se, ha, ax, wi, pc, ms, cl, br)
  BY <1>3 DEF OneStream, Outstanding
<1>10. Answering(se, ha, ax, wi, <<>>, pc, br)
  BY <1>3 DEF Answering
<1>11. Answered(se, ax)
  <2>1. \A i \in 1 .. n + 1 : i = n + 1 \/ i \in 1 .. n
    OBVIOUS
  <2>2. IsAnswer(ax[n + 1], se[n + 1])
    BY <1>3, <1>5 DEF Last
  <2>3. \A i \in 1 .. n : IsAnswer(ax[i], se[i])
    BY <1>4, <1>5 DEF OneStream, Answered
  <2> QED BY <1>5, <2>1, <2>2, <2>3 DEF Answered
<1>12. OnItsWay(se, ax, wi, <<>>, pc, br)
  BY <1>5 DEF OnItsWay
<1>13. /\ \A k \in Keys : Known(h, k, du[k])
       /\ \A i \in 1 .. n : h.kind = "value" => AtMost(an[i], h.key, h)
  BY <1>2, <1>3, <1>4 DEF OneStream, ReadsBelow
<1>14. \A i \in 1 .. n + 1 : i = n + 1 \/ i \in 1 .. n
  BY <1>4
<1>15. ReadsBelow(ax, <<>>, pc, ms, go, du)
  <2>1. \A i \in 1 .. n : \A k \in Keys : Known(an[i], k, du[k])
    BY <1>4 DEF OneStream, ReadsBelow
  <2> QED BY <1>3, <1>5, <1>13, <1>14, <2>1, SMTT(30) DEF ReadsBelow
<1>16. InOrder(ax)
  <2> SUFFICES ASSUME NEW i \in 1 .. n + 1, NEW j \in 1 .. n + 1, i < j, ax[j].kind = "value"
               PROVE  AtMost(ax[i], ax[j].key, ax[j])
    BY <1>5 DEF InOrder
  <2>1. i \in 1 .. n
    BY <1>4
  <2>2. CASE j = n + 1
    BY <1>5, <1>13, <2>1, <2>2
  <2>3. CASE j \in 1 .. n
    BY <1>4, <1>5, <2>1, <2>3 DEF OneStream, InOrder
  <2> QED BY <1>14, <2>2, <2>3
<1> QED BY <1>2, <1>4, <1>6, <1>7, <1>8, <1>9, <1>10, <1>11, <1>12, <1>15, <1>16 DEF OneStream

LEMMA CloseKeeps ==
    ASSUME NEW se, NEW ha, NEW an, NEW wi, NEW re, NEW pc, NEW ms, NEW go, NEW cl, NEW br, NEW du,
           OneStream(se, ha, an, wi, re, pc, ms, go, cl, br, du)
    PROVE  OneStream(se, ha, an, wi, re, pc, ms, go, TRUE, br, du)
BY DEF OneStream, Outstanding

\* The connection is gone and so is what was on its way.
LEMMA LostKeeps ==
    ASSUME NEW se, NEW ha, NEW an, NEW wi, NEW re, NEW pc, NEW ms, NEW go, NEW cl, NEW br, NEW du,
           OneStream(se, ha, an, wi, re, pc, ms, go, cl, br, du)
    PROVE  OneStream(se, ha, an, <<>>, <<>>, pc, ms, go, cl, TRUE, du)
<1>1. Typed(se, ha, an, <<>>, <<>>, pc, ms, go)
  BY DEF OneStream, Typed
<1>2. Outstanding(se, ha, an, <<>>, pc, ms, cl, TRUE)
  BY DEF OneStream, Outstanding
<1>3. Answering(se, ha, an, <<>>, <<>>, pc, TRUE) /\ OnItsWay(se, an, <<>>, <<>>, pc, TRUE)
  BY DEF Answering, OnItsWay
<1>4. ReadsBelow(an, <<>>, pc, ms, go, du)
  BY DEF OneStream, ReadsBelow
<1> QED BY <1>1, <1>2, <1>3, <1>4 DEF OneStream

\* What stream.Read returns of a frame is an error to Decode, or all of it.
LEMMA WholeOrNothing ==
    ASSUME NEW m \in Requests, NEW w, w = Encode(m), NEW n \in 1 .. Len(w)
    PROVE  /\ Decode(SubSeq(w, 1, n)) \in {Err, Ok(m)}
           /\ Decode(SubSeq(w, 1, n)) = Ok(m) => SubSeq(w, n + 1, Len(w)) = <<>>
<1>1. m \in Message /\ MsgLen(m) < Modulus
  BY RequestTyped
<1>2. w \in Seq(Bytes) /\ Len(w) = MsgLen(m) /\ Len(w) \in Nat
  BY FrameOf
<1>3. PICK f \in Seq(Bytes) : f = SubSeq(w, 1, n) /\ Len(f) = n /\ \A i \in 1 .. n : f[i] = w[i]
  <2>1. n \in Nat /\ 0 + n <= Len(w) /\ 1 = 0 + 1 /\ n = 0 + n
    BY <1>2
  <2>2. 0 \in Nat
    OBVIOUS
  <2>3. CutOf(w, 0, n, SubSeq(w, 1, n))
    BY <1>2, <2>1, <2>2, Cut
  <2>4. \A i \in 1 .. n : 0 + i = i
    OBVIOUS
  <2> QED BY <2>3, <2>4 DEF CutOf
<1>4. \A i \in 1 .. MsgLen(m) : i <= Len(f) => f[i] = Encode(m)[i]
  <2> SUFFICES ASSUME NEW i \in 1 .. MsgLen(m), i <= Len(f) PROVE f[i] = Encode(m)[i]
    OBVIOUS
  <2>1. i \in 1 .. n
    BY <1>2, <1>3
  <2> QED BY <1>3, <2>1
<1>5. Decode(f) = IF Len(f) < MsgLen(m) THEN Err ELSE Ok(m)
  BY <1>1, <1>4, DecodeOfEncode
<1>6. Err # Ok(m)
  BY DEF Err, Ok
<1>7. ASSUME ~(Len(f) < MsgLen(m)) PROVE SubSeq(w, n + 1, Len(w)) = <<>>
  <2>1. PICK l \in Nat : l = Len(w)
    BY <1>2
  <2>2. n = l
    BY <1>2, <1>3, <1>7, <2>1
  <2>3. l + 1 > l
    BY <2>1
  <2> QED BY <1>2, <2>1, <2>2, <2>3, SubSeqProperties
<1> QED BY <1>3, <1>5, <1>6, <1>7

LEMMA ReadKeeps ==
    ASSUME NEW se, NEW ha, NEW an, NEW wi, NEW re, NEW pc, NEW ms, NEW go, NEW cl, NEW br, NEW du,
           OneStream(se, ha, an, wi, re, pc, ms, go, cl, br, du), pc = "read",
           NEW n \in 1 .. Len(wi), NEW r, r = Decode(SubSeq(wi, 1, n))
    PROVE  OneStream(se, ha, an, SubSeq(wi, n + 1, Len(wi)), re,
                     Dispatch(r), IF r.ok THEN r.msg ELSE NoMsg, go, cl, br, du)
<1>1. /\ wi \in Seq(Bytes) /\ Len(wi) \in Nat /\ wi # <<>>
      /\ se \in Seq(Requests) /\ Len(se) \in Nat /\ Len(ha) \in Nat
  BY DEF OneStream, Typed
<1>2. ~br /\ Len(ha) = Len(se) - 1 /\ wi = Encode(Last(se))
  BY <1>1 DEF OneStream, Outstanding
<1>3. Last(se) \in Requests
  <2>1. Len(se) >= 1
    BY <1>1, <1>2
  <2> QED BY <1>1, <2>1, LastTyped
<1>4. /\ r \in {Err, Ok(Last(se))}
      /\ r = Ok(Last(se)) => SubSeq(wi, n + 1, Len(wi)) = <<>>
  BY <1>2, <1>3, WholeOrNothing
<1>5. PICK wx \in Seq(Bytes) : wx = SubSeq(wi, n + 1, Len(wi))
  <2>1. \A i \in n + 1 .. Len(wi) : wi[i] \in Bytes
    BY <1>1
  <2>2. n + 1 \in Int /\ Len(wi) \in Int
    BY <1>1
  <2>3. SubSeq(wi, n + 1, Len(wi)) \in Seq(Bytes)
    BY <2>1, <2>2, SubSeqProperties
  <2> QED BY <2>3
<1>6. re = <<>>
  BY <1>1, <1>2 DEF OneStream, Answering
<1>7. PICK px, mx : px = Dispatch(r) /\ mx = IF r.ok THEN r.msg ELSE NoMsg
  OBVIOUS
<1>8. \/ px = "gone" /\ (mx = NoMsg \/ mx = Last(se))
      \/ px = "write" /\ mx = Last(se) /\ mx.handler = WriteHandlerType /\ wx = <<>>
      \/ px = "get" /\ mx = Last(se) /\ mx.handler = ReadHandlerType /\ wx = <<>>
  <2>1. CASE r = Err
    BY <1>7, <2>1 DEF Err, Dispatch
  <2>2. CASE r = Ok(Last(se))
    <3>4. r.ok /\ r.msg = Last(se)
      BY <2>2 DEF Ok
    <3>1. r.ok /\ r.msg = Last(se) /\ wx = <<>>
      BY <1>4, <1>5, <2>2, <3>4, Zenon
    <3>2. mx = Last(se)
      BY <1>7, <3>1
    <3>3. \/ px = "write" /\ Last(se).handler = WriteHandlerType
          \/ px = "get" /\ Last(se).handler = ReadHandlerType
          \/ px = "gone"
      BY <1>7, <3>1 DEF Dispatch
    <3> QED BY <3>1, <3>2, <3>3
  <2> QED BY <1>4, <2>1, <2>2
<1>9. Typed(se, ha, an, wx, re, px, mx, go)
  BY <1>3, <1>5, <1>8 DEF OneStream, Typed
<1>10. Len(ha) # Len(se)
  BY <1>1, <1>2
<1>11. Outstanding(se, ha, an, wx, px, mx, cl, br)
  BY <1>2, <1>8, <1>10 DEF Outstanding
<1>12. Answering(se, ha, an, wx, re, px, br)
  BY <1>2, <1>6, <1>8 DEF Answering
<1>13. OnItsWay(se, an, wx, re, px, br)
  BY <1>8 DEF OnItsWay
<1>14. ReadsBelow(an, re, px, mx, go, du)
  BY <1>6, <1>8 DEF OneStream, ReadsBelow
<1> QED BY <1>5, <1>7, <1>9, <1>11, <1>12, <1>13, <1>14 DEF OneStream

\* The loop of handleStream ends at an error of stream.Read.
LEMMA ReadErrorKeeps ==
    ASSUME NEW se, NEW ha, NEW an, NEW wi, NEW re, NEW pc, NEW ms, NEW go, NEW cl, NEW br, NEW du,
           OneStream(se, ha, an, wi, re, pc, ms, go, cl, br, du), pc = "read", cl \/ br
    PROVE  OneStream(se, ha, an, <<>>, re, "gone", ms, go, cl, br, du)
<1>1. Typed(se, ha, an, <<>>, re, "gone", ms, go)
  BY DEF OneStream, Typed
<1>2. Outstanding(se, ha, an, <<>>, "gone", ms, cl, br) /\ OnItsWay(se, an, <<>>, re, "gone", br)
  BY DEF Outstanding, OnItsWay
<1>3. Answering(se, ha, an, <<>>, re, "gone", br)
  BY DEF OneStream, Answering
<1>4. ReadsBelow(an, re, "gone", ms, go, du)
  BY DEF OneStream, ReadsBelow
<1> QED BY <1>1, <1>2, <1>3, <1>4 DEF OneStream

\* A handler has the one outstanding request and nothing else is under way.
LEMMA HandlingOne ==
    ASSUME NEW se, NEW ha, NEW an, NEW wi, NEW re, NEW pc, NEW ms, NEW go, NEW cl, NEW br, NEW du,
           OneStream(se, ha, an, wi, re, pc, ms, go, cl, br, du), pc \in {"write", "get", "ack", "value"}
    PROVE  /\ wi = <<>> /\ ms = Last(se) /\ ms \in Requests /\ ms.key \in Keys
           /\ Len(se) \in Nat \ {0} /\ Len(an) = Len(se) - 1
           /\ pc \in {"write", "get"} => Len(ha) = Len(se) - 1 /\ re = <<>>
           /\ pc \in {"ack", "value"} => Len(ha) = Len(se)
           /\ pc = "ack" => re = <<>>
<1>1. /\ se \in Seq(Requests) /\ Len(se) \in Nat /\ Len(ha) \in Nat /\ Len(an) \in Nat
  BY DEF OneStream, Typed
<1>2. wi = <<>> /\ ms = Last(se)
  BY DEF OneStream, Outstanding
<1>3. /\ pc \in {"write", "get"} => Len(ha) = Len(se) - 1
      /\ pc \in {"ack", "value"} => Len(ha) = Len(se) /\ Len(an) = Len(se) - 1
  BY DEF OneStream, Outstanding
<1>4. Len(an) <= Len(ha) /\ Len(se) <= Len(an) + 1
  BY DEF OneStream, Turns
<1>5. Len(an) = Len(se) - 1 /\ Len(se) >= 1
  BY <1>1, <1>3, <1>4
<1>6. ms \in Requests /\ ms.key \in Keys
  BY <1>1, <1>2, <1>5, LastTyped, RequestTyped
<1>7. pc \in {"write", "get"} => re = <<>>
  BY <1>1, <1>3 DEF OneStream, Answering
<1>8. pc = "ack" => re = <<>>
  BY DEF OneStream, Answering
<1> QED BY <1>1, <1>2, <1>3, <1>5, <1>6, <1>7, <1>8

\* The handler has taken effect on the last request, and its answer has not
\* reached the client.
Served(se, ha, an, wi, re, pc, ms, go, du) ==
    /\ Typed(se, ha, an, wi, re, pc, ms, go) /\ Turns(se, ha, an)
    /\ Answered(se, an) /\ InOrder(an)
    /\ \A i \in 1 .. Len(an) : \A k \in Keys : Known(an[i], k, du[k])
    /\ Len(se) \in Nat /\ Len(ha) = Len(se) /\ Len(an) = Len(se) - 1 /\ wi = <<>>

LEMMA ServedByHandler ==
    ASSUME NEW se, NEW ha, NEW an, NEW wi, NEW re, NEW pc, NEW ms, NEW go, NEW cl, NEW br, NEW du,
           OneStream(se, ha, an, wi, re, pc, ms, go, cl, br, du), pc \in {"write", "get"}
    PROVE  Served(se, Append(ha, ms), an, wi, re, pc, ms, go, du)
<1>1. /\ wi = <<>> /\ ms = Last(se) /\ ms \in Requests
      /\ Len(se) \in Nat \ {0} /\ Len(an) = Len(se) - 1 /\ Len(ha) = Len(se) - 1
  BY HandlingOne
<1>2. ha \in Seq(Requests \cup {NoMsg})
  BY DEF OneStream, Typed
<1>3. PICK n \in Nat : n = Len(ha) /\ Len(se) = n + 1 /\ Len(an) = n
  BY <1>1
<1>4. PICK hx : hx = Append(ha, ms)
  OBVIOUS
<1>5. /\ hx \in Seq(Requests \cup {NoMsg}) /\ Len(hx) = n + 1 /\ hx[n + 1] = ms
      /\ \A i \in 1 .. n : hx[i] = ha[i]
  BY <1>1, <1>2, <1>3, <1>4
<1>6. \A i \in 1 .. n : ha[i] = se[i]
  BY <1>3 DEF OneStream, Turns
<1>7. ms = se[n + 1]
  BY <1>1, <1>3 DEF Last
<1>8. \A i \in 1 .. n + 1 : i = n + 1 \/ i \in 1 .. n
  BY <1>3
<1>9. \A i \in 1 .. Len(hx) : hx[i] = se[i]
  BY <1>5, <1>6, <1>7, <1>8
<1>10. Len(se) <= MaxMsgs
  BY DEF OneStream, Turns
<1>11. Turns(se, hx, an)
  BY <1>3, <1>5, <1>9, <1>10 DEF Turns
<1>12. Typed(se, hx, an, wi, re, pc, ms, go)
  BY <1>5 DEF OneStream, Typed
<1>13. \A i \in 1 .. Len(an) : \A k \in Keys : Known(an[i], k, du[k])
  BY DEF OneStream, ReadsBelow
<1> QED BY <1>1, <1>3, <1>4, <1>5, <1>11, <1>12, <1>13 DEF OneStream, Served

LEMMA ServedBefore ==
    ASSUME NEW se, NEW ha, NEW an, NEW wi, NEW re, NEW pc, NEW ms, NEW go, NEW cl, NEW br, NEW du,
           OneStream(se, ha, an, wi, re, pc, ms, go, cl, br, du), pc \in {"ack", "value"}
    PROVE  Served(se, ha, an, wi, re, pc, ms, go, du)
<1>1. \A i \in 1 .. Len(an) : \A k \in Keys : Known(an[i], k, du[k])
  BY DEF OneStream, ReadsBelow
<1> QED BY <1>1, HandlingOne DEF OneStream, Served

\* What the goroutine writes is lost on a broken connection.
LEMMA OneReply ==
    ASSUME NEW a \in Replies, NEW br
    PROVE  /\ br => (IF br THEN <<>> ELSE <<>> \o <<a>>) = <<>>
           /\ ~br => (IF br THEN <<>> ELSE <<>> \o <<a>>) = <<a>>
<1>1. <<a>> \in Seq(Replies)
  OBVIOUS
<1>2. <<>> \o <<a>> = <<a>>
  BY <1>1, ConcatEmptySeq
<1> QED BY <1>2

\* The handler ends with an answer in one piece that is no value.
LEMMA AnswerKeeps ==
    ASSUME NEW se, NEW ha, NEW an, NEW wi, NEW re, NEW pc, NEW ms, NEW go, NEW cl, NEW br, NEW du,
           Served(se, ha, an, wi, re, pc, ms, go, du), re = <<>>,
           NEW g \in Stored, NEW a \in Replies, a.kind \notin {"value", "length"}, IsAnswer(a, Last(se))
    PROVE  OneStream(se, ha, an, wi, IF br THEN re ELSE re \o <<a>>, "read", ms, g, cl, br, du)
<1>1. PICK rx : rx = IF br THEN re ELSE re \o <<a>>
  OBVIOUS
<1>2. (br => rx = <<>>) /\ (~br => rx = <<a>>)
  BY <1>1, OneReply
<1>3. rx = <<>> \/ rx = <<a>>
  BY <1>2
<1>4. Len(se) \in Nat /\ Len(ha) = Len(se) /\ Len(an) = Len(se) - 1 /\ wi = <<>>
  BY DEF Served
<1>5. rx \in Seq(Replies) /\ Len(rx) <= 1 /\ \A i \in 1 .. Len(rx) : rx[i] = a
  <2>1. CASE rx = <<>>
    BY <2>1
  <2>2. CASE rx = <<a>>
    BY <2>2
  <2> QED BY <1>3, <2>1, <2>2
<1>6. Typed(se, ha, an, wi, rx, "read", ms, g)
  BY <1>5 DEF Served, Typed
<1>7. Outstanding(se, ha, an, wi, "read", ms, cl, br)
  BY <1>4 DEF Outstanding
<1>8. Answering(se, ha, an, wi, rx, "read", br)
  <2>1. CASE rx = <<>>
    BY <1>4, <2>1 DEF Answering
  <2>2. CASE rx = <<a>>
    <3>1. Len(rx) = 1 /\ rx[1] = a
      BY <2>2
    <3> QED BY <1>2, <1>4, <1>5, <3>1 DEF Answering
  <2> QED BY <1>3, <2>1, <2>2
<1>9. OnItsWay(se, an, wi, rx, "read", br)
  <2>1. <<a>> # <<>>
    OBVIOUS
  <2> QED BY <1>2, <2>1 DEF OnItsWay
<1>10. ReadsBelow(an, rx, "read", ms, g, du)
  BY <1>5 DEF Served, ReadsBelow, Known
<1> QED BY <1>1, <1>6, <1>7, <1>8, <1>9, <1>10 DEF Served, OneStream

LEMMA HandleWriteKeeps ==
    ASSUME NEW se, NEW ha, NEW an, NEW wi, NEW re, NEW pc, NEW ms, NEW go, NEW cl, NEW br, NEW du,
           OneStream(se, ha, an, wi, re, pc, ms, go, cl, br, du), pc = "write"
    PROVE  OneStream(se, Append(ha, ms), an, wi, re, "ack", ms, go, cl, br, du)
<1>1. PICK hx : hx = Append(ha, ms)
  OBVIOUS
<1>2. Served(se, hx, an, wi, re, pc, ms, go, du)
  BY <1>1, ServedByHandler
<1>3. ms = Last(se) /\ re = <<>>
  BY HandlingOne
<1>4. ms.handler = WriteHandlerType
  BY DEF OneStream, Outstanding
<1>5. Typed(se, hx, an, wi, re, "ack", ms, go)
  BY <1>2 DEF Served, Typed
<1>6. Outstanding(se, hx, an, wi, "ack", ms, cl, br)
  BY <1>2, <1>3, <1>4 DEF Served, Outstanding
<1>7. Answering(se, hx, an, wi, re, "ack", br) /\ OnItsWay(se, an, wi, re, "ack", br)
  BY <1>2, <1>3 DEF Served, Answering, OnItsWay
<1>8. ReadsBelow(an, re, "ack", ms, go, du)
  BY <1>2, <1>3 DEF Served, ReadsBelow
<1> QED BY <1>1, <1>2, <1>5, <1>6, <1>7, <1>8 DEF Served, OneStream

LEMMA WriteAckKeeps ==
    ASSUME NEW se, NEW ha, NEW an, NEW wi, NEW re, NEW pc, NEW ms, NEW go, NEW cl, NEW br, NEW du,
           OneStream(se, ha, an, wi, re, pc, ms, go, cl, br, du), pc = "ack"
    PROVE  OneStream(se, ha, an, wi, IF br THEN re ELSE re \o <<[kind |-> "ack"]>>, "read", ms, go, cl, br, du)
<1>1. Served(se, ha, an, wi, re, pc, ms, go, du) /\ re = <<>> /\ ms = Last(se) /\ go \in Stored
  <2>1. Served(se, ha, an, wi, re, pc, ms, go, du)
    BY ServedBefore
  <2>2. re = <<>> /\ ms = Last(se)
    BY HandlingOne
  <2> QED BY <2>1, <2>2 DEF OneStream, Typed
<1>2. ms.handler = WriteHandlerType
  BY DEF OneStream, Outstanding
<1>3. PICK a : a = [kind |-> "ack"]
  OBVIOUS
<1>4. a \in Replies /\ a.kind = "ack"
  BY <1>3 DEF Replies
<1>5. IsAnswer(a, Last(se))
  BY <1>1, <1>2, <1>4 DEF IsAnswer, Answers
<1> QED BY <1>1, <1>3, <1>4, <1>5, AnswerKeeps

\* db.Get has failed, or has found an empty value.
LEMMA ReadNothingKeeps ==
    ASSUME NEW se, NEW ha, NEW an, NEW wi, NEW re, NEW pc, NEW ms, NEW go, NEW cl, NEW br, NEW du,
           OneStream(se, ha, an, wi, re, pc, ms, go, cl, br, du), pc = "get",
           NEW g \in Stored, NEW kd \in {"error", "none"}
    PROVE  OneStream(se, Append(ha, ms), an, wi, IF br THEN re ELSE re \o <<[kind |-> kd]>>,
                     "read", ms, g, cl, br, du)
<1>1. Served(se, Append(ha, ms), an, wi, re, pc, ms, go, du)
  BY ServedByHandler
<1>2. re = <<>> /\ ms = Last(se)
  BY HandlingOne
<1>3. ms.handler = ReadHandlerType
  BY DEF OneStream, Outstanding
<1>4. PICK a : a = [kind |-> kd]
  OBVIOUS
<1>5. a \in Replies /\ a.kind = kd
  BY <1>4 DEF Replies
<1>6. IsAnswer(a, Last(se))
  BY <1>2, <1>3, <1>5, HandlersAssumption DEF IsAnswer, Answers
<1>7. a.kind \notin {"value", "length"}
  BY <1>5
<1> QED BY <1>1, <1>2, <1>4, <1>5, <1>6, <1>7, AnswerKeeps

\* db.Get has found g, what is stored.
LEMMA ReadFoundKeeps ==
    ASSUME NEW se, NEW ha, NEW an, NEW wi, NEW re, NEW pc, NEW ms, NEW go, NEW cl, NEW br, NEW du,
           OneStream(se, ha, an, wi, re, pc, ms, go, cl, br, du), pc = "get",
           NEW g \in Stored, g = du[ms.key], g.num \in {0, g.last}
    PROVE  OneStream(se, Append(ha, ms), an, wi, IF br THEN re ELSE re \o <<[kind |-> "length"]>>,
                     IF br THEN "read" ELSE "value", ms, g, cl, br, du)
<1>1. PICK hx, rx, px, a : /\ hx = Append(ha, ms) /\ a = [kind |-> "length"]
                           /\ rx = IF br THEN re ELSE re \o <<a>>
                           /\ px = IF br THEN "read" ELSE "value"
  OBVIOUS
<1>2. Served(se, hx, an, wi, re, pc, ms, go, du)
  BY <1>1, ServedByHandler
<1>3. re = <<>> /\ ms = Last(se) /\ ms.key \in Keys
  BY HandlingOne
<1>4. ms.handler = ReadHandlerType
  BY DEF OneStream, Outstanding
<1>5. a \in Replies /\ a.kind = "length"
  BY <1>1 DEF Replies
<1>6. (br => rx = <<>> /\ px = "read") /\ (~br => rx = <<a>> /\ px = "value")
  BY <1>1, <1>3, <1>5, OneReply
<1>7. Len(se) \in Nat /\ Len(hx) = Len(se) /\ Len(an) = Len(se) - 1 /\ wi = <<>>
  BY <1>2 DEF Served
<1>8. \A i \in 1 .. Len(an) : \A k \in Keys : Known(an[i], k, du[k])
  BY <1>2 DEF Served
<1>9. \A i \in 1 .. Len(an) : AtMost(an[i], ms.key, g)
  BY <1>3, <1>8 DEF Known, AtMost, UpTo
<1>13. UpTo(g, du[ms.key])
  BY DEF UpTo, Before, Stored
<1>10. CASE br
  <2>1. Typed(se, hx, an, wi, rx, px, ms, g)
    BY <1>2, <1>6, <1>10 DEF Served, Typed
  <2>2. Outstanding(se, hx, an, wi, px, ms, cl, br) /\ Answering(se, hx, an, wi, rx, px, br)
    BY <1>6, <1>7, <1>10 DEF Outstanding, Answering
  <2>3. OnItsWay(se, an, wi, rx, px, br) /\ ReadsBelow(an, rx, px, ms, g, du)
    BY <1>6, <1>8, <1>10 DEF OnItsWay, ReadsBelow
  <2> QED BY <1>1, <1>2, <2>1, <2>2, <2>3 DEF Served, OneStream
<1>11. CASE ~br
  <2>0. rx = <<a>> /\ px = "value"
    BY <1>6, <1>11
  <2>1. rx = <<a>> /\ px = "value" /\ Len(rx) = 1 /\ rx[1] = a /\ rx \in Seq(Replies)
    BY <1>5, <2>0
  <2>2. Typed(se, hx, an, wi, rx, px, ms, g)
    BY <1>2, <2>1 DEF Served, Typed
  <2>3. Outstanding(se, hx, an, wi, px, ms, cl, br)
    BY <1>3, <1>4, <1>7, <2>1 DEF Outstanding
  <2>4. \A i \in 1 .. Len(rx) : rx[i] = a
    BY <2>1
  <2>5. Answering(se, hx, an, wi, rx, px, br)
    BY <1>5, <1>7, <1>11, <2>1, <2>4 DEF Answering
  <2>6. OnItsWay(se, an, wi, rx, px, br)
    BY <2>1 DEF OnItsWay
  <2>7. ReadsBelow(an, rx, px, ms, g, du)
    BY <1>5, <1>8, <1>9, <1>13, <2>4 DEF ReadsBelow, AtMost, Known
  <2> QED BY <1>1, <1>2, <2>2, <2>3, <2>5, <2>6, <2>7 DEF Served, OneStream
<1> QED BY <1>10, <1>11

\* The value follows its length, whatever was committed in between.
LEMMA WriteValueKeeps ==
    ASSUME NEW se, NEW ha, NEW an, NEW wi, NEW re, NEW pc, NEW ms, NEW go, NEW cl, NEW br, NEW du,
           OneStream(se, ha, an, wi, re, pc, ms, go, cl, br, du), pc = "value"
    PROVE  OneStream(se, ha, an, wi,
                     IF br THEN re
                     ELSE re \o <<[kind |-> "value", key |-> ms.key, num |-> go.num,
                                    others |-> go.others, value |-> go.value]>>,
                     "read", ms, go, cl, br, du)
<1>1. PICK a, rx : /\ a = [kind |-> "value", key |-> ms.key, num |-> go.num,
                         others |-> go.others, value |-> go.value]
                   /\ rx = IF br THEN re ELSE re \o <<a>>
  OBVIOUS
<1>2. Served(se, ha, an, wi, re, pc, ms, go, du)
  BY ServedBefore
<1>3. ms = Last(se) /\ ms.key \in Keys
  BY HandlingOne
<1>4. ms.handler = ReadHandlerType
  BY DEF OneStream, Outstanding
<1>5. go \in Stored /\ re \in Seq(Replies) /\ Len(re) \in Nat
  BY DEF OneStream, Typed
<1>6. /\ a \in Replies /\ a.kind = "value" /\ a.key = ms.key
      /\ a.num = go.num /\ a.others = go.others
  BY <1>1, <1>3, <1>5 DEF Replies, Stored
<1>7. IsAnswer(a, Last(se))
  BY <1>3, <1>4, <1>6, HandlersAssumption DEF IsAnswer, Answers
<1>8. Len(se) \in Nat /\ Len(ha) = Len(se) /\ Len(an) = Len(se) - 1 /\ wi = <<>>
  BY <1>2 DEF Served
<1>9. /\ UpTo(go, du[ms.key])
      /\ \A i \in 1 .. Len(an) : AtMost(an[i], ms.key, go)
      /\ \A i \in 1 .. Len(an) : \A k \in Keys : Known(an[i], k, du[k])
  BY DEF OneStream, ReadsBelow
<1>10. Outstanding(se, ha, an, wi, "read", ms, cl, br)
  BY <1>8 DEF Outstanding
<1>11. CASE br
  <2>1. rx = <<>>
    BY <1>1, <1>11 DEF OneStream, Answering
  <2>2. Typed(se, ha, an, wi, rx, "read", ms, go)
    BY <1>2, <2>1 DEF Served, Typed
  <2>3. Answering(se, ha, an, wi, rx, "read", br) /\ OnItsWay(se, an, wi, rx, "read", br)
    BY <1>8, <1>11, <2>1 DEF Answering, OnItsWay
  <2>4. ReadsBelow(an, rx, "read", ms, go, du)
    BY <1>9, <2>1 DEF ReadsBelow
  <2> QED BY <1>1, <1>2, <1>10, <2>2, <2>3, <2>4 DEF Served, OneStream
<1>12. CASE ~br
  <2>1. PICK l \in Nat : l = Len(re) /\ l <= 1 /\ (l = 1 => re[1].kind = "length")
    BY <1>5 DEF OneStream, Answering
  <2>2. /\ rx \in Seq(Replies) /\ Len(rx) = l + 1 /\ rx[l + 1] = a
        /\ \A i \in 1 .. l : rx[i] = re[i]
    BY <1>1, <1>5, <1>6, <1>12, <2>1
  <2>3. \A i \in 1 .. l + 1 : i = l + 1 \/ (i = 1 /\ l = 1)
    BY <2>1
  <2>4. \A i \in 1 .. Len(rx) : rx[i] = a \/ (i = 1 /\ l = 1 /\ rx[i].kind = "length")
    BY <2>1, <2>2, <2>3
  <2>5. Typed(se, ha, an, wi, rx, "read", ms, go)
    BY <1>2, <2>2 DEF Served, Typed
  <2>6. Answering(se, ha, an, wi, rx, "read", br)
    <3>1. CASE l = 0
      <4>1. Len(rx) = 1 /\ rx[1] = a
        BY <2>2, <3>1
      <4> QED BY <1>6, <1>7, <1>8, <1>12, <2>4, <4>1 DEF Answering
    <3>2. CASE l = 1
      <4>1. Len(rx) = 2 /\ rx[1].kind = "length" /\ rx[2] = a
        BY <2>1, <2>2, <3>2
      <4> QED BY <1>6, <1>7, <1>8, <1>12, <2>4, <4>1 DEF Answering
    <3> QED BY <2>1, <3>1, <3>2
  <2>7. OnItsWay(se, an, wi, rx, "read", br)
    <3>1. rx # <<>>
      BY <2>1, <2>2
    <3> QED BY <3>1 DEF OnItsWay
  <2>8. ReadsBelow(an, rx, "read", ms, go, du)
    <3>0. UpTo(a, du[ms.key]) /\ \A i \in 1 .. Len(an) : AtMost(an[i], ms.key, a)
      BY <1>6, <1>9 DEF AtMost, UpTo, Before
    <3>1. \A j \in 1 .. Len(rx) : \A k \in Keys : Known(rx[j], k, du[k])
      BY <1>6, <2>4, <3>0 DEF Known
    <3>2. \A i \in 1 .. Len(an), j \in 1 .. Len(rx) :
            rx[j].kind = "value" => AtMost(an[i], rx[j].key, rx[j])
      BY <1>6, <2>4, <3>0
    <3> QED BY <1>9, <3>1, <3>2 DEF ReadsBelow
  <2> QED BY <1>1, <1>2, <1>10, <2>5, <2>6, <2>7, <2>8 DEF Served, OneStream
<1> QED BY <1>11, <1>12

\* What may be read after a may be replaced.
LEMMA AdvanceKeeps ==
    ASSUME NEW a, a.num \in Nat, a.others \in Nat, NEW d \in Stored, NEW e \in Stored,
           UpTo(a, d), Advance(d, e)
    PROVE  UpTo(a, e)
<1>1. d.last \in Nat /\ d.num \in Nat /\ d.others \in Nat /\ e.last \in Nat /\ e.num \in Nat /\ e.others \in Nat
  BY DEF Stored
<1>2. CASE e = d
  BY <1>2
<1>3. CASE e.others = d.others /\ e.num = e.last /\ d.last < e.last
  BY <1>1, <1>3 DEF UpTo, Before
<1>4. CASE e.others > d.others /\ e.num = 0 /\ d.last = e.last
  BY <1>1, <1>4 DEF UpTo, Before
<1> QED BY <1>2, <1>3, <1>4 DEF Advance

\* A commit is newer, or of another transport.
LEMMA CommitKeeps ==
    ASSUME NEW se, NEW ha, NEW an, NEW wi, NEW re, NEW pc, NEW ms, NEW go, NEW cl, NEW br, NEW du, NEW dx,
           OneStream(se, ha, an, wi, re, pc, ms, go, cl, br, du),
           \A k \in Keys : du[k] \in Stored /\ dx[k] \in Stored /\ Advance(du[k], dx[k])
    PROVE  OneStream(se, ha, an, wi, re, pc, ms, go, cl, br, dx)
<1>1. ASSUME NEW r \in Replies, NEW k \in Keys, Known(r, k, du[k])
      PROVE  Known(r, k, dx[k])
  <2> SUFFICES ASSUME r.kind = "value", r.key = k PROVE UpTo(r, dx[k])
    BY DEF Known
  <2>1. r.num \in Nat /\ r.others \in Nat /\ UpTo(r, du[k])
    BY <1>1 DEF Replies, Known
  <2> QED BY <2>1, AdvanceKeeps
<1>2. /\ \A j \in 1 .. Len(re) : re[j] \in Replies
      /\ \A i \in 1 .. Len(an) : an[i] \in Replies
  BY DEF OneStream, Typed
<1>3. pc = "value" => ms.key \in Keys /\ go \in Stored
  BY HandlingOne DEF OneStream, Typed
<1>4. pc = "value" => UpTo(go, dx[ms.key])
  <2> SUFFICES ASSUME pc = "value" PROVE UpTo(go, dx[ms.key])
    OBVIOUS
  <2>1. UpTo(go, du[ms.key]) /\ go.num \in Nat /\ go.others \in Nat
    BY <1>3 DEF OneStream, ReadsBelow, Stored
  <2> QED BY <1>3, <2>1, AdvanceKeeps
<1>5. /\ \A j \in 1 .. Len(re) : \A k \in Keys : Known(re[j], k, dx[k])
      /\ \A i \in 1 .. Len(an) : \A k \in Keys : Known(an[i], k, dx[k])
  BY <1>1, <1>2 DEF OneStream, ReadsBelow
<1>6. ReadsBelow(an, re, pc, ms, go, dx)
  BY <1>4, <1>5 DEF OneStream, ReadsBelow
<1> QED BY <1>6 DEF OneStream

-----------------------------------------------------------------------------
(* The steps of the clients and of handleStream are about one stream each.  *)

Function(f) == f = [t \in Streams |-> f[t]]

\* g differs from f at s at most.
Only(f, g, s) == g = [t \in Streams |-> IF t = s THEN g[s] ELSE f[t]]

LEMMA OnlyExcept ==
    ASSUME NEW f, Function(f), NEW s \in Streams, NEW e, NEW g, g = [f EXCEPT ![s] = e]
    PROVE  Only(f, g, s) /\ g[s] = e
BY DEF Function, Only

LEMMA OnlySame ==
    ASSUME NEW f, Function(f), NEW s \in Streams, NEW g, g = f
    PROVE  Only(f, g, s) /\ g[s] = f[s]
BY DEF Function, Only

LEMMA OnlyTyped ==
    ASSUME NEW f, NEW g, NEW S, f \in [Streams -> S], NEW s \in Streams, Only(f, g, s), g[s] \in S
    PROVE  g \in [Streams -> S]
BY DEF Only

LEMMA OnlyOther ==
    ASSUME NEW f, NEW g, NEW s \in Streams, Only(f, g, s), NEW t \in Streams, t # s
    PROVE  g[t] = f[t]
BY DEF Only

Functions ==
    /\ Function(sent) /\ Function(handled) /\ Function(answers) /\ Function(wire) /\ Function(replies)
    /\ Function(spc) /\ Function(msg) /\ Function(got) /\ Function(closed) /\ Function(broken)

LEMMA StreamFunctions == StreamsTypeOK /\ MsgTyped => Functions
BY DEF StreamsTypeOK, MsgTyped, Functions, Function

OneStreamSteps(s) ==
    /\ Only(sent, sent', s) /\ Only(handled, handled', s) /\ Only(answers, answers', s)
    /\ Only(wire, wire', s) /\ Only(replies, replies', s) /\ Only(spc, spc', s)
    /\ Only(msg, msg', s) /\ Only(got, got', s) /\ Only(closed, closed', s) /\ Only(broken, broken', s)
    /\ closed'[s] \in BOOLEAN /\ broken'[s] \in BOOLEAN /\ stored' = stored

\* So it is enough to look at that stream.
LEMMA OthersKept ==
    ASSUME StreamsTypeOK, MsgTyped, \A t \in Streams : StreamOK(t),
           NEW s \in Streams, OneStreamSteps(s), StreamOK(s)'
    PROVE  /\ MsgTyped' /\ \A t \in Streams : StreamOK(t)'
           /\ sent' \in [Streams -> Seq(Requests)]
           /\ handled' \in [Streams -> Seq(Requests \cup {NoMsg})]
           /\ closed' \in [Streams -> BOOLEAN] /\ broken' \in [Streams -> BOOLEAN]
           /\ got' \in [Streams -> Stored]
           /\ wire' \in [Streams -> Seq(Bytes)]
           /\ spc' \in [Streams -> {"read", "write", "ack", "get", "value", "gone"}]
           /\ replies' \in [Streams -> Seq(Replies)] /\ answers' \in [Streams -> Seq(Replies)]
<1>1. Typed(sent'[s], handled'[s], answers'[s], wire'[s], replies'[s], spc'[s], msg'[s], got'[s])
  BY DEF StreamOK, OneStream
<1>2. sent' \in [Streams -> Seq(Requests)] /\ handled' \in [Streams -> Seq(Requests \cup {NoMsg})]
  BY <1>1, OnlyTyped DEF Typed, StreamsTypeOK, OneStreamSteps
<1>3. closed' \in [Streams -> BOOLEAN] /\ broken' \in [Streams -> BOOLEAN]
  BY OnlyTyped, Zenon DEF StreamsTypeOK, OneStreamSteps
<1>4. got' \in [Streams -> Stored] /\ wire' \in [Streams -> Seq(Bytes)]
  BY <1>1, OnlyTyped DEF Typed, StreamsTypeOK, OneStreamSteps
<1>5. spc' \in [Streams -> {"read", "write", "ack", "get", "value", "gone"}] /\ MsgTyped'
  BY <1>1, OnlyTyped DEF Typed, StreamsTypeOK, MsgTyped, OneStreamSteps
<1>6. replies' \in [Streams -> Seq(Replies)] /\ answers' \in [Streams -> Seq(Replies)]
  BY <1>1, OnlyTyped DEF Typed, StreamsTypeOK, OneStreamSteps
<1>7. ASSUME NEW t \in Streams, t # s PROVE StreamOK(t)'
  <2>1. sent'[t] = sent[t] /\ handled'[t] = handled[t] /\ answers'[t] = answers[t]
    BY <1>7, OnlyOther, ZenonT(30) DEF OneStreamSteps
  <2>2. wire'[t] = wire[t] /\ replies'[t] = replies[t] /\ spc'[t] = spc[t] /\ msg'[t] = msg[t]
    BY <1>7, OnlyOther, ZenonT(30) DEF OneStreamSteps
  <2>3. got'[t] = got[t] /\ closed'[t] = closed[t] /\ broken'[t] = broken[t]
    BY <1>7, OnlyOther, ZenonT(30) DEF OneStreamSteps
  <2>4. StreamOK(t) /\ stored' = stored
    BY DEF OneStreamSteps
  <2> QED BY <2>1, <2>2, <2>3, <2>4, Zenon DEF StreamOK
<1> QED BY <1>2, <1>3, <1>4, <1>5, <1>6, <1>7

LEMMA ClientWriteStep ==
    ASSUME StreamsTypeOK, MsgTyped, NEW s \in Streams, StreamOK(s), NEW m \in Requests, ClientWrite(s, m)
    PROVE  OneStreamSteps(s) /\ StreamOK(s)'
<1>1. Functions /\ closed[s] \in BOOLEAN /\ broken[s] \in BOOLEAN
  BY StreamFunctions, Zenon DEF StreamsTypeOK
<1>2. /\ sent' = [sent EXCEPT ![s] = Append(sent[s], m)]
      /\ wire' = [wire EXCEPT ![s] = wire[s] \o Encode(m)]
      /\ closed' = closed /\ broken' = broken /\ spc' = spc /\ msg' = msg /\ got' = got
      /\ handled' = handled /\ replies' = replies /\ answers' = answers /\ stored' = stored
  BY DEF ClientWrite
<1>3. OneStreamSteps(s)
  BY <1>1, <1>2, OnlyExcept, OnlySame, Zenon DEF Functions, OneStreamSteps
<1>4. sent'[s] = Append(sent[s], m) /\ wire'[s] = wire[s] \o Encode(m)
  BY <1>1, <1>2 DEF Functions, Function
<1>5. ~closed[s] /\ ~broken[s] /\ Len(answers[s]) = Len(sent[s]) /\ Len(sent[s]) < MaxMsgs
  BY DEF ClientWrite
<1>6. OneStream(Append(sent[s], m), handled[s], answers[s], wire[s] \o Encode(m), replies[s],
                spc[s], msg[s], got[s], closed[s], broken[s], stored)
  BY <1>5, WriteKeeps, Zenon DEF StreamOK
<1> QED BY <1>2, <1>3, <1>4, <1>6, Zenon DEF StreamOK

LEMMA ClientReadStep ==
    ASSUME StreamsTypeOK, MsgTyped, NEW s \in Streams, StreamOK(s), ClientRead(s)
    PROVE  OneStreamSteps(s) /\ StreamOK(s)'
<1>1. Functions /\ closed[s] \in BOOLEAN /\ broken[s] \in BOOLEAN
  BY StreamFunctions, Zenon DEF StreamsTypeOK
<1>2. /\ replies' = [replies EXCEPT ![s] = Tail(replies[s])]
      /\ answers' = [answers EXCEPT ![s] = IF Head(replies[s]).kind = "length" THEN answers[s]
                                          ELSE Append(answers[s], Head(replies[s]))]
      /\ sent' = sent /\ closed' = closed /\ broken' = broken /\ wire' = wire /\ spc' = spc
      /\ msg' = msg /\ got' = got /\ handled' = handled /\ stored' = stored
  BY DEF ClientRead
<1>3. OneStreamSteps(s)
  BY <1>1, <1>2, OnlyExcept, OnlySame, Zenon DEF Functions, OneStreamSteps
<1>4. /\ replies'[s] = Tail(replies[s])
      /\ answers'[s] = IF Head(replies[s]).kind = "length" THEN answers[s]
                       ELSE Append(answers[s], Head(replies[s]))
  BY <1>1, <1>2 DEF Functions, Function
<1>5. replies[s] # <<>>
  BY DEF ClientRead
<1>6. CASE Head(replies[s]).kind = "length"
  <2>1. OneStream(sent[s], handled[s], answers[s], wire[s], Tail(replies[s]),
                  spc[s], msg[s], got[s], closed[s], broken[s], stored)
    BY <1>5, <1>6, ReadLengthKeeps, Zenon DEF StreamOK
  <2> QED BY <1>2, <1>3, <1>4, <1>6, <2>1, Zenon DEF StreamOK
<1>7. CASE Head(replies[s]).kind # "length"
  <2>1. OneStream(sent[s], handled[s], Append(answers[s], Head(replies[s])), wire[s], Tail(replies[s]),
                  spc[s], msg[s], got[s], closed[s], broken[s], stored)
    BY <1>5, <1>7, ReadAnswerKeeps, Zenon DEF StreamOK
  <2> QED BY <1>2, <1>3, <1>4, <1>7, <2>1, Zenon DEF StreamOK
<1> QED BY <1>6, <1>7

LEMMA ClientCloseStep ==
    ASSUME StreamsTypeOK, MsgTyped, NEW s \in Streams, StreamOK(s), ClientClose(s)
    PROVE  OneStreamSteps(s) /\ StreamOK(s)'
<1>1. Functions /\ broken[s] \in BOOLEAN
  BY StreamFunctions, Zenon DEF StreamsTypeOK
<1>2. /\ closed' = [closed EXCEPT ![s] = TRUE]
      /\ sent' = sent /\ broken' = broken /\ wire' = wire /\ spc' = spc /\ replies' = replies
      /\ answers' = answers /\ msg' = msg /\ got' = got /\ handled' = handled /\ stored' = stored
  BY DEF ClientClose
<1>3. closed'[s] = TRUE
  BY <1>1, <1>2, Zenon DEF Functions, Function
<1>4. OneStreamSteps(s)
  BY <1>1, <1>2, <1>3, OnlyExcept, OnlySame, Zenon DEF Functions, OneStreamSteps
<1>5. OneStream(sent[s], handled[s], answers[s], wire[s], replies[s],
                spc[s], msg[s], got[s], TRUE, broken[s], stored)
  BY CloseKeeps, Zenon DEF StreamOK
<1> QED BY <1>2, <1>3, <1>4, <1>5, Zenon DEF StreamOK

LEMMA ConnectionLostStep ==
    ASSUME StreamsTypeOK, MsgTyped, NEW s \in Streams, StreamOK(s), ConnectionLost(s)
    PROVE  OneStreamSteps(s) /\ StreamOK(s)'
<1>1. Functions /\ closed[s] \in BOOLEAN
  BY StreamFunctions, Zenon DEF StreamsTypeOK
<1>2. /\ broken' = [broken EXCEPT ![s] = TRUE] /\ wire' = [wire EXCEPT ![s] = <<>>]
      /\ replies' = [replies EXCEPT ![s] = <<>>]
      /\ sent' = sent /\ closed' = closed /\ spc' = spc /\ answers' = answers
      /\ msg' = msg /\ got' = got /\ handled' = handled /\ stored' = stored
  BY DEF ConnectionLost
<1>3. broken'[s] = TRUE
  BY <1>1, <1>2, Zenon DEF Functions, Function
<1>4. wire'[s] = <<>> /\ replies'[s] = <<>>
  BY <1>1, <1>2 DEF Functions, Function
<1>5. OneStreamSteps(s)
  BY <1>1, <1>2, <1>3, OnlyExcept, OnlySame, Zenon DEF Functions, OneStreamSteps
<1>6. OneStream(sent[s], handled[s], answers[s], <<>>, <<>>,
                spc[s], msg[s], got[s], closed[s], TRUE, stored)
  BY LostKeeps, Zenon DEF StreamOK
<1> QED BY <1>2, <1>3, <1>4, <1>5, <1>6, Zenon DEF StreamOK

LEMMA ReadStep ==
    ASSUME StreamsTypeOK, MsgTyped, NEW s \in Streams, StreamOK(s), NEW n \in 1 .. Len(wire[s]), Read(s, n)
    PROVE  OneStreamSteps(s) /\ StreamOK(s)'
<1> DEFINE r == Decode(SubSeq(wire[s], 1, n))
<1>1. Functions /\ closed[s] \in BOOLEAN /\ broken[s] \in BOOLEAN
  BY StreamFunctions, Zenon DEF StreamsTypeOK
<1>2. /\ spc' = [spc EXCEPT ![s] = Dispatch(r)]
      /\ msg' = [msg EXCEPT ![s] = IF r.ok THEN r.msg ELSE NoMsg]
      /\ wire' = [wire EXCEPT ![s] = SubSeq(wire[s], n + 1, Len(wire[s]))]
      /\ sent' = sent /\ closed' = closed /\ broken' = broken /\ answers' = answers
      /\ replies' = replies /\ got' = got /\ handled' = handled /\ stored' = stored
  BY DEF Read, Take
<1> HIDE DEF r
<1>3. OneStreamSteps(s)
  BY <1>1, <1>2, OnlyExcept, OnlySame, Zenon DEF Functions, OneStreamSteps
<1>4. /\ spc'[s] = Dispatch(r) /\ msg'[s] = IF r.ok THEN r.msg ELSE NoMsg
      /\ wire'[s] = SubSeq(wire[s], n + 1, Len(wire[s]))
  BY <1>1, <1>2 DEF Functions, Function
<1>5. spc[s] = "read" /\ r = Decode(SubSeq(wire[s], 1, n))
  BY DEF Read, Take, r
<1>6. OneStream(sent[s], handled[s], answers[s], SubSeq(wire[s], n + 1, Len(wire[s])), replies[s],
                Dispatch(r), IF r.ok THEN r.msg ELSE NoMsg, got[s], closed[s], broken[s], stored)
  BY <1>5, ReadKeeps, Zenon DEF StreamOK
<1> QED BY <1>2, <1>3, <1>4, <1>6, Zenon DEF StreamOK

LEMMA ReadErrorStep ==
    ASSUME StreamsTypeOK, MsgTyped, NEW s \in Streams, StreamOK(s), ReadError(s)
    PROVE  OneStreamSteps(s) /\ StreamOK(s)'
<1>1. Functions /\ closed[s] \in BOOLEAN /\ broken[s] \in BOOLEAN
  BY StreamFunctions, Zenon DEF StreamsTypeOK
<1>2. /\ spc' = [spc EXCEPT ![s] = "gone"] /\ wire' = [wire EXCEPT ![s] = <<>>]
      /\ sent' = sent /\ closed' = closed /\ broken' = broken /\ answers' = answers /\ msg' = msg
      /\ replies' = replies /\ got' = got /\ handled' = handled /\ stored' = stored
  BY DEF ReadError
<1>3. OneStreamSteps(s)
  BY <1>1, <1>2, OnlyExcept, OnlySame, Zenon DEF Functions, OneStreamSteps
<1>4. spc'[s] = "gone" /\ wire'[s] = <<>>
  BY <1>1, <1>2 DEF Functions, Function
<1>5. spc[s] = "read" /\ (closed[s] \/ broken[s])
  BY DEF ReadError
<1>6. OneStream(sent[s], handled[s], answers[s], <<>>, replies[s],
                "gone", msg[s], got[s], closed[s], broken[s], stored)
  BY <1>5, ReadErrorKeeps, Zenon DEF StreamOK
<1> QED BY <1>2, <1>3, <1>4, <1>6, Zenon DEF StreamOK

LEMMA HandleWriteStep ==
    ASSUME StreamsTypeOK, MsgTyped, NEW s \in Streams, StreamOK(s), HandleWrite(s)
    PROVE  OneStreamSteps(s) /\ StreamOK(s)'
<1>1. Functions /\ closed[s] \in BOOLEAN /\ broken[s] \in BOOLEAN
  BY StreamFunctions, Zenon DEF StreamsTypeOK
<1>2. /\ handled' = [handled EXCEPT ![s] = Append(handled[s], msg[s])]
      /\ spc' = [spc EXCEPT ![s] = "ack"]
      /\ sent' = sent /\ closed' = closed /\ broken' = broken /\ answers' = answers /\ msg' = msg
      /\ replies' = replies /\ got' = got /\ wire' = wire /\ stored' = stored
  BY DEF HandleWrite, Done
<1>3. OneStreamSteps(s)
  BY <1>1, <1>2, OnlyExcept, OnlySame, Zenon DEF Functions, OneStreamSteps
<1>4. handled'[s] = Append(handled[s], msg[s]) /\ spc'[s] = "ack"
  BY <1>1, <1>2 DEF Functions, Function
<1>5. spc[s] = "write"
  BY DEF HandleWrite
<1>6. OneStream(sent[s], Append(handled[s], msg[s]), answers[s], wire[s], replies[s],
                "ack", msg[s], got[s], closed[s], broken[s], stored)
  BY <1>5, HandleWriteKeeps, Zenon DEF StreamOK
<1> QED BY <1>2, <1>3, <1>4, <1>6, Zenon DEF StreamOK

LEMMA WriteAckStep ==
    ASSUME StreamsTypeOK, MsgTyped, NEW s \in Streams, StreamOK(s), WriteAck(s)
    PROVE  OneStreamSteps(s) /\ StreamOK(s)'
<1> DEFINE ps == <<[kind |-> "ack"]>>
<1>1. Functions /\ closed[s] \in BOOLEAN /\ broken[s] \in BOOLEAN
  BY StreamFunctions, Zenon DEF StreamsTypeOK
<1>2. /\ replies' = [replies EXCEPT ![s] = IF broken[s] THEN replies[s] ELSE replies[s] \o ps]
      /\ spc' = [spc EXCEPT ![s] = "read"]
      /\ sent' = sent /\ closed' = closed /\ broken' = broken /\ answers' = answers /\ msg' = msg
      /\ handled' = handled /\ got' = got /\ wire' = wire /\ stored' = stored
  BY DEF WriteAck, Reply
<1>5. spc[s] = "ack"
  BY DEF WriteAck
<1>6. OneStream(sent[s], handled[s], answers[s], wire[s],
                IF broken[s] THEN replies[s] ELSE replies[s] \o ps,
                "read", msg[s], got[s], closed[s], broken[s], stored)
  BY <1>5, WriteAckKeeps, Zenon DEF StreamOK
<1> HIDE DEF ps
<1>3. OneStreamSteps(s)
  BY <1>1, <1>2, OnlyExcept, OnlySame, Zenon DEF Functions, OneStreamSteps
<1>4. replies'[s] = (IF broken[s] THEN replies[s] ELSE replies[s] \o ps) /\ spc'[s] = "read"
  BY <1>1, <1>2 DEF Functions, Function
<1> QED BY <1>2, <1>3, <1>4, <1>6, Zenon DEF StreamOK

LEMMA HandleReadStep ==
    ASSUME StreamsTypeOK, MsgTyped, NEW s \in Streams, StreamOK(s), HandleRead(s)
    PROVE  OneStreamSteps(s) /\ StreamOK(s)'
<1>1. Functions /\ closed[s] \in BOOLEAN /\ broken[s] \in BOOLEAN
  BY StreamFunctions, Zenon DEF StreamsTypeOK
<1>2. spc[s] = "get"
  BY DEF HandleRead
<1>3. msg[s].key \in Keys
  BY <1>2, HandlingOne, Zenon DEF StreamOK
<1>4. PICK g \in Stored : g = stored[msg[s].key] /\ g.num \in {0, g.last}
  BY <1>3 DEF StreamsTypeOK
<1>5. \E ps, px :
        /\ Answer(s, ps, px)
        /\ OneStream(sent[s], Append(handled[s], msg[s]), answers[s], wire[s],
                     IF broken[s] THEN replies[s] ELSE replies[s] \o ps,
                     px, msg[s], g, closed[s], broken[s], stored)
  <2>1. \/ Answer(s, <<[kind |-> "error"]>>, "read") \/ Answer(s, <<[kind |-> "none"]>>, "read")
        \/ Answer(s, <<[kind |-> "length"]>>, IF broken[s] THEN "read" ELSE "value")
    BY <1>4 DEF HandleRead, AfterLength
  <2>2. CASE Answer(s, <<[kind |-> "error"]>>, "read")
    BY <1>2, <2>2, ReadNothingKeeps, Zenon DEF StreamOK
  <2>3. CASE Answer(s, <<[kind |-> "none"]>>, "read")
    BY <1>2, <2>3, ReadNothingKeeps, Zenon DEF StreamOK
  <2>4. CASE Answer(s, <<[kind |-> "length"]>>, IF broken[s] THEN "read" ELSE "value")
    BY <1>2, <1>4, <2>4, ReadFoundKeeps, Zenon DEF StreamOK
  <2> QED BY <2>1, <2>2, <2>3, <2>4
<1>6. PICK ps, px :
        /\ Answer(s, ps, px)
        /\ OneStream(sent[s], Append(handled[s], msg[s]), answers[s], wire[s],
                     IF broken[s] THEN replies[s] ELSE replies[s] \o ps,
                     px, msg[s], g, closed[s], broken[s], stored)
  BY <1>5
<1>7. /\ handled' = [handled EXCEPT ![s] = Append(handled[s], msg[s])]
      /\ replies' = [replies EXCEPT ![s] = IF broken[s] THEN replies[s] ELSE replies[s] \o ps]
      /\ spc' = [spc EXCEPT ![s] = px] /\ got' = [got EXCEPT ![s] = g]
      /\ sent' = sent /\ closed' = closed /\ broken' = broken /\ answers' = answers /\ msg' = msg
      /\ wire' = wire /\ stored' = stored
  BY <1>4, <1>6, Zenon DEF Answer, Found, Reply, Done
<1>8. OneStreamSteps(s)
  BY <1>1, <1>7, OnlyExcept, OnlySame, Zenon DEF Functions, OneStreamSteps
<1>9. /\ handled'[s] = Append(handled[s], msg[s]) /\ spc'[s] = px /\ got'[s] = g
      /\ replies'[s] = IF broken[s] THEN replies[s] ELSE replies[s] \o ps
  BY <1>1, <1>7 DEF Functions, Function
<1> QED BY <1>6, <1>7, <1>8, <1>9, Zenon DEF StreamOK

LEMMA WriteValueStep ==
    ASSUME StreamsTypeOK, MsgTyped, NEW s \in Streams, StreamOK(s), WriteValue(s)
    PROVE  OneStreamSteps(s) /\ StreamOK(s)'
<1>1. Functions /\ closed[s] \in BOOLEAN /\ broken[s] \in BOOLEAN
  BY StreamFunctions, Zenon DEF StreamsTypeOK
<1>2. spc[s] = "value"
  BY DEF WriteValue
<1> DEFINE ps == <<[kind |-> "value", key |-> msg[s].key, num |-> got[s].num,
                    others |-> got[s].others, value |-> got[s].value]>>
<1>7. /\ replies' = [replies EXCEPT ![s] = IF broken[s] THEN replies[s] ELSE replies[s] \o ps]
      /\ spc' = [spc EXCEPT ![s] = "read"]
      /\ sent' = sent /\ closed' = closed /\ broken' = broken /\ answers' = answers /\ msg' = msg
      /\ handled' = handled /\ got' = got /\ wire' = wire /\ stored' = stored
  BY DEF WriteValue, Reply
<1>8. OneStream(sent[s], handled[s], answers[s], wire[s],
                IF broken[s] THEN replies[s] ELSE replies[s] \o ps,
                "read", msg[s], got[s], closed[s], broken[s], stored)
  BY <1>2, WriteValueKeeps, Zenon DEF StreamOK
<1> HIDE DEF ps
<1>9. OneStreamSteps(s)
  BY <1>1, <1>7, OnlyExcept, OnlySame, Zenon DEF Functions, OneStreamSteps
<1>10. replies'[s] = (IF broken[s] THEN replies[s] ELSE replies[s] \o ps) /\ spc'[s] = "read"
  BY <1>1, <1>7 DEF Functions, Function
<1> QED BY <1>7, <1>8, <1>9, <1>10, Zenon DEF StreamOK

-----------------------------------------------------------------------------
(* The writes the handlers took and the writes the batch writer accepted.   *)

LEMMA HandledFinite ==
    ASSUME NEW h, NEW k, NEW v
    PROVE  IsFiniteSet(HandledWrites(h, k, v))
<1>1. IsFiniteSet(1 .. MaxMsgs)
  BY QuicAssumption, FS_Interval
<1>2. IsFiniteSet(Streams \X (1 .. MaxMsgs))
  BY <1>1, QuicAssumption, FS_Product
<1> QED BY <1>2, FS_Subset DEF HandledWrites

LEMMA AcceptedFinite ==
    ASSUME NEW vs \in [Keys -> Seq(Payloads)], NEW k \in Keys, NEW v
    PROVE  IsFiniteSet(AcceptedWrites(vs, k, v))
<1>1. Len(vs[k]) \in Nat
  OBVIOUS
<1>2. IsFiniteSet(1 .. Len(vs[k]))
  BY <1>1, FS_Interval
<1> QED BY <1>2, FS_Subset DEF AcceptedWrites

\* G is H and one thing more.
Grows(G, H) == \E p : p \notin H /\ G = H \cup {p}

LEMMA GrowsByOne ==
    ASSUME NEW H, IsFiniteSet(H), NEW G, Grows(G, H)
    PROVE  Cardinality(G) = Cardinality(H) + 1
<1>1. PICK p : p \notin H /\ G = H \cup {p}
  BY DEF Grows
<1> QED BY <1>1, FS_AddElement

\* g is h with e at the end of its sequence at x.
Appended(h, g, x, e) == g = [h EXCEPT ![x] = Append(h[x], e)]

LEMMA AppendedAt ==
    ASSUME NEW X, NEW S, NEW h \in [X -> Seq(S)], NEW x \in X, NEW e \in S, NEW g, Appended(h, g, x, e)
    PROVE  /\ g \in [X -> Seq(S)] /\ g[x] = Append(h[x], e)
           /\ \A y \in X : y # x => g[y] = h[y]
<1>1. Append(h[x], e) \in Seq(S)
  OBVIOUS
<1> QED BY <1>1 DEF Appended

LEMMA AppendedElements ==
    ASSUME NEW S, NEW q \in Seq(S), NEW e \in S, NEW n \in Nat, n = Len(q), NEW z, z = Append(q, e)
    PROVE  z \in Seq(S) /\ Len(z) = n + 1 /\ z[n + 1] = e /\ \A i \in 1 .. n : z[i] = q[i]
OBVIOUS

WriteOf(m, k, v) == m.handler = WriteHandlerType /\ m.key = k /\ m.data = v

\* One more message, of whatever kind, has been handled on stream s.
LEMMA HandledOneMore ==
    ASSUME NEW h \in [Streams -> Seq(Requests \cup {NoMsg})], NEW g, NEW s \in Streams,
           NEW m \in Requests \cup {NoMsg}, Appended(h, g, s, m), NEW k, NEW v,
           NEW n \in Nat, n = Len(h[s]), n < MaxMsgs
    PROVE  /\ WriteOf(m, k, v) => Grows(HandledWrites(g, k, v), HandledWrites(h, k, v))
           /\ ~WriteOf(m, k, v) => HandledWrites(g, k, v) = HandledWrites(h, k, v)
<1>1. PICK hs, hx : hs = h[s] /\ hx = g[s]
  OBVIOUS
<1>2. hs \in Seq(Requests \cup {NoMsg}) /\ hx = Append(hs, m) /\ \A t \in Streams : t # s => g[t] = h[t]
  <2>1. g[s] = Append(h[s], m) /\ \A t \in Streams : t # s => g[t] = h[t]
    BY DEF Appended
  <2> QED BY <1>1, <2>1
<1>3. Len(hs) = n /\ Len(hx) = n + 1 /\ hx[n + 1] = m /\ \A i \in 1 .. n : hx[i] = hs[i]
  BY <1>1, <1>2, AppendedElements
<1>4. n + 1 \in 1 .. MaxMsgs /\ n + 1 \in 1 .. n + 1 /\ n + 1 \notin 1 .. n
  BY QuicAssumption
<1>5. \A i \in 1 .. MaxMsgs : i \in 1 .. n + 1 <=> i \in 1 .. n \/ i = n + 1
  BY QuicAssumption
<1>6. PICK H, G : H = HandledWrites(h, k, v) /\ G = HandledWrites(g, k, v)
  OBVIOUS
<1>7. \A t \in Streams, i \in 1 .. MaxMsgs :
        /\ <<t, i>> \in H <=> i \in 1 .. Len(h[t]) /\ WriteOf(h[t][i], k, v)
        /\ <<t, i>> \in G <=> i \in 1 .. Len(g[t]) /\ WriteOf(g[t][i], k, v)
  BY <1>6 DEF HandledWrites, WriteOf
<1>8. \A p \in H \cup G : \E t \in Streams, i \in 1 .. MaxMsgs : p = <<t, i>>
  BY <1>6 DEF HandledWrites
<1>9. ASSUME NEW t \in Streams, NEW i \in 1 .. MaxMsgs
      PROVE  <<t, i>> \in G <=> <<t, i>> \in H \/ (WriteOf(m, k, v) /\ t = s /\ i = n + 1)
  <2>1. CASE t # s
    <3>1. g[t] = h[t]
      BY <1>2, <2>1
    <3> QED BY <1>7, <2>1, <3>1, Zenon
  <2>2. CASE t = s
    <3>1. <<t, i>> \in G <=> i \in 1 .. n + 1 /\ WriteOf(hx[i], k, v)
      BY <1>1, <1>3, <1>7, <2>2, Zenon
    <3>2. <<t, i>> \in H <=> i \in 1 .. n /\ WriteOf(hs[i], k, v)
      BY <1>1, <1>3, <1>7, <2>2, Zenon
    <3>3. i \in 1 .. n => hx[i] = hs[i]
      BY <1>3
    <3>4. i = n + 1 => hx[i] = m
      BY <1>3
    <3> QED BY <1>4, <1>5, <2>2, <3>1, <3>2, <3>3, <3>4, Zenon
  <2> QED BY <2>1, <2>2
<1>10. <<s, n + 1>> \notin H
  BY <1>1, <1>3, <1>4, <1>7, Zenon
<1>11. WriteOf(m, k, v) => G = H \cup {<<s, n + 1>>}
  <2> SUFFICES ASSUME WriteOf(m, k, v) PROVE G = H \cup {<<s, n + 1>>}
    OBVIOUS
  <2>1. ASSUME NEW p \in G PROVE p \in H \cup {<<s, n + 1>>}
    <3>1. PICK t \in Streams, i \in 1 .. MaxMsgs : p = <<t, i>>
      BY <1>8, Zenon
    <3> QED BY <1>9, <3>1
  <2>2. ASSUME NEW p \in H PROVE p \in G
    <3>1. PICK t \in Streams, i \in 1 .. MaxMsgs : p = <<t, i>>
      BY <1>8, Zenon
    <3> QED BY <1>9, <3>1
  <2>3. <<s, n + 1>> \in G
    BY <1>4, <1>9, Zenon
  <2> QED BY <2>1, <2>2, <2>3, Zenon
<1>12. ~WriteOf(m, k, v) => G = H
  <2> SUFFICES ASSUME ~WriteOf(m, k, v) PROVE G = H
    OBVIOUS
  <2>1. ASSUME NEW p \in G PROVE p \in H
    <3>1. PICK t \in Streams, i \in 1 .. MaxMsgs : p = <<t, i>>
      BY <1>8, Zenon
    <3> QED BY <1>9, <3>1
  <2>2. ASSUME NEW p \in H PROVE p \in G
    <3>1. PICK t \in Streams, i \in 1 .. MaxMsgs : p = <<t, i>>
      BY <1>8, Zenon
    <3> QED BY <1>9, <3>1
  <2> QED BY <2>1, <2>2, Zenon
<1> QED BY <1>6, <1>10, <1>11, <1>12, Zenon DEF Grows

SameWrite(k, v, q, d) == k = q /\ v = d

\* A write of d to q has been accepted.
LEMMA AcceptedOneMore ==
    ASSUME NEW vs \in [Keys -> Seq(Payloads)], NEW vx, NEW q \in Keys, NEW d \in Payloads,
           Appended(vs, vx, q, d), NEW k \in Keys, NEW v
    PROVE  /\ SameWrite(k, v, q, d) => Grows(AcceptedWrites(vx, k, v), AcceptedWrites(vs, k, v))
           /\ ~SameWrite(k, v, q, d) => AcceptedWrites(vx, k, v) = AcceptedWrites(vs, k, v)
<1>1. PICK n \in Nat : n = Len(vs[q])
  OBVIOUS
<1>2. PICK a, b : a = vs[q] /\ b = vx[q]
  OBVIOUS
<1>3. a \in Seq(Payloads) /\ b = Append(a, d) /\ (k # q => vx[k] = vs[k])
  BY <1>2, AppendedAt, SMTT(30)
<1>4. Len(a) = n /\ Len(b) = n + 1 /\ b[n + 1] = d /\ \A i \in 1 .. n : b[i] = a[i]
  BY <1>1, <1>2, <1>3, AppendedElements
<1>5. CASE k # q
  BY <1>3, <1>5, Zenon DEF AcceptedWrites, SameWrite
<1>6. CASE k = q
  <2>1. PICK A, B : A = {j \in 1 .. n : a[j] = v} /\ B = {j \in 1 .. n + 1 : b[j] = v}
    OBVIOUS
  <2>2. AcceptedWrites(vs, k, v) = A /\ AcceptedWrites(vx, k, v) = B
    BY <1>2, <1>4, <1>6, <2>1, Zenon DEF AcceptedWrites
  <2>3. \A j \in 1 .. n + 1 : j = n + 1 \/ j \in 1 .. n
    BY <1>1
  <2>4. n + 1 \in 1 .. n + 1 /\ n + 1 \notin 1 .. n /\ \A j \in 1 .. n : j \in 1 .. n + 1
    BY <1>1
  <2>5. CASE v = d
    <3>1. n + 1 \notin A /\ B = A \cup {n + 1}
      BY <1>4, <2>1, <2>3, <2>4, <2>5
    <3> QED BY <1>6, <2>2, <2>5, <3>1, Zenon DEF Grows, SameWrite
  <2>6. CASE v # d
    <3>1. B = A
      BY <1>4, <2>1, <2>3, <2>4, <2>6
    <3> QED BY <1>6, <2>2, <2>6, <3>1, Zenon DEF SameWrite
  <2> QED BY <2>5, <2>6
<1> QED BY <1>5, <1>6

\* Both counts grow by one for the data and the key of the request.
LEMMA HandleWriteCounts ==
    ASSUME StreamsTypeOK, NEW s \in Streams, StreamOK(s), WritesCounted, HandleWrite(s)
    PROVE  /\ WritesCounted'
           /\ \E q \in Keys, d \in Payloads : Appended(values, values', q, d)
<1>1. spc[s] = "write"
  BY DEF HandleWrite
<1>2. PICK m \in Requests : m = msg[s] /\ m.key \in Keys /\ Len(handled[s]) = Len(sent[s]) - 1
  BY <1>1, HandlingOne, SMTT(30) DEF StreamOK
<1>3. m.handler = WriteHandlerType
  BY <1>1, <1>2 DEF StreamOK, OneStream, Outstanding
<1>4. m.data \in Payloads
  BY <1>3, QuicAssumption, HandlersAssumption DEF Requests
<1>5. PICK q \in Keys, d \in Payloads : q = m.key /\ d = m.data
  BY <1>2, <1>4
<1>6. Appended(handled, handled', s, m) /\ Appended(values, values', q, d)
  BY <1>2, <1>5 DEF HandleWrite, AcceptWrite, Done, Appended
<1>7. PICK n \in Nat : n = Len(handled[s]) /\ n < MaxMsgs
  <2>1. Len(sent[s]) \in Nat /\ Len(handled[s]) \in Nat /\ Len(sent[s]) <= MaxMsgs
    BY DEF StreamOK, OneStream, Typed, Turns
  <2> QED BY <1>2, <2>1, QuicAssumption
<1>8. /\ handled \in [Streams -> Seq(Requests \cup {NoMsg})] /\ values \in [Keys -> Seq(Payloads)]
      /\ m \in Requests \cup {NoMsg}
  BY DEF StreamsTypeOK
<1>9. ASSUME NEW k \in Keys, NEW v \in Payloads
      PROVE  Cardinality(HandledWrites(handled', k, v)) = Cardinality(AcceptedWrites(values', k, v))
  <2>1. /\ WriteOf(m, k, v) => Grows(HandledWrites(handled', k, v), HandledWrites(handled, k, v))
        /\ ~WriteOf(m, k, v) => HandledWrites(handled', k, v) = HandledWrites(handled, k, v)
    BY <1>6, <1>7, <1>8, HandledOneMore
  <2>2. /\ SameWrite(k, v, q, d) => Grows(AcceptedWrites(values', k, v), AcceptedWrites(values, k, v))
        /\ ~SameWrite(k, v, q, d) => AcceptedWrites(values', k, v) = AcceptedWrites(values, k, v)
    BY <1>6, <1>8, AcceptedOneMore
  <2>3. /\ IsFiniteSet(HandledWrites(handled, k, v)) /\ IsFiniteSet(AcceptedWrites(values, k, v))
        /\ Cardinality(HandledWrites(handled, k, v)) = Cardinality(AcceptedWrites(values, k, v))
    BY <1>8, HandledFinite, AcceptedFinite DEF WritesCounted
  <2>4. WriteOf(m, k, v) <=> SameWrite(k, v, q, d)
    BY <1>3, <1>5 DEF WriteOf, SameWrite
  <2>5. CASE SameWrite(k, v, q, d)
    BY <2>1, <2>2, <2>3, <2>4, <2>5, GrowsByOne
  <2>6. CASE ~SameWrite(k, v, q, d)
    BY <2>1, <2>2, <2>3, <2>4, <2>6
  <2> QED BY <2>5, <2>6
<1> QED BY <1>6, <1>9 DEF WritesCounted

\* The read handler takes no write.
LEMMA HandleReadCounts ==
    ASSUME StreamsTypeOK, NEW s \in Streams, StreamOK(s), WritesCounted, HandleRead(s)
    PROVE  WritesCounted'
<1>1. spc[s] = "get"
  BY DEF HandleRead
<1>2. PICK m \in Requests : m = msg[s] /\ Len(handled[s]) = Len(sent[s]) - 1
  BY <1>1, HandlingOne DEF StreamOK
<1>3. m.handler = ReadHandlerType
  BY <1>1, <1>2 DEF StreamOK, OneStream, Outstanding
<1>4. Appended(handled, handled', s, m) /\ values' = values
  BY <1>2, Zenon DEF HandleRead, Answer, Done, Appended
<1>5. PICK n \in Nat : n = Len(handled[s]) /\ n < MaxMsgs
  <2>1. Len(sent[s]) \in Nat /\ Len(handled[s]) \in Nat /\ Len(sent[s]) <= MaxMsgs
    BY DEF StreamOK, OneStream, Typed, Turns
  <2> QED BY <1>2, <2>1, QuicAssumption
<1>6. handled \in [Streams -> Seq(Requests \cup {NoMsg})] /\ m \in Requests \cup {NoMsg}
  BY DEF StreamsTypeOK
<1>7. ASSUME NEW k \in Keys, NEW v \in Payloads
      PROVE  HandledWrites(handled', k, v) = HandledWrites(handled, k, v)
  <2>1. ~WriteOf(m, k, v)
    BY <1>3, HandlersAssumption DEF WriteOf
  <2> QED BY <1>4, <1>5, <1>6, <2>1, HandledOneMore
<1> QED BY <1>4, <1>7 DEF WritesCounted

-----------------------------------------------------------------------------
(* The whole system.                                                        *)

LEMMA StreamsInitHolds == StreamsInit => StreamsIInv
<1> SUFFICES ASSUME StreamsInit PROVE StreamsIInv
  OBVIOUS
<1>1. closed \in [Streams -> BOOLEAN] /\ broken \in [Streams -> BOOLEAN]
  BY Zenon DEF StreamsInit
<1>2. StreamsTypeOK
  <2>1. /\ sent \in [Streams -> Seq(Requests)] /\ handled \in [Streams -> Seq(Requests \cup {NoMsg})]
        /\ wire \in [Streams -> Seq(Bytes)]
        /\ replies \in [Streams -> Seq(Replies)] /\ answers \in [Streams -> Seq(Replies)]
    BY DEF StreamsInit
  <2>0. Nothing \in Stored
    BY DEF Nothing, Stored
  <2>2. /\ got \in [Streams -> Stored] /\ spc \in [Streams -> {"read", "write", "ack", "get", "value", "gone"}]
    BY <2>0 DEF StreamsInit
  <2>3. /\ values \in [Keys -> Seq(Payloads)] /\ stored \in [Keys -> Stored]
        /\ \A k \in Keys : stored[k].last <= Len(values[k]) /\ stored[k].num \in {0, stored[k].last}
    BY <2>0 DEF StreamsInit, Nothing
  <2> QED BY <1>1, <2>1, <2>2, <2>3 DEF StreamsTypeOK
<1>3. MsgTyped
  BY DEF StreamsInit, MsgTyped
<1>4. ASSUME NEW s \in Streams PROVE StreamOK(s)
  <2>1. /\ sent[s] = <<>> /\ handled[s] = <<>> /\ answers[s] = <<>> /\ wire[s] = <<>>
        /\ replies[s] = <<>> /\ spc[s] = "read" /\ msg[s] = NoMsg /\ got[s] = Nothing
    BY DEF StreamsInit
  <2>2. Typed(<<>>, <<>>, <<>>, <<>>, <<>>, "read", NoMsg, Nothing)
    BY DEF Typed, Nothing, Stored
  <2>3. Turns(<<>>, <<>>, <<>>)
    BY QuicAssumption DEF Turns
  <2>4. \A cl, br : /\ Outstanding(<<>>, <<>>, <<>>, <<>>, "read", NoMsg, cl, br)
                    /\ Answering(<<>>, <<>>, <<>>, <<>>, <<>>, "read", br)
                    /\ OnItsWay(<<>>, <<>>, <<>>, <<>>, "read", br)
    BY DEF Outstanding, Answering, OnItsWay
  <2>5. \A du : ReadsBelow(<<>>, <<>>, "read", NoMsg, Nothing, du)
    BY DEF ReadsBelow
  <2>6. Answered(<<>>, <<>>) /\ InOrder(<<>>)
    BY DEF Answered, InOrder
  <2>7. OneStream(<<>>, <<>>, <<>>, <<>>, <<>>, "read", NoMsg, Nothing, closed[s], broken[s], stored)
    BY <2>2, <2>3, <2>4, <2>5, <2>6, Zenon DEF OneStream
  <2> QED BY <2>1, <2>7, Zenon DEF StreamOK
<1>5. ASSUME NEW k \in Keys, NEW v \in Payloads
      PROVE  Cardinality(HandledWrites(handled, k, v)) = Cardinality(AcceptedWrites(values, k, v))
  <2>1. HandledWrites(handled, k, v) = {}
    <3>1. \A t \in Streams : Len(handled[t]) = 0
      BY DEF StreamsInit
    <3>2. \A i \in 1 .. MaxMsgs : ~(i \in 1 .. 0)
      OBVIOUS
    <3>3. ASSUME NEW p \in HandledWrites(handled, k, v) PROVE FALSE
      <4>1. p[1] \in Streams /\ p[2] \in 1 .. MaxMsgs /\ p[2] \in 1 .. Len(handled[p[1]])
        BY DEF HandledWrites
      <4> QED BY <3>1, <3>2, <4>1, Zenon
    <3> QED BY <3>3
  <2>2. AcceptedWrites(values, k, v) = {}
    BY DEF StreamsInit, AcceptedWrites
  <2> QED BY <2>1, <2>2
<1> QED BY <1>2, <1>3, <1>4, <1>5 DEF StreamsIInv, WritesCounted

LEMMA StreamStepKeeps ==
    ASSUME StreamsIInv, NEW s \in Streams, OneStreamSteps(s), StreamOK(s)',
           values' \in [Keys -> Seq(Payloads)], \A k \in Keys : stored[k].last <= Len(values'[k]),
           WritesCounted'
    PROVE  StreamsIInv'
<1>1. StreamsTypeOK /\ MsgTyped /\ \A t \in Streams : StreamOK(t)
  BY DEF StreamsIInv
<1>2. /\ MsgTyped' /\ \A t \in Streams : StreamOK(t)'
      /\ sent' \in [Streams -> Seq(Requests)]
      /\ handled' \in [Streams -> Seq(Requests \cup {NoMsg})]
      /\ closed' \in [Streams -> BOOLEAN] /\ broken' \in [Streams -> BOOLEAN]
      /\ got' \in [Streams -> Stored]
      /\ wire' \in [Streams -> Seq(Bytes)]
      /\ spc' \in [Streams -> {"read", "write", "ack", "get", "value", "gone"}]
      /\ replies' \in [Streams -> Seq(Replies)] /\ answers' \in [Streams -> Seq(Replies)]
  BY <1>1, OthersKept
<1>3. /\ stored' \in [Keys -> Stored]
      /\ \A k \in Keys : stored'[k].last <= Len(values'[k]) /\ stored'[k].num \in {0, stored'[k].last}
  BY <1>1 DEF OneStreamSteps, StreamsTypeOK
<1>4. StreamsTypeOK'
  BY <1>2, <1>3, Zenon DEF StreamsTypeOK
<1> QED BY <1>2, <1>4, Zenon DEF StreamsIInv

\* A step that neither handles a message nor changes the store.
LEMMA QuietStepKeeps ==
    ASSUME StreamsIInv, NEW s \in Streams, OneStreamSteps(s), StreamOK(s)',
           handled' = handled, values' = values
    PROVE  StreamsIInv'
<1>1. StreamsTypeOK /\ WritesCounted
  BY DEF StreamsIInv
<1>2. WritesCounted'
  BY <1>1 DEF WritesCounted
<1>3. values' \in [Keys -> Seq(Payloads)] /\ \A k \in Keys : stored[k].last <= Len(values'[k])
  BY <1>1 DEF StreamsTypeOK
<1> QED BY <1>2, <1>3, StreamStepKeeps

\* A commit of one key.
LEMMA StoreStepKeeps ==
    ASSUME StreamsIInv, NEW k \in Keys, UNCHANGED <<streamVars, values>>,
           NEW e \in Stored, stored' = [stored EXCEPT ![k] = e],
           Advance(stored[k], e), e.last <= Len(values[k]), e.num \in {0, e.last}
    PROVE  StreamsIInv'
<1>1. StreamsTypeOK /\ MsgTyped /\ WritesCounted /\ \A t \in Streams : StreamOK(t)
  BY DEF StreamsIInv
<1>2. /\ sent' = sent /\ closed' = closed /\ broken' = broken /\ wire' = wire /\ spc' = spc
      /\ msg' = msg /\ got' = got /\ handled' = handled /\ replies' = replies
      /\ answers' = answers /\ values' = values
  BY DEF streamVars
<1>3. /\ stored \in [Keys -> Stored]
      /\ \A q \in Keys : stored[q].last <= Len(values[q]) /\ stored[q].num \in {0, stored[q].last}
  BY <1>1 DEF StreamsTypeOK
<1>4. /\ stored' \in [Keys -> Stored] /\ stored'[k] = e
      /\ \A q \in Keys : q # k => stored'[q] = stored[q]
  BY <1>3
<1>5. ASSUME NEW q \in Keys
      PROVE  /\ stored[q] \in Stored /\ stored'[q] \in Stored /\ Advance(stored[q], stored'[q])
             /\ stored'[q].last <= Len(values[q]) /\ stored'[q].num \in {0, stored'[q].last}
  <2>1. CASE q = k
    BY <1>3, <1>4, <2>1
  <2>2. CASE q # k
    <3>1. stored'[q] = stored[q]
      BY <1>4, <2>2
    <3> QED BY <1>3, <3>1, Zenon DEF Advance
  <2> QED BY <2>1, <2>2
<1>6. \A q \in Keys : stored'[q].last <= Len(values'[q]) /\ stored'[q].num \in {0, stored'[q].last}
  BY <1>2, <1>5
<1>7. StreamsTypeOK'
  BY <1>1, <1>2, <1>4, <1>6, Zenon DEF StreamsTypeOK
<1>8. MsgTyped' /\ WritesCounted'
  BY <1>1, <1>2 DEF MsgTyped, WritesCounted
<1>9. ASSUME NEW t \in Streams PROVE StreamOK(t)'
  <2>1. OneStream(sent[t], handled[t], answers[t], wire[t], replies[t],
                  spc[t], msg[t], got[t], closed[t], broken[t], stored')
    BY <1>1, <1>5, CommitKeeps, Zenon DEF StreamOK
  <2> QED BY <1>2, <2>1, Zenon DEF StreamOK
<1> QED BY <1>7, <1>8, <1>9 DEF StreamsIInv

LEMMA PersistKeeps ==
    ASSUME StreamsIInv, NEW k \in Keys, Persist(k)
    PROVE  StreamsIInv'
<1>1. /\ stored[k] \in Stored /\ stored[k].last \in Nat /\ stored[k].others \in Nat
      /\ values[k] \in Seq(Payloads) /\ Len(values[k]) \in Nat
  BY DEF StreamsIInv, StreamsTypeOK, Stored
<1>2. PICK n \in stored[k].last + 1 .. Len(values[k]) : Commit(k, n)
  BY DEF Persist
<1>3. n \in Nat /\ stored[k].last < n /\ n <= Len(values[k]) /\ n \in 1 .. Len(values[k])
  BY <1>1, <1>2
<1>4. PICK e : e = [last |-> n, num |-> n, others |-> stored[k].others, value |-> values[k][n]]
  OBVIOUS
<1>5. values[k][n] \in Payloads
  BY <1>1, <1>3, ElementOfSeq
<1>6. e \in Stored /\ e.last = n /\ e.num = n /\ e.others = stored[k].others
  BY <1>1, <1>3, <1>4, <1>5 DEF Stored
<1>7. Advance(stored[k], e)
  BY <1>3, <1>6 DEF Advance
<1>8. UNCHANGED <<streamVars, values>> /\ stored' = [stored EXCEPT ![k] = e]
  BY <1>2, <1>4 DEF Commit
<1> QED BY <1>3, <1>6, <1>7, <1>8, StoreStepKeeps

LEMMA OtherCommitsKeeps ==
    ASSUME StreamsIInv, NEW k \in Keys, OtherCommits(k)
    PROVE  StreamsIInv'
<1>1. /\ stored[k] \in Stored /\ stored[k].last \in Nat /\ stored[k].others \in Nat
      /\ stored[k].last <= Len(values[k])
  BY DEF StreamsIInv, StreamsTypeOK, Stored
<1>2. PICK v \in Payloads : stored' = [stored EXCEPT ![k] =
          [last |-> stored[k].last, num |-> 0, others |-> stored[k].others + 1, value |-> v]]
  BY DEF OtherCommits
<1>3. PICK e : e = [last |-> stored[k].last, num |-> 0, others |-> stored[k].others + 1, value |-> v]
  OBVIOUS
<1>4. e \in Stored /\ e.last = stored[k].last /\ e.num = 0 /\ e.others > stored[k].others
  BY <1>1, <1>3 DEF Stored
<1>5. Advance(stored[k], e)
  BY <1>4 DEF Advance
<1>6. UNCHANGED <<streamVars, values>> /\ stored' = [stored EXCEPT ![k] = e]
  BY <1>2, <1>3 DEF OtherCommits
<1> QED BY <1>1, <1>4, <1>5, <1>6, StoreStepKeeps

LEMMA StreamsStep == StreamsIInv /\ [StreamsNext]_quicVars => StreamsIInv'
<1> SUFFICES ASSUME StreamsIInv, [StreamsNext]_quicVars PROVE StreamsIInv'
  OBVIOUS
<1>1. StreamsTypeOK /\ MsgTyped /\ WritesCounted /\ \A t \in Streams : StreamOK(t)
  BY DEF StreamsIInv
<1>2. ASSUME NEW s \in Streams, NEW m \in Requests, ClientWrite(s, m) PROVE StreamsIInv'
  <2>1. handled' = handled /\ values' = values
    BY <1>2 DEF ClientWrite
  <2> QED BY <1>1, <1>2, <2>1, ClientWriteStep, QuietStepKeeps
<1>3. ASSUME NEW s \in Streams, ClientRead(s) PROVE StreamsIInv'
  <2>1. handled' = handled /\ values' = values
    BY <1>3 DEF ClientRead
  <2> QED BY <1>1, <1>3, <2>1, ClientReadStep, QuietStepKeeps
<1>4. ASSUME NEW s \in Streams, ClientClose(s) PROVE StreamsIInv'
  <2>1. handled' = handled /\ values' = values
    BY <1>4 DEF ClientClose
  <2> QED BY <1>1, <1>4, <2>1, ClientCloseStep, QuietStepKeeps
<1>5. ASSUME NEW s \in Streams, ConnectionLost(s) PROVE StreamsIInv'
  <2>1. handled' = handled /\ values' = values
    BY <1>5 DEF ConnectionLost
  <2> QED BY <1>1, <1>5, <2>1, ConnectionLostStep, QuietStepKeeps
<1>6. ASSUME NEW s \in Streams, NEW n \in 1 .. Len(wire[s]), Read(s, n) PROVE StreamsIInv'
  <2>1. handled' = handled /\ values' = values
    BY <1>6 DEF Read, Take
  <2> QED BY <1>1, <1>6, <2>1, ReadStep, QuietStepKeeps
<1>7. ASSUME NEW s \in Streams, ReadError(s) PROVE StreamsIInv'
  <2>1. handled' = handled /\ values' = values
    BY <1>7 DEF ReadError
  <2> QED BY <1>1, <1>7, <2>1, ReadErrorStep, QuietStepKeeps
<1>8. ASSUME NEW s \in Streams, HandleWrite(s) PROVE StreamsIInv'
  <2>1. OneStreamSteps(s) /\ StreamOK(s)'
    BY <1>1, <1>8, HandleWriteStep
  <2>2. WritesCounted' /\ \E q \in Keys, d \in Payloads : Appended(values, values', q, d)
    BY <1>1, <1>8, HandleWriteCounts
  <2>3. PICK q \in Keys, d \in Payloads : Appended(values, values', q, d)
    BY <2>2
  <2>4. values \in [Keys -> Seq(Payloads)]
        /\ \A k \in Keys : stored[k].last \in Nat /\ stored[k].last <= Len(values[k])
    BY <1>1 DEF StreamsTypeOK, Stored
  <2>5. /\ values' \in [Keys -> Seq(Payloads)] /\ values'[q] = Append(values[q], d)
        /\ \A k \in Keys : k # q => values'[k] = values[k]
    BY <2>3, <2>4, AppendedAt, SMTT(30)
  <2>6. ASSUME NEW k \in Keys PROVE stored[k].last <= Len(values'[k])
    <3>1. CASE k # q
      BY <2>4, <2>5, <3>1
    <3>2. CASE k = q
      <4>0. /\ values[q] \in Seq(Payloads) /\ values'[q] \in Seq(Payloads)
            /\ stored[q].last \in Nat /\ Len(values[q]) \in Nat /\ stored[q].last <= Len(values[q])
        BY <2>4, <2>5
      <4>1. PICK a \in Seq(Payloads), b \in Seq(Payloads), n \in Nat, l \in Nat :
              a = values[q] /\ b = values'[q] /\ n = stored[q].last /\ l = Len(a) /\ n <= l
        BY <4>0, Zenon
      <4>2. b = Append(a, d) /\ Len(b) = l + 1
        BY <2>5, <4>1, AppendedElements
      <4>3. n <= Len(b)
        BY <4>1, <4>2
      <4> QED BY <3>2, <4>1, <4>3
    <3> QED BY <3>1, <3>2
  <2> QED BY <2>1, <2>2, <2>5, <2>6, StreamStepKeeps
<1>9. ASSUME NEW s \in Streams, WriteAck(s) PROVE StreamsIInv'
  <2>1. handled' = handled /\ values' = values
    BY <1>9 DEF WriteAck
  <2> QED BY <1>1, <1>9, <2>1, WriteAckStep, QuietStepKeeps
<1>10. ASSUME NEW s \in Streams, HandleRead(s) PROVE StreamsIInv'
  <2>1. OneStreamSteps(s) /\ StreamOK(s)' /\ WritesCounted'
    BY <1>1, <1>10, HandleReadStep, HandleReadCounts
  <2>2. values' = values
    BY <1>10, Zenon DEF HandleRead, Answer
  <2>3. values' \in [Keys -> Seq(Payloads)] /\ \A k \in Keys : stored[k].last <= Len(values'[k])
    BY <1>1, <2>2 DEF StreamsTypeOK
  <2> QED BY <2>1, <2>3, StreamStepKeeps
<1>11. ASSUME NEW s \in Streams, WriteValue(s) PROVE StreamsIInv'
  <2>1. handled' = handled /\ values' = values
    BY <1>11 DEF WriteValue
  <2> QED BY <1>1, <1>11, <2>1, WriteValueStep, QuietStepKeeps
<1>12. CASE UNCHANGED quicVars
  BY <1>1, <1>12 DEF StreamsIInv, StreamsTypeOK, MsgTyped, StreamOK, WritesCounted, quicVars, streamVars
<1> QED
  BY <1>2, <1>3, <1>4, <1>5, <1>6, <1>7, <1>8, <1>9, <1>10, <1>11, <1>12, PersistKeeps, OtherCommitsKeeps
     DEF StreamsNext, HandleStream, Handler

LEMMA StreamsIInvHolds == StreamsSpec => []StreamsIInv
<1> QED BY StreamsInitHolds, StreamsStep, PTL DEF StreamsSpec

-----------------------------------------------------------------------------
(* What follows from the invariant in every state.                          *)

\* Sequences that agree on the first one's length: the first is a prefix.
LEMMA PrefixOf ==
    ASSUME NEW S, NEW a \in Seq(S), NEW b \in Seq(S), Len(a) <= Len(b),
           \A i \in 1 .. Len(a) : a[i] = b[i]
    PROVE  IsPrefix(a, b)
<1>1. PICK l \in Nat, z \in Nat : l = Len(a) /\ z = Len(b) /\ l <= z
  OBVIOUS
<1>2. /\ \A i \in 1 .. l : a[i] \in S
      /\ \A i \in 1 .. l : b[i] \in S
  BY <1>1
<1>3. PICK x, y : x = SubSeq(a, 1, l) /\ y = SubSeq(b, 1, l)
  OBVIOUS
<1>4. /\ x \in Seq(S) /\ Len(x) = IF 1 <= l THEN l - 1 + 1 ELSE 0
      /\ \A i \in 1 .. l - 1 + 1 : x[i] = a[1 + i - 1]
  BY <1>2, <1>3, SubSeqProperties
<1>5. /\ y \in Seq(S) /\ Len(y) = IF 1 <= l THEN l - 1 + 1 ELSE 0
      /\ \A i \in 1 .. l - 1 + 1 : y[i] = b[1 + i - 1]
  BY <1>2, <1>3, SubSeqProperties
<1>6. Len(x) = l /\ Len(y) = l /\ \A i \in 1 .. l : 1 + i - 1 = i
  BY <1>4, <1>5
<1>7. \A i \in 1 .. l : x[i] = y[i]
  BY <1>1, <1>4, <1>5, <1>6
<1>8. x = y
  BY <1>4, <1>5, <1>6, <1>7, SeqEqual
<1> QED BY <1>1, <1>3, <1>8, Zenon DEF IsPrefix

\* One stream: what the properties say of it.
LEMMA OneStreamPrefix ==
    ASSUME NEW se, NEW ha, NEW an, NEW wi, NEW re, NEW pc, NEW ms, NEW go, NEW cl, NEW br, NEW du,
           OneStream(se, ha, an, wi, re, pc, ms, go, cl, br, du)
    PROVE  IsPrefix(ha, se)
<1>1. /\ ha \in Seq(Requests \cup {NoMsg}) /\ se \in Seq(Requests \cup {NoMsg})
      /\ Len(ha) <= Len(se) /\ \A i \in 1 .. Len(ha) : ha[i] = se[i]
  BY DEF OneStream, Typed, Turns
<1> QED BY <1>1, PrefixOf

LEMMA OneStreamAnswers ==
    ASSUME NEW se, NEW ha, NEW an, NEW wi, NEW re, NEW pc, NEW ms, NEW go, NEW cl, NEW br, NEW du,
           OneStream(se, ha, an, wi, re, pc, ms, go, cl, br, du)
    PROVE  /\ Len(an) <= Len(se) /\ DOMAIN an = 1 .. Len(an)
           /\ \A i \in DOMAIN an :
                IsAnswer(an[i], se[i]) /\ i \in 1 .. Len(ha) /\ ha[i] = se[i]
           /\ \A i, j \in DOMAIN an :
                i < j /\ an[j].kind = "value" => AtMost(an[i], an[j].key, an[j])
           /\ Len(an) < Len(se) => wi # <<>> \/ re # <<>> \/ pc # "read" \/ br
<1>1. PICK x \in Nat, y \in Nat, z \in Nat : x = Len(an) /\ y = Len(ha) /\ z = Len(se)
  BY DEF OneStream, Typed
<1>2. x <= y /\ y <= z /\ z <= MaxMsgs /\ (\A i \in 1 .. y : ha[i] = se[i]) /\ MaxMsgs \in Nat
  BY <1>1, QuicAssumption DEF OneStream, Turns
<1>3. DOMAIN an = 1 .. x
  BY <1>1 DEF OneStream, Typed
<1>4. \A i \in 1 .. x : i \in 1 .. y /\ ha[i] = se[i]
  BY <1>2
<1>5. \A i \in 1 .. x : IsAnswer(an[i], se[i])
  BY <1>1 DEF OneStream, Answered
<1>6. \A i, j \in 1 .. x : i < j /\ an[j].kind = "value" => AtMost(an[i], an[j].key, an[j])
  BY <1>1, Zenon DEF OneStream, InOrder
<1>7. x < z => wi # <<>> \/ re # <<>> \/ pc # "read" \/ br
  BY <1>1 DEF OneStream, OnItsWay
<1> QED BY <1>1, <1>2, <1>3, <1>4, <1>5, <1>6, <1>7

LEMMA InvHandledInOrder == StreamsIInv => HandledInOrder
BY OneStreamPrefix, Zenon DEF StreamsIInv, StreamOK, HandledInOrder

LEMMA InvAnswersMatch == StreamsIInv => AnswersMatch
<1> SUFFICES ASSUME StreamsIInv, NEW s \in Streams
             PROVE  /\ Len(answers[s]) <= Len(sent[s])
                    /\ \A i \in DOMAIN answers[s] :
                        /\ answers[s][i].kind \in Answers(sent[s][i])
                        /\ answers[s][i].kind = "value" => answers[s][i].key = sent[s][i].key
  BY Zenon DEF AnswersMatch
<1>1. /\ Len(answers[s]) <= Len(sent[s])
      /\ \A i \in DOMAIN answers[s] : IsAnswer(answers[s][i], sent[s][i])
  BY OneStreamAnswers, Zenon DEF StreamsIInv, StreamOK
<1> QED BY <1>1, Zenon DEF IsAnswer

\* Only writes are acknowledged, and only after the handler has run: an
\* acknowledged write is one of the handled ones.
LEMMA InvAckedAccepted == StreamsIInv => AckedAccepted
<1> SUFFICES ASSUME StreamsIInv, NEW k \in Keys, NEW v \in Payloads
             PROVE  Cardinality({p \in Streams \X (1 .. MaxMsgs) :
                                    /\ p[2] \in DOMAIN answers[p[1]] /\ answers[p[1]][p[2]].kind = "ack"
                                    /\ sent[p[1]][p[2]].key = k /\ sent[p[1]][p[2]].data = v})
                      <= Cardinality({j \in DOMAIN values[k] : values[k][j] = v})
  BY Zenon DEF AckedAccepted
<1> DEFINE acked == {p \in Streams \X (1 .. MaxMsgs) :
                        /\ p[2] \in DOMAIN answers[p[1]] /\ answers[p[1]][p[2]].kind = "ack"
                        /\ sent[p[1]][p[2]].key = k /\ sent[p[1]][p[2]].data = v}
<1>1. ASSUME NEW p \in acked PROVE p \in HandledWrites(handled, k, v)
  <2>1. /\ p \in Streams \X (1 .. MaxMsgs) /\ p[1] \in Streams
        /\ p[2] \in DOMAIN answers[p[1]] /\ answers[p[1]][p[2]].kind = "ack"
        /\ sent[p[1]][p[2]].key = k /\ sent[p[1]][p[2]].data = v
    BY <1>1
  <2>2. /\ IsAnswer(answers[p[1]][p[2]], sent[p[1]][p[2]])
        /\ p[2] \in 1 .. Len(handled[p[1]]) /\ handled[p[1]][p[2]] = sent[p[1]][p[2]]
    <3>1. PICK s \in Streams : s = p[1]
      BY <2>1
    <3>2. \A i \in DOMAIN answers[s] :
            /\ IsAnswer(answers[s][i], sent[s][i])
            /\ i \in 1 .. Len(handled[s]) /\ handled[s][i] = sent[s][i]
      <4>1. OneStream(sent[s], handled[s], answers[s], wire[s], replies[s],
                      spc[s], msg[s], got[s], closed[s], broken[s], stored)
        BY Zenon DEF StreamsIInv, StreamOK
      <4> QED BY <4>1, OneStreamAnswers
    <3> QED BY <2>1, <3>1, <3>2, Zenon
  <2>3. \A m : "ack" \in Answers(m) => m.handler = WriteHandlerType
    BY DEF Answers
  <2>4. "ack" \in Answers(sent[p[1]][p[2]])
    BY <2>1, <2>2, Zenon DEF IsAnswer
  <2>5. handled[p[1]][p[2]].handler = WriteHandlerType
    BY <2>2, <2>3, <2>4, Zenon
  <2> QED BY <2>1, <2>2, <2>5, Zenon DEF HandledWrites
<1>2. acked \subseteq HandledWrites(handled, k, v)
  BY <1>1
<1>3. IsFiniteSet(HandledWrites(handled, k, v))
  BY HandledFinite
<1>4. /\ IsFiniteSet(acked) /\ Cardinality(acked) <= Cardinality(HandledWrites(handled, k, v))
  BY <1>2, <1>3, FS_Subset
<1>5. Cardinality(HandledWrites(handled, k, v)) = Cardinality(AcceptedWrites(values, k, v))
  BY DEF StreamsIInv, WritesCounted
<1>6. DOMAIN values[k] = 1 .. Len(values[k])
  BY DEF StreamsIInv, StreamsTypeOK
<1>7. AcceptedWrites(values, k, v) = {j \in DOMAIN values[k] : values[k][j] = v}
  BY <1>6, Zenon DEF AcceptedWrites
<1> HIDE DEF acked
<1>8. Cardinality(acked) <= Cardinality({j \in DOMAIN values[k] : values[k][j] = v})
  BY <1>4, <1>5, <1>7, Zenon
<1> QED BY <1>8 DEF acked

\* On every stream, at every moment: the handlers have taken a prefix of what
\* the client sent, no part of a message was ever taken for a message of its
\* own, every answer belongs to the request in its place, and each
\* acknowledged write is one the batch writer has accepted.
THEOREM StreamsCorrect == StreamsSpec => []StreamInv
<1>1. StreamsIInv => StreamInv
  BY InvHandledInOrder, InvAnswersMatch, InvAckedAccepted, Zenon DEF StreamInv, StreamsIInv
<1> QED BY <1>1, StreamsIInvHolds, PTL

\* A client that reads a key twice on its stream never sees the writes of QUIC
\* go back, and a value of another transport follows one of QUIC only when its
\* writer has committed in between, however many commits there are: what the read
\* handler holds is fixed by db.Get, and every later commit goes beyond it.
THEOREM ReadsNeverGoBack == StreamsSpec => []MonotonicReads
<1>1. ASSUME StreamsIInv, NEW s \in Streams, NEW i \in DOMAIN answers[s], NEW j \in DOMAIN answers[s],
             i < j, answers[s][i].kind = "value", answers[s][j].kind = "value",
             answers[s][i].key = answers[s][j].key
      PROVE  Before(answers[s][i], answers[s][j])
  <2>1. AtMost(answers[s][i], answers[s][j].key, answers[s][j])
    BY <1>1, OneStreamAnswers, Zenon DEF StreamsIInv, StreamOK
  <2> QED BY <1>1, <2>1, Zenon DEF AtMost
<1>2. StreamsIInv => MonotonicReads
  BY <1>1, Zenon DEF MonotonicReads
<1> QED BY <1>2, StreamsIInvHolds, PTL

\* A client that waits is never forgotten while handleStream runs and the
\* connection lasts: its request or its answer is in one of the four places.
THEOREM WaitingIsSeen == StreamsSpec => []AnswerOnItsWay
<1>1. ASSUME StreamsIInv, NEW s \in Streams, Len(answers[s]) < Len(sent[s])
      PROVE  wire[s] # <<>> \/ replies[s] # <<>> \/ spc[s] # "read" \/ broken[s]
  <2>1. OneStream(sent[s], handled[s], answers[s], wire[s], replies[s],
                  spc[s], msg[s], got[s], closed[s], broken[s], stored)
    BY <1>1, Zenon DEF StreamsIInv, StreamOK
  <2> QED BY <1>1, <2>1, OneStreamAnswers
<1>2. StreamsIInv => AnswerOnItsWay
  BY <1>1, Zenon DEF AnswerOnItsWay
<1> QED BY <1>2, StreamsIInvHolds, PTL

====
