---- MODULE TransportWriters ----
(***************************************************************************)
(* registry.go gives every transport a batch writer of its own over the    *)
(* one database called fdb.  Two of them, of the QUIC and of the TCP       *)
(* transport, are composed here from two instances of BatchWriter: they    *)
(* share the database and MDBX's one write transaction, and nothing else.  *)
(* A write of a key has one number whichever transport accepts it, so the  *)
(* numbers tell which of two writes was acknowledged first.                *)
(***************************************************************************)
EXTENDS Integers, Sequences, FiniteSets

CONSTANTS Keys, Callers, FirstByte, NumWorkers, MaxBatchSize, ChanCap, NoKey,
          MaxWrites,     \* bound: writes of a key before the last call through QUIC
          MaxWritesTcp   \* the same of the calls through TCP

ASSUME SharedKeysAssumption    == NoKey \notin Keys /\ FirstByte \in [Keys -> 0 .. 255]
ASSUME SharedWorkersAssumption == NumWorkers \in Nat \ {0}

VARIABLES
    alive,     \* the process is running
    store,     \* committed contents of the database
    accepted,  \* writes of each key acknowledged so far, by either transport
    newest,    \* history: newest write of each key a transport acknowledged
    done,      \* history: write of each key a transport committed last
    stopQ, chanQ, mapQ, pcQ, exitingQ, stagedQ, callQ, lostQ,
    stopT, chanT, mapT, pcT, exitingT, stagedT, callT, lostT

quicVars == <<stopQ, chanQ, mapQ, pcQ, exitingQ, stagedQ, callQ, lostQ>>
tcpVars  == <<stopT, chanT, mapT, pcT, exitingT, stagedT, callT, lostT>>
vars     == <<alive, store, accepted, newest, done, quicVars, tcpVars>>

Transports == {"quic", "tcp"}

\* The writer transport_quic.NewQuicWriteHandler gets.
Q == INSTANCE BatchWriter WITH
        MayFail <- TRUE, MayCrash <- FALSE, MayStop <- TRUE,
        stopClosed <- stopQ, workerChannels <- chanQ, workerBuffers <- mapQ, wpc <- pcQ,
        exiting <- exitingQ, staged <- stagedQ, call <- callQ, lost <- lostQ

\* The writer transport_tcp.NewTCPWriteHandler gets.
T == INSTANCE BatchWriter WITH
        MayFail <- TRUE, MayCrash <- FALSE, MayStop <- FALSE, MaxWrites <- MaxWritesTcp,
        stopClosed <- stopT, workerChannels <- chanT, workerBuffers <- mapT, wpc <- pcT,
        exiting <- exitingT, staged <- stagedT, call <- callT, lost <- lostT

Init ==
    /\ Q!Init /\ T!Init
    /\ newest = [t \in Transports |-> [k \in Keys |-> 0]]
    /\ done = [t \in Transports |-> [k \in Keys |-> 0]]

\* What a step through transport t accepted and committed.
Record(t) ==
    /\ newest' = [newest EXCEPT ![t] =
            [k \in Keys |-> IF accepted'[k] # accepted[k] THEN accepted'[k] ELSE @[k]]]
    /\ done' = [done EXCEPT ![t] =
            [k \in Keys |-> IF store'[k] # store[k] THEN store'[k] ELSE @[k]]]

\* A step of one writer leaves the other as it is.
QuicStep == UNCHANGED tcpVars /\ Record("quic")
TcpStep  == UNCHANGED quicVars /\ Record("tcp")

\* MDBX has one writer at a time, whichever batch writer it belongs to.
InTxn(pc) == \E w \in Q!Workers : pc[w] = "txn"

WriteQ(c)   == Q!BufferWriteSend(c) /\ QuicStep
ReceiveQ(w) == Q!Receive(w) /\ QuicStep
TickQ(w)    == Q!Tick(w) /\ QuicStep
StopQ(w)    == Q!Stop(w) /\ QuicStep
BeginQ(w)   == ~InTxn(pcT) /\ Q!BeginTxn(w) /\ QuicStep
FlushQ(w)   == BeginQ(w) \/ (((\E k \in Keys : Q!Put(w, k)) \/ Q!Commit(w)) /\ QuicStep)
FailQ(w)    == (pcQ[w] = "txn" \/ ~InTxn(pcT)) /\ Q!FlushError(w) /\ QuicStep

WriteT(c)   == T!BufferWriteSend(c) /\ TcpStep
ReceiveT(w) == T!Receive(w) /\ TcpStep
TickT(w)    == T!Tick(w) /\ TcpStep
BeginT(w)   == ~InTxn(pcQ) /\ T!BeginTxn(w) /\ TcpStep
FlushT(w)   == BeginT(w) \/ (((\E k \in Keys : T!Put(w, k)) \/ T!Commit(w)) /\ TcpStep)
FailT(w)    == (pcT[w] = "txn" \/ ~InTxn(pcQ)) /\ T!FlushError(w) /\ TcpStep

\* The serve command ends: FDB.Stop stops the transports and nothing flushes
\* their writers, so what waits in either of them is lost with the process.
ServeEnds ==
    /\ alive /\ Q!Die /\ T!Die
    /\ UNCHANGED <<newest, done>>

Next ==
    \/ \E c \in Callers, k \in Keys : Q!BufferWriteCall(c, k) /\ QuicStep
    \/ \E c \in Callers, k \in Keys : T!BufferWriteCall(c, k) /\ TcpStep
    \/ \E c \in Callers : WriteQ(c) \/ WriteT(c)
    \/ \E w \in Q!Workers : ReceiveQ(w) \/ TickQ(w) \/ StopQ(w) \/ FlushQ(w) \/ FailQ(w)
    \/ \E w \in T!Workers : ReceiveT(w) \/ TickT(w) \/ FlushT(w) \/ FailT(w)
    \/ Q!FlushAndStop /\ QuicStep
    \/ ServeEnds

(* Go's select chooses uniformly among the ready cases, so a case that is   *)
(* ready again and again is taken; a blocked sender is served in FIFO order *)
(* and so is the MDBX writer lock.  ServeEnds, FlushAndStop and a failing   *)
(* env.Update may or may not come.                                          *)
Fairness ==
    /\ \A c \in Callers : SF_vars(WriteQ(c)) /\ SF_vars(WriteT(c))
    /\ \A w \in Q!Workers :
        /\ SF_vars(ReceiveQ(w)) /\ SF_vars(TickQ(w)) /\ SF_vars(StopQ(w)) /\ SF_vars(FlushQ(w))
        /\ SF_vars(ReceiveT(w)) /\ SF_vars(TickT(w)) /\ SF_vars(FlushT(w))

Spec == Init /\ [][Next]_vars

FairSpec == Spec /\ Fairness

-----------------------------------------------------------------------------

\* A write of k that transport t acknowledged has not reached the database.
Waiting(t, k) ==
    IF t = "quic"
    THEN \E w \in Q!Workers : k \in Q!InBuffer(w) \/ \E r \in Q!Queued(w) : r.key = k
    ELSE \E w \in T!Workers : k \in T!InBuffer(w) \/ \E r \in T!Queued(w) : r.key = k

Stopped(t) == ~alive \/ (IF t = "quic" THEN stopQ ELSE stopT)

\* The highest write of k that was thrown away with a buffer of transport t.
Dropped(t, k) == IF t = "quic" THEN lostQ[k] ELSE lostT[k]

\* What the batch writers of registry.go leave in the database they share: each
\* transport has committed the last write it acknowledged, unless its writer
\* still holds writes of the key, a flush of that very write failed and cleared
\* the buffer, or the process ended while the writer held it; and the database
\* has what one of them committed last.  When nothing waits and nothing failed a
\* key thus has the last write of one transport, which need not be the last write.
SettlesToNewest ==
    \A k \in Keys :
        /\ store[k] \in {done[t][k] : t \in Transports}
        /\ \A t \in Transports :
            \/ Waiting(t, k)
            \/ newest[t][k] \in {done[t][k], Dropped(t, k)}
            \/ ~alive /\ accepted[k] = Dropped(t, k)

\* The flushes of one transport reach the database in the order in which that
\* transport acknowledged them: a key goes back to an older write only when that
\* write came through another transport than the one it replaces.  Whoever
\* writes a key through one transport alone never sees it go back.
OvertakenByOther ==
    [][\A k \in Keys : store'[k] # store[k] =>
        \E t \in Transports :
            done[t][k] < done'[t][k] /\ store'[k] = done'[t][k]]_vars

\* While both writers compete for MDBX's lock, every acknowledged write of a
\* transport is committed or superseded by a later one of the same transport
\* that is, unless env.Update failed for it or for the one that superseded it
\* (the client is never told) or the writer was stopped: FlushAndStop leaves the
\* channels as they are and the end of the process leaves everything.  No write
\* stays in a buffer for want of a tick or of the lock.
AcceptedReachesStore ==
    \A t \in Transports, k \in Keys, n \in 1 .. MaxWrites + MaxWritesTcp :
        newest[t][k] >= n ~> done[t][k] >= n \/ Dropped(t, k) >= n \/ Stopped(t)

\* BufferWrite blocks on a full channel only for a while, also when the other
\* transport writes all the time.  After FlushAndStop nobody drains it.
BufferWriteReturns ==
    \A c \in Callers :
        /\ callQ[c] # NoKey ~> callQ[c] = NoKey \/ Stopped("quic")
        /\ callT[c] # NoKey ~> callT[c] = NoKey \/ Stopped("tcp")

\* After FlushAndStop of one writer its workers return, whatever their select
\* was doing and whatever the other writer does.
WorkersStop == stopQ ~> (\A w \in Q!Workers : pcQ[w] = "done") \/ ~alive
====
