---- MODULE BatchWriter ----
(***************************************************************************)
(* The BatchWriter of db/writer.go: callers of BufferWrite put requests on *)
(* the channel of the worker that owns the key, each worker collects them  *)
(* in a map and flushes the map to MDBX in one transaction when it holds   *)
(* maxBatchSize keys, when its ticker fires and when it is told to stop.   *)
(*                                                                         *)
(* Values are opaque to the writer.  The value of a request is represented *)
(* by its number among the writes of its key, in the order in which they   *)
(* entered the channel; 0 stands for "no value".  A process that dies      *)
(* keeps what MDBX committed and nothing else.                             *)
(***************************************************************************)
EXTENDS Integers, Sequences, FiniteSets

CONSTANTS
    Keys,          \* the keys in use
    Callers,       \* goroutines that call BufferWrite (event loops, streams)
    FirstByte,     \* key[0] of each key
    NumWorkers,    \* bw.workers
    MaxBatchSize,  \* bw.maxBatchSize
    ChanCap,       \* capacity of a worker channel (500000 in the code)
    MaxWrites,     \* bound: writes of one key in a behaviour
    MayFail,       \* env.Update may return an error
    MayCrash,      \* the process may be killed and started again
    MayStop,       \* somebody may call FlushAndStop
    NoKey          \* not a key

ASSUME KeysAssumption    == NoKey \notin Keys /\ IsFiniteSet(Keys)
ASSUME BytesAssumption   == FirstByte \in [Keys -> 0 .. 255]
ASSUME WorkersAssumption == NumWorkers \in Nat \ {0}
ASSUME BatchAssumption   == MaxBatchSize \in Nat \ {0}
ASSUME ChanAssumption    == ChanCap \in Nat \ {0} /\ MaxWrites \in Nat
ASSUME FaultsAssumption  == {MayFail, MayCrash, MayStop} \subseteq BOOLEAN

VARIABLES
    alive,         \* the process is running
    stopClosed,    \* stopChannel is closed
    workerChannels,\* requests waiting for each worker
    workerBuffers, \* each worker's map; 0 for a key that is not in it
    wpc,           \* where each worker is in runWorker
    exiting,       \* the worker is in the stop case of its select
    staged,        \* keys already Put in the open MDBX transaction
    store,         \* committed contents of the MDBX root database
    call,          \* the key a caller is trying to send, or NoKey
    accepted,      \* history: writes of each key BufferWrite has returned for
    lost           \* history: highest write of each key that was thrown away

writerVars == <<workerChannels, workerBuffers, wpc, exiting, staged>>
history    == <<accepted, lost>>
vars       == <<alive, stopClosed, writerVars, store, call, history>>

Workers == 0 .. NumWorkers - 1

None == [k \in Keys |-> 0]

Request == [key : Keys, value : Nat]

Larger(m, n) == IF m > n THEN m ELSE n

\* The worker a key is assigned to: int(key[0]) % bw.workers.
WorkerOf(k) == FirstByte[k] % NumWorkers

\* The keys in a worker's map; len(bw.workerBuffers[w]) is its cardinality.
InBuffer(w) == {k \in Keys : workerBuffers[w][k] # 0}

\* The requests in a worker's channel.
Queued(w) == {workerChannels[w][i] : i \in DOMAIN workerChannels[w]}

TypeOK ==
    /\ alive \in BOOLEAN /\ stopClosed \in BOOLEAN
    /\ workerChannels \in [Workers -> Seq(Request)]
    /\ \A w \in Workers : Len(workerChannels[w]) <= ChanCap
    /\ workerBuffers \in [Workers -> [Keys -> Nat]]
    /\ wpc \in [Workers -> {"select", "flush", "txn", "done"}]
    /\ exiting \in [Workers -> BOOLEAN]
    /\ staged \in SUBSET Keys
    /\ store \in [Keys -> Nat]
    /\ call \in [Callers -> Keys \cup {NoKey}]
    /\ accepted \in [Keys -> Nat]
    /\ lost \in [Keys -> Nat]

\* Fresh channels, buffers and worker goroutines.
NewBatchWriter ==
    /\ workerChannels = [w \in Workers |-> <<>>]
    /\ workerBuffers = [w \in Workers |-> None]
    /\ wpc = [w \in Workers |-> "select"]
    /\ exiting = [w \in Workers |-> FALSE]
    /\ staged = {}

Init ==
    /\ alive = TRUE /\ stopClosed = FALSE
    /\ NewBatchWriter
    /\ store = None
    /\ call = [c \in Callers |-> NoKey]
    /\ accepted = None /\ lost = None

-----------------------------------------------------------------------------
(* BufferWrite.  The call picks the worker, then blocks while its channel   *)
(* is full; it returns, and the client gets its acknowledgement, once the   *)
(* request is in the channel.                                               *)

BufferWriteCall(c, k) ==
    /\ alive /\ call[c] = NoKey
    /\ accepted[k] < MaxWrites
    /\ call' = [call EXCEPT ![c] = k]
    /\ UNCHANGED <<alive, stopClosed, writerVars, store, history>>

\* The request of the pending call of c enters the channel of worker w.
Enqueue(c, w) ==
    LET k == call[c]
        n == accepted[k] + 1
    IN  /\ workerChannels' = [workerChannels EXCEPT
                ![w] = Append(@, [key |-> k, value |-> n])]
        /\ accepted' = [accepted EXCEPT ![k] = n]
        /\ call' = [call EXCEPT ![c] = NoKey]
        /\ UNCHANGED <<alive, stopClosed, workerBuffers, wpc, exiting, staged,
                       store, lost>>

\* Mutant: the last slot of the channel is never used.
MutLastSlot(c, w) == Len(workerChannels[w]) + 1 < ChanCap /\ Enqueue(c, w)

\* The send blocks while the channel is full.
Send(c, w) == Len(workerChannels[w]) < ChanCap /\ Enqueue(c, w)

\* Mutant: any worker takes the request, whatever its key.
MutAnyWorker(c) ==
    /\ alive /\ call[c] # NoKey
    /\ \E w \in Workers : Send(c, w)

BufferWriteSend(c) ==
    /\ alive /\ call[c] # NoKey
    /\ Send(c, WorkerOf(call[c]))

-----------------------------------------------------------------------------
(* runWorker.  Its select takes any case that is ready.                     *)

\* What flush(w) does first: nothing for an empty map, else start env.Update.
EnterFlush(w) ==
    wpc' = [wpc EXCEPT ![w] =
        IF InBuffer(w) # {} THEN "flush" ELSE IF exiting'[w] THEN "done" ELSE "select"]

\* The first request of the channel is taken, the map becomes buf and is
\* flushed when it holds at least full keys.
Absorb(w, buf, full) ==
    /\ alive /\ wpc[w] = "select" /\ workerChannels[w] # <<>>
    /\ workerChannels' = [workerChannels EXCEPT ![w] = Tail(@)]
    /\ workerBuffers' = [workerBuffers EXCEPT ![w] = buf]
    /\ wpc' = [wpc EXCEPT ![w] =
            IF Cardinality({k \in Keys : buf[k] # 0}) >= full
            THEN "flush" ELSE "select"]
    /\ UNCHANGED <<alive, stopClosed, exiting, staged, store, call, history>>

\* The worker's map with the first request of its channel added; an older
\* value of the key is replaced.
Updated(w) ==
    LET req == Head(workerChannels[w])
    IN  [workerBuffers[w] EXCEPT ![req.key] = req.value]

\* Mutant: a key that is already in the map keeps its value.
MutKeepFirst(w) ==
    LET req == Head(workerChannels[w])
    IN  Absorb(w, [workerBuffers[w] EXCEPT ![req.key] = IF @ = 0 THEN req.value ELSE @],
               MaxBatchSize)

\* Mutant: > instead of >= in the size check.
MutSizeCheck(w) == Absorb(w, Updated(w), MaxBatchSize + 1)

\* case req := <-workerChannels[w]
Receive(w) == Absorb(w, Updated(w), MaxBatchSize)

\* Mutant: the ticker flushes only a full map.
MutTickWhenFull(w) ==
    /\ alive /\ wpc[w] = "select"
    /\ Cardinality(InBuffer(w)) >= MaxBatchSize => wpc' = [wpc EXCEPT ![w] = "flush"]
    /\ Cardinality(InBuffer(w)) < MaxBatchSize => wpc' = wpc
    /\ UNCHANGED <<alive, stopClosed, workerChannels, workerBuffers, exiting, staged,
                   store, call, history>>

\* case <-ticker.C
Tick(w) ==
    /\ alive /\ wpc[w] = "select"
    /\ exiting' = exiting
    /\ EnterFlush(w)
    /\ UNCHANGED <<alive, stopClosed, workerChannels, workerBuffers, staged,
                   store, call, history>>

\* Mutant: the return after the flush is missing.
MutNoReturn(w) ==
    /\ alive /\ wpc[w] = "select" /\ stopClosed
    /\ exiting' = exiting
    /\ EnterFlush(w)
    /\ UNCHANGED <<alive, stopClosed, workerChannels, workerBuffers, staged,
                   store, call, history>>

\* case <-stopChannel: whatever is still in the channel stays there.
Stop(w) ==
    /\ alive /\ wpc[w] = "select" /\ stopClosed
    /\ exiting' = [exiting EXCEPT ![w] = TRUE]
    /\ EnterFlush(w)
    /\ UNCHANGED <<alive, stopClosed, workerChannels, workerBuffers, staged,
                   store, call, history>>

-----------------------------------------------------------------------------
(* flush: one read-write transaction; MDBX admits one writer at a time.     *)

\* Mutant: the map keeps what was flushed.
MutNoClear(w) ==
    /\ wpc' = [wpc EXCEPT ![w] = IF exiting[w] THEN "done" ELSE "select"]
    /\ staged' = {}
    /\ UNCHANGED <<workerBuffers, workerChannels, exiting>>

\* The map is replaced by an empty one whatever env.Update returned.
ClearBuffer(w) ==
    /\ workerBuffers' = [workerBuffers EXCEPT ![w] = None]
    /\ wpc' = [wpc EXCEPT ![w] = IF exiting[w] THEN "done" ELSE "select"]
    /\ staged' = {}
    /\ UNCHANGED <<workerChannels, exiting>>

BeginTxn(w) ==
    /\ alive /\ wpc[w] = "flush"
    /\ \A v \in Workers : wpc[v] # "txn"
    /\ wpc' = [wpc EXCEPT ![w] = "txn"]
    /\ staged' = {}
    /\ UNCHANGED <<alive, stopClosed, workerChannels, workerBuffers, exiting,
                   store, call, history>>

\* One iteration of the loop over the map.
Put(w, k) ==
    /\ alive /\ wpc[w] = "txn"
    /\ k \in InBuffer(w) \ staged
    /\ staged' = staged \cup {k}
    /\ UNCHANGED <<alive, stopClosed, workerChannels, workerBuffers, wpc, exiting,
                   store, call, history>>

\* Mutant: the transaction may commit before the loop is over.
MutCommitEarly(w) ==
    /\ alive /\ wpc[w] = "txn"
    /\ store' = [k \in Keys |-> IF k \in staged THEN workerBuffers[w][k] ELSE store[k]]
    /\ ClearBuffer(w)
    /\ UNCHANGED <<alive, stopClosed, call, history>>

\* The loop is over and the transaction commits.
Commit(w) ==
    /\ alive /\ wpc[w] = "txn" /\ InBuffer(w) \subseteq staged
    /\ store' = [k \in Keys |-> IF k \in staged THEN workerBuffers[w][k] ELSE store[k]]
    /\ ClearBuffer(w)
    /\ UNCHANGED <<alive, stopClosed, call, history>>

\* Mutant: a failed flush sends its values to the back of the channel again.
MutRequeue(w) ==
    /\ MayFail /\ alive /\ wpc[w] = "txn"
    /\ \E k \in InBuffer(w) :
          workerChannels' = [workerChannels EXCEPT
              ![w] = Append(@, [key |-> k, value |-> workerBuffers[w][k]])]
    /\ workerBuffers' = [workerBuffers EXCEPT ![w] = None]
    /\ wpc' = [wpc EXCEPT ![w] = "select"]
    /\ UNCHANGED <<alive, stopClosed, exiting, staged, store, call, history>>

\* env.Update fails: no transaction, no cursor, a Put or the commit refused.
\* The transaction is rolled back, the error is logged, the map is cleared.
FlushError(w) ==
    /\ MayFail
    /\ alive
    /\ \/ wpc[w] = "txn"
       \/ wpc[w] = "flush" /\ \A v \in Workers : wpc[v] # "txn"
    /\ lost' = [k \in Keys |-> Larger(lost[k], workerBuffers[w][k])]
    /\ ClearBuffer(w)
    /\ UNCHANGED <<alive, stopClosed, store, call, accepted>>

-----------------------------------------------------------------------------
(* Stopping, dying and starting again.                                      *)

FlushAndStop ==
    /\ MayStop /\ alive /\ ~stopClosed
    /\ stopClosed' = TRUE
    /\ UNCHANGED <<alive, writerVars, store, call, history>>

\* The state of a writer nobody has used yet, as Init has it.
NewWriter ==
    /\ workerChannels' = [w \in Workers |-> <<>>]
    /\ workerBuffers' = [w \in Workers |-> None]
    /\ wpc' = [w \in Workers |-> "select"]
    /\ exiting' = [w \in Workers |-> FALSE]
    /\ staged' = {}

\* Channels, maps and the open transaction vanish with the process; every
\* write that was still waiting in them is lost.
Die ==
    LET newest(k) == IF \E w \in Workers : \/ workerBuffers[w][k] # 0
                                           \/ \E r \in Queued(w) : r.key = k
                     THEN accepted[k] ELSE lost[k]
    IN  /\ alive' = FALSE
        /\ lost' = [k \in Keys |-> newest(k)]
        /\ call' = [c \in Callers |-> NoKey]
        /\ NewWriter
        /\ UNCHANGED <<stopClosed, store, accepted>>

Crash == MayCrash /\ alive /\ Die

\* A second FlushAndStop closes a closed channel: the process panics.
FlushAndStopAgain == MayStop /\ alive /\ stopClosed /\ Die

\* A new process opens the same database and makes a new BatchWriter.
Restart ==
    /\ MayCrash /\ ~alive
    /\ alive' = TRUE /\ stopClosed' = FALSE
    /\ NewWriter
    /\ UNCHANGED <<store, call, accepted, lost>>

-----------------------------------------------------------------------------

WorkerStep(w) ==
    \/ Receive(w) \/ Tick(w) \/ Stop(w)
    \/ BeginTxn(w) \/ Commit(w) \/ FlushError(w)
    \/ \E k \in Keys : Put(w, k)

Next ==
    \/ \E c \in Callers, k \in Keys : BufferWriteCall(c, k)
    \/ \E c \in Callers : BufferWriteSend(c)
    \/ \E w \in Workers : WorkerStep(w)
    \/ FlushAndStop \/ FlushAndStopAgain \/ Crash \/ Restart

Spec == Init /\ [][Next]_vars

-----------------------------------------------------------------------------
(* Safety.                                                                  *)

\* The requests of a key sit in one channel, oldest first, all of them newer
\* than the value in the map, which is newer than the committed one: the
\* order that lets a worker replace values blindly.
PendingInOrder ==
    \A w \in Workers :
        /\ \A i, j \in DOMAIN workerChannels[w] :
              i < j /\ workerChannels[w][i].key = workerChannels[w][j].key
              => workerChannels[w][i].value < workerChannels[w][j].value
        /\ \A r \in Queued(w) : \A v \in Workers :
              r.value > store[r.key] /\ r.value > workerBuffers[v][r.key]
        /\ \A k \in InBuffer(w) : workerBuffers[w][k] > store[k]

\* A key's requests and its buffered value are with the worker that owns it.
Routed ==
    \A w \in Workers :
        /\ \A i \in DOMAIN workerChannels[w] : WorkerOf(workerChannels[w][i].key) = w
        /\ \A k \in InBuffer(w) : WorkerOf(k) = w

\* No value anywhere is newer than the newest acknowledged write of its key.
BelowAccepted ==
    /\ \A k \in Keys : store[k] <= accepted[k] /\ lost[k] <= accepted[k]
    /\ \A w \in Workers :
        /\ \A k \in Keys : workerBuffers[w][k] <= accepted[k]
        /\ \A r \in Queued(w) : r.value <= accepted[r.key]

\* At most one worker is in a transaction, and it stages keys of its map.
OneTxn ==
    \A w \in Workers : wpc[w] = "txn" =>
        /\ staged \subseteq InBuffer(w)
        /\ \A v \in Workers : wpc[v] = "txn" => v = w

\* The inductive invariant behind the per-key order.
OrderInv == Routed /\ PendingInOrder /\ BelowAccepted /\ OneTxn

\* The state of the writer in every step: well typed, no channel over its
\* capacity, and per key the channel, the map and the database in the order in
\* which the writes were acknowledged.  Inductive.
WriterInv == TypeOK /\ OrderInv

\* The newest acknowledged write of every key is committed, still waiting in
\* a channel or a map, or was thrown away by a failed flush or a crash:
\* nothing else loses it.
NewestAccounted ==
    \A k \in Keys :
        \/ accepted[k] \in {store[k], lost[k]}
        \/ \E w \in Workers :
              \/ workerBuffers[w][k] = accepted[k]
              \/ [key |-> k, value |-> accepted[k]] \in Queued(w)

\* A process that is not running holds nothing.
DeadHoldsNothing ==
    ~alive => \A w \in Workers : workerChannels[w] = <<>> /\ workerBuffers[w] = None

\* A worker waiting in its select holds fewer than maxBatchSize keys, and one
\* that has returned holds none: the len check and the flush on stop are not
\* skipped on any path.
BatchBounded ==
    \A w \in Workers :
        /\ wpc[w] = "select" => Cardinality(InBuffer(w)) < MaxBatchSize
        /\ Cardinality(InBuffer(w)) <= MaxBatchSize
        /\ wpc[w] = "done" => InBuffer(w) = {}

\* Every change of the database is the whole map of one worker: no reader,
\* and no process started after a crash, sees part of a batch.
WholeBatches ==
    [][store' # store =>
        \E w \in Workers : \A k \in Keys :
            store'[k] = IF k \in InBuffer(w) THEN workerBuffers[w][k] ELSE store[k]]_vars

\* No key ever goes back to an older value, through flush errors, crashes
\* and restarts, and every value it takes was acknowledged.
WB == INSTANCE WriteBehind WITH durable <- store

RefinesWriteBehind == WB!Spec
====
