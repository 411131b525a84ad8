---- MODULE BatchWriterProofs ----
(***************************************************************************)
(* Proofs about BatchWriter, for every set of keys, number of workers,     *)
(* batch size, channel capacity and number of writes, with failing         *)
(* flushes, crashes, restarts and stops.                                   *)
(***************************************************************************)
EXTENDS BatchWriter, FiniteSetTheorems, TLAPS

\* What a FIFO channel keeps when a request is appended to it.
LEMMA AppendFacts ==
    ASSUME NEW S, NEW s \in Seq(S), NEW e \in S
    PROVE  /\ Append(s, e) \in Seq(S)
           /\ Len(Append(s, e)) = Len(s) + 1
           /\ \A i \in 1 .. Len(s) : Append(s, e)[i] = s[i]
           /\ Append(s, e)[Len(s) + 1] = e
OBVIOUS

\* What a FIFO channel keeps when its first request is received.
LEMMA TailFacts ==
    ASSUME NEW S, NEW s \in Seq(S), s # <<>>
    PROVE  /\ Head(s) \in S /\ Head(s) = s[1]
           /\ Len(s) \in Nat /\ Len(s) >= 1
           /\ Tail(s) \in Seq(S)
           /\ Len(Tail(s)) = Len(s) - 1
           /\ \A i \in 1 .. Len(s) - 1 : Tail(s)[i] = s[i + 1]
OBVIOUS

\* Every key is assigned to one of the workers.
LEMMA WorkerOfType == \A k \in Keys : WorkerOf(k) \in Workers
BY BytesAssumption, WorkersAssumption DEF WorkerOf, Workers

LEMMA EmptyChannel == Len(<<>>) <= ChanCap /\ <<>> \in Seq(Request)
BY ChanAssumption

LEMMA LargerType == \A m, n \in Nat : Larger(m, n) \in Nat
BY DEF Larger

-----------------------------------------------------------------------------
(* Type correctness.                                                        *)

LEMMA TypeInit == Init => TypeOK
<1> SUFFICES ASSUME Init PROVE TypeOK
  OBVIOUS
<1> QED BY EmptyChannel DEF Init, NewBatchWriter, TypeOK, None

LEMMA TypeNext == TypeOK /\ [Next]_vars => TypeOK'
<1> SUFFICES ASSUME TypeOK, [Next]_vars PROVE TypeOK'
  OBVIOUS
<1> USE DEF TypeOK
<1>1. ASSUME NEW c \in Callers, NEW k \in Keys, BufferWriteCall(c, k) PROVE TypeOK'
  BY <1>1 DEF BufferWriteCall, writerVars, history
<1>2. ASSUME NEW c \in Callers, BufferWriteSend(c) PROVE TypeOK'
  <2> DEFINE k == call[c]
             w == WorkerOf(k)
             r == [key |-> k, value |-> accepted[k] + 1]
  <2>1. k \in Keys /\ w \in Workers /\ r \in Request
    BY <1>2, WorkerOfType DEF BufferWriteSend, Request
  <2>2. /\ Append(workerChannels[w], r) \in Seq(Request)
        /\ Len(Append(workerChannels[w], r)) = Len(workerChannels[w]) + 1
    BY <2>1, AppendFacts
  <2>3. /\ Len(workerChannels[w]) < ChanCap
        /\ workerChannels' = [workerChannels EXCEPT ![w] = Append(@, r)]
    BY <1>2 DEF BufferWriteSend, Send, Enqueue
  <2>4. /\ workerChannels' \in [Workers -> Seq(Request)]
        /\ \A v \in Workers : Len(workerChannels'[v]) <= ChanCap
    BY <2>1, <2>2, <2>3, ChanAssumption
  <2> QED BY <1>2, <2>1, <2>4 DEF BufferWriteSend, Send, Enqueue
<1>3. ASSUME NEW w \in Workers, Receive(w) PROVE TypeOK'
  <2>1. /\ workerChannels[w] # <<>>
        /\ workerChannels' = [workerChannels EXCEPT ![w] = Tail(@)]
    BY <1>3 DEF Receive, Absorb
  <2>2. /\ Head(workerChannels[w]) \in Request
        /\ Tail(workerChannels[w]) \in Seq(Request)
        /\ Len(Tail(workerChannels[w])) = Len(workerChannels[w]) - 1
        /\ Len(workerChannels[w]) \in Nat
    BY <2>1, TailFacts
  <2>3. /\ workerChannels' \in [Workers -> Seq(Request)]
        /\ \A v \in Workers : Len(workerChannels'[v]) <= ChanCap
    BY <2>1, <2>2, ChanAssumption
  <2>4. Updated(w) \in [Keys -> Nat]
    BY <2>2 DEF Updated, Request
  <2> QED BY <1>3, <2>3, <2>4 DEF Receive, Absorb, history
<1>4. ASSUME NEW w \in Workers, Tick(w) PROVE TypeOK'
  BY <1>4 DEF Tick, EnterFlush, history
<1>5. ASSUME NEW w \in Workers, Stop(w) PROVE TypeOK'
  BY <1>5 DEF Stop, EnterFlush, history
<1>6. ASSUME NEW w \in Workers, BeginTxn(w) PROVE TypeOK'
  BY <1>6 DEF BeginTxn, history
<1>7. ASSUME NEW w \in Workers, Commit(w) PROVE TypeOK'
  BY <1>7 DEF Commit, ClearBuffer, None, history
<1>8. ASSUME NEW w \in Workers, FlushError(w) PROVE TypeOK'
  BY <1>8, LargerType, ZenonT(60) DEF FlushError, ClearBuffer, None
<1>9. ASSUME NEW w \in Workers, NEW k \in Keys, Put(w, k) PROVE TypeOK'
  BY <1>9 DEF Put, history
<1>10. CASE FlushAndStop
  BY <1>10 DEF FlushAndStop, writerVars, history
<1>11. CASE Die
  BY <1>11, EmptyChannel DEF Die, NewWriter, None
<1>12. CASE Restart
  BY <1>12, EmptyChannel DEF Restart, NewWriter, None
<1>13. CASE UNCHANGED vars
  BY <1>13 DEF vars, writerVars, history
<1> QED
  BY <1>1, <1>2, <1>3, <1>4, <1>5, <1>6, <1>7, <1>8, <1>9, <1>10, <1>11, <1>12, <1>13
     DEF Next, WorkerStep, Crash, FlushAndStopAgain

\* Every reachable state of the writer is well typed, and no channel ever
\* holds more than its capacity.
THEOREM TypeCorrect == Spec => []TypeOK
BY TypeInit, TypeNext, PTL DEF Spec

-----------------------------------------------------------------------------
(* Per-key order.                                                           *)

\* The indices of a well-typed channel.
LEMMA ChannelDomain ==
    ASSUME TypeOK, NEW w \in Workers
    PROVE  /\ DOMAIN workerChannels[w] = 1 .. Len(workerChannels[w])
           /\ Len(workerChannels[w]) \in Nat
           /\ \A i \in DOMAIN workerChannels[w] :
                 /\ workerChannels[w][i] \in Request
                 /\ workerChannels[w][i].key \in Keys
                 /\ workerChannels[w][i].value \in Nat
<1>1. workerChannels[w] \in Seq(Request)
  BY DEF TypeOK
<1>2. /\ DOMAIN workerChannels[w] = 1 .. Len(workerChannels[w])
      /\ Len(workerChannels[w]) \in Nat
  BY <1>1
<1>3. ASSUME NEW i \in 1 .. Len(workerChannels[w])
      PROVE  workerChannels[w][i] \in Request
  BY <1>1
<1> QED BY <1>2, <1>3 DEF Request

LEMMA OrderInit == Init => OrderInv
<1> SUFFICES ASSUME Init PROVE OrderInv
  OBVIOUS
<1>1. \A w \in Workers : workerChannels[w] = <<>> /\ Queued(w) = {} /\ InBuffer(w) = {}
  BY DEF Init, NewBatchWriter, Queued, InBuffer, None
<1>2. Routed
  BY <1>1 DEF Routed
<1>3. PendingInOrder
  BY <1>1 DEF PendingInOrder
<1>4. BelowAccepted
  BY <1>1 DEF BelowAccepted, Init, NewBatchWriter, None
<1>5. OneTxn
  BY DEF OneTxn, Init, NewBatchWriter
<1> QED BY <1>2, <1>3, <1>4, <1>5 DEF OrderInv

\* A step that touches no request, map entry, committed value or history
\* keeps the three data conjuncts.
LEMMA DataUnchanged ==
    ASSUME OrderInv,
           UNCHANGED <<workerChannels, workerBuffers, store, accepted, lost>>
    PROVE  Routed' /\ PendingInOrder' /\ BelowAccepted'
BY DEF OrderInv, Routed, PendingInOrder, BelowAccepted, Queued, InBuffer

LEMMA OrderSend ==
    ASSUME TypeOK, OrderInv, NEW c \in Callers, BufferWriteSend(c)
    PROVE  OrderInv'
<1> DEFINE k == call[c]
           w == WorkerOf(k)
           n == accepted[k] + 1
           r == [key |-> k, value |-> n]
           ch == workerChannels[w]
<1>1. k \in Keys /\ w \in Workers /\ r \in Request /\ n \in Nat
  BY WorkerOfType DEF BufferWriteSend, Request, TypeOK
<1>2. /\ workerChannels' = [workerChannels EXCEPT ![w] = Append(ch, r)]
      /\ accepted' = [accepted EXCEPT ![k] = n]
      /\ UNCHANGED <<workerBuffers, wpc, staged, store, lost>>
  BY DEF BufferWriteSend, Send, Enqueue
<1>3. ch \in Seq(Request) /\ DOMAIN ch = 1 .. Len(ch) /\ Len(ch) \in Nat
  BY <1>1, ChannelDomain DEF TypeOK
<1>4. /\ \A v \in Workers \ {w} : workerChannels'[v] = workerChannels[v]
      /\ DOMAIN workerChannels'[w] = 1 .. Len(ch) + 1
      /\ \A i \in 1 .. Len(ch) : workerChannels'[w][i] = ch[i]
      /\ workerChannels'[w][Len(ch) + 1] = r
  BY <1>1, <1>2, <1>3, AppendFacts DEF TypeOK
<1>5. /\ \A j \in Keys : accepted'[j] \in Nat /\ accepted'[j] >= accepted[j]
      /\ accepted'[k] = n
      /\ accepted[k] < n
  BY <1>1, <1>2 DEF TypeOK
<1>6. Routed'
  BY <1>1, <1>2, <1>3, <1>4 DEF OrderInv, Routed, InBuffer
<1>7. BelowAccepted'
  <2>1. \A j \in Keys : store'[j] <= accepted'[j] /\ lost'[j] <= accepted'[j]
    BY <1>2, <1>5 DEF OrderInv, BelowAccepted, TypeOK
  <2>2. ASSUME NEW v \in Workers, NEW j \in Keys
        PROVE  workerBuffers'[v][j] <= accepted'[j]
    BY <1>2, <1>5 DEF OrderInv, BelowAccepted, TypeOK
  <2>3. ASSUME NEW v \in Workers, NEW i \in DOMAIN workerChannels'[v]
        PROVE  workerChannels'[v][i].value <= accepted'[workerChannels'[v][i].key]
    <3>1. CASE v = w /\ i = Len(ch) + 1
      BY <3>1, <1>1, <1>4, <1>5
    <3>2. CASE ~(v = w /\ i = Len(ch) + 1)
      <4>1. i \in DOMAIN workerChannels[v] /\ workerChannels'[v][i] = workerChannels[v][i]
        BY <3>2, <1>3, <1>4
      <4>2. workerChannels[v][i] \in Queued(v)
        BY <4>1 DEF Queued
      <4>3. workerChannels[v][i].value <= accepted[workerChannels[v][i].key]
        BY <4>2 DEF OrderInv, BelowAccepted
      <4>4. workerChannels[v][i].value \in Nat /\ workerChannels[v][i].key \in Keys
        BY <4>1, ChannelDomain
      <4> QED BY <4>1, <4>3, <4>4, <1>5 DEF TypeOK
    <3> QED BY <3>1, <3>2
  <2> QED BY <2>1, <2>2, <2>3 DEF BelowAccepted, Queued
<1>8. PendingInOrder'
  <2>1. ASSUME NEW v \in Workers, NEW i \in DOMAIN workerChannels'[v],
               NEW j \in DOMAIN workerChannels'[v], i < j,
               workerChannels'[v][i].key = workerChannels'[v][j].key
        PROVE  workerChannels'[v][i].value < workerChannels'[v][j].value
    <3>1. CASE v = w /\ j = Len(ch) + 1
      <4>1. i \in DOMAIN ch /\ workerChannels'[v][i] = ch[i]
        BY <2>1, <3>1, <1>3, <1>4
      <4>2. ch[i].value <= accepted[ch[i].key]
        BY <4>1, <1>1 DEF OrderInv, BelowAccepted, Queued
      <4>3. ch[i].value \in Nat
        BY <4>1, <1>1, ChannelDomain
      <4> QED BY <2>1, <3>1, <4>1, <4>2, <4>3, <1>1, <1>4, <1>5 DEF TypeOK
    <3>2. CASE ~(v = w /\ j = Len(ch) + 1)
      <4>1. /\ i \in DOMAIN workerChannels[v] /\ workerChannels'[v][i] = workerChannels[v][i]
            /\ j \in DOMAIN workerChannels[v] /\ workerChannels'[v][j] = workerChannels[v][j]
        BY <2>1, <3>2, <1>3, <1>4, SMTT(30)
      <4> QED BY <2>1, <4>1 DEF OrderInv, PendingInOrder
    <3> QED BY <3>1, <3>2
  <2>2. ASSUME NEW v \in Workers, NEW i \in DOMAIN workerChannels'[v], NEW u \in Workers
        PROVE  /\ workerChannels'[v][i].value > store'[workerChannels'[v][i].key]
               /\ workerChannels'[v][i].value > workerBuffers'[u][workerChannels'[v][i].key]
    <3>1. CASE v = w /\ i = Len(ch) + 1
      BY <3>1, <1>1, <1>2, <1>4, <1>5 DEF OrderInv, BelowAccepted, TypeOK
    <3>2. CASE ~(v = w /\ i = Len(ch) + 1)
      <4>1. i \in DOMAIN workerChannels[v] /\ workerChannels'[v][i] = workerChannels[v][i]
        BY <3>2, <1>3, <1>4
      <4>2. workerChannels[v][i] \in Queued(v)
        BY <4>1 DEF Queued
      <4> QED BY <4>1, <4>2, <1>2 DEF OrderInv, PendingInOrder
    <3> QED BY <3>1, <3>2
  <2>3. \A v \in Workers : \A j \in InBuffer(v)' : workerBuffers'[v][j] > store'[j]
    BY <1>2 DEF OrderInv, PendingInOrder, InBuffer
  <2> QED BY <2>1, <2>2, <2>3 DEF PendingInOrder, Queued
<1>9. OneTxn'
  BY <1>2 DEF OrderInv, OneTxn, InBuffer
<1> QED BY <1>6, <1>7, <1>8, <1>9 DEF OrderInv

LEMMA OrderReceive ==
    ASSUME TypeOK, OrderInv, NEW w \in Workers, Receive(w)
    PROVE  OrderInv'
<1> DEFINE ch == workerChannels[w]
           r == Head(ch)
<1>1. /\ ch # <<>>
      /\ workerChannels' = [workerChannels EXCEPT ![w] = Tail(ch)]
      /\ workerBuffers' = [workerBuffers EXCEPT ![w] = [workerBuffers[w] EXCEPT ![r.key] = r.value]]
      /\ wpc[w] = "select"
      /\ wpc'[w] # "txn" /\ \A v \in Workers \ {w} : wpc'[v] = wpc[v]
      /\ UNCHANGED <<staged, store, accepted, lost>>
  <2>1. wpc \in [Workers -> {"select", "flush", "txn", "done"}]
    BY DEF TypeOK
  <2> QED BY <2>1 DEF Receive, Absorb, Updated, history
<1>2. /\ ch \in Seq(Request) /\ DOMAIN ch = 1 .. Len(ch) /\ Len(ch) \in Nat /\ Len(ch) >= 1
      /\ r \in Request /\ r = ch[1] /\ r.key \in Keys /\ r.value \in Nat
  <2>1. ch \in Seq(Request)
    BY DEF TypeOK
  <2>2. r \in Request /\ r = ch[1] /\ Len(ch) >= 1
    BY <2>1, <1>1, TailFacts
  <2>3. r.key \in Keys /\ r.value \in Nat
    BY <2>2 DEF Request
  <2> QED BY <2>1, <2>2, <2>3, ChannelDomain
<1>3. /\ \A v \in Workers \ {w} : workerChannels'[v] = workerChannels[v]
      /\ DOMAIN workerChannels'[w] = 1 .. Len(ch) - 1
      /\ \A i \in 1 .. Len(ch) - 1 : workerChannels'[w][i] = ch[i + 1]
  BY <1>1, <1>2, TailFacts DEF TypeOK
<1>4. /\ \A v \in Workers \ {w} : workerBuffers'[v] = workerBuffers[v]
      /\ \A k \in Keys \ {r.key} : workerBuffers'[w][k] = workerBuffers[w][k]
      /\ workerBuffers'[w][r.key] = r.value
  BY <1>1, <1>2 DEF TypeOK
<1>5. /\ WorkerOf(r.key) = w /\ r \in Queued(w)
      /\ r.value <= accepted[r.key] /\ r.value > store[r.key]
  BY <1>2 DEF OrderInv, Routed, BelowAccepted, PendingInOrder, Queued
\* A request that is still queued was queued before, w's one place later.
<1>6. ASSUME NEW v \in Workers, NEW i \in DOMAIN workerChannels'[v]
      PROVE  /\ workerChannels'[v][i] \in Queued(v)
             /\ WorkerOf(workerChannels'[v][i].key) = v
             /\ v = w => i + 1 \in DOMAIN ch /\ workerChannels'[v][i] = ch[i + 1]
  <2>1. CASE v = w
    BY <2>1, <1>2, <1>3 DEF Queued, OrderInv, Routed
  <2>2. CASE v # w
    BY <2>2, <1>3 DEF Queued, OrderInv, Routed
  <2> QED BY <2>1, <2>2
<1>7. Routed'
  BY <1>4, <1>5, <1>6 DEF OrderInv, Routed, InBuffer
<1>8. BelowAccepted'
  <2>1. ASSUME NEW v \in Workers, NEW k \in Keys PROVE workerBuffers'[v][k] <= accepted'[k]
    BY <1>1, <1>4, <1>5 DEF OrderInv, BelowAccepted
  <2>2. \A v \in Workers : \A i \in DOMAIN workerChannels'[v] :
          workerChannels'[v][i].value <= accepted'[workerChannels'[v][i].key]
    BY <1>1, <1>6 DEF OrderInv, BelowAccepted
  <2> QED BY <2>1, <2>2, <1>1 DEF OrderInv, BelowAccepted, Queued
<1>9. PendingInOrder'
  <2>1. ASSUME NEW v \in Workers, NEW i \in DOMAIN workerChannels'[v],
               NEW j \in DOMAIN workerChannels'[v], i < j,
               workerChannels'[v][i].key = workerChannels'[v][j].key
        PROVE  workerChannels'[v][i].value < workerChannels'[v][j].value
    <3>1. CASE v = w
      <4>1. i \in Nat /\ j \in Nat /\ i + 1 < j + 1
        BY <2>1, <3>1, <1>2, <1>3
      <4> QED BY <2>1, <3>1, <4>1, <1>6 DEF OrderInv, PendingInOrder
    <3>2. CASE v # w
      BY <2>1, <3>2, <1>3 DEF OrderInv, PendingInOrder
    <3> QED BY <3>1, <3>2
  <2>2. ASSUME NEW v \in Workers, NEW i \in DOMAIN workerChannels'[v], NEW u \in Workers
        PROVE  /\ workerChannels'[v][i].value > store'[workerChannels'[v][i].key]
               /\ workerChannels'[v][i].value > workerBuffers'[u][workerChannels'[v][i].key]
    <3> DEFINE q == workerChannels'[v][i]
    <3>1. q.value > store[q.key] /\ q.value > workerBuffers[u][q.key]
      BY <1>6 DEF OrderInv, PendingInOrder
    <3>2. CASE u = w /\ q.key = r.key
      <4>1. v = w
        BY <3>2, <1>5, <1>6
      <4>2. i + 1 \in DOMAIN ch /\ q = ch[i + 1] /\ 1 \in DOMAIN ch /\ 1 < i + 1
        BY <4>1, <1>2, <1>3, <1>6
      <4>3. r.value < q.value
        BY <3>2, <4>2, <1>2 DEF OrderInv, PendingInOrder
      <4>4. q.value \in Nat
        BY <4>2, ChannelDomain
      <4> QED BY <3>1, <3>2, <4>3, <4>4, <1>1, <1>2, <1>4
    <3>3. CASE ~(u = w /\ q.key = r.key)
      <4>1. q.key \in Keys
        BY <1>6, ChannelDomain DEF Queued
      <4>2. workerBuffers'[u][q.key] = workerBuffers[u][q.key]
        BY <3>3, <4>1, <1>4
      <4> QED BY <3>1, <4>2, <1>1
    <3> QED BY <3>2, <3>3
  <2>3. \A v \in Workers : \A k \in InBuffer(v)' : workerBuffers'[v][k] > store'[k]
    BY <1>1, <1>4, <1>5 DEF OrderInv, PendingInOrder, InBuffer
  <2> QED BY <2>1, <2>2, <2>3 DEF PendingInOrder, Queued
<1>10. OneTxn'
  BY <1>1, <1>4 DEF OrderInv, OneTxn, InBuffer
<1> QED BY <1>7, <1>8, <1>9, <1>10 DEF OrderInv

LEMMA OrderCommit ==
    ASSUME TypeOK, OrderInv, NEW w \in Workers, Commit(w)
    PROVE  OrderInv'
<1>1. /\ wpc[w] = "txn" /\ wpc'[w] # "txn" /\ \A v \in Workers \ {w} : wpc'[v] = wpc[v]
      /\ \A v \in Workers \ {w} : workerBuffers'[v] = workerBuffers[v]
      /\ \A k \in Keys : workerBuffers'[w][k] = 0
      /\ UNCHANGED <<workerChannels, accepted, lost>>
  BY DEF Commit, ClearBuffer, None, history, TypeOK
<1>2. \A k \in Keys : store'[k] = IF k \in staged THEN workerBuffers[w][k] ELSE store[k]
  BY DEF Commit
<1>3. staged \subseteq InBuffer(w) /\ \A k \in staged : WorkerOf(k) = w
  BY <1>1 DEF OrderInv, OneTxn, Routed
<1>4. Routed'
  BY <1>1 DEF OrderInv, Routed, InBuffer
<1>5. BelowAccepted'
  <2>1. \A k \in Keys : store'[k] <= accepted'[k] /\ lost'[k] <= accepted'[k]
    BY <1>1, <1>2 DEF OrderInv, BelowAccepted
  <2>2. ASSUME NEW v \in Workers, NEW k \in Keys PROVE workerBuffers'[v][k] <= accepted'[k]
    <3>1. accepted[k] \in Nat /\ workerBuffers[v][k] <= accepted[k]
      BY DEF OrderInv, BelowAccepted, TypeOK
    <3> QED BY <3>1, <1>1
  <2> QED BY <2>1, <2>2, <1>1 DEF OrderInv, BelowAccepted, Queued
<1>6. PendingInOrder'
  <2>1. ASSUME NEW v \in Workers, NEW i \in DOMAIN workerChannels[v], NEW u \in Workers
        PROVE  /\ workerChannels[v][i].value > store'[workerChannels[v][i].key]
               /\ workerChannels[v][i].value > workerBuffers'[u][workerChannels[v][i].key]
    <3> DEFINE q == workerChannels[v][i]
    <3>1. q \in Queued(v) /\ q.key \in Keys /\ q.value \in Nat
      BY ChannelDomain DEF Queued
    <3>2. q.value > store[q.key] /\ \A x \in Workers : q.value > workerBuffers[x][q.key]
      BY <3>1 DEF OrderInv, PendingInOrder
    <3>3. workerBuffers[w][q.key] \in Nat
      BY <3>1 DEF TypeOK
    <3> QED BY <3>1, <3>2, <3>3, <1>1, <1>2
  <2>2. ASSUME NEW v \in Workers, NEW k \in InBuffer(v)' PROVE workerBuffers'[v][k] > store'[k]
    <3>1. k \in Keys /\ v # w /\ k \in InBuffer(v) /\ WorkerOf(k) = v
      BY <1>1 DEF InBuffer, OrderInv, Routed
    <3> QED BY <3>1, <1>1, <1>2, <1>3 DEF OrderInv, PendingInOrder
  <2>3. \A v \in Workers : \A i, j \in DOMAIN workerChannels'[v] :
          i < j /\ workerChannels'[v][i].key = workerChannels'[v][j].key
          => workerChannels'[v][i].value < workerChannels'[v][j].value
    BY <1>1 DEF OrderInv, PendingInOrder
  <2> QED BY <2>1, <2>2, <2>3, <1>1 DEF PendingInOrder, Queued
<1>7. OneTxn'
  BY <1>1 DEF OrderInv, OneTxn
<1> QED BY <1>4, <1>5, <1>6, <1>7 DEF OrderInv

LEMMA OrderFlushError ==
    ASSUME TypeOK, OrderInv, NEW w \in Workers, FlushError(w)
    PROVE  OrderInv'
<1>1. /\ wpc'[w] # "txn" /\ \A v \in Workers \ {w} : wpc'[v] = wpc[v]
      /\ wpc[w] = "txn" \/ \A v \in Workers : wpc[v] # "txn"
      /\ \A v \in Workers \ {w} : workerBuffers'[v] = workerBuffers[v]
      /\ \A k \in Keys : workerBuffers'[w][k] = 0
      /\ \A k \in Keys : lost'[k] = Larger(lost[k], workerBuffers[w][k])
      /\ UNCHANGED <<workerChannels, accepted, store>>
  BY DEF FlushError, ClearBuffer, None, TypeOK
<1>2. Routed'
  BY <1>1 DEF OrderInv, Routed, InBuffer
<1>3. BelowAccepted'
  <2>1. \A k \in Keys : store'[k] <= accepted'[k] /\ lost'[k] <= accepted'[k]
    BY <1>1 DEF OrderInv, BelowAccepted, Larger
  <2>2. ASSUME NEW v \in Workers, NEW k \in Keys PROVE workerBuffers'[v][k] <= accepted'[k]
    <3>1. accepted[k] \in Nat /\ workerBuffers[v][k] <= accepted[k]
      BY DEF OrderInv, BelowAccepted, TypeOK
    <3> QED BY <3>1, <1>1
  <2> QED BY <2>1, <2>2, <1>1 DEF OrderInv, BelowAccepted, Queued
<1>4. PendingInOrder'
  <2>1. ASSUME NEW v \in Workers, NEW i \in DOMAIN workerChannels[v], NEW u \in Workers
        PROVE  /\ workerChannels[v][i].value > store[workerChannels[v][i].key]
               /\ workerChannels[v][i].value > workerBuffers'[u][workerChannels[v][i].key]
    <3> DEFINE q == workerChannels[v][i]
    <3>1. q \in Queued(v) /\ q.key \in Keys /\ q.value \in Nat
      BY ChannelDomain DEF Queued
    <3>2. q.value > store[q.key] /\ q.value > workerBuffers[u][q.key]
      BY <3>1 DEF OrderInv, PendingInOrder
    <3>3. workerBuffers[u][q.key] \in Nat
      BY <3>1 DEF TypeOK
    <3> QED BY <3>1, <3>2, <3>3, <1>1
  <2>2. \A v \in Workers : \A k \in InBuffer(v)' : workerBuffers'[v][k] > store'[k]
    BY <1>1 DEF OrderInv, PendingInOrder, InBuffer
  <2> QED BY <2>1, <2>2, <1>1 DEF OrderInv, PendingInOrder, Queued
<1>5. OneTxn'
  BY <1>1 DEF OrderInv, OneTxn
<1> QED BY <1>2, <1>3, <1>4, <1>5 DEF OrderInv

\* A writer nobody has used holds nothing, so nothing in it is out of order.
LEMMA OrderNewWriter ==
    ASSUME TypeOK, OrderInv, NewWriter, UNCHANGED <<store, accepted>>,
           \A k \in Keys : lost'[k] <= accepted[k]
    PROVE  OrderInv'
<1>1. \A w \in Workers :
        /\ workerChannels'[w] = <<>> /\ wpc'[w] = "select"
        /\ \A k \in Keys : workerBuffers'[w][k] = 0
  BY DEF NewWriter, None
<1>2. Routed' /\ PendingInOrder' /\ OneTxn'
  BY <1>1 DEF Routed, PendingInOrder, OneTxn, Queued, InBuffer
<1>3. BelowAccepted'
  BY <1>1 DEF BelowAccepted, OrderInv, Queued, TypeOK
<1> QED BY <1>2, <1>3 DEF OrderInv

LEMMA OrderNext == TypeOK /\ OrderInv /\ [Next]_vars => OrderInv'
<1> SUFFICES ASSUME TypeOK, OrderInv, [Next]_vars PROVE OrderInv'
  OBVIOUS
<1>1. ASSUME NEW c \in Callers, NEW k \in Keys, BufferWriteCall(c, k) PROVE OrderInv'
  <2>1. UNCHANGED <<workerChannels, workerBuffers, wpc, staged, store, accepted, lost>>
    BY <1>1 DEF BufferWriteCall, writerVars, history
  <2> QED BY <2>1, DataUnchanged DEF OrderInv, OneTxn, InBuffer
<1>2. ASSUME NEW c \in Callers, BufferWriteSend(c) PROVE OrderInv'
  BY <1>2, OrderSend
<1>3. ASSUME NEW w \in Workers, Receive(w) PROVE OrderInv'
  BY <1>3, OrderReceive
<1>4. ASSUME NEW w \in Workers, Tick(w) \/ Stop(w) PROVE OrderInv'
  <2>1. /\ UNCHANGED <<workerChannels, workerBuffers, staged, store, accepted, lost>>
        /\ wpc'[w] # "txn" /\ \A v \in Workers \ {w} : wpc'[v] = wpc[v]
    BY <1>4 DEF Tick, Stop, EnterFlush, history, TypeOK
  <2> QED BY <2>1, DataUnchanged DEF OrderInv, OneTxn, InBuffer
<1>5. ASSUME NEW w \in Workers, BeginTxn(w) PROVE OrderInv'
  <2>1. /\ UNCHANGED <<workerChannels, workerBuffers, store, accepted, lost>>
        /\ staged' = {} /\ \A v \in Workers : wpc[v] # "txn"
        /\ \A v \in Workers \ {w} : wpc'[v] = wpc[v]
    BY <1>5 DEF BeginTxn, history, TypeOK
  <2> QED BY <2>1, DataUnchanged DEF OrderInv, OneTxn, InBuffer
<1>6. ASSUME NEW w \in Workers, NEW k \in Keys, Put(w, k) PROVE OrderInv'
  <2>1. /\ UNCHANGED <<workerChannels, workerBuffers, wpc, store, accepted, lost>>
        /\ wpc[w] = "txn" /\ k \in InBuffer(w) /\ staged' = staged \cup {k}
    BY <1>6 DEF Put, history
  <2> QED BY <2>1, DataUnchanged DEF OrderInv, OneTxn, InBuffer
<1>7. ASSUME NEW w \in Workers, Commit(w) PROVE OrderInv'
  BY <1>7, OrderCommit
<1>8. ASSUME NEW w \in Workers, FlushError(w) PROVE OrderInv'
  BY <1>8, OrderFlushError
<1>9. CASE FlushAndStop
  <2>1. UNCHANGED <<workerChannels, workerBuffers, wpc, staged, store, accepted, lost>>
    BY <1>9 DEF FlushAndStop, writerVars, history
  <2> QED BY <2>1, DataUnchanged DEF OrderInv, OneTxn, InBuffer
<1>10. CASE Die
  <2>1. ASSUME NEW k \in Keys PROVE lost'[k] \in {accepted[k], lost[k]}
    BY <1>10 DEF Die
  <2>2. ASSUME NEW k \in Keys PROVE lost'[k] <= accepted[k]
    <3>1. accepted[k] \in Nat /\ lost[k] <= accepted[k]
      BY DEF OrderInv, BelowAccepted, TypeOK
    <3> QED BY <2>1, <3>1
  <2> QED BY <1>10, <2>2, OrderNewWriter DEF Die
<1>11. CASE Restart
  BY <1>11, OrderNewWriter DEF Restart, OrderInv, BelowAccepted
<1>12. CASE UNCHANGED vars
  <2>1. UNCHANGED <<workerChannels, workerBuffers, wpc, staged, store, accepted, lost>>
    BY <1>12 DEF vars, writerVars, history
  <2> QED BY <2>1, DataUnchanged DEF OrderInv, OneTxn, InBuffer
<1> QED
  BY <1>1, <1>2, <1>3, <1>4, <1>5, <1>6, <1>7, <1>8, <1>9, <1>10, <1>11, <1>12
     DEF Next, WorkerStep, Crash, FlushAndStopAgain

\* The invariant of the writer holds in every reachable state, however calls,
\* workers, failing flushes, crashes and restarts interleave.
THEOREM WriterCorrect == Spec => []WriterInv
<1>1. Init => WriterInv
  BY TypeInit, OrderInit DEF WriterInv
<1>2. WriterInv /\ [Next]_vars => WriterInv'
  BY TypeNext, OrderNext DEF WriterInv
<1> QED BY <1>1, <1>2, PTL DEF Spec

\* In every reachable state the waiting values of a key are newer than the
\* committed one and ordered as they were acknowledged: the blind
\* replacement in the workers' maps and in MDBX never loses a newer value.
THEOREM OrderCorrect == Spec => []PendingInOrder
<1>1. WriterInv => PendingInOrder
  BY DEF WriterInv, OrderInv
<1> QED BY WriterCorrect, <1>1, PTL

-----------------------------------------------------------------------------
(* What was acknowledged is not lost without a failure.                     *)

LEMMA DeadNext == TypeOK /\ DeadHoldsNothing /\ [Next]_vars => DeadHoldsNothing'
<1> SUFFICES ASSUME TypeOK, DeadHoldsNothing, [Next]_vars, ~alive' PROVE DeadHoldsNothing'
  BY DEF DeadHoldsNothing
<1>1. CASE NewWriter
  BY <1>1 DEF NewWriter, DeadHoldsNothing
<1>2. CASE UNCHANGED <<alive, workerChannels, workerBuffers>>
  BY <1>2 DEF DeadHoldsNothing
<1>3. ASSUME NEW c \in Callers, NEW k \in Keys, BufferWriteCall(c, k) PROVE FALSE
  BY <1>3 DEF BufferWriteCall
<1>4. ASSUME NEW c \in Callers, BufferWriteSend(c) PROVE FALSE
  BY <1>4 DEF BufferWriteSend, Send, Enqueue
<1>5. ASSUME NEW w \in Workers, WorkerStep(w) PROVE FALSE
  BY <1>5 DEF WorkerStep, Receive, Absorb, Tick, Stop, BeginTxn, Put, Commit, FlushError
<1>6. CASE FlushAndStop
  BY <1>6 DEF FlushAndStop
<1>7. CASE FlushAndStopAgain \/ Crash \/ Restart
  BY <1>1, <1>7 DEF FlushAndStopAgain, Crash, Restart, Die
<1>8. CASE UNCHANGED vars
  BY <1>2, <1>8 DEF vars, writerVars
<1> QED BY <1>3, <1>4, <1>5, <1>6, <1>7, <1>8 DEF Next

LEMMA AccountedSend ==
    ASSUME TypeOK, NewestAccounted, NEW c \in Callers, BufferWriteSend(c)
    PROVE  NewestAccounted'
<1> DEFINE k == call[c]
           w == WorkerOf(k)
           r == [key |-> k, value |-> accepted[k] + 1]
           ch == workerChannels[w]
<1>1. /\ k \in Keys /\ w \in Workers /\ r \in Request
      /\ ch \in Seq(Request) /\ DOMAIN ch = 1 .. Len(ch) /\ Len(ch) \in Nat
  <2>1. k \in Keys /\ r \in Request
    BY DEF BufferWriteSend, Request, TypeOK
  <2>2. w \in Workers
    BY <2>1, WorkerOfType
  <2> QED BY <2>1, <2>2, ChannelDomain DEF TypeOK
<1>2. /\ workerChannels' = [workerChannels EXCEPT ![w] = Append(ch, r)]
      /\ accepted' = [accepted EXCEPT ![k] = accepted[k] + 1]
      /\ UNCHANGED <<workerBuffers, store, lost>>
  BY DEF BufferWriteSend, Send, Enqueue
<1>3. /\ \A v \in Workers \ {w} : workerChannels'[v] = workerChannels[v]
      /\ DOMAIN workerChannels'[w] = 1 .. Len(ch) + 1
      /\ \A i \in 1 .. Len(ch) : workerChannels'[w][i] = ch[i]
      /\ workerChannels'[w][Len(ch) + 1] = r
  BY <1>1, <1>2, AppendFacts DEF TypeOK
<1>4. \A v \in Workers :
        /\ v = w => r \in Queued(v)'
        /\ Queued(v) \subseteq Queued(v)'
  BY <1>1, <1>3 DEF Queued
<1>5. /\ accepted'[k] = r.value
      /\ \A j \in Keys \ {k} : accepted'[j] = accepted[j]
  BY <1>1, <1>2 DEF TypeOK
<1>6. ASSUME NEW j \in Keys
      PROVE  \/ accepted'[j] \in {store'[j], lost'[j]}
             \/ \E v \in Workers : \/ workerBuffers'[v][j] = accepted'[j]
                                    \/ [key |-> j, value |-> accepted'[j]] \in Queued(v)'
  <2>1. CASE j = k
    BY <2>1, <1>1, <1>4, <1>5
  <2>2. CASE j # k
    BY <2>2, <1>2, <1>4, <1>5 DEF NewestAccounted
  <2> QED BY <2>1, <2>2
<1> QED BY <1>6 DEF NewestAccounted

LEMMA AccountedReceive ==
    ASSUME TypeOK, OrderInv, NewestAccounted, NEW w \in Workers, Receive(w)
    PROVE  NewestAccounted'
<1> DEFINE ch == workerChannels[w]
           r == Head(ch)
<1>1. /\ ch # <<>>
      /\ workerChannels' = [workerChannels EXCEPT ![w] = Tail(ch)]
      /\ workerBuffers' = [workerBuffers EXCEPT ![w] = [workerBuffers[w] EXCEPT ![r.key] = r.value]]
      /\ UNCHANGED <<store, accepted, lost>>
  BY DEF Receive, Absorb, Updated, history
<1>2. /\ ch \in Seq(Request) /\ DOMAIN ch = 1 .. Len(ch) /\ Len(ch) \in Nat
      /\ r \in Request /\ r = ch[1] /\ Len(ch) >= 1
  BY <1>1, ChannelDomain, TailFacts DEF TypeOK
<1>3. r.key \in Keys /\ r.value \in Nat /\ r \in Queued(w)
  BY <1>2 DEF Request, Queued
<1>4. /\ \A v \in Workers \ {w} : workerChannels'[v] = workerChannels[v]
      /\ DOMAIN workerChannels'[w] = 1 .. Len(ch) - 1
      /\ \A i \in 1 .. Len(ch) - 1 : workerChannels'[w][i] = ch[i + 1]
  BY <1>1, <1>2, TailFacts DEF TypeOK
<1>5. /\ \A v \in Workers \ {w} : workerBuffers'[v] = workerBuffers[v]
      /\ \A k \in Keys \ {r.key} : workerBuffers'[w][k] = workerBuffers[w][k]
      /\ workerBuffers'[w][r.key] = r.value
  BY <1>1, <1>3 DEF TypeOK
<1>6. ASSUME NEW v \in Workers, NEW q \in Queued(v), q # r PROVE q \in Queued(v)'
  <2>1. CASE v # w
    BY <2>1, <1>4 DEF Queued
  <2>2. CASE v = w
    <3>1. PICK i \in 1 .. Len(ch) : q = ch[i]
      BY <2>2, <1>2 DEF Queued
    <3>2. i - 1 \in 1 .. Len(ch) - 1 /\ workerChannels'[w][i - 1] = ch[i]
      BY <3>1, <1>2, <1>4, <1>6
    <3> QED BY <2>2, <3>1, <3>2, <1>4 DEF Queued
  <2> QED BY <2>1, <2>2
<1>7. workerBuffers[w][r.key] < r.value /\ r.value <= accepted[r.key]
  BY <1>3 DEF OrderInv, PendingInOrder, BelowAccepted
<1>8. ASSUME NEW k \in Keys
      PROVE  \/ accepted'[k] \in {store'[k], lost'[k]}
             \/ \E v \in Workers : \/ workerBuffers'[v][k] = accepted'[k]
                                    \/ [key |-> k, value |-> accepted'[k]] \in Queued(v)'
  <2>1. CASE accepted[k] \in {store[k], lost[k]}
    BY <2>1, <1>1
  <2>2. ASSUME NEW v \in Workers, workerBuffers[v][k] = accepted[k]
        PROVE  workerBuffers'[v][k] = accepted'[k]
    <3>1. ~(v = w /\ k = r.key)
      BY <2>2, <1>3, <1>7 DEF TypeOK
    <3> QED BY <2>2, <3>1, <1>1, <1>5
  <2>3. ASSUME NEW v \in Workers, [key |-> k, value |-> accepted[k]] \in Queued(v)
        PROVE  \/ workerBuffers'[w][k] = accepted'[k]
               \/ [key |-> k, value |-> accepted'[k]] \in Queued(v)'
    <3>1. CASE [key |-> k, value |-> accepted[k]] = r
      BY <3>1, <1>1, <1>5
    <3>2. CASE [key |-> k, value |-> accepted[k]] # r
      BY <2>3, <3>2, <1>1, <1>6
    <3> QED BY <3>1, <3>2
  <2> QED BY <2>1, <2>2, <2>3 DEF NewestAccounted
<1> QED BY <1>8 DEF NewestAccounted

LEMMA AccountedFlush ==
    ASSUME TypeOK, OrderInv, OrderInv', NewestAccounted,
           NEW w \in Workers, Commit(w) \/ FlushError(w)
    PROVE  NewestAccounted'
<1>1. /\ \A v \in Workers \ {w} : workerBuffers'[v] = workerBuffers[v]
      /\ UNCHANGED <<workerChannels, accepted>>
  BY DEF Commit, FlushError, ClearBuffer, history, TypeOK
<1>2. /\ Commit(w) => lost' = lost /\ staged = InBuffer(w)
                      /\ \A k \in Keys : store'[k] = IF k \in staged THEN workerBuffers[w][k]
                                                    ELSE store[k]
      /\ FlushError(w) => store' = store
                          /\ \A k \in Keys : lost'[k] = Larger(lost[k], workerBuffers[w][k])
  BY DEF Commit, FlushError, history, OrderInv, OneTxn
<1>3. ASSUME NEW k \in Keys
      PROVE  \/ accepted'[k] \in {store'[k], lost'[k]}
             \/ \E v \in Workers : \/ workerBuffers'[v][k] = accepted'[k]
                                    \/ [key |-> k, value |-> accepted'[k]] \in Queued(v)'
  <2> DEFINE b == workerBuffers[w][k]
  <2>1. /\ accepted[k] \in Nat /\ store[k] \in Nat /\ lost[k] \in Nat /\ b \in Nat
        /\ b <= accepted[k] /\ store[k] <= accepted[k] /\ lost[k] <= accepted[k]
        /\ b # 0 => b > store[k]
    BY DEF TypeOK, OrderInv, BelowAccepted, PendingInOrder, InBuffer
  <2>2. CASE b = accepted[k] \/ accepted[k] \in {store[k], lost[k]}
    <3>1. CASE Commit(w)
      BY <2>1, <2>2, <3>1, <1>1, <1>2 DEF InBuffer
    <3>2. CASE FlushError(w)
      BY <2>1, <2>2, <3>2, <1>1, <1>2 DEF Larger
    <3> QED BY <3>1, <3>2
  <2>3. CASE \E v \in Workers : v # w /\ workerBuffers[v][k] = accepted[k]
    BY <2>3, <1>1
  <2>4. CASE \E v \in Workers : [key |-> k, value |-> accepted[k]] \in Queued(v)
    BY <2>4, <1>1 DEF Queued
  <2> QED BY <2>2, <2>3, <2>4 DEF NewestAccounted
<1> QED BY <1>3 DEF NewestAccounted

LEMMA AccountedDie ==
    ASSUME TypeOK, OrderInv, NewestAccounted, Die
    PROVE  NewestAccounted'
<1>1. UNCHANGED <<store, accepted>>
  BY DEF Die
<1>2. ASSUME NEW k \in Keys PROVE accepted'[k] \in {store'[k], lost'[k]}
  <2> DEFINE waiting == \E w \in Workers : \/ workerBuffers[w][k] # 0
                                            \/ \E r \in Queued(w) : r.key = k
  <2>1. lost'[k] = IF waiting THEN accepted[k] ELSE lost[k]
    BY DEF Die
  <2>2. CASE waiting
    BY <2>1, <2>2, <1>1
  <2>3. CASE ~waiting
    <3>1. \/ accepted[k] \in {store[k], lost[k]}
          \/ accepted[k] = 0
      BY <2>3 DEF NewestAccounted
    <3>2. accepted[k] \in Nat /\ store[k] \in Nat /\ store[k] <= accepted[k]
      BY DEF TypeOK, OrderInv, BelowAccepted
    <3> QED BY <2>1, <2>3, <3>1, <3>2, <1>1
  <2> QED BY <2>2, <2>3
<1> QED BY <1>2 DEF NewestAccounted

LEMMA AccountedRestart ==
    ASSUME TypeOK, OrderInv, DeadHoldsNothing, NewestAccounted, Restart
    PROVE  NewestAccounted'
<1>1. UNCHANGED <<store, accepted, lost>>
  BY DEF Restart
<1>2. \A w \in Workers : Queued(w) = {} /\ \A k \in Keys : workerBuffers[w][k] = 0
  BY DEF Restart, DeadHoldsNothing, Queued, None
<1>3. ASSUME NEW k \in Keys PROVE accepted[k] \in {store[k], lost[k]}
  <2>1. accepted[k] \in {store[k], lost[k]} \/ accepted[k] = 0
    BY <1>2 DEF NewestAccounted
  <2>2. accepted[k] \in Nat /\ store[k] \in Nat /\ store[k] <= accepted[k]
    BY DEF TypeOK, OrderInv, BelowAccepted
  <2> QED BY <2>1, <2>2
<1> QED BY <1>1, <1>3 DEF NewestAccounted

LEMMA AccountedNext ==
    TypeOK /\ OrderInv /\ OrderInv' /\ DeadHoldsNothing /\ NewestAccounted /\ [Next]_vars
    => NewestAccounted'
<1> SUFFICES ASSUME TypeOK, OrderInv, OrderInv', DeadHoldsNothing, NewestAccounted, [Next]_vars
             PROVE  NewestAccounted'
  OBVIOUS
<1>1. CASE UNCHANGED <<workerChannels, workerBuffers, store, accepted, lost>>
  BY <1>1 DEF NewestAccounted, Queued
<1>2. ASSUME NEW c \in Callers, NEW k \in Keys, BufferWriteCall(c, k) PROVE NewestAccounted'
  BY <1>1, <1>2 DEF BufferWriteCall, writerVars, history
<1>3. ASSUME NEW c \in Callers, BufferWriteSend(c) PROVE NewestAccounted'
  BY <1>3, AccountedSend
<1>4. ASSUME NEW w \in Workers, WorkerStep(w) PROVE NewestAccounted'
  <2>1. CASE Receive(w)
    BY <2>1, AccountedReceive
  <2>2. CASE Commit(w) \/ FlushError(w)
    BY <2>2, AccountedFlush
  <2>3. CASE Tick(w) \/ Stop(w) \/ BeginTxn(w) \/ \E k \in Keys : Put(w, k)
    BY <1>1, <2>3 DEF Tick, Stop, BeginTxn, Put, history
  <2> QED BY <1>4, <2>1, <2>2, <2>3 DEF WorkerStep
<1>5. CASE FlushAndStop
  BY <1>1, <1>5 DEF FlushAndStop, writerVars, history
<1>6. CASE FlushAndStopAgain \/ Crash
  BY <1>6, AccountedDie DEF FlushAndStopAgain, Crash
<1>7. CASE Restart
  BY <1>7, AccountedRestart
<1>8. CASE UNCHANGED vars
  BY <1>1, <1>8 DEF vars, writerVars, history
<1> QED BY <1>2, <1>3, <1>4, <1>5, <1>6, <1>7, <1>8 DEF Next

\* The newest acknowledged write of a key is committed, waiting, or was
\* thrown away by a failed flush or a dying process; the routing, the maps,
\* the size check, the ticker and the stop lose nothing.
THEOREM AccountedCorrect == Spec => []NewestAccounted
<1> DEFINE Inv == TypeOK /\ OrderInv /\ DeadHoldsNothing /\ NewestAccounted
<1>1. Init => Inv
  <2>1. Init => DeadHoldsNothing /\ NewestAccounted
    BY DEF Init, DeadHoldsNothing, NewestAccounted
  <2> QED BY <2>1, TypeInit, OrderInit
<1>2. Inv /\ [Next]_vars => Inv'
  BY TypeNext, OrderNext, DeadNext, AccountedNext
<1> QED BY <1>1, <1>2, PTL DEF Spec

-----------------------------------------------------------------------------
(* Batches, and the write-behind contract.                                  *)

\* Only a commit changes the database, and it applies the worker's map.
LEMMA StoreStep ==
    ASSUME TypeOK, OrderInv, [Next]_vars
    PROVE  \/ store' = store
           \/ \E w \in Workers :
                /\ store' = [k \in Keys |-> IF k \in InBuffer(w) THEN workerBuffers[w][k]
                                                                 ELSE store[k]]
                /\ accepted' = accepted
<1>1. ASSUME NEW c \in Callers, NEW k \in Keys, BufferWriteCall(c, k) PROVE store' = store
  BY <1>1 DEF BufferWriteCall
<1>2. ASSUME NEW c \in Callers, BufferWriteSend(c) PROVE store' = store
  BY <1>2 DEF BufferWriteSend, Send, Enqueue
<1>3. ASSUME NEW w \in Workers, WorkerStep(w), ~Commit(w) PROVE store' = store
  BY <1>3 DEF WorkerStep, Receive, Absorb, Tick, Stop, BeginTxn, Put, FlushError
<1>4. ASSUME NEW w \in Workers, Commit(w)
      PROVE  /\ store' = [k \in Keys |-> IF k \in InBuffer(w) THEN workerBuffers[w][k]
                                                              ELSE store[k]]
             /\ accepted' = accepted
  <2>1. staged = InBuffer(w)
    BY <1>4 DEF Commit, OrderInv, OneTxn
  <2> QED BY <1>4, <2>1 DEF Commit, history
<1>5. CASE FlushAndStop \/ FlushAndStopAgain \/ Crash \/ Restart
  BY <1>5 DEF FlushAndStop, FlushAndStopAgain, Crash, Die, Restart
<1>6. CASE UNCHANGED vars
  BY <1>6 DEF vars
<1> QED BY <1>1, <1>2, <1>3, <1>4, <1>5, <1>6 DEF Next

\* Every change of the database is one worker's whole map.
THEOREM BatchesWhole == Spec => WholeBatches
<1>1. TypeOK /\ OrderInv /\ [Next]_vars =>
        [store' # store => \E w \in Workers : \A k \in Keys :
            store'[k] = IF k \in InBuffer(w) THEN workerBuffers[w][k] ELSE store[k]]_vars
  BY StoreStep
<1>2. Init => TypeOK /\ OrderInv
  BY TypeInit, OrderInit
<1>3. TypeOK /\ OrderInv /\ [Next]_vars => (TypeOK /\ OrderInv)'
  BY TypeNext, OrderNext
<1> QED BY <1>1, <1>2, <1>3, PTL DEF Spec, WholeBatches

LEMMA AcceptedStep ==
    ASSUME TypeOK, [Next]_vars
    PROVE  \/ accepted' = accepted
           \/ \E k \in Keys : /\ accepted' = [accepted EXCEPT ![k] = @ + 1]
                              /\ store' = store
<1>1. ASSUME NEW c \in Callers, NEW k \in Keys, BufferWriteCall(c, k) PROVE accepted' = accepted
  BY <1>1 DEF BufferWriteCall, history
<1>2. ASSUME NEW c \in Callers, BufferWriteSend(c)
      PROVE  \E k \in Keys : accepted' = [accepted EXCEPT ![k] = @ + 1] /\ store' = store
  <2>1. call[c] \in Keys
    BY <1>2 DEF BufferWriteSend, TypeOK
  <2> QED BY <1>2, <2>1 DEF BufferWriteSend, Send, Enqueue
<1>3. ASSUME NEW w \in Workers, WorkerStep(w) PROVE accepted' = accepted
  BY <1>3 DEF WorkerStep, Receive, Absorb, Tick, Stop, BeginTxn, Put, Commit, FlushError, history
<1>4. CASE FlushAndStop \/ FlushAndStopAgain \/ Crash \/ Restart
  BY <1>4 DEF FlushAndStop, FlushAndStopAgain, Crash, Die, Restart, history
<1>5. CASE UNCHANGED vars
  BY <1>5 DEF vars, history
<1> QED BY <1>1, <1>2, <1>3, <1>4, <1>5 DEF Next

\* The writer implements the write-behind contract: through flush errors,
\* crashes, restarts and stops, a key's committed value only moves forward
\* through its acknowledged writes, a batch at a time.
THEOREM WriteBehindImplemented == Spec => RefinesWriteBehind
<1>1. Init => WB!Init
  BY DEF Init, WB!Init, None
<1>2. TypeOK /\ OrderInv /\ [Next]_vars => [WB!Next]_(WB!vars)
  <2> SUFFICES ASSUME TypeOK, OrderInv, [Next]_vars PROVE [WB!Next]_(WB!vars)
    OBVIOUS
  <2>1. CASE accepted' = accepted /\ store' = store
    BY <2>1 DEF WB!vars
  <2>2. ASSUME NEW k \in Keys, accepted' = [accepted EXCEPT ![k] = @ + 1], store' = store
        PROVE  WB!Next
    BY <2>2 DEF WB!Next, WB!Accept
  <2>3. ASSUME NEW w \in Workers, accepted' = accepted, store' # store,
               store' = [k \in Keys |-> IF k \in InBuffer(w) THEN workerBuffers[w][k]
                                                            ELSE store[k]]
        PROVE  WB!Next
    <3>1. store' \in [Keys -> Nat] /\ InBuffer(w) \in SUBSET Keys
      BY <2>3 DEF TypeOK, InBuffer
    <3>2. InBuffer(w) # {}
      BY <2>3, <3>1 DEF TypeOK
    <3>3. \A k \in InBuffer(w) : store[k] < store'[k] /\ store'[k] <= accepted[k]
      BY <2>3, <3>1 DEF OrderInv, PendingInOrder, BelowAccepted, TypeOK
    <3>4. WB!Persist(InBuffer(w))
      BY <2>3, <3>1, <3>3 DEF WB!Persist
    <3> QED BY <3>1, <3>2, <3>4 DEF WB!Next
  <2> QED BY <2>1, <2>2, <2>3, StoreStep, AcceptedStep
<1>3. Init => TypeOK /\ OrderInv
  BY TypeInit, OrderInit
<1>4. TypeOK /\ OrderInv /\ [Next]_vars => (TypeOK /\ OrderInv)'
  BY TypeNext, OrderNext
<1> QED BY <1>1, <1>2, <1>3, <1>4, PTL DEF Spec, RefinesWriteBehind, WB!Spec

-----------------------------------------------------------------------------
(* The size of a batch.                                                     *)

LEMMA MapSize ==
    ASSUME NEW b \in [Keys -> Nat], NEW k \in Keys, NEW n \in Nat
    PROVE  LET held == {j \in Keys : b[j] # 0}
               grown == {j \in Keys : [b EXCEPT ![k] = n][j] # 0}
           IN  /\ Cardinality(held) \in Nat /\ Cardinality(grown) \in Nat
               /\ Cardinality(grown) <= Cardinality(held) + 1
<1> DEFINE held == {j \in Keys : b[j] # 0}
           grown == {j \in Keys : [b EXCEPT ![k] = n][j] # 0}
<1>1. IsFiniteSet(held) /\ IsFiniteSet(grown)
  <2>1. held \subseteq Keys /\ grown \subseteq Keys
    OBVIOUS
  <2> QED BY <2>1, KeysAssumption, FS_Subset
<1>2. Cardinality(held) \in Nat /\ Cardinality(grown) \in Nat
  BY <1>1, FS_CardinalityType
<1>3. grown \subseteq held \cup {k}
  OBVIOUS
<1>4. /\ IsFiniteSet(held \cup {k})
      /\ Cardinality(held \cup {k}) \in {Cardinality(held), Cardinality(held) + 1}
  BY <1>1, FS_AddElement
<1>5. Cardinality(grown) <= Cardinality(held \cup {k})
  BY <1>3, <1>4, FS_Subset
<1> QED BY <1>2, <1>4, <1>5

LEMMA BoundedNext == TypeOK /\ BatchBounded /\ [Next]_vars => BatchBounded'
<1> SUFFICES ASSUME TypeOK, BatchBounded, [Next]_vars, NEW v \in Workers
             PROVE  /\ wpc'[v] = "select" => Cardinality(InBuffer(v)') < MaxBatchSize
                    /\ Cardinality(InBuffer(v)') <= MaxBatchSize
                    /\ wpc'[v] = "done" => InBuffer(v)' = {}
  BY DEF BatchBounded
<1>0. Cardinality({}) = 0 /\ MaxBatchSize \in Nat /\ MaxBatchSize > 0
  BY FS_EmptySet, BatchAssumption
<1>1. CASE InBuffer(v)' = {}
  BY <1>0, <1>1
<1>2. CASE wpc'[v] = wpc[v] /\ InBuffer(v)' = InBuffer(v)
  BY <1>2 DEF BatchBounded
<1>3. ASSUME NEW c \in Callers, NEW k \in Keys, BufferWriteCall(c, k)
      PROVE  wpc'[v] = wpc[v] /\ InBuffer(v)' = InBuffer(v)
  BY <1>3 DEF BufferWriteCall, writerVars, InBuffer
<1>4. ASSUME NEW c \in Callers, BufferWriteSend(c)
      PROVE  wpc'[v] = wpc[v] /\ InBuffer(v)' = InBuffer(v)
  BY <1>4 DEF BufferWriteSend, Send, Enqueue, InBuffer
<1>5. ASSUME NEW w \in Workers, WorkerStep(w), v # w
      PROVE  wpc'[v] = wpc[v] /\ InBuffer(v)' = InBuffer(v)
  BY <1>5 DEF WorkerStep, Receive, Absorb, Tick, Stop, EnterFlush, BeginTxn, Put, Commit,
              FlushError, ClearBuffer, InBuffer, TypeOK
<1>6. CASE Receive(v)
  <2> DEFINE r == Head(workerChannels[v])
             b == workerBuffers[v]
             grown == {j \in Keys : [b EXCEPT ![r.key] = r.value][j] # 0}
  <2>1. workerChannels[v] # <<>> /\ wpc[v] = "select"
    BY <1>6 DEF Receive, Absorb
  <2>2. r \in Request
    BY <2>1, TailFacts DEF TypeOK
  <2>3. r.key \in Keys /\ r.value \in Nat /\ b \in [Keys -> Nat]
    BY <2>2 DEF Request, TypeOK
  <2>4. /\ Cardinality(InBuffer(v)) \in Nat /\ Cardinality(grown) \in Nat
        /\ Cardinality(grown) <= Cardinality(InBuffer(v)) + 1
    BY <2>3, MapSize DEF InBuffer
  <2>5. workerBuffers'[v] = [b EXCEPT ![r.key] = r.value]
    BY <1>6 DEF Receive, Absorb, Updated, TypeOK
  <2>6. InBuffer(v)' = grown
    BY <2>5 DEF InBuffer
  <2>7. wpc'[v] = IF Cardinality(grown) >= MaxBatchSize THEN "flush" ELSE "select"
    BY <1>6 DEF Receive, Absorb, Updated, TypeOK
  <2>8. Cardinality(InBuffer(v)) < MaxBatchSize
    BY <2>1 DEF BatchBounded
  <2> QED BY <2>4, <2>6, <2>7, <2>8, <1>0
<1>7. CASE Tick(v) \/ Stop(v)
  <2>1. /\ InBuffer(v)' = InBuffer(v) /\ wpc[v] = "select"
        /\ wpc'[v] \in {"flush", "done", "select"}
        /\ wpc'[v] = "done" => InBuffer(v) = {}
    BY <1>7 DEF Tick, Stop, EnterFlush, InBuffer, TypeOK
  <2> QED BY <2>1 DEF BatchBounded
<1>8. CASE BeginTxn(v) \/ \E k \in Keys : Put(v, k)
  <2>1. InBuffer(v)' = InBuffer(v) /\ wpc'[v] = "txn"
    BY <1>8 DEF BeginTxn, Put, InBuffer, TypeOK
  <2> QED BY <2>1 DEF BatchBounded
<1>9. CASE Commit(v) \/ FlushError(v)
  <2>1. InBuffer(v)' = {}
    BY <1>9 DEF Commit, FlushError, ClearBuffer, None, InBuffer, TypeOK
  <2> QED BY <2>1, <1>1
<1>10. CASE FlushAndStop
  BY <1>2, <1>10 DEF FlushAndStop, writerVars, InBuffer
<1>11. CASE FlushAndStopAgain \/ Crash \/ Restart
  <2>1. InBuffer(v)' = {}
    BY <1>11 DEF FlushAndStopAgain, Crash, Die, Restart, NewWriter, None, InBuffer
  <2> QED BY <2>1, <1>1
<1>12. CASE UNCHANGED vars
  BY <1>2, <1>12 DEF vars, writerVars, InBuffer
<1>13. ASSUME NEW w \in Workers, WorkerStep(w)
       PROVE  /\ wpc'[v] = "select" => Cardinality(InBuffer(v)') < MaxBatchSize
              /\ Cardinality(InBuffer(v)') <= MaxBatchSize
              /\ wpc'[v] = "done" => InBuffer(v)' = {}
  <2>1. CASE v # w
    BY <2>1, <1>2, <1>5, <1>13
  <2>2. CASE v = w
    BY <2>2, <1>6, <1>7, <1>8, <1>9, <1>13 DEF WorkerStep
  <2> QED BY <2>1, <2>2
<1> QED BY <1>2, <1>3, <1>4, <1>10, <1>11, <1>12, <1>13 DEF Next

\* No transaction is larger than maxBatchSize keys, a worker in its select
\* always has room for one more, and a stopped worker kept nothing back.
THEOREM BatchSizeCorrect == Spec => []BatchBounded
<1>1. Init => BatchBounded
  <2> SUFFICES ASSUME Init, NEW w \in Workers
               PROVE  InBuffer(w) = {} /\ wpc[w] = "select"
    BY FS_EmptySet, BatchAssumption DEF BatchBounded
  <2> QED BY DEF Init, NewBatchWriter, None, InBuffer
<1>2. TypeOK /\ BatchBounded /\ [Next]_vars => BatchBounded'
  BY BoundedNext
<1> QED BY <1>1, <1>2, TypeInit, TypeNext, PTL DEF Spec
====
