---- MODULE BenchmarkProofs ----
(***************************************************************************)
(* Proofs about the benchmark command, for any number of clients, messages *)
(* and samples: the counters and the histogram that the clients share      *)
(* without a lock add up to what the report says.                          *)
(***************************************************************************)
EXTENDS Benchmark, FiniteSetTheorems, TLAPS

(* The counters are numbers of messages: message number i of client c is    *)
(* the slot <<c, i>>.                                                       *)

Slots == Clients \X (0 .. MessagesPerClient - 1)

\* The slots whose message is due to be sampled.
Due == Clients \X {i \in 0 .. MessagesPerClient - 1 : i % Sampling = 0}

\* The slots of D that the clients have behind them, those in P with their
\* current message included.
Behind(D, f, P) == {x \in D : x[2] < f[x[1]] \/ (x[2] = f[x[1]] /\ x[1] \in P)}

\* The clients that have counted their current message; that have stored its
\* sample; that failed; whose message has been answered or will not be; and
\* whose message was answered with success, as far as the client knows.
Counted  == {c \in Clients : at[c] \in {"load", "store", "put"}}
Stored   == {c \in Clients : at[c] = "put"}
Errors   == {c \in Clients : at[c] = "error"}
Answered == {c \in Clients : \/ at[c] \in {"count", "load", "store", "put", "error"}
                             \/ at[c] = "receive" /\ reply[c] # "asked"}
Acked    == {c \in Clients : \/ at[c] \in {"count", "load", "store", "put"}
                             \/ at[c] = "receive" /\ reply[c] = "success"}

-----------------------------------------------------------------------------
(* The inductive invariant.                                                 *)

\* Every success is counted once, and no message as success and as failure.
CountersExact ==
    /\ success = Cardinality(Behind(Slots, j, Counted))
    /\ success + failed <= Cardinality(Behind(Slots, j, Counted \cup Errors))

\* However the appends interleave, the histogram is never longer than the
\* number of samples stored, nor empty once there is one.
SamplesBounded ==
    /\ samples <= Cardinality(Behind(Due, j, Stored))
    /\ \A c \in Clients : at[c] = "store" => len[c] <= Cardinality(Behind(Due, j, Stored))
    /\ Behind(Due, j, Stored) # {} => samples >= 1

\* A message is answered once, and the UDS suite goes on with a success only.
AcksExact ==
    /\ acks <= Cardinality(Behind(Slots, j, Answered))
    /\ suite = "uds" => acks >= Cardinality(Behind(Slots, j, Acked))

\* Where a client is tells what it holds and how far it has come.
Control ==
    /\ \A c \in Clients :
        /\ at[c] \in {"send", "receive", "count", "load", "store", "put"} => buf[c] # NoBuf /\ j[c] < MessagesPerClient
        /\ at[c] \in {"load", "store"} => j[c] % Sampling = 0
        /\ reply[c] # "none" => at[c] = "receive"
        /\ at[c] = "ok" => j[c] = MessagesPerClient
        /\ at[c] = "error" => groupErr
        /\ pc \in {"start", "run"} => at[c] = "none"
    /\ ~groupErr => failed = 0

\* TypeOK but for the counters, whose bounds follow from what is behind.
Shapes ==
    /\ suite \in Suites /\ type \in Types
    /\ server \in {"none", "up", "down", "stopped"}
    /\ pc \in {"start", "run", "wait", "stop", "done", "killed"}
    /\ at \in [Clients -> {"none", "acquire", "loop", "send", "receive", "count", "load", "store", "put", "ok", "error"}]
    /\ j \in [Clients -> 0 .. MessagesPerClient]
    /\ buf \in [Clients -> Buffers \cup {NoBuf}]
    /\ len \in [Clients -> 0 .. Total]
    /\ reply \in [Clients -> {"none", "asked", "success", "failure"}]
    /\ pool \subseteq Buffers
    /\ ctxDone \in BOOLEAN /\ groupErr \in BOOLEAN

BenchIInv ==
    /\ TypeOK /\ Control /\ BufferOwned /\ CountersExact /\ SamplesBounded /\ AcksExact
    /\ SamplesSurvive /\ ReportComplete

-----------------------------------------------------------------------------
(* Counting the slots behind.                                               *)

\* There are as many slots as the report's total, and as many due slots as
\* the bound on its samples.
LEMMA SlotsCounted ==
    /\ Cardinality(Clients) \in Nat /\ Total \in Nat
    /\ IsFiniteSet(Slots) /\ Cardinality(Slots) = Total
    /\ Due \in SUBSET Slots /\ Cardinality(Due) = Sampled /\ Sampled <= Total
<1> DEFINE Turns == 0 .. MessagesPerClient - 1
           DueTurns == {i \in Turns : i % Sampling = 0}
<1>1. IsFiniteSet(Clients) /\ Cardinality(Clients) \in Nat /\ MessagesPerClient \in Nat
  BY BenchmarkAssumption, FS_CardinalityType
<1>2. IsFiniteSet(Turns) /\ Cardinality(Turns) = MessagesPerClient
  <2>1. 0 \in Int /\ MessagesPerClient - 1 \in Int
    BY <1>1
  <2>2. /\ IsFiniteSet(Turns)
        /\ Cardinality(Turns) = IF 0 > MessagesPerClient - 1 THEN 0 ELSE MessagesPerClient - 1 - 0 + 1
    BY <2>1, FS_Interval
  <2> QED BY <1>1, <2>2
<1>3. DueTurns \in SUBSET Turns
  OBVIOUS
<1>4. IsFiniteSet(DueTurns)
  <2> HIDE DEF Turns, DueTurns
  <2> QED BY <1>2, <1>3, FS_Subset
<1>5. IsFiniteSet(Slots) /\ Cardinality(Slots) = Cardinality(Clients) * Cardinality(Turns)
  <2> HIDE DEF DueTurns
  <2>1. Slots = Clients \X Turns
    BY DEF Slots
  <2> HIDE DEF Turns
  <2> QED BY <1>1, <1>2, <2>1, FS_Product
<1>6. Due \in SUBSET Slots
  BY DEF Due, Slots
<1>7. Cardinality(Due) = Sampled
  <2>1. Due = Clients \X DueTurns /\ Sampled = Cardinality(Clients) * Cardinality(DueTurns)
    BY DEF Due, Sampled
  <2> HIDE DEF Turns, DueTurns
  <2> QED BY <1>1, <1>4, <2>1, FS_Product
<1>8. Total = Cardinality(Clients) * MessagesPerClient /\ Total \in Nat
  BY <1>1 DEF Total
<1>9. Cardinality(Due) <= Cardinality(Slots)
  BY <1>5, <1>6, FS_Subset
<1> HIDE DEF Turns, DueTurns
<1> QED BY <1>1, <1>2, <1>5, <1>6, <1>7, <1>8, <1>9

\* What is behind is part of the slots, and grows with the clients counted.
LEMMA BehindBounded ==
    ASSUME NEW D \in SUBSET Slots, NEW f, NEW P
    PROVE  /\ IsFiniteSet(Behind(D, f, P))
           /\ Cardinality(Behind(D, f, P)) \in Nat
           /\ Cardinality(Behind(D, f, P)) <= Cardinality(D)
           /\ Cardinality(D) \in Nat /\ Cardinality(D) <= Total
<1>1. IsFiniteSet(D) /\ Cardinality(D) <= Total
  BY SlotsCounted, FS_Subset
<1>2. Behind(D, f, P) \in SUBSET D
  BY DEF Behind
<1> QED BY <1>1, <1>2, FS_Subset, FS_CardinalityType

LEMMA BehindMonotone ==
    ASSUME NEW D \in SUBSET Slots, NEW f, NEW P, NEW Q, P \subseteq Q
    PROVE  /\ Cardinality(Behind(D, f, P)) <= Cardinality(Behind(D, f, Q))
           /\ Behind(D, f, P) # {} => Behind(D, f, Q) # {}
<1>1. Behind(D, f, P) \in SUBSET Behind(D, f, Q)
  BY DEF Behind
<1>2. IsFiniteSet(Behind(D, f, Q))
  BY BehindBounded
<1> QED BY <1>1, <1>2, FS_Subset

\* One client more is one slot more, if its slot is one of D.
LEMMA BehindGrows ==
    ASSUME NEW D \in SUBSET Slots, NEW f, NEW P, NEW c \in Clients, c \notin P
    PROVE  /\ <<c, f[c]>> \in D =>
                /\ Cardinality(Behind(D, f, P \cup {c})) = Cardinality(Behind(D, f, P)) + 1
                /\ Behind(D, f, P \cup {c}) # {}
           /\ <<c, f[c]>> \notin D => Behind(D, f, P \cup {c}) = Behind(D, f, P)
<1> DEFINE B == Behind(D, f, P)
           s == <<c, f[c]>>
<1>1. \A x \in D : x = <<x[1], x[2]>> /\ x[2] \in Int
  BY BenchmarkAssumption DEF Slots
<1>2. CASE s \in D
  <2>1. f[c] \in Int
    BY <1>2, <1>1
  <2>2. \A x \in D : x \in Behind(D, f, P \cup {c}) <=> x \in B \cup {s}
    BY <1>1, <1>2, <2>1 DEF Behind
  <2>3. Behind(D, f, P \cup {c}) \subseteq D /\ B \cup {s} \subseteq D
    BY <1>2 DEF Behind
  <2>4. Behind(D, f, P \cup {c}) = B \cup {s}
    BY <2>2, <2>3
  <2>5. s \notin B
    BY <1>1, <2>1 DEF Behind
  <2>6. IsFiniteSet(B)
    BY BehindBounded
  <2> HIDE DEF B, s
  <2>7. Cardinality(B \cup {s}) = Cardinality(B) + 1
    BY <2>5, <2>6, FS_AddElement
  <2> QED BY <1>2, <2>4, <2>7 DEF B, s
<1>3. CASE s \notin D
  <2>1. \A x \in D : x \in Behind(D, f, P \cup {c}) <=> x \in B
    BY <1>1, <1>3 DEF Behind
  <2>2. Behind(D, f, P \cup {c}) \subseteq D /\ B \subseteq D
    BY DEF Behind
  <2>3. Behind(D, f, P \cup {c}) = B
    BY <2>1, <2>2
  <2> QED BY <1>3, <2>3
<1> QED BY <1>2, <1>3

\* A client that goes on to its next message leaves what is behind as it is.
LEMMA BehindAdvances ==
    ASSUME NEW D \in SUBSET Slots, NEW f \in [Clients -> Int], NEW P, NEW c \in P
    PROVE  Behind(D, [f EXCEPT ![c] = @ + 1], P \ {c}) = Behind(D, f, P)
<1> DEFINE g == [f EXCEPT ![c] = @ + 1]
<1>1. \A x \in D : x[1] \in Clients /\ x[2] \in Int
  BY BenchmarkAssumption DEF Slots
<1>2. \A x \in D : x \in Behind(D, g, P \ {c}) <=> x \in Behind(D, f, P)
  BY <1>1 DEF Behind
<1>3. Behind(D, g, P \ {c}) \subseteq D /\ Behind(D, f, P) \subseteq D
  BY DEF Behind
<1> QED BY <1>2, <1>3

\* At the start nothing is behind, and at the end everything is.
LEMMA BehindEnds ==
    ASSUME NEW D \in SUBSET Slots, NEW f, NEW P
    PROVE  /\ (\A c \in Clients : f[c] = 0) /\ P = {} => Behind(D, f, P) = {}
           /\ (\A c \in Clients : f[c] = MessagesPerClient) => Behind(D, f, P) = D
<1>1. \A x \in D : x[1] \in Clients /\ x[2] \in 0 .. MessagesPerClient - 1
  BY DEF Slots
<1> QED BY <1>1, BenchmarkAssumption DEF Behind

-----------------------------------------------------------------------------
(* What a step does to the counters, told from what it does to the sets.    *)

\* A client that moves changes these sets by itself only.
LEMMA Moves ==
    ASSUME TypeOK, NEW c \in Clients, NEW v, NEW r,
           at' = [at EXCEPT ![c] = v], reply' = [reply EXCEPT ![c] = r]
    PROVE  /\ Counted' = IF v \in {"load", "store", "put"} THEN Counted \cup {c} ELSE Counted \ {c}
           /\ Stored' = IF v = "put" THEN Stored \cup {c} ELSE Stored \ {c}
           /\ Errors' = IF v = "error" THEN Errors \cup {c} ELSE Errors \ {c}
           /\ Answered' = IF v \in {"count", "load", "store", "put", "error"} \/ (v = "receive" /\ r # "asked")
                          THEN Answered \cup {c} ELSE Answered \ {c}
           /\ Acked' = IF v \in {"count", "load", "store", "put"} \/ (v = "receive" /\ r = "success")
                       THEN Acked \cup {c} ELSE Acked \ {c}
<1>1. at \in [Clients -> {"none", "acquire", "loop", "send", "receive", "count", "load", "store", "put", "ok", "error"}]
      /\ reply \in [Clients -> {"none", "asked", "success", "failure"}]
  BY DEF TypeOK
<1>2. at'[c] = v /\ reply'[c] = r /\ \A d \in Clients \ {c} : at'[d] = at[d] /\ reply'[d] = reply[d]
  BY <1>1
<1>3. Counted' = IF v \in {"load", "store", "put"} THEN Counted \cup {c} ELSE Counted \ {c}
  BY <1>2 DEF Counted
<1>4. Stored' = IF v = "put" THEN Stored \cup {c} ELSE Stored \ {c}
  BY <1>2 DEF Stored
<1>5. Errors' = IF v = "error" THEN Errors \cup {c} ELSE Errors \ {c}
  BY <1>2 DEF Errors
<1>6. Answered' = IF v \in {"count", "load", "store", "put", "error"} \/ (v = "receive" /\ r # "asked")
                  THEN Answered \cup {c} ELSE Answered \ {c}
  BY <1>2 DEF Answered
<1>7. Acked' = IF v \in {"count", "load", "store", "put"} \/ (v = "receive" /\ r = "success")
               THEN Acked \cup {c} ELSE Acked \ {c}
  BY <1>2 DEF Acked
<1> QED BY <1>3, <1>4, <1>5, <1>6, <1>7

LEMMA CountersKept ==
    ASSUME BenchIInv, j' = j, Counted' = Counted, Errors \subseteq Errors', UNCHANGED <<success, failed>>
    PROVE  CountersExact'
<1>1. success' = Cardinality(Behind(Slots, j, Counted))
  BY DEF BenchIInv, CountersExact
<1>2. Cardinality(Behind(Slots, j, Counted \cup Errors)) <= Cardinality(Behind(Slots, j, Counted \cup Errors'))
  BY BehindMonotone, SlotsCounted
<1>3. /\ Cardinality(Behind(Slots, j, Counted \cup Errors)) \in Nat
      /\ Cardinality(Behind(Slots, j, Counted \cup Errors')) \in Nat
  BY BehindBounded
<1>4. success \in Nat /\ failed \in Nat
  BY SlotsCounted DEF BenchIInv, TypeOK
<1>5. success + failed <= Cardinality(Behind(Slots, j, Counted \cup Errors))
  BY DEF BenchIInv, CountersExact
<1>6. success + failed <= Cardinality(Behind(Slots, j, Counted \cup Errors'))
  BY <1>2, <1>3, <1>4, <1>5
<1>7. Behind(Slots, j, Counted)' = Behind(Slots, j, Counted)
  BY DEF Behind, Slots
<1>8. Behind(Slots, j, Counted \cup Errors)' = Behind(Slots, j, Counted \cup Errors')
  BY DEF Behind, Slots
<1> QED BY <1>1, <1>6, <1>7, <1>8 DEF CountersExact

\* A success counted, or a failure.
LEMMA CountersGrow ==
    ASSUME BenchIInv, j' = j, NEW c \in Clients, c \notin Counted \cup Errors, j[c] < MessagesPerClient,
           \/ /\ Counted' = Counted \cup {c} /\ Errors' = Errors
              /\ success' = success + 1 /\ failed' = failed
           \/ /\ Counted' = Counted /\ Errors' = Errors \cup {c}
              /\ success' = success /\ failed' = failed + 1
    PROVE  CountersExact'
<1> DEFINE All == Counted \cup Errors
<1>1. <<c, j[c]>> \in Slots
  BY BenchmarkAssumption DEF Slots, BenchIInv, TypeOK
<1>2. Cardinality(Behind(Slots, j, Counted \cup {c})) = Cardinality(Behind(Slots, j, Counted)) + 1
  BY <1>1, BehindGrows
<1>3. Cardinality(Behind(Slots, j, All \cup {c})) = Cardinality(Behind(Slots, j, All)) + 1
  BY <1>1, BehindGrows
<1>4. /\ Cardinality(Behind(Slots, j, Counted)) \in Nat
      /\ Cardinality(Behind(Slots, j, All)) \in Nat
  BY BehindBounded
<1>5. success \in Nat /\ failed \in Nat
  BY SlotsCounted DEF BenchIInv, TypeOK
<1>6. /\ success = Cardinality(Behind(Slots, j, Counted))
      /\ success + failed <= Cardinality(Behind(Slots, j, All))
  BY DEF BenchIInv, CountersExact
<1>7. Counted' \cup Errors' = All \cup {c}
  OBVIOUS
<1>8. /\ Behind(Slots, j, Counted)' = Behind(Slots, j, Counted')
      /\ Behind(Slots, j, Counted \cup Errors)' = Behind(Slots, j, All \cup {c})
  BY <1>7 DEF Behind, Slots
<1>9. success' = Cardinality(Behind(Slots, j, Counted'))
  BY <1>2, <1>6
<1>10. success' + failed' <= Cardinality(Behind(Slots, j, All \cup {c}))
  <2> HIDE DEF All
  <2>1. success' + failed' = success + failed + 1
    BY <1>5
  <2> QED BY <1>3, <1>4, <1>5, <1>6, <2>1
<1> QED BY <1>8, <1>9, <1>10 DEF CountersExact

\* The next turn.
LEMMA CountersAdvance ==
    ASSUME BenchIInv, NEW c \in Counted, j' = [j EXCEPT ![c] = @ + 1], c \notin Errors,
           Counted' = Counted \ {c}, Errors' = Errors, UNCHANGED <<success, failed>>
    PROVE  CountersExact'
<1>1. j \in [Clients -> Int]
  BY DEF BenchIInv, TypeOK
<1>2. Behind(Slots, j', Counted \ {c}) = Behind(Slots, j, Counted)
  BY <1>1, BehindAdvances
<1>3. Behind(Slots, j', (Counted \cup Errors) \ {c}) = Behind(Slots, j, Counted \cup Errors)
  <2> DEFINE All == Counted \cup Errors
  <2>1. c \in All
    OBVIOUS
  <2> HIDE DEF All
  <2>2. Behind(Slots, j', All \ {c}) = Behind(Slots, j, All)
    BY <1>1, <2>1, BehindAdvances
  <2> QED BY <2>2 DEF All
<1>4. (Counted \cup Errors)' = (Counted \cup Errors) \ {c}
  OBVIOUS
<1>5. /\ Behind(Slots, j, Counted)' = Behind(Slots, j', Counted \ {c})
      /\ Behind(Slots, j, Counted \cup Errors)' = Behind(Slots, j', (Counted \cup Errors) \ {c})
  BY <1>4 DEF Behind, Slots
<1> QED BY <1>2, <1>3, <1>5 DEF CountersExact, BenchIInv

LEMMA SamplesKept ==
    ASSUME BenchIInv, j' = j, samples' = samples, Behind(Due, j, Stored') = Behind(Due, j, Stored),
           \A c \in Clients : at'[c] = "store" => (at[c] = "store" /\ len'[c] = len[c]) \/ len'[c] = samples
    PROVE  SamplesBounded'
<1>1. Behind(Due, j, Stored)' = Behind(Due, j, Stored)
  BY DEF Behind, Due
<1> QED BY <1>1 DEF BenchIInv, SamplesBounded

LEMMA SamplesStored ==
    ASSUME BenchIInv, j' = j, len' = len, NEW c \in Clients, c \notin Stored, at[c] = "store",
           Stored' = Stored \cup {c}, samples' = len[c] + 1,
           \A d \in Clients : at'[d] = "store" => at[d] = "store"
    PROVE  SamplesBounded'
<1>1. <<c, j[c]>> \in Due
  BY BenchmarkAssumption DEF Due, BenchIInv, TypeOK, Control
<1>2. /\ Cardinality(Behind(Due, j, Stored \cup {c})) = Cardinality(Behind(Due, j, Stored)) + 1
      /\ Cardinality(Behind(Due, j, Stored)) \in Nat
  BY <1>1, SlotsCounted, BehindGrows, BehindBounded
<1>3. \A d \in Clients : len[d] \in Nat
  BY SlotsCounted DEF BenchIInv, TypeOK
<1>4. \A d \in Clients : at[d] = "store" => len[d] <= Cardinality(Behind(Due, j, Stored))
  BY DEF BenchIInv, SamplesBounded
<1>5. Behind(Due, j, Stored)' = Behind(Due, j, Stored \cup {c})
  BY DEF Behind, Due
<1>6. samples' >= 1 /\ samples' <= Cardinality(Behind(Due, j, Stored \cup {c}))
  BY <1>2, <1>3, <1>4
<1>7. \A d \in Clients : at'[d] = "store" => len[d] <= Cardinality(Behind(Due, j, Stored \cup {c}))
  BY <1>2, <1>3, <1>4
<1> QED BY <1>5, <1>6, <1>7 DEF SamplesBounded

LEMMA SamplesAdvance ==
    ASSUME BenchIInv, NEW c \in Stored, j' = [j EXCEPT ![c] = @ + 1], Stored' = Stored \ {c},
           UNCHANGED <<samples, len>>, \A d \in Clients : at'[d] = "store" => at[d] = "store"
    PROVE  SamplesBounded'
<1>1. j \in [Clients -> Int]
  BY DEF BenchIInv, TypeOK
<1>2. Behind(Due, j', Stored \ {c}) = Behind(Due, j, Stored)
  BY <1>1, SlotsCounted, BehindAdvances
<1>3. Behind(Due, j, Stored)' = Behind(Due, j', Stored \ {c})
  BY DEF Behind, Due
<1> QED BY <1>2, <1>3 DEF BenchIInv, SamplesBounded

LEMMA AcksKept ==
    ASSUME BenchIInv, j' = j, Answered \subseteq Answered', suite = "uds" => Acked' \subseteq Acked,
           UNCHANGED <<acks, suite>>
    PROVE  AcksExact'
<1>1. Cardinality(Behind(Slots, j, Answered)) <= Cardinality(Behind(Slots, j, Answered'))
  BY BehindMonotone
<1>2. suite = "uds" => Cardinality(Behind(Slots, j, Acked')) <= Cardinality(Behind(Slots, j, Acked))
  BY BehindMonotone
<1>3. /\ Cardinality(Behind(Slots, j, Answered)) \in Nat /\ Cardinality(Behind(Slots, j, Answered')) \in Nat
      /\ Cardinality(Behind(Slots, j, Acked)) \in Nat /\ Cardinality(Behind(Slots, j, Acked')) \in Nat
  BY BehindBounded
<1>4. acks \in Nat
  BY SlotsCounted DEF BenchIInv, TypeOK
<1>5. /\ acks <= Cardinality(Behind(Slots, j, Answered'))
      /\ suite = "uds" => acks >= Cardinality(Behind(Slots, j, Acked'))
  BY <1>1, <1>2, <1>3, <1>4 DEF BenchIInv, AcksExact
<1>6. Behind(Slots, j, Answered)' = Behind(Slots, j, Answered') /\ Behind(Slots, j, Acked)' = Behind(Slots, j, Acked')
  BY DEF Behind, Slots
<1> QED BY <1>5, <1>6 DEF AcksExact

LEMMA AcksGrow ==
    ASSUME BenchIInv, j' = j, NEW c \in Clients, c \notin Answered, c \notin Acked, j[c] < MessagesPerClient,
           Answered' = Answered \cup {c}, Acked' = Acked \cup {c}, acks' = acks + 1, suite' = suite
    PROVE  AcksExact'
<1>1. <<c, j[c]>> \in Slots
  BY BenchmarkAssumption DEF Slots, BenchIInv, TypeOK
<1>2. /\ Cardinality(Behind(Slots, j, Answered \cup {c})) = Cardinality(Behind(Slots, j, Answered)) + 1
      /\ Cardinality(Behind(Slots, j, Acked \cup {c})) = Cardinality(Behind(Slots, j, Acked)) + 1
  BY <1>1, BehindGrows
<1>3. /\ Cardinality(Behind(Slots, j, Answered)) \in Nat /\ Cardinality(Behind(Slots, j, Acked)) \in Nat
  BY BehindBounded
<1>4. acks \in Nat
  BY SlotsCounted DEF BenchIInv, TypeOK
<1>5. /\ acks + 1 <= Cardinality(Behind(Slots, j, Answered \cup {c}))
      /\ suite = "uds" => acks + 1 >= Cardinality(Behind(Slots, j, Acked \cup {c}))
  BY <1>2, <1>3, <1>4 DEF BenchIInv, AcksExact
<1>6. /\ Behind(Slots, j, Answered)' = Behind(Slots, j, Answered \cup {c})
      /\ Behind(Slots, j, Acked)' = Behind(Slots, j, Acked \cup {c})
  BY DEF Behind, Slots
<1> QED BY <1>5, <1>6 DEF AcksExact

LEMMA AcksAdvance ==
    ASSUME BenchIInv, NEW c \in Answered, c \in Acked, j' = [j EXCEPT ![c] = @ + 1],
           Answered' = Answered \ {c}, Acked' = Acked \ {c}, UNCHANGED <<acks, suite>>
    PROVE  AcksExact'
<1>1. j \in [Clients -> Int]
  BY DEF BenchIInv, TypeOK
<1>2. Behind(Slots, j', Answered \ {c}) = Behind(Slots, j, Answered)
  BY <1>1, BehindAdvances
<1>3. Behind(Slots, j', Acked \ {c}) = Behind(Slots, j, Acked)
  BY <1>1, BehindAdvances
<1>4. /\ Behind(Slots, j, Answered)' = Behind(Slots, j', Answered \ {c})
      /\ Behind(Slots, j, Acked)' = Behind(Slots, j', Acked \ {c})
  BY DEF Behind, Slots
<1> QED BY <1>2, <1>3, <1>4 DEF AcksExact, BenchIInv

-----------------------------------------------------------------------------
(* The steps of the command.                                                *)

LEMMA Assemble ==
    ASSUME BenchIInv, report' = report, Shapes', Control', BufferOwned',
           failed' \in Nat, samples' \in Nat, acks' \in Nat,
           CountersExact', SamplesBounded', AcksExact'
    PROVE  BenchIInv'
<1>1. /\ Behind(Slots, j, Counted)' = Behind(Slots, j', Counted')
      /\ Behind(Slots, j, Counted \cup Errors)' = Behind(Slots, j', Counted' \cup Errors')
      /\ Behind(Slots, j, Answered)' = Behind(Slots, j', Answered')
      /\ Behind(Due, j, Stored)' = Behind(Due, j', Stored')
  BY DEF Behind, Slots, Due
<1>2. \A P : /\ Cardinality(Behind(Slots, j', P)) \in Nat /\ Cardinality(Behind(Slots, j', P)) <= Total
             /\ Cardinality(Behind(Due, j', P)) \in Nat /\ Cardinality(Behind(Due, j', P)) <= Total
  <2> TAKE P
  <2>1. /\ Cardinality(Behind(Slots, j', P)) \in Nat /\ Cardinality(Slots) \in Nat
        /\ Cardinality(Behind(Slots, j', P)) <= Cardinality(Slots)
        /\ Cardinality(Behind(Due, j', P)) \in Nat /\ Cardinality(Due) \in Nat
        /\ Cardinality(Behind(Due, j', P)) <= Cardinality(Due)
        /\ Cardinality(Slots) <= Total /\ Cardinality(Due) <= Total
    BY BehindBounded, SlotsCounted
  <2> QED BY <2>1, SlotsCounted
<1>5. success' \in 0 .. Total /\ failed' \in 0 .. Total
  <2>1. /\ success' = Cardinality(Behind(Slots, j', Counted'))
        /\ success' + failed' <= Cardinality(Behind(Slots, j', Counted' \cup Errors'))
    BY <1>1 DEF CountersExact
  <2> QED BY <1>2, <2>1, SlotsCounted
<1>6. samples' \in 0 .. Total
  <2>1. samples' <= Cardinality(Behind(Due, j', Stored'))
    BY <1>1 DEF SamplesBounded
  <2> QED BY <1>2, <2>1, SlotsCounted
<1>7. acks' \in 0 .. Total
  <2>1. acks' <= Cardinality(Behind(Slots, j', Answered'))
    BY <1>1 DEF AcksExact
  <2> QED BY <1>2, <2>1, SlotsCounted
<1>8. TypeOK'
  BY <1>5, <1>6, <1>7 DEF TypeOK, Shapes, BenchIInv, NoReport
<1>9. SamplesSurvive' /\ ReportComplete'
  BY DEF BenchIInv, SamplesSurvive, ReportComplete, NoReport
<1> QED BY <1>8, <1>9 DEF BenchIInv

LEMMA InitBenchIInv ==
    ASSUME Init
    PROVE  BenchIInv
<1>1. TypeOK
  <2>1. /\ at \in [Clients -> {"none", "acquire", "loop", "send", "receive", "count", "load", "store", "put", "ok", "error"}]
        /\ j \in [Clients -> 0 .. MessagesPerClient] /\ buf \in [Clients -> Buffers \cup {NoBuf}]
        /\ len \in [Clients -> 0 .. Total] /\ reply \in [Clients -> {"none", "asked", "success", "failure"}]
        /\ {success, failed, samples, acks} \subseteq 0 .. Total
    BY SlotsCounted, BenchmarkAssumption DEF Init
  <2>2. ctxDone \in BOOLEAN /\ groupErr \in BOOLEAN /\ pool \subseteq Buffers
    BY Zenon DEF Init
  <2> QED BY <2>1, <2>2 DEF Init, TypeOK
<1>2. Control /\ BufferOwned
  BY BenchmarkAssumption DEF Init, Control, BufferOwned
<1>3. Counted = {} /\ Stored = {} /\ Counted \cup Errors = {} /\ Acked = {} /\ Answered = {}
  BY DEF Init, Counted, Stored, Errors, Acked, Answered
<1>4. \A c \in Clients : j[c] = 0
  BY DEF Init
<1>5. Behind(Slots, j, {}) = {} /\ Behind(Due, j, {}) = {}
  BY <1>4, SlotsCounted, BehindEnds
<1>6. CountersExact
  BY <1>3, <1>5, FS_EmptySet DEF CountersExact, Init
<1>7. SamplesBounded
  BY <1>3, <1>5, FS_EmptySet DEF SamplesBounded, Init
<1>8. AcksExact
  BY <1>3, <1>5, FS_EmptySet DEF AcksExact, Init
<1>9. SamplesSurvive /\ ReportComplete
  BY DEF Init, SamplesSurvive, ReportComplete
<1> QED BY <1>1, <1>2, <1>6, <1>7, <1>8, <1>9 DEF BenchIInv

\* The steps of the command that leave the clients alone.
LEMMA QuietStep ==
    ASSUME BenchIInv, UNCHANGED <<suite, type, at, j, buf, len, reply, pool, groupErr, shared>>,
           pc' \in {"start", "run", "wait", "stop", "done", "killed"},
           pc' \in {"start", "run"} => pc \in {"start", "run"},
           server' \in {"none", "up", "down", "stopped"}, ctxDone' \in BOOLEAN
    PROVE  Shapes' /\ Control' /\ BufferOwned' /\ CountersExact' /\ SamplesBounded' /\ AcksExact'
<1>1. (groupErr' <=> groupErr) /\ groupErr' \in BOOLEAN
  BY Zenon DEF BenchIInv, TypeOK
<1>2. Shapes'
  BY <1>1 DEF Shapes, BenchIInv, TypeOK
<1>3. Control'
  BY <1>1 DEF Control, BenchIInv, shared
<1>4. BufferOwned'
  BY DEF BufferOwned, BenchIInv
<1>5. Counted' = Counted /\ Stored' = Stored /\ Errors' = Errors /\ Acked' = Acked /\ Answered' = Answered
  BY DEF Counted, Stored, Errors, Acked, Answered
<1>6. CountersExact'
  BY <1>5, CountersKept DEF shared
<1>7. SamplesBounded'
  BY <1>5, SamplesKept DEF shared
<1>8. AcksExact'
  BY <1>5, AcksKept DEF shared
<1> QED BY <1>2, <1>3, <1>4, <1>6, <1>7, <1>8

LEMMA CommandStep ==
    ASSUME BenchIInv, Start \/ Timeout \/ Stop \/ Signal
    PROVE  BenchIInv'
<1>1. /\ UNCHANGED <<suite, type, at, j, buf, len, reply, pool, groupErr, shared>> /\ report' = report
      /\ pc' \in {"start", "run", "wait", "stop", "done", "killed"}
      /\ pc' \in {"start", "run"} => pc \in {"start", "run"}
      /\ server' \in {"none", "up", "down", "stopped"}
  BY DEF BenchIInv, TypeOK, Start, Timeout, Stop, Signal, command
<1>2. ctxDone' \in BOOLEAN
  BY Zenon DEF BenchIInv, TypeOK, Start, Timeout, Stop, Signal
<1>3. Shapes' /\ Control' /\ BufferOwned' /\ CountersExact' /\ SamplesBounded' /\ AcksExact'
  BY <1>1, <1>2, QuietStep
<1>4. failed' \in Nat /\ samples' \in Nat /\ acks' \in Nat
  BY <1>1, SlotsCounted DEF BenchIInv, TypeOK, shared
<1> QED BY <1>1, <1>3, <1>4, Assemble

LEMMA RunClientsStep ==
    ASSUME BenchIInv, RunClients
    PROVE  BenchIInv'
<1>1. /\ UNCHANGED <<suite, type, server, report, j, buf, len, reply, pool, success, failed, samples, acks>>
      /\ pc' = "wait" /\ at' = [c \in Clients |-> "acquire"]
  BY DEF RunClients, shared
<1>2. (groupErr' <=> groupErr) /\ groupErr' \in BOOLEAN /\ ctxDone' \in BOOLEAN
  BY Zenon DEF BenchIInv, TypeOK, RunClients
<1>3. \A c \in Clients : at[c] = "none" /\ reply[c] = "none"
  BY DEF RunClients, BenchIInv, Control, TypeOK
<1>4. Shapes'
  BY <1>1, <1>2 DEF Shapes, BenchIInv, TypeOK
<1>5. Control' /\ BufferOwned'
  BY <1>1, <1>2, <1>3 DEF Control, BufferOwned, BenchIInv
<1>6. Counted' = Counted /\ Stored' = Stored /\ Errors' = Errors /\ Acked' = Acked /\ Answered' = Answered
  BY <1>1, <1>3 DEF Counted, Stored, Errors, Acked, Answered
<1>7. CountersExact'
  BY <1>1, <1>6, CountersKept
<1>8. SamplesBounded'
  BY <1>1, <1>6, SamplesKept
<1>9. AcksExact'
  BY <1>1, <1>6, AcksKept
<1>10. failed' \in Nat /\ samples' \in Nat /\ acks' \in Nat
  BY <1>1, SlotsCounted DEF BenchIInv, TypeOK
<1> QED BY <1>1, <1>4, <1>5, <1>7, <1>8, <1>9, <1>10, Assemble

\* The report: every client ended without an error, so that every slot is
\* behind it, and no failure was counted.
LEMMA WaitStep ==
    ASSUME BenchIInv, Wait
    PROVE  BenchIInv'
<1>1. /\ UNCHANGED <<suite, type, at, j, buf, len, reply, pool, success, failed, samples, acks, server>>
      /\ pc' = "stop"
  BY DEF Wait, shared
<1>2. ctxDone' \in BOOLEAN /\ groupErr' = groupErr
  BY Zenon DEF BenchIInv, TypeOK, Wait
<1>3. Shapes' /\ Control' /\ BufferOwned' /\ CountersExact' /\ SamplesBounded' /\ AcksExact'
  <2>1. server \in {"none", "up", "down", "stopped"}
    BY DEF BenchIInv, TypeOK
  <2> QED BY <1>1, <1>2, <2>1, QuietStep DEF shared
<1>4. failed' \in Nat /\ samples' \in Nat /\ acks' \in Nat
  BY <1>1, SlotsCounted DEF BenchIInv, TypeOK
<1>5. CASE groupErr
  <2>1. report' = report
    BY <1>5 DEF Wait
  <2> QED BY <1>3, <1>4, <2>1, Assemble
<1>6. CASE ~groupErr
  <2>1. /\ report' = [total |-> Total, success |-> success, failed |-> failed, samples |-> samples]
        /\ \A c \in Clients : at[c] \in {"ok", "error"}
    BY <1>6 DEF Wait, Finished
  <2>2. \A c \in Clients : j[c] = MessagesPerClient
    BY <1>6, <2>1 DEF BenchIInv, Control
  <2>3. Behind(Slots, j, Counted) = Slots /\ Behind(Due, j, Stored) = Due
    BY <2>2, SlotsCounted, BehindEnds
  <2>4. success = Total /\ failed = 0
    BY <1>6, <2>3, SlotsCounted DEF BenchIInv, CountersExact, Control
  <2>5. samples <= Sampled /\ samples \in 0 .. Total
    BY <2>3, SlotsCounted DEF BenchIInv, SamplesBounded, TypeOK
  <2>6. MessagesPerClient > 0 => samples >= 1
    <3> SUFFICES ASSUME MessagesPerClient > 0 PROVE samples >= 1
      OBVIOUS
    <3>1. PICK c \in Clients : TRUE
      BY BenchmarkAssumption
    <3>2. 0 \in 0 .. MessagesPerClient - 1 /\ 0 % Sampling = 0
      BY BenchmarkAssumption
    <3>3. <<c, 0>> \in Due
      BY <3>1, <3>2 DEF Due
    <3> QED BY <2>3, <3>3 DEF BenchIInv, SamplesBounded
  <2>7. Total \in Nat /\ Sampled \in Int
    BY SlotsCounted, FS_CardinalityType, FS_Subset
  <2>8. /\ report' \in [{"total", "success", "failed", "samples"} -> 0 .. Total]
        /\ report'.success = Total /\ report'.failed = 0 /\ report'.total = Total /\ report'.samples = samples
    BY <2>1, <2>4, <2>5, <2>7
  <2>9. {success, failed, samples, acks}' \subseteq 0 .. Total
    BY <1>1 DEF BenchIInv, TypeOK
  <2>10. TypeOK'
    BY <1>3, <2>8, <2>9 DEF TypeOK, Shapes
  <2>11. ReportComplete'
    BY <2>7, <2>8 DEF ReportComplete
  <2>12. SamplesSurvive'
    BY <2>5, <2>6, <2>7, <2>8 DEF SamplesSurvive
  <2> QED BY <1>3, <2>10, <2>11, <2>12 DEF BenchIInv
<1> QED BY <1>5, <1>6

-----------------------------------------------------------------------------
(* The steps of a client.                                                   *)

Locations == {"none", "acquire", "loop", "send", "receive", "count", "load", "store", "put", "ok", "error"}
Replies == {"none", "asked", "success", "failure"}

\* What a step of client c must say about where it goes (v), the answer that
\* waits for it (r), its buffer (b) and its message (n) to keep the control and
\* the buffers in order.
LEMMA ClientMoves ==
    ASSUME BenchIInv, pc = "wait", UNCHANGED command, NEW c \in Clients,
           NEW v \in Locations, NEW r \in Replies, NEW b \in Buffers \cup {NoBuf}, NEW n \in 0 .. MessagesPerClient,
           at' = [at EXCEPT ![c] = v], reply' = [reply EXCEPT ![c] = r],
           buf' = [buf EXCEPT ![c] = b], j' = [j EXCEPT ![c] = n],
           len' \in [Clients -> 0 .. Total], pool' \subseteq Buffers, pool' \subseteq pool \cup {buf[c]},
           ctxDone' \in BOOLEAN, groupErr' \in BOOLEAN, groupErr => groupErr', ~groupErr' => failed' = 0,
           v \in {"send", "receive", "count", "load", "store", "put"} => b # NoBuf /\ n < MessagesPerClient,
           v \in {"load", "store"} => n % Sampling = 0,
           r # "none" => v = "receive", v = "ok" => n = MessagesPerClient, v = "error" => groupErr',
           b # NoBuf => b \notin pool' /\ \A d \in Clients \ {c} : buf[d] # b
    PROVE  Shapes' /\ Control' /\ BufferOwned'
<1>1. /\ at \in [Clients -> Locations] /\ reply \in [Clients -> Replies]
      /\ buf \in [Clients -> Buffers \cup {NoBuf}] /\ j \in [Clients -> 0 .. MessagesPerClient]
  BY DEF BenchIInv, TypeOK, Locations, Replies
<1>2. at' \in [Clients -> Locations] /\ at'[c] = v /\ \A d \in Clients \ {c} : at'[d] = at[d]
  BY <1>1
<1>3. reply' \in [Clients -> Replies] /\ reply'[c] = r /\ \A d \in Clients \ {c} : reply'[d] = reply[d]
  BY <1>1
<1>4. buf' \in [Clients -> Buffers \cup {NoBuf}] /\ buf'[c] = b /\ \A d \in Clients \ {c} : buf'[d] = buf[d]
  BY <1>1
<1>5. j' \in [Clients -> 0 .. MessagesPerClient] /\ j'[c] = n /\ \A d \in Clients \ {c} : j'[d] = j[d]
  BY <1>1
<1>6. Shapes'
  <2>1. /\ suite' \in Suites /\ type' \in Types
        /\ server' \in {"none", "up", "down", "stopped"}
        /\ pc' \in {"start", "run", "wait", "stop", "done", "killed"}
    BY DEF command, BenchIInv, TypeOK
  <2>2. Buffers' = Buffers
    BY DEF Buffers
  <2> QED BY <1>2, <1>3, <1>4, <1>5, <2>1, <2>2 DEF Shapes, Locations, Replies
<1>7. pc' = "wait"
  BY DEF command
<1>8. Control'
  <2> SUFFICES ASSUME NEW d \in Clients
               PROVE  /\ at'[d] \in {"send", "receive", "count", "load", "store", "put"} =>
                            buf'[d] # NoBuf /\ j'[d] < MessagesPerClient
                      /\ at'[d] \in {"load", "store"} => j'[d] % Sampling = 0
                      /\ reply'[d] # "none" => at'[d] = "receive"
                      /\ at'[d] = "ok" => j'[d] = MessagesPerClient
                      /\ at'[d] = "error" => groupErr'
    BY <1>7 DEF Control, NoBuf
  <2>1. CASE d = c
    BY <2>1, <1>2, <1>3, <1>4, <1>5
  <2>2. CASE d # c
    BY <2>2, <1>2, <1>3, <1>4, <1>5 DEF BenchIInv, Control
  <2> QED BY <2>1, <2>2
<1>9. BufferOwned'
  BY <1>4 DEF BufferOwned, BenchIInv, NoBuf
<1> QED BY <1>6, <1>8, <1>9

LEMMA Same ==
    ASSUME NEW S, NEW T, NEW f \in [S -> T], NEW c \in S
    PROVE  f = [f EXCEPT ![c] = f[c]]
OBVIOUS

\* What the invariant says of one client.
LEMMA Facts ==
    ASSUME BenchIInv, NEW c \in Clients
    PROVE  /\ at[c] \in Locations /\ reply[c] \in Replies /\ buf[c] \in Buffers \cup {NoBuf}
           /\ j[c] \in 0 .. MessagesPerClient /\ len[c] \in 0 .. Total
           /\ at = [at EXCEPT ![c] = at[c]] /\ reply = [reply EXCEPT ![c] = reply[c]]
           /\ buf = [buf EXCEPT ![c] = buf[c]] /\ j = [j EXCEPT ![c] = j[c]]
           /\ len \in [Clients -> 0 .. Total] /\ pool \subseteq Buffers
           /\ groupErr \in BOOLEAN /\ ctxDone \in BOOLEAN
           /\ success \in Nat /\ failed \in Nat /\ samples \in 0 .. Total /\ acks \in Nat
           /\ NoBuf \notin Buffers
           /\ at[c] \in {"send", "receive", "count", "load", "store", "put"} => buf[c] # NoBuf /\ j[c] < MessagesPerClient
           /\ at[c] \in {"load", "store"} => j[c] % Sampling = 0
           /\ reply[c] # "none" => at[c] = "receive"
           /\ at[c] = "ok" => j[c] = MessagesPerClient
           /\ at[c] = "error" => groupErr
           /\ ~groupErr => failed = 0
           /\ buf[c] # NoBuf => buf[c] \notin pool /\ \A d \in Clients \ {c} : buf[d] # buf[c]
<1>1. /\ at[c] \in Locations /\ reply[c] \in Replies /\ buf[c] \in Buffers \cup {NoBuf}
      /\ j[c] \in 0 .. MessagesPerClient /\ len[c] \in 0 .. Total
      /\ len \in [Clients -> 0 .. Total] /\ pool \subseteq Buffers
      /\ success \in Nat /\ failed \in Nat /\ samples \in 0 .. Total /\ acks \in Nat
  BY SlotsCounted DEF BenchIInv, TypeOK, Locations, Replies
<1>2. /\ at = [at EXCEPT ![c] = at[c]] /\ reply = [reply EXCEPT ![c] = reply[c]]
      /\ buf = [buf EXCEPT ![c] = buf[c]] /\ j = [j EXCEPT ![c] = j[c]]
  BY Same DEF BenchIInv, TypeOK
<1>3. groupErr \in BOOLEAN /\ ctxDone \in BOOLEAN
  BY Zenon DEF BenchIInv, TypeOK
<1>4. NoBuf \notin Buffers
  BY SlotsCounted DEF NoBuf, Buffers
<1>5. /\ at[c] \in {"send", "receive", "count", "load", "store", "put"} => buf[c] # NoBuf /\ j[c] < MessagesPerClient
      /\ at[c] \in {"load", "store"} => j[c] % Sampling = 0
      /\ reply[c] # "none" => at[c] = "receive"
      /\ at[c] = "ok" => j[c] = MessagesPerClient
      /\ at[c] = "error" => groupErr
      /\ ~groupErr => failed = 0
  BY DEF BenchIInv, Control
<1>6. buf[c] # NoBuf => buf[c] \notin pool /\ \A d \in Clients \ {c} : buf[d] # buf[c]
  BY DEF BenchIInv, BufferOwned
<1> QED BY <1>1, <1>2, <1>3, <1>4, <1>5, <1>6

\* A step before the message is counted that counts nothing.
LEMMA SilentMove ==
    ASSUME BenchIInv, UNCHANGED <<command, j, len, shared>>, NEW c \in Clients,
           at[c] \in {"acquire", "loop", "send", "receive"},
           NEW v \in {"loop", "send", "receive", "count", "ok", "error"}, NEW r \in Replies,
           at' = [at EXCEPT ![c] = v], reply' = [reply EXCEPT ![c] = r],
           c \in Answered => v \in {"count", "error"} \/ (v = "receive" /\ r # "asked"),
           suite = "uds" /\ (v = "count" \/ (v = "receive" /\ r = "success")) => c \in Acked,
           Shapes', Control', BufferOwned'
    PROVE  BenchIInv'
<1>1. TypeOK
  BY DEF BenchIInv
<1>2. c \notin Counted /\ c \notin Stored /\ c \notin Errors
  BY DEF Counted, Stored, Errors
<1>3. Counted' = Counted /\ Stored' = Stored /\ Errors \subseteq Errors'
  <2>1. /\ Counted' = Counted \ {c} /\ Stored' = Stored \ {c}
        /\ Errors' = IF v = "error" THEN Errors \cup {c} ELSE Errors \ {c}
    BY <1>1, Moves
  <2> QED BY <1>2, <2>1
<1>4. Answered \subseteq Answered' /\ (suite = "uds" => Acked' \subseteq Acked)
  BY <1>1, Moves
<1>5. UNCHANGED <<success, failed, samples, acks, suite, report>>
  BY DEF command, shared
<1>6. CountersExact'
  BY <1>3, <1>5, CountersKept
<1>7. SamplesBounded'
  <2>1. at \in [Clients -> Locations]
    BY <1>1 DEF TypeOK, Locations
  <2>2. \A d \in Clients : at'[d] = "store" => at[d] = "store" /\ len'[d] = len[d]
    BY <2>1
  <2> QED BY <1>3, <1>5, <2>2, SamplesKept
<1>8. AcksExact'
  BY <1>4, <1>5, AcksKept
<1>9. failed' \in Nat /\ samples' \in Nat /\ acks' \in Nat
  BY <1>5, Facts, SlotsCounted
<1> QED BY <1>5, <1>6, <1>7, <1>8, <1>9, Assemble

LEMMA GiveUpStep ==
    ASSUME BenchIInv, pc = "wait", UNCHANGED <<command, j, len>>, NEW c \in Clients,
           at[c] \in {"send", "receive"}, GiveUp(c), reply' = [reply EXCEPT ![c] = "none"]
    PROVE  BenchIInv'
<1>1. /\ failed' = failed + 1 /\ UNCHANGED <<success, samples, acks>>
      /\ pool' = pool \cup {buf[c]} /\ buf' = [buf EXCEPT ![c] = NoBuf]
      /\ at' = [at EXCEPT ![c] = "error"]
  BY DEF GiveUp, Fail
<1>2. groupErr' \in BOOLEAN /\ ctxDone' \in BOOLEAN /\ groupErr'
  BY Zenon DEF GiveUp, Fail
<1>3. UNCHANGED <<suite, report>>
  BY DEF command
<1>4. buf[c] \in Buffers /\ j[c] < MessagesPerClient
  BY Facts
<1>5. TypeOK
  BY DEF BenchIInv
<1>6. Shapes' /\ Control' /\ BufferOwned'
  <2>1. /\ j' = [j EXCEPT ![c] = j[c]] /\ j[c] \in 0 .. MessagesPerClient
        /\ len' \in [Clients -> 0 .. Total] /\ pool' \subseteq Buffers
    BY <1>1, <1>4, Facts
  <2>2. "error" \in Locations /\ "none" \in Replies
    BY DEF Locations, Replies
  <2> QED BY <1>1, <1>2, <2>1, <2>2, ClientMoves
<1>7. c \notin Counted /\ c \notin Errors /\ c \notin Stored
  BY DEF Counted, Errors, Stored
<1>8. Counted' = Counted /\ Errors' = Errors \cup {c} /\ Stored' = Stored
  <2>1. Counted' = Counted \ {c} /\ Stored' = Stored \ {c} /\ Errors' = Errors \cup {c}
    BY <1>1, <1>5, Moves
  <2> QED BY <1>7, <2>1
<1>9. Answered \subseteq Answered' /\ Acked' \subseteq Acked
  <2>1. Answered' = Answered \cup {c} /\ Acked' = Acked \ {c}
    BY <1>1, <1>5, Moves
  <2> QED BY <2>1
<1>10. CountersExact'
  BY <1>1, <1>4, <1>7, <1>8, CountersGrow
<1>11. SamplesBounded'
  <2>1. at \in [Clients -> Locations]
    BY <1>5 DEF TypeOK, Locations
  <2>2. \A d \in Clients : at'[d] = "store" => at[d] = "store" /\ len'[d] = len[d]
    BY <1>1, <2>1
  <2> QED BY <1>1, <1>8, <2>2, SamplesKept
<1>12. AcksExact'
  BY <1>1, <1>3, <1>9, AcksKept
<1>13. failed' \in Nat /\ samples' \in Nat /\ acks' \in Nat
  BY <1>1, Facts, SlotsCounted
<1> QED BY <1>3, <1>6, <1>10, <1>11, <1>12, <1>13, Assemble

LEMMA AcquireStep ==
    ASSUME BenchIInv, pc = "wait", NEW c \in Clients, Acquire(c)
    PROVE  BenchIInv'
<1>1. at[c] = "acquire" /\ UNCHANGED <<command, j, buf, len, reply, pool, shared>>
  BY DEF Acquire
<1>2. PICK v \in {"loop", "error"} : at' = [at EXCEPT ![c] = v] /\ (v = "error" => groupErr')
  BY DEF Acquire, Fail
<1>3. groupErr' \in BOOLEAN /\ ctxDone' \in BOOLEAN /\ (groupErr => groupErr')
  BY Zenon DEF Acquire, Fail, BenchIInv, TypeOK
<1>4. failed' = failed
  BY <1>1 DEF shared
<1>5. Shapes' /\ Control' /\ BufferOwned'
  <2>1. v \in Locations
    BY DEF Locations
  <2>2. /\ reply' = [reply EXCEPT ![c] = reply[c]] /\ j' = [j EXCEPT ![c] = j[c]]
        /\ reply[c] \in Replies /\ j[c] \in 0 .. MessagesPerClient
        /\ len' \in [Clients -> 0 .. Total] /\ pool' \subseteq Buffers /\ pool' \subseteq pool \cup {buf[c]}
        /\ reply[c] = "none"
    BY <1>1, Facts
  <2>5. PICK b \in Buffers \cup {NoBuf} :
            /\ buf' = [buf EXCEPT ![c] = b]
            /\ b # NoBuf => b \notin pool' /\ \A d \in Clients \ {c} : buf[d] # b
    BY <1>1, Facts
  <2>3. ~groupErr' => failed' = 0
    BY <1>3, <1>4, Facts
  <2>4. UNCHANGED command
    BY <1>1
  <2> QED BY <1>2, <1>3, <2>1, <2>2, <2>5, <2>3, <2>4, ClientMoves
<1>6. c \notin Answered
  BY <1>1 DEF Answered
<1>7. reply' = [reply EXCEPT ![c] = reply[c]] /\ reply[c] \in Replies
  BY <1>1, Facts
<1> QED BY <1>1, <1>2, <1>5, <1>6, <1>7, SilentMove

LEMMA LoopStep ==
    ASSUME BenchIInv, pc = "wait", NEW c \in Clients, Loop(c)
    PROVE  BenchIInv'
<1>1. at[c] = "loop" /\ UNCHANGED <<command, j, len, reply, shared>>
  BY DEF Loop
<1>2. groupErr' \in BOOLEAN /\ ctxDone' \in BOOLEAN /\ (groupErr => groupErr')
  BY Zenon DEF Loop, Fail, BenchIInv, TypeOK
<1>3. ~groupErr' => failed' = 0
  BY <1>1, <1>2, Facts DEF shared
<1>4. c \notin Answered
  BY <1>1 DEF Answered
<1>5. /\ reply' = [reply EXCEPT ![c] = reply[c]] /\ reply[c] \in Replies /\ reply[c] = "none"
      /\ j' = [j EXCEPT ![c] = j[c]] /\ j[c] \in 0 .. MessagesPerClient
      /\ len' \in [Clients -> 0 .. Total]
  BY <1>1, Facts
<1>6. CASE at' = [at EXCEPT ![c] = "ok"] /\ j[c] = MessagesPerClient /\ UNCHANGED <<buf, pool>>
  <2>1. /\ UNCHANGED command
        /\ pool' \subseteq Buffers /\ pool' \subseteq pool \cup {buf[c]}
        /\ \E b \in Buffers \cup {NoBuf} :
            /\ buf' = [buf EXCEPT ![c] = b]
            /\ b # NoBuf => b \notin pool' /\ \A d \in Clients \ {c} : buf[d] # b
    BY <1>1, <1>6, Facts
  <2>2. Shapes' /\ Control' /\ BufferOwned'
    <3>1. "ok" \in Locations
      BY DEF Locations
    <3>2. at' = [at EXCEPT ![c] = "ok"]
      BY <1>6
    <3>3. PICK n \in 0 .. MessagesPerClient : n = MessagesPerClient /\ j' = [j EXCEPT ![c] = n]
      BY <1>5, <1>6
    <3>4. /\ reply' = [reply EXCEPT ![c] = reply[c]] /\ reply[c] \in Replies /\ reply[c] = "none"
          /\ len' \in [Clients -> 0 .. Total]
      BY <1>5
    <3> QED BY <1>2, <1>3, <2>1, <3>1, <3>2, <3>3, <3>4, ClientMoves
  <2> QED BY <1>1, <1>4, <1>5, <1>6, <2>2, SilentMove
<1>7. CASE at' = [at EXCEPT ![c] = "error"] /\ groupErr' /\ UNCHANGED <<buf, pool>>
  <2>1. /\ UNCHANGED command
        /\ pool' \subseteq Buffers /\ pool' \subseteq pool \cup {buf[c]}
        /\ \E b \in Buffers \cup {NoBuf} :
            /\ buf' = [buf EXCEPT ![c] = b]
            /\ b # NoBuf => b \notin pool' /\ \A d \in Clients \ {c} : buf[d] # b
    BY <1>1, <1>7, Facts
  <2>2. Shapes' /\ Control' /\ BufferOwned'
    <3>1. "error" \in Locations
      BY DEF Locations
    <3>2. at' = [at EXCEPT ![c] = "error"] /\ groupErr'
      BY <1>7
    <3> QED BY <1>2, <1>3, <1>5, <2>1, <3>1, <3>2, ClientMoves
  <2> QED BY <1>1, <1>4, <1>5, <1>7, <2>2, SilentMove
<1>8. CASE TakeBuffer(c) /\ at' = [at EXCEPT ![c] = Turn] /\ j[c] # MessagesPerClient
  <2>1. PICK b \in IF pool # {} THEN pool ELSE Buffers \ {buf[d] : d \in Clients} :
            buf' = [buf EXCEPT ![c] = b] /\ pool' = pool \ {b}
    BY <1>8 DEF TakeBuffer
  <2>2. b \in Buffers /\ pool' \subseteq Buffers /\ pool' \subseteq pool \cup {buf[c]} /\ b \notin pool'
    BY <2>1, Facts
  <2>3. \A d \in Clients \ {c} : buf[d] # b
    BY <2>1, <2>2, Facts
  <2>4. Turn \in {"send", "count", "receive"} /\ (suite = "uds" => Turn # "count")
    BY DEF Turn
  <2>5. b # NoBuf /\ j[c] < MessagesPerClient
    BY <1>5, <1>8, <2>2, Facts, BenchmarkAssumption
  <2>6. Shapes' /\ Control' /\ BufferOwned'
    <3>1. Turn \in Locations
      BY <2>4 DEF Locations
    <3> HIDE DEF Turn
    <3> QED BY <1>1, <1>2, <1>3, <1>5, <1>8, <2>1, <2>2, <2>3, <2>4, <2>5, <3>1, ClientMoves
  <2> QED BY <1>1, <1>4, <1>5, <1>8, <2>4, <2>6, SilentMove
<1>9. \/ at' = [at EXCEPT ![c] = "ok"] /\ j[c] = MessagesPerClient /\ UNCHANGED <<buf, pool>>
      \/ at' = [at EXCEPT ![c] = "error"] /\ groupErr' /\ UNCHANGED <<buf, pool>>
      \/ TakeBuffer(c) /\ at' = [at EXCEPT ![c] = Turn] /\ j[c] # MessagesPerClient
  BY DEF Loop, Fail
<1> QED BY <1>6, <1>7, <1>8, <1>9

\* The frame of a step that leaves buffers, context and errors alone.
LEMMA FrameKept ==
    ASSUME BenchIInv, pc = "wait", UNCHANGED <<command, buf, pool, ctxDone, groupErr, failed>>, NEW c \in Clients,
           buf[c] # NoBuf, j' = j, j[c] < MessagesPerClient, len' \in [Clients -> 0 .. Total],
           NEW v \in {"send", "receive", "count", "load", "store", "put"}, NEW r \in Replies,
           at' = [at EXCEPT ![c] = v], reply' = [reply EXCEPT ![c] = r],
           r # "none" => v = "receive", v \in {"load", "store"} => j[c] % Sampling = 0
    PROVE  Shapes' /\ Control' /\ BufferOwned'
<1>1. groupErr' \in BOOLEAN /\ ctxDone' \in BOOLEAN /\ (groupErr => groupErr') /\ (groupErr' => groupErr)
  BY Zenon DEF BenchIInv, TypeOK
<1>2. UNCHANGED command
  OBVIOUS
<1>3. /\ pool' \subseteq Buffers /\ pool' \subseteq pool \cup {buf[c]}
      /\ \E b \in Buffers \cup {NoBuf} :
            b # NoBuf /\ buf' = [buf EXCEPT ![c] = b] /\ b \notin pool' /\ \A d \in Clients \ {c} : buf[d] # b
  BY Facts
<1>4. PICK n \in 0 .. MessagesPerClient :
        n < MessagesPerClient /\ j' = [j EXCEPT ![c] = n] /\ (v \in {"load", "store"} => n % Sampling = 0)
  BY Facts
<1>5. ~groupErr' => failed' = 0
  BY <1>1, Facts
<1>6. v \in Locations /\ v # "ok" /\ v # "error"
  BY DEF Locations
<1> QED BY <1>1, <1>2, <1>3, <1>4, <1>5, <1>6, ClientMoves

LEMMA SendStep ==
    ASSUME BenchIInv, pc = "wait", NEW c \in Clients, Send(c)
    PROVE  BenchIInv'
<1>1. at[c] = "send" /\ UNCHANGED <<command, j, len>>
  BY DEF Send
<1>2. /\ reply[c] = "none" /\ reply = [reply EXCEPT ![c] = reply[c]]
      /\ buf[c] # NoBuf /\ j[c] < MessagesPerClient /\ len' \in [Clients -> 0 .. Total]
  BY <1>1, Facts
<1>3. CASE GiveUp(c) /\ UNCHANGED reply
  <2>1. reply' = [reply EXCEPT ![c] = "none"]
    BY <1>2, <1>3
  <2> QED BY <1>1, <1>3, <2>1, GiveUpStep
<1>4. CASE /\ at' = [at EXCEPT ![c] = IF suite = "dummy" THEN "count" ELSE "receive"]
           /\ reply' = [reply EXCEPT ![c] = IF suite = "dummy" THEN @ ELSE "asked"]
           /\ UNCHANGED <<buf, pool, ctxDone, groupErr, shared>>
  <2>1. PICK v \in {"receive", "count"}, r \in {"none", "asked"} :
            /\ at' = [at EXCEPT ![c] = v] /\ reply' = [reply EXCEPT ![c] = r]
            /\ v = "count" => r = "none" /\ suite = "dummy"
    <3>1. CASE suite = "dummy"
      <4>1. at' = [at EXCEPT ![c] = "count"] /\ reply' = [reply EXCEPT ![c] = "none"]
        BY <1>2, <1>4, <3>1
      <4> QED BY <3>1, <4>1
    <3>2. CASE suite # "dummy"
      <4>1. at' = [at EXCEPT ![c] = "receive"] /\ reply' = [reply EXCEPT ![c] = "asked"]
        BY <1>4, <3>2
      <4> QED BY <4>1
    <3> QED BY <3>1, <3>2
  <2>2. r \in Replies
    BY DEF Replies
  <2>3. failed' = failed
    BY <1>4 DEF shared
  <2>4. Shapes' /\ Control' /\ BufferOwned'
    <3>1. v \in {"send", "receive", "count", "load", "store", "put"} /\ v \notin {"load", "store"}
      OBVIOUS
    <3>2. r # "none" => v = "receive"
      BY <2>1
    <3>3. at' = [at EXCEPT ![c] = v] /\ reply' = [reply EXCEPT ![c] = r]
      BY <2>1
    <3>4. UNCHANGED <<command, buf, pool, ctxDone, groupErr, failed>> /\ j' = j
      BY <1>1, <1>4, <2>3
    <3> QED BY <1>2, <2>2, <3>1, <3>2, <3>3, <3>4, FrameKept
  <2>5. c \notin Answered
    BY <1>1 DEF Answered
  <2> QED BY <1>1, <1>4, <2>1, <2>2, <2>4, <2>5, SilentMove
<1> QED BY <1>3, <1>4 DEF Send

LEMMA AnswerStep ==
    ASSUME BenchIInv, pc = "wait", NEW c \in Clients, Answer(c)
    PROVE  BenchIInv'
<1>1. /\ reply[c] = "asked"
      /\ UNCHANGED <<command, at, j, buf, len, pool, ctxDone, groupErr, success, failed, samples>>
  BY DEF Answer
<1>2. PICK r \in {"success", "failure"} :
        reply' = [reply EXCEPT ![c] = r] /\ acks' = IF r = "success" THEN acks + 1 ELSE acks
  BY DEF Answer
<1>3. /\ at[c] = "receive" /\ at' = [at EXCEPT ![c] = "receive"] /\ buf[c] # NoBuf /\ j[c] < MessagesPerClient
      /\ len' \in [Clients -> 0 .. Total]
  BY <1>1, Facts
<1>4. Shapes' /\ Control' /\ BufferOwned'
  <2>1. r \in Replies
    BY DEF Replies
  <2> QED BY <1>1, <1>2, <1>3, <2>1, FrameKept
<1>5. CASE r = "failure"
  <2>1. UNCHANGED shared
    BY <1>1, <1>2, <1>5 DEF shared
  <2>2. r \in Replies
    BY DEF Replies
  <2> QED BY <1>1, <1>2, <1>3, <1>4, <1>5, <2>1, <2>2, SilentMove
<1>6. CASE r = "success"
  <2>1. TypeOK
    BY DEF BenchIInv
  <2>2. c \notin Answered /\ c \notin Acked /\ c \notin Counted /\ c \notin Stored /\ c \notin Errors
    BY <1>1, <1>3 DEF Answered, Acked, Counted, Stored, Errors
  <2>3. /\ Answered' = Answered \cup {c} /\ Acked' = Acked \cup {c}
        /\ Counted' = Counted \ {c} /\ Stored' = Stored \ {c} /\ Errors' = Errors \ {c}
    BY <1>2, <1>3, <1>6, <2>1, Moves
  <2>4. Counted' = Counted /\ Stored' = Stored /\ Errors' = Errors
    BY <2>2, <2>3
  <2>5. suite' = suite /\ report' = report
    BY <1>1 DEF command
  <2>6. CountersExact'
    BY <1>1, <2>4, CountersKept
  <2>7. SamplesBounded'
    BY <1>1, <2>4, SamplesKept
  <2>8. AcksExact'
    BY <1>1, <1>2, <1>3, <1>6, <2>2, <2>3, <2>5, AcksGrow
  <2>9. failed' \in Nat /\ samples' \in Nat /\ acks' \in Nat
    BY <1>1, <1>2, Facts, SlotsCounted
  <2> QED BY <1>4, <2>5, <2>6, <2>7, <2>8, <2>9, Assemble
<1> QED BY <1>5, <1>6

LEMMA LoseStep ==
    ASSUME BenchIInv, pc = "wait", NEW c \in Clients, Lose(c)
    PROVE  BenchIInv'
<1>1. /\ suite = "udp" /\ reply[c] # "none" /\ reply' = [reply EXCEPT ![c] = "none"]
      /\ UNCHANGED <<command, at, j, buf, len, pool, ctxDone, groupErr, shared>>
  BY DEF Lose
<1>2. /\ at[c] = "receive" /\ at' = [at EXCEPT ![c] = "receive"] /\ buf[c] # NoBuf /\ j[c] < MessagesPerClient
      /\ len' \in [Clients -> 0 .. Total]
  BY <1>1, Facts
<1>3. "none" \in Replies /\ failed' = failed
  BY <1>1 DEF Replies, shared
<1>4. Shapes' /\ Control' /\ BufferOwned'
  BY <1>1, <1>2, <1>3, FrameKept
<1> QED BY <1>1, <1>2, <1>3, <1>4, SilentMove

LEMMA ReceiveStep ==
    ASSUME BenchIInv, pc = "wait", NEW c \in Clients, Receive(c)
    PROVE  BenchIInv'
<1>1. at[c] = "receive" /\ reply' = [reply EXCEPT ![c] = "none"] /\ UNCHANGED <<command, j, len>>
  BY DEF Receive
<1>2. CASE GiveUp(c)
  BY <1>1, <1>2, GiveUpStep
<1>3. CASE /\ reply[c] \in {"success", "failure"} /\ ~(suite = "uds" /\ reply[c] = "failure")
           /\ at' = [at EXCEPT ![c] = "count"] /\ UNCHANGED <<buf, pool, ctxDone, groupErr, shared>>
  <2>1. buf[c] # NoBuf /\ j[c] < MessagesPerClient /\ len' \in [Clients -> 0 .. Total]
    BY <1>1, Facts
  <2>2. "none" \in Replies /\ failed' = failed
    BY <1>3 DEF Replies, shared
  <2>3. Shapes' /\ Control' /\ BufferOwned'
    BY <1>1, <1>3, <2>1, <2>2, FrameKept
  <2>4. suite = "uds" => c \in Acked
    BY <1>1, <1>3 DEF Acked
  <2> QED BY <1>1, <1>3, <2>2, <2>3, <2>4, SilentMove
<1> QED BY <1>2, <1>3 DEF Receive

\* Count, Load and Store change at and one counter.
LEMMA CountStep ==
    ASSUME BenchIInv, pc = "wait", NEW c \in Clients, Count(c)
    PROVE  BenchIInv'
<1>1. /\ at[c] = "count" /\ success' = success + 1
      /\ UNCHANGED <<command, j, buf, len, reply, pool, ctxDone, groupErr, failed, samples, acks>>
  BY DEF Count
<1>2. /\ reply[c] = "none" /\ reply' = [reply EXCEPT ![c] = reply[c]] /\ reply[c] \in Replies
      /\ buf[c] # NoBuf /\ j[c] < MessagesPerClient /\ len' \in [Clients -> 0 .. Total]
      /\ j[c] \in 0 .. MessagesPerClient
  BY <1>1, Facts
<1>3. PICK v \in {"load", "put"} :
        at' = [at EXCEPT ![c] = v] /\ (v = "load" => j[c] % Sampling = 0) /\ (v = "put" => j[c] % Sampling # 0)
  BY DEF Count
<1>4. Shapes' /\ Control' /\ BufferOwned'
  BY <1>1, <1>2, <1>3, FrameKept
<1>5. TypeOK
  BY DEF BenchIInv
<1>6. c \notin Counted /\ c \notin Errors /\ c \notin Stored /\ c \in Answered /\ c \in Acked
  BY <1>1 DEF Counted, Errors, Stored, Answered, Acked
<1>7. /\ Counted' = Counted \cup {c} /\ Errors' = Errors \ {c}
      /\ Stored' = IF v = "put" THEN Stored \cup {c} ELSE Stored \ {c}
      /\ Answered' = Answered \cup {c} /\ Acked' = Acked \cup {c}
  BY <1>2, <1>3, <1>5, Moves
<1>8. Errors' = Errors /\ Answered' = Answered /\ Acked' = Acked
  BY <1>6, <1>7
<1>9. suite' = suite /\ report' = report
  BY <1>1 DEF command
<1>10. CountersExact'
  BY <1>1, <1>2, <1>6, <1>7, <1>8, CountersGrow
<1>11. SamplesBounded'
  <2>1. Behind(Due, j, Stored') = Behind(Due, j, Stored)
    <3>1. CASE v = "load"
      BY <1>6, <1>7, <3>1
    <3>2. CASE v = "put"
      <4>1. <<c, j[c]>> \notin Due
        BY <1>3, <3>2 DEF Due
      <4>2. Stored' = Stored \cup {c}
        BY <1>7, <3>2
      <4>3. Behind(Due, j, Stored \cup {c}) = Behind(Due, j, Stored)
        BY <1>6, <4>1, SlotsCounted, BehindGrows
      <4> QED BY <4>2, <4>3
    <3> QED BY <3>1, <3>2
  <2>2. at \in [Clients -> Locations]
    BY <1>5 DEF TypeOK, Locations
  <2>3. \A d \in Clients : at'[d] = "store" => at[d] = "store" /\ len'[d] = len[d]
    BY <1>1, <1>3, <2>2
  <2> QED BY <1>1, <2>1, <2>3, SamplesKept
<1>12. AcksExact'
  BY <1>1, <1>8, <1>9, AcksKept
<1>13. failed' \in Nat /\ samples' \in Nat /\ acks' \in Nat
  BY <1>1, Facts, SlotsCounted
<1> QED BY <1>4, <1>9, <1>10, <1>11, <1>12, <1>13, Assemble

LEMMA LoadStep ==
    ASSUME BenchIInv, pc = "wait", NEW c \in Clients, Load(c)
    PROVE  BenchIInv'
<1>1. /\ at[c] = "load" /\ at' = [at EXCEPT ![c] = "store"] /\ len' = [len EXCEPT ![c] = samples]
      /\ UNCHANGED <<command, j, buf, reply, pool, ctxDone, groupErr, success, failed, samples, acks, suite, report>>
  BY DEF Load, shared, command
<1>2. /\ reply[c] = "none" /\ reply' = [reply EXCEPT ![c] = reply[c]] /\ reply[c] \in Replies
      /\ buf[c] # NoBuf /\ j[c] < MessagesPerClient /\ len' \in [Clients -> 0 .. Total]
      /\ j[c] % Sampling = 0
  BY <1>1, Facts
<1>3. Shapes' /\ Control' /\ BufferOwned'
  BY <1>1, <1>2, FrameKept
<1>4. TypeOK
  BY DEF BenchIInv
<1>5. c \in Counted /\ c \notin Errors /\ c \notin Stored /\ c \in Answered /\ c \in Acked
  BY <1>1 DEF Counted, Errors, Stored, Answered, Acked
<1>6. /\ Counted' = Counted \cup {c} /\ Errors' = Errors \ {c} /\ Stored' = Stored \ {c}
      /\ Answered' = Answered \cup {c} /\ Acked' = Acked \cup {c}
  <2>1. PICK v : v = "store" /\ at' = [at EXCEPT ![c] = v]
    BY <1>1
  <2>2. reply' = [reply EXCEPT ![c] = "none"]
    BY <1>2
  <2>3. /\ Counted' = IF v \in {"load", "store", "put"} THEN Counted \cup {c} ELSE Counted \ {c}
        /\ Stored' = IF v = "put" THEN Stored \cup {c} ELSE Stored \ {c}
        /\ Errors' = IF v = "error" THEN Errors \cup {c} ELSE Errors \ {c}
        /\ Answered' = IF v \in {"count", "load", "store", "put", "error"} \/ (v = "receive" /\ "none" # "asked")
                       THEN Answered \cup {c} ELSE Answered \ {c}
        /\ Acked' = IF v \in {"count", "load", "store", "put"} \/ (v = "receive" /\ "none" = "success")
                    THEN Acked \cup {c} ELSE Acked \ {c}
    BY <1>4, <2>1, <2>2, Moves, Zenon
  <2> QED BY <2>1, <2>3
<1>7. Counted' = Counted /\ Errors' = Errors /\ Stored' = Stored /\ Answered' = Answered /\ Acked' = Acked
  BY <1>5, <1>6
<1>8. CountersExact'
  BY <1>1, <1>7, CountersKept
<1>9. SamplesBounded'
  <2>1. at \in [Clients -> Locations] /\ len \in [Clients -> 0 .. Total]
    BY <1>4 DEF TypeOK, Locations
  <2>2. \A d \in Clients : at'[d] = "store" => (at[d] = "store" /\ len'[d] = len[d]) \/ len'[d] = samples
    BY <1>1, <2>1
  <2> QED BY <1>1, <1>7, <2>2, SamplesKept
<1>10. AcksExact'
  BY <1>1, <1>7, AcksKept
<1>11. failed' \in Nat /\ samples' \in Nat /\ acks' \in Nat
  BY <1>1, Facts, SlotsCounted
<1> QED BY <1>1, <1>3, <1>8, <1>9, <1>10, <1>11, Assemble

LEMMA StoreStep ==
    ASSUME BenchIInv, pc = "wait", NEW c \in Clients, Store(c)
    PROVE  BenchIInv'
<1>1. /\ at[c] = "store" /\ at' = [at EXCEPT ![c] = "put"] /\ samples' = len[c] + 1
      /\ UNCHANGED <<command, j, buf, len, reply, pool, ctxDone, groupErr, success, failed, acks, suite, report>>
  BY DEF Store, command
<1>2. /\ reply[c] = "none" /\ reply' = [reply EXCEPT ![c] = reply[c]] /\ reply[c] \in Replies
      /\ buf[c] # NoBuf /\ j[c] < MessagesPerClient /\ len' \in [Clients -> 0 .. Total]
      /\ len[c] \in 0 .. Total
  BY <1>1, Facts
<1>3. Shapes' /\ Control' /\ BufferOwned'
  BY <1>1, <1>2, FrameKept
<1>4. TypeOK
  BY DEF BenchIInv
<1>5. c \in Counted /\ c \notin Errors /\ c \notin Stored /\ c \in Answered /\ c \in Acked
  BY <1>1 DEF Counted, Errors, Stored, Answered, Acked
<1>6. /\ Counted' = Counted \cup {c} /\ Errors' = Errors \ {c} /\ Stored' = Stored \cup {c}
      /\ Answered' = Answered \cup {c} /\ Acked' = Acked \cup {c}
  <2>1. at' = [at EXCEPT ![c] = "put"] /\ reply' = [reply EXCEPT ![c] = "none"]
    BY <1>1, <1>2
  <2> QED BY <1>4, <2>1, Moves
<1>7. Counted' = Counted /\ Errors' = Errors /\ Answered' = Answered /\ Acked' = Acked
  BY <1>5, <1>6
<1>8. CountersExact'
  BY <1>1, <1>7, CountersKept
<1>9. SamplesBounded'
  <2>1. at \in [Clients -> Locations]
    BY <1>4 DEF TypeOK, Locations
  <2>2. \A d \in Clients : at'[d] = "store" => at[d] = "store"
    BY <1>1, <2>1
  <2> QED BY <1>1, <1>5, <1>6, <2>2, SamplesStored
<1>10. AcksExact'
  BY <1>1, <1>7, AcksKept
<1>11. failed' \in Nat /\ samples' \in Nat /\ acks' \in Nat
  BY <1>1, <1>2, Facts, SlotsCounted
<1> QED BY <1>1, <1>3, <1>8, <1>9, <1>10, <1>11, Assemble

LEMMA PutStep ==
    ASSUME BenchIInv, pc = "wait", NEW c \in Clients, Put(c)
    PROVE  BenchIInv'
<1>1. /\ at[c] = "put" /\ at' = [at EXCEPT ![c] = "loop"] /\ j' = [j EXCEPT ![c] = @ + 1]
      /\ pool' = pool \cup {buf[c]} /\ buf' = [buf EXCEPT ![c] = NoBuf]
      /\ UNCHANGED <<command, len, reply, success, failed, samples, acks, suite, report>>
  BY DEF Put, shared, command
<1>2. /\ reply[c] = "none" /\ reply' = [reply EXCEPT ![c] = reply[c]] /\ reply[c] \in Replies
      /\ buf[c] \in Buffers /\ j[c] < MessagesPerClient /\ len' \in [Clients -> 0 .. Total]
      /\ j[c] \in 0 .. MessagesPerClient
  BY <1>1, Facts
<1>3. Shapes' /\ Control' /\ BufferOwned'
  <2>1. /\ groupErr' \in BOOLEAN /\ ctxDone' \in BOOLEAN /\ (groupErr => groupErr') /\ (groupErr' => groupErr)
    BY Zenon DEF Put, BenchIInv, TypeOK
  <2>2. ~groupErr' => failed' = 0
    BY <1>1, <2>1, Facts
  <2>3. j[c] + 1 \in 0 .. MessagesPerClient /\ j' = [j EXCEPT ![c] = j[c] + 1]
    BY <1>1, <1>2, BenchmarkAssumption
  <2>4. pool' \subseteq Buffers /\ pool' \subseteq pool \cup {buf[c]} /\ UNCHANGED command
    BY <1>1, <1>2, Facts
  <2>5. "loop" \in Locations
    BY DEF Locations
  <2>6. at' = [at EXCEPT ![c] = "loop"] /\ buf' = [buf EXCEPT ![c] = NoBuf]
    BY <1>1
  <2> QED BY <1>2, <2>1, <2>2, <2>3, <2>4, <2>5, <2>6, ClientMoves
<1>4. TypeOK
  BY DEF BenchIInv
<1>5. c \in Counted /\ c \notin Errors /\ c \in Stored /\ c \in Answered /\ c \in Acked
  BY <1>1 DEF Counted, Errors, Stored, Answered, Acked
<1>6. /\ Counted' = Counted \ {c} /\ Errors' = Errors \ {c} /\ Stored' = Stored \ {c}
      /\ Answered' = Answered \ {c} /\ Acked' = Acked \ {c}
  <2>1. PICK v : v = "loop" /\ at' = [at EXCEPT ![c] = v]
    BY <1>1
  <2>2. reply' = [reply EXCEPT ![c] = "none"]
    BY <1>2
  <2>3. /\ Counted' = IF v \in {"load", "store", "put"} THEN Counted \cup {c} ELSE Counted \ {c}
        /\ Stored' = IF v = "put" THEN Stored \cup {c} ELSE Stored \ {c}
        /\ Errors' = IF v = "error" THEN Errors \cup {c} ELSE Errors \ {c}
        /\ Answered' = IF v \in {"count", "load", "store", "put", "error"} \/ (v = "receive" /\ "none" # "asked")
                       THEN Answered \cup {c} ELSE Answered \ {c}
        /\ Acked' = IF v \in {"count", "load", "store", "put"} \/ (v = "receive" /\ "none" = "success")
                    THEN Acked \cup {c} ELSE Acked \ {c}
    BY <1>4, <2>1, <2>2, Moves, Zenon
  <2> QED BY <2>1, <2>3
<1>7. Errors' = Errors
  BY <1>5, <1>6
<1>8. CountersExact'
  BY <1>1, <1>5, <1>6, <1>7, CountersAdvance
<1>9. SamplesBounded'
  <2>1. at \in [Clients -> Locations]
    BY <1>4 DEF TypeOK, Locations
  <2>2. \A d \in Clients : at'[d] = "store" => at[d] = "store"
    BY <1>1, <2>1
  <2> QED BY <1>1, <1>5, <1>6, <2>2, SamplesAdvance
<1>10. AcksExact'
  BY <1>1, <1>5, <1>6, AcksAdvance
<1>11. failed' \in Nat /\ samples' \in Nat /\ acks' \in Nat
  BY <1>1, Facts, SlotsCounted
<1> QED BY <1>1, <1>3, <1>8, <1>9, <1>10, <1>11, Assemble

-----------------------------------------------------------------------------
(* The theorems.                                                            *)

LEMMA StepBenchIInv ==
    ASSUME BenchIInv, [Next]_vars
    PROVE  BenchIInv'
<1>1. CASE Start \/ Timeout \/ Stop \/ Signal
  BY <1>1, CommandStep
<1>2. CASE RunClients
  BY <1>2, RunClientsStep
<1>3. CASE Wait
  BY <1>3, WaitStep
<1>4. CASE pc = "wait" /\ \E c \in Clients : Client(c) \/ Answer(c) \/ Lose(c)
  <2>1. PICK c \in Clients : Client(c) \/ Answer(c) \/ Lose(c)
    BY <1>4
  <2>2. CASE Acquire(c) \/ Loop(c) \/ Send(c) \/ Receive(c)
    BY <1>4, <2>2, AcquireStep, LoopStep, SendStep, ReceiveStep
  <2>3. CASE Count(c) \/ Load(c) \/ Store(c) \/ Put(c)
    BY <1>4, <2>3, CountStep, LoadStep, StoreStep, PutStep
  <2>4. CASE Answer(c) \/ Lose(c)
    BY <1>4, <2>4, AnswerStep, LoseStep
  <2> QED BY <2>1, <2>2, <2>3, <2>4 DEF Client
<1>5. CASE UNCHANGED vars
  <2>1. /\ UNCHANGED <<suite, type, at, j, buf, len, reply, pool, groupErr, shared>> /\ report' = report
        /\ pc' = pc /\ server' = server
    BY <1>5 DEF vars, shared
  <2>2. ctxDone' \in BOOLEAN
    BY <1>5, Zenon DEF vars, BenchIInv, TypeOK
  <2>3. /\ pc \in {"start", "run", "wait", "stop", "done", "killed"}
        /\ server \in {"none", "up", "down", "stopped"}
    BY DEF BenchIInv, TypeOK
  <2>4. Shapes' /\ Control' /\ BufferOwned' /\ CountersExact' /\ SamplesBounded' /\ AcksExact'
    BY <2>1, <2>2, <2>3, QuietStep
  <2>5. failed' \in Nat /\ samples' \in Nat /\ acks' \in Nat
    BY <2>1, SlotsCounted DEF BenchIInv, TypeOK, shared
  <2> QED BY <2>1, <2>4, <2>5, Assemble
<1> QED BY <1>1, <1>2, <1>3, <1>4, <1>5 DEF Next

LEMMA SpecBenchIInv == Spec => []BenchIInv
<1>1. Init => BenchIInv
  BY InitBenchIInv
<1>2. BenchIInv /\ [Next]_vars => BenchIInv'
  BY StepBenchIInv
<1> QED BY <1>1, <1>2, PTL DEF Spec

\* For any number of clients and messages: a pool buffer is never with two
\* clients or with one and in the pool, the UDS suite never counts a success
\* that no answer told it of, the percentiles are of at least one sample and
\* of no more than were due, whatever appends get lost, and no counter
\* exceeds the number of messages.
THEOREM BenchmarkCorrect == Spec => []BenchmarkInv
<1>1. BenchIInv => UdsCountsAcks
  <2> SUFFICES ASSUME BenchIInv, suite = "uds" PROVE success <= acks
    BY DEF UdsCountsAcks
  <2>1. Counted \subseteq Acked
    BY DEF Counted, Acked
  <2>2. Cardinality(Behind(Slots, j, Counted)) <= Cardinality(Behind(Slots, j, Acked))
    BY <2>1, BehindMonotone
  <2>3. Cardinality(Behind(Slots, j, Counted)) \in Nat /\ Cardinality(Behind(Slots, j, Acked)) \in Nat
    BY BehindBounded
  <2>4. acks \in Nat
    BY SlotsCounted DEF BenchIInv, TypeOK
  <2> QED BY <2>2, <2>3, <2>4 DEF BenchIInv, CountersExact, AcksExact
<1>2. BenchIInv => BenchmarkInv
  BY <1>1 DEF BenchIInv, BenchmarkInv
<1> QED BY <1>2, SpecBenchIInv, PTL

\* For any number of clients and messages: a report is made only of a run in
\* which every message was counted as a success and none as a failure, though
\* the counters are added to by goroutines that fail independently.
THEOREM ReportIsComplete == Spec => []ReportComplete
<1>1. BenchIInv => ReportComplete
  BY DEF BenchIInv
<1> QED BY <1>1, SpecBenchIInv, PTL
====
