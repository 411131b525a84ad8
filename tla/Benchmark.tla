---- MODULE Benchmark ----
(***************************************************************************)
(* The benchmark command: cmd/benchmark.go, the suite manager, the five    *)
(* suites and the report.  Every client is a goroutine of an errgroup that *)
(* takes a buffer from the pool of the suite, sends a message, waits for   *)
(* the answer without a deadline and counts it.  The suites differ in what *)
(* a turn of the loop does; a latency is only counted as a sample, and     *)
(* append on the shared histogram is a load and a store of its length.     *)
(***************************************************************************)
EXTENDS Integers, FiniteSets

CONSTANTS
    Clients,            \* goroutines, numClients of them
    MessagesPerClient,  \* numMessagesPerClient
    Sampling,           \* latencySampling
    Suites,             \* suites the command may be called with
    Types               \* benchmark types the command may be called with

ASSUME BenchmarkAssumption ==
    /\ IsFiniteSet(Clients) /\ Clients # {}
    /\ MessagesPerClient \in Nat /\ Sampling \in Nat \ {0}
    /\ Suites \subseteq {"quic", "dummy", "uds", "tcp", "udp"}
    /\ Types \subseteq {"write", "read"}

VARIABLES
    suite, type,    \* arguments of the command
    server,         \* the suite's server: none, up, down (its Start failed) or stopped
    pc,             \* where the command is
    at,             \* for each client, where its goroutine is
    j,              \* for each client, its message counter
    buf,            \* for each client, its pool buffer, or NoBuf
    len,            \* for each client, the histogram length it loaded
    reply,          \* for each client, what waits on its connection
    pool,           \* buffers in the pool
    ctxDone,        \* the context of the group is done
    groupErr,       \* a goroutine returned an error
    success, failed, samples,  \* counters the goroutines share
    acks,           \* history: answers that say success
    report          \* what the report says when the run is over

vars == <<suite, type, server, pc, at, j, buf, len, reply, pool, ctxDone, groupErr,
          success, failed, samples, acks, report>>

shared == <<success, failed, samples, acks>>
command == <<suite, type, server, pc, report>>

\* A pool never needs more buffers than there are clients.
Buffers == 1 .. Cardinality(Clients)
NoBuf == 0

Total == Cardinality(Clients) * MessagesPerClient

NoReport == [total |-> -1, success |-> -1, failed |-> -1, samples |-> -1]

TypeOK ==
    /\ suite \in Suites /\ type \in Types
    /\ server \in {"none", "up", "down", "stopped"}
    /\ pc \in {"start", "run", "wait", "stop", "done", "killed"}
    /\ at \in [Clients -> {"none", "acquire", "loop", "send", "receive", "count", "load", "store", "put", "ok", "error"}]
    /\ j \in [Clients -> 0 .. MessagesPerClient]
    /\ buf \in [Clients -> Buffers \cup {NoBuf}]
    /\ len \in [Clients -> 0 .. Total]
    /\ reply \in [Clients -> {"none", "asked", "success", "failure"}]
    /\ pool \subseteq Buffers
    /\ ctxDone \in BOOLEAN /\ groupErr \in BOOLEAN
    /\ {success, failed, samples, acks} \subseteq 0 .. Total
    /\ report = NoReport \/ report \in [{"total", "success", "failed", "samples"} -> 0 .. Total]

Init ==
    /\ suite \in Suites /\ type \in Types
    /\ server = "none" /\ pc = "start" /\ report = NoReport
    /\ at = [c \in Clients |-> "none"] /\ j = [c \in Clients |-> 0]
    /\ buf = [c \in Clients |-> NoBuf] /\ len = [c \in Clients |-> 0]
    /\ reply = [c \in Clients |-> "none"] /\ pool = {}
    /\ ctxDone = FALSE /\ groupErr = FALSE
    /\ success = 0 /\ failed = 0 /\ samples = 0 /\ acks = 0

-----------------------------------------------------------------------------
(* The command.                                                             *)

\* Start of the suite: the transport or the database may be missing.  The QUIC
\* suite returns the error of its server; the others log it and go on.
Start ==
    /\ pc = "start"
    /\ \/ server' = "up" /\ pc' = "run"
       \/ server' = "down" /\ suite # "quic" /\ pc' = "run"
       \/ server' = server /\ pc' = "done"
    /\ UNCHANGED <<suite, type, report, at, j, buf, len, reply, pool, ctxDone, groupErr, shared>>

\* runBenchmark starts the goroutines.
RunClients ==
    /\ pc = "run"
    /\ pc' = "wait" /\ at' = [c \in Clients |-> "acquire"]
    /\ UNCHANGED <<suite, type, server, report, j, buf, len, reply, pool, ctxDone, groupErr, shared>>

\* The timeout of the command.
Timeout ==
    /\ pc = "wait" /\ ~ctxDone
    /\ ctxDone' = TRUE
    /\ UNCHANGED <<command, at, j, buf, len, reply, pool, groupErr, shared>>

Finished == \A c \in Clients : at[c] \in {"ok", "error"}

\* Mutant: the report is made whatever the clients returned.
MutReportAnyway ==
    /\ pc = "wait" /\ Finished
    /\ pc' = "stop"
    /\ report' = [total |-> Total, success |-> success, failed |-> failed, samples |-> samples]
    /\ UNCHANGED <<suite, type, server, at, j, buf, len, reply, pool, ctxDone, groupErr, shared>>

\* Mutant: only a client that succeeds is taken off the group.
MutWaitSuccess ==
    /\ pc = "wait" /\ \A c \in Clients : at[c] = "ok"
    /\ pc' = "stop"
    /\ report' = [total |-> Total, success |-> success, failed |-> failed, samples |-> samples]
    /\ UNCHANGED <<suite, type, server, at, j, buf, len, reply, pool, ctxDone, groupErr, shared>>

\* g.Wait returns.  Without an error the report is filled in and finalized,
\* which sets the total anew from the clients and the messages per client.
Wait ==
    /\ pc = "wait" /\ Finished
    /\ pc' = "stop"
    /\ report' =
        IF groupErr THEN report
        ELSE [total |-> Total, success |-> success, failed |-> failed, samples |-> samples]
    /\ UNCHANGED <<suite, type, server, at, j, buf, len, reply, pool, ctxDone, groupErr, shared>>

\* The deferred Stop of the suite; its error is dropped.
Stop ==
    /\ pc = "stop"
    /\ pc' = "done" /\ server' = "stopped"
    /\ UNCHANGED <<suite, type, report, at, j, buf, len, reply, pool, ctxDone, groupErr, shared>>

\* SIGINT or SIGTERM.  The handler was given the value of a flag that does not
\* exist, so it stops a suite without a name, which is none, and exits.
Signal ==
    /\ pc \notin {"done", "killed"}
    /\ pc' = "killed"
    /\ UNCHANGED <<suite, type, server, report, at, j, buf, len, reply, pool, ctxDone, groupErr, shared>>

-----------------------------------------------------------------------------
(* A client's goroutine.                                                    *)

\* The goroutine of c returns an error, which cancels the group's context.
Fail(c) ==
    /\ at' = [at EXCEPT ![c] = "error"]
    /\ groupErr' = TRUE /\ ctxDone' = TRUE

\* AcquireClient: a datagram socket needs no server.
Acquire(c) ==
    /\ at[c] = "acquire"
    /\ \/ /\ server = "up" \/ suite \in {"udp", "dummy"}
          /\ at' = [at EXCEPT ![c] = "loop"] /\ UNCHANGED <<ctxDone, groupErr>>
       \/ Fail(c)
    /\ UNCHANGED <<command, j, buf, len, reply, pool, shared>>

\* pool.Get: a free buffer, or a new one.
TakeBuffer(c) ==
    \E b \in IF pool # {} THEN pool ELSE Buffers \ {buf[d] : d \in Clients} :
        buf' = [buf EXCEPT ![c] = b] /\ pool' = pool \ {b}

\* Where the turn goes on: the TCP, UDP and UDS suites read without asking,
\* the QUIC suite does nothing at all.
Turn ==
    IF type = "write" \/ suite = "dummy" THEN "send"
    ELSE IF suite = "quic" THEN "count" ELSE "receive"

\* The head of the loop.
Loop(c) ==
    /\ at[c] = "loop"
    /\ IF j[c] = MessagesPerClient
       THEN at' = [at EXCEPT ![c] = "ok"] /\ UNCHANGED <<buf, pool, ctxDone, groupErr>>
       ELSE IF ctxDone THEN Fail(c) /\ UNCHANGED <<buf, pool>>
       ELSE /\ TakeBuffer(c) /\ at' = [at EXCEPT ![c] = Turn]
            /\ UNCHANGED <<ctxDone, groupErr>>
    /\ UNCHANGED <<command, j, len, reply, shared>>

\* A counted failure: the buffer goes back and the goroutine ends.
GiveUp(c) ==
    /\ failed' = failed + 1
    /\ pool' = pool \cup {buf[c]} /\ buf' = [buf EXCEPT ![c] = NoBuf]
    /\ Fail(c)
    /\ UNCHANGED <<success, samples, acks>>

\* The write of the message.  The dummy suite reads no answer, and its check
\* looks at another err than the one the write set.
Send(c) ==
    /\ at[c] = "send"
    /\ \/ /\ at' = [at EXCEPT ![c] = IF suite = "dummy" THEN "count" ELSE "receive"]
          /\ reply' = [reply EXCEPT ![c] = IF suite = "dummy" THEN @ ELSE "asked"]
          /\ UNCHANGED <<buf, pool, ctxDone, groupErr, shared>>
       \/ suite # "dummy" /\ GiveUp(c) /\ UNCHANGED reply
    /\ UNCHANGED <<command, j, len>>

\* The server answers; a write that could not be handled is answered too.
Answer(c) ==
    /\ reply[c] = "asked" /\ server = "up"
    /\ \E r \in {"success", "failure"} :
        /\ reply' = [reply EXCEPT ![c] = r]
        /\ acks' = IF r = "success" THEN acks + 1 ELSE acks
    /\ UNCHANGED <<command, at, j, buf, len, pool, ctxDone, groupErr, success, failed, samples>>

\* A datagram is lost, the one with the message or the one with the answer.
Lose(c) ==
    /\ suite = "udp" /\ reply[c] # "none"
    /\ reply' = [reply EXCEPT ![c] = "none"]
    /\ UNCHANGED <<command, at, j, buf, len, pool, ctxDone, groupErr, shared>>

\* Read returns with an answer, or with an error of the connection; it has no
\* deadline.  Only the UDS suite looks at the answer.
Receive(c) ==
    /\ at[c] = "receive"
    /\ \/ /\ reply[c] \in {"success", "failure"}
          /\ reply' = [reply EXCEPT ![c] = "none"]
          /\ IF suite = "uds" /\ reply[c] = "failure" THEN GiveUp(c)
             ELSE at' = [at EXCEPT ![c] = "count"] /\ UNCHANGED <<buf, pool, ctxDone, groupErr, shared>>
       \/ GiveUp(c) /\ reply' = [reply EXCEPT ![c] = "none"]
    /\ UNCHANGED <<command, j, len>>

Count(c) ==
    /\ at[c] = "count"
    /\ success' = success + 1
    /\ at' = [at EXCEPT ![c] = IF j[c] % Sampling = 0 THEN "load" ELSE "put"]
    /\ UNCHANGED <<command, j, buf, len, reply, pool, ctxDone, groupErr, failed, samples, acks>>

\* append to the histogram of the report, which the clients share: the length
\* is loaded and, one element later, stored, under no lock.
Load(c) ==
    /\ at[c] = "load"
    /\ at' = [at EXCEPT ![c] = "store"] /\ len' = [len EXCEPT ![c] = samples]
    /\ UNCHANGED <<command, j, buf, reply, pool, ctxDone, groupErr, shared>>

Store(c) ==
    /\ at[c] = "store"
    /\ at' = [at EXCEPT ![c] = "put"] /\ samples' = len[c] + 1
    /\ UNCHANGED <<command, j, buf, len, reply, pool, ctxDone, groupErr, success, failed, acks>>

\* Mutant: the next turn goes on with the buffer that went back to the pool.
MutKeepBuffer(c) ==
    /\ at[c] = "put"
    /\ pool' = pool \cup {buf[c]} /\ UNCHANGED buf
    /\ j' = [j EXCEPT ![c] = @ + 1] /\ at' = [at EXCEPT ![c] = "loop"]
    /\ UNCHANGED <<command, len, reply, ctxDone, groupErr, shared>>

\* pool.Put and the next turn.
Put(c) ==
    /\ at[c] = "put"
    /\ pool' = pool \cup {buf[c]} /\ buf' = [buf EXCEPT ![c] = NoBuf]
    /\ j' = [j EXCEPT ![c] = @ + 1] /\ at' = [at EXCEPT ![c] = "loop"]
    /\ UNCHANGED <<command, len, reply, ctxDone, groupErr, shared>>

Client(c) ==
    \/ Acquire(c) \/ Loop(c) \/ Send(c) \/ Receive(c) \/ Count(c) \/ Load(c) \/ Store(c) \/ Put(c)

Next ==
    \/ Start \/ RunClients \/ Timeout \/ Wait \/ Stop \/ Signal
    \/ pc = "wait" /\ \E c \in Clients : Client(c) \/ Answer(c) \/ Lose(c)

Spec == Init /\ [][Next]_vars

(* The command and the clients run, the timeout comes and a server that is  *)
(* up answers; that a connection fails is never promised, which is why the  *)
(* steps of Receive that need no answer are outside the fairness.           *)
Progress(c) ==
    \/ Acquire(c) \/ Loop(c) \/ Send(c) \/ Count(c) \/ Load(c) \/ Store(c) \/ Put(c)
    \/ (reply[c] \in {"success", "failure"} /\ Receive(c))

FairSpec ==
    /\ Spec
    /\ WF_vars(Start \/ RunClients \/ Wait \/ Stop) /\ WF_vars(Timeout)
    /\ \A c \in Clients : WF_vars(pc = "wait" /\ Progress(c)) /\ WF_vars(pc = "wait" /\ Answer(c))

-----------------------------------------------------------------------------

\* A pool buffer is in the pool or with one client, never at two places: no
\* message is encoded over another one.
BufferOwned ==
    \A c \in Clients :
        buf[c] # NoBuf => buf[c] \notin pool /\ \A d \in Clients \ {c} : buf[d] # buf[c]

\* A report that is printed is one of a run without a failure: as many
\* successes as the total the report computes for itself, and no failed
\* message, though failures are counted.
ReportComplete ==
    report # NoReport =>
        report.success = Total /\ report.failed = 0 /\ report.total = report.success + report.failed

\* The number of messages that are due to be sampled.
Sampled == Cardinality(Clients) * Cardinality({i \in 0 .. MessagesPerClient - 1 : i % Sampling = 0})

\* However the clients' appends interleave, a sample survives: percentiles are
\* computed of every run with a message, and never of more samples than the
\* messages that were due to be sampled.
SamplesSurvive ==
    report # NoReport /\ MessagesPerClient > 0 =>
        report.samples \in 1 .. Sampled

\* The UDS suite counts a write as successful only when its answer said so.
UdsCountsAcks == suite = "uds" => success <= acks

\* Buffers, counters and samples in every step of the clients.
BenchmarkInv == TypeOK /\ BufferOwned /\ SamplesSurvive /\ UdsCountsAcks

Over == pc \in {"done", "killed"}

\* A run of any suite but UDP ends, whatever fails, when each client sends before
\* it reads and its server is up and answers.  A lost datagram, or a client that
\* reads without having asked, waits in a Read without a deadline: of those runs
\* this says nothing.
Ends == (pc = "wait" /\ server = "up" /\ suite # "udp" /\ Turn # "receive") ~> Over
====
