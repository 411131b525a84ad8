# Verification of fdb

TLA+ models of [unpackdev/fdb](../src/README.md), a key-value server over MDBX that is
reached through QUIC, UDP, TCP and Unix domain sockets; TLC configurations that check the
models on small instances; and theorems about all eleven specifications, for every
value of their constants, checked by TLAPS.

`PROJECT.json` maps every definition to the lines of the source it models and lists the
runs, the mutants of each property, the hazards and the theorems.

    tlc -workers 2 -config BatchWriterSafety.cfg MCBatchWriter     # one run
    tlapm BatchWriterProofs.tla                                    # the proofs of one module

## 1. Inventory

### The path of a write

A client sends *action byte, 32-byte key, value*. A transport receives it, parses the action
byte, looks up the handler and calls it. The write handler calls `BufferWrite` of the batch
writer of that transport and answers success as soon as the request is in the channel of a
worker; the worker puts it in a map and commits the map to MDBX in one transaction, when it
has `maxBatchSize` keys or when a ticker fires. The read handler asks the database directly:
it does not see what the batch writer still holds.

So the acknowledgement promises *accepted*, not *durable*, and everything of interest is in
the time between the two: order, loss, the lifetime of the bytes, and what stopping does.

### Components

| component | state | operations | talks to |
|---|---|---|---|
| batch writer `db/writer.go` | a channel, a map and a mutex per worker; `stopChannel` | `BufferWrite`, `runWorker`, `flush`, `FlushAndStop` | called by write handlers; update transactions of MDBX |
| database `db/mdbx.go`, `db/provider.go` | the MDBX environment; its transactions | `Set`, `Get`, `Exists`, `Delete`, `Close`, `Destroy` | read handlers, batch writers |
| database manager `db/manager.go` | databases by name | `NewManager`, `GetDb`, `Close` | `fdb.New`, `FDB.Start` |
| messages `messages/message.go` | none (buffers belong to the caller's pool) | `Encode`, `EncodeWithBuffer`, `Decode` | clients, QUIC handlers, benchmark |
| UDP, UDS, dummy, TCP servers | `stopChan`, `started`; handler registry; socket file (UDS); engine (TCP) | `Start`, `Stop`, `WaitStarted`, `OnInitComplete`/`OnBoot`, `Tick`, `React`/`OnTraffic` | gnet's event loops call back |
| QUIC server | listener, `started`, `stopChan`, a WaitGroup; a goroutine per connection and stream | `Start`, `acceptConnections`, `handleConnection`, `handleStream`, `Stop` | quic-go |
| handlers | references to database and writer | `HandleMessage` | both of the above |
| `FDB`, registry, transport manager | registered transports; one batch writer per transport | `New`, `Start`, `Stop` | everything above; the serve command |
| client `client/` | transports by name; gnet client, connection, mutex | `RegisterTransport`, `Start`, `SendMessage`, `Close`; `Connect`, `Send`, `OnOpen`, `OnClose`, `OnTraffic` | gnet's client event loop |
| configuration `config/`, `types/` | the structs a YAML file is decoded into | `LoadConfig`, `UnmarshalYAML` of a section and of its config, `GetPprofByServiceTag` | the serve command, `fdb.New` |
| certificates `certs/`, `cmd/certs.go`, `config/quic.go` | two files on disk | `certs local`, `GetTLSConfig` | `NewServer` of the QUIC transport |
| benchmark `benchmark/`, `cmd/benchmark.go` | buffer pool, counters, histogram, report | `Start`, `RunWriteBenchmark`, `RunReadBenchmark`, `Stop`, signal handler | the servers, over sockets |

No state of their own that a property could be about: log lines, metrics, the eBPF loader
(sequential system calls). The eBPF transport is commented out.

### What is hard, and what correctness means

* **Order.** Several connections write a key; channel, map and transaction hold three
  generations of it at once. Correct: the database only moves forward through acknowledged
  writes (`RefinesWriteBehind`, `PendingInOrder`).
* **Failure.** Flushes fail, the process dies between two puts or between two commits.
  Correct: batches are whole (`WholeBatches`) and the newest write is lost only where the
  code throws it away (`NewestAccounted`).
* **Backpressure.** A full channel blocks an event loop; workers compete for MDBX's one
  writer lock. Correct: `BufferWrite` returns, acknowledged writes become durable.
* **Callbacks racing API calls.** gnet calls `OnInitComplete`, `Tick`, `OnClose` on its own
  goroutines while `Start`, `Stop`, `Send` run; fields are replaced under their feet; a
  timeout races the late signal. Correct: nobody is told that a server is up before one is,
  channels are not closed twice, `Start` and `Stop` end.
* **Framing.** Streams arrive in pieces, datagrams overwrite the buffer that handed-out
  slices point into, length fields wrap. Correct: handlers see the messages that were sent,
  answers belong to their requests, decoding is exact.
* **Partial failure.** One database or one transport of several fails. Correct: nothing
  starts over a missing database, the command ends, `Stop` does not panic after a good start.
* **Several transports, one database.** Every transport has a batch writer of its own, and
  only MDBX's writer lock is between them. Correct: a transport's own writes keep their
  order, and none of its acknowledged writes is kept out by the other (`OvertakenByOther`,
  `SettlesToNewest`, `AcceptedReachesStore`).
* **Two processes, two files.** The certificate and its key are written by one command and
  read by another, one file at a time. Correct: no server gets halves of two pairs
  (`TlsSound`).

The list with its lines is under `hazards` in `PROJECT.json`.

## 2. Modules

| module | models | extends / instantiates |
|---|---|---|
| `WriteBehind` | *abstract*: what a write-behind store promises | |
| `BatchWriter` | `db/writer.go` | instantiates `WriteBehind` |
| `BatchWriterProofs` | theorems | `BatchWriter` |
| `TransportWriters` | *composition*: the batch writers that `registry.go` gives to two transports | instantiates `BatchWriter` twice |
| `TransportWritersProofs` | theorems | `TransportWriters` |
| `Provider` | *abstract*: atomic `Set`, `Get`, `Exists`, `Delete` (`db/provider.go`) | |
| `Database` | `db/mdbx.go` | instantiates `Provider` |
| `Messages` | `messages/message.go`, as operators on byte sequences | |
| `MessagePool` | encoding into reused buffers, transmission, decoding | `Messages` |
| `MessagesProofs` | theorems about the codec and the pool | `MessagePool` |
| `GnetRequests` | `React`, `OnTraffic` and the handlers of `transports/udp`, `uds`, `tcp`, `dummy` | `Messages` |
| `QuicStreams` | `handleStream` and the handlers of `transports/quic`, over the batch writers of `registry.go` | `Messages` |
| `QuicServer` | lifecycle of the QUIC server | |
| `Certificates` | `cmd/certs.go`, `certs/generator.go`, `GetTLSConfig` of `config/quic.go` | |
| `QuicTransport` | *composition*: the QUIC server from `NewServer` on | `QuicServer`; instantiates `Certificates` |
| `QuicProofs` | theorems | `QuicTransport`, `QuicStreams`, `MessagesProofs` |
| `GnetServer` | what the lifecycles of the gnet servers share | |
| `GnetTransports` | UDP, UDS, dummy and TCP lifecycles | `GnetServer` |
| `GnetProofs` | theorems | `GnetTransports`, `GnetRequests`, `MessagesProofs` |
| `Config` | `config/*.go`, `types/types.go`, `logger.go`: decoding, as operators | |
| `FdbServe` | `fdb.go`, `registry.go`, both managers, `cmd/serve.go` | `Config` |
| `FdbServeProofs` | theorems | `FdbServe` |
| `TcpClient` | `client/tcp.go` | |
| `Client` | `client/client.go` over the TCP transport and others | `TcpClient` |
| `ClientAndDatabaseProofs` | theorems | `Client`, `Database` |
| `Benchmark` | `benchmark/`, `cmd/benchmark.go`, `cmd/signaling.go` | |
| `BenchmarkProofs` | theorems | `Benchmark` |

`MC...` modules give the constants their values. Definitions called `Mut...` are mutants:
plausible bugs that show that a property can fail; the specifications do not use them.

### How state and actions correspond to the code

**BatchWriter.** `workerChannels`, `workerBuffers` are the fields of that name; `wpc[w]` is
the place of worker `w` in `runWorker` (in the select, about to begin a transaction, inside
it, returned). A value is represented by its number among the writes of its key, in the
order they entered the channel; the code never looks into a value. `BufferWriteCall` and
`BufferWriteSend` are the call and the (blocking) channel send. The three cases of the
select are `Receive`, `Tick`, `Stop`; the worker mutex is held by one goroutine only and
needs no variable. `flush` is `BeginTxn`, one `Put` per key, `Commit`; `FlushError` is every
way in which `env.Update` returns an error, and clears the map as the code does. `Crash`
loses everything but `store`. `accepted` and `lost` are history.

**TransportWriters.** Two instances of `BatchWriter` share `alive`, `store` and `accepted`, so
that a write has one number whichever transport takes it; each has channels, maps and workers
of its own. `BeginQ` and `BeginT` add what neither writer sees, that the other one holds MDBX's
write transaction. `FailQ` and `FailT` are flushes that fail and clear the map, with whatever was
acknowledged in it. `ServeEnds` is the end of the command: `FDB.Stop` flushes nothing. `newest` and `done` record what each transport acknowledged and committed last.

**Database.** Each call is its transaction: `BeginView`, `View`; `BeginUpdate`, `Change`,
`Commit`; `Abort` on any error. A view has the snapshot of its beginning; the writer lock is
`writer`. `CloseEnv`, the `Close` of the code, and `Destroy` are only called when no transaction
is open: MDBX leaves the other case undefined and no code of the repository does it.

**Messages, MessagePool.** `EncodeWithBuffer`, `Encode` and `Decode` on sequences of digits
in base `Base`, keys of `KeyLen` digits and a length field of `LenBytes` digits; with 256,
32 and 4 they are the code's. The 32-bit sum in `Decode` wraps in the model as in the code.
A receiver gets whole, cut, extended and corrupted frames.

**GnetRequests.** `packet` is the receive buffer of gnet's event loop, which everything that
arrives overwrites. The writer is handed a *slice*: `pending` holds lengths, and `Flush`
commits what the buffer holds at that moment. Over UDP any datagram may be next, so loss,
repetition and reordering are in. Over UDS and TCP the client puts requests on `wire`, without
having to wait, and the server takes the next `n` bytes, for any `n`, as one request
(`ReactUDS`, `OnTraffic`); `torn` remembers that they were not exactly one. The handlers of
the three transports are copies of each other up to the call that sends the answer, and so
are their definitions; those of the dummy server answer one byte.

**QuicStreams.** The bytes a client wrote, `wire`, are read in pieces of any length, each
piece taken for a message. Handlers are split where another goroutine can come between:
accept and acknowledgement, `Get` and the two parts of the answer. The database is `stored`,
which two sorts of writers change: `Persist` is QUIC's own, which commits a newer write after an
older one (what `BatchWriter` implements; a failed flush skips some), and `OtherCommits` the
writers that `registry.go` gives the other transports, which commit anything at any time. A
stored value has the number it has among QUIC's writes, or 0, and the number of commits of the
others before it, so that a read can tell what it has seen.

**QuicServer.** One process per goroutine; `wg` is the WaitGroup. Stop closes `stopChan` and
the listener and waits. Listeners are known by the number of the `Start` that made them:
`listener` is the field, 0 for nil, `bound` the one that is open, `acceptsOn` the one whose
`Accept` the loop has called. A `Start` whose `ListenAddr` fails leaves nil in the field, and the
loop and `Stop` panic on it.

**Certificates, QuicTransport.** A file is `Missing`, `Torn` (truncated by `os.WriteFile` and
not written yet) or holds the output of run `n` of `certs local`. That command and
`GetTLSConfig` are two processes; each system call is a step, and each may fail, reading a file
that is there included. The server's lifecycle begins when `GetTLSConfig` has returned.

**Config.** A section of the file is a record of the fields that decide something. The
decoding is what `yaml.v3` does with the structs: an absent field keeps its zero value, a
section is decoded into the struct its type names, an error in one section fails the file.

**GnetServer, GnetTransports.** Channels and engines are known by the number of the `Start`
that made them; `gen` is the generation the fields hold. Actions that the four servers share
are in `GnetServer` (mapped to `udp/server.go`, the others are the same lines);
`GnetTransports` has the variable `kind` and what differs: UDS's socket file, the dummy
server's buffered signal, TCP's engine and synchronous `Stop`. The engine itself is
external: it boots, may fail, ticks, and ends when told to.

**FdbServe.** `pc` walks through the command: load the file, make the logger, open the
databases, register the transports, launch them in the errgroup, wait, serve until the context
ends, stop. A list of transports names each once: what a second `Start` of one server does is
in the modules of the servers. A transport is reduced
to what its own module shows: `Start` returns when the server is up or has failed, and
`StopOutcomes` are the ways its `Stop` can end.

**TcpClient.** `conn` and `client` are the fields; `link` the connections; every `Connect` is
split at `Dial`, `Send` at the second read of `t.conn`, since `OnClose` writes it without the
mutex.

**Client.** `loop` holds the running `Start` and `Close`: what is left of the map they range
over, in any order, and whether they wait for the TCP transport. They exclude neither each other
(both take `c.mu` for reading) nor `RegisterTransport`, which takes no lock: a concurrent
registration is met or missed by the loop, or ends the process (`fatal`). The other transports
are reduced to their interface, `Connect` and `Close` that succeed or fail.

**Benchmark.** The definitions stand for the five suites, which repeat each other; `suite`
and `type` select where they differ. `append` on the shared histogram is a load and a store.

## 3. Runs

All runs take less than three minutes with two workers.

| run | checks | what it shows |
|---|---|---|
| `batchwriter_safety` | `WriterInv`, `NewestAccounted`, `BatchBounded`, `WholeBatches`, `RefinesWriteBehind` | with failing flushes, crashes and restarts, every key's channel, map and database are in the order of acknowledgement; the database moves forward through acknowledged writes, batch by batch; nothing but a failed flush, a crash or `FlushAndStop` loses the newest write |
| `transport_writers` | `SettlesToNewest`, `OvertakenByOther`, `AcceptedReachesStore`, `BufferWriteReturns`, `WorkersStop` | two transports write one key through writers of their own, until `serve` ends: each transport's last write is committed unless it still waits, its flush failed or it was lost with the process, a key goes back only to a write of another transport, no write stays in a buffer for want of a tick or of the writer lock that both want, a full channel blocks only for a while, workers end after `FlushAndStop` |
| `database` | `DbInv`, `ImplementsProvider`, `CallsReturn` | the four operations are atomic, no transaction is left open, every call returns |
| `gnet_lifecycle` | `LifecycleInv`, `PanicNeedsMisuse`, `StopTakesEffect`, `StartAlwaysReturns` | start and stop of UDP, UDS, dummy and TCP under all interleavings with gnet's callbacks. Parts of it are about runs in which no Start timed out or only one was made: after a timeout a Start may report another Start's engine, after a second Start `Stop` of TCP may have ended another engine |
| `quic_lifecycle` | `QuicInv`, `QuietAfterStop`, `TlsSound`, `StopCompletes` | the QUIC server from `NewServer` on, while `certs local` rewrites its files: no server has halves of two pairs, the WaitGroup counts the goroutines that run, after `Stop` nobody handles requests, and `Stop` returns or panics, which it does without a listener: before a `Start` or after one that failed |
| `message_codec` | `FrameIgnoresBuffer`, `DecodeExact` | the codec against its meaning, length fields that wrap included |
| `gnet_requests` | `RequestsInv`, `AnswersMatch` | what survives the sharing of the receive buffer and the cutting of streams: keys and lengths; and answers match requests by order as long as every read is one whole request |
| `quic_streams` | `StreamInv`, `MonotonicReads`, `AnswerOnItsWay` | two clients, any split of the bytes, commits of QUIC's writer and of another transport's in between: requests are handled and answered in order, reads go back only to what the other writer committed in between, nothing is dropped in silence |
| `fdb_serve` | `ServeInv`, `ServersMatchSections`, `PanicNeedsFailedStart`, `CommandEnds` | the serve command over 21 configuration files and five lists of transports: which servers a file gives, with failing loggers, databases, transports and profiler; what `Stop` reaches and when it panics; that the command ends |
| `benchmark` | `BenchmarkInv`, `ReportComplete`, `Ends` | buffers, counters and reports of the five suites; that a run ends, of every suite but UDP, whose `Read` waits for a lost datagram without a deadline |
| `client` | `ClientInv`, `PanicNeedsClose`, `CloseLeavesReplaced`, `ClientCallsReturn` | two connects, two senders, a second transport registered before or during `Start` and `Close`, errors and lost connections: what a `Close` leaves open, when `Send` meets nil, that every call returns |
| `udp_alias_doc` | `ValueIsRemainingPart` (violated) | a later datagram replaces the bytes of an acknowledged write |

An invariant called `...Inv` is the conjunction of the module's type invariant and of the parts
named in its definition (`LifecycleInv` of `SignalDeliveredOnce`, `UpMeansBooted`,
`RunningEngineKnown`, `StopIsSynchronous`, `SocketStaysRemoved`; `QuicInv` of `WaitGroupExact`,
`PanicNeedsMisuse`; `RequestsInv` of `OnlyWrittenKeys`, `LengthsKept`; `StreamInv`
of `HandledInOrder`, `AnswersMatch`, `AckedAccepted`; `ServeInv` of `UpHasWriter`,
`StoppedIsPrefix`; `BenchmarkInv` of `BufferOwned`, `SamplesSurvive`, `UdsCountsAcks`;
`ClientInv` of `OpenIsUsed`, `CloseIsSynchronous`); `DecodeExact` is that of `DecodeSound` and
`RoundTrip`; `StopTakesEffect` is that of `StopEndsEngine`, `LateBootCanBeStopped`,
`SocketDisappears`, `StopReturns`. Every property of a passing run is broken by a mutant of the
definition it is about.

### Bounds, and why they are enough

* *BatchWriter*: two workers, three keys of which two share a worker, two writes of a key,
  channels of two, batches of two: the smallest instance in which a channel is full, a map is
  flushed by size and by time, a key has a committed, a buffered and a queued value at once,
  and two workers want the writer lock. One caller is enough: what a second one adds, a call
  that blocks meanwhile, the workers do not see.
* *TransportWriters*: one key, which the two transports share, three writes of it through QUIC
  and one through TCP (`MaxWrites`, `MaxWritesTcp`), one worker each, channels of one: QUIC has a
  value in each of database, map and channel, with its channel full, while TCP flushes an older or
  a newer one. A channel that is never empty is out of reach of any such bound; that a tick is
  taken all the same is the fairness of `select`.
* *Database*: two callers, two keys, two values: every pair of operations overlaps on one and
  on different keys.
* *GnetTransports*: two Starts, two Stops, one waiter: a Start after a Start that timed out,
  a Stop of each, and a signal that Start and another goroutine want.
* *QuicServer*: two connections, so that one is accepted while another ends; two Starts, of
  which the second fails or succeeds while the first listener is open or closed; two runs of
  `certs local`, the second of which replaces the files of the first.
* *Messages*: keys and length fields of one digit in a small base, so that lengths wrap within
  reach; data of up to the modulus.
* *GnetRequests*, *QuicStreams*: frames long enough for one that overwrites part of another
  and for every split; two requests on a gnet stream, so that they can be merged; two messages
  on each of two QUIC streams, the least that shows a read going back, and one commit of a key
  through another transport (`MaxOthers`).
* *FdbServe*: the shipped configuration and twenty variations, each of one thing: what cannot
  be read or decoded, a repeated, disabled, unknown or absent type, a section without a config,
  databases with and without the name `fdb`, the profiler on, off and missing; lists of
  transports in several orders, with a type the registry lacks and a name that is none.
* *Benchmark*: two clients, three messages each, every second one sampled.
* *Client*: two connects, two senders, one close, one other transport: the least in which a
  connection is replaced, a late `OnClose` meets its successor and a loop ends half way. Two
  closes take three times as long and show nothing new.

`MaxWrites`, `MaxWritesTcp`, `MaxOthers`, `MaxStarts`, `MaxStops`, `MaxRuns`, `MaxPending`, `MaxMsgs`, `MaxConnects`,
`MaxSends`, `MaxCloses` bound what the environment
does, never what the code may do in response.

Symmetry is used where only identities are permuted, in the streams of `QuicStreams`; that run
checks no liveness.

Deadlock checking is off where the bounded environment or the system itself may stop: after
`FlushAndStop`, a panic, an exit, a closed client.

### Fairness

* `TransportWriters`: strong fairness for the cases of a worker's select, because Go chooses
  uniformly among the ready ones; for a blocked sender, because channels serve senders in
  FIFO order; and for the beginning of a transaction, because the MDBX writer lock is a mutex
  the OS hands on, also between the two writers. Nobody has to call `BufferWrite` or
  `FlushAndStop`, no flush has to fail, and `serve` need not end.
* `Database`: weak fairness for a transaction that runs, strong for getting one.
* `GnetTransports`: weak fairness for gnet's callbacks, the two-second timer and channel
  operations that can proceed; none for `Start`, `Stop`, waiters, or failures of gnet.
* `QuicServer`: weak fairness for each goroutine; none for peers: `StopCompletes` holds
  because closing the listener ends their connections. None for `certs local` or
  `GetTLSConfig`.
* `FdbServe`: weak fairness for the command and for the Start of each transport, which
  `StartAlwaysReturns` justifies; none for the profiler, which does not return.
* `Benchmark`: weak fairness for clients, the command, the timeout and the answers of a
  server that is up; none for a connection that would have to fail.
* `Client`: weak fairness for the steps inside `Start`, `Close`, `Send` and the event loop,
  strong for a `Send` that waits for `t.mu` (a Go mutex that starves a waiter is handed to it),
  until the process ends.

## 4. Proofs

Thirty-five theorems in eight modules, for all values of the constants. Every invariant, every
action property and every refinement that a run checks is among them; what is left to TLC are
the properties under fairness. Where one module has the proofs of two specifications, these
share no variable, and the module has a part for each.

An invariant is seldom inductive. Each module states the strengthening it needs as a
conjunction of named parts, proves it of the initial state and of one action after the other,
and derives the properties. What the strengthenings say is why the code is right:

**`BatchWriterProofs`** (any number of workers, keys, callers, any batch size and channel
capacity; failures, crashes and stops allowed or not):

* `WriterCorrect`: the inductive invariant `WriterInv`; its parts `TypeOK` and `PendingInOrder`
  are `TypeCorrect` and `OrderCorrect`;
* `AccountedCorrect`, `BatchSizeCorrect`: `NewestAccounted`, `BatchBounded`;
* `BatchesWhole`: the action property `WholeBatches`;
* `WriteBehindImplemented`: the specification implements `WriteBehind`.

`PendingInOrder` is not inductive: a request that enters a channel is newer than everything
before it only because *no value anywhere exceeds the number of acknowledged writes*, and the
value in a map is older than the queue of its worker only because *all requests of a key are
with one worker*; a commit writes the values of the map it was begun for only because *one
worker at a time has a transaction and stages keys of its own map*. So the invariant that is
proved inductive is `WriterInv`, that is `TypeOK` and
`OrderInv == Routed /\ PendingInOrder /\ BelowAccepted /\ OneTxn`; `NewestAccounted` also
needs that a process that is not alive holds nothing (`DeadHoldsNothing`). There is one lemma
per action; the refinement then only has to look at `BufferWriteSend` (which is `Accept`) and
`Commit` (`Persist` of the keys of the map, or a stutter). The bound on batches needs facts on
cardinalities from `FiniteSetTheorems`.

**`TransportWritersProofs`** (any keys, callers, workers of each writer, batch size, channel
capacity, number of writes): `EachWriterSettles`, `OnlyOtherOvertakes`. Nothing that
`BatchWriterProofs` shows of one writer carries over as it stands: the numbers of the writes it
accepts now have gaps, and the database may hold what it never saw. The invariant `SharedInv` is
therefore written anew, as predicates of what *a* writer keeps, and used for both: `QueueOrder`,
`QueueAbove`, `MapAbove` say that of one key the committed write, the one in the map and those
in the channel grow in that order; `Accounted`, that the newest one acknowledged is among them
or was dropped with the map of a failed flush;
`Staging`, that a transaction belongs to one worker and its map. Between the two, `Apart` says
that no write is with both, and `Both` also that the database holds what one of them committed
last. The proof never uses that MDBX admits one of the two writers at a time (the guards of
`BeginQ` and `BeginT`): the lock orders commits, not the writes they carry, so it does not keep
one transport from overtaking the other.

**`ClientAndDatabaseProofs`**, the database (any callers, keys, values):

* `DbCorrect`: the inductive invariant `DbInv`, and from it `DbTypeCorrect`, `WriterCorrect`,
  `TxnCorrect` (`TypeOK`, `WriterHasTxn`, `TxnMatchesCall`);
* `ProviderImplemented`: `Database` implements `Provider` under the mapping `callBar`, in
  which a read has its result from its snapshot on.

The inductive invariant is `DbInv == TypeOK /\ WriterHasTxn /\ TxnMatchesCall`: that the
database a write transaction started from is still the committed one needs the writer lock,
and the lock needs that an aborted transaction is not left behind.

**`QuicProofs`**, the lifecycle (any finite set of connections, any numbers of starts, stops and runs
of `certs local`): `QuicCorrect`, `StopLeavesQuiet`, `TlsCorrect`. `QuicIInv` adds to the
properties that *there is one accept loop* (`OneAcceptor`: closing `started` a second time
panics before a second loop is launched, which the WaitGroup would count twice and the model's
`acceptor` once), that the field is not nil under the accept loop before a second Start
(`HasListener`), how many calls got Start and Stop where they are (`CallsCounted`), and that
*after Stop no loop is inside `Accept`* (`NoLateAccept`), without which a connection could be
accepted after the wait ended. `CertIInv` adds that what `GetTLSConfig` has read so far is the
certificate of a pair that was complete then, unless a run of the command touched the files
since (`PairRead`, `WritersUnsteady`).

**`QuicProofs`**, the requests (any finite set of streams, any messages, keys, payloads shorter
than the length field counts, any buffer size): `StreamsCorrect`, `ReadsNeverGoBack`,
`WaitingIsSeen`. A stream is a client and a goroutine that take turns, with
bytes in between that are cut anywhere; `StreamsIInv` says of each stream whose turn it is and
where its one outstanding request can be. `Turns`: answered, handled and sent requests are
prefixes of one sequence, and at most one is without an answer. `Outstanding`: that one is whole
on the wire (a read that took part of it ended the goroutine), or the handler has it; that a
read which is not all of it fails to decode, and one that is gives the message, is a lemma of
the codec (`DecodeOfEncode`). `Answering`: what comes back is of its kind and key, a length
before a value. `OnItsWay`: while nothing is lost, a wire and a handler that are both empty mean
an answered client. `ReadsBelow`: what a read handler holds is, in the order `Before`
of what may be read after what, at most what is committed and at least what the client has seen,
which is why a stream never reads backwards among QUIC's writes although commits go on between
`Get` and the answer; every commit, of QUIC's writer or another's, moves forward in that order. `WritesCounted` ties the streams to the database: of every key
and value as many writes were handled as the batch writer accepted, whichever streams they came
through; it needs cardinalities of sets that one step extends by one element.

**`GnetProofs`**, the lifecycles (any numbers of starts, stops, waiters): `LifecycleCorrect`,
`PanicsOnlyAfterMisuse`. `GnetIInv` follows the signal: an engine that has booted knows the
channel it sends on (`EnginesKnown`), which is that of its own Start *until some Start timed
out* (`OwnSignal`), a channel holds a signal or is closed only if an engine sent on it
(`SignalSent`), and the dummy server's one signal is unsent, in the channel or taken
(`DummySignal`); `TcpStop` says that the stored engine is one that booted and that a Stop which
returned nil has seen an engine end, `UdsStop` the same of the socket file. What `LifecycleInv`
says after a timeout or a second Start is less than before; its parts name the condition.

**`MessagesProofs`** (any base, any length of keys and of the length field, any message):
`EncodeInPlace`, that `EncodeWithBuffer` writes what `Encode` makes and nothing else;
`PoolIsClean` and `CodecExact`, the two properties of `message_codec`. That reading a length
field gives back what was put in is a fact about sums of digits of any number, so it needs
induction (below).

**`GnetProofs`**, the requests (any keys, payloads, sizes of the receive buffer,
any mix of transports): `RequestsCorrect` and `AnswersKeepOrder`. `DataIInv` says that *every
slice that waits is as long as what followed the key in an acknowledged write of it* (`SlicesWritten`), all that is
left to say of values whose bytes are overwritten; `StreamIInv` says byte by byte, with the
offset of each request, that what is on the wire is the requests not answered yet
(`WireIsUnanswered`), from which the same with `FlattenSeq` follows.

**`FdbServeProofs`** (any files, any lists of transports without repetition): `ServeCorrect`,
`SectionsBecomeServers`, `StopPanicsAfterFailedStart`. `ServeIInv` carries what the loops of
`New`, `Start` and `Stop` have done so far: the servers made are those of the first sections, no
two of a type (`Registered`, `Served`), those launched and stopped are the first of the list (`Launched`, `Stopping`),
*no goroutine has failed without an error in the group*; and that the configuration is what
`LoadConfig` made of the file (`Loaded`).

**`ClientAndDatabaseProofs`**, the client (any connects, sends, closes, senders, other
transports): `ClientCorrect`, `SendSafeBeforeClose`, `CloseLeavesNoOther`. `TcpIInv` is the
invariant of the TCP transport, proved once for every step whoever makes the call: the newest
gnet client is the one in the field (`Fresh`), a sender past its check has seen a connection
(`WriteHasConn`). `ClientIInv` adds the loops: what is behind a Close is closed (`BehindClose`),
also if a Start goes on.

**`BenchmarkProofs`** (any clients, messages, sampling): `BenchmarkCorrect`, `ReportIsComplete`.
The counters are sums over clients; `BenchIInv` says what they are sums of. Message `i` of
client `c` is the slot `<<c, i>>`, `Behind(D, f, P)` are the slots of `D` that the clients have
behind them, and `success`, `samples`, `acks` are exactly, at most or at least the cardinality
of such a set (`CountersExact`, `SamplesBounded`, `AcksExact`). That a sample survives the
unlocked appends is that *the length a client has loaded never exceeds the samples stored*.

**Induction.** The library's induction theorems take an operator, which the provers cannot
instantiate. That a nonempty *set* of numbers has a least element can be had without one
(`LeastNumber`, from `WFMin`): to prove a statement for all numbers, take the least one of the
set of those for which it fails. So are proved that the recursive functions behind `Uint32` and
`FlattenSeq` exist, and what they compute (`ReadsExist`, `Uint32Sums`, `LaidFlat`).

**Assumptions** are the `ASSUME`s of the modules, which TLC evaluates in every run: finite
sets of keys, connections, clients; byte-valued bytes; positive sizes; `NoValue` and the
result words apart from values; files and lists of the shape the command reads. Some are less
than obvious. `PowersAssumption` states laws of exponentiation up to `LenBytes`, which the
backends do not know. `DatagramAssumption` states that a datagram fits gnet's receive buffer,
64 KiB; requests on a stream need not. `PayloadAssumption` states that a message on a QUIC
stream is shorter than the length field can count (4 GiB): the field of a longer one would wrap, and
`Decode` would find another message in it. `QuicAssumption` keeps the other action bytes apart
from the two that have handlers. `WidthAssumption` and `ReadAssumption` state that a
header, and all that a receiver reads at once, are less than the length field can count, as
37 bytes and any buffer of the code are less than 2^32.

**What proving changed.** Three properties were weaker than what holds, and now say it:
`CloseLeavesReplaced` without *no Start is running*, `SocketStaysRemoved` without *with one
Stop*, `AnswersMatch` with the bytes that wait. `RunningEngineKnown` said only that some engine is
stored, and now says which. `Uint32` became a recursive function. The constants
of `QuicStreams` and `TransportWriters` got the assumptions above, which their runs had met
without saying so. Where one proof module extends two specifications, definitions of the one or
the other carry its name (`RequestsInit`, `StreamsInit`, `TcpInit`, ...); nothing of what they
describe is different.

**Only model-checked**: everything under fairness, since liveness and `ENABLED` are beyond the
prover (`AcceptedReachesStore`, `BufferWriteReturns`, `WorkersStop`, `CallsReturn`,
`StopTakesEffect`, `StartAlwaysReturns`, `StopCompletes`, `CommandEnds`, `Ends`,
`ClientCallsReturn`), and what `udp_alias_doc` shows, which is a counterexample.

## 5. Not modelled

* The bytes of answers in QUIC (an error text where a client expects a length), log lines.
* Several event loops of one gnet server: each has a receive buffer of its own, and sharing
  is what the properties are about.
* `OnTraffic` and the handler map of the client's `TCPTransport`: a handler is called with
  what arrived and keeps nothing, and the connections it would multiply the states of are in
  `Client` already. Transports of the client other than TCP do not exist in the repository.
* The certbot commands (an external program), the values in a certificate.
* `GetTLSConfig` of TCP and UDP, `GetTransportByType` and `GetMdbxNodeByName` of the
  configuration, `Manager.Close`, `DeregisterTransport`: no caller. Accessors that return a
  field. YAML itself (anchors, null items, duplicate keys).
* Percentiles, printing and exporting of reports; the flags of the benchmark command.
* MDBX, gnet, quic-go, `errgroup`: external, modelled by what the code uses of them.
* The sizes given to `SetGeometry`.
* Log lines, metrics, the eBPF commands: no protocol of their own.

## 6. Where the code and its words part

The run `udp_alias_doc` shows one. Modelling met others, which the models contain as the
code has them and the properties are stated around:

* `db/writer.go:127` "FlushAndStop flushes any remaining data": a worker may take the stop
  case while requests wait in its channel; they are never committed
  (`AcceptedReachesStore` says *unless stopped*). `FDB.Stop` does not call it: what waits when
  `serve` ends is lost (`SettlesToNewest` says *or the process ended*).
* `registry.go:30` "Create a new BatchWriter with ... flush interval of 1 second" (it is half a
  second), in every transport's function: a key written
  through two transports may end with the older write, since each flushes on its own
  (`OvertakenByOther`).
* `config/transports.go:26` "whether the transport is enabled or disabled": nothing reads the
  field, a section with `enabled: false` gives a server like the others (`fdb.go:61`,
  `NewTransport`). That it should give none does not hold of the code; `ServersMatchSections`
  says nothing of disabled sections. A section without a type gives a UDP server.
* `fdb.go:147` waits for the group before `<-ctx.Done()`: with the profiler enabled, as the
  shipped configuration has it, its goroutine does not return and the deferred `Stop` is not
  reached (`CommandEnds` says *unless the profiler is serving*).
* `client/client.go:67` "Close shuts down all transports": it returns at the first error, and a
  gnet client that a second `Start` replaced stays open (`CloseLeavesReplaced`).
* `cmd/ebpf.go:74` "eBPF program successfully loaded": the deferred `Close` of the link follows, which
  detaches a program that is not pinned. Not modelled.
* `db/writer.go:123` "Clear the buffer after a successful flush": the map is cleared after a
  failed one as well, and the client is not told (`lost` in `NewestAccounted`, `Dropped` in
  `SettlesToNewest` and `AcceptedReachesStore`).
* `transports/udp/server.go:106` "for waiting until the server starts": `Start` replaces the
  channel, a goroutine that called `WaitStarted` before waits forever; with the right channel
  it may take the one signal `Start` needs.
* `transports/udp/server.go:97` "Stop stops the UDP server": a Start before the next tick
  replaces `stopChan` and the old engine goes on (`StopEndsEngine` says *unless Start is
  called again*).
* `transports/udp/server_test.go:243` "The read value should match the written value": the
  handlers of UDP, UDS and TCP store the length field with the data. Lines 138 to 145 of the same
  file ("Empty Data", should fail) want a message without data to be refused; it is acknowledged,
  since its length field makes it long enough, and stored. `RequestsInv` therefore speaks of *what
  follows the key*, the length field included, and says nothing of empty values.
* `transports/tcp/server.go:124` "Read all available data from the connection buffer": all of
  it is taken for one request, two that arrive together become one value with one answer
  (`AnswersMatch` says *as long as no read was torn*).
* `transports/quic/server.go:153` "Continuously read from the stream until it's closed": a
  message that arrives in two pieces ends the goroutine, silently and with the stream open.
* `transports/quic/server.go:57` "Start starts the QUIC server": a second call that fails, as it
  does while the address is in use, has replaced the listener of the running server by nil, and its
  accept loop and its `Stop` panic (`PanicNeedsMisuse` and `StopCompletes` say *or panicked*).
  Start's own `wg.Add`, in another goroutine than a `Stop` that has begun, can come while that
  waits or after: a Stop that overtakes Start returns before the accept loop has begun.
* `transports/quic/server_test.go:171` reads a value back at once: an acknowledged write is
  not visible to reads before its flush.
* `client/tcp.go:72` "no active connection": `OnClose` clears `t.conn` without the mutex
  between the check and its use (`PanicNeedsClose`), whichever connection it is about, and
  before `Connect` has stored it; a second `Connect` forgets the first gnet client.
* `db/manager.go:11` "handles the lifecycle operations such as opening, closing": when one
  database fails to open, those opened before are not closed.
* `benchmark/tcp.go:109`, `benchmark/quic.go:116` "benchmarks reading messages": the TCP, UDP
  and UDS suites wait for answers to requests nobody sent, the QUIC suite does nothing and
  counts it; `cmd/benchmark.go:52` the timeout does not end a blocked `Read`;
  `cmd/signaling.go:12` "graceful shutdown" stops a suite without a name.

## 7. Plan

Done: the write path, the database, the lifecycles, requests of all transports, the serve
command with its configuration, certificates, the client, the benchmark; the compositions of
two batch writers over one database, of the QUIC server with its files, of the client with its
TCP transport; and proofs of every safety property of them.

What would extend it, if the code does: the eBPF transport, should it come back from its
comments; a `FlushAndStop` that `FDB.Stop` calls, for which `SettlesToNewest` would lose its
exception; framing of TCP and UDS requests, for which `AnswersMatch` would.
