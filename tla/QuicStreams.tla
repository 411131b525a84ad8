---- MODULE QuicStreams ----
(***************************************************************************)
(* Requests over QUIC: clients write encoded messages on their streams,    *)
(* handleStream of transports/quic/server.go reads a stream in pieces,     *)
(* takes each piece for a message and runs the write or the read handler   *)
(* on it.  The batch writer behind the handlers is the store that          *)
(* BatchWriter implements (WriteBehind): values[k] are the writes of k it  *)
(* has accepted, and it commits a newer one after an older one.  Every     *)
(* other transport has a batch writer of its own over the same database    *)
(* (transports/registry.go), which may commit anything at any time.        *)
(***************************************************************************)
EXTENDS Messages, FiniteSets

CONSTANTS
    Streams,
    OtherHandlers,   \* handler bytes nobody registered that a client may send
    BufSize,         \* length of the read buffer (4096 in the code)
    MaxMsgs,         \* bound: messages a client sends on one stream
    MaxOthers        \* bound: commits of a key by the other writers

ASSUME QuicAssumption ==
    /\ IsFiniteSet(Streams)
    /\ OtherHandlers \subseteq Bytes \ {WriteHandlerType, ReadHandlerType}
    /\ BufSize \in Nat \ {0} /\ MaxMsgs \in Nat /\ MaxOthers \in Nat

\* A message is shorter than the length field can count (4 GiB): beyond that
\* the field wraps and Decode finds a shorter message at the start of a frame.
ASSUME PayloadAssumption == \A d \in Payloads : Header + Len(d) < Modulus

VARIABLES
    sent,      \* messages the client wrote on each stream, in order
    closed,    \* the client has closed its side of the stream
    broken,    \* the connection of the stream is gone
    wire,      \* bytes of the stream the server has not read
    spc,       \* where the goroutine of handleStream is
    msg,       \* the message it is handling
    got,       \* what db.Get returned for it
    handled,   \* history: messages whose handler has taken effect
    replies,   \* what was written back and not yet read by the client
    answers,   \* answers the client has read
    values,    \* the writes of each key the batch writer has accepted, in order
    stored     \* what the database holds under each key, see Stored

streamVars == <<sent, closed, broken, wire, spc, msg, got, handled, replies, answers>>
quicVars == <<streamVars, values, stored>>

NoMsg == [handler |-> 0, key |-> <<>>, data |-> <<>>]

Requests ==
    [handler : {WriteHandlerType}, key : Keys, data : Payloads]
        \cup [handler : {ReadHandlerType} \cup OtherHandlers, key : Keys, data : {<<>>}]

\* A value in the database: num is its number among the writes of the key that
\* QUIC accepted, or 0 when the writer of another transport committed it.  last
\* is the newest write the writer of QUIC has committed, and others counts the
\* commits of the others.
Stored == [last : Nat, num : Nat, others : Nat, value : Payloads \cup {<<>>}]

Nothing == [last |-> 0, num |-> 0, others |-> 0, value |-> <<>>]

\* The pieces the server writes back: the byte 0x00, the length of a value
\* and the value (num and others as in Stored, for the properties), an error
\* text.
Replies ==
    [kind : {"ack", "length", "error", "none"}] \cup
    [kind : {"value"}, key : Keys, num : Nat, others : Nat, value : Payloads \cup {<<>>}]

StreamsTypeOK ==
    /\ sent \in [Streams -> Seq(Requests)] /\ handled \in [Streams -> Seq(Requests \cup {NoMsg})]
    /\ closed \in [Streams -> BOOLEAN] /\ broken \in [Streams -> BOOLEAN]
    /\ got \in [Streams -> Stored]
    /\ wire \in [Streams -> Seq(Bytes)]
    /\ spc \in [Streams -> {"read", "write", "ack", "get", "value", "gone"}]
    /\ replies \in [Streams -> Seq(Replies)] /\ answers \in [Streams -> Seq(Replies)]
    /\ values \in [Keys -> Seq(Payloads)]
    /\ stored \in [Keys -> Stored]
    /\ \A k \in Keys : stored[k].last <= Len(values[k]) /\ stored[k].num \in {0, stored[k].last}

StreamsInit ==
    /\ sent = [s \in Streams |-> <<>>] /\ closed = [s \in Streams |-> FALSE]
    /\ broken = [s \in Streams |-> FALSE] /\ got = [s \in Streams |-> Nothing]
    /\ wire = [s \in Streams |-> <<>>]
    /\ spc = [s \in Streams |-> "read"] /\ msg = [s \in Streams |-> NoMsg]
    /\ handled = [s \in Streams |-> <<>>]
    /\ replies = [s \in Streams |-> <<>>] /\ answers = [s \in Streams |-> <<>>]
    /\ values = [k \in Keys |-> <<>>] /\ stored = [k \in Keys |-> Nothing]

-----------------------------------------------------------------------------
(* The clients use streams as the tests and benchmarks of the repository    *)
(* do: the next message is written when the last one has been answered.     *)

ClientWrite(s, m) ==
    /\ ~closed[s] /\ ~broken[s] /\ Len(sent[s]) < MaxMsgs
    /\ Len(answers[s]) = Len(sent[s])
    /\ sent' = [sent EXCEPT ![s] = Append(@, m)]
    /\ wire' = [wire EXCEPT ![s] = @ \o Encode(m)]
    /\ UNCHANGED <<closed, broken, spc, msg, got, handled, replies, answers, values, stored>>

\* The length announces a value; every other piece is an answer by itself.
ClientRead(s) ==
    /\ replies[s] # <<>>
    /\ replies' = [replies EXCEPT ![s] = Tail(@)]
    /\ answers' = [answers EXCEPT ![s] =
            IF Head(replies[s]).kind = "length" THEN @ ELSE Append(@, Head(replies[s]))]
    /\ UNCHANGED <<sent, closed, broken, wire, spc, msg, got, handled, values, stored>>

ClientClose(s) ==
    /\ ~closed[s] /\ ~broken[s]
    /\ closed' = [closed EXCEPT ![s] = TRUE]
    /\ UNCHANGED <<sent, broken, wire, spc, msg, got, handled, replies, answers, values, stored>>

\* The client or the network goes away: what is on its way is lost.
ConnectionLost(s) ==
    /\ ~broken[s]
    /\ broken' = [broken EXCEPT ![s] = TRUE]
    /\ wire' = [wire EXCEPT ![s] = <<>>]
    /\ replies' = [replies EXCEPT ![s] = <<>>]
    /\ UNCHANGED <<sent, closed, spc, msg, got, handled, answers, values, stored>>

-----------------------------------------------------------------------------
(* handleStream.                                                            *)

\* Where the goroutine goes with the outcome of Decode: on to the registered
\* handler, or out of the loop.
Dispatch(r) ==
    IF ~r.ok THEN "gone"
    ELSE CASE r.msg.handler = WriteHandlerType -> "write"
           [] r.msg.handler = ReadHandlerType  -> "get"
           [] OTHER -> "gone"

\* The next n bytes are read and arrive at Decode as f.
Take(s, n, f) ==
    /\ spc[s] = "read" /\ n \in 1 .. Len(wire[s]) /\ n <= BufSize
    /\ LET r == Decode(f)
       IN  /\ spc' = [spc EXCEPT ![s] = Dispatch(r)]
           /\ msg' = [msg EXCEPT ![s] = IF r.ok THEN r.msg ELSE NoMsg]
    /\ wire' = [wire EXCEPT ![s] = SubSeq(@, n + 1, Len(@))]
    /\ UNCHANGED <<sent, closed, broken, got, handled, replies, answers, values, stored>>

\* Mutant: the whole buffer is decoded, not the n bytes that were read.
MutWholeBuffer(s, n) ==
    Take(s, n, SubSeq(wire[s], 1, n) \o [i \in 1 .. BufSize - n |-> 0])

\* stream.Read returns some of the bytes that are there; what it returned is
\* taken for one message, and bytes after that message are forgotten.
Read(s, n) == Take(s, n, SubSeq(wire[s], 1, n))

\* stream.Read returns an error: the connection is gone, or io.EOF, by itself
\* or together with the last bytes; the loop ends without looking at them.
ReadError(s) ==
    /\ spc[s] = "read"
    /\ broken[s] \/ (closed[s] /\ Len(wire[s]) <= BufSize)
    /\ spc' = [spc EXCEPT ![s] = "gone"]
    /\ wire' = [wire EXCEPT ![s] = <<>>]
    /\ UNCHANGED <<sent, closed, broken, msg, got, handled, replies, answers, values, stored>>

\* The goroutine of s writes the pieces ps, in vain on a broken connection,
\* and goes to pc.
Reply(s, ps, pc) ==
    /\ replies' = [replies EXCEPT ![s] = IF broken[s] THEN @ ELSE @ \o ps]
    /\ spc' = [spc EXCEPT ![s] = pc]

Done(s) == handled' = [handled EXCEPT ![s] = Append(@, msg[s])]

AcceptWrite(s) ==
    values' = [values EXCEPT ![msg[s].key] = Append(@, msg[s].data)]

\* HandleMessage of QuicWriteHandler: BufferWrite, then the success byte.
HandleWrite(s) ==
    /\ spc[s] = "write"
    /\ AcceptWrite(s) /\ Done(s)
    /\ spc' = [spc EXCEPT ![s] = "ack"]
    /\ UNCHANGED <<sent, closed, broken, wire, msg, got, replies, answers, stored>>

\* Mutant: the write handler sends nothing back.
MutNoAck(s) ==
    /\ spc[s] = "ack"
    /\ Reply(s, <<>>, "read")
    /\ UNCHANGED <<sent, closed, broken, wire, msg, got, handled, answers, values, stored>>

WriteAck(s) ==
    /\ spc[s] = "ack"
    /\ Reply(s, <<[kind |-> "ack"]>>, "read")
    /\ UNCHANGED <<sent, closed, broken, wire, msg, got, handled, answers, values, stored>>

\* What db.Get finds for the key of the request.
Found(s) == stored[msg[s].key]

\* db.Get has run and the handler answers with the pieces ps.
Answer(s, ps, pc) ==
    /\ Done(s) /\ Reply(s, ps, pc)
    /\ got' = [got EXCEPT ![s] = Found(s)]
    /\ UNCHANGED <<sent, closed, broken, wire, msg, answers, values, stored>>

\* Where the read handler goes after writing the length: it gives up when
\* that write failed.
AfterLength(s) == IF broken[s] THEN "read" ELSE "value"

\* HandleMessage of QuicReadHandler up to the length of the value.  A key
\* that is not there is an error of db.Get.
HandleRead(s) ==
    /\ spc[s] = "get"
    /\ IF Found(s).num = 0 /\ Found(s).others = 0 THEN Answer(s, <<[kind |-> "error"]>>, "read")
       ELSE IF Found(s).value = <<>> THEN Answer(s, <<[kind |-> "none"]>>, "read")
       ELSE Answer(s, <<[kind |-> "length"]>>, AfterLength(s))

\* The value that was found, whatever has been committed since.
WriteValue(s) ==
    /\ spc[s] = "value"
    /\ Reply(s, <<[kind |-> "value", key |-> msg[s].key, num |-> got[s].num,
                   others |-> got[s].others, value |-> got[s].value]>>, "read")
    /\ UNCHANGED <<sent, closed, broken, wire, msg, got, handled, answers, values, stored>>

-----------------------------------------------------------------------------
(* The batch writers.                                                       *)

\* The n-th write of k is committed.
Commit(k, n) ==
    /\ stored' = [stored EXCEPT ![k] =
            [last |-> n, num |-> n, others |-> @.others, value |-> values[k][n]]]
    /\ UNCHANGED <<streamVars, values>>

\* Mutant: a batch may carry an older write over a newer one.
MutAnyOrder(k) == \E n \in 1 .. Len(values[k]) : Commit(k, n)

\* QUIC's own writer commits a newer write of a key.
Persist(k) == \E n \in stored[k].last + 1 .. Len(values[k]) : Commit(k, n)

\* The writer of another transport commits one that it accepted, at any time
\* before; what UDP, TCP and UDS accept begins with the length field, so it is
\* never empty.
OtherCommits(k) ==
    /\ stored[k].others < MaxOthers
    /\ \E v \in Payloads \ {<<>>} : stored' = [stored EXCEPT ![k] =
            [last |-> @.last, num |-> 0, others |-> @.others + 1, value |-> v]]
    /\ UNCHANGED <<streamVars, values>>

Handler(s) == HandleWrite(s) \/ WriteAck(s) \/ HandleRead(s) \/ WriteValue(s)

HandleStream(s) ==
    \/ \E n \in 1 .. Len(wire[s]) : Read(s, n)
    \/ ReadError(s) \/ Handler(s)

StreamsNext ==
    \/ \E s \in Streams :
        \/ \E m \in Requests : ClientWrite(s, m)
        \/ ClientRead(s) \/ ClientClose(s) \/ ConnectionLost(s)
        \/ HandleStream(s)
    \/ \E k \in Keys : Persist(k) \/ OtherCommits(k)

StreamsSpec == StreamsInit /\ [][StreamsNext]_quicVars

-----------------------------------------------------------------------------

\* The handlers see exactly the messages the client sent, in order and none
\* twice: pieces of a split message are never taken for another message.
HandledInOrder == \A s \in Streams : IsPrefix(handled[s], sent[s])

\* The kinds of answer a request may get.
Answers(m) ==
    IF m.handler = WriteHandlerType THEN {"ack"}
    ELSE IF m.handler = ReadHandlerType THEN {"value", "error", "none"} ELSE {}

\* A client matches answers to requests by their order alone; the i-th answer
\* on a stream belongs to its i-th request.
AnswersMatch ==
    \A s \in Streams :
        /\ Len(answers[s]) <= Len(sent[s])
        /\ \A i \in DOMAIN answers[s] :
            /\ answers[s][i].kind \in Answers(sent[s][i])
            /\ answers[s][i].kind = "value" => answers[s][i].key = sent[s][i].key

\* A write the client saw acknowledged is with the batch writer: as many as
\* were acknowledged, with that data for that key.
AckedAccepted ==
    \A k \in Keys, v \in Payloads :
        LET Acked(s, i) == /\ i \in DOMAIN answers[s] /\ answers[s][i].kind = "ack"
                           /\ sent[s][i].key = k /\ sent[s][i].data = v
            acked == {p \in Streams \X (1 .. MaxMsgs) : Acked(p[1], p[2])}
        IN  Cardinality(acked) <= Cardinality({j \in DOMAIN values[k] : values[k][j] = v})

\* The streams in every step: requests are handled, and answered, one by one in
\* the order the client sent them, and what is acknowledged has been accepted.
StreamInv == StreamsTypeOK /\ HandledInOrder /\ AnswersMatch /\ AckedAccepted

\* b may be read after a: no write that QUIC accepted comes after a newer one,
\* and what another transport has written is followed by QUIC's, or comes after
\* QUIC's only when it was committed in between.
Before(a, b) ==
    /\ b.num = 0 \/ a.num <= b.num
    /\ a.others <= b.others
    /\ a.others = b.others => a.num <= b.num

\* One client never reads an older write of QUIC after a newer one, although
\* reads bypass the batch writer and commits happen in between; and a value that
\* goes back to one written through another transport was committed by the
\* writer of that transport between the two reads.
MonotonicReads ==
    \A s \in Streams : \A i, j \in DOMAIN answers[s] :
        /\ i < j /\ answers[s][i].kind = "value" /\ answers[s][j].kind = "value"
        /\ answers[s][i].key = answers[s][j].key
        => Before(answers[s][i], answers[s][j])

\* The request of a client that waits for its answer is never dropped in
\* silence: it is still to be read, a handler has it, its answer is on the way,
\* or handleStream has left the loop or the connection is gone.
AnswerOnItsWay ==
    \A s \in Streams :
        Len(answers[s]) < Len(sent[s]) =>
            \/ wire[s] # <<>> \/ replies[s] # <<>>
            \/ spc[s] # "read" \/ broken[s]
====
