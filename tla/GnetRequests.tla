---- MODULE GnetRequests ----
(***************************************************************************)
(* Requests over UDP, UDS and TCP: React and OnTraffic of the gnet servers *)
(* and their write and read handlers, which are the same up to the call    *)
(* that sends the answer, and those of the dummy server, which store       *)
(* nothing.  gnet reads what arrives into the one receive buffer of its    *)
(* event loop and calls the server on a slice of that buffer: a datagram   *)
(* (UDP, dummy), or whatever bytes of a stream have arrived (UDS, TCP),    *)
(* which the server takes for one request.                                 *)
(* The write handler copies the key out of the buffer but passes the value *)
(* on as a slice: until the batch writer commits it, the value is whatever *)
(* the buffer holds at that place.                                         *)
(***************************************************************************)
EXTENDS Messages

CONSTANTS
    OtherHandlers,   \* bytes that are not an action
    MaxFrame,        \* length of the receive buffer (64 KiB in gnet)
    MaxPending,      \* bound: values of one key waiting for a commit
    Transports,           \* transports
    MaxMsgs          \* bound: requests a client sends on its connection

ASSUME RequestsAssumption ==
    /\ {MaxFrame, MaxPending, MaxMsgs} \subseteq Nat
    /\ Transports \subseteq {"udp", "dummy", "uds", "tcp"}
    /\ OtherHandlers \subseteq Bytes

\* A datagram, 65507 bytes at most, fits the receive buffer; a request on a
\* stream need not.
ASSUME DatagramAssumption ==
    Transports \cap {"udp", "dummy"} # {} => \A d \in Payloads : Header + Len(d) <= MaxFrame

VARIABLES
    transport,       \* which transport this is
    packet,          \* the receive buffer of the event loop
    handlerRegistry, \* actions with a handler
    pending,         \* for each key the lengths of the slices accepted for it
    store,           \* for each key <<its committed value>>, or <<>> without one
    written,         \* history: frames of the writes that were acknowledged
    out,             \* what the last frame was answered with
    open,            \* UDS, TCP: the client's connection is open
    wire,            \* UDS, TCP: bytes the client sent that were not read yet
    asked,           \* UDS, TCP: the requests the client sent, in order
    answers,         \* UDS, TCP: what came back, in order, until a read was torn
    torn             \* history: a read returned other than one whole request

stream == <<open, wire, asked, answers, torn>>
requestVars == <<transport, packet, handlerRegistry, pending, store, written, out, stream>>

\* What clients send: encoded messages, also with an unknown action byte, and
\* (a test does it) such a frame cut short.
Sent ==
    {Encode(m) : m \in
        [handler : {WriteHandlerType, ReadHandlerType} \cup OtherHandlers, key : Keys, data : Payloads]}

Datagrams == Sent \cup {SubSeq(f, 1, n) : f \in Sent, n \in {0, KeyLen, 1 + KeyLen}}

\* The keys a frame may have; a torn frame has any.
AllKeys == [1 .. KeyLen -> Bytes]

Replies ==
    [kind : {"none yet", "0x00", "0x01", "Invalid action", "Unknown action",
             "Invalid message format", "Error reading", "No value found"}]
        \cup [kind : {"value"}, key : AllKeys, value : Seq(Bytes)]

RequestsTypeOK ==
    /\ packet \in [1 .. MaxFrame -> Bytes]
    /\ handlerRegistry \subseteq {WriteHandlerType, ReadHandlerType}
    /\ pending \in [AllKeys -> Seq(0 .. MaxFrame)]
    /\ \A k \in AllKeys : store[k] = <<>> \/ (store[k] \in Seq(Seq(Bytes)) /\ Len(store[k]) = 1)
    /\ written \subseteq Seq(Bytes)
    /\ out \in Replies
    /\ open \in BOOLEAN /\ torn \in BOOLEAN /\ transport \in Transports
    /\ wire \in Seq(Bytes) /\ asked \in Seq(Sent) /\ answers \in Seq(Replies)

RequestsInit ==
    /\ packet = [i \in 1 .. MaxFrame |-> 0]
    /\ handlerRegistry = {WriteHandlerType, ReadHandlerType}
    /\ pending = [k \in AllKeys |-> <<>>]
    /\ store = [k \in AllKeys |-> <<>>]
    /\ written = {}
    /\ out = [kind |-> "none yet"]
    /\ transport \in Transports /\ open = TRUE /\ wire = <<>> /\ asked = <<>> /\ answers = <<>>
    /\ torn = FALSE

KeyOf(f) == SubSeq(f, 2, 1 + KeyLen)

\* frame[33:], the length field of the message included.
RemainingPart(f) == SubSeq(f, 2 + KeyLen, Len(f))

\* The datagram is answered and nothing else happens.
Refuse(why) ==
    /\ out' = [kind |-> why]
    /\ UNCHANGED <<pending, store, written>>

\* The handler after its length check: the writer gets a copy of the key and
\* a slice of the receive buffer.
BufferAndAck(f) ==
    /\ Len(pending[KeyOf(f)]) < MaxPending
    /\ pending' = [pending EXCEPT ![KeyOf(f)] = Append(@, Len(RemainingPart(f)))]
    /\ written' = written \cup {f}
    /\ out' = [kind |-> "0x00"]
    /\ UNCHANGED store

\* HandleMessage of UDPWriteHandler: at least one byte must follow the key.
HandleWrite(f) ==
    IF Len(f) < 2 + KeyLen THEN Refuse("0x01") ELSE BufferAndAck(f)

\* HandleMessage of UDPReadHandler; db.Get of a missing key is an error.
HandleRead(f) ==
    LET k == KeyOf(f)
    IN  IF Len(f) < 1 + KeyLen THEN Refuse("Invalid message format")
        ELSE IF store[k] = <<>> THEN Refuse("Error reading")
        ELSE IF store[k][1] = <<>> THEN Refuse("No value found")
        ELSE /\ out' = [kind |-> "value", key |-> k, value |-> store[k][1]]
             /\ UNCHANGED <<pending, store, written>>

\* The handlers of UDS and TCP, line for line the same.
HandleWriteUDS(f) == HandleWrite(f)
HandleReadUDS(f) == HandleRead(f)
HandleWriteTCP(f) == HandleWrite(f)
HandleReadTCP(f) == HandleRead(f)

\* The handlers of the dummy server: one byte, whatever the frame.
HandleWriteDummy(f) == Refuse("0x01")
HandleReadDummy(f) == Refuse("0x01")

\* The handler that was registered for the action byte.
Handle(f) ==
    LET write == f[1] = WriteHandlerType
    IN  CASE transport = "udp" -> IF write THEN HandleWrite(f) ELSE HandleRead(f)
          [] transport = "uds" -> IF write THEN HandleWriteUDS(f) ELSE HandleReadUDS(f)
          [] transport = "dummy" -> IF write THEN HandleWriteDummy(f) ELSE HandleReadDummy(f)
          [] transport = "tcp" -> IF write THEN HandleWriteTCP(f) ELSE HandleReadTCP(f)

\* The bytes f arrive in the receive buffer, over what it held before; they are
\* refused or given to the handler of their action byte.
Dispatch(f) ==
    /\ packet' = CopyAt(packet, 0, f)
    /\ IF Len(f) < 1 \/ ~FromByte(f[1]) THEN Refuse("Invalid action")
       ELSE IF f[1] \notin handlerRegistry THEN Refuse("Unknown action")
       ELSE Handle(f)
    /\ UNCHANGED <<transport, handlerRegistry>>

\* UDP.  Datagrams may be lost, repeated and reordered: any may be the next.
React(f) ==
    /\ transport = "udp"
    /\ Dispatch(f)
    /\ UNCHANGED stream

\* The dummy server listens on UDP as well.
ReactDummy(f) ==
    /\ transport = "dummy"
    /\ Dispatch(f)
    /\ UNCHANGED stream

\* The client of a stream sends a request; it need not wait for answers.
ClientWrite(f) ==
    /\ transport \in {"uds", "tcp"} /\ open /\ Len(asked) < MaxMsgs
    /\ wire' = wire \o f /\ asked' = Append(asked, f)
    /\ UNCHANGED <<transport, packet, handlerRegistry, pending, store, written, out, open, answers, torn>>

\* The next n bytes of the stream are read and answered: as one request, which
\* they are if they are all of the first one that has no answer.
Consumed(n) ==
    /\ open /\ n <= Len(wire) /\ n <= MaxFrame
    /\ wire' = SubSeq(wire, n + 1, Len(wire))
    /\ torn' = (torn \/ n # Len(asked[Len(answers) + 1]))
    /\ answers' = IF torn' THEN answers ELSE Append(answers, out')
    /\ UNCHANGED <<open, asked>>

ReactUDS(n) ==
    /\ transport = "uds"
    /\ Dispatch(SubSeq(wire, 1, n))
    /\ Consumed(n)

\* Mutant: c.Peek for c.Next, the bytes stay in the connection's buffer.
MutPeek(n) ==
    /\ transport = "tcp" /\ open /\ n <= Len(wire) /\ n <= MaxFrame
    /\ Dispatch(SubSeq(wire, 1, n))
    /\ torn' = (torn \/ n # Len(asked[Len(answers) + 1]))
    /\ answers' = IF torn' THEN answers ELSE Append(answers, out')
    /\ UNCHANGED <<open, wire, asked>>

\* c.Next(-1) returns all that has arrived.
OnTraffic(n) ==
    /\ transport = "tcp"
    /\ Dispatch(SubSeq(wire, 1, n))
    /\ Consumed(n)

\* The client closes the connection, or c.Next fails and OnTraffic does.
OnClose ==
    /\ transport \in {"uds", "tcp"} /\ open
    /\ open' = FALSE /\ wire' = <<>>
    /\ UNCHANGED <<transport, packet, handlerRegistry, pending, store, written, out, asked, answers, torn>>

RegisterHandler(h) ==
    /\ handlerRegistry' = handlerRegistry \cup {h}
    /\ UNCHANGED <<transport, packet, pending, store, written, out, stream>>

DeregisterHandler(h) ==
    /\ handlerRegistry' = handlerRegistry \ {h}
    /\ UNCHANGED <<transport, packet, pending, store, written, out, stream>>

\* The slice of length n the writer holds, as the receive buffer is now.
Slice(n) == SubSeq(packet, 2 + KeyLen, 1 + KeyLen + n)

\* The batch writer commits the value v under key k, as its n-th pending one.
Put(k, v, n) ==
    /\ store' = [store EXCEPT ![k] = <<v>>]
    /\ pending' = [pending EXCEPT ![k] = SubSeq(@, n + 1, Len(@))]
    /\ UNCHANGED <<transport, packet, handlerRegistry, written, out, stream>>

\* Mutant: the key, too, is a slice of the receive buffer.
MutKeySlice(k, n) ==
    /\ n \in DOMAIN pending[k]
    /\ LET now == KeyOf(packet)
       IN  /\ store' = [j \in AllKeys |-> IF j = now THEN <<Slice(pending[k][n])>> ELSE store[j]]
           /\ pending' = [pending EXCEPT ![k] = SubSeq(@, n + 1, Len(@))]
           /\ UNCHANGED <<transport, packet, handlerRegistry, written, out, stream>>

\* The writer's flush: a newer value of the key supersedes the older ones.
Flush(k, n) ==
    /\ n \in DOMAIN pending[k]
    /\ Put(k, Slice(pending[k][n]), n)

RequestsNext ==
    \/ \E f \in Datagrams : React(f) \/ ReactDummy(f)
    \/ \E f \in Sent : ClientWrite(f)
    \/ \E n \in 1 .. Len(wire) : ReactUDS(n) \/ OnTraffic(n)
    \/ OnClose
    \/ \E h \in {WriteHandlerType, ReadHandlerType} : RegisterHandler(h) \/ DeregisterHandler(h)
    \/ \E k \in AllKeys : \E n \in DOMAIN pending[k] : Flush(k, n)

RequestsSpec == RequestsInit /\ [][RequestsNext]_requestVars

-----------------------------------------------------------------------------

WritesOf(k) == {f \in written : KeyOf(f) = k}

\* A key is in the database, or on its way there, only if a write of that key
\* was acknowledged: datagrams that overwrite the receive buffer later do not
\* redirect it.
OnlyWrittenKeys ==
    \A k \in AllKeys : store[k] # <<>> \/ pending[k] # <<>> => WritesOf(k) # {}

\* What is stored for a key has the length of what followed the key in a write of
\* that key that was acknowledged, the length field included, although its bytes
\* may have been replaced.  (A write without data counts: its length field passes
\* the handler's check and is stored.)
LengthsKept ==
    \A k \in AllKeys : store[k] # <<>> =>
        \E f \in WritesOf(k) : Len(RemainingPart(f)) = Len(store[k][1])

\* What neither the sharing of the receive buffer nor the cutting of a stream
\* can break.
RequestsInv == RequestsTypeOK /\ OnlyWrittenKeys /\ LengthsKept

\* The answers a request may get.
Answers(f) ==
    {[kind |-> "Unknown action"]} \cup
    IF f[1] = WriteHandlerType THEN {[kind |-> "0x00"]}
    ELSE IF f[1] = ReadHandlerType
    THEN {[kind |-> "Error reading"]} \cup [kind : {"value"}, key : {KeyOf(f)}, value : Seq(Bytes)]
    ELSE {[kind |-> "Invalid action"]}

\* A client of UDS or TCP matches answers to requests by their order.  As long as
\* every read returned one whole request, also when the client does not wait,
\* that is right: each answer is one of the request it is matched to.
AnsweredInOrder ==
    ~torn =>
        /\ Len(answers) <= Len(asked)
        /\ \A i \in DOMAIN answers : answers[i] \in Answers(asked[i])

\* And no request is without an answer but those whose bytes are still on an
\* open connection, all of them.
AnswersMatch ==
    /\ AnsweredInOrder
    /\ ~torn /\ open => wire = FlattenSeq(SubSeq(asked, Len(answers) + 1, Len(asked)))

\* "The remaining part is the value": what is committed for a key is the
\* remaining part of a frame that was acknowledged as a write of that key.
ValueIsRemainingPart ==
    \A k \in AllKeys : store[k] # <<>> =>
        \E f \in WritesOf(k) : RemainingPart(f) = store[k][1]
====
