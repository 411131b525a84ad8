---- MODULE MessagePool ----
(***************************************************************************)
(* A sender that encodes one message after the other into the same pooled  *)
(* buffer (the benchmark clients take it from a sync.Pool) or into a fresh *)
(* one (the tests), and a receiver that decodes what arrives: the frame, a *)
(* part of it, the frame with more bytes after it, or a frame with one     *)
(* byte changed.                                                           *)
(***************************************************************************)
EXTENDS Messages

CONSTANTS
    PoolSize,        \* length of the pooled buffer (64 in the benchmarks)
    MaxRead,         \* the longest frame a receiver reads (4096 for QUIC)
    MaxTrail         \* bound: bytes that may follow a frame

ASSUME PoolAssumption == PoolSize \in Nat /\ MaxTrail \in Nat
ASSUME ReadAssumption == MaxRead \in Nat /\ MaxRead < Modulus

VARIABLES
    pooled,  \* the pooled buffer
    message, \* the message last encoded
    frame,   \* its frame, empty if the buffer was too small
    arrived  \* what the receiver gets

poolVars == <<pooled, message, frame, arrived>>

PoolMessages == [handler : {WriteHandlerType, ReadHandlerType}, key : Keys, data : Payloads]

PoolTypeOK ==
    /\ pooled \in [1 .. PoolSize -> Bytes]
    /\ message \in PoolMessages
    /\ frame \in Seq(Bytes) /\ arrived \in Seq(Bytes)

PoolInit ==
    /\ pooled = [i \in 1 .. PoolSize |-> 0]
    /\ message \in PoolMessages
    /\ frame = <<>> /\ arrived = <<>>

\* message.EncodeWithBuffer(buf); the buffer goes back to the pool.
SendPooled(m) ==
    LET r == EncodeWithBuffer(m, pooled)
    IN  /\ pooled' = r.buf
        /\ frame' = r.frame /\ arrived' = r.frame
        /\ message' = m

\* message.Encode()
SendFresh(m) ==
    /\ message' = m
    /\ frame' = Encode(m) /\ arrived' = Encode(m)
    /\ UNCHANGED pooled

Truncate(n) ==
    /\ n < Len(frame)
    /\ arrived' = SubSeq(frame, 1, n)
    /\ UNCHANGED <<pooled, message, frame>>

Trail(b) ==
    /\ frame # <<>> /\ IsPrefix(frame, arrived) /\ Len(arrived) < Len(frame) + MaxTrail
    /\ arrived' = Append(arrived, b)
    /\ UNCHANGED <<pooled, message, frame>>

Corrupt(i, b) ==
    /\ i \in DOMAIN frame
    /\ arrived' = [frame EXCEPT ![i] = b]
    /\ UNCHANGED <<pooled, message, frame>>

PoolNext ==
    \/ \E m \in PoolMessages : SendPooled(m) \/ SendFresh(m)
    \/ \E n \in 0 .. Len(frame) - 1 : Truncate(n)
    \/ \E b \in Bytes : Trail(b)
    \/ \E i \in DOMAIN frame, b \in Bytes : Corrupt(i, b)

PoolSpec == PoolInit /\ [][PoolNext]_poolVars

-----------------------------------------------------------------------------

\* A frame made in a reused buffer is the frame a fresh buffer would give:
\* nothing of the messages encoded there before shows through.
FrameIgnoresBuffer == PoolTypeOK /\ (frame # <<>> => frame = Encode(message))

\* Whatever bytes arrive, a message Decode returns is one whose encoding they
\* begin with: no byte of its key or data is invented, shifted or missing; and
\* the uint32 sum does not wrap, which would panic, on anything a receiver can
\* read.
DecodeSound ==
    /\ Decode(arrived).ok => IsPrefix(Encode(Decode(arrived).msg), arrived)
    /\ Len(arrived) <= MaxRead => ~Decode(arrived).panic

\* A frame is decoded to the message it was made from as soon as all of it is
\* there, and never before, for every message whose length fits the field.
RoundTrip ==
    frame # <<>> /\ MsgLen(message) < Modulus /\ (IsPrefix(arrived, frame) \/ IsPrefix(frame, arrived))
    => Decode(arrived) = IF Len(arrived) < Len(frame) THEN Err ELSE Ok(message)

\* Decode is exact: it returns the message the bytes begin with, all of it as
\* soon as it is there, and nothing else.
DecodeExact == DecodeSound /\ RoundTrip
====
