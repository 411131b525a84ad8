---- MODULE Messages ----
(***************************************************************************)
(* The wire format of messages/message.go: a handler byte, the key, the    *)
(* length of the data as a big-endian unsigned integer, the data.  The     *)
(* sizes are parameters (32, 4 and 256 in the code), so that the widths    *)
(* keep their meaning in a small instance.                                 *)
(***************************************************************************)
EXTENDS Integers, Sequences, SequencesExt

CONSTANTS
    KeyLen,            \* bytes of a key
    LenBytes,          \* bytes of the length field
    Base,              \* values of a byte
    WriteHandlerType,  \* the byte 'W'
    ReadHandlerType,   \* the byte 'R'
    Keys, Payloads     \* the keys and the data of the messages clients send

ASSUME SizesAssumption == {KeyLen, LenBytes} \subseteq Nat \ {0} /\ Base \in Nat /\ Base > 2
\* Facts of arithmetic, for the widths in use, that the proofs rest on.
ASSUME PowersAssumption ==
    /\ Base ^ 0 = 1
    /\ \A i \in 0 .. LenBytes : Base ^ i \in Nat \ {0}
    /\ \A i \in 1 .. LenBytes : Base ^ i = Base ^ (i - 1) * Base
ASSUME WidthAssumption == 1 + KeyLen + LenBytes < Base ^ LenBytes
ASSUME HandlersAssumption ==
    {WriteHandlerType, ReadHandlerType} \subseteq 0 .. Base - 1 /\ WriteHandlerType # ReadHandlerType

Bytes == 0 .. Base - 1

ASSUME MessagesAssumption == Keys \subseteq [1 .. KeyLen -> Bytes] /\ Payloads \subseteq Seq(Bytes)

\* A uint32 wraps here.
Modulus == Base ^ LenBytes

\* 1 byte for the handler, the key and the length field.
Header == 1 + KeyLen + LenBytes

\* The outcomes of Decode that are not a message: an error, and the panic of
\* a slice whose bounds are the wrong way round.
Err   == [ok |-> FALSE, panic |-> FALSE]
Panic == [ok |-> FALSE, panic |-> TRUE]

Ok(m) == [ok |-> TRUE, panic |-> FALSE, msg |-> m]

\* binary.BigEndian.PutUint32 of uint32(n): the length is cut to its width.
PutUint32(n) == [i \in 1 .. LenBytes |-> (n \div Base ^ (LenBytes - i)) % Base]

\* binary.BigEndian.Uint32
Uint32(b) ==
    LET u[i \in 0 .. Len(b)] == IF i = 0 THEN 0 ELSE u[i - 1] * Base + b[i]
    IN  u[Len(b)]

Encode(m) == <<m.handler>> \o m.key \o PutUint32(Len(m.data)) \o m.data

\* copy(buf[from:], s): overwrite what fits, from the given offset on.
CopyAt(buf, from, s) ==
    [i \in DOMAIN buf |-> IF i - from \in DOMAIN s THEN s[i - from] ELSE buf[i]]

MsgLen(m) == Header + Len(m.data)

\* Mutant: the buffer is taken to be clean and only the used prefix is kept
\* of what it holds; the length field is left to its old contents.
MutStaleLength(m, buf) ==
    IF Len(buf) < MsgLen(m) THEN [ok |-> FALSE, buf |-> buf, frame |-> <<>>]
    ELSE LET b == CopyAt(CopyAt(CopyAt(buf, 0, <<m.handler>>), 1, m.key), Header, m.data)
         IN  [ok |-> TRUE, buf |-> b, frame |-> SubSeq(b, 1, MsgLen(m))]

\* The caller's buffer is written in place and the frame is its prefix.
EncodeWithBuffer(m, buf) ==
    IF Len(buf) < MsgLen(m) THEN [ok |-> FALSE, buf |-> buf, frame |-> <<>>]
    ELSE LET head == CopyAt(CopyAt(buf, 0, <<m.handler>>), 1, m.key)
             b    == CopyAt(CopyAt(head, 1 + KeyLen, PutUint32(Len(m.data))), Header, m.data)
         IN  [ok |-> TRUE, buf |-> b, frame |-> SubSeq(b, 1, MsgLen(m))]

\* The message at the start of f; its data ends at byte upTo.
Fields(f, upTo) ==
    [handler |-> f[1], key |-> SubSeq(f, 2, 1 + KeyLen), data |-> SubSeq(f, Header + 1, upTo)]

DataLen(f) == Uint32(SubSeq(f, 2 + KeyLen, Header))

\* Mutant: everything that arrived is taken for data.
MutTakeRest(f) ==
    IF Len(f) < Header \/ Len(f) - Header < DataLen(f) THEN Err ELSE Ok(Fields(f, Len(f)))

\* Bytes after the declared length are ignored.  37+dataLen is a uint32: it
\* wraps for lengths close to its maximum, and the slice then panics.
Decode(f) ==
    IF Len(f) < Header \/ Len(f) - Header < DataLen(f) THEN Err
    ELSE IF (Header + DataLen(f)) % Modulus < Header THEN Panic
    ELSE Ok(Fields(f, Header + DataLen(f)))

\* HandlerType.FromByte: the two handler bytes, everything else is an error.
FromByte(b) == b \in {WriteHandlerType, ReadHandlerType}
====
