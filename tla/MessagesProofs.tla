---- MODULE MessagesProofs ----
(***************************************************************************)
(* Proofs about the message codec, for all widths and messages: what is in *)
(* a frame, that a reused buffer does not show in it, and that Decode is   *)
(* the inverse of Encode on whatever part of a frame has arrived.          *)
(***************************************************************************)
EXTENDS MessagePool, SequenceTheorems, WellFoundedInduction, TLAPS

\* Induction over data: every nonempty set of numbers has a least element.
LEMMA LeastNumber ==
    ASSUME NEW T, T \subseteq Nat, T # {}
    PROVE  \E x \in T : \A y \in T : x <= y
<1>1. PICK R : R = OpToRel(<, Nat)
  OBVIOUS
<1>2. IsWellFoundedOn(R, Nat)
  BY <1>1, NatLessThanWellFounded
<1>3. PICK x \in T : \A y \in T : ~(<<y, x>> \in R)
  BY <1>2, WFMin
<1>4. \A u, y \in Nat : y < u => <<y, u>> \in R
  BY <1>1 DEF OpToRel
<1>5. ASSUME NEW y \in T PROVE x <= y
  <2>1. x \in Nat /\ y \in Nat /\ ~(y < x)
    BY <1>3, <1>4
  <2> QED BY <2>1
<1> QED BY <1>5

-----------------------------------------------------------------------------
(* The codec.                                                               *)

\* The messages of the wire format.
Message == [handler : Bytes, key : [1 .. KeyLen -> Bytes], data : Seq(Bytes)]

LEMMA PutUint32Typed ==
    ASSUME NEW n \in Nat
    PROVE  PutUint32(n) \in [1 .. LenBytes -> Bytes]
<1> SUFFICES ASSUME NEW i \in 1 .. LenBytes PROVE (n \div Base ^ (LenBytes - i)) % Base \in Bytes
  BY DEF PutUint32
<1>1. LenBytes - i \in 0 .. LenBytes /\ Base \in Nat /\ Base > 0
  BY SizesAssumption
<1>2. Base ^ (LenBytes - i) \in Nat \ {0}
  BY <1>1, PowersAssumption
<1>3. n \div Base ^ (LenBytes - i) \in Int
  BY <1>2
<1> QED BY <1>1, <1>3 DEF Bytes

LEMMA BytesAsSeq ==
    ASSUME NEW n \in Nat, NEW s \in [1 .. n -> Bytes]
    PROVE  s \in Seq(Bytes) /\ Len(s) = n
OBVIOUS

LEMMA Concat ==
    ASSUME NEW s \in Seq(Bytes), NEW t \in Seq(Bytes)
    PROVE  /\ s \o t \in Seq(Bytes) /\ Len(s \o t) = Len(s) + Len(t)
           /\ \A i \in 1 .. Len(s) : (s \o t)[i] = s[i]
           /\ \A i \in 1 .. Len(t) : (s \o t)[Len(s) + i] = t[i]
<1>1. /\ s \o t \in Seq(Bytes) /\ Len(s \o t) = Len(s) + Len(t)
      /\ \A i \in 1 .. Len(s) + Len(t) : (s \o t)[i] = IF i <= Len(s) THEN s[i] ELSE t[i - Len(s)]
  BY ConcatProperties
<1>2. Len(s) \in Nat /\ Len(t) \in Nat
  OBVIOUS
<1>3. \A i \in 1 .. Len(s) : (s \o t)[i] = s[i]
  BY <1>1, <1>2
<1>4. ASSUME NEW i \in 1 .. Len(t) PROVE (s \o t)[Len(s) + i] = t[i]
  <2>1. Len(s) + i \in 1 .. Len(s) + Len(t) /\ ~(Len(s) + i <= Len(s)) /\ Len(s) + i - Len(s) = i
    BY <1>2
  <2> QED BY <1>1, <2>1
<1> QED BY <1>1, <1>3, <1>4

\* A frame is its message byte by byte.
LEMMA EncodeBytes ==
    ASSUME NEW m \in Message
    PROVE  /\ Encode(m) \in Seq(Bytes) /\ Len(Encode(m)) = MsgLen(m) /\ MsgLen(m) \in Nat
           /\ Encode(m)[1] = m.handler
           /\ \A i \in 1 .. KeyLen : Encode(m)[1 + i] = m.key[i]
           /\ \A i \in 1 .. LenBytes : Encode(m)[1 + KeyLen + i] = PutUint32(Len(m.data))[i]
           /\ \A i \in 1 .. Len(m.data) : Encode(m)[Header + i] = m.data[i]
<1> DEFINE h == <<m.handler>>
           k == m.key
           n == PutUint32(Len(m.data))
           d == m.data
<1>1. KeyLen \in Nat /\ LenBytes \in Nat
  BY SizesAssumption
<1>2. h \in Seq(Bytes) /\ Len(h) = 1 /\ h[1] = m.handler
  BY DEF Message
<1>3. k \in Seq(Bytes) /\ Len(k) = KeyLen
  BY <1>1 DEF Message
<1>4. d \in Seq(Bytes) /\ Len(d) \in Nat
  BY DEF Message
<1>5. n \in Seq(Bytes) /\ Len(n) = LenBytes
  BY <1>1, <1>4, PutUint32Typed
<1>6. Encode(m) = ((h \o k) \o n) \o d
  BY DEF Encode
<1> HIDE DEF h, k, n, d
<1>7. /\ h \o k \in Seq(Bytes) /\ Len(h \o k) = 1 + KeyLen
      /\ (h \o k)[1] = m.handler
      /\ \A i \in 1 .. KeyLen : (h \o k)[1 + i] = k[i]
  <2>2. /\ h \o k \in Seq(Bytes) /\ Len(h \o k) = Len(h) + Len(k)
        /\ \A i \in 1 .. Len(h) : (h \o k)[i] = h[i]
        /\ \A i \in 1 .. Len(k) : (h \o k)[Len(h) + i] = k[i]
    BY <1>2, <1>3, Concat
  <2> QED BY <1>2, <1>3, <2>2
<1>8. /\ (h \o k) \o n \in Seq(Bytes) /\ Len((h \o k) \o n) = 1 + KeyLen + LenBytes
      /\ \A i \in 1 .. 1 + KeyLen : ((h \o k) \o n)[i] = (h \o k)[i]
      /\ \A i \in 1 .. LenBytes : ((h \o k) \o n)[1 + KeyLen + i] = n[i]
  <2> DEFINE s == h \o k
  <2>1. s \in Seq(Bytes) /\ Len(s) = 1 + KeyLen
    BY <1>7
  <2> HIDE DEF s
  <2>2. /\ s \o n \in Seq(Bytes) /\ Len(s \o n) = 1 + KeyLen + LenBytes
        /\ \A i \in 1 .. 1 + KeyLen : (s \o n)[i] = s[i]
        /\ \A i \in 1 .. LenBytes : (s \o n)[1 + KeyLen + i] = n[i]
    <3>1. /\ s \o n \in Seq(Bytes) /\ Len(s \o n) = Len(s) + Len(n)
          /\ \A i \in 1 .. Len(s) : (s \o n)[i] = s[i]
          /\ \A i \in 1 .. Len(n) : (s \o n)[Len(s) + i] = n[i]
      BY <1>5, <2>1, Concat
    <3> QED BY <1>5, <2>1, <3>1
  <2> QED BY <2>2 DEF s
<1>9. /\ Encode(m) \in Seq(Bytes) /\ Len(Encode(m)) = Header + Len(d)
      /\ \A i \in 1 .. Header : Encode(m)[i] = ((h \o k) \o n)[i]
      /\ \A i \in 1 .. Len(d) : Encode(m)[Header + i] = d[i]
  <2> DEFINE s == (h \o k) \o n
  <2>1. s \in Seq(Bytes) /\ Len(s) = Header /\ Header \in Nat
    BY <1>1, <1>8 DEF Header
  <2> HIDE DEF s
  <2>2. /\ s \o d \in Seq(Bytes) /\ Len(s \o d) = Header + Len(d)
        /\ \A i \in 1 .. Header : (s \o d)[i] = s[i]
        /\ \A i \in 1 .. Len(d) : (s \o d)[Header + i] = d[i]
    BY <1>4, <2>1, Concat
  <2> QED BY <1>6, <2>2 DEF s
<1>10. MsgLen(m) = Header + Len(d) /\ Header = 1 + KeyLen + LenBytes
  BY DEF MsgLen, Header, d
<1>13. Encode(m)[1] = m.handler
  <2>1. 1 \in 1 .. Header /\ 1 \in 1 .. 1 + KeyLen
    BY <1>1, <1>10
  <2> QED BY <1>7, <1>8, <1>9, <2>1
<1>11. \A i \in 1 .. KeyLen : Encode(m)[1 + i] = k[i]
  <2> TAKE i \in 1 .. KeyLen
  <2>1. 1 + i \in 1 .. Header /\ 1 + i \in 1 .. 1 + KeyLen
    BY <1>1, <1>10
  <2>2. Encode(m)[1 + i] = ((h \o k) \o n)[1 + i]
    BY <1>9, <2>1
  <2>3. ((h \o k) \o n)[1 + i] = (h \o k)[1 + i]
    BY <1>8, <2>1
  <2> QED BY <1>7, <2>2, <2>3
<1>12. \A i \in 1 .. LenBytes : Encode(m)[1 + KeyLen + i] = n[i]
  <2> TAKE i \in 1 .. LenBytes
  <2>1. 1 + KeyLen + i \in 1 .. Header
    BY <1>1, <1>10
  <2>2. Encode(m)[1 + KeyLen + i] = ((h \o k) \o n)[1 + KeyLen + i]
    BY <1>9, <2>1
  <2>3. ((h \o k) \o n)[1 + KeyLen + i] = n[i]
    BY <1>8
  <2> QED BY <2>2, <2>3
<1>14. MsgLen(m) \in Nat
  BY <1>1, <1>4, <1>10
<1> QED BY <1>9, <1>10, <1>11, <1>12, <1>13, <1>14 DEF k, n, d

Copies(buf, h, k, n, d) ==
    CopyAt(CopyAt(CopyAt(CopyAt(buf, 0, <<h>>), 1, k), 1 + KeyLen, n), Header, d)

Overlaid(b, buf, size, h, k, n, d, D) ==
    \A i \in 1 .. size :
        /\ i = 1 => b[i] = h
        /\ i \in 2 .. 1 + KeyLen => b[i] = k[i - 1]
        /\ i \in 2 + KeyLen .. Header => b[i] = n[i - (1 + KeyLen)]
        /\ i \in Header + 1 .. Header + D => b[i] = d[i - Header]
        /\ i > Header + D => b[i] = buf[i]

\* Four copies one behind the other into a buffer.
LEMMA CopiesInTurn ==
    ASSUME NEW h \in Bytes, NEW k \in [1 .. KeyLen -> Bytes], NEW n \in [1 .. LenBytes -> Bytes],
           NEW D \in Nat, NEW d \in [1 .. D -> Bytes],
           NEW size \in Nat, NEW buf \in [1 .. size -> Bytes]
    PROVE  /\ Copies(buf, h, k, n, d) \in [1 .. size -> Bytes]
           /\ Overlaid(Copies(buf, h, k, n, d), buf, size, h, k, n, d, D)
<1> DEFINE b == Copies(buf, h, k, n, d)
           b1 == CopyAt(buf, 0, <<h>>)
           b2 == CopyAt(b1, 1, k)
           b3 == CopyAt(b2, 1 + KeyLen, n)
<1>1. KeyLen \in Nat /\ LenBytes \in Nat /\ Header = 1 + KeyLen + LenBytes /\ Header \in Nat
  BY SizesAssumption DEF Header
<1>2. DOMAIN <<h>> = 1 .. 1 /\ <<h>>[1] = h
  OBVIOUS
<1>3. b1 \in [1 .. size -> Bytes] /\ \A i \in 1 .. size : b1[i] = IF i = 1 THEN h ELSE buf[i]
  BY <1>2 DEF CopyAt
<1> HIDE DEF b1
<1>4. b2 \in [1 .. size -> Bytes] /\ \A i \in 1 .. size : b2[i] = IF i \in 2 .. 1 + KeyLen THEN k[i - 1] ELSE b1[i]
  BY <1>1, <1>3 DEF CopyAt
<1> HIDE DEF b2
<1>5. /\ b3 \in [1 .. size -> Bytes]
      /\ \A i \in 1 .. size : b3[i] = IF i \in 2 + KeyLen .. Header THEN n[i - (1 + KeyLen)] ELSE b2[i]
  BY <1>1, <1>4 DEF CopyAt
<1> HIDE DEF b3
<1>6. b = CopyAt(b3, Header, d)
  BY DEF Copies, b3, b2, b1
<1> HIDE DEF b
<1>7. /\ b \in [1 .. size -> Bytes]
      /\ \A i \in 1 .. size : b[i] = IF i \in Header + 1 .. Header + D THEN d[i - Header] ELSE b3[i]
  BY <1>1, <1>5, <1>6 DEF CopyAt
<1>8. ASSUME NEW i \in 1 .. size
      PROVE  /\ i = 1 => b[i] = h
             /\ i \in 2 .. 1 + KeyLen => b[i] = k[i - 1]
  BY <1>1, <1>3, <1>4, <1>5, <1>7
<1>9. ASSUME NEW i \in 1 .. size
      PROVE  /\ i \in 2 + KeyLen .. Header => b[i] = n[i - (1 + KeyLen)]
             /\ i \in Header + 1 .. Header + D => b[i] = d[i - Header]
  <2>1. i \in 2 + KeyLen .. Header => i \notin Header + 1 .. Header + D
    BY <1>1
  <2>2. i \in 2 + KeyLen .. Header => b[i] = b3[i]
    BY <1>7, <2>1
  <2>3. i \in 2 + KeyLen .. Header => b3[i] = n[i - (1 + KeyLen)]
    BY <1>5
  <2>4. i \in Header + 1 .. Header + D => b[i] = d[i - Header]
    BY <1>7
  <2> QED BY <2>2, <2>3, <2>4
<1>10. ASSUME NEW i \in 1 .. size, i > Header + D
       PROVE  b[i] = buf[i]
  <2>1. i # 1 /\ i \notin 2 .. 1 + KeyLen /\ i \notin 2 + KeyLen .. Header /\ i \notin Header + 1 .. Header + D
    BY <1>1, <1>10
  <2> QED BY <1>3, <1>4, <1>5, <1>7, <2>1
<1> QED BY <1>7, <1>8, <1>9, <1>10 DEF Overlaid, b

\* EncodeWithBuffer into a buffer that is long enough writes the frame that
\* Encode makes, whatever the buffer held before, and nothing behind it; into
\* one that is too short it writes nothing.
THEOREM EncodeInPlace ==
    ASSUME NEW m \in Message, NEW size \in Nat, NEW buf \in [1 .. size -> Bytes]
    PROVE  LET r == EncodeWithBuffer(m, buf)
           IN  /\ r.ok <=> MsgLen(m) <= size
               /\ r.buf \in [1 .. size -> Bytes]
               /\ r.ok => r.frame = Encode(m)
               /\ \A i \in 1 .. size : ~r.ok \/ i > MsgLen(m) => r.buf[i] = buf[i]
<1> DEFINE n == PutUint32(Len(m.data))
           b == Copies(buf, m.handler, m.key, n, m.data)
<1>1. PICK D \in Nat, L \in Nat : D = Len(m.data) /\ L = MsgLen(m) /\ L = Header + D
  BY EncodeBytes DEF MsgLen, Message
<1>2. KeyLen \in Nat /\ LenBytes \in Nat /\ Header = 1 + KeyLen + LenBytes /\ Header \in Nat
  BY SizesAssumption DEF Header
<1>3. n \in [1 .. LenBytes -> Bytes]
  BY <1>1, PutUint32Typed
<1>4. Len(buf) = size
  OBVIOUS
<1>5. m.handler \in Bytes /\ m.key \in [1 .. KeyLen -> Bytes] /\ m.data \in [1 .. D -> Bytes]
  BY <1>1 DEF Message
<1> HIDE DEF n
<1>7. /\ b \in [1 .. size -> Bytes]
      /\ \A i \in 1 .. size :
            /\ i = 1 => b[i] = m.handler
            /\ i \in 2 .. 1 + KeyLen => b[i] = m.key[i - 1]
            /\ i \in 2 + KeyLen .. Header => b[i] = n[i - (1 + KeyLen)]
            /\ i \in Header + 1 .. Header + D => b[i] = m.data[i - Header]
            /\ i > Header + D => b[i] = buf[i]
  <2>1. b \in [1 .. size -> Bytes] /\ Overlaid(b, buf, size, m.handler, m.key, n, m.data, D)
    BY <1>1, <1>3, <1>5, CopiesInTurn
  <2> QED BY <2>1 DEF Overlaid
<1> HIDE DEF b
<1>8. b \in [1 .. size -> Bytes]
  BY <1>7
<1>9. \A i \in 1 .. size : i > L => b[i] = buf[i]
  BY <1>1, <1>7
<1>10. ASSUME L <= size, NEW i \in 1 .. L PROVE b[i] = Encode(m)[i]
  <2>1. i \in 1 .. size /\ i \in Int
    BY <1>1, <1>10
  <2>2. CASE i = 1
    BY <1>7, <2>1, <2>2, EncodeBytes
  <2>3. CASE i \in 2 .. 1 + KeyLen
    <3>1. b[i] = m.key[i - 1]
      BY <1>7, <2>1, <2>3
    <3>2. i - 1 \in 1 .. KeyLen /\ 1 + (i - 1) = i
      BY <1>2, <2>3
    <3>3. Encode(m)[1 + (i - 1)] = m.key[i - 1]
      BY <3>2, EncodeBytes
    <3> QED BY <3>1, <3>2, <3>3
  <2>4. CASE i \in 2 + KeyLen .. Header
    <3>1. b[i] = n[i - (1 + KeyLen)]
      BY <1>7, <2>1, <2>4
    <3>2. i - (1 + KeyLen) \in 1 .. LenBytes /\ 1 + KeyLen + (i - (1 + KeyLen)) = i
      BY <1>2, <2>4
    <3>3. Encode(m)[1 + KeyLen + (i - (1 + KeyLen))] = n[i - (1 + KeyLen)]
      BY <3>2, EncodeBytes DEF n
    <3> QED BY <3>1, <3>2, <3>3
  <2>5. CASE i \in Header + 1 .. L
    <3>1. b[i] = m.data[i - Header]
      BY <1>1, <1>7, <2>1, <2>5
    <3>4. i - Header \in 1 .. D /\ Header + (i - Header) = i
      <4>1. L = Header + D /\ D \in Nat /\ L \in Nat
        BY <1>1
      <4> QED BY <1>2, <2>1, <2>5, <4>1
    <3>2. i - Header \in 1 .. Len(m.data) /\ Header + (i - Header) = i
      BY <1>1, <3>4
    <3>3. Encode(m)[Header + (i - Header)] = m.data[i - Header]
      BY <3>2, EncodeBytes
    <3> QED BY <3>1, <3>2, <3>3
  <2>6. i = 1 \/ i \in 2 .. 1 + KeyLen \/ i \in 2 + KeyLen .. Header \/ i \in Header + 1 .. L
    BY <1>2, <2>1
  <2> QED BY <2>2, <2>3, <2>4, <2>5, <2>6
<1>11. L <= size => SubSeq(b, 1, L) = Encode(m)
  <2> SUFFICES ASSUME L <= size PROVE SubSeq(b, 1, L) = Encode(m)
    OBVIOUS
  <2>1. L \in Nat /\ Len(Encode(m)) = L /\ Encode(m) \in Seq(Bytes)
    BY <1>1, EncodeBytes
  <2>2. \A i \in 1 .. L : b[i] \in Bytes
    BY <1>8, <2>1
  <2>3. /\ SubSeq(b, 1, L) \in Seq(Bytes) /\ Len(SubSeq(b, 1, L)) = L
        /\ \A i \in 1 .. L : SubSeq(b, 1, L)[i] = b[i]
    BY <2>1, <2>2, SubSeqProperties
  <2>4. \A i \in 1 .. L : SubSeq(b, 1, L)[i] = Encode(m)[i]
    BY <1>10, <2>3
  <2> QED BY <2>1, <2>3, <2>4, SeqEqual
<1>12. EncodeWithBuffer(m, buf) =
        IF size < L THEN [ok |-> FALSE, buf |-> buf, frame |-> <<>>]
        ELSE [ok |-> TRUE, buf |-> b, frame |-> SubSeq(b, 1, L)]
  BY <1>1, <1>4 DEF EncodeWithBuffer, Copies, b, n
<1>13. CASE size < L
  BY <1>1, <1>12, <1>13
<1>14. CASE ~(size < L)
  <2>1. L <= size
    BY <1>1, <1>14
  <2>2. EncodeWithBuffer(m, buf) = [ok |-> TRUE, buf |-> b, frame |-> Encode(m)]
    BY <1>11, <1>12, <1>14, <2>1
  <2> QED BY <1>1, <1>8, <1>9, <2>1, <2>2
<1> QED BY <1>13, <1>14

-----------------------------------------------------------------------------
(* The length field.                                                        *)

LEMMA DivMod ==
    ASSUME NEW n \in Nat, NEW d \in Nat \ {0}
    PROVE  n \div d \in Nat /\ n % d \in 0 .. d - 1 /\ n = d * (n \div d) + (n % d)
OBVIOUS

LEMMA DivModUnique ==
    ASSUME NEW n \in Nat, NEW d \in Nat \ {0}, NEW q \in Nat, NEW r \in 0 .. d - 1, n = d * q + r
    PROVE  n \div d = q /\ n % d = r
OBVIOUS

LEMMA TimesMonotone ==
    ASSUME NEW a \in Nat, NEW b \in Nat, NEW c \in Nat, a <= b
    PROVE  a * c <= b * c
OBVIOUS

LEMMA Distribute ==
    ASSUME NEW d \in Int, NEW b \in Int, NEW p \in Int, NEW s \in Int,
           NEW e \in Int, NEW m \in Int, NEW x \in Int,
           e = b * p + s, m = d * b, x = d * s
    PROVE  d * e = m * p + x
OBVIOUS

DivOf(n, d, q) == q = n \div d
ModOf(n, d, r) == r = n % d

LEMMA ModOnce ==
    ASSUME NEW d \in Nat, NEW r \in Nat, r < d, NEW n, n = d + r
    PROVE  ModOf(n, d, r)
<1>1. d \in Nat \ {0} /\ n \in Nat /\ 1 \in Nat /\ r \in 0 .. d - 1 /\ n = d * 1 + r
  OBVIOUS
<1> QED BY <1>1, DivModUnique DEF ModOf

\* Division by d and then by b is division by their product.
LEMMA DivDiv ==
    ASSUME NEW n \in Nat, NEW d \in Nat \ {0}, NEW b \in Nat \ {0}, NEW db, db = d * b,
           NEW nd, DivOf(n, d, nd), NEW ndb, DivOf(nd, b, ndb)
    PROVE  DivOf(n, db, ndb)
<1>1. PICK q \in Nat, r \in Nat : n = d * q + r /\ r < d /\ q = n \div d
  <2>1. n % d \in 0 .. d - 1
    BY DivMod
  <2>2. n % d \in Nat /\ n % d < d
    BY <2>1
  <2> QED BY <2>2, DivMod
<1>2. PICK p \in Nat, s \in Nat : q = b * p + s /\ s < b /\ p = q \div b
  <2>1. q % b \in 0 .. b - 1
    BY <1>1, DivMod
  <2>2. q % b \in Nat /\ q % b < b
    BY <2>1
  <2> QED BY <1>1, <2>2, DivMod
<1>3. PICK m \in Nat, x \in Nat, y \in Nat : m = d * b /\ x = d * s /\ y = x + r
  BY <1>1, <1>2
<1>4. n = m * p + y
  <2>1. d * q = m * p + x
    <3>1. d \in Int /\ b \in Int /\ p \in Int /\ s \in Int /\ q \in Int /\ m \in Int /\ x \in Int
      BY <1>1, <1>2, <1>3
    <3>2. q = b * p + s /\ m = d * b /\ x = d * s
      BY <1>2, <1>3
    <3> QED BY <3>1, <3>2, Distribute
  <2>2. n = d * q + r /\ r \in Nat /\ y = x + r
    BY <1>1, <1>3
  <2>3. PICK u \in Nat : u = m * p
    BY <1>2, <1>3
  <2>4. d * q = u + x
    BY <2>1, <2>3
  <2>5. n = (u + x) + r
    BY <2>2, <2>4
  <2> QED BY <1>3, <2>2, <2>3, <2>5
<1>5. m # 0
  BY <1>3
<1>6. y < m
  <2>1. s + 1 <= b
    BY <1>2
  <2>2. d * (s + 1) <= d * b
    BY <1>2, <2>1
  <2>3. d * (s + 1) = d * s + d
    BY <1>2
  <2> QED BY <1>1, <1>2, <1>3, <2>2, <2>3
<1>7. n \div m = p
  <2>1. m \in Nat \ {0} /\ p \in Nat /\ y \in 0 .. m - 1
    BY <1>2, <1>3, <1>5, <1>6
  <2> QED BY <1>4, <2>1, DivModUnique
<1>8. nd = q /\ db = m
  BY <1>1, <1>3 DEF DivOf
<1>9. ndb = p
  BY <1>2, <1>8 DEF DivOf
<1> QED BY <1>7, <1>8, <1>9 DEF DivOf

\* The powers of the base, as a function.
Powers(p) ==
    /\ p \in [0 .. LenBytes -> Nat \ {0}] /\ p[0] = 1 /\ p[LenBytes] = Modulus
    /\ \A i \in 1 .. LenBytes : p[i] = p[i - 1] * Base
    /\ \A i \in 0 .. LenBytes : Base ^ i = p[i]

LEMMA PowersExist == \E p : Powers(p)
<1> DEFINE p == [i \in 0 .. LenBytes |-> Base ^ i]
<1>1. LenBytes \in Nat
  BY SizesAssumption
<1>2. \A i \in 0 .. LenBytes : Base ^ i = p[i]
  OBVIOUS
<1>3. p \in [0 .. LenBytes -> Nat \ {0}]
  BY PowersAssumption
<1>4. p[0] = 1 /\ p[LenBytes] = Modulus
  BY <1>1, <1>2, PowersAssumption DEF Modulus
<1>5. ASSUME NEW i \in 1 .. LenBytes PROVE p[i] = p[i - 1] * Base
  <2>1. i \in 0 .. LenBytes /\ i - 1 \in 0 .. LenBytes
    BY <1>1
  <2>2. Base ^ i = Base ^ (i - 1) * Base
    BY PowersAssumption
  <2> QED BY <1>2, <2>1, <2>2
<1> HIDE DEF p
<1> QED BY <1>2, <1>3, <1>4, <1>5 DEF Powers

\* The recursive function in Uint32: u[i] is what the first i digits of b say.
Reads(b, k, u) == u = [i \in 0 .. k |-> IF i = 0 THEN 0 ELSE u[i - 1] * Base + b[i]]

LEMMA ReadsExist ==
    ASSUME NEW b, NEW N \in Nat
    PROVE  \E u : Reads(b, N, u)
<1> DEFINE T == {k \in 0 .. N : ~\E u : Reads(b, k, u)}
<1> SUFFICES ASSUME N \in T PROVE FALSE
  OBVIOUS
<1>1. PICK x \in T : \A y \in T : x <= y
  <2>1. T \subseteq Nat /\ T # {}
    OBVIOUS
  <2> HIDE DEF T
  <2> QED BY <2>1, LeastNumber
<1>2. x \in 0 .. N /\ ~\E u : Reads(b, x, u)
  OBVIOUS
<1>3. CASE x = 0
  <2>1. Reads(b, 0, [i \in 0 .. 0 |-> 0])
    <3>1. [i \in 0 .. 0 |-> 0] = [i \in 0 .. 0 |-> IF i = 0 THEN 0 ELSE [k \in 0 .. 0 |-> 0][i - 1] * Base + b[i]]
      OBVIOUS
    <3> QED BY <3>1 DEF Reads
  <2> QED BY <1>2, <1>3, <2>1
<1>4. CASE x # 0
  <2>1. x - 1 \in 0 .. N /\ ~(x <= x - 1) /\ x \in Nat /\ x >= 1
    BY <1>2, <1>4
  <2>2. PICK u : Reads(b, x - 1, u)
    BY <1>1, <2>1
  <2> DEFINE v == [i \in 0 .. x |-> IF i = x THEN u[x - 1] * Base + b[x] ELSE u[i]]
  <2>3. ASSUME NEW i \in 0 .. x PROVE v[i] = IF i = 0 THEN 0 ELSE v[i - 1] * Base + b[i]
    <3>1. CASE i = x
      <4>1. v[i] = u[x - 1] * Base + b[x] /\ v[x - 1] = u[x - 1]
        BY <2>1, <3>1
      <4> HIDE DEF v
      <4> QED BY <2>1, <3>1, <4>1
    <3>2. CASE i # x
      <4>1. i \in 0 .. x - 1 /\ (i # 0 => i - 1 \in 0 .. x /\ i - 1 # x)
        BY <2>1, <3>2
      <4>2. v[i] = u[i] /\ (i # 0 => v[i - 1] = u[i - 1])
        BY <3>2, <4>1
      <4>3. u[i] = IF i = 0 THEN 0 ELSE u[i - 1] * Base + b[i]
        BY <2>2, <4>1, Zenon DEF Reads
      <4> HIDE DEF v
      <4> QED BY <4>2, <4>3
    <3> QED BY <3>1, <3>2
  <2>4. v = [i \in 0 .. x |-> v[i]]
    OBVIOUS
  <2> HIDE DEF v
  <2>5. v = [i \in 0 .. x |-> IF i = 0 THEN 0 ELSE v[i - 1] * Base + b[i]]
    BY <2>3, <2>4
  <2>6. Reads(b, x, v)
    BY <2>5, Zenon DEF Reads
  <2> QED BY <1>2, <2>6
<1> QED BY <1>3, <1>4

\* Uint32 of a length field, digit by digit.
Sums(b, u) ==
    /\ u[0] = 0
    /\ \A i \in 1 .. LenBytes : u[i] = u[i - 1] * Base + b[i]
    /\ \A i \in 0 .. LenBytes : u[i] \in Nat

LEMMA Uint32Sums ==
    ASSUME NEW b \in [1 .. LenBytes -> Bytes]
    PROVE  \E u : Sums(b, u) /\ Uint32(b) = u[LenBytes]
<1>1. LenBytes \in Nat /\ Base \in Nat /\ Len(b) = LenBytes
  BY SizesAssumption
<1> DEFINE u == CHOOSE u : Reads(b, LenBytes, u)
<1>2. Reads(b, LenBytes, u)
  BY <1>1, ReadsExist, Zenon
<1>3. Uint32(b) = u[LenBytes]
  BY <1>1, Zenon DEF Uint32, Reads
<1> HIDE DEF u
<1>4. \A i \in 0 .. LenBytes : u[i] = IF i = 0 THEN 0 ELSE u[i - 1] * Base + b[i]
  BY <1>2, Zenon DEF Reads
<1>5. u[0] = 0 /\ \A i \in 1 .. LenBytes : u[i] = u[i - 1] * Base + b[i]
  BY <1>1, <1>4
<1>6. \A i \in 0 .. LenBytes : u[i] \in Nat
  <2> DEFINE T == {i \in 0 .. LenBytes : u[i] \notin Nat}
  <2> SUFFICES ASSUME T # {} PROVE FALSE
    OBVIOUS
  <2>1. PICK x \in T : \A y \in T : x <= y
    <3>1. T \subseteq Nat
      BY <1>1
    <3> HIDE DEF T
    <3> QED BY <3>1, LeastNumber
  <2>2. x \in 1 .. LenBytes /\ u[x] \notin Nat
    BY <1>1, <1>5
  <2>3. x - 1 \in 0 .. LenBytes /\ ~(x <= x - 1)
    BY <1>1, <2>2
  <2>4. u[x - 1] \in Nat
    BY <2>1, <2>3
  <2>5. b[x] \in Nat
    BY <1>1, <2>2 DEF Bytes
  <2>6. u[x] = u[x - 1] * Base + b[x]
    BY <1>5, <2>2
  <2>7. \A p \in Nat : p * Base \in Nat
    BY <1>1
  <2>8. u[x - 1] * Base \in Nat
    BY <2>4, <2>7
  <2> QED BY <2>2, <2>5, <2>6, <2>8
<1> QED BY <1>3, <1>5, <1>6 DEF Sums

LEMMA Uint32Bounded ==
    ASSUME NEW b \in [1 .. LenBytes -> Bytes], NEW u, Sums(b, u), NEW p, Powers(p)
    PROVE  \A i \in 0 .. LenBytes : u[i] < p[i]
<1>1. LenBytes \in Nat /\ Base \in Nat
  BY SizesAssumption
<1> DEFINE T == {i \in 0 .. LenBytes : ~(u[i] < p[i])}
<1> SUFFICES ASSUME T # {} PROVE FALSE
  OBVIOUS
<1>2. PICK x \in T : \A y \in T : x <= y
  <2>1. T \subseteq Nat
    BY <1>1
  <2> HIDE DEF T
  <2> QED BY <2>1, LeastNumber
<1>3. x \in 0 .. LenBytes /\ ~(u[x] < p[x])
  OBVIOUS
<1>4. x # 0
  BY <1>3 DEF Sums, Powers
<1>5. x \in 1 .. LenBytes /\ x - 1 \in 0 .. LenBytes /\ ~(x <= x - 1)
  BY <1>1, <1>3, <1>4
<1>6. u[x - 1] < p[x - 1]
  BY <1>2, <1>5
<1>7. PICK s \in Nat, q \in Nat : s = u[x - 1] /\ q = p[x - 1] /\ s < q
  BY <1>5, <1>6 DEF Sums, Powers
<1>8. u[x] = s * Base + b[x] /\ p[x] = q * Base
  BY <1>5, <1>7 DEF Sums, Powers
<1>9. PICK d \in Nat : d = b[x] /\ d < Base
  BY <1>1, <1>5 DEF Bytes
<1>10. s * Base + d < q * Base
  <2>1. s + 1 <= q
    BY <1>7
  <2>5. PICK t \in Nat : t = s + 1
    BY <1>7
  <2>6. t * Base <= q * Base
    BY <1>1, <1>7, <2>1, <2>5, TimesMonotone
  <2>2. (s + 1) * Base <= q * Base
    BY <2>5, <2>6
  <2>3. (s + 1) * Base = s * Base + Base
    BY <1>1, <1>7
  <2>4. s * Base \in Nat /\ q * Base \in Nat
    BY <1>1, <1>7
  <2> QED BY <1>1, <1>9, <2>2, <2>3, <2>4, SMTT(30)
<1> QED BY <1>3, <1>8, <1>9, <1>10

\* A digit in front of a number is its remainder, and what is left the number.
LEMMA LastDigit ==
    ASSUME NEW s \in Nat, NEW d \in Bytes, NEW v, v = s * Base + d
    PROVE  v \in Nat /\ v \div Base = s /\ v % Base = d
<1>1. Base \in Nat \ {0} /\ d \in 0 .. Base - 1 /\ d \in Nat
  BY SizesAssumption DEF Bytes
<1>2. s * Base = Base * s /\ s * Base \in Nat
  BY <1>1
<1>3. v \in Nat /\ v = Base * s + d
  BY <1>1, <1>2
<1> QED BY <1>1, <1>3, DivModUnique

\* PutUint32 is the inverse of Uint32.
LEMMA PutOfUint32 ==
    ASSUME NEW b \in [1 .. LenBytes -> Bytes]
    PROVE  /\ Uint32(b) \in 0 .. Modulus - 1
           /\ PutUint32(Uint32(b)) = b
<1>1. LenBytes \in Nat /\ Base \in Nat \ {0}
  BY SizesAssumption
<1>2. PICK u : Sums(b, u) /\ Uint32(b) = u[LenBytes]
  BY Uint32Sums
<1>3. PICK p : Powers(p)
  BY PowersExist
<1>4. PICK n \in Nat : n = Uint32(b) /\ n = u[LenBytes] /\ n < p[LenBytes]
  <2>1. LenBytes \in 0 .. LenBytes
    BY <1>1
  <2>2. u[LenBytes] \in Nat /\ u[LenBytes] < p[LenBytes]
    BY <1>2, <1>3, <2>1, Uint32Bounded DEF Sums
  <2> QED BY <1>2, <2>2
<1> DEFINE T == {k \in 0 .. LenBytes : n \div p[k] # u[LenBytes - k]}
<1>5. T = {}
  <2> SUFFICES ASSUME T # {} PROVE FALSE
    OBVIOUS
  <2>1. PICK x \in T : \A y \in T : x <= y
    <3>1. T \subseteq Nat
      BY <1>1
    <3> HIDE DEF T
    <3> QED BY <3>1, LeastNumber
  <2>2. x \in 0 .. LenBytes /\ n \div p[x] # u[LenBytes - x]
    OBVIOUS
  <2>3. x # 0
    <3> SUFFICES ASSUME x = 0 PROVE FALSE
      OBVIOUS
    <3>1. p[0] = 1 /\ LenBytes - 0 = LenBytes
      BY <1>1, <1>3 DEF Powers
    <3>2. n \div 1 = n
      BY <1>4
    <3> QED BY <1>4, <2>2, <3>1, <3>2
  <2>4. x - 1 \in 0 .. LenBytes /\ ~(x <= x - 1) /\ x \in 1 .. LenBytes
    BY <1>1, <2>2, <2>3
  <2>5. PICK i \in 1 .. LenBytes : i = LenBytes - (x - 1) /\ i - 1 = LenBytes - x /\ i - 1 \in 0 .. LenBytes
    <3>1. LenBytes - (x - 1) \in 1 .. LenBytes /\ (LenBytes - (x - 1)) - 1 = LenBytes - x /\ LenBytes - x \in 0 .. LenBytes
      BY <1>1, <2>4
    <3> QED BY <3>1
  <2>6. n \div p[x - 1] = u[i]
    BY <2>1, <2>4, <2>5
  <2>7. p[x] = p[x - 1] * Base /\ p[x - 1] \in Nat \ {0}
    BY <1>3, <2>4 DEF Powers
  <2>8. n \div p[x] = u[i] \div Base
    <3>0. PICK d \in Nat \ {0} : d = p[x - 1] /\ p[x] = d * Base
      BY <2>7
    <3>1. PICK m : m = p[x] /\ m = d * Base
      BY <3>0
    <3>2. PICK v, w : v = u[i] /\ DivOf(n, d, v) /\ DivOf(v, Base, w)
      BY <2>6, <3>0 DEF DivOf
    <3>3. DivOf(n, m, w)
      <4>1. n \in Nat /\ d \in Nat \ {0} /\ Base \in Nat \ {0}
        BY <1>1, <1>4, <3>0
      <4> QED BY <3>1, <3>2, <4>1, DivDiv, Zenon
    <3> QED BY <3>1, <3>2, <3>3 DEF DivOf
  <2>9. u[i] = u[i - 1] * Base + b[i] /\ u[i - 1] \in Nat /\ b[i] \in Bytes
    BY <1>2, <2>5 DEF Sums
  <2>10. u[i] \div Base = u[i - 1]
    BY <2>9, LastDigit
  <2> QED BY <2>2, <2>5, <2>8, <2>10
<1>6. ASSUME NEW i \in 1 .. LenBytes PROVE (n \div Base ^ (LenBytes - i)) % Base = b[i]
  <2>1. PICK k : k = LenBytes - i /\ k \in 0 .. LenBytes /\ LenBytes - k = i /\ i - 1 \in 0 .. LenBytes
    <3>1. LenBytes - i \in 0 .. LenBytes /\ LenBytes - (LenBytes - i) = i /\ i - 1 \in 0 .. LenBytes
      BY <1>1
    <3> QED BY <3>1
  <2>2. n \div p[k] = u[LenBytes - k]
    BY <1>5, <2>1
  <2>3. Base ^ k = p[k]
    BY <1>3, <2>1 DEF Powers
  <2>4. u[i] = u[i - 1] * Base + b[i] /\ u[i - 1] \in Nat /\ b[i] \in Bytes
    BY <1>2, <2>1 DEF Sums
  <2>5. u[i] % Base = b[i]
    BY <2>4, LastDigit
  <2> QED BY <2>1, <2>2, <2>3, <2>5
<1>7. PutUint32(n) = b
  BY <1>6 DEF PutUint32
<1>8. n \in 0 .. Modulus - 1
  <2>1. p[LenBytes] = Modulus /\ p[LenBytes] \in Nat
    BY <1>1, <1>3 DEF Powers
  <2>2. n \in Nat /\ n < Modulus /\ Modulus \in Nat
    BY <1>4, <2>1
  <2> QED BY <2>2
<1> QED BY <1>4, <1>7, <1>8

\* Uint32 is the inverse of PutUint32 for the lengths that fit the field.
LEMMA Uint32OfPut ==
    ASSUME NEW n \in Nat, n < Modulus
    PROVE  Uint32(PutUint32(n)) = n
<1>1. LenBytes \in Nat /\ Base \in Nat \ {0}
  BY SizesAssumption
<1>2. PICK b \in [1 .. LenBytes -> Bytes] : b = PutUint32(n)
  BY PutUint32Typed
<1>3. PICK u : Sums(b, u) /\ Uint32(b) = u[LenBytes]
  BY Uint32Sums
<1>4. PICK p : Powers(p)
  BY PowersExist
<1> DEFINE T == {i \in 0 .. LenBytes : u[i] # n \div p[LenBytes - i]}
<1>5. T = {}
  <2> SUFFICES ASSUME T # {} PROVE FALSE
    OBVIOUS
  <2>1. PICK x \in T : \A y \in T : x <= y
    <3>1. T \subseteq Nat
      BY <1>1
    <3> HIDE DEF T
    <3> QED BY <3>1, LeastNumber
  <2>2. x \in 0 .. LenBytes /\ u[x] # n \div p[LenBytes - x]
    OBVIOUS
  <2>3. x # 0
    <3> SUFFICES ASSUME x = 0 PROVE FALSE
      OBVIOUS
    <3>1. p[LenBytes] = Modulus /\ LenBytes - 0 = LenBytes /\ p[LenBytes] \in Nat \ {0}
      BY <1>1, <1>4 DEF Powers
    <3>2. PICK m \in Nat \ {0} : m = Modulus /\ n < m
      BY <3>1
    <3>3. n \in 0 .. m - 1 /\ n = m * 0 + n
      BY <3>2
    <3>4. n \div m = 0
      BY <3>2, <3>3, DivModUnique
    <3>5. u[0] = 0
      BY <1>3 DEF Sums
    <3> QED BY <2>2, <3>1, <3>2, <3>4, <3>5
  <2>4. x - 1 \in 0 .. LenBytes /\ ~(x <= x - 1) /\ x \in 1 .. LenBytes
    BY <1>1, <2>2, <2>3
  <2>5. PICK k : k = LenBytes - x /\ k \in 0 .. LenBytes /\ k + 1 = LenBytes - (x - 1) /\ k + 1 \in 1 .. LenBytes
                 /\ (k + 1) - 1 = k
    <3>1. /\ LenBytes - x \in 0 .. LenBytes /\ (LenBytes - x) + 1 = LenBytes - (x - 1)
          /\ (LenBytes - x) + 1 \in 1 .. LenBytes /\ ((LenBytes - x) + 1) - 1 = LenBytes - x
      BY <1>1, <2>4
    <3> QED BY <3>1
  <2>6. u[x - 1] = n \div p[k + 1]
    BY <2>1, <2>4, <2>5
  <2>7. p[k + 1] = p[k] * Base /\ p[k] \in Nat \ {0} /\ Base ^ k = p[k]
    BY <1>4, <2>5 DEF Powers
  <2>8. PICK y \in Nat : y = n \div p[k]
    BY <2>7, DivMod
  <2>9. u[x - 1] = y \div Base
    <3>0. PICK d \in Nat \ {0} : d = p[k] /\ p[k + 1] = d * Base
      BY <2>7
    <3>1. PICK m : m = p[k + 1] /\ m = d * Base
      BY <3>0
    <3>2. PICK w : DivOf(n, d, y) /\ DivOf(y, Base, w)
      BY <2>8, <3>0 DEF DivOf
    <3>3. DivOf(n, m, w)
      <4>1. n \in Nat /\ d \in Nat \ {0} /\ Base \in Nat \ {0}
        BY <1>1, <3>0
      <4> QED BY <3>1, <3>2, <4>1, DivDiv, Zenon
    <3> QED BY <2>6, <3>1, <3>2, <3>3 DEF DivOf
  <2>10. b[x] = y % Base
    BY <1>2, <2>4, <2>5, <2>7, <2>8 DEF PutUint32
  <2>11. u[x] = u[x - 1] * Base + b[x]
    BY <1>3, <2>4 DEF Sums
  <2>12. PICK q \in Nat, r \in Nat : q = y \div Base /\ r = y % Base /\ y = Base * q + r
    <3>1. y \div Base \in Nat /\ y % Base \in 0 .. Base - 1 /\ y = Base * (y \div Base) + (y % Base)
      BY <1>1, <2>8, DivMod
    <3>2. y % Base \in Nat
      BY <1>1, <3>1
    <3> QED BY <3>1, <3>2
  <2>13. u[x] = q * Base + r
    BY <2>9, <2>10, <2>11, <2>12
  <2>14. q * Base = Base * q
    BY <1>1, <2>12
  <2> QED BY <2>2, <2>5, <2>8, <2>12, <2>13, <2>14
<1>6. u[LenBytes] = n
  <2>1. LenBytes \in 0 .. LenBytes /\ LenBytes - LenBytes = 0
    BY <1>1
  <2>2. u[LenBytes] = n \div p[LenBytes - LenBytes]
    BY <1>5, <2>1
  <2>3. p[LenBytes - LenBytes] = 1
    BY <1>4, <2>1 DEF Powers
  <2>4. n \div 1 = n
    OBVIOUS
  <2> QED BY <2>2, <2>3, <2>4
<1> QED BY <1>2, <1>3, <1>6

-----------------------------------------------------------------------------
(* Decode.                                                                  *)

\* n bytes of a sequence behind the first k.
CutOf(s, k, n, x) == x \in Seq(Bytes) /\ Len(x) = n /\ \A i \in 1 .. n : x[i] = s[k + i]

LEMMA Cut ==
    ASSUME NEW s \in Seq(Bytes), NEW k \in Nat, NEW n \in Nat, k + n <= Len(s),
           NEW lo, NEW hi, lo = k + 1, hi = k + n
    PROVE  CutOf(s, k, n, SubSeq(s, lo, hi))
<1>1. lo \in Int /\ hi \in Int /\ hi - lo + 1 = n /\ (IF lo <= hi THEN hi - lo + 1 ELSE 0) = n
  OBVIOUS
<1>2. Len(s) \in Nat /\ \A i \in 1 .. Len(s) : s[i] \in Bytes
  BY LenProperties, ElementOfSeq
<1>3. \A i \in lo .. hi : s[i] \in Bytes
  <2> TAKE i \in lo .. hi
  <2>1. i \in 1 .. Len(s)
    BY <1>1, <1>2
  <2> QED BY <1>2, <2>1
<1>4. /\ SubSeq(s, lo, hi) \in Seq(Bytes)
      /\ Len(SubSeq(s, lo, hi)) = IF lo <= hi THEN hi - lo + 1 ELSE 0
      /\ \A i \in 1 .. hi - lo + 1 : SubSeq(s, lo, hi)[i] = s[lo + i - 1]
  BY <1>1, <1>3, SubSeqProperties
<1>5. ASSUME NEW i \in 1 .. n PROVE SubSeq(s, lo, hi)[i] = s[k + i]
  <2>1. lo + i - 1 = k + i
    OBVIOUS
  <2> QED BY <1>1, <1>4, <2>1
<1> QED BY <1>1, <1>4, <1>5 DEF CutOf

LEMMA PrefixBytes ==
    ASSUME NEW s \in Seq(Bytes), NEW t \in Seq(Bytes)
    PROVE  IsPrefix(s, t) <=> Len(s) <= Len(t) /\ \A i \in 1 .. Len(s) : s[i] = t[i]
<1>1. PICK l \in Nat, z \in Nat : l = Len(s) /\ z = Len(t)
  OBVIOUS
<1>2. SubSeq(s, 1, l) \in Seq(Bytes) /\ Len(SubSeq(s, 1, l)) = l /\ \A i \in 1 .. l : SubSeq(s, 1, l)[i] = s[i]
  <2>1. 0 + l <= Len(s) /\ 1 = 0 + 1 /\ l = 0 + l
    BY <1>1
  <2>2. /\ SubSeq(s, 1, l) \in Seq(Bytes) /\ Len(SubSeq(s, 1, l)) = l
        /\ \A i \in 1 .. l : SubSeq(s, 1, l)[i] = s[0 + i]
    BY <1>1, <2>1, Cut DEF CutOf
  <2>3. \A i \in 1 .. l : 0 + i = i
    OBVIOUS
  <2> QED BY <2>2, <2>3
<1>3. CASE l <= z
  <2>1. SubSeq(t, 1, l) \in Seq(Bytes) /\ Len(SubSeq(t, 1, l)) = l /\ \A i \in 1 .. l : SubSeq(t, 1, l)[i] = t[i]
    <3>1. 0 + l <= Len(t) /\ 1 = 0 + 1 /\ l = 0 + l
      BY <1>1, <1>3
    <3>2. /\ SubSeq(t, 1, l) \in Seq(Bytes) /\ Len(SubSeq(t, 1, l)) = l
          /\ \A i \in 1 .. l : SubSeq(t, 1, l)[i] = t[0 + i]
      BY <1>1, <3>1, Cut DEF CutOf
    <3>3. \A i \in 1 .. l : 0 + i = i
      OBVIOUS
    <3> QED BY <3>2, <3>3
  <2>2. PICK a \in Seq(Bytes), b \in Seq(Bytes) : a = SubSeq(s, 1, l) /\ b = SubSeq(t, 1, l)
    BY <1>2, <2>1
  <2>3. Len(a) = l /\ Len(b) = l /\ \A i \in 1 .. l : a[i] = s[i] /\ b[i] = t[i]
    BY <1>2, <2>1, <2>2
  <2>4. a = b => \A i \in 1 .. l : s[i] = t[i]
    BY <2>3
  <2>5. (\A i \in 1 .. l : s[i] = t[i]) => a = b
    <3> SUFFICES ASSUME \A i \in 1 .. l : s[i] = t[i] PROVE a = b
      OBVIOUS
    <3>1. \A i \in 1 .. l : a[i] = b[i]
      BY <2>3
    <3> QED BY <2>2, <2>3, <3>1, SeqEqual
  <2> QED BY <1>1, <1>3, <2>2, <2>4, <2>5 DEF IsPrefix
<1>4. CASE ~(l <= z)
  BY <1>1, <1>4 DEF IsPrefix
<1> QED BY <1>3, <1>4

LEMMA HeaderTyped == Header \in Nat /\ KeyLen \in Nat /\ LenBytes \in Nat /\ Header = 1 + KeyLen + LenBytes /\ Header >= 3
BY SizesAssumption DEF Header

LEMMA ModulusTyped == Modulus \in Nat /\ Header < Modulus
<1>1. LenBytes \in 0 .. LenBytes
  BY HeaderTyped
<1>2. Base ^ LenBytes \in Nat
  BY <1>1, PowersAssumption
<1> QED BY <1>2, WidthAssumption DEF Modulus, Header

\* The declared length, once the header is there.
LEMMA LengthField ==
    ASSUME NEW f \in Seq(Bytes), Header <= Len(f)
    PROVE  /\ DataLen(f) \in 0 .. Modulus - 1
           /\ \A i \in 1 .. LenBytes : PutUint32(DataLen(f))[i] = f[1 + KeyLen + i]
<1>1. PICK k \in Nat, n \in Nat : k = 1 + KeyLen /\ n = LenBytes /\ k + n = Header
  BY HeaderTyped
<1>2. k + n <= Len(f) /\ 2 + KeyLen = k + 1 /\ Header = k + n
  BY <1>1, HeaderTyped
<1>3. PICK b : b = SubSeq(f, 2 + KeyLen, Header)
  OBVIOUS
<1>4. b \in Seq(Bytes) /\ Len(b) = n /\ \A i \in 1 .. n : b[i] = f[k + i]
  <2>1. PICK lo, hi : lo = 2 + KeyLen /\ hi = Header /\ lo = k + 1 /\ hi = k + n
    BY <1>2
  <2>2. CutOf(f, k, n, SubSeq(f, lo, hi))
    <3>1. k \in Nat /\ n \in Nat /\ k + n <= Len(f) /\ lo = k + 1 /\ hi = k + n
      BY <1>1, <1>2, <2>1
    <3> QED BY <3>1, Cut
  <2> QED BY <1>3, <2>1, <2>2 DEF CutOf
<1>5. b \in [1 .. LenBytes -> Bytes]
  BY <1>1, <1>4
<1>6. DataLen(f) = Uint32(b)
  BY <1>3 DEF DataLen
<1> QED BY <1>1, <1>4, <1>5, <1>6, PutOfUint32

\* What Decode returns, with the sum that wraps spelt out.
LEMMA DecodeOutcome ==
    ASSUME NEW f \in Seq(Bytes), Header <= Len(f), NEW n \in Nat, n = DataLen(f)
    PROVE  /\ Header + n > Len(f) => Decode(f) = Err
           /\ Header + n <= Len(f) /\ Header + n < Modulus => Decode(f) = Ok(Fields(f, Header + n))
           /\ Header + n <= Len(f) /\ Header + n >= Modulus => Decode(f) = Panic
<1>1. PICK h \in Nat, M \in Nat, z \in Nat : h = Header /\ M = Modulus /\ z = Len(f) /\ h < M /\ h <= z
  <2>1. Header \in Nat /\ Modulus \in Nat /\ Len(f) \in Nat /\ Header < Modulus
    BY HeaderTyped, ModulusTyped, LenProperties
  <2> QED BY <2>1
<1>2. n < M
  <2>1. n \in 0 .. Modulus - 1
    BY LengthField
  <2> QED BY <1>1, <2>1
<1>3. Decode(f) = IF z < h \/ z - h < n THEN Err
                  ELSE IF (h + n) % M < h THEN Panic ELSE Ok(Fields(f, h + n))
  BY <1>1 DEF Decode
<1>4. h + n > z => Decode(f) = Err
  BY <1>1, <1>3
<1>5. h + n < M => (h + n) % M = h + n
  <2> SUFFICES ASSUME h + n < M PROVE (h + n) % M = h + n
    OBVIOUS
  <2>1. M \in Nat \ {0} /\ h + n \in 0 .. M - 1 /\ h + n \in Nat /\ 0 \in Nat /\ h + n = M * 0 + (h + n)
    BY <1>1
  <2> QED BY <2>1, DivModUnique
<1>6. h + n >= M => (h + n) % M = h + n - M
  <2> SUFFICES ASSUME h + n >= M PROVE (h + n) % M = h + n - M
    OBVIOUS
  <2>1. PICK r \in Nat, y \in Nat : y = h + n /\ r = y - M /\ r < M
    BY <1>1, <1>2
  <2>2. y = M + r
    BY <1>1, <2>1
  <2>3. y % M = r
    BY <1>1, <2>1, <2>2, ModOnce DEF ModOf
  <2> QED BY <2>1, <2>3
<1>7. h + n <= z /\ h + n < M => Decode(f) = Ok(Fields(f, h + n))
  <2> SUFFICES ASSUME h + n <= z, h + n < M PROVE Decode(f) = Ok(Fields(f, h + n))
    OBVIOUS
  <2>1. ~(z < h \/ z - h < n) /\ ~(h + n < h)
    BY <1>1
  <2> QED BY <1>3, <1>5, <2>1
<1>8. h + n <= z /\ h + n >= M => Decode(f) = Panic
  <2> SUFFICES ASSUME h + n <= z, h + n >= M PROVE Decode(f) = Panic
    OBVIOUS
  <2>1. ~(z < h \/ z - h < n) /\ h + n - M < h
    BY <1>1, <1>2
  <2> QED BY <1>3, <1>6, <2>1
<1> QED BY <1>1, <1>4, <1>7, <1>8

\* A message with n bytes of data is, byte by byte, what f says.
Mirrors(m, f, n) ==
    /\ m \in Message /\ m.handler = f[1] /\ Len(m.data) = n
    /\ \A i \in 1 .. KeyLen : m.key[i] = f[1 + i]
    /\ \A i \in 1 .. n : m.data[i] = f[Header + i]

LEMMA FieldBytes ==
    ASSUME NEW f \in Seq(Bytes), NEW n \in Nat, Header + n <= Len(f)
    PROVE  Mirrors(Fields(f, Header + n), f, n)
<1>1. PICK k \in Nat, h \in Nat, z \in Nat : k = KeyLen /\ h = Header /\ z = Len(f) /\ 1 + k <= h /\ h + n <= z
  <2>1. KeyLen \in Nat /\ Header \in Nat /\ 1 + KeyLen <= Header /\ Len(f) \in Nat
    BY HeaderTyped, LenProperties
  <2> QED BY <2>1
<1>2. f[1] \in Bytes
  <2>1. 1 \in 1 .. Len(f)
    BY <1>1
  <2> QED BY <2>1, ElementOfSeq
<1>3. CutOf(f, 1, k, SubSeq(f, 2, 1 + KeyLen))
  <2>1. 1 + k <= Len(f) /\ 2 = 1 + 1 /\ 1 + KeyLen = 1 + k /\ 1 \in Nat
    BY <1>1
  <2>2. PICK lo, hi : lo = 2 /\ hi = 1 + KeyLen /\ lo = 1 + 1 /\ hi = 1 + k
    BY <2>1
  <2>3. CutOf(f, 1, k, SubSeq(f, lo, hi))
    BY <1>1, <2>1, <2>2, Cut
  <2> QED BY <2>2, <2>3
<1>4. CutOf(f, h, n, SubSeq(f, Header + 1, Header + n))
  <2>1. PICK lo, hi : lo = Header + 1 /\ hi = Header + n /\ lo = h + 1 /\ hi = h + n
    BY <1>1
  <2>2. h + n <= Len(f)
    BY <1>1
  <2>3. CutOf(f, h, n, SubSeq(f, lo, hi))
    BY <1>1, <2>1, <2>2, Cut
  <2> QED BY <2>1, <2>3
<1>5. PICK m : /\ m = Fields(f, Header + n)
               /\ m = [handler |-> f[1], key |-> SubSeq(f, 2, 1 + KeyLen), data |-> SubSeq(f, Header + 1, Header + n)]
  BY DEF Fields
<1>6. PICK q, d : q = SubSeq(f, 2, 1 + KeyLen) /\ d = SubSeq(f, Header + 1, Header + n)
  OBVIOUS
<1>7. q \in Seq(Bytes) /\ Len(q) = KeyLen /\ \A i \in 1 .. KeyLen : q[i] = f[1 + i]
  BY <1>1, <1>3, <1>6 DEF CutOf
<1>8. d \in Seq(Bytes) /\ Len(d) = n /\ \A i \in 1 .. n : d[i] = f[Header + i]
  BY <1>1, <1>4, <1>6 DEF CutOf
<1>9. q \in [1 .. KeyLen -> Bytes]
  BY <1>7
<1>10. m.handler = f[1] /\ m.key = q /\ m.data = d
  BY <1>5, <1>6
<1>11. m \in Message
  <2>1. m = [handler |-> f[1], key |-> q, data |-> d]
    BY <1>5, <1>6
  <2>2. f[1] \in Bytes /\ q \in [1 .. KeyLen -> Bytes] /\ d \in Seq(Bytes)
    BY <1>2, <1>8, <1>9
  <2> QED BY <2>1, <2>2 DEF Message
<1>12. Mirrors(m, f, n)
  BY <1>7, <1>8, <1>10, <1>11 DEF Mirrors
<1> QED BY <1>5, <1>12

\* A position in a frame is one of the handler, the key, the length or the data.
LEMMA Positions ==
    ASSUME NEW n \in Nat, NEW i \in 1 .. Header + n
    PROVE  \/ i = 1
           \/ \E j \in 1 .. KeyLen : i = 1 + j
           \/ \E j \in 1 .. LenBytes : i = 1 + KeyLen + j
           \/ \E j \in 1 .. n : i = Header + j
<1>1. KeyLen \in Nat /\ LenBytes \in Nat /\ Header = 1 + KeyLen + LenBytes /\ Header \in Nat /\ i \in Int
  BY HeaderTyped
<1>2. CASE i \in 2 .. 1 + KeyLen
  <2>1. i - 1 \in 1 .. KeyLen /\ i = 1 + (i - 1)
    BY <1>1, <1>2
  <2> QED BY <2>1
<1>3. CASE i \in 2 + KeyLen .. Header
  <2>1. i - (1 + KeyLen) \in 1 .. LenBytes /\ i = 1 + KeyLen + (i - (1 + KeyLen))
    BY <1>1, <1>3
  <2> QED BY <2>1
<1>4. CASE i \in Header + 1 .. Header + n
  <2>1. i - Header \in 1 .. n /\ i = Header + (i - Header)
    BY <1>1, <1>4
  <2> QED BY <2>1
<1> QED BY <1>1, <1>2, <1>3, <1>4

\* What is decoded encodes to what it was decoded from.
LEMMA EncodeOfFields ==
    ASSUME NEW f \in Seq(Bytes), Header <= Len(f), NEW n \in Nat, n = DataLen(f),
           Header + n <= Len(f), NEW m, m = Fields(f, Header + n)
    PROVE  IsPrefix(Encode(m), f)
<1>1. /\ m \in Message /\ m.handler = f[1] /\ Len(m.data) = n
      /\ \A i \in 1 .. KeyLen : m.key[i] = f[1 + i]
      /\ \A i \in 1 .. n : m.data[i] = f[Header + i]
  BY FieldBytes DEF Mirrors
<1>2. PICK e \in Seq(Bytes) : e = Encode(m)
  BY <1>1, EncodeBytes
<1>3. Len(e) = Header + n
  BY <1>1, <1>2, EncodeBytes DEF MsgLen
<1>4. e[1] = f[1] /\ \A j \in 1 .. KeyLen : e[1 + j] = f[1 + j]
  BY <1>1, <1>2, EncodeBytes
<1>5. \A j \in 1 .. LenBytes : e[1 + KeyLen + j] = f[1 + KeyLen + j]
  <2>1. \A j \in 1 .. LenBytes : e[1 + KeyLen + j] = PutUint32(n)[j]
    BY <1>1, <1>2, EncodeBytes
  <2>2. \A j \in 1 .. LenBytes : PutUint32(n)[j] = f[1 + KeyLen + j]
    BY LengthField
  <2> QED BY <2>1, <2>2
<1>6. \A j \in 1 .. n : e[Header + j] = f[Header + j]
  BY <1>1, <1>2, EncodeBytes
<1>7. ASSUME NEW i \in 1 .. Header + n PROVE e[i] = f[i]
  BY <1>4, <1>5, <1>6, Positions
<1>8. Len(e) <= Len(f) /\ \A i \in 1 .. Len(e) : e[i] = f[i]
  BY <1>3, <1>7
<1> QED BY <1>2, <1>8, PrefixBytes

\* Decode of bytes that begin with the encoding of a message, all of it or not.
LEMMA DecodeOfEncode ==
    ASSUME NEW m \in Message, MsgLen(m) < Modulus, NEW w \in Seq(Bytes),
           \A i \in 1 .. MsgLen(m) : i <= Len(w) => w[i] = Encode(m)[i]
    PROVE  Decode(w) = IF Len(w) < MsgLen(m) THEN Err ELSE Ok(m)
<1>1. PICK n \in Nat, l \in Nat, z \in Nat, h \in Nat :
        n = Len(m.data) /\ l = MsgLen(m) /\ z = Len(w) /\ h = Header /\ l = h + n
  <2>1. Len(m.data) \in Nat /\ Len(w) \in Nat /\ Header \in Nat
    BY HeaderTyped, LenProperties DEF Message
  <2>2. MsgLen(m) = Header + Len(m.data)
    BY DEF MsgLen
  <2> QED BY <2>1, <2>2
<1>2. PICK e : e = Encode(m) /\ \A i \in 1 .. l : i <= z => w[i] = e[i]
  BY <1>1
<1>3. CASE z < h
  <2>1. Decode(w) = Err
    BY <1>1, <1>3 DEF Decode
  <2>2. z < l
    BY <1>1, <1>3
  <2> QED BY <1>1, <2>1, <2>2
<1>4. CASE ~(z < h)
  <2>1. Header <= Len(w) /\ h <= z
    BY <1>1, <1>4
  <2>2. PICK b \in [1 .. LenBytes -> Bytes] : b = PutUint32(n)
    BY <1>1, PutUint32Typed
  <2>3. SubSeq(w, 2 + KeyLen, Header) = b
    <3>1. PICK k \in Nat, y \in Nat : k = 1 + KeyLen /\ y = LenBytes /\ k + y = h /\ k + y <= Len(w)
      BY <1>1, <2>1, HeaderTyped
    <3>2. PICK lo, hi : lo = 2 + KeyLen /\ hi = Header /\ lo = k + 1 /\ hi = k + y
      BY <1>1, <3>1, HeaderTyped
    <3>3. CutOf(w, k, y, SubSeq(w, lo, hi))
      BY <3>1, <3>2, Cut
    <3>4. PICK s \in Seq(Bytes) : s = SubSeq(w, lo, hi) /\ Len(s) = y /\ \A i \in 1 .. y : s[i] = w[k + i]
      BY <3>3 DEF CutOf
    <3>5. b \in Seq(Bytes) /\ Len(b) = y
      BY <2>2, <3>1
    <3>6. ASSUME NEW i \in 1 .. y PROVE s[i] = b[i]
      <4>1. k + i \in 1 .. l /\ k + i <= z
        BY <1>1, <2>1, <3>1
      <4>2. w[k + i] = e[k + i]
        BY <1>2, <4>1
      <4>3. e[1 + KeyLen + i] = b[i]
        BY <1>1, <1>2, <2>2, <3>1, EncodeBytes
      <4> QED BY <3>1, <3>4, <4>2, <4>3
    <3>7. s = b
      BY <3>4, <3>5, <3>6, SeqEqual
    <3> QED BY <3>2, <3>4, <3>7
  <2>4. DataLen(w) = n
    <3>1. n < Modulus
      <4>1. l < Modulus /\ Modulus \in Nat
        BY <1>1, ModulusTyped
      <4> QED BY <1>1, <4>1
    <3> QED BY <1>1, <2>2, <2>3, <3>1, Uint32OfPut DEF DataLen
  <2>5. CASE z < l
    <3>1. Header + n > Len(w)
      BY <1>1, <2>5
    <3>2. Decode(w) = Err
      BY <1>1, <2>1, <2>4, <3>1, DecodeOutcome
    <3> QED BY <1>1, <2>5, <3>2
  <2>6. CASE ~(z < l)
    <3>1. Header + n <= Len(w) /\ Header + n < Modulus
      BY <1>1, <2>6
    <3>2. Decode(w) = Ok(Fields(w, Header + n))
      BY <1>1, <2>1, <2>4, <3>1, DecodeOutcome
    <3>3. PICK v : v = Fields(w, Header + n)
      OBVIOUS
    <3>4. /\ v \in Message /\ v.handler = w[1] /\ Len(v.data) = n
          /\ \A i \in 1 .. KeyLen : v.key[i] = w[1 + i]
          /\ \A i \in 1 .. n : v.data[i] = w[Header + i]
      <4>1. Mirrors(Fields(w, Header + n), w, n)
        BY <3>1, FieldBytes
      <4> QED BY <3>3, <4>1 DEF Mirrors
    <3>5. \A i \in 1 .. l : w[i] = e[i]
      BY <1>1, <1>2, <2>6
    <3>0. KeyLen \in Nat /\ 1 + KeyLen <= l /\ 1 <= l
      <4>1. KeyLen \in Nat /\ 1 + KeyLen <= h /\ 3 <= h
        BY <1>1, HeaderTyped
      <4> QED BY <1>1, <4>1
    <3>6. v.handler = m.handler
      <4>1. 1 \in 1 .. l
        BY <1>1, <3>0
      <4> QED BY <1>2, <3>4, <3>5, <4>1, EncodeBytes
    <3>7. ASSUME NEW i \in 1 .. KeyLen PROVE v.key[i] = m.key[i]
      <4>1. 1 + i \in 1 .. l
        BY <1>1, <3>0
      <4>2. w[1 + i] = e[1 + i]
        BY <3>5, <4>1
      <4>3. e[1 + i] = m.key[i]
        BY <1>2, EncodeBytes
      <4> QED BY <3>4, <4>2, <4>3
    <3>8. ASSUME NEW i \in 1 .. n PROVE v.data[i] = m.data[i]
      <4>1. Header + i \in 1 .. l
        BY <1>1, HeaderTyped
      <4>2. w[Header + i] = e[Header + i]
        BY <3>5, <4>1
      <4>3. e[Header + i] = m.data[i]
        BY <1>1, <1>2, EncodeBytes
      <4> QED BY <3>4, <4>2, <4>3
    <3>9. v.key = m.key
      <4>1. v.key \in [1 .. KeyLen -> Bytes] /\ m.key \in [1 .. KeyLen -> Bytes]
        BY <3>4 DEF Message
      <4>2. PICK s \in [1 .. KeyLen -> Bytes], t \in [1 .. KeyLen -> Bytes] : s = v.key /\ t = m.key
        BY <4>1
      <4>3. \A i \in 1 .. KeyLen : s[i] = t[i]
        BY <3>7, <4>2
      <4>4. s \in Seq(Bytes) /\ t \in Seq(Bytes) /\ Len(s) = KeyLen /\ Len(t) = KeyLen
        BY <3>0, BytesAsSeq
      <4>5. s = t
        BY <4>3, <4>4, SeqEqual
      <4> QED BY <4>2, <4>5
    <3>10. v.data = m.data
      <4>1. PICK s \in Seq(Bytes), t \in Seq(Bytes) : s = v.data /\ t = m.data
        BY <3>4 DEF Message
      <4>2. Len(s) = n /\ Len(t) = n /\ \A i \in 1 .. n : s[i] = t[i]
        BY <1>1, <3>4, <3>8, <4>1
      <4> QED BY <4>1, <4>2, SeqEqual
    <3>11. v = m
      BY <3>4, <3>6, <3>9, <3>10 DEF Message
    <3> QED BY <1>1, <2>6, <3>2, <3>3, <3>11
  <2> QED BY <2>5, <2>6
<1> QED BY <1>3, <1>4

-----------------------------------------------------------------------------
(* The pooled buffer.                                                       *)

LEMMA PoolMessagesTyped ==
    ASSUME NEW m \in PoolMessages
    PROVE  m \in Message
BY MessagesAssumption, HandlersAssumption DEF PoolMessages, Message, Bytes

LEMMA PoolStep ==
    ASSUME FrameIgnoresBuffer, [PoolNext]_poolVars
    PROVE  FrameIgnoresBuffer'
<1>1. /\ pooled \in [1 .. PoolSize -> Bytes] /\ message \in PoolMessages
      /\ frame \in Seq(Bytes) /\ arrived \in Seq(Bytes) /\ PoolSize \in Nat
      /\ frame # <<>> => frame = Encode(message)
  BY PoolAssumption DEF FrameIgnoresBuffer, PoolTypeOK
<1>2. ASSUME NEW m \in PoolMessages, SendPooled(m) PROVE FrameIgnoresBuffer'
  <2>1. m \in Message
    BY PoolMessagesTyped
  <2>2. PICK r : r = EncodeWithBuffer(m, pooled)
    OBVIOUS
  <2>3. pooled' = r.buf /\ frame' = r.frame /\ arrived' = r.frame /\ message' = m
    BY <1>2, <2>2 DEF SendPooled
  <2>4. /\ r.ok <=> MsgLen(m) <= PoolSize
        /\ r.buf \in [1 .. PoolSize -> Bytes]
        /\ r.ok => r.frame = Encode(m)
    BY <1>1, <2>1, <2>2, EncodeInPlace
  <2>5. CASE MsgLen(m) <= PoolSize
    <3>1. frame' = Encode(m) /\ arrived' = Encode(m)
      BY <2>3, <2>4, <2>5
    <3>2. Encode(m) \in Seq(Bytes)
      BY <2>1, EncodeBytes
    <3> QED BY <2>3, <2>4, <3>1, <3>2 DEF FrameIgnoresBuffer, PoolTypeOK, PoolMessages
  <2>6. CASE ~(MsgLen(m) <= PoolSize)
    <3>1. Len(pooled) = PoolSize /\ MsgLen(m) \in Nat
      BY <1>1, <2>1, EncodeBytes
    <3>2. r.frame = <<>>
      BY <1>1, <2>2, <2>6, <3>1 DEF EncodeWithBuffer
    <3> QED BY <2>3, <2>4, <3>2 DEF FrameIgnoresBuffer, PoolTypeOK, PoolMessages
  <2> QED BY <2>5, <2>6
<1>3. ASSUME NEW m \in PoolMessages, SendFresh(m) PROVE FrameIgnoresBuffer'
  <2>1. Encode(m) \in Seq(Bytes)
    BY PoolMessagesTyped, EncodeBytes
  <2> QED BY <1>1, <1>3, <2>1 DEF SendFresh, FrameIgnoresBuffer, PoolTypeOK, PoolMessages
<1>4. ASSUME arrived' \in Seq(Bytes), UNCHANGED <<pooled, message, frame>> PROVE FrameIgnoresBuffer'
  BY <1>1, <1>4 DEF FrameIgnoresBuffer, PoolTypeOK, PoolMessages
<1>5. ASSUME NEW n \in 0 .. Len(frame) - 1, Truncate(n) PROVE FrameIgnoresBuffer'
  <2>1. PICK z \in Nat : z = Len(frame) /\ n \in Nat /\ n <= z /\ \A i \in 1 .. z : frame[i] \in Bytes
    BY <1>1, <1>5, ElementOfSeq, LenProperties
  <2>2. \A i \in 1 .. n : frame[i] \in Bytes
    BY <2>1
  <2>3. SubSeq(frame, 1, n) \in Seq(Bytes)
    BY <2>1, <2>2, SubSeqProperties
  <2> QED BY <1>4, <1>5, <2>3 DEF Truncate
<1>6. ASSUME NEW b \in Bytes, Trail(b) PROVE FrameIgnoresBuffer'
  <2>1. Append(arrived, b) \in Seq(Bytes)
    BY <1>1, AppendProperties
  <2> QED BY <1>4, <1>6, <2>1 DEF Trail
<1>7. ASSUME NEW i \in DOMAIN frame, NEW b \in Bytes, Corrupt(i, b) PROVE FrameIgnoresBuffer'
  <2>1. [frame EXCEPT ![i] = b] \in Seq(Bytes)
    BY <1>1, ExceptSeq
  <2> QED BY <1>4, <1>7, <2>1 DEF Corrupt
<1>8. CASE UNCHANGED poolVars
  BY <1>1, <1>4, <1>8 DEF poolVars
<1> QED BY <1>2, <1>3, <1>5, <1>6, <1>7, <1>8 DEF PoolNext

LEMMA PoolInitTyped ==
    ASSUME PoolInit
    PROVE  FrameIgnoresBuffer
<1>1. 0 \in Bytes
  BY SizesAssumption DEF Bytes
<1>2. pooled \in [1 .. PoolSize -> Bytes]
  BY <1>1 DEF PoolInit
<1> QED BY <1>2 DEF PoolInit, FrameIgnoresBuffer, PoolTypeOK

LEMMA DecodeIsExact ==
    ASSUME FrameIgnoresBuffer
    PROVE  DecodeExact
<1>1. /\ message \in Message /\ frame \in Seq(Bytes) /\ arrived \in Seq(Bytes)
      /\ frame # <<>> => frame = Encode(message)
  BY PoolMessagesTyped DEF FrameIgnoresBuffer, PoolTypeOK
<1>2. PICK w \in Seq(Bytes) : w = arrived
  BY <1>1
<1>3. PICK z \in Nat, h \in Nat, M \in Nat : z = Len(w) /\ h = Header /\ M = Modulus
  BY <1>2, HeaderTyped, ModulusTyped, LenProperties
<1>4. Err.ok = FALSE /\ Err.panic = FALSE /\ Panic.ok = FALSE /\ \A m : Ok(m).panic = FALSE /\ Ok(m).msg = m
  BY DEF Err, Panic, Ok
<1>5. /\ Decode(w).ok => IsPrefix(Encode(Decode(w).msg), w)
      /\ z <= MaxRead => ~Decode(w).panic
  <2>1. CASE z < h
    <3>1. Decode(w) = Err
      BY <1>3, <2>1 DEF Decode
    <3> QED BY <1>4, <3>1
  <2>2. CASE ~(z < h)
    <3>1. Header <= Len(w)
      BY <1>3, <2>2
    <3>2. PICK n \in Nat : n = DataLen(w)
      BY <1>2, <1>3, <3>1, LengthField
    <3>3. CASE Header + n > Len(w)
      <4>1. Decode(w) = Err
        BY <3>1, <3>2, <3>3, DecodeOutcome
      <4> QED BY <1>4, <4>1
    <3>4. CASE Header + n <= Len(w) /\ Header + n < Modulus
      <4>1. Decode(w) = Ok(Fields(w, Header + n))
        BY <3>1, <3>2, <3>4, DecodeOutcome
      <4>2. IsPrefix(Encode(Fields(w, Header + n)), w)
        BY <3>1, <3>2, <3>4, EncodeOfFields
      <4> QED BY <1>4, <4>1, <4>2
    <3>5. CASE Header + n <= Len(w) /\ Header + n >= Modulus
      <4>1. Decode(w) = Panic
        BY <3>1, <3>2, <3>5, DecodeOutcome
      <4>2. ~(z <= MaxRead)
        BY <1>3, <3>2, <3>5, ReadAssumption
      <4> QED BY <1>4, <4>1, <4>2
    <3> QED BY <1>3, <3>2, <3>3, <3>4, <3>5
  <2> QED BY <2>1, <2>2
<1>6. DecodeSound
  BY <1>2, <1>3, <1>5 DEF DecodeSound
<1>7. RoundTrip
  <2> SUFFICES ASSUME frame # <<>>, MsgLen(message) < Modulus, IsPrefix(w, frame) \/ IsPrefix(frame, w)
               PROVE  Decode(w) = IF Len(w) < Len(frame) THEN Err ELSE Ok(message)
    BY <1>2 DEF RoundTrip
  <2>1. frame = Encode(message) /\ Len(frame) = MsgLen(message)
    BY <1>1, EncodeBytes
  <2>2. PICK l \in Nat : l = Len(frame) /\ l = MsgLen(message)
    BY <1>1, <2>1, LenProperties
  <2>3. \A i \in 1 .. l : i <= z => w[i] = frame[i]
    <3>1. CASE IsPrefix(w, frame)
      BY <1>1, <1>3, <2>2, <3>1, PrefixBytes
    <3>2. CASE IsPrefix(frame, w)
      BY <1>1, <1>3, <2>2, <3>2, PrefixBytes
    <3> QED BY <3>1, <3>2
  <2>4. Decode(w) = IF Len(w) < MsgLen(message) THEN Err ELSE Ok(message)
    BY <1>1, <1>3, <2>1, <2>2, <2>3, DecodeOfEncode
  <2> QED BY <2>1, <2>4
<1> QED BY <1>6, <1>7 DEF DecodeExact

\* Whatever messages went through the pooled buffer before, EncodeWithBuffer
\* makes of it the frame that Encode makes.
THEOREM PoolIsClean == PoolSpec => []FrameIgnoresBuffer
<1>1. PoolInit => FrameIgnoresBuffer
  BY PoolInitTyped
<1>2. FrameIgnoresBuffer /\ [PoolNext]_poolVars => FrameIgnoresBuffer'
  BY PoolStep
<1> QED BY <1>1, <1>2, PTL DEF PoolSpec

\* For every width of key and length field: Decode returns the message a frame
\* was made from as soon as all of it has arrived, nothing before that, never a
\* message that the bytes are not the encoding of, and its uint32 sum does not
\* wrap on anything a receiver can read.
THEOREM CodecExact == PoolSpec => []DecodeExact
<1>1. PoolInit => FrameIgnoresBuffer
  BY PoolInitTyped
<1>2. FrameIgnoresBuffer /\ [PoolNext]_poolVars => FrameIgnoresBuffer'
  BY PoolStep
<1>3. FrameIgnoresBuffer => DecodeExact
  BY DecodeIsExact
<1> QED BY <1>1, <1>2, <1>3, PTL DEF PoolSpec
====
