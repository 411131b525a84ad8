---- MODULE TransportWritersProofs ----
(***************************************************************************)
(* Proofs about TransportWriters: two batch writers over one database, for *)
(* every set of keys and callers, number of workers, batch size, channel   *)
(* capacity and number of writes.                                          *)
(*                                                                         *)
(* The two writers run the same code, so the invariant is written once, as *)
(* predicates of what one writer keeps (ch its channels, mp its maps, pc   *)
(* its workers, st the staged keys, top the newest write of each key it    *)
(* acknowledged, dn the last it committed and ls the last a failed flush    *)
(* threw away) and of the same things (cy, my, py, sy, ty, dy, ly) of the  *)
(* other one; acc and sto are the acknowledged writes and the database     *)
(* they share.                                                             *)
(***************************************************************************)
EXTENDS TransportWriters, TLAPS

Ws == 0 .. NumWorkers - 1
Owner(k) == FirstByte[k] % NumWorkers
Req == [key : Keys, value : Nat]
Points == {"select", "flush", "txn", "done"}

LEMMA SameWorkers ==
    /\ Q!Workers = Ws /\ T!Workers = Ws
    /\ \A k \in Keys : Q!WorkerOf(k) = Owner(k) /\ T!WorkerOf(k) = Owner(k) /\ Owner(k) \in Ws
BY SharedKeysAssumption, SharedWorkersAssumption DEF Q!Workers, T!Workers, Ws, Q!WorkerOf, T!WorkerOf, Owner

WriterTyped(ch, mp, pc, st, top, dn) ==
    /\ ch \in [Ws -> Seq(Req)] /\ mp \in [Ws -> [Keys -> Nat]]
    /\ pc \in [Ws -> Points] /\ st \subseteq Keys
    /\ top \in [Keys -> Nat] /\ dn \in [Keys -> Nat]

\* The order in one writer: the requests of a key wait, oldest first, with the
\* worker that owns it, newer than the value in its map, which is newer than
\* the one it committed last; none is newer than what was acknowledged.
QueueOrder(ch) ==
    \A w \in Ws : \A i, j \in DOMAIN ch[w] :
        i < j /\ ch[w][i].key = ch[w][j].key => ch[w][i].value < ch[w][j].value

QueueAbove(ch, mp, top, dn) ==
    \A w \in Ws : \A i \in DOMAIN ch[w] :
        /\ Owner(ch[w][i].key) = w
        /\ dn[ch[w][i].key] < ch[w][i].value
        /\ mp[w][ch[w][i].key] < ch[w][i].value
        /\ ch[w][i].value <= top[ch[w][i].key]

MapAbove(mp, top, dn) ==
    \A w \in Ws, k \in Keys : mp[w][k] # 0 => Owner(k) = w /\ dn[k] < mp[w][k] /\ mp[w][k] <= top[k]

\* At most one worker is in a transaction, and it stages keys of its map.
Staging(mp, pc, st) ==
    \A w \in Ws : pc[w] = "txn" =>
        (\A k \in st : mp[w][k] # 0) /\ (\A v \in Ws : pc[v] = "txn" => v = w)

\* The newest acknowledged write of a key waits, is committed or was thrown
\* away by a failed flush.
Accounted(ch, mp, top, dn, ls) ==
    \A k \in Keys :
        \/ top[k] \in {dn[k], ls[k]}
        \/ \E w \in Ws : mp[w][k] = top[k]
        \/ \E w \in Ws : \E i \in DOMAIN ch[w] : ch[w][i].key = k /\ ch[w][i].value = top[k]

\* Only acknowledged writes were thrown away.
LostBelow(top, ls) == ls \in [Keys -> Nat] /\ \A k \in Keys : ls[k] <= top[k]

Writer(ch, mp, pc, st, top, dn, ls, acc) ==
    /\ WriterTyped(ch, mp, pc, st, top, dn)
    /\ QueueOrder(ch) /\ QueueAbove(ch, mp, top, dn) /\ MapAbove(mp, top, dn)
    /\ Staging(mp, pc, st) /\ Accounted(ch, mp, top, dn, ls)
    /\ LostBelow(top, ls)
    /\ acc \in [Keys -> Nat] /\ \A k \in Keys : dn[k] <= top[k] /\ top[k] <= acc[k]

\* The writer holds the n-th write of k: it committed it last, or it waits.
Has(ch, mp, dn, k, n) ==
    \/ dn[k] = n
    \/ \E w \in Ws : mp[w][k] = n
    \/ \E w \in Ws : \E i \in DOMAIN ch[w] : ch[w][i].key = k /\ ch[w][i].value = n

\* No write of a key is with both writers: numbers are given once.
Apart(ch, mp, dn, cy, my, dy) ==
    \A k \in Keys, n \in Nat \ {0} : ~(Has(ch, mp, dn, k, n) /\ Has(cy, my, dy, k, n))

\* Both writers, and the database they share.
Both(ch, mp, pc, st, top, dn, ls, cy, my, py, sy, ty, dy, ly, acc, sto) ==
    /\ Writer(ch, mp, pc, st, top, dn, ls, acc) /\ Writer(cy, my, py, sy, ty, dy, ly, acc)
    /\ Apart(ch, mp, dn, cy, my, dy)
    /\ sto \in [Keys -> Nat] /\ \A k \in Keys : sto[k] \in {dn[k], dy[k]}

LEMMA BothSwapped ==
    ASSUME NEW ch, NEW mp, NEW pc, NEW st, NEW top, NEW dn, NEW ls,
           NEW cy, NEW my, NEW py, NEW sy, NEW ty, NEW dy, NEW ly, NEW acc, NEW sto,
           Both(ch, mp, pc, st, top, dn, ls, cy, my, py, sy, ty, dy, ly, acc, sto)
    PROVE  Both(cy, my, py, sy, ty, dy, ly, ch, mp, pc, st, top, dn, ls, acc, sto)
<1>1. Apart(cy, my, dy, ch, mp, dn)
  BY Zenon DEF Both, Apart
<1>2. \A k \in Keys : sto[k] \in {dy[k], dn[k]}
  BY DEF Both
<1> QED BY <1>1, <1>2, Zenon DEF Both

-----------------------------------------------------------------------------
(* What a channel keeps.                                                    *)

LEMMA ChannelTyped ==
    ASSUME NEW ch \in [Ws -> Seq(Req)], NEW w \in Ws
    PROVE  /\ ch[w] \in Seq(Req) /\ DOMAIN ch[w] = 1 .. Len(ch[w]) /\ Len(ch[w]) \in Nat
           /\ \A i \in DOMAIN ch[w] :
                ch[w][i] \in Req /\ ch[w][i].key \in Keys /\ ch[w][i].value \in Nat
<1>1. ch[w] \in Seq(Req)
  OBVIOUS
<1>2. DOMAIN ch[w] = 1 .. Len(ch[w]) /\ Len(ch[w]) \in Nat
  BY <1>1
<1>3. ASSUME NEW i \in 1 .. Len(ch[w]) PROVE ch[w][i] \in Req
  BY <1>1
<1> QED BY <1>1, <1>2, <1>3 DEF Req

\* A request r enters channel w.
Entered(ch, cx, w, r) == cx = [ch EXCEPT ![w] = Append(@, r)]

\* Channel w has one more request, r, behind the l there were.
OneMore(ch, cx, w, r, l) ==
    /\ cx \in [Ws -> Seq(Req)]
    /\ \A v \in Ws : v # w => cx[v] = ch[v]
    /\ DOMAIN ch[w] = 1 .. l /\ DOMAIN cx[w] = 1 .. l + 1
    /\ \A i \in 1 .. l : cx[w][i] = ch[w][i]
    /\ cx[w][l + 1] = r

LEMMA EnteredFacts ==
    ASSUME NEW ch \in [Ws -> Seq(Req)], NEW w \in Ws, NEW r \in Req, NEW cx, Entered(ch, cx, w, r)
    PROVE  \E l \in Nat : OneMore(ch, cx, w, r, l)
<1>1. PICK s \in Seq(Req) : s = ch[w]
  OBVIOUS
<1>0. Append(s, r) \in Seq(Req)
  OBVIOUS
<1>2. PICK x \in Seq(Req) : x = Append(s, r)
  BY <1>0, Zenon
<1>3. DOMAIN s = 1 .. Len(s) /\ Len(s) \in Nat /\ DOMAIN x = 1 .. Len(s) + 1
      /\ (\A i \in 1 .. Len(s) : x[i] = s[i]) /\ x[Len(s) + 1] = r
  BY <1>2
<1>4. cx \in [Ws -> Seq(Req)] /\ cx[w] = x /\ \A v \in Ws : v # w => cx[v] = ch[v]
  BY <1>1, <1>2, Zenon DEF Entered
<1>5. OneMore(ch, cx, w, r, Len(s))
  BY <1>1, <1>3, <1>4 DEF OneMore
<1> QED BY <1>3, <1>5

\* The first request of channel w is taken.
Taken(ch, cx, w) == cx = [ch EXCEPT ![w] = Tail(@)]

\* Channel w has one request less than the l there were.
OneLess(ch, cx, w, l) ==
    /\ cx \in [Ws -> Seq(Req)]
    /\ \A v \in Ws : v # w => cx[v] = ch[v]
    /\ l >= 1 /\ DOMAIN ch[w] = 1 .. l /\ DOMAIN cx[w] = 1 .. l - 1
    /\ \A i \in 1 .. l - 1 : cx[w][i] = ch[w][i + 1]
    /\ Head(ch[w]) = ch[w][1] /\ Head(ch[w]) \in Req

LEMMA TakenFacts ==
    ASSUME NEW ch \in [Ws -> Seq(Req)], NEW w \in Ws, ch[w] # <<>>, NEW cx, Taken(ch, cx, w)
    PROVE  \E l \in Nat : OneLess(ch, cx, w, l)
<1>1. PICK s \in Seq(Req) : s = ch[w] /\ s # <<>>
  OBVIOUS
<1>0. Tail(s) \in Seq(Req)
  BY <1>1
<1>2. PICK x \in Seq(Req) : x = Tail(s)
  BY <1>0, Zenon
<1>3. /\ Len(s) \in Nat /\ Len(s) >= 1 /\ DOMAIN s = 1 .. Len(s) /\ DOMAIN x = 1 .. Len(s) - 1
      /\ (\A i \in 1 .. Len(s) - 1 : x[i] = s[i + 1]) /\ Head(s) = s[1] /\ Head(s) \in Req
  BY <1>1, <1>2
<1>4. cx \in [Ws -> Seq(Req)] /\ cx[w] = x /\ \A v \in Ws : v # w => cx[v] = ch[v]
  BY <1>1, <1>2, Zenon DEF Taken
<1>5. OneLess(ch, cx, w, Len(s))
  BY <1>1, <1>3, <1>4 DEF OneLess
<1> QED BY <1>3, <1>5

\* No writer holds a number that has not been given out.
LEMMA HasBelow ==
    ASSUME NEW ch, NEW mp, NEW pc, NEW st, NEW top, NEW dn, NEW ls, NEW acc,
           Writer(ch, mp, pc, st, top, dn, ls, acc), NEW k \in Keys, NEW n \in Nat, Has(ch, mp, dn, k, n)
    PROVE  n <= acc[k]
<1>1. dn[k] \in Nat /\ top[k] \in Nat /\ acc[k] \in Nat /\ dn[k] <= top[k] /\ top[k] <= acc[k]
  BY DEF Writer, WriterTyped
<1>2. CASE dn[k] = n
  BY <1>1, <1>2
<1>3. ASSUME NEW w \in Ws, mp[w][k] = n PROVE n <= acc[k]
  <2>1. n # 0 => n <= top[k]
    BY <1>3 DEF Writer, MapAbove
  <2> QED BY <1>1, <2>1
<1>4. ASSUME NEW w \in Ws, NEW i \in DOMAIN ch[w], ch[w][i].key = k, ch[w][i].value = n PROVE n <= acc[k]
  <2>1. n <= top[k]
    BY <1>4 DEF Writer, QueueAbove
  <2> QED BY <1>1, <2>1
<1> QED BY <1>2, <1>3, <1>4 DEF Has

-----------------------------------------------------------------------------
(* A write is acknowledged: n, above every number given out, enters the     *)
(* channel of the key's worker.                                             *)

LEMMA SendOrder ==
    ASSUME NEW ch, NEW mp, NEW pc, NEW st, NEW top, NEW dn, NEW ls, NEW acc,
           Writer(ch, mp, pc, st, top, dn, ls, acc),
           NEW k \in Keys, NEW n \in Nat, top[k] < n,
           NEW cx, Entered(ch, cx, Owner(k), [key |-> k, value |-> n]),
           NEW tx, tx = [top EXCEPT ![k] = n]
    PROVE  /\ WriterTyped(cx, mp, pc, st, tx, dn)
           /\ QueueOrder(cx) /\ QueueAbove(cx, mp, tx, dn) /\ MapAbove(mp, tx, dn)
           /\ Accounted(cx, mp, tx, dn, ls) /\ LostBelow(tx, ls)
<1>1. PICK w \in Ws, r \in Req : w = Owner(k) /\ r = [key |-> k, value |-> n]
  BY SameWorkers DEF Req
<1>2. /\ ch \in [Ws -> Seq(Req)] /\ mp \in [Ws -> [Keys -> Nat]]
      /\ top \in [Keys -> Nat] /\ dn \in [Keys -> Nat]
  BY DEF Writer, WriterTyped
<1>3. PICK l \in Nat : OneMore(ch, cx, w, r, l)
  <2>1. Entered(ch, cx, w, r)
    BY <1>1, Zenon
  <2> QED BY <1>2, <2>1, EnteredFacts, Zenon
<1>4. /\ cx \in [Ws -> Seq(Req)]
      /\ \A v \in Ws : v # w => cx[v] = ch[v]
      /\ DOMAIN ch[w] = 1 .. l /\ DOMAIN cx[w] = 1 .. l + 1
      /\ \A i \in 1 .. l : cx[w][i] = ch[w][i]
      /\ cx[w][l + 1] = r
  BY <1>3 DEF OneMore
<1>5. /\ tx \in [Keys -> Nat] /\ tx[k] = n /\ \A j \in Keys : j # k => tx[j] = top[j]
  BY <1>2
<1>6. \A j \in Keys : top[j] \in Nat /\ tx[j] \in Nat /\ top[j] <= tx[j]
  BY <1>2, <1>5
\* A request is the new one, or was there before.
<1>7. ASSUME NEW v \in Ws, NEW i \in DOMAIN cx[v]
      PROVE  \/ v = w /\ i = l + 1 /\ cx[v][i] = r
             \/ i \in DOMAIN ch[v] /\ cx[v][i] = ch[v][i] /\ (v = w => i < l + 1)
  <2>1. CASE v # w
    BY <1>4, <2>1
  <2>2. CASE v = w
    BY <1>4, <2>2
  <2> QED BY <2>1, <2>2
<1>8. WriterTyped(cx, mp, pc, st, tx, dn)
  BY <1>4, <1>5 DEF Writer, WriterTyped
<1>9. QueueAbove(cx, mp, tx, dn)
  <2> SUFFICES ASSUME NEW v \in Ws, NEW i \in DOMAIN cx[v]
               PROVE  /\ Owner(cx[v][i].key) = v
                      /\ dn[cx[v][i].key] < cx[v][i].value
                      /\ mp[v][cx[v][i].key] < cx[v][i].value
                      /\ cx[v][i].value <= tx[cx[v][i].key]
    BY DEF QueueAbove
  <2>1. CASE v = w /\ i = l + 1 /\ cx[v][i] = r
    <3>1. cx[v][i].key = k /\ cx[v][i].value = n
      BY <1>1, <2>1
    <3>2. dn[k] \in Nat /\ mp[w][k] \in Nat /\ top[k] \in Nat /\ dn[k] <= top[k]
      BY <1>2 DEF Writer
    <3>3. mp[w][k] <= top[k]
      <4>1. mp[w][k] # 0 => mp[w][k] <= top[k]
        BY DEF Writer, MapAbove
      <4> QED BY <3>2, <4>1
    <3> QED BY <1>1, <1>5, <2>1, <3>1, <3>2, <3>3
  <2>2. CASE i \in DOMAIN ch[v] /\ cx[v][i] = ch[v][i]
    <3>1. PICK q \in Req : q = ch[v][i] /\ q.key \in Keys /\ q.value \in Nat
      BY <1>2, <2>2, ChannelTyped
    <3>2. Owner(q.key) = v /\ dn[q.key] < q.value /\ mp[v][q.key] < q.value /\ q.value <= top[q.key]
      BY <2>2, <3>1 DEF Writer, QueueAbove
    <3>3. q.value <= tx[q.key]
      BY <1>6, <3>1, <3>2
    <3> QED BY <2>2, <3>1, <3>2, <3>3
  <2> QED BY <1>7, <2>1, <2>2
<1>10. QueueOrder(cx)
  <2> SUFFICES ASSUME NEW v \in Ws, NEW i \in DOMAIN cx[v], NEW j \in DOMAIN cx[v],
                      i < j, cx[v][i].key = cx[v][j].key
               PROVE  cx[v][i].value < cx[v][j].value
    BY DEF QueueOrder
  <2>1. CASE i \in DOMAIN ch[v] /\ cx[v][i] = ch[v][i] /\ j \in DOMAIN ch[v] /\ cx[v][j] = ch[v][j]
    BY <2>1 DEF Writer, QueueOrder
  <2>2. CASE v = w /\ j = l + 1 /\ cx[v][j] = r
    <3>1. cx[v][j].key = k /\ cx[v][j].value = n
      BY <1>1, <2>2
    <3>2. i \in DOMAIN ch[v] /\ cx[v][i] = ch[v][i]
      <4>1. i # l + 1
        BY <1>4, <2>2
      <4> QED BY <1>7, <4>1
    <3>3. ch[v][i].value <= top[k] /\ ch[v][i].value \in Nat
      <4>1. ch[v][i].value <= top[ch[v][i].key] /\ ch[v][i].key = k
        BY <3>1, <3>2 DEF Writer, QueueAbove
      <4> QED BY <1>2, <3>2, <4>1, ChannelTyped
    <3> QED BY <1>2, <3>1, <3>2, <3>3
  <2>3. CASE v = w /\ i = l + 1 /\ j \in DOMAIN ch[v]
    <3>1. j \in 1 .. l
      BY <1>4, <2>3
    <3> QED BY <2>3, <3>1
  <2> QED BY <1>7, <2>1, <2>2, <2>3
<1>11. MapAbove(mp, tx, dn)
  <2> SUFFICES ASSUME NEW v \in Ws, NEW j \in Keys, mp[v][j] # 0
               PROVE  Owner(j) = v /\ dn[j] < mp[v][j] /\ mp[v][j] <= tx[j]
    BY DEF MapAbove
  <2>1. Owner(j) = v /\ dn[j] < mp[v][j] /\ mp[v][j] <= top[j] /\ mp[v][j] \in Nat
    BY <1>2 DEF Writer, MapAbove
  <2> QED BY <1>6, <2>1
<1>12. Accounted(cx, mp, tx, dn, ls)
  <2> SUFFICES ASSUME NEW j \in Keys
               PROVE  \/ tx[j] \in {dn[j], ls[j]}
                      \/ \E v \in Ws : mp[v][j] = tx[j]
                      \/ \E v \in Ws : \E i \in DOMAIN cx[v] : cx[v][i].key = j /\ cx[v][i].value = tx[j]
    BY DEF Accounted
  <2>1. CASE j = k
    <3>1. l + 1 \in DOMAIN cx[w] /\ cx[w][l + 1].key = j /\ cx[w][l + 1].value = tx[j]
      BY <1>1, <1>4, <1>5, <2>1
    <3> QED BY <3>1
  <2>2. CASE j # k
    <3>1. \A v \in Ws : \A i \in DOMAIN ch[v] : i \in DOMAIN cx[v] /\ cx[v][i] = ch[v][i]
      <4> TAKE v \in Ws
      <4> TAKE i \in DOMAIN ch[v]
      <4>1. CASE v # w
        BY <1>4, <4>1
      <4>2. CASE v = w
        BY <1>4, <4>2
      <4> QED BY <4>1, <4>2
    <3>2. tx[j] = top[j]
      BY <1>5, <2>2
    <3> QED BY <3>1, <3>2 DEF Writer, Accounted
  <2> QED BY <2>1, <2>2
<1>13. LostBelow(tx, ls)
  <2>1. ls \in [Keys -> Nat] /\ \A j \in Keys : ls[j] <= top[j]
    BY DEF Writer, LostBelow
  <2>2. ASSUME NEW j \in Keys PROVE ls[j] <= tx[j]
    <3>1. ls[j] \in Nat /\ top[j] \in Nat /\ tx[j] \in Nat /\ ls[j] <= top[j] /\ top[j] <= tx[j]
      BY <1>6, <2>1
    <3> QED BY <3>1
  <2> QED BY <2>1, <2>2 DEF LostBelow
<1> QED BY <1>8, <1>9, <1>10, <1>11, <1>12, <1>13

LEMMA SendKeeps ==
    ASSUME NEW ch, NEW mp, NEW pc, NEW st, NEW top, NEW dn, NEW ls,
           NEW cy, NEW my, NEW py, NEW sy, NEW ty, NEW dy, NEW ly, NEW acc, NEW sto,
           Both(ch, mp, pc, st, top, dn, ls, cy, my, py, sy, ty, dy, ly, acc, sto),
           NEW k \in Keys, NEW n \in Nat, n = acc[k] + 1,
           NEW cx, Entered(ch, cx, Owner(k), [key |-> k, value |-> n]),
           NEW tx, tx = [top EXCEPT ![k] = n], NEW ax, ax = [acc EXCEPT ![k] = n]
    PROVE  Both(cx, mp, pc, st, tx, dn, ls, cy, my, py, sy, ty, dy, ly, ax, sto)
<1>1. Writer(ch, mp, pc, st, top, dn, ls, acc) /\ Writer(cy, my, py, sy, ty, dy, ly, acc)
  BY DEF Both
<1>2. /\ top \in [Keys -> Nat] /\ dn \in [Keys -> Nat] /\ ty \in [Keys -> Nat]
      /\ acc \in [Keys -> Nat] /\ \A j \in Keys : dn[j] <= top[j] /\ top[j] <= acc[j] /\ ty[j] <= acc[j]
  BY <1>1 DEF Writer, WriterTyped
<1>3. top[k] < n
  BY <1>2
<1>4. /\ WriterTyped(cx, mp, pc, st, tx, dn)
      /\ QueueOrder(cx) /\ QueueAbove(cx, mp, tx, dn) /\ MapAbove(mp, tx, dn)
      /\ Accounted(cx, mp, tx, dn, ls) /\ LostBelow(tx, ls)
  BY <1>1, <1>3, SendOrder
<1>5. /\ ax \in [Keys -> Nat] /\ ax[k] = n /\ \A j \in Keys : j # k => ax[j] = acc[j]
      /\ tx[k] = n /\ \A j \in Keys : j # k => tx[j] = top[j]
  BY <1>2
<1>6. ASSUME NEW j \in Keys PROVE dn[j] <= tx[j] /\ tx[j] <= ax[j] /\ ty[j] <= ax[j]
  <2>1. CASE j = k
    BY <1>2, <1>3, <1>5, <2>1
  <2>2. CASE j # k
    BY <1>2, <1>5, <2>2
  <2> QED BY <2>1, <2>2
<1>7. Writer(cx, mp, pc, st, tx, dn, ls, ax)
  BY <1>1, <1>4, <1>5, <1>6 DEF Writer
<1>8. Writer(cy, my, py, sy, ty, dy, ly, ax)
  BY <1>1, <1>5, <1>6 DEF Writer
<1>9. Apart(cx, mp, dn, cy, my, dy)
  <2> SUFFICES ASSUME NEW j \in Keys, NEW m \in Nat \ {0}, Has(cx, mp, dn, j, m), Has(cy, my, dy, j, m)
               PROVE  FALSE
    BY DEF Apart
  <2>1. m <= acc[j]
    BY <1>1, HasBelow
  <2>2. ASSUME NEW v \in Ws, NEW i \in DOMAIN cx[v], cx[v][i].key = j, cx[v][i].value = m
        PROVE  Has(ch, mp, dn, j, m)
    <3>1. PICK w \in Ws, r \in Req : w = Owner(k) /\ r = [key |-> k, value |-> n]
      BY SameWorkers DEF Req
    <3>2. ch \in [Ws -> Seq(Req)]
      BY <1>1 DEF Writer, WriterTyped
    <3>3. PICK l \in Nat : OneMore(ch, cx, w, r, l)
      <4>1. Entered(ch, cx, w, r)
        BY <3>1, Zenon
      <4> QED BY <3>2, <4>1, EnteredFacts, Zenon
    <3>4. /\ \A u \in Ws : u # w => cx[u] = ch[u]
          /\ DOMAIN ch[w] = 1 .. l /\ DOMAIN cx[w] = 1 .. l + 1
          /\ \A x \in 1 .. l : cx[w][x] = ch[w][x]
          /\ cx[w][l + 1] = r
      BY <3>3 DEF OneMore
    <3>5. CASE v # w
      BY <2>2, <3>4, <3>5 DEF Has
    <3>6. CASE v = w /\ i = l + 1
      <4>1. j = k /\ m = n
        BY <2>2, <3>1, <3>4, <3>6
      <4> QED BY <1>2, <2>1, <4>1
    <3>7. CASE v = w /\ i # l + 1
      <4>1. i \in DOMAIN ch[v] /\ cx[v][i] = ch[v][i]
        BY <2>2, <3>4, <3>7
      <4> QED BY <2>2, <4>1 DEF Has
    <3> QED BY <3>5, <3>6, <3>7
  <2>3. Has(ch, mp, dn, j, m)
    BY <2>2 DEF Has
  <2> QED BY <2>3 DEF Both, Apart
<1> QED BY <1>7, <1>8, <1>9 DEF Both

-----------------------------------------------------------------------------
(* A worker moves the first request of its channel to its map.              *)

\* r, the first request of channel w, replaces what the map of w has for its key.
Moved(ch, mp, cx, mx, w) ==
    /\ ch[w] # <<>> /\ Taken(ch, cx, w)
    /\ mx = [mp EXCEPT ![w] = [mp[w] EXCEPT ![Head(ch[w]).key] = Head(ch[w]).value]]

\* What one may say of the channels and maps before and after.
MovedBy(ch, mp, cx, mx, w, r) ==
    /\ r.key \in Keys /\ r.value \in Nat
    /\ cx \in [Ws -> Seq(Req)] /\ mx \in [Ws -> [Keys -> Nat]]
    /\ 1 \in DOMAIN ch[w] /\ ch[w][1] = r
    /\ \A v \in Ws : v # w => cx[v] = ch[v] /\ mx[v] = mp[v]
    /\ \A i \in DOMAIN cx[w] : i + 1 \in DOMAIN ch[w] /\ cx[w][i] = ch[w][i + 1] /\ 1 < i + 1 /\ i \in Nat
    /\ \A i \in DOMAIN ch[w] : i # 1 => i - 1 \in DOMAIN cx[w] /\ cx[w][i - 1] = ch[w][i]
    /\ mx[w][r.key] = r.value
    /\ \A k \in Keys : k # r.key => mx[w][k] = mp[w][k]

LEMMA MovedFacts ==
    ASSUME NEW ch \in [Ws -> Seq(Req)], NEW mp \in [Ws -> [Keys -> Nat]], NEW w \in Ws,
           NEW cx, NEW mx, Moved(ch, mp, cx, mx, w)
    PROVE  \E r \in Req : MovedBy(ch, mp, cx, mx, w, r)
<1>1. ch[w] # <<>> /\ Taken(ch, cx, w)
  BY DEF Moved
<1>2. PICK l \in Nat : OneLess(ch, cx, w, l)
  BY <1>1, TakenFacts, Zenon
<1>3. /\ cx \in [Ws -> Seq(Req)]
      /\ \A v \in Ws : v # w => cx[v] = ch[v]
      /\ l >= 1 /\ DOMAIN ch[w] = 1 .. l /\ DOMAIN cx[w] = 1 .. l - 1
      /\ \A i \in 1 .. l - 1 : cx[w][i] = ch[w][i + 1]
      /\ Head(ch[w]) = ch[w][1] /\ Head(ch[w]) \in Req
  BY <1>2 DEF OneLess
<1>4. PICK r \in Req : r = Head(ch[w]) /\ r = ch[w][1]
  BY <1>3
<1>5. r.key \in Keys /\ r.value \in Nat
  BY DEF Req
<1>6. mx = [mp EXCEPT ![w] = [mp[w] EXCEPT ![r.key] = r.value]]
  BY <1>4, Zenon DEF Moved
<1>7. /\ mx \in [Ws -> [Keys -> Nat]] /\ (\A v \in Ws : v # w => mx[v] = mp[v])
      /\ mx[w][r.key] = r.value /\ \A k \in Keys : k # r.key => mx[w][k] = mp[w][k]
  BY <1>5, <1>6
<1>8. \A i \in DOMAIN cx[w] : i + 1 \in DOMAIN ch[w] /\ cx[w][i] = ch[w][i + 1] /\ 1 < i + 1 /\ i \in Nat
  BY <1>3
<1>9. \A i \in DOMAIN ch[w] : i # 1 => i - 1 \in DOMAIN cx[w] /\ cx[w][i - 1] = ch[w][i]
  <2> SUFFICES ASSUME NEW i \in 1 .. l, i # 1 PROVE i - 1 \in DOMAIN cx[w] /\ cx[w][i - 1] = ch[w][i]
    BY <1>3
  <2>1. i - 1 \in 1 .. l - 1 /\ (i - 1) + 1 = i
    OBVIOUS
  <2>2. cx[w][i - 1] = ch[w][(i - 1) + 1]
    BY <1>3, <2>1
  <2> QED BY <1>3, <2>1, <2>2
<1>10. 1 \in DOMAIN ch[w]
  BY <1>3
<1>11. MovedBy(ch, mp, cx, mx, w, r)
  BY <1>3, <1>4, <1>5, <1>7, <1>8, <1>9, <1>10, Zenon DEF MovedBy
<1> QED BY <1>11

LEMMA ReceiveOrder ==
    ASSUME NEW ch, NEW mp, NEW pc, NEW st, NEW top, NEW dn, NEW ls, NEW acc,
           Writer(ch, mp, pc, st, top, dn, ls, acc), NEW w \in Ws, pc[w] = "select",
           NEW cx, NEW mx, Moved(ch, mp, cx, mx, w),
           NEW px \in [Ws -> Points], px[w] # "txn", \A v \in Ws : v # w => px[v] = pc[v]
    PROVE  Writer(cx, mx, px, st, top, dn, ls, acc)
<1>1. /\ ch \in [Ws -> Seq(Req)] /\ mp \in [Ws -> [Keys -> Nat]]
      /\ top \in [Keys -> Nat] /\ dn \in [Keys -> Nat]
  BY DEF Writer, WriterTyped
<1>0. PICK r \in Req : MovedBy(ch, mp, cx, mx, w, r)
  BY <1>1, MovedFacts, Zenon
<1>2. /\ r.key \in Keys /\ r.value \in Nat
      /\ cx \in [Ws -> Seq(Req)] /\ mx \in [Ws -> [Keys -> Nat]]
      /\ 1 \in DOMAIN ch[w] /\ ch[w][1] = r
      /\ \A v \in Ws : v # w => cx[v] = ch[v] /\ mx[v] = mp[v]
      /\ \A i \in DOMAIN cx[w] : i + 1 \in DOMAIN ch[w] /\ cx[w][i] = ch[w][i + 1] /\ 1 < i + 1 /\ i \in Nat
      /\ \A i \in DOMAIN ch[w] : i # 1 => i - 1 \in DOMAIN cx[w] /\ cx[w][i - 1] = ch[w][i]
      /\ mx[w][r.key] = r.value
      /\ \A k \in Keys : k # r.key => mx[w][k] = mp[w][k]
  BY <1>0, Zenon DEF MovedBy
<1>3. /\ Owner(r.key) = w /\ dn[r.key] < r.value /\ mp[w][r.key] < r.value /\ r.value <= top[r.key]
      /\ r.value # 0
  <2>1. /\ Owner(r.key) = w /\ dn[r.key] < r.value /\ mp[w][r.key] < r.value /\ r.value <= top[r.key]
    BY <1>2 DEF Writer, QueueAbove
  <2> QED BY <1>1, <1>2, <2>1
<1>4. WriterTyped(cx, mx, px, st, top, dn)
  BY <1>2 DEF Writer, WriterTyped
<1>5. QueueOrder(cx)
  <2> SUFFICES ASSUME NEW v \in Ws, NEW i \in DOMAIN cx[v], NEW j \in DOMAIN cx[v],
                      i < j, cx[v][i].key = cx[v][j].key
               PROVE  cx[v][i].value < cx[v][j].value
    BY DEF QueueOrder
  <2>1. CASE v # w
    BY <1>2, <2>1 DEF Writer, QueueOrder
  <2>2. CASE v = w
    <3>1. /\ i + 1 \in DOMAIN ch[w] /\ cx[w][i] = ch[w][i + 1]
          /\ j + 1 \in DOMAIN ch[w] /\ cx[w][j] = ch[w][j + 1] /\ i + 1 < j + 1
      BY <1>2, <2>2
    <3> QED BY <2>2, <3>1 DEF Writer, QueueOrder
  <2> QED BY <2>1, <2>2
<1>6. QueueAbove(cx, mx, top, dn)
  <2> SUFFICES ASSUME NEW v \in Ws, NEW i \in DOMAIN cx[v]
               PROVE  /\ Owner(cx[v][i].key) = v
                      /\ dn[cx[v][i].key] < cx[v][i].value
                      /\ mx[v][cx[v][i].key] < cx[v][i].value
                      /\ cx[v][i].value <= top[cx[v][i].key]
    BY DEF QueueAbove
  <2>1. CASE v # w
    <3>1. cx[v] = ch[v] /\ mx[v] = mp[v]
      BY <1>2, <2>1
    <3> QED BY <3>1, Zenon DEF Writer, QueueAbove
  <2>2. CASE v = w
    <3>1. i + 1 \in DOMAIN ch[w] /\ cx[w][i] = ch[w][i + 1] /\ 1 < i + 1
      BY <1>2, <2>2
    <3>2. PICK q \in Req : q = ch[w][i + 1] /\ q = cx[w][i] /\ q.key \in Keys /\ q.value \in Nat
      BY <1>1, <3>1, ChannelTyped
    <3>3. Owner(q.key) = w /\ dn[q.key] < q.value /\ mp[w][q.key] < q.value /\ q.value <= top[q.key]
      BY <3>1, <3>2 DEF Writer, QueueAbove
    <3>4. q.key = r.key => r.value < q.value
      <4>1. \A a, b \in DOMAIN ch[w] :
              a < b /\ ch[w][a].key = ch[w][b].key => ch[w][a].value < ch[w][b].value
        BY Zenon DEF Writer, QueueOrder
      <4>2. 1 \in DOMAIN ch[w] /\ ch[w][1] = r
        BY <1>2
      <4> QED BY <3>1, <3>2, <4>1, <4>2, Zenon
    <3>5. mx[w][q.key] < q.value
      <4>1. CASE q.key = r.key
        BY <1>2, <3>4, <4>1
      <4>2. CASE q.key # r.key
        BY <1>2, <3>2, <3>3, <4>2
      <4> QED BY <4>1, <4>2
    <3> QED BY <2>2, <3>2, <3>3, <3>5
  <2> QED BY <2>1, <2>2
<1>7. MapAbove(mx, top, dn)
  <2> SUFFICES ASSUME NEW v \in Ws, NEW k \in Keys, mx[v][k] # 0
               PROVE  Owner(k) = v /\ dn[k] < mx[v][k] /\ mx[v][k] <= top[k]
    BY DEF MapAbove
  <2>1. CASE v = w /\ k = r.key
    BY <1>2, <1>3, <2>1
  <2>2. CASE ~(v = w /\ k = r.key)
    <3>1. mx[v][k] = mp[v][k]
      BY <1>2, <2>2
    <3> QED BY <3>1 DEF Writer, MapAbove
  <2> QED BY <2>1, <2>2
<1>8. Staging(mx, px, st)
  <2> SUFFICES ASSUME NEW v \in Ws, px[v] = "txn"
               PROVE  (\A k \in st : mx[v][k] # 0) /\ (\A u \in Ws : px[u] = "txn" => u = v)
    BY DEF Staging
  <2>1. v # w /\ pc[v] = "txn"
    OBVIOUS
  <2>2. (\A k \in st : mp[v][k] # 0) /\ (\A u \in Ws : pc[u] = "txn" => u = v)
    BY <2>1 DEF Writer, Staging
  <2>3. mx[v] = mp[v]
    BY <1>2, <2>1
  <2>4. \A u \in Ws : px[u] = "txn" => pc[u] = "txn"
    OBVIOUS
  <2> QED BY <2>2, <2>3, <2>4
<1>9. Accounted(cx, mx, top, dn, ls)
  <2> SUFFICES ASSUME NEW k \in Keys
               PROVE  \/ top[k] \in {dn[k], ls[k]}
                      \/ \E v \in Ws : mx[v][k] = top[k]
                      \/ \E v \in Ws : \E i \in DOMAIN cx[v] : cx[v][i].key = k /\ cx[v][i].value = top[k]
    BY DEF Accounted
  <2>1. ASSUME NEW v \in Ws, mp[v][k] = top[k] PROVE mx[v][k] = top[k]
    <3>1. CASE v = w /\ k = r.key
      BY <1>1, <1>2, <1>3, <2>1, <3>1
    <3>2. CASE ~(v = w /\ k = r.key)
      BY <1>2, <2>1, <3>2
    <3> QED BY <3>1, <3>2
  <2>2. ASSUME NEW v \in Ws, NEW i \in DOMAIN ch[v], ch[v][i].key = k, ch[v][i].value = top[k]
        PROVE  \/ mx[w][k] = top[k]
               \/ \E j \in DOMAIN cx[v] : cx[v][j].key = k /\ cx[v][j].value = top[k]
    <3>1. CASE v # w
      BY <1>2, <2>2, <3>1
    <3>2. CASE v = w /\ i = 1
      BY <1>2, <2>2, <3>2
    <3>3. CASE v = w /\ i # 1
      <4>1. i - 1 \in DOMAIN cx[v] /\ cx[v][i - 1] = ch[v][i]
        BY <1>2, <3>3
      <4> QED BY <2>2, <4>1
    <3> QED BY <3>1, <3>2, <3>3
  <2>3. \/ top[k] \in {dn[k], ls[k]}
        \/ \E v \in Ws : mp[v][k] = top[k]
        \/ \E v \in Ws : \E i \in DOMAIN ch[v] : ch[v][i].key = k /\ ch[v][i].value = top[k]
    BY DEF Writer, Accounted
  <2> QED BY <2>1, <2>2, <2>3
<1> QED BY <1>4, <1>5, <1>6, <1>7, <1>8, <1>9 DEF Writer

LEMMA ReceiveKeeps ==
    ASSUME NEW ch, NEW mp, NEW pc, NEW st, NEW top, NEW dn, NEW ls,
           NEW cy, NEW my, NEW py, NEW sy, NEW ty, NEW dy, NEW ly, NEW acc, NEW sto,
           Both(ch, mp, pc, st, top, dn, ls, cy, my, py, sy, ty, dy, ly, acc, sto),
           NEW w \in Ws, pc[w] = "select", NEW cx, NEW mx, Moved(ch, mp, cx, mx, w),
           NEW px \in [Ws -> Points], px[w] # "txn", \A v \in Ws : v # w => px[v] = pc[v]
    PROVE  Both(cx, mx, px, st, top, dn, ls, cy, my, py, sy, ty, dy, ly, acc, sto)
<1>1. Writer(ch, mp, pc, st, top, dn, ls, acc)
  BY DEF Both
<1>2. Writer(cx, mx, px, st, top, dn, ls, acc)
  BY <1>1, ReceiveOrder
<1>3. ASSUME NEW k \in Keys, NEW n \in Nat \ {0}, Has(cx, mx, dn, k, n) PROVE Has(ch, mp, dn, k, n)
  <2>0. PICK r \in Req : MovedBy(ch, mp, cx, mx, w, r)
    <3>1. ch \in [Ws -> Seq(Req)] /\ mp \in [Ws -> [Keys -> Nat]]
      BY <1>1 DEF Writer, WriterTyped
    <3> QED BY <3>1, MovedFacts, Zenon
  <2>1. /\ r.key \in Keys /\ r.value \in Nat
        /\ 1 \in DOMAIN ch[w] /\ ch[w][1] = r
        /\ \A v \in Ws : v # w => cx[v] = ch[v] /\ mx[v] = mp[v]
        /\ \A i \in DOMAIN cx[w] : i + 1 \in DOMAIN ch[w] /\ cx[w][i] = ch[w][i + 1]
        /\ mx[w][r.key] = r.value
        /\ \A j \in Keys : j # r.key => mx[w][j] = mp[w][j]
    BY <2>0, Zenon DEF MovedBy
  <2>2. ASSUME NEW v \in Ws, mx[v][k] = n PROVE Has(ch, mp, dn, k, n)
    <3>1. CASE v = w /\ k = r.key
      BY <2>1, <2>2, <3>1 DEF Has
    <3>2. CASE ~(v = w /\ k = r.key)
      <4>1. mp[v][k] = n
        BY <2>1, <2>2, <3>2
      <4> QED BY <4>1 DEF Has
    <3> QED BY <3>1, <3>2
  <2>3. ASSUME NEW v \in Ws, NEW i \in DOMAIN cx[v], cx[v][i].key = k, cx[v][i].value = n
        PROVE  Has(ch, mp, dn, k, n)
    <3>1. CASE v # w
      BY <2>1, <2>3, <3>1 DEF Has
    <3>2. CASE v = w
      <4>1. i + 1 \in DOMAIN ch[v] /\ ch[v][i + 1].key = k /\ ch[v][i + 1].value = n
        BY <2>1, <2>3, <3>2
      <4> QED BY <4>1 DEF Has
    <3> QED BY <3>1, <3>2
  <2>4. CASE dn[k] = n
    BY <2>4 DEF Has
  <2> QED BY <1>3, <2>2, <2>3, <2>4 DEF Has
<1>4. Apart(cx, mx, dn, cy, my, dy)
  BY <1>3, Zenon DEF Both, Apart
<1> QED BY <1>2, <1>4, Zenon DEF Both

-----------------------------------------------------------------------------
(* A worker begins a flush or a transaction, or stages a key.               *)

LEMMA QuietKeeps ==
    ASSUME NEW ch, NEW mp, NEW pc, NEW st, NEW top, NEW dn, NEW ls,
           NEW cy, NEW my, NEW py, NEW sy, NEW ty, NEW dy, NEW ly, NEW acc, NEW sto,
           Both(ch, mp, pc, st, top, dn, ls, cy, my, py, sy, ty, dy, ly, acc, sto),
           NEW px \in [Ws -> Points], NEW sx \in SUBSET Keys, Staging(mp, px, sx)
    PROVE  Both(ch, mp, px, sx, top, dn, ls, cy, my, py, sy, ty, dy, ly, acc, sto)
<1>1. WriterTyped(ch, mp, px, sx, top, dn)
  BY DEF Both, Writer, WriterTyped
<1>2. Writer(ch, mp, px, sx, top, dn, ls, acc)
  BY <1>1, Zenon DEF Both, Writer
<1> QED BY <1>2, Zenon DEF Both

\* A worker leaves its select, or comes back to it, without a transaction.
LEMMA StagingAfterSelect ==
    ASSUME NEW mp, NEW pc, NEW st, Staging(mp, pc, st), NEW w \in Ws,
           NEW px, px[w] # "txn", \A v \in Ws : v # w => px[v] = pc[v]
    PROVE  Staging(mp, px, st)
BY DEF Staging

LEMMA StagingAfterBegin ==
    ASSUME NEW mp, NEW pc, \A v \in Ws : pc[v] # "txn", NEW w \in Ws,
           NEW px, \A v \in Ws : v # w => px[v] = pc[v]
    PROVE  Staging(mp, px, {})
BY DEF Staging

LEMMA StagingAfterPut ==
    ASSUME NEW mp, NEW pc, NEW st, Staging(mp, pc, st), NEW w \in Ws, pc[w] = "txn",
           NEW k, mp[w][k] # 0
    PROVE  Staging(mp, pc, st \cup {k})
<1> SUFFICES ASSUME NEW v \in Ws, pc[v] = "txn"
             PROVE  (\A j \in st \cup {k} : mp[v][j] # 0) /\ (\A u \in Ws : pc[u] = "txn" => u = v)
  BY DEF Staging
<1>1. (\A j \in st : mp[v][j] # 0) /\ (\A u \in Ws : pc[u] = "txn" => u = v)
  BY DEF Staging
<1>2. w = v
  BY <1>1
<1> QED BY <1>1, <1>2

-----------------------------------------------------------------------------
(* A transaction commits: the whole map of a worker reaches the database.   *)

Committed(mp, pc, st, mx, px, w) ==
    /\ pc[w] = "txn" /\ \A k \in Keys : mp[w][k] # 0 => k \in st
    /\ mx \in [Ws -> [Keys -> Nat]] /\ (\A k \in Keys : mx[w][k] = 0)
    /\ \A v \in Ws : v # w => mx[v] = mp[v]
    /\ px \in [Ws -> Points] /\ px[w] # "txn" /\ \A v \in Ws : v # w => px[v] = pc[v]

\* A commit of the map's value m (0: none) for a key with o in the database,
\* n and y committed last by this and by the other writer, leaves s in the
\* database and d as this one's last.
CommitOf(m, n, y, o, s, d) ==
    /\ d = (IF m # 0 THEN m ELSE n) /\ d \in Nat /\ s \in Nat
    /\ s \in {d, y}
    /\ s # o => n < d /\ s = d

LEMMA CommitStore ==
    ASSUME NEW ch, NEW mp, NEW pc, NEW st, NEW top, NEW dn, NEW ls,
           NEW cy, NEW my, NEW py, NEW sy, NEW ty, NEW dy, NEW ly, NEW acc, NEW sto,
           Both(ch, mp, pc, st, top, dn, ls, cy, my, py, sy, ty, dy, ly, acc, sto),
           NEW w \in Ws, NEW mx, NEW px, Committed(mp, pc, st, mx, px, w),
           NEW k \in Keys, NEW s, NEW d,
           s = IF k \in st THEN mp[w][k] ELSE sto[k],
           d = IF s # sto[k] THEN s ELSE dn[k]
    PROVE  CommitOf(mp[w][k], dn[k], dy[k], sto[k], s, d)
<1>1. Writer(ch, mp, pc, st, top, dn, ls, acc) /\ Apart(ch, mp, dn, cy, my, dy)
  BY Zenon DEF Both
<1>2. mp[w][k] \in Nat /\ dn[k] \in Nat /\ sto[k] \in Nat /\ sto[k] \in {dn[k], dy[k]}
  BY <1>1 DEF Both, Writer, WriterTyped
<1>3. k \in st <=> mp[w][k] # 0
  BY <1>1 DEF Committed, Writer, Staging
<1>4. CASE mp[w][k] # 0
  <2>1. dn[k] < mp[w][k]
    BY <1>1, <1>4 DEF Writer, MapAbove
  <2>2. Has(ch, mp, dn, k, mp[w][k])
    BY DEF Has
  <2>3. mp[w][k] # dy[k]
    <3>1. ASSUME mp[w][k] = dy[k] PROVE FALSE
      <4>1. Has(cy, my, dy, k, mp[w][k])
        BY <3>1 DEF Has
      <4>2. mp[w][k] \in Nat \ {0}
        BY <1>2, <1>4
      <4> QED BY <1>1, <2>2, <4>1, <4>2 DEF Apart
    <3> QED BY <3>1
  <2>4. s = mp[w][k] /\ s # sto[k]
    BY <1>2, <1>3, <1>4, <2>1, <2>3
  <2> QED BY <1>2, <1>4, <2>1, <2>4 DEF CommitOf
<1>5. CASE mp[w][k] = 0
  <2>1. s = sto[k] /\ d = dn[k]
    BY <1>3, <1>5
  <2> QED BY <1>2, <1>5, <2>1 DEF CommitOf
<1> QED BY <1>4, <1>5

LEMMA CommitOrder ==
    ASSUME NEW ch, NEW mp, NEW pc, NEW st, NEW top, NEW dn, NEW ls, NEW acc,
           Writer(ch, mp, pc, st, top, dn, ls, acc),
           NEW w \in Ws, NEW mx, NEW px, Committed(mp, pc, st, mx, px, w),
           NEW dx \in [Keys -> Nat], \A k \in Keys : dx[k] = IF mp[w][k] # 0 THEN mp[w][k] ELSE dn[k]
    PROVE  Writer(ch, mx, px, {}, top, dx, ls, acc)
<1>1. /\ ch \in [Ws -> Seq(Req)] /\ mp \in [Ws -> [Keys -> Nat]]
      /\ top \in [Keys -> Nat] /\ dn \in [Keys -> Nat] /\ acc \in [Keys -> Nat]
      /\ \A k \in Keys : dn[k] <= top[k] /\ top[k] <= acc[k]
  BY DEF Writer, WriterTyped
<1>2. /\ mx \in [Ws -> [Keys -> Nat]] /\ (\A k \in Keys : mx[w][k] = 0)
      /\ \A v \in Ws : v # w => mx[v] = mp[v]
      /\ px \in [Ws -> Points] /\ pc[w] = "txn" /\ px[w] # "txn" /\ \A v \in Ws : v # w => px[v] = pc[v]
  BY DEF Committed
<1>3. ASSUME NEW v \in Ws, NEW k \in Keys, mp[v][k] # 0
      PROVE  Owner(k) = v /\ dn[k] < mp[v][k] /\ mp[v][k] <= top[k]
  BY <1>3 DEF Writer, MapAbove
<1>4. WriterTyped(ch, mx, px, {}, top, dx)
  BY <1>1, <1>2 DEF WriterTyped
<1>5. QueueOrder(ch)
  BY DEF Writer
<1>6. QueueAbove(ch, mx, top, dx)
  <2> SUFFICES ASSUME NEW v \in Ws, NEW i \in DOMAIN ch[v]
               PROVE  /\ Owner(ch[v][i].key) = v
                      /\ dx[ch[v][i].key] < ch[v][i].value
                      /\ mx[v][ch[v][i].key] < ch[v][i].value
                      /\ ch[v][i].value <= top[ch[v][i].key]
    BY DEF QueueAbove
  <2>1. PICK q \in Req : q = ch[v][i] /\ q.key \in Keys /\ q.value \in Nat
    BY <1>1, ChannelTyped, ZenonT(60)
  <2>2. Owner(q.key) = v /\ dn[q.key] < q.value /\ mp[v][q.key] < q.value /\ q.value <= top[q.key]
    BY <2>1 DEF Writer, QueueAbove
  <2>3. dx[q.key] < q.value
    <3>1. CASE mp[w][q.key] # 0
      <4>1. v = w
        BY <1>3, <2>1, <2>2, <3>1
      <4> QED BY <2>1, <2>2, <3>1, <4>1
    <3>2. CASE mp[w][q.key] = 0
      BY <2>1, <2>2, <3>2
    <3> QED BY <3>1, <3>2
  <2>4. mx[v][q.key] < q.value
    <3>1. CASE v = w
      <4>1. mx[v][q.key] = 0 /\ mp[v][q.key] \in Nat
        BY <1>1, <1>2, <2>1, <3>1
      <4> QED BY <2>1, <2>2, <4>1
    <3>2. CASE v # w
      <4>1. mx[v] = mp[v]
        BY <1>2, <3>2
      <4> QED BY <2>2, <4>1
    <3> QED BY <3>1, <3>2
  <2> QED BY <2>1, <2>2, <2>3, <2>4
<1>7. MapAbove(mx, top, dx)
  <2> SUFFICES ASSUME NEW v \in Ws, NEW k \in Keys, mx[v][k] # 0
               PROVE  Owner(k) = v /\ dx[k] < mx[v][k] /\ mx[v][k] <= top[k]
    BY DEF MapAbove
  <2>1. v # w /\ mx[v][k] = mp[v][k]
    BY <1>2
  <2>2. Owner(k) = v /\ dn[k] < mp[v][k] /\ mp[v][k] <= top[k]
    BY <1>3, <2>1
  <2>3. mp[w][k] = 0
    BY <1>3, <2>1, <2>2
  <2> QED BY <2>1, <2>2, <2>3
<1>8. Staging(mx, px, {})
  <2>1. \A v \in Ws : px[v] # "txn"
    BY <1>2 DEF Writer, Staging
  <2> QED BY <2>1 DEF Staging
<1>9. Accounted(ch, mx, top, dx, ls)
  <2> SUFFICES ASSUME NEW k \in Keys
               PROVE  \/ top[k] \in {dx[k], ls[k]}
                      \/ \E v \in Ws : mx[v][k] = top[k]
                      \/ \E v \in Ws : \E i \in DOMAIN ch[v] : ch[v][i].key = k /\ ch[v][i].value = top[k]
    BY DEF Accounted
  <2>1. \/ top[k] \in {dn[k], ls[k]}
        \/ \E v \in Ws : mp[v][k] = top[k]
        \/ \E v \in Ws : \E i \in DOMAIN ch[v] : ch[v][i].key = k /\ ch[v][i].value = top[k]
    BY Zenon DEF Writer, Accounted
  <2>2. CASE top[k] = dn[k]
    <3>1. mp[w][k] \in Nat /\ top[k] \in Nat /\ ~(mp[w][k] # 0)
      BY <1>1, <1>3, <2>2
    <3> QED BY <2>2, <3>1
  <2>3. ASSUME NEW v \in Ws, mp[v][k] = top[k] PROVE top[k] = dx[k] \/ mx[v][k] = top[k]
    <3>1. CASE v # w
      BY <1>2, <2>3, <3>1
    <3>2. CASE v = w /\ mp[w][k] # 0
      BY <2>3, <3>2
    <3>3. CASE v = w /\ mp[w][k] = 0
      <4>1. top[k] = 0 /\ dn[k] \in Nat /\ dn[k] <= top[k]
        BY <1>1, <2>3, <3>3
      <4> QED BY <3>3, <4>1
    <3> QED BY <3>1, <3>2, <3>3
  <2> QED BY <2>1, <2>2, <2>3
<1>10. \A k \in Keys : dx[k] <= top[k] /\ top[k] <= acc[k]
  BY <1>1, <1>3
<1> QED BY <1>1, <1>4, <1>5, <1>6, <1>7, <1>8, <1>9, <1>10, Zenon DEF Writer

Stored(mp, st, w, sto, sox) == sox = [k \in Keys |-> IF k \in st THEN mp[w][k] ELSE sto[k]]
LastOf(sto, sox, dn, dx) == dx = [k \in Keys |-> IF sox[k] # sto[k] THEN sox[k] ELSE dn[k]]
Forwards(sto, sox, dn, dx) == \A k \in Keys : sox[k] # sto[k] => dn[k] < dx[k] /\ sox[k] = dx[k]

LEMMA CommitKeeps ==
    ASSUME NEW ch, NEW mp, NEW pc, NEW st, NEW top, NEW dn, NEW ls,
           NEW cy, NEW my, NEW py, NEW sy, NEW ty, NEW dy, NEW ly, NEW acc, NEW sto,
           Both(ch, mp, pc, st, top, dn, ls, cy, my, py, sy, ty, dy, ly, acc, sto),
           NEW w \in Ws, NEW mx, NEW px, Committed(mp, pc, st, mx, px, w),
           NEW sox, Stored(mp, st, w, sto, sox), NEW dx, LastOf(sto, sox, dn, dx)
    PROVE  /\ Both(ch, mx, px, {}, top, dx, ls, cy, my, py, sy, ty, dy, ly, acc, sox)
           /\ Forwards(sto, sox, dn, dx)
<1>1. ASSUME NEW k \in Keys
      PROVE  /\ dx[k] = (IF mp[w][k] # 0 THEN mp[w][k] ELSE dn[k]) /\ dx[k] \in Nat /\ sox[k] \in Nat
             /\ sox[k] \in {dx[k], dy[k]}
             /\ sox[k] # sto[k] => dn[k] < dx[k] /\ sox[k] = dx[k]
  <2>1. /\ sox[k] = IF k \in st THEN mp[w][k] ELSE sto[k]
        /\ dx[k] = IF sox[k] # sto[k] THEN sox[k] ELSE dn[k]
    BY DEF Stored, LastOf
  <2>2. CommitOf(mp[w][k], dn[k], dy[k], sto[k], sox[k], dx[k])
    BY <2>1, CommitStore, Zenon
  <2> QED BY <2>2 DEF CommitOf
<1>2. dx \in [Keys -> Nat] /\ sox \in [Keys -> Nat]
  BY <1>1 DEF Stored, LastOf
<1>3. Writer(ch, mp, pc, st, top, dn, ls, acc)
  BY DEF Both
<1>4. Writer(ch, mx, px, {}, top, dx, ls, acc)
  BY <1>1, <1>2, <1>3, CommitOrder
<1>5. ASSUME NEW k \in Keys, NEW n \in Nat \ {0}, Has(ch, mx, dx, k, n) PROVE Has(ch, mp, dn, k, n)
  <2>1. CASE dx[k] = n
    <3>1. mp[w][k] = n \/ dn[k] = n
      BY <1>1, <2>1
    <3> QED BY <3>1 DEF Has
  <2>2. ASSUME NEW v \in Ws, mx[v][k] = n PROVE Has(ch, mp, dn, k, n)
    <3>1. v # w /\ mp[v][k] = n
      BY <2>2 DEF Committed
    <3> QED BY <3>1 DEF Has
  <2>3. ASSUME NEW v \in Ws, NEW i \in DOMAIN ch[v], ch[v][i].key = k, ch[v][i].value = n
        PROVE  Has(ch, mp, dn, k, n)
    BY <2>3 DEF Has
  <2> QED BY <1>5, <2>1, <2>2, <2>3 DEF Has
<1>6. Apart(ch, mx, dx, cy, my, dy)
  BY <1>5, Zenon DEF Both, Apart
<1>7. Forwards(sto, sox, dn, dx)
  BY <1>1 DEF Forwards
<1> QED BY <1>1, <1>2, <1>4, <1>6, <1>7, Zenon DEF Both

-----------------------------------------------------------------------------
(* A flush fails: the map of a worker is thrown away.                       *)

Thrown(mp, pc, ls, mx, px, lx, w) ==
    /\ pc[w] = "txn" \/ \A v \in Ws : pc[v] # "txn"
    /\ mx \in [Ws -> [Keys -> Nat]] /\ (\A k \in Keys : mx[w][k] = 0)
    /\ \A v \in Ws : v # w => mx[v] = mp[v]
    /\ px \in [Ws -> Points] /\ px[w] # "txn" /\ \A v \in Ws : v # w => px[v] = pc[v]
    /\ lx = [k \in Keys |-> IF ls[k] > mp[w][k] THEN ls[k] ELSE mp[w][k]]

LEMMA FailOrder ==
    ASSUME NEW ch, NEW mp, NEW pc, NEW st, NEW top, NEW dn, NEW ls, NEW acc,
           Writer(ch, mp, pc, st, top, dn, ls, acc),
           NEW w \in Ws, NEW mx, NEW px, NEW lx, Thrown(mp, pc, ls, mx, px, lx, w)
    PROVE  Writer(ch, mx, px, {}, top, dn, lx, acc)
<1>1. /\ ch \in [Ws -> Seq(Req)] /\ mp \in [Ws -> [Keys -> Nat]]
      /\ top \in [Keys -> Nat] /\ dn \in [Keys -> Nat] /\ ls \in [Keys -> Nat]
      /\ \A k \in Keys : ls[k] <= top[k] /\ dn[k] <= top[k]
  BY DEF Writer, WriterTyped, LostBelow
<1>2. /\ mx \in [Ws -> [Keys -> Nat]] /\ (\A k \in Keys : mx[w][k] = 0)
      /\ \A v \in Ws : v # w => mx[v] = mp[v]
      /\ px \in [Ws -> Points] /\ px[w] # "txn" /\ \A v \in Ws : v # w => px[v] = pc[v]
  BY DEF Thrown
<1>3. ASSUME NEW v \in Ws, NEW k \in Keys, mp[v][k] # 0
      PROVE  Owner(k) = v /\ dn[k] < mp[v][k] /\ mp[v][k] <= top[k]
  BY <1>3 DEF Writer, MapAbove
<1>4. ASSUME NEW k \in Keys
      PROVE  /\ lx[k] = (IF ls[k] > mp[w][k] THEN ls[k] ELSE mp[w][k]) /\ lx[k] \in Nat /\ lx[k] <= top[k]
             /\ ls[k] = top[k] \/ mp[w][k] = top[k] => lx[k] = top[k]
  <2>1. lx[k] = IF ls[k] > mp[w][k] THEN ls[k] ELSE mp[w][k]
    BY DEF Thrown
  <2>2. mp[w][k] \in Nat /\ ls[k] \in Nat /\ top[k] \in Nat /\ ls[k] <= top[k]
    BY <1>1
  <2>3. mp[w][k] <= top[k]
    BY <1>3, <2>2
  <2> QED BY <2>1, <2>2, <2>3
<1>5. LostBelow(top, lx)
  <2>1. lx \in [Keys -> Nat]
    BY <1>4 DEF Thrown
  <2> QED BY <1>4, <2>1 DEF LostBelow
<1>6. WriterTyped(ch, mx, px, {}, top, dn)
  BY <1>1, <1>2 DEF WriterTyped
<1>7. QueueAbove(ch, mx, top, dn)
  <2> SUFFICES ASSUME NEW v \in Ws, NEW i \in DOMAIN ch[v]
               PROVE  /\ Owner(ch[v][i].key) = v
                      /\ dn[ch[v][i].key] < ch[v][i].value
                      /\ mx[v][ch[v][i].key] < ch[v][i].value
                      /\ ch[v][i].value <= top[ch[v][i].key]
    BY DEF QueueAbove
  <2>1. PICK q \in Req : q = ch[v][i] /\ q.key \in Keys /\ q.value \in Nat
    BY <1>1, ChannelTyped, ZenonT(60)
  <2>2. Owner(q.key) = v /\ dn[q.key] < q.value /\ mp[v][q.key] < q.value /\ q.value <= top[q.key]
    BY <2>1 DEF Writer, QueueAbove
  <2>3. mx[v][q.key] < q.value
    <3>1. CASE v = w
      <4>1. mx[v][q.key] = 0 /\ mp[v][q.key] \in Nat
        BY <1>1, <1>2, <2>1, <3>1
      <4> QED BY <2>1, <2>2, <4>1
    <3>2. CASE v # w
      <4>1. mx[v] = mp[v]
        BY <1>2, <3>2
      <4> QED BY <2>2, <4>1
    <3> QED BY <3>1, <3>2
  <2> QED BY <2>1, <2>2, <2>3
<1>8. MapAbove(mx, top, dn)
  <2> SUFFICES ASSUME NEW v \in Ws, NEW k \in Keys, mx[v][k] # 0
               PROVE  Owner(k) = v /\ dn[k] < mx[v][k] /\ mx[v][k] <= top[k]
    BY DEF MapAbove
  <2>1. v # w /\ mx[v][k] = mp[v][k]
    BY <1>2
  <2> QED BY <1>3, <2>1
<1>9. Staging(mx, px, {})
  <2>1. \A v \in Ws : px[v] # "txn"
    BY <1>2 DEF Thrown, Writer, Staging
  <2> QED BY <2>1 DEF Staging
<1>10. Accounted(ch, mx, top, dn, lx)
  <2> SUFFICES ASSUME NEW k \in Keys
               PROVE  \/ top[k] \in {dn[k], lx[k]}
                      \/ \E v \in Ws : mx[v][k] = top[k]
                      \/ \E v \in Ws : \E i \in DOMAIN ch[v] : ch[v][i].key = k /\ ch[v][i].value = top[k]
    BY DEF Accounted
  <2>1. \/ top[k] \in {dn[k], ls[k]}
        \/ \E v \in Ws : mp[v][k] = top[k]
        \/ \E v \in Ws : \E i \in DOMAIN ch[v] : ch[v][i].key = k /\ ch[v][i].value = top[k]
    BY Zenon DEF Writer, Accounted
  <2>2. ASSUME NEW v \in Ws, mp[v][k] = top[k] PROVE top[k] = lx[k] \/ mx[v][k] = top[k]
    BY <1>2, <1>4, <2>2
  <2> QED BY <1>4, <2>1, <2>2
<1>11. QueueOrder(ch) /\ acc \in [Keys -> Nat] /\ \A k \in Keys : dn[k] <= top[k] /\ top[k] <= acc[k]
  BY DEF Writer
<1> QED BY <1>5, <1>6, <1>7, <1>8, <1>9, <1>10, <1>11, Zenon DEF Writer

LEMMA FailKeeps ==
    ASSUME NEW ch, NEW mp, NEW pc, NEW st, NEW top, NEW dn, NEW ls,
           NEW cy, NEW my, NEW py, NEW sy, NEW ty, NEW dy, NEW ly, NEW acc, NEW sto,
           Both(ch, mp, pc, st, top, dn, ls, cy, my, py, sy, ty, dy, ly, acc, sto),
           NEW w \in Ws, NEW mx, NEW px, NEW lx, Thrown(mp, pc, ls, mx, px, lx, w)
    PROVE  Both(ch, mx, px, {}, top, dn, lx, cy, my, py, sy, ty, dy, ly, acc, sto)
<1>1. Writer(ch, mp, pc, st, top, dn, ls, acc)
  BY DEF Both
<1>2. Writer(ch, mx, px, {}, top, dn, lx, acc)
  BY <1>1, FailOrder
<1>3. ASSUME NEW k \in Keys, NEW n \in Nat \ {0}, Has(ch, mx, dn, k, n) PROVE Has(ch, mp, dn, k, n)
  <2>1. ASSUME NEW v \in Ws, mx[v][k] = n PROVE mp[v][k] = n
    BY <2>1 DEF Thrown
  <2> QED BY <1>3, <2>1, Zenon DEF Has
<1>4. Apart(ch, mx, dn, cy, my, dy)
  BY <1>3, Zenon DEF Both, Apart
<1> QED BY <1>2, <1>4, Zenon DEF Both

-----------------------------------------------------------------------------
(* The two writers of TransportWriters.                                     *)

\* What a process that has ended left behind.
Ended ==
    \A k \in Keys :
        /\ store[k] \in {done["quic"][k], done["tcp"][k]}
        /\ newest["quic"][k] \in {done["quic"][k], lostQ[k]} \/ accepted[k] = lostQ[k]
        /\ newest["tcp"][k] \in {done["tcp"][k], lostT[k]} \/ accepted[k] = lostT[k]

Serving ==
    Both(chanQ, mapQ, pcQ, stagedQ, newest["quic"], done["quic"], lostQ,
         chanT, mapT, pcT, stagedT, newest["tcp"], done["tcp"], lostT, accepted, store)

HistoryTyped ==
    /\ newest \in [Transports -> [Keys -> Nat]] /\ done \in [Transports -> [Keys -> Nat]]
    /\ callQ \in [Callers -> Keys \cup {NoKey}] /\ callT \in [Callers -> Keys \cup {NoKey}]

\* The inductive invariant.
SharedInv == HistoryTyped /\ (alive => Serving) /\ (~alive => Ended)

\* What Record notes of a step that neither accepts nor commits, of one that
\* accepts a write, and of one that commits.
LEMMA RecordNothing ==
    ASSUME NEW t \in Transports, HistoryTyped, Record(t), accepted' = accepted, store' = store
    PROVE  newest' = newest /\ done' = done
<1>1. newest[t] \in [Keys -> Nat] /\ done[t] \in [Keys -> Nat]
  BY DEF HistoryTyped
<1>2. /\ newest[t] = [k \in Keys |-> IF accepted'[k] # accepted[k] THEN accepted'[k] ELSE newest[t][k]]
      /\ done[t] = [k \in Keys |-> IF store'[k] # store[k] THEN store'[k] ELSE done[t][k]]
  BY <1>1
<1>3. newest' = [newest EXCEPT ![t] = newest[t]] /\ done' = [done EXCEPT ![t] = done[t]]
  BY <1>2, Zenon DEF Record
<1> QED BY <1>3 DEF HistoryTyped

LEMMA RecordAccepted ==
    ASSUME NEW t \in Transports, HistoryTyped, Record(t), accepted \in [Keys -> Nat], store' = store,
           NEW k \in Keys, accepted' = [accepted EXCEPT ![k] = accepted[k] + 1]
    PROVE  /\ newest' \in [Transports -> [Keys -> Nat]] /\ done' = done
           /\ newest'[t] = [newest[t] EXCEPT ![k] = accepted[k] + 1]
           /\ \A u \in Transports : u # t => newest'[u] = newest[u]
<1>1. newest[t] \in [Keys -> Nat] /\ done[t] \in [Keys -> Nat]
  BY DEF HistoryTyped
<1>2. /\ [newest[t] EXCEPT ![k] = accepted[k] + 1]
            = [j \in Keys |-> IF accepted'[j] # accepted[j] THEN accepted'[j] ELSE newest[t][j]]
      /\ done[t] = [j \in Keys |-> IF store'[j] # store[j] THEN store'[j] ELSE done[t][j]]
  BY <1>1
<1>3. /\ newest' = [newest EXCEPT ![t] = [newest[t] EXCEPT ![k] = accepted[k] + 1]]
      /\ done' = [done EXCEPT ![t] = done[t]]
  BY <1>2, Zenon DEF Record
<1>4. [newest[t] EXCEPT ![k] = accepted[k] + 1] \in [Keys -> Nat]
  BY <1>1
<1> QED BY <1>3, <1>4 DEF HistoryTyped

LEMMA RecordCommitted ==
    ASSUME NEW t \in Transports, HistoryTyped, Record(t), accepted' = accepted, store' \in [Keys -> Nat]
    PROVE  /\ newest' = newest /\ done' \in [Transports -> [Keys -> Nat]]
           /\ done'[t] = [k \in Keys |-> IF store'[k] # store[k] THEN store'[k] ELSE done[t][k]]
           /\ \A u \in Transports : u # t => done'[u] = done[u]
<1>1. newest[t] \in [Keys -> Nat] /\ done[t] \in [Keys -> Nat]
  BY DEF HistoryTyped
<1>2. newest[t] = [k \in Keys |-> IF accepted'[k] # accepted[k] THEN accepted'[k] ELSE newest[t][k]]
  BY <1>1
<1>3. newest' = [newest EXCEPT ![t] = newest[t]]
  BY <1>2, Zenon DEF Record
<1>4. done' = [done EXCEPT ![t] = [k \in Keys |-> IF store'[k] # store[k] THEN store'[k] ELSE done[t][k]]]
  BY Zenon DEF Record
<1>5. [k \in Keys |-> IF store'[k] # store[k] THEN store'[k] ELSE done[t][k]] \in [Keys -> Nat]
  BY <1>1
<1> QED BY <1>3, <1>4, <1>5 DEF HistoryTyped

LEMMA NamesOfTransports == "quic" \in Transports /\ "tcp" \in Transports /\ "quic" # "tcp"
BY DEF Transports

Empty(ch, mp, k) == \A w \in Ws : mp[w][k] = 0 /\ \A i \in DOMAIN ch[w] : ch[w][i].key # k

Settled(top, dn, ls, k) == top[k] \in {dn[k], ls[k]}

\* A writer that holds no write of k has committed the newest it acknowledged,
\* or a failed flush threw that one away.
LEMMA NothingWaits ==
    ASSUME NEW ch, NEW mp, NEW pc, NEW st, NEW top, NEW dn, NEW ls, NEW acc,
           Writer(ch, mp, pc, st, top, dn, ls, acc), NEW k \in Keys, Empty(ch, mp, k)
    PROVE  Settled(top, dn, ls, k)
<1>1. dn[k] \in Nat /\ top[k] \in Nat /\ dn[k] <= top[k]
  BY DEF Writer, WriterTyped
<1>2. top[k] \in {dn[k], ls[k]} \/ top[k] = 0
  BY DEF Writer, Accounted, Empty
<1> QED BY <1>1, <1>2 DEF Settled

LEMMA SharedInit == Init => SharedInv
<1> SUFFICES ASSUME Init PROVE SharedInv
  OBVIOUS
<1> DEFINE Zero == [k \in Keys |-> 0]
           chE == [w \in Ws |-> <<>>]
           mpE == [w \in Ws |-> Zero]
           pcE == [w \in Ws |-> "select"]
<1>1. Writer(chE, mpE, pcE, {}, Zero, Zero, Zero, Zero)
  <2>1. WriterTyped(chE, mpE, pcE, {}, Zero, Zero)
    BY DEF WriterTyped, Points
  <2>2. \A w \in Ws : DOMAIN chE[w] = {}
    OBVIOUS
  <2>3. QueueOrder(chE) /\ QueueAbove(chE, mpE, Zero, Zero)
    BY <2>2 DEF QueueOrder, QueueAbove
  <2>4. MapAbove(mpE, Zero, Zero) /\ Staging(mpE, pcE, {}) /\ Accounted(chE, mpE, Zero, Zero, Zero)
    BY DEF MapAbove, Staging, Accounted
  <2> QED BY <2>1, <2>3, <2>4 DEF Writer, LostBelow
<1>2. Apart(chE, mpE, Zero, chE, mpE, Zero)
  <2>1. \A w \in Ws : DOMAIN chE[w] = {}
    OBVIOUS
  <2>2. \A k \in Keys, n \in Nat \ {0} : ~Has(chE, mpE, Zero, k, n)
    BY <2>1 DEF Has
  <2> QED BY <2>2 DEF Apart
<1>3. Both(chE, mpE, pcE, {}, Zero, Zero, Zero, chE, mpE, pcE, {}, Zero, Zero, Zero, Zero, Zero)
  BY <1>1, <1>2 DEF Both
<1>4. /\ alive = TRUE /\ store = Zero /\ accepted = Zero
      /\ chanQ = chE /\ mapQ = mpE /\ pcQ = pcE /\ stagedQ = {}
      /\ chanT = chE /\ mapT = mpE /\ pcT = pcE /\ stagedT = {}
  BY SameWorkers DEF Init, Q!Init, T!Init, Q!NewBatchWriter, T!NewBatchWriter, Q!None, T!None
<1>5. /\ newest["quic"] = Zero /\ newest["tcp"] = Zero /\ done["quic"] = Zero /\ done["tcp"] = Zero
      /\ lostQ = Zero /\ lostT = Zero
      /\ HistoryTyped
  BY DEF Init, Q!Init, T!Init, Q!None, T!None, HistoryTyped, Transports
<1> HIDE DEF Zero, chE, mpE, pcE
<1>6. Serving
  BY <1>3, <1>4, <1>5, Zenon DEF Serving
<1> QED BY <1>4, <1>5, <1>6 DEF SharedInv

-----------------------------------------------------------------------------
(* Steps of the writer of the QUIC transport.                               *)

QuicBoth ==
    Both(chanQ, mapQ, pcQ, stagedQ, newest["quic"], done["quic"], lostQ,
         chanT, mapT, pcT, stagedT, newest["tcp"], done["tcp"], lostT, accepted, store)

LEMMA QuicServing ==
    ASSUME SharedInv, alive
    PROVE  /\ HistoryTyped /\ QuicBoth /\ accepted \in [Keys -> Nat] /\ store \in [Keys -> Nat]
           /\ chanQ \in [Ws -> Seq(Req)] /\ mapQ \in [Ws -> [Keys -> Nat]]
           /\ pcQ \in [Ws -> Points] /\ stagedQ \in SUBSET Keys
<1>1. HistoryTyped /\ Serving
  BY Zenon DEF SharedInv
<1>2. QuicBoth
  BY <1>1, BothSwapped, Zenon DEF Serving, QuicBoth
<1>3. Writer(chanQ, mapQ, pcQ, stagedQ, newest["quic"], done["quic"], lostQ, accepted) /\ store \in [Keys -> Nat]
  BY <1>2, Zenon DEF QuicBoth, Both
<1> QED BY <1>1, <1>2, <1>3 DEF Writer, WriterTyped

\* Both' of the writers is all that a step of a running one has to keep.
LEMMA QuicKept ==
    ASSUME alive', HistoryTyped',
           Both(chanQ', mapQ', pcQ', stagedQ', newest'["quic"], done'["quic"], lostQ',
                chanT', mapT', pcT', stagedT', newest'["tcp"], done'["tcp"], lostT', accepted', store')
    PROVE  SharedInv'
<1>1. Serving'
  BY BothSwapped, Zenon DEF Serving
<1> QED BY <1>1, Zenon DEF SharedInv

\* A step that changes neither the history, nor the channels and maps.
LEMMA QuicQuietStep ==
    ASSUME SharedInv, alive, alive' = alive, QuicStep,
           accepted' = accepted, lostQ' = lostQ, store' = store, chanQ' = chanQ, mapQ' = mapQ,
           callQ' \in [Callers -> Keys \cup {NoKey}],
           pcQ' \in [Ws -> Points], stagedQ' \in SUBSET Keys, Staging(mapQ, pcQ', stagedQ')
    PROVE  SharedInv'
<1>1. HistoryTyped /\ QuicBoth
  BY QuicServing
<1>2. newest' = newest /\ done' = done
  BY <1>1, RecordNothing, NamesOfTransports DEF QuicStep
<1>3. chanT' = chanT /\ mapT' = mapT /\ pcT' = pcT /\ stagedT' = stagedT /\ callT' = callT
      /\ lostT' = lostT
  BY DEF QuicStep, tcpVars
<1>4. HistoryTyped'
  BY <1>1, <1>2, <1>3 DEF HistoryTyped
<1>5. Both(chanQ, mapQ, pcQ', stagedQ', newest["quic"], done["quic"], lostQ,
           chanT, mapT, pcT, stagedT, newest["tcp"], done["tcp"], lostT, accepted, store)
  BY <1>1, QuietKeeps DEF QuicBoth
<1> QED BY <1>2, <1>3, <1>4, <1>5, QuicKept, Zenon

LEMMA QuicCall ==
    ASSUME SharedInv, NEW c \in Callers, NEW k \in Keys, Q!BufferWriteCall(c, k), QuicStep
    PROVE  SharedInv' /\ store' = store
<1>1. /\ alive /\ alive' = alive /\ accepted' = accepted /\ lostQ' = lostQ /\ store' = store /\ chanQ' = chanQ /\ mapQ' = mapQ
      /\ pcQ' = pcQ /\ stagedQ' = stagedQ /\ callQ' = [callQ EXCEPT ![c] = k]
  BY DEF Q!BufferWriteCall, Q!writerVars, Q!history
<1>2. HistoryTyped /\ QuicBoth /\ pcQ \in [Ws -> Points] /\ stagedQ \in SUBSET Keys
  BY <1>1, QuicServing
<1>3. callQ' \in [Callers -> Keys \cup {NoKey}]
  BY <1>1, <1>2 DEF HistoryTyped
<1>4. Staging(mapQ, pcQ, stagedQ)
  BY <1>2, Zenon DEF QuicBoth, Both, Writer
<1> QED BY <1>1, <1>2, <1>3, <1>4, QuicQuietStep

LEMMA QuicSend ==
    ASSUME SharedInv, NEW c \in Callers, WriteQ(c)
    PROVE  SharedInv' /\ store' = store
<1>1. Q!BufferWriteSend(c) /\ QuicStep
  BY DEF WriteQ
<1>2. alive /\ callQ[c] # NoKey /\ Q!Enqueue(c, Q!WorkerOf(callQ[c]))
  BY <1>1 DEF Q!BufferWriteSend, Q!Send
<1>3. HistoryTyped /\ QuicBoth /\ accepted \in [Keys -> Nat]
  BY <1>2, QuicServing
<1>4. PICK k \in Keys : k = callQ[c]
  BY <1>2, <1>3 DEF HistoryTyped
<1>5. PICK n \in Nat : n = accepted[k] + 1
  BY <1>3
<1>6. /\ chanQ' = [chanQ EXCEPT ![Q!WorkerOf(k)] = Append(@, [key |-> k, value |-> n])]
      /\ accepted' = [accepted EXCEPT ![k] = n] /\ callQ' = [callQ EXCEPT ![c] = NoKey]
      /\ alive' = alive /\ lostQ' = lostQ /\ mapQ' = mapQ /\ pcQ' = pcQ /\ stagedQ' = stagedQ /\ store' = store
  BY <1>2, <1>4, <1>5, Zenon DEF Q!Enqueue
<1>7. Entered(chanQ, chanQ', Owner(k), [key |-> k, value |-> n])
  BY <1>6, SameWorkers, Zenon DEF Entered
<1>8. /\ newest' \in [Transports -> [Keys -> Nat]] /\ done' = done
      /\ newest'["quic"] = [newest["quic"] EXCEPT ![k] = n]
      /\ newest'["tcp"] = newest["tcp"]
  BY <1>1, <1>3, <1>5, <1>6, RecordAccepted, NamesOfTransports DEF QuicStep
<1>9. chanT' = chanT /\ mapT' = mapT /\ pcT' = pcT /\ stagedT' = stagedT /\ callT' = callT
      /\ lostT' = lostT
  BY <1>1 DEF QuicStep, tcpVars
<1>10. HistoryTyped'
  BY <1>3, <1>6, <1>8, <1>9 DEF HistoryTyped
<1>11. Both(chanQ', mapQ, pcQ, stagedQ, newest'["quic"], done["quic"], lostQ,
            chanT, mapT, pcT, stagedT, newest["tcp"], done["tcp"], lostT, accepted', store)
  BY <1>3, <1>5, <1>6, <1>7, <1>8, SendKeeps, ZenonT(60) DEF QuicBoth
<1>12. alive'
  BY <1>2, <1>6
<1> QED BY <1>6, <1>8, <1>9, <1>10, <1>11, <1>12, QuicKept, Zenon

LEMMA QuicReceive ==
    ASSUME SharedInv, NEW w \in Ws, ReceiveQ(w)
    PROVE  SharedInv' /\ store' = store
<1>1. Q!Receive(w) /\ QuicStep
  BY DEF ReceiveQ
<1>2. /\ alive /\ alive' = alive /\ pcQ[w] = "select" /\ chanQ[w] # <<>>
      /\ chanQ' = [chanQ EXCEPT ![w] = Tail(@)]
      /\ mapQ' = [mapQ EXCEPT ![w] = Q!Updated(w)]
      /\ \E x \in {"flush", "select"} : pcQ' = [pcQ EXCEPT ![w] = x]
      /\ stagedQ' = stagedQ /\ store' = store /\ callQ' = callQ /\ accepted' = accepted /\ lostQ' = lostQ
  BY <1>1 DEF Q!Receive, Q!Absorb, Q!history
<1>3. HistoryTyped /\ QuicBoth /\ pcQ \in [Ws -> Points]
  BY <1>2, QuicServing
<1>4. Moved(chanQ, mapQ, chanQ', mapQ', w)
  BY <1>2, Zenon DEF Moved, Taken, Q!Updated
<1>5. pcQ' \in [Ws -> Points] /\ pcQ'[w] # "txn" /\ \A v \in Ws : v # w => pcQ'[v] = pcQ[v]
  BY <1>2, <1>3 DEF Points
<1>6. newest' = newest /\ done' = done
  BY <1>1, <1>2, <1>3, RecordNothing, NamesOfTransports DEF QuicStep
<1>7. chanT' = chanT /\ mapT' = mapT /\ pcT' = pcT /\ stagedT' = stagedT /\ callT' = callT
      /\ lostT' = lostT
  BY <1>1 DEF QuicStep, tcpVars
<1>8. HistoryTyped'
  BY <1>2, <1>3, <1>6, <1>7 DEF HistoryTyped
<1>9. Both(chanQ', mapQ', pcQ', stagedQ, newest["quic"], done["quic"], lostQ,
           chanT, mapT, pcT, stagedT, newest["tcp"], done["tcp"], lostT, accepted, store)
  <2>1. Both(chanQ, mapQ, pcQ, stagedQ, newest["quic"], done["quic"], lostQ,
             chanT, mapT, pcT, stagedT, newest["tcp"], done["tcp"], lostT, accepted, store)
    BY <1>3, Zenon DEF QuicBoth
  <2>2. pcQ[w] = "select"
    BY <1>2
  <2> QED BY <1>4, <1>5, <2>1, <2>2, ReceiveKeeps
<1>10. alive'
  BY <1>2
<1> QED BY <1>2, <1>6, <1>7, <1>8, <1>9, <1>10, QuicKept, Zenon

\* The ticker, or FlushAndStop: the worker goes on to its flush, back or out.
LEMMA QuicTick ==
    ASSUME SharedInv, NEW w \in Ws, TickQ(w) \/ StopQ(w)
    PROVE  SharedInv' /\ store' = store
<1>1. (Q!Tick(w) \/ Q!Stop(w)) /\ QuicStep
  BY DEF TickQ, StopQ
<1>2. /\ alive /\ alive' = alive /\ chanQ' = chanQ /\ mapQ' = mapQ /\ stagedQ' = stagedQ
      /\ store' = store /\ callQ' = callQ /\ accepted' = accepted /\ lostQ' = lostQ
      /\ \E x \in {"flush", "done", "select"} : pcQ' = [pcQ EXCEPT ![w] = x]
  BY <1>1 DEF Q!Tick, Q!Stop, Q!EnterFlush, Q!history
<1>3. HistoryTyped /\ QuicBoth /\ pcQ \in [Ws -> Points] /\ stagedQ \in SUBSET Keys
  BY <1>2, QuicServing
<1>4. pcQ' \in [Ws -> Points] /\ pcQ'[w] # "txn" /\ \A v \in Ws : v # w => pcQ'[v] = pcQ[v]
  BY <1>2, <1>3 DEF Points
<1>5. Staging(mapQ, pcQ, stagedQ)
  BY <1>3, Zenon DEF QuicBoth, Both, Writer
<1>6. Staging(mapQ, pcQ', stagedQ)
  BY <1>4, <1>5, StagingAfterSelect
<1>7. callQ' \in [Callers -> Keys \cup {NoKey}]
  BY <1>2, <1>3 DEF HistoryTyped
<1> QED BY <1>1, <1>2, <1>3, <1>4, <1>6, <1>7, QuicQuietStep

LEMMA QuicBegin ==
    ASSUME SharedInv, NEW w \in Ws, BeginQ(w)
    PROVE  SharedInv' /\ store' = store
<1>1. Q!BeginTxn(w) /\ QuicStep
  BY DEF BeginQ
<1>2. /\ alive /\ alive' = alive /\ chanQ' = chanQ /\ mapQ' = mapQ /\ stagedQ' = {}
      /\ store' = store /\ callQ' = callQ /\ accepted' = accepted /\ lostQ' = lostQ
      /\ pcQ' = [pcQ EXCEPT ![w] = "txn"] /\ \A v \in Ws : pcQ[v] # "txn"
  BY <1>1, SameWorkers DEF Q!BeginTxn, Q!history
<1>3. HistoryTyped /\ pcQ \in [Ws -> Points]
  BY <1>2, QuicServing
<1>4. pcQ' \in [Ws -> Points] /\ \A v \in Ws : v # w => pcQ'[v] = pcQ[v]
  BY <1>2, <1>3 DEF Points
<1>5. Staging(mapQ, pcQ', {})
  BY <1>2, <1>4, StagingAfterBegin
<1>6. callQ' \in [Callers -> Keys \cup {NoKey}]
  BY <1>2, <1>3 DEF HistoryTyped
<1> QED BY <1>1, <1>2, <1>4, <1>5, <1>6, QuicQuietStep

LEMMA QuicPut ==
    ASSUME SharedInv, NEW w \in Ws, NEW k \in Keys, Q!Put(w, k), QuicStep
    PROVE  SharedInv' /\ store' = store
<1>1. /\ alive /\ alive' = alive /\ chanQ' = chanQ /\ mapQ' = mapQ /\ stagedQ' = stagedQ \cup {k}
      /\ store' = store /\ callQ' = callQ /\ accepted' = accepted /\ lostQ' = lostQ
      /\ pcQ' = pcQ /\ pcQ[w] = "txn" /\ mapQ[w][k] # 0
  BY DEF Q!Put, Q!InBuffer, Q!history
<1>2. HistoryTyped /\ QuicBoth /\ pcQ \in [Ws -> Points] /\ stagedQ \in SUBSET Keys
  BY <1>1, QuicServing
<1>3. Staging(mapQ, pcQ, stagedQ)
  BY <1>2, Zenon DEF QuicBoth, Both, Writer
<1>4. Staging(mapQ, pcQ, stagedQ \cup {k})
  BY <1>1, <1>3, StagingAfterPut
<1>5. callQ' \in [Callers -> Keys \cup {NoKey}] /\ stagedQ' \in SUBSET Keys
  BY <1>1, <1>2 DEF HistoryTyped
<1> QED BY <1>1, <1>2, <1>4, <1>5, QuicQuietStep

LEMMA QuicCommit ==
    ASSUME SharedInv, NEW w \in Ws, Q!Commit(w), QuicStep
    PROVE  /\ SharedInv'
           /\ \A k \in Keys : store'[k] # store[k] =>
                done["quic"][k] < done'["quic"][k] /\ store'[k] = done'["quic"][k]
<1>1. /\ alive /\ alive' = alive /\ pcQ[w] = "txn" /\ Q!InBuffer(w) \subseteq stagedQ
      /\ store' = [k \in Keys |-> IF k \in stagedQ THEN mapQ[w][k] ELSE store[k]]
      /\ mapQ' = [mapQ EXCEPT ![w] = Q!None] /\ stagedQ' = {} /\ chanQ' = chanQ
      /\ \E x \in {"done", "select"} : pcQ' = [pcQ EXCEPT ![w] = x]
      /\ callQ' = callQ /\ accepted' = accepted /\ lostQ' = lostQ
  BY DEF Q!Commit, Q!ClearBuffer, Q!history
<1>2. /\ HistoryTyped /\ QuicBoth /\ store \in [Keys -> Nat] /\ mapQ \in [Ws -> [Keys -> Nat]]
      /\ pcQ \in [Ws -> Points]
  BY <1>1, QuicServing
<1>3. Committed(mapQ, pcQ, stagedQ, mapQ', pcQ', w)
  <2>1. \A k \in Keys : mapQ[w][k] # 0 => k \in stagedQ
    BY <1>1 DEF Q!InBuffer
  <2>2. /\ mapQ' \in [Ws -> [Keys -> Nat]] /\ (\A k \in Keys : mapQ'[w][k] = 0)
        /\ \A v \in Ws : v # w => mapQ'[v] = mapQ[v]
    BY <1>1, <1>2 DEF Q!None
  <2>3. pcQ' \in [Ws -> Points] /\ pcQ'[w] # "txn" /\ \A v \in Ws : v # w => pcQ'[v] = pcQ[v]
    BY <1>1, <1>2 DEF Points
  <2> QED BY <1>1, <2>1, <2>2, <2>3, Zenon DEF Committed
<1>4. store' \in [Keys -> Nat]
  BY <1>1, <1>2
<1>5. /\ newest' = newest /\ done' \in [Transports -> [Keys -> Nat]]
      /\ done'["quic"] = [k \in Keys |-> IF store'[k] # store[k] THEN store'[k] ELSE done["quic"][k]]
      /\ done'["tcp"] = done["tcp"]
  BY <1>1, <1>2, <1>4, RecordCommitted, NamesOfTransports DEF QuicStep
<1>6. chanT' = chanT /\ mapT' = mapT /\ pcT' = pcT /\ stagedT' = stagedT /\ callT' = callT
      /\ lostT' = lostT
  BY DEF QuicStep, tcpVars
<1>7. HistoryTyped'
  BY <1>1, <1>2, <1>5, <1>6 DEF HistoryTyped
<1>8. /\ Both(chanQ, mapQ', pcQ', {}, newest["quic"], done'["quic"], lostQ,
              chanT, mapT, pcT, stagedT, newest["tcp"], done["tcp"], lostT, accepted, store')
      /\ \A k \in Keys : store'[k] # store[k] =>
            done["quic"][k] < done'["quic"][k] /\ store'[k] = done'["quic"][k]
  <2>1. Both(chanQ, mapQ, pcQ, stagedQ, newest["quic"], done["quic"], lostQ,
             chanT, mapT, pcT, stagedT, newest["tcp"], done["tcp"], lostT, accepted, store)
    BY <1>2, Zenon DEF QuicBoth
  <2>2. /\ Stored(mapQ, stagedQ, w, store, store')
        /\ LastOf(store, store', done["quic"], done'["quic"])
    BY <1>1, <1>5, Zenon DEF Stored, LastOf
  <2>3. chanQ' = chanQ
    BY <1>1
  <2>4. /\ Both(chanQ, mapQ', pcQ', {}, newest["quic"], done'["quic"], lostQ,
                chanT, mapT, pcT, stagedT, newest["tcp"], done["tcp"], lostT, accepted, store')
        /\ Forwards(store, store', done["quic"], done'["quic"])
    BY <1>3, <2>1, <2>2, CommitKeeps, Zenon
  <2>5. \A k \in Keys : store'[k] # store[k] =>
            done["quic"][k] < done'["quic"][k] /\ store'[k] = done'["quic"][k]
    BY <2>4, Zenon DEF Forwards
  <2> QED BY <2>3, <2>4, <2>5, Zenon
<1>9. alive'
  BY <1>1
<1>10. SharedInv'
  BY <1>1, <1>5, <1>6, <1>7, <1>8, <1>9, QuicKept, Zenon
<1> QED BY <1>8, <1>10

\* env.Update fails: the map is cleared and what it held is noted as lost.
LEMMA QuicFail ==
    ASSUME SharedInv, NEW w \in Ws, FailQ(w)
    PROVE  SharedInv' /\ store' = store
<1>1. Q!FlushError(w) /\ QuicStep
  BY DEF FailQ
<1>2. /\ alive /\ alive' = alive /\ chanQ' = chanQ /\ stagedQ' = {} /\ store' = store
      /\ callQ' = callQ /\ accepted' = accepted
      /\ mapQ' = [mapQ EXCEPT ![w] = Q!None]
      /\ \E x \in {"done", "select"} : pcQ' = [pcQ EXCEPT ![w] = x]
      /\ pcQ[w] = "txn" \/ \A v \in Ws : pcQ[v] # "txn"
      /\ lostQ' = [k \in Keys |-> IF lostQ[k] > mapQ[w][k] THEN lostQ[k] ELSE mapQ[w][k]]
  BY <1>1, SameWorkers DEF Q!FlushError, Q!ClearBuffer, Q!Larger
<1>3. /\ HistoryTyped /\ QuicBoth /\ mapQ \in [Ws -> [Keys -> Nat]] /\ pcQ \in [Ws -> Points]
  BY <1>2, QuicServing
<1>4. Thrown(mapQ, pcQ, lostQ, mapQ', pcQ', lostQ', w)
  <2>1. /\ mapQ' \in [Ws -> [Keys -> Nat]] /\ (\A k \in Keys : mapQ'[w][k] = 0)
        /\ \A v \in Ws : v # w => mapQ'[v] = mapQ[v]
    BY <1>2, <1>3 DEF Q!None
  <2>2. pcQ' \in [Ws -> Points] /\ pcQ'[w] # "txn" /\ \A v \in Ws : v # w => pcQ'[v] = pcQ[v]
    BY <1>2, <1>3 DEF Points
  <2> QED BY <1>2, <2>1, <2>2, Zenon DEF Thrown
<1>5. newest' = newest /\ done' = done
  BY <1>1, <1>2, <1>3, RecordNothing, NamesOfTransports DEF QuicStep
<1>6. chanT' = chanT /\ mapT' = mapT /\ pcT' = pcT /\ stagedT' = stagedT /\ callT' = callT
      /\ lostT' = lostT
  BY <1>1 DEF QuicStep, tcpVars
<1>7. HistoryTyped'
  BY <1>2, <1>3, <1>5, <1>6 DEF HistoryTyped
<1>8. Both(chanQ, mapQ', pcQ', {}, newest["quic"], done["quic"], lostQ',
           chanT, mapT, pcT, stagedT, newest["tcp"], done["tcp"], lostT, accepted, store)
  <2>1. Both(chanQ, mapQ, pcQ, stagedQ, newest["quic"], done["quic"], lostQ,
             chanT, mapT, pcT, stagedT, newest["tcp"], done["tcp"], lostT, accepted, store)
    BY <1>3, Zenon DEF QuicBoth
  <2> QED BY <1>4, <2>1, FailKeeps, Zenon
<1>9. alive'
  BY <1>2
<1> QED BY <1>2, <1>5, <1>6, <1>7, <1>8, <1>9, QuicKept, Zenon

-----------------------------------------------------------------------------
(* Steps of the writer of the TCP transport, which nobody stops.            *)

TcpBoth ==
    Both(chanT, mapT, pcT, stagedT, newest["tcp"], done["tcp"], lostT,
         chanQ, mapQ, pcQ, stagedQ, newest["quic"], done["quic"], lostQ, accepted, store)

LEMMA TcpServing ==
    ASSUME SharedInv, alive
    PROVE  /\ HistoryTyped /\ TcpBoth /\ accepted \in [Keys -> Nat] /\ store \in [Keys -> Nat]
           /\ chanT \in [Ws -> Seq(Req)] /\ mapT \in [Ws -> [Keys -> Nat]]
           /\ pcT \in [Ws -> Points] /\ stagedT \in SUBSET Keys
<1>1. HistoryTyped /\ Serving
  BY Zenon DEF SharedInv
<1>2. TcpBoth
  BY <1>1, BothSwapped, Zenon DEF Serving, TcpBoth
<1>3. Writer(chanT, mapT, pcT, stagedT, newest["tcp"], done["tcp"], lostT, accepted) /\ store \in [Keys -> Nat]
  BY <1>2, Zenon DEF TcpBoth, Both
<1> QED BY <1>1, <1>2, <1>3 DEF Writer, WriterTyped

\* Both' of the writers is all that a step of a running one has to keep.
LEMMA TcpKept ==
    ASSUME alive', HistoryTyped',
           Both(chanT', mapT', pcT', stagedT', newest'["tcp"], done'["tcp"], lostT',
                chanQ', mapQ', pcQ', stagedQ', newest'["quic"], done'["quic"], lostQ', accepted', store')
    PROVE  SharedInv'
<1>1. Serving'
  BY BothSwapped, Zenon DEF Serving
<1> QED BY <1>1, Zenon DEF SharedInv

\* A step that changes neither the history, nor the channels and maps.
LEMMA TcpQuietStep ==
    ASSUME SharedInv, alive, alive' = alive, TcpStep,
           accepted' = accepted, lostT' = lostT, store' = store, chanT' = chanT, mapT' = mapT,
           callT' \in [Callers -> Keys \cup {NoKey}],
           pcT' \in [Ws -> Points], stagedT' \in SUBSET Keys, Staging(mapT, pcT', stagedT')
    PROVE  SharedInv'
<1>1. HistoryTyped /\ TcpBoth
  BY TcpServing
<1>2. newest' = newest /\ done' = done
  BY <1>1, RecordNothing, NamesOfTransports DEF TcpStep
<1>3. chanQ' = chanQ /\ mapQ' = mapQ /\ pcQ' = pcQ /\ stagedQ' = stagedQ /\ callQ' = callQ
      /\ lostQ' = lostQ
  BY DEF TcpStep, quicVars
<1>4. HistoryTyped'
  BY <1>1, <1>2, <1>3 DEF HistoryTyped
<1>5. Both(chanT, mapT, pcT', stagedT', newest["tcp"], done["tcp"], lostT,
           chanQ, mapQ, pcQ, stagedQ, newest["quic"], done["quic"], lostQ, accepted, store)
  BY <1>1, QuietKeeps DEF TcpBoth
<1> QED BY <1>2, <1>3, <1>4, <1>5, TcpKept, Zenon

LEMMA TcpCall ==
    ASSUME SharedInv, NEW c \in Callers, NEW k \in Keys, T!BufferWriteCall(c, k), TcpStep
    PROVE  SharedInv' /\ store' = store
<1>1. /\ alive /\ alive' = alive /\ accepted' = accepted /\ lostT' = lostT /\ store' = store /\ chanT' = chanT /\ mapT' = mapT
      /\ pcT' = pcT /\ stagedT' = stagedT /\ callT' = [callT EXCEPT ![c] = k]
  BY DEF T!BufferWriteCall, T!writerVars, T!history
<1>2. HistoryTyped /\ TcpBoth /\ pcT \in [Ws -> Points] /\ stagedT \in SUBSET Keys
  BY <1>1, TcpServing
<1>3. callT' \in [Callers -> Keys \cup {NoKey}]
  BY <1>1, <1>2 DEF HistoryTyped
<1>4. Staging(mapT, pcT, stagedT)
  BY <1>2, Zenon DEF TcpBoth, Both, Writer
<1> QED BY <1>1, <1>2, <1>3, <1>4, TcpQuietStep

LEMMA TcpSend ==
    ASSUME SharedInv, NEW c \in Callers, WriteT(c)
    PROVE  SharedInv' /\ store' = store
<1>1. T!BufferWriteSend(c) /\ TcpStep
  BY DEF WriteT
<1>2. alive /\ callT[c] # NoKey /\ T!Enqueue(c, T!WorkerOf(callT[c]))
  BY <1>1 DEF T!BufferWriteSend, T!Send
<1>3. HistoryTyped /\ TcpBoth /\ accepted \in [Keys -> Nat]
  BY <1>2, TcpServing
<1>4. PICK k \in Keys : k = callT[c]
  BY <1>2, <1>3 DEF HistoryTyped
<1>5. PICK n \in Nat : n = accepted[k] + 1
  BY <1>3
<1>6. /\ chanT' = [chanT EXCEPT ![T!WorkerOf(k)] = Append(@, [key |-> k, value |-> n])]
      /\ accepted' = [accepted EXCEPT ![k] = n] /\ callT' = [callT EXCEPT ![c] = NoKey]
      /\ alive' = alive /\ lostT' = lostT /\ mapT' = mapT /\ pcT' = pcT /\ stagedT' = stagedT /\ store' = store
  BY <1>2, <1>4, <1>5, Zenon DEF T!Enqueue
<1>7. Entered(chanT, chanT', Owner(k), [key |-> k, value |-> n])
  BY <1>6, SameWorkers, Zenon DEF Entered
<1>8. /\ newest' \in [Transports -> [Keys -> Nat]] /\ done' = done
      /\ newest'["tcp"] = [newest["tcp"] EXCEPT ![k] = n]
      /\ newest'["quic"] = newest["quic"]
  BY <1>1, <1>3, <1>5, <1>6, RecordAccepted, NamesOfTransports DEF TcpStep
<1>9. chanQ' = chanQ /\ mapQ' = mapQ /\ pcQ' = pcQ /\ stagedQ' = stagedQ /\ callQ' = callQ
      /\ lostQ' = lostQ
  BY <1>1 DEF TcpStep, quicVars
<1>10. HistoryTyped'
  BY <1>3, <1>6, <1>8, <1>9 DEF HistoryTyped
<1>11. Both(chanT', mapT, pcT, stagedT, newest'["tcp"], done["tcp"], lostT,
            chanQ, mapQ, pcQ, stagedQ, newest["quic"], done["quic"], lostQ, accepted', store)
  BY <1>3, <1>5, <1>6, <1>7, <1>8, SendKeeps, ZenonT(60) DEF TcpBoth
<1>12. alive'
  BY <1>2, <1>6
<1> QED BY <1>6, <1>8, <1>9, <1>10, <1>11, <1>12, TcpKept, Zenon

LEMMA TcpReceive ==
    ASSUME SharedInv, NEW w \in Ws, ReceiveT(w)
    PROVE  SharedInv' /\ store' = store
<1>1. T!Receive(w) /\ TcpStep
  BY DEF ReceiveT
<1>2. /\ alive /\ alive' = alive /\ pcT[w] = "select" /\ chanT[w] # <<>>
      /\ chanT' = [chanT EXCEPT ![w] = Tail(@)]
      /\ mapT' = [mapT EXCEPT ![w] = T!Updated(w)]
      /\ \E x \in {"flush", "select"} : pcT' = [pcT EXCEPT ![w] = x]
      /\ stagedT' = stagedT /\ store' = store /\ callT' = callT /\ accepted' = accepted /\ lostT' = lostT
  BY <1>1 DEF T!Receive, T!Absorb, T!history
<1>3. HistoryTyped /\ TcpBoth /\ pcT \in [Ws -> Points]
  BY <1>2, TcpServing
<1>4. Moved(chanT, mapT, chanT', mapT', w)
  BY <1>2, Zenon DEF Moved, Taken, T!Updated
<1>5. pcT' \in [Ws -> Points] /\ pcT'[w] # "txn" /\ \A v \in Ws : v # w => pcT'[v] = pcT[v]
  BY <1>2, <1>3 DEF Points
<1>6. newest' = newest /\ done' = done
  BY <1>1, <1>2, <1>3, RecordNothing, NamesOfTransports DEF TcpStep
<1>7. chanQ' = chanQ /\ mapQ' = mapQ /\ pcQ' = pcQ /\ stagedQ' = stagedQ /\ callQ' = callQ
      /\ lostQ' = lostQ
  BY <1>1 DEF TcpStep, quicVars
<1>8. HistoryTyped'
  BY <1>2, <1>3, <1>6, <1>7 DEF HistoryTyped
<1>9. Both(chanT', mapT', pcT', stagedT, newest["tcp"], done["tcp"], lostT,
           chanQ, mapQ, pcQ, stagedQ, newest["quic"], done["quic"], lostQ, accepted, store)
  <2>1. Both(chanT, mapT, pcT, stagedT, newest["tcp"], done["tcp"], lostT,
             chanQ, mapQ, pcQ, stagedQ, newest["quic"], done["quic"], lostQ, accepted, store)
    BY <1>3, Zenon DEF TcpBoth
  <2>2. pcT[w] = "select"
    BY <1>2
  <2> QED BY <1>4, <1>5, <2>1, <2>2, ReceiveKeeps
<1>10. alive'
  BY <1>2
<1> QED BY <1>2, <1>6, <1>7, <1>8, <1>9, <1>10, TcpKept, Zenon

\* The ticker: the worker goes on to its flush, back or out.
LEMMA TcpTick ==
    ASSUME SharedInv, NEW w \in Ws, TickT(w)
    PROVE  SharedInv' /\ store' = store
<1>1. (T!Tick(w)) /\ TcpStep
  BY DEF TickT
<1>2. /\ alive /\ alive' = alive /\ chanT' = chanT /\ mapT' = mapT /\ stagedT' = stagedT
      /\ store' = store /\ callT' = callT /\ accepted' = accepted /\ lostT' = lostT
      /\ \E x \in {"flush", "done", "select"} : pcT' = [pcT EXCEPT ![w] = x]
  BY <1>1 DEF T!Tick, T!EnterFlush, T!history
<1>3. HistoryTyped /\ TcpBoth /\ pcT \in [Ws -> Points] /\ stagedT \in SUBSET Keys
  BY <1>2, TcpServing
<1>4. pcT' \in [Ws -> Points] /\ pcT'[w] # "txn" /\ \A v \in Ws : v # w => pcT'[v] = pcT[v]
  BY <1>2, <1>3 DEF Points
<1>5. Staging(mapT, pcT, stagedT)
  BY <1>3, Zenon DEF TcpBoth, Both, Writer
<1>6. Staging(mapT, pcT', stagedT)
  BY <1>4, <1>5, StagingAfterSelect
<1>7. callT' \in [Callers -> Keys \cup {NoKey}]
  BY <1>2, <1>3 DEF HistoryTyped
<1> QED BY <1>1, <1>2, <1>3, <1>4, <1>6, <1>7, TcpQuietStep

LEMMA TcpBegin ==
    ASSUME SharedInv, NEW w \in Ws, BeginT(w)
    PROVE  SharedInv' /\ store' = store
<1>1. T!BeginTxn(w) /\ TcpStep
  BY DEF BeginT
<1>2. /\ alive /\ alive' = alive /\ chanT' = chanT /\ mapT' = mapT /\ stagedT' = {}
      /\ store' = store /\ callT' = callT /\ accepted' = accepted /\ lostT' = lostT
      /\ pcT' = [pcT EXCEPT ![w] = "txn"] /\ \A v \in Ws : pcT[v] # "txn"
  BY <1>1, SameWorkers DEF T!BeginTxn, T!history
<1>3. HistoryTyped /\ pcT \in [Ws -> Points]
  BY <1>2, TcpServing
<1>4. pcT' \in [Ws -> Points] /\ \A v \in Ws : v # w => pcT'[v] = pcT[v]
  BY <1>2, <1>3 DEF Points
<1>5. Staging(mapT, pcT', {})
  BY <1>2, <1>4, StagingAfterBegin
<1>6. callT' \in [Callers -> Keys \cup {NoKey}]
  BY <1>2, <1>3 DEF HistoryTyped
<1> QED BY <1>1, <1>2, <1>4, <1>5, <1>6, TcpQuietStep

LEMMA TcpPut ==
    ASSUME SharedInv, NEW w \in Ws, NEW k \in Keys, T!Put(w, k), TcpStep
    PROVE  SharedInv' /\ store' = store
<1>1. /\ alive /\ alive' = alive /\ chanT' = chanT /\ mapT' = mapT /\ stagedT' = stagedT \cup {k}
      /\ store' = store /\ callT' = callT /\ accepted' = accepted /\ lostT' = lostT
      /\ pcT' = pcT /\ pcT[w] = "txn" /\ mapT[w][k] # 0
  BY DEF T!Put, T!InBuffer, T!history
<1>2. HistoryTyped /\ TcpBoth /\ pcT \in [Ws -> Points] /\ stagedT \in SUBSET Keys
  BY <1>1, TcpServing
<1>3. Staging(mapT, pcT, stagedT)
  BY <1>2, Zenon DEF TcpBoth, Both, Writer
<1>4. Staging(mapT, pcT, stagedT \cup {k})
  BY <1>1, <1>3, StagingAfterPut
<1>5. callT' \in [Callers -> Keys \cup {NoKey}] /\ stagedT' \in SUBSET Keys
  BY <1>1, <1>2 DEF HistoryTyped
<1> QED BY <1>1, <1>2, <1>4, <1>5, TcpQuietStep

LEMMA TcpCommit ==
    ASSUME SharedInv, NEW w \in Ws, T!Commit(w), TcpStep
    PROVE  /\ SharedInv'
           /\ \A k \in Keys : store'[k] # store[k] =>
                done["tcp"][k] < done'["tcp"][k] /\ store'[k] = done'["tcp"][k]
<1>1. /\ alive /\ alive' = alive /\ pcT[w] = "txn" /\ T!InBuffer(w) \subseteq stagedT
      /\ store' = [k \in Keys |-> IF k \in stagedT THEN mapT[w][k] ELSE store[k]]
      /\ mapT' = [mapT EXCEPT ![w] = T!None] /\ stagedT' = {} /\ chanT' = chanT
      /\ \E x \in {"done", "select"} : pcT' = [pcT EXCEPT ![w] = x]
      /\ callT' = callT /\ accepted' = accepted /\ lostT' = lostT
  BY DEF T!Commit, T!ClearBuffer, T!history
<1>2. /\ HistoryTyped /\ TcpBoth /\ store \in [Keys -> Nat] /\ mapT \in [Ws -> [Keys -> Nat]]
      /\ pcT \in [Ws -> Points]
  BY <1>1, TcpServing
<1>3. Committed(mapT, pcT, stagedT, mapT', pcT', w)
  <2>1. \A k \in Keys : mapT[w][k] # 0 => k \in stagedT
    BY <1>1 DEF T!InBuffer
  <2>2. /\ mapT' \in [Ws -> [Keys -> Nat]] /\ (\A k \in Keys : mapT'[w][k] = 0)
        /\ \A v \in Ws : v # w => mapT'[v] = mapT[v]
    BY <1>1, <1>2 DEF T!None
  <2>3. pcT' \in [Ws -> Points] /\ pcT'[w] # "txn" /\ \A v \in Ws : v # w => pcT'[v] = pcT[v]
    BY <1>1, <1>2 DEF Points
  <2> QED BY <1>1, <2>1, <2>2, <2>3, Zenon DEF Committed
<1>4. store' \in [Keys -> Nat]
  BY <1>1, <1>2
<1>5. /\ newest' = newest /\ done' \in [Transports -> [Keys -> Nat]]
      /\ done'["tcp"] = [k \in Keys |-> IF store'[k] # store[k] THEN store'[k] ELSE done["tcp"][k]]
      /\ done'["quic"] = done["quic"]
  BY <1>1, <1>2, <1>4, RecordCommitted, NamesOfTransports DEF TcpStep
<1>6. chanQ' = chanQ /\ mapQ' = mapQ /\ pcQ' = pcQ /\ stagedQ' = stagedQ /\ callQ' = callQ
      /\ lostQ' = lostQ
  BY DEF TcpStep, quicVars
<1>7. HistoryTyped'
  BY <1>1, <1>2, <1>5, <1>6 DEF HistoryTyped
<1>8. /\ Both(chanT, mapT', pcT', {}, newest["tcp"], done'["tcp"], lostT,
              chanQ, mapQ, pcQ, stagedQ, newest["quic"], done["quic"], lostQ, accepted, store')
      /\ \A k \in Keys : store'[k] # store[k] =>
            done["tcp"][k] < done'["tcp"][k] /\ store'[k] = done'["tcp"][k]
  <2>1. Both(chanT, mapT, pcT, stagedT, newest["tcp"], done["tcp"], lostT,
             chanQ, mapQ, pcQ, stagedQ, newest["quic"], done["quic"], lostQ, accepted, store)
    BY <1>2, Zenon DEF TcpBoth
  <2>2. /\ Stored(mapT, stagedT, w, store, store')
        /\ LastOf(store, store', done["tcp"], done'["tcp"])
    BY <1>1, <1>5, Zenon DEF Stored, LastOf
  <2>3. chanT' = chanT
    BY <1>1
  <2>4. /\ Both(chanT, mapT', pcT', {}, newest["tcp"], done'["tcp"], lostT,
                chanQ, mapQ, pcQ, stagedQ, newest["quic"], done["quic"], lostQ, accepted, store')
        /\ Forwards(store, store', done["tcp"], done'["tcp"])
    BY <1>3, <2>1, <2>2, CommitKeeps, Zenon
  <2>5. \A k \in Keys : store'[k] # store[k] =>
            done["tcp"][k] < done'["tcp"][k] /\ store'[k] = done'["tcp"][k]
    BY <2>4, Zenon DEF Forwards
  <2> QED BY <2>3, <2>4, <2>5, Zenon
<1>9. alive'
  BY <1>1
<1>10. SharedInv'
  BY <1>1, <1>5, <1>6, <1>7, <1>8, <1>9, TcpKept, Zenon
<1> QED BY <1>8, <1>10

\* env.Update fails: the map is cleared and what it held is noted as lost.
LEMMA TcpFail ==
    ASSUME SharedInv, NEW w \in Ws, FailT(w)
    PROVE  SharedInv' /\ store' = store
<1>1. T!FlushError(w) /\ TcpStep
  BY DEF FailT
<1>2. /\ alive /\ alive' = alive /\ chanT' = chanT /\ stagedT' = {} /\ store' = store
      /\ callT' = callT /\ accepted' = accepted
      /\ mapT' = [mapT EXCEPT ![w] = T!None]
      /\ \E x \in {"done", "select"} : pcT' = [pcT EXCEPT ![w] = x]
      /\ pcT[w] = "txn" \/ \A v \in Ws : pcT[v] # "txn"
      /\ lostT' = [k \in Keys |-> IF lostT[k] > mapT[w][k] THEN lostT[k] ELSE mapT[w][k]]
  BY <1>1, SameWorkers DEF T!FlushError, T!ClearBuffer, T!Larger
<1>3. /\ HistoryTyped /\ TcpBoth /\ mapT \in [Ws -> [Keys -> Nat]] /\ pcT \in [Ws -> Points]
  BY <1>2, TcpServing
<1>4. Thrown(mapT, pcT, lostT, mapT', pcT', lostT', w)
  <2>1. /\ mapT' \in [Ws -> [Keys -> Nat]] /\ (\A k \in Keys : mapT'[w][k] = 0)
        /\ \A v \in Ws : v # w => mapT'[v] = mapT[v]
    BY <1>2, <1>3 DEF T!None
  <2>2. pcT' \in [Ws -> Points] /\ pcT'[w] # "txn" /\ \A v \in Ws : v # w => pcT'[v] = pcT[v]
    BY <1>2, <1>3 DEF Points
  <2> QED BY <1>2, <2>1, <2>2, Zenon DEF Thrown
<1>5. newest' = newest /\ done' = done
  BY <1>1, <1>2, <1>3, RecordNothing, NamesOfTransports DEF TcpStep
<1>6. chanQ' = chanQ /\ mapQ' = mapQ /\ pcQ' = pcQ /\ stagedQ' = stagedQ /\ callQ' = callQ
      /\ lostQ' = lostQ
  BY <1>1 DEF TcpStep, quicVars
<1>7. HistoryTyped'
  BY <1>2, <1>3, <1>5, <1>6 DEF HistoryTyped
<1>8. Both(chanT, mapT', pcT', {}, newest["tcp"], done["tcp"], lostT',
           chanQ, mapQ, pcQ, stagedQ, newest["quic"], done["quic"], lostQ, accepted, store)
  <2>1. Both(chanT, mapT, pcT, stagedT, newest["tcp"], done["tcp"], lostT,
             chanQ, mapQ, pcQ, stagedQ, newest["quic"], done["quic"], lostQ, accepted, store)
    BY <1>3, Zenon DEF TcpBoth
  <2> QED BY <1>4, <2>1, FailKeeps, Zenon
<1>9. alive'
  BY <1>2
<1> QED BY <1>2, <1>5, <1>6, <1>7, <1>8, <1>9, TcpKept, Zenon

-----------------------------------------------------------------------------
(* Every step.                                                              *)

LEMMA QuicFlushAndStop ==
    ASSUME SharedInv, Q!FlushAndStop, QuicStep
    PROVE  SharedInv' /\ store' = store
<1>1. /\ alive /\ alive' = alive /\ accepted' = accepted /\ lostQ' = lostQ /\ store' = store /\ chanQ' = chanQ /\ mapQ' = mapQ
      /\ pcQ' = pcQ /\ stagedQ' = stagedQ /\ callQ' = callQ
  BY DEF Q!FlushAndStop, Q!writerVars, Q!history
<1>2. HistoryTyped /\ QuicBoth /\ pcQ \in [Ws -> Points] /\ stagedQ \in SUBSET Keys
  BY <1>1, QuicServing
<1>3. Staging(mapQ, pcQ, stagedQ)
  BY <1>2, Zenon DEF QuicBoth, Both, Writer
<1> QED BY <1>1, <1>2, <1>3, QuicQuietStep DEF HistoryTyped

\* The process ends: of each key a writer either held writes, and the newest
\* acknowledged one is noted as lost, or had committed or dropped its newest.
LEMMA EndStep ==
    ASSUME SharedInv, ServeEnds
    PROVE  SharedInv' /\ store' = store
<1>1. /\ alive /\ alive' = FALSE /\ store' = store /\ accepted' = accepted
      /\ newest' = newest /\ done' = done
      /\ callQ' = [c \in Callers |-> NoKey] /\ callT' = [c \in Callers |-> NoKey]
  BY DEF ServeEnds, Q!Die, T!Die
<1>2. HistoryTyped /\ Serving
  BY <1>1, Zenon DEF SharedInv
<1>3. /\ Writer(chanQ, mapQ, pcQ, stagedQ, newest["quic"], done["quic"], lostQ, accepted)
      /\ Writer(chanT, mapT, pcT, stagedT, newest["tcp"], done["tcp"], lostT, accepted)
      /\ \A k \in Keys : store[k] \in {done["quic"][k], done["tcp"][k]}
  BY <1>2, Zenon DEF Serving, Both
<1>4. HistoryTyped'
  BY <1>1, <1>2 DEF HistoryTyped
<1>5. ASSUME NEW k \in Keys PROVE newest["quic"][k] \in {done["quic"][k], lostQ'[k]} \/ accepted[k] = lostQ'[k]
  <2> DEFINE waits == \E w \in Ws : mapQ[w][k] # 0 \/ \E r \in Q!Queued(w) : r.key = k
  <2>1. lostQ'[k] = IF waits THEN accepted[k] ELSE lostQ[k]
    BY SameWorkers DEF ServeEnds, Q!Die
  <2>2. CASE waits
    BY <2>1, <2>2
  <2>3. CASE ~waits
    <3>1. Empty(chanQ, mapQ, k)
      BY <2>3 DEF Empty, Q!Queued
    <3>2. Settled(newest["quic"], done["quic"], lostQ, k)
      BY <1>3, <3>1, NothingWaits, Zenon
    <3> QED BY <2>1, <2>3, <3>2 DEF Settled
  <2> QED BY <2>2, <2>3
<1>6. ASSUME NEW k \in Keys PROVE newest["tcp"][k] \in {done["tcp"][k], lostT'[k]} \/ accepted[k] = lostT'[k]
  <2> DEFINE waits == \E w \in Ws : mapT[w][k] # 0 \/ \E r \in T!Queued(w) : r.key = k
  <2>1. lostT'[k] = IF waits THEN accepted[k] ELSE lostT[k]
    BY SameWorkers DEF ServeEnds, T!Die
  <2>2. CASE waits
    BY <2>1, <2>2
  <2>3. CASE ~waits
    <3>1. Empty(chanT, mapT, k)
      BY <2>3 DEF Empty, T!Queued
    <3>2. Settled(newest["tcp"], done["tcp"], lostT, k)
      BY <1>3, <3>1, NothingWaits, Zenon
    <3> QED BY <2>1, <2>3, <3>2 DEF Settled
  <2> QED BY <2>2, <2>3
<1>7. Ended'
  BY <1>1, <1>3, <1>5, <1>6, Zenon DEF Ended
<1> QED BY <1>1, <1>4, <1>7, Zenon DEF SharedInv

\* A change of the database is a commit of one transport, from the last write
\* it committed to a later one of its own.
Overtaken ==
    \A k \in Keys : store'[k] # store[k] =>
        \E t \in Transports : done[t][k] < done'[t][k] /\ store'[k] = done'[t][k]

LEMMA SharedStep == SharedInv /\ [Next]_vars => SharedInv' /\ (store' # store => Overtaken)
<1> SUFFICES ASSUME SharedInv, [Next]_vars PROVE SharedInv' /\ (store' # store => Overtaken)
  OBVIOUS
<1>1. ASSUME NEW c \in Callers, NEW k \in Keys,
             (Q!BufferWriteCall(c, k) /\ QuicStep) \/ (T!BufferWriteCall(c, k) /\ TcpStep)
      PROVE  SharedInv' /\ store' = store
  BY <1>1, QuicCall, TcpCall, Zenon
<1>2. ASSUME NEW c \in Callers, WriteQ(c) \/ WriteT(c) PROVE SharedInv' /\ store' = store
  BY <1>2, QuicSend, TcpSend, Zenon
<1>3. ASSUME NEW w \in Ws, ReceiveQ(w) \/ TickQ(w) \/ StopQ(w) \/ ReceiveT(w) \/ TickT(w)
      PROVE  SharedInv' /\ store' = store
  BY <1>3, QuicReceive, QuicTick, TcpReceive, TcpTick, Zenon
<1>4. ASSUME NEW w \in Ws, BeginQ(w) \/ BeginT(w) PROVE SharedInv' /\ store' = store
  BY <1>4, QuicBegin, TcpBegin, Zenon
<1>5. ASSUME NEW w \in Ws, NEW k \in Keys,
             (Q!Put(w, k) /\ QuicStep) \/ (T!Put(w, k) /\ TcpStep)
      PROVE  SharedInv' /\ store' = store
  BY <1>5, QuicPut, TcpPut, Zenon
<1>6. ASSUME NEW w \in Ws, (Q!Commit(w) /\ QuicStep) \/ (T!Commit(w) /\ TcpStep)
      PROVE  SharedInv' /\ Overtaken
  BY <1>6, QuicCommit, TcpCommit, NamesOfTransports, Zenon DEF Overtaken
<1>7. ASSUME NEW w \in Ws, FlushQ(w) \/ FlushT(w) PROVE SharedInv' /\ (store' = store \/ Overtaken)
  BY <1>4, <1>5, <1>6, <1>7, Zenon DEF FlushQ, FlushT
<1>8. CASE Q!FlushAndStop /\ QuicStep
  BY <1>8, QuicFlushAndStop
<1>9. CASE ServeEnds
  BY <1>9, EndStep
<1>10. CASE UNCHANGED vars
  <2>1. /\ alive' = alive /\ accepted' = accepted /\ store' = store /\ newest' = newest /\ done' = done
        /\ chanQ' = chanQ /\ mapQ' = mapQ /\ pcQ' = pcQ /\ stagedQ' = stagedQ /\ callQ' = callQ /\ lostQ' = lostQ
        /\ chanT' = chanT /\ mapT' = mapT /\ pcT' = pcT /\ stagedT' = stagedT /\ callT' = callT /\ lostT' = lostT
    BY <1>10 DEF vars, quicVars, tcpVars
  <2> QED BY <2>1, Zenon DEF SharedInv, HistoryTyped, Serving, Ended
<1>11. ASSUME NEW w \in Ws, FailQ(w) \/ FailT(w) PROVE SharedInv' /\ store' = store
  BY <1>11, QuicFail, TcpFail, Zenon
<1> QED
  BY <1>1, <1>2, <1>3, <1>7, <1>8, <1>9, <1>10, <1>11, SameWorkers, Zenon DEF Next

LEMMA SharedInvHolds == Spec => []SharedInv
<1> QED BY SharedInit, SharedStep, PTL DEF Spec

\* However the two writers interleave their queues, maps and transactions,
\* whichever flushes fail and whenever the process ends: each transport has committed the newest write it
\* acknowledged of a key, still holds writes of it, or lost that newest one in a
\* flush that failed or with the process, and the database has the last commit
\* of one of them.
THEOREM EachWriterSettles == Spec => []SettlesToNewest
<1>1. ASSUME SharedInv, NEW k \in Keys
      PROVE  /\ store[k] \in {done[t][k] : t \in Transports}
             /\ \A t \in Transports :
                  \/ Waiting(t, k)
                  \/ newest[t][k] \in {done[t][k], Dropped(t, k)}
                  \/ ~alive /\ accepted[k] = Dropped(t, k)
  <2>1. CASE alive
    <3>1. /\ Writer(chanQ, mapQ, pcQ, stagedQ, newest["quic"], done["quic"], lostQ, accepted)
          /\ Writer(chanT, mapT, pcT, stagedT, newest["tcp"], done["tcp"], lostT, accepted)
          /\ store[k] \in {done["quic"][k], done["tcp"][k]}
      BY <1>1, <2>1, Zenon DEF SharedInv, Serving, Both
    <3>2. Waiting("quic", k) \/ newest["quic"][k] \in {done["quic"][k], lostQ[k]}
      <4>1. ASSUME ~Waiting("quic", k)
            PROVE  Empty(chanQ, mapQ, k)
        BY <4>1, SameWorkers DEF Empty, Waiting, Q!InBuffer, Q!Queued
      <4>2. ~Waiting("quic", k) => Settled(newest["quic"], done["quic"], lostQ, k)
        BY <3>1, <4>1, NothingWaits, Zenon
      <4> QED BY <4>2 DEF Settled
    <3>3. Waiting("tcp", k) \/ newest["tcp"][k] \in {done["tcp"][k], lostT[k]}
      <4>1. ASSUME ~Waiting("tcp", k)
            PROVE  Empty(chanT, mapT, k)
        BY <4>1, SameWorkers DEF Empty, Waiting, T!InBuffer, T!Queued
      <4>2. ~Waiting("tcp", k) => Settled(newest["tcp"], done["tcp"], lostT, k)
        BY <3>1, <4>1, NothingWaits, Zenon
      <4> QED BY <4>2 DEF Settled
    <3> QED BY <3>1, <3>2, <3>3 DEF Transports, Dropped
  <2>2. CASE ~alive
    <3>1. Ended
      BY <1>1, <2>2, Zenon DEF SharedInv
    <3> QED BY <2>2, <3>1 DEF Ended, Transports, Dropped
  <2> QED BY <2>1, <2>2
<1>2. SharedInv => SettlesToNewest
  BY <1>1, Zenon DEF SettlesToNewest
<1> QED BY <1>2, SharedInvHolds, PTL

\* A key goes back to an older write only where the writes of two transports
\* meet: a commit always moves its own transport forward.
THEOREM OnlyOtherOvertakes == Spec => OvertakenByOther
<1>1. SharedInv /\ [Next]_vars =>
        [\A k \in Keys : store'[k] # store[k] =>
            \E t \in Transports : done[t][k] < done'[t][k] /\ store'[k] = done'[t][k]]_vars
  BY SharedStep, Zenon DEF Overtaken
<1> QED BY <1>1, SharedInvHolds, PTL DEF Spec, OvertakenByOther
====
