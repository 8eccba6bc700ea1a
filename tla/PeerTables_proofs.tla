------------------------- MODULE PeerTables_proofs --------------------------
(***************************************************************************)
(* The inductive invariant of Peer; what keeps the part of it that is      *)
(* about the peer table, the ids, the list of the peers and the            *)
(* descriptors; and the connect timer, which starts a peer and keeps all   *)
(* of it.                                                                  *)
(***************************************************************************)
EXTENDS PeerSteps_proofs

-----------------------------------------------------------------------------
(* The invariant.                                                          *)

\* The unpack callback of an accepted peer does not ask for a close, as the default one
\* does not, which answers IO_PACKET.
DefaultUnpack == "close" \notin Unpack["passive"]

\* What a live peer waits for; what is left of a freed one.
Waits(r) ==
    /\ r.orphans = 0
    /\ r.t_connect = "on" => r.status = "idle" /\ r.t_read # "on" /\ r.t_write # "on"
    /\ Serves(r.t_read) \/ r.t_connect = "on" \/ (r.t_connect = "none" /\ r.t_read = "new")
    /\ r.status = "esta" /\ r.out > 0 => Serves(r.t_write)
    /\ r.quick <=> r.mode = "passive"
    /\ r.mode = "listen" <=> r.link = "listen"
    /\ r.mode = "passive" => r.link = "tcp" /\ r.t_connect # "on"
    /\ r.mode \in {"connect", "passive", "listen"}
    /\ r.link \in {"tcp", "listen", "udp", "ludp", "sdio"}
    /\ r.mode # "connect" /\ r.t_read = "on" => r.registered
Gone(r) ==
    /\ r.t_read # "on" /\ r.t_write # "on" /\ r.t_connect # "on" /\ r.orphans = 0
    /\ r.mode \in {"passive", "listen"}
AllWait(S) == \A p \in Live(S) : Waits(S.peer[p])
AllGone(S) == \A p \in PeerAddr : S.peer[p].mem = "freed" => Gone(S.peer[p])

\* A peer owns its descriptor unless it is waiting for its timer and will get a new one.
Owns(r) == r.fd >= 0 /\ (r.link \in {"tcp", "listen"} \/ r.t_connect # "on")
AllOwn(S) ==
    /\ \A p \in Live(S) : /\ S.peer[p].t_read = "on" => S.peer[p].fd >= 0
                          /\ Owns(S.peer[p]) => S.peer[p].fd \in S.open
    /\ \A p, q \in Live(S) :
        p # q /\ Owns(S.peer[p]) /\ Owns(S.peer[q]) => S.peer[p].fd # S.peer[q].fd

\* peer_list: only live peers, each once; and all of them.
ListedLive(S) ==
    /\ S.list \in Seq(PeerAddr)
    /\ \A i \in 1 .. Len(S.list) : S.list[i] \in Live(S)
    /\ \A i, j \in 1 .. Len(S.list) : i # j => S.list[i] # S.list[j]
AllListed(S) == \A p \in Live(S) : \E i \in 1 .. Len(S.list) : S.list[i] = p

\* peer_hash: backets of peers.  That of an accepted one has its present id as key, and
\* no newer backet has the same.
Backet == [key : Int, data : PeerAddr]
HashBackets(S) ==
    /\ S.hash \in Seq(Backet)
    /\ \A i \in 1 .. Len(S.hash) : S.peer[S.hash[i].data] # NoPeer
HashPassive(S) ==
    \A i \in 1 .. Len(S.hash) :
        S.peer[S.hash[i].data].mode = "passive" =>
            /\ S.peer[S.hash[i].data].mem = "live"
            /\ S.hash[i].key = S.peer[S.hash[i].data].drole
            /\ \A j \in 1 .. (i - 1) : S.hash[j].key # S.hash[i].key
HashCore(S) == HashBackets(S) /\ (DefaultUnpack => HashPassive(S))

\* While the ids last, the keys differ and are below curr, and the registered peers other
\* than those of X have a backet.  A peer that was accepted and not registered has none.
Maker == [start : Int, stop : Int, curr : Int, store : Seq(Nat)]
MidType(S) == S.mid \in Maker
KeysDiffer(S, X) ==
    S.mid.curr # S.mid.stop =>
        /\ \A i, j \in 1 .. Len(S.hash) : i # j => S.hash[i].key # S.hash[j].key
        /\ \A i \in 1 .. Len(S.hash) : S.hash[i].key < S.mid.curr
        /\ \A p \in Live(S) \ X : S.peer[p].registered =>
            \E i \in 1 .. Len(S.hash) : S.hash[i].data = p /\ S.hash[i].key = S.peer[p].drole
NoBacket(S, p) == \A i \in 1 .. Len(S.hash) : S.hash[i].data # p
NewUnhashed(S) ==
    \A p \in Live(S) : S.peer[p].mode = "passive" /\ ~S.peer[p].registered => NoBacket(S, p)
IdsOK(S) == MidType(S) /\ KeysDiffer(S, {}) /\ (DefaultUnpack => NewUnhashed(S))
FreedListener(S) == \E p \in PeerAddr : S.peer[p].mem = "freed" /\ S.peer[p].mode = "listen"
Always(S) ==
    /\ Shape(S) /\ AllGone(S) /\ ListedLive(S) /\ HashCore(S)
    /\ S.crashed = "freed" /\ DefaultUnpack => FreedListener(S)
Running(S) == AllWait(S) /\ AllListed(S) /\ IdsOK(S) /\ (DefaultUnpack => AllOwn(S))
PeerInv(S) == Always(S) /\ (S.crashed = "no" => Running(S))

-----------------------------------------------------------------------------
(* The table of peers.                                                     *)

\* A live peer is a peer.
LEMMA LiveIs ==
    ASSUME NEW S, Shape(S), NEW p \in Live(S)
    PROVE  p \in PeerAddr /\ IsPeer(S.peer[p]) /\ S.peer[p].mem = "live" /\ S.peer[p] # NoPeer
  BY NoPeerIs DEF Live, Shape

\* The types of a backet.
LEMMA BacketIs ==
    ASSUME NEW h \in Seq(Backet), NEW i \in 1 .. Len(h)
    PROVE  h[i] \in Backet /\ h[i].data \in PeerAddr /\ h[i].key \in Int
<1>1. h[i] \in Backet
  OBVIOUS
<1> QED
  BY <1>1 DEF Backet

\* The backets of the accepted peers are those of another state with the same table.
LEMMA PassiveFrame ==
    ASSUME NEW S, NEW T, HashPassive(S), T.hash = S.hash,
           \A i \in 1 .. Len(S.hash) : T.peer[S.hash[i].data].mode = "passive" =>
               /\ S.peer[S.hash[i].data].mode = "passive"
               /\ T.peer[S.hash[i].data].mem = S.peer[S.hash[i].data].mem
               /\ T.peer[S.hash[i].data].drole = S.peer[S.hash[i].data].drole
    PROVE  HashPassive(T)
<1> SUFFICES ASSUME NEW i \in 1 .. Len(T.hash), T.peer[T.hash[i].data].mode = "passive"
             PROVE  /\ T.peer[T.hash[i].data].mem = "live"
                    /\ T.hash[i].key = T.peer[T.hash[i].data].drole
                    /\ \A j \in 1 .. (i - 1) : T.hash[j].key # T.hash[i].key
  BY Zenon DEF HashPassive
<1>1. /\ S.peer[S.hash[i].data].mode = "passive"
      /\ T.peer[S.hash[i].data].mem = S.peer[S.hash[i].data].mem
      /\ T.peer[S.hash[i].data].drole = S.peer[S.hash[i].data].drole
  OBVIOUS
<1>2. /\ S.peer[S.hash[i].data].mem = "live" /\ S.hash[i].key = S.peer[S.hash[i].data].drole
      /\ \A j \in 1 .. (i - 1) : S.hash[j].key # S.hash[i].key
  BY <1>1, Zenon DEF HashPassive
<1> QED
  BY <1>1, <1>2, Zenon

\* A step that leaves the table, the ids and the modes alone.
LEMMA HashFrame ==
    ASSUME NEW S, NEW T, NEW p \in PeerAddr, NEW F, NEW G, Changes(S, T, p, F, G), IsPeer(S.peer[p]),
           F \cap {"mem", "mode", "drole", "registered"} = {}, "hash" \notin G
    PROVE  /\ HashCore(S) => HashCore(T)
           /\ IdsOK(S) /\ "mid" \notin G => IdsOK(T)
<1>1. \A q \in PeerAddr : q # p => T.peer[q] = S.peer[q]
  BY DEF Changes
<1>2. /\ T.peer[p].mem = S.peer[p].mem /\ T.peer[p].mode = S.peer[p].mode
      /\ T.peer[p].drole = S.peer[p].drole /\ T.peer[p].registered = S.peer[p].registered
  BY DEF Changes, PeerFields
<1>3. T.hash = S.hash /\ Live(T) = Live(S) /\ ("mid" \notin G => T.mid = S.mid)
  <2>1. Live(T) = Live(S)
    BY SameLive
  <2>2. T.hash = S.hash /\ ("mid" \notin G => T.mid = S.mid)
    BY DEF Changes, SysFields
  <2> QED
    BY <2>1, <2>2
<1>4. T.peer[p] # NoPeer /\ S.peer[p] # NoPeer
  BY NoPeerIs DEF Changes
<1>5. HashBackets(S) => HashBackets(T)
  BY <1>1, <1>3, <1>4, BacketIs DEF HashBackets
<1>6. HashBackets(S) /\ HashPassive(S) => HashPassive(T)
  <2> SUFFICES ASSUME HashBackets(S), HashPassive(S) PROVE HashPassive(T)
    OBVIOUS
  <2>1. ASSUME NEW i \in 1 .. Len(S.hash), NEW d, d = S.hash[i].data
        PROVE  /\ T.peer[d].mode = S.peer[d].mode /\ T.peer[d].mem = S.peer[d].mem
               /\ T.peer[d].drole = S.peer[d].drole
    <3>1. d \in PeerAddr
      BY <2>1, BacketIs DEF HashBackets
    <3> QED
      BY <1>1, <1>2, <3>1
  <2> QED
    BY <1>3, <2>1, PassiveFrame
<1>7. IdsOK(S) /\ "mid" \notin G => IdsOK(T)
  <2> SUFFICES ASSUME IdsOK(S), T.mid = S.mid PROVE IdsOK(T)
    BY <1>3
  <2>1. MidType(T)
    BY DEF MidType, IdsOK
  <2>2. \A q \in Live(S) : T.peer[q].registered = S.peer[q].registered
                           /\ T.peer[q].drole = S.peer[q].drole /\ T.peer[q].mode = S.peer[q].mode
    BY <1>1, <1>2 DEF Live
  <2>3. KeysDiffer(T, {})
    BY <2>2, <1>3 DEF KeysDiffer, IdsOK
  <2>4. DefaultUnpack => NewUnhashed(T)
    BY <2>2, <1>3 DEF NewUnhashed, NoBacket, IdsOK
  <2> QED
    BY <2>1, <2>3, <2>4 DEF IdsOK
<1> QED
  BY <1>5, <1>6, <1>7 DEF HashCore

\* hash_get adds a backet in front, unless there is a match.
LEMMA HashGetIs ==
    ASSUME HashFinds,
           NEW h \in Seq(Backet), NEW key, NEW p \in PeerAddr, key[p] \in Int
    PROVE  LET g == hash_get(h, key, p)
           IN  /\ g \in Seq(Backet)
               /\ \/ g = h /\ \E i \in 1 .. Len(h) : Matches(h, key, key[p], i)
                  \/ /\ \A i \in 1 .. Len(h) : ~Matches(h, key, key[p], i)
                     /\ Len(g) = Len(h) + 1 /\ g[1].key = key[p] /\ g[1].data = p
                     /\ \A i \in 1 .. Len(h) : g[i + 1] = h[i]
                     /\ \A i \in 1 .. Len(g) : i = 1 \/ (i - 1 \in 1 .. Len(h) /\ g[i] = h[i - 1])
<1> DEFINE b == [key |-> key[p], data |-> p]
           g == hash_get(h, key, p)
<1>1. CASE hash_find(h, key, key[p]) # 0
  <2>1. g = h
    BY <1>1 DEF hash_get
  <2>2. \E i \in 1 .. Len(h) : Matches(h, key, key[p], i)
    BY <1>1, HashFind
  <2> QED
    BY <2>1, <2>2
<1>2. CASE hash_find(h, key, key[p]) = 0
  <2>1. \A i \in 1 .. Len(h) : ~Matches(h, key, key[p], i)
    BY <1>2, HashFind
  <2>2. g = <<b>> \o h
    BY <1>2 DEF hash_get
  <2>3. b \in Backet /\ b.key = key[p] /\ b.data = p
    BY DEF Backet
  <2> HIDE DEF b, g
  <2>4. <<b>> \in Seq(Backet) /\ Len(<<b>>) = 1 /\ <<b>>[1] = b
    BY <2>3
  <2>5. /\ g \in Seq(Backet) /\ Len(g) = Len(h) + 1 /\ g[1] = b
        /\ \A i \in 1 .. Len(h) : g[i + 1] = h[i]
    BY <2>2, <2>4
  <2>6. \A i \in 1 .. Len(g) : i = 1 \/ (i - 1 \in 1 .. Len(h) /\ g[i] = h[i - 1])
    BY <2>5
  <2> QED
    BY <2>1, <2>3, <2>5, <2>6 DEF g
<1> QED
  BY <1>1, <1>2

\* One sequence after another.
LEMMA Joined ==
    ASSUME NEW X, NEW s \in Seq(X), NEW t \in Seq(X)
    PROVE  /\ s \o t \in Seq(X) /\ Len(s \o t) = Len(s) + Len(t)
           /\ \A i \in 1 .. Len(s) : (s \o t)[i] = s[i]
           /\ \A i \in 1 .. Len(t) : (s \o t)[Len(s) + i] = t[i]
  OBVIOUS

\* Taking the i-th element out of a sequence.
Without(s, i) == SubSeq(s, 1, i - 1) \o SubSeq(s, i + 1, Len(s))

\* What is left when the i-th element is taken out.
LEMMA WithoutIs ==
    ASSUME NEW X, NEW s \in Seq(X), NEW i \in 1 .. Len(s)
    PROVE  LET t == Without(s, i)
           IN  /\ t \in Seq(X) /\ Len(t) = Len(s) - 1
               /\ \A j \in 1 .. Len(t) : t[j] = IF j < i THEN s[j] ELSE s[j + 1]
<1> DEFINE a == SubSeq(s, 1, i - 1)
           b == SubSeq(s, i + 1, Len(s))
<1>1. a \in Seq(X) /\ Len(a) = i - 1 /\ \A j \in 1 .. (i - 1) : a[j] = s[j]
  OBVIOUS
<1>2. b \in Seq(X) /\ Len(b) = Len(s) - i /\ \A j \in 1 .. (Len(s) - i) : b[j] = s[i + j]
  OBVIOUS
<1>3. Without(s, i) = a \o b
  BY DEF Without
<1> HIDE DEF a, b
<1>4. /\ (a \o b) \in Seq(X) /\ Len(a \o b) = Len(a) + Len(b)
      /\ \A j \in 1 .. Len(a) : (a \o b)[j] = a[j]
      /\ \A j \in 1 .. Len(b) : (a \o b)[Len(a) + j] = b[j]
  <2>1. a \in Seq(X) /\ b \in Seq(X)
    BY <1>1, <1>2
  <2> QED
    BY <2>1, Joined
<1>5. ASSUME NEW j \in 1 .. (Len(s) - 1)
      PROVE  (a \o b)[j] = IF j < i THEN s[j] ELSE s[j + 1]
  <2>1. CASE j < i
    BY <1>1, <1>2, <1>4, <2>1
  <2>2. CASE ~(j < i)
    <3>1. /\ j - Len(a) \in 1 .. Len(b) /\ j - Len(a) \in 1 .. (Len(s) - i)
          /\ i + (j - Len(a)) = j + 1 /\ Len(a) + (j - Len(a)) = j
      BY <1>1, <1>2, <2>2
    <3>2. (a \o b)[j] = b[j - Len(a)]
      BY <1>4, <3>1
    <3> QED
      BY <1>2, <2>2, <3>1, <3>2, Zenon
  <2> QED
    BY <2>1, <2>2, Zenon
<1>6. (a \o b) \in Seq(X) /\ Len(a \o b) = Len(s) - 1
  BY <1>1, <1>2, <1>4
<1> QED
  BY <1>3, <1>5, <1>6

\* hash_release takes the first match out, and nothing when nothing matches.
LEMMA HashReleaseIs ==
    ASSUME HashFinds,
           NEW h \in Seq(Backet), NEW key, NEW p
    PROVE  LET i == hash_find(h, key, key[p])
           IN  \/ hash_release(h, key, p) = h /\ \A j \in 1 .. Len(h) : ~Matches(h, key, key[p], j)
               \/ /\ i \in 1 .. Len(h) /\ Matches(h, key, key[p], i)
                  /\ \A j \in 1 .. (i - 1) : ~Matches(h, key, key[p], j)
                  /\ hash_release(h, key, p) = Without(h, i)
<1>1. Len(h) \in Nat
  OBVIOUS
<1> DEFINE i == hash_find(h, key, key[p])
<1>2. CASE i = 0
  <2>1. hash_release(h, key, p) = h
    BY <1>2 DEF hash_release
  <2> QED
    BY <1>1, <1>2, <2>1, HashFind
<1>3. CASE i # 0
  <2>1. hash_release(h, key, p) = Without(h, i)
    BY <1>3, Zenon DEF hash_release, Without
  <2> QED
    BY <1>1, <1>3, <2>1, HashFind
<1> QED
  BY <1>2, <1>3

\* idmaker_get.
LEMMA IdGet ==
    ASSUME NEW m \in Maker
    PROVE  LET g == idmaker_get(m)
           IN  /\ g.ret \in Int /\ g.m \in Maker /\ g.m.stop = m.stop
               /\ m.curr # m.stop => g.ret = m.curr /\ g.m.curr = m.curr + 1
               /\ m.curr = m.stop => g.m.curr = m.curr
<1>1. CASE m.curr # m.stop
  BY <1>1 DEF idmaker_get, Maker
<1>2. CASE m.curr = m.stop /\ m.store = <<>>
  <2>1. idmaker_get(m).m = m /\ idmaker_get(m).ret = 0
    BY <1>2 DEF idmaker_get
  <2> QED
    BY <1>2, <2>1
<1>3. CASE m.curr = m.stop /\ m.store # <<>>
  <2>1. Head(m.store) \in Nat /\ Tail(m.store) \in Seq(Nat)
    BY <1>3 DEF Maker
  <2> DEFINE n == [m EXCEPT !.store = Tail(@)]
  <2>2. idmaker_get(m).m = n /\ idmaker_get(m).ret = Head(m.store)
    BY <1>3 DEF idmaker_get
  <2>3. n \in Maker /\ n.stop = m.stop /\ n.curr = m.curr
    BY <2>1, Zenon DEF Maker
  <2> HIDE DEF n
  <2> QED
    BY <1>3, <2>1, <2>2, <2>3
<1> QED
  BY <1>1, <1>2, <1>3

\* peer_register keeps the table in order: a new id collides with no accepted peer.
LEMMA RegisterKeeps ==
    ASSUME HashFinds,
           NEW S, NEW T, NEW p \in Live(S), NEW F, NEW G, Shape(S), Changes(S, T, p, F, G),
           F \cap {"mem", "mode"} = {}, Registers(S, T, p), HashCore(S), IdsOK(S),
           DefaultUnpack /\ S.peer[p].mode = "passive" => ~S.peer[p].registered
    PROVE  HashCore(T) /\ IdsOK(T)
<1> DEFINE g == idmaker_get(S.mid)
           k == g.ret
           h == S.hash
           t == T.hash
           key == Key(T)
<1>1. /\ p \in PeerAddr /\ IsPeer(S.peer[p]) /\ S.peer[p].mem = "live"
      /\ S.peer[p] # NoPeer /\ IsPeer(T.peer[p]) /\ T.peer[p] # NoPeer
  BY LiveIs, NoPeerIs DEF Changes
<1>2. \A q \in PeerAddr : q # p => T.peer[q] = S.peer[q]
  BY DEF Changes
<1>3. T.peer[p].mem = "live" /\ T.peer[p].mode = S.peer[p].mode
  BY <1>1 DEF Changes, PeerFields
<1>4. Live(T) = Live(S)
  BY <1>1, SameLive
<1>5. T.mid = g.m /\ T.peer[p].drole = k /\ T.peer[p].registered
      /\ t = hash_get(h, key, p)
  BY DEF Registers
<1>6. /\ k \in Int /\ T.mid \in Maker /\ T.mid.stop = S.mid.stop
      /\ S.mid.curr # S.mid.stop => k = S.mid.curr /\ T.mid.curr = S.mid.curr + 1
      /\ S.mid.curr = S.mid.stop => T.mid.curr = S.mid.curr
  BY <1>5, IdGet DEF IdsOK, MidType
<1>7. key[p] = k /\ \A q \in PeerAddr : T.peer[q] # NoPeer => key[q] = T.peer[q].drole
  BY <1>1, <1>5 DEF Key
<1>8. h \in Seq(Backet) /\ \A i \in 1 .. Len(h) : h[i].data \in PeerAddr /\ h[i].key \in Int
                                                 /\ S.peer[h[i].data] # NoPeer
  BY BacketIs DEF HashCore, HashBackets
<1>9. Len(h) \in Nat
  BY <1>8
<1> HIDE DEF g, k, h, t, key
<1>10. /\ t \in Seq(Backet)
       /\ \/ t = h /\ \E i \in 1 .. Len(h) : Matches(h, key, k, i)
          \/ /\ \A i \in 1 .. Len(h) : ~Matches(h, key, k, i)
             /\ Len(t) = Len(h) + 1 /\ t[1].key = k /\ t[1].data = p
             /\ \A i \in 1 .. Len(h) : t[i + 1] = h[i]
             /\ \A i \in 1 .. Len(t) : i = 1 \/ (i - 1 \in 1 .. Len(h) /\ t[i] = h[i - 1])
  <2>1. h \in Seq(Backet) /\ p \in PeerAddr /\ key[p] = k /\ k \in Int /\ t = hash_get(h, key, p)
    BY <1>1, <1>5, <1>6, <1>7, <1>8
  <2> QED
    BY <2>1, HashGetIs, SMTT(30)
<1>11. \A i \in 1 .. Len(h) : T.peer[h[i].data] # NoPeer
  BY <1>1, <1>2, <1>8
<1>12. HashBackets(T)
  <2>1. ASSUME NEW i \in 1 .. Len(t) PROVE T.peer[t[i].data] # NoPeer
    <3>1. t[i].data = p \/ \E j \in 1 .. Len(h) : t[i] = h[j]
      BY <1>10
    <3> QED
      BY <1>1, <1>11, <3>1
  <2> QED
    BY <1>10, <2>1 DEF HashBackets, t
<1>13. ASSUME DefaultUnpack PROVE HashPassive(T)
  <2>1. \A i \in 1 .. Len(h) :
           T.peer[h[i].data].mode = "passive" =>
              /\ h[i].data # p /\ T.peer[h[i].data].mem = "live"
              /\ h[i].key = T.peer[h[i].data].drole
              /\ \A j \in 1 .. (i - 1) : h[j].key # h[i].key
    <3> SUFFICES ASSUME NEW i \in 1 .. Len(h), T.peer[h[i].data].mode = "passive"
                 PROVE  /\ h[i].data # p /\ T.peer[h[i].data].mem = "live"
                        /\ h[i].key = T.peer[h[i].data].drole
                        /\ \A j \in 1 .. (i - 1) : h[j].key # h[i].key
      OBVIOUS
    <3>1. h[i].data # p
      BY <1>3, <1>13 DEF IdsOK, NewUnhashed, NoBacket, h
    <3>2. T.peer[h[i].data] = S.peer[h[i].data]
      BY <1>2, <1>8, <3>1
    <3> QED
      BY <1>13, <3>1, <3>2 DEF HashCore, HashPassive, h
  <2> SUFFICES ASSUME NEW i \in 1 .. Len(t), T.peer[t[i].data].mode = "passive"
               PROVE  /\ T.peer[t[i].data].mem = "live"
                      /\ t[i].key = T.peer[t[i].data].drole
                      /\ \A j \in 1 .. (i - 1) : t[j].key # t[i].key
    BY DEF HashPassive, t
  <2>2. CASE t = h
    BY <2>1, <2>2
  <2>3. CASE /\ \A l \in 1 .. Len(h) : ~Matches(h, key, k, l)
             /\ Len(t) = Len(h) + 1 /\ t[1].key = k /\ t[1].data = p
             /\ \A l \in 1 .. Len(t) : l = 1 \/ (l - 1 \in 1 .. Len(h) /\ t[l] = h[l - 1])
    <3>1. CASE i = 1
      BY <1>3, <1>5, <2>3, <3>1
    <3>2. CASE i # 1
      <4>1. i - 1 \in 1 .. Len(h) /\ t[i] = h[i - 1]
        BY <2>3, <3>2
      <4>2. T.peer[h[i - 1].data].mode = "passive"
        BY <4>1
      <4>3. /\ T.peer[h[i - 1].data].mem = "live" /\ h[i - 1].key = T.peer[h[i - 1].data].drole
            /\ \A j \in 1 .. (i - 2) : h[j].key # h[i - 1].key
        <5> DEFINE m == i - 1
        <5>1. m \in 1 .. Len(h) /\ T.peer[h[m].data].mode = "passive" /\ m - 1 = i - 2
          BY <4>1, <4>2
        <5> HIDE DEF m
        <5>2. /\ T.peer[h[m].data].mem = "live" /\ h[m].key = T.peer[h[m].data].drole
              /\ \A j \in 1 .. (m - 1) : h[j].key # h[m].key
          BY <2>1, <5>1
        <5> QED
          BY <5>1, <5>2 DEF m
      <4>4. h[i - 1].key # k
        <5>1. key[h[i - 1].data] = h[i - 1].key
          BY <1>7, <1>8, <1>11, <4>1, <4>3
        <5> QED
          BY <2>3, <4>1, <5>1 DEF Matches
      <4>5. ASSUME NEW j \in 1 .. (i - 1) PROVE t[j].key # t[i].key
        <5>1. CASE j = 1
          BY <2>3, <4>1, <4>4, <5>1
        <5>2. CASE j # 1
          <6>1. t[j] = h[j - 1] /\ j - 1 \in 1 .. (i - 2)
            BY <2>3, <5>2, <1>9
          <6> QED
            BY <6>1, <4>1, <4>3
        <5> QED
          BY <5>1, <5>2
      <4> QED
        BY <4>1, <4>3, <4>5
    <3> QED
      BY <3>1, <3>2
  <2> QED
    BY <1>10, <2>2, <2>3
<1>14. MidType(T)
  BY <1>6 DEF MidType
<1>15. KeysDiffer(T, {})
  <2> SUFFICES ASSUME T.mid.curr # T.mid.stop
               PROVE  /\ \A i, j \in 1 .. Len(t) : i # j => t[i].key # t[j].key
                      /\ \A i \in 1 .. Len(t) : t[i].key < T.mid.curr
                      /\ \A q \in Live(T) : T.peer[q].registered =>
                          \E i \in 1 .. Len(t) : t[i].data = q /\ t[i].key = T.peer[q].drole
    BY DEF KeysDiffer, t
  <2>1. S.mid.curr # S.mid.stop /\ k = S.mid.curr /\ T.mid.curr = k + 1
    BY <1>6
  <2>2. /\ \A i, j \in 1 .. Len(h) : i # j => h[i].key # h[j].key
        /\ \A i \in 1 .. Len(h) : h[i].key < k
        /\ \A q \in Live(S) : S.peer[q].registered =>
                  \E i \in 1 .. Len(h) : h[i].data = q /\ h[i].key = S.peer[q].drole
    BY <2>1 DEF IdsOK, KeysDiffer, h
  <2>3. \A i \in 1 .. Len(h) : ~Matches(h, key, k, i)
    BY <2>2, <1>6, <1>8 DEF Matches
  <2>4. /\ Len(t) = Len(h) + 1 /\ t[1].key = k /\ t[1].data = p
        /\ \A i \in 1 .. Len(h) : t[i + 1] = h[i]
        /\ \A i \in 1 .. Len(t) : i = 1 \/ (i - 1 \in 1 .. Len(h) /\ t[i] = h[i - 1])
    BY <1>10, <2>3
  <2>5. ASSUME NEW i \in 1 .. Len(t) PROVE t[i].key < T.mid.curr
    <3>1. t[i].key = k \/ (t[i].key \in Int /\ t[i].key < k)
      <4>1. CASE i = 1
        BY <2>4, <4>1
      <4>2. CASE i # 1
        <5>1. i - 1 \in 1 .. Len(h) /\ t[i] = h[i - 1]
          BY <2>4, <4>2
        <5> QED
          BY <1>8, <2>2, <5>1
      <4> QED
        BY <4>1, <4>2
    <3> QED
      BY <3>1, <1>6, <2>1
  <2>6. ASSUME NEW i \in 1 .. Len(t), NEW j \in 1 .. Len(t), i # j PROVE t[i].key # t[j].key
    <3>1. CASE i = 1
      <4>1. j - 1 \in 1 .. Len(h) /\ t[j] = h[j - 1]
        BY <2>4, <2>6, <3>1
      <4>2. t[j].key \in Int /\ t[j].key < k
        BY <1>8, <2>2, <4>1
      <4> QED
        BY <1>6, <2>4, <3>1, <4>2
    <3>2. CASE j = 1
      <4>1. i - 1 \in 1 .. Len(h) /\ t[i] = h[i - 1]
        BY <2>4, <2>6, <3>2
      <4>2. t[i].key \in Int /\ t[i].key < k
        BY <1>8, <2>2, <4>1
      <4> QED
        BY <1>6, <2>4, <3>2, <4>2
    <3>3. CASE i # 1 /\ j # 1
      <4>1. /\ i - 1 \in 1 .. Len(h) /\ t[i] = h[i - 1]
            /\ j - 1 \in 1 .. Len(h) /\ t[j] = h[j - 1] /\ i - 1 # j - 1
        BY <2>4, <2>6, <3>3
      <4> QED
        BY <2>2, <4>1
    <3> QED
      BY <3>1, <3>2, <3>3
  <2>7. ASSUME NEW q \in Live(T), T.peer[q].registered
        PROVE  \E i \in 1 .. Len(t) : t[i].data = q /\ t[i].key = T.peer[q].drole
    <3>1. CASE q = p
      BY <1>5, <1>9, <2>4, <3>1
    <3>2. CASE q # p
      <4>1. q \in Live(S) /\ T.peer[q] = S.peer[q]
        BY <1>2, <1>4, <3>2 DEF Live
      <4>2. PICK i \in 1 .. Len(h) : h[i].data = q /\ h[i].key = S.peer[q].drole
        BY <2>2, <2>7, <4>1
      <4>3. i + 1 \in 1 .. Len(t) /\ t[i + 1] = h[i]
        BY <1>9, <2>4
      <4> QED
        BY <4>1, <4>2, <4>3
    <3> QED
      BY <3>1, <3>2
  <2> QED
    BY <2>5, <2>6, <2>7
<1>16. ASSUME DefaultUnpack PROVE NewUnhashed(T)
  <2> SUFFICES ASSUME NEW q \in Live(T), T.peer[q].mode = "passive", ~T.peer[q].registered
               PROVE  \A i \in 1 .. Len(t) : t[i].data # q
    BY DEF NewUnhashed, NoBacket, t
  <2>1. q # p
    BY <1>5
  <2>2. q \in Live(S) /\ T.peer[q] = S.peer[q]
    BY <1>2, <1>4, <2>1 DEF Live
  <2>3. \A i \in 1 .. Len(h) : h[i].data # q
    BY <1>16, <2>2 DEF IdsOK, NewUnhashed, NoBacket, h
  <2> QED
    BY <1>10, <2>1, <2>3, Zenon
<1> QED
  BY <1>12, <1>13, <1>14, <1>15, <1>16 DEF HashCore, IdsOK

\* peer_unregister of a registered peer takes out its own backet and no other, while the
\* ids last; of an accepted one it takes out the only backet, always.
Unregistered(S, p) ==
    /\ HashCore(S) /\ MidType(S) /\ KeysDiffer(S, {p}) /\ (DefaultUnpack => NewUnhashed(S))
    /\ DefaultUnpack /\ S.peer[p].mode = "passive" => NoBacket(S, p)

\* The keys differ as long as the backets, the next id and the registered peers are the same.
LEMMA KeysFrame ==
    ASSUME NEW S, NEW T, NEW X, NEW Y, KeysDiffer(S, X), T.hash = S.hash,
           T.mid.curr = S.mid.curr, T.mid.stop = S.mid.stop,
           \A q \in Live(T) \ Y : /\ q \in Live(S) \ X /\ T.peer[q].drole = S.peer[q].drole
                                  /\ T.peer[q].registered <=> S.peer[q].registered
    PROVE  KeysDiffer(T, Y)
<1> SUFFICES ASSUME T.mid.curr # T.mid.stop
             PROVE  /\ \A i, j \in 1 .. Len(T.hash) : i # j => T.hash[i].key # T.hash[j].key
                    /\ \A i \in 1 .. Len(T.hash) : T.hash[i].key < T.mid.curr
                    /\ \A q \in Live(T) \ Y : T.peer[q].registered =>
                        \E i \in 1 .. Len(T.hash) : T.hash[i].data = q /\ T.hash[i].key = T.peer[q].drole
  BY Zenon DEF KeysDiffer
<1> DEFINE n == Len(S.hash)
<1>1. /\ \A i, j \in 1 .. n : i # j => S.hash[i].key # S.hash[j].key
      /\ \A i \in 1 .. n : S.hash[i].key < S.mid.curr
      /\ \A q \in Live(S) \ X : S.peer[q].registered =>
            \E i \in 1 .. n : S.hash[i].data = q /\ S.hash[i].key = S.peer[q].drole
  BY Zenon DEF KeysDiffer
<1>2. Len(T.hash) = n
  OBVIOUS
<1> HIDE DEF n
<1>3. \A q \in Live(T) \ Y : T.peer[q].registered =>
          \E i \in 1 .. n : T.hash[i].data = q /\ T.hash[i].key = T.peer[q].drole
  <2> SUFFICES ASSUME NEW q \in Live(T) \ Y, T.peer[q].registered
               PROVE  \E i \in 1 .. n : T.hash[i].data = q /\ T.hash[i].key = T.peer[q].drole
    BY Zenon
  <2>1. /\ q \in Live(S) \ X /\ T.peer[q].drole = S.peer[q].drole
        /\ T.peer[q].registered <=> S.peer[q].registered
    OBVIOUS
  <2> QED
    BY <1>1, <2>1
<1> QED
  BY <1>1, <1>2, <1>3

\* peer_unregister leaves the table like that.
LEMMA UnregisterKeeps ==
    ASSUME HashFinds,
           NEW S, NEW T, NEW p \in Live(S), NEW F, NEW G, Shape(S), Changes(S, T, p, F, G),
           F \cap {"mem", "mode", "drole", "registered"} = {},
           T.hash = hash_release(S.hash, Key(S), p),
           NEW g \in CellIds, T.mid = idmaker_put(S.mid, g),
           HashCore(S), IdsOK(S), S.peer[p].registered
    PROVE  Unregistered(T, p)
<1> DEFINE h == S.hash
           t == T.hash
           key == Key(S)
           k == key[p]
           n == hash_find(h, key, k)
           from(j) == IF j < n THEN j ELSE j + 1
<1>1. /\ p \in PeerAddr /\ IsPeer(S.peer[p]) /\ S.peer[p].mem = "live"
      /\ S.peer[p] # NoPeer /\ IsPeer(T.peer[p]) /\ T.peer[p] # NoPeer
  BY LiveIs, NoPeerIs DEF Changes
<1>2. /\ \A q \in PeerAddr : q # p => T.peer[q] = S.peer[q]
      /\ T.peer[p].mem = S.peer[p].mem /\ T.peer[p].mode = S.peer[p].mode
      /\ T.peer[p].drole = S.peer[p].drole /\ T.peer[p].registered = S.peer[p].registered
  BY Zenon DEF Changes, PeerFields
<1>3. \A q \in PeerAddr :
         /\ T.peer[q].mode = S.peer[q].mode /\ T.peer[q].mem = S.peer[q].mem
         /\ T.peer[q].drole = S.peer[q].drole /\ (T.peer[q].registered <=> S.peer[q].registered)
         /\ S.peer[q] # NoPeer => T.peer[q] # NoPeer
  BY <1>1, <1>2, Zenon
<1>4. Live(T) = Live(S)
  BY <1>1, SameLive
<1>5. T.mid \in Maker /\ T.mid.curr = S.mid.curr /\ T.mid.stop = S.mid.stop
  <2>1. g \in Nat /\ S.mid \in Maker
    BY PeerAssumption DEF IdsOK, MidType
  <2>2. Append(S.mid.store, g) \in Seq(Nat)
    BY <2>1 DEF Maker
  <2> QED
    BY <2>1, <2>2, Zenon DEF idmaker_put, Maker
<1>6. k = S.peer[p].drole /\ \A q \in PeerAddr : S.peer[q] # NoPeer => key[q] = S.peer[q].drole
  BY <1>1 DEF Key
<1>7. /\ h \in Seq(Backet)
      /\ \A i \in 1 .. Len(h) : h[i].data \in PeerAddr /\ S.peer[h[i].data] # NoPeer
  BY BacketIs DEF HashCore, HashBackets
<1>8. Len(h) \in Nat
  BY <1>7
<1>9. \/ t = h /\ \A j \in 1 .. Len(h) : ~Matches(h, key, k, j)
      \/ /\ n \in 1 .. Len(h) /\ Matches(h, key, k, n)
         /\ \A j \in 1 .. (n - 1) : ~Matches(h, key, k, j)
         /\ t = Without(h, n)
  BY <1>7, HashReleaseIs
<1> HIDE DEF h, t, key, k, n
<1>10. DefaultUnpack =>
         \A i \in 1 .. Len(h) : S.peer[h[i].data].mode = "passive" =>
            /\ S.peer[h[i].data].mem = "live" /\ h[i].key = S.peer[h[i].data].drole
            /\ \A j \in 1 .. (i - 1) : h[j].key # h[i].key
  BY DEF HashCore, HashPassive, h
<1>11. \A i \in 1 .. Len(h) : DefaultUnpack /\ h[i].data = p /\ S.peer[p].mode = "passive"
                              => Matches(h, key, k, i)
  BY <1>1, <1>6, <1>10 DEF Matches, k
<1>12. CASE t = h /\ \A j \in 1 .. Len(h) : ~Matches(h, key, k, j)
  <2>1. HashCore(T)
    <3>1. T.hash = S.hash
      BY <1>12 DEF h, t
    <3>2. \A i \in 1 .. Len(S.hash) : S.hash[i].data \in PeerAddr /\ S.peer[S.hash[i].data] # NoPeer
      BY <1>7 DEF h
    <3>3. HashBackets(T)
      BY <1>3, <3>1, <3>2 DEF HashCore, HashBackets
    <3>4. DefaultUnpack => HashPassive(T)
      <4>1. \A i \in 1 .. Len(S.hash) :
               /\ T.peer[S.hash[i].data].mode = S.peer[S.hash[i].data].mode
               /\ T.peer[S.hash[i].data].mem = S.peer[S.hash[i].data].mem
               /\ T.peer[S.hash[i].data].drole = S.peer[S.hash[i].data].drole
        BY <1>3, <3>2
      <4>2. DefaultUnpack => HashPassive(S)
        BY DEF HashCore
      <4> QED
        BY <3>1, <4>1, <4>2, PassiveFrame
    <3> QED
      BY <3>3, <3>4 DEF HashCore
  <2>a. T.hash = S.hash
    BY <1>12 DEF h, t
  <2>b. /\ Live(T) = Live(S)
        /\ \A q \in Live(S) : /\ T.peer[q].mode = S.peer[q].mode
                              /\ T.peer[q].drole = S.peer[q].drole
                              /\ T.peer[q].registered <=> S.peer[q].registered
    BY <1>3, <1>4 DEF Live
  <2>2. KeysDiffer(T, {p})
    <3>1. KeysDiffer(S, {})
      BY DEF IdsOK
    <3> QED
      BY <1>5, <2>a, <2>b, <3>1, KeysFrame
  <2>3. ASSUME DefaultUnpack PROVE NewUnhashed(T)
    <3>1. NewUnhashed(S)
      BY <2>3 DEF IdsOK
    <3> QED
      BY <2>a, <2>b, <3>1 DEF NewUnhashed, NoBacket
  <2>4. DefaultUnpack /\ T.peer[p].mode = "passive" => NoBacket(T, p)
    BY <1>2, <1>11, <1>12 DEF NoBacket, t
  <2> QED
    BY <1>5, <2>1, <2>2, <2>3, <2>4 DEF Unregistered, MidType
<1>13. CASE /\ n \in 1 .. Len(h) /\ Matches(h, key, k, n)
            /\ \A j \in 1 .. (n - 1) : ~Matches(h, key, k, j)
            /\ t = Without(h, n)
  <2>a. h \in Seq(Backet) /\ n \in 1 .. Len(h) /\ t = Without(h, n)
    BY <1>7, <1>13
  <2>b. /\ t \in Seq(Backet) /\ Len(t) = Len(h) - 1
        /\ \A j \in 1 .. Len(t) : t[j] = IF j < n THEN h[j] ELSE h[j + 1]
    BY <2>a, WithoutIs
  <2>1. /\ t \in Seq(Backet) /\ Len(t) = Len(h) - 1
        /\ \A j \in 1 .. Len(t) : t[j] = h[from(j)] /\ from(j) \in 1 .. Len(h) /\ from(j) # n
    BY <1>8, <2>a, <2>b
  <2>2. \A i, j \in 1 .. Len(t) : i < j => from(i) < from(j)
    BY <1>8, <1>13, <2>1
  <2>3. \A i \in 1 .. Len(h) : i # n => \E j \in 1 .. Len(t) : from(j) = i
    <3> SUFFICES ASSUME NEW i \in 1 .. Len(h), i # n PROVE \E j \in 1 .. Len(t) : from(j) = i
      OBVIOUS
    <3>1. CASE i < n
      BY <1>8, <1>13, <2>1, <3>1
    <3>2. CASE i > n
      <4>1. i - 1 \in 1 .. Len(t) /\ from(i - 1) = i
        BY <1>8, <1>13, <2>1, <3>2
      <4> QED
        BY <4>1
    <3> QED
      BY <1>8, <1>13, <3>1, <3>2
  <2> HIDE DEF from
  <2>4. HashBackets(T)
    <3>1. ASSUME NEW i \in 1 .. Len(t) PROVE T.peer[t[i].data] # NoPeer
      <4>1. t[i] = h[from(i)] /\ from(i) \in 1 .. Len(h)
        BY <2>1
      <4>2. t[i].data \in PeerAddr /\ S.peer[t[i].data] # NoPeer
        BY <1>7, <4>1
      <4> QED
        BY <1>3, <4>2
    <3> QED
      BY <2>1, <3>1 DEF HashBackets, t
  <2>5. ASSUME DefaultUnpack PROVE HashPassive(T)
    <3> SUFFICES ASSUME NEW i \in 1 .. Len(t), T.peer[t[i].data].mode = "passive"
                 PROVE  /\ T.peer[t[i].data].mem = "live"
                        /\ t[i].key = T.peer[t[i].data].drole
                        /\ \A j \in 1 .. (i - 1) : t[j].key # t[i].key
      BY DEF HashPassive, t
    <3>1. from(i) \in 1 .. Len(h) /\ t[i] = h[from(i)] /\ h[from(i)].data \in PeerAddr
      BY <1>7, <2>1
    <3>2. /\ S.peer[t[i].data].mem = "live" /\ t[i].key = S.peer[t[i].data].drole
          /\ \A j \in 1 .. (from(i) - 1) : h[j].key # t[i].key
      <4> DEFINE f == from(i)
      <4>1. f \in 1 .. Len(h) /\ t[i] = h[f] /\ S.peer[h[f].data].mode = "passive"
        BY <1>3, <3>1
      <4> HIDE DEF f
      <4>2. /\ S.peer[h[f].data].mem = "live" /\ h[f].key = S.peer[h[f].data].drole
            /\ \A j \in 1 .. (f - 1) : h[j].key # h[f].key
        BY <1>10, <2>5, <4>1
      <4> QED
        BY <4>1, <4>2 DEF f
    <3>3. ASSUME NEW j \in 1 .. (i - 1) PROVE t[j].key # t[i].key
      <4>1. j \in 1 .. Len(t) /\ j < i
        BY <2>1, <1>8
      <4>2. from(j) \in 1 .. Len(h) /\ from(j) < from(i) /\ t[j] = h[from(j)]
        BY <2>1, <2>2, <4>1
      <4>3. from(j) \in 1 .. (from(i) - 1)
        BY <3>1, <4>2, <1>8
      <4> QED
        BY <3>2, <4>2, <4>3
    <3> QED
      BY <1>3, <3>1, <3>2, <3>3
  <2>6. KeysDiffer(T, {p})
    <3> SUFFICES ASSUME T.mid.curr # T.mid.stop
                 PROVE  /\ \A i, j \in 1 .. Len(t) : i # j => t[i].key # t[j].key
                        /\ \A i \in 1 .. Len(t) : t[i].key < T.mid.curr
                        /\ \A q \in Live(T) \ {p} : T.peer[q].registered =>
                            \E i \in 1 .. Len(t) : t[i].data = q /\ t[i].key = T.peer[q].drole
      BY DEF KeysDiffer, t
    <3>1. /\ \A i, j \in 1 .. Len(h) : i # j => h[i].key # h[j].key
          /\ \A i \in 1 .. Len(h) : h[i].key < T.mid.curr
          /\ \A q \in Live(S) : S.peer[q].registered =>
                    \E i \in 1 .. Len(h) : h[i].data = q /\ h[i].key = S.peer[q].drole
      BY <1>5 DEF IdsOK, KeysDiffer, h
    <3>2. ASSUME NEW i \in 1 .. Len(t), NEW j \in 1 .. Len(t), i # j PROVE t[i].key # t[j].key
      <4>1. i < j \/ j < i
        BY <3>2, <2>1, <1>8
      <4>2. from(i) < from(j) \/ from(j) < from(i)
        BY <2>2, <4>1
      <4>3. /\ from(i) \in 1 .. Len(h) /\ t[i] = h[from(i)]
            /\ from(j) \in 1 .. Len(h) /\ t[j] = h[from(j)]
        BY <2>1
      <4>4. from(i) # from(j)
        BY <4>2, <4>3
      <4>5. h[from(i)].key # h[from(j)].key
        <5>1. \A a, b \in 1 .. Len(h) : a # b => h[a].key # h[b].key
          BY <3>1
        <5>2. from(i) \in 1 .. Len(h) /\ from(j) \in 1 .. Len(h)
          BY <4>3
        <5> HIDE DEF from
        <5> QED
          BY <4>4, <5>1, <5>2
      <4> QED
        BY <4>3, <4>5
    <3>3. \A i \in 1 .. Len(t) : t[i].key < T.mid.curr
      BY <2>1, <3>1
    <3>4. ASSUME NEW q \in Live(T) \ {p}, T.peer[q].registered
          PROVE  \E i \in 1 .. Len(t) : t[i].data = q /\ t[i].key = T.peer[q].drole
      <4>1. q \in Live(S) /\ q # p /\ T.peer[q] = S.peer[q]
        BY <1>2, <1>4 DEF Live
      <4>2. PICK i \in 1 .. Len(h) : h[i].data = q /\ h[i].key = S.peer[q].drole
        BY <3>1, <3>4, <4>1
      <4>3. PICK l \in 1 .. Len(h) : h[l].data = p /\ h[l].key = S.peer[p].drole
        BY <3>1
      <4>4. n = l
        BY <1>6, <1>13, <3>1, <4>3 DEF Matches
      <4>5. i # n
        BY <4>1, <4>2, <4>3, <4>4
      <4>6. PICK j \in 1 .. Len(t) : from(j) = i
        BY <2>3, <4>5
      <4> QED
        BY <2>1, <4>1, <4>2, <4>6
    <3> QED
      BY <3>2, <3>3, <3>4
  <2>7. ASSUME DefaultUnpack PROVE NewUnhashed(T)
    <3>1. NewUnhashed(S)
      BY <2>7 DEF IdsOK
    <3>2. ASSUME NEW q \in Live(T), T.peer[q].mode = "passive", ~T.peer[q].registered,
                 NEW i \in 1 .. Len(t)
          PROVE  t[i].data # q
      <4>1. q \in Live(S) /\ S.peer[q].mode = "passive" /\ ~S.peer[q].registered
        BY <1>3, <1>4, <3>2 DEF Live
      <4>2. \A j \in 1 .. Len(h) : h[j].data # q
        BY <3>1, <4>1 DEF NewUnhashed, NoBacket, h
      <4>3. from(i) \in 1 .. Len(h) /\ t[i] = h[from(i)]
        BY <2>1
      <4> HIDE DEF from
      <4> QED
        BY <4>2, <4>3
    <3> QED
      BY <3>2 DEF NewUnhashed, NoBacket, t
  <2>8. ASSUME DefaultUnpack, T.peer[p].mode = "passive", NEW j \in 1 .. Len(t), t[j].data = p
        PROVE  FALSE
    <3>1. from(j) \in 1 .. Len(h) /\ h[from(j)].data = p /\ from(j) # n
      BY <2>1, <2>8
    <3>2. Matches(h, key, k, from(j))
      BY <1>2, <1>11, <2>8, <3>1
    <3>3. n \in 1 .. (from(j) - 1)
      BY <1>8, <1>13, <3>1, <3>2
    <3>4. h[n].key # h[from(j)].key
      BY <1>2, <1>10, <2>8, <3>1, <3>3, Zenon
    <3> QED
      BY <1>13, <3>2, <3>4 DEF Matches
  <2> QED
    BY <1>5, <2>4, <2>5, <2>6, <2>7, <2>8 DEF Unregistered, MidType, HashCore, NoBacket, t
<1> QED
  BY <1>9, <1>12, <1>13

\* Freeing the peer then makes the table one of the others only.
LEMMA FreeKeeps ==
    ASSUME NEW S, NEW T, NEW p \in PeerAddr, NEW F, NEW G, Shape(S), Changes(S, T, p, F, G),
           IsPeer(S.peer[p]), F \cap {"mode", "drole", "registered"} = {}, G \cap {"hash", "mid"} = {},
           Unregistered(S, p), T.peer[p].mem = "freed"
    PROVE  HashCore(T) /\ IdsOK(T)
<1>1. T.hash = S.hash /\ T.mid = S.mid
  BY DEF Changes, SysFields
<1>2. /\ \A q \in PeerAddr : q # p => T.peer[q] = S.peer[q]
      /\ T.peer[p].mode = S.peer[p].mode /\ T.peer[p] # NoPeer /\ S.peer[p] # NoPeer
  BY NoPeerIs DEF Changes, PeerFields
<1>3. S.hash \in Seq(Backet) /\ \A i \in 1 .. Len(S.hash) : S.hash[i].data \in PeerAddr
  BY BacketIs DEF Unregistered, HashCore, HashBackets
<1>4. HashBackets(T)
  BY <1>1, <1>2, <1>3 DEF Unregistered, HashCore, HashBackets
<1>5. ASSUME DefaultUnpack PROVE HashPassive(T)
  <2>1. ASSUME NEW i \in 1 .. Len(S.hash), T.peer[S.hash[i].data].mode = "passive"
        PROVE  T.peer[S.hash[i].data] = S.peer[S.hash[i].data]
    <3>1. S.hash[i].data # p
      BY <1>2, <1>5, <2>1 DEF Unregistered, NoBacket
    <3> QED
      BY <1>2, <1>3, <3>1
  <2>2. HashPassive(S)
    BY <1>5 DEF Unregistered, HashCore
  <2> QED
    BY <1>1, <2>1, <2>2, PassiveFrame
<1>6. \A q \in Live(T) : q # p /\ q \in Live(S) /\ T.peer[q] = S.peer[q]
  BY <1>2 DEF Live
<1>7. KeysDiffer(T, {})
  <2>1. \A q \in Live(T) \ {} : q \in Live(S) \ {p} /\ T.peer[q] = S.peer[q]
    BY <1>6, Zenon
  <2>2. KeysDiffer(S, {p})
    BY DEF Unregistered
  <2> QED
    BY <1>1, <2>1, <2>2, KeysFrame
<1>8. DefaultUnpack => NewUnhashed(T)
  BY <1>1, <1>6 DEF Unregistered, NewUnhashed, NoBacket
<1>9. MidType(T)
  BY <1>1 DEF Unregistered, MidType
<1> QED
  BY <1>4, <1>5, <1>7, <1>8, <1>9 DEF HashCore, IdsOK

\* A new peer is in no backet.
LEMMA NewKeeps ==
    ASSUME NEW S, NEW T, NEW p \in PeerAddr, NEW F, NEW G, Shape(S), Changes(S, T, p, F, G),
           S.peer[p] = NoPeer, G \cap {"hash", "mid"} = {}, ~T.peer[p].registered
    PROVE  /\ HashCore(S) => HashCore(T)
           /\ HashCore(S) /\ IdsOK(S) => IdsOK(T)
<1> SUFFICES ASSUME HashCore(S) PROVE HashCore(T) /\ (IdsOK(S) => IdsOK(T))
  OBVIOUS
<1>1. T.hash = S.hash /\ T.mid = S.mid
  BY DEF Changes, SysFields
<1>2. /\ \A q \in PeerAddr : q # p => T.peer[q] = S.peer[q]
  BY DEF Changes
<1>3. /\ S.hash \in Seq(Backet)
      /\ \A i \in 1 .. Len(S.hash) : S.hash[i].data \in PeerAddr /\ S.hash[i].data # p
  BY BacketIs DEF HashCore, HashBackets
<1>4. \A i \in 1 .. Len(S.hash) : T.peer[S.hash[i].data] = S.peer[S.hash[i].data]
  BY <1>2, <1>3
<1>5. HashBackets(T)
  BY <1>1, <1>4 DEF HashCore, HashBackets
<1>6. ASSUME DefaultUnpack PROVE HashPassive(T)
  <2>1. HashPassive(S)
    BY <1>6 DEF HashCore
  <2> QED
    BY <1>1, <1>4, <2>1, PassiveFrame
<1>7. \A q \in Live(T) : q = p \/ (q \in Live(S) /\ T.peer[q] = S.peer[q])
  BY <1>2 DEF Live
<1>8. ASSUME IdsOK(S) PROVE IdsOK(T)
  <2>1. KeysDiffer(T, {})
    <3>1. KeysDiffer(S, {})
      BY <1>8 DEF IdsOK
    <3>2. \A q \in Live(T) : T.peer[q].registered => q \in Live(S) /\ T.peer[q] = S.peer[q]
      BY <1>7
    <3> QED
      BY <1>1, <3>1, <3>2 DEF KeysDiffer
  <2>2. ASSUME DefaultUnpack PROVE NewUnhashed(T)
    <3>1. NewUnhashed(S)
      BY <1>8, <2>2 DEF IdsOK
    <3> QED
      BY <1>1, <1>3, <1>7, <3>1 DEF NewUnhashed, NoBacket
  <2>3. MidType(T)
    BY <1>1, <1>8 DEF IdsOK, MidType
  <2> QED
    BY <2>1, <2>2, <2>3 DEF IdsOK
<1> QED
  BY <1>5, <1>6, <1>8 DEF HashCore

\* Freed memory is reached through the backet of a listener only.
LEMMA FoundListener ==
    ASSUME HashFinds,
           NEW S, NEW k, Shape(S), AllGone(S), HashCore(S), DefaultUnpack,
           ~(hash_compared(S.hash, Key(S), k) \subseteq Live(S))
    PROVE  FreedListener(S)
<1> DEFINE h == S.hash
<1>1. h \in Seq(Backet)
  BY DEF HashCore, HashBackets
<1>2. Len(h) \in Nat
  BY <1>1
<1>3. PICK d \in hash_compared(h, Key(S), k) : d \notin Live(S)
  OBVIOUS
<1>4. \E i \in 1 .. Len(h) : h[i].data = d
  <2> DEFINE f == hash_find(h, Key(S), k)
             last == IF f = 0 THEN Len(h) ELSE f
  <2>1. hash_compared(h, Key(S), k) = {h[i].data : i \in {j \in 1 .. last : h[j].key = k}}
    BY DEF hash_compared
  <2>2. last \in 0 .. Len(h)
    BY <1>2, HashFind
  <2> HIDE DEF last
  <2> QED
    BY <1>2, <1>3, <2>1, <2>2
<1>5. PICK i \in 1 .. Len(h) : h[i].data = d
  BY <1>4
<1>6. d \in PeerAddr /\ S.peer[d] # NoPeer
  BY <1>1, <1>5, BacketIs DEF HashCore, HashBackets
<1>7. S.peer[d].mem = "freed"
  BY <1>3, <1>6, Zenon DEF Shape, IsPeer, Live
<1>8. S.peer[d].mode \in {"passive", "listen"}
  BY <1>6, <1>7 DEF AllGone, Gone
<1>9. S.peer[d].mode # "passive"
  BY <1>5, <1>7 DEF HashCore, HashPassive
<1> QED
  BY <1>6, <1>7, <1>8, <1>9 DEF FreedListener

-----------------------------------------------------------------------------
(* peer_list.                                                              *)

\* A step that frees nothing and leaves peer_list alone.
LEMMA ListFrame ==
    ASSUME NEW S, NEW T, NEW p \in PeerAddr, NEW F, NEW G, Changes(S, T, p, F, G),
           "mem" \notin F, "list" \notin G
    PROVE  (ListedLive(S) => ListedLive(T)) /\ (AllListed(S) => AllListed(T))
<1>1. Live(T) = Live(S)
  BY SameLive
<1>2. T.list = S.list
  BY DEF Changes, SysFields
<1> QED
  BY <1>1, <1>2 DEF ListedLive, AllListed

\* peer_new appends the new peer.
LEMMA ListNew ==
    ASSUME NEW S, NEW T, NEW p \in PeerAddr, NEW F, NEW G, Shape(S), Changes(S, T, p, F, G),
           S.peer[p] = NoPeer, T.peer[p].mem = "live", T.list = Append(S.list, p)
    PROVE  (ListedLive(S) => ListedLive(T)) /\ (ListedLive(S) /\ AllListed(S) => AllListed(T))
<1> SUFFICES ASSUME ListedLive(S) PROVE ListedLive(T) /\ (AllListed(S) => AllListed(T))
  OBVIOUS
<1> DEFINE l == S.list
           t == T.list
<1>1. Live(T) = Live(S) \cup {p} /\ p \notin Live(S)
  BY NoPeerIs DEF Changes, Live
<1>2. l \in Seq(PeerAddr) /\ Len(l) \in Nat
  BY DEF ListedLive
<1>3. /\ t \in Seq(PeerAddr) /\ Len(t) = Len(l) + 1 /\ t[Len(l) + 1] = p
      /\ \A i \in 1 .. Len(l) : t[i] = l[i]
  BY <1>2
<1>4. /\ \A i \in 1 .. Len(l) : l[i] \in Live(S)
      /\ \A i, j \in 1 .. Len(l) : i # j => l[i] # l[j]
  BY DEF ListedLive
<1> HIDE DEF l, t
<1>5. \A i \in 1 .. Len(t) : i \in 1 .. Len(l) \/ i = Len(l) + 1
  BY <1>2, <1>3
<1>6. \A i \in 1 .. Len(t) : t[i] \in Live(T)
  BY <1>1, <1>3, <1>4, <1>5
<1>7. \A i, j \in 1 .. Len(t) : i # j => t[i] # t[j]
  BY <1>1, <1>3, <1>4, <1>5
<1>8. ASSUME AllListed(S), NEW q \in Live(T) PROVE \E i \in 1 .. Len(t) : t[i] = q
  <2>1. CASE q = p
    BY <1>2, <1>3, <2>1
  <2>2. CASE q # p
    <3>1. PICK i \in 1 .. Len(l) : l[i] = q
      BY <1>1, <1>8, <2>2 DEF AllListed, l
    <3> QED
      BY <1>2, <1>3, <3>1
  <2> QED
    BY <2>1, <2>2
<1> QED
  BY <1>3, <1>6, <1>7, <1>8 DEF ListedLive, AllListed, t

\* listnode_delete takes the peer out of peer_list.
Unlisted(S, p) ==
    /\ ListedLive(S)
    /\ \A i \in 1 .. Len(S.list) : S.list[i] # p
    /\ \A q \in Live(S) \ {p} : \E i \in 1 .. Len(S.list) : S.list[i] = q

\* listnode_delete takes p off the list of the peers.
LEMMA ListDelete ==
    ASSUME NEW S, NEW T, NEW p \in Live(S), NEW F, NEW G, Shape(S), Changes(S, T, p, F, G),
           "mem" \notin F, T.list = listnode_delete(S.list, p), ListedLive(S), AllListed(S)
    PROVE  Unlisted(T, p)
<1> DEFINE l == S.list
           t == T.list
           First == {i \in 1 .. Len(l) : l[i] = p /\ \A j \in 1 .. (i - 1) : l[j] # p}
<1>0. p \in PeerAddr
  BY DEF Live
<1>1. Live(T) = Live(S)
  BY <1>0, SameLive
<1>2. /\ l \in Seq(PeerAddr)
      /\ \A i \in 1 .. Len(l) : l[i] \in Live(S)
      /\ \A i, j \in 1 .. Len(l) : i # j => l[i] # l[j]
      /\ \A q \in Live(S) : \E i \in 1 .. Len(l) : l[i] = q
  BY DEF ListedLive, AllListed
<1>3. Len(l) \in Nat
  BY <1>2
<1>4. PICK n \in 1 .. Len(l) : l[n] = p
  BY <1>2
<1>5. First = {n}
  <2>1. n \in First
    <3>1. ASSUME NEW j \in 1 .. (n - 1) PROVE l[j] # p
      <4>1. j \in 1 .. Len(l) /\ j # n
        BY <1>3
      <4> QED
        BY <1>2, <1>4, <4>1
    <3> QED
      BY <1>4, <3>1
  <2>2. \A i \in First : i = n
    BY <1>2, <1>4
  <2> QED
    BY <2>1, <2>2
<1>6. t = Without(l, n)
  <2>1. (CHOOSE i \in First : TRUE) = n
    BY <1>5
  <2>2. First # {}
    BY <1>5
  <2>3. t = Without(l, CHOOSE i \in First : TRUE)
    BY <2>2, Zenon DEF listnode_delete, Without
  <2> QED
    BY <2>1, <2>3, Zenon
<1> HIDE DEF l, t, First
<1>7. /\ t \in Seq(PeerAddr) /\ Len(t) = Len(l) - 1
      /\ \A j \in 1 .. Len(t) : t[j] = IF j < n THEN l[j] ELSE l[j + 1]
  BY <1>2, <1>6, WithoutIs
<1>8. \A j \in 1 .. Len(t) : t[j] \in Live(S) /\ t[j] # p
  <2> SUFFICES ASSUME NEW j \in 1 .. Len(t) PROVE t[j] \in Live(S) /\ t[j] # p
    OBVIOUS
  <2>1. CASE j < n
    BY <1>2, <1>3, <1>4, <1>7, <2>1
  <2>2. CASE ~(j < n)
    <3>1. j + 1 \in 1 .. Len(l) /\ j + 1 # n /\ t[j] = l[j + 1]
      BY <1>3, <1>7, <2>2
    <3> QED
      BY <1>2, <1>4, <3>1
  <2> QED
    BY <2>1, <2>2
<1>9. ASSUME NEW i \in 1 .. Len(t), NEW j \in 1 .. Len(t), i # j PROVE t[i] # t[j]
  <2> DEFINE a == IF i < n THEN i ELSE i + 1
             b == IF j < n THEN j ELSE j + 1
  <2>1. a \in 1 .. Len(l) /\ b \in 1 .. Len(l) /\ a # b
    BY <1>3, <1>7, <1>9
  <2>2. t[i] = l[a] /\ t[j] = l[b]
    BY <1>7
  <2> HIDE DEF a, b
  <2> QED
    BY <1>2, <2>1, <2>2
<1>10. ASSUME NEW q \in Live(S) \ {p} PROVE \E i \in 1 .. Len(t) : t[i] = q
  <2>1. PICK i \in 1 .. Len(l) : l[i] = q
    BY <1>2
  <2>2. i # n
    BY <1>4, <2>1
  <2>3. CASE i < n
    BY <1>3, <1>7, <2>1, <2>3
  <2>4. CASE i > n
    <3>1. i - 1 \in 1 .. Len(t) /\ t[i - 1] = l[i]
      BY <1>3, <1>7, <2>4
    <3> QED
      BY <2>1, <3>1
  <2> QED
    BY <1>3, <2>2, <2>3, <2>4
<1> QED
  BY <1>1, <1>7, <1>8, <1>9, <1>10, Zenon DEF Unlisted, ListedLive, t

\* Freeing it then.
LEMMA ListFree ==
    ASSUME NEW S, NEW T, NEW p \in PeerAddr, NEW F, NEW G, Changes(S, T, p, F, G), "list" \notin G,
           Unlisted(S, p), T.peer[p].mem = "freed"
    PROVE  ListedLive(T) /\ AllListed(T)
<1>1. T.list = S.list
  BY DEF Changes, SysFields
<1>2. Live(T) = Live(S) \ {p}
  BY DEF Changes, Live
<1> QED
  BY <1>1, <1>2 DEF Unlisted, ListedLive, AllListed

-----------------------------------------------------------------------------
(* Descriptors.                                                            *)

\* A step of one peer keeps every descriptor owned by one peer if it keeps that of p.
LEMMA OwnFrame ==
    ASSUME NEW S, NEW T, NEW p \in PeerAddr, NEW F, NEW G, Shape(S), Changes(S, T, p, F, G), AllOwn(S),
           T.peer[p].mem = "live" => (T.peer[p].t_read = "on" => T.peer[p].fd >= 0),
           T.peer[p].mem = "live" /\ Owns(T.peer[p]) =>
               /\ T.peer[p].fd \in T.open
               /\ \A q \in Live(S) \ {p} : Owns(S.peer[q]) => S.peer[q].fd # T.peer[p].fd,
           \A q \in Live(S) \ {p} : Owns(S.peer[q]) => S.peer[q].fd \in T.open
    PROVE  AllOwn(T)
<1>1. \A q \in Live(T) \ {p} : q \in Live(S) /\ T.peer[q] = S.peer[q]
  BY DEF Changes, Live
<1>2. p \in Live(T) => T.peer[p].mem = "live"
  BY DEF Live
<1>3. ASSUME NEW q \in Live(T)
      PROVE  /\ T.peer[q].t_read = "on" => T.peer[q].fd >= 0
             /\ Owns(T.peer[q]) => T.peer[q].fd \in T.open
  <2>1. CASE q = p
    BY <1>2, <2>1
  <2>2. CASE q # p
    <3>1. q \in Live(S) /\ q \in Live(S) \ {p} /\ T.peer[q] = S.peer[q]
      BY <1>1, <2>2
    <3> QED
      BY <3>1 DEF AllOwn
  <2> QED
    BY <2>1, <2>2
<1>4. ASSUME NEW q \in Live(T), NEW r \in Live(T), q # r, Owns(T.peer[q]), Owns(T.peer[r])
      PROVE  T.peer[q].fd # T.peer[r].fd
  <2>1. CASE q = p
    BY <1>1, <1>2, <1>4, <2>1
  <2>2. CASE r = p
    BY <1>1, <1>2, <1>4, <2>2
  <2>3. CASE q # p /\ r # p
    BY <1>1, <1>4, <2>3 DEF AllOwn
  <2> QED
    BY <2>1, <2>2, <2>3
<1> QED
  BY <1>3, <1>4 DEF AllOwn

-----------------------------------------------------------------------------
(* Steps of a live peer.                                                   *)

\* What is left of the freed peers stays, when none is freed.
LEMMA GoneFrame ==
    ASSUME NEW S, NEW T, NEW p \in Live(S), NEW F, NEW G, Changes(S, T, p, F, G),
           F \cap {"mem", "mode"} = {}
    PROVE  /\ AllGone(S) => AllGone(T)
           /\ FreedListener(S) <=> FreedListener(T)
<1>1. p \in PeerAddr /\ S.peer[p].mem = "live"
  BY DEF Live
<1>2. T.peer[p].mem = "live"
  BY <1>1 DEF Changes, PeerFields
<1>3. \A q \in PeerAddr : q # p => T.peer[q] = S.peer[q]
  BY DEF Changes
<1> QED
  BY <1>1, <1>2, <1>3 DEF AllGone, FreedListener

\* A step of a live peer that frees nothing keeps the invariant when it keeps the tables,
\* what the peer waits for and the descriptors.
LEMMA LiveStep ==
    ASSUME NEW S, NEW T, NEW p \in Live(S), NEW F, NEW G, Changes(S, T, p, F, G),
           F \cap {"mem", "mode"} = {}, "list" \notin G, PeerInv(S), S.crashed = "no",
           HashCore(T), T.crashed = "freed" /\ DefaultUnpack => FreedListener(T),
           T.crashed = "no" => Waits(T.peer[p]) /\ IdsOK(T) /\ (DefaultUnpack => AllOwn(T))
    PROVE  PeerInv(T)
<1>0. p \in PeerAddr /\ Shape(T)
  BY DEF Live, Changes
<1>1. AllGone(T)
  BY GoneFrame DEF PeerInv, Always
<1>2. ListedLive(T) /\ AllListed(T)
  BY <1>0, ListFrame DEF PeerInv, Always, Running
<1>3. Live(T) = Live(S)
  BY <1>0, SameLive
<1>4. T.crashed = "no" => AllWait(T)
  BY <1>3 DEF AllWait, PeerInv, Running, Changes, Live
<1> QED
  BY <1>0, <1>1, <1>2, <1>4 DEF PeerInv, Always, Running

\* The same for a step that leaves the tables alone.
LEMMA WaitStep ==
    ASSUME NEW S, NEW T, NEW p \in Live(S), NEW F, NEW G, Changes(S, T, p, F, G),
           F \cap {"mem", "mode", "drole", "registered"} = {}, G \cap {"list", "hash", "mid"} = {},
           PeerInv(S), S.crashed = "no", T.crashed # "freed",
           T.crashed = "no" => Waits(T.peer[p]) /\ (DefaultUnpack => AllOwn(T))
    PROVE  PeerInv(T)
<1>0. Shape(S) /\ HashCore(S) /\ IdsOK(S)
  BY DEF PeerInv, Always, Running
<1>1. p \in PeerAddr /\ IsPeer(S.peer[p])
  BY <1>0, LiveIs
<1>2. HashCore(T) /\ IdsOK(T)
  BY <1>0, <1>1, HashFrame
<1> QED
  BY <1>2, LiveStep, Zenon

\* A step that changes neither the peers nor a table.
LEMMA GlobalStep ==
    ASSUME NEW S, NEW T, NEW g \in {"loop", "crashed"}, NEW v, SetsGlobal(S, T, g, v), PeerInv(S),
           S.crashed = "no", T.crashed = "freed" /\ DefaultUnpack => FreedListener(S)
    PROVE  PeerInv(T)
<1>0. Shape(S)
  BY DEF PeerInv, Always
<1>1. /\ Shape(T) /\ T.peer = S.peer /\ T.list = S.list /\ T.hash = S.hash /\ T.mid = S.mid
      /\ T.open = S.open
  <2>1. DOMAIN S = SysFields
    BY <1>0 DEF Shape
  <2>2. /\ DOMAIN T = SysFields /\ T = [f \in SysFields |-> T[f]]
        /\ \A f \in SysFields : f # g => T[f] = S[f]
    BY <2>1, Zenon DEF SetsGlobal
  <2>3. /\ T.peer = S.peer /\ T.list = S.list /\ T.hash = S.hash /\ T.mid = S.mid
        /\ T.open = S.open
    BY <2>2 DEF SysFields
  <2> QED
    BY <1>0, <2>2, <2>3 DEF Shape
<1>2. Live(T) = Live(S)
  BY <1>1 DEF Live
<1>3. AllGone(T) /\ ListedLive(T) /\ (FreedListener(S) => FreedListener(T))
  BY <1>1, <1>2 DEF PeerInv, Always, AllGone, ListedLive, FreedListener
<1>4. HashCore(T)
  BY <1>1 DEF PeerInv, Always, HashCore, HashBackets, HashPassive
<1>5. AllWait(T) /\ AllListed(T) /\ (DefaultUnpack => AllOwn(T))
  <2>1. AllWait(S) /\ AllListed(S) /\ (DefaultUnpack => AllOwn(S))
    BY DEF PeerInv, Running
  <2>2. AllWait(T) /\ AllListed(T)
    BY <1>1, <1>2, <2>1, Zenon DEF AllWait, AllListed
  <2>3. AllOwn(S) => AllOwn(T)
    BY <1>1, <1>2, Zenon DEF AllOwn
  <2> QED
    BY <2>1, <2>2, <2>3
<1>6. IdsOK(T)
  <2>1. IdsOK(S)
    BY DEF PeerInv, Running
  <2>2. MidType(T) /\ (NewUnhashed(S) => NewUnhashed(T))
    BY <1>1, <1>2, <2>1, Zenon DEF IdsOK, MidType, NewUnhashed, NoBacket
  <2>3. KeysDiffer(S, {}) /\ (DefaultUnpack => NewUnhashed(S))
    BY <2>1 DEF IdsOK
  <2>4. KeysDiffer(T, {})
    BY <1>1, <1>2, <2>3, KeysFrame, Zenon
  <2> QED
    BY <2>2, <2>3, <2>4 DEF IdsOK
<1> QED
  BY <1>1, <1>3, <1>4, <1>5, <1>6 DEF PeerInv, Always, Running

\* peer_register that has met a freed peer.
LEMMA RegisterCrash ==
    ASSUME HashFinds,
           NEW S, NEW T, NEW p \in Live(S), NEW F, NEW G, Shape(S), Changes(S, T, p, F, G),
           F \cap {"mem", "mode"} = {}, "hash" \notin G, AllGone(S), HashCore(S), IdsOK(S),
           DefaultUnpack /\ S.peer[p].mode = "passive" => ~S.peer[p].registered,
           NEW k, FoundFreed(T, k)
    PROVE  HashCore(T) /\ (DefaultUnpack => FreedListener(T))
<1>0. p \in PeerAddr /\ IsPeer(S.peer[p])
  BY LiveIs
<1>1. T.hash = S.hash /\ Shape(T) /\ T.peer[p] # NoPeer
  BY NoPeerIs DEF Changes, SysFields
<1>2. T.peer[p].mode = S.peer[p].mode
  BY DEF Changes, PeerFields
<1>3. \A q \in PeerAddr : q # p => T.peer[q] = S.peer[q]
  BY DEF Changes
<1>4. HashBackets(T)
  BY <1>1, <1>3, BacketIs DEF HashBackets, HashCore
<1>5. ASSUME DefaultUnpack PROVE HashPassive(T)
  <2>1. ASSUME NEW i \in 1 .. Len(S.hash), T.peer[S.hash[i].data].mode = "passive"
        PROVE  T.peer[S.hash[i].data] = S.peer[S.hash[i].data]
    <3>1. S.hash[i].data \in PeerAddr
      BY BacketIs DEF HashBackets, HashCore
    <3>2. S.hash[i].data # p
      BY <1>2, <1>5, <2>1 DEF IdsOK, NewUnhashed, NoBacket
    <3> QED
      BY <1>3, <3>1, <3>2
  <2>2. HashPassive(S)
    BY <1>5 DEF HashCore
  <2> QED
    BY <1>1, <2>1, <2>2, PassiveFrame
<1>6. HashCore(T)
  BY <1>4, <1>5 DEF HashCore
<1>7. AllGone(T)
  BY GoneFrame
<1> QED
  BY <1>1, <1>6, <1>7, FoundListener DEF FoundFreed

-----------------------------------------------------------------------------
(* Start.                                                                  *)

\* A step that leaves the descriptors alone and makes the peer own no more than before.
LEMMA OwnLess ==
    ASSUME NEW S, NEW T, NEW p \in Live(S), NEW F, NEW G, Shape(S), Changes(S, T, p, F, G), AllOwn(S),
           F \cap {"fd", "mem"} = {}, "open" \notin G, Owns(T.peer[p]) => Owns(S.peer[p]),
           T.peer[p].t_read = "on" => S.peer[p].t_read = "on"
    PROVE  AllOwn(T)
<1>0. p \in PeerAddr
  BY DEF Live
<1>1. T.peer[p].fd = S.peer[p].fd /\ T.open = S.open
  BY DEF Changes, PeerFields, SysFields
<1>2. /\ S.peer[p].t_read = "on" => S.peer[p].fd >= 0
      /\ Owns(S.peer[p]) =>
            /\ S.peer[p].fd \in S.open
            /\ \A q \in Live(S) \ {p} : Owns(S.peer[q]) => S.peer[q].fd # S.peer[p].fd
      /\ \A q \in Live(S) \ {p} : Owns(S.peer[q]) => S.peer[q].fd \in S.open
  BY DEF AllOwn
<1> QED
  BY <1>0, <1>1, <1>2, OwnFrame

\* peer->start: a new descriptor is nobody's, and the one the peer had is its own.
LEMMA OwnStarted ==
    ASSUME NEW S, NEW U, NEW T, NEW p \in Live(S), NEW F, NEW G, NEW st, Shape(S),
           Changes(S, T, p, F, G), F \cap {"mem", "link"} = {}, AllOwn(S), Started(S, U, p, st),
           T.peer[p].fd = U.peer[p].fd, T.open = U.open,
           T.peer[p].t_read = "on" => st # "error",
           T.peer[p].t_connect # "on" => st # "error"
    PROVE  AllOwn(T)
<1>0. p \in PeerAddr /\ S.peer[p].fd \in Int /\ T.peer[p].fd \in Int
  BY LiveIs, Zenon DEF IsPeer, Changes
<1>1. T.peer[p].link = S.peer[p].link
  BY DEF Changes, PeerFields
<1>2. S.open \subseteq T.open
  BY DEF Started
<1>3. \A q \in Live(S) \ {p} : Owns(S.peer[q]) => S.peer[q].fd \in S.open
  BY DEF AllOwn
<1>4. T.peer[p].t_read = "on" => T.peer[p].fd >= 0
  BY DEF Started
<1>5. ASSUME Owns(T.peer[p])
      PROVE  /\ T.peer[p].fd \in T.open
             /\ \A q \in Live(S) \ {p} : Owns(S.peer[q]) => S.peer[q].fd # T.peer[p].fd
  <2>1. T.peer[p].fd >= 0 /\ (S.peer[p].link \in {"tcp", "listen"} \/ st # "error")
    BY <1>1, <1>5 DEF Owns
  <2>2. T.open = S.open \cup ({T.peer[p].fd} \ {-1})
    BY <2>1 DEF Started
  <2>a. T.peer[p].fd # -1
    BY <1>0, <2>1
  <2>3. T.peer[p].fd \in T.open
    BY <2>2, <2>a, Zenon
  <2>4. CASE T.peer[p].fd \in NewFds(S)
    <3>1. T.peer[p].fd \notin S.open
      BY <2>4, <2>a, NewFdsAre, Zenon
    <3> QED
      BY <1>3, <2>3, <3>1
  <2>5. CASE /\ S.peer[p].link \in {"tcp", "listen"}
             /\ T.peer[p].fd = S.peer[p].fd /\ S.peer[p].fd >= 0
    <3>1. Owns(S.peer[p])
      BY <2>5 DEF Owns
    <3> QED
      BY <2>3, <2>5, <3>1 DEF AllOwn
  <2> QED
    BY <2>4, <2>5, Zenon DEF Started
<1> QED
  BY <1>0, <1>2, <1>3, <1>4, <1>5, OwnFrame, Zenon

\* misaka_start_success and the tables.
SuccessFields == {"status", "drole", "registered", "fd", "t_read", "t_write", "callback"}

\* What misaka_start_success leaves in the tables, or the backet that made it crash.
LEMMA SuccessTables ==
    ASSUME HashFinds,
           NEW S, NEW p \in Live(S), Shape(S), S.crashed = "no", AllGone(S), HashCore(S), IdsOK(S),
           DefaultUnpack /\ S.peer[p].mode = "passive" => ~S.peer[p].registered,
           NEW T \in misaka_start_success(S, p)
    PROVE  /\ Changes(S, T, p, SuccessFields, {"mid", "hash", "open", "crashed"})
           /\ HashCore(T) /\ T.crashed \in {"no", "freed"}
           /\ T.crashed = "freed" /\ DefaultUnpack => FreedListener(T)
           /\ T.crashed = "no" => SuccessDone(S, T, p) /\ IdsOK(T)
<1>0. p \in PeerAddr /\ IsPeer(S.peer[p])
  BY LiveIs
<1>1. CASE SuccessDone(S, T, p)
  <2>1. Changes(S, T, p, SuccessFields, {"mid", "hash", "open"}) /\ Registers(S, T, p)
    BY <1>1 DEF SuccessDone, SuccessFields
  <2>2. T.crashed = "no"
    BY <2>1 DEF Changes, SysFields
  <2>3. SuccessFields \cap {"mem", "mode"} = {}
    BY DEF SuccessFields
  <2>4. HashCore(T) /\ IdsOK(T)
    BY <2>1, <2>3, RegisterKeeps
  <2>5. Changes(S, T, p, SuccessFields, {"mid", "hash", "open", "crashed"})
    <3> DEFINE G == {"mid", "hash", "open"}
               K == {"mid", "hash", "open", "crashed"}
    <3>1. G \subseteq K
      OBVIOUS
    <3>2. Changes(S, T, p, SuccessFields, G)
      BY <2>1
    <3> HIDE DEF G, K
    <3>3. Changes(S, T, p, SuccessFields, K)
      BY <3>1, <3>2, ChangesMore
    <3> QED
      BY <3>3 DEF K
  <2> QED
    BY <1>1, <2>2, <2>4, <2>5
<1>2. CASE SuccessCrashed(S, T, p)
  <2> DEFINE F == {"status", "drole", "registered"}
  <2>1. Changes(S, T, p, F, {"mid", "crashed"}) /\ FoundFreed(T, T.peer[p].drole)
    BY <1>2 DEF SuccessCrashed
  <2>2. F \cap {"mem", "mode"} = {} /\ F \subseteq SuccessFields
    BY DEF SuccessFields
  <2> HIDE DEF F
  <2>3. HashCore(T) /\ (DefaultUnpack => FreedListener(T))
    BY <2>1, <2>2, RegisterCrash, Zenon
  <2>4. Changes(S, T, p, SuccessFields, {"mid", "hash", "open", "crashed"})
    BY <2>1, <2>2, ChangesMore
  <2> QED
    BY <2>1, <2>3, <2>4 DEF FoundFreed
<1> QED
  BY <1>0, <1>1, <1>2, SuccessIs, Zenon

\* The connect timer of a peer that has stopped, or is new, is started.
LEMMA TimerStarts ==
    ASSUME NEW S, NEW p \in Live(S), PeerInv(S), S.crashed = "no",
           ~S.peer[p].quick, S.peer[p].t_connect # "on", S.peer[p].status = "idle",
           S.peer[p].t_read # "on", S.peer[p].t_write # "on", NEW T \in misaka_start(S, p)
    PROVE  PeerInv(T)
<1>0. Shape(S) /\ Waits(S.peer[p]) /\ (DefaultUnpack => AllOwn(S))
  BY DEF PeerInv, Always, Running, AllWait
<1>1. p \in PeerAddr /\ IsPeer(S.peer[p])
  BY <1>0, LiveIs
<1> DEFINE F == {"orphans", "t_connect"}
<1>2. Changes(S, T, p, F, {}) /\ T.peer[p].t_connect = "on" /\ T.peer[p].orphans = 0
  BY <1>0, <1>1, StartTimerIs, Zenon DEF Waits
<1>3. /\ T.crashed = "no"
      /\ \A f \in PeerFields \ F : T.peer[p][f] = S.peer[p][f]
  BY <1>2 DEF Changes, SysFields
<1>4. Waits(T.peer[p])
  BY <1>0, <1>2, <1>3, Zenon DEF Waits, PeerFields
<1>5. Owns(T.peer[p]) => Owns(S.peer[p])
  BY <1>2, <1>3 DEF Owns, PeerFields
<1>6. DefaultUnpack => AllOwn(T)
  BY <1>0, <1>2, <1>3, <1>5, OwnLess, Zenon DEF PeerFields
<1> QED
  BY <1>2, <1>3, <1>4, <1>6, WaitStep

-----------------------------------------------------------------------------
(* The connect timer.                                                      *)

\* The tables after peer->start.
LEMMA StartedTables ==
    ASSUME NEW S, NEW U, NEW p \in Live(S), NEW st, PeerInv(S), S.crashed = "no", Started(S, U, p, st)
    PROVE  /\ p \in Live(U) /\ Shape(U) /\ U.crashed = "no" /\ AllGone(U) /\ HashCore(U) /\ IdsOK(U)
           /\ \A f \in PeerFields \ {"fd"} : U.peer[p][f] = S.peer[p][f]
<1>0. Shape(S) /\ AllGone(S) /\ HashCore(S) /\ IdsOK(S)
  BY DEF PeerInv, Always, Running
<1>1. p \in PeerAddr /\ IsPeer(S.peer[p])
  BY <1>0, LiveIs
<1>2. Changes(S, U, p, {"fd"}, {"open"})
  BY DEF Started
<1>3. HashCore(U) /\ IdsOK(U) /\ AllGone(U)
  <2>1. HashCore(U) /\ IdsOK(U)
    BY <1>0, <1>1, <1>2, HashFrame
  <2>2. AllGone(U)
    BY <1>0, <1>2, GoneFrame
  <2> QED
    BY <2>1, <2>2
<1>4. Live(U) = Live(S)
  BY <1>1, <1>2, SameLive
<1> QED
  BY <1>2, <1>3, <1>4 DEF Changes, SysFields

\* connect_status_trigger after peer->start.
LEMMA TriggerKeeps ==
    ASSUME HashFinds,
           NEW S, NEW p \in Live(S), PeerInv(S), S.crashed = "no", S.peer[p].t_connect = "on",
           NEW U, NEW st, Started(S, U, p, st), NEW T \in connect_status_trigger(U, p, st)
    PROVE  PeerInv(T)
<1>0. Shape(S) /\ Waits(S.peer[p]) /\ (DefaultUnpack => AllOwn(S))
  BY DEF PeerInv, Always, Running, AllWait
<1>1. p \in PeerAddr /\ IsPeer(S.peer[p])
  BY <1>0, LiveIs
<1>2. /\ p \in Live(U) /\ Shape(U) /\ U.crashed = "no" /\ AllGone(U) /\ HashCore(U) /\ IdsOK(U)
      /\ \A f \in PeerFields \ {"fd"} : U.peer[p][f] = S.peer[p][f]
  BY StartedTables
<1>3. Changes(S, U, p, {"fd"}, {"open"})
  BY DEF Started
<1>4. IsPeer(U.peer[p])
  BY <1>3 DEF Changes
<1>5. st # "error" => U.peer[p].fd \in U.open
  BY DEF Started
<1>6. /\ S.peer[p].t_read # "on" /\ S.peer[p].mode # "passive"
      /\ S.peer[p].link = "tcp" => S.peer[p].mode = "connect"
  BY <1>0 DEF Waits
<1>7. CASE st = "error"
  <2>1. T = U
    BY <1>7, TriggerError
  <2>2. Waits(U.peer[p])
    BY <1>0, <1>2, Zenon DEF Waits, PeerFields
  <2>3. U.peer[p].t_read # "on" /\ U.peer[p].t_connect = "on"
    BY <1>2, <1>6, Zenon DEF PeerFields
  <2>4. DefaultUnpack => AllOwn(U)
    BY <1>0, <1>3, <2>3, OwnStarted
  <2> QED
    BY <1>2, <1>3, <2>1, <2>2, <2>4, WaitStep, Zenon
<1>8. CASE st = "success"
  <2>1. PICK V \in misaka_start_success(U, p) :
            IF V.crashed = "no" THEN TimerOff(V, T, p) ELSE T = V
    BY <1>8, TriggerSuccess
  <2>2. U.peer[p].mode # "passive"
    BY <1>2, <1>6 DEF PeerFields
  <2>3. /\ Changes(U, V, p, SuccessFields, {"mid", "hash", "open", "crashed"})
        /\ HashCore(V) /\ V.crashed \in {"no", "freed"}
        /\ V.crashed = "freed" /\ DefaultUnpack => FreedListener(V)
        /\ V.crashed = "no" => SuccessDone(U, V, p) /\ IdsOK(V)
    BY <1>2, <2>1, <2>2, SuccessTables, Zenon
  <2> DEFINE F == {"fd"} \cup SuccessFields
             G == {"open"} \cup {"mid", "hash", "open", "crashed"}
  <2>4. Changes(S, V, p, F, G)
    BY <1>3, <2>3, ChangesTrans
  <2>5. F \cap {"mem", "mode", "link", "orphans", "t_connect", "out", "quick"} = {} /\ "list" \notin G
    BY DEF SuccessFields
  <2> HIDE DEF F, G
  <2>6. CASE V.crashed # "no"
    <3>1. T = V
      BY <2>1, <2>6
    <3> QED
      BY <2>3, <2>4, <2>5, <2>6, <3>1, LiveStep
  <2>7. CASE V.crashed = "no"
    <3>1. SuccessDone(U, V, p) /\ IdsOK(V) /\ HashCore(V) /\ TimerOff(V, T, p)
      BY <2>1, <2>3, <2>7
    <3>2. Shape(V) /\ IsPeer(V.peer[p])
      BY <2>4 DEF Changes
    <3>3. Changes(V, T, p, {"t_connect"}, {}) /\ T.peer[p].t_connect = "off"
      BY <1>1, <3>1, <3>2, TimerOffIs, Zenon
    <3>4. HashCore(T) /\ IdsOK(T)
      <4> DEFINE A == {"t_connect"}
                 B == {}
      <4>1. /\ A \cap {"mem", "mode", "drole", "registered"} = {} /\ B \cap {"hash", "mid"} = {}
            /\ Changes(V, T, p, A, B)
        BY <3>3
      <4> HIDE DEF A, B
      <4> QED
        BY <1>1, <3>1, <3>2, <4>1, HashFrame
    <3>5. Changes(S, T, p, F \cup {"t_connect"}, G \cup {})
      BY <2>4, <3>3, ChangesTrans
    <3>6. T.crashed = "no" /\ T.open = V.open
      BY <2>7, <3>3 DEF Changes, SysFields
    <3>7. \A f \in PeerFields \ {"t_connect"} : T.peer[p][f] = V.peer[p][f]
      BY <3>3 DEF Changes
    <3>8. /\ T.peer[p].fd = U.peer[p].fd /\ T.open = U.open
      BY <1>5, <1>8, <3>1, <3>6, <3>7, Zenon DEF SuccessDone, PeerFields
    <3>9. T.peer[p].status = "esta" /\ T.peer[p].registered
      BY <3>1, <3>7, Zenon DEF SuccessDone, Registers, PeerFields
    <3>10. Serves(T.peer[p].t_read) /\ (T.peer[p].out > 0 => Serves(T.peer[p].t_write))
      <4>1. T.peer[p].t_read = V.peer[p].t_read /\ T.peer[p].t_write = V.peer[p].t_write
            /\ T.peer[p].out = V.peer[p].out
        BY <3>7 DEF PeerFields
      <4>2. V.peer[p].out = U.peer[p].out
        BY <2>3 DEF Changes, PeerFields, SuccessFields
      <4> QED
        BY <3>1, <4>1, <4>2, Zenon DEF SuccessDone
    <3>11. \A f \in {"mode", "link", "orphans", "quick"} : T.peer[p][f] = S.peer[p][f]
      BY <2>5, <3>5 DEF Changes, PeerFields
    <3>12. Waits(T.peer[p])
      <4>1. /\ T.peer[p].mode = S.peer[p].mode /\ T.peer[p].link = S.peer[p].link
            /\ T.peer[p].orphans = S.peer[p].orphans /\ T.peer[p].quick = S.peer[p].quick
        BY <3>11, Zenon
      <4> QED
        BY <1>0, <3>3, <3>9, <3>10, <4>1, Zenon DEF Waits
    <3>13. DefaultUnpack => AllOwn(T)
      <4>1. (F \cup {"t_connect"}) \cap {"mem", "link"} = {}
        BY <2>5
      <4> QED
        BY <1>0, <1>8, <3>5, <3>8, <4>1, OwnStarted, Zenon
    <3>14. (F \cup {"t_connect"}) \cap {"mem", "mode"} = {} /\ "list" \notin G \cup {}
      BY <2>5
    <3> QED
      BY <3>4, <3>5, <3>6, <3>12, <3>13, <3>14, LiveStep, Zenon
  <2> QED
    BY <2>6, <2>7
<1>9. CASE st = "progress"
  <2>1. PICK V \in misaka_start_progress(U, p) :
            IF V.crashed = "no" THEN TimerOff(V, T, p) ELSE T = V
    BY <1>9, TriggerProgress
  <2>2. /\ Changes(U, V, p, {"status", "t_read"}, {}) /\ V.peer[p].status = "idle"
        /\ V.peer[p].t_read \in {"on", U.peer[p].t_read}
        /\ Serves(V.peer[p].t_read)
    BY <1>1, <1>2, <1>4, <1>5, <1>9, <2>1, ProgressIs, Zenon
  <2>3. V.crashed = "no" /\ V.open = U.open /\ Shape(V) /\ IsPeer(V.peer[p])
    BY <1>2, <2>2, Zenon DEF Changes, SysFields
  <2>4. Changes(V, T, p, {"t_connect"}, {}) /\ T.peer[p].t_connect = "off"
    <3>1. TimerOff(V, T, p)
      BY <2>1, <2>3
    <3> QED
      BY <1>1, <2>3, <3>1, TimerOffIs
  <2> DEFINE F == {"fd", "status", "t_read", "t_connect"}
  <2>5. Changes(S, T, p, F, {"open"})
    <3>1. Changes(S, V, p, {"fd"} \cup {"status", "t_read"}, {"open"} \cup {})
      BY <1>3, <2>2, ChangesTrans
    <3>2. Changes(S, T, p, ({"fd"} \cup {"status", "t_read"}) \cup {"t_connect"}, ({"open"} \cup {}) \cup {})
      BY <2>4, <3>1, ChangesTrans
    <3> QED
      BY <3>2, ChangesMore
  <2>6. T.crashed = "no" /\ T.open = U.open
    BY <2>3, <2>4 DEF Changes, SysFields
  <2>7. \A f \in PeerFields \ {"t_connect"} : T.peer[p][f] = V.peer[p][f]
    BY <2>4 DEF Changes
  <2>8. T.peer[p].fd = U.peer[p].fd
    BY <2>2, <2>7 DEF Changes, PeerFields
  <2>9. T.peer[p].status = "idle" /\ Serves(T.peer[p].t_read)
    BY <2>2, <2>7 DEF PeerFields
  <2>10. S.peer[p].link = "tcp"
    BY <1>9 DEF Started
  <2>11. Waits(T.peer[p])
    <3>1. /\ T.peer[p].mode = S.peer[p].mode /\ T.peer[p].link = S.peer[p].link
          /\ T.peer[p].orphans = S.peer[p].orphans /\ T.peer[p].quick = S.peer[p].quick
          /\ T.peer[p].out = S.peer[p].out /\ T.peer[p].t_write = S.peer[p].t_write
      BY <2>5, Zenon DEF Changes, PeerFields
    <3> QED
      BY <1>0, <1>6, <2>4, <2>9, <2>10, <3>1, Zenon DEF Waits
  <2>12. DefaultUnpack => AllOwn(T)
    BY <1>0, <1>9, <2>5, <2>6, <2>8, OwnStarted, Zenon
  <2>13. /\ F \cap {"mem", "mode", "drole", "registered"} = {}
         /\ {"open"} \cap {"list", "hash", "mid"} = {}
    BY Zenon
  <2>14. T.crashed # "freed"
    BY <2>6
  <2> HIDE DEF F
  <2> QED
    BY <2>5, <2>11, <2>12, <2>13, <2>14, WaitStep, Zenon
<1> QED
  BY <1>7, <1>8, <1>9 DEF Started

\* misaka_start_thread.
LEMMA TimerKeeps ==
    ASSUME HashFinds,
           NEW S, NEW p \in PeerAddr, PeerInv(S), S.crashed = "no", S.peer[p] # NoPeer,
           S.peer[p].t_connect = "on" \/ S.peer[p].orphans > 0, NEW T \in misaka_start_thread(S, p)
    PROVE  PeerInv(T)
<1>0. Shape(S) /\ AllGone(S) /\ AllWait(S)
  BY DEF PeerInv, Always, Running
<1>1. IsPeer(S.peer[p])
  BY <1>0 DEF Shape
<1>2. S.peer[p].mem # "freed"
  BY <1>0 DEF AllGone, Gone
<1>3. p \in Live(S)
  BY <1>1, <1>2 DEF Live, IsPeer
<1>4. Waits(S.peer[p])
  BY <1>0, <1>3 DEF AllWait
<1>5. S.peer[p].t_connect = "on" /\ S.peer[p].status # "esta"
  <2>1. S.peer[p].orphans = 0 /\ (S.peer[p].t_connect = "on" => S.peer[p].status = "idle")
    BY <1>4, Zenon DEF Waits
  <2> QED
    BY <2>1
<1>6. S.peer[p].link \in {"tcp", "listen", "udp", "ludp", "sdio"}
  BY <1>4 DEF Waits
<1>7. T \in UNION {connect_status_trigger(r[1], p, r[2]) : r \in PeerStart(S, p)}
  BY <1>2, <1>5, Zenon DEF misaka_start_thread
<1>8. PICK r \in PeerStart(S, p) : T \in connect_status_trigger(r[1], p, r[2])
  BY <1>7
<1>9. Started(S, r[1], p, r[2])
  BY <1>0, <1>1, <1>6, PeerStartIs
<1> QED
  BY <1>3, <1>5, <1>8, <1>9, TriggerKeeps
=============================================================================
