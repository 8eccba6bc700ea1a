---------------------------- MODULE Peer_proofs -----------------------------
(***************************************************************************)
(* Theorems about Peer: its invariant holds in every reachable state, for  *)
(* any number of blocks of memory, links, ids and packets, and the         *)
(* properties of the peers follow from it.                                 *)
(***************************************************************************)
EXTENDS PeerActions_proofs, FiniteSetTheorems, WellFoundedInduction, NaturalsInduction

\* A nonempty set of positions has a first one.
LEMMA FirstPosition ==
    ASSUME NEW n \in Nat, NEW P \in SUBSET (1 .. n), P # {}
    PROVE  \E i \in P : \A j \in 1 .. (i - 1) : j \notin P
<1> DEFINE R == OpToRel(<, Nat)
<1>1. IsWellFoundedOn(R, Nat)
  BY NatLessThanWellFounded
<1>2. P \subseteq Nat
  OBVIOUS
<1>3. R = {ss \in Nat \X Nat : ss[1] < ss[2]}
  BY Zenon DEF OpToRel
<1> HIDE DEF R
<1>4. PICK i \in P : \A j \in P : ~(<<j, i>> \in R)
  BY <1>1, <1>2, WFMin, Zenon
<1>5. ASSUME NEW j \in 1 .. (i - 1), j \in P PROVE FALSE
  <2>1. j \in Nat /\ i \in Nat /\ j < i
    BY <1>2, <1>5
  <2>2. <<j, i>> \in R
    BY <1>3, <2>1
  <2> QED
    BY <1>4, <1>5, <2>2
<1> QED
  BY <1>5

\* The search of the table finds the first match.
LEMMA HashFindsFirst == HashFinds
<1> SUFFICES ASSUME NEW h, NEW key, NEW k, Len(h) \in Nat
             PROVE  \/ hash_find(h, key, k) = 0 /\ \A j \in 1 .. Len(h) : ~Matches(h, key, k, j)
                    \/ /\ hash_find(h, key, k) \in 1 .. Len(h) /\ Matches(h, key, k, hash_find(h, key, k))
                       /\ \A j \in 1 .. (hash_find(h, key, k) - 1) : ~Matches(h, key, k, j)
  BY Zenon DEF HashFinds
<1> DEFINE P == {i \in 1 .. Len(h) : Matches(h, key, k, i)}
           First(i) == Matches(h, key, k, i) /\ \A j \in 1 .. (i - 1) : ~Matches(h, key, k, j)
<1>1. CASE P = {}
  BY <1>1 DEF hash_find
<1>2. CASE P # {}
  <2>1. PICK i \in P : \A j \in 1 .. (i - 1) : j \notin P
    BY <1>2, FirstPosition
  <2>2. i \in 1 .. Len(h) /\ First(i)
    BY <2>1
  <2>3. hash_find(h, key, k) = CHOOSE j \in 1 .. Len(h) : First(j)
    BY <2>2 DEF hash_find
  <2> HIDE DEF First
  <2>4. hash_find(h, key, k) \in 1 .. Len(h) /\ First(hash_find(h, key, k))
    BY <2>2, <2>3, Zenon
  <2> QED
    BY <2>4 DEF First
<1> QED
  BY <1>1, <1>2

\* The invariant holds before the first peer is made.
LEMMA InitInv == PeerInit => PeerInv(sys)
<1> SUFFICES ASSUME NEW g \in FirstIds,
                    sys = [peer |-> [p \in PeerAddr |-> NoPeer], list |-> <<>>, hash |-> <<>>,
                           mid |-> idmaker_new(0, MAX_ID, g), open |-> {0}, loop |-> FALSE,
                           crashed |-> "no"]
             PROVE  PeerInv(sys)
  BY DEF PeerInit
<1>1. Shape(sys)
  BY DEF Shape, SysFields
<1>2. /\ sys.peer = [p \in PeerAddr |-> NoPeer] /\ sys.list = <<>> /\ sys.hash = <<>>
      /\ sys.mid = idmaker_new(0, MAX_ID, g) /\ sys.crashed = "no"
  OBVIOUS
<1>3. Live(sys) = {} /\ \A p \in PeerAddr : sys.peer[p].mem # "freed"
  BY <1>2, NoPeerIs DEF Live
<1>4. MidType(sys)
  <2>1. g \in Int /\ MAX_ID \in Int
    BY PeerAssumption
  <2> QED
    BY <1>2, <2>1 DEF MidType, Maker, idmaker_new
<1>7. /\ sys.list \in Seq(PeerAddr) /\ sys.hash \in Seq(Backet)
      /\ 1 .. Len(sys.list) = {} /\ 1 .. Len(sys.hash) = {}
  BY <1>2
<1>5. AllGone(sys) /\ ListedLive(sys) /\ HashCore(sys) /\ AllListed(sys) /\ AllWait(sys) /\ AllOwn(sys)
  <2>1. AllGone(sys) /\ AllListed(sys) /\ AllWait(sys)
    BY <1>3, Zenon DEF AllGone, AllListed, AllWait
  <2>2. AllOwn(sys)
    BY <1>3, Zenon DEF AllOwn
  <2>3. ListedLive(sys)
    BY <1>7, Zenon DEF ListedLive
  <2>4. HashCore(sys)
    BY <1>7, Zenon DEF HashCore, HashBackets, HashPassive
  <2> QED
    BY <2>1, <2>2, <2>3, <2>4
<1>6. IdsOK(sys)
  <2>1. KeysDiffer(sys, {})
    BY <1>3, <1>7, Zenon DEF KeysDiffer
  <2>2. NewUnhashed(sys)
    BY <1>3, Zenon DEF NewUnhashed
  <2> QED
    BY <1>4, <2>1, <2>2 DEF IdsOK
<1> QED
  BY <1>1, <1>2, <1>5, <1>6 DEF PeerInv, Always, Running

\* The invariant of the peers: what each of them waits for, peer_list, peer_hash, the ids
\* and the descriptors, through every callback.
THEOREM PeerInvariant == PeerSpec => []PeerInv(sys)
<1>1. PeerInit => PeerInv(sys)
  BY InitInv
<1>2. PeerInv(sys) /\ [PeerNext]_sys => PeerInv(sys')
  BY HashFindsFirst, NextInv
<1>3. PeerInv(sys)' <=> PeerInv(sys')
  BY Zenon DEF PeerInv, Always, Running, Shape, AllGone, ListedLive, HashCore, HashBackets, HashPassive, FreedListener, AllWait, AllListed, IdsOK, MidType, KeysDiffer, NewUnhashed, NoBacket, AllOwn, Live
<1> QED
  BY <1>1, <1>2, <1>3, PTL DEF PeerSpec

-----------------------------------------------------------------------------
(* The properties.                                                         *)

\* The part of the invariant about what a peer waits for gives both properties of waiting.
LEMMA InvOneWait == PeerInv(sys) => OneWait /\ NoPacketWaits
<1> SUFFICES ASSUME PeerInv(sys), NEW p \in PeerAddr, Up(p) PROVE Waits(sys.peer[p])
  BY DEF OneWait, NoPacketWaits, Waits, Serves, Up
<1> QED
  BY DEF PeerInv, Running, AllWait, Up

\* A started peer has its connect timer or its read watcher, never both and never an
\* earlier timer, through any sequence of errors, closes and reconnects.
THEOREM OneWaitCorrect == PeerSpec => []OneWait
<1>1. PeerInv(sys) => OneWait
  BY InvOneWait
<1> QED
  BY <1>1, PeerInvariant, PTL

\* A packet in the obuf of an established peer has a write watcher that is active or, when
\* nothing was ever written to the watcher's memory, looks active to ev_is_active.
THEOREM NoPacketWaitsCorrect == PeerSpec => []NoPacketWaits
<1>1. PeerInv(sys) => NoPacketWaits
  BY InvOneWait
<1> QED
  BY <1>1, PeerInvariant, PTL

\* Peers that are read from own different, open descriptors, when no unpack callback of
\* an accepted peer asks for a close.
THEOREM OwnDescriptorCorrect == ASSUME DefaultUnpack PROVE PeerSpec => []OwnDescriptor
<1>1. PeerInv(sys) => OwnDescriptor
  <2> SUFFICES ASSUME PeerInv(sys), NEW p \in PeerAddr, NEW q \in PeerAddr, Up(p), Up(q),
                      sys.peer[p].t_read = "on", sys.peer[q].t_read = "on"
               PROVE  sys.peer[p].fd \in sys.open /\ (p # q => sys.peer[p].fd # sys.peer[q].fd)
    BY DEF OwnDescriptor
  <2>1. /\ p \in Live(sys) /\ q \in Live(sys) /\ AllOwn(sys)
        /\ Waits(sys.peer[p]) /\ Waits(sys.peer[q])
    BY DefaultUnpack DEF PeerInv, Running, AllWait, Up
  <2>2. Owns(sys.peer[p]) /\ Owns(sys.peer[q])
    BY <2>1 DEF Owns, AllOwn, Waits
  <2> QED
    BY <2>1, <2>2 DEF AllOwn
<1> QED
  BY <1>1, PeerInvariant, PTL

\* While the ids last, the id of a registered peer leads to it, and peer_list is the list
\* of the live peers.
THEOREM RoutableCorrect == PeerSpec => []Routable
<1>1. ASSUME PeerInv(sys) PROVE Routable
  <2> SUFFICES ASSUME sys.crashed = "no"
               PROVE  /\ sys.mid.curr # sys.mid.stop =>
                          \A p \in Live(sys) : sys.peer[p].registered =>
                              hash_lookup(sys.hash, Key(sys), sys.peer[p].drole) = {p}
                      /\ {sys.list[i] : i \in 1 .. Len(sys.list)} = Live(sys)
                      /\ Len(sys.list) = Cardinality(Live(sys))
    BY DEF Routable
  <2>0. Shape(sys) /\ IdsOK(sys) /\ HashCore(sys) /\ ListedLive(sys) /\ AllListed(sys)
    BY <1>1 DEF PeerInv, Always, Running
  <2> DEFINE l == sys.list
             h == sys.hash
             n == Len(l)
  <2>1. l \in Seq(PeerAddr) /\ n \in Nat /\ l \in [1 .. n -> PeerAddr]
    BY <2>0 DEF ListedLive
  <2>2. /\ \A i \in 1 .. n : l[i] \in Live(sys)
        /\ \A i, j \in 1 .. n : i # j => l[i] # l[j]
        /\ \A p \in Live(sys) : \E i \in 1 .. n : l[i] = p
    BY <2>0 DEF ListedLive, AllListed
  <2>3. {l[i] : i \in 1 .. n} = Live(sys)
    BY <2>2
  <2>4. n = Cardinality(Live(sys))
    <3> HIDE DEF l, n
    <3>1. l \in [1 .. n -> Live(sys)]
      BY <2>1, <2>2
    <3>2. l \in Bijection(1 .. n, Live(sys))
      BY <2>2, <3>1 DEF Bijection, Injection, Surjection, IsInjective
    <3>3. ExistsBijection(1 .. n, Live(sys))
      BY <3>2 DEF ExistsBijection
    <3> QED
      BY <2>1, <3>3, FS_CountingElements
  <2>5. ASSUME sys.mid.curr # sys.mid.stop, NEW p \in Live(sys), sys.peer[p].registered
        PROVE  hash_lookup(h, Key(sys), sys.peer[p].drole) = {p}
    <3> DEFINE k == sys.peer[p].drole
               key == Key(sys)
               i == hash_find(h, key, k)
    <3>1. /\ \A a, b \in 1 .. Len(h) : a # b => h[a].key # h[b].key
          /\ \E a \in 1 .. Len(h) : h[a].data = p /\ h[a].key = k
      BY <2>0, <2>5 DEF IdsOK, KeysDiffer
    <3>2. PICK a \in 1 .. Len(h) : h[a].data = p /\ h[a].key = k
      BY <3>1
    <3>3. p \in PeerAddr /\ sys.peer[p] # NoPeer
      BY <2>0, LiveIs
    <3>4. key[p] = k
      BY <3>3 DEF Key
    <3>5. Len(h) \in Nat
      BY <2>0 DEF HashCore, HashBackets
    <3> HIDE DEF h, key, k
    <3>6. Matches(h, key, k, a)
      BY <3>2, <3>4 DEF Matches
    <3>7. \/ i = 0 /\ \A j \in 1 .. Len(h) : ~Matches(h, key, k, j)
          \/ i \in 1 .. Len(h) /\ Matches(h, key, k, i)
      BY <3>5, HashFindsFirst, HashFind
    <3>8. i \in 1 .. Len(h) /\ h[i].key = k
      BY <3>2, <3>6, <3>7 DEF Matches
    <3>9. i = a /\ i # 0
      BY <3>1, <3>2, <3>8
    <3> QED
      BY <3>2, <3>9 DEF hash_lookup, h, key, k
  <2> QED
    BY <2>3, <2>4, <2>5
<1> QED
  BY <1>1, PeerInvariant, PTL

\* A closed accepted peer leaves no backet, list entry, watcher or timer behind, and freed
\* memory is used only where tcp_accept has freed the listener.
THEOREM PassiveGoneCorrect == ASSUME DefaultUnpack PROVE PeerSpec => []PassiveGone
<1>1. ASSUME PeerInv(sys) PROVE PassiveGone
  <2>0. /\ AllGone(sys) /\ ListedLive(sys) /\ HashPassive(sys)
        /\ sys.crashed = "freed" => FreedListener(sys)
    BY <1>1, DefaultUnpack DEF PeerInv, Always, HashCore
  <2> DEFINE Freed(mode) == {p \in PeerAddr : sys.peer[p].mem = "freed" /\ sys.peer[p].mode = mode}
  <2>1. ASSUME NEW p \in Freed("passive")
        PROVE  /\ \A i \in 1 .. Len(sys.hash) : sys.hash[i].data # p
               /\ \A i \in 1 .. Len(sys.list) : sys.list[i] # p
               /\ sys.peer[p].t_read # "on" /\ sys.peer[p].t_write # "on"
               /\ sys.peer[p].t_connect # "on"
    <3>1. p \in PeerAddr /\ sys.peer[p].mem = "freed" /\ sys.peer[p].mode = "passive"
      OBVIOUS
    <3>2. \A i \in 1 .. Len(sys.hash) : sys.hash[i].data # p
      BY <2>0, <3>1 DEF HashPassive
    <3>3. \A i \in 1 .. Len(sys.list) : sys.list[i] # p
      BY <2>0, <3>1 DEF ListedLive, Live
    <3> QED
      BY <2>0, <3>1, <3>2, <3>3 DEF AllGone, Gone
  <2>2. sys.crashed = "freed" => Freed("listen") # {}
    BY <2>0 DEF FreedListener
  <2> QED
    BY <2>1, <2>2, Zenon DEF PassiveGone
<1> QED
  BY <1>1, PeerInvariant, PTL
=============================================================================
