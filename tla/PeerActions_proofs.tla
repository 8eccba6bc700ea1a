------------------------- MODULE PeerActions_proofs -------------------------
(***************************************************************************)
(* The handlers that make and open a peer, route, write, close and read    *)
(* keep the inductive invariant of PeerTables_proofs, and with the connect *)
(* timer so does every action of Peer.                                     *)
(***************************************************************************)
EXTENDS PeerTables_proofs

-----------------------------------------------------------------------------
(* A new peer.                                                             *)

\* peer_register of a peer that is not registered.
LEMMA RegisterStep ==
    ASSUME HashFinds,
           NEW S, NEW p \in Live(S), PeerInv(S), S.crashed = "no", ~S.peer[p].registered,
           NEW T \in peer_register(S, p)
    PROVE  /\ PeerInv(T)
           /\ Changes(S, T, p, {"drole", "registered"}, {"mid", "hash", "crashed"})
<1>0. /\ Shape(S) /\ Waits(S.peer[p]) /\ (DefaultUnpack => AllOwn(S))
      /\ AllGone(S) /\ HashCore(S) /\ IdsOK(S)
  BY DEF PeerInv, Always, Running, AllWait
<1>1. p \in PeerAddr /\ IsPeer(S.peer[p])
  BY <1>0, LiveIs
<1> DEFINE F == {"drole", "registered"}
<1>f. F \cap {"mem", "mode"} = {} /\ F \cap {"fd", "mem"} = {}
  OBVIOUS
<1>2. CASE Changes(S, T, p, F, {"mid", "hash"}) /\ Registers(S, T, p)
  <2>1. HashCore(T) /\ IdsOK(T)
    BY <1>0, <1>2, <1>f, RegisterKeeps
  <2>2. \A f \in PeerFields \ F : T.peer[p][f] = S.peer[p][f]
    BY <1>2 DEF Changes
  <2>3. T.peer[p].registered
    BY <1>2 DEF Registers
  <2>4. Waits(T.peer[p])
    BY <1>0, <2>2, <2>3 DEF Waits, PeerFields
  <2>5. (Owns(T.peer[p]) => Owns(S.peer[p])) /\ (T.peer[p].t_read = "on" => S.peer[p].t_read = "on")
    BY <2>2 DEF Owns, PeerFields
  <2>6. DefaultUnpack => AllOwn(T)
    BY <1>0, <1>2, <1>f, <2>5, OwnLess
  <2>7. T.crashed = "no"
    BY <1>2 DEF Changes, SysFields
  <2> HIDE DEF F
  <2>8. PeerInv(T)
    BY <1>2, <1>f, <2>1, <2>4, <2>6, <2>7, LiveStep, Zenon
  <2> QED
    BY <1>2, <2>8, ChangesMore DEF F
<1>3. CASE Changes(S, T, p, F, {"mid", "crashed"}) /\ FoundFreed(T, T.peer[p].drole)
  <2> HIDE DEF F
  <2>1. HashCore(T) /\ (DefaultUnpack => FreedListener(T))
    BY <1>0, <1>3, <1>f, RegisterCrash, Zenon
  <2>2. PeerInv(T)
    BY <1>3, <1>f, <2>1, LiveStep, Zenon DEF FoundFreed
  <2> QED
    BY <1>3, <2>2, ChangesMore DEF F
<1> QED
  BY <1>0, <1>1, <1>2, <1>3, RegisterIs

\* The watchers of a new peer: memory nothing has been written to.
LEMMA MallocedIs ==
    ASSUME NEW io \in Malloced
    PROVE  io.t_read \in {"new", "junk"} /\ io.t_write \in {"new", "junk"}
  BY PeerAssumption

\* peer_new.
LEMMA NewStep ==
    ASSUME NEW S, NEW N, NEW q \in PeerAddr, PeerInv(S), S.crashed = "no", S.peer[q] = NoPeer,
           NEW link \in {"tcp", "listen", "udp", "ludp", "sdio"},
           NEW mode \in {"connect", "passive", "listen"},
           mode = "listen" <=> link = "listen", mode = "passive" => link = "tcp",
           NEW fd \in Int, NEW d, NEW io \in Malloced, Changes(S, N, q, PeerFields, {"list", "open"}),
           N.peer[q] = NewPeer(link, mode, fd, d, io), N.list = Append(S.list, q),
           (fd < 0 /\ N.open = S.open) \/ (fd \notin S.open /\ N.open = S.open \cup {fd})
    PROVE  PeerInv(N) /\ q \in Live(N) /\ N.crashed = "no"
<1>0. /\ Shape(S) /\ AllGone(S) /\ HashCore(S) /\ IdsOK(S) /\ ListedLive(S) /\ AllListed(S)
      /\ AllWait(S) /\ (DefaultUnpack => AllOwn(S))
  BY DEF PeerInv, Always, Running
<1> DEFINE r == N.peer[q]
<1>1. /\ r.mem = "live" /\ r.link = link /\ r.mode = mode /\ r.status = "idle" /\ r.fd = fd
      /\ r.t_read \in {"new", "junk"} /\ r.t_connect = "none" /\ r.orphans = 0 /\ r.out = 0
  BY NewFields, MallocedIs
<1>2. (r.quick <=> mode = "passive") /\ ~r.registered
  BY NewFlags
<1>3. Waits(r)
  BY <1>1, <1>2 DEF Waits, Serves
<1>4. q \in Live(N) /\ N.crashed = "no" /\ Shape(N)
  BY <1>1 DEF Live, Changes, SysFields
<1>5. \A x \in PeerAddr : x # q => N.peer[x] = S.peer[x]
  BY DEF Changes
<1>6. AllGone(N)
  BY <1>0, <1>1, <1>5 DEF AllGone
<1>7. ListedLive(N) /\ AllListed(N)
  BY <1>0, <1>1, ListNew
<1>8. HashCore(N) /\ IdsOK(N)
  BY <1>0, <1>2, NewKeeps
<1>9. AllWait(N)
  BY <1>0, <1>3, <1>5 DEF AllWait, Live
<1>10. ASSUME DefaultUnpack PROVE AllOwn(N)
  <2>1. \A x \in Live(S) \ {q} : Owns(S.peer[x]) => S.peer[x].fd \in S.open
    BY <1>0, <1>10 DEF AllOwn
  <2>2. r.t_read # "on" /\ (Owns(r) => fd \notin S.open /\ N.open = S.open \cup {fd})
    BY <1>1 DEF Owns
  <2>3. \A x \in Live(S) \ {q} : Owns(S.peer[x]) => S.peer[x].fd \in N.open
    BY <2>1
  <2>4. Owns(r) => /\ r.fd \in N.open
                   /\ \A x \in Live(S) \ {q} : Owns(S.peer[x]) => S.peer[x].fd # r.fd
    BY <1>1, <2>1, <2>2
  <2> QED
    BY <1>0, <1>10, <2>2, <2>3, <2>4, OwnFrame, Zenon
<1> QED
  BY <1>4, <1>6, <1>7, <1>8, <1>9, <1>10 DEF PeerInv, Always, Running

\* OpenLink.
LEMMA OpenKeeps ==
    ASSUME HashFinds,
           NEW p \in PeerAddr, NEW register, NEW disparser, NEW io \in Malloced,
           PeerInv(sys), sys.crashed = "no", OpenLink(p, register, disparser, io)
    PROVE  PeerInv(sys')
<1> DEFINE Mode(link) == IF link = "listen" THEN "listen" ELSE "connect"
           New(link) == peer_new(sys, p, link, Mode(link), -1, disparser, io)
           Reg(link) == IF register THEN peer_register(New(link), p) ELSE {New(link)}
<1>1. PICK link \in Links[p] : sys' \in After(Reg(link), LAMBDA T : misaka_start(T, p))
  BY Zenon DEF OpenLink
<1>2. sys.peer[p] = NoPeer /\ p \in 1 .. Len(Links)
  BY PeerAssumption DEF OpenLink, Fresh, PeerAddr
<1>3. link \in {"tcp", "listen", "udp", "ludp", "sdio"}
  <2>1. Links[p] \in SUBSET {"tcp", "listen", "udp", "ludp", "sdio"}
    BY <1>2, PeerAssumption
  <2> QED
    BY <2>1
<1> DEFINE N == New(link)
<1>4. PICK R \in Reg(link) : IF R.crashed = "no" THEN sys' \in misaka_start(R, p) ELSE sys' = R
  <2>1. sys' \in UNION {IF R.crashed = "no" THEN misaka_start(R, p) ELSE {R} : R \in Reg(link)}
    BY <1>1, Zenon DEF After
  <2> QED
    BY <2>1, Zenon
<1>5. Shape(sys)
  BY DEF PeerInv, Always
<1>6. /\ Changes(sys, N, p, PeerFields, {"list"})
      /\ N.peer[p] = NewPeer(link, Mode(link), -1, disparser, io) /\ N.list = Append(sys.list, p)
  <2> HIDE DEF Reg, Mode
  <2> QED
    BY <1>5, NewIs
<1>7. Changes(sys, N, p, PeerFields, {"list", "open"}) /\ N.open = sys.open
  <2> HIDE DEF N, New, Reg, Mode
  <2>1. Changes(sys, N, p, PeerFields, {"list", "open"})
    BY <1>6, ChangesMore
  <2> QED
    BY <2>1, <1>6 DEF Changes, SysFields
<1>8. Mode(link) \in {"connect", "listen"} /\ (Mode(link) = "listen" <=> link = "listen")
  OBVIOUS
<1>9. R \in peer_register(N, p) \/ R = N
  BY <1>4
<1> HIDE DEF N, New, Reg, Mode
<1>10. PeerInv(N) /\ p \in Live(N) /\ N.crashed = "no"
  <2> DEFINE fd == -1
  <2>1. fd \in Int /\ fd < 0 /\ N.peer[p] = NewPeer(link, Mode(link), fd, disparser, io)
    BY <1>6
  <2>2. Mode(link) \in {"connect", "passive", "listen"} /\ Mode(link) # "passive"
    BY <1>8
  <2> HIDE DEF fd
  <2> QED
    BY <1>2, <1>3, <1>6, <1>7, <1>8, <2>1, <2>2, NewStep
<1>11. /\ N.peer[p].status = "idle" /\ N.peer[p].t_read # "on" /\ N.peer[p].t_write # "on"
       /\ N.peer[p].t_connect = "none" /\ ~N.peer[p].quick /\ ~N.peer[p].registered
  <2>1. /\ N.peer[p].status = "idle" /\ N.peer[p].t_read # "on" /\ N.peer[p].t_write # "on"
        /\ N.peer[p].t_connect = "none"
    BY <1>6, NewFields, MallocedIs
  <2>2. ~N.peer[p].quick /\ ~N.peer[p].registered
    <3>1. Mode(link) # "passive"
      BY <1>8
    <3> QED
      BY <1>6, <3>1, NewFlags
  <2> QED
    BY <2>1, <2>2
<1>12. /\ PeerInv(R) /\ p \in Live(R)
       /\ R.peer[p].status = "idle" /\ R.peer[p].t_read # "on" /\ R.peer[p].t_write # "on"
       /\ R.peer[p].t_connect = "none" /\ ~R.peer[p].quick
  <2>1. CASE R = N
    BY <2>1, <1>10, <1>11
  <2>2. CASE R \in peer_register(N, p)
    <3>1. /\ PeerInv(R)
          /\ Changes(N, R, p, {"drole", "registered"}, {"mid", "hash", "crashed"})
      BY <1>10, <1>11, <2>2, RegisterStep
    <3>2. Live(R) = Live(N)
      BY <3>1, SameLive
    <3> QED
      BY <1>10, <1>11, <3>1, <3>2 DEF Changes, PeerFields
  <2> QED
    BY <1>9, <2>1, <2>2
<1> QED
  BY <1>4, <1>12, TimerStarts

-----------------------------------------------------------------------------
(* Packets.                                                                *)

\* An accepted peer that is registered and has nothing to send waits as it should.
LEMMA WaitsUp ==
    ASSUME NEW r, r.orphans = 0, r.mode = "passive", r.link = "tcp", r.quick, r.out = 0,
           r.t_connect # "on", Serves(r.t_read), r.registered
    PROVE  Waits(r)
  BY DEF Waits

\* misaka_packet_route.
LEMMA RouteKeeps ==
    ASSUME HashFinds,
           NEW S, PeerInv(S), S.crashed = "no", NEW nid, NEW T \in misaka_packet_route(S, nid)
    PROVE  PeerInv(T)
<1>0. /\ Shape(S) /\ AllGone(S) /\ HashCore(S) /\ AllWait(S) /\ (DefaultUnpack => AllOwn(S))
  BY DEF PeerInv, Always, Running
<1>1. Len(S.hash) \in Nat
  BY <1>0 DEF HashCore, HashBackets
<1>2. CASE SetsGlobal(S, T, "crashed", "freed") /\ ~(hash_compared(S.hash, Key(S), nid) \subseteq Live(S))
  <2>1. DefaultUnpack => FreedListener(S)
    BY <1>0, <1>2, FoundListener
  <2> QED
    BY <1>2, <2>1, GlobalStep
<1>3. ASSUME NEW q \in PeerAddr, Pushed(S, T, q) PROVE PeerInv(T)
  <2> DEFINE F == {"out", "t_write", "callback"}
  <2>1. q \in Live(S) /\ Changes(S, T, q, F, {})
    BY <1>3 DEF Pushed
  <2>2. \A f \in PeerFields \ F : T.peer[q][f] = S.peer[q][f]
    BY <2>1 DEF Changes
  <2>3. Waits(S.peer[q])
    BY <1>0, <2>1 DEF AllWait
  <2>4. /\ T.peer[q].t_connect = "on" => T.peer[q].t_write = S.peer[q].t_write
        /\ T.peer[q].status = "esta" => Serves(T.peer[q].t_write)
    BY <1>3, <2>2, <2>3 DEF Pushed, Waits, PeerFields
  <2>5. Waits(T.peer[q])
    BY <2>2, <2>3, <2>4 DEF Waits, PeerFields
  <2>7. T.crashed # "freed" /\ F \cap {"fd", "mem"} = {}
        /\ F \cap {"mem", "mode", "drole", "registered"} = {}
    BY <2>1 DEF Changes, SysFields
  <2>8. (Owns(T.peer[q]) => Owns(S.peer[q])) /\ (T.peer[q].t_read = "on" => S.peer[q].t_read = "on")
    BY <2>2 DEF Owns, PeerFields
  <2> HIDE DEF F
  <2>9. DefaultUnpack => AllOwn(T)
    BY <1>0, <2>1, <2>7, <2>8, OwnLess
  <2> QED
    BY <2>1, <2>5, <2>7, <2>9, WaitStep, Zenon
<1> QED
  BY <1>0, <1>1, <1>2, <1>3, RouteIs

\* misaka_write.
LEMMA WriteKeeps ==
    ASSUME NEW S, NEW p \in Live(S), PeerInv(S), S.crashed = "no", S.peer[p].t_write = "on",
           NEW T \in misaka_write(S, p)
    PROVE  PeerInv(T)
<1>0. Shape(S) /\ Waits(S.peer[p]) /\ (DefaultUnpack => AllOwn(S))
  BY DEF PeerInv, Always, Running, AllWait
<1>1. p \in PeerAddr /\ IsPeer(S.peer[p])
  BY <1>0, LiveIs
<1>2. CASE SetsGlobal(S, T, "crashed", "callback")
  <2>1. T.crashed = "callback"
    BY <1>0, <1>2 DEF SetsGlobal, Shape, SysFields
  <2> QED
    BY <1>2, <2>1, GlobalStep
<1>3. CASE /\ Changes(S, T, p, {"out", "t_write"}, {}) /\ S.peer[p].status = "esta"
           /\ T.peer[p].t_write = IF T.peer[p].out = 0 THEN "off" ELSE S.peer[p].t_write
  <2> DEFINE F == {"out", "t_write"}
  <2>1. Changes(S, T, p, F, {})
    BY <1>3
  <2>2. \A f \in PeerFields \ F : T.peer[p][f] = S.peer[p][f]
    BY <2>1 DEF Changes
  <2>3. Waits(T.peer[p])
    <3>1. S.peer[p].t_connect # "on"
      BY <1>0 DEF Waits
    <3>2. T.peer[p].t_connect # "on" /\ (T.peer[p].out > 0 => Serves(T.peer[p].t_write))
      BY <1>3, <2>2, <3>1 DEF PeerFields, Serves
    <3> QED
      BY <1>0, <2>2, <3>1, <3>2 DEF Waits, PeerFields
  <2>4. (Owns(T.peer[p]) => Owns(S.peer[p])) /\ (T.peer[p].t_read = "on" => S.peer[p].t_read = "on")
    BY <2>2 DEF Owns, PeerFields
  <2>5. T.crashed # "freed" /\ F \cap {"fd", "mem"} = {}
        /\ F \cap {"mem", "mode", "drole", "registered"} = {}
    BY <2>1 DEF Changes, SysFields
  <2> HIDE DEF F
  <2>6. DefaultUnpack => AllOwn(T)
    BY <1>0, <2>1, <2>4, <2>5, OwnLess, Zenon
  <2> QED
    BY <2>1, <2>3, <2>5, <2>6, WaitStep, Zenon
<1> QED
  BY <1>0, <1>1, <1>2, <1>3, WriteIs

-----------------------------------------------------------------------------
(* Stop.                                                                   *)

\* Closing the descriptor of a peer closes no other peer's.
LEMMA OwnClosed ==
    ASSUME NEW S, NEW T, NEW p \in Live(S), NEW F, NEW G, Shape(S), Changes(S, T, p, F, G), AllOwn(S),
           S.peer[p].t_connect # "on", T.open = S.open \ {S.peer[p].fd},
           T.peer[p].fd = -1, T.peer[p].t_read # "on"
    PROVE  AllOwn(T)
<1>0. p \in PeerAddr /\ S.peer[p].fd \in Int
  BY LiveIs, Zenon DEF IsPeer
<1>1. ~Owns(T.peer[p])
  BY DEF Owns
<1>2. S.peer[p].fd >= 0 => Owns(S.peer[p])
  BY DEF Owns
<1>3. ASSUME NEW q \in Live(S) \ {p}, Owns(S.peer[q]) PROVE S.peer[q].fd \in T.open
  <2>1. S.peer[q].fd \in S.open /\ S.peer[q].fd >= 0
    BY <1>3 DEF AllOwn, Owns
  <2>2. S.peer[q].fd # S.peer[p].fd
    <3>1. CASE S.peer[p].fd >= 0
      BY <1>2, <1>3, <3>1 DEF AllOwn
    <3>2. CASE ~(S.peer[p].fd >= 0)
      BY <2>1, <3>2
    <3> QED
      BY <3>1, <3>2
  <2> QED
    BY <2>1, <2>2
<1> QED
  BY <1>0, <1>1, <1>3, OwnFrame, Zenon

\* misaka_reconnect.
LEMMA ReconnectKeeps ==
    ASSUME HashFinds,
           NEW S, NEW p \in Live(S), PeerInv(S), S.crashed = "no", S.peer[p].t_read = "on",
           DefaultUnpack => S.peer[p].mode # "passive", NEW T \in misaka_reconnect(S, p)
    PROVE  PeerInv(T)
<1>0. /\ Shape(S) /\ Waits(S.peer[p]) /\ (DefaultUnpack => AllOwn(S))
      /\ AllGone(S) /\ HashCore(S) /\ IdsOK(S)
  BY DEF PeerInv, Always, Running, AllWait
<1>1. p \in PeerAddr /\ IsPeer(S.peer[p]) /\ S.peer[p].t_connect # "on"
  BY <1>0, LiveIs DEF Waits
<1>2. PICK V \in misaka_stop(S, p) : IF V.crashed = "no" THEN T \in misaka_start(V, p) ELSE T = V
  <2>1. T \in UNION {IF V.crashed = "no" THEN misaka_start(V, p) ELSE {V} : V \in misaka_stop(S, p)}
    BY Zenon DEF misaka_reconnect, After
  <2> QED
    BY <2>1, Zenon
<1>3. CASE StopCrashed(S, V, p)
  <2> DEFINE F == {"status", "t_read", "t_write", "t_connect"}
  <2>1. Changes(S, V, p, F, {"crashed"}) /\ V.crashed \in {"watcher", "disparser"}
    BY <1>3 DEF StopCrashed
  <2>2. F \cap {"mem", "mode", "drole", "registered"} = {} /\ {"crashed"} \cap {"list", "hash", "mid"} = {}
    OBVIOUS
  <2> HIDE DEF F
  <2>3. T = V
    BY <1>2, <2>1
  <2> QED
    BY <2>1, <2>2, <2>3, WaitStep
<1>4. CASE StopDone(S, V, p)
  <2> DEFINE F == {"status", "t_read", "t_write", "t_connect", "fd", "out"}
  <2>1. Changes(S, V, p, F, {"open"})
    BY <1>4 DEF StopDone
  <2>2. V.crashed = "no" /\ Shape(V) /\ IsPeer(V.peer[p])
    BY <2>1 DEF Changes, SysFields
  <2>3. T \in misaka_start(V, p)
    BY <1>2, <2>2
  <2>4. /\ V.peer[p].status = "idle" /\ V.peer[p].t_read # "on" /\ V.peer[p].t_write # "on"
        /\ V.peer[p].t_connect # "on" /\ V.peer[p].fd = -1 /\ V.peer[p].out = 0
        /\ V.open = S.open \ {S.peer[p].fd}
    BY <1>1, <1>4 DEF StopDone
  <2>5. F \cap {"mem", "mode", "drole", "registered", "orphans", "quick", "link"} = {}
    OBVIOUS
  <2>6. \A f \in {"mem", "mode", "drole", "registered", "orphans", "quick", "link"} :
            V.peer[p][f] = S.peer[p][f]
    BY <2>1 DEF Changes, PeerFields
  <2>7. /\ V.peer[p].mem = S.peer[p].mem /\ V.peer[p].mode = S.peer[p].mode
        /\ V.peer[p].quick = S.peer[p].quick /\ V.peer[p].orphans = S.peer[p].orphans
        /\ V.peer[p].link = S.peer[p].link /\ V.peer[p].registered = S.peer[p].registered
    BY <2>6
  <2> HIDE DEF F
  <2>8. HashCore(V) /\ IdsOK(V)
    <3>1. F \cap {"mem", "mode", "drole", "registered"} = {}
      BY <2>5
    <3> QED
      BY <1>0, <1>1, <2>1, <3>1, HashFrame
  <2>9. CASE ~S.peer[p].quick
    <3> DEFINE H == {"orphans", "t_connect"}
    <3>1. Changes(V, T, p, H, {}) /\ T.peer[p].t_connect = "on" /\ T.peer[p].orphans = 0
      <4>1. V.peer[p].orphans = 0
        BY <1>0, <2>7, <2>9 DEF Waits
      <4>2. V.peer[p].t_connect # "on" /\ ~V.peer[p].quick
        BY <2>4, <2>7, <2>9, Zenon
      <4> QED
        BY <1>1, <2>2, <2>3, <4>1, <4>2, StartTimerIs, Zenon
    <3>2. Changes(S, T, p, F \cup H, {"open"} \cup {})
      BY <2>1, <3>1, ChangesTrans
    <3>3. \A f \in PeerFields \ H : T.peer[p][f] = V.peer[p][f]
      BY <3>1 DEF Changes
    <3>4. T.open = V.open /\ T.crashed = "no"
      BY <2>2, <3>1 DEF Changes, SysFields
    <3>5. /\ T.peer[p].status = "idle" /\ T.peer[p].t_read # "on" /\ T.peer[p].t_write # "on"
          /\ T.peer[p].fd = -1 /\ T.peer[p].out = 0
      BY <2>4, <3>3 DEF PeerFields
    <3>6. /\ T.peer[p].mode = S.peer[p].mode /\ T.peer[p].quick = S.peer[p].quick
          /\ T.peer[p].link = S.peer[p].link /\ T.peer[p].registered = S.peer[p].registered
      BY <2>7, <3>3 DEF PeerFields
    <3>7. Waits(T.peer[p])
      BY <1>0, <2>9, <3>1, <3>5, <3>6 DEF Waits
    <3>8. (F \cup H) \cap {"mem", "mode", "drole", "registered"} = {}
      BY <2>5
    <3> HIDE DEF H
    <3>9. DefaultUnpack => AllOwn(T)
      BY <1>0, <1>1, <2>4, <3>2, <3>4, <3>5, OwnClosed
    <3> QED
      BY <3>2, <3>4, <3>7, <3>8, <3>9, WaitStep, Zenon
  <2>10. CASE S.peer[p].quick
    <3>1. ~DefaultUnpack
      BY <1>0, <2>10 DEF Waits
    <3>2. T \in misaka_start_success(V, p)
      BY <2>3, <2>7, <2>10 DEF misaka_start
    <3>3. AllGone(V) /\ p \in Live(V)
      <4>1. F \cap {"mem", "mode"} = {}
        BY <2>5
      <4>2. Live(V) = Live(S)
        BY <1>1, <2>1, <2>5, SameLive
      <4> QED
        BY <1>0, <2>1, <4>1, <4>2, GoneFrame
    <3>4. /\ Changes(V, T, p, SuccessFields, {"mid", "hash", "open", "crashed"})
          /\ HashCore(T)
          /\ T.crashed = "freed" /\ DefaultUnpack => FreedListener(T)
          /\ T.crashed = "no" => SuccessDone(V, T, p) /\ IdsOK(T)
      BY <2>2, <2>8, <3>1, <3>2, <3>3, SuccessTables
    <3> DEFINE G == {"open"} \cup {"mid", "hash", "open", "crashed"}
    <3>5. Changes(S, T, p, F \cup SuccessFields, G)
      BY <2>1, <3>4, ChangesTrans
    <3>6. (F \cup SuccessFields) \cap {"mem", "mode"} = {} /\ "list" \notin G
      BY <2>5 DEF SuccessFields
    <3>7. ASSUME T.crashed = "no" PROVE Waits(T.peer[p])
      <4>1. /\ T.peer[p].mode = V.peer[p].mode /\ T.peer[p].quick = V.peer[p].quick
            /\ T.peer[p].link = V.peer[p].link /\ T.peer[p].orphans = V.peer[p].orphans
            /\ T.peer[p].out = V.peer[p].out /\ T.peer[p].t_connect = V.peer[p].t_connect
        BY <3>4 DEF Changes, PeerFields, SuccessFields
      <4>2. Serves(T.peer[p].t_read) /\ T.peer[p].registered
        BY <3>4, <3>7 DEF SuccessDone, Registers
      <4>3. /\ T.peer[p].mode = S.peer[p].mode /\ T.peer[p].quick = S.peer[p].quick
            /\ T.peer[p].link = S.peer[p].link /\ T.peer[p].orphans = S.peer[p].orphans
            /\ T.peer[p].out = 0 /\ T.peer[p].t_connect # "on"
        BY <2>4, <2>7, <4>1
      <4> QED
        <5>1. S.peer[p].orphans = 0 /\ S.peer[p].mode = "passive" /\ S.peer[p].link = "tcp"
          BY <1>0, <2>10 DEF Waits
        <5>2. T.peer[p].orphans = 0 /\ T.peer[p].mode = "passive" /\ T.peer[p].link = "tcp" /\ T.peer[p].quick
          BY <2>10, <4>3, <5>1
        <5> QED
          BY <4>2, <4>3, <5>2, WaitsUp
    <3> HIDE DEF G
    <3> QED
      BY <3>1, <3>4, <3>5, <3>6, <3>7, LiveStep
  <2> QED
    BY <2>9, <2>10
<1> QED
  BY <1>0, <1>1, <1>2, <1>3, <1>4, StopIs

-----------------------------------------------------------------------------
(* Delete.                                                                 *)

\* peer_unregister and peer_delete of an accepted peer that is closed, or of the listener.
LEMMA DeleteKeeps ==
    ASSUME HashFinds,
           NEW S, NEW p \in Live(S), PeerInv(S), S.crashed = "no", S.peer[p].registered,
           S.peer[p].mode \in {"passive", "listen"}, S.peer[p].t_connect # "on",
           NEW T \in read_io_action(S, p, "passive_close")
    PROVE  PeerInv(T)
<1>0. /\ Shape(S) /\ Waits(S.peer[p]) /\ (DefaultUnpack => AllOwn(S))
      /\ AllGone(S) /\ HashCore(S) /\ IdsOK(S) /\ ListedLive(S) /\ AllListed(S) /\ AllWait(S)
  BY DEF PeerInv, Always, Running, AllWait
<1>1. p \in PeerAddr /\ IsPeer(S.peer[p])
  BY <1>0, LiveIs
<1>2. PICK W \in peer_unregister(S, p) : IF W.crashed = "no" THEN T \in peer_delete(W, p) ELSE T = W
  <2>1. T \in After(peer_unregister(S, p), LAMBDA X : peer_delete(X, p))
    BY Zenon DEF read_io_action
  <2>2. T \in UNION {IF X.crashed = "no" THEN peer_delete(X, p) ELSE {X} : X \in peer_unregister(S, p)}
    BY <2>1, Zenon DEF After
  <2> QED
    BY <2>2, Zenon
<1>3. CASE Changes(S, W, p, {}, {"crashed"}) /\ FoundFreed(W, W.peer[p].drole)
  <2>1. T = W /\ T.crashed = "freed"
    BY <1>2, <1>3 DEF FoundFreed
  <2>2. HashCore(W) /\ Shape(W)
    <3> DEFINE F == {}
    <3>1. Changes(S, W, p, F, {"crashed"}) /\ F \cap {"mem", "mode", "drole", "registered"} = {}
      BY <1>3
    <3> HIDE DEF F
    <3>2. HashCore(W)
      BY <1>0, <1>1, <3>1, HashFrame
    <3> QED
      BY <3>1, <3>2 DEF Changes
  <2>3. AllGone(W)
    BY <1>0, <1>3, GoneFrame
  <2>4. DefaultUnpack => FreedListener(W)
    BY <1>3, <2>2, <2>3, FoundListener, Zenon DEF FoundFreed
  <2> QED
    BY <1>3, <2>1, <2>2, <2>4, LiveStep, Zenon
<1>4. CASE /\ Changes(S, W, p, {}, {"mid", "hash"})
           /\ W.hash = hash_release(S.hash, Key(S), p)
           /\ \E g \in CellIds : W.mid = idmaker_put(S.mid, g)
  <2>1. Unregistered(W, p)
    <3>1. PICK g \in CellIds : W.mid = idmaker_put(S.mid, g)
      BY <1>4
    <3> QED
      BY <1>0, <1>4, <3>1, UnregisterKeeps
  <2>2. W.crashed = "no" /\ Shape(W) /\ IsPeer(W.peer[p]) /\ W.open = S.open
    BY <1>4 DEF Changes, SysFields
  <2>3. ListedLive(W) /\ AllListed(W)
    BY <1>0, <1>1, <1>4, ListFrame
  <2>4. Live(W) = Live(S)
    BY <1>1, <1>4, SameLive
  <2>5. T \in peer_delete(W, p)
    BY <1>2, <2>2
  <2>6. PICK U, V :
              /\ Changes(W, U, p, {}, {"list"}) /\ U.list = listnode_delete(W.list, p)
              /\ \/ StopDone(U, V, p) /\ Assigns(V, T, p, "mem", "freed")
                 \/ StopCrashed(U, T, p)
    BY <1>1, <2>2, <2>5, DeleteIs
  <2>7. Unlisted(U, p)
    BY <2>2, <2>3, <2>4, <2>6, ListDelete
  <2>8. Changes(S, U, p, {} \cup {}, {"mid", "hash"} \cup {"list"})
    BY <1>4, <2>6, ChangesTrans
  <2>9. /\ U.crashed = "no" /\ U.open = S.open /\ Shape(U) /\ IsPeer(U.peer[p])
        /\ \A f \in PeerFields : U.peer[p][f] = S.peer[p][f]
    BY <2>2, <2>8 DEF Changes, SysFields
  <2>10. CASE StopCrashed(U, T, p)
    <3> DEFINE F == {"status", "t_read", "t_write", "t_connect"}
    <3>1. Changes(U, T, p, F, {"crashed"}) /\ T.crashed \in {"watcher", "disparser"}
      BY <2>10 DEF StopCrashed
    <3>2. F \cap {"mem", "mode", "drole", "registered"} = {}
      OBVIOUS
    <3> HIDE DEF F
    <3>3. Changes(S, T, p, ({} \cup {}) \cup F, ({"mid", "hash"} \cup {"list"}) \cup {"crashed"})
      BY <2>8, <3>1, ChangesTrans
    <3>4. Changes(W, T, p, {} \cup F, {"list"} \cup {"crashed"})
      BY <2>6, <3>1, ChangesTrans
    <3>5. AllGone(T)
      <4> DEFINE E == ({} \cup {}) \cup F
                 G == ({"mid", "hash"} \cup {"list"}) \cup {"crashed"}
      <4>1. E \cap {"mem", "mode"} = {} /\ Changes(S, T, p, E, G)
        BY <3>2, <3>3
      <4> HIDE DEF E, G
      <4> QED
        BY <1>0, <4>1, GoneFrame
    <3>6. HashCore(T)
      <4> DEFINE G == {"list"} \cup {"crashed"}
      <4>1. Changes(W, T, p, F, G) /\ "hash" \notin G
        BY <3>4, ChangesMore
      <4>2. HashCore(W)
        BY <2>1 DEF Unregistered
      <4> HIDE DEF G
      <4> QED
        BY <1>1, <2>2, <3>2, <4>1, <4>2, HashFrame
    <3>7. ListedLive(T)
      <4>1. ListedLive(U) /\ "mem" \notin F
        BY <2>7, <3>2 DEF Unlisted
      <4> QED
        BY <1>1, <3>1, <4>1, ListFrame
    <3> QED
      BY <3>1, <3>5, <3>6, <3>7 DEF PeerInv, Always, Changes
  <2>11. CASE StopDone(U, V, p) /\ Assigns(V, T, p, "mem", "freed")
    <3> DEFINE F == {"status", "t_read", "t_write", "t_connect", "fd", "out"}
    <3>1. Changes(U, V, p, F, {"open"})
      BY <2>11 DEF StopDone
    <3>2. Changes(V, T, p, {"mem"}, {}) /\ T.peer[p].mem = "freed"
      <4>1. Shape(V) /\ IsPeer(V.peer[p])
        BY <3>1 DEF Changes
      <4> QED
        <5>1. "mem" \in PeerFields /\ Fits("mem", "freed")
          BY DEF PeerFields, Fits
        <5> QED
          BY <1>1, <2>11, <4>1, <5>1, SetField
    <3>3. F \cap {"mem", "mode", "drole", "registered", "orphans"} = {}
      OBVIOUS
    <3>4. /\ V.peer[p].t_read # "on" /\ V.peer[p].t_write # "on" /\ V.peer[p].t_connect # "on"
          /\ V.peer[p].fd = -1 /\ V.open = S.open \ {S.peer[p].fd}
      BY <2>9, <2>11 DEF StopDone, PeerFields
    <3>5. /\ T.peer[p].t_read # "on" /\ T.peer[p].t_write # "on" /\ T.peer[p].t_connect # "on"
          /\ T.peer[p].fd = -1 /\ T.open = S.open \ {S.peer[p].fd}
      BY <3>2, <3>4 DEF Changes, PeerFields, SysFields
    <3> HIDE DEF F
    <3> DEFINE H == F \cup {"mem"}
    <3>6. Changes(U, T, p, H, {"open"} \cup {})
      BY <3>1, <3>2, ChangesTrans
    <3>7. Changes(W, T, p, {} \cup H, {"list"} \cup ({"open"} \cup {}))
      BY <2>6, <3>6, ChangesTrans
    <3>8. Changes(S, T, p, ({} \cup {}) \cup H, ({"mid", "hash"} \cup {"list"}) \cup ({"open"} \cup {}))
      BY <2>8, <3>6, ChangesTrans
    <3>9. H \cap {"mode", "drole", "registered", "orphans"} = {}
      BY <3>3
    <3> HIDE DEF H
    <3>10. HashCore(T) /\ IdsOK(T)
      <4>1. ({} \cup H) \cap {"mode", "drole", "registered"} = {}
            /\ ({"list"} \cup ({"open"} \cup {})) \cap {"hash", "mid"} = {}
        BY <3>9
      <4> QED
        BY <1>1, <2>1, <2>2, <3>2, <3>7, <4>1, FreeKeeps, Zenon
    <3>11. ListedLive(T) /\ AllListed(T)
      BY <1>1, <2>7, <3>2, <3>6, ListFree
    <3>12. DefaultUnpack => AllOwn(T)
      <4> DEFINE E == ({} \cup {}) \cup H
                 G == ({"mid", "hash"} \cup {"list"}) \cup ({"open"} \cup {})
      <4>1. Changes(S, T, p, E, G)
        BY <3>8
      <4> HIDE DEF E, G
      <4> QED
        BY <1>0, <3>5, <4>1, OwnClosed
    <3>13. T.crashed = "no" /\ Shape(T)
      BY <3>8 DEF Changes, SysFields
    <3>14. T.peer[p].mode = S.peer[p].mode /\ T.peer[p].orphans = S.peer[p].orphans
      BY <3>8, <3>9 DEF Changes, PeerFields
    <3>15. \A q \in PeerAddr : q # p => T.peer[q] = S.peer[q]
      BY <3>8 DEF Changes
    <3>16. Gone(T.peer[p])
      BY <1>0, <3>5, <3>14 DEF Gone, Waits
    <3>17. AllGone(T) /\ AllWait(T)
      BY <1>0, <3>2, <3>15, <3>16 DEF AllGone, AllWait, Live
    <3> QED
      BY <3>10, <3>11, <3>12, <3>13, <3>17 DEF PeerInv, Always, Running
  <2> QED
    BY <2>6, <2>10, <2>11
<1> QED
  BY <1>0, <1>1, <1>2, <1>3, <1>4, UnregisterIs

-----------------------------------------------------------------------------
(* misaka_read.                                                            *)

\* A peer that is being read: what the callbacks find.
Read(S, p) == p \in Live(S) /\ PeerInv(S) /\ S.crashed = "no" /\ S.peer[p].t_read = "on"

\* The first data of a connection in progress.
LEMMA UpKeeps ==
    ASSUME NEW S, NEW p, Read(S, p), S.peer[p].status # "esta",
           NEW U, Assigns(S, U, p, "status", "esta"), NEW V,
           V \in IF U.peer[p].out = 0 THEN {U} ELSE StartWrite(U, p, "NULL")
    PROVE  Read(V, p) /\ V.peer[p].mode = S.peer[p].mode
<1> p \in Live(S) /\ PeerInv(S)
  BY DEF Read
<1>0. /\ Shape(S) /\ Waits(S.peer[p]) /\ (DefaultUnpack => AllOwn(S))
      /\ S.crashed = "no" /\ S.peer[p].t_read = "on"
  BY DEF PeerInv, Always, Running, AllWait, Read
<1>1. p \in PeerAddr /\ IsPeer(S.peer[p]) /\ S.peer[p].t_connect # "on"
  BY <1>0, LiveIs DEF Waits
<1>2. Changes(S, U, p, {"status"}, {}) /\ U.peer[p].status = "esta"
  BY <1>0, <1>1, SetStatus
<1>3. Shape(U) /\ IsPeer(U.peer[p])
  BY <1>2 DEF Changes
<1> DEFINE F == {"status", "t_write", "callback"}
<1>4. Changes(S, V, p, F, {}) /\ V.peer[p].status = "esta"
      /\ (V.peer[p].out > 0 => Serves(V.peer[p].t_write))
  <2>1. CASE U.peer[p].out = 0
    <3>1. V = U
      BY <2>1
    <3> QED
      BY <1>2, <2>1, <3>1, ChangesMore
  <2>2. CASE U.peer[p].out # 0
    <3>1. V \in StartWrite(U, p, "NULL")
      BY <2>2
    <3>2. /\ Changes(U, V, p, {"t_write", "callback"}, {})
          /\ V.peer[p].t_write \in {"on", U.peer[p].t_write}
          /\ Serves(V.peer[p].t_write)
      BY <1>1, <1>3, <3>1, StartWriteIs
    <3>3. Changes(S, V, p, {"status"} \cup {"t_write", "callback"}, {} \cup {})
      BY <1>2, <3>2, ChangesTrans
    <3>4. V.peer[p].status = "esta"
      BY <1>2, <3>2 DEF Changes, PeerFields
    <3>5. Changes(S, V, p, F, {})
      BY <3>3, ChangesMore
    <3> QED
      BY <3>2, <3>4, <3>5
  <2> QED
    BY <2>1, <2>2
<1>5. \A f \in PeerFields \ F : V.peer[p][f] = S.peer[p][f]
  BY <1>4 DEF Changes
<1>6. Waits(V.peer[p])
  <2>1. V.peer[p].t_connect # "on"
    BY <1>1, <1>5 DEF PeerFields
  <2> QED
    BY <1>0, <1>4, <1>5, <2>1 DEF Waits, PeerFields
<1>7. /\ Owns(V.peer[p]) => Owns(S.peer[p])
      /\ V.peer[p].t_read = "on" /\ V.peer[p].mode = S.peer[p].mode
  BY <1>0, <1>5 DEF Owns, PeerFields
<1>8. V.crashed = "no" /\ F \cap {"fd", "mem"} = {} /\ F \cap {"mem", "mode", "drole", "registered"} = {}
  BY <1>0, <1>4 DEF Changes, SysFields
<1> HIDE DEF F
<1>9. DefaultUnpack => AllOwn(V)
  BY <1>0, <1>4, <1>7, <1>8, OwnLess
<1>10. PeerInv(V)
  BY <1>0, <1>4, <1>6, <1>8, <1>9, WaitStep
<1>11. p \in Live(V)
  BY <1>1, <1>4, <1>8, SameLive
<1> QED
  BY <1>7, <1>8, <1>10, <1>11 DEF Read

\* What the unpack callback has answered.
LEMMA ActionKeeps ==
    ASSUME HashFinds,
           NEW S, NEW p, Read(S, p), S.peer[p].mode \in {"connect", "passive"},
           NEW u \in Unpack[S.peer[p].mode], NEW T \in read_io_action(S, p, u)
    PROVE  PeerInv(T)
<1>0. p \in Live(S) /\ PeerInv(S) /\ S.crashed = "no" /\ S.peer[p].t_read = "on"
  BY DEF Read
<1>1. u \in {"packet", "partial", "close"}
  BY PeerAssumption
<1>2. CASE u = "packet"
  <2>1. T \in {S} \cup UNION {misaka_packet_route(S, nid) : nid \in Ids}
    BY <1>2, Zenon DEF read_io_action
  <2> QED
    BY <1>0, <2>1, RouteKeeps
<1>3. CASE u = "close"
  <2>1. T \in misaka_reconnect(S, p)
    BY <1>3, Zenon DEF read_io_action
  <2>2. DefaultUnpack => S.peer[p].mode # "passive"
    BY <1>3 DEF DefaultUnpack
  <2> QED
    BY <1>0, <2>1, <2>2, ReconnectKeeps
<1>4. CASE u = "partial"
  <2>1. T \in {S}
    BY <1>4 DEF read_io_action
  <2> QED
    BY <1>0, <2>1
<1> QED
  BY <1>1, <1>2, <1>3, <1>4

\* tcp_accept: the new peer, and what is up at once.
LEMMA AcceptedKeeps ==
    ASSUME HashFinds,
           NEW S, NEW q, PeerInv(S), S.crashed = "no", q \in Live(S), S.peer[q].quick,
           ~S.peer[q].registered, S.peer[q].t_connect = "none",
           S.peer[q].out = 0, S.peer[q].fd \in S.open, S.peer[q].fd >= 0,
           NEW T \in misaka_start(S, q)
    PROVE  PeerInv(T)
<1>0. /\ Shape(S) /\ Waits(S.peer[q]) /\ (DefaultUnpack => AllOwn(S))
      /\ AllGone(S) /\ HashCore(S) /\ IdsOK(S)
  BY DEF PeerInv, Always, Running, AllWait
<1>1. q \in PeerAddr /\ IsPeer(S.peer[q])
  BY <1>0, LiveIs
<1>2. T \in misaka_start_success(S, q)
  BY DEF misaka_start
<1> DEFINE G == {"mid", "hash", "open", "crashed"}
<1>3. /\ Changes(S, T, q, SuccessFields, G) /\ HashCore(T)
      /\ T.crashed = "freed" /\ DefaultUnpack => FreedListener(T)
      /\ T.crashed = "no" => SuccessDone(S, T, q) /\ IdsOK(T)
  BY <1>0, <1>2, SuccessTables
<1>4. ASSUME T.crashed = "no" PROVE Waits(T.peer[q]) /\ (DefaultUnpack => AllOwn(T))
  <2>1. /\ T.peer[q].mode = S.peer[q].mode /\ T.peer[q].quick = S.peer[q].quick
        /\ T.peer[q].link = S.peer[q].link /\ T.peer[q].orphans = S.peer[q].orphans
        /\ T.peer[q].out = S.peer[q].out /\ T.peer[q].t_connect = S.peer[q].t_connect
    BY <1>3, Zenon DEF Changes, PeerFields, SuccessFields
  <2>2. Serves(T.peer[q].t_read) /\ T.peer[q].registered
        /\ T.peer[q].fd = S.peer[q].fd /\ T.open = S.open
    BY <1>3, <1>4 DEF SuccessDone, Registers
  <2>3. Waits(T.peer[q])
    <3>1. S.peer[q].orphans = 0 /\ S.peer[q].mode = "passive" /\ S.peer[q].link = "tcp"
      BY <1>0 DEF Waits
    <3>2. T.peer[q].out = 0 /\ T.peer[q].t_connect # "on"
      BY <2>1
    <3>3. T.peer[q].orphans = 0 /\ T.peer[q].mode = "passive" /\ T.peer[q].link = "tcp" /\ T.peer[q].quick
      BY <2>1, <3>1
    <3> QED
      BY <2>2, <3>2, <3>3, WaitsUp
  <2>4. ASSUME DefaultUnpack PROVE AllOwn(T)
    <3>1. Owns(S.peer[q])
      BY DEF Owns
    <3>2. /\ \A x \in Live(S) \ {q} : Owns(S.peer[x]) => S.peer[x].fd \in T.open
          /\ \A x \in Live(S) \ {q} : Owns(S.peer[x]) => S.peer[x].fd # T.peer[q].fd
      BY <1>0, <2>2, <2>4, <3>1 DEF AllOwn
    <3>4. T.peer[q].fd \in T.open /\ T.peer[q].fd >= 0
      BY <1>0, <2>2, <2>4, <3>1 DEF AllOwn
    <3>5. AllOwn(S)
      BY <1>0, <2>4
    <3> HIDE DEF G
    <3> QED
      BY <1>0, <1>1, <1>3, <3>2, <3>4, <3>5, OwnFrame, Zenon
  <2> QED
    BY <2>3, <2>4
<1>5. SuccessFields \cap {"mem", "mode"} = {} /\ "list" \notin G
  BY DEF SuccessFields
<1> HIDE DEF G
<1> QED
  BY <1>3, <1>4, <1>5, LiveStep, Zenon

\* tcp_accept and what misaka_read makes of it.
LEMMA ListenerKeeps ==
    ASSUME HashFinds,
           NEW S, NEW p, Read(S, p), S.peer[p].link = "listen", NEW r \in tcp_accept(S, p),
           r[2] # "check", NEW T, r[1].crashed # "no" => T = r[1],
           r[1].crashed = "no" => T \in read_io_action(r[1], p, r[2])
    PROVE  PeerInv(T)
<1>0. /\ p \in Live(S) /\ PeerInv(S) /\ S.crashed = "no" /\ S.peer[p].t_read = "on"
      /\ Shape(S) /\ Waits(S.peer[p])
  BY DEF Read, PeerInv, Always, Running, AllWait
<1>1. p \in PeerAddr /\ IsPeer(S.peer[p]) /\ S.peer[p] # NoPeer
  BY <1>0, LiveIs
<1>2. CASE r = <<S, "error">>
  <2>1. T \in read_io_action(S, p, "error")
    BY <1>0, <1>2
  <2>2. T \in {S}
    BY <2>1 DEF read_io_action
  <2> QED
    BY <1>0, <2>2
<1>3. ASSUME NEW q \in Fresh(S), NEW fd \in NewFds(S) \ {-1}, NEW io \in Malloced, NEW d, NEW U, NEW N,
             U = [S EXCEPT !.open = @ \cup {fd}], N = peer_new(U, q, "tcp", "passive", fd, d, io),
             r = <<N, "passive_close">> \/ \E V \in misaka_start(N, q) : r = <<V, "accept">>
      PROVE  PeerInv(T)
  <2>1. q \in PeerAddr /\ S.peer[q] = NoPeer /\ q # p
    BY <1>1 DEF Fresh
  <2>2. fd \in Nat /\ fd \in Int /\ fd >= 0 /\ fd \notin S.open
    <3>1. fd \in Nat /\ fd \notin S.open
      BY NewFdsAre
    <3> QED
      BY <3>1
  <2>3. /\ Changes(S, N, q, PeerFields, {"list", "open"})
        /\ N.peer[q] = NewPeer("tcp", "passive", fd, d, io)
        /\ N.list = Append(S.list, q) /\ N.open = S.open \cup {fd}
    <3> DEFINE v == S.open \cup {fd}
    <3>1. SetsGlobal(S, U, "open", v) /\ N = peer_new(U, q, "tcp", "passive", fd, d, io)
      BY <1>3 DEF SetsGlobal
    <3> HIDE DEF v
    <3>2. /\ Changes(S, N, q, PeerFields, {"list", "open"})
          /\ N.peer[q] = NewPeer("tcp", "passive", fd, d, io)
          /\ N.list = Append(S.list, q) /\ N.open = v
      <4>1. Shape(S) /\ p \in PeerAddr /\ IsPeer(S.peer[p])
        BY <1>0, <1>1
      <4>2. q \in PeerAddr /\ fd \in Int
        BY <2>1, <2>2
      <4> QED
        BY <3>1, <4>1, <4>2, AcceptedIs
    <3> QED
      BY <3>2 DEF v
  <2>4. PeerInv(N) /\ q \in Live(N) /\ N.crashed = "no"
    BY <1>0, <2>1, <2>2, <2>3, NewStep, Zenon
  <2>5. N.peer[p] = S.peer[p] /\ p \in Live(N)
    BY <1>0, <1>1, <2>1, <2>3 DEF Changes, Live
  <2>6. CASE r = <<N, "passive_close">>
    <3>1. T \in read_io_action(N, p, "passive_close")
      BY <2>4, <2>6
    <3>2. N.peer[p].mode = "listen" /\ N.peer[p].registered /\ N.peer[p].t_connect # "on"
      BY <1>0, <2>5 DEF Waits
    <3> QED
      BY <2>4, <2>5, <3>1, <3>2, DeleteKeeps
  <2>7. ASSUME NEW V \in misaka_start(N, q), r = <<V, "accept">> PROVE PeerInv(T)
    <3>1. N.peer[q].quick /\ ~N.peer[q].registered
      BY <2>3, NewFlags
    <3>2. /\ N.peer[q].t_connect = "none" /\ N.peer[q].out = 0
          /\ N.peer[q].fd = fd
      <4> DEFINE m == N.peer[q]
      <4>1. m = NewPeer("tcp", "passive", fd, d, io)
        BY <2>3
      <4> HIDE DEF m
      <4>2. m.t_connect = "none" /\ m.out = 0 /\ m.fd = fd
        BY <4>1, NewFields
      <4> QED
        BY <4>2 DEF m
    <3>3. PeerInv(V)
      BY <2>2, <2>3, <2>4, <3>1, <3>2, AcceptedKeeps
    <3>4. V.crashed = "no" => T \in {V}
      <4>1. V.crashed = "no" => T \in read_io_action(V, p, "accept")
        BY <2>7
      <4> QED
        BY <4>1 DEF read_io_action
    <3> QED
      BY <2>7, <3>3, <3>4
  <2> QED
    BY <1>3, <2>6, <2>7
<1> QED
  <2>1. \/ r = <<S, "error">>
        \/ \E q \in Fresh(S), fd \in NewFds(S) \ {-1}, io \in Malloced : \E d :
             LET U == [S EXCEPT !.open = @ \cup {fd}]
                 N == peer_new(U, q, "tcp", "passive", fd, d, io)
             IN  \/ r = <<N, "passive_close">>
                 \/ \E V \in misaka_start(N, q) : r = <<V, "accept">>
    BY <1>0, AcceptIs, Zenon
  <2> QED
    BY <1>2, <1>3, <2>1, Zenon

\* misaka_read.
LEMMA ReadKeeps ==
    ASSUME HashFinds,
           NEW S, NEW p, Read(S, p), NEW T \in misaka_read(S, p)
    PROVE  PeerInv(T)
<1>0. /\ p \in Live(S) /\ PeerInv(S) /\ S.crashed = "no" /\ Shape(S) /\ Waits(S.peer[p])
      /\ S.peer[p].t_read = "on"
  BY DEF Read, PeerInv, Always, Running, AllWait
<1>1. CASE S.peer[p].fd < 0
  <2>1. T \in {S}
    BY <1>1 DEF misaka_read
  <2> QED
    BY <1>0, <2>1
<1>2. CASE ~(S.peer[p].fd < 0)
  <2> DEFINE Up2(X) == IF X.peer[p].status = "esta" THEN {X}
                       ELSE LET U == [X EXCEPT !.peer[p].status = "esta"]
                            IN  IF U.peer[p].out = 0 THEN {U} ELSE StartWrite(U, p, "NULL")
             Unpacked(X) == UNION {UNION {read_io_action(V, p, u) : u \in Unpack[X.peer[p].mode]}
                                   : V \in Up2(X)}
  <2>1. T \in UNION {IF r[1].crashed # "no" THEN {r[1]}
                     ELSE IF r[2] = "check" THEN Unpacked(r[1])
                     ELSE read_io_action(r[1], p, r[2]) : r \in PeerRead(S, p)}
    BY <1>2, Zenon DEF misaka_read
  <2> HIDE DEF Unpacked
  <2>2. PICK r \in PeerRead(S, p) :
            T \in IF r[1].crashed # "no" THEN {r[1]}
                  ELSE IF r[2] = "check" THEN Unpacked(r[1])
                  ELSE read_io_action(r[1], p, r[2])
    BY <2>1, Zenon
  <2>3. ASSUME S.peer[p].link # "listen", T \in Unpacked(S) PROVE PeerInv(T)
    <3>1. S.peer[p].mode \in {"connect", "passive"}
      BY <1>0, <2>3 DEF Waits
    <3>2. T \in UNION {UNION {read_io_action(V, p, u) : u \in Unpack[S.peer[p].mode]} : V \in Up2(S)}
      BY <2>3, Zenon DEF Unpacked
    <3> HIDE DEF Up2
    <3>3. PICK V \in Up2(S) : T \in UNION {read_io_action(V, p, u) : u \in Unpack[S.peer[p].mode]}
      BY <3>2, Zenon
    <3>4. PICK u \in Unpack[S.peer[p].mode] : T \in read_io_action(V, p, u)
      BY <3>3, Zenon
    <3>5. Read(V, p) /\ V.peer[p].mode = S.peer[p].mode
      <4>1. CASE S.peer[p].status = "esta"
        <5>1. V = S
          BY <3>3, <4>1, Zenon DEF Up2
        <5> QED
          BY <5>1
      <4>2. CASE S.peer[p].status # "esta"
        <5> DEFINE U == [S EXCEPT !.peer[p].status = "esta"]
        <5>1. V \in IF U.peer[p].out = 0 THEN {U} ELSE StartWrite(U, p, "NULL")
          BY <3>3, <4>2, Zenon DEF Up2
        <5>2. Assigns(S, U, p, "status", "esta")
          BY DEF Assigns
        <5> HIDE DEF U
        <5> QED
          BY <4>2, <5>1, <5>2, UpKeeps
      <4> QED
        BY <4>1, <4>2
    <3> QED
      BY <3>1, <3>4, <3>5, ActionKeeps
  <2>4. CASE S.peer[p].link = "listen"
    <3>1. r \in tcp_accept(S, p)
      BY <2>2, <2>4, Zenon DEF PeerRead
    <3>2. r[2] # "check"
      <4>1. \/ r = <<S, "error">> \/ (\E N : r = <<N, "passive_close">>)
            \/ (\E V : r = <<V, "accept">>)
        BY <1>0, <3>1, AcceptIs, Zenon
      <4> QED
        BY <4>1
    <3> QED
      BY <2>2, <2>4, <3>1, <3>2, ListenerKeeps
  <2>5. CASE S.peer[p].link = "tcp"
    <3> DEFINE Z == IF S.peer[p].mode = "passive" THEN "passive_close" ELSE "close"
    <3>1. r \in {<<S, x>> : x \in {"partial", "check", Z}}
      BY <2>2, <2>5 DEF PeerRead
    <3>2. r[1] = S /\ r[2] \in {"partial", "check", Z}
      BY <3>1
    <3>3. CASE r[2] = "check"
      BY <1>0, <2>2, <2>3, <2>5, <3>2, <3>3
    <3>4. CASE r[2] = "partial"
      <4>1. T \in read_io_action(S, p, "partial")
        BY <1>0, <2>2, <3>2, <3>4
      <4>2. T \in {S}
        BY <4>1 DEF read_io_action
      <4> QED
        BY <1>0, <4>2
    <3>5. CASE r[2] = Z /\ S.peer[p].mode = "passive"
      <4>1. T \in read_io_action(S, p, "passive_close")
        BY <1>0, <2>2, <3>2, <3>5
      <4>2. S.peer[p].registered /\ S.peer[p].t_connect # "on"
        BY <1>0, <3>5 DEF Waits
      <4> QED
        BY <1>0, <3>5, <4>1, <4>2, DeleteKeeps
    <3>6. CASE r[2] = Z /\ S.peer[p].mode # "passive"
      <4>1. T \in read_io_action(S, p, "close")
        BY <1>0, <2>2, <3>2, <3>6
      <4>2. T \in misaka_reconnect(S, p)
        BY <4>1, Zenon DEF read_io_action
      <4> QED
        BY <1>0, <3>6, <4>2, ReconnectKeeps
    <3> QED
      BY <3>2, <3>3, <3>4, <3>5, <3>6
  <2>6. CASE S.peer[p].link \notin {"listen", "tcp"}
    <3>1. r \in {<<S, "check">>}
      BY <2>2, <2>6 DEF PeerRead
    <3> QED
      BY <1>0, <2>2, <2>3, <2>6, <3>1
  <2> QED
    BY <2>4, <2>5, <2>6
<1>3. IsPeer(S.peer[p])
  BY <1>0, LiveIs
<1> QED
  BY <1>1, <1>2

-----------------------------------------------------------------------------
(* The invariant is inductive.                                             *)

\* Every handler keeps the invariant.
LEMMA NextInv ==
    ASSUME HashFinds
    PROVE  PeerInv(sys) /\ [PeerNext]_sys => PeerInv(sys')
<1> SUFFICES ASSUME PeerInv(sys), PeerNext PROVE PeerInv(sys')
  OBVIOUS
<1>0. /\ sys.crashed = "no" /\ Shape(sys) /\ AllGone(sys)
  BY DEF PeerNext, PeerInv, Always
<1>1. ASSUME NEW p \in PeerAddr, sys.peer[p] # NoPeer,
             sys.peer[p].t_read = "on" \/ sys.peer[p].t_write = "on"
      PROVE  p \in Live(sys)
  <2>1. IsPeer(sys.peer[p]) /\ sys.peer[p].mem # "freed"
    BY <1>0, <1>1 DEF Shape, AllGone, Gone
  <2> QED
    BY <2>1 DEF IsPeer, Live
<1>2. ASSUME NEW p \in PeerAddr, NEW register, NEW disparser, NEW io \in Malloced,
             OpenLink(p, register, disparser, io)
      PROVE  PeerInv(sys')
  BY <1>0, <1>2, OpenKeeps
<1>3. CASE core_run
  <2>1. SetsGlobal(sys, sys', "loop", TRUE)
    BY <1>3, Zenon DEF core_run, SetsGlobal
  <2>2. sys'.crashed = "no"
    BY <1>0, <2>1 DEF SetsGlobal, Shape, SysFields
  <2> QED
    BY <1>0, <2>1, <2>2, GlobalStep, Zenon
<1>4. ASSUME NEW p \in PeerAddr, TimerFires(p) PROVE PeerInv(sys')
  BY <1>0, <1>4, TimerKeeps DEF TimerFires
<1>5. ASSUME NEW p \in PeerAddr, Readable(p) PROVE PeerInv(sys')
  BY <1>0, <1>1, <1>5, ReadKeeps DEF Readable, Read
<1>6. ASSUME NEW p \in PeerAddr, Writable(p) PROVE PeerInv(sys')
  BY <1>0, <1>1, <1>6, WriteKeeps DEF Writable
<1>7. ASSUME NEW nid, LoopRoute(nid) PROVE PeerInv(sys')
  BY <1>0, <1>7, RouteKeeps DEF LoopRoute
<1> QED
  BY <1>2, <1>3, <1>4, <1>5, <1>6, <1>7, Zenon DEF PeerNext
=============================================================================
