-------------------------- MODULE PeerSteps_proofs --------------------------
(***************************************************************************)
(* What each function that a handler of Peer calls changes and leaves      *)
(* behind: one lemma for each of them, which names the fields of the peer  *)
(* and the globals that it may touch.  That the search of the peer table   *)
(* finds the first match (HashFinds) is an assumption of the lemmas here   *)
(* and in the modules that extend this one; Peer_proofs discharges it with *)
(* the induction library, which slows down every module that extends it.   *)
(***************************************************************************)
EXTENDS Peer, TLAPS

PeerFields ==
    {"mem", "link", "mode", "quick", "status", "fd", "t_read", "t_write", "callback",
     "t_connect", "orphans", "out", "drole", "registered", "disparser"}
SysFields == {"peer", "list", "hash", "mid", "open", "loop", "crashed"}
IsPeer(r) ==
    /\ DOMAIN r = PeerFields /\ r = [f \in PeerFields |-> r[f]]
    /\ r.mem \in {"live", "freed"} /\ r.fd \in Int /\ r.out \in Nat
Shape(S) ==
    /\ DOMAIN S = SysFields /\ S = [f \in SysFields |-> S[f]]
    /\ DOMAIN S.peer = PeerAddr /\ S.peer = [p \in PeerAddr |-> S.peer[p]]
    /\ \A p \in PeerAddr : S.peer[p] = NoPeer \/ IsPeer(S.peer[p])

\* T is S but for the fields F of peer p and the globals G.
Changes(S, T, p, F, G) ==
    /\ Shape(T) /\ IsPeer(T.peer[p])
    /\ \A q \in PeerAddr : q # p => T.peer[q] = S.peer[q]
    /\ \A f \in PeerFields \ F : T.peer[p][f] = S.peer[p][f]
    /\ \A g \in SysFields \ (G \cup {"peer"}) : T[g] = S[g]

\* A block of memory that holds a peer is not the one that holds none.
LEMMA NoPeerIs == NoPeer.mem = "none" /\ \A r : IsPeer(r) => r # NoPeer
  BY DEF NoPeer, IsPeer

\* One change after another.
LEMMA ChangesTrans ==
    ASSUME NEW S, NEW T, NEW U, NEW p, NEW F, NEW G, NEW H, NEW K,
           Changes(S, T, p, F, G), Changes(T, U, p, H, K)
    PROVE  Changes(S, U, p, F \cup H, G \cup K)
  BY DEF Changes

\* What changes little changes at most more.
LEMMA ChangesMore ==
    ASSUME NEW S, NEW T, NEW p, NEW F, NEW G, NEW H, NEW K,
           Changes(S, T, p, F, G), F \subseteq H, G \subseteq K
    PROVE  Changes(S, T, p, H, K)
  BY DEF Changes

\* Nothing changes.
LEMMA ChangesNone ==
    ASSUME NEW S, NEW p, Shape(S), IsPeer(S.peer[p])
    PROVE  Changes(S, S, p, {}, {})
  BY DEF Changes

\* One field of a peer is assigned, or one global.
Assigns(S, T, p, f, v) == T = [S EXCEPT !.peer[p][f] = v]
SetsGlobal(S, T, g, v) == T = [S EXCEPT ![g] = v]
Fits(f, v) ==
    (f = "mem" => v \in {"live", "freed"}) /\ (f = "fd" => v \in Int) /\ (f = "out" => v \in Nat)

\* What assigning a field of the right type changes.
LEMMA SetField ==
    ASSUME NEW S, NEW p \in PeerAddr, Shape(S), IsPeer(S.peer[p]), NEW f \in PeerFields, NEW v,
           Fits(f, v), NEW T, Assigns(S, T, p, f, v)
    PROVE  Changes(S, T, p, {f}, {}) /\ T.peer[p][f] = v
<1> DEFINE r == [S.peer[p] EXCEPT ![f] = v]
<1>0. T = [S EXCEPT !.peer[p] = r]
  BY DEF Assigns
<1>1. IsPeer(r) /\ r[f] = v /\ \A g \in PeerFields \ {f} : r[g] = S.peer[p][g]
  BY DEF IsPeer, PeerFields, Fits
<1> HIDE DEF r
<1>2. T.peer[p] = r /\ \A q \in PeerAddr : q # p => T.peer[q] = S.peer[q]
  BY <1>0 DEF Shape, SysFields
<1>3. \A g \in SysFields \ {"peer"} : T[g] = S[g]
  BY <1>0 DEF Shape, SysFields
<1>4. Shape(T)
  BY <1>0, <1>1, <1>2, <1>3 DEF Shape, SysFields
<1> QED
  BY <1>1, <1>2, <1>3, <1>4 DEF Changes

\* The same for the descriptor.
LEMMA SetFd ==
    ASSUME NEW S, NEW p \in PeerAddr, Shape(S), IsPeer(S.peer[p]), NEW v \in Int,
           NEW T, Assigns(S, T, p, "fd", v)
    PROVE  Changes(S, T, p, {"fd"}, {}) /\ T.peer[p].fd = v
<1>1. "fd" \in PeerFields
  BY DEF PeerFields
<1>2. Fits("fd", v)
  BY DEF Fits
<1> QED
  BY <1>1, <1>2, SetField

\* The same for the number of packets in the output list.
LEMMA SetOut ==
    ASSUME NEW S, NEW p \in PeerAddr, Shape(S), IsPeer(S.peer[p]), NEW v \in Nat,
           NEW T, Assigns(S, T, p, "out", v)
    PROVE  Changes(S, T, p, {"out"}, {}) /\ T.peer[p].out = v
<1>1. "out" \in PeerFields
  BY DEF PeerFields
<1>2. Fits("out", v)
  BY DEF Fits
<1> QED
  BY <1>1, <1>2, SetField

\* The globals.
LEMMA IsGlobal ==
    /\ "list" \in SysFields \ {"peer"} /\ "hash" \in SysFields \ {"peer"}
    /\ "mid" \in SysFields \ {"peer"} /\ "open" \in SysFields \ {"peer"}
    /\ "crashed" \in SysFields \ {"peer"}
  BY DEF SysFields

\* A global is assigned.
LEMMA SetGlobal ==
    ASSUME NEW S, NEW p \in PeerAddr, Shape(S), IsPeer(S.peer[p]), NEW g \in SysFields \ {"peer"},
           NEW v, NEW T, SetsGlobal(S, T, g, v)
    PROVE  Changes(S, T, p, {}, {g}) /\ T[g] = v /\ T.peer = S.peer
  BY Zenon DEF Changes, Shape, SysFields, SetsGlobal

\* The same for the open descriptors.
LEMMA SetOpen ==
    ASSUME NEW S, NEW p \in PeerAddr, Shape(S), IsPeer(S.peer[p]), NEW v, NEW T,
           SetsGlobal(S, T, "open", v)
    PROVE  Changes(S, T, p, {}, {"open"}) /\ T.open = v /\ T.peer = S.peer
<1>1. "open" \in SysFields \ {"peer"}
  BY DEF SysFields
<1>2. Changes(S, T, p, {}, {"open"}) /\ T["open"] = v /\ T.peer = S.peer
  BY <1>1, SetGlobal
<1> QED
  BY <1>2

\* The list of peers is assigned.
LEMMA SetList ==
    ASSUME NEW S, NEW p \in PeerAddr, Shape(S), IsPeer(S.peer[p]), NEW v, NEW T,
           SetsGlobal(S, T, "list", v)
    PROVE  Changes(S, T, p, {}, {"list"}) /\ T.list = v /\ T.peer = S.peer
<1>1. "list" \in SysFields \ {"peer"}
  BY DEF SysFields
<1>2. Changes(S, T, p, {}, {"list"}) /\ T["list"] = v /\ T.peer = S.peer
  BY <1>1, SetGlobal
<1> QED
  BY <1>2

\* The status of a peer is assigned.
LEMMA SetStatus ==
    ASSUME NEW S, NEW p \in PeerAddr, Shape(S), IsPeer(S.peer[p]), NEW v, NEW T,
           Assigns(S, T, p, "status", v)
    PROVE  Changes(S, T, p, {"status"}, {}) /\ T.peer[p].status = v
<1>1. "status" \in PeerFields /\ Fits("status", v)
  BY DEF PeerFields, Fits
<1>2. Changes(S, T, p, {"status"}, {}) /\ T.peer[p]["status"] = v
  BY <1>1, SetField
<1> QED
  BY <1>2

\* A watcher for which the code calls no ev_io_start: ev_is_active reads 1.
Serves(w) == w \in {"on", "junk"}

\* The watcher of reading serves afterwards.
LEMMA StartReadIs ==
    ASSUME NEW S, NEW p \in PeerAddr, Shape(S), IsPeer(S.peer[p]), NEW T \in StartRead(S, p)
    PROVE  /\ Changes(S, T, p, {"t_read"}, {})
           /\ T.peer[p].t_read \in {"on", S.peer[p].t_read} /\ Serves(T.peer[p].t_read)
<1> DEFINE a == ev_is_active(S.peer[p].t_read)
<1>1. T = IF a = 1 THEN S ELSE [S EXCEPT !.peer[p].t_read = "on"]
  BY Zenon DEF StartRead
<1>2. CASE a = 1
  <2>0. T = S
    BY <1>1, <1>2
  <2>2. Changes(S, S, p, {"t_read"}, {})
    BY ChangesNone, ChangesMore
  <2>1. Serves(S.peer[p].t_read)
    BY <1>2 DEF ev_is_active, Serves
  <2> QED
    BY <2>0, <2>1, <2>2
<1>3. CASE a # 1
  <2>1. Assigns(S, T, p, "t_read", "on")
    BY <1>1, <1>3 DEF Assigns
  <2>2. "t_read" \in PeerFields
    BY DEF PeerFields
  <2>3. Changes(S, T, p, {"t_read"}, {}) /\ T.peer[p].t_read = "on"
    BY <2>1, <2>2, SetField DEF Fits
  <2> QED
    BY <2>3 DEF Serves
<1> QED
  BY <1>2, <1>3

\* The same of writing, with callback c.
LEMMA StartWriteIs ==
    ASSUME NEW S, NEW p \in PeerAddr, Shape(S), IsPeer(S.peer[p]), NEW c,
           NEW T \in StartWrite(S, p, c)
    PROVE  /\ Changes(S, T, p, {"t_write", "callback"}, {})
           /\ T.peer[p].t_write \in {"on", S.peer[p].t_write} /\ Serves(T.peer[p].t_write)
<1> DEFINE U == [S EXCEPT !.peer[p].t_write = "on"]
           V == [U EXCEPT !.peer[p].callback = c]
           a == ev_is_active(S.peer[p].t_write)
<1>1. T = IF a = 1 THEN S ELSE [S EXCEPT !.peer[p].t_write = "on", !.peer[p].callback = c]
  BY Zenon DEF StartWrite
<1>2. CASE a = 1
  <2>0. T = S
    BY <1>1, <1>2
  <2>2. Changes(S, S, p, {"t_write", "callback"}, {})
    BY ChangesNone, ChangesMore
  <2>1. Serves(S.peer[p].t_write)
    BY <1>2 DEF ev_is_active, Serves
  <2> QED
    BY <2>0, <2>1, <2>2
<1>3. CASE a # 1
  <2>1. T = V
    BY <1>1, <1>3
  <2>2. {"t_write", "callback"} \subseteq PeerFields
    BY DEF PeerFields
  <2>b. Assigns(S, U, p, "t_write", "on") /\ Assigns(U, V, p, "callback", c)
    BY Zenon DEF Assigns
  <2> HIDE DEF U, V
  <2>3. Changes(S, U, p, {"t_write"}, {}) /\ U.peer[p].t_write = "on"
    BY <2>2, <2>b, SetField DEF Fits
  <2>a. Shape(U) /\ IsPeer(U.peer[p])
    BY <2>3 DEF Changes
  <2>4. Changes(U, V, p, {"callback"}, {})
    BY <2>2, <2>a, <2>b, SetField DEF Fits
  <2>5. Changes(S, V, p, {"t_write", "callback"}, {})
    BY <2>3, <2>4, ChangesTrans, ChangesMore
  <2>6. V.peer[p].t_write = "on"
    BY <2>2, <2>3, <2>4 DEF Changes
  <2> QED
    BY <2>1, <2>5, <2>6 DEF Serves
<1> QED
  BY <1>2, <1>3

\* MISAKA_READ_OFF and MISAKA_WRITE_OFF: the watcher is off afterwards, or libev was
\* given one that was never initialised.
LEMMA StopIoIs ==
    ASSUME NEW S, NEW p \in PeerAddr, Shape(S), IsPeer(S.peer[p]), NEW w \in {"t_read", "t_write"},
           NEW T \in StopIo(S, p, w)
    PROVE  \/ /\ Changes(S, T, p, {w}, {})
              /\ T.peer[p][w] # "on"
              /\ T.peer[p][w] \in {"off", S.peer[p][w]}
           \/ Changes(S, T, p, {}, {"crashed"}) /\ T.crashed = "watcher" 
<1>0. w \in PeerFields /\ w \notin {"mem", "fd", "out"} /\ "crashed" \in SysFields \ {"peer"}
  BY DEF PeerFields, SysFields
<1> DEFINE a == ev_is_active(S.peer[p][w])
<1>1. T \in IF a # 1 THEN {S}
            ELSE IF S.peer[p][w] = "junk" THEN Crash(S, "watcher")
            ELSE {[S EXCEPT !.peer[p][w] = "off"]}
  BY Zenon DEF StopIo
<1>2. CASE a # 1
  <2>0. T = S
    BY <1>1, <1>2
  <2>2. Changes(S, S, p, {w}, {})
    BY ChangesNone, ChangesMore
  <2>1. S.peer[p][w] # "on"
    BY <1>2 DEF ev_is_active
  <2> QED
    BY <2>0, <2>1, <2>2
<1>3. CASE a = 1 /\ S.peer[p][w] = "junk"
  <2>1. SetsGlobal(S, T, "crashed", "watcher")
    BY <1>1, <1>3, Zenon DEF Crash, SetsGlobal
  <2> QED
    BY <2>1, <1>0, SetGlobal
<1>4. CASE a = 1 /\ S.peer[p][w] # "junk"
  <2>1. Assigns(S, T, p, w, "off")
    BY <1>1, <1>4, Zenon DEF Assigns
  <2>2. Changes(S, T, p, {w}, {}) /\ T.peer[p][w] = "off"
    BY <2>1, <1>0, SetField DEF Fits
  <2> QED
    BY <2>2
<1> QED
  BY <1>2, <1>3, <1>4

\* set_nonblocking on an open descriptor changes nothing.
LEMMA SetNonblockingIs ==
    ASSUME NEW S, NEW p \in PeerAddr, Shape(S), IsPeer(S.peer[p])
    PROVE  /\ Changes(S, SetNonblocking(S, p), p, {"fd"}, {"open"})
           /\ S.peer[p].fd \in S.open => SetNonblocking(S, p) = S
<1> DEFINE T == SetNonblocking(S, p)
           fd == S.peer[p].fd
           U == CloseFd(S, IF fd > 0 THEN fd ELSE -1)
<1>1. CASE fd \in S.open
  <2>1. T = S
    BY <1>1 DEF SetNonblocking
  <2> QED
    BY <2>1, ChangesNone, ChangesMore
<1>2. CASE fd \notin S.open
  <2>1. SetsGlobal(S, U, "open", S.open \ {IF fd > 0 THEN fd ELSE -1}) /\ Assigns(U, T, p, "fd", 0)
    BY <1>2, Zenon DEF SetNonblocking, CloseFd, SetsGlobal, Assigns
  <2> HIDE DEF T, U
  <2>2. Changes(S, U, p, {}, {"open"})
    BY <2>1, IsGlobal, SetGlobal
  <2>3. Changes(U, T, p, {"fd"}, {})
    <3>1. Shape(U) /\ IsPeer(U.peer[p])
      BY <2>2 DEF Changes
    <3> QED
      BY <2>1, <3>1, SetFd
  <2>4. Changes(S, T, p, {} \cup {"fd"}, {"open"} \cup {})
    BY <2>2, <2>3, ChangesTrans
  <2>5. Changes(S, T, p, {"fd"}, {"open"})
    BY <2>4, ChangesMore
  <2> QED
    BY <1>2, <2>5 DEF T
<1> QED
  BY <1>1, <1>2

\* misaka_stop: the peer is idle, watched by nobody and without a descriptor; or the
\* process has crashed on the way.
StopDone(S, T, p) ==
    /\ Changes(S, T, p, {"status", "t_read", "t_write", "t_connect", "fd", "out"}, {"open"})
    /\ T.peer[p].status = "idle" /\ T.peer[p].t_read # "on" /\ T.peer[p].t_write # "on"
    /\ T.peer[p].t_read \in {"off", S.peer[p].t_read}
    /\ S.peer[p].t_connect # "on" => T.peer[p].t_connect # "on"
    /\ T.peer[p].fd = -1 /\ T.peer[p].out = 0 /\ T.open = S.open \ {S.peer[p].fd}
StopCrashed(S, T, p) ==
    /\ Changes(S, T, p, {"status", "t_read", "t_write", "t_connect"}, {"crashed"})
    /\ T.crashed \in {"watcher", "disparser"}

\* misaka_stop ends with one or the other.
LEMMA StopIs ==
    ASSUME NEW S, NEW p \in PeerAddr, Shape(S), IsPeer(S.peer[p]), S.crashed = "no",
           NEW T \in misaka_stop(S, p)
    PROVE  StopDone(S, T, p) \/ StopCrashed(S, T, p)
<1> DEFINE I == [S EXCEPT !.peer[p].status = "idle"]
           A == After({I}, LAMBDA X : StopIo(X, p, "t_read"))
           B == After(A, LAMBDA X : StopIo(X, p, "t_write"))
           NT(X) == {IF a = 1 /\ ~X.peer[p].quick
                     THEN [X EXCEPT !.peer[p].t_connect = "off"] ELSE X :
                     a \in ev_is_active_timer(X.peer[p].t_connect)}
           CL(X) == IF ~X.peer[p].disparser THEN Crash(X, "disparser")
                    ELSE {[CloseFd(X, X.peer[p].fd) EXCEPT !.peer[p].out = 0, !.peer[p].fd = -1]}
           C == After(B, NT)
<1>1. T \in After(C, CL)
  BY Zenon DEF misaka_stop
<1>i. Assigns(S, I, p, "status", "idle")
  BY DEF Assigns
<1> HIDE DEF C, CL
<1>2. PICK U \in C : T \in IF U.crashed = "no" THEN CL(U) ELSE {U}
  BY <1>1, Zenon DEF After
<1> USE DEF C
<1> HIDE DEF B, NT
<1>3. PICK V \in B : U \in IF V.crashed = "no" THEN NT(V) ELSE {V}
  BY <1>2, Zenon DEF After
<1> USE DEF B
<1> HIDE DEF A, C
<1>4. PICK W \in A : V \in IF W.crashed = "no" THEN StopIo(W, p, "t_write") ELSE {W}
  BY <1>3, Zenon DEF After
<1> USE DEF A
<1> HIDE DEF I, B
<1>5. W \in IF I.crashed = "no" THEN StopIo(I, p, "t_read") ELSE {I}
  BY <1>4, Zenon DEF After
<1> HIDE DEF A
<1>6. Changes(S, I, p, {"status"}, {}) /\ I.peer[p].status = "idle"
  BY <1>i, SetField DEF PeerFields, Fits
<1>7. I.crashed = "no" /\ Shape(I) /\ IsPeer(I.peer[p])
  BY <1>6 DEF Changes, SysFields
<1>8. W \in StopIo(I, p, "t_read")
  BY <1>5, <1>7
<1>9. CASE W.crashed # "no"
  <2>1. Changes(I, W, p, {}, {"crashed"}) /\ W.crashed = "watcher"
    BY <1>8, <1>9, <1>7, StopIoIs DEF Changes, SysFields
  <2>2. T = W
    BY <1>9, <1>4, <1>3, <1>2
  <2> QED
    BY <2>1, <2>2, <1>6, ChangesTrans, ChangesMore DEF StopCrashed
<1>10. CASE W.crashed = "no"
  <2>1. Changes(I, W, p, {"t_read"}, {}) /\ W.peer[p].t_read # "on" /\ W.peer[p].t_read \in {"off", I.peer[p].t_read}
    BY <1>8, <1>10, <1>7, StopIoIs
  <2>2. Shape(W) /\ IsPeer(W.peer[p]) /\ V \in StopIo(W, p, "t_write")
    BY <2>1, <1>10, <1>4 DEF Changes
  <2>3. Changes(S, W, p, {"status", "t_read"}, {})
    BY <2>1, <1>6, ChangesTrans, ChangesMore
  <2>4. CASE V.crashed # "no"
    <3>1. Changes(W, V, p, {}, {"crashed"}) /\ V.crashed = "watcher"
      BY <2>2, <2>4, <1>10, StopIoIs DEF Changes, SysFields
    <3>2. T = V
      BY <2>4, <1>3, <1>2
    <3> QED
      BY <3>1, <3>2, <2>3, ChangesTrans, ChangesMore DEF StopCrashed
  <2>5. CASE V.crashed = "no"
    <3>1. Changes(W, V, p, {"t_write"}, {}) /\ V.peer[p].t_write # "on"
      BY <2>2, <2>5, <1>10, StopIoIs
    <3>2. Shape(V) /\ IsPeer(V.peer[p]) /\ U \in NT(V)
      BY <3>1, <2>5, <1>3 DEF Changes
    <3>3. Changes(S, V, p, {"status", "t_read", "t_write"}, {})
      BY <3>1, <2>3, ChangesTrans, ChangesMore
    <3>4. PICK a : U = IF a = 1 /\ ~V.peer[p].quick
                       THEN [V EXCEPT !.peer[p].t_connect = "off"] ELSE V
      BY <3>2, Zenon DEF NT
    <3>5. Changes(V, U, p, {"t_connect"}, {}) /\ U.peer[p].t_connect \in {"off", V.peer[p].t_connect}
      <4>1. CASE a = 1 /\ ~V.peer[p].quick
        <5>1. Assigns(V, U, p, "t_connect", "off")
          BY <3>4, <4>1 DEF Assigns
        <5> QED
          BY <5>1, <3>2, SetField DEF PeerFields, Fits
      <4>2. CASE ~(a = 1 /\ ~V.peer[p].quick)
        <5>1. U = V
          BY <3>4, <4>2, Zenon
        <5>2. Changes(V, V, p, {"t_connect"}, {})
          BY <3>2, ChangesNone, ChangesMore
        <5> QED
          BY <5>1, <5>2
      <4> QED
        BY <4>1, <4>2
    <3>6. Shape(U) /\ IsPeer(U.peer[p]) /\ U.crashed = "no" /\ T \in CL(U)
      BY <3>5, <2>5, <1>2 DEF Changes, SysFields
    <3>7. Changes(S, U, p, {"status", "t_read", "t_write", "t_connect"}, {})
      BY <3>5, <3>3, ChangesTrans, ChangesMore
    <3>8. CASE ~U.peer[p].disparser
      <4>1. SetsGlobal(U, T, "crashed", "disparser")
        BY <3>6, <3>8, Zenon DEF CL, Crash, SetsGlobal
      <4>2. Changes(U, T, p, {}, {"crashed"}) /\ T.crashed = "disparser"
        BY <3>6, <4>1, IsGlobal, SetGlobal
      <4> QED
        BY <4>2, <3>7, ChangesTrans, ChangesMore DEF StopCrashed
    <3>9. CASE U.peer[p].disparser
      <4> DEFINE X == CloseFd(U, U.peer[p].fd)
                 Y == [X EXCEPT !.peer[p].out = 0]
      <4>1. T = [X EXCEPT !.peer[p].out = 0, !.peer[p].fd = -1]
        BY <3>6, <3>9, Zenon DEF CL
      <4>2. /\ SetsGlobal(U, X, "open", U.open \ {U.peer[p].fd}) /\ Assigns(X, Y, p, "out", 0)
            /\ Assigns(Y, T, p, "fd", -1)
        BY <4>1, Zenon DEF CloseFd, Assigns, SetsGlobal
      <4> HIDE DEF X, Y
      <4>3. Changes(U, X, p, {}, {"open"}) /\ X.open = U.open \ {U.peer[p].fd}
        BY <4>2, <3>6, IsGlobal, SetGlobal
      <4>4. Shape(X) /\ IsPeer(X.peer[p])
        BY <4>3 DEF Changes
      <4>5. Changes(X, Y, p, {"out"}, {}) /\ Y.peer[p].out = 0
        BY <4>2, <4>4, SetOut
      <4>6. Shape(Y) /\ IsPeer(Y.peer[p])
        BY <4>5 DEF Changes
      <4>7. Changes(Y, T, p, {"fd"}, {}) /\ T.peer[p].fd = -1
        BY <4>2, <4>6, SetFd
      <4>8. Changes(S, T, p, {"status", "t_read", "t_write", "t_connect", "fd", "out"}, {"open"})
        <5>1. Changes(S, X, p, {"status", "t_read", "t_write", "t_connect"}, {"open"})
          BY <3>7, <4>3, ChangesTrans, ChangesMore
        <5>2. Changes(S, Y, p, {"status", "t_read", "t_write", "t_connect", "out"}, {"open"})
          BY <5>1, <4>5, ChangesTrans, ChangesMore
        <5> QED
          BY <5>2, <4>7, ChangesTrans, ChangesMore
      <4>9. /\ T.peer[p].status = "idle" /\ T.peer[p].t_read = W.peer[p].t_read
            /\ T.peer[p].t_write = V.peer[p].t_write /\ T.peer[p].t_connect = U.peer[p].t_connect
            /\ T.peer[p].out = 0 /\ T.open = S.open \ {S.peer[p].fd}
            /\ W.peer[p].t_read \in {"off", S.peer[p].t_read}
            /\ V.peer[p].t_connect = S.peer[p].t_connect
        <5>1. /\ T.peer[p].out = 0 /\ T.peer[p].t_connect = U.peer[p].t_connect /\ T.open = X.open
              /\ T.peer[p].status = U.peer[p].status /\ T.peer[p].t_read = U.peer[p].t_read
              /\ T.peer[p].t_write = U.peer[p].t_write
          <6>1. /\ T.peer[p].out = Y.peer[p].out /\ T.peer[p].t_connect = Y.peer[p].t_connect
                /\ T.peer[p].status = Y.peer[p].status /\ T.peer[p].t_read = Y.peer[p].t_read
                /\ T.peer[p].t_write = Y.peer[p].t_write
            BY <4>7 DEF Changes, PeerFields
          <6>2. /\ Y.peer[p].t_connect = X.peer[p].t_connect
                /\ Y.peer[p].status = X.peer[p].status /\ Y.peer[p].t_read = X.peer[p].t_read
                /\ Y.peer[p].t_write = X.peer[p].t_write
            BY <4>5 DEF Changes, PeerFields
          <6>3. /\ X.peer[p].t_connect = U.peer[p].t_connect
                /\ X.peer[p].status = U.peer[p].status /\ X.peer[p].t_read = U.peer[p].t_read
                /\ X.peer[p].t_write = U.peer[p].t_write
            BY <4>3 DEF Changes, PeerFields
          <6>4. T.open = X.open
            BY <4>5, <4>7 DEF Changes, SysFields
          <6> QED
            BY <4>5, <6>1, <6>2, <6>3, <6>4
        <5>2. /\ U.open = S.open /\ U.peer[p].fd = S.peer[p].fd
          BY <3>7 DEF Changes, PeerFields, SysFields
        <5>3. /\ U.peer[p].status = "idle" /\ U.peer[p].t_read = W.peer[p].t_read
              /\ U.peer[p].t_write = V.peer[p].t_write
              /\ I.peer[p].t_read = S.peer[p].t_read /\ V.peer[p].t_connect = S.peer[p].t_connect
          <6>1. U.peer[p].status = V.peer[p].status /\ U.peer[p].t_read = V.peer[p].t_read
                /\ U.peer[p].t_write = V.peer[p].t_write
            BY <3>5 DEF Changes, PeerFields
          <6>2. V.peer[p].status = W.peer[p].status /\ V.peer[p].t_read = W.peer[p].t_read
                /\ V.peer[p].t_connect = W.peer[p].t_connect
            BY <3>1 DEF Changes, PeerFields
          <6>3. W.peer[p].status = I.peer[p].status /\ W.peer[p].t_connect = I.peer[p].t_connect
            BY <2>1 DEF Changes, PeerFields
          <6>4. I.peer[p].t_read = S.peer[p].t_read /\ I.peer[p].t_connect = S.peer[p].t_connect
            BY <1>6 DEF Changes, PeerFields
          <6> QED
            BY <1>6, <6>1, <6>2, <6>3, <6>4
        <5> QED
          BY <5>1, <5>2, <5>3, <4>3, <2>1
      <4> QED
        BY <4>7, <4>8, <4>9, <2>1, <3>1, <3>5 DEF StopDone
    <3> QED
      BY <3>8, <3>9
  <2> QED
    BY <2>4, <2>5
<1> QED
  BY <1>9, <1>10

\* peer_register gives p the next id and interns it; or a backet on the way leads to
\* freed memory.
Registers(S, T, p) ==
    LET g == idmaker_get(S.mid)
    IN  /\ T.mid = g.m /\ T.peer[p].drole = g.ret /\ T.peer[p].registered = TRUE
        /\ T.hash = hash_get(S.hash, Key(T), p)
FoundFreed(T, k) ==
    T.crashed = "freed" /\ ~(hash_compared(T.hash, Key(T), k) \subseteq Live(T))

\* peer_register ends with one or the other.
LEMMA RegisterIs ==
    ASSUME NEW S, NEW p \in PeerAddr, Shape(S), IsPeer(S.peer[p]), NEW T \in peer_register(S, p)
    PROVE  \/ Changes(S, T, p, {"drole", "registered"}, {"mid", "hash"}) /\ Registers(S, T, p)
           \/ /\ Changes(S, T, p, {"drole", "registered"}, {"mid", "crashed"})
              /\ FoundFreed(T, T.peer[p].drole)
<1> DEFINE g == idmaker_get(S.mid)
           A == [S EXCEPT !.mid = g.m]
           B == [A EXCEPT !.peer[p].drole = g.ret]
           C == [B EXCEPT !.peer[p].registered = TRUE]
<1>1. T \in IF hash_compared(C.hash, Key(C), g.ret) \subseteq Live(C)
            THEN {[C EXCEPT !.hash = hash_get(@, Key(C), p)]} ELSE Crash(C, "freed")
  BY Zenon DEF peer_register
<1>2. /\ SetsGlobal(S, A, "mid", g.m) /\ Assigns(A, B, p, "drole", g.ret)
      /\ Assigns(B, C, p, "registered", TRUE)
  BY Zenon DEF SetsGlobal, Assigns
<1> HIDE DEF A, B, C, g
<1>3. Changes(S, A, p, {}, {"mid"}) /\ A.mid = g.m
  BY <1>2, IsGlobal, SetGlobal
<1>4. Shape(A) /\ IsPeer(A.peer[p])
  BY <1>3 DEF Changes
<1>5. Changes(A, B, p, {"drole"}, {}) /\ B.peer[p].drole = g.ret
  BY <1>2, <1>4, SetField DEF PeerFields, Fits
<1>6. Shape(B) /\ IsPeer(B.peer[p])
  BY <1>5 DEF Changes
<1>7. Changes(B, C, p, {"registered"}, {}) /\ C.peer[p].registered = TRUE
  <2>1. PICK v : v = TRUE
    BY Zenon
  <2>2. "registered" \in PeerFields /\ Fits("registered", v)
    BY DEF PeerFields, Fits
  <2>3. Assigns(B, C, p, "registered", v)
    BY <1>2, <2>1, Zenon
  <2>4. Changes(B, C, p, {"registered"}, {}) /\ C.peer[p].registered = v
    BY <2>2, <2>3, <1>6, SetField
  <2> QED
    BY <2>1, <2>4, Zenon
<1>8. Shape(C) /\ IsPeer(C.peer[p])
  BY <1>7 DEF Changes
<1>9. Changes(S, C, p, {"drole", "registered"}, {"mid"})
  <2>1. Changes(S, B, p, {"drole"}, {"mid"})
    BY <1>3, <1>5, ChangesTrans, ChangesMore
  <2> QED
    BY <2>1, <1>7, ChangesTrans, ChangesMore
<1>10. C.mid = g.m /\ C.peer[p].drole = g.ret /\ C.hash = S.hash
  <2>1. C.peer[p].drole = B.peer[p].drole
    BY <1>7 DEF Changes, PeerFields
  <2>2. C.mid = A.mid /\ C.hash = A.hash
    BY <1>5, <1>7 DEF Changes, SysFields
  <2>3. A.hash = S.hash
    BY <1>3 DEF Changes, SysFields
  <2> QED
    BY <1>3, <1>5, <2>1, <2>2, <2>3
<1>11. CASE hash_compared(C.hash, Key(C), g.ret) \subseteq Live(C)
  <2>1. SetsGlobal(C, T, "hash", hash_get(C.hash, Key(C), p))
    BY <1>1, <1>11, Zenon DEF SetsGlobal
  <2>2. Changes(C, T, p, {}, {"hash"}) /\ T.hash = hash_get(C.hash, Key(C), p) /\ T.peer = C.peer
    BY <2>1, <1>8, IsGlobal, SetGlobal
  <2>3. Key(T) = Key(C) /\ T.mid = C.mid
    BY <2>2 DEF Key, Changes, SysFields
  <2>4. Changes(S, T, p, {"drole", "registered"}, {"mid", "hash"})
    BY <1>9, <2>2, ChangesTrans, ChangesMore
  <2>5. Registers(S, T, p)
    BY <2>2, <2>3, <1>10, <1>7 DEF Registers, g
  <2> QED
    BY <2>4, <2>5
<1>12. CASE ~(hash_compared(C.hash, Key(C), g.ret) \subseteq Live(C))
  <2>1. SetsGlobal(C, T, "crashed", "freed")
    BY <1>1, <1>12, Zenon DEF SetsGlobal, Crash
  <2>2. Changes(C, T, p, {}, {"crashed"}) /\ T.crashed = "freed" /\ T.peer = C.peer
    BY <2>1, <1>8, IsGlobal, SetGlobal
  <2>3. Key(T) = Key(C) /\ Live(T) = Live(C) /\ T.hash = C.hash
    BY <2>2 DEF Key, Live, Changes, SysFields
  <2>4. Changes(S, T, p, {"drole", "registered"}, {"mid", "crashed"})
    BY <1>9, <2>2, ChangesTrans, ChangesMore
  <2> QED
    BY <2>2, <2>3, <2>4, <1>10, <1>12 DEF FoundFreed
<1> QED
  BY <1>11, <1>12

\* The ids and the live peers, where neither is assigned.
LEMMA SameKeys ==
    ASSUME NEW S, NEW T, NEW p \in PeerAddr, NEW F, NEW G, Changes(S, T, p, F, G), IsPeer(S.peer[p]),
           "drole" \notin F
    PROVE  Key(T) = Key(S)
<1>1. \A q \in PeerAddr : q # p => T.peer[q] = S.peer[q]
  BY DEF Changes
<1>2. T.peer[p] # NoPeer /\ S.peer[p] # NoPeer
  BY NoPeerIs DEF Changes
<1>3. T.peer[p].drole = S.peer[p].drole
  BY DEF Changes, PeerFields
<1> QED
  BY <1>1, <1>2, <1>3 DEF Key

\* The live peers are the same where mem is not assigned.
LEMMA SameLive ==
    ASSUME NEW S, NEW T, NEW p \in PeerAddr, NEW F, NEW G, Changes(S, T, p, F, G), "mem" \notin F
    PROVE  Live(T) = Live(S)
<1>1. \A q \in PeerAddr : q # p => T.peer[q] = S.peer[q]
  BY DEF Changes
<1>2. T.peer[p].mem = S.peer[p].mem
  BY DEF Changes, PeerFields
<1> QED
  BY <1>1, <1>2 DEF Live

\* misaka_start_success: the peer is up, registered, read from, and written to when
\* packets wait for it.
SuccessDone(S, T, p) ==
    /\ Changes(S, T, p, {"status", "drole", "registered", "fd", "t_read", "t_write", "callback"},
               {"mid", "hash", "open"})
    /\ Registers(S, T, p)
    /\ T.peer[p].status = "esta"
    /\ T.peer[p].t_read \in {"on", S.peer[p].t_read}
    /\ Serves(T.peer[p].t_read)
    /\ S.peer[p].out > 0 => Serves(T.peer[p].t_write)
    /\ T.peer[p].t_write \in {"on", S.peer[p].t_write}
    /\ S.peer[p].fd \in S.open => T.peer[p].fd = S.peer[p].fd /\ T.open = S.open
SuccessCrashed(S, T, p) ==
    /\ Changes(S, T, p, {"status", "drole", "registered"}, {"mid", "crashed"})
    /\ FoundFreed(T, T.peer[p].drole)

\* misaka_start_success ends with one or the other.
LEMMA SuccessIs ==
    ASSUME NEW S, NEW p \in PeerAddr, Shape(S), IsPeer(S.peer[p]), S.crashed = "no",
           NEW T \in misaka_start_success(S, p)
    PROVE  SuccessDone(S, T, p) \/ SuccessCrashed(S, T, p)
<1> DEFINE I == [S EXCEPT !.peer[p].status = "esta"]
           A == After(peer_register(I, p), LAMBDA X : StartRead(SetNonblocking(X, p), p))
<1>1. T \in After(A, LAMBDA X : IF X.peer[p].out = 0 THEN {X} ELSE StartWrite(X, p, "misaka_write"))
  BY Zenon DEF misaka_start_success
<1>i. Assigns(S, I, p, "status", "esta")
  BY DEF Assigns
<1> HIDE DEF A, I
<1>2. PICK U \in A : T \in IF U.crashed = "no"
                           THEN IF U.peer[p].out = 0 THEN {U} ELSE StartWrite(U, p, "misaka_write")
                           ELSE {U}
  BY <1>1, Zenon DEF After
<1> USE DEF A
<1>3. PICK V \in peer_register(I, p) :
        U \in IF V.crashed = "no" THEN StartRead(SetNonblocking(V, p), p) ELSE {V}
  BY <1>2, Zenon DEF After
<1> HIDE DEF A
<1>4. Changes(S, I, p, {"status"}, {}) /\ I.peer[p].status = "esta"
  BY <1>i, SetField DEF PeerFields, Fits
<1>5. Shape(I) /\ IsPeer(I.peer[p]) /\ I.crashed = "no" /\ I.mid = S.mid /\ I.hash = S.hash
  BY <1>4 DEF Changes, SysFields
<1>6. CASE V.crashed # "no"
  <2>1. Changes(I, V, p, {"drole", "registered"}, {"mid", "crashed"}) /\ FoundFreed(V, V.peer[p].drole)
    BY <1>3, <1>5, <1>6, RegisterIs DEF Changes, SysFields
  <2>2. T = V
    BY <1>6, <1>2, <1>3
  <2>3. Changes(S, V, p, {"status", "drole", "registered"}, {"mid", "crashed"})
    BY <2>1, <1>4, ChangesTrans, ChangesMore
  <2> QED
    BY <2>1, <2>2, <2>3 DEF SuccessCrashed
<1>7. CASE V.crashed = "no"
  <2> DEFINE W == SetNonblocking(V, p)
  <2>1. Changes(I, V, p, {"drole", "registered"}, {"mid", "hash"}) /\ Registers(I, V, p)
    BY <1>3, <1>5, <1>7, RegisterIs DEF FoundFreed
  <2>2. Shape(V) /\ IsPeer(V.peer[p]) /\ V.crashed = "no"
    BY <2>1, <1>7 DEF Changes
  <2>3. Changes(V, W, p, {"fd"}, {"open"}) /\ (V.peer[p].fd \in V.open => W = V)
    BY <2>2, SetNonblockingIs
  <2>4. U \in StartRead(W, p)
    BY <1>3, <1>7
  <2> HIDE DEF W
  <2>5. Shape(W) /\ IsPeer(W.peer[p]) /\ W.crashed = "no"
    BY <2>2, <2>3 DEF Changes, SysFields
  <2>6. /\ Changes(W, U, p, {"t_read"}, {})
        /\ U.peer[p].t_read \in {"on", W.peer[p].t_read}
        /\ Serves(U.peer[p].t_read)
    BY <2>4, <2>5, StartReadIs
  <2>7. Shape(U) /\ IsPeer(U.peer[p]) /\ U.crashed = "no"
    BY <2>5, <2>6 DEF Changes, SysFields
  <2>8. /\ Changes(U, T, p, {"t_write", "callback"}, {})
        /\ T.peer[p].t_write \in {"on", U.peer[p].t_write}
        /\ U.peer[p].out # 0 => Serves(T.peer[p].t_write)
    <3>1. CASE U.peer[p].out = 0
      <4>1. T = U
        BY <1>2, <2>7, <3>1
      <4>2. Changes(U, U, p, {"t_write", "callback"}, {})
        BY <2>7, ChangesNone, ChangesMore
      <4> QED
        BY <3>1, <4>1, <4>2
    <3>2. CASE U.peer[p].out # 0
      <4>1. T \in StartWrite(U, p, "misaka_write")
        BY <1>2, <2>7, <3>2
      <4> QED
        BY <4>1, <2>7, StartWriteIs
    <3> QED
      BY <3>1, <3>2
  <2>9. Changes(S, V, p, {"status", "drole", "registered"}, {"mid", "hash"})
    BY <1>4, <2>1, ChangesTrans, ChangesMore
  <2>10. Changes(S, W, p, {"status", "drole", "registered", "fd"}, {"mid", "hash", "open"})
    BY <2>3, <2>9, ChangesTrans, ChangesMore
  <2>11. Changes(S, U, p, {"status", "drole", "registered", "fd", "t_read"}, {"mid", "hash", "open"})
    BY <2>6, <2>10, ChangesTrans, ChangesMore
  <2>12. Changes(S, T, p, {"status", "drole", "registered", "fd", "t_read", "t_write", "callback"},
                 {"mid", "hash", "open"})
    BY <2>8, <2>11, ChangesTrans, ChangesMore
  <2>13. Registers(S, T, p)
    <3>a. Key(W) = Key(V)
      BY <2>2, <2>3, SameKeys, Zenon
    <3>b. Key(U) = Key(W)
      BY <2>5, <2>6, SameKeys, Zenon
    <3>c. Key(T) = Key(U)
      BY <2>7, <2>8, SameKeys
    <3>1. Key(T) = Key(V)
      BY <3>a, <3>b, <3>c
    <3>d. /\ W.mid = V.mid /\ W.hash = V.hash /\ W.peer[p].drole = V.peer[p].drole
          /\ W.peer[p].registered = V.peer[p].registered
      BY <2>3 DEF Changes, PeerFields, SysFields
    <3>e. /\ U.mid = W.mid /\ U.hash = W.hash /\ U.peer[p].drole = W.peer[p].drole
          /\ U.peer[p].registered = W.peer[p].registered
      BY <2>6 DEF Changes, PeerFields, SysFields
    <3>f. /\ T.mid = U.mid /\ T.hash = U.hash /\ T.peer[p].drole = U.peer[p].drole
          /\ T.peer[p].registered = U.peer[p].registered
      BY <2>8 DEF Changes, PeerFields, SysFields
    <3>2. /\ T.mid = V.mid /\ T.hash = V.hash /\ T.peer[p].drole = V.peer[p].drole
          /\ T.peer[p].registered = V.peer[p].registered
      BY <3>d, <3>e, <3>f
    <3> QED
      BY <3>1, <3>2, <2>1, <1>5 DEF Registers
  <2>14. /\ T.peer[p].status = "esta" /\ T.peer[p].t_read = U.peer[p].t_read
         /\ W.peer[p].t_read = S.peer[p].t_read
         /\ U.peer[p].t_write = S.peer[p].t_write /\ U.peer[p].out = S.peer[p].out
    <3>1. T.peer[p].status = "esta" /\ T.peer[p].t_read = U.peer[p].t_read
      <4>1. T.peer[p].status = U.peer[p].status /\ T.peer[p].t_read = U.peer[p].t_read
        BY <2>8 DEF Changes, PeerFields
      <4>2. U.peer[p].status = W.peer[p].status
        BY <2>6 DEF Changes, PeerFields
      <4>3. W.peer[p].status = V.peer[p].status
        BY <2>3 DEF Changes, PeerFields
      <4>4. V.peer[p].status = "esta"
        BY <1>4, <2>1 DEF Changes, PeerFields
      <4> QED
        BY <4>1, <4>2, <4>3, <4>4
    <3>2. W.peer[p].t_read = S.peer[p].t_read
      BY <2>10 DEF Changes, PeerFields
    <3>3. U.peer[p].t_write = S.peer[p].t_write /\ U.peer[p].out = S.peer[p].out
      BY <2>11 DEF Changes, PeerFields
    <3> QED
      BY <3>1, <3>2, <3>3
  <2>15. S.peer[p].fd \in S.open => T.peer[p].fd = S.peer[p].fd /\ T.open = S.open
    <3> SUFFICES ASSUME S.peer[p].fd \in S.open PROVE T.peer[p].fd = S.peer[p].fd /\ T.open = S.open
      OBVIOUS
    <3>1. V.peer[p].fd = S.peer[p].fd /\ V.open = S.open
      BY <2>9 DEF Changes, PeerFields, SysFields
    <3>2. W = V
      BY <3>1, <2>3
    <3>3. T.peer[p].fd = W.peer[p].fd /\ T.open = W.open
      BY <2>6, <2>8 DEF Changes, PeerFields, SysFields
    <3> QED
      BY <3>1, <3>2, <3>3
  <2>16. S.peer[p].out \in Nat
    BY DEF IsPeer
  <2>17. /\ T.peer[p].t_read \in {"on", S.peer[p].t_read}
         /\ Serves(T.peer[p].t_read)
    BY <2>6, <2>14
  <2>18. /\ T.peer[p].t_write \in {"on", S.peer[p].t_write}
         /\ S.peer[p].out > 0 => Serves(T.peer[p].t_write)
    <3>1. S.peer[p].out > 0 => U.peer[p].out # 0
      BY <2>14, <2>16
    <3> QED
      BY <2>8, <2>14, <3>1
  <2> QED
    BY <2>12, <2>13, <2>14, <2>15, <2>17, <2>18 DEF SuccessDone
<1> QED
  BY <1>6, <1>7

\* misaka_start_progress.
LEMMA ProgressIs ==
    ASSUME NEW S, NEW p \in PeerAddr, Shape(S), IsPeer(S.peer[p]), S.peer[p].fd \in S.open,
           NEW T \in misaka_start_progress(S, p)
    PROVE  /\ Changes(S, T, p, {"status", "t_read"}, {})
           /\ T.peer[p].status = "idle"
           /\ T.peer[p].t_read \in {"on", S.peer[p].t_read}
           /\ Serves(T.peer[p].t_read)
<1> DEFINE I == [S EXCEPT !.peer[p].status = "idle"]
<1>1. T \in StartRead(SetNonblocking(I, p), p)
  BY Zenon DEF misaka_start_progress
<1>i. Assigns(S, I, p, "status", "idle")
  BY DEF Assigns
<1> HIDE DEF I
<1>2. Changes(S, I, p, {"status"}, {}) /\ I.peer[p].status = "idle"
  BY <1>i, SetField DEF PeerFields, Fits
<1>3. Shape(I) /\ IsPeer(I.peer[p]) /\ I.peer[p].fd \in I.open /\ I.peer[p].t_read = S.peer[p].t_read
  BY <1>2 DEF Changes, PeerFields, SysFields
<1>4. T \in StartRead(I, p)
  BY <1>1, <1>3, SetNonblockingIs
<1>5. /\ Changes(I, T, p, {"t_read"}, {})
      /\ T.peer[p].t_read \in {"on", I.peer[p].t_read}
      /\ Serves(T.peer[p].t_read)
  BY <1>3, <1>4, StartReadIs
<1>6. T.peer[p].status = "idle"
  BY <1>2, <1>5 DEF Changes, PeerFields
<1>7. Changes(S, T, p, {"status", "t_read"}, {})
  BY <1>2, <1>5, ChangesTrans, ChangesMore
<1> QED
  BY <1>3, <1>5, <1>6, <1>7

\* A descriptor the kernel gives out is -1 or one that is not open.
LEMMA NewFdsAre == ASSUME NEW S, NEW fd \in NewFds(S) PROVE fd = -1 \/ fd \in Nat \ S.open
  BY PeerAssumption DEF NewFds

\* A descriptor is stored and added to the open ones.
GetsFd(S, T, p, fd, A) == T = [S EXCEPT !.peer[p].fd = fd, !.open = A]

\* What that changes.
LEMMA SetFdOpen ==
    ASSUME NEW S, NEW p \in PeerAddr, Shape(S), IsPeer(S.peer[p]), NEW fd \in Int, NEW A, NEW T,
           GetsFd(S, T, p, fd, A)
    PROVE  Changes(S, T, p, {"fd"}, {"open"}) /\ T.peer[p].fd = fd /\ T.open = A
<1> DEFINE U == [S EXCEPT !.peer[p].fd = fd]
<1>1. Assigns(S, U, p, "fd", fd) /\ SetsGlobal(U, T, "open", A)
  BY Zenon DEF Assigns, SetsGlobal, GetsFd
<1> HIDE DEF U
<1>2. Changes(S, U, p, {"fd"}, {}) /\ U.peer[p].fd = fd
  BY <1>1, SetFd
<1>3. Shape(U) /\ IsPeer(U.peer[p]) /\ "open" \in SysFields \ {"peer"}
  BY <1>2 DEF Changes, SysFields
<1>a. SetsGlobal(U, T, "open", A)
  BY <1>1
<1>4. Changes(U, T, p, {}, {"open"}) /\ T.open = A /\ T.peer = U.peer
  BY <1>a, <1>3, SetGlobal
<1>5. Changes(S, T, p, {"fd"}, {"open"})
  BY <1>2, <1>4, ChangesTrans, ChangesMore
<1> QED
  BY <1>2, <1>4, <1>5

\* peer->start: the peer keeps its descriptor or gets an unused one, which is open unless
\* the call failed.
Started(S, T, p, st) ==
    /\ Changes(S, T, p, {"fd"}, {"open"})
    /\ st \in {"success", "progress", "error"}
    /\ st = "progress" => S.peer[p].link = "tcp"
    /\ \/ T.peer[p].fd \in NewFds(S)
       \/ /\ S.peer[p].link \in {"tcp", "listen"}
          /\ T.peer[p].fd = S.peer[p].fd /\ S.peer[p].fd >= 0
    /\ \/ T.open = S.open \cup ({T.peer[p].fd} \ {-1})
       \/ S.peer[p].link \notin {"tcp", "listen"} /\ st = "error" /\ T.open = S.open
    /\ st # "error" => T.peer[p].fd \in T.open /\ T.peer[p].fd >= 0

\* tcp_connect and tcp_listen are such starts.
LEMMA TcpConnectIs ==
    ASSUME NEW S, NEW p \in PeerAddr, Shape(S), IsPeer(S.peer[p]),
           S.peer[p].link \in {"tcp", "listen"}, NEW res \in tcp_connect(S, p),
           res[2] = "progress" => S.peer[p].link = "tcp"
    PROVE  Started(S, res[1], p, res[2])
<1> DEFINE fds == IF S.peer[p].fd >= 0 THEN {S.peer[p].fd} ELSE NewFds(S)
           With(fd) == [S EXCEPT !.peer[p].fd = fd, !.open = @ \cup ({fd} \ {-1})]
           Results(fd) == {"error"} \cup IF fd \in (S.open \cup NewFds(S)) \ {-1}
                                        THEN {"success", "progress"} ELSE {}
<1>0. res \in UNION {{<<With(fd), r>> : r \in Results(fd)} : fd \in fds}
  BY Zenon DEF tcp_connect
<1> HIDE DEF With, fds, Results
<1>1. PICK fd \in fds : \E r \in Results(fd) : res = <<With(fd), r>>
  BY <1>0, Zenon
<1>2. PICK r \in {"success", "progress", "error"} :
        res = <<With(fd), r>> /\ (r # "error" => fd # -1)
  BY <1>1 DEF Results
<1>3. res[1] = With(fd) /\ res[2] = r
  BY <1>2
<1>4. /\ fd \in Int
      /\ fd \in NewFds(S) \/ (fd = S.peer[p].fd /\ fd >= 0)
      /\ fd # -1 => fd >= 0
  BY NewFdsAre DEF fds, IsPeer
<1>5. GetsFd(S, res[1], p, fd, S.open \cup ({fd} \ {-1}))
  BY <1>3 DEF With, GetsFd
<1>6. /\ Changes(S, res[1], p, {"fd"}, {"open"})
      /\ res[1].peer[p].fd = fd /\ res[1].open = S.open \cup ({fd} \ {-1})
  BY <1>4, <1>5, SetFdOpen
<1> QED
  BY <1>2, <1>3, <1>4, <1>6 DEF Started

\* udp_connect and udp_listen are such starts.
LEMMA UdpConnectIs ==
    ASSUME NEW S, NEW p \in PeerAddr, Shape(S), IsPeer(S.peer[p]),
           S.peer[p].link \notin {"tcp", "listen"}, NEW r \in udp_connect(S, p)
    PROVE  Started(S, r[1], p, r[2])
<1> DEFINE With(fd) == [S EXCEPT !.peer[p].fd = fd]
<1>1. \/ \E fd \in NewFds(S) : r = <<With(fd), "error">>
      \/ \E fd \in NewFds(S) \ {-1} : r = <<[With(fd) EXCEPT !.open = @ \cup {fd}], "success">>
  BY Zenon DEF udp_connect
<1>2. ASSUME NEW fd \in NewFds(S), r = <<With(fd), "error">> PROVE Started(S, r[1], p, r[2])
  <2>1. fd \in Int
    BY NewFdsAre
  <2>2. Assigns(S, r[1], p, "fd", fd) /\ r[2] = "error"
    BY <1>2 DEF Assigns
  <2>3. Changes(S, r[1], p, {"fd"}, {}) /\ r[1].peer[p].fd = fd
    BY <2>1, <2>2, SetFd
  <2>4. r[1].open = S.open /\ Changes(S, r[1], p, {"fd"}, {"open"})
    BY <2>3, ChangesMore DEF Changes, SysFields
  <2> QED
    BY <2>2, <2>3, <2>4 DEF Started
<1>3. ASSUME NEW fd \in NewFds(S) \ {-1}, r = <<[With(fd) EXCEPT !.open = @ \cup {fd}], "success">>
      PROVE  Started(S, r[1], p, r[2])
  <2>1. fd \in Nat
    BY NewFdsAre
  <2>2. GetsFd(S, r[1], p, fd, S.open \cup {fd}) /\ r[2] = "success"
    BY <1>3, Zenon DEF Shape, SysFields, GetsFd
  <2>3. /\ Changes(S, r[1], p, {"fd"}, {"open"})
        /\ r[1].peer[p].fd = fd /\ r[1].open = S.open \cup {fd}
    BY <2>1, <2>2, SetFdOpen
  <2> QED
    BY <2>1, <2>2, <2>3 DEF Started
<1> QED
  BY <1>1, <1>2, <1>3, Zenon

\* sdio_connect is such a start.
LEMMA SdioConnectIs ==
    ASSUME NEW S, NEW p \in PeerAddr, Shape(S), IsPeer(S.peer[p]),
           S.peer[p].link \notin {"tcp", "listen"}, NEW r \in sdio_connect(S, p)
    PROVE  Started(S, r[1], p, r[2])
<1>1. PICK fd \in NewFds(S) :
        r = <<[S EXCEPT !.peer[p].fd = fd, !.open = @ \cup ({fd} \ {-1})],
              IF fd = -1 THEN "error" ELSE "success">>
  BY Zenon DEF sdio_connect
<1>2. fd \in Int /\ (fd # -1 => fd >= 0)
  BY NewFdsAre
<1>3. /\ GetsFd(S, r[1], p, fd, S.open \cup ({fd} \ {-1}))
      /\ r[2] = IF fd = -1 THEN "error" ELSE "success"
  BY <1>1 DEF GetsFd
<1>4. /\ Changes(S, r[1], p, {"fd"}, {"open"})
      /\ r[1].peer[p].fd = fd /\ r[1].open = S.open \cup ({fd} \ {-1})
  BY <1>2, <1>3, SetFdOpen
<1> QED
  BY <1>2, <1>3, <1>4 DEF Started

\* The start function of every kind of link is such a start.
LEMMA PeerStartIs ==
    ASSUME NEW S, NEW p \in PeerAddr, Shape(S), IsPeer(S.peer[p]),
           S.peer[p].link \in {"tcp", "listen", "udp", "ludp", "sdio"}, NEW r \in PeerStart(S, p)
    PROVE  Started(S, r[1], p, r[2])
<1>1. CASE S.peer[p].link = "tcp"
  <2>1. r \in tcp_connect(S, p)
    BY <1>1, Zenon DEF PeerStart
  <2> QED
    BY <1>1, <2>1, TcpConnectIs
<1>2. CASE S.peer[p].link = "listen"
  <2>1. r \in tcp_connect(S, p) /\ r[2] # "progress"
    BY <1>2, Zenon DEF PeerStart, tcp_listen
  <2> QED
    BY <1>2, <2>1, TcpConnectIs
<1>3. CASE S.peer[p].link \in {"udp", "ludp"}
  <2>1. r \in udp_connect(S, p)
    BY <1>3, Zenon DEF PeerStart, ludp_connect
  <2> QED
    BY <1>3, <2>1, UdpConnectIs
<1>4. CASE S.peer[p].link = "sdio"
  <2>1. r \in sdio_connect(S, p)
    BY <1>4, Zenon DEF PeerStart
  <2> QED
    BY <1>4, <2>1, SdioConnectIs
<1> QED
  BY <1>1, <1>2, <1>3, <1>4

\* misaka_start of a peer that is not quick: only its connect timer.
LEMMA StartTimerIs ==
    ASSUME NEW S, NEW p \in PeerAddr, Shape(S), IsPeer(S.peer[p]), ~S.peer[p].quick,
           S.peer[p].t_connect # "on", S.peer[p].orphans = 0, NEW T \in misaka_start(S, p)
    PROVE  /\ Changes(S, T, p, {"orphans", "t_connect"}, {})
           /\ T.peer[p].t_connect = "on" /\ T.peer[p].orphans = 0
<1> DEFINE n == S.peer[p].orphans + (IF S.peer[p].t_connect = "on" THEN 1 ELSE 0)
           U == [S EXCEPT !.peer[p].orphans = n]
<1>1. T = [S EXCEPT !.peer[p].orphans = n, !.peer[p].t_connect = "on"]
  BY DEF misaka_start
<1>2. n = 0
  OBVIOUS
<1> HIDE DEF n
<1>3. Assigns(S, U, p, "orphans", n) /\ Assigns(U, T, p, "t_connect", "on")
  BY <1>1, Zenon DEF Assigns
<1> HIDE DEF U
<1>4. Changes(S, U, p, {"orphans"}, {}) /\ U.peer[p].orphans = n
  BY <1>3, SetField DEF PeerFields, Fits
<1>5. Shape(U) /\ IsPeer(U.peer[p])
  BY <1>4 DEF Changes
<1>6. Changes(U, T, p, {"t_connect"}, {}) /\ T.peer[p].t_connect = "on"
  BY <1>3, <1>5, SetField DEF PeerFields, Fits
<1>7. Changes(S, T, p, {"orphans", "t_connect"}, {})
  BY <1>4, <1>6, ChangesTrans, ChangesMore
<1>8. T.peer[p].orphans = 0
  BY <1>2, <1>4, <1>6 DEF Changes, PeerFields
<1> QED
  BY <1>6, <1>7, <1>8

\* connect_status_trigger, one lemma for each status.
TimerOff(S, T, p) == Assigns(S, T, p, "t_connect", "off")

\* Stopping the timer changes nothing else.
LEMMA TimerOffIs ==
    ASSUME NEW S, NEW p \in PeerAddr, Shape(S), IsPeer(S.peer[p]), NEW T, TimerOff(S, T, p)
    PROVE  Changes(S, T, p, {"t_connect"}, {}) /\ T.peer[p].t_connect = "off"
<1>1. "t_connect" \in PeerFields /\ Fits("t_connect", "off")
  BY DEF PeerFields, Fits
<1>2. Assigns(S, T, p, "t_connect", "off")
  BY DEF TimerOff
<1>3. Changes(S, T, p, {"t_connect"}, {}) /\ T.peer[p]["t_connect"] = "off"
  BY <1>1, <1>2, SetField
<1> QED
  BY <1>3

\* On success the timer is stopped after misaka_start_success.
LEMMA TriggerSuccess ==
    ASSUME NEW S, NEW p, NEW T \in connect_status_trigger(S, p, "success")
    PROVE  \E U \in misaka_start_success(S, p) :
               IF U.crashed = "no" THEN TimerOff(U, T, p) ELSE T = U
<1>1. T \in After(misaka_start_success(S, p), LAMBDA X : {[X EXCEPT !.peer[p].t_connect = "off"]})
  BY Zenon DEF connect_status_trigger
<1>2. PICK U \in misaka_start_success(S, p) :
        T \in IF U.crashed = "no" THEN {[U EXCEPT !.peer[p].t_connect = "off"]} ELSE {U}
  BY <1>1, Zenon DEF After
<1> QED
  BY <1>2, Zenon DEF TimerOff, Assigns

\* In progress the timer is stopped after misaka_start_progress.
LEMMA TriggerProgress ==
    ASSUME NEW S, NEW p, NEW T \in connect_status_trigger(S, p, "progress")
    PROVE  \E U \in misaka_start_progress(S, p) :
               IF U.crashed = "no" THEN TimerOff(U, T, p) ELSE T = U
<1>1. T \in After(misaka_start_progress(S, p), LAMBDA X : {[X EXCEPT !.peer[p].t_connect = "off"]})
  BY Zenon DEF connect_status_trigger
<1>2. PICK U \in misaka_start_progress(S, p) :
        T \in IF U.crashed = "no" THEN {[U EXCEPT !.peer[p].t_connect = "off"]} ELSE {U}
  BY <1>1, Zenon DEF After
<1> QED
  BY <1>2, Zenon DEF TimerOff, Assigns

\* On an error nothing happens.
LEMMA TriggerError ==
    ASSUME NEW S, NEW p, NEW T \in connect_status_trigger(S, p, "error")
    PROVE  T = S
  BY Zenon DEF connect_status_trigger

\* peer_unregister.
LEMMA UnregisterIs ==
    ASSUME NEW S, NEW p \in PeerAddr, Shape(S), IsPeer(S.peer[p]), NEW T \in peer_unregister(S, p)
    PROVE  \/ /\ Changes(S, T, p, {}, {"mid", "hash"})
              /\ T.hash = hash_release(S.hash, Key(S), p)
              /\ \E g \in CellIds : T.mid = idmaker_put(S.mid, g)
           \/ Changes(S, T, p, {}, {"crashed"}) /\ FoundFreed(T, T.peer[p].drole)
<1>0. {"mid", "hash", "crashed"} \subseteq SysFields \ {"peer"}
  BY DEF SysFields
<1>1. CASE hash_compared(S.hash, Key(S), S.peer[p].drole) \subseteq Live(S)
  <2>1. PICK g \in CellIds :
          T = [S EXCEPT !.mid = idmaker_put(@, g), !.hash = hash_release(@, Key(S), p)]
    BY <1>1, Zenon DEF peer_unregister
  <2> DEFINE U == [S EXCEPT !.mid = idmaker_put(S.mid, g)]
  <2>2. SetsGlobal(S, U, "mid", idmaker_put(S.mid, g))
    BY DEF SetsGlobal
  <2>3. SetsGlobal(U, T, "hash", hash_release(S.hash, Key(S), p))
    BY <2>1, Zenon DEF SetsGlobal, Shape, SysFields
  <2> HIDE DEF U
  <2>4. Changes(S, U, p, {}, {"mid"}) /\ U.mid = idmaker_put(S.mid, g)
    BY <1>0, <2>2, SetGlobal
  <2>5. Shape(U) /\ IsPeer(U.peer[p])
    BY <2>4 DEF Changes
  <2>6. Changes(U, T, p, {}, {"hash"}) /\ T.hash = hash_release(S.hash, Key(S), p)
    BY <1>0, <2>3, <2>5, SetGlobal
  <2>7. Changes(S, T, p, {}, {"mid", "hash"})
    BY <2>4, <2>6, ChangesTrans, ChangesMore
  <2>8. T.mid = idmaker_put(S.mid, g)
    BY <2>4, <2>6 DEF Changes, SysFields
  <2> QED
    BY <2>6, <2>7, <2>8
<1>2. CASE ~(hash_compared(S.hash, Key(S), S.peer[p].drole) \subseteq Live(S))
  <2>1. SetsGlobal(S, T, "crashed", "freed")
    BY <1>2, Zenon DEF peer_unregister, Crash, SetsGlobal
  <2>2. Changes(S, T, p, {}, {"crashed"}) /\ T.crashed = "freed" /\ T.peer = S.peer
    BY <1>0, <2>1, SetGlobal
  <2>3. Key(T) = Key(S) /\ Live(T) = Live(S) /\ T.hash = S.hash
    BY <2>2 DEF Key, Live, Changes, SysFields
  <2> QED
    BY <1>2, <2>2, <2>3 DEF FoundFreed
<1> QED
  BY <1>1, <1>2

\* peer_delete: the list without the peer, misaka_stop, and the memory is freed unless
\* misaka_stop crashed.
LEMMA DeleteIs ==
    ASSUME NEW S, NEW p \in PeerAddr, Shape(S), IsPeer(S.peer[p]), S.crashed = "no",
           NEW T \in peer_delete(S, p)
    PROVE  \E U, V :
              /\ Changes(S, U, p, {}, {"list"}) /\ U.list = listnode_delete(S.list, p)
              /\ \/ StopDone(U, V, p) /\ Assigns(V, T, p, "mem", "freed")
                 \/ StopCrashed(U, T, p)
<1> DEFINE U == [S EXCEPT !.list = listnode_delete(@, p)]
<1>1. PICK V \in misaka_stop(U, p) :
        T \in IF V.crashed = "no" THEN {[V EXCEPT !.peer[p].mem = "freed"]} ELSE {V}
  <2>1. T \in After(misaka_stop(U, p), LAMBDA X : {[X EXCEPT !.peer[p].mem = "freed"]})
    BY Zenon DEF peer_delete
  <2> HIDE DEF U
  <2> QED
    BY <2>1, Zenon DEF After
<1>2. SetsGlobal(S, U, "list", listnode_delete(S.list, p))
  BY DEF SetsGlobal
<1> HIDE DEF U
<1>3. Changes(S, U, p, {}, {"list"}) /\ U.list = listnode_delete(S.list, p)
  BY <1>2, IsGlobal, SetGlobal
<1>4. Shape(U) /\ IsPeer(U.peer[p]) /\ U.crashed = "no"
  BY <1>3 DEF Changes, SysFields
<1>5. StopDone(U, V, p) \/ StopCrashed(U, V, p)
  BY <1>1, <1>4, StopIs
<1>6. CASE StopDone(U, V, p)
  <2>1. V.crashed = "no"
    BY <1>4, <1>6 DEF StopDone, Changes, SysFields
  <2>2. Assigns(V, T, p, "mem", "freed")
    BY <1>1, <2>1, Zenon DEF Assigns
  <2> QED
    BY <1>3, <1>6, <2>2
<1>7. CASE StopCrashed(U, V, p)
  <2>1. T = V
    BY <1>1, <1>7 DEF StopCrashed
  <2> QED
    BY <1>3, <1>7, <2>1
<1> QED
  BY <1>5, <1>6, <1>7

\* hash_find answers 0 when nothing matches, and the first match otherwise.  Peer_proofs
\* shows that it does.
HashFinds ==
    \A h, key, k :
        Len(h) \in Nat =>
            \/ hash_find(h, key, k) = 0 /\ \A j \in 1 .. Len(h) : ~Matches(h, key, k, j)
            \/ /\ hash_find(h, key, k) \in 1 .. Len(h) /\ Matches(h, key, k, hash_find(h, key, k))
               /\ \A j \in 1 .. (hash_find(h, key, k) - 1) : ~Matches(h, key, k, j)

\* The same for one table, as the proofs use it.
LEMMA HashFind ==
    ASSUME HashFinds, NEW h, Len(h) \in Nat, NEW key, NEW k
    PROVE  LET i == hash_find(h, key, k)
           IN  \/ i = 0 /\ \A j \in 1 .. Len(h) : ~Matches(h, key, k, j)
               \/ /\ i \in 1 .. Len(h) /\ Matches(h, key, k, i)
                  /\ \A j \in 1 .. (i - 1) : ~Matches(h, key, k, j)
  BY Zenon DEF HashFinds

\* What hash_lookup finds has been compared, and is in the table.
LEMMA LookupCompared ==
    ASSUME HashFinds,
           NEW h, Len(h) \in Nat, NEW key, NEW k, NEW d \in hash_lookup(h, key, k)
    PROVE  d \in hash_compared(h, key, k)
<1> DEFINE i == hash_find(h, key, k)
<1>1. i # 0 /\ d = h[i].data
  BY DEF hash_lookup
<1>2. i \in 1 .. Len(h) /\ Matches(h, key, k, i)
  BY <1>1, HashFind
<1>3. h[i].key = k
  BY <1>2 DEF Matches
<1>4. hash_compared(h, key, k) = {h[j].data : j \in {l \in 1 .. i : h[l].key = k}}
  BY <1>1 DEF hash_compared
<1> HIDE DEF i
<1> QED
  BY <1>1, <1>2, <1>3, <1>4

\* misaka_packet_route.
Pushed(S, T, q) ==
    /\ q \in Live(S) /\ Changes(S, T, q, {"out", "t_write", "callback"}, {})
    /\ S.peer[q].status # "esta" => T.peer[q].t_write = S.peer[q].t_write
    /\ S.peer[q].status = "esta" =>
        /\ T.peer[q].t_write \in {"on", S.peer[q].t_write}
        /\ Serves(T.peer[q].t_write)

\* misaka_packet_route finds no peer, follows a backet into freed memory, or pushes.
LEMMA RouteIs ==
    ASSUME HashFinds,
           NEW S, Shape(S), Len(S.hash) \in Nat, NEW nid, NEW T \in misaka_packet_route(S, nid)
    PROVE  \/ T = S
           \/ SetsGlobal(S, T, "crashed", "freed") /\ ~(hash_compared(S.hash, Key(S), nid) \subseteq Live(S))
           \/ \E q \in PeerAddr : Pushed(S, T, q)
<1> DEFINE found == hash_lookup(S.hash, Key(S), nid)
           Out(q) == [S EXCEPT !.peer[q].out = @ + 1]
           Push(q) == IF Out(q).peer[q].status = "esta" THEN StartWrite(Out(q), q, "misaka_write")
                      ELSE {Out(q)}
<1>1. CASE ~(hash_compared(S.hash, Key(S), nid) \subseteq Live(S))
  BY <1>1, Zenon DEF misaka_packet_route, Crash, SetsGlobal
<1>2. CASE hash_compared(S.hash, Key(S), nid) \subseteq Live(S) /\ found = {}
  BY <1>2, Zenon DEF misaka_packet_route
<1>3. CASE hash_compared(S.hash, Key(S), nid) \subseteq Live(S) /\ found # {}
  <2>1. T \in UNION {Push(q) : q \in {p \in found : S.peer[p].out < MaxOut}}
    BY <1>3, Zenon DEF misaka_packet_route
  <2> HIDE DEF Push, found
  <2>2. PICK q \in found : T \in Push(q)
    BY <2>1, Zenon
  <2>3. q \in Live(S)
    BY <1>3, LookupCompared DEF found
  <2>4. q \in PeerAddr /\ IsPeer(S.peer[q])
    BY <2>3, NoPeerIs, Zenon DEF Live, Shape
  <2>5. Assigns(S, Out(q), q, "out", S.peer[q].out + 1) /\ S.peer[q].out + 1 \in Nat
    BY <2>4 DEF Assigns, IsPeer
  <2> HIDE DEF Out
  <2>6. Changes(S, Out(q), q, {"out"}, {})
    BY <2>4, <2>5, SetOut
  <2>7. /\ Shape(Out(q)) /\ IsPeer(Out(q).peer[q])
        /\ Out(q).peer[q].status = S.peer[q].status /\ Out(q).peer[q].t_write = S.peer[q].t_write
    BY <2>6 DEF Changes, PeerFields
  <2>8. CASE S.peer[q].status = "esta"
    <3>1. T \in StartWrite(Out(q), q, "misaka_write")
      BY <2>2, <2>7, <2>8 DEF Push
    <3>2. /\ Changes(Out(q), T, q, {"t_write", "callback"}, {})
          /\ T.peer[q].t_write \in {"on", S.peer[q].t_write}
          /\ Serves(T.peer[q].t_write)
      BY <3>1, <2>4, <2>7, StartWriteIs
    <3>3. Changes(S, T, q, {"out", "t_write", "callback"}, {})
      BY <3>2, <2>6, ChangesTrans, ChangesMore
    <3> QED
      BY <2>3, <2>4, <2>8, <3>2, <3>3 DEF Pushed
  <2>9. CASE S.peer[q].status # "esta"
    <3>1. T = Out(q)
      BY <2>2, <2>7, <2>9 DEF Push
    <3>2. Changes(S, T, q, {"out", "t_write", "callback"}, {})
      BY <3>1, <2>6, ChangesMore
    <3> QED
      BY <2>3, <2>4, <2>7, <2>9, <3>1, <3>2 DEF Pushed
  <2> QED
    BY <2>8, <2>9
<1> QED
  BY <1>1, <1>2, <1>3

\* misaka_write.
LEMMA WriteIs ==
    ASSUME NEW S, NEW p \in PeerAddr, Shape(S), IsPeer(S.peer[p]), NEW T \in misaka_write(S, p)
    PROVE  \/ T = S
           \/ SetsGlobal(S, T, "crashed", "callback")
           \/ /\ Changes(S, T, p, {"out", "t_write"}, {}) /\ S.peer[p].status = "esta"
              /\ T.peer[p].t_write = IF T.peer[p].out = 0 THEN "off" ELSE S.peer[p].t_write
<1>1. CASE S.peer[p].callback = "NULL"
  BY <1>1, Zenon DEF misaka_write, Crash, SetsGlobal
<1>2. CASE S.peer[p].callback # "NULL" /\ S.peer[p].status # "esta"
  BY <1>2, Zenon DEF misaka_write
<1>3. CASE S.peer[p].callback # "NULL" /\ S.peer[p].status = "esta"
  <2>1. PICK n \in PeerWrite(S, p) :
          T = [S EXCEPT !.peer[p].out = n, !.peer[p].t_write = IF n = 0 THEN "off" ELSE @]
    BY <1>3, Zenon DEF misaka_write
  <2>2. n \in Nat
    BY DEF PeerWrite, IsPeer
  <2> DEFINE U == [S EXCEPT !.peer[p].out = n]
             w == IF n = 0 THEN "off" ELSE S.peer[p].t_write
  <2>3. Assigns(S, U, p, "out", n)
    BY DEF Assigns
  <2>4. U.peer[p].t_write = S.peer[p].t_write
    BY <2>2, <2>3, SetOut DEF Changes, PeerFields
  <2>5. Assigns(U, T, p, "t_write", w)
    BY <2>1, Zenon DEF Assigns, Shape, IsPeer, PeerFields, SysFields
  <2> HIDE DEF U, w
  <2>6. Changes(S, U, p, {"out"}, {}) /\ U.peer[p].out = n
    BY <2>2, <2>3, SetOut
  <2>7. Shape(U) /\ IsPeer(U.peer[p])
    BY <2>6 DEF Changes
  <2>8. Changes(U, T, p, {"t_write"}, {}) /\ T.peer[p].t_write = w
    BY <2>5, <2>7, SetField DEF PeerFields, Fits
  <2>9. Changes(S, T, p, {"out", "t_write"}, {})
    BY <2>6, <2>8, ChangesTrans, ChangesMore
  <2>10. T.peer[p].out = n
    BY <2>6, <2>8 DEF Changes, PeerFields
  <2> QED
    BY <1>3, <2>8, <2>9, <2>10 DEF w
<1> QED
  BY <1>1, <1>2, <1>3

\* peer_new.
NewPeer(link, mode, fd, disparser, io) ==
    [mem |-> "live", link |-> link, mode |-> mode, quick |-> (mode = "passive"),
     status |-> "idle", fd |-> fd, t_read |-> io.t_read, t_write |-> io.t_write,
     callback |-> "none", t_connect |-> "none", orphans |-> 0,
     out |-> 0, drole |-> 0, registered |-> FALSE, disparser |-> disparser]

\* peer_new fills a block and appends it to the list.
LEMMA NewIs ==
    ASSUME NEW S, NEW q \in PeerAddr, Shape(S), NEW link, NEW mode, NEW fd \in Int, NEW d, NEW io,
           NEW N, N = peer_new(S, q, link, mode, fd, d, io)
    PROVE  /\ Changes(S, N, q, PeerFields, {"list"})
           /\ N.peer[q] = NewPeer(link, mode, fd, d, io) /\ N.list = Append(S.list, q)
<1> DEFINE r == NewPeer(link, mode, fd, d, io)
           U == [S EXCEPT !.peer[q] = r]
           l == Append(S.list, q)
<1>1. N = [U EXCEPT !.list = Append(@, q)]
  BY DEF peer_new, SetPeer, NewPeer
<1>2. IsPeer(r)
  BY DEF NewPeer, IsPeer, PeerFields
<1> HIDE DEF r
<1>3. /\ U.peer[q] = r /\ \A x \in PeerAddr : x # q => U.peer[x] = S.peer[x]
      /\ \A g \in SysFields \ {"peer"} : U[g] = S[g]
  BY DEF Shape, SysFields
<1>4. Shape(U)
  BY <1>2, <1>3 DEF Shape, SysFields
<1> HIDE DEF U
<1>5. SetsGlobal(U, N, "list", l)
  BY <1>1, <1>3 DEF SetsGlobal, SysFields
<1> HIDE DEF l
<1>6. Changes(U, N, q, {}, {"list"}) /\ N.list = l /\ N.peer = U.peer
  BY <1>2, <1>3, <1>4, <1>5, SetList
<1>7. Changes(S, N, q, PeerFields, {"list"})
  BY <1>3, <1>6 DEF Changes
<1> QED
  BY <1>3, <1>6, <1>7 DEF r, l

\* tcp_accept opens the descriptor and makes the peer.
LEMMA AcceptedIs ==
    ASSUME NEW S, NEW p \in PeerAddr, NEW q \in PeerAddr, Shape(S), IsPeer(S.peer[p]),
           NEW fd \in Int, NEW d, NEW io, NEW v, NEW U, SetsGlobal(S, U, "open", v),
           NEW N, N = peer_new(U, q, "tcp", "passive", fd, d, io)
    PROVE  /\ Changes(S, N, q, PeerFields, {"list", "open"})
           /\ N.peer[q] = NewPeer("tcp", "passive", fd, d, io)
           /\ N.list = Append(S.list, q) /\ N.open = v
<1>1. Changes(S, U, p, {}, {"open"}) /\ U.open = v /\ U.peer = S.peer
  BY SetOpen
<1>2. Shape(U)
  BY <1>1 DEF Changes
<1>3. /\ Changes(U, N, q, PeerFields, {"list"})
      /\ N.peer[q] = NewPeer("tcp", "passive", fd, d, io) /\ N.list = Append(U.list, q)
  BY <1>2, NewIs
<1>4. /\ \A g \in SysFields \ {"open", "peer"} : U[g] = S[g]
      /\ \A g \in SysFields \ {"list", "peer"} : N[g] = U[g]
  BY <1>1, <1>3 DEF Changes
<1>5. N.list = Append(S.list, q) /\ N.open = v
  BY <1>1, <1>3, <1>4 DEF SysFields
<1>6. Changes(S, N, q, PeerFields, {"list", "open"})
  <2>1. \A g \in SysFields \ ({"list", "open"} \cup {"peer"}) : N[g] = S[g]
    BY <1>4
  <2> QED
    BY <1>1, <1>3, <2>1 DEF Changes
<1> QED
  BY <1>3, <1>5, <1>6

\* The fields of a new peer.
LEMMA NewFields ==
    ASSUME NEW link, NEW mode, NEW fd, NEW d, NEW io, NEW r, r = NewPeer(link, mode, fd, d, io)
    PROVE  /\ r.mem = "live" /\ r.link = link /\ r.mode = mode /\ r.status = "idle" /\ r.fd = fd
           /\ r.t_read = io.t_read /\ r.t_write = io.t_write /\ r.t_connect = "none" /\ r.orphans = 0
           /\ r.out = 0 /\ r.drole = 0
  BY DEF NewPeer

\* Only an accepted peer starts at once, and no new peer is registered.
LEMMA NewFlags ==
    ASSUME NEW link, NEW mode, NEW fd, NEW d, NEW io, NEW r, r = NewPeer(link, mode, fd, d, io)
    PROVE  (r.quick <=> mode = "passive") /\ ~r.registered
  BY Zenon DEF NewPeer

\* tcp_accept.
LEMMA AcceptIs ==
    ASSUME NEW S, NEW p, NEW r \in tcp_accept(S, p), Shape(S)
    PROVE  \/ r = <<S, "error">>
           \/ \E q \in Fresh(S), fd \in NewFds(S) \ {-1}, io \in Malloced : \E d :
                LET U == [S EXCEPT !.open = @ \cup {fd}]
                    N == peer_new(U, q, "tcp", "passive", fd, d, io)
                IN  \/ r = <<N, "passive_close">>
                    \/ \E T \in misaka_start(N, q) : r = <<T, "accept">>
<1> DEFINE New(q, fd, d, io) ==
                peer_new([S EXCEPT !.open = @ \cup {fd}], q, "tcp", "passive", fd, d, io)
           Started1(q, fd, d, io) == {<<T, "accept">> : T \in misaka_start(New(q, fd, d, io), q)}
           Accepted(q, fd, io) ==
                {<<New(q, fd, FALSE, io), "passive_close">>}
                \cup UNION {Started1(q, fd, d, io) : d \in BOOLEAN}
           Any(q, fd) == UNION {Accepted(q, fd, io) : io \in Malloced}
<1>1. r \in {<<S, "error">>}
            \cup UNION {UNION {Any(q, fd) : fd \in NewFds(S) \ {-1}} : q \in Fresh(S)}
  BY Zenon DEF tcp_accept
<1> HIDE DEF Any, Accepted
<1>2. CASE r # <<S, "error">>
  <2>a. PICK q \in Fresh(S) : r \in UNION {Any(q, fd) : fd \in NewFds(S) \ {-1}}
    BY <1>1, <1>2, Zenon
  <2>b. PICK fd \in NewFds(S) \ {-1} : r \in Any(q, fd)
    BY <2>a, Zenon
  <2>1. PICK io \in Malloced : r \in Accepted(q, fd, io)
    BY <2>b, Zenon DEF Any
  <2> USE DEF Accepted
  <2> HIDE DEF Started1, New
  <2>2. \/ r = <<New(q, fd, FALSE, io), "passive_close">>
        \/ \E d \in BOOLEAN : r \in Started1(q, fd, d, io)
    BY <2>1, Zenon
  <2>3. \E d : \/ r = <<New(q, fd, d, io), "passive_close">>
               \/ \E T \in misaka_start(New(q, fd, d, io), q) : r = <<T, "accept">>
    BY <2>2, Zenon DEF Started1
  <2> QED
    BY <2>3, Zenon DEF New
<1> QED
  BY <1>2, Zenon
=============================================================================
