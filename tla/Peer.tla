-------------------------------- MODULE Peer --------------------------------
(***************************************************************************)
(* The life of the peers of lib/core.c and the link/ files: created by the *)
(* application or by accept, started, connected, read, written, stopped    *)
(* and started again, deleted.  All of it runs in the event loop, so every *)
(* callback is one step.                                                   *)
(*                                                                         *)
(* A C function that changes the state is an operator from a state S (the  *)
(* record sys below) to the set of the states it may return in; After      *)
(* composes them, and a crash ends the composition.  The application       *)
(* installs parser on every peer it creates; the bytes of a connection are *)
(* in Framing, the packets of the tasks in Dispatch.                       *)
(***************************************************************************)
EXTENDS IdMaker, HashTable, FiniteSets

CONSTANTS
    MaxPeer,      \* the addresses peer_new returns are 1 .. MaxPeer; none is used twice
    Links,        \* Links[p]: what the p-th link the application opens may be, of "tcp",
                  \* "listen", "udp", "ludp" and "sdio"
    Unpack,       \* Unpack[mode]: what the unpack callback of such a peer may return
    MaxFd,        \* the descriptors of the process are 0 .. MaxFd
    FirstIds,     \* the values idmaker_new may find in curr
    CellIds,      \* the values idmaker_put may leave in the cell it allocates
    MAX_ID,       \* MISAKA_MAX_ID
    MaxOut,       \* bound on the packets in an obuf
    Malloced      \* what malloc may return for the two io watchers of a peer: memory in
                  \* which ev_is_active reads 1 ("junk"), or something else ("new")

ASSUME PeerAssumption ==
    /\ MaxPeer \in Nat /\ Len(Links) <= MaxPeer
    /\ Links \in Seq(SUBSET {"tcp", "listen", "udp", "ludp", "sdio"})
    /\ MaxOut \in 0 .. 30   \* MISAKA_WRITE_PACKET_MAX
    /\ MaxFd \in Nat /\ MAX_ID \in Nat /\ FirstIds \cup CellIds \subseteq Nat
    /\ Unpack \in [{"connect", "passive"} -> SUBSET {"packet", "partial", "close"}]
    /\ Malloced \subseteq [t_read : {"new", "junk"}, t_write : {"new", "junk"}]

\* The state.  For each address the peer (or its last state when it has been freed);
\* peer_list, peer_hash and mid of misaka_servant; the open descriptors of the
\* process; whether core_run has entered the loop; and why the process has crashed, if it has.
VARIABLE sys

PeerAddr == 1 .. MaxPeer
NoPeer == [mem |-> "none"]

\* drole, and the ids a packet may name.
Key(S) == [p \in PeerAddr |-> IF S.peer[p] = NoPeer THEN 0 ELSE S.peer[p].drole]
Ids == 0 .. MAX_ID
\* The address the next peer_new returns; none when the memory is used up.
Fresh(S) == {p \in PeerAddr : /\ S.peer[p] = NoPeer
                              /\ \A q \in 1 .. (p - 1) : S.peer[q] # NoPeer}
Live(S) == {p \in PeerAddr : S.peer[p].mem = "live"}

SetPeer(S, p, rec) == [S EXCEPT !.peer[p] = rec]
Crash(S, why) == {[S EXCEPT !.crashed = why]}
After(SS, F(_)) == UNION {IF S.crashed = "no" THEN F(S) ELSE {S} : S \in SS}

PeerInit ==
    \E g \in FirstIds :
        sys = [peer |-> [p \in PeerAddr |-> NoPeer], list |-> <<>>, hash |-> <<>>,
               mid |-> idmaker_new(0, MAX_ID, g), open |-> {0}, loop |-> FALSE, crashed |-> "no"]

-----------------------------------------------------------------------------
(* libev and the kernel, as the code uses them.                            *)

\* ev_is_active(w) of an io watcher; the code only asks whether it is 1.
ev_is_active(w) == IF w \in {"on", "junk"} THEN 1 ELSE 0

\* For a periodic watcher it is its place in libev's heap, which starts at 1.
ev_is_active_timer(w) == IF w = "on" THEN {1, 2} ELSE {0}

\* The lowest free descriptor, as socket, accept and open return it; -1 when there is
\* none, or on another error.
NewFds(S) ==
    LET unused == (0 .. MaxFd) \ S.open
    IN  {-1} \cup {n \in unused : \A m \in unused : n <= m}

CloseFd(S, fd) == [S EXCEPT !.open = @ \ {fd}]

-----------------------------------------------------------------------------
(* Creation and registration.                                              *)

\* peer_new and the init function of the link.  io is what malloc returns for the two
\* watchers.  disparser is what the application, or its connect callback, has made of it;
\* nothing under src sets it.
peer_new(S, p, link, mode, fd, disparser, io) ==
    [SetPeer(S, p, [mem |-> "live", link |-> link, mode |-> mode, quick |-> (mode = "passive"),
                status |-> "idle", fd |-> fd, t_read |-> io.t_read, t_write |-> io.t_write,
                callback |-> "none", t_connect |-> "none", orphans |-> 0,
                out |-> 0, drole |-> 0, registered |-> FALSE, disparser |-> disparser])
     EXCEPT !.list = Append(@, p)]

\* peer_register: a new id each time (*flag is not looked at), and a backet for it.
peer_register(S, p) ==
    LET g == idmaker_get(S.mid)
        T == [S EXCEPT !.mid = g.m, !.peer[p].drole = g.ret, !.peer[p].registered = TRUE]
    IN  IF hash_compared(T.hash, Key(T), g.ret) \subseteq Live(T)
        THEN {[T EXCEPT !.hash = hash_get(@, Key(T), p)]}
        ELSE Crash(T, "freed")

\* peer_unregister: the backet under the present id.
peer_unregister(S, p) ==
    IF hash_compared(S.hash, Key(S), S.peer[p].drole) \subseteq Live(S)
    THEN {[S EXCEPT !.mid = idmaker_put(@, g), !.hash = hash_release(@, Key(S), p)] : g \in CellIds}
    ELSE Crash(S, "freed")

-----------------------------------------------------------------------------
(* Watchers.                                                               *)

\* if(1 != ev_is_active(t_read)) { ev_io_init; ev_io_start }.
StartRead(S, p) ==
    {IF ev_is_active(S.peer[p].t_read) = 1 THEN S ELSE [S EXCEPT !.peer[p].t_read = "on"]}

\* The same for t_write, with the callback given.  Where the code calls ev_io_start
\* outside the if, the call does nothing on a watcher that reads as active.
StartWrite(S, p, callback) ==
    {IF ev_is_active(S.peer[p].t_write) = 1 THEN S
     ELSE [S EXCEPT !.peer[p].t_write = "on", !.peer[p].callback = callback]}

\* if(1 == ev_is_active(w)) ev_io_stop(w): on memory that is no watcher it does not
\* return.
StopIo(S, p, w) ==
    IF ev_is_active(S.peer[p][w]) # 1 THEN {S}
    ELSE IF S.peer[p][w] = "junk" THEN Crash(S, "watcher")
    ELSE {[S EXCEPT !.peer[p][w] = "off"]}

\* set_nonblocking fails on a descriptor that is not open; fd becomes 0 then.
SetNonblocking(S, p) ==
    LET fd == S.peer[p].fd
    IN  IF fd \in S.open THEN S
        ELSE [CloseFd(S, IF fd > 0 THEN fd ELSE -1) EXCEPT !.peer[p].fd = 0]

-----------------------------------------------------------------------------
(* Start.                                                                  *)

\* misaka_start_success.
misaka_start_success(S, p) ==
    LET Registered == peer_register([S EXCEPT !.peer[p].status = "esta"], p)
        Reading == After(Registered, LAMBDA T : StartRead(SetNonblocking(T, p), p))
    IN  After(Reading, LAMBDA T : IF T.peer[p].out = 0 THEN {T}
                                  ELSE StartWrite(T, p, "misaka_write"))

\* misaka_start_progress.
misaka_start_progress(S, p) ==
    StartRead(SetNonblocking([S EXCEPT !.peer[p].status = "idle"], p), p)

\* misaka_start: a quick peer is up at once; another gets a new connect timer, and the
\* one it had, were it still active, would be beyond anybody's reach.
misaka_start(S, p) ==
    IF S.peer[p].quick THEN misaka_start_success(S, p)
    ELSE {[S EXCEPT !.peer[p].orphans = @ + (IF S.peer[p].t_connect = "on" THEN 1 ELSE 0),
                    !.peer[p].t_connect = "on"]}

\* tcp_connect: a socket unless there is one already, then connect.
tcp_connect(S, p) ==
    LET fds == IF S.peer[p].fd >= 0 THEN {S.peer[p].fd} ELSE NewFds(S)
        With(fd) == [S EXCEPT !.peer[p].fd = fd, !.open = @ \cup ({fd} \ {-1})]
        Results(fd) == {"error"} \cup IF fd \in (S.open \cup NewFds(S)) \ {-1}
                                     THEN {"success", "progress"} ELSE {}
    IN  UNION {{<<With(fd), r>> : r \in Results(fd)} : fd \in fds}

\* tcp_listen: a socket unless there is one already, then bind and listen.
tcp_listen(S, p) == {r \in tcp_connect(S, p) : r[2] # "progress"}

\* udp_connect (and ludp_connect): always a new socket; when bind fails it is closed and
\* its number stays in fd.
udp_connect(S, p) ==
    LET With(fd) == [S EXCEPT !.peer[p].fd = fd]
    IN  {<<With(fd), "error">> : fd \in NewFds(S)}
        \cup {<<[With(fd) EXCEPT !.open = @ \cup {fd}], "success">> : fd \in NewFds(S) \ {-1}}
ludp_connect(S, p) == udp_connect(S, p)

\* sdio_connect: open.
sdio_connect(S, p) ==
    {<<[S EXCEPT !.peer[p].fd = fd, !.open = @ \cup ({fd} \ {-1})],
       IF fd = -1 THEN "error" ELSE "success">> : fd \in NewFds(S)}

\* peer->start.
PeerStart(S, p) ==
    CASE S.peer[p].link = "tcp" -> tcp_connect(S, p)
      [] S.peer[p].link = "listen" -> tcp_listen(S, p)
      [] S.peer[p].link = "udp" -> udp_connect(S, p)
      [] S.peer[p].link = "ludp" -> ludp_connect(S, p)
      [] S.peer[p].link = "sdio" -> sdio_connect(S, p)

\* A mutant: the connect timer of a peer that is up goes on.
connect_status_trigger_goes_on(S, p, status) ==
    CASE status = "success" -> misaka_start_success(S, p)
      [] status = "progress" -> misaka_start_progress(S, p)
      [] status = "error" -> {S}

\* connect_status_trigger: the timer is stopped whatever ev_is_active says (the if has
\* an empty statement), and keeps trying after an error.
connect_status_trigger(S, p, status) ==
    LET StopTimer(T) == {[T EXCEPT !.peer[p].t_connect = "off"]}
    IN  CASE status = "success" -> After(misaka_start_success(S, p), StopTimer)
          [] status = "progress" -> After(misaka_start_progress(S, p), StopTimer)
          [] status = "error" -> {S}

\* misaka_start_thread, the callback of a connect timer.
misaka_start_thread(S, p) ==
    IF S.peer[p].mem = "freed" THEN Crash(S, "freed")
    ELSE IF S.peer[p].status = "esta" THEN {S}
    ELSE UNION {connect_status_trigger(r[1], p, r[2]) : r \in PeerStart(S, p)}

-----------------------------------------------------------------------------
(* Stop.                                                                   *)

\* A mutant: the descriptor is closed and its number kept.
misaka_stop_keeps_fd(S, p) ==
    LET Idle == [S EXCEPT !.peer[p].status = "idle"]
        NoRead(T) == StopIo(T, p, "t_read")
        Clean(T) == IF ~T.peer[p].disparser THEN Crash(T, "disparser")
                    ELSE {[CloseFd(T, T.peer[p].fd) EXCEPT !.peer[p].out = 0]}
    IN  After(After(StopIo(Idle, p, "t_write"), NoRead), Clean)

\* misaka_stop.
misaka_stop(S, p) ==
    LET Idle == {[S EXCEPT !.peer[p].status = "idle"]}
        NoRead == After(Idle, LAMBDA T : StopIo(T, p, "t_read"))
        NoWrite == After(NoRead, LAMBDA T : StopIo(T, p, "t_write"))
        NoTimer(T) == {IF a = 1 /\ ~T.peer[p].quick
                       THEN [T EXCEPT !.peer[p].t_connect = "off"] ELSE T :
                       a \in ev_is_active_timer(T.peer[p].t_connect)}
        Clean(T) == IF ~T.peer[p].disparser THEN Crash(T, "disparser")
                    ELSE {[CloseFd(T, T.peer[p].fd) EXCEPT !.peer[p].out = 0, !.peer[p].fd = -1]}
    IN  After(After(NoWrite, NoTimer), Clean)

\* misaka_reconnect.
misaka_reconnect(S, p) == After(misaka_stop(S, p), LAMBDA T : misaka_start(T, p))

\* A mutant: the peer stays in peer_list.
peer_delete_listed(S, p) ==
    After(misaka_stop(S, p), LAMBDA T : {[T EXCEPT !.peer[p].mem = "freed"]})

\* listnode_delete: the first node that holds p.
listnode_delete(l, p) ==
    LET First == {i \in 1 .. Len(l) : l[i] = p /\ \A j \in 1 .. (i - 1) : l[j] # p}
    IN  IF First = {} THEN l
        ELSE LET i == CHOOSE i \in First : TRUE IN SubSeq(l, 1, i - 1) \o SubSeq(l, i + 1, Len(l))

\* peer_delete.
peer_delete(S, p) ==
    LET Unlisted == [S EXCEPT !.list = listnode_delete(@, p)]
    IN  After(misaka_stop(Unlisted, p), LAMBDA T : {[T EXCEPT !.peer[p].mem = "freed"]})

-----------------------------------------------------------------------------
(* Packets.                                                                *)

\* A mutant: the write watcher is left to somebody else.
misaka_packet_route_idle(S, nid) ==
    {[S EXCEPT !.peer[q].out = @ + 1] :
     q \in {p \in hash_lookup(S.hash, Key(S), nid) : S.peer[p].out < MaxOut}}

\* misaka_packet_route for a packet to nid: dropped when no peer has that id.
misaka_packet_route(S, nid) ==
    LET found == hash_lookup(S.hash, Key(S), nid)
        Push(q) == LET T == [S EXCEPT !.peer[q].out = @ + 1]
                   IN  IF T.peer[q].status = "esta" THEN StartWrite(T, q, "misaka_write") ELSE {T}
    IN  IF ~(hash_compared(S.hash, Key(S), nid) \subseteq Live(S)) THEN Crash(S, "freed")
        ELSE IF found = {} THEN {S}
        ELSE UNION {Push(q) : q \in {p \in found : S.peer[p].out < MaxOut}}

\* tcp_accept: what misaka_read gets to see, and the state.  ret is compared before
\* anything has been assigned to it.
tcp_accept(S, p) ==
    LET New(q, fd, d, io) ==
            peer_new([S EXCEPT !.open = @ \cup {fd}], q, "tcp", "passive", fd, d, io)
        Accepted(q, fd, io) ==
            {<<New(q, fd, FALSE, io), "passive_close">>}
            \cup UNION {{<<T, "accept">> : T \in misaka_start(New(q, fd, d, io), q)}
                        : d \in BOOLEAN}
        Any(q, fd) == UNION {Accepted(q, fd, io) : io \in Malloced}
    IN  {<<S, "error">>}
        \cup UNION {UNION {Any(q, fd) : fd \in NewFds(S) \ {-1}} : q \in Fresh(S)}

\* peer->read.  The links other than tcp report every read as data.
PeerRead(S, p) ==
    CASE S.peer[p].link = "listen" -> tcp_accept(S, p)
      [] S.peer[p].link = "tcp" ->
            {<<S, r>> : r \in {"partial", "check",
                               IF S.peer[p].mode = "passive" THEN "passive_close" ELSE "close"}}
      [] OTHER -> {<<S, "check">>}

\* read_io_action.  A packet goes to the tasks (Dispatch), or straight to a peer when its
\* nid is not this node's; the copy that is routed has no nid of its own.
read_io_action(S, p, event) ==
    CASE event = "packet" -> {S} \cup UNION {misaka_packet_route(S, nid) : nid \in Ids}
      [] event = "close" -> misaka_reconnect(S, p)
      [] event = "passive_close" -> After(peer_unregister(S, p), LAMBDA T : peer_delete(T, p))
      [] OTHER -> {S}

\* misaka_read, the callback of t_read.  The first data on a connection that was in
\* progress makes it established, and a waiting packet starts t_write with no callback.
misaka_read(S, p) ==
    LET Up(T) == IF T.peer[p].status = "esta" THEN {T}
                 ELSE LET U == [T EXCEPT !.peer[p].status = "esta"]
                      IN  IF U.peer[p].out = 0 THEN {U} ELSE StartWrite(U, p, "NULL")
        Unpacked(T) == UNION {UNION {read_io_action(V, p, u) : u \in Unpack[T.peer[p].mode]}
                              : V \in Up(T)}
    IN  IF S.peer[p].fd < 0 THEN {S}
        ELSE
        UNION {IF r[1].crashed # "no" THEN {r[1]}
               ELSE IF r[2] = "check" THEN Unpacked(r[1])
               ELSE read_io_action(r[1], p, r[2]) : r \in PeerRead(S, p)}

\* peer->write: how many packets are left.  tcp_write stops where write fails; the others
\* drop every packet they have tried to send, and they try MISAKA_WRITE_PACKET_MAX.
PeerWrite(S, p) ==
    IF S.peer[p].link \in {"tcp", "listen"} THEN 0 .. S.peer[p].out ELSE {0}

\* misaka_write, the callback of t_write.  No link of the repository returns a negative
\* count, so a peer is never closed here.
misaka_write(S, p) ==
    IF S.peer[p].callback = "NULL" THEN Crash(S, "callback")
    ELSE IF S.peer[p].status # "esta" THEN {S}
    ELSE {[S EXCEPT !.peer[p].out = n, !.peer[p].t_write = IF n = 0 THEN "off" ELSE @]
          : n \in PeerWrite(S, p)}

-----------------------------------------------------------------------------
(* The event loop.                                                         *)

\* The application opens a link before the loop runs, as core_register of the echo
\* application does, registers the peer or not, and starts it.
OpenLink(p, register, disparser, io) ==
    LET Mode(link) == IF link = "listen" THEN "listen" ELSE "connect"
        New(link) == peer_new(sys, p, link, Mode(link), -1, disparser, io)
    IN  /\ ~sys.loop /\ p \in Fresh(sys) /\ p <= Len(Links)
        /\ \E link \in Links[p] :
            sys' \in After(IF register THEN peer_register(New(link), p) ELSE {New(link)},
                           LAMBDA T : misaka_start(T, p))

\* core_run enters the loop.
core_run == ~sys.loop /\ sys' = [sys EXCEPT !.loop = TRUE]

\* A connect timer fires, the current one of the peer or an earlier one.
TimerFires(p) ==
    /\ sys.peer[p] # NoPeer
    /\ sys.peer[p].t_connect = "on" \/ sys.peer[p].orphans > 0
    /\ sys' \in misaka_start_thread(sys, p)

\* The descriptor of a peer is readable, or writable.
Readable(p) == sys.peer[p] # NoPeer /\ sys.peer[p].t_read = "on" /\ sys' \in misaka_read(sys, p)
Writable(p) == sys.peer[p] # NoPeer /\ sys.peer[p].t_write = "on" /\ sys' \in misaka_write(sys, p)

\* misaka_packet_loop_route takes a packet of the tasks from the EVENT_NET queue; nid is
\* whatever the packet carries.
LoopRoute(nid) == sys' \in misaka_packet_route(sys, nid)

PeerNext ==
    /\ sys.crashed = "no"
    /\ \/ \E p \in PeerAddr, register, disparser \in BOOLEAN, io \in Malloced :
            OpenLink(p, register, disparser, io)
       \/ core_run
       \/ /\ sys.loop
          /\ \/ \E p \in PeerAddr : TimerFires(p) \/ Readable(p) \/ Writable(p)
             \/ \E nid \in Ids : LoopRoute(nid)

PeerSpec == PeerInit /\ [][PeerNext]_sys

-----------------------------------------------------------------------------
(* Properties.                                                             *)

Up(p) == p \in Live(sys) /\ sys.crashed = "no"

\* A started peer is never forgotten and never served twice: it has its connect timer
\* and neither watcher, or it has its read watcher and no timer, through any sequence
\* of errors, connections in progress, closes and reconnects.  The exceptions keep the
\* t_read that malloc returned: one in which ev_is_active reads 1 is taken for a watcher
\* and never started, and tcp_accept may not get to start the peer it has made ("new").
OneWait ==
    \A p \in PeerAddr : Up(p) =>
        LET q == sys.peer[p]
        IN  /\ q.orphans = 0
            /\ q.t_connect = "on" => q.status = "idle" /\ q.t_read # "on" /\ q.t_write # "on"
            /\ q.t_connect # "on" /\ q.t_read \notin {"on", "junk"}
                    => q.t_connect = "none" /\ q.t_read = "new"

\* A packet in the obuf of an established peer has an active write watcher, in whatever
\* order it was queued, the peer connected, and earlier packets went out.  The one
\* exception is t_write as malloc returned it with ev_is_active reading 1: no ev_io_start
\* is ever called for it, and the packet waits for good.  (A watcher that misaka_read
\* has started has a null callback: the packet is not sent, it ends the process.)
NoPacketWaits ==
    \A p \in PeerAddr :
        Up(p) /\ sys.peer[p].status = "esta" /\ sys.peer[p].out > 0
            => sys.peer[p].t_write \in {"on", "junk"}

\* Peers that are read from own different descriptors, and these are open: no close or
\* failed start leaves a number behind that a later peer shares.
OwnDescriptor ==
    \A p, q \in PeerAddr :
        Up(p) /\ Up(q) /\ sys.peer[p].t_read = "on" /\ sys.peer[q].t_read = "on"
            => /\ sys.peer[p].fd \in sys.open
               /\ p # q => sys.peer[p].fd # sys.peer[q].fd

\* While the ids last, a registered peer is found under its id, however often it and
\* others have been registered since; peer_list holds the live peers, each once.
Routable ==
    sys.crashed = "no" =>
        /\ sys.mid.curr # sys.mid.stop =>
            \A p \in Live(sys) : sys.peer[p].registered =>
                hash_lookup(sys.hash, Key(sys), sys.peer[p].drole) = {p}
        /\ {sys.list[i] : i \in 1 .. Len(sys.list)} = Live(sys)
        /\ Len(sys.list) = Cardinality(Live(sys))

\* An accepted peer that is closed leaves nothing behind: no backet, no list entry, no
\* watcher and no timer that could reach the freed memory.  So freed memory is used only
\* where tcp_accept has freed the listener itself.
PassiveGone ==
    LET Freed(mode) == {p \in PeerAddr : sys.peer[p].mem = "freed" /\ sys.peer[p].mode = mode}
    IN  /\ \A p \in Freed("passive") :
            /\ \A i \in 1 .. Len(sys.hash) : sys.hash[i].data # p
            /\ \A i \in 1 .. Len(sys.list) : sys.list[i] # p
            /\ sys.peer[p].t_read # "on" /\ sys.peer[p].t_write # "on"
            /\ sys.peer[p].t_connect # "on"
        /\ sys.crashed = "freed" => Freed("listen") # {}
=============================================================================
