------------------------------- MODULE Sending ------------------------------
(***************************************************************************)
(* How the packets of one peer get out: misaka_packet_route packs them and *)
(* queues them in obuf, the write callback of the link (tcp_write,         *)
(* udp_write, ludp_write, sdio_write) hands them to the kernel, which may  *)
(* take all the bytes of a packet, some of them or none.  That obuf is a   *)
(* FIFO is shown in StreamFifo: here a packet is its number in the order   *)
(* of routing.                                                             *)
(***************************************************************************)
EXTENDS Integers, Sequences

CONSTANTS
    PackHeader,               \* MAGIC_HEADER_SIZE
    PackSize,                 \* MISAKA_MAX_PACKET_SIZE
    SendLens,                 \* the lengths of the payloads
    MISAKA_WRITE_PACKET_MAX,
    MaxSends,                 \* bound on the packets
    MaxTries                  \* bound on the calls of write and sendto

ASSUME SendingAssumption ==
    /\ PackHeader \in Nat /\ PackSize \in Nat /\ SendLens \subseteq Nat \ {0}
    /\ MISAKA_WRITE_PACKET_MAX \in Nat \ {0} /\ MaxSends \in Nat /\ MaxTries \in Nat

VARIABLES
    medium,   \* the link
    routed,   \* the lengths of the packets pushed to obuf, header included
    gone,     \* how many of them misaka_packet_delete has taken out again
    loop,     \* in the write callback: the value of its count; -1 outside
    wire,     \* what the kernel was given: the number of a packet and how many of
              \* its bytes it took, from the first one on (-1: an error)
    dead      \* an assert has ended the process

sendvars == <<medium, routed, gone, loop, wire, dead>>

SendInit ==
    /\ medium \in {"tcp", "udp", "ludp", "sdio"}
    /\ routed = <<>> /\ gone = 0 /\ loop = -1 /\ wire = <<>> /\ dead = FALSE

\* misaka_packet_route of a payload, with normal_parser_pack or with the default pack
\* (header 0).  The header goes behind the payload; stream_putl asserts that there is
\* room for it.
Route(n, header) ==
    /\ ~dead /\ loop = -1 /\ Len(routed) < MaxSends
    /\ IF n + header > PackSize THEN dead' = TRUE /\ UNCHANGED routed
       ELSE routed' = Append(routed, n + header) /\ UNCHANGED dead
    /\ UNCHANGED <<medium, gone, loop, wire>>

\* misaka_write calls the callback of the link, which sees a packet.
misaka_write_start ==
    /\ ~dead /\ loop = -1 /\ gone < Len(routed) /\ Len(wire) < MaxTries
    /\ loop' = 0
    /\ UNCHANGED <<medium, routed, gone, wire, dead>>

\* The kernel takes n bytes of the first packet in obuf.
Given(n) ==
    /\ ~dead /\ loop >= 0
    /\ n <= routed[gone + 1]
    /\ wire' = Append(wire, [packet |-> gone + 1, bytes |-> n])
    /\ UNCHANGED <<medium, routed, dead>>

\* A mutant: a packet that was sent in part is deleted like the others.
tcp_write_short(n) ==
    /\ medium = "tcp"
    /\ Given(n)
    /\ gone' = IF n < 0 THEN gone ELSE gone + 1
    /\ loop' = IF n < 0 \/ gone' = Len(routed) \/ Len(wire') >= MaxTries THEN -1 ELSE loop

\* One turn of the loop of tcp_write.  An error ends the loop; a packet of which not
\* all bytes were taken stays as it is; count is never increased.  (MaxTries ends the
\* loop here as an error would.)
tcp_write(n) ==
    /\ medium = "tcp"
    /\ Given(n)
    /\ gone' = IF n = routed[gone + 1] THEN gone + 1 ELSE gone
    /\ loop' = IF n < 0 \/ gone' = Len(routed) \/ Len(wire') >= MaxTries THEN -1 ELSE loop

\* One turn of the loops of the other links: the packet is deleted whatever became of
\* it.
SentOrNot(n) ==
    /\ Given(n)
    /\ gone' = gone + 1
    /\ loop' = IF loop + 1 < MISAKA_WRITE_PACKET_MAX /\ gone' < Len(routed)
               THEN loop + 1 ELSE -1

udp_write(n) == medium = "udp" /\ SentOrNot(n)
ludp_write(n) == medium = "ludp" /\ SentOrNot(n)
sdio_write(n) == medium = "sdio" /\ SentOrNot(n)

SendNext ==
    \/ \E n \in SendLens, header \in {0, PackHeader} : Route(n, header)
    \/ misaka_write_start
    \/ \E n \in {-1} \cup 1 .. PackSize :
        tcp_write(n) \/ udp_write(n) \/ ludp_write(n) \/ sdio_write(n)

SendSpec == SendInit /\ [][SendNext]_sendvars

-----------------------------------------------------------------------------
(* Properties.                                                             *)

\* All bytes of a packet were taken.
Whole(i) == wire[i].bytes = routed[wire[i].packet]

Ordered == \A i, j \in 1 .. Len(wire) : i < j => wire[i].packet <= wire[j].packet

OutWhenGone ==
    \A k \in 1 .. Len(routed) :
        k <= gone <=> \E i \in 1 .. Len(wire) :
                        wire[i].packet = k /\ (medium = "tcp" => Whole(i))

RepeatsAreShort ==
    \A i, j \in 1 .. Len(wire) :
        i < j /\ wire[i].packet = wire[j].packet => medium = "tcp" /\ ~Whole(i)

\* What the other end can count on.  The packets come in the order they were routed.
\* On TCP a packet leaves obuf exactly when all of it was taken in one piece; pieces of
\* it may come before that one, because a short write starts the packet again.  On the
\* other links each packet is tried once.
WireInOrder == Ordered /\ OutWhenGone /\ RepeatsAreShort
=============================================================================
