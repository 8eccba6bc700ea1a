----------------------------- MODULE StreamFifo -----------------------------
(***************************************************************************)
(* struct stream_fifo (lib/stream.c), the send queue of a peer: streams    *)
(* linked through their own next field, which also links the packets of a  *)
(* chain that misaka_packet_route splits.  Pointer by pointer.             *)
(***************************************************************************)
EXTENDS Naturals, Sequences

CONSTANTS
    Packet,  \* the addresses of streams
    NULL

ASSUME StreamFifoAssumption == NULL \notin Packet

VARIABLES
    next,    \* s->next of each stream
    fifo,    \* head, tail and count
    queued   \* history: the streams pushed and not popped, oldest first

fvars == <<next, fifo, queued>>

\* stream_fifo_new, and no stream allocated.
FifoInit ==
    /\ next = [s \in Packet |-> NULL]
    /\ fifo = [head |-> NULL, tail |-> NULL, count |-> 0]
    /\ queued = <<>>

\* The memory of stream_fifo_push as a function: nx and f are next and fifo.
stream_fifo_push(m, s) ==
    [nx |-> IF m.f.tail # NULL THEN [m.nx EXCEPT ![m.f.tail] = s] ELSE m.nx,
     f |-> [head |-> IF m.f.tail # NULL THEN m.f.head ELSE s,
            tail |-> s, count |-> m.f.count + 1]]

\* Distinct streams outside the fifo.
Chains(n) ==
    {c \in [1 .. n -> {s \in Packet : \A i \in 1 .. Len(queued) : queued[i] # s}] :
        \A i, j \in 1 .. n : c[i] = c[j] => i = j}

\* The loop of misaka_packet_route over the chain c: each packet is cut off the
\* chain (its next becomes NULL) and pushed.
RouteChain(c) ==
    LET After[i \in 0 .. Len(c)] ==
            IF i = 0 THEN [nx |-> next, f |-> fifo]
            ELSE stream_fifo_push([After[i - 1] EXCEPT !.nx[c[i]] = NULL], c[i])
    IN  /\ next' = After[Len(c)].nx
        /\ fifo' = After[Len(c)].f
        /\ queued' = queued \o c

\* A mutant: the tail survives the last pop.
misaka_packet_delete_tail ==
    /\ fifo.head # NULL
    /\ fifo' = [fifo EXCEPT !.head = next[fifo.head], !.count = @ - 1]
    /\ queued' = Tail(queued)
    /\ UNCHANGED next

\* stream_fifo_pop and stream_free, in misaka_packet_delete, whose callers see a
\* head first.  The popped stream keeps its next.
misaka_packet_delete ==
    /\ fifo.head # NULL
    /\ fifo' = [head |-> next[fifo.head],
                tail |-> IF next[fifo.head] = NULL THEN NULL ELSE fifo.tail,
                count |-> fifo.count - 1]
    /\ queued' = Tail(queued)
    /\ UNCHANGED next

\* The streams from a head on, following next.
From(h) ==
    LET C[k \in 0 .. Len(queued), s \in Packet \cup {NULL}] ==
            IF s = NULL THEN <<>>
            ELSE IF k = 0 THEN <<s>> ELSE <<s>> \o C[k - 1, next[s]]
    IN  C[Len(queued), h]

\* stream_fifo_clean frees every stream.
stream_fifo_clean ==
    /\ fifo' = [head |-> NULL, tail |-> NULL, count |-> 0]
    /\ queued' = <<>>
    /\ UNCHANGED next

FifoNext ==
    \/ \E n \in 1 .. 2 : \E c \in Chains(n) : RouteChain(c)
    \/ misaka_packet_delete
    \/ stream_fifo_clean

FifoSpec == FifoInit /\ [][FifoNext]_fvars

-----------------------------------------------------------------------------
(* Properties.                                                             *)

\* Following next from the head visits exactly the queued streams in the order
\* they were routed and stops at the tail, although a recycled stream still
\* holds the next of its former life.
FifoOK ==
    /\ From(fifo.head) = queued
    /\ fifo.count = Len(queued)
    /\ fifo.tail = IF queued = <<>> THEN NULL ELSE queued[Len(queued)]
=============================================================================
