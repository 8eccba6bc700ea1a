------------------------------ MODULE Framing -------------------------------
(***************************************************************************)
(* How one TCP connection is cut into packets: tcp_read (link/tcp_link.c), *)
(* misaka_read and read_io_action (lib/core.c) and the functions of        *)
(* parser/normal_parser.c.  The other end sends frames, HEADER bytes and   *)
(* then a body; the bytes arrive in pieces of any size.  A byte is its     *)
(* place in what was sent, so that a packet delivered to the tasks is the  *)
(* place of its first byte and its length.                                 *)
(***************************************************************************)
EXTENDS Integers, Sequences

CONSTANTS
    HEADER,      \* MAGIC_HEADER_SIZE
    BUFSIZE,     \* MISAKA_MAX_PACKET_SIZE, the size of ibuf
    BodyLens,    \* the lengths of the bodies sent
    MaxFrames    \* bound on the frames sent

ASSUME FramingAssumption ==
    /\ HEADER \in Nat \ {0} /\ BUFSIZE \in Nat /\ HEADER <= BUFSIZE
    /\ BodyLens \subseteq Nat /\ MaxFrames \in Nat

VARIABLES
    frames,       \* the frames sent so far: the first byte, and the length of the body
    taken,        \* how many bytes read() has returned
    getp, endp,   \* of peer->ibuf; its last byte is the last one taken
    body_size, packet_size,  \* of the peer
    packets,      \* what has gone to the tasks: <<first byte, length>>
    conn,         \* "open"; "eof": the other end has closed; "closed": we have;
                  \* "aborted": an assert has ended the process
    cut           \* history: a read was interrupted in the middle of a body

frvars == <<frames, taken, getp, endp, body_size, packet_size, packets, conn, cut>>

\* The byte after the k-th frame, the last byte sent, and where the i-th body starts.
After(k) == IF k = 0 THEN 1 ELSE frames[k].at + HEADER + frames[k].len
Sent == After(Len(frames)) - 1
BodyAt(i) == frames[i].at + HEADER

\* normal_parser_init, called by misaka_start and after every packet.
FramingInit ==
    /\ frames = <<>> /\ packets = <<>> /\ taken = 0 /\ cut = FALSE
    /\ conn = "open"
    /\ getp = 0 /\ endp = 0
    /\ body_size = 0 /\ packet_size = HEADER

\* The other end sends a frame, or closes its side.
SendFrame(n) ==
    /\ conn = "open" /\ Len(frames) < MaxFrames
    /\ frames' = Append(frames, [at |-> After(Len(frames)), len |-> n])
    /\ UNCHANGED <<taken, getp, endp, body_size, packet_size, packets, conn, cut>>
HangUp ==
    /\ conn = "open"
    /\ conn' = "eof"
    /\ UNCHANGED <<frames, taken, getp, endp, body_size, packet_size, packets, cut>>

\* The outcomes IO_PARTIAL, IO_CLOSE (IO_PASSIVE_CLOSE) and IO_PACKET of read_io_action,
\* with e bytes in ibuf.
Partial(e, size) ==
    /\ endp' = e /\ packet_size' = size
    /\ UNCHANGED <<getp, body_size, packets, conn>>
Close == conn' = "closed" /\ UNCHANGED <<getp, endp, body_size, packet_size, packets>>

Serving == conn \in {"open", "eof"}

\* A mutant: parser is not called after a packet.
Deliver_unparsed(e) ==
    /\ packets' = Append(packets, <<taken' - e + getp + 1, e - getp>>)
    /\ getp' = 0 /\ endp' = 0
    /\ packet_size' = 0
    /\ UNCHANGED <<body_size, conn>>

\* IO_PACKET: stream_clone_one, stream_reset and parser.
Deliver(e) ==
    /\ packets' = Append(packets, <<taken' - e + getp + 1, e - getp>>)
    /\ getp' = 0 /\ endp' = 0
    /\ body_size' = 0 /\ packet_size' = HEADER
    /\ UNCHANGED conn

\* A mutant: getp stays at the header.
normal_parser_unpack_peek(e, size) ==
    IF body_size # 0 THEN Deliver(e)
    ELSE IF e - getp < HEADER THEN Partial(e, size)
    ELSE \E i \in 1 .. Len(frames) :
            /\ frames[i].at = taken' - e + getp + 1
            /\ getp' = 0 /\ endp' = e
            /\ body_size' = frames[i].len /\ packet_size' = frames[i].len
            /\ UNCHANGED <<packets, conn>>

\* normal_parser_unpack with e bytes in ibuf, and misaka_read after it.  A header in the
\* right place holds the length of its frame; in a wrong place the magic is not there.
normal_parser_unpack(e, size) ==
    IF body_size # 0 THEN Deliver(e)
    ELSE IF e - getp < HEADER THEN Partial(e, size)
    ELSE LET start == {i \in 1 .. Len(frames) : frames[i].at = taken' - e + getp + 1}
         IN  IF start = {} THEN Close
             ELSE \E i \in start :
                    /\ getp' = HEADER /\ endp' = e
                    /\ body_size' = frames[i].len /\ packet_size' = frames[i].len
                    /\ UNCHANGED <<packets, conn>>

\* misaka_read with tcp_read: read() returns n bytes, as many as have been asked for at
\* most; none only when none were asked for or the other end has closed.
ReadBytes(n) ==
    /\ Serving
    /\ packet_size <= BUFSIZE - endp
    /\ n <= packet_size /\ n <= Sent - taken
    /\ n = 0 => packet_size = 0 \/ (conn = "eof" /\ taken = Sent)
    /\ taken' = taken + n
    /\ IF n # packet_size THEN Partial(endp + n, packet_size - n)
       ELSE normal_parser_unpack(endp + n, 0)
    /\ UNCHANGED <<frames, cut>>

\* A mutant: what does not fit is reported as a transient error.
ReadTooBig_retry ==
    /\ Serving
    /\ packet_size > BUFSIZE - endp
    /\ UNCHANGED frvars

\* What is asked for does not fit in ibuf: STREAM_BOUND_WARN of stream_read_try.
ReadTooBig ==
    /\ Serving
    /\ packet_size > BUFSIZE - endp
    /\ conn' = "aborted"
    /\ UNCHANGED <<frames, taken, getp, endp, body_size, packet_size, packets, cut>>

\* read() fails.
ReadError ==
    /\ Serving
    /\ packet_size <= BUFSIZE - endp
    /\ taken' = taken
    /\ Close
    /\ UNCHANGED <<frames, cut>>

\* EAGAIN or EINTR: tcp_read returns IO_CHECK, and unpack sees what there is.
ReadInterrupted ==
    /\ Serving
    /\ packet_size <= BUFSIZE - endp
    /\ taken' = taken
    /\ cut' = (cut \/ body_size # 0)
    /\ normal_parser_unpack(endp, packet_size)
    /\ UNCHANGED frames

FramingNext ==
    \/ \E n \in BodyLens : SendFrame(n)
    \/ HangUp
    \/ \E n \in 0 .. (Sent - taken) : ReadBytes(n)
    \/ ReadTooBig
    \/ ReadError
    \/ ReadInterrupted

\* The loop calls misaka_read while there is something to read, the end included.
FramingFair == WF_frvars((\E n \in 0 .. (Sent - taken) : ReadBytes(n)) \/ ReadTooBig)

FramingSpec == FramingInit /\ [][FramingNext]_frvars /\ FramingFair

-----------------------------------------------------------------------------
(* Properties.                                                             *)

\* A read always asks for exactly the bytes that are missing, of the header first and of
\* the body then, however the bytes arrive and wherever a read is interrupted: it never
\* takes bytes of the next frame, and never writes past ibuf.
AsksForTheRest ==
    /\ endp <= BUFSIZE
    /\ Serving =>
        \/ body_size = 0 /\ getp = 0 /\ endp + packet_size = HEADER
        \/ getp = HEADER /\ endp + packet_size = HEADER + body_size

\* The packets the tasks get are the bodies that were sent, in order, whole and without
\* their headers, unless a read was interrupted in the middle of a body.
WholeBodies ==
    ~cut => /\ Len(packets) <= Len(frames)
            /\ \A i \in 1 .. Len(packets) : packets[i] = <<BodyAt(i), frames[i].len>>

\* The bodies that were sent are delivered, or the connection has ended; a frame with an
\* empty body is the exception: nothing is delivered after it.
BodyDelivered ==
    Len(packets) < Len(frames) ~>
        \/ Len(packets) = Len(frames) \/ ~Serving \/ cut
        \/ \E i \in 1 .. Len(frames) : frames[i].len = 0

\* stream_read_try reports "0: end-of-file", and tcp_read has a branch for "ERROR or
\* CLOSE": when the other end has closed, the peer is closed.
EofCloses == conn = "eof" ~> ~Serving
=============================================================================
