------------------------------- MODULE Stream -------------------------------
(***************************************************************************)
(* struct stream (lib/stream.c): a fixed buffer with a read position getp, *)
(* a write position endp and a size.  An operation outside its bounds runs *)
(* into STREAM_BOUND_WARN, whose assert(0) ends the process.  A byte is a  *)
(* digit of Base; an integer of width w is w bytes.                        *)
(***************************************************************************)
EXTENDS Integers, Sequences

CONSTANTS
    Base,      \* the values of a byte (256 in the code)
    Widths,    \* the widths of integers: 1, 2, 4 and 8 in the code
    IPV4,      \* the width of an IPv4 address
    MaxSize,   \* MISAKA_MAX_PACKET_SIZE
    Sizes,     \* the sizes streams are made with
    Uninit     \* what malloc leaves in a byte

ASSUME StreamAssumption ==
    /\ Base \in Nat /\ Base > 1
    /\ Widths \subseteq Nat \ {0}
    /\ IPV4 \in Nat \ {0}
    /\ MaxSize \in Nat \ {0}
    /\ Sizes \subseteq Nat \ {0}
    /\ Uninit \notin Int

VARIABLES
    s,        \* the stream
    items,    \* history: the integers put and not overwritten, with their place
    aborted   \* an assert has failed

svars == <<s, items, aborted>>

Byte == 0 .. (Base - 1)

\* stream_new.
stream_new(size) ==
    [getp |-> 0, endp |-> 0, size |-> size,
     data |-> [i \in 0 .. (size - 1) |-> Uninit]]

StreamInit ==
    /\ s \in {stream_new(n) : n \in Sizes}
    /\ items = {}
    /\ aborted = FALSE

STREAM_WRITEABLE(t) == t.size - t.endp
STREAM_READABLE(t) == t.endp - t.getp

\* The sanity condition of STREAM_VERIFY_SANE.
Sane(t) == t.getp <= t.endp /\ t.endp <= t.size

\* The shifts and casts that stream_putw, stream_putl and stream_putq store an
\* integer with: high byte first.
ToBytes(v, w) == [i \in 1 .. w |-> (v \div Base ^ (w - i)) % Base]

\* The shifts that stream_getw, stream_getl and stream_getq rebuild it with.
FromBytes(t, p, w) ==
    LET V[i \in 0 .. w] == IF i = 0 THEN 0 ELSE V[i - 1] * Base + t.data[p + i - 1]
    IN  V[w]

\* memcpy of an integer of the (little-endian) host, in either direction.
NativeBytes(v, w) == [i \in 1 .. w |-> (v \div Base ^ (i - 1)) % Base]
FromNative(t, p, w) ==
    LET V[i \in 0 .. w] == IF i = 0 THEN 0 ELSE V[i - 1] * Base + t.data[p + w - i]
    IN  V[w]

\* memcpy of the bytes b to offset p.
Stored(t, p, b) ==
    [t EXCEPT !.data = [i \in DOMAIN t.data |->
        IF i >= p /\ i < p + Len(b) THEN b[i - p + 1] ELSE t.data[i]]]

\* The bytes b written at endp.
Appended(t, b) == [Stored(t, t.endp, b) EXCEPT !.endp = t.endp + Len(b)]

\* The unread bytes, and the first n bytes of them.
Unread(t, n) == [i \in 1 .. n |-> t.data[t.getp + i - 1]]

\* The items that do not touch the w bytes at p, or lie below the end e.
Beside(p, w) == {x \in items : x.at + x.w <= p \/ x.at >= p + w}
Below(e) == {x \in items : x.at + x.w <= e}
ByteItems(p, b) == {[at |-> p + i - 1, w |-> 1, v |-> b[i], native |-> FALSE] : i \in 1 .. Len(b)}

\* STREAM_BOUND_WARN unless ok.
Checked(ok, t, new) ==
    IF ok
    THEN s' = t /\ items' = new /\ UNCHANGED aborted
    ELSE aborted' = TRUE /\ UNCHANGED <<s, items>>

Word(p, w, v, native) == [at |-> p, w |-> w, v |-> v, native |-> native]

\* stream_putc, stream_putw, stream_putl, stream_putq.
PutWord(w, v) ==
    Checked(STREAM_WRITEABLE(s) >= w, Appended(s, ToBytes(v, w)),
            items \cup {Word(s.endp, w, v, FALSE)})

\* stream_putc_at, stream_putw_at, stream_putl_at, stream_putq_at.
PutWordAt(p, w, v) ==
    Checked(p + w <= s.endp, Stored(s, p, ToBytes(v, w)),
            Beside(p, w) \cup {Word(p, w, v, FALSE)})

\* stream_put_ipv4 and stream_put_in_addr.
stream_put_ipv4(v) ==
    Checked(STREAM_WRITEABLE(s) >= IPV4, Appended(s, NativeBytes(v, IPV4)),
            items \cup {Word(s.endp, IPV4, v, TRUE)})

\* CHECK_SIZE: the size is cut to the room that is left.
CHECK_SIZE(t, n) == IF t.endp + n > t.size THEN t.size - t.endp ELSE n

\* stream_put (zeroes without a source) and stream_write of the bytes b.
stream_put(b) ==
    LET c == SubSeq(b, 1, CHECK_SIZE(s, Len(b)))
    IN  Checked(TRUE, Appended(s, c), items \cup ByteItems(s.endp, c))

\* stream_get, stream_getc, stream_getw, stream_getl, stream_getq and
\* stream_get_ipv4 of w bytes.
stream_get(w) ==
    Checked(STREAM_READABLE(s) >= w, [s EXCEPT !.getp = @ + w], items)

\* stream_getc_from, stream_getw_from, stream_getl_from, stream_getq_from.
stream_get_from(p, w) == Checked(p + w <= s.endp, s, items)

stream_set_getp(p) == Checked(p <= s.endp, [s EXCEPT !.getp = p], items)

stream_forward_getp(n) == Checked(s.getp + n <= s.endp, [s EXCEPT !.getp = @ + n], items)

stream_forward_endp(n) == Checked(s.endp + n <= s.size, [s EXCEPT !.endp = @ + n], items)

stream_reset ==
    Checked(TRUE, [getp |-> 0, endp |-> 0, size |-> s.size, data |-> s.data], {})

\* A mutant: getp is not clamped.
stream_resize_getp(n) ==
    LET e == IF s.endp > n THEN n ELSE s.endp
    IN  Checked(TRUE,
                [getp |-> s.getp, endp |-> e, size |-> n,
                 data |-> [i \in 0 .. (n - 1) |-> IF i < s.size THEN s.data[i] ELSE Uninit]],
                Below(e))

\* stream_resize: endp and getp are clamped to the new size.
stream_resize(n) ==
    LET e == IF s.endp > n THEN n ELSE s.endp
    IN  Checked(TRUE,
                [getp |-> IF s.getp > e THEN e ELSE s.getp, endp |-> e, size |-> n,
                 data |-> [i \in 0 .. (n - 1) |-> IF i < s.size THEN s.data[i] ELSE Uninit]],
                Below(e))

\* stream_read_try, stream_recvfrom, stream_recvmsg, stream_read and
\* stream_read_unblock of at most n bytes, of which the descriptor gives b; an
\* error or an end of file gives none.
stream_read(n, b) ==
    /\ Len(b) <= n
    /\ Checked(STREAM_WRITEABLE(s) >= n, Appended(s, b), items \cup ByteItems(s.endp, b))

\* stream_copy to a new stream of size n, which takes the place of the source.
stream_copy(n) ==
    Checked(n >= s.endp,
            [getp |-> s.getp, endp |-> s.endp, size |-> n,
             data |-> [i \in 0 .. (n - 1) |-> IF i < s.endp THEN s.data[i] ELSE Uninit]],
            items)

\* stream_dup: stream_new asserts that the size is not 0.
stream_dup == IF s.endp > 0 THEN stream_copy(s.endp) ELSE Checked(FALSE, s, items)

\* A mutant: the whole stream is cloned.
stream_clone_one_all ==
    LET to == stream_new(MaxSize)
        n == CHECK_SIZE(to, s.endp)
    IN  Checked(TRUE, Appended(to, [i \in 1 .. n |-> s.data[i - 1]]),
                {[x EXCEPT !.at = @ - s.getp] :
                    x \in {y \in items : y.at >= s.getp /\ y.at - s.getp + y.w <= n}})

\* stream_clone_one: the unread bytes, moved to the start of a new stream, which
\* takes the place of the source.
stream_clone_one ==
    LET to == stream_new(MaxSize)
        n == CHECK_SIZE(to, STREAM_READABLE(s))
    IN  Checked(TRUE, Appended(to, Unread(s, n)),
                {[x EXCEPT !.at = @ - s.getp] :
                    x \in {y \in items : y.at >= s.getp /\ y.at - s.getp + y.w <= n}})

\* Arguments: positions and lengths up to one beyond the largest size.
Ints(w) == 0 .. (Base ^ w - 1)
Places == 0 .. (MaxSize + 2)
Strings == UNION {[1 .. n -> Byte] : n \in 0 .. 2}

StreamNext ==
    /\ ~aborted
    /\ \/ \E w \in Widths : \E v \in Ints(w) : PutWord(w, v)
       \/ \E p \in Places, w \in Widths : \E v \in Ints(w) : PutWordAt(p, w, v)
       \/ \E v \in Ints(IPV4) : stream_put_ipv4(v)
       \/ \E b \in Strings : stream_put(b)
       \/ \E w \in Widths : stream_get(w)
       \/ \E p \in Places, w \in Widths : stream_get_from(p, w)
       \/ \E p \in Places :
            stream_set_getp(p) \/ stream_forward_getp(p) \/ stream_forward_endp(p)
       \/ stream_reset
       \/ \E n \in Sizes : stream_resize(n) \/ stream_copy(n)
       \/ \E b \in Strings, n \in 0 .. 2 : stream_read(n, b)
       \/ stream_dup
       \/ stream_clone_one

StreamSpec == StreamInit /\ [][StreamNext]_svars

-----------------------------------------------------------------------------
(* Properties.                                                             *)

\* "getp <= endp <= size" before and after every call, and the buffer has the
\* size the stream says: no call reads or writes outside the allocation.
StreamOK ==
    /\ Sane(s)
    /\ DOMAIN s.data = 0 .. (s.size - 1)

\* An integer that was put is what every getter of its width finds at its place,
\* whatever was put beside it, until it is overwritten, cut off or reset, also
\* in a resized stream, a copy, a duplicate or a clone.
RoundTrip ==
    \A x \in items :
        /\ x.at + x.w <= s.endp
        /\ x.v = IF x.native THEN FromNative(s, x.at, x.w) ELSE FromBytes(s, x.at, x.w)
=============================================================================
