---------------------------- MODULE Link_proofs -----------------------------
(***************************************************************************)
(* Proofs about what goes through a connection: the buffers (Stream), the  *)
(* packets read from it (Framing) and the ones written to it (Sending),    *)
(* for all sizes, frames, packets and writes.                              *)
(***************************************************************************)
EXTENDS Stream, Framing, Sending, TLAPS

-----------------------------------------------------------------------------
(* The stream buffer.  StreamOK call by call; the truncation of CHECK_SIZE *)
(* and the shrinking of stream_resize are the cases with arithmetic.       *)

\* A stream that meets the invariant, with the types that makes it inductive.
Rec(g, e, n, d) == [getp |-> g, endp |-> e, size |-> n, data |-> d]
Good(t) ==
    \E g, e, n \in Nat : \E d :
        t = Rec(g, e, n, d) /\ g <= e /\ e <= n /\ DOMAIN d = 0 .. (n - 1)

\* What it says of the fields.
LEMMA GoodFields ==
    ASSUME NEW t, Good(t)
    PROVE  /\ t = Rec(t.getp, t.endp, t.size, t.data)
           /\ {t.getp, t.endp, t.size} \subseteq Nat
           /\ t.getp <= t.endp /\ t.endp <= t.size
           /\ DOMAIN t.data = 0 .. (t.size - 1)
BY DEF Good, Rec

\* And how to show it of a stream put together from fields.
LEMMA MakeGood ==
    ASSUME NEW g \in Nat, NEW e \in Nat, NEW n \in Nat, NEW d,
           g <= e, e <= n, DOMAIN d = 0 .. (n - 1)
    PROVE  Good(Rec(g, e, n, d))
BY DEF Good

\* A new stream meets it.
LEMMA NewGood == ASSUME NEW n \in Nat PROVE Good(stream_new(n))
<1> DEFINE d == [i \in 0 .. (n - 1) |-> Uninit]
<1>1. stream_new(n) = Rec(0, 0, n, d) /\ DOMAIN d = 0 .. (n - 1)
  BY DEF stream_new, Rec
<1> HIDE DEF d
<1> QED
  BY <1>1 DEF Good

\* memcpy into the buffer leaves the positions alone.
LEMMA StoredGood ==
    ASSUME NEW t, Good(t), NEW p, NEW b
    PROVE  \E d : /\ Stored(t, p, b) = Rec(t.getp, t.endp, t.size, d)
                  /\ DOMAIN d = 0 .. (t.size - 1)
<1>1. PICK g, e, n, d : t = Rec(g, e, n, d) /\ DOMAIN d = 0 .. (n - 1)
  BY DEF Good
<1> DEFINE c == [i \in DOMAIN t.data |->
                   IF i >= p /\ i < p + Len(b) THEN b[i - p + 1] ELSE t.data[i]]
<1>2. DOMAIN c = 0 .. (t.size - 1)
  BY <1>1 DEF Rec
<1>3. Stored(t, p, b) = [t EXCEPT !.data = c]
  BY DEF Stored
<1> HIDE DEF c
<1>4. [t EXCEPT !.data = c] = Rec(t.getp, t.endp, t.size, c)
  BY <1>1 DEF Rec
<1> QED
  BY <1>2, <1>3, <1>4

\* Bytes appended within the size.
LEMMA AppendedGood ==
    ASSUME NEW t, Good(t), NEW b, Len(b) \in Nat, t.endp + Len(b) <= t.size
    PROVE  Good(Appended(t, b))
<1>1. PICK d : /\ Stored(t, t.endp, b) = Rec(t.getp, t.endp, t.size, d)
               /\ DOMAIN d = 0 .. (t.size - 1)
  BY StoredGood
<1>2. Appended(t, b) = Rec(t.getp, t.endp + Len(b), t.size, d)
  BY <1>1 DEF Appended, Rec
<1>3. /\ t.getp \in Nat /\ t.endp + Len(b) \in Nat /\ t.size \in Nat
      /\ t.getp <= t.endp + Len(b)
  BY GoodFields
<1> QED
  BY <1>1, <1>2, <1>3, MakeGood

\* The assert: a call either stops the process or leaves the stream t.
LEMMA CheckedGood ==
    ASSUME Good(s), NEW ok, NEW t, NEW new, ok => Good(t), Checked(ok, t, new)
    PROVE  Good(s')
<1>1. CASE ok
  <2>1. s' = t
    BY <1>1 DEF Checked
  <2> QED
    BY <1>1, <2>1
<1>2. CASE ~ok
  <2>1. s' = s
    BY <1>2 DEF Checked
  <2> QED
    BY <2>1
<1> QED
  BY <1>1, <1>2

\* The arrays the calls copy are sequences of the length they say.
LEMMA BytesLen ==
    /\ \A v, w : w \in Nat => Len(ToBytes(v, w)) = w /\ Len(NativeBytes(v, w)) = w
    /\ \A t, n : n \in Nat => Len(Unread(t, n)) = n
    /\ \A b \in Strings : Len(b) \in Nat
<1>1. \A v, w : w \in Nat => Len(ToBytes(v, w)) = w /\ Len(NativeBytes(v, w)) = w
  BY DEF ToBytes, NativeBytes
<1>2. \A t, n : n \in Nat => Len(Unread(t, n)) = n
  BY DEF Unread
<1>3. \A b \in Strings : Len(b) \in Nat
  BY DEF Strings
<1> QED
  BY <1>1, <1>2, <1>3

\* Each function keeps the invariant.
LEMMA CallGood ==
    ASSUME Good(s), StreamNext
    PROVE  Good(s')
<1> DEFINE Fields == /\ s = Rec(s.getp, s.endp, s.size, s.data)
                     /\ {s.getp, s.endp, s.size} \subseteq Nat
                     /\ s.getp <= s.endp /\ s.endp <= s.size
                     /\ DOMAIN s.data = 0 .. (s.size - 1)
<1>0. Fields
  BY GoodFields
<1>1. ASSUME NEW w \in Widths, NEW v \in Ints(w), PutWord(w, v) PROVE Good(s')
  <2>1. w \in Nat /\ Len(ToBytes(v, w)) = w
    BY BytesLen, StreamAssumption
  <2>2. STREAM_WRITEABLE(s) >= w => Good(Appended(s, ToBytes(v, w)))
    BY <1>0, <2>1, AppendedGood DEF STREAM_WRITEABLE
  <2> QED
    BY <1>1, <2>2, CheckedGood DEF PutWord
<1>2. ASSUME NEW p \in Places, NEW w \in Widths, NEW v \in Ints(w), PutWordAt(p, w, v)
      PROVE  Good(s')
  <2>1. Good(Stored(s, p, ToBytes(v, w)))
    <3>1. PICK d : /\ Stored(s, p, ToBytes(v, w)) = Rec(s.getp, s.endp, s.size, d)
                   /\ DOMAIN d = 0 .. (s.size - 1)
      BY StoredGood
    <3> QED
      BY <1>0, <3>1 DEF Good
  <2> QED
    BY <1>2, <2>1, CheckedGood DEF PutWordAt
<1>3. ASSUME NEW v \in Ints(IPV4), stream_put_ipv4(v) PROVE Good(s')
  <2>1. IPV4 \in Nat /\ Len(NativeBytes(v, IPV4)) = IPV4
    BY BytesLen, StreamAssumption
  <2>2. STREAM_WRITEABLE(s) >= IPV4 => Good(Appended(s, NativeBytes(v, IPV4)))
    BY <1>0, <2>1, AppendedGood DEF STREAM_WRITEABLE
  <2> QED
    BY <1>3, <2>2, CheckedGood DEF stream_put_ipv4
<1>4. ASSUME NEW b \in Strings, stream_put(b) PROVE Good(s')
  <2> DEFINE k == CHECK_SIZE(s, Len(b))
             c == SubSeq(b, 1, k)
  <2>1. k \in Nat /\ k <= Len(b) /\ s.endp + k <= s.size
    BY <1>0, BytesLen DEF CHECK_SIZE
  <2>2. PICK m \in 0 .. 2 : b \in [1 .. m -> Byte]
    BY DEF Strings
  <2>3. Len(c) = k
    <3>1. \A i \in 1 .. k : b[i] \in Byte
      BY <2>1, <2>2
    <3> QED
      BY <2>1, <3>1
  <2>4. Good(Appended(s, c))
    BY <1>0, <2>1, <2>3, AppendedGood
  <2>5. Checked(TRUE, Appended(s, c), items \cup ByteItems(s.endp, c))
    BY <1>4 DEF stream_put
  <2> HIDE DEF c, k
  <2> QED
    BY <2>4, <2>5, CheckedGood
<1>5. ASSUME NEW w \in Widths, stream_get(w) PROVE Good(s')
  <2>1. [s EXCEPT !.getp = @ + w] = Rec(s.getp + w, s.endp, s.size, s.data)
    BY <1>0 DEF Rec
  <2>2. STREAM_READABLE(s) >= w => Good([s EXCEPT !.getp = @ + w])
    <3>1. STREAM_READABLE(s) >= w => s.getp + w \in Nat /\ s.getp + w <= s.endp
      BY <1>0, StreamAssumption DEF STREAM_READABLE
    <3> QED
      BY <1>0, <2>1, <3>1, MakeGood
  <2> QED
    BY <1>5, <2>2, CheckedGood DEF stream_get
<1>6. ASSUME NEW p \in Places, NEW w \in Widths, stream_get_from(p, w) PROVE Good(s')
  BY <1>6, CheckedGood DEF stream_get_from
<1>7. ASSUME NEW p \in Places,
             stream_set_getp(p) \/ stream_forward_getp(p) \/ stream_forward_endp(p)
      PROVE  Good(s')
  <2>0. p \in Nat
    BY StreamAssumption DEF Places
  <2>1. CASE stream_set_getp(p)
    <3>1. [s EXCEPT !.getp = p] = Rec(p, s.endp, s.size, s.data)
      BY <1>0 DEF Rec
    <3>2. p <= s.endp => Good([s EXCEPT !.getp = p])
      BY <1>0, <2>0, <3>1 DEF Good
    <3> QED
      BY <2>1, <3>2, CheckedGood DEF stream_set_getp
  <2>2. CASE stream_forward_getp(p)
    <3>1. [s EXCEPT !.getp = @ + p] = Rec(s.getp + p, s.endp, s.size, s.data)
      BY <1>0 DEF Rec
    <3>2. s.getp + p <= s.endp => Good([s EXCEPT !.getp = @ + p])
      <4>1. s.getp + p \in Nat
        BY <1>0, <2>0
      <4> QED
        BY <1>0, <3>1, <4>1, MakeGood
    <3> QED
      BY <2>2, <3>2, CheckedGood DEF stream_forward_getp
  <2>3. CASE stream_forward_endp(p)
    <3>1. [s EXCEPT !.endp = @ + p] = Rec(s.getp, s.endp + p, s.size, s.data)
      BY <1>0 DEF Rec
    <3>2. s.endp + p <= s.size => Good([s EXCEPT !.endp = @ + p])
      <4>1. s.endp + p \in Nat /\ s.getp <= s.endp + p
        BY <1>0, <2>0
      <4> QED
        BY <1>0, <3>1, <4>1, MakeGood
    <3> QED
      BY <2>3, <3>2, CheckedGood DEF stream_forward_endp
  <2> QED
    BY <1>7, <2>1, <2>2, <2>3
<1>8. CASE stream_reset
  <2>1. Good(Rec(0, 0, s.size, s.data))
    BY <1>0, MakeGood
  <2>2. Checked(TRUE, Rec(0, 0, s.size, s.data), {})
    BY <1>8 DEF stream_reset, Rec
  <2> QED
    BY <2>1, <2>2, CheckedGood
<1>9. ASSUME NEW n \in Sizes, stream_resize(n) PROVE Good(s')
  <2> DEFINE e == IF s.endp > n THEN n ELSE s.endp
             d == [i \in 0 .. (n - 1) |-> IF i < s.size THEN s.data[i] ELSE Uninit]
             t == Rec(IF s.getp > e THEN e ELSE s.getp, e, n, d)
  <2>1. n \in Nat /\ DOMAIN d = 0 .. (n - 1)
    BY StreamAssumption
  <2>2. Checked(TRUE, t, Below(e))
    BY <1>9 DEF stream_resize, Rec
  <2> HIDE DEF d
  <2>3. Good(t)
    <3> DEFINE g == IF s.getp > e THEN e ELSE s.getp
    <3>1. e \in Nat /\ e <= n /\ g \in Nat /\ g <= e
      BY <1>0, <2>1
    <3> HIDE DEF e, g
    <3>2. Good(Rec(g, e, n, d))
      BY <2>1, <3>1, MakeGood
    <3> QED
      BY <3>2 DEF g
  <2> HIDE DEF t, e
  <2> QED
    BY <2>2, <2>3, CheckedGood
<1>10. ASSUME NEW n \in Nat, stream_copy(n) PROVE Good(s')
  <2> DEFINE d == [i \in 0 .. (n - 1) |-> IF i < s.endp THEN s.data[i] ELSE Uninit]
             t == Rec(s.getp, s.endp, n, d)
  <2>1. DOMAIN d = 0 .. (n - 1)
    OBVIOUS
  <2>2. Checked(n >= s.endp, t, items)
    BY <1>10 DEF stream_copy, Rec
  <2> HIDE DEF d
  <2>3. n >= s.endp => Good(t)
    BY <1>0, <2>1 DEF Good
  <2> HIDE DEF t
  <2> QED
    BY <2>2, <2>3, CheckedGood
<1>11. ASSUME NEW b \in Strings, NEW n \in 0 .. 2, stream_read(n, b) PROVE Good(s')
  <2>1. Len(b) \in Nat /\ Len(b) <= n
    BY <1>11, BytesLen DEF stream_read
  <2>2. STREAM_WRITEABLE(s) >= n => Good(Appended(s, b))
    BY <1>0, <2>1, AppendedGood DEF STREAM_WRITEABLE
  <2> QED
    BY <1>11, <2>2, CheckedGood DEF stream_read
<1>12. CASE stream_dup
  <2>1. CASE s.endp > 0
    BY <1>0, <1>10, <1>12, <2>1 DEF stream_dup
  <2>2. CASE ~(s.endp > 0)
    BY <1>12, <2>2, CheckedGood DEF stream_dup
  <2> QED
    BY <2>1, <2>2
<1>13. CASE stream_clone_one
  <2> DEFINE to == stream_new(MaxSize)
             n == CHECK_SIZE(to, STREAM_READABLE(s))
             kept == {[x EXCEPT !.at = @ - s.getp] :
                        x \in {y \in items : y.at >= s.getp /\ y.at - s.getp + y.w <= n}}
  <2>1. Good(to) /\ to.endp = 0 /\ to.size = MaxSize /\ MaxSize \in Nat
    BY NewGood, StreamAssumption DEF stream_new
  <2>2. Checked(TRUE, Appended(to, Unread(s, n)), kept)
    BY <1>13 DEF stream_clone_one
  <2> HIDE DEF to, kept
  <2>3. n \in Nat /\ to.endp + n <= to.size
    BY <1>0, <2>1 DEF CHECK_SIZE, STREAM_READABLE
  <2> HIDE DEF n
  <2>4. Good(Appended(to, Unread(s, n)))
    BY <2>1, <2>3, BytesLen, AppendedGood
  <2> QED
    BY <2>2, <2>4, CheckedGood
<1>14. \A n \in Sizes : stream_resize(n) \/ stream_copy(n) => Good(s')
  BY <1>9, <1>10, StreamAssumption
<1> QED
  BY <1>1, <1>2, <1>3, <1>4, <1>5, <1>6, <1>7, <1>8, <1>11, <1>12, <1>13, <1>14 DEF StreamNext

\* "getp <= endp <= size" and the allocation hold in every state, whatever the sizes.
THEOREM StreamAlwaysOK == StreamSpec => []StreamOK
<1>1. StreamInit => Good(s)
  BY NewGood, StreamAssumption DEF StreamInit
<1>2. Good(s) /\ [StreamNext]_svars => Good(s)'
  <2> SUFFICES ASSUME Good(s), [StreamNext]_svars PROVE Good(s)'
    OBVIOUS
  <2>1. CASE StreamNext
    BY <2>1, CallGood
  <2>2. CASE UNCHANGED svars
    BY <2>2 DEF svars
  <2> QED
    BY <2>1, <2>2
<1>3. Good(s) => StreamOK
  BY GoodFields DEF StreamOK, Sane
<1> QED
  BY <1>1, <1>2, <1>3, PTL DEF StreamSpec

-----------------------------------------------------------------------------
(* Framing.  What is in ibuf and what is asked for add up to the header,   *)
(* or to header and body (FrInv); and as long as no read was interrupted   *)
(* in a body, ibuf begins where the frame after the last packet does       *)
(* (InFrame), so that what is delivered are the bodies, whole (BodyInv).   *)

\* The types AsksForTheRest needs to be inductive.
Frame == [at : Nat \ {0}, len : Nat]

FramingTypeOK ==
    /\ frames \in Seq(Frame)
    /\ {getp, endp, body_size, packet_size} \subseteq Nat

\* The inductive invariant.
FrInv == FramingTypeOK /\ AsksForTheRest

\* The bytes sent are counted.
LEMMA SentNat == FramingTypeOK => After(Len(frames)) \in Nat \ {0} /\ Sent \in Nat
<1> SUFFICES ASSUME FramingTypeOK PROVE After(Len(frames)) \in Nat \ {0}
  BY DEF Sent
<1>1. Len(frames) # 0 => frames[Len(frames)] \in Frame
  BY DEF FramingTypeOK
<1> QED
  BY <1>1, FramingAssumption DEF After, Frame

\* normal_parser_init establishes it.
LEMMA FrInit == FramingInit => FrInv
BY FramingAssumption DEF FramingInit, FrInv, FramingTypeOK, AsksForTheRest, Serving

\* IO_PARTIAL: what has arrived is no longer asked for.
LEMMA PartialInv ==
    ASSUME FrInv, NEW e \in Nat, NEW size \in Nat, e <= BUFSIZE, Serving,
           e + size = endp + packet_size, frames' = frames, Partial(e, size)
    PROVE  FrInv'
BY FramingAssumption DEF Partial, FrInv, FramingTypeOK, AsksForTheRest, Serving

\* A packet that has been handed over leaves an empty ibuf and asks for a header.
LEMMA DeliverInv ==
    ASSUME FrInv, NEW e, frames' = frames, Deliver(e)
    PROVE  FrInv'
BY FramingAssumption DEF Deliver, FrInv, FramingTypeOK, AsksForTheRest, Serving

\* A connection that is closed keeps its ibuf.
LEMMA CloseInv ==
    ASSUME FrInv, frames' = frames, Close
    PROVE  FrInv'
BY DEF Close, FrInv, FramingTypeOK, AsksForTheRest, Serving

\* normal_parser_unpack, where the bytes asked for or fewer have been added to ibuf.
LEMMA UnpackInv ==
    ASSUME FrInv, NEW e \in Nat, NEW size \in Nat, e <= BUFSIZE, Serving,
           e + size = endp + packet_size, frames' = frames,
           normal_parser_unpack(e, size)
    PROVE  FrInv'
<1>1. CASE body_size # 0
  BY <1>1, DeliverInv DEF normal_parser_unpack
<1>2. CASE body_size = 0 /\ e - getp < HEADER
  BY <1>2, PartialInv DEF normal_parser_unpack
<1>3. CASE body_size = 0 /\ ~(e - getp < HEADER)
  <2> DEFINE start == {i \in 1 .. Len(frames) : frames[i].at = taken' - e + getp + 1}
  <2>1. CASE start = {}
    <3>1. Close
      BY <1>3, <2>1 DEF normal_parser_unpack
    <3> QED
      BY <3>1, CloseInv
  <2>2. CASE start # {}
    <3>1. \E i \in start :
             /\ getp' = HEADER /\ endp' = e
             /\ body_size' = frames[i].len /\ packet_size' = frames[i].len
             /\ UNCHANGED <<packets, conn>>
      BY <1>3, <2>2 DEF normal_parser_unpack
    <3>2. PICK i \in 1 .. Len(frames) :
             /\ getp' = HEADER /\ endp' = e
             /\ body_size' = frames[i].len /\ packet_size' = frames[i].len
             /\ UNCHANGED <<packets, conn>>
      BY <3>1
    <3>3. frames[i].len \in Nat
      <4>1. frames[i] \in Frame
        BY DEF FrInv, FramingTypeOK
      <4> QED
        BY <4>1 DEF Frame
    <3>4. e = HEADER
      BY <1>3, FramingAssumption DEF FrInv, FramingTypeOK, AsksForTheRest, Serving
    <3> HIDE DEF start
    <3> QED
      BY <3>2, <3>3, <3>4, FramingAssumption DEF FrInv, FramingTypeOK, AsksForTheRest, Serving
  <2> QED
    BY <2>1, <2>2
<1> QED
  BY <1>1, <1>2, <1>3 DEF FrInv, FramingTypeOK

\* Every step keeps the invariant.
LEMMA FrStep == FrInv /\ [FramingNext]_frvars => FrInv'
<1> SUFFICES ASSUME FrInv, [FramingNext]_frvars PROVE FrInv'
  OBVIOUS
<1>1. ASSUME NEW n \in BodyLens, SendFrame(n) PROVE FrInv'
  <2>1. After(Len(frames)) \in Nat \ {0}
    BY SentNat DEF FrInv
  <2>2. frames' \in Seq(Frame)
    BY <1>1, <2>1, FramingAssumption DEF SendFrame, FrInv, FramingTypeOK, Frame
  <2> QED
    BY <1>1, <2>2 DEF SendFrame, FrInv, FramingTypeOK, AsksForTheRest, Serving
<1>2. CASE HangUp
  BY <1>2 DEF HangUp, FrInv, FramingTypeOK, AsksForTheRest, Serving
<1>3. ASSUME NEW n \in 0 .. (Sent - taken), ReadBytes(n) PROVE FrInv'
  <2>1. /\ n \in Nat /\ Serving /\ frames' = frames
        /\ n <= packet_size /\ packet_size <= BUFSIZE - endp
    BY <1>3 DEF ReadBytes
  <2>2. /\ endp + n \in Nat /\ endp + n <= BUFSIZE
        /\ packet_size - n \in Nat
        /\ (endp + n) + (packet_size - n) = endp + packet_size
    BY <2>1, FramingAssumption DEF FrInv, FramingTypeOK
  <2>3. CASE n # packet_size
    <3>1. Partial(endp + n, packet_size - n)
      BY <1>3, <2>3 DEF ReadBytes
    <3> QED
      BY <2>1, <2>2, <3>1, PartialInv
  <2>4. CASE n = packet_size
    <3>1. normal_parser_unpack(endp + n, 0)
      BY <1>3, <2>4 DEF ReadBytes
    <3>2. (endp + n) + 0 = endp + packet_size
      BY <2>2, <2>4
    <3> QED
      BY <2>1, <2>2, <3>1, <3>2, UnpackInv
  <2> QED
    BY <2>3, <2>4
<1>4. CASE ReadTooBig
  BY <1>4 DEF ReadTooBig, FrInv, FramingTypeOK, AsksForTheRest, Serving
<1>5. CASE ReadError
  BY <1>5, CloseInv DEF ReadError
<1>6. CASE ReadInterrupted
  <2>1. endp <= BUFSIZE /\ endp \in Nat /\ packet_size \in Nat
    BY DEF FrInv, FramingTypeOK, AsksForTheRest, Serving
  <2> QED
    BY <1>6, <2>1, UnpackInv DEF ReadInterrupted
<1>7. CASE UNCHANGED frvars
  BY <1>7 DEF frvars, FrInv, FramingTypeOK, AsksForTheRest, Serving
<1> QED
  BY <1>1, <1>2, <1>3, <1>4, <1>5, <1>6, <1>7 DEF FramingNext

\* misaka_read asks for the missing bytes of the header, then of the body, and for no
\* byte more, and tcp_read stays inside ibuf, whatever sizes the frames have.
THEOREM ReadsStayInFrame == FramingSpec => []AsksForTheRest
<1>1. FrInv => AsksForTheRest
  BY DEF FrInv
<1> QED
  BY <1>1, FrInit, FrStep, PTL DEF FramingSpec

\* The frames follow each other without a gap between their first bytes.
FramesInOrder ==
    \A i, j \in 1 .. Len(frames) :
        i < j => frames[i].at + HEADER + frames[i].len <= frames[j].at

\* Where ibuf starts in the stream of bytes: at the frame after the last one delivered,
\* whose header is missing or whose body is; or behind the header of an empty body,
\* where nothing is delivered ever again.
InFrame ==
    Serving /\ ~cut =>
        \/ body_size = 0 /\ getp = 0 /\ taken - endp + 1 = After(Len(packets))
        \/ /\ getp = HEADER /\ body_size # 0 /\ Len(packets) < Len(frames)
           /\ body_size = frames[Len(packets) + 1].len
           /\ taken - endp + 1 = frames[Len(packets) + 1].at
        \/ getp = HEADER /\ body_size = 0

\* The inductive invariant behind WholeBodies.
BodyInv ==
    /\ FrInv /\ FramesInOrder /\ InFrame /\ WholeBodies
    /\ taken \in Nat /\ packets \in Seq(Int \X Int) /\ cut \in BOOLEAN
\* What a frame and its neighbours say of the places of their bytes.
LEMMA FrameFacts ==
    ASSUME FrInv, NEW i \in 1 .. Len(frames)
    PROVE  /\ frames[i].at \in Nat /\ frames[i].at > 0 /\ frames[i].len \in Nat
           /\ After(i) \in Nat /\ After(i) = frames[i].at + HEADER + frames[i].len
<1>1. frames[i] \in Frame
  BY DEF FrInv, FramingTypeOK
<1> QED
  BY <1>1, FramingAssumption DEF Frame, After

\* A header that starts where the k-th frame has ended is that of the next frame.
LEMMA NextHeader ==
    ASSUME FrInv, FramesInOrder, NEW k \in 0 .. Len(frames), NEW i \in 1 .. Len(frames),
           frames[i].at = After(k)
    PROVE  i = k + 1
<1>1. /\ frames[i].at \in Nat /\ frames[i].at > 0 /\ frames[i].len \in Nat
  BY FrameFacts
<1>2. HEADER \in Nat /\ HEADER > 0
  BY FramingAssumption
<1>3. CASE k = 0
  <2>1. 1 \in 1 .. Len(frames) /\ frames[1].at \in Nat /\ frames[1].at > 0 /\ frames[1].len \in Nat
    BY FrameFacts
  <2>2. 1 < i => frames[1].at + HEADER + frames[1].len <= frames[i].at
    BY <2>1 DEF FramesInOrder
  <2>3. frames[i].at = 1
    BY <1>3 DEF After
  <2> QED
    BY <1>2, <1>3, <2>1, <2>2, <2>3
<1>4. CASE k # 0
  <2>1. /\ k \in 1 .. Len(frames) /\ frames[k].at \in Nat /\ frames[k].len \in Nat
        /\ frames[i].at = frames[k].at + HEADER + frames[k].len
    BY <1>4, FrameFacts
  <2>2. i < k => frames[i].at + HEADER + frames[i].len <= frames[k].at
    BY <2>1 DEF FramesInOrder
  <2>3. i # k /\ ~(i < k)
    <3> DEFINE a == frames[i].at
               b == frames[k].at
               m == frames[k].len
               n == frames[i].len
    <3>1. a \in Nat /\ b \in Nat /\ m \in Nat /\ n \in Nat /\ a = b + HEADER + m
      BY <2>1, FrameFacts
    <3>2. i < k => a + HEADER + n <= b
      BY <2>2
    <3>3. i = k => a = b
      OBVIOUS
    <3> HIDE DEF a, b, m, n
    <3> QED
      BY <3>1, <3>2, <3>3, FramingAssumption
  <2>4. k + 1 \in 1 .. Len(frames)
    BY <2>1, <2>3
  <2>5. frames[k + 1].at \in Nat /\ frames[k + 1].len \in Nat
    BY <2>4, FrameFacts
  <2>6. frames[k].at + HEADER + frames[k].len <= frames[k + 1].at
    BY <2>1, <2>4 DEF FramesInOrder
  <2>7. k + 1 < i => frames[k + 1].at + HEADER + frames[k + 1].len <= frames[i].at
    BY <2>4 DEF FramesInOrder
  <2> QED
    BY <1>1, <1>2, <2>1, <2>3, <2>5, <2>6, <2>7
<1> QED
  BY <1>3, <1>4

\* Nothing is delivered: the place of ibuf is the same.
LEMMA PartialBody ==
    ASSUME BodyInv, NEW e \in Nat, NEW size, frames' = frames, cut' = cut, Serving,
           NEW d \in Nat, taken' = taken + d, e = endp + d, FrInv', Partial(e, size)
    PROVE  BodyInv'
<1>1. endp \in Nat /\ taken \in Nat
  BY DEF BodyInv, FrInv, FramingTypeOK
<1>2. endp' = e /\ getp' = getp /\ body_size' = body_size /\ packets' = packets /\ conn' = conn
  BY DEF Partial
<1>3. taken' - endp' = taken - endp /\ taken' \in Nat
  BY <1>1, <1>2
<1>4. InFrame'
  BY <1>2, <1>3 DEF BodyInv, InFrame, After, Serving
<1> QED
  BY <1>2, <1>3, <1>4 DEF BodyInv, FramesInOrder, WholeBodies, BodyAt

\* The connection is closed.
LEMMA CloseBody ==
    ASSUME BodyInv, frames' = frames, cut' = cut, taken' \in Nat, FrInv', Close
    PROVE  BodyInv'
<1>1. packets' = packets /\ ~Serving'
  BY DEF Close, Serving
<1> QED
  BY <1>1 DEF BodyInv, FramesInOrder, InFrame, WholeBodies, BodyAt

\* A whole body is delivered: it is that of the next frame.
LEMMA DeliverBody ==
    ASSUME BodyInv, NEW e \in Nat, frames' = frames, cut' = cut, Serving, ~cut,
           NEW d \in Nat, taken' = taken + d, e = endp + d, FrInv',
           body_size # 0, e = HEADER + body_size, Deliver(e)
    PROVE  BodyInv'
<1>1. PICK k \in Nat : k = Len(packets)
  BY DEF BodyInv
<1>2. /\ Len(packets) <= Len(frames)
      /\ \A i \in 1 .. Len(packets) : packets[i] = <<BodyAt(i), frames[i].len>>
  BY Zenon DEF BodyInv, WholeBodies
<1>3. /\ getp = HEADER /\ Len(packets) < Len(frames)
      /\ body_size = frames[Len(packets) + 1].len
      /\ taken - endp + 1 = frames[Len(packets) + 1].at
  BY Zenon DEF BodyInv, InFrame
<1>4. k + 1 \in 1 .. Len(frames)
  <2>1. Len(frames) \in Nat
    BY DEF BodyInv, FrInv, FramingTypeOK
  <2> QED
    BY <1>1, <1>3, <2>1
<1>5. /\ frames[k + 1].at \in Nat /\ frames[k + 1].len \in Nat
      /\ After(k + 1) = frames[k + 1].at + HEADER + frames[k + 1].len
  <2>1. FrInv
    BY DEF BodyInv
  <2> QED
    BY <1>4, <2>1, FrameFacts
<1>6. HEADER \in Nat /\ endp \in Nat /\ taken \in Nat
  BY FramingAssumption DEF BodyInv, FrInv, FramingTypeOK
<1>7. taken' - e + 1 = frames[k + 1].at /\ e = HEADER + frames[k + 1].len
  BY <1>1, <1>3, <1>5, <1>6
<1>8. taken' - e + getp + 1 = BodyAt(k + 1) /\ e - getp = frames[k + 1].len
  <2>1. getp = HEADER /\ e \in Int /\ taken' \in Int
    BY <1>3
  <2>2. BodyAt(k + 1) = frames[k + 1].at + HEADER
    BY DEF BodyAt
  <2> QED
    BY <1>5, <1>6, <1>7, <2>1, <2>2
<1>9. packets' = Append(packets, <<BodyAt(k + 1), frames[k + 1].len>>)
  BY <1>8 DEF Deliver
<1>10. <<BodyAt(k + 1), frames[k + 1].len>> \in Int \X Int
  BY <1>5, <1>6 DEF BodyAt
<1>11. packets \in Seq(Int \X Int)
  BY DEF BodyInv
<1>12. packets' \in Seq(Int \X Int) /\ Len(packets') = k + 1
  BY <1>1, <1>9, <1>10, <1>11
<1>13. WholeBodies'
  <2>1. \A i \in 1 .. (k + 1) : packets'[i] = IF i = k + 1
                                  THEN <<BodyAt(k + 1), frames[k + 1].len>> ELSE packets[i]
    BY <1>1, <1>9, <1>10, <1>11
  <2>2. \A i \in 1 .. (k + 1) : packets'[i] = <<BodyAt(i), frames[i].len>>
    BY <1>1, <1>2, <2>1
  <2>3. \A i : BodyAt(i)' = BodyAt(i)
    BY DEF BodyAt
  <2>4. k + 1 <= Len(frames')
    BY <1>4
  <2> QED
    BY <1>12, <2>2, <2>3, <2>4 DEF WholeBodies
<1>14. InFrame'
  <2>1. getp' = 0 /\ endp' = 0 /\ body_size' = 0
    BY DEF Deliver
  <2>2. taken' - endp' + 1 = After(k + 1)
    BY <1>5, <1>6, <1>7, <2>1
  <2>3. After(k + 1)' = After(k + 1)
    BY DEF After
  <2>4. After(Len(packets))' = After(k + 1)
    BY <1>12, <2>3 DEF After
  <2> QED
    BY <2>1, <2>2, <2>4 DEF InFrame
<1>15. FramesInOrder'
  BY DEF BodyInv, FramesInOrder
<1> QED
  BY <1>12, <1>13, <1>14, <1>15 DEF BodyInv

\* normal_parser_unpack: a header is looked for at the start of a frame.
LEMMA UnpackBody ==
    ASSUME BodyInv, NEW e \in Nat, NEW size, frames' = frames, cut' = cut, Serving, ~cut,
           NEW d \in Nat, taken' = taken + d, e = endp + d, FrInv', e <= endp + packet_size,
           body_size # 0 => e = HEADER + body_size,
           normal_parser_unpack(e, size)
    PROVE  BodyInv'
<1>0. taken' \in Nat
  BY DEF BodyInv
<1>1. CASE body_size # 0
  BY <1>1, DeliverBody DEF normal_parser_unpack
<1>2. CASE body_size = 0 /\ e - getp < HEADER
  BY <1>2, PartialBody DEF normal_parser_unpack
<1>3. CASE body_size = 0 /\ ~(e - getp < HEADER)
  <2> DEFINE start == {i \in 1 .. Len(frames) : frames[i].at = taken' - e + getp + 1}
  <2>1. CASE start = {}
    <3>1. Close
      BY <1>3, <2>1 DEF normal_parser_unpack
    <3> QED
      BY <1>0, <3>1, CloseBody
  <2>2. CASE start # {}
    <3>1. \E i \in start :
             /\ getp' = HEADER /\ endp' = e
             /\ body_size' = frames[i].len /\ packet_size' = frames[i].len
             /\ UNCHANGED <<packets, conn>>
      BY <1>3, <2>2 DEF normal_parser_unpack
    <3>2. PICK i \in 1 .. Len(frames) :
             /\ frames[i].at = taken' - e + getp + 1
             /\ getp' = HEADER /\ endp' = e
             /\ body_size' = frames[i].len
             /\ UNCHANGED <<packets, conn>>
      BY <3>1
    <3> HIDE DEF start
    <3>3. /\ endp \in Nat /\ getp \in Nat /\ packet_size \in Nat /\ HEADER \in Nat /\ HEADER > 0
          /\ taken \in Nat
      BY FramingAssumption DEF BodyInv, FrInv, FramingTypeOK
    <3>4. getp = 0
      <4>1. \/ getp = 0
            \/ getp = HEADER /\ endp + packet_size = HEADER
        BY <1>3, FramingAssumption DEF BodyInv, FrInv, FramingTypeOK, AsksForTheRest
      <4> QED
        BY <1>3, <3>3, <4>1
    <3>5. taken - endp + 1 = After(Len(packets))
      <4>1. getp # HEADER
        BY <3>3, <3>4
      <4> QED
        BY <4>1, Zenon DEF BodyInv, InFrame
    <3>6. PICK k \in 0 .. Len(frames) : k = Len(packets)
      <4>1. Len(packets) <= Len(frames)
        BY Zenon DEF BodyInv, WholeBodies
      <4>2. Len(packets) \in Nat /\ Len(frames) \in Nat
        BY DEF BodyInv, FrInv, FramingTypeOK
      <4> QED
        BY <4>1, <4>2
    <3>7. frames[i].at = After(k)
      <4>1. taken' - e + getp + 1 = taken - endp + 1
        BY <3>3, <3>4
      <4>2. After(k) = taken - endp + 1
        BY <3>5, <3>6
      <4> QED
        BY <3>2, <4>1, <4>2
    <3>8. i = k + 1
      <4>1. FrInv /\ FramesInOrder
        BY DEF BodyInv
      <4> QED
        BY <3>7, <4>1, NextHeader
    <3>9. taken' - endp' + 1 = frames[k + 1].at
      BY <3>2, <3>3, <3>4, <3>8
    <3>10. InFrame'
      <4>1. packets' = packets /\ frames' = frames /\ Len(packets) < Len(frames)
        BY <3>2, <3>6, <3>8
      <4>2. /\ getp' = HEADER /\ Len(packets') < Len(frames')
            /\ body_size' = frames'[Len(packets') + 1].len
            /\ taken' - endp' + 1 = frames'[Len(packets') + 1].at
        BY <3>2, <3>6, <3>8, <3>9, <4>1
      <4> QED
        BY <4>2, Zenon DEF InFrame
    <3> QED
      BY <1>0, <3>2, <3>10 DEF BodyInv, FramesInOrder, WholeBodies, BodyAt
  <2> QED
    BY <2>1, <2>2
<1> QED
  BY <1>1, <1>2, <1>3

\* A read that is interrupted in the middle of a body is noted, and ends the promise.
LEMMA CutBody ==
    ASSUME BodyInv, NEW e \in Int, frames' = frames, cut' = TRUE, taken' \in Nat, FrInv',
           Deliver(e)
    PROVE  BodyInv'
<1>1. {e, getp, taken'} \subseteq Int /\ packets \in Seq(Int \X Int)
  BY DEF BodyInv, FrInv, FramingTypeOK
<1>2. <<taken' - e + getp + 1, e - getp>> \in Int \X Int
  BY <1>1
<1>3. packets' \in Seq(Int \X Int)
  BY <1>1, <1>2 DEF Deliver
<1> QED
  BY <1>3 DEF BodyInv, FramesInOrder, InFrame, WholeBodies

\* After an interrupted read of a body there is no promise left to keep.
LEMMA CutAlready ==
    ASSUME BodyInv, cut, NEW e \in Nat, NEW size \in Nat, frames' = frames, cut' = cut,
           taken' \in Nat, FrInv', Partial(e, size) \/ normal_parser_unpack(e, size)
    PROVE  BodyInv'
<1>1. packets' = packets \/ Deliver(e)
  BY DEF Partial, normal_parser_unpack, Close
<1>2. packets' \in Seq(Int \X Int)
  <2>1. {e, getp, taken'} \subseteq Int /\ packets \in Seq(Int \X Int)
    BY DEF BodyInv, FrInv, FramingTypeOK
  <2>2. <<taken' - e + getp + 1, e - getp>> \in Int \X Int
    BY <2>1
  <2>3. Deliver(e) => packets' \in Seq(Int \X Int)
    BY <2>1, <2>2 DEF Deliver
  <2> QED
    BY <1>1, <2>1, <2>3
<1>3. InFrame' /\ WholeBodies'
  BY Zenon DEF InFrame, WholeBodies
<1> QED
  BY <1>2, <1>3 DEF BodyInv, FramesInOrder

\* A frame that is sent follows the others.
LEMMA SendBody ==
    ASSUME BodyInv, NEW n \in BodyLens, SendFrame(n), FrInv'
    PROVE  BodyInv'
<1> DEFINE f == [at |-> After(Len(frames)), len |-> n]
<1>1. /\ frames \in Seq(Frame) /\ n \in Nat /\ HEADER \in Nat
      /\ f \in Frame
  BY SentNat, FramingAssumption DEF BodyInv, FrInv, FramingTypeOK, Frame
<1>2. /\ Len(frames') = Len(frames) + 1
      /\ \A i \in 1 .. Len(frames) : frames'[i] = frames[i]
      /\ frames'[Len(frames) + 1] = f
  BY <1>1 DEF SendFrame
<1>3. \A i \in 1 .. Len(frames) : frames[i].at + HEADER + frames[i].len <= After(Len(frames))
  <2> SUFFICES ASSUME NEW i \in 1 .. Len(frames)
               PROVE  frames[i].at + HEADER + frames[i].len <= After(Len(frames))
    OBVIOUS
  <2> DEFINE l == Len(frames)
  <2>1. FrInv
    BY DEF BodyInv
  <2>2. l \in 1 .. Len(frames)
    BY <1>1
  <2>3. /\ frames[i].at \in Nat /\ frames[i].len \in Nat
        /\ frames[l].at \in Nat /\ frames[l].len \in Nat
        /\ After(l) = frames[l].at + HEADER + frames[l].len
    BY <2>1, <2>2, FrameFacts
  <2>4. i < l => frames[i].at + HEADER + frames[i].len <= frames[l].at
    BY <2>2 DEF BodyInv, FramesInOrder
  <2>5. i < l \/ i = l
    BY <1>1
  <2>6. CASE i = l
    BY <1>1, <2>3, <2>6
  <2>7. CASE i < l
    <3>1. frames[i].at + HEADER + frames[i].len <= frames[l].at
      BY <2>4, <2>7
    <3> HIDE DEF l
    <3>2. HEADER \in Nat
      BY <1>1
    <3>3. PICK a \in Nat, b \in Nat, c \in Nat, d \in Nat :
              a = frames[i].at /\ b = frames[i].len /\ c = frames[l].at /\ d = frames[l].len
      BY <2>3
    <3>4. a + HEADER + b <= c
      BY <3>1, <3>3, Zenon
    <3>5. a + HEADER + b <= c + HEADER + d
      BY <3>2, <3>4
    <3> QED
      BY <2>3, <3>3, <3>5, Zenon DEF l
  <2> QED
    BY <2>5, <2>6, <2>7
<1>4. FramesInOrder'
  <2> SUFFICES ASSUME NEW i \in 1 .. (Len(frames) + 1), NEW j \in 1 .. (Len(frames) + 1), i < j
               PROVE  frames'[i].at + HEADER + frames'[i].len <= frames'[j].at
    BY <1>2 DEF FramesInOrder
  <2>1. i \in 1 .. Len(frames) /\ frames'[i] = frames[i]
    BY <1>1, <1>2
  <2>2. CASE j = Len(frames) + 1
    <3>1. frames'[j].at = After(Len(frames))
      BY <1>2, <2>2
    <3> QED
      BY <1>3, <2>1, <3>1
  <2>3. CASE j # Len(frames) + 1
    <3>1. j \in 1 .. Len(frames) /\ frames'[j] = frames[j]
      BY <1>1, <1>2, <2>3
    <3> QED
      BY <2>1, <3>1 DEF BodyInv, FramesInOrder
  <2> QED
    BY <2>2, <2>3
<1>5. /\ packets' = packets /\ taken' = taken /\ getp' = getp /\ endp' = endp /\ cut' = cut
      /\ body_size' = body_size /\ conn' = conn
  BY DEF SendFrame
<1>6. ASSUME ~cut PROVE /\ Len(packets) \in Nat /\ Len(packets) <= Len(frames)
                        /\ \A i \in 1 .. Len(packets) : packets[i] = <<BodyAt(i), frames[i].len>>
  <2>1. Len(packets) \in Nat
    BY DEF BodyInv
  <2> QED
    BY <1>6, <2>1, Zenon DEF BodyInv, WholeBodies
<1>7. WholeBodies'
  <2> SUFFICES ASSUME ~cut
               PROVE  /\ Len(packets) <= Len(frames')
                      /\ \A i \in 1 .. Len(packets) :
                            packets[i] = <<frames'[i].at + HEADER, frames'[i].len>>
    BY <1>5, Zenon DEF WholeBodies, BodyAt
  <2> QED
    BY <1>1, <1>2, <1>6 DEF BodyAt
<1>8. InFrame'
  <2> SUFFICES ASSUME Serving, ~cut PROVE InFrame'
    BY <1>5 DEF InFrame, Serving
  <2>1. Len(packets) \in 0 .. Len(frames) /\ Len(packets') = Len(packets)
    BY <1>1, <1>5, <1>6
  <2>2. Len(packets) > 0 => frames'[Len(packets)] = frames[Len(packets)]
    BY <1>1, <1>2, <2>1
  <2>3. After(Len(packets))' = After(Len(packets))
    BY <2>1, <2>2 DEF After
  <2>4. Len(packets) < Len(frames) =>
           Len(packets) < Len(frames') /\ frames'[Len(packets) + 1] = frames[Len(packets) + 1]
    BY <1>1, <1>2, <2>1
  <2> QED
    BY <1>5, <2>1, <2>3, <2>4, Zenon DEF BodyInv, InFrame
<1> QED
  BY <1>4, <1>5, <1>7, <1>8 DEF BodyInv

\* Every step keeps the invariant.
LEMMA BodyStep == BodyInv /\ [FramingNext]_frvars => BodyInv'
<1> SUFFICES ASSUME BodyInv, [FramingNext]_frvars PROVE BodyInv'
  OBVIOUS
<1>0. FrInv /\ FrInv' /\ {taken, endp, packet_size, body_size, HEADER} \subseteq Nat
  BY FrStep, FramingAssumption DEF BodyInv, FrInv, FramingTypeOK
<1>1. ASSUME NEW n \in BodyLens, SendFrame(n) PROVE BodyInv'
  BY <1>0, <1>1, SendBody
<1>2. CASE HangUp
  BY <1>0, <1>2 DEF HangUp, BodyInv, FramesInOrder, InFrame, WholeBodies, BodyAt, After, Serving
<1>3. ASSUME NEW n \in 0 .. (Sent - taken), ReadBytes(n) PROVE BodyInv'
  <2>1. /\ n \in Nat /\ Serving /\ frames' = frames /\ cut' = cut /\ taken' = taken + n
        /\ n <= packet_size
    BY <1>0, <1>3, SentNat DEF ReadBytes, FrInv
  <2>2. endp + n \in Nat /\ packet_size - n \in Nat /\ taken' \in Nat
    BY <1>0, <2>1
  <2>3. CASE n # packet_size
    <3>1. Partial(endp + n, packet_size - n)
      BY <1>3, <2>3 DEF ReadBytes
    <3> QED
      BY <1>0, <2>1, <2>2, <3>1, PartialBody
  <2>4. CASE n = packet_size
    <3>1. normal_parser_unpack(endp + n, 0)
      BY <1>3, <2>4 DEF ReadBytes
    <3>2. body_size # 0 => endp + n = HEADER + body_size
      BY <1>0, <2>1, <2>4 DEF FrInv, AsksForTheRest
    <3>3. endp + n <= endp + packet_size
      BY <1>0, <2>1
    <3>4. CASE ~cut
      BY <1>0, <2>1, <2>2, <3>1, <3>2, <3>3, <3>4, UnpackBody
    <3>5. CASE cut
      BY <1>0, <2>1, <2>2, <3>1, <3>5, CutAlready
    <3> QED
      BY <3>4, <3>5
  <2> QED
    BY <2>3, <2>4
<1>4. CASE ReadTooBig
  <2>1. packets' = packets /\ ~Serving' /\ frames' = frames /\ cut' = cut /\ taken' = taken
    BY <1>4 DEF ReadTooBig, Serving
  <2> QED
    BY <1>0, <2>1 DEF BodyInv, FramesInOrder, InFrame, WholeBodies, BodyAt
<1>5. CASE ReadError
  BY <1>0, <1>5, CloseBody DEF ReadError
<1>6. CASE ReadInterrupted
  <2>1. /\ Serving /\ frames' = frames /\ taken' = taken /\ normal_parser_unpack(endp, packet_size)
        /\ cut' = (cut \/ body_size # 0)
    BY <1>6 DEF ReadInterrupted
  <2>2. CASE body_size # 0
    <3>1. Deliver(endp)
      BY <2>1, <2>2 DEF normal_parser_unpack
    <3>2. cut' = TRUE
      BY <2>1, <2>2, Zenon
    <3>3. endp \in Int /\ taken' \in Nat /\ FrInv'
      BY <1>0, <2>1
    <3> QED
      BY <2>1, <3>1, <3>2, <3>3, CutBody
  <2>3. CASE body_size = 0 /\ ~cut
    <3>1. cut' = cut
      BY <2>1, <2>3, Zenon DEF BodyInv
    <3>2. endp <= endp + packet_size /\ taken' = taken + 0 /\ endp = endp + 0
      BY <1>0, <2>1
    <3> QED
      BY <1>0, <2>1, <2>3, <3>1, <3>2, UnpackBody
  <2>4. CASE body_size = 0 /\ cut
    <3>1. Partial(endp, packet_size) \/ normal_parser_unpack(endp, packet_size)
      BY <2>1
    <3>2. cut' = cut
      BY <2>1, <2>4, Zenon DEF BodyInv
    <3> QED
      BY <1>0, <2>1, <2>4, <3>1, <3>2, CutAlready
  <2> QED
    BY <2>2, <2>3, <2>4
<1>7. CASE UNCHANGED frvars
  BY <1>0, <1>7 DEF frvars, BodyInv, FramesInOrder, InFrame, WholeBodies, BodyAt, After, Serving
<1> QED
  BY <1>1, <1>2, <1>3, <1>4, <1>5, <1>6, <1>7 DEF FramingNext

\* The packets the tasks get are the bodies the other end sent, in order, whole and without
\* their headers, for every header and buffer size, any bodies and any pieces the bytes
\* arrive in, as long as no read is interrupted in the middle of a body.
THEOREM BodiesStayWhole == FramingSpec => []WholeBodies
<1>1. FramingInit => BodyInv
  <2> SUFFICES ASSUME FramingInit PROVE BodyInv
    OBVIOUS
  <2>1. FrInv
    BY FrInit
  <2>2. FramesInOrder /\ WholeBodies
    BY DEF FramingInit, FramesInOrder, WholeBodies
  <2>3. InFrame
    BY DEF FramingInit, InFrame, After
  <2> QED
    <3>1. taken \in Nat /\ packets \in Seq(Int \X Int)
      BY DEF FramingInit
    <3>2. cut \in BOOLEAN
      BY Zenon DEF FramingInit
    <3> QED
      BY <2>1, <2>2, <2>3, <3>1, <3>2, Zenon DEF BodyInv
<1>2. BodyInv => WholeBodies
  BY DEF BodyInv
<1> QED
  BY <1>1, <1>2, BodyStep, PTL DEF FramingSpec

-----------------------------------------------------------------------------
(* Sending.  That the pieces given to the kernel are in order rests on     *)
(* every piece being of a packet already out of obuf or of its first one.  *)

\* An entry of wire.
Piece == [packet : Nat \ {0}, bytes : Int]

\* The pieces are of packets that are out of obuf or of its first one.
PiecesUpToHead ==
    /\ medium \in {"tcp", "udp", "ludp", "sdio"}
    /\ routed \in Seq(Nat)
    /\ gone \in 0 .. Len(routed)
    /\ loop \in Int
    /\ loop >= 0 => gone < Len(routed)
    /\ wire \in Seq(Piece)
    /\ \A i \in 1 .. Len(wire) :
        /\ wire[i].packet \in 1 .. Len(routed) /\ wire[i].packet <= gone + 1
        /\ wire[i].bytes \in Int

\* The inductive invariant: WireInOrder alone would allow pieces of packets that are
\* not yet at the head of obuf, of which a later write would make a whole one.
SendInv == PiecesUpToHead /\ WireInOrder

\* Nothing is sent at first.
LEMMA SendInitInv == SendInit => SendInv
BY DEF SendInit, SendInv, PiecesUpToHead, WireInOrder, Ordered, OutWhenGone,
       RepeatsAreShort

\* Steps that leave obuf and the wire alone.
LEMMA SendStutter ==
    ASSUME SendInv, UNCHANGED <<medium, routed, gone, wire>>,
           loop' = loop \/ (loop' = 0 /\ gone < Len(routed))
    PROVE  SendInv'
<1>1. PiecesUpToHead'
  BY DEF SendInv, PiecesUpToHead
<1>2. Ordered' /\ OutWhenGone' /\ RepeatsAreShort'
  BY DEF SendInv, WireInOrder, Ordered, OutWhenGone, RepeatsAreShort, Whole
<1>3. QED
  BY <1>1, <1>2 DEF SendInv, WireInOrder

\* misaka_packet_route adds a packet of which no piece is on the wire.
LEMMA RouteInv ==
    ASSUME SendInv, NEW n \in SendLens, NEW header \in {0, PackHeader}, Route(n, header)
    PROVE  SendInv'
<1>1. CASE UNCHANGED routed
  BY <1>1, SendStutter DEF Route
<1>2. CASE routed' = Append(routed, n + header)
  <2>1. n + header \in Nat
    BY SendingAssumption
  <2>2. /\ routed' \in Seq(Nat) /\ Len(routed') = Len(routed) + 1
        /\ \A k \in 1 .. Len(routed) : routed'[k] = routed[k]
    BY <1>2, <2>1 DEF SendInv, PiecesUpToHead
  <2>3. UNCHANGED <<medium, gone, loop, wire>>
    BY DEF Route
  <2>4. PiecesUpToHead'
    BY <2>2, <2>3 DEF SendInv, PiecesUpToHead
  <2>5. \A i \in 1 .. Len(wire) : routed'[wire[i].packet] = routed[wire[i].packet]
    BY <2>2 DEF SendInv, PiecesUpToHead
  <2>6. \A i \in 1 .. Len(wire) : wire[i].packet \in 1 .. Len(routed) /\ Whole(i)' = Whole(i)
    BY <2>3, <2>5 DEF SendInv, PiecesUpToHead, Whole
  <2>7. Ordered' /\ RepeatsAreShort'
    BY <2>3, <2>6 DEF SendInv, WireInOrder, Ordered, RepeatsAreShort
  <2>8. gone \in 0 .. Len(routed) /\ Len(routed) \in Nat
    BY DEF SendInv, PiecesUpToHead
  <2>9. OutWhenGone'
    <3> SUFFICES ASSUME NEW k \in 1 .. Len(routed')
                 PROVE  k <= gone <=> \E i \in 1 .. Len(wire) :
                                        wire[i].packet = k /\ (medium = "tcp" => Whole(i)')
      BY <2>3 DEF OutWhenGone
    <3>1. k \in 1 .. Len(routed) \/ k = Len(routed) + 1
      BY <2>2, <2>8
    <3>2. CASE k \in 1 .. Len(routed)
      BY <2>6, <3>2 DEF SendInv, WireInOrder, OutWhenGone
    <3>3. CASE k = Len(routed) + 1
      <4>1. ~(k <= gone) /\ k \notin 1 .. Len(routed)
        BY <2>8, <3>3
      <4>2. QED
        BY <2>6, <4>1
    <3>4. QED
      BY <3>1, <3>2, <3>3
  <2>10. QED
    BY <2>4, <2>7, <2>9 DEF SendInv, WireInOrder
<1>3. QED
  BY <1>1, <1>2 DEF Route

\* The callback of the link is entered with a packet to send.
LEMMA WriteStartInv ==
    ASSUME SendInv, misaka_write_start
    PROVE  SendInv'
BY SendStutter DEF misaka_write_start

\* What one call of write or sendto does to the wire.
OnePiece(n) ==
    /\ Len(wire) \in Nat /\ Len(wire') = Len(wire) + 1
    /\ \A i \in 1 .. Len(wire) :
        wire'[i].packet = wire[i].packet /\ wire'[i].bytes = wire[i].bytes
    /\ wire'[Len(wire) + 1].packet = gone + 1
    /\ wire'[Len(wire) + 1].bytes = n

\* A packet is there to be sent, and its number and the bytes go to the end of wire.
LEMMA GivenPiece ==
    ASSUME SendInv, NEW n \in Int, Given(n)
    PROVE  /\ OnePiece(n) /\ wire' \in Seq(Piece)
           /\ UNCHANGED <<medium, routed>> /\ gone < Len(routed)
<1> DEFINE piece == [packet |-> gone + 1, bytes |-> n]
<1>1. piece \in Piece
  BY DEF SendInv, PiecesUpToHead, Piece
<1>2. wire' = Append(wire, piece) /\ UNCHANGED <<medium, routed>> /\ loop >= 0
  BY DEF Given
<1>3. piece.packet = gone + 1 /\ piece.bytes = n
  OBVIOUS
<1> HIDE DEF piece
<1>4. wire \in Seq(Piece) /\ gone < Len(routed)
  BY <1>2 DEF SendInv, PiecesUpToHead
<1>5. /\ wire' \in Seq(Piece) /\ Len(wire) \in Nat /\ Len(wire') = Len(wire) + 1
      /\ \A i \in 1 .. Len(wire) : wire'[i] = wire[i]
      /\ wire'[Len(wire) + 1] = piece
  BY <1>1, <1>2, <1>4
<1>6. QED
  BY <1>2, <1>3, <1>4, <1>5 DEF OnePiece

\* All pieces so far are of this packet or of earlier ones.
Bounded ==
    /\ gone \in Nat /\ Len(routed) \in Nat /\ gone <= Len(routed)
    /\ \A i \in 1 .. Len(wire) :
        /\ wire[i].packet \in Nat /\ wire[i].bytes \in Int
        /\ 1 <= wire[i].packet /\ wire[i].packet <= gone + 1
        /\ wire[i].packet <= Len(routed)

\* The part of PiecesUpToHead that says so.
LEMMA PiecesBounded == PiecesUpToHead => Bounded
BY DEF PiecesUpToHead, Bounded

\* An index of wire' is one of wire or the new one.
LEMMA LastOrBefore ==
    ASSUME NEW l \in Nat, NEW j \in 1 .. (l + 1)
    PROVE  j \in 1 .. l \/ j = l + 1
OBVIOUS

\* The new piece is of the first packet in obuf.
LEMMA PieceBounded ==
    ASSUME Bounded, NEW n \in Int, OnePiece(n), gone < Len(routed),
           gone' \in {gone, gone + 1}
    PROVE  \A i \in 1 .. Len(wire') :
              /\ wire'[i].packet \in 1 .. Len(routed) /\ wire'[i].packet <= gone' + 1
              /\ wire'[i].bytes \in Int
<1> SUFFICES ASSUME NEW i \in 1 .. Len(wire')
             PROVE  /\ wire'[i].packet \in 1 .. Len(routed) /\ wire'[i].packet <= gone' + 1
                    /\ wire'[i].bytes \in Int
  OBVIOUS
<1>1. i \in 1 .. Len(wire) \/ i = Len(wire) + 1
  BY LastOrBefore DEF OnePiece
<1>2. CASE i \in 1 .. Len(wire)
  <2>1. wire'[i].packet = wire[i].packet /\ wire'[i].bytes = wire[i].bytes
    BY <1>2 DEF OnePiece
  <2>2. /\ wire[i].packet \in Nat /\ wire[i].bytes \in Int /\ 1 <= wire[i].packet
        /\ wire[i].packet <= gone + 1 /\ wire[i].packet <= Len(routed)
    BY <1>2 DEF Bounded
  <2>3. gone \in Nat /\ Len(routed) \in Nat
    BY DEF Bounded
  <2>4. wire[i].packet \in 1 .. Len(routed) /\ wire[i].packet <= gone' + 1
    BY <2>2, <2>3
  <2> QED
    BY <2>1, <2>2, <2>4
<1>3. CASE i = Len(wire) + 1
  <2>1. wire'[i].packet = gone + 1 /\ wire'[i].bytes = n
    BY <1>3 DEF OnePiece
  <2>2. gone \in Nat /\ Len(routed) \in Nat
    BY DEF Bounded
  <2> QED
    BY <2>1, <2>2
<1>4. QED
  BY <1>1, <1>2, <1>3

\* Order is kept.
LEMMA PieceOrdered ==
    ASSUME Bounded, Ordered, NEW n \in Int, OnePiece(n)
    PROVE  Ordered'
<1> SUFFICES ASSUME NEW i \in 1 .. Len(wire'), NEW j \in 1 .. Len(wire'), i < j
             PROVE  wire'[i].packet <= wire'[j].packet
  BY DEF Ordered
<1>1. i \in 1 .. Len(wire)
  BY DEF OnePiece
<1>2. CASE j \in 1 .. Len(wire)
  BY <1>1, <1>2 DEF OnePiece, Ordered
<1>3. CASE j = Len(wire) + 1
  BY <1>1, <1>3 DEF OnePiece, Bounded
<1>4. QED
  BY <1>2, <1>3 DEF OnePiece

\* A packet leaves obuf with its only piece, on TCP with its whole one.
LEMMA PieceOut ==
    ASSUME Bounded, OutWhenGone, NEW n \in Int, OnePiece(n),
           medium' = medium, routed' = routed, gone < Len(routed),
           gone' = IF medium = "tcp" /\ n # routed[gone + 1] THEN gone ELSE gone + 1
    PROVE  OutWhenGone'
<1> DEFINE last == Len(wire) + 1
           Out(i) == medium = "tcp" => wire[i].bytes = routed[wire[i].packet]
           OutNow(i) == medium = "tcp" => wire'[i].bytes = routed[wire'[i].packet]
           WasSent(k) == \E i \in 1 .. Len(wire) : wire[i].packet = k /\ Out(i)
           IsSent(k) == \E i \in 1 .. Len(wire') : wire'[i].packet = k /\ OutNow(i)
<1>1. \A i \in 1 .. Len(wire) :
          /\ wire'[i].packet = wire[i].packet
          /\ OutNow(i) <=> Out(i)
  BY DEF OnePiece
<1>2. /\ last \in 1 .. Len(wire') /\ wire'[last].packet = gone + 1
      /\ \A i \in 1 .. Len(wire') : i \in 1 .. Len(wire) \/ i = last
      /\ \A i \in 1 .. Len(wire) : i \in 1 .. Len(wire')
  BY DEF OnePiece
<1>3. OutNow(last) <=> gone' = gone + 1
  BY DEF OnePiece, Bounded
<1>4. gone \in Nat /\ Len(routed) \in Nat /\ (gone' = gone \/ gone' = gone + 1)
  BY DEF Bounded
<1>5. \A k \in 1 .. Len(routed) : k <= gone <=> WasSent(k)
  BY DEF OutWhenGone, Whole
<1>6. ASSUME NEW k PROVE IsSent(k) <=> WasSent(k) \/ (k = gone + 1 /\ OutNow(last))
  <2> HIDE DEF Out, OutNow, last
  <2>1. ASSUME IsSent(k) PROVE WasSent(k) \/ (k = gone + 1 /\ OutNow(last))
    <3>1. PICK i \in 1 .. Len(wire') : wire'[i].packet = k /\ OutNow(i)
      BY <2>1
    <3>2. CASE i \in 1 .. Len(wire)
      <4>1. wire[i].packet = k
        BY <1>1, <3>1, <3>2
      <4>2. Out(i)
        BY <1>1, <3>1, <3>2, Zenon
      <4>3. QED
        BY <3>2, <4>1, <4>2, Zenon
    <3>3. CASE i = last
      BY <1>2, <3>1, <3>3
    <3>4. QED
      BY <1>2, <3>2, <3>3
  <2>2. ASSUME WasSent(k) PROVE IsSent(k)
    BY <1>1, <1>2, <2>2
  <2>3. ASSUME k = gone + 1, OutNow(last) PROVE IsSent(k)
    BY <1>2, <2>3
  <2>4. QED
    BY <2>1, <2>2, <2>3
<1>7. ASSUME NEW k \in 1 .. Len(routed) PROVE k <= gone' <=> IsSent(k)
  <2> HIDE DEF WasSent, IsSent, OutNow, last
  <2>1. QED
    BY <1>3, <1>4, <1>5, <1>6
<1>8. QED
  BY <1>7 DEF OutWhenGone, Whole

\* A packet is sent again on TCP only, after a short write.
LEMMA PieceRepeats ==
    ASSUME Bounded, OutWhenGone, RepeatsAreShort, NEW n \in Int, OnePiece(n),
           medium' = medium, routed' = routed, gone < Len(routed)
    PROVE  RepeatsAreShort'
<1> SUFFICES ASSUME NEW i \in 1 .. Len(wire'), NEW j \in 1 .. Len(wire'), i < j,
                    wire'[i].packet = wire'[j].packet
             PROVE  medium = "tcp" /\ ~Whole(i)'
  BY DEF RepeatsAreShort
<1>1. i \in 1 .. Len(wire) /\ wire'[i].packet = wire[i].packet /\ (Whole(i)' <=> Whole(i))
  BY DEF OnePiece, Whole
<1>2. CASE j \in 1 .. Len(wire)
  BY <1>1, <1>2 DEF OnePiece, RepeatsAreShort
<1>3. CASE j = Len(wire) + 1
  <2>1. wire[i].packet = gone + 1
    BY <1>1, <1>3 DEF OnePiece
  <2>2. gone + 1 \in 1 .. Len(routed) /\ ~(gone + 1 <= gone)
    BY DEF Bounded
  <2>3. QED
    BY <1>1, <2>1, <2>2 DEF OutWhenGone
<1>4. j \in 1 .. Len(wire) \/ j = Len(wire) + 1
  BY LastOrBefore DEF OnePiece
<1>5. QED
  BY <1>2, <1>3, <1>4

\* tcp_write deletes the packet exactly when all of it was taken.
LEMMA TcpInv ==
    ASSUME SendInv, NEW n \in Int, tcp_write(n)
    PROVE  SendInv'
<1>1. medium = "tcp" /\ Given(n)
  BY DEF tcp_write
<1>2. /\ gone' = IF n = routed[gone + 1] THEN gone + 1 ELSE gone
      /\ loop' = IF n < 0 \/ gone' = Len(routed) \/ Len(wire') >= MaxTries THEN -1 ELSE loop
  BY DEF tcp_write
<1>3. PiecesUpToHead /\ Bounded /\ Ordered /\ OutWhenGone /\ RepeatsAreShort
  BY PiecesBounded DEF SendInv, WireInOrder
<1>4. OnePiece(n) /\ wire' \in Seq(Piece)
  BY <1>1, GivenPiece
<1>5. UNCHANGED <<medium, routed>> /\ gone < Len(routed)
  BY <1>1, GivenPiece
<1>6. \A i \in 1 .. Len(wire') :
          /\ wire'[i].packet \in 1 .. Len(routed) /\ wire'[i].packet <= gone' + 1
          /\ wire'[i].bytes \in Int
  BY <1>2, <1>3, <1>4, <1>5, PieceBounded DEF Bounded
<1>7. PiecesUpToHead'
  BY <1>1, <1>2, <1>3, <1>4, <1>5, <1>6 DEF PiecesUpToHead
<1>8. Ordered'
  BY <1>3, <1>4, PieceOrdered
<1>9. OutWhenGone'
  BY <1>1, <1>2, <1>3, <1>4, <1>5, PieceOut
<1>10. RepeatsAreShort'
  BY <1>3, <1>4, <1>5, PieceRepeats
<1>11. QED
  BY <1>7, <1>8, <1>9, <1>10 DEF SendInv, WireInOrder

\* The other links delete it in any case.
LEMMA DatagramInv ==
    ASSUME SendInv, NEW n \in Int, medium # "tcp", SentOrNot(n)
    PROVE  SendInv'
<1>1. Given(n) /\ gone' = gone + 1
  BY DEF SentOrNot
<1>2. loop' = IF loop + 1 < MISAKA_WRITE_PACKET_MAX /\ gone' < Len(routed)
              THEN loop + 1 ELSE -1
  BY DEF SentOrNot
<1>3. PiecesUpToHead /\ Bounded /\ Ordered /\ OutWhenGone /\ RepeatsAreShort
  BY PiecesBounded DEF SendInv, WireInOrder
<1>4. OnePiece(n) /\ wire' \in Seq(Piece)
  BY <1>1, GivenPiece
<1>5. UNCHANGED <<medium, routed>> /\ gone < Len(routed)
  BY <1>1, GivenPiece
<1>6. \A i \in 1 .. Len(wire') :
          /\ wire'[i].packet \in 1 .. Len(routed) /\ wire'[i].packet <= gone' + 1
          /\ wire'[i].bytes \in Int
  BY <1>1, <1>3, <1>4, <1>5, PieceBounded DEF Bounded
<1>7. PiecesUpToHead'
  BY <1>1, <1>2, <1>3, <1>4, <1>5, <1>6 DEF PiecesUpToHead
<1>8. Ordered'
  BY <1>3, <1>4, PieceOrdered
<1>9. OutWhenGone'
  BY <1>1, <1>2, <1>3, <1>4, <1>5, PieceOut
<1>10. RepeatsAreShort'
  BY <1>3, <1>4, <1>5, PieceRepeats
<1>11. QED
  BY <1>7, <1>8, <1>9, <1>10 DEF SendInv, WireInOrder

\* Every step of the route functions and of the write callbacks keeps the invariant.
LEMMA SendStepInv == SendInv /\ [SendNext]_sendvars => SendInv'
<1> SUFFICES ASSUME SendInv, [SendNext]_sendvars PROVE SendInv'
  OBVIOUS
<1>1. CASE \E n \in SendLens, header \in {0, PackHeader} : Route(n, header)
  BY <1>1, RouteInv
<1>2. CASE misaka_write_start
  BY <1>2, WriteStartInv
<1>3. CASE \E n \in {-1} \cup 1 .. PackSize :
              tcp_write(n) \/ udp_write(n) \/ ludp_write(n) \/ sdio_write(n)
  <2>1. PICK n \in {-1} \cup 1 .. PackSize :
              tcp_write(n) \/ udp_write(n) \/ ludp_write(n) \/ sdio_write(n)
    BY <1>3
  <2>2. n \in Int
    BY SendingAssumption
  <2>3. CASE tcp_write(n)
    BY <2>2, <2>3, TcpInv
  <2>4. CASE udp_write(n) \/ ludp_write(n) \/ sdio_write(n)
    BY <2>2, <2>4, DatagramInv DEF udp_write, ludp_write, sdio_write
  <2>5. QED
    BY <2>1, <2>3, <2>4
<1>4. CASE UNCHANGED sendvars
  BY <1>4, SendStutter DEF sendvars
<1>5. QED
  BY <1>1, <1>2, <1>3, <1>4 DEF SendNext

\* WireInOrder for every behaviour of the write callbacks of all links: order kept, a
\* packet out of obuf was taken whole by TCP, tried once by the others.
THEOREM SentInOrder == SendSpec => []WireInOrder
<1>1. SendInv => WireInOrder
  BY DEF SendInv
<1>2. QED
  BY SendInitInv, SendStepInv, <1>1, PTL DEF SendSpec
=============================================================================
