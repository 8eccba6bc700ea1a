---------------------------- MODULE Parts_proofs ----------------------------
(***************************************************************************)
(* Proofs about parts that stand on their own: the ring of a message queue *)
(* (MqRing), the pass that feeds the timer wheel (TimerLoop) and the       *)
(* memory pool (Kmem), for all sizes and numbers of messages, timers and   *)
(* caches.                                                                 *)
(***************************************************************************)
EXTENDS MqRing, TimerLoop, Kmem, TLAPS

-----------------------------------------------------------------------------
(* The ring of a message queue.  Contents, the ring unrolled from head, is *)
(* what the abstract queue holds.                                          *)

-----------------------------------------------------------------------------
(* Arithmetic and sequences.                                               *)

\* The index arithmetic of expand_queue: one conditional subtraction.
LEMMA ModSlot ==
    ASSUME NEW a \in Nat, NEW c \in Nat \ {0}, a < 2 * c
    PROVE  a % c = IF a < c THEN a ELSE a - c
  OBVIOUS

\* A function on 1 .. n is a sequence of length n.
LEMMA FunctionSeq ==
    ASSUME NEW n \in Nat, NEW q \in [1 .. n -> Msg]
    PROVE  q \in Seq(Msg) /\ Len(q) = n
  OBVIOUS

\* r is q with m appended.
LEMMA AppendEqual ==
    ASSUME NEW n \in Nat, NEW q \in [1 .. n -> Msg], NEW m \in Msg,
           NEW r \in [1 .. (n + 1) -> Msg],
           \A i \in 1 .. n : r[i] = q[i], r[n + 1] = m
    PROVE  r = Append(q, m)
  <1>1. /\ q \in Seq(Msg) /\ Len(q) = n
        /\ r \in Seq(Msg) /\ Len(r) = n + 1
    BY FunctionSeq
  <1>2. /\ Append(q, m) \in Seq(Msg)
        /\ Len(Append(q, m)) = n + 1
        /\ \A i \in 1 .. n : Append(q, m)[i] = q[i]
        /\ Append(q, m)[n + 1] = m
    BY <1>1
  <1>3. \A i \in 1 .. (n + 1) : r[i] = Append(q, m)[i]
    BY <1>2
  <1> QED
    BY <1>1, <1>2, <1>3

\* r is q without its first element.
LEMMA TailEqual ==
    ASSUME NEW n \in Nat, NEW q \in [1 .. (n + 1) -> Msg],
           NEW r \in [1 .. n -> Msg], \A i \in 1 .. n : r[i] = q[i + 1]
    PROVE  q # <<>> /\ Head(q) = q[1] /\ r = Tail(q)
  <1>1. /\ q \in Seq(Msg) /\ Len(q) = n + 1
        /\ r \in Seq(Msg) /\ Len(r) = n
    BY FunctionSeq
  <1>2. q # <<>> /\ Head(q) = q[1]
    BY <1>1
  <1>3. /\ Tail(q) \in Seq(Msg) /\ Len(Tail(q)) = n
        /\ \A i \in 1 .. n : Tail(q)[i] = q[i + 1]
    BY <1>1, <1>2
  <1> QED
    BY <1>1, <1>2, <1>3

-----------------------------------------------------------------------------
(* What each operation does to the ring, and to its contents.              *)

\* The length is in range, and the slots in use are in the array and not the
\* one that the next push writes.
LEMMA LengthRange ==
    ASSUME RingOK
    PROVE  /\ Length \in 0 .. (cap - 1)
           /\ Length = 0 <=> head = tail
           /\ \A i \in 1 .. Length : Slot(i) \in 0 .. (cap - 1) /\ Slot(i) # tail
           /\ Slot(Length + 1) = tail
           /\ Contents \in [1 .. Length -> Msg]
  <1>1. Length \in 0 .. (cap - 1) /\ (Length = 0 <=> head = tail)
    BY DEF RingOK, Length, skynet_mq_length
  <1>2. /\ \A i \in 1 .. Length : Slot(i) \in 0 .. (cap - 1) /\ Slot(i) # tail
        /\ Slot(Length + 1) = tail
    BY DEF RingOK, Length, skynet_mq_length, Slot
  <1>3. Contents \in [1 .. Length -> Msg]
    BY DEF Contents, RingOK
  <1> QED
    BY <1>1, <1>2, <1>3

\* A push with room appends the message.
LEMMA PushRoomStep ==
    ASSUME RingOK, NEW m \in Msg, PushRoom(m)
    PROVE  RingOK' /\ Contents' = Append(Contents, m)
  <1>1. /\ queue' = [queue EXCEPT ![tail] = m]
        /\ UNCHANGED <<cap, head, message>>
        /\ tail' = IF tail + 1 >= cap THEN 0 ELSE tail + 1
        /\ head # tail'
    BY DEF PushRoom
  <1>2. tail' \in 0 .. (cap - 1) /\ Length' = Length + 1 /\ Length \in Nat
    BY <1>1 DEF RingOK, Length, skynet_mq_length
  <1>3. \A i \in Nat : Slot(i)' = Slot(i)
    BY <1>1 DEF Slot
  <1>4. /\ queue'[tail] = m
        /\ queue' \in [0 .. (cap - 1) -> Msg \cup {Garbage}]
        /\ \A i \in 1 .. Length : queue'[Slot(i)] = queue[Slot(i)]
    BY <1>1, LengthRange DEF RingOK
  <1>5. \A i \in 1 .. (Length + 1) :
            queue'[Slot(i)'] = IF i = Length + 1 THEN m ELSE queue[Slot(i)]
    BY <1>2, <1>3, <1>4, LengthRange
  <1>6. \A i \in 1 .. Length : queue[Slot(i)] \in Msg
    BY DEF RingOK
  <1>7. /\ Contents' \in [1 .. (Length + 1) -> Msg]
        /\ \A i \in 1 .. Length : Contents'[i] = Contents[i]
        /\ Contents'[Length + 1] = m
    BY <1>2, <1>5, <1>6 DEF Contents
  <1>8. RingOK'
    <2>1. \A i \in 1 .. Length' : queue'[Slot(i)'] \in Msg
      BY <1>2, <1>5, <1>6
    <2> QED
      BY <1>1, <1>2, <1>4, <2>1 DEF RingOK
  <1> QED
    BY <1>2, <1>7, <1>8, AppendEqual, LengthRange

\* A push that fills the ring appends the message, and unrolls the ring.
LEMMA PushExpandStep ==
    ASSUME RingOK, NEW m \in Msg, PushExpand(m)
    PROVE  RingOK' /\ Contents' = Append(Contents, m)
  <1> DEFINE q == [queue EXCEPT ![tail] = m]
  <1>1. /\ queue' = [i \in 0 .. (2 * cap - 1) |->
                        IF i < cap THEN q[(head + i) % cap] ELSE Garbage]
        /\ head' = 0 /\ tail' = cap /\ cap' = 2 * cap
        /\ head = IF tail + 1 >= cap THEN 0 ELSE tail + 1
        /\ UNCHANGED message
    BY DEF PushExpand, expand_queue
  <1>2. /\ cap \in Nat \ {0} /\ head \in 0 .. (cap - 1) /\ tail \in 0 .. (cap - 1)
        /\ message \in Msg \cup {Garbage}
    BY DEF RingOK
  <1>3. Length = cap - 1 /\ Length' = cap /\ Length \in Nat
    BY <1>1, <1>2 DEF Length, skynet_mq_length
  <1>4. ASSUME NEW i \in 0 .. (cap - 1) PROVE (head + i) % cap = Slot(i + 1)
    <2>1. head + i \in Nat /\ cap \in Nat \ {0} /\ head + i < 2 * cap
      BY <1>2
    <2>2. (head + i) % cap = IF head + i < cap THEN head + i ELSE (head + i) - cap
      BY <2>1, ModSlot, Zenon
    <2> QED
      BY <1>2, <2>2 DEF Slot
  <1>5. \A i \in 1 .. cap : Slot(i)' = i - 1
    BY <1>1, <1>2 DEF Slot
  <1>6. \A i \in 1 .. cap : q[Slot(i)] = IF i = cap THEN m ELSE queue[Slot(i)]
    BY <1>2, <1>3, LengthRange DEF RingOK
  <1>7. \A i \in 1 .. cap : queue'[i - 1] = q[Slot(i)]
    <2> SUFFICES ASSUME NEW i \in 1 .. cap PROVE queue'[i - 1] = q[Slot(i)]
      OBVIOUS
    <2>1. i - 1 \in 0 .. (cap - 1) /\ (i - 1) + 1 = i
      BY <1>2
    <2>2. (head + (i - 1)) % cap = Slot(i)
      BY <1>4, <2>1
    <2>3. i - 1 \in 0 .. (2 * cap - 1) /\ i - 1 < cap
      BY <1>2
    <2> HIDE DEF q
    <2> QED
      BY <1>1, <2>2, <2>3
  <1>8. \A i \in 1 .. cap :
            queue'[Slot(i)'] = IF i = cap THEN m ELSE queue[Slot(i)]
    BY <1>5, <1>6, <1>7
  <1>9. \A i \in 1 .. Length : queue[Slot(i)] \in Msg
    BY DEF RingOK
  <1>10. /\ Contents' \in [1 .. (Length + 1) -> Msg]
         /\ \A i \in 1 .. Length : Contents'[i] = Contents[i]
         /\ Contents'[Length + 1] = m
    BY <1>2, <1>3, <1>8, <1>9 DEF Contents
  <1>11. RingOK'
    <2>1. \A i \in 1 .. Length' : queue'[Slot(i)'] \in Msg
      BY <1>2, <1>3, <1>8, <1>9
    <2>2. \A i \in 1 .. cap : q[Slot(i)] \in Msg
      BY <1>2, <1>3, <1>6, <1>9
    <2>3. \A i \in 0 .. (cap - 1) : q[(head + i) % cap] \in Msg
      <3> SUFFICES ASSUME NEW i \in 0 .. (cap - 1) PROVE q[(head + i) % cap] \in Msg
        OBVIOUS
      <3>1. i + 1 \in 1 .. cap
        BY <1>2
      <3> HIDE DEF q
      <3> QED
        BY <1>4, <2>2, <3>1
    <2>4. queue' \in [0 .. (2 * cap - 1) -> Msg \cup {Garbage}]
      <3> HIDE DEF q
      <3>1. \A i \in 0 .. (2 * cap - 1) : i < cap => i \in 0 .. (cap - 1)
        BY <1>2
      <3> QED
        BY <1>1, <2>3, <3>1
    <2>5. cap' \in Nat \ {0} /\ head' \in 0 .. (cap' - 1) /\ tail' \in 0 .. (cap' - 1)
      BY <1>1, <1>2
    <2> QED
      BY <1>1, <1>2, <2>1, <2>4, <2>5 DEF RingOK
  <1> QED
    BY <1>3, <1>10, <1>11, AppendEqual, LengthRange

\* A pop returns and removes the oldest message.
LEMMA PopStep ==
    ASSUME RingOK, skynet_mq_pop
    PROVE  /\ RingOK'
           /\ Contents # <<>>
           /\ message' = Head(Contents)
           /\ Contents' = Tail(Contents)
  <1>1. /\ head # tail
        /\ message' = queue[head]
        /\ head' = IF head + 1 >= cap THEN 0 ELSE head + 1
        /\ UNCHANGED <<cap, tail, queue>>
    BY DEF skynet_mq_pop
  <1>2. /\ cap \in Nat \ {0} /\ head \in 0 .. (cap - 1) /\ tail \in 0 .. (cap - 1)
        /\ queue \in [0 .. (cap - 1) -> Msg \cup {Garbage}]
        /\ \A i \in 1 .. Length : queue[Slot(i)] \in Msg
    BY DEF RingOK
  <1>3. Length' = Length - 1 /\ Length \in Nat \ {0} /\ Length < cap
    BY <1>1, <1>2 DEF Length, skynet_mq_length
  <1>4. Slot(1) = head /\ \A i \in 1 .. (Length - 1) : Slot(i)' = Slot(i + 1)
    BY <1>1, <1>2, <1>3 DEF Slot
  <1>5. \A i \in 1 .. Length' : queue'[Slot(i)'] = queue[Slot(i + 1)]
    BY <1>1, <1>3, <1>4
  <1>6. \A i \in 1 .. Length' : queue'[Slot(i)'] \in Msg
    BY <1>2, <1>3, <1>5
  <1>7. RingOK'
    BY <1>1, <1>2, <1>3, <1>4, <1>6 DEF RingOK
  <1>8. /\ Contents' \in [1 .. (Length - 1) -> Msg]
        /\ \A i \in 1 .. (Length - 1) : Contents'[i] = Contents[i + 1]
        /\ Contents[1] = queue[head]
    BY <1>2, <1>3, <1>4, <1>5, <1>6 DEF Contents
  <1>9. Length - 1 \in Nat /\ Contents \in [1 .. ((Length - 1) + 1) -> Msg]
    BY <1>3, LengthRange
  <1> QED
    BY <1>1, <1>7, <1>8, <1>9, TailEqual

\* The other operations leave the ring alone.
LEMMA FrameStep ==
    ASSUME RingOK, UNCHANGED <<ringVars, message>>
    PROVE  RingOK' /\ Contents' = Contents
  <1>1. Length' = Length /\ \A i \in Nat : Slot(i)' = Slot(i)
    BY DEF ringVars, Length, skynet_mq_length, Slot
  <1>2. Length \in Nat
    BY LengthRange DEF RingOK
  <1> QED
    BY <1>1, <1>2 DEF RingOK, Contents, ringVars

-----------------------------------------------------------------------------
(* The theorems.                                                           *)

\* A new queue is safe and empty.
LEMMA InitRing == Init => RingOK /\ Contents = <<>>
  <1> SUFFICES ASSUME Init PROVE RingOK /\ Contents = <<>>
    OBVIOUS
  <1>1. Length = 0
    BY DEF Init, Length, skynet_mq_length
  <1>2. RingOK
    BY <1>1, RingAssumption DEF Init, RingOK
  <1>3. Contents \in [1 .. 0 -> Msg]
    BY <1>1, <1>2, LengthRange
  <1>4. Contents \in Seq(Msg) /\ Len(Contents) = 0
    BY <1>3, FunctionSeq
  <1> QED
    BY <1>2, <1>4

\* Every call keeps the ring safe and is a step of a FIFO, or none.
LEMMA RingStep ==
    ASSUME RingOK, [Next]_vars
    PROVE  RingOK' /\ [F!Next]_(F!vars)
  <1>1. ASSUME NEW m \in Msg, skynet_mq_push(m)
        PROVE  RingOK' /\ F!Push(m)
    <2>1. RingOK' /\ Contents' = Append(Contents, m)
      BY <1>1, PushRoomStep, PushExpandStep DEF skynet_mq_push
    <2>2. UNCHANGED message
      BY <1>1 DEF skynet_mq_push, PushRoom, PushExpand
    <2> QED
      BY <2>1, <2>2 DEF F!Push
  <1>2. CASE skynet_mq_pop
    BY <1>2, PopStep DEF F!Next, F!Pop
  <1>3. CASE PopEmpty \/ skynet_mq_overload \/ UNCHANGED vars
    <2>1. UNCHANGED <<ringVars, message>>
      BY <1>3 DEF PopEmpty, skynet_mq_overload, vars
    <2> QED
      BY <2>1, FrameStep DEF F!vars
  <1> QED
    BY <1>1, <1>2, <1>3 DEF Next, F!Next

\* The indices of the ring stay inside its array and no uninitialised slot is
\* in use, whatever the first capacity and however often it is expanded.
THEOREM RingCorrect == Spec => []RingOK
  BY InitRing, RingStep, PTL DEF Spec

\* The ring implements a FIFO queue.
THEOREM FifoCorrect == Spec => ImplementsFifo
  <1>1. Init => F!Init
    BY InitRing DEF F!Init
  <1>2. RingOK /\ [Next]_vars => [F!Next]_(F!vars)
    BY RingStep
  <1> QED
    BY <1>1, <1>2, RingCorrect, PTL DEF Spec, ImplementsFifo, F!Spec

-----------------------------------------------------------------------------
(* The timer pass.  FiresNear speaks of timers that fire; the invariant    *)
(* has the same bounds for those that are queued and armed.                *)

TimerTypeOK ==
    /\ sysq \in Seq(Request)
    /\ ticks \in [Request -> Nat]
    /\ gap \in 0 .. MaxGap
    /\ asked \in [Request -> Nat]
    /\ age \in [Request -> Nat]
    /\ skipped \in [Request -> Nat]
    /\ fired \in SUBSET Request

\* A request in the queue has waited since at most the pass it came after, and
\* the passes that skipped it.
QueuedBound ==
    \A r \in Among(sysq) : age[r] <= gap + MaxGap * skipped[r]

\* The wheel counts an armed request from the pass before it was armed.
ArmedBound ==
    \A r \in Request : ticks[r] > 0 =>
        /\ age[r] + ticks[r] + MaxGap >= asked[r] + gap
        /\ age[r] + ticks[r] <= asked[r] + gap + MaxGap * skipped[r]

\* The inductive invariant behind FiresNear.
TimerInv == TimerTypeOK /\ QueuedBound /\ ArmedBound /\ FiresNear

\* What is queued are requests.
LEMMA QueuedAre ==
    ASSUME TimerInv
    PROVE  Among(sysq) \subseteq Request
<1>1. sysq \in Seq(Request)
  BY DEF TimerInv, TimerTypeOK
<1> QED
  BY <1>1 DEF Among

\* What a pass leaves in the queue was in it.
LEMMA PassKeeps ==
    ASSUME NEW q \in Seq(Request), NEW n \in 0 .. Len(q)
    PROVE  /\ SubSeq(q, n + 1, Len(q)) \in Seq(Request)
           /\ Among(SubSeq(q, n + 1, Len(q))) \subseteq Among(q)
           /\ Among(SubSeq(q, 1, n)) \subseteq Among(q)
           /\ Among(q) \subseteq Request
  BY DEF Among

\* A new request is the only addition to the queue.
LEMMA AskAdds ==
    ASSUME NEW q \in Seq(Request), NEW r \in Request
    PROVE  Among(Append(q, r)) = Among(q) \cup {r}
  BY DEF Among

\* One more pass that skips a request allows for one more gap.
LEMMA OneMoreGap ==
    ASSUME NEW g \in Nat, NEW n \in Nat
    PROVE  /\ g * n \in Nat
           /\ g * (n + 0) = g * n
           /\ g * (n + 1) = g * n + g
           /\ g * (1 + n) = g + g * n
           /\ g * 0 = 0
  OBVIOUS

\* server_timer_init: nothing is queued, armed or late.
LEMMA TimerInitInv == TimerLoopInit => TimerInv
  BY TimerLoopAssumption DEF TimerLoopInit, TimerInv, TimerTypeOK, QueuedBound, ArmedBound,
     FiresNear, Zero, Among

\* A new request starts at age 0, and disturbs no other.
LEMMA AskInv ==
    ASSUME TimerInv, NEW r \in Request, NEW d \in TimerIntervals, Ask(r, d)
    PROVE  TimerInv'
  <1>1. TimerTypeOK'
    BY TimerLoopAssumption DEF Ask, TimerInv, TimerTypeOK
  <1>2. QueuedBound'
    <2> SUFFICES ASSUME NEW x \in Among(sysq)'
                 PROVE  age'[x] <= gap' + MaxGap * skipped'[x]
      BY DEF QueuedBound
    <2>1. x \in Among(sysq) \cup {r}
      BY AskAdds DEF Ask, TimerInv, TimerTypeOK, Among
    <2>2. CASE x = r
      BY <2>2, TimerLoopAssumption, OneMoreGap DEF Ask, TimerInv, TimerTypeOK
    <2>3. CASE x # r
      <3>1. x \in Among(sysq) /\ x \in Request
        BY <2>1, <2>3, QueuedAre
      <3> QED
        BY <3>1, <2>3 DEF Ask, TimerInv, TimerTypeOK, QueuedBound
    <2> QED
      BY <2>2, <2>3
  <1>3. ArmedBound'
    <2> SUFFICES ASSUME NEW x \in Request, ticks'[x] > 0
                 PROVE  /\ age'[x] + ticks'[x] + MaxGap >= asked'[x] + gap'
                        /\ age'[x] + ticks'[x] <= asked'[x] + gap' + MaxGap * skipped'[x]
      BY DEF ArmedBound
    <2>1. x # r
      BY DEF Ask, Pending
    <2> QED
      BY <2>1 DEF Ask, TimerInv, TimerTypeOK, ArmedBound
  <1>4. FiresNear'
    BY DEF Ask, FiresNear
  <1> QED
    BY <1>1, <1>2, <1>3, <1>4 DEF TimerInv

\* A centisecond ages requests and the wheel's lag alike.
LEMMA ClockTickInv ==
    ASSUME TimerInv, ClockTick
    PROVE  TimerInv'
  <1>1. TimerTypeOK'
    BY TimerLoopAssumption DEF ClockTick, TimerInv, TimerTypeOK
  <1>2. QueuedBound'
    <2> SUFFICES ASSUME NEW x \in Among(sysq)
                 PROVE  age'[x] <= gap' + MaxGap * skipped'[x]
      BY DEF QueuedBound, ClockTick, Among
    <2>1. x \in Request
      BY QueuedAre
    <2>2. MaxGap * skipped[x] \in Nat
      BY <2>1, OneMoreGap, TimerLoopAssumption DEF TimerInv, TimerTypeOK
    <2> QED
      BY <2>1, <2>2, TimerLoopAssumption DEF ClockTick, TimerInv, TimerTypeOK, QueuedBound, Pending
  <1>3. ArmedBound'
    <2> SUFFICES ASSUME NEW x \in Request, ticks[x] > 0
                 PROVE  /\ age'[x] + ticks[x] + MaxGap >= asked[x] + gap'
                        /\ age'[x] + ticks[x] <= asked[x] + gap' + MaxGap * skipped[x]
      BY DEF ArmedBound, ClockTick
    <2>1. MaxGap * skipped[x] \in Nat
      BY OneMoreGap, TimerLoopAssumption DEF TimerInv, TimerTypeOK
    <2>2. age'[x] = age[x] + 1 /\ gap' = gap + 1
      BY DEF ClockTick, Pending
    <2>3. /\ age[x] + ticks[x] + MaxGap >= asked[x] + gap
          /\ age[x] + ticks[x] <= asked[x] + gap + MaxGap * skipped[x]
      BY DEF TimerInv, ArmedBound
    <2>4. /\ age[x] \in Nat /\ ticks[x] \in Nat /\ asked[x] \in Nat
          /\ gap \in Nat /\ MaxGap \in Nat
      BY TimerLoopAssumption DEF TimerInv, TimerTypeOK
    <2> QED
      BY <2>1, <2>2, <2>3, <2>4
  <1>4. FiresNear'
    BY DEF ClockTick, FiresNear
  <1> QED
    BY <1>1, <1>2, <1>3, <1>4 DEF TimerInv

\* A pass moves the lag of the wheel into the ticks that are left.
LEMMA PassInv ==
    ASSUME TimerInv, misaka_packet_loop_timer
    PROVE  TimerInv'
  <1> DEFINE popped == Among(SubSeq(sysq, 1, Sands))
             armed == [r \in Request |-> IF r \in popped THEN asked[r] ELSE ticks[r]]
             more(r) == IF r \in Among(sysq') THEN 1 ELSE 0
  <1>1. /\ sysq' = SubSeq(sysq, Sands + 1, Len(sysq))
        /\ skipped' = [r \in Request |-> skipped[r] + more(r)]
        /\ fired' = {r \in Request : armed[r] \in 1 .. gap}
        /\ ticks' = [r \in Request |-> IF armed[r] <= gap THEN 0 ELSE armed[r] - gap]
        /\ gap' = 0 /\ asked' = asked /\ age' = age
    BY DEF misaka_packet_loop_timer, server_timer_updatetime
  <1>2. Sands \in 0 .. Len(sysq)
    BY TimerLoopAssumption DEF Sands, TimerInv, TimerTypeOK
  <1>3. /\ sysq' \in Seq(Request)
        /\ Among(sysq') \subseteq Among(sysq)
        /\ popped \subseteq Among(sysq)
        /\ Among(sysq) \subseteq Request
    BY <1>1, <1>2, PassKeeps DEF TimerInv, TimerTypeOK
  <1>4. \A r \in Request : /\ age[r] \in Nat /\ ticks[r] \in Nat /\ asked[r] \in Nat
                           /\ skipped[r] \in Nat /\ armed[r] \in Nat
                           /\ MaxGap * skipped[r] \in Nat
    BY TimerLoopAssumption, OneMoreGap DEF TimerInv, TimerTypeOK
  <1>5. gap \in Nat /\ gap <= MaxGap /\ MaxGap \in Nat
    BY TimerLoopAssumption DEF TimerInv, TimerTypeOK
  \* What holds of a request as it goes into server_timer_updatetime.
  <1>6. \A r \in Request : armed[r] > 0 =>
          /\ age[r] + armed[r] + MaxGap >= asked[r] + gap
          /\ age[r] + armed[r] <= asked[r] + gap + MaxGap * skipped[r]
    <2> SUFFICES ASSUME NEW r \in Request, armed[r] > 0
                 PROVE  /\ age[r] + armed[r] + MaxGap >= asked[r] + gap
                        /\ age[r] + armed[r] <= asked[r] + gap + MaxGap * skipped[r]
      OBVIOUS
    <2>1. CASE r \in popped
      <3>1. armed[r] = asked[r]
        BY <2>1
      <3>2. age[r] <= gap + MaxGap * skipped[r]
        BY <2>1, <1>3 DEF TimerInv, QueuedBound
      <3> HIDE DEF armed, popped
      <3> QED
        BY <3>1, <3>2, <1>4, <1>5
    <2>2. CASE r \notin popped
      <3>1. armed[r] = ticks[r]
        BY <2>2
      <3> QED
        BY <3>1 DEF TimerInv, ArmedBound
    <2> QED
      BY <2>1, <2>2
  <1>7. \A r \in Request : /\ skipped'[r] \in Nat
                           /\ MaxGap * skipped'[r] \in Nat
                           /\ MaxGap * skipped'[r] >= MaxGap * skipped[r]
                           /\ MaxGap * (1 + skipped'[r]) = MaxGap + MaxGap * skipped'[r]
    <2> SUFFICES ASSUME NEW r \in Request
                 PROVE  /\ skipped'[r] \in Nat
                        /\ MaxGap * skipped'[r] \in Nat
                        /\ MaxGap * skipped'[r] >= MaxGap * skipped[r]
                        /\ MaxGap * (1 + skipped'[r]) = MaxGap + MaxGap * skipped'[r]
      OBVIOUS
    <2>1. skipped'[r] = skipped[r] \/ skipped'[r] = skipped[r] + 1
      BY <1>1, <1>4
    <2>2. skipped'[r] \in Nat
      BY <2>1, <1>4
    <2> QED
      BY <2>1, <2>2, <1>4, <1>5, OneMoreGap
  <1> HIDE DEF armed, popped, more
  <1>8. TimerTypeOK'
    <2>1. ticks' \in [Request -> Nat]
      BY <1>1, <1>4, <1>5
    <2>2. skipped' \in [Request -> Nat]
      BY <1>1, <1>7
    <2>3. fired' \in SUBSET Request
      BY <1>1
    <2> QED
      BY <2>1, <2>2, <2>3, <1>1, <1>3, <1>5 DEF TimerTypeOK, TimerInv
  <1>9. QueuedBound'
    <2> SUFFICES ASSUME NEW r \in Among(sysq')
                 PROVE  age[r] <= 0 + MaxGap * skipped'[r]
      BY <1>1 DEF QueuedBound, Among
    <2>1. r \in Request /\ age[r] <= gap + MaxGap * skipped[r]
      BY <1>3 DEF TimerInv, QueuedBound
    <2>2. skipped'[r] = skipped[r] + 1
      BY <1>1, <2>1 DEF more
    <2>3. MaxGap * skipped'[r] = MaxGap * skipped[r] + MaxGap
      BY <2>1, <2>2, <1>4, <1>5, OneMoreGap
    <2> QED
      BY <2>1, <2>3, <1>4, <1>5
  <1>10. ArmedBound'
    <2> SUFFICES ASSUME NEW r \in Request, ticks'[r] > 0
                 PROVE  /\ age[r] + ticks'[r] + MaxGap >= asked[r] + 0
                        /\ age[r] + ticks'[r] <= asked[r] + 0 + MaxGap * skipped'[r]
      BY <1>1 DEF ArmedBound
    <2>1. armed[r] > gap /\ ticks'[r] = armed[r] - gap
      BY <1>1, <1>4, <1>5
    <2> QED
      BY <2>1, <1>4, <1>5, <1>6, <1>7
  <1>11. FiresNear'
    <2> SUFFICES ASSUME NEW r \in Request, armed[r] \in 1 .. gap
                 PROVE  /\ age[r] + MaxGap >= asked[r]
                        /\ age[r] <= asked[r] + MaxGap * (1 + skipped'[r])
      BY <1>1 DEF FiresNear
    <2> QED
      BY <1>4, <1>5, <1>6, <1>7
  <1> QED
    BY <1>8, <1>9, <1>10, <1>11 DEF TimerInv

\* FiresNear, for every interval, number of sands and length of the gaps: a timer
\* that misaka_packet_loop_timer has armed is early by at most one gap, and late
\* by at most one gap and one for each pass that left it in the queue.
THEOREM TimersFireNear == TimerLoopSpec => []FiresNear
  <1>1. TimerInv /\ [TimerLoopNext]_tvars => TimerInv'
    <2> SUFFICES ASSUME TimerInv, [TimerLoopNext]_tvars PROVE TimerInv'
      OBVIOUS
    <2>1. CASE UNCHANGED tvars
      BY <2>1 DEF tvars, TimerInv, TimerTypeOK, QueuedBound, ArmedBound, FiresNear, Among
    <2> QED
      BY <2>1, AskInv, ClockTickInv, PassInv DEF TimerLoopNext
  <1>2. TimerInv => FiresNear
    BY DEF TimerInv
  <1> QED
    BY <1>1, <1>2, TimerInitInv, PTL DEF TimerLoopSpec

-----------------------------------------------------------------------------
(* The memory pool.  The caches follow each other without overlap, and     *)
(* each keeps its accounts: an object is in the chain once or held once.   *)

\* The end of a cache: where the next one may begin.
CacheEnd(k) == k.base + set_align(CacheSize, Align) + ObjStride(k.mem_size) * k.tots

\* A cache is created with natural numbers, and a chain holds addresses.
Cache == [base : Nat, mem_size : Nat, tots : Nat, free : Nat, used : Int, free_objs : Seq(Nat)]

\* The caches follow each other, the first after the region's own header.
CachesInOrder ==
    /\ \A c \in 1 .. Len(caches) : /\ set_align(KmemSize, Align) <= caches[c].base
                                   /\ CacheEnd(caches[c]) <= used_size
    /\ \A c, d \in 1 .. Len(caches) : c < d => CacheEnd(caches[c]) <= caches[d].base

\* The inductive invariant.
KmemInv ==
    /\ used_size \in Nat /\ set_align(KmemSize, Align) <= used_size /\ used_size < Size
    /\ caches \in Seq(Cache)
    /\ held \subseteq Nat \X Nat
    /\ \A h \in held : h[1] \in 1 .. Len(caches)
    /\ CachesInOrder
    /\ ObjectOnce

\* Rounding up to a multiple of a power of two loses nothing (set_align).
LEMMA AlignUp ==
    ASSUME NEW x \in Nat
    PROVE  set_align(x, Align) \in Nat /\ set_align(x, Align) >= x
<1>1. Align \in Nat \ {0}
  BY KmemAssumption
<1>2. ASSUME NEW a \in Nat \ {0} PROVE ((x + a - 1) \div a) \in Nat
  OBVIOUS
<1>3. ASSUME NEW a \in Nat \ {0} PROVE ((x + a - 1) \div a) * a >= x
  OBVIOUS
<1>4. ASSUME NEW q \in Nat, NEW a \in Nat PROVE q * a \in Nat
  OBVIOUS
<1>5. QED
  BY <1>1, <1>2, <1>3, <1>4 DEF set_align

\* An object of mem_size bytes lies within its stride (kmem_cache_create's real_size).
LEMMA StrideHolds ==
    ASSUME NEW m \in Nat
    PROVE  ObjLen(m) \in Nat \ {0} /\ ObjStride(m) \in Nat /\ ObjLen(m) <= ObjStride(m)
<1>1. ObjLen(m) \in Nat \ {0}
  BY KmemAssumption DEF ObjLen, OFS
<1>2. QED
  BY <1>1, AlignUp DEF ObjStride

\* Multiples of a stride are a stride apart.
LEMMA Multiples ==
    ASSUME NEW i \in Nat, NEW j \in Nat, NEW n \in Nat
    PROVE  /\ i * n \in Nat
           /\ i < j => i * n + n <= j * n
OBVIOUS

\* Where the objects of a cache lie: after its header, before its end, and each a
\* stride after the one before it (init_kmem_cache).
LEMMA ObjectPlace ==
    ASSUME NEW k \in Cache, NEW i \in 1 .. k.tots
    PROVE  LET o == ObjAt(k.base, k.mem_size, i)
           IN  /\ o \in Nat
               /\ k.base + CacheSize <= o
               /\ o + ObjLen(k.mem_size) <= CacheEnd(k)
               /\ \A j \in 1 .. k.tots : i < j =>
                    o + ObjLen(k.mem_size) <= ObjAt(k.base, k.mem_size, j)
<1> DEFINE n == ObjStride(k.mem_size)
           hd == set_align(CacheSize, Align)
           len == ObjLen(k.mem_size)
<1>1. k.base \in Nat /\ k.mem_size \in Nat /\ k.tots \in Nat
  BY DEF Cache
<1>2. n \in Nat /\ len \in Nat /\ len <= n
  BY <1>1, StrideHolds
<1>3. hd \in Nat /\ hd >= CacheSize /\ CacheSize \in Nat
  BY AlignUp, KmemAssumption
<1>5. ASSUME NEW j \in 1 .. k.tots
      PROVE  ObjAt(k.base, k.mem_size, j) = k.base + hd + (j - 1) * n
  BY DEF ObjAt
<1>6. CacheEnd(k) = k.base + hd + n * k.tots
  BY DEF CacheEnd
<1>7. n * k.tots = k.tots * n
  <2> HIDE DEF n
  <2> QED BY <1>1, <1>2
<1>8. i - 1 \in Nat /\ i - 1 < k.tots
  BY <1>1
<1>9. (i - 1) * n \in Nat /\ (i - 1) * n + n <= k.tots * n
  BY <1>1, <1>2, <1>8, Multiples
<1>10. ASSUME NEW j \in 1 .. k.tots, i < j
       PROVE  (j - 1) * n \in Nat /\ (i - 1) * n + n <= (j - 1) * n
  <2>1. j - 1 \in Nat /\ i - 1 < j - 1
    BY <1>1, <1>8, <1>10
  <2>2. QED
    BY <1>2, <1>8, <2>1, Multiples
<1>11. k.tots * n \in Nat
  BY <1>1, <1>2, Multiples
<1> DEFINE o == ObjAt(k.base, k.mem_size, i)
<1>12. o = k.base + hd + (i - 1) * n
  BY <1>5
<1>13. o \in Nat /\ k.base + CacheSize <= o
  <2> HIDE DEF o, n, hd
  <2> QED BY <1>1, <1>3, <1>9, <1>12
<1>14. o + len <= CacheEnd(k)
  <2> HIDE DEF o, n, hd, len
  <2> QED BY <1>1, <1>2, <1>3, <1>6, <1>7, <1>9, <1>11, <1>12
<1>15. ASSUME NEW j \in 1 .. k.tots, i < j
       PROVE  o + len <= ObjAt(k.base, k.mem_size, j)
  <2>1. ObjAt(k.base, k.mem_size, j) = k.base + hd + (j - 1) * n
    BY <1>5
  <2>2. (j - 1) * n \in Nat /\ (i - 1) * n + n <= (j - 1) * n
    BY <1>10, <1>15
  <2> HIDE DEF o, n, hd, len
  <2> QED BY <1>1, <1>2, <1>3, <1>9, <1>12, <2>1, <2>2
<1>16. QED
  BY <1>13, <1>14, <1>15

\* The end of a cache is a number.
LEMMA EndIsInt ==
    ASSUME NEW k \in Cache
    PROVE  CacheEnd(k) \in Int
<1> DEFINE n == ObjStride(k.mem_size)
           t == k.tots
           b == k.base + set_align(CacheSize, Align)
<1>1. k.base \in Nat /\ k.mem_size \in Nat /\ k.tots \in Nat
  BY DEF Cache
<1>2. n \in Int /\ t \in Int /\ b \in Int
  BY <1>1, AlignUp, StrideHolds, KmemAssumption
<1>3. CacheEnd(k) = b + n * t
  BY DEF CacheEnd
<1> HIDE DEF n, t, b
<1>4. QED
  BY <1>2, <1>3

\* What ends before a border lies before what begins behind it.
LEMMA Between ==
    ASSUME NEW a \in Nat, NEW n \in Nat, NEW e \in Int, NEW b \in Nat, NEW c \in Nat,
           a + n <= e, e <= b, b <= c
    PROVE  a + n <= c
OBVIOUS

\* A piece that ends before another begins shares no byte with it.
LEMMA BytesApart ==
    ASSUME NEW a \in Nat, NEW n \in Nat, NEW b \in Nat, NEW m \in Nat, a + n <= b
    PROVE  Bytes(a, n) \cap Bytes(b, m) = {} /\ Bytes(b, m) \cap Bytes(a, n) = {}
BY DEF Bytes

\* The extent of a piece of cache c: from its base on, before its end.
LEMMA PieceExtent ==
    ASSUME KmemInv, NEW c \in 1 .. Len(caches), NEW p,
           \/ p = <<caches[c].base, CacheSize>>
           \/ \E i \in 1 .. caches[c].tots :
                p = <<ObjAt(caches[c].base, caches[c].mem_size, i),
                      ObjLen(caches[c].mem_size)>>
    PROVE  /\ p[1] \in Nat /\ p[2] \in Nat
           /\ caches[c].base <= p[1]
           /\ p[1] + p[2] <= CacheEnd(caches[c])
<1> DEFINE k == caches[c]
<1>1. k \in Cache
  BY DEF KmemInv
<1>2. CacheSize \in Nat /\ ObjSize \in Nat /\ k.base \in Nat /\ k.mem_size \in Nat /\ k.tots \in Nat
  BY <1>1, KmemAssumption DEF Cache
<1>3. CASE p = <<k.base, CacheSize>>
  <2>1. set_align(CacheSize, Align) \in Nat /\ set_align(CacheSize, Align) >= CacheSize
    BY <1>2, AlignUp
  <2>2. ObjStride(k.mem_size) \in Nat
    BY <1>2, StrideHolds
  <2>3. k.tots * ObjStride(k.mem_size) \in Nat
    BY <1>2, <2>2, Multiples
  <2>4. ObjStride(k.mem_size) * k.tots = k.tots * ObjStride(k.mem_size)
    <3> DEFINE n == ObjStride(k.mem_size)
               t == k.tots
    <3>1. n \in Nat /\ t \in Nat
      BY <1>2, <2>2
    <3> HIDE DEF n, t
    <3>2. n * t = t * n
      BY <3>1
    <3> QED BY <3>2 DEF n, t
  <2>5. CacheEnd(k) = k.base + set_align(CacheSize, Align) + ObjStride(k.mem_size) * k.tots
    BY DEF CacheEnd
  <2>6. QED
    BY <1>2, <1>3, <2>1, <2>3, <2>4, <2>5
<1>4. CASE \E i \in 1 .. k.tots : p = <<ObjAt(k.base, k.mem_size, i), ObjLen(k.mem_size)>>
  <2>1. PICK i \in 1 .. k.tots : p = <<ObjAt(k.base, k.mem_size, i), ObjLen(k.mem_size)>>
    BY <1>4
  <2> DEFINE o == ObjAt(k.base, k.mem_size, i)
  <2>2. o \in Nat /\ k.base + CacheSize <= o /\ o + ObjLen(k.mem_size) <= CacheEnd(k)
    BY <1>1, ObjectPlace
  <2>3. p[1] = o /\ p[2] = ObjLen(k.mem_size)
    BY <2>1
  <2> DEFINE len == ObjLen(k.mem_size)
             b == k.base
             e == CacheEnd(k)
  <2>4. len \in Nat /\ b \in Nat
    BY <1>2, StrideHolds
  <2>5. o \in Nat /\ b + CacheSize <= o /\ o + len <= e
    BY <2>2
  <2> HIDE DEF o, len, b, e
  <2>6. b <= o
    BY <1>2, <2>4, <2>5
  <2>7. QED
    BY <2>3, <2>4, <2>5, <2>6 DEF len, b, e
<1>5. QED
  BY <1>3, <1>4

\* Two pieces of one cache are the same or apart.
LEMMA PiecesOfCache ==
    ASSUME KmemInv, NEW c \in 1 .. Len(caches),
           NEW p \in {<<caches[c].base, CacheSize>>} \cup Cells(caches[c]),
           NEW q \in {<<caches[c].base, CacheSize>>} \cup Cells(caches[c]), p # q
    PROVE  p[1] + p[2] <= q[1] \/ q[1] + q[2] <= p[1]
<1> DEFINE k == caches[c]
           o(i) == ObjAt(k.base, k.mem_size, i)
           len == ObjLen(k.mem_size)
<1>1. k \in Cache
  BY DEF KmemInv
<1>2. CacheSize \in Nat /\ ObjSize \in Nat /\ k.base \in Nat /\ k.mem_size \in Nat /\ k.tots \in Nat
  BY <1>1, KmemAssumption DEF Cache
<1>3. ASSUME NEW i \in 1 .. k.tots
      PROVE  /\ o(i) \in Nat /\ k.base + CacheSize <= o(i)
             /\ \A j \in 1 .. k.tots : i < j => o(i) + len <= o(j)
  BY <1>1, ObjectPlace
<1>4. ASSUME NEW r \in {<<k.base, CacheSize>>} \cup Cells(k)
      PROVE  r = <<k.base, CacheSize>> \/ \E i \in 1 .. k.tots : r = <<o(i), len>>
  BY DEF Cells, Objects
<1> HIDE DEF o, len
<1>5. CASE p = <<k.base, CacheSize>> /\ \E i \in 1 .. k.tots : q = <<o(i), len>>
  BY <1>3, <1>5
<1>6. CASE q = <<k.base, CacheSize>> /\ \E i \in 1 .. k.tots : p = <<o(i), len>>
  BY <1>3, <1>6
<1>7. CASE (\E i \in 1 .. k.tots : p = <<o(i), len>>) /\ (\E i \in 1 .. k.tots : q = <<o(i), len>>)
  <2>1. PICK i \in 1 .. k.tots : p = <<o(i), len>>
    BY <1>7
  <2>2. PICK j \in 1 .. k.tots : q = <<o(j), len>>
    BY <1>7
  <2>3. i # j
    BY <2>1, <2>2
  <2>4. i < j \/ j < i
    BY <1>2, <2>3
  <2>5. o(i) + len <= o(j) \/ o(j) + len <= o(i)
    BY <1>3, <2>4
  <2>6. QED
    BY <2>1, <2>2, <2>5
<1>8. QED
  BY <1>4, <1>5, <1>6, <1>7

\* The layout the invariant describes has no overlap and stays in the region.
LEMMA LayoutOK ==
    ASSUME KmemInv
    PROVE  NoOverlap
<1> DEFINE OfCache(c) == {<<caches[c].base, CacheSize>>} \cup Cells(caches[c])
<1>0. KmemSize \in Nat /\ Size \in Nat /\ used_size \in Nat /\ used_size < Size
  BY KmemAssumption DEF KmemInv
<1>1. KmemSize <= set_align(KmemSize, Align) /\ set_align(KmemSize, Align) \in Nat
  BY AlignUp, KmemAssumption
<1>2. ASSUME NEW p \in Pieces
      PROVE  p = <<0, KmemSize>> \/ \E c \in 1 .. Len(caches) : p \in OfCache(c)
  BY DEF Pieces, Headers
<1>3. ASSUME NEW c \in 1 .. Len(caches), NEW p \in OfCache(c)
      PROVE  /\ p[1] \in Nat /\ p[2] \in Nat
             /\ caches[c].base <= p[1] /\ p[1] + p[2] <= CacheEnd(caches[c])
  <2>1. \/ p = <<caches[c].base, CacheSize>>
        \/ \E i \in 1 .. caches[c].tots : p = <<ObjAt(caches[c].base, caches[c].mem_size, i),
                                                ObjLen(caches[c].mem_size)>>
    BY DEF Cells, Objects
  <2>2. QED
    BY <2>1, PieceExtent
<1>4. ASSUME NEW c \in 1 .. Len(caches)
      PROVE  /\ caches[c].base \in Nat /\ CacheEnd(caches[c]) \in Int
             /\ set_align(KmemSize, Align) <= caches[c].base
             /\ CacheEnd(caches[c]) <= used_size
  <2>1. caches[c] \in Cache
    BY DEF KmemInv
  <2>2. caches[c].base \in Nat
    BY <2>1 DEF Cache
  <2>4. CacheEnd(caches[c]) \in Int
    BY <2>1, EndIsInt
  <2>5. QED
    BY <2>2, <2>4 DEF KmemInv, CachesInOrder
<1> HIDE DEF OfCache
<1>5. ASSUME NEW p \in Pieces
      PROVE  p[1] \in Nat /\ p[2] \in Nat /\ p[1] + p[2] <= Size
  <2>1. CASE p = <<0, KmemSize>>
    BY <1>0, <1>1, <2>1 DEF KmemInv
  <2>2. CASE \E c \in 1 .. Len(caches) : p \in OfCache(c)
    BY <1>0, <1>3, <1>4, <2>2
  <2>3. QED
    BY <1>2, <2>1, <2>2
<1>6. ASSUME NEW p \in Pieces PROVE Bytes(p[1], p[2]) \subseteq Bytes(0, Size)
  BY <1>0, <1>5 DEF Bytes
<1>7. ASSUME NEW p \in Pieces, NEW q \in Pieces, p # q
      PROVE  p[1] + p[2] <= q[1] \/ q[1] + q[2] <= p[1]
  <2>1. CASE p = <<0, KmemSize>> /\ \E c \in 1 .. Len(caches) : q \in OfCache(c)
    <3>1. PICK c \in 1 .. Len(caches) : q \in OfCache(c)
      BY <2>1
    <3>2. p[1] + p[2] = KmemSize
      BY <1>0, <2>1
    <3>3. KmemSize <= caches[c].base /\ caches[c].base \in Nat
      BY <1>0, <1>1, <1>4
    <3>4. q[1] \in Nat /\ caches[c].base <= q[1]
      BY <1>3, <3>1
    <3>5. QED
      BY <1>0, <3>2, <3>3, <3>4
  <2>2. CASE q = <<0, KmemSize>> /\ \E c \in 1 .. Len(caches) : p \in OfCache(c)
    <3>1. PICK c \in 1 .. Len(caches) : p \in OfCache(c)
      BY <2>2
    <3>2. q[1] + q[2] = KmemSize
      BY <1>0, <2>2
    <3>3. KmemSize <= caches[c].base /\ caches[c].base \in Nat
      BY <1>0, <1>1, <1>4
    <3>4. p[1] \in Nat /\ caches[c].base <= p[1]
      BY <1>3, <3>1
    <3>5. QED
      BY <1>0, <3>2, <3>3, <3>4
  <2>3. CASE (\E c \in 1 .. Len(caches) : p \in OfCache(c)) /\ (\E c \in 1 .. Len(caches) : q \in OfCache(c))
    <3>1. PICK c \in 1 .. Len(caches) : p \in OfCache(c)
      BY <2>3
    <3>2. PICK d \in 1 .. Len(caches) : q \in OfCache(d)
      BY <2>3
    <3>3. CASE c = d
      BY <1>7, <3>1, <3>2, <3>3, PiecesOfCache DEF OfCache
    <3>4. CASE c < d
      <4>1. CacheEnd(caches[c]) <= caches[d].base
        BY <3>4 DEF KmemInv, CachesInOrder
      <4>2. CacheEnd(caches[c]) \in Int /\ caches[d].base \in Nat
        BY <1>4
      <4>3. p[1] \in Nat /\ p[2] \in Nat /\ p[1] + p[2] <= CacheEnd(caches[c])
        BY <1>3, <3>1, <3>2
      <4>4. q[1] \in Nat /\ caches[d].base <= q[1]
        BY <1>3, <3>1, <3>2
      <4>5. p[1] + p[2] <= q[1]
        BY <4>1, <4>2, <4>3, <4>4, Between
      <4>6. QED
        BY <4>5
    <3>5. CASE d < c
      <4>1. CacheEnd(caches[d]) <= caches[c].base
        BY <3>5 DEF KmemInv, CachesInOrder
      <4>2. CacheEnd(caches[d]) \in Int /\ caches[c].base \in Nat
        BY <1>4
      <4>3. q[1] \in Nat /\ q[2] \in Nat /\ q[1] + q[2] <= CacheEnd(caches[d])
        BY <1>3, <3>1, <3>2
      <4>4. p[1] \in Nat /\ caches[c].base <= p[1]
        BY <1>3, <3>1, <3>2
      <4>5. q[1] + q[2] <= p[1]
        BY <4>1, <4>2, <4>3, <4>4, Between
      <4>6. QED
        BY <4>5
    <3>6. QED
      BY <3>3, <3>4, <3>5
  <2>4. QED
    BY <1>2, <1>7, <2>1, <2>2, <2>3
<1>8. ASSUME NEW p \in Pieces, NEW q \in Pieces, p # q
      PROVE  Bytes(p[1], p[2]) \cap Bytes(q[1], q[2]) = {}
  BY <1>5, <1>7, <1>8, BytesApart
<1>9. ASSUME NEW h \in held PROVE \E o \in Objects(caches[h[1]]) : h[2] = BufOf(o)
  <2>1. h[1] \in 1 .. Len(caches) /\ h[2] \in Nat
    BY DEF KmemInv
  <2>2. h[2] - ObjSize - OFS \in HeldOf(h[1])
    BY DEF HeldOf
  <2>3. h[2] - ObjSize - OFS \in Objects(caches[h[1]])
    BY <2>1, <2>2 DEF KmemInv, ObjectOnce
  <2>4. h[2] = BufOf(h[2] - ObjSize - OFS)
    BY <2>1, KmemAssumption DEF BufOf, OFS
  <2>5. QED
    BY <2>3, <2>4
<1>10. QED
  BY <1>6, <1>8, <1>9 DEF NoOverlap

\* What ObjectOnce says of one cache, with the objects held of it.
Accounts(k, out) ==
    /\ Len(k.free_objs) = k.free
    /\ k.used = k.tots - k.free
    /\ \A i, j \in 1 .. k.free : k.free_objs[i] = k.free_objs[j] => i = j
    /\ Chained(k) \cap out = {}
    /\ Chained(k) \cup out = Objects(k)

\* ObjectOnce, cache by cache.
LEMMA OnceByCache ==
    ObjectOnce <=> \A c \in 1 .. Len(caches) : Accounts(caches[c], HeldOf(c))
BY DEF ObjectOnce, Accounts

\* At first there is no cache, and the region's header fits (init_kmem).
LEMMA KmemStarts ==
    ASSUME KmemInit
    PROVE  KmemInv
<1>1. set_align(KmemSize, Align) \in Nat
  BY AlignUp, KmemAssumption
<1>2. QED
  BY <1>1, KmemAssumption DEF KmemInit, KmemInv, CachesInOrder, ObjectOnce

\* The chain of a new cache holds each of its objects once (init_kmem_cache).
LEMMA NewChain ==
    ASSUME NEW b \in Nat, NEW m \in Nat, NEW t \in Nat
    PROVE  /\ init_kmem_cache(b, m, t) \in Cache
           /\ Accounts(init_kmem_cache(b, m, t), {})
<1> DEFINE k == init_kmem_cache(b, m, t)
           w == [base |-> b, mem_size |-> m, tots |-> t, free |-> t, used |-> 0, free_objs |-> <<>>]
           o(i) == ObjAt(b, m, i)
<1>1. /\ k.base = b /\ k.mem_size = m /\ k.tots = t /\ k.free = t /\ k.used = 0
      /\ k.free_objs = [i \in 1 .. t |-> o(t + 1 - i)]
  BY DEF init_kmem_cache
<1>2. w \in Cache /\ w.base = b /\ w.mem_size = m /\ w.tots = t
  BY DEF Cache
<1>3. ASSUME NEW i \in 1 .. t
      PROVE  o(i) \in Nat
  BY <1>2, ObjectPlace
<1>4. ASSUME NEW i \in 1 .. t, NEW j \in 1 .. t, i < j
      PROVE  o(i) # o(j)
  <2>1. o(i) + ObjLen(m) <= o(j)
    BY <1>2, <1>4, ObjectPlace
  <2>2. o(i) \in Nat /\ o(j) \in Nat /\ ObjLen(m) \in Nat \ {0}
    BY <1>3, StrideHolds
  <2> HIDE DEF o
  <2>3. QED
    BY <2>1, <2>2
<1> HIDE DEF o
<1>5. \A i \in 1 .. t : t + 1 - i \in 1 .. t /\ t + 1 - (t + 1 - i) = i
  OBVIOUS
<1>6. k.free_objs \in Seq(Nat) /\ Len(k.free_objs) = t
  <2>1. [i \in 1 .. t |-> o(t + 1 - i)] \in [1 .. t -> Nat]
    BY <1>3, <1>5
  <2>2. ASSUME NEW g \in [1 .. t -> Nat] PROVE g \in Seq(Nat) /\ Len(g) = t
    OBVIOUS
  <2>3. QED
    BY <1>1, <2>1, <2>2
<1>7. k \in Cache
  <2>1. k = [base |-> b, mem_size |-> m, tots |-> t, free |-> t, used |-> 0, free_objs |-> k.free_objs]
    BY DEF init_kmem_cache
  <2> HIDE DEF k
  <2>2. QED
    BY <1>6, <2>1 DEF Cache
<1>8. \A i, j \in 1 .. t : k.free_objs[i] = k.free_objs[j] => i = j
  <2>1. SUFFICES ASSUME NEW i \in 1 .. t, NEW j \in 1 .. t, i # j
                 PROVE  k.free_objs[i] # k.free_objs[j]
    OBVIOUS
  <2>2. k.free_objs[i] = o(t + 1 - i) /\ k.free_objs[j] = o(t + 1 - j)
    BY <1>1
  <2>3. t + 1 - i < t + 1 - j \/ t + 1 - j < t + 1 - i
    BY <2>1
  <2>4. QED
    BY <1>4, <1>5, <2>2, <2>3
<1>9. Chained(k) = Objects(k)
  <2>1. Chained(k) = {o(t + 1 - i) : i \in 1 .. t}
    BY <1>1, <1>6 DEF Chained
  <2>2. Objects(k) = {o(i) : i \in 1 .. t}
    BY <1>1 DEF Objects, o
  <2>3. ASSUME NEW i \in 1 .. t PROVE o(i) \in {o(t + 1 - j) : j \in 1 .. t}
    <3>1. t + 1 - i \in 1 .. t /\ t + 1 - (t + 1 - i) = i
      BY <1>5
    <3>2. o(i) = o(t + 1 - (t + 1 - i))
      BY <3>1
    <3>3. QED
      BY <3>1, <3>2
  <2>4. QED
    BY <1>5, <2>1, <2>2, <2>3
<1>10. k.used = k.tots - k.free
  BY <1>1
<1>11. QED
  BY <1>1, <1>6, <1>7, <1>8, <1>9, <1>10 DEF Accounts

\* kmem_cache_create takes the bytes after the last cache, and only when they fit.
LEMMA CreateKeeps ==
    ASSUME KmemInv, NEW m \in MemSizes, NEW t \in Tots, kmem_cache_create(m, t)
    PROVE  KmemInv'
<1> DEFINE n == Len(caches)
           k == init_kmem_cache(used_size, m, t)
           hd == set_align(CacheSize, Align)
           arr == ObjStride(m) * t
<1>1. m \in Nat /\ t \in Nat /\ used_size \in Nat
  BY KmemAssumption DEF KmemInv
<1>2. k \in Cache /\ Accounts(k, {})
  BY <1>1, NewChain
<1>3. caches' = Append(caches, k) /\ used_size' = used_size + (hd + arr) /\ held' = held
      /\ Size - used_size > hd + arr
  BY DEF kmem_cache_create
<1>4. hd \in Nat
  BY AlignUp, KmemAssumption
<1>5. arr \in Nat
  <2>1. ObjStride(m) \in Nat
    BY <1>1, StrideHolds
  <2> DEFINE s == ObjStride(m)
  <2>2. s \in Nat
    BY <2>1
  <2> HIDE DEF s
  <2>3. s * t \in Nat
    BY <1>1, <2>2
  <2>4. QED
    BY <2>3 DEF s
<1>6. CacheEnd(k) = used_size + hd + arr /\ k.base = used_size
  BY DEF CacheEnd, init_kmem_cache
<1>7. caches \in Seq(Cache) /\ n \in Nat
  BY DEF KmemInv
<1> HIDE DEF k, hd, arr
<1>8. caches' \in Seq(Cache) /\ Len(caches') = n + 1 /\ caches'[n + 1] = k
  BY <1>2, <1>3, <1>7
<1>9. \A c \in 1 .. n : caches'[c] = caches[c]
  BY <1>2, <1>3, <1>7
<1>10. set_align(KmemSize, Align) \in Nat /\ set_align(KmemSize, Align) <= used_size
  BY AlignUp, KmemAssumption DEF KmemInv
<1>11. used_size' \in Nat /\ used_size <= used_size' /\ used_size' < Size /\ CacheEnd(k) <= used_size'
  BY <1>1, <1>3, <1>4, <1>5, <1>6, KmemAssumption
<1>12. \A c \in 1 .. n : CacheEnd(caches[c]) <= used_size
  BY DEF KmemInv, CachesInOrder
<1>13. \A c \in 1 .. n + 1 : c \in 1 .. n \/ c = n + 1
  BY <1>7
<1>14. CachesInOrder'
  <2>1. ASSUME NEW c \in 1 .. n + 1
        PROVE  set_align(KmemSize, Align) <= caches'[c].base /\ CacheEnd(caches'[c]) <= used_size'
    <3>1. CASE c = n + 1
      BY <1>6, <1>8, <1>10, <1>11, <3>1
    <3>2. CASE c \in 1 .. n
      <4>1. caches[c] \in Cache
        BY <1>7, <3>2
      <4>2. CacheEnd(caches[c]) \in Int
        BY <4>1, EndIsInt
      <4>3. set_align(KmemSize, Align) <= caches[c].base
        BY <3>2 DEF KmemInv, CachesInOrder
      <4>4. CacheEnd(caches[c]) <= used_size'
        BY <1>1, <1>11, <1>12, <3>2, <4>2
      <4>5. QED
        BY <1>9, <3>2, <4>3, <4>4
    <3>3. QED
      BY <1>13, <3>1, <3>2
  <2>2. ASSUME NEW c \in 1 .. n + 1, NEW d \in 1 .. n + 1, c < d
        PROVE  CacheEnd(caches'[c]) <= caches'[d].base
    <3>1. c \in 1 .. n
      BY <1>7, <2>2
    <3>2. CASE d = n + 1
      BY <1>6, <1>8, <1>9, <1>12, <3>1, <3>2
    <3>3. CASE d \in 1 .. n
      BY <1>9, <2>2, <3>1, <3>3 DEF KmemInv, CachesInOrder
    <3>4. QED
      BY <1>13, <3>2, <3>3
  <2>3. QED
    BY <1>8, <2>1, <2>2 DEF CachesInOrder, CacheEnd, set_align, ObjStride
<1>15. \A c \in 1 .. Len(caches') : Accounts(caches'[c], HeldOf(c)')
  <2>1. SUFFICES ASSUME NEW c \in 1 .. n + 1 PROVE Accounts(caches'[c], HeldOf(c)')
    BY <1>8
  <2>2. HeldOf(c)' = HeldOf(c)
    BY <1>3 DEF HeldOf
  <2>3. CASE c \in 1 .. n
    BY <1>9, <2>2, <2>3, OnceByCache DEF KmemInv
  <2>4. CASE c = n + 1
    <3>1. \A h \in held : h[1] # c
      BY <1>7, <2>4 DEF KmemInv
    <3>2. HeldOf(c) = {}
      BY <3>1 DEF HeldOf
    <3>3. QED
      BY <1>2, <1>8, <2>2, <2>4, <3>2
  <2>5. QED
    BY <1>13, <2>3, <2>4
<1>16. ObjectOnce'
  BY <1>15 DEF ObjectOnce, Accounts, Objects, Chained, HeldOf
<1>17. \A h \in held' : h[1] \in 1 .. Len(caches')
  BY <1>3, <1>7, <1>8 DEF KmemInv
<1>18. QED
  BY <1>3, <1>8, <1>10, <1>11, <1>14, <1>16, <1>17 DEF KmemInv, set_align

\* A change of the chain and the counters of one cache that keeps its accounts, with
\* what is held of the other caches left alone, keeps the invariant.
LEMMA OneCacheKeeps ==
    ASSUME KmemInv, NEW c \in 1 .. Len(caches), NEW k \in Cache,
           k.base = caches[c].base, k.mem_size = caches[c].mem_size, k.tots = caches[c].tots,
           caches' = [caches EXCEPT ![c] = k], used_size' = used_size,
           held' \subseteq Nat \X Nat, \A h \in held' : h[1] = c \/ h \in held,
           \A h \in held : h[1] = c \/ h \in held',
           Accounts(k, HeldOf(c)')
    PROVE  KmemInv'
<1> DEFINE n == Len(caches)
<1>1. caches \in Seq(Cache) /\ n \in Nat
  BY DEF KmemInv
<1>2. caches' \in Seq(Cache) /\ Len(caches') = n /\ caches'[c] = k
  BY <1>1
<1>3. \A d \in 1 .. n : d # c => caches'[d] = caches[d]
  BY <1>1
<1>4. ASSUME NEW d \in 1 .. n
      PROVE  caches'[d].base = caches[d].base /\ CacheEnd(caches'[d]) = CacheEnd(caches[d])
  <2>1. CASE d = c
    BY <1>2, <2>1 DEF CacheEnd
  <2>2. CASE d # c
    BY <1>3, <2>2
  <2>3. QED
    BY <2>1, <2>2
<1>5. CachesInOrder'
  <2>1. \A d \in 1 .. n : set_align(KmemSize, Align) <= caches'[d].base /\ CacheEnd(caches'[d]) <= used_size'
    BY <1>4 DEF KmemInv, CachesInOrder
  <2>2. \A d, e \in 1 .. n : d < e => CacheEnd(caches'[d]) <= caches'[e].base
    BY <1>4 DEF KmemInv, CachesInOrder
  <2>3. QED
    BY <1>2, <2>1, <2>2 DEF CachesInOrder, CacheEnd, set_align, ObjStride
<1>6. \A d \in 1 .. Len(caches') : Accounts(caches'[d], HeldOf(d)')
  <2>1. SUFFICES ASSUME NEW d \in 1 .. n, d # c PROVE Accounts(caches'[d], HeldOf(d)')
    BY <1>2
  <2>2. {g \in held' : g[1] = d} = {g \in held : g[1] = d}
    BY <2>1
  <2>3. HeldOf(d)' = HeldOf(d)
    BY <2>2 DEF HeldOf
  <2>4. QED
    BY <1>3, <2>1, <2>3, OnceByCache DEF KmemInv
<1>7. ObjectOnce'
  BY <1>6 DEF ObjectOnce, Accounts, Objects, Chained, HeldOf
<1>8. \A h \in held' : h[1] \in 1 .. Len(caches')
  BY <1>2 DEF KmemInv
<1>9. QED
  BY <1>2, <1>5, <1>7, <1>8 DEF KmemInv, set_align

\* An object is found again from its buffer.
LEMMA BufferOf ==
    ASSUME NEW o \in Nat
    PROVE  BufOf(o) \in Nat /\ BufOf(o) - ObjSize - OFS = o
BY KmemAssumption DEF BufOf, OFS

\* Two buffers of one object are the same.
LEMMA OneBuffer ==
    ASSUME NEW x \in Nat, NEW y \in Nat, x - ObjSize - OFS = y - ObjSize - OFS
    PROVE  x = y
BY KmemAssumption DEF OFS

\* An address of an object is not negative.
LEMMA ObjectsAreNat ==
    ASSUME NEW k \in Cache, NEW o \in Objects(k)
    PROVE  o \in Nat
BY ObjectPlace DEF Objects

\* The first object of a chain, taken off it.
LEMMA PopFront ==
    ASSUME NEW f \in Seq(Nat), Len(f) # 0,
           \A i, j \in 1 .. Len(f) : f[i] = f[j] => i = j
    PROVE  LET g == Tail(f)
           IN  /\ g \in Seq(Nat) /\ Len(g) = Len(f) - 1 /\ Len(g) \in Nat /\ Head(f) \in Nat
               /\ \A i, j \in 1 .. Len(g) : g[i] = g[j] => i = j
               /\ {f[i] : i \in 1 .. Len(f)} = {g[i] : i \in 1 .. Len(g)} \cup {Head(f)}
               /\ Head(f) \notin {g[i] : i \in 1 .. Len(g)}
<1> DEFINE g == Tail(f)
           n == Len(f)
<1>1. n \in Nat \ {0} /\ g \in Seq(Nat) /\ Len(g) = n - 1 /\ Head(f) = f[1] /\ Head(f) \in Nat
  OBVIOUS
<1>2. \A i \in 1 .. n - 1 : i + 1 \in 1 .. n /\ g[i] = f[i + 1]
  BY <1>1
<1> HIDE DEF g
<1>3. ASSUME NEW i \in 1 .. n - 1, NEW j \in 1 .. n - 1, g[i] = g[j] PROVE i = j
  <2>1. i + 1 = j + 1
    BY <1>2, <1>3
  <2>2. QED
    BY <2>1
<1>4. ASSUME NEW i \in 1 .. n, i # 1 PROVE f[i] \in {g[j] : j \in 1 .. n - 1}
  <2>1. i - 1 \in 1 .. n - 1 /\ (i - 1) + 1 = i
    BY <1>1, <1>4
  <2>2. g[i - 1] = f[i]
    BY <1>2, <2>1
  <2>3. QED
    BY <2>1, <2>2
<1>5. 1 \in 1 .. n
  BY <1>1
<1>6. {f[i] : i \in 1 .. n} = {g[i] : i \in 1 .. n - 1} \cup {f[1]}
  <2>1. \A x : x \in {f[i] : i \in 1 .. n} => x \in {g[i] : i \in 1 .. n - 1} \cup {f[1]}
    BY <1>4
  <2>2. {g[i] : i \in 1 .. n - 1} \subseteq {f[i] : i \in 1 .. n}
    BY <1>2
  <2>3. f[1] \in {f[i] : i \in 1 .. n}
    BY <1>5
  <2>4. QED
    BY <2>1, <2>2, <2>3
<1>7. ASSUME NEW i \in 1 .. n - 1 PROVE g[i] # f[1]
  <2>1. i + 1 \in 1 .. n /\ i + 1 # 1 /\ g[i] = f[i + 1]
    BY <1>1, <1>2
  <2>2. QED
    BY <1>5, <2>1
<1>8. QED
  BY <1>1, <1>3, <1>6, <1>7 DEF g

\* kmem_cache_alloc moves the first object of the chain to the held ones.
LEMMA AllocKeeps ==
    ASSUME KmemInv, NEW c \in 1 .. Len(caches), kmem_cache_alloc(c)
    PROVE  KmemInv'
<1> DEFINE a == caches[c]
           f == a.free_objs
           k == [a EXCEPT !.free = @ - 1, !.used = @ + 1, !.free_objs = Tail(@)]
           out == HeldOf(c)
<1>1. a \in Cache /\ Accounts(a, out)
  BY OnceByCache DEF KmemInv
<1>2. a.free \in Nat /\ a.used \in Int /\ a.tots \in Nat /\ f \in Seq(Nat) /\ Len(f) = a.free /\ a.free # 0
  BY <1>1 DEF Cache, Accounts, kmem_cache_alloc
<1>3. /\ k.base = a.base /\ k.mem_size = a.mem_size /\ k.tots = a.tots
      /\ k.free = a.free - 1 /\ k.used = a.used + 1 /\ k.free_objs = Tail(f)
  BY <1>1 DEF Cache
<1>4. k \in Cache
  <2>1. a.free - 1 \in Nat /\ a.used + 1 \in Int
    BY <1>2
  <2>2. Tail(f) \in Seq(Nat)
    BY <1>2
  <2>3. QED
    BY <1>1, <2>1, <2>2 DEF Cache
<1>5. caches' = [caches EXCEPT ![c] = k]
  BY DEF kmem_cache_alloc
<1> HIDE DEF k
<1>6. held' = held \cup {<<c, BufOf(Head(f))>>} /\ used_size' = used_size
  BY DEF kmem_cache_alloc
<1>7. BufOf(Head(f)) \in Nat /\ BufOf(Head(f)) - ObjSize - OFS = Head(f)
  <2>1. Head(f) \in Nat
    BY <1>2
  <2>2. QED
    BY <2>1, BufferOf
<1>8. HeldOf(c)' = out \cup {Head(f)}
  <2>1. {g \in held' : g[1] = c} = {g \in held : g[1] = c} \cup {<<c, BufOf(Head(f))>>}
    BY <1>6
  <2>2. <<c, BufOf(Head(f))>>[2] - ObjSize - OFS = Head(f)
    BY <1>7
  <2>3. QED
    BY <2>1, <2>2 DEF HeldOf
<1>9. /\ Len(Tail(f)) = Len(f) - 1
      /\ \A i, j \in 1 .. Len(Tail(f)) : Tail(f)[i] = Tail(f)[j] => i = j
      /\ {f[i] : i \in 1 .. Len(f)} = {Tail(f)[i] : i \in 1 .. Len(Tail(f))} \cup {Head(f)}
      /\ Head(f) \notin {Tail(f)[i] : i \in 1 .. Len(Tail(f))}
  <2>1. \A i, j \in 1 .. Len(f) : f[i] = f[j] => i = j
    BY <1>1, <1>2 DEF Accounts
  <2>2. QED
    BY <1>2, <2>1, PopFront
<1>10. Len(Tail(f)) = k.free
  BY <1>2, <1>3, <1>9
<1>11. \A i, j \in 1 .. k.free : k.free_objs[i] = k.free_objs[j] => i = j
  BY <1>3, <1>9, <1>10
<1>12. Chained(a) = Chained(k) \cup {Head(f)} /\ Head(f) \notin Chained(k)
  <2>1. Chained(a) = {f[i] : i \in 1 .. Len(f)} /\ Chained(k) = {Tail(f)[i] : i \in 1 .. Len(Tail(f))}
    BY <1>3 DEF Chained
  <2>2. QED
    BY <1>9, <2>1
<1>13. Objects(k) = Objects(a)
  BY <1>3 DEF Objects
<1>14. Accounts(k, HeldOf(c)')
  <2>1. k.used = k.tots - k.free
    <3>1. a.used = a.tots - a.free
      BY <1>1 DEF Accounts
    <3>2. ASSUME NEW u \in Int, NEW t \in Nat, NEW n \in Nat, u = t - n PROVE u + 1 = t - (n - 1)
      BY <3>2
    <3>3. a.used + 1 = a.tots - (a.free - 1)
      BY <1>2, <3>1, <3>2
    <3>4. QED
      BY <1>3, <3>3
  <2>2. Chained(k) \cap (out \cup {Head(f)}) = {} /\ Chained(k) \cup (out \cup {Head(f)}) = Objects(k)
    BY <1>1, <1>12, <1>13 DEF Accounts
  <2>3. QED
    BY <1>3, <1>8, <1>10, <1>11, <2>1, <2>2 DEF Accounts
<1>15. held' \subseteq Nat \X Nat /\ (\A h \in held' : h[1] = c \/ h \in held)
       /\ \A h \in held : h[1] = c \/ h \in held'
  BY <1>6, <1>7 DEF KmemInv
<1>16. QED
  BY <1>3, <1>4, <1>5, <1>6, <1>14, <1>15, OneCacheKeeps

\* An object not in a chain, put in front of it.
LEMMA PushFront ==
    ASSUME NEW f \in Seq(Nat), NEW o \in Nat,
           \A i, j \in 1 .. Len(f) : f[i] = f[j] => i = j,
           \A i \in 1 .. Len(f) : f[i] # o
    PROVE  LET g == <<o>> \o f
           IN  /\ g \in Seq(Nat) /\ Len(g) = Len(f) + 1
               /\ \A i, j \in 1 .. Len(g) : g[i] = g[j] => i = j
               /\ {g[i] : i \in 1 .. Len(g)} = {f[i] : i \in 1 .. Len(f)} \cup {o}
<1> DEFINE g == <<o>> \o f
           n == Len(f)
<1>1. n \in Nat /\ g \in Seq(Nat) /\ Len(g) = n + 1 /\ g[1] = o
  OBVIOUS
<1>2. \A i \in 1 .. n + 1 : i # 1 => i - 1 \in 1 .. n /\ g[i] = f[i - 1]
  BY <1>1
<1> HIDE DEF g
<1>3. ASSUME NEW i \in 1 .. n + 1, NEW j \in 1 .. n + 1, g[i] = g[j] PROVE i = j
  <2>1. CASE i = 1 \/ j = 1
    BY <1>1, <1>2, <1>3, <2>1
  <2>2. CASE i # 1 /\ j # 1
    <3>1. i - 1 \in 1 .. n /\ j - 1 \in 1 .. n /\ f[i - 1] = f[j - 1]
      BY <1>2, <1>3, <2>2
    <3>2. i - 1 = j - 1
      BY <3>1
    <3>3. QED
      BY <1>1, <3>2
  <2>3. QED
    BY <2>1, <2>2
<1>4. ASSUME NEW i \in 1 .. n PROVE f[i] \in {g[j] : j \in 1 .. n + 1}
  <2>1. i + 1 \in 1 .. n + 1 /\ i + 1 # 1 /\ (i + 1) - 1 = i
    BY <1>1
  <2>2. g[i + 1] = f[i]
    BY <1>2, <2>1
  <2>3. QED
    BY <2>1, <2>2
<1>5. 1 \in 1 .. n + 1
  BY <1>1
<1>6. {g[i] : i \in 1 .. n + 1} = {f[i] : i \in 1 .. n} \cup {o}
  <2>0. ASSUME NEW i \in 1 .. n + 1 PROVE g[i] \in {f[j] : j \in 1 .. n} \cup {o}
    <3>1. CASE i = 1
      BY <1>1, <3>1
    <3>2. CASE i # 1
      BY <1>2, <3>2
    <3>3. QED
      BY <3>1, <3>2
  <2>1. \A x : x \in {g[i] : i \in 1 .. n + 1} => x \in {f[j] : j \in 1 .. n} \cup {o}
    BY <2>0
  <2>2. o \in {g[i] : i \in 1 .. n + 1}
    BY <1>1, <1>5
  <2>3. {f[j] : j \in 1 .. n} \subseteq {g[i] : i \in 1 .. n + 1}
    BY <1>4
  <2>4. QED
    BY <2>1, <2>2, <2>3
<1>7. QED
  BY <1>1, <1>3, <1>6 DEF g

\* kmem_cache_free moves a held object to the front of the chain.
LEMMA FreeKeeps ==
    ASSUME KmemInv, NEW h \in held, kmem_cache_free(h[1], h[2])
    PROVE  KmemInv'
<1> DEFINE c == h[1]
           a == caches[c]
           f == a.free_objs
           o == h[2] - ObjSize - OFS
           g == <<o>> \o f
           k == [a EXCEPT !.free = @ + 1, !.used = @ - 1, !.free_objs = <<o>> \o @]
           out == HeldOf(c)
<1>0. c \in 1 .. Len(caches) /\ h = <<c, h[2]>> /\ h[2] \in Nat /\ held \subseteq Nat \X Nat
  BY DEF KmemInv
<1>1. a \in Cache /\ Accounts(a, out)
  BY <1>0, OnceByCache DEF KmemInv
<1>2. a.free \in Nat /\ a.used \in Int /\ a.tots \in Nat /\ f \in Seq(Nat) /\ Len(f) = a.free
  BY <1>1 DEF Cache, Accounts
<1>3. o \in out
  BY DEF HeldOf
<1>4. o \in Objects(a) /\ o \notin Chained(a)
  BY <1>1, <1>3 DEF Accounts
<1>5. o \in Nat
  BY <1>1, <1>4, ObjectsAreNat
<1>6. /\ k.base = a.base /\ k.mem_size = a.mem_size /\ k.tots = a.tots
      /\ k.free = a.free + 1 /\ k.used = a.used - 1 /\ k.free_objs = g
  BY <1>1 DEF Cache
<1>7. caches' = [caches EXCEPT ![c] = k] /\ held' = held \ {<<c, h[2]>>} /\ used_size' = used_size
  BY DEF kmem_cache_free
<1>8. ASSUME NEW e \in held, e[1] = c, e[2] - ObjSize - OFS = o PROVE e = h
  <2>1. e = <<e[1], e[2]>> /\ e[2] \in Nat
    BY <1>0
  <2>2. e[2] = h[2]
    BY <1>0, <1>8, <2>1, OneBuffer
  <2>3. QED
    BY <1>0, <1>8, <2>1, <2>2
<1>9. HeldOf(c)' = out \ {o}
  <2>1. {e \in held' : e[1] = c} = {e \in held : e[1] = c} \ {h}
    BY <1>0, <1>7
  <2>2. QED
    BY <1>8, <2>1 DEF HeldOf
<1> HIDE DEF o
<1>10. /\ g \in Seq(Nat) /\ Len(g) = Len(f) + 1
       /\ \A i, j \in 1 .. Len(g) : g[i] = g[j] => i = j
       /\ {g[i] : i \in 1 .. Len(g)} = {f[i] : i \in 1 .. Len(f)} \cup {o}
  <2>1. \A i, j \in 1 .. Len(f) : f[i] = f[j] => i = j
    BY <1>1, <1>2 DEF Accounts
  <2>2. \A i \in 1 .. Len(f) : f[i] # o
    BY <1>4 DEF Chained
  <2>3. QED
    BY <1>2, <1>5, <2>1, <2>2, PushFront
<1>11. k \in Cache
  <2>1. a.free + 1 \in Nat /\ a.used - 1 \in Int
    BY <1>2
  <2>2. QED
    BY <1>1, <1>10, <2>1 DEF Cache
<1> HIDE DEF k, g
<1>12. Len(k.free_objs) = k.free
  BY <1>2, <1>6, <1>10
<1>13. \A i, j \in 1 .. k.free : k.free_objs[i] = k.free_objs[j] => i = j
  BY <1>6, <1>10, <1>12
<1>14. Chained(k) = Chained(a) \cup {o}
  <2>1. Chained(a) = {f[i] : i \in 1 .. Len(f)} /\ Chained(k) = {g[i] : i \in 1 .. Len(g)}
    BY <1>6 DEF Chained
  <2>2. QED
    BY <1>10, <2>1
<1>15. Objects(k) = Objects(a)
  BY <1>6 DEF Objects
<1>16. Accounts(k, HeldOf(c)')
  <2>1. k.used = k.tots - k.free
    <3>1. a.used = a.tots - a.free
      BY <1>1 DEF Accounts
    <3>2. ASSUME NEW u \in Int, NEW t \in Nat, NEW n \in Nat, u = t - n PROVE u - 1 = t - (n + 1)
      BY <3>2
    <3>3. a.used - 1 = a.tots - (a.free + 1)
      BY <1>2, <3>1, <3>2
    <3>4. QED
      BY <1>6, <3>3
  <2>2. Chained(k) \cap (out \ {o}) = {} /\ Chained(k) \cup (out \ {o}) = Objects(k)
    BY <1>1, <1>3, <1>14, <1>15 DEF Accounts
  <2>3. QED
    BY <1>9, <1>12, <1>13, <2>1, <2>2 DEF Accounts
<1>17. held' \subseteq Nat \X Nat /\ (\A e \in held' : e[1] = c \/ e \in held)
       /\ \A e \in held : e[1] = c \/ e \in held'
  BY <1>0, <1>7
<1>18. QED
  BY <1>0, <1>6, <1>7, <1>11, <1>16, <1>17, OneCacheKeeps

\* The invariant holds in every reachable state of the object caches: init_kmem
\* establishes it, and kmem_cache_create, kmem_cache_alloc and kmem_cache_free keep it.
THEOREM KmemInvariant == KmemSpec => []KmemInv
<1>1. KmemInit => KmemInv
  BY KmemStarts
<1>2. KmemInv /\ [KmemNext]_kvars => KmemInv'
  <2> SUFFICES ASSUME KmemInv, [KmemNext]_kvars PROVE KmemInv'
    OBVIOUS
  <2>1. CASE \E m \in MemSizes, t \in Tots : kmem_cache_create(m, t)
    BY <2>1, CreateKeeps
  <2>2. CASE \E c \in 1 .. Len(caches) : kmem_cache_alloc(c)
    BY <2>2, AllocKeeps
  <2>3. CASE \E h \in held : kmem_cache_free(h[1], h[2])
    BY <2>3, FreeKeeps
  <2>4. CASE UNCHANGED kvars
    <3>1. used_size' = used_size /\ caches' = caches /\ held' = held
      BY <2>4 DEF kvars
    <3>2. CachesInOrder' = CachesInOrder
      BY <3>1 DEF CachesInOrder
    <3>3. ObjectOnce' = ObjectOnce
      BY <3>1 DEF ObjectOnce, HeldOf
    <3>4. QED
      BY <3>1, <3>2, <3>3 DEF KmemInv
  <2>5. QED
    BY <2>1, <2>2, <2>3, <2>4 DEF KmemNext
<1>3. QED
  BY <1>1, <1>2, PTL DEF KmemSpec

\* Whatever caches are created and whatever objects are taken and given back, for any
\* region, alignment (a power of two) and object sizes: headers, objects and buffers do
\* not overlap, and each object is chained once or held once.
THEOREM KmemCorrect == KmemSpec => []KmemOK
<1>1. KmemInv => KmemOK
  BY LayoutOK DEF KmemInv, KmemOK
<1>2. QED
  BY <1>1, KmemInvariant, PTL
=============================================================================
