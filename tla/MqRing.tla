------------------------------- MODULE MqRing -------------------------------
(***************************************************************************)
(* The ring buffer of one message_queue (lib/skynet_mq.c): a growing array *)
(* with a head and a tail index, and the overload monitor.  Each call is   *)
(* one critical section of the queue's lock.  The in_global flag and the   *)
(* global list are in SkynetMq, which takes the queue as a sequence.       *)
(***************************************************************************)
EXTENDS Integers, Sequences

CONSTANTS
    Msg,                 \* the messages
    Garbage,             \* what malloc leaves in an array
    DEFAULT_QUEUE_SIZE,  \* the first capacity
    MQ_OVERLOAD,         \* the first overload threshold
    MaxCap               \* bound: the ring is not expanded beyond this

ASSUME RingAssumption ==
    /\ Garbage \notin Msg
    /\ DEFAULT_QUEUE_SIZE \in Nat \ {0}
    /\ MQ_OVERLOAD \in Nat \ {0}
    /\ MaxCap \in Nat

VARIABLES
    cap, head, tail,     \* the fields of message_queue
    queue,               \* the array, indices 0 .. cap - 1
    overload,
    overload_threshold,
    message              \* *message of the last successful skynet_mq_pop

ringVars == <<cap, head, tail, queue>>
vars == <<ringVars, overload, overload_threshold, message>>

\* skynet_mq_create
Init ==
    /\ cap = DEFAULT_QUEUE_SIZE
    /\ head = 0
    /\ tail = 0
    /\ queue = [i \in 0 .. (DEFAULT_QUEUE_SIZE - 1) |-> Garbage]
    /\ overload = 0
    /\ overload_threshold = MQ_OVERLOAD
    /\ message = Garbage

\* skynet_mq_length, for the given fields.
skynet_mq_length(h, t, c) == IF h <= t THEN t - h ELSE t + c - h

\* skynet_mq_push where the ring has room after it.
PushRoom(m) ==
    LET next == IF tail + 1 >= cap THEN 0 ELSE tail + 1
    IN  /\ head # next
        /\ queue' = [queue EXCEPT ![tail] = m]
        /\ tail' = next
        /\ UNCHANGED <<cap, head, overload, overload_threshold, message>>

\* A mutant: the array is copied from slot 0.
expand_queue_flat(q) ==
    /\ queue' = [i \in 0 .. (2 * cap - 1) |-> IF i < cap THEN q[i] ELSE Garbage]
    /\ head' = 0
    /\ tail' = cap
    /\ cap' = 2 * cap

\* expand_queue of the array q: unroll the ring into an array twice as large.
expand_queue(q) ==
    /\ queue' = [i \in 0 .. (2 * cap - 1) |->
                    IF i < cap THEN q[(head + i) % cap] ELSE Garbage]
    /\ head' = 0
    /\ tail' = cap
    /\ cap' = 2 * cap

\* skynet_mq_push that fills the ring, which is then expanded.
PushExpand(m) ==
    LET next == IF tail + 1 >= cap THEN 0 ELSE tail + 1
    IN  /\ head = next
        /\ 2 * cap <= MaxCap
        /\ expand_queue([queue EXCEPT ![tail] = m])
        /\ UNCHANGED <<overload, overload_threshold, message>>

skynet_mq_push(m) == PushRoom(m) \/ PushExpand(m)

\* A mutant: the threshold is doubled once.
Doubled_once(length) ==
    IF length > overload_threshold THEN 2 * overload_threshold ELSE overload_threshold

\* The loop in skynet_mq_pop that doubles the threshold until it covers length.
Doubled(length) ==
    LET T[t \in Nat] == IF length > t THEN T[2 * t] ELSE t
    IN  T[overload_threshold]

\* skynet_mq_pop of a message.
skynet_mq_pop ==
    LET next == IF head + 1 >= cap THEN 0 ELSE head + 1
        length == IF tail - next < 0 THEN tail - next + cap ELSE tail - next
    IN  /\ head # tail
        /\ message' = queue[head]
        /\ head' = next
        /\ overload_threshold' = Doubled(length)
        /\ overload' = IF length > overload_threshold THEN length ELSE overload
        /\ UNCHANGED <<cap, tail, queue>>

\* skynet_mq_pop of an empty queue.
PopEmpty ==
    /\ head = tail
    /\ overload_threshold' = MQ_OVERLOAD
    /\ UNCHANGED <<ringVars, overload, message>>

\* skynet_mq_overload reports and clears the overload.
skynet_mq_overload ==
    /\ overload # 0
    /\ overload' = 0
    /\ UNCHANGED <<ringVars, overload_threshold, message>>

Next ==
    \/ \E m \in Msg : skynet_mq_push(m)
    \/ skynet_mq_pop
    \/ PopEmpty
    \/ skynet_mq_overload

Spec == Init /\ [][Next]_vars

-----------------------------------------------------------------------------
(* Properties.                                                             *)

\* Position i of the queue (from 1) is in this slot of the array.
Slot(i) == IF head + i - 1 < cap THEN head + i - 1 ELSE head + i - 1 - cap

Length == skynet_mq_length(head, tail, cap)

\* The messages in the ring, oldest first.
Contents == [i \in 1 .. Length |-> queue[Slot(i)]]

\* The indices stay inside the array whatever its size, and every slot between
\* head and tail was written: the uninitialised part of a new array (also the
\* upper half that expand_queue leaves) is never read.
RingOK ==
    /\ cap \in Nat \ {0}
    /\ head \in 0 .. (cap - 1)
    /\ tail \in 0 .. (cap - 1)
    /\ queue \in [0 .. (cap - 1) -> Msg \cup {Garbage}]
    /\ message \in Msg \cup {Garbage}
    /\ \A i \in 1 .. Length : queue[Slot(i)] \in Msg

F == INSTANCE Fifo WITH items <- Contents

\* The ring is a FIFO: across the wrap of either index and across expand_queue
\* no message is lost, repeated, reordered or made up.
ImplementsFifo == F!Spec

\* The monitor never lags behind: after a pop the threshold is at least the
\* length, however many messages were pushed since the last pop.  So until a
\* pop finds the ring empty and resets the threshold, each overload report
\* stands for a length above those reported before.
ThresholdCovers ==
    [][head' # head /\ cap' = cap => Length' <= overload_threshold']_vars
=============================================================================
