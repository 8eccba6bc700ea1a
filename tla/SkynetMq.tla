------------------------------ MODULE SkynetMq ------------------------------
(***************************************************************************)
(* The message queues of lib/skynet_mq.c: one queue per event type, and    *)
(* the global list of the queues that have work, an intrusive singly       *)
(* linked list threaded through message_queue.next.                        *)
(*                                                                         *)
(* Every operator below is one critical section of the code (the queue's   *)
(* own mutex, or the mutex of the global list); skynet_mq_push nests the   *)
(* second in the first.  The ring buffer that holds the messages is the    *)
(* subject of module MqRing, which shows it to be a FIFO; here it is a     *)
(* sequence.                                                               *)
(***************************************************************************)
EXTENDS Integers, Sequences

CONSTANTS
    Msg,    \* the messages (struct stream pointers)
    NULL    \* the null pointer

\* include/msg.h: the event types, which are also the queue handles.
EVENT_NONE == 0
EVENT_ECHO == 1
EVENT_SYS  == 2
EVENT_NET  == 3
EVENT_MAX  == 4

\* core_init creates queues[0 .. EVENT_MAX - 1], each with its index as handle.
Handle == 0 .. (EVENT_MAX - 1)

ASSUME NullAssumption == NULL \notin Handle /\ NULL \notin Msg

VARIABLES
    Qhead,      \* Q->head
    Qtail,      \* Q->tail
    next,       \* message_queue.next of every queue
    in_global,  \* message_queue.in_global of every queue
    queue       \* the messages of every queue, oldest first

globalVars == <<Qhead, Qtail, next>>
mqVars == <<Qhead, Qtail, next, in_global, queue>>

-----------------------------------------------------------------------------
skynet_mq_init ==
    /\ Qhead = NULL
    /\ Qtail = NULL

skynet_mq_create ==
    /\ next = [q \in Handle |-> NULL]
    /\ in_global = [q \in Handle |-> 0]
    /\ queue = [q \in Handle |-> <<>>]

\* A mutant: the tail is not advanced.
skynet_globalmq_push_stale_tail(q) ==
    \/ /\ Qtail # NULL
       /\ next' = [next EXCEPT ![Qtail] = q]
       /\ UNCHANGED <<Qhead, Qtail>>
    \/ /\ Qtail = NULL
       /\ Qhead' = q
       /\ Qtail' = q
       /\ UNCHANGED next

\* Append q to the global list.  The code does not look at q->next, nor at
\* whether q is in the list already.
skynet_globalmq_push(q) ==
    /\ Qtail' = q
    /\ \/ /\ Qtail # NULL
          /\ next' = [next EXCEPT ![Qtail] = q]
          /\ UNCHANGED Qhead
       \/ /\ Qtail = NULL
          /\ Qhead' = q
          /\ UNCHANGED next

\* The assertion in skynet_globalmq_pop: the last queue of the list is its tail.
assert_tail == next[Qhead] = NULL => Qhead = Qtail

\* Unlink the head of a nonempty list; the caller gets Qhead.
skynet_globalmq_pop ==
    /\ Qhead # NULL
    /\ assert_tail
    /\ Qhead' = next[Qhead]
    /\ Qtail' = IF next[Qhead] = NULL THEN NULL ELSE Qtail
    /\ next' = [next EXCEPT ![Qhead] = NULL]

\* A mutant: every push lists the queue.
skynet_mq_push_always(q, m) ==
    /\ queue' = [queue EXCEPT ![q] = Append(@, m)]
    /\ in_global' = [in_global EXCEPT ![q] = 1]
    /\ skynet_globalmq_push(q)

\* Append m to queue q and list q unless its in_global says it is listed.
skynet_mq_push(q, m) ==
    /\ queue' = [queue EXCEPT ![q] = Append(@, m)]
    /\ \/ /\ in_global[q] = 0
          /\ in_global' = [in_global EXCEPT ![q] = 1]
          /\ skynet_globalmq_push(q)
       \/ /\ in_global[q] # 0
          /\ UNCHANGED <<in_global, globalVars>>

\* A mutant: the message stays in the queue.
skynet_mq_pop_peek(q) ==
    /\ queue[q] # <<>>
    /\ UNCHANGED <<queue, in_global, globalVars>>

\* A mutant: the pop of the last message clears in_global already.
skynet_mq_pop_last(q) ==
    /\ queue[q] # <<>>
    /\ queue' = [queue EXCEPT ![q] = Tail(@)]
    /\ in_global' = [in_global EXCEPT ![q] = IF Len(queue[q]) = 1 THEN 0 ELSE @]
    /\ UNCHANGED globalVars

\* skynet_mq_pop when there is a message; the caller gets Head(queue[q]).
skynet_mq_pop(q) ==
    /\ queue[q] # <<>>
    /\ queue' = [queue EXCEPT ![q] = Tail(@)]
    /\ UNCHANGED <<in_global, globalVars>>

\* A mutant: in_global is not cleared.
skynet_mq_pop_empty_keeps(q) ==
    /\ queue[q] = <<>>
    /\ UNCHANGED <<queue, in_global, globalVars>>

\* A mutant: in_global is cleared without looking at the queue.
skynet_mq_pop_empty_blind(q) ==
    /\ in_global' = [in_global EXCEPT ![q] = 0]
    /\ UNCHANGED <<queue, globalVars>>

\* skynet_mq_pop of an empty queue, which also clears in_global.
skynet_mq_pop_empty(q) ==
    /\ queue[q] = <<>>
    /\ in_global' = [in_global EXCEPT ![q] = 0]
    /\ UNCHANGED <<queue, globalVars>>

\* The store without a lock.
skynet_mq_global(q, val) ==
    /\ in_global' = [in_global EXCEPT ![q] = val]
    /\ UNCHANGED <<queue, globalVars>>

-----------------------------------------------------------------------------
\* q is referenced by the list: as its head, or by some queue's next pointer.
Referenced(q) == q = Qhead \/ \E p \in Handle : next[p] = q

\* No two references to q: it is in the list once at most.
ListedOnce(q) ==
    /\ \A p \in Handle : next[p] = q => Qhead # q
    /\ \A p, r \in Handle : next[p] = q /\ next[r] = q => p = r

\* The queues reached from Q->head in at most EVENT_MAX links: the ones a
\* skynet_globalmq_pop can still return.
Listed ==
    LET Follow(S) == S \cup {next[p] : p \in S \ {NULL}}
    IN  Follow(Follow(Follow(Follow({Qhead})))) \ {NULL}

mqTypeOK ==
    /\ Qhead \in Handle \cup {NULL}
    /\ Qtail \in Handle \cup {NULL}
    /\ next \in [Handle -> Handle \cup {NULL}]
    /\ in_global \in [Handle -> {0, 1}]
    /\ queue \in [Handle -> Seq(Msg)]
=============================================================================
