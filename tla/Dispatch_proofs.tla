-------------------------- MODULE Dispatch_proofs ---------------------------
(***************************************************************************)
(* Proofs about Dispatch, for every set of threads and messages, every     *)
(* choice of what the handlers return and every value of the sands.        *)
(***************************************************************************)
EXTENDS Dispatch, FiniteSetTheorems, TLAPS

-----------------------------------------------------------------------------
(* The operations of SkynetMq keep its types.                              *)

\* skynet_globalmq_push only stores queue pointers.
LEMMA GlobalPushType ==
    ASSUME mqTypeOK, NEW q \in Handle, skynet_globalmq_push(q)
    PROVE  /\ Qhead' \in Handle \cup {NULL}
           /\ Qtail' \in Handle \cup {NULL}
           /\ next' \in [Handle -> Handle \cup {NULL}]
  BY DEF mqTypeOK, skynet_globalmq_push

\* skynet_globalmq_pop only stores queue pointers, and returns a queue.
LEMMA GlobalPopType ==
    ASSUME mqTypeOK, skynet_globalmq_pop
    PROVE  /\ Qhead \in Handle
           /\ Qhead' \in Handle \cup {NULL}
           /\ Qtail' \in Handle \cup {NULL}
           /\ next' \in [Handle -> Handle \cup {NULL}]
  BY DEF mqTypeOK, skynet_globalmq_pop

\* skynet_mq_push keeps the queues sequences of messages and the flags 0 or 1.
LEMMA PushType ==
    ASSUME mqTypeOK, NEW q \in Handle, NEW m \in Msg, skynet_mq_push(q, m)
    PROVE  mqTypeOK'
  <1>1. queue' \in [Handle -> Seq(Msg)]
    BY DEF mqTypeOK, skynet_mq_push
  <1>2. in_global' \in [Handle -> {0, 1}]
    BY DEF mqTypeOK, skynet_mq_push
  <1>3. /\ Qhead' \in Handle \cup {NULL}
        /\ Qtail' \in Handle \cup {NULL}
        /\ next' \in [Handle -> Handle \cup {NULL}]
    BY GlobalPushType DEF mqTypeOK, skynet_mq_push, globalVars
  <1> QED
    BY <1>1, <1>2, <1>3 DEF mqTypeOK

\* skynet_mq_pop of a nonempty queue returns a message.
LEMMA PopType ==
    ASSUME mqTypeOK, NEW q \in Handle, skynet_mq_pop(q)
    PROVE  Head(queue[q]) \in Msg /\ mqTypeOK'
  <1>1. queue[q] \in Seq(Msg) /\ queue[q] # <<>>
    BY DEF mqTypeOK, skynet_mq_pop
  <1>2. Head(queue[q]) \in Msg /\ Tail(queue[q]) \in Seq(Msg)
    BY <1>1
  <1> QED
    BY <1>2 DEF mqTypeOK, skynet_mq_pop, globalVars

\* skynet_mq_pop of an empty queue and skynet_mq_global only set a flag.
LEMMA FlagType ==
    ASSUME mqTypeOK, NEW q \in Handle,
           skynet_mq_pop_empty(q) \/ skynet_mq_global(q, 1)
    PROVE  mqTypeOK'
  BY DEF mqTypeOK, skynet_mq_pop_empty, skynet_mq_global, globalVars

-----------------------------------------------------------------------------
(* Type correctness.                                                       *)

\* Every step of worker() and of the callbacks of the event loop keeps TypeOK.
LEMMA TypeStep ==
    ASSUME TypeOK, [Next]_vars
    PROVE  TypeOK'
  <1> USE DispatchAssumption, NullAssumption DEF TypeOK, Handle, EVENT_MAX,
          EVENT_NONE, EVENT_ECHO, EVENT_SYS, EVENT_NET, Fates, mqVars,
          globalVars, workerVars, mainVars, envVars
  <1>1. ASSUME NEW w \in Worker, StartJob(w) PROVE TypeOK'
    BY <1>1 DEF StartJob, mqTypeOK
  <1>2. ASSUME NEW w \in Worker, TakeQueue(w) PROVE TypeOK'
    <2>1. Qhead \in Handle /\ mqTypeOK'
      BY <1>2, GlobalPopType DEF TakeQueue, mqTypeOK, skynet_globalmq_pop
    <2> QED
      BY <1>2, <2>1 DEF TakeQueue
  <1>3. ASSUME NEW w \in Worker, NoQueue(w) PROVE TypeOK'
    BY <1>3 DEF NoQueue, mqTypeOK
  <1>4. ASSUME NEW w \in Worker, AssertFails(w) PROVE TypeOK'
    BY <1>4 DEF AssertFails, mqTypeOK
  <1>5. ASSUME NEW w \in Worker, PopTask(w) PROVE TypeOK'
    <2>1. Head(queue[wq[w]]) \in Msg /\ mqTypeOK'
      BY <1>5, PopType DEF PopTask
    <2> QED
      BY <1>5, <2>1 DEF PopTask
  <1>6. ASSUME NEW w \in Worker, PopNet(w) PROVE TypeOK'
    <2>1. Head(queue[EVENT_NET]) \in Msg /\ mqTypeOK'
      BY <1>6, PopType DEF PopNet
    <2> QED
      BY <1>6, <2>1 DEF PopNet
  <1>7. ASSUME NEW w \in Worker, PopEmpty(w) PROVE TypeOK'
    <2>1. mqTypeOK'
      BY <1>7, FlagType DEF PopEmpty
    <2> QED
      BY <1>7, <2>1 DEF PopEmpty
  <1>8. ASSUME NEW w \in Worker, OutOfSands(w) PROVE TypeOK'
    <2>1. mqTypeOK'
      BY <1>8, GlobalPushType DEF OutOfSands, mqTypeOK
    <2> QED
      BY <1>8, <2>1 DEF OutOfSands
  <1>9. ASSUME NEW w \in Worker, ProcessFails(w) PROVE TypeOK'
    BY <1>9 DEF ProcessFails, EndProcess, mqTypeOK
  <1>10. ASSUME NEW w \in Worker, ProcessNone(w) PROVE TypeOK'
    BY <1>10 DEF ProcessNone, EndProcess, mqTypeOK
  <1>11. ASSUME NEW w \in Worker, ProcessNet(w) PROVE TypeOK'
    <2>1. mqTypeOK'
      BY <1>11, FlagType DEF ProcessNet
    <2> QED
      BY <1>11, <2>1 DEF ProcessNet
  <1>12. ASSUME NEW w \in Worker, NetPush(w) PROVE TypeOK'
    <2>1. mqTypeOK'
      BY <1>12, PushType DEF NetPush
    <2> QED
      BY <1>12, <2>1 DEF NetPush, EndProcess
  <1>13. ASSUME NEW w \in Worker, ProcessTask(w) PROVE TypeOK'
    <2>1. mqTypeOK'
      BY <1>13, PushType DEF ProcessTask
    <2> QED
      BY <1>13, <2>1 DEF ProcessTask
  <1>14. ASSUME NEW w \in Worker, AddWork(w) PROVE TypeOK'
    <2>1. mqTypeOK'
      BY <1>14 DEF AddWork, mqTypeOK
    <2> QED
      BY <1>14, <2>1 DEF AddWork, EndProcess
  <1>15. CASE Read
    <2>1. mqTypeOK'
      BY <1>15, PushType DEF Read
    <2> QED
      BY <1>15, <2>1 DEF Read
  <1>16. CASE ReadWork
    BY <1>16 DEF ReadWork, mqTypeOK
  <1>17. CASE RouteStart
    BY <1>17 DEF RouteStart, mqTypeOK
  <1>18. CASE RoutePop
    <2>1. Head(queue[EVENT_NET]) \in Msg /\ mqTypeOK'
      BY <1>18, PopType DEF RoutePop
    <2> QED
      BY <1>18, <2>1 DEF RoutePop
  <1>19. CASE RouteEmpty
    <2>1. mqTypeOK'
      BY <1>19, FlagType DEF RouteEmpty
    <2> QED
      BY <1>19, <2>1 DEF RouteEmpty
  <1>20. CASE TimerStart
    BY <1>20 DEF TimerStart, mqTypeOK
  <1>21. CASE TimerPop
    <2>1. Head(queue[EVENT_SYS]) \in Msg /\ mqTypeOK'
      BY <1>21, PopType DEF TimerPop
    <2> QED
      BY <1>21, <2>1 DEF TimerPop
  <1>22. CASE TimerEmpty
    <2>1. mqTypeOK'
      BY <1>22, FlagType DEF TimerEmpty
    <2> QED
      BY <1>22, <2>1 DEF TimerEmpty
  <1>23. CASE Expire
    <2>1. mqTypeOK'
      BY <1>23, PushType DEF Expire
    <2> QED
      BY <1>23, <2>1 DEF Expire
  <1>24. CASE TickWork
    BY <1>24 DEF TickWork, mqTypeOK
  <1>25. CASE TickEnd
    BY <1>25 DEF TickEnd, mqTypeOK
  <1>26. CASE UNCHANGED vars
    BY <1>26 DEF vars, mqTypeOK
  <1> QED
    BY <1>1, <1>2, <1>3, <1>4, <1>5, <1>6, <1>7, <1>8, <1>9, <1>10, <1>11,
       <1>12, <1>13, <1>14, <1>15, <1>16, <1>17, <1>18, <1>19, <1>20, <1>21,
       <1>22, <1>23, <1>24, <1>25, <1>26, Zenon DEF Next, MainStep, RouteLoop,
       TimerLoop, WorkerStep

\* TypeOK holds once core_init has created the queues and the pool.
LEMMA InitType == Init => TypeOK
  <1> SUFFICES ASSUME Init PROVE TypeOK
    OBVIOUS
  <1>1. mqTypeOK
    BY DEF Init, skynet_mq_init, skynet_mq_create, mqTypeOK
  <1>2. aborted \in BOOLEAN
    BY Zenon DEF Init
  <1>3. /\ wpc \in [Worker -> {"idle", "gpop", "drain", "process", "netpush",
                               "addwork"}]
        /\ mpc \in {"loop", "readwork", "route", "timer", "tick", "tickwork"}
        /\ fate \in [Msg -> Fates]
    BY Zenon DEF Init, Fates
  <1> QED
    BY <1>1, <1>2, <1>3, DispatchAssumption, NullAssumption DEF Init, TypeOK

\* TypeOK holds in every state of the dispatcher.
THEOREM TypeCorrect == Spec => []TypeOK
  BY InitType, TypeStep, PTL DEF Spec

-----------------------------------------------------------------------------
(* A task queue has one owner: the global list, one worker, or nobody.     *)

\* Listing another queue p adds no reference to q.
LEMMA PushOther ==
    ASSUME mqTypeOK, NEW q \in Handle, NEW p \in Handle, p # q,
           ListedOnce(q), skynet_globalmq_push(p)
    PROVE  ListedOnce(q)' /\ (Referenced(q)' => Referenced(q))
  BY Zenon DEF mqTypeOK, ListedOnce, Referenced, skynet_globalmq_push

\* Listing a queue that is not referenced leaves it listed once.
LEMMA PushSelf ==
    ASSUME mqTypeOK, NEW q \in Handle, ~Referenced(q), skynet_globalmq_push(q)
    PROVE  ListedOnce(q)'
  BY NullAssumption DEF mqTypeOK, ListedOnce, Referenced, skynet_globalmq_push

\* Unlinking the head adds no reference to any queue, and leaves none to the
\* queue it returns.
LEMMA PopOnce ==
    ASSUME mqTypeOK, NEW q \in Handle, ListedOnce(q), skynet_globalmq_pop
    PROVE  /\ ListedOnce(q)'
           /\ Referenced(q)' => Referenced(q)
           /\ q = Qhead => ~Referenced(q)'
  BY NullAssumption DEF mqTypeOK, ListedOnce, Referenced, skynet_globalmq_pop

\* The three properties of a task queue together, queue by queue.
OneDrainer(q) ==
    /\ ListedOnce(q)
    /\ Held(q) => ~Referenced(q)
    /\ in_global[q] = 0 => ~Referenced(q) /\ ~Held(q)
    /\ \A v, w \in Worker : wq[v] = q /\ wq[w] = q => v = w

\* OneDrainer only depends on the global list, the flag and the queues in hand.
LEMMA DrainerFrame ==
    ASSUME NEW q \in Handle, OneDrainer(q), UNCHANGED <<globalVars, wq>>,
           in_global'[q] = in_global[q]
    PROVE  OneDrainer(q)'
  BY DEF OneDrainer, ListedOnce, Referenced, Held, globalVars

\* skynet_mq_push lists q only if it has no owner.
LEMMA DrainerPush ==
    ASSUME mqTypeOK, NEW q \in Handle, OneDrainer(q), NEW p \in Handle, NEW m,
           skynet_mq_push(p, m), UNCHANGED wq
    PROVE  OneDrainer(q)'
  <1>1. CASE in_global[p] # 0
    BY <1>1, DrainerFrame DEF skynet_mq_push, mqTypeOK, globalVars
  <1>2. CASE in_global[p] = 0 /\ p # q
    <2>1. skynet_globalmq_push(p) /\ in_global'[q] = in_global[q]
      BY <1>2 DEF skynet_mq_push, mqTypeOK
    <2>2. ListedOnce(q)' /\ (Referenced(q)' => Referenced(q))
      BY <1>2, <2>1, PushOther DEF OneDrainer
    <2> QED
      BY <2>1, <2>2 DEF OneDrainer, Held
  <1>3. CASE in_global[p] = 0 /\ p = q
    <2>1. skynet_globalmq_push(q) /\ in_global'[q] = 1
      BY <1>3 DEF skynet_mq_push, mqTypeOK
    <2>2. ~Referenced(q) /\ ~Held(q)
      BY <1>3 DEF OneDrainer
    <2> QED
      BY <2>1, <2>2, PushSelf DEF OneDrainer, Held
  <1> QED
    BY <1>1, <1>2, <1>3

\* Every step keeps OneDrainer, for each of the task queues.
LEMMA DrainerStep ==
    ASSUME TypeOK, NEW q \in TaskQueue, OneDrainer(q), [Next]_vars
    PROVE  OneDrainer(q)'
  <1> USE DEF mqVars, workerVars, mainVars, envVars
  <1>a. /\ q \in Handle /\ q # EVENT_NET /\ q # EVENT_SYS /\ q # NULL
        /\ EVENT_NET \in Handle /\ EVENT_SYS \in Handle /\ EVENT_ECHO \in Handle
        /\ Returns \subseteq Handle /\ TimerTypes \subseteq Handle
    BY NullAssumption, DispatchAssumption DEF TaskQueue, Handle, EVENT_NET,
       EVENT_SYS, EVENT_ECHO, EVENT_MAX
  <1>b. mqTypeOK /\ wq \in [Worker -> Handle \cup {NULL}]
    BY DEF TypeOK
  <1>1. ASSUME NEW w \in Worker, TakeQueue(w) PROVE OneDrainer(q)'
    <2>1. /\ skynet_globalmq_pop /\ wq' = [wq EXCEPT ![w] = Qhead]
          /\ UNCHANGED in_global
      BY <1>1 DEF TakeQueue
    <2>2. /\ ListedOnce(q)'
          /\ Referenced(q)' => Referenced(q)
          /\ q = Qhead => ~Referenced(q)'
      BY <2>1, <1>a, <1>b, PopOnce DEF OneDrainer
    <2>3. CASE q = Qhead
      <3>1. Referenced(q)
        BY <2>3 DEF Referenced
      <3> QED
        BY <3>1, <2>1, <2>2, <2>3, <1>b DEF OneDrainer, Held
    <2>4. CASE q # Qhead
      <3>1. \A v \in Worker : wq'[v] = q => wq[v] = q
        BY <2>1, <2>4, <1>b
      <3> QED
        BY <3>1, <2>1, <2>2 DEF OneDrainer, Held
    <2> QED
      BY <2>3, <2>4
  <1>2. ASSUME NEW w \in Worker, PopEmpty(w) PROVE OneDrainer(q)'
    <2>1. /\ in_global' = [in_global EXCEPT ![wq[w]] = 0]
          /\ UNCHANGED globalVars
          /\ wq' = [wq EXCEPT ![w] = NULL]
      BY <1>2 DEF PopEmpty, skynet_mq_pop_empty
    <2>2. \A v \in Worker : wq'[v] = q => wq[v] = q /\ v # w
      BY <2>1, <1>a, <1>b
    <2>3. ListedOnce(q)' /\ (Referenced(q)' <=> Referenced(q))
      BY <2>1 DEF OneDrainer, ListedOnce, Referenced, globalVars
    <2>4. CASE wq[w] = q
      BY <2>1, <2>2, <2>3, <2>4 DEF OneDrainer, Held
    <2>5. CASE wq[w] # q
      <3>1. in_global'[q] = in_global[q]
        BY <2>1, <2>5, <1>a, <1>b DEF mqTypeOK
      <3> QED
        BY <3>1, <2>2, <2>3 DEF OneDrainer, Held
    <2> QED
      BY <2>4, <2>5
  <1>3. ASSUME NEW w \in Worker, OutOfSands(w) PROVE OneDrainer(q)'
    <2>1. /\ skynet_globalmq_push(wq[w]) /\ UNCHANGED in_global
          /\ wq' = [wq EXCEPT ![w] = NULL]
          /\ wq[w] \in Handle
      BY <1>3, <1>b DEF OutOfSands, TypeOK
    <2>2. \A v \in Worker : wq'[v] = q => wq[v] = q /\ v # w
      BY <2>1, <1>a, <1>b
    <2>3. CASE wq[w] = q
      <3>1. Held(q) /\ ~Referenced(q) /\ in_global[q] # 0
        BY <2>3 DEF OneDrainer, Held
      <3>2. ListedOnce(q)'
        BY <2>1, <2>3, <3>1, <1>a, <1>b, PushSelf
      <3> QED
        BY <3>1, <3>2, <2>1, <2>2, <2>3 DEF OneDrainer, Held
    <2>4. CASE wq[w] # q
      <3>1. ListedOnce(q)' /\ (Referenced(q)' => Referenced(q))
        BY <2>1, <2>4, <1>a, <1>b, PushOther DEF OneDrainer
      <3> QED
        BY <3>1, <2>1, <2>2 DEF OneDrainer, Held
    <2> QED
      BY <2>3, <2>4
  <1>4. ASSUME NEW w \in Worker, NetPush(w) \/ ProcessTask(w) PROVE OneDrainer(q)'
    BY <1>4, <1>a, <1>b, DrainerPush DEF NetPush, ProcessTask
  <1>5. CASE Read \/ Expire
    BY <1>5, <1>a, <1>b, DrainerPush DEF Read, Expire
  <1>6. ASSUME NEW w \in Worker, ProcessNet(w) PROVE OneDrainer(q)'
    BY <1>6, <1>a, <1>b, DrainerFrame DEF ProcessNet, skynet_mq_global, mqTypeOK
  <1>7. CASE RouteEmpty \/ TimerEmpty
    BY <1>7, <1>a, <1>b, DrainerFrame
       DEF RouteEmpty, TimerEmpty, skynet_mq_pop_empty, mqTypeOK
  <1>8. ASSUME NEW w \in Worker,
               \/ StartJob(w) \/ NoQueue(w) \/ AssertFails(w) \/ PopTask(w)
               \/ PopNet(w) \/ ProcessFails(w) \/ ProcessNone(w) \/ AddWork(w)
        PROVE  OneDrainer(q)'
    BY <1>8, <1>a, DrainerFrame
       DEF StartJob, NoQueue, AssertFails, PopTask, PopNet, ProcessFails,
           ProcessNone, AddWork, skynet_mq_pop, globalVars
  <1>9. CASE \/ ReadWork \/ RouteStart \/ RoutePop \/ TimerStart \/ TimerPop
           \/ TickWork \/ TickEnd \/ UNCHANGED vars
    BY <1>9, <1>a, DrainerFrame
       DEF ReadWork, RouteStart, RoutePop, TimerStart, TimerPop, TickWork,
           TickEnd, vars, skynet_mq_pop, globalVars
  <1> QED
    BY <1>1, <1>2, <1>3, <1>4, <1>5, <1>6, <1>7, <1>8, <1>9
       DEF Next, MainStep, RouteLoop, TimerLoop, WorkerStep

\* The inductive invariant behind SerialHandlers.
DrainerInv == TypeOK /\ \A q \in TaskQueue : OneDrainer(q)

\* DrainerInv says what the three properties say.
LEMMA DrainerMeaning ==
    ASSUME DrainerInv
    PROVE  SerialHandlers /\ TaskFlagClear /\ TaskListedOnce
  BY DEF DrainerInv, OneDrainer, SerialHandlers, TaskFlagClear, TaskListedOnce

\* DrainerInv holds in every state.
LEMMA DrainerCorrect == Spec => []DrainerInv
  <1>1. Init => DrainerInv
    <2> SUFFICES ASSUME Init, NEW q \in TaskQueue PROVE OneDrainer(q)
      BY InitType DEF DrainerInv
    <2>1. q \in Handle /\ q # NULL
      BY NullAssumption DEF TaskQueue
    <2> QED
      BY <2>1 DEF Init, skynet_mq_init, skynet_mq_create, OneDrainer, ListedOnce,
                  Referenced, Held
  <1>2. DrainerInv /\ [Next]_vars => DrainerInv'
    BY TypeStep, DrainerStep DEF DrainerInv, TaskQueue, Handle
  <1> QED
    BY <1>1, <1>2, PTL DEF Spec

\* No two threads of the pool ever drain the same task queue: handlers of one
\* event type never run concurrently, whatever the handlers return and
\* whatever the EVENT_NET and EVENT_SYS queues do to the global list.
THEOREM SerialHandlersCorrect == Spec => []SerialHandlers
  BY DrainerCorrect, DrainerMeaning, PTL

\* A task queue whose in_global flag is clear has no owner.
THEOREM TaskFlagClearCorrect == Spec => []TaskFlagClear
  BY DrainerCorrect, DrainerMeaning, PTL

\* A task queue is never in the global list twice, nor listed and drained.
THEOREM TaskListedOnceCorrect == Spec => []TaskListedOnce
  BY DrainerCorrect, DrainerMeaning, PTL

-----------------------------------------------------------------------------
(* No message is left in a queue whose flag is clear.                      *)

\* A queue is nonempty after a push to it, and then its flag is set.
LEMMA FlaggedPush ==
    ASSUME mqTypeOK, NonemptyFlagged, NEW p \in Handle, NEW m \in Msg,
           skynet_mq_push(p, m)
    PROVE  NonemptyFlagged'
  <1> SUFFICES ASSUME NEW q \in Handle, queue'[q] # <<>>
               PROVE  in_global'[q] = 1
    BY DEF NonemptyFlagged
  <1>1. in_global[q] \in {0, 1} /\ in_global'[p] = 1
    BY DEF mqTypeOK, skynet_mq_push
  <1>2. q # p => queue'[q] = queue[q] /\ in_global'[q] = in_global[q]
    BY DEF mqTypeOK, skynet_mq_push
  <1> QED
    BY <1>1, <1>2 DEF NonemptyFlagged

\* The other operations: a pop leaves the flag of a nonempty queue alone, and
\* only the flag of an empty queue is cleared.
LEMMA FlaggedOthers ==
    ASSUME mqTypeOK, NonemptyFlagged, NEW p \in Handle,
           \/ skynet_mq_pop(p)
           \/ skynet_mq_pop_empty(p)
           \/ skynet_mq_global(p, 1)
           \/ UNCHANGED <<in_global, queue>>
    PROVE  NonemptyFlagged'
  <1>1. CASE skynet_mq_pop(p)
    BY <1>1 DEF NonemptyFlagged, mqTypeOK, skynet_mq_pop
  <1>2. CASE skynet_mq_pop_empty(p)
    BY <1>2 DEF NonemptyFlagged, mqTypeOK, skynet_mq_pop_empty
  <1>3. CASE skynet_mq_global(p, 1)
    BY <1>3 DEF NonemptyFlagged, mqTypeOK, skynet_mq_global
  <1>4. CASE UNCHANGED <<in_global, queue>>
    BY <1>4 DEF NonemptyFlagged
  <1> QED
    BY <1>1, <1>2, <1>3, <1>4

\* A queue that holds messages has its in_global flag set, in every state.
THEOREM NonemptyFlaggedCorrect == Spec => []NonemptyFlagged
  <1>1. Init => NonemptyFlagged
    BY DEF Init, skynet_mq_create, NonemptyFlagged
  <1>2. TypeOK /\ NonemptyFlagged /\ [Next]_vars => NonemptyFlagged'
    <2> SUFFICES ASSUME TypeOK, NonemptyFlagged, [Next]_vars
                 PROVE  NonemptyFlagged'
      OBVIOUS
    <2> USE DEF mqVars
    <2>a. /\ EVENT_NET \in Handle /\ EVENT_SYS \in Handle /\ EVENT_ECHO \in Handle
          /\ Returns \subseteq Handle /\ TimerTypes \subseteq Handle
      BY DispatchAssumption DEF Handle, EVENT_NET, EVENT_SYS, EVENT_ECHO, EVENT_MAX
    <2>b. mqTypeOK
      BY DEF TypeOK
    <2>c. \A w \in Worker :
            /\ wpc[w] \notin {"idle", "gpop"} => wq[w] \in Handle
            /\ wpc[w] \in {"process", "netpush"} => wmsg[w] \in Msg
      BY DEF TypeOK
    <2>1. ASSUME NEW w \in Worker, NetPush(w) \/ ProcessTask(w)
          PROVE  NonemptyFlagged'
      BY <2>1, <2>a, <2>b, <2>c, FlaggedPush DEF NetPush, ProcessTask
    <2>2. CASE Read
      BY <2>2, <2>a, <2>b, FlaggedPush DEF Read
    <2>3. CASE Expire
      BY <2>3, <2>a, <2>b, FlaggedPush DEF Expire, TypeOK
    <2>4. ASSUME NEW w \in Worker, PopTask(w) \/ PopEmpty(w) \/ PopNet(w)
          PROVE  NonemptyFlagged'
      BY <2>4, <2>a, <2>b, <2>c, FlaggedOthers DEF PopTask, PopEmpty, PopNet
    <2>5. ASSUME NEW w \in Worker, ProcessNet(w)
          PROVE  NonemptyFlagged'
      BY <2>5, <2>a, <2>b, FlaggedOthers DEF ProcessNet
    <2>6. CASE RoutePop \/ RouteEmpty \/ TimerPop \/ TimerEmpty
      BY <2>6, <2>a, <2>b, FlaggedOthers
         DEF RoutePop, RouteEmpty, TimerPop, TimerEmpty
    <2>7. ASSUME NEW w \in Worker,
                 \/ StartJob(w) \/ TakeQueue(w) \/ NoQueue(w) \/ AssertFails(w)
                 \/ OutOfSands(w) \/ ProcessFails(w) \/ ProcessNone(w)
                 \/ AddWork(w)
          PROVE  NonemptyFlagged'
      BY <2>7, <2>a, <2>b, FlaggedOthers
         DEF StartJob, TakeQueue, NoQueue, AssertFails, OutOfSands,
             ProcessFails, ProcessNone, AddWork
    <2>8. CASE \/ ReadWork \/ RouteStart \/ TimerStart \/ TickWork \/ TickEnd
               \/ UNCHANGED vars
      BY <2>8, <2>a, <2>b, FlaggedOthers
         DEF ReadWork, RouteStart, TimerStart, TickWork, TickEnd, vars
    <2> QED
      BY <2>1, <2>2, <2>3, <2>4, <2>5, <2>6, <2>7, <2>8
         DEF Next, MainStep, RouteLoop, TimerLoop, WorkerStep
  <1> QED
    BY <1>1, <1>2, TypeCorrect, PTL DEF Spec

-----------------------------------------------------------------------------
(* Every message has one owner.                                            *)

\* Message m is the i-th of queue q.
At(q, i, m) == i \in DOMAIN queue[q] /\ queue[q][i] = m

\* m is in at most one place, and in one exactly while it is live.
Own(m) ==
    /\ \A q, r \in Handle, i, j \in Nat : At(q, i, m) /\ At(r, j, m) => q = r /\ i = j
    /\ \A q \in Handle, i \in Nat : At(q, i, m) => m \notin armed /\ \A w \in Worker : wmsg[w] # m
    /\ \A v, w \in Worker : wmsg[v] = m /\ wmsg[w] = m => v = w
    /\ \A w \in Worker : wmsg[w] = m => m \notin armed
    /\ fate[m] = "live" <=>
         \/ m \in armed
         \/ \E w \in Worker : wmsg[w] = m
         \/ \E q \in Handle, i \in Nat : At(q, i, m)

\* A push adds one place, at the end of the queue.
LEMMA PushAt ==
    ASSUME mqTypeOK, NEW q \in Handle, NEW m \in Msg, skynet_mq_push(q, m),
           NEW r \in Handle, NEW i \in Nat, NEW n
    PROVE  At(r, i, n)' <=> At(r, i, n) \/ (r = q /\ n = m /\ i = Len(queue[q]) + 1)
  <1>1. queue' = [queue EXCEPT ![q] = Append(@, m)] /\ queue \in [Handle -> Seq(Msg)]
    BY DEF skynet_mq_push, mqTypeOK
  <1>2. CASE r # q
    BY <1>1, <1>2 DEF At
  <1>3. CASE r = q
    <2>1. queue'[q] = Append(queue[q], m) /\ queue[q] \in Seq(Msg)
      BY <1>1
    <2> QED
      BY <1>3, <2>1 DEF At
  <1> QED
    BY <1>2, <1>3

\* A pop takes the first place away, and moves the others of the queue up.
LEMMA PopAt ==
    ASSUME mqTypeOK, NEW q \in Handle, skynet_mq_pop(q),
           NEW r \in Handle, NEW i \in Nat, NEW n
    PROVE  At(r, i, n)' <=> IF r = q THEN i # 0 /\ At(q, i + 1, n) ELSE At(r, i, n)
  <1>1. /\ queue' = [queue EXCEPT ![q] = Tail(@)] /\ queue \in [Handle -> Seq(Msg)]
        /\ queue[q] # <<>>
    BY DEF skynet_mq_pop, mqTypeOK
  <1>2. CASE r # q
    BY <1>1, <1>2 DEF At
  <1>3. CASE r = q
    <2>1. queue'[q] = Tail(queue[q]) /\ queue[q] \in Seq(Msg) /\ queue[q] # <<>>
      BY <1>1
    <2> QED
      BY <1>3, <2>1 DEF At
  <1> QED
    BY <1>2, <1>3

\* The first place is that of the message that the caller gets.
LEMMA HeadAt ==
    ASSUME mqTypeOK, NEW q \in Handle, skynet_mq_pop(q), NEW n
    PROVE  /\ At(q, 1, n) <=> n = Head(queue[q])
           /\ \A i \in Nat : At(q, i, n) => i # 0
           /\ Head(queue[q]) \in Msg
  <1>1. queue[q] \in Seq(Msg) /\ queue[q] # <<>>
    BY DEF skynet_mq_pop, mqTypeOK
  <1> QED
    BY <1>1 DEF At

\* A message that is in no queue.
Unqueued(m) == \A q \in Handle, i \in Nat : ~At(q, i, m)

\* What happens to another message leaves m where it is.
Apart(m) ==
    /\ fate'[m] = fate[m]
    /\ m \in armed' <=> m \in armed
    /\ \A w \in Worker : wmsg'[w] = m <=> wmsg[w] = m

\* A step that leaves m where it is in the queues, apart from what else has it.
LEMMA OwnSame ==
    ASSUME NEW m \in Msg, Own(m), Apart(m),
           \A q \in Handle, i \in Nat : At(q, i, m)' <=> At(q, i, m)
    PROVE  Own(m)'
  <1>1. \A q, r \in Handle, i, j \in Nat : At(q, i, m)' /\ At(r, j, m)' => q = r /\ i = j
    BY DEF Own
  <1>2. \A q \in Handle, i \in Nat : At(q, i, m)' => m \notin armed' /\ \A w \in Worker : wmsg'[w] # m
    BY DEF Own, Apart
  <1>3. /\ \A v, w \in Worker : wmsg'[v] = m /\ wmsg'[w] = m => v = w
        /\ \A w \in Worker : wmsg'[w] = m => m \notin armed'
    BY DEF Own, Apart
  <1>4. fate'[m] = "live" <=> \/ m \in armed'
                              \/ \E w \in Worker : wmsg'[w] = m
                              \/ \E q \in Handle, i \in Nat : At(q, i, m)'
    BY DEF Own, Apart
  <1> QED
    BY <1>1, <1>2, <1>3, <1>4 DEF Own

\* A step that touches no queue.
LEMMA OwnFrame ==
    ASSUME NEW m \in Msg, Own(m), Apart(m), UNCHANGED queue
    PROVE  Own(m)'
  <1>1. \A q \in Handle, i \in Nat : At(q, i, m)' <=> At(q, i, m)
    BY DEF At
  <1> QED
    BY <1>1, OwnSame

\* A push of another message.
LEMMA OwnPushOther ==
    ASSUME mqTypeOK, NEW m \in Msg, Own(m), Apart(m),
           NEW q \in Handle, NEW n \in Msg, n # m, skynet_mq_push(q, n)
    PROVE  Own(m)'
  <1>1. \A r \in Handle, i \in Nat : At(r, i, m)' <=> At(r, i, m)
    BY PushAt
  <1> QED
    BY <1>1, OwnSame

\* A push of m itself, which was in no queue, by whoever had it.
LEMMA OwnPushSelf ==
    ASSUME mqTypeOK, NEW m \in Msg, Unqueued(m), NEW q \in Handle, skynet_mq_push(q, m),
           fate'[m] = "live", m \notin armed', \A w \in Worker : wmsg'[w] # m
    PROVE  Own(m)'
  <1>1. Len(queue[q]) + 1 \in Nat
    <2>1. queue[q] \in Seq(Msg)
      BY DEF mqTypeOK
    <2> QED
      BY <2>1
  <1>2. ASSUME NEW r \in Handle, NEW i \in Nat
        PROVE  At(r, i, m)' <=> (r = q /\ i = Len(queue[q]) + 1)
    <2>1. At(r, i, m)' <=> At(r, i, m) \/ (r = q /\ m = m /\ i = Len(queue[q]) + 1)
      BY PushAt
    <2> QED
      BY <2>1 DEF Unqueued
  <1>3. \A u, r \in Handle, i, j \in Nat : At(u, i, m)' /\ At(r, j, m)' => u = r /\ i = j
    BY <1>2
  <1>4. \E u \in Handle, i \in Nat : At(u, i, m)'
    BY <1>1, <1>2
  <1> QED
    BY <1>3, <1>4 DEF Own

\* A pop of another message.
LEMMA OwnPopOther ==
    ASSUME mqTypeOK, NEW m \in Msg, Own(m), Apart(m),
           NEW q \in Handle, skynet_mq_pop(q), m # Head(queue[q])
    PROVE  Own(m)'
  <1>1. \A r \in Handle, i \in Nat :
            At(r, i, m)' <=> IF r = q THEN i # 0 /\ At(q, i + 1, m) ELSE At(r, i, m)
    BY PopAt
  <1>2. ~At(q, 1, m) /\ \A i \in Nat : At(q, i, m) => i # 0
    BY HeadAt
  <1>3. \A i \in Nat : At(q, i, m) => i - 1 \in Nat /\ i - 1 # 0 /\ (i - 1) + 1 = i
    BY <1>2
  <1>4. (\E r \in Handle, i \in Nat : At(r, i, m)') <=> \E r \in Handle, i \in Nat : At(r, i, m)
    <2>1. ASSUME NEW r \in Handle, NEW i \in Nat, At(r, i, m)
          PROVE  \E u \in Handle, j \in Nat : At(u, j, m)'
      <3>1. CASE r = q
        BY <2>1, <3>1, <1>1, <1>3
      <3>2. CASE r # q
        BY <2>1, <3>2, <1>1
      <3> QED
        BY <3>1, <3>2
    <2>2. ASSUME NEW r \in Handle, NEW i \in Nat, At(r, i, m)'
          PROVE  \E u \in Handle, j \in Nat : At(u, j, m)
      BY <2>2, <1>1
    <2> QED
      BY <2>1, <2>2
  <1>5. ASSUME NEW r \in Handle, NEW u \in Handle, NEW i \in Nat, NEW j \in Nat,
               At(r, i, m)', At(u, j, m)'
        PROVE  r = u /\ i = j
    <2> DEFINE k == IF r = q THEN i + 1 ELSE i
               l == IF u = q THEN j + 1 ELSE j
    <2>1. k \in Nat /\ l \in Nat /\ At(r, k, m) /\ At(u, l, m)
      BY <1>5, <1>1
    <2>2. r = u /\ k = l
      BY <2>1 DEF Own
    <2> QED
      BY <2>2
  <1>6. ASSUME NEW r \in Handle, NEW i \in Nat, At(r, i, m)'
        PROVE  m \notin armed' /\ \A w \in Worker : wmsg'[w] # m
    BY <1>4, <1>6 DEF Own, Apart
  <1> QED
    BY <1>4, <1>5, <1>6 DEF Own, Apart

\* A pop of m itself takes it out of the queues, and nobody else has it.
LEMMA OwnPopSelf ==
    ASSUME mqTypeOK, NEW m \in Msg, Own(m), NEW q \in Handle, skynet_mq_pop(q),
           m = Head(queue[q])
    PROVE  /\ Unqueued(m)'
           /\ fate[m] = "live" /\ m \notin armed /\ \A w \in Worker : wmsg[w] # m
  <1>1. \A r \in Handle, i \in Nat :
            At(r, i, m)' <=> IF r = q THEN i # 0 /\ At(q, i + 1, m) ELSE At(r, i, m)
    BY PopAt
  <1>2. At(q, 1, m)
    BY HeadAt
  <1>3. \A r \in Handle, i \in Nat : At(r, i, m) => r = q /\ i = 1
    BY <1>2 DEF Own
  <1>4. ASSUME NEW r \in Handle, NEW i \in Nat PROVE ~At(r, i, m)'
    <2>1. CASE r = q
      <3>1. i # 0 => i + 1 \in Nat /\ i + 1 # 1
        OBVIOUS
      <3> QED
        BY <1>1, <1>3, <2>1, <3>1
    <2>2. CASE r # q
      BY <1>1, <1>3, <2>2
    <2> QED
      BY <2>1, <2>2
  <1> QED
    BY <1>2, <1>4 DEF Own, Unqueued

\* A message in no queue, in the hands of a worker, in the wheel, or finished.
LEMMA OwnOutside ==
    ASSUME NEW m \in Msg, Unqueued(m)',
           \/ /\ fate'[m] # "live" /\ m \notin armed'
              /\ \A w \in Worker : wmsg'[w] # m
           \/ /\ fate'[m] = "live" /\ m \in armed'
              /\ \A w \in Worker : wmsg'[w] # m
           \/ /\ fate'[m] = "live" /\ m \notin armed'
              /\ \E v \in Worker : \A w \in Worker : wmsg'[w] = m <=> w = v
    PROVE  Own(m)'
  BY DEF Own, Unqueued

\* Every step keeps every message in its one place, or moves it to another.
LEMMA OwnStep ==
    ASSUME TypeOK, NEW m \in Msg, Own(m), [Next]_vars
    PROVE  Own(m)'
  <1> USE DEF mqVars, workerVars, mainVars, envVars
  <1>a. /\ EVENT_NET \in Handle /\ EVENT_SYS \in Handle /\ EVENT_ECHO \in Handle
        /\ Returns \subseteq Handle /\ TimerTypes \subseteq Handle /\ m # NULL
    BY NullAssumption, DispatchAssumption DEF Handle, EVENT_NET, EVENT_SYS, EVENT_ECHO,
       EVENT_MAX
  <1>b. /\ mqTypeOK /\ wmsg \in [Worker -> Msg \cup {NULL}] /\ fate \in [Msg -> Fates]
        /\ armed \subseteq Msg
    BY DEF TypeOK
  <1>c. \A w \in Worker :
            /\ wpc[w] \notin {"idle", "gpop"} => wq[w] \in Handle
            /\ wpc[w] \in {"process", "netpush"} => wmsg[w] \in Msg
            /\ wpc[w] \notin {"process", "netpush"} => wmsg[w] = NULL
    BY DEF TypeOK
  <1>1. ASSUME NEW w \in Worker,
               \/ StartJob(w) \/ TakeQueue(w) \/ NoQueue(w) \/ AssertFails(w)
               \/ PopEmpty(w) \/ OutOfSands(w) \/ ProcessNet(w) \/ AddWork(w)
        PROVE  Own(m)'
    <2>1. UNCHANGED <<queue, fate, armed, wmsg>>
      BY <1>1, <1>b, <1>c DEF StartJob, TakeQueue, NoQueue, AssertFails, PopEmpty,
         OutOfSands, ProcessNet, AddWork, EndProcess, skynet_mq_pop_empty,
         skynet_mq_global
    <2> QED
      BY <2>1, OwnFrame DEF Apart
  <1>2. CASE \/ ReadWork \/ RouteStart \/ RouteEmpty \/ TimerStart \/ TimerEmpty
             \/ TickWork \/ TickEnd \/ UNCHANGED vars
    <2>1. UNCHANGED <<queue, fate, armed, wmsg>>
      BY <1>2 DEF ReadWork, RouteStart, RouteEmpty, TimerStart, TimerEmpty, TickWork,
         TickEnd, vars, skynet_mq_pop_empty
    <2> QED
      BY <2>1, OwnFrame DEF Apart
  <1>3. ASSUME NEW w \in Worker, PopTask(w) PROVE Own(m)'
    <2>1. /\ wq[w] \in Handle /\ skynet_mq_pop(wq[w]) /\ UNCHANGED <<fate, armed>>
          /\ wmsg' = [wmsg EXCEPT ![w] = Head(queue[wq[w]])] /\ wmsg[w] = NULL
      BY <1>3, <1>c DEF PopTask
    <2>2. CASE m = Head(queue[wq[w]])
      <3>1. /\ Unqueued(m)' /\ fate[m] = "live" /\ m \notin armed
            /\ \A v \in Worker : wmsg[v] # m
        BY <2>1, <2>2, <1>b, OwnPopSelf
      <3> QED
        BY <2>1, <2>2, <3>1, <1>b, OwnOutside
    <2>3. CASE m # Head(queue[wq[w]])
      BY <2>1, <2>3, <1>a, <1>b, OwnPopOther DEF Apart
    <2> QED
      BY <2>2, <2>3
  <1>4. ASSUME NEW w \in Worker, PopNet(w) PROVE Own(m)'
    <2>1. /\ skynet_mq_pop(EVENT_NET) /\ UNCHANGED <<wmsg, armed>>
          /\ fate' = [fate EXCEPT ![Head(queue[EVENT_NET])] = "dropped"]
      BY <1>4 DEF PopNet
    <2>2. CASE m = Head(queue[EVENT_NET])
      BY <2>1, <2>2, <1>a, <1>b, OwnPopSelf, OwnOutside
    <2>3. CASE m # Head(queue[EVENT_NET])
      BY <2>1, <2>3, <1>a, <1>b, OwnPopOther DEF Apart
    <2> QED
      BY <2>2, <2>3
  <1>5. CASE RoutePop
    <2>1. /\ skynet_mq_pop(EVENT_NET) /\ UNCHANGED <<wmsg, armed>>
          /\ fate' = [fate EXCEPT ![Head(queue[EVENT_NET])] = "routed"]
      BY <1>5 DEF RoutePop
    <2>2. CASE m = Head(queue[EVENT_NET])
      BY <2>1, <2>2, <1>a, <1>b, OwnPopSelf, OwnOutside
    <2>3. CASE m # Head(queue[EVENT_NET])
      BY <2>1, <2>3, <1>a, <1>b, OwnPopOther DEF Apart
    <2> QED
      BY <2>2, <2>3
  <1>6. ASSUME NEW w \in Worker, ProcessFails(w) \/ ProcessNone(w) PROVE Own(m)'
    <2>1. /\ UNCHANGED <<queue, armed>> /\ wmsg' = [wmsg EXCEPT ![w] = NULL]
          /\ wmsg[w] \in Msg
          /\ \/ fate' = [fate EXCEPT ![wmsg[w]] = "leaked"]
             \/ fate' = [fate EXCEPT ![wmsg[w]] = "freed"]
      BY <1>6, <1>c DEF ProcessFails, ProcessNone, EndProcess
    <2>2. CASE m = wmsg[w]
      <3>1. Unqueued(m) /\ m \notin armed /\ \A v \in Worker : wmsg[v] = m => v = w
        BY <2>2 DEF Own, Unqueued
      <3>2. Unqueued(m)'
        BY <3>1, <2>1 DEF Unqueued, At
      <3>3. fate'[m] # "live"
        BY <2>1, <2>2, <1>b
      <3>4. \A v \in Worker : wmsg'[v] # m
        BY <2>1, <3>1, <1>a, <1>b
      <3> QED
        BY <2>1, <3>1, <3>2, <3>3, <3>4, OwnOutside
    <2>3. CASE m # wmsg[w]
      BY <2>1, <2>3, <1>a, <1>b, OwnFrame DEF Apart
    <2> QED
      BY <2>2, <2>3
  <1>7. ASSUME NEW w \in Worker, NetPush(w) \/ ProcessTask(w) PROVE Own(m)'
    <2>1. /\ UNCHANGED <<fate, armed>> /\ wmsg' = [wmsg EXCEPT ![w] = NULL]
          /\ wmsg[w] \in Msg
          /\ \E q \in Handle : skynet_mq_push(q, wmsg[w])
      BY <1>7, <1>a, <1>c DEF NetPush, ProcessTask, EndProcess
    <2>2. PICK q \in Handle : skynet_mq_push(q, wmsg[w])
      BY <2>1
    <2>3. CASE m = wmsg[w]
      <3>1. /\ Unqueued(m) /\ m \notin armed /\ fate[m] = "live"
            /\ \A v \in Worker : wmsg[v] = m => v = w
        BY <2>3 DEF Own, Unqueued
      <3>2. \A v \in Worker : wmsg'[v] # m
        BY <2>1, <3>1, <1>a, <1>b
      <3> QED
        BY <2>1, <2>2, <2>3, <3>1, <3>2, <1>b, OwnPushSelf
    <2>4. CASE m # wmsg[w]
      <3>1. Apart(m)
        BY <2>1, <2>4, <1>a, <1>b DEF Apart
      <3> QED
        BY <2>1, <2>2, <2>4, <3>1, <1>b, OwnPushOther
    <2> QED
      BY <2>3, <2>4
  <1>8. CASE Read
    <2>1. PICK n \in Msg : /\ fate[n] = "fresh" /\ fate' = [fate EXCEPT ![n] = "live"]
                           /\ skynet_mq_push(EVENT_ECHO, n) /\ UNCHANGED <<armed, wmsg>>
      BY <1>8 DEF Read
    <2>2. CASE m = n
      <3>1. Unqueued(m) /\ m \notin armed /\ \A v \in Worker : wmsg[v] # m
        BY <2>1, <2>2 DEF Own, Unqueued
      <3> QED
        BY <2>1, <2>2, <3>1, <1>a, <1>b, OwnPushSelf
    <2>3. CASE m # n
      <3>1. Apart(m)
        BY <2>1, <2>3, <1>b DEF Apart
      <3> QED
        BY <2>1, <2>3, <3>1, <1>a, <1>b, OwnPushOther
    <2> QED
      BY <2>2, <2>3
  <1>9. CASE TimerPop
    <2> DEFINE h == Head(queue[EVENT_SYS])
    <2>1. /\ skynet_mq_pop(EVENT_SYS) /\ UNCHANGED wmsg
          /\ \/ armed' = armed \cup {h} /\ UNCHANGED fate
             \/ fate' = [fate EXCEPT ![h] = "leaked"] /\ UNCHANGED armed
      BY <1>9 DEF TimerPop
    <2>2. CASE m = h
      <3>1. /\ Unqueued(m)' /\ fate[m] = "live" /\ m \notin armed
            /\ \A v \in Worker : wmsg[v] # m
        BY <2>1, <2>2, <1>a, <1>b, OwnPopSelf
      <3> QED
        BY <2>1, <2>2, <3>1, <1>b, OwnOutside
    <2>3. CASE m # h
      <3>1. Apart(m)
        BY <2>1, <2>3, <1>b DEF Apart
      <3> QED
        BY <2>1, <2>3, <3>1, <1>a, <1>b, OwnPopOther
    <2> QED
      BY <2>2, <2>3
  <1>10. CASE Expire
    <2>1. PICK n \in armed, t \in TimerTypes :
              /\ armed' = armed \ {n} /\ skynet_mq_push(t, n) /\ UNCHANGED <<fate, wmsg>>
      BY <1>10 DEF Expire
    <2>2. n \in Msg /\ t \in Handle
      BY <1>a, <1>b
    <2>3. CASE m = n
      <3>1. Unqueued(m) /\ fate[m] = "live" /\ \A v \in Worker : wmsg[v] # m
        BY <2>3 DEF Own, Unqueued
      <3> QED
        BY <2>1, <2>2, <2>3, <3>1, <1>b, OwnPushSelf
    <2>4. CASE m # n
      <3>1. Apart(m)
        BY <2>1, <2>4 DEF Apart
      <3> QED
        BY <2>1, <2>2, <2>4, <3>1, <1>b, OwnPushOther
    <2> QED
      BY <2>3, <2>4
  <1> QED
    BY <1>1, <1>2, <1>3, <1>4, <1>5, <1>6, <1>7, <1>8, <1>9, <1>10
       DEF Next, MainStep, RouteLoop, TimerLoop, WorkerStep

\* What Own says of a message, in the words of OneOwner.
LEMMA OwnMeaning ==
    ASSUME TypeOK, NEW m \in Msg, Own(m)
    PROVE  Cardinality(Places(m)) = IF fate[m] = "live" THEN 1 ELSE 0
  <1>1. \A x : x \in Places(m) <=>
            \/ \E q \in Handle, i \in Nat : At(q, i, m) /\ x = <<q, i>>
            \/ x \in Worker /\ wmsg[x] = m
            \/ x = m /\ m \in armed
    <2>1. \A q \in Handle : DOMAIN queue[q] \subseteq Nat
      BY DEF TypeOK, mqTypeOK
    <2> QED
      BY <2>1 DEF Places, At
  <1>2. CASE fate[m] # "live"
    <2>1. Places(m) = {}
      BY <1>1, <1>2 DEF Own
    <2> QED
      BY <1>2, <2>1, FS_EmptySet
  <1>3. CASE fate[m] = "live"
    <2>1. \E x : Places(m) = {x}
      <3>1. CASE m \in armed
        <4>1. Places(m) = {m}
          BY <3>1, <1>1 DEF Own
        <4> QED
          BY <4>1
      <3>2. CASE \E w \in Worker : wmsg[w] = m
        <4>1. PICK w \in Worker : wmsg[w] = m
          BY <3>2
        <4>2. Places(m) = {w}
          BY <4>1, <1>1 DEF Own
        <4> QED
          BY <4>2
      <3>3. CASE \E q \in Handle, i \in Nat : At(q, i, m)
        <4>1. PICK q \in Handle, i \in Nat : At(q, i, m)
          BY <3>3
        <4>2. Places(m) = {<<q, i>>}
          BY <4>1, <1>1 DEF Own
        <4> QED
          BY <4>2
      <3> QED
        BY <1>3, <3>1, <3>2, <3>3 DEF Own
    <2> QED
      BY <1>3, <2>1, FS_Singleton
  <1> QED
    BY <1>2, <1>3

\* A message that was received and is not finished is in exactly one place, a queue, the
\* hands of a thread or the timer wheel, and a finished one in none.
THEOREM OneOwnerCorrect == Spec => []OneOwner
  <1> DEFINE OwnInv == \A m \in Msg : Own(m)
  <1>1. Init => OwnInv
    <2> SUFFICES ASSUME Init, NEW m \in Msg PROVE Own(m)
      OBVIOUS
    <2>1. Unqueued(m)
      BY DEF Unqueued, At, Init, skynet_mq_create
    <2> QED
      BY <2>1, NullAssumption DEF Own, Unqueued, Init
  <1>2. TypeOK /\ OwnInv /\ [Next]_vars => OwnInv'
    BY OwnStep
  <1>3. TypeOK /\ OwnInv => OneOwner
    BY OwnMeaning DEF OneOwner
  <1> QED
    BY <1>1, <1>2, <1>3, TypeCorrect, PTL DEF Spec
=============================================================================
