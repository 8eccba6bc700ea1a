--------------------------- MODULE Threads_proofs ---------------------------
(***************************************************************************)
(* Proofs about the threads' own synchronisation: the thread pool          *)
(* (Thpool), for every number of threads, jobs and users, and the          *)
(* read-write lock (Rwlock), for any finite set of threads.                *)
(***************************************************************************)
EXTENDS Thpool, Rwlock, FiniteSetTheorems, TLAPS

-----------------------------------------------------------------------------
(* Type correctness.                                                       *)

\* bsem_post moves at most one thread, from its sleep to the test of v.
LEMMA PostMoves ==
    ASSUME NEW p \in [Thread -> PC], bsem_post(p)
    PROVE  /\ pc' \in [Thread -> PC] /\ v' = 1
           /\ \A t \in Thread : pc'[t] = p[t] \/ (p[t] = "sleep" /\ pc'[t] = "wait")
           /\ (\E t \in Thread : p[t] = "sleep") => \E t \in Thread : pc'[t] = "wait"
  BY DEF bsem_post, PC

\* bsem_post_all moves every sleeping thread.
LEMMA PostAllMoves ==
    ASSUME pc \in [Thread -> PC], bsem_post_all
    PROVE  /\ pc' \in [Thread -> PC] /\ v' = 1
           /\ \A t \in Thread :
                pc'[t] = IF pc[t] = "sleep" THEN "wait" ELSE pc[t]
  BY DEF bsem_post_all, PC

\* pthread_cond_signal moves at most one waiting user.
LEMMA SignalMoves ==
    ASSUME waitpc \in [Waiter -> {"out", "test", "sleep", "back"}],
           SignalIdle \/ UNCHANGED waitpc
    PROVE  /\ waitpc' \in [Waiter -> {"out", "test", "sleep", "back"}]
           /\ \A c \in Waiter : waitpc'[c] = "back" => waitpc[c] = "back"
  BY DEF SignalIdle

\* Every step of thread_do and of the users keeps TypeOK.
LEMMA TypeStep ==
    ASSUME TypeOK, [Next]_vars
    PROVE  TypeOK'
  <1> USE ThpoolAssumption DEF TypeOK, PC, queueVars, countVars, holdVars
  <1>1. ASSUME NEW t \in Thread, Alive(t) PROVE TypeOK'
    BY <1>1 DEF Alive, At
  <1>2. ASSUME NEW t \in Thread, Loop(t) PROVE TypeOK'
    BY <1>2 DEF Loop, At
  <1>3. ASSUME NEW t \in Thread, bsem_wait(t) PROVE TypeOK'
    BY <1>3 DEF bsem_wait, At
  <1>4. ASSUME NEW t \in Thread, bsem_sleep(t) PROVE TypeOK'
    BY <1>4 DEF bsem_sleep, At
  <1>5. ASSUME NEW t \in Thread, Spurious(t) PROVE TypeOK'
    BY <1>5 DEF Spurious, At
  <1>6. ASSUME NEW t \in Thread, Count(t) PROVE TypeOK'
    BY <1>6 DEF Count, At
  <1>7. ASSUME NEW t \in Thread, LockQueue(t) PROVE TypeOK'
    BY <1>7 DEF LockQueue, At
  <1>8. ASSUME NEW t \in Thread, PullNone(t) PROVE TypeOK'
    BY <1>8 DEF PullNone, At
  <1>9. ASSUME NEW t \in Thread, PullLast(t) PROVE TypeOK'
    <2>1. Head(jobq) \in Job /\ <<>> \in Seq(Job)
      BY <1>9 DEF PullLast
    <2> QED
      BY <1>9, <2>1 DEF PullLast, At
  <1>10. ASSUME NEW t \in Thread, PullMore(t) PROVE TypeOK'
    <2>1. Head(jobq) \in Job /\ Tail(jobq) \in Seq(Job)
      BY <1>10 DEF PullMore
    <2>2. /\ pc' \in [Thread -> PC] /\ v' = 1
          /\ \A s \in Thread \ {t} :
                pc'[s] = pc[s] \/ (pc[s] = "sleep" /\ pc'[s] = "wait")
          /\ pc'[t] = "run"
      <3> DEFINE p == [pc EXCEPT ![t] = "run"]
      <3>1. /\ p \in [Thread -> PC] /\ p[t] = "run"
            /\ \A s \in Thread \ {t} : p[s] = pc[s]
        OBVIOUS
      <3>2. bsem_post(p)
        BY <1>10 DEF PullMore
      <3> HIDE DEF p, PC
      <3> QED
        BY <3>1, <3>2, PostMoves
    <2>3. pc[t] = "pulling" /\ rwmutex = t
      BY <1>10 DEF PullMore, At
    <2>4. /\ jobof' \in [Thread -> Job \cup {NULL}]
          /\ jobof'[t] # NULL
          /\ \A s \in Thread \ {t} : jobof'[s] = jobof[s]
      BY <1>10, <2>1 DEF PullMore
    <2>5. \A s \in Thread :
            /\ jobof'[s] # NULL <=> pc'[s] = "run"
            /\ rwmutex' = s <=> pc'[s] = "pulling"
            /\ thcount' = s <=> pc'[s] = "unlock"
      BY <1>10, <2>2, <2>3, <2>4 DEF PullMore
    <2> QED
      BY <1>10, <2>1, <2>2, <2>4, <2>5 DEF PullMore
  <1>11. ASSUME NEW t \in Thread, RunJob(t) PROVE TypeOK'
    BY <1>11 DEF RunJob, At
  <1>12. ASSUME NEW t \in Thread, Uncount(t) PROVE TypeOK'
    <2>1. waitpc' \in [Waiter -> {"out", "test", "sleep", "back"}]
      BY <1>12, SignalMoves DEF Uncount
    <2> QED
      BY <1>12, <2>1 DEF Uncount, At
  <1>13. ASSUME NEW t \in Thread, Exit(t) PROVE TypeOK'
    BY <1>13 DEF Exit, At
  <1>14. ASSUME NEW t \in Thread, Unlock(t) PROVE TypeOK'
    BY <1>14 DEF Unlock, At
  <1>15. ASSUME NEW t \in Thread, thread_hold(t) PROVE TypeOK'
    BY <1>15 DEF thread_hold
  <1>16. ASSUME NEW t \in Thread, Unhold(t) PROVE TypeOK'
    BY <1>16 DEF Unhold
  <1>17. CASE thpool_init
    BY <1>17 DEF thpool_init
  <1>18. ASSUME NEW j \in Job, thpool_add_work(j) PROVE TypeOK'
    <2>1. jobq' \in Seq(Job)
      BY <1>18 DEF thpool_add_work
    <2>2. /\ pc' \in [Thread -> PC] /\ v' = 1
          /\ \A s \in Thread : pc'[s] = pc[s] \/ (pc[s] = "sleep" /\ pc'[s] = "wait")
      BY <1>18, PostMoves DEF thpool_add_work
    <2> QED
      BY <1>18, <2>1, <2>2 DEF thpool_add_work
  <1>19. ASSUME NEW c \in Waiter,
                thpool_wait(c) \/ WaitSleep(c) \/ WaitSpurious(c) \/ WaitReturn(c)
         PROVE  TypeOK'
    <2>1. CASE thpool_wait(c)
      BY <2>1 DEF thpool_wait
    <2>2. CASE WaitSleep(c)
      BY <2>2 DEF WaitSleep
    <2>3. CASE WaitSpurious(c)
      BY <2>3 DEF WaitSpurious
    <2>4. CASE WaitReturn(c)
      BY <2>4 DEF WaitReturn
    <2> QED
      BY <1>19, <2>1, <2>2, <2>3, <2>4
  <1>20. CASE thpool_pause \/ thpool_resume
    <2>1. paused' \in BOOLEAN
      BY <1>20, Zenon DEF thpool_pause, thpool_resume
    <2> QED
      BY <1>20, <2>1 DEF thpool_pause, thpool_resume
  <1>21. CASE thpool_destroy
    BY <1>21 DEF thpool_destroy
  <1>22. CASE DestroyPoll
    BY <1>22, PostAllMoves DEF DestroyPoll
  <1>23. CASE DestroyFree
    BY <1>23 DEF DestroyFree
  <1>24. CASE UNCHANGED vars
    BY <1>24 DEF vars
  <1> QED
    BY <1>1, <1>2, <1>3, <1>4, <1>5, <1>6, <1>7, <1>8, <1>9, <1>10, <1>11,
       <1>12, <1>13, <1>14, <1>15, <1>16, <1>17, <1>18, <1>19, <1>20, <1>21,
       <1>22, <1>23, <1>24
       DEF Next, Users, DestroyStep, Signals, thread_do, PoolStep

\* TypeOK holds when the threads have been created.
LEMMA InitType == Init => TypeOK
  <1> SUFFICES ASSUME Init PROVE TypeOK
    OBVIOUS
  <1>1. jobq \in Seq(Job)
    BY DEF Init
  <1>2. paused \in BOOLEAN
    BY Zenon DEF Init
  <1>3. /\ pc \in [Thread -> PC]
        /\ waitpc \in [Waiter -> {"out", "test", "sleep", "back"}]
        /\ upc \in {"init", "up", "ending", "freed"}
    BY Zenon DEF Init, PC
  <1> QED
    BY <1>1, <1>2, <1>3, ThpoolAssumption DEF Init, TypeOK

\* TypeOK holds in every state of the pool.
THEOREM TypeCorrect == Spec => []TypeOK
  BY InitType, TypeStep, PTL DEF Spec

-----------------------------------------------------------------------------
(* No lost wakeup.                                                         *)

\* Threads that passed the semaphore and have not looked at the queue yet.
Coming == {"check", "pull", "pulling"}

\* The inductive invariant: queued jobs have the semaphore posted or a thread
\* coming, and a posted semaphore has a thread about to test it unless no thread
\* sleeps.
WakeInv ==
    /\ keepalive = 1 /\ jobq # <<>> =>
          v = 1 \/ \E t \in Thread : pc[t] \in Coming
    /\ v = 1 /\ (\E t \in Thread : pc[t] = "sleep") =>
          \E t \in Thread : pc[t] = "wait"

\* Steps of one thread that leave the semaphore and the queue alone, and leave
\* neither the test of v nor the way to the queue.
LEMMA WakeFrame ==
    ASSUME TypeOK, WakeInv, NEW t \in Thread, NEW x,
           pc' = [pc EXCEPT ![t] = x], UNCHANGED <<v, jobq, keepalive>>,
           pc[t] # "wait", x # "sleep", pc[t] \in Coming => x \in Coming
    PROVE  WakeInv'
  BY DEF TypeOK, WakeInv, Coming

\* Every step keeps WakeInv.
LEMMA WakeStep ==
    ASSUME TypeOK, WakeInv, [Next]_vars
    PROVE  WakeInv'
  <1> USE DEF queueVars, countVars, holdVars
  <1>a. pc \in [Thread -> PC] /\ v \in {0, 1} /\ keepalive \in {0, 1}
    BY DEF TypeOK
  <1>1. ASSUME NEW t \in Thread,
               \/ Alive(t) \/ Loop(t) \/ Spurious(t) \/ LockQueue(t) \/ RunJob(t)
               \/ Uncount(t) \/ Exit(t) \/ Unlock(t)
        PROVE  WakeInv'
    BY <1>1, WakeFrame
       DEF Alive, Loop, Spurious, LockQueue, RunJob, Uncount, Exit, Unlock, At, Coming
  <1>2. ASSUME NEW t \in Thread, bsem_wait(t) PROVE WakeInv'
    BY <1>2, <1>a DEF bsem_wait, At, WakeInv, Coming
  <1>3. ASSUME NEW t \in Thread, bsem_sleep(t) PROVE WakeInv'
    BY <1>3, <1>a DEF bsem_sleep, At, WakeInv, Coming
  <1>4. ASSUME NEW t \in Thread, Count(t) PROVE WakeInv'
    BY <1>4, <1>a DEF Count, At, WakeInv, Coming
  <1>5. ASSUME NEW t \in Thread, PullNone(t) \/ PullLast(t) PROVE WakeInv'
    BY <1>5, <1>a DEF PullNone, PullLast, At, WakeInv, Coming
  <1>6. ASSUME NEW t \in Thread, PullMore(t) PROVE WakeInv'
    <2> DEFINE p == [pc EXCEPT ![t] = "run"]
    <2>1. p \in [Thread -> PC] /\ bsem_post(p)
      BY <1>6, <1>a DEF PullMore, PC
    <2> HIDE DEF p
    <2>2. v' = 1 /\ ((\E s \in Thread : pc'[s] = "sleep") =>
                        \E s \in Thread : pc'[s] = "wait")
      BY <2>1, PostMoves
    <2> QED
      BY <2>2 DEF WakeInv
  <1>7. ASSUME NEW j \in Job, thpool_add_work(j) PROVE WakeInv'
    <2>1. bsem_post(pc)
      BY <1>7 DEF thpool_add_work
    <2>2. v' = 1 /\ ((\E s \in Thread : pc'[s] = "sleep") =>
                        \E s \in Thread : pc'[s] = "wait")
      BY <2>1, <1>a, PostMoves
    <2> QED
      BY <2>2 DEF WakeInv
  <1>8. CASE DestroyPoll
    <2>1. v' = 1 /\ \A s \in Thread : pc'[s] # "sleep"
      BY <1>8, <1>a, PostAllMoves DEF DestroyPoll
    <2> QED
      BY <2>1 DEF WakeInv
  <1>9. CASE DestroyFree \/ thpool_destroy
    BY <1>9 DEF DestroyFree, thpool_destroy, WakeInv
  <1>10. CASE UNCHANGED <<pc, v, jobq, keepalive>>
    BY <1>10 DEF WakeInv
  <1>11. ASSUME NEW t \in Thread, thread_hold(t) \/ Unhold(t) PROVE WakeInv'
    BY <1>10, <1>11 DEF thread_hold, Unhold
  <1>12. ASSUME NEW c \in Waiter,
                thpool_wait(c) \/ WaitSleep(c) \/ WaitSpurious(c) \/ WaitReturn(c)
         PROVE  WakeInv'
    BY <1>10, <1>12 DEF thpool_wait, WaitSleep, WaitSpurious, WaitReturn
  <1>13. CASE thpool_init \/ thpool_pause \/ thpool_resume \/ UNCHANGED vars
    BY <1>10, <1>13 DEF thpool_init, thpool_pause, thpool_resume, vars
  <1> QED
    BY <1>1, <1>2, <1>3, <1>4, <1>5, <1>6, <1>7, <1>8, <1>9, <1>11, <1>12, <1>13
       DEF Next, Users, DestroyStep, Signals, thread_do, PoolStep

\* No thread of the pool sleeps next to a queued job that nobody comes for.
THEOREM NoLostWakeupCorrect == Spec => []NoLostWakeup
  <1>1. Init => WakeInv
    BY DEF Init, WakeInv
  <1>2. WakeInv => NoLostWakeup
    BY DEF WakeInv, NoLostWakeup, Coming
  <1>3. TypeOK /\ WakeInv /\ [Next]_vars => WakeInv'
    BY WakeStep
  <1> QED
    BY <1>1, <1>2, <1>3, TypeCorrect, PTL DEF Spec

-----------------------------------------------------------------------------
(* The counters, and what thpool_init, thpool_wait and thpool_destroy take *)
(* from them.                                                              *)

\* The life of the pool: no thread ends before thpool_destroy, every thread has
\* started when thpool_init returns, and thpool_destroy frees the pool after the
\* last thread has counted itself out.
LifeInv ==
    /\ keepalive = 1 <=> upc \in {"init", "up"}
    /\ keepalive = 1 => \A t \in Thread : pc[t] \notin {"exit", "unlock", "dead"}
    /\ upc # "init" => \A t \in Thread : pc[t] # "start"
    /\ FreedAfterLoop

\* The inductive invariant.
CountInv == CountersExact /\ LifeInv

\* Sets of threads are finite.
LEMMA ThreadsFinite ==
    /\ IsFiniteSet(Busy) /\ IsFiniteSet(Live)
    /\ Cardinality(Live) = Cardinality(Thread) => Live = Thread
    /\ Cardinality(Live) = 0 => Live = {}
    /\ Cardinality(Busy) = 0 => Busy = {}
  <1>1. Busy \in SUBSET Thread /\ Live \in SUBSET Thread
    BY DEF Busy, Live
  <1> QED
    BY <1>1, ThpoolAssumption, FS_Subset, FS_EmptySet

\* A step that leaves both sets and both counters alone.
LEMMA CountersFrame ==
    ASSUME CountersExact, Busy' = Busy, Live' = Live, UNCHANGED <<alive, working>>
    PROVE  CountersExact'
  BY DEF CountersExact

\* Every step keeps the counters exact.
LEMMA CountersStep ==
    ASSUME TypeOK, CountersExact, [Next]_vars
    PROVE  CountersExact'
  <1> USE DEF queueVars, countVars, holdVars
  <1>a. pc \in [Thread -> PC] /\ alive \in Int /\ working \in Int
    BY DEF TypeOK
  <1>b. IsFiniteSet(Busy) /\ IsFiniteSet(Live)
    BY ThreadsFinite
  <1>1. ASSUME NEW t \in Thread, Alive(t) PROVE CountersExact'
    <2>1. t \notin Live /\ Live' = Live \cup {t} /\ Busy' = Busy
      BY <1>1, <1>a DEF Alive, At, Live, Busy
    <2>2. Cardinality(Live') = Cardinality(Live) + 1
      BY <1>b, <2>1, FS_AddElement
    <2> QED
      BY <1>1, <2>1, <2>2 DEF Alive, CountersExact
  <1>2. ASSUME NEW t \in Thread, Exit(t) PROVE CountersExact'
    <2>1. t \in Live /\ Live' = Live \ {t} /\ Busy' = Busy
      BY <1>2, <1>a DEF Exit, At, Live, Busy
    <2>2. Cardinality(Live') = Cardinality(Live) - 1
      BY <1>b, <2>1, FS_RemoveElement
    <2> QED
      BY <1>2, <2>1, <2>2 DEF Exit, CountersExact
  <1>3. ASSUME NEW t \in Thread, Count(t) PROVE CountersExact'
    <2>1. CASE keepalive = 0
      <3>1. Live' = Live /\ Busy' = Busy
        BY <1>3, <1>a, <2>1 DEF Count, At, Live, Busy
      <3> QED
        BY <1>3, <2>1, <3>1, CountersFrame DEF Count
    <2>2. CASE keepalive = 1
      <3>1. t \notin Busy /\ Busy' = Busy \cup {t} /\ Live' = Live
        BY <1>3, <1>a, <2>2 DEF Count, At, Live, Busy
      <3>2. Cardinality(Busy') = Cardinality(Busy) + 1
        BY <1>b, <3>1, FS_AddElement
      <3> QED
        BY <1>3, <2>2, <3>1, <3>2 DEF Count, CountersExact
    <2> QED
      BY <1>3, <2>1, <2>2 DEF Count
  <1>4. ASSUME NEW t \in Thread, Uncount(t) PROVE CountersExact'
    <2>1. t \in Busy /\ Busy' = Busy \ {t} /\ Live' = Live
      BY <1>4, <1>a DEF Uncount, At, Live, Busy
    <2>2. Cardinality(Busy') = Cardinality(Busy) - 1
      BY <1>b, <2>1, FS_RemoveElement
    <2> QED
      BY <1>4, <2>1, <2>2 DEF Uncount, CountersExact
  <1>5. ASSUME NEW t \in Thread,
               \/ Loop(t) \/ bsem_wait(t) \/ bsem_sleep(t) \/ Spurious(t)
               \/ LockQueue(t) \/ PullNone(t) \/ PullLast(t) \/ RunJob(t) \/ Unlock(t)
        PROVE  CountersExact'
    <2>1. Live' = Live /\ Busy' = Busy
      BY <1>5, <1>a DEF Loop, bsem_wait, bsem_sleep, Spurious, LockQueue, PullNone,
                        PullLast, RunJob, Unlock, At, Live, Busy
    <2> QED
      BY <1>5, <2>1, CountersFrame
         DEF Loop, bsem_wait, bsem_sleep, Spurious, LockQueue, PullNone, PullLast,
             RunJob, Unlock
  <1>6. ASSUME NEW t \in Thread, PullMore(t) PROVE CountersExact'
    <2> DEFINE p == [pc EXCEPT ![t] = "run"]
    <2>1. /\ p \in [Thread -> PC] /\ bsem_post(p) /\ p[t] = "run"
          /\ \A s \in Thread \ {t} : p[s] = pc[s]
          /\ pc[t] = "pulling"
      BY <1>6, <1>a DEF PullMore, PC, At
    <2> HIDE DEF p
    <2>2. /\ \A s \in Thread \ {t} :
                pc'[s] = pc[s] \/ (pc[s] = "sleep" /\ pc'[s] = "wait")
          /\ pc'[t] = "run"
      BY <2>1, PostMoves
    <2>3. Live' = Live /\ Busy' = Busy
      BY <2>1, <2>2 DEF Live, Busy
    <2> QED
      BY <1>6, <2>3, CountersFrame DEF PullMore
  <1>7. ASSUME NEW j \in Job, thpool_add_work(j) PROVE CountersExact'
    <2>1. \A s \in Thread :
                pc'[s] = pc[s] \/ (pc[s] = "sleep" /\ pc'[s] = "wait")
      BY <1>7, <1>a, PostMoves DEF thpool_add_work
    <2>2. Live' = Live /\ Busy' = Busy
      BY <2>1 DEF Live, Busy
    <2> QED
      BY <1>7, <2>2, CountersFrame DEF thpool_add_work
  <1>8. CASE DestroyPoll
    <2>1. Live' = Live /\ Busy' = Busy
      BY <1>8, <1>a, PostAllMoves DEF DestroyPoll, Live, Busy
    <2> QED
      BY <1>8, <2>1, CountersFrame DEF DestroyPoll
  <1>9. CASE UNCHANGED <<pc, alive, working>>
    BY <1>9, CountersFrame DEF Live, Busy
  <1>10. ASSUME NEW t \in Thread, thread_hold(t) \/ Unhold(t) PROVE CountersExact'
    BY <1>9, <1>10 DEF thread_hold, Unhold
  <1>11. ASSUME NEW c \in Waiter,
                thpool_wait(c) \/ WaitSleep(c) \/ WaitSpurious(c) \/ WaitReturn(c)
         PROVE  CountersExact'
    BY <1>9, <1>11 DEF thpool_wait, WaitSleep, WaitSpurious, WaitReturn
  <1>12. CASE \/ thpool_init \/ thpool_pause \/ thpool_resume \/ thpool_destroy
              \/ DestroyFree \/ UNCHANGED vars
    BY <1>9, <1>12 DEF thpool_init, thpool_pause, thpool_resume, thpool_destroy,
                       DestroyFree, vars
  <1> QED
    BY <1>1, <1>2, <1>3, <1>4, <1>5, <1>6, <1>7, <1>8, <1>10, <1>11, <1>12
       DEF Next, Users, DestroyStep, Signals, thread_do, PoolStep

\* Every step keeps LifeInv.
LEMMA LifeStep ==
    ASSUME TypeOK, CountersExact, LifeInv, [Next]_vars
    PROVE  LifeInv'
  <1> USE DEF queueVars, countVars, holdVars
  <1>a. pc \in [Thread -> PC] /\ keepalive \in {0, 1}
    BY DEF TypeOK
  <1>1. ASSUME NEW t \in Thread, PoolStep(t) \/ RunJob(t) \/ Spurious(t),
               ~PullMore(t)
        PROVE  LifeInv'
    <2>1. /\ UNCHANGED <<keepalive, upc>>
          /\ \A s \in Thread \ {t} : pc'[s] = pc[s]
          /\ pc'[t] # "start"
          /\ keepalive = 1 => pc'[t] \notin {"exit", "unlock", "dead"}
          /\ pc[t] \in {"unlock", "dead"} => pc'[t] = "dead"
      BY <1>1, <1>a
         DEF PoolStep, Alive, Loop, bsem_wait, bsem_sleep, Spurious, Count,
             LockQueue, PullNone, PullLast, RunJob, Uncount, Exit, Unlock, At,
             LifeInv
    <2> QED
      BY <2>1, <1>a DEF LifeInv, FreedAfterLoop
  <1>2. ASSUME \A s \in Thread :
                  pc'[s] = pc[s] \/ (pc[s] = "sleep" /\ pc'[s] = "wait"),
               UNCHANGED <<keepalive, upc>>
        PROVE  LifeInv'
    BY <1>2 DEF LifeInv, FreedAfterLoop
  <1>3. ASSUME NEW t \in Thread, PullMore(t) PROVE LifeInv'
    <2> DEFINE p == [pc EXCEPT ![t] = "run"]
    <2>1. /\ p \in [Thread -> PC] /\ bsem_post(p) /\ p[t] = "run"
          /\ \A s \in Thread \ {t} : p[s] = pc[s]
          /\ pc[t] = "pulling"
          /\ UNCHANGED <<keepalive, upc>>
      BY <1>3, <1>a DEF PullMore, PC, At
    <2> HIDE DEF p
    <2>2. /\ \A s \in Thread \ {t} :
                pc'[s] = pc[s] \/ (pc[s] = "sleep" /\ pc'[s] = "wait")
          /\ pc'[t] = "run"
      BY <2>1, PostMoves
    <2> QED
      BY <2>1, <2>2 DEF LifeInv, FreedAfterLoop
  <1>4. ASSUME NEW j \in Job, thpool_add_work(j) PROVE LifeInv'
    BY <1>2, <1>4, <1>a, PostMoves DEF thpool_add_work
  <1>5. CASE DestroyPoll
    BY <1>2, <1>5, <1>a, PostAllMoves DEF DestroyPoll
  <1>6. CASE thpool_init
    <2>1. Live = Thread
      BY <1>6, ThreadsFinite DEF thpool_init, CountersExact
    <2>2. \A t \in Thread : pc[t] # "start"
      BY <2>1 DEF Live
    <2> QED
      BY <1>6, <2>2 DEF thpool_init, LifeInv, FreedAfterLoop
  <1>7. CASE thpool_destroy
    BY <1>7 DEF thpool_destroy, LifeInv, FreedAfterLoop
  <1>8. CASE DestroyFree
    <2>1. Live = {}
      BY <1>8, ThreadsFinite DEF DestroyFree, CountersExact
    <2>2. \A t \in Thread : pc[t] \in {"start", "unlock", "dead"}
      BY <2>1 DEF Live
    <2> QED
      BY <1>8, <2>2 DEF DestroyFree, LifeInv, FreedAfterLoop
  <1>9. ASSUME NEW t \in Thread, thread_hold(t) \/ Unhold(t) PROVE LifeInv'
    BY <1>2, <1>9 DEF thread_hold, Unhold
  <1>10. ASSUME NEW c \in Waiter,
                thpool_wait(c) \/ WaitSleep(c) \/ WaitSpurious(c) \/ WaitReturn(c)
         PROVE  LifeInv'
    BY <1>2, <1>10 DEF thpool_wait, WaitSleep, WaitSpurious, WaitReturn
  <1>11. CASE thpool_pause \/ thpool_resume \/ UNCHANGED vars
    BY <1>2, <1>11 DEF thpool_pause, thpool_resume, vars
  <1> QED
    BY <1>1, <1>3, <1>4, <1>5, <1>6, <1>7, <1>8, <1>9, <1>10, <1>11
       DEF Next, Users, DestroyStep, Signals, thread_do

\* CountInv holds in every state.
LEMMA CountCorrect == Spec => []CountInv
  <1>1. Init => CountInv
    <2> SUFFICES ASSUME Init PROVE CountInv
      OBVIOUS
    <2>1. Busy = {} /\ Live = {}
      BY DEF Init, Busy, Live
    <2> QED
      BY <2>1, FS_EmptySet DEF Init, CountInv, CountersExact, LifeInv, FreedAfterLoop
  <1>2. TypeOK /\ CountInv /\ [Next]_vars => CountInv'
    BY CountersStep, LifeStep DEF CountInv
  <1> QED
    BY <1>1, <1>2, TypeCorrect, PTL DEF Spec

\* num_threads_working and num_threads_alive are exact in every state.
THEOREM CountersCorrect == Spec => []CountersExact
  BY CountCorrect, PTL DEF CountInv

\* The pool is freed only after every thread has left the loop of thread_do.
THEOREM FreedAfterLoopCorrect == Spec => []FreedAfterLoop
  BY CountCorrect, PTL DEF CountInv, LifeInv

\* When thpool_wait returns, every job added before has finished.
THEOREM WaitMeansIdleCorrect == Spec => WaitMeansIdle
  <1> DEFINE A == \A c \in Waiter :
                    waitpc[c] = "test" /\ waitpc'[c] = "back" =>
                        jobq = <<>> /\ \A t \in Thread : jobof[t] = NULL
  <1>1. TypeOK /\ CountInv /\ [Next]_vars => [A]_vars
    <2> SUFFICES ASSUME TypeOK, CountInv, Next, NEW c \in Waiter,
                        waitpc[c] = "test", waitpc'[c] = "back"
                 PROVE  jobq = <<>> /\ \A t \in Thread : jobof[t] = NULL
      OBVIOUS
    <2>1. \E d \in Waiter : WaitReturn(d)
      <3>1. waitpc \in [Waiter -> {"out", "test", "sleep", "back"}]
        BY DEF TypeOK
      <3>2. ASSUME NEW t \in Thread PROVE ~Uncount(t)
        BY <3>1, SignalMoves DEF Uncount
      <3> QED
        BY <3>1, <3>2
           DEF Next, Users, DestroyStep, Signals, thread_do, PoolStep, Alive, Loop,
               bsem_wait, bsem_sleep, Spurious, Count, LockQueue, PullNone,
               PullLast, PullMore, RunJob, Exit, Unlock, thread_hold, Unhold,
               thpool_init, thpool_add_work, thpool_wait, WaitSleep, WaitSpurious,
               thpool_pause, thpool_resume, thpool_destroy, DestroyPoll,
               DestroyFree, holdVars
    <2>2. jobq = <<>> /\ Busy = {}
      BY <2>1, ThreadsFinite DEF WaitReturn, CountInv, CountersExact
    <2> QED
      BY <2>2 DEF Busy, TypeOK
  <1> QED
    BY <1>1, TypeCorrect, CountCorrect, PTL DEF Spec, WaitMeansIdle

-----------------------------------------------------------------------------
(* The pool implements JobPool.                                            *)

\* Every step is a step of JobPool, or leaves its state alone.
LEMMA JobPoolStep ==
    ASSUME TypeOK, [Next]_vars
    PROVE  [JP!Next]_(JP!vars)
  <1> USE DEF queueVars, JP!vars
  <1>1. ASSUME NEW j \in Job, thpool_add_work(j) PROVE JP!Add(j)
    BY <1>1 DEF thpool_add_work, Known, JP!Add, JP!Waiting
  <1>2. ASSUME NEW t \in Thread, PullLast(t) \/ PullMore(t) PROVE JP!Start(t)
    <2>1. jobof[t] = NULL /\ jobq \in Seq(Job)
      BY <1>2 DEF TypeOK, PullLast, PullMore, At
    <2>2. jobq # <<>> /\ (Len(jobq) = 1 => Tail(jobq) = <<>>)
      <3>1. jobq # <<>>
        BY <1>2 DEF PullLast, PullMore
      <3>2. Tail(jobq) \in Seq(Job) /\ Len(Tail(jobq)) = Len(jobq) - 1
        BY <2>1, <3>1
      <3> QED
        BY <3>1, <3>2
    <2> QED
      BY <1>2, <2>1, <2>2 DEF PullLast, PullMore, JP!Start
  <1>3. ASSUME NEW t \in Thread, RunJob(t) PROVE JP!Finish(t)
    BY <1>3 DEF RunJob, At, TypeOK, JP!Finish
  <1>4. CASE DestroyFree
    BY <1>4 DEF DestroyFree, JP!Next, JP!Discard
  <1>5. ASSUME NEW t \in Thread,
               \/ Alive(t) \/ Loop(t) \/ bsem_wait(t) \/ bsem_sleep(t) \/ Count(t)
               \/ LockQueue(t) \/ PullNone(t) \/ Uncount(t) \/ Exit(t) \/ Unlock(t)
               \/ Signals(t)
        PROVE  UNCHANGED JP!vars
    BY <1>5 DEF Alive, Loop, bsem_wait, bsem_sleep, Count, LockQueue, PullNone,
                Uncount, Exit, Unlock, Signals, thread_hold, Unhold, Spurious
  <1>6. ASSUME NEW c \in Waiter,
               thpool_wait(c) \/ WaitSleep(c) \/ WaitSpurious(c) \/ WaitReturn(c)
        PROVE  UNCHANGED JP!vars
    BY <1>6 DEF thpool_wait, WaitSleep, WaitSpurious, WaitReturn
  <1>7. CASE \/ thpool_init \/ thpool_pause \/ thpool_resume \/ thpool_destroy
             \/ DestroyPoll \/ UNCHANGED vars
    BY <1>7 DEF thpool_init, thpool_pause, thpool_resume, thpool_destroy,
                DestroyPoll, vars
  <1> QED
    BY <1>1, <1>2, <1>3, <1>4, <1>5, <1>6, <1>7
       DEF Next, Users, DestroyStep, thread_do, PoolStep, JP!Next

\* The pool starts jobs in the order they were added, each in one thread.
THEOREM JobPoolCorrect == Spec => ImplementsJobPool
  <1>1. Init => JP!Init
    BY DEF Init, JP!Init
  <1>2. TypeOK /\ [Next]_vars => [JP!Next]_(JP!vars)
    BY JobPoolStep
  <1> QED
    BY <1>1, <1>2, TypeCorrect, PTL DEF Spec, ImplementsJobPool, JP!Spec

-----------------------------------------------------------------------------
(* The read-write lock.  Exclusion is not inductive by itself: it needs    *)
(* that read counts the threads past their increment and that write has    *)
(* one owner (RwCounts).                                                   *)

\* The readers that are counted form a finite set.
LEMMA CountedFinite == IsFiniteSet(Counted) /\ Cardinality(Counted) \in Nat
<1>1. Counted \subseteq Rthread
  BY DEF Counted
<1> QED
  BY <1>1, RwlockAssumption, FS_Subset, FS_CardinalityType

\* A thread that moves changes the set of the counted, and of the owners, by itself alone.
LEMMA MoveSets ==
    ASSUME RwTypeOK, NEW t \in Rthread, NEW from, NEW to, Move(t, from, to)
    PROVE  /\ t \in Counted <=> from \in {"r_check", "r_back", "reading"}
           /\ t \in Owners <=> from \in {"w_wait", "writing"}
           /\ Counted' = IF to \in {"r_check", "r_back", "reading"} THEN Counted \cup {t}
                                                                    ELSE Counted \ {t}
           /\ Owners' = IF to \in {"w_wait", "writing"} THEN Owners \cup {t} ELSE Owners \ {t}
<1>1. \A u \in Rthread : at'[u] = IF u = t THEN to ELSE at[u]
  BY DEF Move, RwTypeOK
<1>2. at[t] = from
  BY DEF Move
<1> QED
  BY <1>1, <1>2 DEF Counted, Owners

\* Init establishes the invariant.
LEMMA RwInitInv == RwInit => RwInv
<1> SUFFICES ASSUME RwInit PROVE RwInv
  OBVIOUS
<1>1. Counted = {} /\ Owners = {}
  BY DEF RwInit, Counted, Owners
<1>2. RwTypeOK /\ RwExclusion
  BY DEF RwInit, RwTypeOK, RwExclusion
<1>3. RwCounts
  BY <1>1, FS_EmptySet DEF RwInit, RwCounts
<1> QED
  BY <1>2, <1>3 DEF RwInv

\* Every step of a thread keeps it.
LEMMA RwStepInv ==
    ASSUME RwInv, NEW t \in Rthread, RwCall(t) \/ RwStep(t)
    PROVE  RwInv'
<1> USE DEF RwInv
<1>a. IsFiniteSet(Counted) /\ Cardinality(Counted) \in Nat
  BY CountedFinite
<1>b. t \in Counted => Cardinality(Counted \ {t}) = Cardinality(Counted) - 1
  BY <1>a, FS_RemoveElement
<1>c. t \notin Counted => Cardinality(Counted \cup {t}) = Cardinality(Counted) + 1
  BY <1>a, FS_AddElement
<1>1. CASE RwCall(t)
  <2>1. PICK to \in {"r_spin", "w_set"} : Move(t, "idle", to)
    BY <1>1 DEF RwCall
  <2>2. Counted' = Counted /\ Owners' = Owners
    BY <2>1, MoveSets
  <2> QED
    BY <1>1, <2>1, <2>2 DEF RwCall, Move, RwTypeOK, RwCounts, RwExclusion
<1>2. CASE RSpin(t)
  <2>1. Counted' = Counted /\ Owners' = Owners
    BY <1>2, MoveSets DEF RSpin
  <2> QED
    BY <1>2, <2>1 DEF RSpin, Move, RwTypeOK, RwCounts, RwExclusion
<1>3. CASE RAdd(t)
  <2>1. t \notin Counted /\ Counted' = Counted \cup {t} /\ Owners' = Owners
    BY <1>3, MoveSets DEF RAdd
  <2> QED
    BY <1>a, <1>b, <1>c, <1>3, <2>1 DEF RAdd, Move, RwTypeOK, RwCounts, RwExclusion
<1>4. CASE RCheck(t)
  <2>1. Counted' = Counted /\ Owners' = Owners
    BY <1>4, MoveSets DEF RCheck
  <2>2. RwTypeOK' /\ RwCounts'
    BY <1>4, <2>1 DEF RCheck, Move, RwTypeOK, RwCounts
  <2>3. at'[t] = "reading" => Owners = {}
    BY <1>4 DEF RCheck, Move, RwTypeOK, RwCounts
  <2>4. RwExclusion'
    BY <1>4, <2>1, <2>3 DEF RCheck, Move, RwTypeOK, RwExclusion, Owners
  <2> QED
    BY <2>2, <2>4
<1>5. CASE RBack(t)
  <2>1. t \in Counted /\ Counted' = Counted \ {t} /\ Owners' = Owners
    BY <1>5, MoveSets DEF RBack
  <2> QED
    BY <1>a, <1>b, <1>c, <1>5, <2>1 DEF RBack, Move, RwTypeOK, RwCounts, RwExclusion
<1>6. CASE rwlock_runlock(t)
  <2>1. t \in Counted /\ Counted' = Counted \ {t} /\ Owners' = Owners
    BY <1>6, MoveSets DEF rwlock_runlock
  <2> QED
    BY <1>a, <1>b, <1>c, <1>6, <2>1 DEF rwlock_runlock, Move, RwTypeOK, RwCounts, RwExclusion
<1>7. CASE WSet(t)
  <2>1. Owners = {} /\ Counted' = Counted /\ Owners' = {t}
    BY <1>7, MoveSets DEF WSet, RwCounts
  <2> QED
    BY <1>7, <2>1 DEF WSet, Move, RwTypeOK, RwCounts, RwExclusion
<1>8. CASE WWait(t)
  <2>1. Counted' = Counted /\ Owners' = Owners /\ t \in Owners
    BY <1>8, MoveSets DEF WWait
  <2>2. Counted = {}
    BY <1>a, <1>b, <1>c, <1>8, FS_EmptySet DEF WWait, RwCounts
  <2>3. RwTypeOK' /\ RwCounts'
    BY <1>8, <2>1 DEF WWait, Move, RwTypeOK, RwCounts
  <2>4. RwExclusion'
    <3>1. \A u \in Rthread : at'[u] # "reading"
      BY <2>1, <2>2 DEF Counted
    <3>2. \A u \in Rthread : at'[u] = "writing" => u \in Owners'
      BY DEF Owners
    <3>3. \A u, w \in Owners' : u = w
      BY <2>3 DEF RwCounts
    <3> QED
      BY <3>1, <3>2, <3>3 DEF RwExclusion
  <2> QED
    BY <2>3, <2>4
<1>9. CASE rwlock_wunlock(t)
  <2>1. t \in Owners /\ Counted' = Counted /\ Owners' = Owners \ {t}
    BY <1>9, MoveSets DEF rwlock_wunlock
  <2>2. Owners' = {}
    BY <2>1 DEF RwCounts
  <2> QED
    BY <1>9, <2>1, <2>2 DEF rwlock_wunlock, Move, RwTypeOK, RwCounts, RwExclusion
<1> QED
  BY <1>1, <1>2, <1>3, <1>4, <1>5, <1>6, <1>7, <1>8, <1>9 DEF RwStep

\* The inductive invariant holds.
THEOREM RwInvariance == RwSpec => []RwInv
<1>1. RwInv /\ [RwNext]_rvars => RwInv'
  <2> SUFFICES ASSUME RwInv, [RwNext]_rvars PROVE RwInv'
    OBVIOUS
  <2>1. CASE RwNext
    BY <2>1, RwStepInv DEF RwNext
  <2>2. CASE UNCHANGED rvars
    BY <2>2 DEF rvars, RwInv, RwTypeOK, RwCounts, RwExclusion, Counted, Owners
  <2> QED
    BY <2>1, <2>2
<1> QED
  BY <1>1, RwInitInv, PTL DEF RwSpec

\* A writer that rwlock_wlock has let in is alone, whatever the number of threads.
THEOREM RwSafe == RwSpec => []RwExclusion
<1>1. RwInv => RwExclusion
  BY DEF RwInv
<1> QED
  BY <1>1, RwInvariance, PTL
=============================================================================
