------------------------------- MODULE Thpool -------------------------------
(***************************************************************************)
(* The thread pool of lib/thpool.c: threads that wait on a binary          *)
(* semaphore, pull jobs from a queue and run them, and the calls of its    *)
(* users: thpool_add_work, thpool_wait, thpool_pause, thpool_resume and    *)
(* thpool_destroy.                                                         *)
(*                                                                         *)
(* A step is a critical section, or the code between two of them.  The     *)
(* two places where a thread can be caught inside a critical section are   *)
(* steps of their own: jobqueue_pull (a paused thread keeps rwmutex) and   *)
(* the end of thread_do (thpool_destroy does not take thcount_lock).       *)
(***************************************************************************)
EXTENDS Integers, Sequences, FiniteSets

CONSTANTS
    Thread,     \* the threads of the pool
    Job,        \* the jobs that users may add
    Waiter,     \* the callers of thpool_wait
    NULL,       \* no job, no thread
    MaxPauses,  \* bound: calls of thpool_pause
    Destroys    \* whether a user calls thpool_destroy

ASSUME ThpoolAssumption ==
    /\ Thread # {} /\ IsFiniteSet(Thread)
    /\ NULL \notin Thread /\ NULL \notin Job
    /\ MaxPauses \in Nat
    /\ Destroys \in BOOLEAN

VARIABLES
    pc,         \* where each thread is in thread_do
    jobof,      \* job_p of each thread
    jobq,       \* the job queue, front first
    v,          \* has_jobs->v
    rwmutex,    \* the thread that holds jobqueue_p->rwmutex, or NULL
    thcount,    \* the thread that holds thcount_lock, or NULL
    alive,      \* num_threads_alive
    working,    \* num_threads_working
    keepalive,  \* threads_keepalive
    on_hold,    \* threads_on_hold
    signalled,  \* threads with SIGUSR1 pending
    held,       \* threads inside thread_hold
    paused,     \* the users' view: thpool_pause called, thpool_resume not yet
    pauses,     \* calls of thpool_pause so far
    upc,        \* the life of the pool: init, up, ending, freed
    waitpc,     \* where each caller is in thpool_wait
    finished    \* jobs that were run to their end

queueVars == <<jobof, jobq, finished>>
countVars == <<thcount, alive, working>>
holdVars == <<on_hold, signalled, held, paused, pauses>>
vars == <<pc, queueVars, v, rwmutex, countVars, keepalive, holdVars, upc, waitpc>>

Init ==
    /\ pc = [t \in Thread |-> "start"]
    /\ jobof = [t \in Thread |-> NULL]
    /\ jobq = <<>>
    /\ v = 0
    /\ rwmutex = NULL
    /\ thcount = NULL
    /\ alive = 0
    /\ working = 0
    /\ keepalive = 1
    /\ on_hold = 0
    /\ signalled = {}
    /\ held = {}
    /\ paused = FALSE
    /\ pauses = 0
    /\ upc = "init"
    /\ waitpc = [c \in Waiter |-> "out"]
    /\ finished = {}

-----------------------------------------------------------------------------
(* The binary semaphore.  A thread that waits is at "wait" when it is about *)
(* to test v and at "sleep" inside pthread_cond_wait.                      *)

\* bsem_post: v = 1 and wake one sleeper, if there is one (p is where the
\* threads are after the caller's own step).
bsem_post(p) ==
    /\ v' = 1
    /\ \/ /\ \A t \in Thread : p[t] # "sleep"
          /\ pc' = p
       \/ \E t \in Thread :
            /\ p[t] = "sleep"
            /\ pc' = [p EXCEPT ![t] = "wait"]

\* A mutant: no sleeper is woken.
bsem_post_all_quiet ==
    /\ v' = 1
    /\ UNCHANGED pc

\* bsem_post_all: v = 1 and wake every sleeper.
bsem_post_all ==
    /\ v' = 1
    /\ pc' = [t \in Thread |-> IF pc[t] = "sleep" THEN "wait" ELSE pc[t]]

-----------------------------------------------------------------------------
(* thread_do.                                                              *)

\* A thread takes its next step unless it is inside thread_hold.
At(t, where) == pc[t] = where /\ t \notin held

\* The thread counts itself alive.
Alive(t) ==
    /\ At(t, "start")
    /\ thcount = NULL
    /\ alive' = alive + 1
    /\ pc' = [pc EXCEPT ![t] = "loop"]
    /\ UNCHANGED <<queueVars, v, rwmutex, thcount, working, keepalive, holdVars,
                   upc, waitpc>>

\* while(threads_keepalive)
Loop(t) ==
    /\ At(t, "loop")
    /\ pc' = [pc EXCEPT ![t] = IF keepalive = 1 THEN "wait" ELSE "exit"]
    /\ UNCHANGED <<queueVars, v, rwmutex, countVars, keepalive, holdVars, upc,
                   waitpc>>

\* bsem_wait: take the semaphore ...
bsem_wait(t) ==
    /\ At(t, "wait")
    /\ v = 1
    /\ v' = 0
    /\ pc' = [pc EXCEPT ![t] = "check"]
    /\ UNCHANGED <<queueVars, rwmutex, countVars, keepalive, holdVars, upc,
                   waitpc>>

\* ... or sleep until it is posted ...
bsem_sleep(t) ==
    /\ At(t, "wait")
    /\ v # 1
    /\ pc' = [pc EXCEPT ![t] = "sleep"]
    /\ UNCHANGED <<queueVars, v, rwmutex, countVars, keepalive, holdVars, upc,
                   waitpc>>

\* ... or for no reason (pthread_cond_wait may wake up spuriously).
Spurious(t) ==
    /\ At(t, "sleep")
    /\ pc' = [pc EXCEPT ![t] = "wait"]
    /\ UNCHANGED <<queueVars, v, rwmutex, countVars, keepalive, holdVars, upc,
                   waitpc>>

\* if (threads_keepalive) num_threads_working++
Count(t) ==
    /\ At(t, "check")
    /\ \/ /\ keepalive = 1
          /\ thcount = NULL
          /\ working' = working + 1
          /\ pc' = [pc EXCEPT ![t] = "pull"]
       \/ /\ keepalive = 0
          /\ pc' = [pc EXCEPT ![t] = "loop"]
          /\ UNCHANGED working
    /\ UNCHANGED <<queueVars, v, rwmutex, thcount, alive, keepalive, holdVars,
                   upc, waitpc>>

\* pthread_mutex_lock(&rwmutex)
LockQueue(t) ==
    /\ At(t, "pull")
    /\ rwmutex = NULL
    /\ rwmutex' = t
    /\ pc' = [pc EXCEPT ![t] = "pulling"]
    /\ UNCHANGED <<queueVars, v, countVars, keepalive, holdVars, upc, waitpc>>

\* jobqueue_pull of an empty queue: no job.
PullNone(t) ==
    /\ At(t, "pulling")
    /\ jobq = <<>>
    /\ rwmutex' = NULL
    /\ pc' = [pc EXCEPT ![t] = "uncount"]
    /\ UNCHANGED <<queueVars, v, countVars, keepalive, holdVars, upc, waitpc>>

\* jobqueue_pull of the only job.
PullLast(t) ==
    /\ At(t, "pulling")
    /\ Len(jobq) = 1
    /\ jobof' = [jobof EXCEPT ![t] = Head(jobq)]
    /\ jobq' = <<>>
    /\ rwmutex' = NULL
    /\ pc' = [pc EXCEPT ![t] = "run"]
    /\ UNCHANGED <<finished, v, countVars, keepalive, holdVars, upc, waitpc>>

\* A mutant: the semaphore is not posted again.
PullMore_silent(t) ==
    /\ At(t, "pulling")
    /\ Len(jobq) > 1
    /\ jobof' = [jobof EXCEPT ![t] = Head(jobq)]
    /\ jobq' = Tail(jobq)
    /\ rwmutex' = NULL
    /\ pc' = [pc EXCEPT ![t] = "run"]
    /\ UNCHANGED <<finished, v, countVars, keepalive, holdVars, upc, waitpc>>

\* jobqueue_pull of one of several jobs: post the semaphore for the next one.
PullMore(t) ==
    /\ At(t, "pulling")
    /\ Len(jobq) > 1
    /\ jobof' = [jobof EXCEPT ![t] = Head(jobq)]
    /\ jobq' = Tail(jobq)
    /\ rwmutex' = NULL
    /\ bsem_post([pc EXCEPT ![t] = "run"])
    /\ UNCHANGED <<finished, countVars, keepalive, holdVars, upc, waitpc>>

\* The job returns.
RunJob(t) ==
    /\ At(t, "run")
    /\ finished' = finished \cup {jobof[t]}
    /\ jobof' = [jobof EXCEPT ![t] = NULL]
    /\ pc' = [pc EXCEPT ![t] = "uncount"]
    /\ UNCHANGED <<jobq, v, rwmutex, countVars, keepalive, holdVars, upc, waitpc>>

\* pthread_cond_signal(&threads_all_idle): wake one caller of thpool_wait.
SignalIdle ==
    \/ /\ \A c \in Waiter : waitpc[c] # "sleep"
       /\ UNCHANGED waitpc
    \/ \E c \in Waiter :
        /\ waitpc[c] = "sleep"
        /\ waitpc' = [waitpc EXCEPT ![c] = "test"]

\* A mutant: nobody is told that the pool is idle.
Uncount_silent(t) ==
    /\ At(t, "uncount")
    /\ thcount = NULL
    /\ working' = working - 1
    /\ pc' = [pc EXCEPT ![t] = "loop"]
    /\ UNCHANGED <<queueVars, v, rwmutex, thcount, alive, keepalive, holdVars, upc,
                   waitpc>>

\* num_threads_working--, and a signal when it reaches 0.
Uncount(t) ==
    /\ At(t, "uncount")
    /\ thcount = NULL
    /\ working' = working - 1
    /\ IF working' = 0 THEN SignalIdle ELSE UNCHANGED waitpc
    /\ pc' = [pc EXCEPT ![t] = "loop"]
    /\ UNCHANGED <<queueVars, v, rwmutex, thcount, alive, keepalive, holdVars, upc>>

\* num_threads_alive--, with thcount_lock taken ...
Exit(t) ==
    /\ At(t, "exit")
    /\ thcount = NULL
    /\ thcount' = t
    /\ alive' = alive - 1
    /\ pc' = [pc EXCEPT ![t] = "unlock"]
    /\ UNCHANGED <<queueVars, v, rwmutex, working, keepalive, holdVars, upc, waitpc>>

\* ... and released: the last thing the thread does with the pool.
Unlock(t) ==
    /\ At(t, "unlock")
    /\ thcount' = NULL
    /\ pc' = [pc EXCEPT ![t] = "dead"]
    /\ UNCHANGED <<queueVars, v, rwmutex, alive, working, keepalive, holdVars, upc,
                   waitpc>>

\* The code of the pool in thread_do; RunJob is the users' code.
PoolStep(t) ==
    \/ Alive(t) \/ Loop(t) \/ bsem_wait(t) \/ bsem_sleep(t)
    \/ Count(t) \/ LockQueue(t) \/ PullNone(t) \/ PullLast(t) \/ PullMore(t)
    \/ Uncount(t) \/ Exit(t) \/ Unlock(t)

thread_do(t) == PoolStep(t) \/ RunJob(t)

-----------------------------------------------------------------------------
(* The users of the pool.                                                  *)

\* thpool_init returns once every thread has counted itself alive.
thpool_init ==
    /\ upc = "init"
    /\ alive = Cardinality(Thread)
    /\ upc' = "up"
    /\ UNCHANGED <<pc, queueVars, v, rwmutex, countVars, keepalive, holdVars, waitpc>>

Known(j) ==
    \/ \E i \in DOMAIN jobq : jobq[i] = j
    \/ \E t \in Thread : jobof[t] = j
    \/ j \in finished

\* A mutant: the job is pushed to the front.
thpool_add_work_front(j) ==
    /\ upc = "up"
    /\ ~Known(j)
    /\ rwmutex = NULL
    /\ jobq' = <<j>> \o jobq
    /\ bsem_post(pc)
    /\ UNCHANGED <<jobof, finished, rwmutex, countVars, keepalive, holdVars, upc,
                   waitpc>>

\* thpool_add_work: jobqueue_push and bsem_post, under rwmutex.  The caller is
\* a user, or a running job (Dispatch's handlers), even of a pool that ends.
thpool_add_work(j) ==
    /\ \/ upc = "up"
       \/ upc = "ending" /\ \E t \in Thread : At(t, "run")
    /\ ~Known(j)
    /\ rwmutex = NULL
    /\ jobq' = Append(jobq, j)
    /\ bsem_post(pc)
    /\ UNCHANGED <<jobof, finished, rwmutex, countVars, keepalive, holdVars, upc,
                   waitpc>>

\* thpool_wait is called ...
thpool_wait(c) ==
    /\ upc = "up"
    /\ waitpc[c] = "out"
    /\ waitpc' = [waitpc EXCEPT ![c] = "test"]
    /\ UNCHANGED <<pc, queueVars, v, rwmutex, countVars, keepalive, holdVars, upc>>

\* ... tests that there is neither a queued nor a running job and sleeps ...
WaitSleep(c) ==
    /\ waitpc[c] = "test"
    /\ thcount = NULL
    /\ jobq # <<>> \/ working # 0
    /\ waitpc' = [waitpc EXCEPT ![c] = "sleep"]
    /\ UNCHANGED <<pc, queueVars, v, rwmutex, countVars, keepalive, holdVars, upc>>

\* ... until it is signalled, or for no reason ...
WaitSpurious(c) ==
    /\ waitpc[c] = "sleep"
    /\ waitpc' = [waitpc EXCEPT ![c] = "test"]
    /\ UNCHANGED <<pc, queueVars, v, rwmutex, countVars, keepalive, holdVars, upc>>

\* A mutant: running jobs are not waited for.
WaitReturn_queue(c) ==
    /\ waitpc[c] = "test"
    /\ thcount = NULL
    /\ jobq = <<>>
    /\ waitpc' = [waitpc EXCEPT ![c] = "back"]
    /\ UNCHANGED <<pc, queueVars, v, rwmutex, countVars, keepalive, holdVars, upc>>

\* ... or returns.
WaitReturn(c) ==
    /\ waitpc[c] = "test"
    /\ thcount = NULL
    /\ jobq = <<>> /\ working = 0
    /\ waitpc' = [waitpc EXCEPT ![c] = "back"]
    /\ UNCHANGED <<pc, queueVars, v, rwmutex, countVars, keepalive, holdVars, upc>>

\* thpool_pause sends SIGUSR1 to the threads that are alive (all of them: the
\* pool is up).
thpool_pause ==
    /\ upc = "up"
    /\ ~paused
    /\ pauses < MaxPauses
    /\ pauses' = pauses + 1
    /\ paused' = TRUE
    /\ signalled' = Thread
    /\ UNCHANGED <<pc, queueVars, v, rwmutex, countVars, keepalive, on_hold, held,
                   upc, waitpc>>

\* The signal is delivered, wherever the thread is: thread_hold starts.
thread_hold(t) ==
    /\ t \in signalled \ held
    /\ pc[t] # "dead"
    /\ signalled' = signalled \ {t}
    /\ held' = held \cup {t}
    /\ on_hold' = 1
    /\ UNCHANGED <<pc, queueVars, v, rwmutex, countVars, keepalive, paused, pauses,
                   upc, waitpc>>

\* thread_hold ends: while (threads_on_hold) sleep(1).
Unhold(t) ==
    /\ t \in held
    /\ on_hold = 0
    /\ held' = held \ {t}
    /\ UNCHANGED <<pc, queueVars, v, rwmutex, countVars, keepalive, on_hold,
                   signalled, paused, pauses, upc, waitpc>>

thpool_resume ==
    /\ upc = "up"
    /\ paused
    /\ on_hold' = 0
    /\ paused' = FALSE
    /\ UNCHANGED <<pc, queueVars, v, rwmutex, countVars, keepalive, signalled,
                   held, pauses, upc, waitpc>>

\* thpool_destroy tells the threads to end (no user waits for jobs or has the
\* pool paused) ...
thpool_destroy ==
    /\ Destroys
    /\ upc = "up"
    /\ ~paused
    /\ \A c \in Waiter : waitpc[c] \in {"out", "back"}
    /\ keepalive' = 0
    /\ upc' = "ending"
    /\ UNCHANGED <<pc, queueVars, v, rwmutex, countVars, holdVars, waitpc>>

\* ... posts the semaphore while threads are alive ...
DestroyPoll ==
    /\ upc = "ending"
    /\ alive > 0
    /\ bsem_post_all
    /\ UNCHANGED <<queueVars, rwmutex, countVars, keepalive, holdVars, upc, waitpc>>

\* A mutant: the pool is freed after the first second, threads or not.
DestroyFree_timeout ==
    /\ upc = "ending"
    /\ jobq' = <<>>
    /\ v' = 0
    /\ upc' = "freed"
    /\ UNCHANGED <<pc, jobof, finished, rwmutex, countVars, keepalive, holdVars, waitpc>>

\* ... clears the queue, and frees it and the pool.
DestroyFree ==
    /\ upc = "ending"
    /\ alive = 0
    /\ jobq' = <<>>
    /\ v' = 0
    /\ upc' = "freed"
    /\ UNCHANGED <<pc, jobof, finished, rwmutex, countVars, keepalive, holdVars, waitpc>>

DestroyStep == DestroyPoll \/ DestroyFree

Users ==
    \/ thpool_init
    \/ \E j \in Job : thpool_add_work(j)
    \/ \E c \in Waiter : thpool_wait(c) \/ WaitSleep(c) \/ WaitSpurious(c) \/ WaitReturn(c)
    \/ thpool_pause \/ thpool_resume
    \/ thpool_destroy \/ DestroyStep

Signals(t) == thread_hold(t) \/ Unhold(t) \/ Spurious(t)

Next ==
    \/ Users
    \/ \E t \in Thread : thread_do(t) \/ Signals(t)

Spec == Init /\ [][Next]_vars

\* Threads are scheduled, a signal is delivered and a held thread polls; a
\* caller inside thpool_init, thpool_wait or thpool_destroy goes on.  Nobody has
\* to call anything, no wakeup has to be spurious, and no job has to return.
FairSpec ==
    /\ Spec
    /\ \A t \in Thread :
        /\ WF_vars(PoolStep(t))
        /\ WF_vars(thread_hold(t))
        /\ WF_vars(Unhold(t))
    /\ WF_vars(thpool_init)
    /\ \A c \in Waiter : WF_vars(WaitSleep(c) \/ WaitReturn(c))
    /\ WF_vars(DestroyStep)

-----------------------------------------------------------------------------
(* Properties.                                                             *)

PC == {"start", "loop", "wait", "sleep", "check", "pull", "pulling", "run",
       "uncount", "exit", "unlock", "dead"}

\* Every field of thpool_, jobqueue and bsem, and every thread's place in
\* thread_do, keeps its type; a thread has a job exactly while it runs it, and a
\* mutex exactly where thread_do holds it.
TypeOK ==
    /\ pc \in [Thread -> PC]
    /\ jobof \in [Thread -> Job \cup {NULL}]
    /\ jobq \in Seq(Job)
    /\ v \in {0, 1}
    /\ rwmutex \in Thread \cup {NULL}
    /\ thcount \in Thread \cup {NULL}
    /\ alive \in Int
    /\ working \in Int
    /\ keepalive \in {0, 1}
    /\ on_hold \in {0, 1}
    /\ signalled \in SUBSET Thread
    /\ held \in SUBSET Thread
    /\ paused \in BOOLEAN
    /\ pauses \in Nat
    /\ upc \in {"init", "up", "ending", "freed"}
    /\ waitpc \in [Waiter -> {"out", "test", "sleep", "back"}]
    /\ finished \in SUBSET Job
    /\ \A t \in Thread :
        /\ jobof[t] # NULL <=> pc[t] = "run"
        /\ rwmutex = t <=> pc[t] = "pulling"
        /\ thcount = t <=> pc[t] = "unlock"

\* Between num_threads_working++ and num_threads_working--.
Busy == {t \in Thread : pc[t] \in {"pull", "pulling", "run", "uncount"}}

\* Between num_threads_alive += 1 and num_threads_alive --.
Live == {t \in Thread : pc[t] \notin {"start", "unlock", "dead"}}

\* The two counters of thpool_ count what their names say, whatever the
\* threads, the users and the signals do.
CountersExact ==
    /\ working = Cardinality(Busy)
    /\ alive = Cardinality(Live)

\* No lost wakeup: when jobs are queued and a thread sleeps in bsem_wait, some
\* other thread that runs no job is on its way to the queue, either past the
\* semaphore or about to find it posted.  One binary semaphore stands for any
\* number of jobs, so this rests on jobqueue_pull passing the post on.
NoLostWakeup ==
    keepalive = 1 /\ jobq # <<>> /\ (\E t \in Thread : pc[t] = "sleep") =>
        \E t \in Thread :
            \/ pc[t] \in {"check", "pull", "pulling"}
            \/ pc[t] = "wait" /\ v = 1

\* thpool_wait: "Will wait for all jobs - both queued and currently running to
\* finish" (thpool.h): when it returns, no job is queued and no thread has one,
\* although it reads len without rwmutex.
WaitMeansIdle ==
    [][\A c \in Waiter :
          waitpc[c] = "test" /\ waitpc'[c] = "back" =>
              jobq = <<>> /\ \A t \in Thread : jobof[t] = NULL]_vars

\* thpool_destroy frees the pool when every thread has left the loop of
\* thread_do; all that a thread may still do with it is unlock thcount_lock.
FreedAfterLoop ==
    upc = "freed" => \A t \in Thread : pc[t] \in {"unlock", "dead"}

\* "This will wait for the currently active threads to finish and then 'kill'
\* the whole threadpool to free up memory" (thpool.h): no thread uses the pool
\* after thpool_destroy has freed it.
FreedAfterUse == upc = "freed" => \A t \in Thread : pc[t] = "dead"

\* Jobs return.
JobsReturn == \A t \in Thread : WF_vars(RunJob(t))

\* thpool_wait: "Once the queue is empty and all work has completed, the calling
\* thread ... will continue" (thpool.h).
WaitReturns ==
    JobsReturn => \A c \in Waiter : waitpc[c] \in {"test", "sleep"} ~> waitpc[c] = "back"

\* thpool_destroy returns, with every thread ended, although its posts wake
\* threads that take the binary semaphore from each other.
DestroyReturns ==
    JobsReturn => (upc = "ending" ~> (upc = "freed" /\ \A t \in Thread : pc[t] = "dead"))

\* The pool is the abstract JobPool.
JP == INSTANCE JobPool WITH pending <- jobq, running <- jobof

\* Every step of the pool is a step of JobPool: jobs start in the order they
\* were added, each in one thread, and thpool_destroy discards the rest.
ImplementsJobPool == JP!Spec

\* Until thpool_destroy is called a queued job is started as long as a thread is
\* free, even if the jobs that the other threads run never return.
StartsQueuedJobs == [](upc # "ending") => JP!Progress
=============================================================================
