------------------------------ MODULE Dispatch ------------------------------
(***************************************************************************)
(* Task dispatch of lib/core.c: the event loop (the main thread) routes    *)
(* packets to the queues of their event type, the threads of the pool run  *)
(* worker(), which takes queues from the global list and hands their       *)
(* messages to the event handlers, and the main thread collects what the   *)
(* handlers send back through the EVENT_NET and EVENT_SYS queues.          *)
(*                                                                         *)
(* The thread pool appears as a count of pending jobs (every job is        *)
(* worker); module Thpool models it in detail.  The timer wheel appears as *)
(* the set of armed messages.                                              *)
(***************************************************************************)
EXTENDS SkynetMq, FiniteSets

CONSTANTS
    Worker,        \* the threads of the pool (MISAKA_THREAD_NUM of them)
    HandlerTypes,  \* the event types with a loaded handler
    Returns,       \* the event types a handler may leave in s->type
    TimerTypes,    \* the event types a handler may leave in s->stype
    TaskSands,     \* MISAKA_TASK_SANDS: messages per job
    RouteSands,    \* MISAKA_ROUTE_SANDS: messages per round of the route loop
    TimerSands,    \* MISAKA_TIMER_SANDS: messages per round of the timer loop
    MaxJobs        \* bound: no message is sent back to a task queue, and no
                   \* timer fires, while this many jobs are pending

ASSUME DispatchAssumption ==
    /\ NULL \notin Worker
    /\ HandlerTypes \subseteq (EVENT_NONE + 1) .. (EVENT_NET - 1)
    /\ Returns \subseteq Handle
    /\ TimerTypes \subseteq Handle
    /\ TaskSands \in Nat \ {0}
    /\ RouteSands \in Nat \ {0}
    /\ TimerSands \in Nat \ {0}
    /\ MaxJobs \in Nat

VARIABLES
    wpc,     \* where each pool thread is in worker()
    wq,      \* q of worker(): the queue the thread took from the global list
    wmsg,    \* s of worker(): the message it is working on
    sands,   \* sands of worker()
    jobs,    \* jobs in the pool's queue
    mpc,     \* where the main thread is in its callbacks
    msands,  \* sands of misaka_packet_loop_route and misaka_packet_loop_timer
    armed,   \* messages in the timer wheel
    fate,    \* what became of every message
    aborted  \* an assertion failed and ended the process

workerVars == <<wpc, wq, wmsg, sands>>
mainVars == <<mpc, msands>>
envVars == <<mainVars, armed, fate>>
vars == <<mqVars, workerVars, jobs, envVars, aborted>>

Fates == {"fresh",    \* not received yet
          "live",     \* in a queue, in the wheel, or in the hands of a thread
          "routed",   \* given to misaka_packet_route by the route loop
          "freed",    \* freed, the handler asked for EVENT_NONE
          "dropped",  \* popped from the EVENT_NET queue by a worker
          "leaked"}   \* no handler, or the handler failed: never freed

Init ==
    /\ skynet_mq_init
    /\ skynet_mq_create
    /\ wpc = [w \in Worker |-> "idle"]
    /\ wq = [w \in Worker |-> NULL]
    /\ wmsg = [w \in Worker |-> NULL]
    /\ sands = [w \in Worker |-> 0]
    /\ jobs = 0
    /\ mpc = "loop"
    /\ msands = 0
    /\ armed = {}
    /\ fate = [m \in Msg |-> "fresh"]
    /\ aborted = FALSE

-----------------------------------------------------------------------------
(* The pool threads.                                                       *)

\* thread_do pulls a job and calls worker().
StartJob(w) ==
    /\ wpc[w] = "idle"
    /\ jobs > 0
    /\ jobs' = jobs - 1
    /\ sands' = [sands EXCEPT ![w] = TaskSands]
    /\ wpc' = [wpc EXCEPT ![w] = "gpop"]
    /\ UNCHANGED <<mqVars, wq, wmsg, envVars, aborted>>

\* q = skynet_globalmq_pop() finds a queue.
TakeQueue(w) ==
    /\ wpc[w] = "gpop"
    /\ wq' = [wq EXCEPT ![w] = Qhead]
    /\ skynet_globalmq_pop
    /\ wpc' = [wpc EXCEPT ![w] = "drain"]
    /\ UNCHANGED <<in_global, queue, wmsg, sands, jobs, envVars, aborted>>

\* q = skynet_globalmq_pop() finds none: the job ends.
NoQueue(w) ==
    /\ wpc[w] = "gpop"
    /\ Qhead = NULL
    /\ wpc' = [wpc EXCEPT ![w] = "idle"]
    /\ UNCHANGED <<mqVars, wq, wmsg, sands, jobs, envVars, aborted>>

\* The assertion of skynet_globalmq_pop fails: abort().
AssertFails(w) ==
    /\ wpc[w] = "gpop"
    /\ Qhead # NULL
    /\ ~assert_tail
    /\ aborted' = TRUE
    /\ UNCHANGED <<mqVars, workerVars, jobs, envVars>>

\* The drain loop pops a message of a task queue, to be processed.
PopTask(w) ==
    /\ wpc[w] = "drain"
    /\ sands[w] > 0
    /\ wq[w] # EVENT_NET
    /\ skynet_mq_pop(wq[w])
    /\ wmsg' = [wmsg EXCEPT ![w] = Head(queue[wq[w]])]
    /\ wpc' = [wpc EXCEPT ![w] = "process"]
    /\ UNCHANGED <<wq, sands, jobs, envVars, aborted>>

\* The drain loop pops a message of the EVENT_NET queue and forgets it.
PopNet(w) ==
    /\ wpc[w] = "drain"
    /\ sands[w] > 0
    /\ wq[w] = EVENT_NET
    /\ skynet_mq_pop(EVENT_NET)
    /\ fate' = [fate EXCEPT ![Head(queue[EVENT_NET])] = "dropped"]
    /\ sands' = [sands EXCEPT ![w] = @ - 1]
    /\ UNCHANGED <<wpc, wq, wmsg, jobs, mainVars, armed, aborted>>

\* The drain loop finds the queue empty: the thread looks for another queue.
PopEmpty(w) ==
    /\ wpc[w] = "drain"
    /\ sands[w] > 0
    /\ skynet_mq_pop_empty(wq[w])
    /\ wq' = [wq EXCEPT ![w] = NULL]
    /\ wpc' = [wpc EXCEPT ![w] = "gpop"]
    /\ UNCHANGED <<wmsg, sands, jobs, envVars, aborted>>

\* The sands ran out: the queue goes back to the global list, the job ends.
OutOfSands(w) ==
    /\ wpc[w] = "drain"
    /\ sands[w] = 0
    /\ skynet_globalmq_push(wq[w])
    /\ wq' = [wq EXCEPT ![w] = NULL]
    /\ wpc' = [wpc EXCEPT ![w] = "idle"]
    /\ UNCHANGED <<in_global, queue, wmsg, sands, jobs, envVars, aborted>>

\* misaka_packet_process returns to the drain loop, which takes a sand.
EndProcess(w) ==
    /\ wmsg' = [wmsg EXCEPT ![w] = NULL]
    /\ sands' = [sands EXCEPT ![w] = @ - 1]
    /\ wpc' = [wpc EXCEPT ![w] = "drain"]

\* misaka_packet_process without effect: an event type without a handler, or
\* a handler that fails (lua_pcall).  Nobody frees the message.
ProcessFails(w) ==
    /\ wpc[w] = "process"
    /\ fate' = [fate EXCEPT ![wmsg[w]] = "leaked"]
    /\ EndProcess(w)
    /\ UNCHANGED <<mqVars, wq, jobs, mainVars, armed, aborted>>

\* The handler leaves EVENT_NONE in s->type: the message is freed.
ProcessNone(w) ==
    /\ wpc[w] = "process"
    /\ wq[w] \in HandlerTypes
    /\ EVENT_NONE \in Returns
    /\ fate' = [fate EXCEPT ![wmsg[w]] = "freed"]
    /\ EndProcess(w)
    /\ UNCHANGED <<mqVars, wq, jobs, mainVars, armed, aborted>>

\* The handler leaves EVENT_NET in s->type: misaka_packet_net_route first
\* claims the EVENT_NET queue, without its lock ...
ProcessNet(w) ==
    /\ wpc[w] = "process"
    /\ wq[w] \in HandlerTypes
    /\ EVENT_NET \in Returns
    /\ skynet_mq_global(EVENT_NET, 1)
    /\ wpc' = [wpc EXCEPT ![w] = "netpush"]
    /\ UNCHANGED <<wq, wmsg, sands, jobs, envVars, aborted>>

\* ... and then pushes the message.
NetPush(w) ==
    /\ wpc[w] = "netpush"
    /\ skynet_mq_push(EVENT_NET, wmsg[w])
    /\ EndProcess(w)
    /\ UNCHANGED <<wq, jobs, envVars, aborted>>

\* The handler leaves another event type: misaka_packet_task_route pushes the
\* message to the queue of that type ...
ProcessTask(w) ==
    /\ wpc[w] = "process"
    /\ wq[w] \in HandlerTypes
    /\ jobs < MaxJobs
    /\ \E t \in Returns \ {EVENT_NONE, EVENT_NET} : skynet_mq_push(t, wmsg[w])
    /\ wmsg' = [wmsg EXCEPT ![w] = NULL]
    /\ wpc' = [wpc EXCEPT ![w] = "addwork"]
    /\ UNCHANGED <<wq, sands, jobs, envVars, aborted>>

\* ... and then adds a job to the pool.
AddWork(w) ==
    /\ wpc[w] = "addwork"
    /\ jobs' = jobs + 1
    /\ EndProcess(w)
    /\ UNCHANGED <<mqVars, wq, envVars, aborted>>

-----------------------------------------------------------------------------
(* The main thread: callbacks of the event loop, one at a time.            *)

\* read_io_action of a complete packet for this node: misaka_packet_task_route
\* pushes a clone of it to the EVENT_ECHO queue (messages are interchangeable,
\* so any one not used yet stands for the clone) ...
Read ==
    /\ mpc = "loop"
    /\ \E m \in Msg : fate[m] = "fresh"
    /\ LET m == CHOOSE n \in Msg : fate[n] = "fresh"
       IN  /\ fate' = [fate EXCEPT ![m] = "live"]
           /\ skynet_mq_push(EVENT_ECHO, m)
    /\ mpc' = "readwork"
    /\ UNCHANGED <<workerVars, jobs, msands, armed, aborted>>

\* A mutant: no job is added.
ReadWork_none ==
    /\ mpc = "readwork"
    /\ mpc' = "loop"
    /\ UNCHANGED <<mqVars, workerVars, jobs, msands, armed, fate, aborted>>

\* ... and adds a job to the pool.
ReadWork ==
    /\ mpc = "readwork"
    /\ jobs' = jobs + 1
    /\ mpc' = "loop"
    /\ UNCHANGED <<mqVars, workerVars, msands, armed, fate, aborted>>

\* misaka_packet_loop_route starts.
RouteStart ==
    /\ mpc = "loop"
    /\ mpc' = "route"
    /\ msands' = RouteSands
    /\ UNCHANGED <<mqVars, workerVars, jobs, armed, fate, aborted>>

\* A mutant: it pops the queue of the timers.
RoutePop_sys ==
    /\ mpc = "route"
    /\ skynet_mq_pop(EVENT_SYS)
    /\ fate' = [fate EXCEPT ![Head(queue[EVENT_SYS])] = "routed"]
    /\ msands' = msands - 1
    /\ mpc' = IF msands = 1 THEN "loop" ELSE "route"
    /\ UNCHANGED <<workerVars, jobs, armed, aborted>>

\* It pops a message and sends it (misaka_packet_route).
RoutePop ==
    /\ mpc = "route"
    /\ skynet_mq_pop(EVENT_NET)
    /\ fate' = [fate EXCEPT ![Head(queue[EVENT_NET])] = "routed"]
    /\ msands' = msands - 1
    /\ mpc' = IF msands = 1 THEN "loop" ELSE "route"
    /\ UNCHANGED <<workerVars, jobs, armed, aborted>>

\* It finds the queue empty and returns.
RouteEmpty ==
    /\ mpc = "route"
    /\ skynet_mq_pop_empty(EVENT_NET)
    /\ msands' = 0
    /\ mpc' = "loop"
    /\ UNCHANGED <<workerVars, jobs, armed, fate, aborted>>

\* misaka_packet_loop_timer starts.
TimerStart ==
    /\ mpc = "loop"
    /\ mpc' = "timer"
    /\ msands' = TimerSands
    /\ UNCHANGED <<mqVars, workerVars, jobs, armed, fate, aborted>>

\* It pops a message, swaps type and stype and arms a timer with it; a message
\* with interval 0 is neither armed nor freed (server_timer_timeout).
TimerPop ==
    /\ mpc = "timer"
    /\ skynet_mq_pop(EVENT_SYS)
    /\ LET m == Head(queue[EVENT_SYS])
       IN \/ /\ armed' = armed \cup {m}
             /\ UNCHANGED fate
          \/ /\ fate' = [fate EXCEPT ![m] = "leaked"]
             /\ UNCHANGED armed
    /\ msands' = msands - 1
    /\ mpc' = IF msands = 1 THEN "tick" ELSE "timer"
    /\ UNCHANGED <<workerVars, jobs, aborted>>

\* It finds the queue empty and goes on to server_timer_updatetime.
TimerEmpty ==
    /\ mpc = "timer"
    /\ skynet_mq_pop_empty(EVENT_SYS)
    /\ msands' = 0
    /\ mpc' = "tick"
    /\ UNCHANGED <<workerVars, jobs, armed, fate, aborted>>

\* dispatch_list hands an expired message to misaka_packet_task_route, which
\* pushes it to the queue of its type (the stype of before) ...
Expire ==
    /\ mpc = "tick"
    /\ jobs < MaxJobs
    /\ \E m \in armed, t \in TimerTypes :
        /\ armed' = armed \ {m}
        /\ skynet_mq_push(t, m)
    /\ mpc' = "tickwork"
    /\ UNCHANGED <<workerVars, jobs, msands, fate, aborted>>

\* ... and adds a job to the pool.
TickWork ==
    /\ mpc = "tickwork"
    /\ jobs' = jobs + 1
    /\ mpc' = "tick"
    /\ UNCHANGED <<mqVars, workerVars, msands, armed, fate, aborted>>

\* No (more) expired timers: misaka_packet_loop_timer returns.
TickEnd ==
    /\ mpc = "tick"
    /\ mpc' = "loop"
    /\ UNCHANGED <<mqVars, workerVars, jobs, msands, armed, fate, aborted>>

-----------------------------------------------------------------------------
WorkerStep(w) ==
    \/ StartJob(w) \/ TakeQueue(w) \/ NoQueue(w) \/ AssertFails(w)
    \/ PopTask(w) \/ PopNet(w) \/ PopEmpty(w) \/ OutOfSands(w)
    \/ ProcessFails(w) \/ ProcessNone(w) \/ ProcessNet(w) \/ NetPush(w)
    \/ ProcessTask(w) \/ AddWork(w)

RouteLoop == RouteStart \/ RoutePop \/ RouteEmpty
TimerLoop ==
    \/ TimerStart \/ TimerPop \/ TimerEmpty \/ Expire \/ TickWork \/ TickEnd
MainStep == Read \/ ReadWork \/ RouteLoop \/ TimerLoop

Next ==
    /\ ~aborted
    /\ MainStep \/ \E w \in Worker : WorkerStep(w)

Spec == Init /\ [][Next]_vars

\* Pool threads run whenever they can.  The event loop finishes the callback it
\* is in, and its periodic watchers fire again and again: the loop runs every
\* pending watcher of an iteration, so neither is starved by the other.
FairSpec ==
    /\ Spec
    /\ \A w \in Worker : WF_vars(~aborted /\ WorkerStep(w))
    /\ WF_vars(~aborted /\ mpc # "loop" /\ MainStep)
    /\ SF_vars(~aborted /\ RouteStart)
    /\ SF_vars(~aborted /\ TimerStart)

-----------------------------------------------------------------------------
(* Properties.                                                             *)

\* Every variable keeps its type (the fields of the structs in skynet_mq.c and
\* the locals of worker() and of the two loops of the main thread); a thread
\* has a queue in hand exactly from skynet_globalmq_pop to the end of the drain
\* loop, and a message exactly while it processes one.
TypeOK ==
    /\ mqTypeOK
    /\ wpc \in [Worker -> {"idle", "gpop", "drain", "process", "netpush", "addwork"}]
    /\ wq \in [Worker -> Handle \cup {NULL}]
    /\ wmsg \in [Worker -> Msg \cup {NULL}]
    /\ sands \in [Worker -> 0 .. TaskSands]
    /\ jobs \in Nat
    /\ mpc \in {"loop", "readwork", "route", "timer", "tick", "tickwork"}
    /\ msands \in Nat
    /\ armed \in SUBSET Msg
    /\ fate \in [Msg -> Fates]
    /\ aborted \in BOOLEAN
    /\ \A w \in Worker :
        /\ wq[w] = NULL <=> wpc[w] \in {"idle", "gpop"}
        /\ wmsg[w] # NULL <=> wpc[w] \in {"process", "netpush"}
        /\ wpc[w] \in {"process", "netpush", "addwork"} => sands[w] > 0
    /\ mpc \in {"route", "timer"} => msands > 0

\* The queues that only workers drain.
TaskQueue == Handle \ {EVENT_SYS, EVENT_NET}

Held(q) == \E w \in Worker : wq[w] = q

\* "events queue, handles by only thread" (core.c): a task queue is drained by
\* at most one thread at a time, so a handler (one lua_State per event type)
\* never runs in two threads at once, and its messages are handled in order.
SerialHandlers ==
    \A v, w \in Worker : v # w /\ wq[v] = wq[w] => wq[v] \notin TaskQueue

\* "0 means mq is not in global mq" (skynet_mq.c), for the task queues: with
\* in_global clear, the queue is neither in the global list nor in the hands of
\* a worker, so that the next skynet_mq_push may list it.
TaskFlagClear ==
    \A q \in TaskQueue : in_global[q] = 0 => ~Referenced(q) /\ ~Held(q)

\* A task queue is in the global list once at most, and never while a worker
\* drains it: the repeated skynet_globalmq_push calls of skynet_mq_push and of
\* worker() (out of sands) never list it twice, although the push does not look
\* at the list.  With the two above, this is inductive.
TaskListedOnce ==
    \A q \in TaskQueue : ListedOnce(q) /\ (Held(q) => ~Referenced(q))

\* "1 means mq is in global mq, or the message is dispatching" (skynet_mq.c),
\* for the task queues: with in_global set, a worker has the queue or a
\* skynet_globalmq_pop will find it.  Otherwise nobody drains it ever again,
\* because skynet_mq_push relies on in_global and does not list it.
TaskFlagSet ==
    \A q \in TaskQueue : in_global[q] = 1 => q \in Listed \/ Held(q)

\* No queue holds messages while its in_global flag is clear: the pop that
\* clears it and the push that sets it (both under the queue's lock), and the
\* store of misaka_packet_net_route (without it) leave no message behind.
NonemptyFlagged == \A q \in Handle : queue[q] # <<>> => in_global[q] = 1

\* assert(mq == q->tail) of skynet_globalmq_pop never fails.
NoAbort == ~aborted

\* Whatever waits in a task queue has someone coming for it: a pending job, a
\* thread inside worker(), or a thread that has pushed and is about to call
\* thpool_add_work.
WorkScheduled ==
    (\E q \in TaskQueue : queue[q] # <<>>) =>
        \/ jobs > 0
        \/ \E w \in Worker : wpc[w] # "idle"
        \/ mpc \in {"readwork", "tickwork"}

\* Where message m is: its places in the queues, the thread that works on it,
\* the timer wheel.
Places(m) ==
    (UNION {{<<q, i>> : i \in {j \in DOMAIN queue[q] : queue[q][j] = m}} :
              q \in Handle})
    \cup {w \in Worker : wmsg[w] = m}
    \cup (armed \cap {m})

\* A message that was received and is not finished is in exactly one place, a
\* finished one in none: no thread keeps or frees a struct stream that another
\* one may still get.
OneOwner ==
    \A m \in Msg :
        Cardinality(Places(m)) = IF fate[m] = "live" THEN 1 ELSE 0

\* Every packet that read_io_action routes to the EVENT_ECHO queue is taken out
\* of it by a worker.
Handled ==
    \A m \in Msg :
        (\E i \in DOMAIN queue[EVENT_ECHO] : queue[EVENT_ECHO][i] = m)
            ~> (\A i \in DOMAIN queue[EVENT_ECHO] : queue[EVENT_ECHO][i] # m)

\* Every reply that a handler routes to the EVENT_NET queue leaves it: by
\* misaka_packet_loop_route, or by a worker.
Replied ==
    \A m \in Msg :
        (\E i \in DOMAIN queue[EVENT_NET] : queue[EVENT_NET][i] = m)
            ~> (fate[m] \in {"routed", "dropped"})
=============================================================================
