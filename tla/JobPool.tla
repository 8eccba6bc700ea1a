------------------------------ MODULE JobPool -------------------------------
(***************************************************************************)
(* What a thread pool promises its users: jobs are started in the order    *)
(* they were added, each by one thread and once; a thread without a job    *)
(* and a waiting job meet eventually.  Dispatch relies on this; Thpool     *)
(* implements it.                                                          *)
(***************************************************************************)
EXTENDS Naturals, Sequences

CONSTANTS
    Thread,  \* the threads of the pool
    Job,     \* the jobs ever added
    NULL     \* no job

VARIABLES
    pending,  \* jobs added and not started, oldest first
    running,  \* the job of each thread
    finished  \* jobs that ended

vars == <<pending, running, finished>>

Init ==
    /\ pending = <<>>
    /\ running = [t \in Thread |-> NULL]
    /\ finished = {}

Waiting(j) == \E i \in DOMAIN pending : pending[i] = j

Add(j) ==
    /\ ~Waiting(j) /\ j \notin finished /\ \A t \in Thread : running[t] # j
    /\ pending' = Append(pending, j)
    /\ UNCHANGED <<running, finished>>

Start(t) ==
    /\ running[t] = NULL
    /\ pending # <<>>
    /\ running' = [running EXCEPT ![t] = Head(pending)]
    /\ pending' = Tail(pending)
    /\ UNCHANGED finished

Finish(t) ==
    /\ running[t] # NULL
    /\ finished' = finished \cup {running[t]}
    /\ running' = [running EXCEPT ![t] = NULL]
    /\ UNCHANGED pending

\* The pool is destroyed; jobs that were not started never will be.
Discard ==
    /\ pending' = <<>>
    /\ UNCHANGED <<running, finished>>

Next ==
    \/ \E j \in Job : Add(j)
    \/ \E t \in Thread : Start(t) \/ Finish(t)
    \/ Discard

Spec == Init /\ [][Next]_vars

\* Progress of a pool that is neither paused nor destroyed: a waiting job is
\* started as long as a thread is free, even if no running job ever ends.
Progress == WF_vars(\E t \in Thread : Start(t))

FairSpec == Spec /\ Progress
=============================================================================
