----------------------------- MODULE TimerLoop ------------------------------
(***************************************************************************)
(* The timer pass of the event loop, misaka_packet_loop_timer: it arms the *)
(* requests that wait in the EVENT_SYS queue, at most MISAKA_TIMER_SANDS   *)
(* of them, and only then lets the wheel catch up with the clock           *)
(* (server_timer_updatetime).  So a request is armed relative to the time  *)
(* of the pass before.  The wheel is what Alarm says of it (TimerWheel     *)
(* implements Alarm); time passes between two passes, at most MaxGap       *)
(* centiseconds.                                                           *)
(***************************************************************************)
EXTENDS Naturals, Sequences

CONSTANTS
    Request,             \* the messages that ask for a timer
    TimerIntervals,      \* s->interval
    MISAKA_TIMER_SANDS,
    MaxGap               \* the longest time between two passes

ASSUME TimerLoopAssumption ==
    /\ TimerIntervals \subseteq Nat
    /\ MISAKA_TIMER_SANDS \in Nat \ {0}
    /\ MaxGap \in Nat \ {0}

\* sysq: the EVENT_SYS queue.  ticks: what the wheel still waits for (0: not armed).
\* gap: the time since the last pass (gettime() - current_point).
\* Of each request: asked, its interval; age, the time since it was queued;
\* skipped, the passes that ended with it in the queue; fired, by the last pass.
VARIABLES sysq, ticks, gap, asked, age, skipped, fired

tvars == <<sysq, ticks, gap, asked, age, skipped, fired>>

Zero == [r \in Request |-> 0]

\* server_timer_init: current_point is now.
TimerLoopInit ==
    /\ sysq = <<>> /\ ticks = Zero /\ gap = 0
    /\ asked = Zero /\ age = Zero /\ skipped = Zero /\ fired = {}

Among(q) == {q[i] : i \in 1 .. Len(q)}

Pending(r) == ticks[r] > 0 \/ r \in Among(sysq)

\* A handler's message with an interval reaches the EVENT_SYS queue.
Ask(r, d) ==
    /\ ~Pending(r)
    /\ sysq' = Append(sysq, r)
    /\ asked' = [asked EXCEPT ![r] = d]
    /\ age' = [age EXCEPT ![r] = 0]
    /\ skipped' = [skipped EXCEPT ![r] = 0]
    /\ fired' = {}
    /\ UNCHANGED <<ticks, gap>>

\* A centisecond passes (external: the clock).
ClockTick ==
    /\ gap < MaxGap
    /\ gap' = gap + 1
    /\ age' = [r \in Request |-> IF Pending(r) THEN age[r] + 1 ELSE age[r]]
    /\ fired' = {}
    /\ UNCHANGED <<sysq, ticks, asked, skipped>>

\* How many requests a pass takes from the queue.
Sands == IF Len(sysq) < MISAKA_TIMER_SANDS THEN Len(sysq) ELSE MISAKA_TIMER_SANDS

\* A mutant: current_point is not moved, so the time is counted again.
server_timer_updatetime_again(armed) ==
    /\ fired' = {r \in Request : armed[r] \in 1 .. gap}
    /\ ticks' = [r \in Request |-> IF armed[r] <= gap THEN 0 ELSE armed[r] - gap]
    /\ gap' = IF gap = MaxGap THEN 0 ELSE gap

\* server_timer_updatetime: a timer_update per centisecond since the last pass.
server_timer_updatetime(armed) ==
    /\ fired' = {r \in Request : armed[r] \in 1 .. gap}
    /\ ticks' = [r \in Request |-> IF armed[r] <= gap THEN 0 ELSE armed[r] - gap]
    /\ gap' = 0

\* misaka_packet_loop_timer: pop and arm (interval 0 is dropped), then update.
misaka_packet_loop_timer ==
    LET popped == Among(SubSeq(sysq, 1, Sands))
        armed == [r \in Request |-> IF r \in popped THEN asked[r] ELSE ticks[r]]
    IN  /\ sysq' = SubSeq(sysq, Sands + 1, Len(sysq))
        /\ skipped' = [r \in Request |-> skipped[r] + (IF r \in Among(sysq') THEN 1 ELSE 0)]
        /\ server_timer_updatetime(armed)
        /\ UNCHANGED <<asked, age>>

TimerLoopNext ==
    \/ \E r \in Request, d \in TimerIntervals : Ask(r, d)
    \/ ClockTick
    \/ misaka_packet_loop_timer

TimerLoopSpec == TimerLoopInit /\ [][TimerLoopNext]_tvars

\* How far a timer is off.  It may fire before its interval is over, but by no
\* more than one gap between passes, since it is armed relative to the pass
\* before; and it fires at most one gap late, and one more for every pass that
\* ran out of sands before it.
FiresNear ==
    \A r \in fired : /\ age[r] + MaxGap >= asked[r]
                     /\ age[r] <= asked[r] + MaxGap * (1 + skipped[r])
=============================================================================
