----------------------------- MODULE TimerWheel -----------------------------
(***************************************************************************)
(* The timer wheel of lib/timer.c.  A node that expires in the current     *)
(* block of TIME_NEAR ticks is in near[], any other in one of four levels  *)
(* of ever longer slots, from which timer_shift moves it down.  The code   *)
(* has TIME_NEAR_SHIFT = 8 and TIME_LEVEL_SHIFT = 6, so that time is a     *)
(* 32-bit counter that wraps; here both shifts are parameters and the      *)
(* width of time follows from them.                                        *)
(*                                                                         *)
(* Only the event loop uses the wheel: it arms timers and runs             *)
(* timer_update once per centisecond that has passed.                      *)
(***************************************************************************)
EXTENDS Integers, SequencesExt

CONSTANTS
    Timer,             \* the timer nodes (messages)
    Intervals,         \* the intervals they are armed with
    TIME_NEAR_SHIFT,
    TIME_LEVEL_SHIFT

TIME_NEAR == 2 ^ TIME_NEAR_SHIFT
TIME_LEVEL == 2 ^ TIME_LEVEL_SHIFT
Width == TIME_NEAR_SHIFT + 4 * TIME_LEVEL_SHIFT

\* Intervals that are not negative ints: timer_add would take a negative one for
\* a time more than half a turn ahead.
ASSUME WheelAssumption ==
    /\ TIME_NEAR_SHIFT \in Nat \ {0}
    /\ TIME_LEVEL_SHIFT \in Nat \ {0}
    /\ Intervals \subseteq 0 .. (2 ^ (Width - 1) - 1)

VARIABLES
    time,    \* T->time
    near,    \* T->near
    t,       \* T->t
    expire,  \* node->expire
    order,   \* the nodes in the wheel, in the order they were armed
    out      \* what the last timer_update dispatched, in order

vars == <<time, near, t, expire, order, out>>

\* A wheel without nodes.
EmptyWheel ==
    [near |-> [i \in 0 .. (TIME_NEAR - 1) |-> <<>>],
     t |-> [l \in 0 .. 3 |-> [i \in 0 .. (TIME_LEVEL - 1) |-> <<>>]]]

\* server_timer_create_timer
Init ==
    /\ time = 0
    /\ near = EmptyWheel.near
    /\ t = EmptyWheel.t
    /\ expire = [n \in Timer |-> 0]
    /\ order = <<>>
    /\ out = <<>>

\* x >> (the bits below level l)
Shifted(x, l) == x \div 2 ^ (TIME_NEAR_SHIFT + l * TIME_LEVEL_SHIFT)

\* The level of add_node: the first of 0 .. 2 above which both times agree, or 3.
Level(x, now) ==
    CHOOSE l \in 0 .. 3 :
        /\ l < 3 => Shifted(x, l + 1) = Shifted(now, l + 1)
        /\ \A k \in 0 .. (l - 1) : Shifted(x, k + 1) # Shifted(now, k + 1)

\* add_node: append node n, which expires at x, to its list of wheel w.
add_node(w, n, x, now) ==
    LET l == Level(x, now)
    IN  IF Shifted(x, 0) = Shifted(now, 0)
          THEN [w EXCEPT !.near[x % TIME_NEAR] = Append(@, n)]
          ELSE [w EXCEPT !.t[l][Shifted(x, l) % TIME_LEVEL] = Append(@, n)]

\* A mutant: the nodes are added in the opposite order.
move_list_reversed(w, l, idx, now) ==
    FoldLeft(LAMBDA u, n : add_node(u, n, expire[n], now),
             [w EXCEPT !.t[l][idx] = <<>>],
             Reverse(w.t[l][idx]))

\* move_list: take the list of a slot and add its nodes again, in order.
move_list(w, l, idx, now) ==
    FoldLeft(LAMBDA u, n : add_node(u, n, expire[n], now),
             [w EXCEPT !.t[l][idx] = <<>>],
             w.t[l][idx])

\* A mutant: nothing is moved when time wraps.
timer_shift_no_wrap(w, now) ==
    LET idx(l) == Shifted(now, l) % TIME_LEVEL
        Ends(l) == now % 2 ^ (TIME_NEAR_SHIFT + l * TIME_LEVEL_SHIFT) = 0
        levels == {l \in 0 .. 3 : Ends(l) /\ idx(l) # 0}
    IN  IF levels = {} THEN w
        ELSE LET l == CHOOSE k \in levels : \A j \in levels : k <= j
             IN  move_list(w, l, idx(l), now)

\* timer_shift to the time now: at the end of a block of level l, and of all
\* the levels below, move the next slot of level l down.
timer_shift(w, now) ==
    LET idx(l) == Shifted(now, l) % TIME_LEVEL
        Ends(l) == now % 2 ^ (TIME_NEAR_SHIFT + l * TIME_LEVEL_SHIFT) = 0
        levels == {l \in 0 .. 3 : Ends(l) /\ idx(l) # 0}
    IN  IF now = 0 THEN move_list(w, 3, 0, now)
        ELSE IF levels = {} THEN w
        ELSE LET l == CHOOSE k \in levels : \A j \in levels : k <= j
             IN  move_list(w, l, idx(l), now)

\* timer_add: file a node that expires in d ticks.
timer_add(n, d) ==
    LET x == (time + d) % 2 ^ Width
        w == add_node([near |-> near, t |-> t], n, x, time)
    IN  /\ n \notin ToSet(order)
        /\ expire' = [expire EXCEPT ![n] = x]
        /\ near' = w.near
        /\ t' = w.t
        /\ order' = Append(order, n)
        /\ UNCHANGED <<time, out>>

\* server_timer_timeout: interval 0 is ignored.
server_timer_timeout(n, d) == d # 0 /\ timer_add(n, d)

\* timer_update: dispatch the list of this tick (timer_execute), go to the next
\* tick (timer_shift) and dispatch its list.
timer_update ==
    LET now == (time + 1) % 2 ^ Width
        left == [near EXCEPT ![time % TIME_NEAR] = <<>>]
        w == timer_shift([near |-> left, t |-> t], now)
        fired == near[time % TIME_NEAR] \o w.near[now % TIME_NEAR]
    IN  /\ time' = now
        /\ near' = [w.near EXCEPT ![now % TIME_NEAR] = <<>>]
        /\ t' = w.t
        /\ out' = fired
        /\ order' = SelectSeq(order, LAMBDA n : n \notin ToSet(fired))
        /\ expire' = [n \in Timer |-> IF n \in ToSet(fired) THEN 0 ELSE expire[n]]

\* server_timer_updatetime calls timer_update once per centisecond since its last
\* call; between two of these the wheel is as after a shorter pause.
Next ==
    \/ timer_update
    \/ \E n \in Timer, d \in Intervals : server_timer_timeout(n, d)

Spec == Init /\ [][Next]_vars

-----------------------------------------------------------------------------
(* Properties.                                                             *)

\* The lists of wheel w that hold node n (level -1: near).
Slots(w, n) ==
    {<<-1, i>> : i \in {j \in DOMAIN w.near : n \in ToSet(w.near[j])}}
      \cup UNION {{<<l, i>> : i \in {j \in DOMAIN w.t[l] : n \in ToSet(w.t[l][j])}}
                    : l \in DOMAIN w.t}

\* Every armed node is in exactly one list, the one where add_node would put it
\* now: timer_shift brings a node down in time, whichever level it started from
\* and although time wraps.
InPlace ==
    \A n \in Timer :
        Slots([near |-> near, t |-> t], n) =
            IF n \in ToSet(order)
              THEN Slots(add_node(EmptyWheel, n, expire[n], time), n)
              ELSE {}

A == INSTANCE Alarm
         WITH Intervals <- Intervals \ {0},
              armed <- order,
              left <- [n \in Timer |->
                         IF n \in ToSet(order) THEN (expire[n] - time) % 2 ^ Width
                                               ELSE 0]

\* Every timer fires at its tick, once, and timers of one tick fire in the order
\* they were armed, although they come down from different levels.
ImplementsAlarm == A!Spec
=============================================================================
