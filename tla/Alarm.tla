------------------------------- MODULE Alarm --------------------------------
(***************************************************************************)
(* What a timer service promises: a timer armed with d ticks fires at the  *)
(* d-th tick, once, and timers of the same tick fire in the order they     *)
(* were armed.  TimerWheel implements it.                                  *)
(***************************************************************************)
EXTENDS Naturals, Sequences

CONSTANTS
    Timer,     \* the timers
    Intervals  \* the numbers of ticks they are armed with

VARIABLES
    armed,  \* the armed timers, in the order they were armed
    left,   \* ticks left for each of them (0: not armed)
    out     \* the timers fired at the last tick, in order

vars == <<armed, left, out>>

Init ==
    /\ armed = <<>>
    /\ left = [n \in Timer |-> 0]
    /\ out = <<>>

Arm(n, d) ==
    /\ left[n] = 0
    /\ armed' = Append(armed, n)
    /\ left' = [left EXCEPT ![n] = d]
    /\ UNCHANGED out

Tick ==
    LET Due(n) == left[n] = 1
        NotDue(n) == left[n] # 1
    IN  /\ out' = SelectSeq(armed, Due)
        /\ armed' = SelectSeq(armed, NotDue)
        /\ left' = [n \in Timer |-> IF left[n] = 0 THEN 0 ELSE left[n] - 1]

Next == Tick \/ \E n \in Timer, d \in Intervals : Arm(n, d)

Spec == Init /\ [][Next]_vars
=============================================================================
