---------------------------- MODULE MCTimerWheel ----------------------------
(* TimerWheel for TLC.                                                     *)
EXTENDS TimerWheel

\* Timers are interchangeable.
Symmetry == Permutations(Timer)
=============================================================================
