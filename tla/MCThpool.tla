------------------------------ MODULE MCThpool ------------------------------
(* Instances of Thpool for TLC; the .cfg files give the constants.         *)
EXTENDS Thpool, TLC

\* Threads, jobs and waiting users are interchangeable.
Symmetry == Permutations(Thread) \cup Permutations(Job) \cup Permutations(Waiter)
=============================================================================
