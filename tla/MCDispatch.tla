----------------------------- MODULE MCDispatch -----------------------------
(* Instances of Dispatch for TLC; the .cfg files give the constants.       *)
EXTENDS Dispatch, TLC

\* Pool threads are interchangeable.
WorkerSymmetry == Permutations(Worker)
=============================================================================
