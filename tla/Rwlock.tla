------------------------------- MODULE Rwlock -------------------------------
(***************************************************************************)
(* The readers-writer spin lock of include/rwlock.h (the branch without    *)
(* USE_PTHREAD_LOCK; no file of the repository includes the header), one   *)
(* atomic access of write or read per step, sequentially consistent.  The  *)
(* __sync_ additions are full barriers.  __sync_lock_test_and_set, which   *)
(* sets write, is documented as an acquire barrier only: on x86 it is a    *)
(* locked exchange and orders the loads of read behind it.                 *)
(***************************************************************************)
EXTENDS Integers, FiniteSets

CONSTANT Rthread   \* the threads that use the lock

ASSUME RwlockAssumption == IsFiniteSet(Rthread)

VARIABLES
    write,   \* lock->write, 0 or 1
    read,    \* lock->read
    at       \* where each thread is

rvars == <<write, read, at>>

RwTypeOK ==
    /\ write \in {0, 1}
    /\ read \in Int
    /\ at \in [Rthread -> {"idle", "r_spin", "r_add", "r_check", "r_back", "reading",
                           "w_set", "w_wait", "writing"}]

\* rwlock_init.
RwInit ==
    /\ write = 0
    /\ read = 0
    /\ at = [t \in Rthread |-> "idle"]

Move(t, from, to) == at[t] = from /\ at' = [at EXCEPT ![t] = to]

\* A thread calls rwlock_rlock or rwlock_wlock.
RwCall(t) ==
    /\ Move(t, "idle", "r_spin") \/ Move(t, "idle", "w_set")
    /\ UNCHANGED <<write, read>>

\* rwlock_rlock: the spin of the outer loop ends when write is 0 ...
RSpin(t) == write = 0 /\ Move(t, "r_spin", "r_add") /\ UNCHANGED <<write, read>>
\* ... __sync_add_and_fetch(&lock->read, 1) ...
RAdd(t) == Move(t, "r_add", "r_check") /\ read' = read + 1 /\ UNCHANGED write

\* A mutant: the second look at write is left out.
RCheck_blind(t) == Move(t, "r_check", "reading") /\ UNCHANGED <<write, read>>

\* ... and the second look at write.
RCheck(t) ==
    /\ Move(t, "r_check", IF write # 0 THEN "r_back" ELSE "reading")
    /\ UNCHANGED <<write, read>>

\* A mutant: the reader does not wait for the flag before it tries again.
RBack_again(t) == Move(t, "r_back", "r_add") /\ read' = read - 1 /\ UNCHANGED write

\* A reader that saw the flag takes its count back and starts again.
RBack(t) == Move(t, "r_back", "r_spin") /\ read' = read - 1 /\ UNCHANGED write

\* rwlock_runlock.
rwlock_runlock(t) == Move(t, "reading", "idle") /\ read' = read - 1 /\ UNCHANGED write

\* rwlock_wlock: the test-and-set that succeeds (one that fails changes nothing) ...
WSet(t) ==
    /\ write = 0
    /\ Move(t, "w_set", "w_wait")
    /\ write' = 1
    /\ UNCHANGED read

\* ... and the wait for the readers.
WWait(t) == read = 0 /\ Move(t, "w_wait", "writing") /\ UNCHANGED <<write, read>>

\* rwlock_wunlock.
rwlock_wunlock(t) == Move(t, "writing", "idle") /\ write' = 0 /\ UNCHANGED read

\* The steps of a thread inside the lock's functions or on its way out.
RwStep(t) ==
    \/ RSpin(t) \/ RAdd(t) \/ RCheck(t) \/ RBack(t) \/ rwlock_runlock(t)
    \/ WSet(t) \/ WWait(t) \/ rwlock_wunlock(t)

RwNext == \E t \in Rthread : RwCall(t) \/ RwStep(t)

\* Threads run, and leave the critical section.
RwSpec == RwInit /\ [][RwNext]_rvars /\ \A t \in Rthread : WF_rvars(RwStep(t))

-----------------------------------------------------------------------------
(* Properties.                                                             *)

\* A writer is alone: two threads that pass write and read in any interleaving
\* never hold the lock together unless both are readers.
RwExclusion ==
    \A t, u \in Rthread :
        t # u /\ at[t] = "writing" => at[u] \notin {"writing", "reading"}

\* read counts the threads between their increment and their decrement, and write
\* is set exactly while one thread waits for the readers or writes.
Counted == {t \in Rthread : at[t] \in {"r_check", "r_back", "reading"}}
Owners == {t \in Rthread : at[t] \in {"w_wait", "writing"}}
RwCounts ==
    /\ read = Cardinality(Counted)
    /\ write = 1 <=> Owners # {}
    /\ \A t, u \in Owners : t = u

\* The inductive invariant.
RwInv == RwTypeOK /\ RwCounts /\ RwExclusion

\* A writer that has set the flag (there is one at most) gets in: readers that arrive
\* later see the flag and take their count back.
WriterEnters == (\E t \in Rthread : at[t] = "w_wait") ~> (\E t \in Rthread : at[t] = "writing")
=============================================================================
