------------------------------ MODULE MCParts -------------------------------
(***************************************************************************)
(* The components that stand on their own, for TLC.  A behaviour is one of *)
(* the component `which'; the others stay as they start.                   *)
(***************************************************************************)
EXTENDS MqRing, Stream, StreamFifo, LinkList, Vector, HashChains, Kmem, Rwlock, Framing,
        TimerLoop, Sending

VARIABLE which

partvars == <<which, vars, svars, fvars, lvars, vvars, hvars, kvars, rvars, frvars, tvars,
              sendvars>>

\* Streams and vectors may start with several sizes.
PartsInit ==
    /\ which \in {"ring", "stream", "fifo", "list", "vector", "hash", "kmem", "rwlock",
                  "framing", "timer", "sending"}
    /\ Init /\ StreamInit /\ FifoInit /\ ListInit /\ VectorInit /\ KmemInit /\ RwInit
    /\ FramingInit /\ HashInit /\ TimerLoopInit /\ SendInit
    /\ which # "stream" => s.size = 1
    /\ which # "vector" => vec = vector_init(0)
    /\ which # "sending" => medium = "tcp"
    /\ which # "hash" => \A d \in HashData, k \in HashKeys : keyOf[d] <= k

\* The process has aborted, the connection is closed, or nobody sends.
Ended ==
    \/ which = "stream" /\ aborted /\ UNCHANGED svars
    \/ which = "framing" /\ ~Serving /\ UNCHANGED frvars
    \/ which = "sending" /\ loop = -1 /\ UNCHANGED sendvars

Still(part, v) == IF which = part THEN TRUE ELSE UNCHANGED v

PartsNext ==
    /\ \/ which = "ring" /\ Next
       \/ which = "stream" /\ StreamNext
       \/ which = "fifo" /\ FifoNext
       \/ which = "list" /\ ListNext
       \/ which = "vector" /\ VectorNext
       \/ which = "hash" /\ HashNext
       \/ which = "kmem" /\ KmemNext
       \/ which = "rwlock" /\ RwNext
       \/ which = "framing" /\ FramingNext
       \/ which = "timer" /\ TimerLoopNext
       \/ which = "sending" /\ SendNext
       \/ Ended
    /\ UNCHANGED which
    /\ Still("ring", vars) /\ Still("stream", svars) /\ Still("fifo", fvars)
    /\ Still("list", lvars) /\ Still("vector", vvars) /\ Still("kmem", kvars)
    /\ Still("rwlock", rvars) /\ Still("framing", frvars) /\ Still("hash", hvars)
    /\ Still("timer", tvars) /\ Still("sending", sendvars)

\* With the fairness of Rwlock and Framing.
PartsSpec ==
    /\ PartsInit /\ [][PartsNext]_partvars
    /\ \A t \in Rthread : WF_rvars(RwStep(t))
    /\ FramingFair
=============================================================================
