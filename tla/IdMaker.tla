------------------------------ MODULE IdMaker -------------------------------
(***************************************************************************)
(* The id maker of lib/idmaker.c, which numbers the peers.                 *)
(***************************************************************************)
EXTENDS Integers, Sequences

\* idmaker_new.  start is recorded and never used; curr is never set, so it holds
\* whatever malloc returned.
idmaker_new(start, stop, garbage) ==
    [start |-> start, stop |-> stop, curr |-> garbage, store |-> <<>>]

\* idmaker_get: the id, whether there was one (*flag), and the maker after it.  The
\* ids that were put back are used once curr has reached stop.
idmaker_get(m) ==
    IF m.curr # m.stop
    THEN [ret |-> m.curr, flag |-> 1, m |-> [m EXCEPT !.curr = @ + 1]]
    ELSE IF m.store = <<>>
    THEN [ret |-> 0, flag |-> 0, m |-> m]
    ELSE [ret |-> Head(m.store), flag |-> 1, m |-> [m EXCEPT !.store = Tail(@)]]

\* idmaker_put allocates a cell for the id and never stores the id in it.
idmaker_put(m, garbage) == [m EXCEPT !.store = Append(@, garbage)]
=============================================================================
