------------------------------ MODULE LinkList ------------------------------
(***************************************************************************)
(* The doubly linked list of lib/linklist.c (peer_list, event_list, the    *)
(* store of the id maker), pointer by pointer.  A value may be in the list *)
(* more than once; each node holds one.                                    *)
(***************************************************************************)
EXTENDS Naturals, Sequences

CONSTANTS
    Node,   \* the addresses of listnodes
    Val,    \* the values (numbers, so that list->cmp can order them)
    NIL     \* the null pointer

ASSUME LinkListAssumption == NIL \notin Node /\ Val \subseteq Nat \ {0}

VARIABLES
    lnext, lprev, ldata,  \* the fields of each listnode, 0 where it is not allocated:
                          \* ListOK says that nothing reaches it then
    list,                 \* head, tail and count of struct list
    live                  \* the nodes that are allocated

lvars == <<lnext, lprev, ldata, list, live>>

\* list_new.
ListInit ==
    /\ lnext = [n \in Node |-> NIL]
    /\ lprev = [n \in Node |-> NIL]
    /\ ldata = [n \in Node |-> 0]
    /\ list = [head |-> NIL, tail |-> NIL, count |-> 0]
    /\ live = {}

\* f with the field of node p set, or unchanged for the null pointer.
Link(f, p, q) == IF p = NIL THEN f ELSE [f EXCEPT ![p] = q]

\* A new listnode n with value v between p and q (NIL: the end of the list), the
\* pointers of its neighbours and of the list set accordingly.
Insert(n, v, p, q) ==
    /\ n \notin live
    /\ live' = live \cup {n}
    /\ ldata' = [ldata EXCEPT ![n] = v]
    /\ lnext' = Link([lnext EXCEPT ![n] = q], p, n)
    /\ lprev' = Link([lprev EXCEPT ![n] = p], q, n)
    /\ list' = [head |-> IF p = NIL THEN n ELSE list.head,
                tail |-> IF q = NIL THEN n ELSE list.tail,
                count |-> list.count + 1]

listnode_add(n, v) == Insert(n, v, list.tail, NIL)

\* The nodes from p on, following f.
Walk(f, p) ==
    LET W[k \in 0 .. list.count, m \in Node \cup {NIL}] ==
            IF m = NIL THEN <<>>
            ELSE IF k = 0 THEN <<m>> ELSE <<m>> \o W[k - 1, f[m]]
    IN  W[list.count, p]

Nodes == Walk(lnext, list.head)

\* The first node of the list that is in S, or NIL.
FirstOf(S) ==
    IF \E i \in 1 .. Len(Nodes) : Nodes[i] \in S
    THEN Nodes[CHOOSE i \in 1 .. Len(Nodes) :
                   Nodes[i] \in S /\ \A j \in 1 .. (i - 1) : Nodes[j] \notin S]
    ELSE NIL

\* listnode_add_sort, with the order of numbers for list->cmp: before the first
\* larger value.
listnode_add_sort(n, v) ==
    LET q == FirstOf({m \in Node : v < ldata[m]})
    IN  Insert(n, v, IF q = NIL THEN list.tail ELSE lprev[q], q)

\* listnode_add_after; NIL inserts at the head.
listnode_add_after(n, v, pp) ==
    Insert(n, v, pp, IF pp = NIL THEN list.head ELSE lnext[pp])

\* "For ospfd": next to a node of the list.
list_add_node_next(n, v, current) == Insert(n, v, current, lnext[current])
list_add_node_prev(n, v, current) == Insert(n, v, lprev[current], current)

\* A mutant: the back pointer of the successor is not repaired.
list_delete_node_back(m) ==
    /\ live' = live \ {m}
    /\ lnext' = Link([lnext EXCEPT ![m] = NIL], lprev[m], lnext[m])
    /\ lprev' = [lprev EXCEPT ![m] = NIL]
    /\ ldata' = [ldata EXCEPT ![m] = 0]
    /\ list' = [head |-> IF lprev[m] = NIL THEN lnext[m] ELSE list.head,
                tail |-> IF lnext[m] = NIL THEN lprev[m] ELSE list.tail,
                count |-> list.count - 1]

\* list_delete_node: the neighbours are linked to each other, m is freed.
list_delete_node(m) ==
    /\ live' = live \ {m}
    /\ lnext' = Link([lnext EXCEPT ![m] = NIL], lprev[m], lnext[m])
    /\ lprev' = Link([lprev EXCEPT ![m] = NIL], lnext[m], lprev[m])
    /\ ldata' = [ldata EXCEPT ![m] = 0]
    /\ list' = [head |-> IF lprev[m] = NIL THEN lnext[m] ELSE list.head,
                tail |-> IF lnext[m] = NIL THEN lprev[m] ELSE list.tail,
                count |-> list.count - 1]

\* listnode_delete: the first node with the value (listnode_lookup), if any.
listnode_delete(v) ==
    LET q == FirstOf({m \in Node : ldata[m] = v})
    IN  q # NIL /\ list_delete_node(q)

\* list_delete_all_node walks the list and frees every node of it.
list_delete_all_node ==
    LET gone == {Nodes[i] : i \in 1 .. Len(Nodes)}
        Wiped(f, z) == [n \in Node |-> IF n \in gone THEN z ELSE f[n]]
    IN  /\ live' = live \ gone
        /\ list' = [head |-> NIL, tail |-> NIL, count |-> 0]
        /\ lnext' = Wiped(lnext, NIL)
        /\ lprev' = Wiped(lprev, NIL)
        /\ ldata' = Wiped(ldata, 0)

ListNext ==
    \/ \E n \in Node, v \in Val :
        \/ listnode_add(n, v)
        \/ listnode_add_sort(n, v)
        \/ \E pp \in live \cup {NIL} : listnode_add_after(n, v, pp)
        \/ \E c \in live :
            \/ list_add_node_prev(n, v, c)
            \/ list_add_node_next(n, v, c)
    \/ \E m \in live : list_delete_node(m)
    \/ \E v \in Val : listnode_delete(v)
    \/ list_delete_all_node

ListSpec == ListInit /\ [][ListNext]_lvars

-----------------------------------------------------------------------------
(* Properties.                                                             *)

\* "count is the number of listnodes in the list", and the list read backwards
\* from the tail is the list read forwards from the head, over allocated nodes
\* only: no node is lost, and no freed one is reachable in either direction.
ListOK ==
    LET back == Walk(lprev, list.tail)
        k == Len(Nodes)
    IN  /\ k = list.count
        /\ Len(back) = k
        /\ \A i \in 1 .. k : back[i] = Nodes[k + 1 - i]
        /\ live = {Nodes[i] : i \in 1 .. k}
=============================================================================
