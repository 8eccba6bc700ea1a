------------------------------- MODULE Vector -------------------------------
(***************************************************************************)
(* The growing vector of lib/vector.c: alloced slots, of which the first   *)
(* active ones are in use.  Values are not null.  slots is a history: the  *)
(* partial function the caller believes the vector to be.                  *)
(***************************************************************************)
EXTENDS Naturals, Sequences, FiniteSets

CONSTANTS
    Item,      \* the pointers stored
    NoItem,    \* NULL, and the slots a realloc or calloc has cleared
    MaxIndex   \* bound on the indexes the caller uses

ASSUME VectorAssumption == NoItem \notin Item /\ MaxIndex \in Nat

VARIABLES
    vec,    \* active, alloced and index, a function on 0 .. alloced - 1
    slots   \* history: what the caller has put where

vvars == <<vec, slots>>

\* vector_init(size): at least one slot, and nothing in them.
vector_init(size) ==
    LET n == IF size = 0 THEN 1 ELSE size
    IN  [active |-> 0, alloced |-> n, index |-> [i \in 0 .. (n - 1) |-> NoItem]]

VectorInit ==
    /\ \E size \in 0 .. MaxIndex : vec = vector_init(size)
    /\ slots = [i \in {} |-> NoItem]

\* vector_ensure: the slots are doubled until num is among them, the new ones
\* cleared.
vector_ensure(v, num) ==
    LET D[a \in Nat] == IF a > num THEN a ELSE D[2 * a]
        n == D[v.alloced]
    IN  [v EXCEPT !.alloced = n,
                  !.index = [i \in 0 .. (n - 1) |-> IF i < v.alloced THEN @[i] ELSE NoItem]]

\* vector_empty_slot: the first empty active slot, or the one after them.
vector_empty_slot(v) ==
    CHOOSE i \in 0 .. v.active :
        /\ i < v.active => v.index[i] = NoItem
        /\ \A j \in 0 .. (i - 1) : v.index[j] # NoItem

\* vector_set_index.
WithValue(v, i, val) ==
    LET e == vector_ensure(v, i)
    IN  [e EXCEPT !.index[i] = val, !.active = IF @ <= i THEN i + 1 ELSE @]

\* The caller's view of a store.
Put(f, i, val) == [j \in DOMAIN f \cup {i} |-> IF j = i THEN val ELSE f[j]]

vector_set_index(i, val) ==
    /\ vec' = WithValue(vec, i, val)
    /\ slots' = Put(slots, i, val)

vector_set(val) ==
    LET i == vector_empty_slot(vec)
    IN  i <= MaxIndex /\ vector_set_index(i, val)

\* vector_lookup_ensure grows the vector and reads; the value read is that of
\* vector_lookup below.
vector_lookup_ensure(i) == vec' = vector_ensure(vec, i) /\ UNCHANGED slots

\* vector_lookup: nothing beyond the active slots.
vector_lookup(v, i) == IF i >= v.active THEN NoItem ELSE v.index[i]

\* A mutant: only the slot unset leaves the active ones, not the holes below it.
vector_unset_one(i) ==
    /\ i < vec.alloced
    /\ vec' = [vec EXCEPT !.index[i] = NoItem,
                          !.active = IF i + 1 = @ THEN @ - 1 ELSE @]
    /\ slots' = [j \in DOMAIN slots \ {i} |-> slots[j]]

\* vector_unset: when the last active slot goes, the empty ones below it go too.
vector_unset(i) ==
    LET cleared == [vec.index EXCEPT ![i] = NoItem]
        T[n \in 0 .. vec.active] ==
            IF n = 0 THEN 0 ELSE IF cleared[n - 1] = NoItem THEN T[n - 1] ELSE n
    IN  /\ i < vec.alloced
        /\ vec' = [vec EXCEPT !.index = cleared,
                              !.active = IF i + 1 = @ THEN T[i] ELSE @]
        /\ slots' = [j \in DOMAIN slots \ {i} |-> slots[j]]

\* vector_count.
vector_count(v) == Cardinality({i \in 0 .. (v.active - 1) : v.index[i] # NoItem})

VectorNext ==
    \/ \E val \in Item : vector_set(val)
    \/ \E i \in 0 .. MaxIndex :
        \/ \E val \in Item : vector_set_index(i, val)
        \/ vector_lookup_ensure(i)
        \/ vector_unset(i)

VectorSpec == VectorInit /\ [][VectorNext]_vvars

-----------------------------------------------------------------------------
(* Properties.                                                             *)

\* After any sequence of stores, growths and unsets, vector_lookup answers what
\* the caller stored and nothing where the caller stored nothing, vector_count is
\* the number of stored values, and active is exactly one past the last of them:
\* slots that realloc added never show old memory.
VectorMap ==
    /\ vec.active <= vec.alloced
    /\ \A i \in 0 .. MaxIndex :
        vector_lookup(vec, i) = IF i \in DOMAIN slots THEN slots[i] ELSE NoItem
    /\ vector_count(vec) = Cardinality(DOMAIN slots)
    /\ vec.active > 0 => vec.active - 1 \in DOMAIN slots
=============================================================================
