----------------------------- MODULE HashTable ------------------------------
(***************************************************************************)
(* The operations of lib/hash.c on the backets of a table, newest first.   *)
(* A backet is compared only when its key is the one sought, so its place  *)
(* in another chain does not matter.  key is the function the table was    *)
(* created with (hash_key), read at the time of the call: the key a backet *)
(* was stored under may have changed since.                                *)
(***************************************************************************)
EXTENDS Naturals, Sequences

\* A backet found under k holds data whose key still is k (hash_cmp).
Matches(h, key, k, i) == h[i].key = k /\ key[h[i].data] = k

\* The first match, or 0: the loop that hash_get and hash_release share.
hash_find(h, key, k) ==
    IF \E i \in 1 .. Len(h) : Matches(h, key, k, i)
    THEN CHOOSE i \in 1 .. Len(h) :
             /\ Matches(h, key, k, i)
             /\ \A j \in 1 .. (i - 1) : ~Matches(h, key, k, j)
    ELSE 0

\* The data that loop passes to hash_cmp.
hash_compared(h, key, k) ==
    LET last == IF hash_find(h, key, k) = 0 THEN Len(h) ELSE hash_find(h, key, k)
    IN  {h[i].data : i \in {j \in 1 .. last : h[j].key = k}}

\* hash_lookup, as the set of at most one answer.
hash_lookup(h, key, k) ==
    LET i == hash_find(h, key, k) IN IF i = 0 THEN {} ELSE {h[i].data}

\* hash_get with an alloc_func that interns data: nothing when there is a match.
hash_get(h, key, data) ==
    IF hash_find(h, key, key[data]) # 0 THEN h
    ELSE <<[key |-> key[data], data |-> data]>> \o h

\* A mutant: the first backet of the table is never unlinked.
hash_release_pp(h, key, data) ==
    LET i == hash_find(h, key, key[data])
    IN  IF i <= 1 THEN h ELSE SubSeq(h, 1, i - 1) \o SubSeq(h, i + 1, Len(h))

\* hash_release: the backet found under the key that data has now.
hash_release(h, key, data) ==
    LET i == hash_find(h, key, key[data])
    IN  IF i = 0 THEN h ELSE SubSeq(h, 1, i - 1) \o SubSeq(h, i + 1, Len(h))
=============================================================================
