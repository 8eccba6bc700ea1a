----------------------------- MODULE HashChains -----------------------------
(***************************************************************************)
(* The table of lib/hash.c as it is stored: an array of chains, a count,   *)
(* and the walk of hash_iterate, whose callback may release what it is     *)
(* shown.  The table HashTable describes, one sequence without chains, is  *)
(* kept beside it.  The key of the data of a backet may change while it is *)
(* stored, as peer_register changes drole.                                 *)
(***************************************************************************)
EXTENDS HashTable, Integers, FiniteSets, SequencesExt

CONSTANTS HashData, HashKeys, HashSize, NoBacket, MaxBackets

ASSUME HashAssumption == HashSize \in Nat \ {0} /\ HashKeys \subseteq Nat /\ MaxBackets \in Nat

\* keyOf: what hash_key says of a datum now.  index, count: struct hash.
\* table: the same table as HashTable has it.
\* hb: the backet hash_iterate is at; chain: its i; todo: what the walk still owes.
\* stale: during the walk, hash_release was given data whose key had changed.
VARIABLES keyOf, index, count, table, hb, chain, todo, stale

hvars == <<keyOf, index, count, table, hb, chain, todo, stale>>

walk == <<hb, chain, todo, stale>>

Slots == 0 .. HashSize - 1

Idle == chain = HashSize

\* hash_create_size.
HashInit ==
    /\ keyOf \in [HashData -> HashKeys]
    /\ index = [i \in Slots |-> <<>>]
    /\ count = 0
    /\ table = <<>>
    /\ hb = NoBacket /\ chain = HashSize /\ todo = {} /\ stale = FALSE

\* What peer_register does to the key of a peer.
Rekey(d) ==
    /\ Idle
    /\ keyOf' \in {[keyOf EXCEPT ![d] = k] : k \in HashKeys}
    /\ UNCHANGED <<index, count, table, walk>>

\* hash_get: look in the chain of the key, then push in front of it.
\* MaxBackets bounds the instance, not the code.
Get(d) ==
    LET i == keyOf[d] % HashSize
        c == index[i]
    IN  /\ Idle /\ count < MaxBackets
        /\ IF hash_find(c, keyOf, keyOf[d]) # 0 THEN UNCHANGED <<index, count>>
           ELSE /\ index' = [index EXCEPT ![i] = <<[key |-> keyOf[d], data |-> d]>> \o c]
                /\ count' = count + 1
        /\ table' = hash_get(table, keyOf, d)
        /\ UNCHANGED <<keyOf, walk>>

\* A mutant: pp stays at the head of the chain, so what lies between is dropped.
Unlinked_pp(c, n) ==
    IF n = 1 THEN Tail(c) ELSE <<c[1]>> \o SubSeq(c, n + 1, Len(c))

\* The chain c without its n-th backet: pp trails one behind.
Unlinked(c, n) ==
    IF n = 1 THEN Tail(c) ELSE SubSeq(c, 1, n - 1) \o SubSeq(c, n + 1, Len(c))

\* hash_release.
Released(d) ==
    LET i == keyOf[d] % HashSize
        n == hash_find(index[i], keyOf, keyOf[d])
    IN  /\ IF n = 0 THEN UNCHANGED <<index, count>>
           ELSE /\ index' = [index EXCEPT ![i] = Unlinked(@, n)]
                /\ count' = count - 1
        /\ table' = hash_release(table, keyOf, d)

Release(d) == Idle /\ Released(d) /\ UNCHANGED <<keyOf, walk>>

\* hash_clean with a free_func: every backet goes, one decrement each.
Clean ==
    /\ Idle
    /\ index' = [i \in Slots |-> <<>>]
    /\ count' = count - FoldFunction(LAMBDA c, n : Len(c) + n, 0, index)
    /\ table' = <<>>
    /\ UNCHANGED <<keyOf, walk>>

Backets == UNION {Range(index[i]) : i \in Slots}

First(c) == IF c = <<>> THEN NoBacket ELSE c[1]

\* The backet after b in the chain c; b is there unless it has been freed.
NextOf(c, b) ==
    LET n == CHOOSE n \in DOMAIN c : c[n] = b
    IN  IF n = Len(c) THEN NoBacket ELSE c[n + 1]

\* hash_iterate starts at index[0].
IterateStart ==
    /\ Idle
    /\ chain' = 0 /\ hb' = First(index[0]) /\ todo' = Backets /\ stale' = FALSE
    /\ UNCHANGED <<keyOf, index, count, table>>

\* The end of a chain: on to the next one.  A walk that released stale data owes
\* nothing when it ends.
IterateChain ==
    /\ ~Idle /\ hb = NoBacket
    /\ chain' = chain + 1
    /\ hb' = IF chain + 1 = HashSize THEN NoBacket ELSE First(index[chain + 1])
    /\ stale' = (stale /\ chain + 1 < HashSize)
    /\ todo' = IF stale /\ chain + 1 = HashSize THEN {} ELSE todo
    /\ UNCHANGED <<keyOf, index, count, table>>

\* A mutant: hb->next is read after the callback.
Visit_after(release) ==
    /\ ~Idle /\ hb # NoBacket /\ hb \in Backets
    /\ IF release THEN Released(hb.data) ELSE UNCHANGED <<index, count, table>>
    /\ hb' = IF hb \in Range(index'[chain]) THEN NextOf(index'[chain], hb) ELSE NoBacket
    /\ todo' = todo \ {hb}
    /\ stale' = (stale \/ (release /\ keyOf[hb.data] # hb.key))
    /\ UNCHANGED <<keyOf, chain>>

\* One turn of the inner loop: hbnext is read first, then the callback runs,
\* which may call hash_release on the data it was shown.
Visit(release) ==
    /\ ~Idle /\ hb # NoBacket /\ hb \in Backets
    /\ hb' = NextOf(index[chain], hb)
    /\ IF release THEN Released(hb.data) ELSE UNCHANGED <<index, count, table>>
    /\ todo' = todo \ {hb}
    /\ stale' = (stale \/ (release /\ keyOf[hb.data] # hb.key))
    /\ UNCHANGED <<keyOf, chain>>

\* hb was freed under the walk: what the loop reads next is undefined, so it ends here.
VisitFreed ==
    /\ ~Idle /\ hb # NoBacket /\ hb \notin Backets
    /\ UNCHANGED hvars

HashNext ==
    \/ \E d \in HashData : Rekey(d) \/ Get(d) \/ Release(d)
    \/ Clean \/ IterateStart \/ IterateChain \/ VisitFreed
    \/ \E release \in BOOLEAN : Visit(release)

HashSpec == HashInit /\ [][HashNext]_hvars

\* The array of chains answers every lookup as the single sequence does, after
\* any history of insertions, releases and changes of key; and count is the
\* number of backets, so that it never wraps below zero.
ChainsAgree ==
    /\ \A k \in HashKeys : /\ hash_lookup(index[k % HashSize], keyOf, k) = hash_lookup(table, keyOf, k)
                           /\ hash_compared(index[k % HashSize], keyOf, k)
                                = hash_compared(table, keyOf, k)
    /\ count = Len(table)
    /\ Backets = Range(table)

\* hash_iterate shows every backet it started with, and never stands on a freed
\* one, while its callback releases only data whose key is the one it is stored
\* under ("in case (*func) decides to delete hb by calling hash_release").
WalkComplete ==
    ~stale => /\ hb # NoBacket => hb \in Range(index[chain]) /\ hb \in todo
              /\ Idle => todo = {}
=============================================================================
