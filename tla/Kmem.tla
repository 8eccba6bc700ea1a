-------------------------------- MODULE Kmem --------------------------------
(***************************************************************************)
(* The object caches of lib/kmem.c: a region of Size bytes carved into     *)
(* caches, each a header and an array of objects (a list link and a        *)
(* pointer, a flag byte, mem_size bytes for the user, a flag byte), the    *)
(* free ones chained.  Addresses are offsets in the region.  The lock is   *)
(* passed by value (sem_down_now, sem_up), so it is always 1 and never     *)
(* refuses: the caches are for one thread.                                 *)
(***************************************************************************)
EXTENDS Integers, Sequences

CONSTANTS
    KmemSize, CacheSize, ObjSize,  \* sizeof struct kmem, kmem_cache and obj
    Size,                          \* the bytes given to init_kmem
    Align,                         \* its alignment, a power of two
    MemSizes, Tots                 \* the arguments of kmem_cache_create tried

ASSUME KmemAssumption ==
    /\ {KmemSize, CacheSize, ObjSize, Size, Align} \subseteq Nat \ {0}
    /\ MemSizes \cup Tots \subseteq Nat
    /\ \E k \in 0 .. Align : Align = 2 ^ k

VARIABLES
    used_size,  \* kmemp->used_size; kmemp->free is the address it denotes
    caches,     \* the caches created, in order
    held        \* the buffers users hold: <<cache, address>>

kvars == <<used_size, caches, held>>

OFS == 1

\* set_align: the mask arithmetic rounds up to a multiple of a power of two.
set_align(size, align) == ((size + align - 1) \div align) * align

\* The bytes of an object, and from one object of a cache to the next.
ObjLen(mem_size) == ObjSize + mem_size + 2 * OFS
ObjStride(mem_size) == set_align(ObjLen(mem_size), Align)

\* init_kmem: it fails when the region is too small.
KmemInit ==
    /\ Size > set_align(KmemSize, Align)
    /\ used_size = set_align(KmemSize, Align)
    /\ caches = <<>>
    /\ held = {}

\* The address of the i-th object of a cache at base, and of the buffer of an object.
ObjAt(base, mem_size, i) == base + set_align(CacheSize, Align) + (i - 1) * ObjStride(mem_size)
BufOf(obj) == obj + ObjSize + OFS

\* init_kmem_cache chains each object in front of the ones before it.
init_kmem_cache(base, mem_size, tots) ==
    [base |-> base, mem_size |-> mem_size, tots |-> tots, free |-> tots, used |-> 0,
     free_objs |-> [i \in 1 .. tots |-> ObjAt(base, mem_size, tots + 1 - i)]]

\* kmem_cache_create: refused (NULL, nothing changes) unless a byte would be left.
kmem_cache_create(mem_size, tots) ==
    LET real_size == set_align(CacheSize, Align) + ObjStride(mem_size) * tots
    IN  /\ Size - used_size > real_size
        /\ caches' = Append(caches, init_kmem_cache(used_size, mem_size, tots))
        /\ used_size' = used_size + real_size
        /\ UNCHANGED held

\* kmem_cache_alloc: the first of the chain; NULL when there is none.
kmem_cache_alloc(c) ==
    /\ caches[c].free # 0
    /\ caches' = [caches EXCEPT ![c].free = @ - 1, ![c].used = @ + 1,
                                ![c].free_objs = Tail(@)]
    /\ held' = held \cup {<<c, BufOf(Head(caches[c].free_objs))>>}
    /\ UNCHANGED used_size

\* A mutant: the object is not found again from its buffer.
kmem_cache_free_ofs(c, bufp) ==
    /\ caches' = [caches EXCEPT ![c].free = @ + 1, ![c].used = @ - 1,
                                ![c].free_objs = <<bufp - ObjSize>> \o @]
    /\ held' = held \ {<<c, bufp>>}
    /\ UNCHANGED used_size

\* kmem_cache_free: the object in front of the buffer goes back to the chain.
kmem_cache_free(c, bufp) ==
    /\ caches' = [caches EXCEPT ![c].free = @ + 1, ![c].used = @ - 1,
                                ![c].free_objs = <<bufp - ObjSize - OFS>> \o @]
    /\ held' = held \ {<<c, bufp>>}
    /\ UNCHANGED used_size

KmemNext ==
    \/ \E mem_size \in MemSizes, tots \in Tots : kmem_cache_create(mem_size, tots)
    \/ \E c \in 1 .. Len(caches) : kmem_cache_alloc(c)
    \/ \E h \in held : kmem_cache_free(h[1], h[2])

KmemSpec == KmemInit /\ [][KmemNext]_kvars

-----------------------------------------------------------------------------
(* Properties.                                                             *)

\* The bytes from a to a + n - 1.
Bytes(a, n) == a .. (a + n - 1)

\* The objects of a cache, the ones in its chain, and the ones of cache c users hold.
Objects(k) == {ObjAt(k.base, k.mem_size, i) : i \in 1 .. k.tots}
Chained(k) == {k.free_objs[i] : i \in 1 .. Len(k.free_objs)}
HeldOf(c) == {h[2] - ObjSize - OFS : h \in {g \in held : g[1] = c}}

\* The pieces the region is carved into: its own header, and each cache's header and
\* objects.  A piece is an address and a length.
Headers == {<<caches[c].base, CacheSize>> : c \in 1 .. Len(caches)}
Cells(k) == {<<o, ObjLen(k.mem_size)>> : o \in Objects(k)}
Pieces == {<<0, KmemSize>>} \cup Headers
          \cup UNION {Cells(caches[c]) : c \in 1 .. Len(caches)}

\* The headers and the objects, with their links, flag bytes and buffers, lie in the
\* region and do not overlap, and what users hold are buffers of objects: a user who
\* keeps to mem_size bytes can break no chain, nor the flags that check_overflow reads.
NoOverlap ==
    /\ \A p \in Pieces : Bytes(p[1], p[2]) \subseteq Bytes(0, Size)
    /\ \A p, q \in Pieces : p # q => Bytes(p[1], p[2]) \cap Bytes(q[1], q[2]) = {}
    /\ \A h \in held : \E o \in Objects(caches[h[1]]) : h[2] = BufOf(o)

\* Each object of a cache is in its chain once or held once, and the counters say
\* so: a chain is never empty while kmem_cache_alloc believes it is not.  (The objects
\* are tots distinct addresses, so used = tots - free is the number of the held ones.)
ObjectOnce ==
    \A c \in 1 .. Len(caches) :
        LET k == caches[c]
        IN  /\ Len(k.free_objs) = k.free
            /\ k.used = k.tots - k.free
            /\ \A i, j \in 1 .. k.free : k.free_objs[i] = k.free_objs[j] => i = j
            /\ Chained(k) \cap HeldOf(c) = {}
            /\ Chained(k) \cup HeldOf(c) = Objects(k)

\* Both, for any sequence of caches created, objects taken and given back.
KmemOK == NoOverlap /\ ObjectOnce
=============================================================================
