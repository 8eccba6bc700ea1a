\* MqRing: a ring that starts with two slots and is expanded twice.
CONSTANTS
    Msg = {m1, m2}
    Garbage = Garbage
    DEFAULT_QUEUE_SIZE = 2
    MQ_OVERLOAD = 1
    MaxCap = 8
\* Stream: bytes of one bit, integers of one and two bytes.
    Base = 2
    Widths = {1, 2}
    IPV4 = 2
    MaxSize = 3
    Sizes = {1, 2, 3, 4}
    Uninit = Uninit
\* StreamFifo
    Packet = {s1, s2, s3, s4}
    NULL = NULL
\* LinkList: two values, so that listnode_add_sort meets equal ones.
    Node = {n1, n2, n3, n4}
    Val = {1, 2}
    NIL = NIL
\* Vector: one slot is doubled twice.
    Item = {a, b}
    NoItem = NoItem
    MaxIndex = 3
\* HashChains: keys 1 and 3 share a chain.
    HashData = {d1, d2}
    HashKeys = {1, 2, 3}
    HashSize = 2
    NoBacket = NoBacket
    MaxBackets = 3
\* Kmem: room for up to three caches; an object of mem_size 1 needs padding.
    KmemSize = 3
    CacheSize = 5
    ObjSize = 2
    Size = 52
    Align = 4
    MemSizes = {1, 3}
    Tots = {1, 2, 3}
\* Rwlock
    Rthread = {a, b, c}
\* Framing: bodies that are empty, short, as long as ibuf allows and too long.
    HEADER = 3
    BUFSIZE = 5
    BodyLens = {0, 1, 2, 3}
    MaxFrames = 3
\* TimerLoop: an interval shorter and one longer than the gap; a pass takes one request.
    Request = {q1, q2}
    TimerIntervals = {0, 1, 3}
    MISAKA_TIMER_SANDS = 1
    MaxGap = 2
\* Sending: payloads that fit with and without the header; a third packet for a second
\* call of the write callback.
    PackHeader = 1
    PackSize = 3
    SendLens = {1, 2, 3}
    MISAKA_WRITE_PACKET_MAX = 2
    MaxSends = 3
    MaxTries = 4
SPECIFICATION PartsSpec
INVARIANT StreamOK
INVARIANT RoundTrip
INVARIANT FifoOK
INVARIANT ListOK
INVARIANT VectorMap
INVARIANT ChainsAgree
INVARIANT WalkComplete
INVARIANT KmemOK
INVARIANT RwExclusion
INVARIANT AsksForTheRest
INVARIANT WholeBodies
INVARIANT FiresNear
INVARIANT WireInOrder
PROPERTY ImplementsFifo
PROPERTY ThresholdCovers
PROPERTY WriterEnters
PROPERTY BodyDelivered
