\* Two links of the application and room for one accepted peer; descriptor 0 and three
\* others; ids that run out after three registrations.  A crash ends a behaviour.
CONSTANTS
    MaxPeer = 3
    Links <- CLinks
    Unpack <- CUnpack
    MaxFd = 3
    FirstIds = {0}
    CellIds = {1}
    MAX_ID = 3
    MaxOut = 1
    Malloced <- CMalloced
SPECIFICATION PeerSpec
INVARIANT OneWait
INVARIANT NoPacketWaits
INVARIANT OwnDescriptor
INVARIANT Routable
INVARIANT PassiveGone
CHECK_DEADLOCK FALSE
