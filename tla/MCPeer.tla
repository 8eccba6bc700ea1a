------------------------------- MODULE MCPeer -------------------------------
(* Peer for TLC.                                                           *)
EXTENDS Peer

\* The application opens a listener or one link of another kind (ludp_connect and
\* udp_connect do the same), and a TCP connection.
CLinks == <<{"listen", "udp", "sdio"}, {"tcp"}>>

\* At most one of the two watchers of a peer is in memory that reads as active.
CMalloced ==
    {io \in [t_read : {"new", "junk"}, t_write : {"new", "junk"}] :
        io.t_read = "new" \/ io.t_write = "new"}

\* normal_parser_unpack on connections the application opens; on accepted ones the
\* default unpack, which answers IO_PACKET, as in the echo server.
CUnpack ==
    [mode \in {"connect", "passive"} |->
        IF mode = "connect" THEN {"packet", "partial", "close"} ELSE {"packet"}]
=============================================================================
