--------------------------- MODULE MCRecentPackets ---------------------------
(* Five packets against a filter of three: every key can be evicted and    *)
(* accepted again, also after a restart.                                   *)
EXTENDS RecentPacketsCalls

CONSTANTS k1, k2, k3, k4, k5

MCKey == {k1, k2, k3, k4, k5}
=============================================================================
