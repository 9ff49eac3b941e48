------------------------- MODULE MCServerDiscovery --------------------------
(* One server on the network and one on this host *)
EXTENDS ServerDiscovery

CONSTANTS s1, s2
=============================================================================
