------------------------- MODULE MCBrowserDiscovery -------------------------
(* An instance of BrowserDiscovery for TLC. *)
EXTENDS BrowserDiscovery, TLC

CONSTANTS p1, p2

Plain == {"ip4", "tcp"}
Circuit == {"ip4", "tcp", "ws", "p2p-circuit"}

MCAddrs == {Plain, Circuit}
MCMaxEvents == [p \in Peers |-> IF p = p1 THEN 3 ELSE 1]
MCAdverts == {{Plain}, {Circuit}}
=============================================================================
