--------------------------- MODULE MCGatewayServer ---------------------------
(* Instances of GatewayServer for TLC. *)
EXTENDS GatewayServer

CONSTANTS q1, q2, sigint, sigterm

MCSizes == [q \in Gets |-> IF q = q1 THEN {0, 2} ELSE {1}]
=============================================================================
