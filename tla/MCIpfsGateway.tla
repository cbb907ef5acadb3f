--------------------------- MODULE MCIpfsGateway ---------------------------
(* Instances of IpfsGateway for TLC. *)
EXTENDS IpfsGateway

CONSTANTS q1, q2

MCSizes == [q \in Gets |-> IF q = q1 THEN {0, 2} ELSE {1}]
=============================================================================
