--------------------------- MODULE MCRelayControl ---------------------------
(* Instances of RelayControl for TLC. *)
EXTENDS RelayControl, TLC

CONSTANTS r1, r2, r3, s1, s2, v1, v2

Symmetry == Permutations(Requests) \cup Permutations(Signals) \cup Permutations(Values)
=============================================================================
