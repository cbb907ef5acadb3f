--------------------------- MODULE MCRelayProcess ---------------------------
(* Instances of RelayProcess for TLC. *)
EXTENDS RelayProcess, TLC

CONSTANTS r1, r2, r3, s1, s2, v1, k1, k2, ke

Symmetry == Permutations(Requests) \cup Permutations(Signals) \cup Permutations(Keys)
=============================================================================
