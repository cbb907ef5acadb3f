--------------------------- MODULE MCBulkTransfer ---------------------------
(* Instances of BulkTransfer for TLC. *)
EXTENDS BulkTransfer

\* Sizes in order, with an empty payload, and the wrong way round.
MCSizes == {[min |-> 1, max |-> 2], [min |-> 0, max |-> 1], [min |-> 3, max |-> 1]}
MCGoodSizes == {[min |-> 1, max |-> 2]}
=============================================================================
