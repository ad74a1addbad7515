--------------------------- MODULE MCPacketBatch ---------------------------
(***************************************************************************)
(* Instances of PacketBatch for TLC.                                       *)
(***************************************************************************)
EXTENDS PacketBatch

CONSTANTS p1, p2

\* With batches of 16 bytes: packets of which more than MaxBatchPkts would
\* fit, one that fills half a batch, and one just too large for a batch.
Lengths == {1, 3, 8, 9}
=============================================================================
