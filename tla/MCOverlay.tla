----------------------------- MODULE MCOverlay -----------------------------
(***************************************************************************)
(* Instances of Overlay for TLC: three nodes, so that a message may come   *)
(* by two paths, or from a node that passes it on.                         *)
(***************************************************************************)
EXTENDS Overlay, TLC

CONSTANTS n1, n2, n3

Symmetry == Permutations(Node)
=============================================================================
