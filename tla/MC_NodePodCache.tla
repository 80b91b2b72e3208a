------------------------- MODULE MC_NodePodCache -------------------------
(***************************************************************************)
(* Instances of NodePodCache for TLC: two pod names, two nodes.            *)
(***************************************************************************)
EXTENDS NodePodCache

CONSTANTS p, q, n1, n2
=============================================================================
