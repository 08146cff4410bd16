--------------------------- MODULE MCTProxyService ---------------------------
(***************************************************************************)
(* TProxyService for the checks of safety: the two nodes are both valid    *)
(* and nothing tells them apart.                                           *)
(***************************************************************************)
EXTENDS TProxyService, TLC

Nodes == Permutations(Profiles)
=============================================================================
