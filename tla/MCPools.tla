------------------------------- MODULE MCPools -------------------------------
(***************************************************************************)
(* Instances of Pools for TLC.                                             *)
(***************************************************************************)
EXTENDS Pools, TLC

Symmetry == Permutations(Handler) \cup Permutations(Name) \cup Permutations(Pool)
            \cup Permutations(Uuid) \cup Permutations(Device \ System)
=============================================================================
