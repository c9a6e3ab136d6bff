----------------------------- MODULE MCSnapshots -----------------------------
(***************************************************************************)
(* Instances of Snapshots for TLC.                                         *)
(***************************************************************************)
EXTENDS Snapshots, TLC

Symmetry == Permutations(Request) \cup Permutations(Id) \cup Permutations(File)
=============================================================================
