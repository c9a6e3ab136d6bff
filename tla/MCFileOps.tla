------------------------------ MODULE MCFileOps ------------------------------
(***************************************************************************)
(* Instances of FileOps for TLC.                                           *)
(***************************************************************************)
EXTENDS FileOps, TLC

Symmetry == Permutations(Request) \cup Permutations(File) \cup Permutations(Folder)
                \cup Permutations(Name)
=============================================================================
