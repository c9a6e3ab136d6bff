------------------------------ MODULE MCUploads ------------------------------
(***************************************************************************)
(* Instances of Uploads for TLC.                                           *)
(***************************************************************************)
EXTENDS Uploads, TLC

CONSTANTS u1, u2, t1

\* Uploads of different lengths.
MCLength == [u \in Upload |-> IF u = u1 THEN 2 ELSE 1]

Symmetry == Permutations(Handler) \cup Permutations(Lock)
=============================================================================
