------------------------------- MODULE MCJobs -------------------------------
(***************************************************************************)
(* Instances of Jobs for TLC.                                              *)
(***************************************************************************)
EXTENDS Jobs, TLC

CONSTANTS j1, j2

\* The two jobs are created in the same second, or one after the other.
SameSecond  == [j \in Job |-> 1]
OneByOne    == [j \in Job |-> IF j = j1 THEN 1 ELSE 2]

\* Handlers are interchangeable.
Symmetry == Permutations(Handler)
=============================================================================
