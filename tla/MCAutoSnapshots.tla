--------------------------- MODULE MCAutoSnapshots ---------------------------
(***************************************************************************)
(* Instances of AutoSnapshots for TLC.                                     *)
(***************************************************************************)
EXTENDS AutoSnapshots, TLC

Daily == 0..Week - 1
MCSchedules == {Daily, {1}}
=============================================================================
