------------------------------- MODULE MCCloud -------------------------------
(***************************************************************************)
(* Instances of Cloud for TLC: two cloud storages, so that two sections of *)
(* rclone.conf can overwrite each other, a share, and two key pairs for    *)
(* two first links.                                                        *)
(***************************************************************************)
EXTENDS Cloud, TLC
=============================================================================
