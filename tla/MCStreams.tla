------------------------------ MODULE MCStreams ------------------------------
(***************************************************************************)
(* An instance of Streams for TLC: one connection, which may sample and    *)
(* benchmark at the same time.  Others share with it only the file of a    *)
(* benchmark, and a read that fails because another has removed it is a    *)
(* failure like any other.                                                 *)
(***************************************************************************)
EXTENDS Streams
=============================================================================
