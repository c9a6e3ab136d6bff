----------------------------- MODULE MCAccounts -----------------------------
(***************************************************************************)
(* Instances of Accounts for TLC.                                          *)
(***************************************************************************)
EXTENDS Accounts, TLC

CONSTANT p1

MCNewAccount == {[admin |-> TRUE, active |-> TRUE, pass |-> Default]}
MCEdit == {[admin |-> FALSE, active |-> FALSE], [pass |-> p1]}

Symmetry == Permutations(Handler) \cup Permutations(User)
            \cup Permutations(Group) \cup Permutations(Session)
=============================================================================
