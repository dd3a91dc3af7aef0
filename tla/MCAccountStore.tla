----------------------------- MODULE MCAccountStore -----------------------------
(* AccountStore on a small instance. *)
EXTENDS AccountStore, TLC

CONSTANTS p1, p2, l1, l2

Processes == Permutations(Proc)
=============================================================================
