------------------------------- MODULE MCVault -------------------------------
(* Instances of Vault for TLC. *)
EXTENDS Vault, TLC

CONSTANTS id1, id2, tty1

MCDays     == {-1, 1}
MCSymmetry == Permutations({id1, id2})
=============================================================================
