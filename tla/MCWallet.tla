------------------------------- MODULE MCWallet -------------------------------
(* Small instances of Wallet for TLC.                                      *)
EXTENDS Wallet, TLC

Symmetry == Permutations(Reqs)
=============================================================================
