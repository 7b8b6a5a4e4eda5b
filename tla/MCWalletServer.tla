---------------------------- MODULE MCWalletServer ----------------------------
(* Small instances of WalletServer for TLC.                                *)
EXTENDS WalletServer, TLC

CONSTANTS alice, bob, a, b

(* Two users with an address each.                                         *)
MCAddrs == (alice :> {a}) @@ (bob :> {b})


Symmetry == Permutations(Reqs)
=============================================================================
