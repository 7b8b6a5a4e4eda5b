------------------------------ MODULE MCShipments ------------------------------
(* Small instances of Shipments for TLC.                                   *)
EXTENDS Shipments, TLC

Symmetry == Permutations(Ids) \cup Permutations(Customers)
                \cup Permutations(Drivers) \cup Permutations(Reqs)
=============================================================================
