-------------------------------- MODULE MCAuth --------------------------------
(***************************************************************************)
(* Small instances of Auth for TLC, with calls that overlap.  There        *)
(* ConsumedOnce, RotatedOnce and OneLiveOtp each have a counterexample,    *)
(* and the one of ConsumedOnce is a run.                                   *)
(***************************************************************************)
EXTENDS Auth, TLC

Symmetry == Permutations(OtpIds) \cup Permutations(UserIds)
                \cup Permutations(TokenIds) \cup Permutations(Reqs)
=============================================================================
