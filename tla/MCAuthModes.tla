------------------------------ MODULE MCAuthModes ------------------------------
(***************************************************************************)
(* Auth for TLC, in two kinds of behaviours.  In the one calls overlap; in *)
(* the other they come one at a time, which is what the rate limiter       *)
(* leaves of the calls of one address, and more is true there.             *)
(***************************************************************************)
EXTENDS MCAuth, FiniteSets

(* Bounds on the behaviours with overlapping calls, which have more of the *)
(* interleavings and get fewer of the calls.                               *)
CONSTANTS OverlapCalls, OverlapOtps

VARIABLE alone     \* do calls come one at a time?

modeVars == <<vars, alone>>

ModesInit == Init /\ alone \in BOOLEAN

Codes == {o \in OtpIds : otps[o].phone # None}

OneAtATime(g) == \A r, q \in Reqs : g[r].pc # "idle" /\ g[q].pc # "idle" => r = q

ModesNext ==
    /\ Next
    /\ IF alone
       THEN OneAtATime(go')
       ELSE calls' <= OverlapCalls /\ Cardinality(Codes') <= OverlapOtps
    /\ UNCHANGED alone

ModesSpec == ModesInit /\ [][ModesNext]_modeVars
-----------------------------------------------------------------------------
(* ConsumedOnce, of calls that do not overlap (auth_service.go:89).        *)
AloneConsumedOnce == alone => ConsumedOnce

(* RotatedOnce, of calls that do not overlap (auth_service.go:206).        *)
AloneRotatedOnce == alone => RotatedOnce

(* OneLiveOtp, of calls that do not overlap (auth_service.go:42).          *)
AloneOneLiveOtp == alone => OneLiveOtp

(* ClaimIsCurrent, of calls that do not overlap (auth_service.go:168).     *)
AloneClaimIsCurrent == alone => ClaimIsCurrent
=============================================================================
