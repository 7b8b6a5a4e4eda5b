---------------------------- MODULE MCRateLimiter ----------------------------
(* Small instances of RateLimiter for TLC.                                 *)
EXTENDS RateLimiter

CONSTANT SlowIP   \* an address whose handlers may hang for ever

(* Only addresses other than SlowIP are sure to get answers from handlers. *)
SlowSpec == Spec /\ Fairness(IPs \ {SlowIP})

(* A handler that hangs, and with it the lock of its address, holds up no  *)
(* other address: buckets are locked one by one and bucketsMu is released  *)
(* before a bucket is locked (rate_limiter.go:35).                         *)
OthersAnswered ==
    \A r \in Reqs :
        phase[r] = "waiting" /\ ip[r] # SlowIP ~> phase[r] = "idle"
=============================================================================
