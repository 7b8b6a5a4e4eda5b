----------------------------- MODULE RateLimiter -----------------------------
(***************************************************************************)
(* The per-address rate limiter of backend/middleware/rate_limiter.go,     *)
(* which main.go installs in front of every route.                         *)
(*                                                                         *)
(* Each address owns a bucket.  A request locks its address's bucket,      *)
(* takes a token or is refused, and keeps the lock, because the unlock is  *)
(* deferred and c.Next() runs before the function returns, until the rest  *)
(* of the handler chain is done.  The limiter therefore also serialises    *)
(* the requests of one address; modules that compose with it rely on that. *)
(*                                                                         *)
(* Time is a count of ticks.  A bucket stores its age, the ticks since     *)
(* lastReset, instead of the clock; past Window the code cannot tell ages  *)
(* apart, so the age stops at Window + 1.                                  *)
(***************************************************************************)
EXTENDS Integers

CONSTANTS
    Reqs,         \* request goroutines, each reused once it is idle again
    IPs,          \* client addresses, the keys of the buckets map
    NoReq,        \* holder of an unlocked bucket
    MaxReq,       \* maxReq: tokens of a fresh bucket
    Window,       \* window, in ticks
    MaxRestarts   \* bound: process restarts in a behaviour

ASSUME LimiterAssumption ==
    /\ NoReq \notin Reqs
    /\ MaxReq \in Nat \ {0}
    /\ Window \in Nat
    /\ MaxRestarts \in Nat

VARIABLES
    phase,     \* [Reqs -> Phases], where the request is in the middleware
    ip,        \* [Reqs -> IPs], c.ClientIP() of its current request
    known,     \* the addresses that have a bucket
    tokens,    \* [IPs -> Nat], bucket.tokens
    age,       \* [IPs -> 0 .. Window + 1], time.Since(bucket.lastReset)
    holder,    \* [IPs -> Reqs or NoReq], who holds bucket.mu
    restarts,  \* restarts so far
    recent     \* history: [IPs -> [0 .. Window -> Nat]], requests let
               \* through in this tick and the k before it

clientVars == <<phase, ip>>
bucketVars == <<known, tokens, age, holder>>
vars       == <<clientVars, bucketVars, restarts, recent>>

Phases == {"idle", "waiting", "serving"}

TypeOK ==
    /\ phase \in [Reqs -> Phases]
    /\ ip \in [Reqs -> IPs]
    /\ known \subseteq IPs
    /\ tokens \in [IPs -> 0 .. MaxReq]
    /\ age \in [IPs -> 0 .. Window + 1]
    /\ holder \in [IPs -> Reqs \cup {NoReq}]
    /\ restarts \in 0 .. MaxRestarts
    /\ recent \in [IPs -> [0 .. Window -> Nat]]

Init ==
    /\ phase = [r \in Reqs |-> "idle"]
    /\ ip \in {[r \in Reqs |-> i] : i \in IPs}
    /\ known = {}
    /\ tokens = [i \in IPs |-> 0]
    /\ age = [i \in IPs |-> 0]
    /\ holder = [i \in IPs |-> NoReq]
    /\ restarts = 0
    /\ recent = [i \in IPs |-> [k \in 0 .. Window |-> 0]]

-----------------------------------------------------------------------------
(* Plausible slips in the code below, each used by one mutant.             *)

FreeWithoutLock(i)  == TRUE
FreeOneGlobalLock(i) == \A j \in IPs : holder[j] = NoReq
AgeNotReset(i)      == age[i]
HasTokenUnchecked(i) == TRUE
-----------------------------------------------------------------------------
(* Arrive: the request looks its bucket up, or creates a full one, under   *)
(* bucketsMu, and goes on to lock it.                                      *)
Arrive(r, i) ==
    /\ phase[r] = "idle"
    /\ phase' = [phase EXCEPT ![r] = "waiting"]
    /\ ip' = [ip EXCEPT ![r] = i]
    /\ known' = known \cup {i}
    /\ IF i \in known
       THEN UNCHANGED <<tokens, age>>
       ELSE /\ tokens' = [tokens EXCEPT ![i] = MaxReq]
            /\ age' = [age EXCEPT ![i] = 0]
    /\ UNCHANGED <<holder, restarts, recent>>

Free(i)    == holder[i] = NoReq
Expired(i) == age[i] > Window

(* The bucket after the refill test that runs first under its lock.        *)
Tokens(i)   == IF Expired(i) THEN MaxReq ELSE tokens[i]
Age(i)      == IF Expired(i) THEN 0 ELSE age[i]
HasToken(i) == Tokens(i) > 0

(* The request gets the lock and a token, and runs the handler chain with  *)
(* the lock held.                                                          *)
Admit(r) ==
    LET i == ip[r] IN
    /\ phase[r] = "waiting"
    /\ Free(i)
    /\ HasToken(i)
    /\ tokens' = [tokens EXCEPT ![i] = Tokens(i) - 1]
    /\ age' = [age EXCEPT ![i] = Age(i)]
    /\ holder' = [holder EXCEPT ![i] = r]
    /\ phase' = [phase EXCEPT ![r] = "serving"]
    /\ recent' = [recent EXCEPT ![i] = [k \in 0 .. Window |-> @[k] + 1]]
    /\ UNCHANGED <<ip, known, restarts>>

(* The request gets the lock, finds no token, answers 429 and unlocks.     *)
Reject(r) ==
    LET i == ip[r] IN
    /\ phase[r] = "waiting"
    /\ Free(i)
    /\ ~HasToken(i)
    /\ tokens' = [tokens EXCEPT ![i] = Tokens(i)]
    /\ age' = [age EXCEPT ![i] = Age(i)]
    /\ phase' = [phase EXCEPT ![r] = "idle"]
    /\ UNCHANGED <<ip, known, holder, restarts, recent>>

Unlock(r) == [holder EXCEPT ![ip[r]] = NoReq]

(* c.Next() returns, or panics into gin's Recovery: either way the         *)
(* deferred unlock runs.                                                   *)
Leave(r) ==
    /\ phase[r] = "serving"
    /\ phase' = [phase EXCEPT ![r] = "idle"]
    /\ holder' = Unlock(r)
    /\ UNCHANGED <<ip, known, tokens, age, restarts, recent>>

Tick ==
    /\ age' = [i \in IPs |-> IF Expired(i) THEN age[i] ELSE age[i] + 1]
    /\ recent' = [i \in IPs |-> [k \in 0 .. Window |->
                                    IF k = 0 THEN 0 ELSE recent[i][k - 1]]]
    /\ UNCHANGED <<phase, ip, known, tokens, holder, restarts>>

(* The process dies and starts again: the buckets map and every request    *)
(* in flight are gone.                                                     *)
Restart ==
    /\ restarts < MaxRestarts
    /\ restarts' = restarts + 1
    /\ phase' = [r \in Reqs |-> "idle"]
    /\ known' = {}
    /\ tokens' = [i \in IPs |-> 0]
    /\ age' = [i \in IPs |-> 0]
    /\ holder' = [i \in IPs |-> NoReq]
    /\ UNCHANGED <<ip, recent>>

Enter(r) == Admit(r) \/ Reject(r)

Next ==
    \/ \E r \in Reqs, i \in IPs : Arrive(r, i)
    \/ \E r \in Reqs : Admit(r)
    \/ \E r \in Reqs : Reject(r)
    \/ \E r \in Reqs : Leave(r)
    \/ Tick
    \/ Restart

Spec == Init /\ [][Next]_vars

(* sync.Mutex hands a lock over in arrival order once a waiter has starved *)
(* for a millisecond, so a waiter cannot lose the race for ever: strong    *)
(* fairness of Enter.  A handler that never returns is excluded by weak    *)
(* fairness of Leave, for the addresses in responsive only.                *)
Fairness(responsive) ==
    \A r \in Reqs :
        /\ SF_vars(ip[r] \in responsive /\ Enter(r))
        /\ WF_vars(ip[r] \in responsive /\ Leave(r))
-----------------------------------------------------------------------------
(* At most one request of an address is past the limiter, and it is the    *)
(* one that holds the bucket's lock: rate_limiter.go defers the unlock     *)
(* past c.Next().                                                          *)
OneServedPerIP ==
    \A r, s \in Reqs :
        phase[r] = "serving" /\ phase[s] = "serving" /\ ip[r] = ip[s] => r = s

(* A locked bucket is always being served by its holder, so a lock can     *)
(* never be left behind with nobody to release it.                         *)
LockIsOwned ==
    \A i \in IPs :
        holder[i] # NoReq => phase[holder[i]] = "serving" /\ ip[holder[i]] = i

(* "limits to `maxReq` requests per `window`" (rate_limiter.go:24) holds   *)
(* of the windows that start at a refill, not of every interval of that    *)
(* length: one straddles at most two fillings of the bucket, and each      *)
(* restart of the process adds one.                                        *)
WithinTwoFillings ==
    \A i \in IPs : recent[i][Window] <= (2 + restarts) * MaxReq
=============================================================================
