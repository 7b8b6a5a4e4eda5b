----------------------------- MODULE WalletServer -----------------------------
(***************************************************************************)
(* The wallet behind the rate limiter, as main.go wires them: a request    *)
(* arrives from an address, waits for its bucket, and runs its wallet call *)
(* between the limiter's Admit and Leave.                                  *)
(*                                                                         *)
(* payment_service.go has no transaction and no row lock.  What keeps two  *)
(* calls of a user apart is only the limiter's bucket lock, and only for   *)
(* calls that come from one address.                                       *)
(***************************************************************************)
EXTENDS Integers

CONSTANTS
    Reqs, IPs, NoReq, MaxReq, Window, MaxRestarts,
    Users, Amounts, MaxCalls, MaxFailures,
    Addrs   \* [Users -> SUBSET IPs], where the calls of a user come from

ASSUME AddrsAssumption == Addrs \in [Users -> SUBSET IPs]

VARIABLES
    phase, ip, known, tokens, age, holder, restarts, recent,
    rows, balance, credit, debit, pc, call, mem, found, calls, failures, damaged

Gate == INSTANCE RateLimiter
Pay  == INSTANCE Wallet

ASSUME PartsAssumption == Gate!LimiterAssumption /\ Pay!WalletAssumption

gateVars == <<phase, ip, known, tokens, age, holder, restarts, recent>>
payVars  == <<rows, balance, credit, debit, pc, call, mem, found,
              calls, failures, damaged>>
vars     == <<gateVars, payVars>>

Init == Gate!Init /\ Pay!Init

Arrive(r, i) == Gate!Arrive(r, i) /\ UNCHANGED payVars

(* The limiter lets the request through to the wallet handler of the user  *)
(* the request is authenticated as.                                        *)
Dispatch(r, c) ==
    /\ ip[r] \in Addrs[c.user]
    /\ Gate!Admit(r)
    /\ Pay!Receive(r, c)

Refuse(r) == Gate!Reject(r) /\ UNCHANGED payVars

Run(r) == Pay!Statement(r) /\ UNCHANGED gateVars

(* The handler writes its reply and the limiter's deferred unlock runs.    *)
Reply(r) == Pay!Respond(r) /\ Gate!Leave(r)

Tick == Gate!Tick /\ UNCHANGED payVars

Restart == Gate!Restart /\ Pay!Crash

Next ==
    \/ \E r \in Reqs, i \in IPs : Arrive(r, i)
    \/ \E r \in Reqs, c \in Pay!Calls : Dispatch(r, c)
    \/ \E r \in Reqs : Refuse(r)
    \/ \E r \in Reqs : Run(r)
    \/ \E r \in Reqs : Reply(r)
    \/ Tick
    \/ Restart

Spec == Init /\ [][Next]_vars
-----------------------------------------------------------------------------
(* Every user calls from a single address: what the guarantees below need. *)
SingleAddress == \A u \in Users : \A i, j \in Addrs[u] : i = j

InCall(r) == pc[r] # "idle"

(* The two calls of a user never overlap: the lock that rate_limiter.go    *)
(* keeps for the whole handler chain serialises the wallet.                *)
OneCallPerUser ==
    \A r, s \in Reqs :
        InCall(r) /\ InCall(s) /\ call[r].user = call[s].user => r = s

(* The wallet and the transactions table agree between calls, whatever the *)
(* other users do and whatever fails elsewhere (payment_service.go:31-32,  *)
(* 59-60).                                                                 *)
BooksBalance == Pay!BooksBalance

(* A failed statement or a restart costs a user no more than the amount of *)
(* the one call it cuts short (payment_service.go:31-32, 59-60).           *)
OneAmountPerFailure == Pay!OneAmountPerFailure

(* Every change of a balance in the served wallet, failures and restarts   *)
(* included, is one whole deposit or withdrawal on the balance of that     *)
(* instant: no write-back of a stale balance undoes another call           *)
(* (payment_service.go:32, 60).  A call cut short before its write is no   *)
(* step of the account; what it costs OneAmountPerFailure says.            *)
Abstract    == INSTANCE Account WITH funds <- balance
AccountSpec == Abstract!Spec
=============================================================================
