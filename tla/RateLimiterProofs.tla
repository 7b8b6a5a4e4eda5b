-------------------------- MODULE RateLimiterProofs --------------------------
(***************************************************************************)
(* What the rate limiter guarantees for any number of requests, addresses, *)
(* tokens and any window: its types, one served request per address, and   *)
(* the bound on what a window lets through.                                *)
(*                                                                         *)
(* OneServedPerIP is not inductive by itself.  It follows from Owner: a    *)
(* request being served holds the lock of its address; since a lock has    *)
(* one holder, two such requests are the same.                             *)
(*                                                                         *)
(* WithinTwoFillings speaks of the whole window; Counted also says which   *)
(* of its requests the present filling of the bucket accounts for.         *)
(***************************************************************************)
EXTENDS RateLimiter, TLAPS

Owner == \A r \in Reqs : phase[r] = "serving" => holder[ip[r]] = r

IInv == TypeOK /\ LockIsOwned /\ Owner

(* Every variable of the limiter keeps its type: tokens never go below     *)
(* zero or above maxReq (rate_limiter.go:40-54).                           *)
LEMMA TypeStep == TypeOK /\ [Next]_vars => TypeOK'
<1> SUFFICES ASSUME TypeOK, [Next]_vars PROVE TypeOK'
    OBVIOUS
<1> USE LimiterAssumption DEF TypeOK, Phases
<1>1. ASSUME NEW r \in Reqs, NEW i \in IPs, Arrive(r, i) PROVE TypeOK'
    <2>1. tokens' \in [IPs -> 0 .. MaxReq] /\ age' \in [IPs -> 0 .. Window + 1]
        <3>1. CASE i \in known
            BY <1>1, <3>1 DEF Arrive
        <3>2. CASE i \notin known
            <4>1. tokens' = [tokens EXCEPT ![i] = MaxReq]
                BY <1>1, <3>2 DEF Arrive
            <4>2. age' = [age EXCEPT ![i] = 0]
                BY <1>1, <3>2 DEF Arrive
            <4> QED
                BY <4>1, <4>2
        <3> QED
            BY <3>1, <3>2
    <2> QED
        BY <1>1, <2>1 DEF Arrive
<1>2. ASSUME NEW r \in Reqs, Admit(r) PROVE TypeOK'
    <2> DEFINE i == ip[r]
    <2>1. i \in IPs
        OBVIOUS
    <2>2. Tokens(i) - 1 \in 0 .. MaxReq /\ Age(i) \in 0 .. Window + 1
        BY <1>2, <2>1 DEF Admit, HasToken, Tokens, Age, Expired
    <2>3. recent' \in [IPs -> [0 .. Window -> Nat]]
        BY <1>2, <2>1 DEF Admit
    <2> QED
        BY <1>2, <2>1, <2>2, <2>3 DEF Admit
<1>3. ASSUME NEW r \in Reqs, Reject(r) PROVE TypeOK'
    BY <1>3 DEF Reject, Tokens, Age, Expired
<1>4. ASSUME NEW r \in Reqs, Leave(r) PROVE TypeOK'
    BY <1>4 DEF Leave, Unlock
<1>5. ASSUME Tick PROVE TypeOK'
    <2>1. age' \in [IPs -> 0 .. Window + 1]
        BY <1>5 DEF Tick, Expired
    <2>2. recent' \in [IPs -> [0 .. Window -> Nat]]
        BY <1>5 DEF Tick
    <2> QED
        BY <1>5, <2>1, <2>2 DEF Tick
<1>6. ASSUME Restart PROVE TypeOK'
    BY <1>6 DEF Restart
<1>7. CASE UNCHANGED vars
    BY <1>7 DEF vars, clientVars, bucketVars
<1> QED
    BY <1>1, <1>2, <1>3, <1>4, <1>5, <1>6, <1>7 DEF Next

LEMMA InitInv == Init => IInv
BY LimiterAssumption
DEF Init, IInv, TypeOK, Phases, LockIsOwned, Owner

LEMMA InvStep == IInv /\ [Next]_vars => IInv'
<1> SUFFICES ASSUME IInv, [Next]_vars PROVE (LockIsOwned /\ Owner)'
    BY TypeStep DEF IInv
<1> USE LimiterAssumption DEF IInv, TypeOK, Phases, LockIsOwned, Owner
<1>1. ASSUME NEW r \in Reqs, NEW i \in IPs, Arrive(r, i)
      PROVE  (LockIsOwned /\ Owner)'
    BY <1>1 DEF Arrive
<1>2. ASSUME NEW r \in Reqs, Admit(r) PROVE (LockIsOwned /\ Owner)'
    BY <1>2 DEF Admit, Free
<1>3. ASSUME NEW r \in Reqs, Reject(r) PROVE (LockIsOwned /\ Owner)'
    BY <1>3 DEF Reject
<1>4. ASSUME NEW r \in Reqs, Leave(r) PROVE (LockIsOwned /\ Owner)'
    BY <1>4 DEF Leave, Unlock
<1>5. ASSUME Tick PROVE (LockIsOwned /\ Owner)'
    BY <1>5 DEF Tick
<1>6. ASSUME Restart PROVE (LockIsOwned /\ Owner)'
    BY <1>6 DEF Restart
<1>7. CASE UNCHANGED vars
    BY <1>7 DEF vars, clientVars, bucketVars
<1> QED
    BY <1>1, <1>2, <1>3, <1>4, <1>5, <1>6, <1>7 DEF Next

LEMMA OwnersExclude == IInv => OneServedPerIP
BY DEF IInv, Owner, OneServedPerIP

(* What a bucket says of the requests let through lately: the tokens taken *)
(* since lastReset count all of the ticks after it, and with them at most  *)
(* one filling, and one per restart, all of the window.  The bucket of an  *)
(* address that is not known begins anew.                                  *)
Before == (1 + restarts) * MaxReq

Counted(i) ==
    \A k \in 0 .. Window :
        /\ i \notin known => recent[i][k] <= Before
        /\ i \in known => recent[i][k] <= MaxReq - tokens[i] + Before
        /\ i \in known /\ k < age[i] => recent[i][k] <= MaxReq - tokens[i]

(* Requests past the lookup have a bucket.                                 *)
Looked == \A r \in Reqs : phase[r] # "idle" => ip[r] \in known

CountInv == TypeOK /\ Looked /\ \A i \in IPs : Counted(i)

LEMMA Fillings ==
    ASSUME TypeOK
    PROVE  /\ Before \in Nat /\ MaxReq <= Before
           /\ (2 + restarts) * MaxReq = Before + MaxReq
<1> restarts \in Nat /\ MaxReq \in Nat
    BY LimiterAssumption DEF TypeOK
<1>1. restarts * MaxReq \in Nat /\ Before = restarts * MaxReq + MaxReq
    BY DEF Before
<1>2. (2 + restarts) * MaxReq = restarts * MaxReq + MaxReq + MaxReq
    OBVIOUS
<1> QED
    BY <1>1, <1>2

LEMMA CountInit == Init => CountInv
<1> SUFFICES ASSUME Init PROVE CountInv
    OBVIOUS
<1>1. TypeOK
    BY InitInv DEF IInv
<1>2. Looked
    BY DEF Init, Looked
<1>3. \A i \in IPs : Counted(i)
    BY <1>1, Fillings DEF Init, Counted
<1> QED
    BY <1>1, <1>2, <1>3 DEF CountInv

LEMMA CountStep == CountInv /\ [Next]_vars => CountInv'
<1> SUFFICES ASSUME CountInv, [Next]_vars PROVE Looked' /\ \A i \in IPs : Counted(i)'
    BY TypeStep DEF CountInv
<1>0. /\ TypeOK /\ TypeOK' /\ Looked /\ Before \in Nat /\ MaxReq <= Before
      /\ MaxReq \in Nat \ {0} /\ Window \in Nat
      /\ \A j \in IPs : Counted(j)
    BY TypeStep, Fillings, LimiterAssumption DEF CountInv
<1>1. ASSUME NEW r \in Reqs, NEW i \in IPs, Arrive(r, i)
      PROVE  Looked' /\ \A j \in IPs : Counted(j)'
    <2>1. Looked'
        BY <1>0, <1>1 DEF Arrive, Looked, TypeOK
    <2>2. ASSUME NEW j \in IPs PROVE Counted(j)'
        <3>1. CASE j = i /\ i \notin known
            <4>1. /\ i \in known' /\ tokens'[i] = MaxReq /\ age'[i] = 0
                  /\ recent' = recent /\ Before' = Before
                BY <1>0, <1>1, <3>1 DEF Arrive, Before, TypeOK
            <4> QED
                BY <1>0, <3>1, <4>1 DEF Counted, TypeOK
        <3>2. CASE ~(j = i /\ i \notin known)
            <4>1. /\ j \in known' <=> j \in known
                  /\ tokens'[j] = tokens[j] /\ age'[j] = age[j]
                  /\ recent' = recent /\ Before' = Before
                BY <1>0, <1>1, <3>2 DEF Arrive, Before, TypeOK
            <4> QED
                BY <1>0, <4>1 DEF Counted
        <3> QED
            BY <3>1, <3>2
    <2> QED
        BY <2>1, <2>2
<1>2. ASSUME NEW r \in Reqs, Admit(r)
      PROVE  Looked' /\ \A j \in IPs : Counted(j)'
    <2>1. Looked'
        BY <1>0, <1>2 DEF Admit, Looked, TypeOK
    <2>2. ip[r] \in IPs /\ ip[r] \in known
        BY <1>0, <1>2 DEF Admit, Looked, TypeOK
    <2>3. ASSUME NEW j \in IPs, j # ip[r] PROVE Counted(j)'
        <3>1. /\ known' = known /\ Before' = Before
              /\ tokens'[j] = tokens[j] /\ age'[j] = age[j] /\ recent'[j] = recent[j]
            BY <1>0, <1>2, <2>3 DEF Admit, Before, TypeOK
        <3> QED
            BY <1>0, <3>1 DEF Counted
    <2>4. ASSUME NEW i \in IPs, i = ip[r] PROVE Counted(i)'
        <3>0. i \in IPs /\ i \in known /\ Counted(i)
            BY <1>0, <2>2, <2>4
        <3>1. /\ known' = known /\ Before' = Before
              /\ tokens'[i] = Tokens(i) - 1 /\ age'[i] = Age(i)
              /\ \A k \in 0 .. Window : recent'[i][k] = recent[i][k] + 1
            BY <1>0, <1>2, <2>4 DEF Admit, Before, TypeOK
        <3>2. /\ tokens[i] \in 0 .. MaxReq /\ age[i] \in 0 .. Window + 1
              /\ \A k \in 0 .. Window : recent[i][k] \in Nat
            BY <1>0, <3>0 DEF TypeOK
        <3>3. ASSUME NEW k \in 0 .. Window
              PROVE  /\ recent'[i][k] <= MaxReq - tokens'[i] + Before'
                     /\ k < age'[i] => recent'[i][k] <= MaxReq - tokens'[i]
            <4>1. CASE Expired(i)
                <5>1. recent[i][k] <= MaxReq - tokens[i]
                    BY <1>0, <3>0, <3>2, <4>1 DEF Counted, Expired
                <5>2. tokens'[i] = MaxReq - 1 /\ age'[i] = 0
                    BY <3>1, <4>1 DEF Tokens, Age
                <5> QED
                    BY <1>0, <3>1, <3>2, <5>1, <5>2
            <4>2. CASE ~Expired(i)
                <5>1. tokens'[i] = tokens[i] - 1 /\ age'[i] = age[i]
                    BY <3>1, <4>2 DEF Tokens, Age
                <5> QED
                    BY <1>0, <3>0, <3>1, <3>2, <5>1 DEF Counted
            <4> QED
                BY <4>1, <4>2
        <3> QED
            BY <3>0, <3>1, <3>3 DEF Counted
    <2> QED
        BY <2>1, <2>3, <2>4
<1>3. ASSUME NEW r \in Reqs, Reject(r)
      PROVE  Looked' /\ \A j \in IPs : Counted(j)'
    <2>1. Looked'
        BY <1>0, <1>3 DEF Reject, Looked, TypeOK
    <2>2. tokens' = tokens /\ age' = age
        BY <1>0, <1>3 DEF Reject, HasToken, Tokens, Age, TypeOK
    <2> QED
        BY <1>0, <1>3, <2>1, <2>2 DEF Reject, Counted, Before
<1>4. ASSUME NEW r \in Reqs, Leave(r)
      PROVE  Looked' /\ \A j \in IPs : Counted(j)'
    <2>1. Looked'
        BY <1>0, <1>4 DEF Leave, Looked, TypeOK
    <2> QED
        BY <1>0, <1>4, <2>1 DEF Leave, Counted, Before
<1>5. ASSUME Tick PROVE Looked' /\ \A j \in IPs : Counted(j)'
    <2>1. Looked'
        BY <1>0, <1>5 DEF Tick, Looked
    <2>2. ASSUME NEW j \in IPs, NEW k \in 0 .. Window
          PROVE  /\ recent'[j][k] = IF k = 0 THEN 0 ELSE recent[j][k - 1]
                 /\ k # 0 => k - 1 \in 0 .. Window
                 /\ age'[j] = IF Expired(j) THEN age[j] ELSE age[j] + 1
                 /\ age[j] \in 0 .. Window + 1
                 /\ MaxReq - tokens[j] \in Nat
        BY <1>0, <1>5 DEF Tick, TypeOK
    <2>3. ASSUME NEW j \in IPs PROVE Counted(j)'
        <3>1. known' = known /\ tokens' = tokens /\ Before' = Before
            BY <1>5 DEF Tick, Before
        <3>2. Counted(j)
            BY <1>0
        <3> QED
            BY <1>0, <2>2, <3>1, <3>2 DEF Counted, Expired
    <2> QED
        BY <2>1, <2>3
<1>6. ASSUME Restart PROVE Looked' /\ \A j \in IPs : Counted(j)'
    <2>1. Looked'
        BY <1>6 DEF Restart, Looked
    <2>2. Before' = Before + MaxReq
        <3>1. Before' = (1 + (restarts + 1)) * MaxReq
            BY <1>6 DEF Restart, Before
        <3>2. 1 + (restarts + 1) = 2 + restarts
            BY <1>0, LimiterAssumption DEF TypeOK
        <3> QED
            BY <1>0, <3>1, <3>2, Fillings
    <2>3. ASSUME NEW j \in IPs, NEW k \in 0 .. Window
          PROVE  recent[j][k] <= Before + MaxReq
        <3>1. tokens[j] \in 0 .. MaxReq /\ recent[j][k] \in Nat
            BY <1>0 DEF TypeOK
        <3> QED
            BY <1>0, <3>1 DEF Counted
    <2>4. known' = {} /\ recent' = recent
        BY <1>6 DEF Restart
    <2> QED
        BY <2>1, <2>2, <2>3, <2>4 DEF Counted
<1>7. CASE UNCHANGED vars
    BY <1>0, <1>7 DEF vars, clientVars, bucketVars, Looked, Counted, Before
<1> QED
    BY <1>1, <1>2, <1>3, <1>4, <1>5, <1>6, <1>7 DEF Next

LEMMA CountBounds == CountInv => WithinTwoFillings
<1> SUFFICES ASSUME CountInv, NEW i \in IPs
             PROVE  recent[i][Window] <= (2 + restarts) * MaxReq
    BY DEF WithinTwoFillings
<1>1. Window \in 0 .. Window /\ MaxReq \in Nat
    BY LimiterAssumption
<1>2. recent[i][Window] \in Nat /\ tokens[i] \in 0 .. MaxReq /\ TypeOK /\ Counted(i)
    BY <1>1 DEF CountInv, TypeOK
<1> QED
    BY <1>1, <1>2, Fillings DEF Counted

(* The limiter's variables keep their types and bounds.                    *)
THEOREM TypeCorrect == Spec => []TypeOK
<1>1. Init => TypeOK
    BY InitInv DEF IInv
<1> QED
    BY <1>1, TypeStep, PTL DEF Spec

(* At most one request of an address is past the limiter at any time       *)
(* (rate_limiter.go:38-39, 55).                                            *)
THEOREM MutualExclusion == Spec => []OneServedPerIP
<1> QED
    BY OwnersExclude, InitInv, InvStep, PTL DEF Spec

(* A locked bucket always has a live holder, which is being served, so     *)
(* that no lock is left behind (rate_limiter.go:39, 55).                   *)
THEOREM LocksAreOwned == Spec => []LockIsOwned
<1>1. IInv => LockIsOwned
    BY DEF IInv
<1> QED
    BY <1>1, InitInv, InvStep, PTL DEF Spec

(* No window of the limiter's length lets more than two fillings of a      *)
(* bucket through, plus one per restart of the process                     *)
(* (rate_limiter.go:40-54).                                                *)
THEOREM TwoFillings == Spec => []WithinTwoFillings
<1> QED
    BY CountInit, CountStep, CountBounds, PTL DEF Spec
=============================================================================
