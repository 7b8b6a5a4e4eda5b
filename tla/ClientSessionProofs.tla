------------------------- MODULE ClientSessionProofs -------------------------
(***************************************************************************)
(* The session of the app, for any number of requests and tokens.          *)
(*                                                                         *)
(* Why no spent refresh token is presented: one call at a time is in       *)
(* _doRefresh (OneRefresh), and the token of a pair that is still to be    *)
(* stored is known to nobody else (UnsavedFresh), so storing it can make   *)
(* the old token spent only when no other call holds that one.             *)
(*                                                                         *)
(* Why the sessions agree (SessionInv): a call that a log-out or a new     *)
(* sign-in overtook changes nothing, or it has meddled and nothing is      *)
(* claimed; every other call has, and stores, tokens of the session on the *)
(* screens only (ShownInv), or is the sign-in or the start that is about   *)
(* to show one (AloneInv, SignInShown, StartShown).                        *)
(*                                                                         *)
(* Why no session ends early: without faults the stored refresh token has  *)
(* not been exchanged, or its successor is about to be stored (LiveInv),   *)
(* so the server can refuse it for its age only.  Storage then holds both  *)
(* tokens, unless a call of the session is ending it (Dying) or a log-out  *)
(* or the listener has wiped everything (Gone); what a call presents is    *)
(* the stored token (Presented); and a call that has refreshed carries a   *)
(* token issued after it began, which the server takes (NewEnough).  So    *)
(* the first call to end a session was refused for age.                    *)
(***************************************************************************)
EXTENDS ClientSession, TLAPS

Steps == {"idle", "readStore", "verify", "saveRole", "show", "check", "stale",
          "waiting", "refresh", "posting", "saveAccess", "saveRefresh",
          "saveExpiry", "attach", "reattach", "sent", "readKept", "wipe",
          "restore", "expire", "leave", "logout", "forget", "keepRole"}

(* The steps that use the pair of their call.                              *)
PairSteps == {"posting", "saveAccess", "saveRefresh", "saveExpiry", "saveRole", "show"}

CallsOfTasks == [pc : Steps, token : Tokens, pair : Tokens, refused : BOOLEAN,
                 next : {"idle", "saveRole", "refreshed"}, role : BOOLEAN,
                 public : BOOLEAN, late : BOOLEAN]

(* A call when n pairs have been issued.                                   *)
CallOK(c, n) ==
    /\ c \in CallsOfTasks
    /\ c.pair \in 0 .. n
    /\ c.token \in 0 .. n
    /\ c.pc \in PairSteps => c.pair # 0

TasksOK ==
    /\ task = [t \in Tasks |-> task[t]]
    /\ \A t \in Tasks : CallOK(task[t], Len(issued))

StoreOK ==
    /\ store \in [access : 0 .. Len(issued), refresh : 0 .. Len(issued),
                  expiry : {"none", "later", "past"}, role : BOOLEAN]
    /\ app \in [status : {"unknown", "authenticated", "unauthenticated"},
                session : Tokens]

ServerOK ==
    /\ issued \in Seq([session : Tokens, from : Tokens])
    /\ Len(issued) <= MaxTokens
    /\ \A n \in 1 .. Len(issued) : issued[n].from < n
    /\ live \subseteq 1 .. Len(issued)
    /\ replaced \subseteq 1 .. Len(issued)
    /\ expired \in 0 .. Len(issued)
    /\ lapsed \in 0 .. expired
    /\ settled \in 0 .. Len(issued)

CountsOK ==
    /\ budget \in 0 .. MaxBudget
    /\ faulty \in BOOLEAN
    /\ torn \in BOOLEAN
    /\ meddled \in BOOLEAN
    /\ refreshing \in Tasks \cup {Nobody}

TypeInv == TasksOK /\ StoreOK /\ ServerOK /\ CountsOK

LEMMA ElementOK ==
    ASSUME NEW S, NEW q \in Seq(S), NEW k \in 1 .. Len(q)
    PROVE  q[k] \in S
OBVIOUS

LEMMA LenIssued ==
    ASSUME ServerOK
    PROVE  /\ Len(issued) \in Nat
           /\ DOMAIN issued = 1 .. Len(issued)
           /\ 0 .. Len(issued) \subseteq Tokens
BY ClientAssumption DEF ServerOK, Tokens

LEMMA IssuedOK ==
    ASSUME ServerOK, NEW k \in 1 .. Len(issued)
    PROVE  /\ issued[k].session \in Tokens
           /\ issued[k].from \in 0 .. Len(issued)
           /\ issued[k].from # 0 => issued[k].from \in 1 .. Len(issued)
<1>1. issued[k] \in [session : Tokens, from : Tokens]
  BY ElementOK DEF ServerOK
<1>2. issued[k].from \in Nat /\ issued[k].from < k /\ Len(issued) \in Nat
  BY <1>1, LenIssued DEF ServerOK, Tokens
<1> QED BY <1>1, <1>2

LEMMA TypeInvImpliesTypeOK == TypeInv => TypeOK
<1> SUFFICES ASSUME TypeInv PROVE TypeOK
  OBVIOUS
<1>1. /\ Len(issued) \in Nat
      /\ DOMAIN issued = 1 .. Len(issued)
      /\ 0 .. Len(issued) \subseteq Tokens
  BY LenIssued DEF TypeInv
<1>2. task \in [Tasks -> CallsOfTasks]
  BY DEF TypeInv, TasksOK, CallOK
<1>3. store \in [access : Tokens, refresh : Tokens,
                 expiry : {"none", "later", "past"}, role : BOOLEAN]
  BY <1>1 DEF TypeInv, StoreOK
<1> QED BY <1>1, <1>2, <1>3
        DEF TypeOK, TypeInv, StoreOK, ServerOK, CountsOK, CallsOfTasks, Steps
-----------------------------------------------------------------------------
(* What the actions do to the calls under way.                             *)

LEMMA CallGrows ==
    ASSUME NEW n \in Nat, NEW m \in Nat, n <= m, NEW c, CallOK(c, n)
    PROVE  CallOK(c, m)
BY DEF CallOK

LEMMA CallGoes ==
    ASSUME NEW n \in Nat, NEW c, CallOK(c, n), NEW pc \in Steps,
           pc \in PairSteps => c.pair # 0
    PROVE  CallOK([c EXCEPT !.pc = pc], n)
BY DEF CallOK, CallsOfTasks

LEMMA CallIsLate ==
    ASSUME NEW n \in Nat, NEW c, CallOK(c, n), NEW late \in BOOLEAN
    PROVE  CallOK([c EXCEPT !.late = late], n)
BY DEF CallOK, CallsOfTasks

LEMMA IdleOK ==
    ASSUME NEW n \in Nat, n <= MaxTokens
    PROVE  CallOK(Idle, n)
BY ClientAssumption DEF CallOK, CallsOfTasks, Idle, Steps, PairSteps, Tokens

LEMMA OneChanges ==
    ASSUME TasksOK, NEW t \in Tasks, NEW c, task' = [task EXCEPT ![t] = c],
           Len(issued) \in Nat, Len(issued)' \in Nat,
           Len(issued) <= Len(issued)', CallOK(c, Len(issued)')
    PROVE  TasksOK'
<1>1. task' = [s \in Tasks |-> IF s = t THEN c ELSE task[s]]
  BY DEF TasksOK
<1>2. \A s \in Tasks : CallOK(task[s], Len(issued)')
  BY CallGrows DEF TasksOK
<1> QED BY <1>1, <1>2 DEF TasksOK

LEMMA OneBecomes ==
    ASSUME TasksOK, NEW t \in Tasks, NEW c, task' = [task EXCEPT ![t] = c],
           Len(issued) \in Nat, CallOK(c, Len(issued)), UNCHANGED issued
    PROVE  TasksOK'
<1>1. Len(issued)' = Len(issued)
  OBVIOUS
<1>2. /\ Len(issued)' \in Nat
      /\ Len(issued) <= Len(issued)'
      /\ CallOK(c, Len(issued)')
  BY <1>1
<1> QED BY <1>2, OneChanges

LEMMA OneGoes ==
    ASSUME TasksOK, NEW t \in Tasks, NEW pc \in Steps, Goto(t, pc),
           pc \in PairSteps => task[t].pair # 0,
           Len(issued) \in Nat, UNCHANGED issued
    PROVE  TasksOK'
<1>1. CallOK([task[t] EXCEPT !.pc = pc], Len(issued))
  BY CallGoes DEF TasksOK
<1>2. task' = [task EXCEPT ![t] = [task[t] EXCEPT !.pc = pc]]
  BY DEF Goto
<1> QED BY <1>1, <1>2, OneBecomes

LEMMA OneIsDone ==
    ASSUME TasksOK, NEW t \in Tasks, Done(t), ServerOK, UNCHANGED issued
    PROVE  TasksOK'
<1>1. CallOK(Idle, Len(issued)) /\ Len(issued) \in Nat
  BY IdleOK, LenIssued DEF ServerOK
<1> QED BY <1>1, OneBecomes DEF Done

LEMMA OneOvertakes ==
    ASSUME TasksOK, NEW t \in Tasks, NEW c, Overtake(t, c),
           CallOK(c, Len(issued)), Len(issued) \in Nat, UNCHANGED issued
    PROVE  TasksOK'
<1>1. \A s \in Tasks : CallOK([task[s] EXCEPT !.late = @ \/ Running(s)], Len(issued))
  <2> SUFFICES ASSUME NEW s \in Tasks
               PROVE  CallOK([task[s] EXCEPT !.late = task[s].late \/ Running(s)], Len(issued))
    OBVIOUS
  <2>1. CallOK(task[s], Len(issued)) /\ task[s].late \in BOOLEAN
    BY DEF TasksOK, CallOK, CallsOfTasks
  <2>2. (task[s].late \/ Running(s)) \in BOOLEAN
    OBVIOUS
  <2> QED BY <2>1, <2>2, CallIsLate
<1> QED BY <1>1 DEF Overtake, TasksOK

LEMMA OneEnds ==
    ASSUME TasksOK, NEW t \in Tasks, NEW c, End(t, c),
           CallOK(c, Len(issued)), Len(issued) \in Nat, UNCHANGED issued
    PROVE  TasksOK'
<1>1. CASE app.status = "authenticated"
  BY <1>1, OneOvertakes DEF End
<1>2. CASE app.status # "authenticated"
  BY <1>2, OneChanges DEF End
<1> QED BY <1>1, <1>2

LEMMA CallJoins ==
    ASSUME NEW n \in Nat, NEW c, CallOK(c, n), NEW refused \in BOOLEAN,
           NEW pc \in Steps \ PairSteps
    PROVE  CallOK([c EXCEPT !.pc = pc, !.refused = refused, !.token = 0], n)
<1> DEFINE d == [c EXCEPT !.pc = pc, !.refused = refused, !.token = 0]
<1>1. 0 \in Tokens
  BY ClientAssumption DEF Tokens
<1>2. d \in CallsOfTasks
  BY <1>1 DEF CallOK, CallsOfTasks
<1>3. d.pc = pc /\ d.token = 0 /\ d.pair = c.pair
  BY DEF CallOK, CallsOfTasks
<1> QED BY <1>2, <1>3 DEF CallOK

LEMMA OneJoins ==
    ASSUME TasksOK, NEW t \in Tasks, NEW refused \in BOOLEAN, Join(t, refused),
           ServerOK, UNCHANGED issued
    PROVE  TasksOK'
<1> DEFINE pc == IF refreshing = Nobody THEN "refresh" ELSE "waiting"
           c  == [task[t] EXCEPT !.pc = pc, !.refused = refused, !.token = 0]
<1>1. Len(issued) \in Nat /\ CallOK(task[t], Len(issued))
  BY LenIssued DEF TasksOK
<1>2. pc \in Steps \ PairSteps
  BY DEF Steps, PairSteps
<1> HIDE DEF pc
<1>3. CallOK(c, Len(issued))
  BY <1>1, <1>2, CallJoins
<1>4. task' = [task EXCEPT ![t] = c]
  BY DEF Join, pc
<1> HIDE DEF c
<1> QED BY <1>1, <1>3, <1>4, OneBecomes

LEMMA CallSetsUp ==
    ASSUME NEW n \in Nat, NEW c, CallOK(c, n), c.token # 0
    PROVE  CallOK([c EXCEPT !.pc = "saveRole", !.pair = c.token], n)
<1> DEFINE d == [c EXCEPT !.pc = "saveRole", !.pair = c.token]
<1>1. "saveRole" \in Steps
  BY DEF Steps
<1>2. d \in CallsOfTasks
  BY <1>1 DEF CallOK, CallsOfTasks
<1>3. d.token = c.token /\ d.pair = c.token
  BY DEF CallOK, CallsOfTasks
<1> QED BY <1>2, <1>3 DEF CallOK

LEMMA CallFinishes ==
    ASSUME NEW n \in Nat, NEW c, CallOK(c, n), NEW pc \in Steps \ PairSteps
    PROVE  CallOK([c EXCEPT !.pc = pc, !.pair = 0, !.next = "idle"], n)
<1> DEFINE d == [c EXCEPT !.pc = pc, !.pair = 0, !.next = "idle"]
<1>1. 0 \in Tokens
  BY ClientAssumption DEF Tokens
<1>2. d \in CallsOfTasks
  BY <1>1 DEF CallOK, CallsOfTasks
<1>3. d.pc = pc /\ d.pair = 0 /\ d.token = c.token
  BY DEF CallOK, CallsOfTasks
<1> QED BY <1>2, <1>3 DEF CallOK

LEMMA OneFinishes ==
    ASSUME TasksOK, NEW t \in Tasks, NEW ok \in BOOLEAN, Finish(t, ok),
           ServerOK, UNCHANGED issued
    PROVE  TasksOK'
<1> DEFINE c(s) == [task[s] EXCEPT !.pc = AfterRefresh(ok), !.pair = 0, !.next = "idle"]
<1>1. AfterRefresh(ok) \in Steps \ PairSteps
  BY DEF AfterRefresh, Steps, PairSteps
<1>2. \A s \in Tasks : CallOK(task[s], Len(issued))
  BY DEF TasksOK
<1>3. \A s \in Tasks : CallOK(c(s), Len(issued))
  BY <1>1, <1>2, LenIssued, CallFinishes
<1>4. task' = [s \in Tasks |-> IF s = t \/ At(s, "waiting") THEN c(s) ELSE task[s]]
  BY DEF Finish
<1> HIDE DEF c
<1>5. Len(issued)' = Len(issued)
  OBVIOUS
<1> QED BY <1>2, <1>3, <1>4, <1>5 DEF TasksOK
-----------------------------------------------------------------------------
LEMMA Issued ==
    ASSUME ServerOK, NEW session \in Tokens, NEW from \in 0 .. Len(issued),
           Issue(session, from), UNCHANGED <<limits, replaced>>
    PROVE  /\ ServerOK'
           /\ Len(issued)' = New
           /\ New \in Tokens
           /\ \A n \in 1 .. Len(issued) : issued'[n] = issued[n]
           /\ issued'[New] = [session |-> session, from |-> from]
<1> DEFINE e == [session |-> session, from |-> from]
<1>1. /\ issued \in Seq([session : Tokens, from : Tokens])
      /\ e \in [session : Tokens, from : Tokens]
      /\ issued' = Append(issued, e)
      /\ Len(issued) \in Nat /\ Len(issued) < MaxTokens
  BY LenIssued DEF ServerOK, Issue, CanIssue
<1>2. /\ issued' \in Seq([session : Tokens, from : Tokens])
      /\ Len(issued)' = New
      /\ \A n \in 1 .. Len(issued) : issued'[n] = issued[n]
      /\ issued'[New] = e
  BY <1>1 DEF New
<1>3. New \in Tokens /\ New <= MaxTokens /\ New \in Nat
  BY <1>1, ClientAssumption DEF New, Tokens
<1>4. \A n \in 1 .. Len(issued)' : issued'[n].from < n
  BY <1>1, <1>2 DEF New, ServerOK
<1>5. live' \subseteq 1 .. Len(issued)'
  <2>1. live \subseteq 1 .. Len(issued) /\ live' = (live \ {from}) \cup {New}
    BY DEF ServerOK, Issue
  <2>2. New \in 1 .. New /\ 1 .. Len(issued) \subseteq 1 .. New
    BY <1>1 DEF New
  <2> QED BY <1>2, <2>1, <2>2
<1>6. /\ replaced' \subseteq 1 .. Len(issued)'
      /\ expired' \in 0 .. Len(issued)'
      /\ lapsed' \in 0 .. expired'
      /\ settled' \in 0 .. Len(issued)'
  BY <1>1, <1>2 DEF ServerOK, Issue, New, limits
<1> QED BY <1>2, <1>3, <1>4, <1>5, <1>6 DEF ServerOK

LEMMA CallReceives ==
    ASSUME NEW n \in Nat, NEW c, CallOK(c, n), NEW m \in Tokens, m > n,
           NEW next \in {"idle", "saveRole", "refreshed"}
    PROVE  CallOK([c EXCEPT !.pc = "saveAccess", !.pair = m, !.next = next], m)
<1> DEFINE d == [c EXCEPT !.pc = "saveAccess", !.pair = m, !.next = next]
<1>1. "saveAccess" \in Steps /\ m \in Nat
  BY ClientAssumption DEF Steps, Tokens
<1>2. d \in CallsOfTasks
  BY <1>1 DEF CallOK, CallsOfTasks
<1>3. d.pair = m /\ d.token = c.token
  BY DEF CallOK, CallsOfTasks
<1> QED BY <1>1, <1>2, <1>3 DEF CallOK

(* A call that receives a pair goes on to store it.                        *)
Receives(t, next) ==
    task' = [task EXCEPT ![t].pc = "saveAccess", ![t].pair = New, ![t].next = next]

LEMMA OneReceives ==
    ASSUME TasksOK, ServerOK, NEW t \in Tasks,
           NEW next \in {"idle", "saveRole", "refreshed"}, Receives(t, next),
           Len(issued)' = New, New \in Tokens
    PROVE  TasksOK'
<1> DEFINE c == [task[t] EXCEPT !.pc = "saveAccess", !.pair = New, !.next = next]
<1>1. /\ Len(issued) \in Nat /\ New \in Nat /\ New > Len(issued)
      /\ CallOK(task[t], Len(issued))
  BY LenIssued DEF New, TasksOK
<1>2. CallOK(c, New)
  BY <1>1, CallReceives
<1>3. task' = [task EXCEPT ![t] = c]
  BY DEF Receives
<1>4. CallOK(c, Len(issued)') /\ Len(issued)' \in Nat /\ Len(issued) <= Len(issued)'
  BY <1>1, <1>2
<1> HIDE DEF c
<1> QED BY <1>1, <1>3, <1>4, OneChanges

(* The steps that make the server issue a pair.                            *)
Issuing(t) == Rotated(t) \/ Verified(t) \/ (t = "signIn" /\ Answered(t))

LEMMA StepIssues ==
    ASSUME TypeInv, NEW t \in Tasks, Issuing(t)
    PROVE  \E session \in Tokens, from \in 0 .. Len(issued) :
              /\ Issue(session, from)
              /\ \/ from = 0 /\ Receives(t, "saveRole")
                 \/ from = 0 /\ Receives(t, "idle")
                 \/ /\ At(t, "posting") /\ from = task[t].pair
                    /\ Receives(t, "refreshed")
              /\ UNCHANGED <<limits, replaced, store, refreshing>>
<1>1. ServerOK /\ 0 \in 0 .. Len(issued)
  BY LenIssued DEF TypeInv
<1>2. CASE Rotated(t)
  <2>1. task[t].pair \in 1 .. Len(issued)
    BY <1>2, LenIssued DEF Rotated, Taken, ServerOK, TypeInv
  <2>2. issued[task[t].pair].session \in Tokens /\ task[t].pair \in 0 .. Len(issued)
    BY <1>1, <2>1, IssuedOK
  <2> QED BY <1>2, <2>2 DEF Rotated, Receives
<1>3. CASE Verified(t)
  <2>1. New \in Tokens
    BY <1>1, <1>3, LenIssued, ClientAssumption
       DEF Verified, Issue, CanIssue, New, Tokens
  <2> QED BY <1>1, <1>3, <2>1 DEF Verified, Receives
<1>4. CASE t = "signIn" /\ Answered(t)
  <2>1. task[t].token \in 1 .. Len(issued)
    BY <1>1, <1>4 DEF Answered, Known, ServerOK, TypeInv, TasksOK, CallOK
  <2>2. issued[task[t].token].session \in Tokens
    BY <1>1, <2>1, IssuedOK
  <2> QED BY <1>1, <1>4, <2>2 DEF Answered, Receives
<1> QED BY <1>2, <1>3, <1>4 DEF Issuing

LEMMA TasksKept ==
    ASSUME TypeInv, NEW t \in Tasks, Step(t)
    PROVE  TasksOK'
<1>1. /\ TasksOK /\ ServerOK /\ StoreOK
      /\ Len(issued) \in Nat
      /\ CallOK(task[t], Len(issued))
      /\ CallOK(Idle, Len(issued))
      /\ task[t].pc \in PairSteps => task[t].pair # 0
  BY LenIssued, IdleOK DEF TypeInv, TasksOK, ServerOK, CallOK
<1>2. Steps \ PairSteps =
        {"idle", "readStore", "verify", "check", "stale", "waiting", "refresh",
         "attach", "reattach", "sent", "readKept", "wipe", "restore", "expire",
         "leave", "logout", "forget", "keepRole"}
  BY DEF Steps, PairSteps
<1>3. ASSUME CheckExpiry(t) PROVE TasksOK'
  BY <1>1, <1>2, <1>3, OneGoes DEF CheckExpiry, server
<1>4. ASSUME RefreshFirst(t) PROVE TasksOK'
  BY <1>1, <1>4, OneJoins DEF RefreshFirst, server, CallOK, CallsOfTasks
<1>5. ASSUME Attach(t) PROVE TasksOK'
  <2> DEFINE pc == IF At(t, "attach") /\ task[t].refused THEN "reattach" ELSE "sent"
             c  == [task[t] EXCEPT !.token = store.access, !.pc = pc]
  <2>1. store.access \in 0 .. Len(issued) /\ store.access \in Tokens
    BY <1>1, LenIssued DEF StoreOK
  <2>2. pc \in Steps \ PairSteps
    BY <1>2
  <2>3. task' = [task EXCEPT ![t] = c]
    BY <1>1, <1>5 DEF Attach, At
  <2> HIDE DEF pc
  <2>4. CallOK(c, Len(issued))
    BY <1>1, <2>1, <2>2 DEF CallOK, CallsOfTasks
  <2> HIDE DEF c
  <2> QED BY <1>1, <1>5, <2>3, <2>4, OneBecomes DEF Attach, server
<1>6. ASSUME SendBare(t) PROVE TasksOK'
  BY <1>1, <1>2, <1>6, OneGoes DEF SendBare, server
<1>7. ASSUME Answered(t), t # "signIn" PROVE TasksOK'
  <2>1. UNCHANGED issued /\ task[t].token # 0
    BY <1>1, <1>7 DEF Answered, Known, server, ServerOK
  <2>2. CASE Done(t)
    BY <1>1, <2>1, <2>2, OneIsDone
  <2>3. CASE task' = [task EXCEPT ![t].pc = "saveRole", ![t].pair = task[t].token]
    <3> DEFINE c == [task[t] EXCEPT !.pc = "saveRole", !.pair = task[t].token]
    <3>1. task' = [task EXCEPT ![t] = c]
      BY <2>3
    <3>2. CallOK(c, Len(issued))
      BY <1>1, <2>1, CallSetsUp
    <3> HIDE DEF c
    <3> QED BY <1>1, <2>1, <3>1, <3>2, OneBecomes
  <2> QED BY <1>7, <2>2, <2>3 DEF Answered
<1>8. ASSUME Failed(t) PROVE TasksOK'
  BY <1>1, <1>8, OneIsDone DEF Failed, server
<1>9. ASSUME Unauthorized(t) PROVE TasksOK'
  <2>1. CASE task[t].refused
    BY <1>1, <1>2, <1>9, <2>1, OneGoes DEF Unauthorized, server
  <2>2. CASE ~task[t].refused
    BY <1>1, <1>9, <2>2, OneJoins DEF Unauthorized, server
  <2> QED BY <2>1, <2>2
<1>10. ASSUME ReadRefreshToken(t) PROVE TasksOK'
  <2>1. CASE store.refresh = 0
    BY <1>1, <1>10, <2>1, OneFinishes DEF ReadRefreshToken, server
  <2>2. CASE store.refresh # 0
    <3> DEFINE c == [task[t] EXCEPT !.pc = "posting", !.pair = store.refresh]
    <3>1. /\ store.refresh \in 0 .. Len(issued) /\ store.refresh \in Tokens
          /\ "posting" \in Steps
      BY <1>1, LenIssued DEF StoreOK, Steps
    <3>2. c \in CallsOfTasks
      BY <1>1, <3>1 DEF CallOK, CallsOfTasks
    <3>3. c.pair = store.refresh /\ c.token = task[t].token
      BY <1>1 DEF CallOK, CallsOfTasks
    <3>4. CallOK(c, Len(issued))
      BY <1>1, <2>2, <3>1, <3>2, <3>3 DEF CallOK
    <3>5. task' = [task EXCEPT ![t] = c]
      BY <1>10, <2>2 DEF ReadRefreshToken
    <3> HIDE DEF c
    <3> QED BY <1>1, <1>10, <3>4, <3>5, OneBecomes DEF ReadRefreshToken, server
  <2> QED BY <2>1, <2>2
<1>11. ASSUME Refused(t) PROVE TasksOK'
  BY <1>1, <1>11, OneFinishes DEF Refused, server
<1>12. ASSUME RefreshFails(t) PROVE TasksOK'
  BY <1>1, <1>12, OneFinishes DEF RefreshFails
<1>13. ASSUME SaveAccess(t) PROVE TasksOK'
  <2>1. "saveRefresh" \in Steps /\ task[t].pair # 0
    BY <1>1, <1>13 DEF Steps, SaveAccess, At, PairSteps
  <2> QED BY <1>1, <1>13, <2>1, OneGoes DEF SaveAccess, server
<1>14. ASSUME SaveRefresh(t) PROVE TasksOK'
  <2>1. "saveExpiry" \in Steps /\ task[t].pair # 0
    BY <1>1, <1>14 DEF Steps, SaveRefresh, At, PairSteps
  <2> QED BY <1>1, <1>14, <2>1, OneGoes DEF SaveRefresh, server
<1>15. ASSUME SaveExpiry(t) PROVE TasksOK'
  <2>1. "saveRole" \in Steps /\ task[t].pair # 0
    BY <1>1, <1>15 DEF Steps, SaveExpiry, At, PairSteps
  <2>2. UNCHANGED issued
    BY <1>15 DEF SaveExpiry, server
  <2>3. CASE task[t].next = "refreshed"
    BY <1>1, <1>15, <2>2, <2>3, OneFinishes DEF SaveExpiry
  <2>4. CASE task[t].next = "saveRole"
    BY <1>1, <1>15, <2>1, <2>2, <2>4, OneGoes DEF SaveExpiry
  <2>5. CASE task[t].next = "idle"
    BY <1>1, <1>15, <2>2, <2>5, OneIsDone DEF SaveExpiry
  <2> QED BY <1>1, <2>3, <2>4, <2>5 DEF CallOK, CallsOfTasks
<1>16. ASSUME ReadKept(t) PROVE TasksOK'
  <2> DEFINE c == [task[t] EXCEPT !.pc = "wipe", !.role = store.role]
  <2>1. store.role \in BOOLEAN
    BY <1>1 DEF StoreOK
  <2>2. c \in CallsOfTasks
    BY <1>1, <1>2, <2>1 DEF CallOK, CallsOfTasks
  <2>3. c.pc = "wipe" /\ c.pair = task[t].pair /\ c.token = task[t].token
    BY <1>1 DEF CallOK, CallsOfTasks
  <2>4. CallOK(c, Len(issued))
    BY <1>1, <1>2, <2>2, <2>3 DEF CallOK
  <2>5. task' = [task EXCEPT ![t] = c]
    BY <1>16 DEF ReadKept
  <2> HIDE DEF c
  <2> QED BY <1>1, <1>16, <2>4, <2>5, OneBecomes DEF ReadKept, server
<1>17. ASSUME Wipe(t) PROVE TasksOK'
  BY <1>1, <1>2, <1>17, OneGoes DEF Wipe, server
<1>18. \A pc \in {"expire", "check"} :
          CallOK([Idle EXCEPT !.pc = pc, !.late = task[t].late], Len(issued))
  <2> SUFFICES ASSUME NEW pc \in {"expire", "check"}
               PROVE  CallOK([Idle EXCEPT !.pc = pc, !.late = task[t].late], Len(issued))
    OBVIOUS
  <2>1. CallOK([Idle EXCEPT !.pc = pc], Len(issued))
    BY <1>1, <1>2, CallGoes
  <2>2. task[t].late \in BOOLEAN
    BY <1>1 DEF CallOK, CallsOfTasks
  <2>3. [[Idle EXCEPT !.pc = pc] EXCEPT !.late = task[t].late]
           = [Idle EXCEPT !.pc = pc, !.late = task[t].late]
    OBVIOUS
  <2> QED BY <1>1, <2>1, <2>2, <2>3, CallIsLate
<1>19. ASSUME Restore(t) PROVE TasksOK'
  BY <1>1, <1>18, <1>19, OneBecomes DEF Restore, server
<1>20. ASSUME WipeAgain(t) PROVE TasksOK'
  BY <1>1, <1>2, <1>20, CallGoes, OneEnds DEF WipeAgain, server
<1>21. ASSUME Leave(t) PROVE TasksOK'
  BY <1>1, <1>21, OneEnds DEF Leave, server
<1>22. ASSUME ReadStore(t) PROVE TasksOK'
  <2>1. UNCHANGED issued
    BY <1>22 DEF ReadStore, server
  <2>2. Goto(t, "check") \/ Done(t)
    BY <1>22 DEF ReadStore
  <2> QED BY <1>1, <1>2, <2>1, <2>2, OneGoes, OneIsDone
<1>23. ASSUME Denied(t) PROVE TasksOK'
  <2>1. CASE task[t].refused
    BY <1>1, <1>2, <1>23, <2>1, OneGoes DEF Denied, server
  <2>2. CASE ~task[t].refused
    BY <1>1, <1>23, <2>2, OneJoins DEF Denied, server
  <2> QED BY <2>1, <2>2
<1>24. ASSUME SaveRole(t) \/ Show(t) PROVE TasksOK'
  <2>1. UNCHANGED issued
    BY <1>24 DEF SaveRole, Show, server
  <2>2. CASE SaveRole(t)
    <3>1. "show" \in Steps /\ task[t].pair # 0
      BY <1>1, <2>2 DEF Steps, SaveRole, At, PairSteps
    <3> QED BY <1>1, <2>1, <2>2, <3>1, OneGoes DEF SaveRole
  <2>3. CASE Show(t)
    <3>1. Done(t) \/ task' = [task EXCEPT ![t] = [Idle EXCEPT !.pc = "check", !.late = task[t].late]]
      BY <2>3 DEF Show
    <3> QED BY <1>1, <1>18, <2>1, <3>1, OneBecomes, OneIsDone
  <2> QED BY <1>24, <2>2, <2>3
<1>29. ASSUME VerifyAgain(t) PROVE TasksOK'
  BY <1>1, <1>2, <1>29, OneGoes DEF VerifyAgain, server
<1>30. ASSUME VerifyFails(t) PROVE TasksOK'
  BY <1>1, <1>30, OneIsDone DEF VerifyFails, server
<1>25. ASSUME WipeAll(t) PROVE TasksOK'
  BY <1>1, <1>2, <1>25, CallGoes, OneEnds DEF WipeAll, server
<1>26. ASSUME Forget(t) PROVE TasksOK'
  BY <1>1, <1>2, <1>26, CallGoes, OneEnds DEF Forget, server
<1>27. ASSUME KeepRole(t) PROVE TasksOK'
  BY <1>1, <1>27, OneIsDone DEF KeepRole, server
<1>28. ASSUME Issuing(t) PROVE TasksOK'
  <2>1. PICK session \in Tokens, from \in 0 .. Len(issued) :
              /\ Issue(session, from)
              /\ \E next \in {"idle", "saveRole", "refreshed"} : Receives(t, next)
              /\ UNCHANGED <<limits, replaced>>
    BY <1>28, StepIssues
  <2>2. Len(issued)' = New /\ New \in Tokens
    BY <1>1, <2>1, Issued
  <2> QED BY <1>1, <2>1, <2>2, OneReceives
<1> QED BY <1>3, <1>4, <1>5, <1>6, <1>7, <1>8, <1>9, <1>10, <1>11, <1>12, <1>13,
           <1>14, <1>15, <1>16, <1>17, <1>19, <1>20, <1>21, <1>22, <1>23, <1>24,
           <1>25, <1>26, <1>27, <1>28, <1>29, <1>30 DEF Step, Issuing

LEMMA ServerKept ==
    ASSUME TypeInv, NEW t \in Tasks, Step(t)
    PROVE  /\ ServerOK'
           /\ Len(issued)' \in {Len(issued), Len(issued) + 1}
<1>1. CASE UNCHANGED <<server, limits, replaced>>
  BY <1>1 DEF TypeInv, ServerOK, server, limits
<1>2. CASE Issuing(t)
  BY <1>2, StepIssues, Issued DEF TypeInv, New
<1>3. CASE SaveRefresh(t)
  <2>1. task[t].pair \in 1 .. Len(issued)
    BY <1>3 DEF SaveRefresh, At, TypeInv, TasksOK, CallOK, PairSteps
  <2>2. {issued[task[t].pair].from} \ {0} \subseteq 1 .. Len(issued)
    BY <2>1, IssuedOK DEF TypeInv
  <2>3. UNCHANGED <<issued, live, expired, lapsed, settled>>
    BY <1>3 DEF SaveRefresh, server, limits
  <2>4. replaced' \subseteq 1 .. Len(issued)
    BY <1>3, <2>2 DEF SaveRefresh, TypeInv, ServerOK
  <2> QED BY <2>3, <2>4 DEF TypeInv, ServerOK
<1>4. CASE RefreshFails(t)
  BY <1>4 DEF RefreshFails, TypeInv, ServerOK
<1> QED BY <1>1, <1>2, <1>3, <1>4
        DEF Step, CheckExpiry, RefreshFirst, Attach, SendBare, Answered, Failed,
            Unauthorized, ReadRefreshToken, Refused, SaveAccess, SaveExpiry,
            ReadKept, Wipe, Restore, WipeAgain, Leave, ReadStore, Denied, VerifyAgain, VerifyFails,
            SaveRole, Show, WipeAll, Forget, KeepRole, Issuing

LEMMA StoreKept ==
    ASSUME TypeInv, NEW t \in Tasks, Step(t)
    PROVE  StoreOK'
<1> DEFINE N == 0 .. Len(issued)
           S == [access : N, refresh : N, expiry : {"none", "later", "past"},
                 role : BOOLEAN]
           A == [status : {"unknown", "authenticated", "unauthenticated"},
                 session : Tokens]
<1>1. /\ store \in S /\ app \in A
      /\ Len(issued) \in Nat
      /\ task[t].pair \in N /\ task[t].pair \in Tokens /\ task[t].role \in BOOLEAN
  BY LenIssued DEF TypeInv, StoreOK, TasksOK, CallOK, CallsOfTasks
<1>2. Empty \in S /\ SignedOut \in A
  BY <1>1, ClientAssumption DEF Empty, SignedOut, Tokens
<1>3. \A k \in 1 .. Len(issued) : issued[k].session \in Tokens
  BY IssuedOK DEF TypeInv
<1>4. store' \in S
  <2>1. CASE UNCHANGED store \/ store' = Empty
    BY <1>1, <1>2, <2>1
  <2>2. CASE \/ store' = [store EXCEPT !.access = task[t].pair]
             \/ store' = [store EXCEPT !.refresh = task[t].pair]
    BY <1>1, <2>2
  <2>3. CASE \/ store' = [store EXCEPT !.expiry = "later"]
             \/ store' = [store EXCEPT !.role = @ \/ task[t].role]
             \/ store' = [store EXCEPT !.role = TRUE]
    BY <1>1, <2>3
  <2> HIDE DEF S
  <2> QED BY <2>1, <2>2, <2>3
          DEF Step, CheckExpiry, RefreshFirst, Attach, SendBare, Answered, Failed,
              Unauthorized, ReadRefreshToken, Rotated, Refused, RefreshFails,
              SaveAccess, SaveRefresh, SaveExpiry, ReadKept, Wipe, Restore,
              WipeAgain, Leave, ReadStore, Verified, Denied, VerifyAgain, VerifyFails, SaveRole, Show, WipeAll,
              Forget, KeepRole, Save
<1>5. app' \in A
  <2>1. CASE UNCHANGED app \/ app' = SignedOut
    BY <1>1, <1>2, <2>1
  <2>2. ASSUME NEW k \in 1 .. Len(issued),
               app' = [status |-> "authenticated", session |-> issued[k].session]
        PROVE  app' \in A
    BY <1>3, <2>2
  <2>3. Answered(t) => task[t].token \in 1 .. Len(issued)
    BY DEF Answered, Known, TypeInv, ServerOK, TasksOK, CallOK
  <2>4. Show(t) => task[t].pair \in 1 .. Len(issued)
    BY DEF Show, At, TypeInv, TasksOK, CallOK, PairSteps
  <2>5. CASE Answered(t)
    BY <2>1, <2>2, <2>3, <2>5 DEF Answered
  <2>6. CASE Show(t)
    BY <2>2, <2>4, <2>6 DEF Show
  <2> HIDE DEF A
  <2> QED BY <2>1, <2>5, <2>6
          DEF Step, CheckExpiry, RefreshFirst, Attach, SendBare, Failed,
              Unauthorized, ReadRefreshToken, Rotated, Refused, RefreshFails,
              SaveAccess, SaveRefresh, SaveExpiry, ReadKept, Wipe, Restore,
              WipeAgain, Leave, ReadStore, Verified, Denied, VerifyAgain, VerifyFails,
              SaveRole, WipeAll,
              Forget, KeepRole, Told
<1>6. Len(issued)' \in {Len(issued), Len(issued) + 1}
  BY ServerKept
<1>7. N \subseteq 0 .. Len(issued)'
  BY <1>1, <1>6
<1>8. store' \in [access : 0 .. Len(issued)', refresh : 0 .. Len(issued)',
                  expiry : {"none", "later", "past"}, role : BOOLEAN]
  BY <1>4, <1>7
<1> QED BY <1>5, <1>8 DEF StoreOK

LEMMA Spent ==
    ASSUME budget \in 0 .. MaxBudget, Spend
    PROVE  budget' \in 0 .. MaxBudget
BY ClientAssumption DEF Spend

LEMMA CountsKept ==
    ASSUME TypeInv, NEW t \in Tasks, Step(t), Meddling(t)
    PROVE  CountsOK'
<1>0. task[t].next \in {"idle", "saveRole", "refreshed"}
  BY DEF TypeInv, TasksOK, CallOK, CallsOfTasks
<1>1. refreshing' \in {refreshing, t, Nobody}
  BY <1>0 DEF Step, CheckExpiry, RefreshFirst, Attach, SendBare, Answered, Failed,
         Unauthorized, ReadRefreshToken, Rotated, Refused, RefreshFails,
         SaveAccess, SaveRefresh, SaveExpiry, ReadKept, Wipe, Restore,
         WipeAgain, Leave, ReadStore, Verified, Denied, VerifyAgain, VerifyFails, SaveRole, Show, WipeAll,
         Forget, KeepRole, Join, Finish
<1>2. \/ UNCHANGED <<budget, faulty, torn>>
      \/ (Spend \/ UNCHANGED budget) /\ faulty' = TRUE /\ UNCHANGED torn
  BY DEF Step, CheckExpiry, RefreshFirst, Attach, SendBare, Answered, Failed,
         Unauthorized, ReadRefreshToken, Rotated, Refused, RefreshFails,
         SaveAccess, SaveRefresh, SaveExpiry, ReadKept, Wipe, Restore,
         WipeAgain, Leave, ReadStore, Verified, Denied, VerifyAgain, VerifyFails, SaveRole, Show, WipeAll,
         Forget, KeepRole, limits
<1>3. budget' \in 0 .. MaxBudget /\ faulty' \in BOOLEAN /\ torn' \in BOOLEAN
  BY <1>2, Spent DEF TypeInv, CountsOK
<1>4. meddled' \in BOOLEAN
  BY DEF Meddling, TypeInv, CountsOK
<1> QED BY <1>1, <1>3, <1>4 DEF TypeInv, CountsOK

(* Calls that begin, a kill, and the passing of time.                      *)
Other == \/ \E s \in Screens : Request(s)
         \/ SignIn \/ LogOut \/ Kill \/ ExpiryComes \/ TokensExpire
         \/ RefreshTokensLapse

LEMMA TypeKeptByOthers ==
    ASSUME TypeInv, Other, UNCHANGED meddled
    PROVE  TypeInv'
<1>1. /\ TasksOK /\ ServerOK /\ StoreOK /\ CountsOK
      /\ Len(issued) \in Nat
      /\ CallOK(Idle, Len(issued))
  BY LenIssued, IdleOK DEF TypeInv, ServerOK
<1>2. UNCHANGED issued
  BY DEF Other, Request, SignIn, LogOut, Kill, ExpiryComes, TokensExpire, RefreshTokensLapse, server
<1>3. Len(issued)' = Len(issued)
  BY <1>2
<1>4. \A t \in Tasks : Begin(t) => settled' \in 0 .. Len(issued)
  BY <1>1 DEF Begin, ServerOK
<1>5. {"readStore", "check", "verify", "logout"} \subseteq Steps \ PairSteps
  BY DEF Steps, PairSteps
<1>6. Screens \subseteq Tasks /\ {"init", "signIn", "logout"} \subseteq Tasks
  BY DEF Tasks
<1>7. TasksOK'
  <2>1. CASE \E s \in Screens : Request(s)
    BY <1>1, <1>2, <1>5, <1>6, <2>1, OneGoes DEF Request
  <2>2. CASE LogOut
    BY <1>1, <1>2, <1>5, <1>6, <2>2, OneGoes DEF LogOut
  <2>3. CASE SignIn
    <3>1. CallOK([Idle EXCEPT !.pc = "verify", !.public = TRUE], Len(issued))
      <4>1. [Idle EXCEPT !.pc = "verify", !.public = TRUE]
               = [[Idle EXCEPT !.pc = "verify"] EXCEPT !.public = TRUE]
        OBVIOUS
      <4>2. CallOK([Idle EXCEPT !.pc = "verify"], Len(issued))
        BY <1>1, <1>5, CallGoes
      <4> QED BY <4>1, <4>2 DEF CallOK, CallsOfTasks
    <3> QED BY <1>1, <1>2, <1>6, <2>3, <3>1, OneOvertakes DEF SignIn
  <2>4. CASE Kill
    <3>1. CallOK([Idle EXCEPT !.pc = "readStore"], Len(issued))
      BY <1>1, <1>5, CallGoes
    <3> QED BY <1>1, <1>3, <2>4, <3>1 DEF Kill, Started, TasksOK
  <2>5. CASE UNCHANGED task
    BY <1>1, <1>3, <2>5 DEF TasksOK
  <2> QED BY <2>1, <2>2, <2>3, <2>4, <2>5 DEF Other, ExpiryComes, TokensExpire, RefreshTokensLapse
<1>8. StoreOK'
  <2>1. /\ store \in [access : 0 .. Len(issued), refresh : 0 .. Len(issued),
                      expiry : {"none", "later", "past"}, role : BOOLEAN]
        /\ app \in [status : {"unknown", "authenticated", "unauthenticated"},
                    session : Tokens]
        /\ 0 \in Tokens
    BY <1>1, LenIssued DEF StoreOK
  <2>2. store' \in {store, [store EXCEPT !.role = TRUE], [store EXCEPT !.expiry = "past"]}
    BY DEF Other, Request, SignIn, LogOut, Kill, ExpiryComes, TokensExpire, RefreshTokensLapse, Save
  <2>3. store' \in [access : 0 .. Len(issued), refresh : 0 .. Len(issued),
                    expiry : {"none", "later", "past"}, role : BOOLEAN]
    BY <2>1, <2>2
  <2>4. app' \in {app, [status |-> "unknown", session |-> 0]}
    BY DEF Other, Request, SignIn, LogOut, Kill, ExpiryComes, TokensExpire, RefreshTokensLapse
  <2>5. app' \in [status : {"unknown", "authenticated", "unauthenticated"},
                  session : Tokens]
    BY <2>1, <2>4
  <2> QED BY <1>3, <2>3, <2>5 DEF StoreOK
<1>9. ServerOK'
  <2>1. settled' \in 0 .. Len(issued)
    BY <1>1, <1>4, <1>6
       DEF Other, Request, SignIn, LogOut, Kill, ExpiryComes, TokensExpire, RefreshTokensLapse,
           limits, ServerOK
  <2>2. expired' \in 0 .. Len(issued) /\ lapsed' \in 0 .. expired'
    BY <1>1
       DEF Other, Request, SignIn, LogOut, Kill, ExpiryComes, TokensExpire, RefreshTokensLapse,
           server, ServerOK
  <2>3. UNCHANGED <<live, replaced>>
    BY DEF Other, Request, SignIn, LogOut, Kill, ExpiryComes, TokensExpire, RefreshTokensLapse, server
  <2> QED BY <1>1, <1>2, <1>3, <2>1, <2>2, <2>3 DEF ServerOK
<1>10. CountsOK'
  <2>1. budget' \in 0 .. MaxBudget /\ faulty' \in BOOLEAN /\ torn' \in BOOLEAN
    BY <1>1, Spent
       DEF Other, Request, SignIn, LogOut, Kill, ExpiryComes, TokensExpire, RefreshTokensLapse,
           Begin, limits, CountsOK
  <2>2. refreshing' \in {refreshing, Nobody}
    BY DEF Other, Request, SignIn, LogOut, Kill, ExpiryComes, TokensExpire, RefreshTokensLapse
  <2> QED BY <1>1, <2>1, <2>2 DEF CountsOK
<1> QED BY <1>7, <1>8, <1>9, <1>10 DEF TypeInv

LEMMA TypeAtFirst == Init => TypeInv
<1> SUFFICES ASSUME Init PROVE TypeInv
  OBVIOUS
<1>1. Len(issued) = 0 /\ issued \in Seq([session : Tokens, from : Tokens])
  BY DEF Init
<1>2. CallOK(Idle, 0) /\ CallOK([Idle EXCEPT !.pc = "readStore"], 0)
  <2>1. "readStore" \in Steps \ PairSteps
    BY DEF Steps, PairSteps
  <2> QED BY <2>1, IdleOK, CallGoes, ClientAssumption
<1>3. TasksOK
  BY <1>1, <1>2 DEF Init, Started, TasksOK
<1>4. StoreOK
  BY <1>1, ClientAssumption DEF Init, Empty, StoreOK, Tokens
<1>5. ServerOK
  BY <1>1, ClientAssumption DEF Init, ServerOK
<1>6. CountsOK
  <2>1. MaxBudget \in 0 .. MaxBudget
    BY ClientAssumption
  <2> QED BY <2>1 DEF Init, CountsOK
<1> QED BY <1>3, <1>4, <1>5, <1>6 DEF TypeInv

LEMMA StepOrOther ==
    ASSUME [Next]_vars
    PROVE  \/ \E t \in Tasks : Step(t) /\ Meddling(t)
           \/ Other /\ UNCHANGED meddled
           \/ UNCHANGED vars
BY DEF Next, Other

LEMMA TypeInvKept == TypeInv /\ [Next]_vars => TypeInv'
<1> SUFFICES ASSUME TypeInv, [Next]_vars PROVE TypeInv'
  OBVIOUS
<1>1. CASE \E t \in Tasks : Step(t) /\ Meddling(t)
  BY <1>1, TasksKept, StoreKept, ServerKept, CountsKept DEF TypeInv
<1>2. CASE Other /\ UNCHANGED meddled
  BY <1>2, TypeKeptByOthers
<1>3. CASE UNCHANGED vars
  BY <1>3 DEF vars, server, limits, TypeInv, TasksOK, StoreOK, ServerOK, CountsOK
<1> QED BY <1>1, <1>2, <1>3, StepOrOther

(* The calls' locals, the stored tokens and the numbers of the pairs stay  *)
(* in their ranges.                                                        *)
THEOREM TypeCorrect == Spec => []TypeOK
<1>1. TypeInv => TypeOK
  BY TypeInvImpliesTypeOK
<1> QED BY <1>1, TypeAtFirst, TypeInvKept, PTL DEF Spec
-----------------------------------------------------------------------------
(* One call at a time is in _doRefresh.                                    *)
Storing(t) == task[t].pc \in {"saveAccess", "saveRefresh", "saveExpiry"}

InRefresh(t) == \/ task[t].pc \in {"refresh", "posting"}
                \/ Storing(t) /\ task[t].next = "refreshed"

OneRefresh == \A t \in Tasks : InRefresh(t) => refreshing = t

(* A pair that is still to be stored is known to its call alone.           *)
Unsaved(t) == task[t].pc \in {"saveAccess", "saveRefresh"}

Unknown(n) ==
    /\ n # store.refresh
    /\ \A s \in Tasks : At(s, "posting") => task[s].pair # n
    /\ \A k \in 1 .. Len(issued) : issued[k].from # n

UnsavedFresh ==
    \A t \in Tasks : Unsaved(t) =>
        /\ Unknown(task[t].pair)
        /\ task[t].next # "refreshed" => issued[task[t].pair].from = 0
        /\ \A s \in Tasks \ {t} : Unsaved(s) => task[s].pair # task[t].pair

SpentOnes ==
    /\ store.refresh \notin replaced
    /\ \A n \in replaced : \E k \in 1 .. Len(issued) : issued[k].from = n

RefreshInv ==
    TypeInv /\ OneRefresh /\ UnsavedFresh /\ SpentOnes /\ NotPresentedAgain

Same(t) ==
    /\ task'[t].pc = task[t].pc
    /\ task'[t].pair = task[t].pair
    /\ task'[t].next = task[t].next

Busy == {"waiting", "refresh", "posting", "saveAccess", "saveRefresh", "saveExpiry"}

Quiet == Steps \ Busy

Finishes(t) == \E ok \in BOOLEAN : Finish(t, ok)

(* What a step does to the calls of the other tasks.                       *)
LEMMA OthersStay ==
    ASSUME TypeInv, NEW t \in Tasks, Step(t), NEW s \in Tasks, s # t
    PROVE  Same(s) \/ (task'[s].pc \in Quiet /\ refreshing' = Nobody)
<1>1. task = [u \in Tasks |-> task[u]]
  BY DEF TypeInv, TasksOK
<1>2. ASSUME NEW c, task' = [task EXCEPT ![t] = c] PROVE Same(s)
  BY <1>1, <1>2 DEF Same
<1>3. ASSUME NEW c, End(t, c) PROVE Same(s)
  <2>1. CASE Overtake(t, c)
    BY <1>1, <2>1 DEF Same, Overtake, TypeInv, TasksOK, CallOK, CallsOfTasks
  <2> QED BY <1>2, <1>3, <2>1 DEF End
<1>4. ASSUME NEW refused, Join(t, refused) PROVE Same(s)
  BY <1>1, <1>4 DEF Same, Join
<1>5. ASSUME NEW ok \in BOOLEAN, Finish(t, ok)
      PROVE  Same(s) \/ (task'[s].pc \in Quiet /\ refreshing' = Nobody)
  <2>1. AfterRefresh(ok) \in Quiet
    BY DEF AfterRefresh, Quiet, Busy, Steps
  <2>2. CASE At(s, "waiting")
    BY <1>5, <2>1, <2>2 DEF Finish, TypeInv, TasksOK, CallOK, CallsOfTasks
  <2>3. CASE ~At(s, "waiting")
    BY <1>5, <2>3 DEF Finish, Same
  <2> QED BY <2>2, <2>3
<1>6. CASE WipeAgain(t) \/ Leave(t) \/ WipeAll(t) \/ Forget(t)
  BY <1>3, <1>6 DEF WipeAgain, Leave, WipeAll, Forget
<1>7. CASE RefreshFirst(t) \/ Unauthorized(t) \/ Denied(t)
  BY <1>1, <1>4, <1>7 DEF RefreshFirst, Unauthorized, Denied, Goto, Same
<1>8. CASE Refused(t) \/ RefreshFails(t)
  BY <1>5, <1>8 DEF Refused, RefreshFails
<1>9. CASE ReadRefreshToken(t)
  <2>1. CASE store.refresh = 0
    BY <1>5, <1>9, <2>1 DEF ReadRefreshToken
  <2>2. CASE store.refresh # 0
    BY <1>1, <1>9, <2>2 DEF ReadRefreshToken, Same
  <2> QED BY <2>1, <2>2
<1>10. CASE SaveExpiry(t)
  <2>1. CASE task[t].next = "refreshed"
    BY <1>5, <1>10, <2>1 DEF SaveExpiry
  <2>2. CASE task[t].next = "saveRole"
    BY <1>1, <1>10, <2>2 DEF SaveExpiry, Goto, Same
  <2>3. CASE task[t].next = "idle"
    BY <1>1, <1>10, <2>3 DEF SaveExpiry, Done, Same
  <2> QED BY <2>1, <2>2, <2>3 DEF TypeInv, TasksOK, CallOK, CallsOfTasks
<1>11. CASE Issuing(t)
  BY <1>1, <1>11, StepIssues DEF Receives, Same
<1>12. CASE \/ CheckExpiry(t) \/ SendBare(t) \/ SaveAccess(t) \/ SaveRefresh(t)
            \/ Wipe(t) \/ ReadStore(t) \/ VerifyAgain(t) \/ SaveRole(t)
  BY <1>1, <1>12
     DEF CheckExpiry, SendBare, SaveAccess, SaveRefresh, Wipe, ReadStore,
         VerifyAgain, SaveRole, Goto, Done, Same
<1>13. CASE Attach(t) \/ ReadKept(t)
  BY <1>1, <1>13 DEF Attach, ReadKept, Same
<1>14. CASE \/ Answered(t) /\ t # "signIn"
            \/ Failed(t) \/ VerifyFails(t) \/ KeepRole(t) \/ Show(t) \/ Restore(t)
  BY <1>1, <1>14
     DEF Answered, Failed, VerifyFails, KeepRole, Show, Restore, Done, Same
<1> QED BY <1>6, <1>7, <1>8, <1>9, <1>10, <1>11, <1>12, <1>13, <1>14
        DEF Step, Issuing

(* What a step does to its own call: nothing that concerns a refresh, ...  *)
Apart(t) ==
    /\ task'[t].pc \in Quiet
    /\ IF InRefresh(t) THEN Finishes(t) ELSE refreshing' = refreshing
    /\ UNCHANGED <<issued, replaced>>
    /\ store'.refresh \in {store.refresh, 0}

(* ... or the step after a refresh was asked for, and one of those that    *)
(* follow it.                                                              *)
Asks(t) ==
    /\ ~InRefresh(t)
    /\ IF refreshing = Nobody
       THEN refreshing' = t /\ task'[t].pc = "refresh"
       ELSE refreshing' = refreshing /\ task'[t].pc = "waiting"
    /\ UNCHANGED <<issued, replaced, store>>

Presents(t) ==
    /\ At(t, "refresh")
    /\ task'[t].pc = "posting" /\ task'[t].pair = store.refresh
    /\ UNCHANGED <<issued, replaced, store, refreshing>>

Stores(t) ==
    /\ task'[t].pair = task[t].pair /\ task'[t].next = task[t].next
    /\ UNCHANGED <<issued, refreshing>>
    /\ \/ /\ At(t, "saveAccess") /\ task'[t].pc = "saveRefresh"
          /\ UNCHANGED replaced /\ store'.refresh = store.refresh
       \/ SaveRefresh(t) /\ task'[t].pc = "saveExpiry"
             /\ store'.refresh = task[t].pair

LEMMA StepShape ==
    ASSUME TypeInv, NEW t \in Tasks, Step(t)
    PROVE  Apart(t) \/ Asks(t) \/ Presents(t) \/ Stores(t) \/ Issuing(t)
<1>1. /\ task = [u \in Tasks |-> task[u]]
      /\ task[t] \in CallsOfTasks
      /\ store.access \in 0 .. Len(issued)
      /\ store \in [access : 0 .. Len(issued), refresh : 0 .. Len(issued),
                    expiry : {"none", "later", "past"}, role : BOOLEAN]
  BY DEF TypeInv, TasksOK, CallOK, StoreOK
<1>2. /\ "idle" \in Quiet /\ "saveRole" \in Quiet /\ "check" \in Quiet
      /\ "show" \in Quiet /\ "verify" \in Quiet
      /\ "attach" \in Quiet /\ "reattach" \in Quiet
      /\ "sent" \in Quiet /\ "readKept" \in Quiet /\ "wipe" \in Quiet
      /\ "restore" \in Quiet /\ "expire" \in Quiet /\ "leave" \in Quiet
      /\ "forget" \in Quiet /\ "keepRole" \in Quiet
  BY DEF Quiet, Busy, Steps
<1>3. ASSUME NEW pc \in Quiet, Goto(t, pc) PROVE task'[t].pc \in Quiet
  BY <1>1, <1>3 DEF Goto, CallsOfTasks
<1>4. ASSUME NEW c, c.pc \in Quiet, task' = [task EXCEPT ![t] = c]
       PROVE  task'[t].pc \in Quiet
  BY <1>1, <1>4
<1>5. Idle.pc \in Quiet
  BY <1>2 DEF Idle
<1>6. ASSUME Done(t) PROVE task'[t].pc \in Quiet
  BY <1>4, <1>5, <1>6 DEF Done
<1>7. CASE RefreshFirst(t) \/ Unauthorized(t) \/ Denied(t)
  <2>1. CASE \E refused : Join(t, refused) /\ UNCHANGED <<server, store, replaced>>
    BY <1>1, <1>7, <2>1
       DEF Join, Asks, server, RefreshFirst, Unauthorized, Denied, InRefresh,
           Storing, At, CallsOfTasks
  <2>2. CASE Goto(t, "readKept") /\ UNCHANGED <<server, store, replaced, refreshing>>
    BY <1>2, <1>3, <1>7, <2>2
       DEF Apart, server, RefreshFirst, Unauthorized, Denied, InRefresh, Storing, At
  <2> QED BY <1>7, <2>1, <2>2 DEF RefreshFirst, Unauthorized, Denied
<1>8. ASSUME NEW ok \in BOOLEAN, Finish(t, ok), InRefresh(t),
             UNCHANGED <<issued, replaced>>, store'.refresh = store.refresh
      PROVE  Apart(t)
  <2>1. AfterRefresh(ok) \in Quiet
    BY <1>2 DEF AfterRefresh
  <2> QED BY <1>1, <1>8, <2>1 DEF Finish, Finishes, Apart, CallsOfTasks
<1>9. CASE Refused(t) \/ RefreshFails(t)
  BY <1>8, <1>9 DEF Refused, RefreshFails, server, InRefresh, At
<1>10. CASE ReadRefreshToken(t)
  <2>1. CASE store.refresh = 0
    BY <1>8, <1>10, <2>1 DEF ReadRefreshToken, server, InRefresh, At
  <2>2. CASE store.refresh # 0
    BY <1>1, <1>10, <2>2 DEF ReadRefreshToken, Presents, server, CallsOfTasks
  <2> QED BY <2>1, <2>2
<1>11. CASE SaveExpiry(t)
  <2>1. store'.refresh = store.refresh /\ UNCHANGED <<issued, replaced>>
    BY <1>1, <1>11 DEF SaveExpiry, Save, server
  <2>2. CASE task[t].next = "refreshed"
    BY <1>8, <1>11, <2>1, <2>2 DEF SaveExpiry, InRefresh, Storing, At
  <2>3. CASE task[t].next = "saveRole"
    BY <1>1, <1>2, <1>11, <2>1, <2>3
       DEF SaveExpiry, Goto, Apart, CallsOfTasks, InRefresh, Storing, At
  <2>4. CASE task[t].next = "idle"
    BY <1>11, <1>6, <2>1, <2>4
       DEF SaveExpiry, Apart, InRefresh, Storing, At
  <2> QED BY <1>1, <2>2, <2>3, <2>4 DEF CallsOfTasks
<1>12. CASE SaveAccess(t)
  BY <1>1, <1>12 DEF SaveAccess, Save, Goto, Stores, server, CallsOfTasks
<1>13. CASE SaveRefresh(t)
  BY <1>1, <1>13 DEF SaveRefresh, Save, Goto, Stores, server, CallsOfTasks
<1>14. CASE WipeAgain(t) \/ Leave(t) \/ WipeAll(t) \/ Forget(t)
  <2>1. ASSUME NEW c, c.pc \in Quiet, End(t, c) PROVE task'[t].pc \in Quiet
    BY <1>1, <2>1 DEF End, Overtake
  <2>2. \A pc \in Quiet : [task[t] EXCEPT !.pc = pc].pc = pc
    BY <1>1 DEF CallsOfTasks
  <2>3. task'[t].pc \in Quiet
    BY <1>2, <1>14, <2>1, <2>2 DEF WipeAgain, Leave, WipeAll, Forget, Idle
  <2>4. store'.refresh \in {store.refresh, 0}
    BY <1>14 DEF WipeAgain, Leave, WipeAll, Forget, Save, Empty
  <2> QED BY <1>14, <2>3, <2>4
          DEF WipeAgain, Leave, WipeAll, Forget, Apart, server, InRefresh, Storing,
              At
<1>15. CASE \/ CheckExpiry(t) \/ SendBare(t) \/ Wipe(t) \/ ReadStore(t)
            \/ VerifyAgain(t) \/ SaveRole(t)
  <2>1. "stale" \in Quiet /\ "sent" \in Quiet
    BY DEF Quiet, Busy, Steps
  <2>2. task'[t].pc \in Quiet
    BY <1>2, <1>15, <1>3, <1>6, <2>1
       DEF CheckExpiry, SendBare, Wipe, ReadStore, VerifyAgain, SaveRole
  <2>3. store'.refresh \in {store.refresh, 0}
    BY <1>1, <1>15
       DEF CheckExpiry, SendBare, Wipe, ReadStore, VerifyAgain, SaveRole, Save, Empty
  <2> QED BY <1>15, <2>2, <2>3
          DEF CheckExpiry, SendBare, Wipe, ReadStore, VerifyAgain, SaveRole, Apart,
              server, InRefresh, Storing, At
<1>16. CASE Attach(t) \/ ReadKept(t)
  <2>1. task'[t].pc \in {"reattach", "sent", "wipe"}
    <3>1. CASE Attach(t)
      BY <1>1, <3>1 DEF Attach, CallsOfTasks
    <3>2. CASE ReadKept(t)
      BY <1>1, <3>2 DEF ReadKept, CallsOfTasks
    <3> QED BY <1>16, <3>1, <3>2
  <2> QED BY <1>2, <1>16, <2>1
          DEF Attach, ReadKept, Apart, server, InRefresh, Storing, At
<1>17. CASE \/ Answered(t) /\ t # "signIn"
            \/ Failed(t) \/ VerifyFails(t) \/ KeepRole(t) \/ Show(t) \/ Restore(t)
  <2>1. task'[t].pc \in Quiet
    <3>1. CASE Done(t)
      BY <1>6, <3>1
    <3>2. ASSUME NEW pc \in {"check", "expire"},
                 task' = [task EXCEPT ![t] = [Idle EXCEPT !.pc = pc, !.late = task[t].late]]
          PROVE  task'[t].pc \in Quiet
      BY <1>1, <1>2, <3>2 DEF Idle
    <3>3. CASE task' = [task EXCEPT ![t].pc = "saveRole", ![t].pair = task[t].token]
      BY <1>1, <1>2, <3>3 DEF CallsOfTasks
    <3> QED BY <1>17, <3>1, <3>2, <3>3
            DEF Answered, Failed, VerifyFails, KeepRole, Show, Restore
  <2>2. store'.refresh = store.refresh
    BY <1>1, <1>17 DEF Answered, Failed, VerifyFails, KeepRole, Show, Restore, Save
  <2> QED BY <1>17, <2>1, <2>2
          DEF Answered, Failed, VerifyFails, KeepRole, Show, Restore, Apart, server,
              InRefresh, Storing, At
<1> QED BY <1>7, <1>9, <1>10, <1>11, <1>12, <1>13, <1>14, <1>15, <1>16, <1>17
        DEF Step, Issuing

LEMMA OneRefreshKept ==
    ASSUME TypeInv, OneRefresh, NEW t \in Tasks, Step(t)
    PROVE  OneRefresh'
<1>1. \A s \in Tasks : s # Nobody
  BY ClientAssumption DEF Tasks, Nobody
<1>2. Quiet \cap Busy = {}
  BY DEF Quiet
<1>3. ASSUME NEW s \in Tasks, s # t, InRefresh(s)' PROVE refreshing' = s
  <2>1. Same(s)
    BY <1>2, <1>3, OthersStay DEF Busy, InRefresh, Storing
  <2>2. InRefresh(s) /\ refreshing = s
    BY <1>3, <2>1 DEF InRefresh, Storing, Same, OneRefresh
  <2>3. ~InRefresh(t) /\ s # Nobody
    BY <1>1, <1>3, <2>2 DEF OneRefresh
  <2> QED BY <2>2, <2>3, StepShape, StepIssues
          DEF Apart, Finishes, Finish, Asks, Presents, Stores
<1>4. ASSUME InRefresh(t)' PROVE refreshing' = t
  <2>1. CASE Apart(t)
    BY <1>2, <1>4, <2>1 DEF Busy, Apart, InRefresh, Storing
  <2>2. CASE Asks(t)
    BY <1>2, <1>4, <2>2 DEF Busy, Asks, InRefresh, Storing
  <2>3. CASE Presents(t)
    BY <2>3 DEF Presents, InRefresh, OneRefresh, At
  <2>4. CASE Stores(t)
    BY <1>4, <2>4 DEF Stores, SaveRefresh, InRefresh, Storing, OneRefresh, At
  <2>5. CASE Issuing(t)
    <3>1. PICK next \in {"idle", "saveRole", "refreshed"} :
             /\ Receives(t, next) /\ refreshing' = refreshing
             /\ next = "refreshed" => At(t, "posting")
      BY <2>5, StepIssues
    <3>2. task'[t].pc = "saveAccess" /\ task'[t].next = next
      BY <3>1 DEF Receives, TypeInv, TasksOK, CallOK, CallsOfTasks
    <3> QED BY <1>4, <3>1, <3>2 DEF InRefresh, OneRefresh, At
  <2> QED BY <2>1, <2>2, <2>3, <2>4, <2>5, StepShape
<1> QED BY <1>3, <1>4 DEF OneRefresh

LEMMA PairsKept ==
    ASSUME RefreshInv, NEW t \in Tasks, Step(t)
    PROVE  UnsavedFresh' /\ SpentOnes' /\ NotPresentedAgain'
<1>1. /\ Len(issued) \in Nat
      /\ store.refresh \in 0 .. Len(issued)
      /\ replaced \subseteq 1 .. Len(issued)
      /\ \A k \in 1 .. Len(issued) : issued[k].from < k
      /\ \A k \in 1 .. Len(issued) : issued[k].from \in 0 .. Len(issued)
  BY LenIssued, IssuedOK DEF RefreshInv, TypeInv, StoreOK, ServerOK
<1>2. \A s \in Tasks : Unsaved(s) \/ At(s, "posting") => task[s].pair \in 1 .. Len(issued)
  BY <1>1 DEF RefreshInv, TypeInv, TasksOK, CallOK, Unsaved, At, PairSteps
<1>3. /\ UnsavedFresh /\ SpentOnes /\ NotPresentedAgain /\ TypeInv
      /\ OneRefresh
  BY DEF RefreshInv
<1>4. Quiet \cap Busy = {}
  BY DEF Quiet
<1>5. \A s \in Tasks \ {t} :
         /\ Unsaved(s)' => Unsaved(s) /\ Same(s)
         /\ At(s, "posting")' => At(s, "posting") /\ Same(s)
  BY <1>3, <1>4, OthersStay DEF Busy, Unsaved, At, Same
<1>6. t \in Tasks /\ 0 \notin replaced
  BY <1>1
<1>7. CASE Apart(t) \/ Asks(t)
  <2>1. ~Unsaved(t)' /\ ~At(t, "posting")'
    BY <1>4, <1>7 DEF Busy, Apart, Asks, Unsaved, At
  <2>2. UNCHANGED <<issued, replaced>> /\ store'.refresh \in {store.refresh, 0}
    BY <1>7 DEF Apart, Asks
  <2>3. UnsavedFresh'
    BY <1>2, <1>3, <1>5, <2>1, <2>2 DEF UnsavedFresh, Unknown, Same
  <2>4. SpentOnes'
    BY <1>3, <1>6, <2>2 DEF SpentOnes
  <2>5. NotPresentedAgain'
    BY <1>3, <1>5, <2>1, <2>2 DEF NotPresentedAgain, Same
  <2> QED BY <2>3, <2>4, <2>5
<1>8. CASE Presents(t)
  <2>1. ~Unsaved(t)' /\ task'[t].pair = store.refresh
    BY <1>8 DEF Presents, Unsaved
  <2>2. UNCHANGED <<issued, replaced, store>>
    BY <1>8 DEF Presents
  <2>3. UnsavedFresh'
    BY <1>3, <1>5, <2>1, <2>2 DEF UnsavedFresh, Unknown, Same
  <2>4. SpentOnes'
    BY <1>3, <2>2 DEF SpentOnes
  <2>5. NotPresentedAgain'
    BY <1>3, <1>5, <2>1, <2>2 DEF NotPresentedAgain, SpentOnes, Same
  <2> QED BY <2>3, <2>4, <2>5
<1>9. CASE Stores(t) /\ At(t, "saveAccess")
  <2>1. /\ Unsaved(t) /\ Unsaved(t)' /\ ~At(t, "posting")'
        /\ task'[t].pair = task[t].pair /\ task'[t].next = task[t].next
        /\ UNCHANGED <<issued, replaced>> /\ store'.refresh = store.refresh
    BY <1>9 DEF Stores, SaveRefresh, Unsaved, At
  <2>2. UnsavedFresh'
    BY <1>3, <1>5, <2>1 DEF UnsavedFresh, Unknown, Same
  <2>3. SpentOnes' /\ NotPresentedAgain'
    BY <1>3, <1>5, <2>1 DEF SpentOnes, NotPresentedAgain, Same
  <2> QED BY <2>2, <2>3
<1>10. CASE Stores(t) /\ SaveRefresh(t)
  <2> DEFINE u   == task[t].pair
             old == issued[u].from
  <2>1. /\ Unsaved(t) /\ ~Unsaved(t)' /\ ~At(t, "posting")'
        /\ u \in 1 .. Len(issued)
        /\ store'.refresh = u
        /\ replaced' = replaced \cup ({old} \ {0})
        /\ UNCHANGED issued
    BY <1>2, <1>10 DEF Stores, SaveRefresh, Unsaved, At
  <2>2. /\ Unknown(u)
        /\ task[t].next # "refreshed" => old = 0
        /\ \A s \in Tasks \ {t} : Unsaved(s) => task[s].pair # u
    BY <1>3, <2>1 DEF UnsavedFresh
  <2>3. u \notin replaced /\ u # old
    BY <1>1, <1>3, <2>1, <2>2 DEF SpentOnes, Unknown
  <2>4. UnsavedFresh'
    BY <1>3, <1>5, <2>1, <2>2 DEF UnsavedFresh, Unknown, Same
  <2>5. SpentOnes'
    BY <1>3, <2>1, <2>3 DEF SpentOnes
  <2>6. ASSUME NEW s \in Tasks, At(s, "posting")' PROVE task'[s].pair \notin replaced'
    <3>1. s # t /\ At(s, "posting") /\ task'[s].pair = task[s].pair
      BY <1>5, <2>1, <2>6 DEF Same
    <3>2. task[s].pair \notin replaced
      BY <1>3, <3>1 DEF NotPresentedAgain
    <3>3. refreshing = s
      BY <1>3, <3>1 DEF OneRefresh, InRefresh, At
    <3>4. task[t].next # "refreshed"
      BY <1>3, <2>1, <3>1, <3>3 DEF OneRefresh, InRefresh, Storing, Unsaved
    <3> QED BY <2>1, <2>2, <3>1, <3>2, <3>4
  <2> QED BY <2>4, <2>5, <2>6 DEF NotPresentedAgain
<1>11. CASE Issuing(t)
  <2>1. PICK session \in Tokens, from \in 0 .. Len(issued),
                 next \in {"idle", "saveRole", "refreshed"} :
              /\ Issue(session, from)
              /\ Receives(t, next)
              /\ from = 0 \/ (At(t, "posting") /\ from = task[t].pair)
              /\ next = "refreshed" \/ from = 0
              /\ UNCHANGED <<limits, replaced, store, refreshing>>
    BY <1>3, <1>11, StepIssues
  <2>2. /\ Len(issued)' = New
        /\ \A n \in 1 .. Len(issued) : issued'[n] = issued[n]
        /\ issued'[New] = [session |-> session, from |-> from]
    BY <1>3, <2>1, Issued DEF TypeInv
  <2>3. New = Len(issued) + 1
    BY DEF New
  <2>4. /\ task'[t].pc = "saveAccess" /\ task'[t].pair = New /\ task'[t].next = next
    BY <1>3, <2>1 DEF Receives, TypeInv, TasksOK, CallOK, CallsOfTasks
  <2>5. \A k \in 1 .. Len(issued)' :
           issued'[k].from = IF k = New THEN from ELSE issued[k].from
    BY <1>1, <2>2, <2>3
  <2>6. UNCHANGED <<replaced, store>>
    BY <2>1
  <2> HIDE DEF New
  <2>7. ASSUME NEW s \in Tasks \ {t}, Unsaved(s)'
        PROVE  /\ Unknown(task[s].pair)'
               /\ task'[s].next # "refreshed" => issued'[task'[s].pair].from = 0
               /\ \A r \in Tasks \ {s} : Unsaved(r)' => task'[r].pair # task'[s].pair
    <3> DEFINE u == task[s].pair
    <3>1. /\ Unsaved(s) /\ task'[s].pair = u /\ task'[s].next = task[s].next
          /\ u \in 1 .. Len(issued)
      BY <1>2, <1>5, <2>7 DEF Same
    <3>2. /\ Unknown(u)
          /\ task[s].next # "refreshed" => issued[u].from = 0
          /\ \A r \in Tasks \ {s} : Unsaved(r) => task[r].pair # u
      BY <1>3, <3>1 DEF UnsavedFresh
    <3>3. u # store'.refresh
      BY <2>6, <3>2 DEF Unknown
    <3>4. \A r \in Tasks : At(r, "posting")' => task'[r].pair # u
      BY <1>5, <2>4, <3>2 DEF Unknown, Same, At
    <3>5. from # u
      BY <2>1, <3>1, <3>2 DEF Unknown
    <3>6. \A k \in 1 .. Len(issued)' : issued'[k].from # u
      BY <1>1, <2>2, <2>3, <2>5, <3>2, <3>5 DEF Unknown
    <3>7. Unknown(task[s].pair)'
      BY <3>1, <3>3, <3>4, <3>6 DEF Unknown
    <3>8. issued'[u].from = issued[u].from
      BY <2>2, <3>1
    <3>9. \A r \in Tasks \ {s} : Unsaved(r)' => task'[r].pair # u
      BY <1>1, <1>5, <2>3, <2>4, <3>1, <3>2 DEF Same
    <3> QED BY <3>1, <3>2, <3>7, <3>8, <3>9
  <2>8. /\ Unknown(task[t].pair)'
        /\ task'[t].next # "refreshed" => issued'[task'[t].pair].from = 0
        /\ \A r \in Tasks \ {t} : Unsaved(r)' => task'[r].pair # task'[t].pair
    <3>1. New # store'.refresh
      BY <1>1, <2>3, <2>6
    <3>2. \A r \in Tasks : At(r, "posting")' => task'[r].pair # New
      BY <1>1, <1>2, <1>5, <2>3, <2>4 DEF Same, At
    <3>3. \A k \in 1 .. Len(issued)' : issued'[k].from # New
      BY <1>1, <2>1, <2>2, <2>3, <2>5
    <3>4. \A r \in Tasks \ {t} : Unsaved(r)' => task'[r].pair # New
      BY <1>1, <1>2, <1>5, <2>3 DEF Same
    <3> QED BY <2>1, <2>2, <2>4, <3>1, <3>2, <3>3, <3>4 DEF Unknown
  <2>9. UnsavedFresh'
    BY <2>7, <2>8 DEF UnsavedFresh
  <2>10. SpentOnes'
    BY <1>1, <1>3, <2>2, <2>3, <2>5, <2>6 DEF SpentOnes
  <2>11. NotPresentedAgain'
    BY <1>3, <1>5, <2>4, <2>6 DEF NotPresentedAgain, Same, At
  <2> QED BY <2>9, <2>10, <2>11
<1> QED BY <1>3, <1>7, <1>8, <1>9, <1>10, <1>11, StepShape DEF Stores

(* What the other steps do: calls begin, and a kill ends all of them.      *)
Begins(t) ==
    \/ task'[t].pc \in {"idle", "readStore"} /\ Kill
    \/ /\ At(t, "idle") /\ task'[t].pc \in {"check", "verify", "logout"}
       /\ refreshing' = refreshing

LEMMA OthersBegin ==
    ASSUME TypeInv, Other, NEW t \in Tasks
    PROVE  Begins(t) \/ (Same(t) /\ refreshing' = refreshing)
<1>1. /\ task = [s \in Tasks |-> task[s]]
      /\ task[t] \in CallsOfTasks
  BY DEF TypeInv, TasksOK, CallOK
<1>2. CASE Kill
  <2>1. Started[t].pc \in {"idle", "readStore"}
    BY DEF Started, Idle
  <2> QED BY <1>2, <2>1 DEF Kill, Begins
<1>3. CASE SignIn
  <2>1. CASE t = "signIn"
    BY <1>3, <2>1 DEF SignIn, Begin, Overtake, Idle, Begins
  <2>2. CASE t # "signIn"
    BY <1>1, <1>3, <2>2 DEF SignIn, Overtake, Same, CallsOfTasks
  <2> QED BY <2>1, <2>2
<1>4. ASSUME NEW s, NEW pc \in {"check", "logout"}, Goto(s, pc), At(s, "idle"),
             refreshing' = refreshing
      PROVE  Begins(t) \/ (Same(t) /\ refreshing' = refreshing)
  <2>1. CASE s = t
    BY <1>1, <1>4, <2>1 DEF Goto, Begins, CallsOfTasks
  <2>2. CASE s # t
    BY <1>1, <1>4, <2>2 DEF Goto, Same
  <2> QED BY <2>1, <2>2
<1>5. CASE (\E s \in Screens : Request(s)) \/ LogOut
  BY <1>4, <1>5 DEF Request, LogOut, Begin
<1>6. CASE ExpiryComes \/ TokensExpire
         \/ RefreshTokensLapse
  BY <1>6 DEF ExpiryComes, TokensExpire, RefreshTokensLapse, Same
<1> QED BY <1>2, <1>3, <1>5, <1>6 DEF Other

LEMMA RefreshInvKept == RefreshInv /\ [Next]_vars => RefreshInv'
<1> SUFFICES ASSUME RefreshInv, [Next]_vars PROVE RefreshInv'
  OBVIOUS
<1>1. /\ TypeInv /\ TypeInv'
      /\ OneRefresh /\ UnsavedFresh /\ SpentOnes /\ NotPresentedAgain
      /\ task = [t \in Tasks |-> task[t]]
  BY TypeInvKept DEF RefreshInv, TypeInv, TasksOK
<1>2. CASE \E t \in Tasks : Step(t) /\ Meddling(t)
  BY <1>1, <1>2, OneRefreshKept, PairsKept DEF RefreshInv
<1>3. CASE Other
  <2>1. /\ UNCHANGED <<issued, replaced>>
        /\ store'.refresh = store.refresh
    BY <1>3 DEF Other, Request, SignIn, LogOut, Kill, ExpiryComes, TokensExpire, RefreshTokensLapse,
                server, Save, RefreshInv, TypeInv, StoreOK
  <2>2. \A s \in Tasks : Begins(s) \/ (Same(s) /\ refreshing' = refreshing)
    BY <1>1, <1>3, OthersBegin
  <2>3. \A s \in Tasks :
           /\ InRefresh(s)' => InRefresh(s) /\ refreshing' = refreshing
           /\ Unsaved(s)' => Unsaved(s) /\ Same(s)
           /\ At(s, "posting")' => At(s, "posting") /\ Same(s)
    BY <2>2 DEF Begins, InRefresh, Storing, Unsaved, At, Same
  <2>4. OneRefresh'
    BY <1>1, <2>3 DEF OneRefresh
  <2>5. UnsavedFresh'
    BY <1>1, <2>1, <2>3 DEF UnsavedFresh, Unknown, Same
  <2>6. SpentOnes' /\ NotPresentedAgain'
    BY <1>1, <2>1, <2>3 DEF SpentOnes, NotPresentedAgain, Same
  <2> QED BY <1>1, <2>4, <2>5, <2>6 DEF RefreshInv
<1>4. CASE UNCHANGED vars
  BY <1>1, <1>4
     DEF vars, server, limits, RefreshInv, OneRefresh, InRefresh, Storing,
         UnsavedFresh, Unsaved, Unknown, SpentOnes, NotPresentedAgain, At
<1> QED BY <1>2, <1>3, <1>4, StepOrOther

LEMMA RefreshInvAtFirst == Init => RefreshInv
<1> SUFFICES ASSUME Init PROVE RefreshInv
  OBVIOUS
<1>1. TypeInv
  BY TypeAtFirst
<1>2. \A t \in Tasks : task[t].pc \in {"idle", "readStore"}
  BY DEF Init, Started, Idle
<1>3. OneRefresh /\ UnsavedFresh /\ NotPresentedAgain
  BY <1>2 DEF OneRefresh, InRefresh, Storing, UnsavedFresh, Unsaved,
              NotPresentedAgain, At
<1>4. SpentOnes
  BY DEF Init, SpentOnes
<1> QED BY <1>1, <1>3, <1>4 DEF RefreshInv

(* Whoever waits for a refresh waits for a call that is in _doRefresh.     *)
Served ==
    /\ refreshing # Nobody => InRefresh(refreshing)
    /\ \A t \in Tasks : At(t, "waiting") => refreshing # Nobody

LEMMA ServedKept ==
    ASSUME TypeInv, OneRefresh, Served, NEW t \in Tasks, Step(t)
    PROVE  Served'
<1>1. /\ \A s \in Tasks : s # Nobody
      /\ refreshing \in Tasks \cup {Nobody}
      /\ task = [u \in Tasks |-> task[u]]
      /\ task[t] \in CallsOfTasks
  BY ClientAssumption DEF TypeInv, TasksOK, CallOK, CountsOK, Tasks, Nobody
<1>2. Quiet \cap Busy = {}
  BY DEF Quiet
<1>3. CASE Finishes(t)
  <2>1. PICK ok \in BOOLEAN : Finish(t, ok)
    BY <1>3 DEF Finishes
  <2>2. ASSUME NEW s \in Tasks PROVE ~At(s, "waiting")'
    <3>1. CASE s = t \/ At(s, "waiting")
      BY <2>1, <3>1
         DEF Finish, AfterRefresh, At, TypeInv, TasksOK, CallOK, CallsOfTasks
    <3>2. CASE ~(s = t \/ At(s, "waiting"))
      BY <2>1, <3>2 DEF Finish, At
    <3> QED BY <3>1, <3>2
  <2> QED BY <2>1, <2>2 DEF Finish, Served
<1>4. ASSUME refreshing' = refreshing, InRefresh(t) => InRefresh(t)',
             At(t, "waiting")' => refreshing # Nobody
      PROVE  Served'
  <2>1. ASSUME refreshing # Nobody PROVE InRefresh(refreshing)'
    <3>1. CASE refreshing = t
      BY <1>4, <2>1, <3>1 DEF Served
    <3>2. CASE refreshing # t
      <4>1. Same(refreshing) /\ InRefresh(refreshing)
        BY <1>1, <1>4, <2>1, <3>2, OthersStay DEF Served
      <4> QED BY <1>4, <4>1 DEF InRefresh, Storing, Same
    <3> QED BY <3>1, <3>2
  <2>2. ASSUME NEW s \in Tasks, At(s, "waiting")' PROVE refreshing # Nobody
    <3>1. CASE s = t
      BY <1>4, <2>2, <3>1
    <3>2. CASE s # t
      BY <1>2, <2>2, <3>2, OthersStay DEF At, Same, Served, Busy
    <3> QED BY <3>1, <3>2
  <2> QED BY <1>4, <2>1, <2>2 DEF Served
<1>5. CASE Apart(t)
  <2>1. CASE InRefresh(t)
    BY <1>3, <1>5, <2>1 DEF Apart
  <2>2. CASE ~InRefresh(t)
    BY <1>2, <1>4, <1>5, <2>2 DEF Apart, At, Busy
  <2> QED BY <2>1, <2>2
<1>6. CASE Asks(t)
  <2>1. CASE refreshing = Nobody
    <3>1. refreshing' = t /\ InRefresh(t)'
      BY <1>6, <2>1 DEF Asks, InRefresh
    <3> QED BY <1>1, <3>1 DEF Served
  <2>2. CASE refreshing # Nobody
    BY <1>4, <1>6, <2>2 DEF Asks
  <2> QED BY <2>1, <2>2
<1>7. CASE Presents(t)
  BY <1>4, <1>7 DEF Presents, InRefresh, At
<1>8. CASE Stores(t)
  BY <1>4, <1>8 DEF Stores, SaveRefresh, InRefresh, Storing, At
<1>9. CASE Issuing(t)
  <2>1. refreshing' = refreshing
    BY <1>9, StepIssues
  <2>2. task'[t].pc = "saveAccess"
    <3>1. PICK next \in {"idle", "saveRole", "refreshed"} : Receives(t, next)
      BY <1>9, StepIssues
    <3> QED BY <1>1, <3>1 DEF Receives, CallsOfTasks
  <2>3. ASSUME InRefresh(t) PROVE InRefresh(t)'
    <3>1. Rotated(t)
      BY <1>9, <2>3 DEF Issuing, Verified, Answered, InRefresh, Storing, At
    <3>2. task'[t].next = "refreshed"
      BY <1>1, <3>1 DEF Rotated, CallsOfTasks
    <3> QED BY <2>2, <3>2 DEF InRefresh, Storing
  <2> QED BY <1>4, <2>1, <2>2, <2>3 DEF At
<1> QED BY <1>5, <1>6, <1>7, <1>8, <1>9, StepShape

(* However many requests find the token expired, and in whatever order the *)
(* calls, the log-outs and the kills come, the app never presents a        *)
(* refresh token whose successor it has stored (api_client.dart:217).      *)
THEOREM SpentNeverPresented == Spec => []NotPresentedAgain
<1>1. RefreshInv => NotPresentedAgain
  BY DEF RefreshInv
<1> QED BY <1>1, RefreshInvAtFirst, RefreshInvKept, PTL DEF Spec

(* The flag _isRefreshing is a lock although nothing but the order of the  *)
(* awaits makes it one (api_client.dart:124).                              *)
THEOREM OneCallRefreshes ==
    Spec => [](\A s, t \in Tasks : InRefresh(s) /\ InRefresh(t) => s = t)
<1>1. RefreshInv => \A s, t \in Tasks : InRefresh(s) /\ InRefresh(t) => s = t
  BY DEF RefreshInv, OneRefresh
<1> QED BY <1>1, RefreshInvAtFirst, RefreshInvKept, PTL DEF Spec

(* No request waits for a refresh that nobody makes: a call that waits has *)
(* one in _doRefresh that will complete it (api_client.dart:217-235).      *)
THEOREM WaitersAreServed ==
    Spec => [](\A t \in Tasks : At(t, "waiting") =>
                   \E s \in Tasks : s # t /\ InRefresh(s))
<1> DEFINE HasServer == \A t \in Tasks : At(t, "waiting") =>
                           \E s \in Tasks : s # t /\ InRefresh(s)
           I == RefreshInv /\ Served
<1>1. Init => I
  <2>1. Init => Served
    BY DEF Init, Served, Started, Idle, At
  <2> QED BY <2>1, RefreshInvAtFirst
<1>2. I /\ [Next]_vars => I'
  <2> SUFFICES ASSUME RefreshInv, Served, [Next]_vars PROVE Served'
    BY RefreshInvKept
  <2>1. TypeInv /\ OneRefresh
    BY DEF RefreshInv
  <2>2. CASE \E t \in Tasks : Step(t) /\ Meddling(t)
    BY <2>1, <2>2, ServedKept
  <2>3. CASE Kill
    BY <2>3 DEF Kill, Started, Idle, Served, At
  <2>4. CASE Other /\ ~Kill
    <3>1. refreshing' = refreshing
      BY <2>4 DEF Other, Request, SignIn, LogOut, ExpiryComes, TokensExpire, RefreshTokensLapse
    <3>2. ASSUME NEW s \in Tasks
          PROVE  /\ InRefresh(s) => InRefresh(s)'
                 /\ At(s, "waiting")' => At(s, "waiting")
      BY <2>1, <2>4, OthersBegin DEF Begins, Same, InRefresh, Storing, At
    <3> QED BY <2>1, <3>1, <3>2 DEF Served, TypeInv, CountsOK
  <2>5. CASE UNCHANGED vars
    BY <2>5 DEF vars, Served, InRefresh, Storing, At
  <2> QED BY <2>2, <2>3, <2>4, <2>5, StepOrOther
<1>3. I => HasServer
  <2> SUFFICES ASSUME I, NEW t \in Tasks, At(t, "waiting")
               PROVE  \E s \in Tasks : s # t /\ InRefresh(s)
    OBVIOUS
  <2>1. refreshing \in Tasks /\ InRefresh(refreshing)
    BY DEF Served, RefreshInv, TypeInv, CountsOK
  <2> QED BY <2>1 DEF InRefresh, Storing, At
<1> QED BY <1>1, <1>2, <1>3, PTL DEF Spec
-----------------------------------------------------------------------------
(* The invariant of a session.  A call that belongs to the session of the  *)
(* moment:                                                                 *)
Current(t) == Running(t) /\ ~task[t].late

(* A sign-in is under way, up to the step that shows its session or clears *)
(* what was stored.                                                        *)
SigningIn == task["signIn"].public

Sess(n) == issued[n].session

(* The steps of a sign-in up to there.                                     *)
SignInSteps == {"verify", "waiting", "refresh", "posting", "saveAccess",
                "saveRefresh", "saveExpiry", "attach", "readKept", "wipe",
                "restore", "saveRole", "show"}

(* Which call may be where, and what holds of it there: the pair that it   *)
(* stores is newer than the calls of the moment, and the access tokens     *)
(* that the server still takes include those.                              *)
PlaceOK(t) ==
    /\ At(t, "readStore") => t = "init"
    /\ task[t].public => t = "signIn" /\ task[t].pc \in SignInSteps
    /\ At(t, "verify") => task[t].public
    /\ task[t].pc \in {"saveRole", "show"} => task[t].public \/ t \in Screens
    /\ Storing(t) /\ task[t].next = "saveRole" => task[t].public
    /\ Storing(t) /\ task[t].next = "idle" => t = "signIn" /\ ~task[t].public
    /\ task[t].pc \in {"logout", "forget", "keepRole"} => t = "logout"
    /\ t = "logout" => task[t].pc \in {"idle", "logout", "forget", "keepRole"}
    /\ task[t].pc \in {"idle", "readStore", "check", "stale"} => ~task[t].refused
    /\ At(t, "idle") => ~task[t].late
    /\ Storing(t) => task[t].pair > settled
    /\ Running(t) => expired <= settled

(* While the status is unknown only the start runs, and afterwards at most *)
(* its listener.                                                           *)
Starting ==
    /\ app.status = "unknown" =>
          /\ \A t \in Tasks \ {"init"} : At(t, "idle")
          /\ task["init"].pc \notin {"expire", "leave"}
    /\ app.status # "unknown" => task["init"].pc \in {"idle", "expire", "leave"}

(* Until its session is on the screens and select-role has been asked for, *)
(* the sign-in is the only call that is not of the past.  While nobody is  *)
(* signed in there is no other one, but for the last step of a log-out and *)
(* the listener.                                                           *)
Alone ==
    /\ SigningIn => app.status = "unauthenticated" /\ ~task["signIn"].late
    /\ app.status = "unauthenticated" =>
          \A t \in Tasks : Current(t) =>
             IF SigningIn THEN t = "signIn"
             ELSE \/ At(t, "keepRole")
                  \/ t \in {"init", "signIn"} /\ task[t].pc \in {"expire", "leave"}
    /\ app.status = "authenticated" /\ Current("signIn") =>
          \A t \in Tasks : Current(t) => t = "signIn"

OrderInv == (\A t \in Tasks : PlaceOK(t)) /\ Starting

AloneInv == ~meddled => Alone

(* No refresh is refused while every one is answered: the stored refresh   *)
(* token works, or a call that has its successor is about to store it.     *)
Works ==
    /\ \/ store.refresh \in live \cup {0}
       \/ \E t \in Tasks : /\ Unsaved(t) /\ task[t].next = "refreshed"
                           /\ issued[task[t].pair].from = store.refresh
    /\ \A t \in Tasks : Unsaved(t) \/ At(t, "posting") => task[t].pair \in live

LiveInv == ~faulty => Works

(* Somebody is about to show that the session is gone.                     *)
Leaving == \/ At("logout", "forget")
           \/ \E t \in Tasks : task[t].pc \in {"restore", "expire", "leave"}

(* The pair and the token of call t are of session n.                      *)
Holds(t, n) ==
    /\ Storing(t) \/ task[t].pc \in {"posting", "saveRole", "show"} =>
          Sess(task[t].pair) = n
    /\ task[t].pc \in {"reattach", "sent"} /\ task[t].token # 0 =>
          Sess(task[t].token) = n

(* Storage holds tokens of session n only.                                 *)
OfSession(n) == /\ store.access # 0 => Sess(store.access) = n
                /\ store.refresh # 0 => Sess(store.refresh) = n

(* The start tries the stored access token.                                *)
Trying == task["init"].pc \in
            {"check", "stale", "waiting", "refresh", "posting", "saveAccess",
             "saveRefresh", "saveExpiry", "attach", "reattach", "sent"}

(* What has been stored by a sign-in is of its own pair.                   *)
Stored(pcs) == \/ task["signIn"].pc \in {"saveRole", "show"}
               \/ task["signIn"].pc \in pcs /\ task["signIn"].next = "saveRole"

SignInShown ==
    SigningIn =>
        /\ Stored({"saveRefresh", "saveExpiry"}) => store.access = task["signIn"].pair
        /\ Stored({"saveExpiry"}) => store.refresh = task["signIn"].pair

StartShown ==
    app.status = "unknown" =>
        /\ store.access # 0 /\ store.refresh # 0 =>
              Sess(store.access) = Sess(store.refresh)
        /\ Trying => store.access # 0 /\ Holds("init", Sess(store.access))

SessionShown ==
    app.status = "authenticated" =>
        /\ OfSession(app.session)
        /\ store.access # 0 \/ Leaving
        /\ \A t \in Tasks : Current(t) => Holds(t, app.session)

ShownInv == ~meddled /\ ~torn => SignInShown /\ StartShown /\ SessionShown

(* Nothing of a session is stored.                                         *)
Bare == store.access = 0 /\ store.refresh = 0 /\ store.expiry = "none"

(* A log-out or the listener has wiped the storage and has not left the    *)
(* screens.                                                                *)
Gone ==
    /\ app.status = "authenticated"
    /\ Bare
    /\ At("logout", "forget") \/ \E t \in Tasks : At(t, "leave")
    /\ Current("signIn") => At("signIn", "leave")
    /\ \A t \in Tasks : Current(t) => ~Storing(t) /\ ~At(t, "posting")

(* A call of the session is ending it.                                     *)
Dying == \E t \in Tasks : Current(t) /\ Clearing(t)

(* Storage holds no token, or both.                                        *)
Whole ==
    /\ app.status = "unknown" => At("init", "readStore") /\ Bare
    /\ Running("init") => app.status = "unknown"
    /\ SigningIn => /\ task["signIn"].pc \notin {"posting", "attach"}
                    /\ Storing("signIn") => task["signIn"].next = "saveRole"
    /\ /\ app.status = "unauthenticated"
       /\ SigningIn => ~Stored({"saveRefresh", "saveExpiry"})
       => Bare
    /\ app.status = "authenticated" =>
          Gone \/ Dying \/ (store.access # 0 /\ store.refresh # 0)

(* Whoever is about to leave the screens has wiped the storage.            *)
Wanted ==
    /\ app.status = "authenticated" =>
          \A t \in Tasks : Current(t) /\ At(t, "leave") => Gone
    /\ Current("logout") /\ At("logout", "forget") => Gone

(* An access token that was stored while calls were under way is new       *)
(* enough for them: a call that has refreshed is not refused again.        *)
Renewed(t) == \/ Running(t) /\ task[t].late
              \/ Storing(t) /\ ~At(t, "saveAccess") /\ task[t].next = "refreshed"
              \/ task[t].refused /\ task[t].pc \in {"attach", "reattach"}

NewEnough ==
    /\ (\E t \in Tasks : Renewed(t)) => store.access = 0 \/ store.access > settled
    /\ \A t \in Tasks :
          Current(t) /\ task[t].refused /\ task[t].pc \in {"reattach", "sent"} =>
             Gone \/ Dying \/ task[t].token > settled

(* The refresh token that a call of the session presents is the stored one *)
(* while the session lasts.                                                *)
Presented ==
    app.status = "authenticated" =>
        \A t \in Tasks : Current(t) /\ At(t, "posting") =>
            Dying \/ task[t].pair = store.refresh

CleanInv == ~meddled /\ ~faulty => Whole /\ Wanted /\ NewEnough /\ Presented

TornInv == torn => faulty

SessionInv ==
    /\ RefreshInv /\ OrderInv /\ AloneInv
    /\ LiveInv /\ ShownInv /\ CleanInv /\ TornInv
-----------------------------------------------------------------------------
(* The kinds of steps.  What a step does to the calls of the other tasks:  *)
(* nothing, or it makes them late, or it tells those that wait.            *)
Alike(s) ==
    /\ task'[s].pc = task[s].pc /\ task'[s].pair = task[s].pair
    /\ task'[s].next = task[s].next /\ task'[s].token = task[s].token
    /\ task'[s].refused = task[s].refused /\ task'[s].public = task[s].public

SameLate(s) == task'[s].late = task[s].late

Frame(t) == \A s \in Tasks \ {t} : Alike(s) /\ SameLate(s)

EndFrame(t) ==
    \A s \in Tasks \ {t} :
        /\ Alike(s)
        /\ IF app.status = "authenticated"
           THEN task'[s].late = (task[s].late \/ Running(s))
           ELSE SameLate(s)

IsTold(s, ok) ==
    /\ task'[s].pc = AfterRefresh(ok) /\ task'[s].token = task[s].token
    /\ task'[s].refused = task[s].refused /\ task'[s].public = task[s].public
    /\ SameLate(s)

FinishFrame(t, ok) ==
    \A s \in Tasks \ {t} :
        IF At(s, "waiting") THEN IsTold(s, ok) ELSE Alike(s) /\ SameLate(s)

SameTokens == store'.access = store.access /\ store'.refresh = store.refresh

SamePublic(t) == task'[t].public = task[t].public

Ended(t) == /\ task'[t].pc = "idle" /\ ~task'[t].refused
            /\ ~task'[t].public /\ ~task'[t].late

SameRequest(t) == task'[t].token = task[t].token /\ task'[t].refused = task[t].refused

(* clearSession has returned; the listener follows.                        *)
Signals(t) == /\ At(t, "restore") /\ task'[t].pc = "expire"
              /\ ~task'[t].public /\ SameLate(t)

(* Only the call itself goes on, ...                                       *)
GoesOn(t) ==
    /\ Frame(t)
    /\ SameTokens
    /\ UNCHANGED <<app, server, limits>>
    /\ SameLate(t) \/ Ended(t)
    /\ SamePublic(t) \/ Ended(t) \/ Signals(t)
    /\ \/ At(t, "check") /\ task'[t].pc \in {"stale", "attach"} /\ SameRequest(t)
       \/ /\ task[t].pc \in {"stale", "sent", "verify"}
          /\ task'[t].pc \in {"refresh", "waiting"}
          /\ At(t, "stale") => task'[t].refused = task[t].refused
       \/ /\ At(t, "sent") /\ task'[t].pc = "readKept" /\ task[t].refused
          /\ ~Known(task[t].token)
       \/ At(t, "verify") /\ task'[t].pc = "readKept"
       \/ At(t, "attach") /\ task[t].public /\ task'[t].pc = "verify"
       \/ /\ task[t].pc \in {"attach", "reattach"} /\ task'[t].pc \in {"reattach", "sent"}
          /\ At(t, "attach") => ~task[t].public
          /\ At(t, "attach") /\ ~task[t].refused => task'[t].pc = "sent"
          /\ At(t, "reattach") => store.access # 0
          /\ task'[t].token = store.access /\ task'[t].refused = task[t].refused
       \/ At(t, "reattach") /\ task'[t].pc = "sent" /\ SameRequest(t)
       \/ /\ At(t, "sent") /\ task'[t].pc = "saveRole" /\ t \in Screens
          /\ task[t].token # 0 /\ task'[t].pair = task[t].token
       \/ /\ At(t, "refresh") /\ task'[t].pc = "posting"
          /\ store.refresh # 0 /\ task'[t].pair = store.refresh
       \/ /\ At(t, "saveExpiry") /\ task'[t].pc = "saveRole"
          /\ task[t].next = "saveRole" /\ task'[t].pair = task[t].pair
       \/ /\ At(t, "saveRole") /\ task'[t].pc = "show"
          /\ task'[t].pair = task[t].pair
       \/ At(t, "readKept") /\ task'[t].pc = "wipe"
       \/ Signals(t) /\ t # "init"
       \/ /\ At(t, "readStore") /\ task'[t].pc = "check" /\ SameRequest(t)
          /\ store.access # 0
       \/ /\ Ended(t)
          /\ \/ At(t, "sent") /\ t # "init"
             \/ task[t].pc \in {"verify", "keepRole"}
             \/ At(t, "saveExpiry") /\ task[t].next = "idle"

(* ... or it ends the refresh, for those that wait too, ...                *)
EndsRefresh(t, ok) ==
    /\ FinishFrame(t, ok)
    /\ IsTold(t, ok)
    /\ SameTokens
    /\ UNCHANGED <<app, issued, expired, lapsed, settled, torn>>
    /\ \/ ~ok /\ At(t, "refresh") /\ store.refresh = 0 /\ UNCHANGED <<live, faulty>>
       \/ /\ ~ok /\ At(t, "posting")
          /\ task[t].pair \notin live \/ task[t].pair <= lapsed
          /\ UNCHANGED <<live, faulty>>
       \/ ~ok /\ At(t, "posting") /\ faulty'
       \/ /\ ok /\ At(t, "saveExpiry") /\ task[t].next = "refreshed"
          /\ UNCHANGED <<live, faulty>>

(* ... or it gets a pair, ...                                              *)
GetsPair(t, session, from, next) ==
    /\ Frame(t)
    /\ Issue(session, from)
    /\ UNCHANGED <<store, app, limits, replaced>>
    /\ task'[t].pc = "saveAccess" /\ task'[t].pair = New /\ task'[t].next = next
    /\ SameLate(t) /\ SamePublic(t)
    /\ \/ /\ At(t, "posting") /\ next = "refreshed"
          /\ task[t].pair \in live
          /\ from = task[t].pair /\ session = Sess(task[t].pair)
       \/ At(t, "verify") /\ next = "saveRole" /\ from = 0
       \/ /\ At(t, "sent") /\ next = "idle" /\ from = 0 /\ t = "signIn"
          /\ task[t].token # 0 /\ session = Sess(task[t].token)

(* ... or it stores one, ...                                               *)
StoresToken(t) ==
    /\ Frame(t)
    /\ UNCHANGED <<app, server, limits>>
    /\ SameLate(t) /\ SamePublic(t)
    /\ task'[t].pair = task[t].pair /\ task'[t].next = task[t].next
    /\ \/ /\ At(t, "saveAccess") /\ task'[t].pc = "saveRefresh"
          /\ store'.access = task[t].pair /\ store'.refresh = store.refresh
       \/ /\ At(t, "saveRefresh") /\ task'[t].pc = "saveExpiry"
          /\ store'.access = store.access /\ store'.refresh = task[t].pair

(* ... or it wipes the storage, ...                                        *)
Wipes(t) ==
    /\ store' = Empty
    /\ UNCHANGED <<app, server, limits>>
    /\ SameLate(t) /\ SamePublic(t)
    /\ \/ At(t, "wipe") /\ task'[t].pc = "restore" /\ Frame(t)
       \/ At(t, "expire") /\ task'[t].pc = "leave" /\ EndFrame(t)
       \/ At(t, "logout") /\ task'[t].pc = "forget" /\ EndFrame(t)

(* ... or it shows that nobody is signed in, or that somebody is.          *)
SignsOut(t) ==
    /\ app' = SignedOut
    /\ SameTokens
    /\ UNCHANGED <<server, limits>>
    /\ \/ At(t, "leave") /\ Ended(t) /\ EndFrame(t)
       \/ /\ At(t, "forget") /\ task'[t].pc = "keepRole"
          /\ SameLate(t) /\ SamePublic(t) /\ EndFrame(t)
       \/ /\ t = "init" \/ At(t, "readStore")
          /\ Frame(t)
          /\ \/ task[t].pc \in {"readStore", "sent"} /\ Ended(t)
             \/ Signals(t)

SignsIn(t) ==
    /\ SameTokens
    /\ UNCHANGED <<server, limits>>
    /\ Frame(t)
    /\ ~task'[t].refused /\ ~task'[t].public
    /\ app'.status = "authenticated"
    /\ \/ /\ t = "init" /\ At(t, "sent") /\ Ended(t)
          /\ task[t].token # 0 /\ app'.session = Sess(task[t].token)
       \/ /\ At(t, "show") /\ app'.session = Sess(task[t].pair)
          /\ Ended(t) \/ (t = "signIn" /\ task'[t].pc = "check" /\ SameLate(t))

LEMMA StepKinds ==
    ASSUME TypeInv, NEW t \in Tasks, Step(t)
    PROVE  \/ GoesOn(t)
           \/ \E ok \in BOOLEAN : EndsRefresh(t, ok)
           \/ \E session \in Tokens, from \in 0 .. Len(issued),
                 next \in {"idle", "saveRole", "refreshed"} :
                 GetsPair(t, session, from, next)
           \/ StoresToken(t)
           \/ Wipes(t)
           \/ SignsOut(t)
           \/ SignsIn(t)
<1>1. /\ task = [u \in Tasks |-> task[u]]
      /\ \A s \in Tasks : task[s] \in CallsOfTasks
      /\ store \in [access : 0 .. Len(issued), refresh : 0 .. Len(issued),
                    expiry : {"none", "later", "past"}, role : BOOLEAN]
      /\ app \in [status : {"unknown", "authenticated", "unauthenticated"},
                  session : Tokens]
  BY DEF TypeInv, TasksOK, CallOK, StoreOK
<1>2. ASSUME NEW c, task' = [task EXCEPT ![t] = c]
      PROVE  Frame(t) /\ task'[t] = c
  BY <1>1, <1>2 DEF Frame, Alike, SameLate
<1>3. ASSUME NEW c, End(t, c)
      PROVE  EndFrame(t) /\ task'[t] = c
  <2>1. CASE app.status = "authenticated"
    BY <1>1, <1>3, <2>1 DEF End, Overtake, EndFrame, Alike, CallsOfTasks
  <2>2. CASE app.status # "authenticated"
    BY <1>1, <1>3, <2>2 DEF End, EndFrame, Alike, SameLate
  <2> QED BY <2>1, <2>2
<1>4. ASSUME NEW ok \in BOOLEAN, Finish(t, ok)
      PROVE  FinishFrame(t, ok) /\ IsTold(t, ok)
  BY <1>1, <1>4 DEF Finish, FinishFrame, IsTold, Alike, SameLate, CallsOfTasks
<1>5. ASSUME NEW pc \in Steps, Goto(t, pc)
      PROVE  /\ Frame(t) /\ SameLate(t) /\ task'[t].pc = pc
             /\ task'[t].token = task[t].token /\ task'[t].refused = task[t].refused
             /\ task'[t].pair = task[t].pair /\ task'[t].next = task[t].next
             /\ SamePublic(t)
  <2>1. task' = [task EXCEPT ![t] = [task[t] EXCEPT !.pc = pc]]
    BY <1>5 DEF Goto
  <2>2. Frame(t) /\ task'[t] = [task[t] EXCEPT !.pc = pc]
    BY <1>2, <2>1
  <2> QED BY <1>1, <2>2 DEF SameLate, SamePublic, CallsOfTasks
<1>6. ASSUME Done(t)
      PROVE  Frame(t) /\ Ended(t)
  BY <1>2, <1>6 DEF Done, Idle, Ended
<1>7. ASSUME NEW refused \in BOOLEAN, Join(t, refused)
      PROVE  /\ Frame(t) /\ SameLate(t) /\ task'[t].refused = refused
             /\ task'[t].pc \in {"refresh", "waiting"} /\ SamePublic(t)
  <2> DEFINE c == [task[t] EXCEPT !.pc = IF refreshing = Nobody THEN "refresh" ELSE "waiting",
                                  !.refused = refused, !.token = 0]
  <2>1. task' = [task EXCEPT ![t] = c]
    BY <1>7 DEF Join
  <2>2. Frame(t) /\ task'[t] = c
    BY <1>2, <2>1
  <2> QED BY <1>1, <2>2 DEF SameLate, SamePublic, CallsOfTasks
<1>8. CASE CheckExpiry(t)
  <2>1. PICK pc \in {"stale", "attach"} : Goto(t, pc)
    BY <1>8 DEF CheckExpiry
  <2>2. pc \in Steps
    BY DEF Steps
  <2> QED BY <1>5, <1>8, <2>1, <2>2 DEF CheckExpiry, GoesOn, SameTokens, SameRequest
<1>9. CASE RefreshFirst(t)
  <2>1. task[t].refused \in BOOLEAN
    BY <1>1 DEF CallsOfTasks
  <2> QED BY <1>7, <1>9, <2>1 DEF RefreshFirst, GoesOn, SameTokens, At
<1>10. CASE Attach(t)
  <2> DEFINE c == [task[t] EXCEPT
                     !.token = store.access,
                     !.pc = IF @ = "attach" /\ task[t].refused THEN "reattach" ELSE "sent"]
  <2>1. task' = [task EXCEPT ![t] = c]
    BY <1>10 DEF Attach
  <2>2. Frame(t) /\ task'[t] = c
    BY <1>2, <2>1
  <2>3. /\ task'[t].pc = IF At(t, "attach") /\ task[t].refused THEN "reattach" ELSE "sent"
        /\ task'[t].token = store.access /\ task'[t].refused = task[t].refused
        /\ SameLate(t) /\ SamePublic(t)
    BY <1>1, <2>2 DEF SameLate, SamePublic, CallsOfTasks, At
  <2>4. /\ SameTokens /\ UNCHANGED <<app, server, limits>>
        /\ task[t].pc \in {"attach", "reattach"}
        /\ At(t, "attach") => ~task[t].public
        /\ At(t, "reattach") => store.access # 0
    BY <1>10 DEF Attach, SameTokens, At
  <2> HIDE DEF c
  <2> QED BY <2>2, <2>3, <2>4 DEF GoesOn, At
<1>11. CASE SendBare(t)
  BY <1>5, <1>11 DEF SendBare, GoesOn, SameTokens, SameRequest, Steps
<1>12. CASE Answered(t) /\ t \notin {"init", "signIn"}
  <2>1. /\ SameTokens /\ UNCHANGED <<app, server, limits>>
        /\ At(t, "sent") /\ task[t].token # 0
    BY <1>12 DEF Answered, SameTokens, Known, TypeInv, ServerOK
  <2>2. CASE Done(t)
    BY <1>6, <1>12, <2>1, <2>2 DEF GoesOn
  <2>3. CASE /\ t \in Screens
             /\ task' = [task EXCEPT ![t].pc = "saveRole", ![t].pair = task[t].token]
    <3> DEFINE c == [task[t] EXCEPT !.pc = "saveRole", !.pair = task[t].token]
    <3>1. Frame(t) /\ task'[t] = c
      BY ZenonT(60), <1>2, <2>3
    <3> QED BY ZenonT(60), <1>1, <2>1, <2>3, <3>1
            DEF GoesOn, SameLate, SamePublic, CallsOfTasks
  <2> QED BY <1>12, <2>2, <2>3 DEF Answered
<1>13. CASE Answered(t) /\ t = "init"
  <2>1. task[t].token # 0
    BY <1>13 DEF Answered, Known, TypeInv, ServerOK
  <2> QED BY <1>6, <1>13, <2>1 DEF Answered, SignsIn, SameTokens, Sess, Ended
<1>14. CASE Failed(t)
  <2>1. CASE t = "init"
    BY <1>6, <1>14, <2>1 DEF Failed, Told, SignsOut, SameTokens, At
  <2>2. CASE t # "init"
    BY <1>6, <1>14, <2>2 DEF Failed, Told, GoesOn, SameTokens
  <2> QED BY <2>1, <2>2
<1>15. CASE Unauthorized(t)
  <2>1. CASE task[t].refused
    <3>1. "readKept" \in Steps
      BY DEF Steps
    <3> QED BY <1>5, <1>15, <2>1, <3>1 DEF Unauthorized, GoesOn, SameTokens
  <2>2. CASE ~task[t].refused
    BY <1>7, <1>15, <2>2 DEF Unauthorized, GoesOn, SameTokens, At
  <2> QED BY <2>1, <2>2
<1>16. CASE ReadRefreshToken(t)
  <2>1. CASE store.refresh = 0
    BY <1>4, <1>16, <2>1
       DEF ReadRefreshToken, EndsRefresh, SameTokens, server, limits
  <2>2. CASE store.refresh # 0
    <3> DEFINE c == [task[t] EXCEPT !.pc = "posting", !.pair = store.refresh]
    <3>1. task' = [task EXCEPT ![t] = c]
      BY <1>16, <2>2 DEF ReadRefreshToken
    <3>2. Frame(t) /\ task'[t] = c
      BY <1>2, <3>1
    <3> QED BY <1>1, <1>16, <2>2, <3>2
            DEF ReadRefreshToken, GoesOn, SameTokens, SameLate, SamePublic,
                CallsOfTasks
  <2> QED BY <2>1, <2>2
<1>17. CASE Refused(t)
  <2>1. task[t].pair \in Int /\ lapsed \in Int
    BY <1>1, ClientAssumption DEF CallsOfTasks, Tokens, TypeInv, ServerOK
  <2>2. task[t].pair \notin live \/ task[t].pair <= lapsed
    BY <1>17, <2>1 DEF Refused, Taken
  <2> QED BY <1>4, <1>17, <2>2 DEF Refused, EndsRefresh, SameTokens, server, limits
<1>18. CASE RefreshFails(t)
  BY <1>4, <1>18 DEF RefreshFails, EndsRefresh, SameTokens
<1>19. CASE SaveAccess(t)
  <2>1. "saveRefresh" \in Steps
    BY DEF Steps
  <2> QED BY <1>1, <1>5, <1>19, <2>1 DEF SaveAccess, Save, StoresToken
<1>20. CASE SaveRefresh(t)
  <2>1. "saveExpiry" \in Steps
    BY DEF Steps
  <2> QED BY <1>1, <1>5, <1>20, <2>1 DEF SaveRefresh, Save, StoresToken
<1>21. CASE SaveExpiry(t)
  <2>1. SameTokens /\ UNCHANGED <<app, server, limits>>
    BY <1>1, <1>21 DEF SaveExpiry, Save, SameTokens
  <2>2. CASE task[t].next = "refreshed"
    BY <1>4, <1>21, <2>1, <2>2 DEF SaveExpiry, EndsRefresh, server, limits
  <2>3. CASE task[t].next = "saveRole"
    <3>1. "saveRole" \in Steps
      BY DEF Steps
    <3> QED BY <1>5, <1>21, <2>1, <2>3, <3>1 DEF SaveExpiry, GoesOn
  <2>4. CASE task[t].next = "idle"
    BY <1>6, <1>21, <2>1, <2>4 DEF SaveExpiry, GoesOn
  <2> QED BY <1>1, <2>2, <2>3, <2>4 DEF CallsOfTasks
<1>22. CASE ReadKept(t)
  <2> DEFINE c == [task[t] EXCEPT !.pc = "wipe", !.role = store.role]
  <2>1. task' = [task EXCEPT ![t] = c]
    BY <1>22 DEF ReadKept
  <2>2. Frame(t) /\ task'[t] = c
    BY <1>2, <2>1
  <2> QED BY <1>1, <1>22, <2>2
          DEF ReadKept, GoesOn, SameTokens, SameLate, SamePublic, CallsOfTasks
<1>23. CASE Wipe(t)
  <2>1. "restore" \in Steps
    BY DEF Steps
  <2> QED BY <1>5, <1>23, <2>1 DEF Wipe, Wipes, Save
<1>24. CASE Restore(t)
  <2> DEFINE c == [Idle EXCEPT !.pc = "expire", !.late = task[t].late]
  <2>0. task' = [task EXCEPT ![t] = c]
    BY <1>24 DEF Restore
  <2>1. Frame(t) /\ task'[t] = c
    BY <1>2, <2>0
  <2>2. SameTokens
    BY <1>1, <1>24 DEF Restore, Save, SameTokens
  <2>3. Signals(t)
    BY <1>24, <2>1 DEF Restore, Signals, SameLate, Idle
  <2>4. CASE t = "init"
    BY <1>24, <2>1, <2>2, <2>3, <2>4 DEF Restore, Told, SignsOut
  <2>5. CASE t # "init"
    <3>1. SameLate(t)
      BY <2>3 DEF Signals
    <3> QED BY <1>24, <2>1, <2>2, <2>3, <2>5, <3>1 DEF Restore, Told, GoesOn
  <2> QED BY <2>4, <2>5
<1>25. \A pc \in Steps : [task[t] EXCEPT !.pc = pc].pc = pc
                         /\ [task[t] EXCEPT !.pc = pc].late = task[t].late
                         /\ [task[t] EXCEPT !.pc = pc].public = task[t].public
  BY <1>1 DEF CallsOfTasks
<1>26. CASE WipeAgain(t)
  <2>1. EndFrame(t) /\ task'[t] = [task[t] EXCEPT !.pc = "leave"]
    BY <1>3, <1>26 DEF WipeAgain
  <2> QED BY <1>25, <1>26, <2>1 DEF WipeAgain, Wipes, Save, SameLate, SamePublic, Steps
<1>27. CASE Leave(t)
  <2>1. EndFrame(t) /\ task'[t] = Idle
    BY <1>3, <1>27 DEF Leave
  <2> QED BY <1>27, <2>1 DEF Leave, SignsOut, SameTokens, Idle, Ended
<1>28. CASE ReadStore(t)
  <2>1. CASE store.access # 0 /\ store.role
    <3>1. "check" \in Steps
      BY DEF Steps
    <3> QED BY <1>5, <1>28, <2>1, <3>1 DEF ReadStore, GoesOn, SameTokens, SameRequest
  <2>2. CASE ~(store.access # 0 /\ store.role)
    BY <1>6, <1>28, <2>2 DEF ReadStore, SignsOut, SameTokens, At
  <2> QED BY <2>1, <2>2
<1>29. CASE Denied(t)
  <2>1. CASE task[t].refused
    <3>1. "readKept" \in Steps
      BY DEF Steps
    <3> QED BY <1>5, <1>29, <2>1, <3>1 DEF Denied, GoesOn, SameTokens
  <2>2. CASE ~task[t].refused
    BY <1>7, <1>29, <2>2 DEF Denied, GoesOn, SameTokens, At
  <2> QED BY <2>1, <2>2
<1>38. CASE VerifyAgain(t)
  <2>1. "verify" \in Steps
    BY DEF Steps
  <2> QED BY <1>5, <1>38, <2>1 DEF VerifyAgain, GoesOn, SameTokens
<1>39. CASE VerifyFails(t)
  BY <1>6, <1>39 DEF VerifyFails, GoesOn, SameTokens, At
<1>40. CASE SaveRole(t)
  <2>1. SameTokens
    BY <1>1, <1>40 DEF SaveRole, Save, SameTokens
  <2>2. "show" \in Steps
    BY DEF Steps
  <2> QED BY <1>5, <1>40, <2>1, <2>2 DEF SaveRole, GoesOn
<1>30. CASE Show(t)
  <2>1. SameTokens
    BY <1>30 DEF Show, SameTokens
  <2>2. ASSUME task' = [task EXCEPT ![t] = [Idle EXCEPT !.pc = "check", !.late = task[t].late]]
        PROVE  /\ Frame(t) /\ ~task'[t].refused /\ ~task'[t].public
               /\ task'[t].pc = "check" /\ SameLate(t)
    BY <1>2, <2>2 DEF Idle, SameLate
  <2> QED BY <1>6, <1>30, <2>1, <2>2 DEF Show, SignsIn, Sess, Ended
<1>31. CASE WipeAll(t)
  <2>1. EndFrame(t) /\ task'[t] = [task[t] EXCEPT !.pc = "forget"]
    BY <1>3, <1>31 DEF WipeAll
  <2> QED BY <1>25, <1>31, <2>1 DEF WipeAll, Wipes, Save, SameLate, SamePublic, Steps
<1>32. CASE Forget(t)
  <2>1. EndFrame(t) /\ task'[t] = [task[t] EXCEPT !.pc = "keepRole"]
    BY <1>3, <1>32 DEF Forget
  <2> QED BY <1>25, <1>32, <2>1
          DEF Forget, SignsOut, SameTokens, SameLate, SamePublic, Steps
<1>33. CASE KeepRole(t)
  <2>1. SameTokens
    BY <1>1, <1>33 DEF KeepRole, Save, SameTokens
  <2> QED BY <1>6, <1>33, <2>1 DEF KeepRole, GoesOn, At
<1>34. ASSUME NEW next, Receives(t, next)
       PROVE  /\ Frame(t) /\ SameLate(t) /\ SamePublic(t)
              /\ task'[t].pc = "saveAccess"
              /\ task'[t].pair = New /\ task'[t].next = next
  <2> DEFINE c == [task[t] EXCEPT !.pc = "saveAccess", !.pair = New, !.next = next]
  <2>1. task' = [task EXCEPT ![t] = c]
    BY <1>34 DEF Receives
  <2>2. Frame(t) /\ task'[t] = c
    BY <1>2, <2>1
  <2> QED BY <1>1, <2>2 DEF SameLate, SamePublic, CallsOfTasks
<1>35. CASE Rotated(t)
  <2>1. task[t].pair \in 1 .. Len(issued)
    BY <1>35, LenIssued DEF Rotated, Taken, ServerOK, TypeInv
  <2>2. Sess(task[t].pair) \in Tokens /\ task[t].pair \in 0 .. Len(issued)
    BY <2>1, IssuedOK DEF TypeInv, Sess
  <2>3. Receives(t, "refreshed")
    BY <1>35 DEF Rotated, Receives
  <2>4. GetsPair(t, Sess(task[t].pair), task[t].pair, "refreshed")
    BY <1>34, <1>35, <2>3 DEF Rotated, Taken, GetsPair, Sess
  <2> QED BY <2>2, <2>4
<1>36. CASE Verified(t)
  <2>1. New \in Tokens /\ 0 \in 0 .. Len(issued)
    BY <1>36, LenIssued, ClientAssumption
       DEF Verified, Issue, CanIssue, New, Tokens, TypeInv
  <2>2. Receives(t, "saveRole")
    BY <1>36 DEF Verified, Receives
  <2>3. GetsPair(t, New, 0, "saveRole")
    BY <1>34, <1>36, <2>2 DEF Verified, GetsPair
  <2> QED BY <2>1, <2>3
<1>37. CASE Answered(t) /\ t = "signIn"
  <2>1. task[t].token \in 1 .. Len(issued) /\ 0 \in 0 .. Len(issued)
    BY <1>37, LenIssued DEF Answered, Known, ServerOK, TypeInv, TasksOK, CallOK
  <2>2. Sess(task[t].token) \in Tokens
    BY <2>1, IssuedOK DEF TypeInv, Sess
  <2>3. Receives(t, "idle")
    BY <1>37 DEF Answered, Receives
  <2>4. GetsPair(t, Sess(task[t].token), 0, "idle")
    BY <1>34, <1>37, <2>1, <2>3 DEF Answered, GetsPair, Sess
  <2> QED BY <2>1, <2>2, <2>4
<1> QED BY <1>8, <1>9, <1>10, <1>11, <1>12, <1>13, <1>14, <1>15, <1>16, <1>17,
           <1>18, <1>19, <1>20, <1>21, <1>22, <1>23, <1>24, <1>26, <1>27, <1>28,
           <1>29, <1>30, <1>31, <1>32, <1>33, <1>35, <1>36, <1>37, <1>38, <1>39,
           <1>40 DEF Step
-----------------------------------------------------------------------------
(* What all kinds of steps have in common.                                 *)
LEMMA StepFrame ==
    ASSUME TypeInv, NEW t \in Tasks, Step(t)
    PROVE  /\ Running(t)
           /\ UNCHANGED <<settled, expired, lapsed, torn>>
           /\ faulty => faulty'
           /\ \A s \in Tasks \ {t} :
                 /\ Alike(s) \/ (At(s, "waiting") /\ \E ok \in BOOLEAN : IsTold(s, ok))
                 /\ Current(s)' => Current(s)
                 /\ \/ task'[s].late = task[s].late
                    \/ /\ app.status = "authenticated"
                       /\ task'[s].late = (task[s].late \/ Running(s))
<1>1. task[t].pc # "idle"
  BY StepKinds
     DEF GoesOn, EndsRefresh, GetsPair, StoresToken, Wipes, SignsOut, SignsIn,
         Signals, Ended, At
<1>2. UNCHANGED <<settled, expired, lapsed, torn>> /\ (faulty => faulty')
  BY StepKinds
     DEF GoesOn, EndsRefresh, GetsPair, StoresToken, Wipes, SignsOut, SignsIn,
         Ended,
                   Issue, server, limits
<1>3. Frame(t) \/ EndFrame(t) \/ \E ok \in BOOLEAN : FinishFrame(t, ok)
  BY StepKinds
     DEF GoesOn, EndsRefresh, GetsPair, StoresToken, Wipes, SignsOut, SignsIn, Ended
<1>4. ASSUME NEW s \in Tasks \ {t}
      PROVE  /\ Alike(s) \/ (At(s, "waiting") /\ \E ok \in BOOLEAN : IsTold(s, ok))
             /\ \/ task'[s].late = task[s].late
                \/ /\ app.status = "authenticated"
                   /\ task'[s].late = (task[s].late \/ Running(s))
  BY <1>3 DEF Frame, EndFrame, FinishFrame, IsTold, SameLate
<1>5. ASSUME NEW s \in Tasks \ {t}, Current(s)'
      PROVE  Current(s)
  BY <1>4, <1>5 DEF Current, Running, At, Alike
<1> QED BY <1>1, <1>2, <1>4, <1>5 DEF Running, At

LEMMA PlacesKept ==
    ASSUME TypeInv, \A s \in Tasks : PlaceOK(s), NEW t \in Tasks, Step(t)
    PROVE  \A s \in Tasks : PlaceOK(s)'
<1>1. UNCHANGED <<settled, expired>> /\ PlaceOK(t) /\ Running(t)
  BY StepFrame
<1>2. settled \in 0 .. Len(issued) /\ Len(issued) \in Nat
  BY LenIssued DEF TypeInv, ServerOK
<1>3. ASSUME NEW s \in Tasks \ {t} PROVE PlaceOK(s)'
  <2>1. PlaceOK(s)
    OBVIOUS
  <2>2. CASE Alike(s)
    <3>1. ~Running(s) /\ ~task[s].late => ~task'[s].late
      BY StepFrame
    <3> QED BY <1>1, <2>1, <2>2, <3>1 DEF PlaceOK, Alike, At, Storing, Running
  <2>3. CASE At(s, "waiting") /\ \E ok \in BOOLEAN : IsTold(s, ok)
    BY <1>1, <2>1, <2>3 DEF PlaceOK, IsTold, AfterRefresh, SameLate, SignInSteps,
                               At, Storing, Running
  <2> QED BY <2>2, <2>3, StepFrame
<1>4. expired' <= settled'
  BY <1>1 DEF PlaceOK
<1>5. ASSUME GoesOn(t) PROVE PlaceOK(t)'
  BY <1>1, <1>4, <1>5
     DEF GoesOn, Ended, Signals, SameRequest, SameLate, SamePublic, SignInSteps,
         PlaceOK, At, Storing, Running
<1>6. ASSUME NEW ok \in BOOLEAN, EndsRefresh(t, ok) PROVE PlaceOK(t)'
  BY <1>1, <1>4, <1>6
     DEF EndsRefresh, IsTold, AfterRefresh, SameLate, SignInSteps,
         PlaceOK, At, Storing, Running
<1>7. ASSUME NEW session \in Tokens, NEW from \in 0 .. Len(issued),
             NEW next \in {"idle", "saveRole", "refreshed"},
             GetsPair(t, session, from, next)
      PROVE  PlaceOK(t)'
  <2>1. task'[t].pair > settled
    BY <1>2, <1>7 DEF GetsPair, New
  <2> QED BY <1>1, <1>4, <1>7, <2>1
          DEF GetsPair, SameLate, SamePublic, SignInSteps, PlaceOK, At, Storing, Running
<1>8. ASSUME StoresToken(t) PROVE PlaceOK(t)'
  BY <1>1, <1>4, <1>8
     DEF StoresToken, SameLate, SamePublic, SignInSteps, PlaceOK, At, Storing, Running
<1>9. ASSUME Wipes(t) \/ SignsOut(t) \/ SignsIn(t) PROVE PlaceOK(t)'
  BY <1>1, <1>4, <1>9
     DEF Wipes, SignsOut, SignsIn, Ended, Signals, SameLate, SamePublic, SignInSteps,
         PlaceOK, At, Storing, Running
<1> QED BY <1>3, <1>5, <1>6, <1>7, <1>8, <1>9, StepKinds

(* A step of the sign-in up to the one that shows its session leaves all   *)
(* the other calls as they are, and so does everyone else leave it.        *)
LEMMA SignInGoesOn ==
    ASSUME TypeInv, OrderInv, NEW t \in Tasks, Step(t)
    PROVE  /\ SigningIn' => SigningIn /\ (t = "signIn" => app' = app /\ SameLate(t))
           /\ SigningIn /\ t # "signIn" => SigningIn'
           /\ SigningIn /\ t = "signIn" =>
                SigningIn' \/ task'[t].pc \in {"idle", "expire"} \/ SignsIn(t)
<1>1. "signIn" \in Tasks /\ \A s \in Tasks : PlaceOK(s)
  BY DEF Tasks, OrderInv
<1>2. CASE t # "signIn"
  <2>1. CASE Alike("signIn")
    BY <1>2, <2>1 DEF Alike, SigningIn
  <2>2. CASE At("signIn", "waiting") /\ \E ok \in BOOLEAN : IsTold("signIn", ok)
    BY <1>2, <2>2 DEF IsTold, SigningIn
  <2> QED BY <1>1, <1>2, <2>1, <2>2, StepFrame
<1>3. CASE t = "signIn" /\ GoesOn(t)
  BY <1>3 DEF GoesOn, Ended, Signals, SigningIn, SameLate, SamePublic
<1>4. CASE t = "signIn" /\ \E ok \in BOOLEAN : EndsRefresh(t, ok)
  BY <1>4 DEF EndsRefresh, IsTold, SigningIn, SameLate
<1>5. CASE t = "signIn" /\ \E session \in Tokens, from \in 0 .. Len(issued),
                  next \in {"idle", "saveRole", "refreshed"} :
                GetsPair(t, session, from, next)
  BY <1>5 DEF GetsPair, SigningIn, SameLate, SamePublic
<1>6. CASE t = "signIn" /\ StoresToken(t)
  BY <1>6 DEF StoresToken, SigningIn, SameLate, SamePublic
<1>7. CASE t = "signIn" /\ (Wipes(t) \/ SignsOut(t) \/ SignsIn(t))
  BY <1>1, <1>7 DEF Wipes, SignsOut, SignsIn, Ended, Signals, SigningIn, SameLate, SamePublic,
                  PlaceOK, SignInSteps, At
<1> QED BY <1>2, <1>3, <1>4, <1>5, <1>6, <1>7, StepKinds

LEMMA AppGoesOn ==
    ASSUME TypeInv, OrderInv, NEW t \in Tasks, Step(t)
    PROVE  \/ app' = app
           \/ SignsOut(t) /\ app'.status = "unauthenticated"
           \/ SignsIn(t) /\ app'.status = "authenticated"
BY StepKinds
   DEF GoesOn, EndsRefresh, GetsPair, StoresToken, Wipes, SignsOut, SignsIn, Ended,
                 SignedOut

LEMMA StartingKept ==
    ASSUME TypeInv, OrderInv, NEW t \in Tasks, Step(t)
    PROVE  Starting'
<1>1. /\ "init" \in Tasks /\ \A s \in Tasks : PlaceOK(s)
      /\ Starting /\ Running(t)
  BY StepFrame DEF Tasks, OrderInv
<1>2. CASE app.status = "unknown"
  <2>1. t = "init" /\ task[t].pc \notin {"expire", "leave", "forget", "saveRole", "show"}
    BY <1>1, <1>2, ClientAssumption DEF Starting, Running, PlaceOK, At
  <2>2. \A s \in Tasks \ {"init"} : At(s, "idle")'
    BY <1>1, <1>2, <2>1, StepFrame DEF Starting, At, Alike
  <2>3. CASE app' = app
    <3>1. task'[t].pc \notin {"expire", "leave"}
      BY <1>2, <2>1, <2>3, StepKinds
         DEF GoesOn, EndsRefresh, IsTold, AfterRefresh, GetsPair, StoresToken,
             Wipes, SignsOut, SignsIn, Signals, Ended, SignedOut, At
    <3> QED BY <1>2, <2>1, <2>2, <2>3, <3>1 DEF Starting
  <2>4. CASE SignsOut(t) \/ SignsIn(t)
    BY <2>1, <2>4 DEF SignsOut, SignsIn, Signals, Ended, SignedOut, Starting, At
  <2> QED BY <2>3, <2>4, AppGoesOn
<1>3. CASE app.status # "unknown"
  <2>1. app'.status # "unknown"
    BY <1>3, AppGoesOn
  <2>2. task["init"].pc \in {"idle", "expire", "leave"}
    BY <1>1, <1>3 DEF Starting
  <2>3. CASE t # "init"
    BY <1>1, <2>1, <2>2, <2>3, StepFrame DEF Starting, Alike, At
  <2>4. CASE t = "init"
    <3>1. task'[t].pc \in {"idle", "expire", "leave"}
      BY <2>2, <2>4, StepKinds
         DEF GoesOn, EndsRefresh, GetsPair, StoresToken, Wipes, SignsOut, SignsIn,
             Signals, Ended, At
    <3> QED BY <2>1, <2>4, <3>1 DEF Starting
  <2> QED BY <2>3, <2>4
<1> QED BY <1>2, <1>3

(* Whoever of the past changes the screens or the storage meddles.         *)
LEMMA AloneKept ==
    ASSUME TypeInv, OrderInv, Alone, NEW t \in Tasks, Step(t), Meddling(t), ~meddled'
    PROVE  Alone'
<1>1. /\ "init" \in Tasks /\ "signIn" \in Tasks /\ \A s \in Tasks : PlaceOK(s)
      /\ Starting /\ Running(t)
  BY StepFrame DEF Tasks, OrderInv
<1>2. app.status \in {"unknown", "authenticated", "unauthenticated"}
  BY DEF TypeInv, StoreOK
<1>3. app' # app => Current(t)
  BY <1>1 DEF Meddling, Current
<1>4. SameLate(t) \/ task'[t].pc = "idle"
  BY StepKinds
     DEF GoesOn, EndsRefresh, IsTold, GetsPair, StoresToken, Wipes, SignsOut,
         SignsIn, Signals, Ended
<1>5. ASSUME NEW u \in Tasks, Current(u)'
      PROVE  Current(u)
  BY <1>1, <1>4, <1>5, StepFrame DEF Current, Running, At, SameLate
<1>6. ASSUME SigningIn'
      PROVE  app'.status = "unauthenticated" /\ ~task'["signIn"].late
  <2>1. SigningIn /\ app.status = "unauthenticated" /\ ~task["signIn"].late
    BY <1>1, <1>6, SignInGoesOn DEF Alone
  <2>2. CASE t = "signIn"
    BY <1>6, <2>1, <2>2, SignInGoesOn DEF SameLate
  <2>3. CASE t # "signIn"
    <3>1. ~task'["signIn"].late
      BY <1>1, <2>1, <2>3, StepFrame
    <3>2. ASSUME SignsIn(t) PROVE FALSE
      <4>1. app' # app
        BY <2>1, <3>2 DEF SignsIn
      <4> QED BY <1>3, <2>1, <2>3, <4>1 DEF Alone
    <3> QED BY <2>1, <3>1, <3>2, AppGoesOn
  <2> QED BY <2>2, <2>3
<1>7. ASSUME app'.status = "unauthenticated", NEW u \in Tasks, Current(u)'
      PROVE  (IF SigningIn THEN u = "signIn"
              ELSE \/ At(u, "keepRole")
                   \/ u \in {"init", "signIn"} /\ task[u].pc \in {"expire", "leave"})'
  <2>1. CASE app.status = "unauthenticated"
    <3>2. Current(u)
      BY <1>5, <1>7
    <3>3. CASE SigningIn
      <4>1. u = "signIn"
        BY <1>1, <2>1, <3>2, <3>3 DEF Alone
      <4>2. SigningIn' \/ task'[u].pc = "expire"
        BY <1>7, <3>3, <4>1, SignInGoesOn DEF SignsIn, Current, Running, At
      <4> QED BY <4>1, <4>2
    <3>4. CASE ~SigningIn
      <4>1. ~SigningIn'
        BY <3>4, SignInGoesOn
      <4>2. \/ At(u, "keepRole")
            \/ u \in {"init", "signIn"} /\ task[u].pc \in {"expire", "leave"}
        BY <1>1, <2>1, <3>2, <3>4 DEF Alone
      <4>3. CASE u = t
        <5>1. At(t, "keepRole") => task'[t].pc = "idle"
          BY StepKinds
             DEF GoesOn, EndsRefresh, GetsPair, StoresToken, Wipes, SignsOut,
                 SignsIn, Signals, Ended, At
        <5>2. task[t].pc \in {"expire", "leave"} => task'[t].pc \in {"idle", "leave"}
          BY <1>1, StepKinds
             DEF GoesOn, EndsRefresh, GetsPair, StoresToken, Wipes, SignsOut,
                 SignsIn, Signals, Ended, Starting, PlaceOK, At
        <5> QED BY <1>7, <4>1, <4>2, <4>3, <5>1, <5>2 DEF Current, Running, At
      <4>4. CASE u # t
        BY <4>1, <4>2, <4>4, StepFrame DEF Alike, At
      <4> QED BY <4>3, <4>4
    <3> QED BY <3>3, <3>4
  <2>2. CASE app.status = "authenticated"
    <3>1. SignsOut(t)
      BY <1>7, <2>2, AppGoesOn
    <3>2. EndFrame(t) /\ task'[t].pc \in {"idle", "keepRole"}
      BY <1>1, <2>2, <3>1 DEF SignsOut, Ended, Signals, Starting, PlaceOK, At
    <3>3. u = t
      BY <1>7, <2>2, <3>2 DEF EndFrame, Alike, Current, Running, At
    <3>4. ~SigningIn'
      BY <1>1, <2>2, SignInGoesOn DEF Alone
    <3> QED BY <1>7, <3>2, <3>3, <3>4 DEF Current, Running, At
  <2>3. CASE app.status = "unknown"
    <3>1. t = "init"
      BY <1>1, <2>3 DEF Starting, Running
    <3>2. u = "init"
      BY <1>1, <1>5, <1>7, <2>3 DEF Starting, Current, Running
    <3>3. ~SigningIn'
      BY <1>1, <2>3, SignInGoesOn DEF Alone
    <3>4. task'[u].pc \in {"idle", "expire"}
      <4>1. SignsOut(t)
        BY <1>7, <2>3, AppGoesOn
      <4> QED BY <1>1, <2>3, <3>1, <3>2, <4>1
              DEF SignsOut, Ended, Signals, Starting, PlaceOK, At
    <3> QED BY <1>7, <3>2, <3>3, <3>4 DEF Current, Running, At
  <2> QED BY <1>2, <2>1, <2>2, <2>3
<1>8. ASSUME app'.status = "authenticated", Current("signIn")',
             NEW u \in Tasks, Current(u)'
      PROVE  u = "signIn"
  <2>1. Current(u) /\ Current("signIn")
    BY <1>1, <1>5, <1>8
  <2>2. CASE app.status = "authenticated"
    BY <2>1, <2>2 DEF Alone
  <2>3. CASE app.status = "unauthenticated"
    <3>1. SignsIn(t) /\ Current(t)
      BY <1>3, <1>8, <2>3, AppGoesOn
    <3>2. SigningIn
      BY <1>1, <2>3, <3>1 DEF SignsIn, Alone, Starting, PlaceOK, At
    <3> QED BY <2>1, <2>3, <3>2 DEF Alone
  <2>4. CASE app.status = "unknown"
    BY <1>1, <2>1, <2>4 DEF Starting, Current, Running
  <2> QED BY <1>2, <2>2, <2>3, <2>4
<1> QED BY <1>6, <1>7, <1>8 DEF Alone
-----------------------------------------------------------------------------
(* Calls begin and time passes: nobody's steps, storage and screens keep   *)
(* their session.                                                          *)
Begun(s) ==
    /\ At(s, "idle")
    /\ \/ /\ app.status = "authenticated" /\ At("signIn", "idle")
          /\ \/ s \notin {"init", "signIn", "logout"} /\ task'[s].pc = "check"
             \/ s = "logout" /\ task'[s].pc = "logout"
          /\ task'[s].refused = task[s].refused /\ SameLate(s) /\ SamePublic(s)
          /\ \A u \in Tasks \ {s} : Alike(u) /\ SameLate(u)
       \/ /\ app.status = "unauthenticated"
          /\ s = "signIn" /\ task'[s].pc = "verify"
          /\ ~task'[s].late /\ task'[s].public
          /\ \A u \in Tasks \ {s} :
                Alike(u) /\ task'[u].late = (task[u].late \/ Running(u))
    /\ settled' = IF AtRest THEN Len(issued) ELSE settled
    /\ UNCHANGED expired

Passes ==
    /\ UNCHANGED <<task, settled>>
    /\ expired' = expired \/ expired' <= (IF AtRest THEN Len(issued) ELSE settled)

LEMMA OtherKinds ==
    ASSUME TypeInv, Other, ~Kill
    PROVE  /\ SameTokens /\ (store.expiry = "none" => store'.expiry = "none")
           /\ UNCHANGED <<app, issued, live, faulty, torn>>
           /\ (\E s \in Tasks : Begun(s)) \/ Passes
<1>1. /\ task = [u \in Tasks |-> task[u]]
      /\ \A s \in Tasks : task[s] \in CallsOfTasks
      /\ store \in [access : 0 .. Len(issued), refresh : 0 .. Len(issued),
                    expiry : {"none", "later", "past"}, role : BOOLEAN]
  BY DEF TypeInv, TasksOK, CallOK, StoreOK
<1>2. /\ SameTokens /\ (store.expiry = "none" => store'.expiry = "none")
      /\ UNCHANGED <<app, issued, live, faulty, torn>>
  BY <1>1
     DEF Other, Request, SignIn, LogOut, ExpiryComes, TokensExpire, RefreshTokensLapse,
         Begin, Save, SameTokens, server, limits
<1>3. ASSUME NEW s \in Tasks, NEW pc \in {"check", "logout"}, Goto(s, pc)
      PROVE  /\ task'[s].pc = pc /\ task'[s].refused = task[s].refused
             /\ SameLate(s) /\ SamePublic(s)
             /\ \A u \in Tasks \ {s} : Alike(u) /\ SameLate(u)
  BY <1>1, <1>3 DEF Goto, Alike, SameLate, SamePublic, CallsOfTasks
<1>4. OnScreens => app.status = "authenticated" /\ At("signIn", "idle")
  BY DEF OnScreens
<1>5. /\ Screens \subseteq Tasks /\ {"signIn", "logout"} \subseteq Tasks
      /\ \A s \in Screens : s \notin {"init", "signIn", "logout"}
  BY ClientAssumption DEF Tasks
<1>6. ASSUME NEW s \in Screens, Request(s) PROVE Begun(s)
  BY <1>3, <1>4, <1>5, <1>6 DEF Request, Begin, Begun, server
<1>7. ASSUME LogOut PROVE Begun("logout")
  BY <1>3, <1>4, <1>5, <1>7 DEF LogOut, Begin, Begun, server
<1>8. ASSUME SignIn PROVE Begun("signIn")
  <2>1. /\ task'["signIn"] = [Idle EXCEPT !.pc = "verify", !.public = TRUE]
        /\ \A u \in Tasks \ {"signIn"} :
              task'[u] = [task[u] EXCEPT !.late = @ \/ Running(u)]
    BY <1>5, <1>8 DEF SignIn, Overtake
  <2>2. /\ task'["signIn"].pc = "verify"
        /\ ~task'["signIn"].late /\ task'["signIn"].public
        /\ \A u \in Tasks \ {"signIn"} :
              Alike(u) /\ task'[u].late = (task[u].late \/ Running(u))
    <3>1. Overtake("signIn", [Idle EXCEPT !.pc = "verify", !.public = TRUE])
      BY <1>8 DEF SignIn
    <3>2. \A u \in Tasks \ {"signIn"} :
             Alike(u) /\ task'[u].late = (task[u].late \/ Running(u))
      BY <1>1, <3>1 DEF Overtake, Alike, CallsOfTasks
    <3> QED BY <2>1, <3>2 DEF Idle
  <2> QED BY <1>8, <2>2 DEF SignIn, Begin, Begun, server
<1>9. ASSUME ExpiryComes \/ TokensExpire \/ RefreshTokensLapse PROVE Passes
  BY <1>9, LenIssued
     DEF ExpiryComes, TokensExpire, RefreshTokensLapse, Passes, server, limits,
         TypeInv, ServerOK
<1> QED BY <1>2, <1>5, <1>6, <1>7, <1>8, <1>9 DEF Other

LEMMA KillKind ==
    ASSUME TypeInv, Kill
    PROVE  /\ SameTokens
           /\ UNCHANGED <<issued, live, expired>>
           /\ app'.status = "unknown" /\ faulty' /\ torn' = (torn \/ Mixed)
           /\ settled' = Len(issued)
           /\ \A s \in Tasks : /\ task'[s].pc = IF s = "init" THEN "readStore" ELSE "idle"
                               /\ ~task'[s].refused /\ ~task'[s].late
                               /\ ~task'[s].public
BY DEF Kill, Started, Idle, SameTokens, server

LEMMA OrderAtFirst == Init => OrderInv /\ AloneInv
<1> SUFFICES ASSUME Init PROVE OrderInv /\ AloneInv
  OBVIOUS
<1>1. /\ \A s \in Tasks : /\ task[s].pc = IF s = "init" THEN "readStore" ELSE "idle"
                          /\ ~task[s].refused /\ ~task[s].late /\ ~task[s].public
      /\ app.status = "unknown" /\ expired = 0 /\ settled = 0
  BY DEF Init, Started, Idle
<1>2. "init" \in Tasks /\ "signIn" \in Tasks
  BY DEF Tasks
<1>3. \A s \in Tasks : PlaceOK(s)
  BY <1>1 DEF PlaceOK, At, Storing
<1> QED BY <1>1, <1>2, <1>3 DEF OrderInv, AloneInv, Starting, Alone, SigningIn, At

LEMMA OrderKeptByOthers ==
    ASSUME TypeInv, OrderInv, Other
    PROVE  OrderInv' /\ (Alone => Alone')
<1>1. /\ "init" \in Tasks /\ "signIn" \in Tasks /\ \A s \in Tasks : PlaceOK(s)
      /\ Starting
      /\ expired \in 0 .. Len(issued) /\ settled \in 0 .. Len(issued)
      /\ Len(issued) \in Nat
      /\ expired' \in Nat
  BY LenIssued
     DEF Tasks, OrderInv, TypeInv, ServerOK, Other, Request, SignIn, LogOut, Kill,
         ExpiryComes, TokensExpire, RefreshTokensLapse, server
<1>2. CASE Kill
  <2>1. \A s \in Tasks : PlaceOK(s)'
    BY <1>1, <1>2, KillKind DEF PlaceOK, At, Storing
  <2>2. Starting' /\ Alone'
    BY <1>1, <1>2, KillKind DEF Starting, Alone, SigningIn, At
  <2> QED BY <2>1, <2>2 DEF OrderInv
<1>3. CASE Passes /\ app' = app
  <2>1. \A s \in Tasks : PlaceOK(s)'
    BY <1>1, <1>3 DEF Passes, AtRest, PlaceOK, At, Storing, Running
  <2>2. Starting' /\ (Alone => Alone')
    BY <1>1, <1>3
       DEF Passes, Starting, Alone, SigningIn, At, Current, Running
  <2> QED BY <2>1, <2>2 DEF OrderInv
<1>4. ASSUME NEW s \in Tasks, Begun(s), app' = app
      PROVE  OrderInv' /\ (Alone => Alone')
  <2>1. \A u \in Tasks \ {s} : Alike(u)
    BY <1>4 DEF Begun
  <2>2. expired' <= settled' /\ UNCHANGED expired
    BY <1>1, <1>4 DEF Begun, AtRest, PlaceOK, Running
  <2>3. ASSUME NEW u \in Tasks \ {s} PROVE PlaceOK(u)'
    <3>1. Storing(u) => settled' = settled
      BY <1>4 DEF Begun, AtRest, Storing, At
    <3>2. ~Running(u) /\ ~task[u].late => ~task'[u].late
      BY <1>4 DEF Begun, SameLate
    <3> QED BY <1>1, <2>1, <2>2, <3>1, <3>2 DEF PlaceOK, Alike, At, Storing, Running
  <2>4. PlaceOK(s)'
    BY <1>1, <1>4, <2>2
       DEF Begun, SamePublic, PlaceOK, SignInSteps, At, Storing, Running
  <2>5. Starting'
    BY <1>1, <1>4, <2>1 DEF Begun, Starting, Alike, At
  <2>6. CASE app.status = "authenticated"
    <3>1. At("signIn", "idle") /\ s # "signIn"
      BY <1>4, <2>6 DEF Begun
    <3>2. At("signIn", "idle")' /\ ~SigningIn'
      BY <1>1, <2>1, <2>3, <3>1 DEF Alike, SigningIn, PlaceOK, SignInSteps, At
    <3>3. Alone'
      BY <1>4, <2>6, <3>2 DEF Alone, Current, Running, At
    <3> QED BY <2>3, <2>4, <2>5, <3>3 DEF OrderInv
  <2>7. CASE app.status = "unauthenticated"
    <3>1. /\ s = "signIn" /\ SigningIn' /\ ~task'[s].late
          /\ \A u \in Tasks \ {s} : ~Current(u)'
      BY <1>4, <2>1, <2>7 DEF Begun, SigningIn, Current, Running, At, Alike
    <3>2. Alone'
      BY <1>4, <2>7, <3>1 DEF Alone
    <3> QED BY <2>3, <2>4, <2>5, <3>2 DEF OrderInv
  <2> QED BY <1>4, <2>6, <2>7 DEF Begun
<1> QED BY <1>2, <1>3, <1>4, OtherKinds

LEMMA OrderKept ==
    ASSUME TypeInv, OrderInv, [Next]_vars
    PROVE  OrderInv'
<1>1. CASE \E t \in Tasks : Step(t)
  BY <1>1, PlacesKept, StartingKept DEF OrderInv
<1>2. CASE UNCHANGED vars
  BY <1>2 DEF vars, server, limits, OrderInv, PlaceOK, Starting, Storing, Running, At
<1> QED BY <1>1, <1>2, OrderKeptByOthers, StepOrOther

LEMMA AloneInvKept ==
    ASSUME TypeInv, OrderInv, AloneInv, [Next]_vars
    PROVE  AloneInv'
<1>1. CASE \E t \in Tasks : Step(t) /\ Meddling(t)
  BY <1>1, AloneKept DEF AloneInv, Meddling
<1>2. CASE Other /\ UNCHANGED meddled
  BY <1>2, OrderKeptByOthers DEF AloneInv
<1>3. CASE UNCHANGED vars
  BY <1>3 DEF vars, AloneInv, Alone, SigningIn, Current, Running, At
<1> QED BY <1>1, <1>2, <1>3, StepOrOther
-----------------------------------------------------------------------------
LEMMA LiveKeptByStep ==
    ASSUME RefreshInv, OrderInv, LiveInv, NEW t \in Tasks, Step(t)
    PROVE  LiveInv'
<1> SUFFICES ASSUME ~faulty' PROVE Works'
  BY DEF LiveInv
<1>1. /\ TypeInv /\ Works /\ OneRefresh /\ UnsavedFresh
      /\ Len(issued) \in Nat /\ store.refresh \in 0 .. Len(issued)
      /\ live \subseteq 1 .. Len(issued)
  BY StepFrame, LenIssued DEF RefreshInv, LiveInv, TypeInv, StoreOK, ServerOK
<1>2. \A s \in Tasks \ {t} : /\ Unsaved(s)' <=> Unsaved(s)
                             /\ At(s, "posting")' <=> At(s, "posting")
                             /\ Unsaved(s) \/ At(s, "posting") => Alike(s)
  BY <1>1, StepFrame DEF Alike, IsTold, AfterRefresh, Unsaved, At
<1>3. \A s \in Tasks : Unsaved(s) \/ At(s, "posting") => task[s].pair \in 1 .. Len(issued)
  BY <1>1 DEF TypeInv, TasksOK, CallOK, Unsaved, At, PairSteps
<1>4. \A s \in Tasks : InRefresh(s) /\ InRefresh(t) => s = t
  BY <1>1 DEF OneRefresh
<1>5. CASE GoesOn(t)
  <2>1. ~Unsaved(t) /\ ~Unsaved(t)'
    BY <1>5 DEF GoesOn, Ended, Signals, Unsaved, At
  <2>2. ASSUME At(t, "posting")' PROVE task'[t].pair \in live
    <3>1. At(t, "refresh") /\ task'[t].pair = store.refresh /\ store.refresh # 0
      BY <1>5, <2>2 DEF GoesOn, Ended, Signals, At
    <3>2. ~(\E s \in Tasks : /\ Unsaved(s) /\ task[s].next = "refreshed"
                             /\ issued[task[s].pair].from = store.refresh)
      BY <1>4, <3>1 DEF InRefresh, Unsaved, Storing, At
    <3> QED BY <1>1, <3>1, <3>2 DEF Works
  <2>3. UNCHANGED <<issued, live>> /\ store'.refresh = store.refresh
    BY <1>5 DEF GoesOn, SameTokens, server
  <2> QED BY <1>1, <1>2, <2>1, <2>2, <2>3 DEF Works, Alike
<1>6. ASSUME NEW ok \in BOOLEAN, EndsRefresh(t, ok) PROVE Works'
  <2>1. UNCHANGED <<issued, live>> /\ store'.refresh = store.refresh
    BY <1>1, <1>6 DEF EndsRefresh, SameTokens, Works
  <2>2. ~Unsaved(t) /\ ~Unsaved(t)' /\ ~At(t, "posting")'
    BY <1>6 DEF EndsRefresh, IsTold, AfterRefresh, Unsaved, At
  <2> QED BY <1>1, <1>2, <2>1, <2>2 DEF Works, Alike
<1>7. ASSUME NEW session \in Tokens, NEW from \in 0 .. Len(issued),
             NEW next \in {"idle", "saveRole", "refreshed"},
             GetsPair(t, session, from, next)
      PROVE  Works'
  <2>1. /\ issued' = Append(issued, [session |-> session, from |-> from])
        /\ live' = (live \ {from}) \cup {New} /\ store' = store
        /\ task'[t].pc = "saveAccess" /\ task'[t].pair = New /\ task'[t].next = next
    BY <1>7 DEF GetsPair, Issue
  <2>2. /\ \A n \in 1 .. Len(issued) : issued'[n].from = issued[n].from
        /\ issued'[New].from = from
    <3>1. Issue(session, from) /\ UNCHANGED <<limits, replaced>> /\ ServerOK
      BY <1>1, <1>7 DEF GetsPair, TypeInv
    <3>2. /\ \A n \in 1 .. Len(issued) : issued'[n] = issued[n]
          /\ issued'[New] = [session |-> session, from |-> from]
      BY <3>1, Issued
    <3> QED BY <3>2
  <2>3. ASSUME NEW s \in Tasks, Unsaved(s)' \/ At(s, "posting")'
        PROVE  task'[s].pair \in live'
    <3>1. CASE s = t
      BY <2>1, <3>1
    <3>2. CASE s # t
      <4>1. task'[s].pair \in live
        BY <1>1, <1>2, <2>3, <3>2 DEF Works, Alike
      <4>2. task'[s].pair = task[s].pair /\ (Unsaved(s) \/ At(s, "posting"))
        BY <1>2, <2>3, <3>2 DEF Alike
      <4>3. CASE from = 0
        BY <1>1, <2>1, <4>1, <4>3
      <4>4. CASE At(t, "posting") /\ from = task[t].pair
        <5>1. ~At(s, "posting")
          BY <1>4, <3>2, <4>4 DEF InRefresh, At
        <5>2. task[s].pair # task[t].pair
          BY <1>1, <4>2, <4>4, <5>1 DEF UnsavedFresh, Unknown
        <5> QED BY <2>1, <4>1, <4>2, <4>4, <5>2
      <4> QED BY <1>7, <4>3, <4>4 DEF GetsPair
    <3> QED BY <3>1, <3>2
  <2>4. CASE store.refresh \in live \cup {0} /\ store.refresh # from
    BY <2>1, <2>3, <2>4 DEF Works
  <2>5. CASE store.refresh = from
    <3>1. CASE from = 0
      BY <2>1, <2>3, <2>5, <3>1 DEF Works
    <3>2. CASE next = "refreshed"
      BY <2>1, <2>2, <2>3, <2>5, <3>2 DEF Works, Unsaved
    <3> QED BY <1>7, <3>1, <3>2 DEF GetsPair
  <2>6. ASSUME NEW s \in Tasks, Unsaved(s), task[s].next = "refreshed",
               issued[task[s].pair].from = store.refresh
        PROVE  Works'
    <3>1. s # t
      BY <1>7, <2>6 DEF GetsPair, Unsaved, At
    <3>2. /\ Unsaved(s)' /\ task'[s].next = "refreshed"
          /\ issued'[task'[s].pair].from = store.refresh
      BY <1>2, <1>3, <2>2, <2>6, <3>1 DEF Alike
    <3> QED BY <2>1, <2>3, <3>2 DEF Works
  <2> QED BY <1>1, <2>4, <2>5, <2>6 DEF Works
<1>8. CASE StoresToken(t)
  <2>1. /\ UNCHANGED <<issued, live>> /\ Unsaved(t)
        /\ task'[t].pair = task[t].pair /\ task'[t].next = task[t].next
        /\ ~At(t, "posting")'
    BY <1>8 DEF StoresToken, server, Unsaved, At
  <2>2. \A s \in Tasks : Unsaved(s)' \/ At(s, "posting")' => task'[s].pair \in live
    BY <1>1, <1>2, <2>1 DEF Works, Alike
  <2>3. CASE At(t, "saveAccess")
    <3>1. store'.refresh = store.refresh /\ Unsaved(t)'
      BY <1>8, <2>3 DEF StoresToken, Unsaved, At
    <3> QED BY <1>1, <1>2, <2>1, <2>2, <3>1 DEF Works, Alike
  <2>4. CASE At(t, "saveRefresh")
    <3>1. store'.refresh = task[t].pair
      BY <1>8, <2>4 DEF StoresToken, At
    <3> QED BY <1>1, <2>1, <2>2, <3>1 DEF Works
  <2> QED BY <1>8, <2>3, <2>4 DEF StoresToken
<1>9. CASE Wipes(t)
  <2>1. UNCHANGED <<issued, live>> /\ store'.refresh = 0
    BY <1>9 DEF Wipes, Empty, server
  <2>2. ~Unsaved(t)' /\ ~At(t, "posting")'
    BY <1>9 DEF Wipes, Unsaved, At
  <2> QED BY <1>1, <1>2, <2>1, <2>2 DEF Works, Alike
<1>10. CASE SignsOut(t) \/ SignsIn(t)
  <2>1. UNCHANGED <<issued, live>> /\ store'.refresh = store.refresh
    BY <1>10 DEF SignsOut, SignsIn, SameTokens, server
  <2>2. ~Unsaved(t) /\ ~Unsaved(t)' /\ ~At(t, "posting")'
    BY <1>10 DEF SignsOut, SignsIn, Ended, Signals, Unsaved, At
  <2> QED BY <1>1, <1>2, <2>1, <2>2 DEF Works, Alike
<1> QED BY <1>1, <1>5, <1>6, <1>7, <1>8, <1>9, <1>10, StepKinds

LEMMA LiveKept ==
    ASSUME RefreshInv, OrderInv, LiveInv, [Next]_vars
    PROVE  LiveInv'
<1>1. CASE Kill
  BY <1>1, KillKind DEF LiveInv, RefreshInv
<1>2. CASE Other /\ ~Kill
  <2>1. /\ UNCHANGED <<issued, live, faulty>> /\ store'.refresh = store.refresh
        /\ (\E s \in Tasks : Begun(s)) \/ Passes
    BY <1>2, OtherKinds DEF RefreshInv, SameTokens
  <2>2. \A s \in Tasks : /\ Unsaved(s)' <=> Unsaved(s)
                         /\ At(s, "posting")' <=> At(s, "posting")
                         /\ Unsaved(s) => task'[s].next = task[s].next
                         /\ Unsaved(s) \/ At(s, "posting") => task'[s].pair = task[s].pair
    BY <2>1 DEF Begun, Passes, Alike, Unsaved, At
  <2> QED BY <2>1, <2>2 DEF LiveInv, Works
<1>3. CASE UNCHANGED vars
  BY <1>3 DEF vars, server, limits, LiveInv, Works, Unsaved, At
<1> QED BY <1>1, <1>2, <1>3, LiveKeptByStep, StepOrOther
-----------------------------------------------------------------------------
(* The pairs that were issued keep their session.                          *)
LEMMA SessKept ==
    ASSUME TypeInv, NEW t \in Tasks, Step(t), NEW n \in 1 .. Len(issued)
    PROVE  Sess(n)' = Sess(n)
<1>1. CASE UNCHANGED issued
  BY <1>1 DEF Sess
<1>2. ASSUME NEW session \in Tokens, NEW from \in 0 .. Len(issued),
             NEW next \in {"idle", "saveRole", "refreshed"},
             GetsPair(t, session, from, next)
      PROVE  Sess(n)' = Sess(n)
  <2>1. Issue(session, from) /\ UNCHANGED <<limits, replaced>> /\ ServerOK
    BY <1>2 DEF GetsPair, TypeInv
  <2>2. issued'[n] = issued[n]
    BY <2>1, Issued
  <2> QED BY <2>2 DEF Sess
<1> QED BY <1>1, <1>2, StepKinds
        DEF GoesOn, Ended, EndsRefresh, StoresToken, Wipes, SignsOut, SignsIn,
            Ended, server

LEMMA NewSess ==
    ASSUME TypeInv, NEW t \in Tasks, NEW session \in Tokens,
           NEW from \in 0 .. Len(issued),
           NEW next \in {"idle", "saveRole", "refreshed"},
           GetsPair(t, session, from, next)
    PROVE  Sess(task[t].pair)' = session
<1>1. Issue(session, from) /\ UNCHANGED <<limits, replaced>> /\ ServerOK
  BY DEF GetsPair, TypeInv
<1>2. issued'[New] = [session |-> session, from |-> from]
  BY <1>1, Issued
<1> QED BY <1>2 DEF Sess, GetsPair

LEMMA PairsOfCalls ==
    ASSUME TypeInv, NEW s \in Tasks
    PROVE  /\ Storing(s) \/ task[s].pc \in {"posting", "saveRole", "show"} =>
                 task[s].pair \in 1 .. Len(issued)
           /\ task[s].token # 0 => task[s].token \in 1 .. Len(issued)
           /\ store.access # 0 => store.access \in 1 .. Len(issued)
           /\ store.refresh # 0 => store.refresh \in 1 .. Len(issued)
<1>1. Len(issued) \in Nat
  BY LenIssued DEF TypeInv
<1> QED BY <1>1 DEF TypeInv, TasksOK, CallOK, StoreOK, Storing, PairSteps

(* A call that is late leaves storage and screens alone, or it meddles.    *)
LEMMA LateLeaves ==
    ASSUME TypeInv, NEW t \in Tasks, Step(t), Meddling(t), ~meddled'
    PROVE  /\ ~meddled
           /\ ~Current(t) => store' = store /\ app' = app
<1>1. Running(t)
  BY StepFrame
<1> QED BY <1>1 DEF Meddling, Current

LEMMA SignInShownKept ==
    ASSUME TypeInv, OrderInv, Alone, SignInShown,
           NEW t \in Tasks, Step(t), Meddling(t), ~meddled'
    PROVE  SignInShown'
<1> SUFFICES ASSUME SigningIn' PROVE SignInShown'
  BY DEF SignInShown
<1>1. /\ SigningIn /\ app.status = "unauthenticated" /\ "signIn" \in Tasks
      /\ \A s \in Tasks : PlaceOK(s)
      /\ task["signIn"].pc \in SignInSteps
  BY SignInGoesOn DEF OrderInv, Alone, Tasks, PlaceOK, SigningIn
<1>2. CASE t # "signIn"
  <2>1. ~Current(t)
    BY <1>1, <1>2 DEF Alone
  <2>2. store' = store
    BY <2>1, LateLeaves
  <2>3. CASE Alike("signIn")
    BY <1>1, <2>2, <2>3 DEF SignInShown, Stored, Alike
  <2>4. CASE \E ok \in BOOLEAN : IsTold("signIn", ok)
    BY <2>4 DEF IsTold, AfterRefresh, SignInShown, Stored
  <2> QED BY <1>1, <1>2, <2>3, <2>4, StepFrame
<1>3. ASSUME t = "signIn", GoesOn(t) PROVE SignInShown'
  BY <1>1, <1>3
     DEF GoesOn, Ended, Signals, SameTokens, SignInShown, Stored, SignInSteps, At
<1>4. ASSUME t = "signIn", NEW ok \in BOOLEAN, EndsRefresh(t, ok) PROVE SignInShown'
  BY <1>4 DEF EndsRefresh, IsTold, AfterRefresh, SignInShown, Stored
<1>5. ASSUME t = "signIn", NEW session \in Tokens, NEW from \in 0 .. Len(issued),
             NEW next \in {"idle", "saveRole", "refreshed"},
             GetsPair(t, session, from, next)
      PROVE  SignInShown'
  BY <1>5 DEF GetsPair, SignInShown, Stored
<1>6. ASSUME t = "signIn", StoresToken(t) PROVE SignInShown'
  BY <1>1, <1>6 DEF StoresToken, SignInShown, Stored, SigningIn, At
<1>7. ASSUME t = "signIn", Wipes(t) \/ SignsOut(t) \/ SignsIn(t) PROVE SignInShown'
  BY <1>1, <1>7
     DEF Wipes, SignsOut, SignsIn, Ended, Signals, SignInShown, Stored, SigningIn, At
<1> QED BY <1>2, <1>3, <1>4, <1>5, <1>6, <1>7, StepKinds

LEMMA StartShownKept ==
    ASSUME TypeInv, OrderInv, StartShown, NEW t \in Tasks, Step(t)
    PROVE  StartShown'
<1> SUFFICES ASSUME app'.status = "unknown" PROVE StartShown'
  BY DEF StartShown
<1>1. /\ app' = app /\ app.status = "unknown"
      /\ \A s \in Tasks : PlaceOK(s)
  BY AppGoesOn DEF OrderInv
<1>2. t = "init" /\ ~task[t].public
      /\ task[t].pc \notin {"expire", "leave", "logout", "verify", "saveRole", "show"}
  BY <1>1, StepFrame, ClientAssumption DEF OrderInv, Starting, Running, PlaceOK, At
<1> DEFINE n == Sess(store.access)
<1>3. /\ store.access # 0 /\ store.refresh # 0 => Sess(store.refresh) = n
      /\ Trying => store.access # 0 /\ Holds(t, n)
  BY <1>1, <1>2 DEF StartShown
<1>4. /\ \A k \in 1 .. Len(issued) : Sess(k)' = Sess(k)
      /\ Storing(t) \/ At(t, "posting") => task[t].pair \in 1 .. Len(issued) /\ task[t].pair # 0
      /\ task[t].token # 0 => task[t].token \in 1 .. Len(issued)
      /\ store.access # 0 => store.access \in 1 .. Len(issued)
      /\ store.refresh # 0 => store.refresh \in 1 .. Len(issued)
  BY SessKept, PairsOfCalls, LenIssued DEF At, TypeInv
<1>5. SameTokens /\ UNCHANGED issued /\ Trying /\ (Trying' => Holds(t, n)') => StartShown'
  BY <1>1, <1>2, <1>3 DEF StartShown, SameTokens, Sess
<1>6. ASSUME GoesOn(t) PROVE StartShown'
  <2>1. /\ SameTokens /\ UNCHANGED issued
        /\ Sess(task[t].pair)' = issued[task'[t].pair].session
        /\ Sess(task[t].token)' = issued[task'[t].token].session
        /\ n' = n
    BY <1>6 DEF GoesOn, server, Sess, SameTokens
  <2>2. Trying' => store.access # 0
    BY <1>2, <1>3, <1>6 DEF GoesOn, Ended, Signals, Trying, At
  <2>3. Trying' => Holds(t, n)'
    <3> SUFFICES ASSUME Trying' PROVE Holds(t, n)'
      OBVIOUS
    <3>1. Storing(t)' \/ At(t, "posting")' => Sess(task[t].pair)' = n
      BY <1>2, <1>3, <1>6, <2>1, <2>2 DEF GoesOn, Ended, Signals, Storing, At, Sess
    <3>2. task'[t].pc \in {"reattach", "sent"} /\ task'[t].token # 0 => Sess(task[t].token)' = n
      BY <1>2, <1>3, <1>6, <2>1, <2>2
         DEF GoesOn, Ended, Signals, SameRequest, Trying, Holds, At, Sess
    <3> QED BY <1>2, <2>1, <3>1, <3>2 DEF Holds, Trying, At
  <2> QED BY <1>1, <1>2, <1>3, <2>1, <2>2, <2>3 DEF StartShown, SameTokens, Sess
<1>7. ASSUME NEW ok \in BOOLEAN, EndsRefresh(t, ok) PROVE StartShown'
  <2>1. Trying /\ SameTokens /\ UNCHANGED issued
    BY <1>2, <1>7 DEF EndsRefresh, Trying, At
  <2>2. Holds(t, n)'
    BY <1>7 DEF EndsRefresh, IsTold, AfterRefresh, Holds, Storing, At
  <2> QED BY <1>5, <2>1, <2>2
<1>8. ASSUME NEW session \in Tokens, NEW from \in 0 .. Len(issued),
             NEW next \in {"idle", "saveRole", "refreshed"},
             GetsPair(t, session, from, next)
      PROVE  StartShown'
  <2>1. At(t, "posting") /\ session = Sess(task[t].pair)
    BY <1>1, <1>2, <1>8 DEF GetsPair, PlaceOK, At
  <2>2. session = n /\ store.access # 0
    BY <1>2, <1>3, <2>1 DEF Trying, Holds, At
  <2>3. store' = store
    BY <1>8 DEF GetsPair
  <2>4. Holds(t, n)'
    BY <1>4, <1>8, <2>2, <2>3, NewSess DEF GetsPair, Holds, Storing
  <2> QED BY <1>2, <1>3, <1>4, <2>2, <2>3, <2>4 DEF StartShown
<1>9. ASSUME StoresToken(t) PROVE StartShown'
  <2>1. UNCHANGED issued /\ Trying /\ task'[t].pair = task[t].pair /\ Storing(t)
    BY <1>2, <1>9 DEF StoresToken, server, Trying, Storing, At
  <2>2. Sess(task[t].pair) = n
    BY <1>3, <2>1 DEF Holds
  <2>3. Sess(store'.access) = n /\ store'.access # 0 /\ (store'.refresh # 0 => Sess(store'.refresh) = n)
    BY <1>3, <1>4, <1>9, <2>1, <2>2 DEF StoresToken
  <2>4. n' = n /\ Sess(store.refresh)' = Sess(store'.refresh) /\ Sess(task[t].pair)' = Sess(task[t].pair)
    BY <2>1, <2>3 DEF Sess
  <2>5. Holds(t, n)'
    BY <1>9, <2>2, <2>4 DEF StoresToken, Holds
  <2> QED BY <1>2, <2>3, <2>4, <2>5 DEF StartShown
<1>10. ASSUME Wipes(t) PROVE StartShown'
  BY <1>2, <1>10 DEF Wipes, Empty, StartShown, Trying, At
<1>11. ~SignsOut(t) /\ ~SignsIn(t)
  BY <1>1 DEF SignsOut, SignsIn, Ended, SignedOut
<1> QED BY <1>6, <1>7, <1>8, <1>9, <1>10, <1>11, StepKinds

LEMMA LeavingKept ==
    ASSUME TypeInv, OrderInv, NEW t \in Tasks, Step(t), Leaving,
           app'.status = "authenticated", app' = app
    PROVE  Leaving'
<1>1. \A s \in Tasks \ {t} : At(s, "waiting") \/ Alike(s)
  BY StepFrame
<1>2. /\ "logout" \in Tasks /\ PlaceOK(t)
  BY DEF Tasks, OrderInv
<1>3. ~SignsOut(t)
  BY DEF SignsOut, SignedOut
<1>4. CASE At("logout", "forget")
  <2>1. t # "logout"
    BY <1>3, <1>4, StepKinds
       DEF GoesOn, EndsRefresh, GetsPair, StoresToken, Wipes, SignsIn,
           Signals, Ended, At
  <2> QED BY <1>1, <1>2, <1>4, <2>1 DEF Leaving, Alike, At
<1>5. ASSUME NEW s \in Tasks, task[s].pc \in {"restore", "expire", "leave"}
      PROVE  task'[s].pc \in {"restore", "expire", "leave"}
  <2>1. CASE s # t
    BY <1>1, <1>5, <2>1 DEF Alike, At
  <2>2. CASE s = t
    BY <1>3, <1>5, <2>2, StepKinds
       DEF GoesOn, EndsRefresh, GetsPair, StoresToken, Wipes, SignsIn,
           Signals, Ended, At
  <2> QED BY <2>1, <2>2
<1> QED BY <1>4, <1>5 DEF Leaving

LEMMA SessionShownKept ==
    ASSUME TypeInv, OrderInv, Alone, SessionShown, NEW t \in Tasks, Step(t), Meddling(t),
           ~meddled', app' = app
    PROVE  SessionShown'
<1> DEFINE n == app.session
<1> SUFFICES ASSUME app.status = "authenticated" PROVE SessionShown'
  BY DEF SessionShown
<1>1. /\ OfSession(n)
      /\ store.access # 0 \/ Leaving
      /\ \A s \in Tasks : Current(s) => Holds(s, n)
      /\ \A s \in Tasks : PlaceOK(s)
      /\ n' = n
      /\ ~SigningIn
  BY DEF SessionShown, OrderInv, Alone
<1>2. /\ \A k \in 1 .. Len(issued) : Sess(k)' = Sess(k)
      /\ \A s \in Tasks :
            /\ Storing(s) \/ task[s].pc \in {"posting", "saveRole", "show"} =>
                  task[s].pair \in 1 .. Len(issued)
            /\ task[s].token # 0 => task[s].token \in 1 .. Len(issued)
      /\ store.access # 0 => store.access \in 1 .. Len(issued)
      /\ store.refresh # 0 => store.refresh \in 1 .. Len(issued)
  BY SessKept, PairsOfCalls DEF At
<1> HIDE DEF n
<1>3. ASSUME NEW s \in Tasks \ {t}, Current(s)' PROVE Holds(s, n)'
  <2>1. Current(s) /\ Holds(s, n)
    BY <1>1, <1>3, StepFrame
  <2>2. CASE Alike(s)
    BY <1>1, <1>2, <2>1, <2>2 DEF Alike, Holds, Storing, At, Sess
  <2>3. CASE \E ok \in BOOLEAN : IsTold(s, ok)
    BY <2>3 DEF IsTold, AfterRefresh, Holds, Storing, At
  <2> QED BY <2>2, <2>3, StepFrame
<1>4. ASSUME SameTokens PROVE OfSession(n)'
  BY <1>1, <1>2, <1>4 DEF OfSession, SameTokens, Sess
<1>5. ASSUME OfSession(n)', (store.access # 0 \/ Leaving)', Current(t)' => Holds(t, n)'
      PROVE  SessionShown'
  BY <1>1, <1>3, <1>5 DEF SessionShown, n
<1>6. ASSUME SameTokens PROVE (store.access # 0 \/ Leaving)'
  BY <1>1, <1>6, LeavingKept DEF SameTokens
<1>7. ASSUME GoesOn(t) PROVE SessionShown'
  <2>1. SameTokens /\ UNCHANGED issued
    BY <1>7 DEF GoesOn, server
  <2>2. ASSUME Current(t)' PROVE Holds(t, n)'
    <3>1. Current(t) /\ Holds(t, n)
      BY <1>1, <1>7, <2>2, StepFrame
         DEF GoesOn, Ended, SameLate, Current, Running, At
    <3>2. Storing(t)' \/ task'[t].pc \in {"posting", "saveRole", "show"} =>
             Sess(task'[t].pair) = n
      BY <1>1, <1>7, <3>1 DEF GoesOn, Ended, Signals, OfSession, Holds, Storing, At
    <3>3. task'[t].pc \in {"reattach", "sent"} /\ task'[t].token # 0 => Sess(task'[t].token) = n
      BY <1>1, <1>7, <3>1 DEF GoesOn, Ended, Signals, SameRequest, OfSession, Holds, At
    <3> QED BY <1>1, <2>1, <3>2, <3>3 DEF Holds, Sess
  <2> QED BY <1>4, <1>5, <1>6, <2>1, <2>2
<1>8. ASSUME NEW ok \in BOOLEAN, EndsRefresh(t, ok) PROVE SessionShown'
  <2>1. SameTokens
    BY <1>8 DEF EndsRefresh
  <2>2. Holds(t, n)'
    BY <1>8 DEF EndsRefresh, IsTold, AfterRefresh, Holds, Storing, At
  <2> QED BY <1>4, <1>5, <1>6, <2>1, <2>2
<1>9. ASSUME NEW session \in Tokens, NEW from \in 0 .. Len(issued),
             NEW next \in {"idle", "saveRole", "refreshed"},
             GetsPair(t, session, from, next)
      PROVE  SessionShown'
  <2>1. SameTokens
    BY <1>9 DEF GetsPair, SameTokens
  <2>2. ASSUME Current(t)' PROVE Holds(t, n)'
    <3>1. Current(t) /\ Holds(t, n)
      BY <1>1, <1>9, <2>2, StepFrame DEF GetsPair, SameLate, Current
    <3>2. session = n
      BY <1>1, <1>9, <3>1 DEF GetsPair, Holds, PlaceOK, SigningIn, At
    <3> QED BY <1>1, <1>9, <3>2, NewSess DEF GetsPair, Holds
  <2> QED BY <1>4, <1>5, <1>6, <2>1, <2>2
<1>10. ASSUME StoresToken(t) PROVE SessionShown'
  <2>1. UNCHANGED issued /\ Storing(t) /\ task[t].pair # 0
    BY <1>10, PairsOfCalls, LenIssued DEF StoresToken, server, Storing, At, TypeInv
  <2>2. CASE Current(t)
    <3>1. Sess(task[t].pair) = n
      BY <1>1, <2>1, <2>2 DEF Holds
    <3>2. OfSession(n)'
      BY <1>1, <1>10, <2>1, <3>1 DEF StoresToken, OfSession, Sess
    <3>3. Holds(t, n)'
      BY <1>1, <1>10, <2>1, <3>1 DEF StoresToken, Holds, Sess
    <3>4. (store.access # 0 \/ Leaving)'
      <4>1. CASE At(t, "saveAccess")
        BY <1>10, <2>1, <4>1 DEF StoresToken, At
      <4>2. CASE At(t, "saveRefresh")
        <5>1. store'.access = store.access
          BY <1>10, <4>2 DEF StoresToken, At
        <5> QED BY <1>1, <5>1, LeavingKept
      <4> QED BY <1>10, <4>1, <4>2 DEF StoresToken
    <3> QED BY <1>5, <3>2, <3>3, <3>4
  <2>3. CASE ~Current(t)
    <3>1. SameTokens
      BY <2>3, LateLeaves DEF SameTokens
    <3>2. ~Current(t)'
      BY <1>10, <2>1, <2>3 DEF StoresToken, SameLate, Current, Running, Storing, At
    <3> QED BY <1>4, <1>5, <1>6, <3>1, <3>2
  <2> QED BY <2>2, <2>3
<1>11. ASSUME Wipes(t) PROVE SessionShown'
  <2>1. OfSession(n)'
    BY <1>11 DEF Wipes, Empty, OfSession
  <2>2. Leaving'
    BY <1>1, <1>11 DEF Wipes, Leaving, PlaceOK, At
  <2>3. Holds(t, n)'
    BY <1>11 DEF Wipes, Holds, Storing, At
  <2> QED BY <1>5, <2>1, <2>2, <2>3
<1>12. ASSUME SignsOut(t) PROVE FALSE
  BY <1>12 DEF SignsOut, SignedOut
<1>13. ASSUME SignsIn(t) PROVE SessionShown'
  <2>1. SameTokens
    BY <1>13 DEF SignsIn
  <2>2. Holds(t, n)'
    BY <1>13 DEF SignsIn, Ended, Holds, Storing
  <2> QED BY <1>4, <1>5, <1>6, <2>1, <2>2
<1> QED BY <1>7, <1>8, <1>9, <1>10, <1>11, <1>12, <1>13, StepKinds

(* The session that comes on the screens is the one that is stored.        *)
LEMMA SessionBegins ==
    ASSUME TypeInv, OrderInv, Alone, SignInShown, StartShown,
           NEW t \in Tasks, Step(t), Current(t), SignsIn(t),
           app.status # "authenticated"
    PROVE  SessionShown'
<1>1. /\ SameTokens /\ UNCHANGED issued
      /\ "init" \in Tasks /\ "signIn" \in Tasks
      /\ \A s \in Tasks : PlaceOK(s)
      /\ app.status \in {"unknown", "unauthenticated"}
  BY DEF SignsIn, server, OrderInv, Tasks, TypeInv, StoreOK
<1>2. ASSUME store.access # 0, Sess(store.access) = app'.session,
             store.refresh # 0 => Sess(store.refresh) = app'.session,
             \A s \in Tasks \ {t} : ~Current(s)
      PROVE  SessionShown'
  <2>1. OfSession(app.session)' /\ store'.access # 0
    BY <1>1, <1>2 DEF OfSession, SameTokens, Sess
  <2>2. \A s \in Tasks \ {t} : ~Current(s)'
    BY <1>2, StepFrame
  <2>3. Holds(t, app.session)'
    BY DEF SignsIn, Ended, Holds, Storing
  <2> QED BY <2>1, <2>2, <2>3 DEF SessionShown
<1>3. CASE At(t, "show")
  <2>1. app.status = "unauthenticated"
    BY <1>1, <1>3, ClientAssumption DEF OrderInv, Starting, PlaceOK, At
  <2>2. t = "signIn" /\ SigningIn
    BY <1>3, <2>1 DEF Alone, At
  <2>3. store.access = task[t].pair /\ store.refresh = task[t].pair /\ task[t].pair # 0
    BY <1>3, <2>2, PairsOfCalls, LenIssued DEF SignInShown, Stored, At, TypeInv
  <2>4. app'.session = Sess(task[t].pair)
    BY <1>3 DEF SignsIn, At
  <2>5. \A s \in Tasks \ {t} : ~Current(s)
    BY <2>1, <2>2 DEF Alone
  <2> QED BY <1>2, <2>3, <2>4, <2>5
<1>4. CASE t = "init" /\ At(t, "sent")
  <2>1. app.status = "unknown"
    BY <1>1, <1>4 DEF OrderInv, Starting, At
  <2>2. /\ store.access # 0 /\ task[t].token # 0
        /\ app'.session = Sess(task[t].token)
        /\ Sess(task[t].token) = Sess(store.access)
        /\ store.refresh # 0 => Sess(store.refresh) = Sess(store.access)
    BY <1>4, <2>1 DEF SignsIn, StartShown, Trying, Holds, At
  <2>3. \A s \in Tasks \ {t} : ~Current(s)
    BY <1>4, <2>1 DEF OrderInv, Starting, Current, Running
  <2> QED BY <1>2, <2>2, <2>3
<1> QED BY <1>3, <1>4 DEF SignsIn

(* The profile screen shows the session that is on the screens already.    *)
LEMMA SessionStays ==
    ASSUME TypeInv, OrderInv, Alone, SessionShown, NEW t \in Tasks, Step(t),
           Current(t), SignsIn(t), app.status = "authenticated"
    PROVE  app' = app
<1>1. PlaceOK(t) /\ Starting /\ StoreOK /\ StoreOK'
  BY StoreKept DEF OrderInv, TypeInv
<1>2. At(t, "show") /\ app'.session = Sess(task[t].pair)
  BY <1>1 DEF SignsIn, Starting, At
<1>3. app'.session = app.session /\ app'.status = app.status
  BY <1>2 DEF SessionShown, Holds, SignsIn, At
<1> QED BY <1>1, <1>3 DEF StoreOK

LEMMA ShownKeptByStep ==
    ASSUME TypeInv, OrderInv, AloneInv, ShownInv, NEW t \in Tasks, Step(t), Meddling(t)
    PROVE  ShownInv'
<1> SUFFICES ASSUME ~meddled', ~torn'
             PROVE  SignInShown' /\ StartShown' /\ SessionShown'
  BY DEF ShownInv
<1>1. SignInShown /\ StartShown /\ SessionShown /\ Alone
  BY LateLeaves, StepFrame DEF ShownInv, AloneInv
<1>2. SignInShown' /\ StartShown'
  BY <1>1, SignInShownKept, StartShownKept
<1>3. CASE app' = app
  BY <1>1, <1>2, <1>3, SessionShownKept
<1>4. CASE SignsOut(t)
  BY <1>2, <1>4 DEF SignsOut, SignedOut, SessionShown
<1>5. CASE SignsIn(t) /\ app' # app
  <2>1. Current(t)
    BY <1>5, LateLeaves
  <2>2. app.status # "authenticated"
    BY <1>1, <1>5, <2>1, SessionStays
  <2> QED BY <1>1, <1>2, <1>5, <2>1, <2>2, SessionBegins
<1> QED BY <1>3, <1>4, <1>5, AppGoesOn

LEMMA ShownKept ==
    ASSUME TypeInv, OrderInv, AloneInv, ShownInv, [Next]_vars
    PROVE  ShownInv'
<1>0. "init" \in Tasks /\ "signIn" \in Tasks
  BY DEF Tasks
<1>1. CASE Kill
  <2>1. SignInShown' /\ SessionShown'
    BY <1>0, <1>1, KillKind DEF SignInShown, SessionShown, SigningIn
  <2>2. ASSUME ~torn' PROVE StartShown'
    BY <1>0, <1>1, <2>2, KillKind DEF StartShown, Trying, Mixed, SameTokens, Sess
  <2> QED BY <2>1, <2>2 DEF ShownInv
<1>2. CASE Other /\ ~Kill /\ UNCHANGED meddled
  <2> SUFFICES ASSUME ~meddled', ~torn'
               PROVE  SignInShown' /\ StartShown' /\ SessionShown'
    BY DEF ShownInv
  <2>1. /\ SameTokens /\ UNCHANGED <<app, issued, torn>>
        /\ (\E s \in Tasks : Begun(s)) \/ Passes
    BY <1>2, OtherKinds
  <2>2. SignInShown /\ StartShown /\ SessionShown
    BY <1>2, <2>1 DEF ShownInv
  <2>3. CASE Passes
    BY <2>1, <2>2, <2>3
       DEF Passes, SignInShown, StartShown, SessionShown, SigningIn, Stored, Storing,
           At, Trying, Holds, OfSession, SameTokens, Sess, Leaving, Current, Running
  <2>4. ASSUME NEW s \in Tasks, Begun(s)
        PROVE  SignInShown' /\ StartShown' /\ SessionShown'
    <3>1. At(s, "idle") /\ \A u \in Tasks \ {s} : Alike(u)
      BY <2>4 DEF Begun
    <3>2. SignInShown'
      BY <1>0, <2>1, <2>2, <2>4, <3>1
         DEF Begun, SignInShown, Stored, SigningIn, At, Alike, SameTokens
    <3>3. StartShown'
      BY <2>1, <2>4 DEF Begun, StartShown
    <3>4. ASSUME app.status = "authenticated" PROVE SessionShown'
      <4>1. OfSession(app.session)'
        BY <2>1, <2>2, <3>4 DEF SessionShown, OfSession, SameTokens, Sess
      <4>2. "logout" \in Tasks /\ (Leaving => Leaving')
        BY <3>1 DEF Leaving, Alike, At, Tasks
      <4>3. \A u \in Tasks : Current(u)' => Holds(u, app.session)'
        BY <2>1, <2>2, <2>4, <3>1, <3>4
           DEF Begun, SessionShown, Alike, SameLate, Current, Running, At, Holds,
               Storing, Sess
      <4> QED BY <2>1, <2>2, <3>4, <4>1, <4>2, <4>3 DEF SessionShown, SameTokens
    <3> QED BY <2>1, <3>2, <3>3, <3>4 DEF SessionShown
  <2> QED BY <2>1, <2>3, <2>4
<1>3. CASE UNCHANGED vars
  BY <1>3
     DEF vars, server, limits, ShownInv, SignInShown, StartShown, SessionShown,
         SigningIn, Stored, Storing, At, Trying, Holds, OfSession, Sess, Leaving, Current, Running
<1> QED BY <1>1, <1>2, <1>3, ShownKeptByStep, StepOrOther
-----------------------------------------------------------------------------
(* What the steps below start from: no fault, and no call of the past that *)
(* meddled.                                                                *)
Clean ==
    /\ TypeInv /\ OneRefresh /\ OrderInv /\ Alone /\ SignInShown
    /\ Whole /\ Wanted /\ NewEnough /\ Presented
    /\ \A t \in Tasks : At(t, "posting") => task[t].pair \in live

CleanStep(t) == Clean /\ Step(t) /\ Meddling(t) /\ ~meddled' /\ ~faulty'

LEMMA CleanStepFacts ==
    ASSUME NEW t \in Tasks, CleanStep(t)
    PROVE  /\ TypeInv /\ OrderInv /\ Step(t)
           /\ \A s \in Tasks : PlaceOK(s)
           /\ {"init", "signIn", "logout"} \subseteq Tasks
           /\ app.status \in {"unknown", "authenticated", "unauthenticated"}
           /\ ~Current(t) => store' = store /\ app' = app
           /\ Running(t)
           /\ Starting /\ Alone /\ Whole
BY StepFrame, LateLeaves DEF CleanStep, Clean, OrderInv, Tasks, TypeInv, StoreOK

(* Only the last write of saveTokens stores an expiry.                     *)
LEMMA ExpiryKept ==
    ASSUME TypeInv, NEW t \in Tasks, Step(t)
    PROVE  IF At(t, "saveExpiry") THEN store'.expiry = "later"
           ELSE store'.expiry \in {store.expiry, "none"}
<1>1. store \in [access : 0 .. Len(issued), refresh : 0 .. Len(issued),
                 expiry : {"none", "later", "past"}, role : BOOLEAN]
  BY DEF TypeInv, StoreOK
<1>2. CASE At(t, "saveExpiry")
  <2>1. SaveExpiry(t)
    BY <1>2
       DEF Step, CheckExpiry, RefreshFirst, Attach, SendBare, Answered, Failed,
           Unauthorized, ReadRefreshToken, Rotated, Refused, RefreshFails, SaveAccess,
           SaveRefresh, ReadKept, Wipe, Restore, WipeAgain, Leave, ReadStore,
           Verified, Denied, VerifyAgain, VerifyFails, SaveRole, Show, WipeAll,
           Forget, KeepRole, At
  <2> QED BY <1>1, <1>2, <2>1 DEF SaveExpiry, Save
<1>3. CASE ~At(t, "saveExpiry")
  <2>1. CASE Wipe(t) \/ WipeAgain(t) \/ WipeAll(t)
    BY <1>3, <2>1 DEF Wipe, WipeAgain, WipeAll, Save, Empty
  <2>2. CASE \/ SaveAccess(t) \/ SaveRefresh(t) \/ Restore(t)
             \/ SaveRole(t) \/ KeepRole(t)
    BY <1>1, <1>3, <2>2 DEF SaveAccess, SaveRefresh, Restore, SaveRole, KeepRole, Save
  <2>3. CASE UNCHANGED store
    BY <1>3, <2>3
  <2> QED BY <1>3, <2>1, <2>2, <2>3
          DEF Step, CheckExpiry, RefreshFirst, Attach, SendBare, Answered, Failed,
              Unauthorized, ReadRefreshToken, Rotated, Refused, RefreshFails,
              SaveExpiry, ReadKept, Leave, ReadStore, Verified, Denied, VerifyAgain,
              VerifyFails, Show, Forget
<1> QED BY <1>2, <1>3

(* Bare storage stays bare, but for a call that stores its pair.           *)
LEMMA BareKept ==
    ASSUME NEW t \in Tasks, CleanStep(t), Bare, Current(t) => ~Storing(t)
    PROVE  Bare'
<1>1. TypeInv /\ OrderInv /\ Step(t) /\ (~Current(t) => store' = store)
  BY CleanStepFacts
<1>2. CASE ~Current(t)
  BY <1>1, <1>2 DEF Bare
<1>3. CASE Current(t)
  <2>1. store'.expiry = "none"
    BY <1>1, <1>3, ExpiryKept DEF Bare, Storing, At
  <2>2. CASE Wipes(t)
    BY <2>2 DEF Wipes, Empty, Bare
  <2>3. CASE SameTokens
    BY <2>1, <2>3 DEF Bare, SameTokens
  <2>4. ~StoresToken(t)
    BY <1>3 DEF StoresToken, Storing, At
  <2> QED BY <1>1, <2>2, <2>3, <2>4, StepKinds
          DEF GoesOn, EndsRefresh, GetsPair, SignsOut, SignsIn, SameTokens
<1> QED BY <1>2, <1>3

(* A call of the past that has refreshed has nobody to tell once the       *)
(* storage is bare: it would store an expiry.                              *)
LEMMA NothingRefreshed ==
    ASSUME NEW t \in Tasks, CleanStep(t), Bare, ~Current(t)
    PROVE  ~EndsRefresh(t, TRUE)
BY CleanStepFacts, ExpiryKept DEF EndsRefresh, Bare, At

(* A call of the moment that is in the interceptor, the sign-in's own      *)
(* request aside, belongs to a session on the screens.                     *)
LEMMA MomentIsSignedIn ==
    ASSUME NEW t \in Tasks, CleanStep(t), NEW s \in Tasks, Current(s),
           ~task[s].public, task[s].pc \notin {"readStore", "keepRole", "expire", "leave"}
    PROVE  app.status = "authenticated"
<1>1. /\ app.status \in {"unknown", "authenticated", "unauthenticated"}
      /\ Starting /\ Alone /\ Whole
  BY CleanStepFacts
<1>2. app.status # "unknown"
  BY <1>1 DEF Whole, Starting, At, Current, Running
<1>3. app.status # "unauthenticated"
  BY <1>1 DEF Alone, SigningIn, At
<1> QED BY <1>1, <1>2, <1>3

(* Who takes the screens away makes all the other calls late.              *)
LEMMA EndOvertakes ==
    ASSUME NEW t \in Tasks, CleanStep(t), app.status = "authenticated", SignsOut(t)
    PROVE  /\ Current(t)
           /\ Gone
           /\ EndFrame(t) /\ task'[t].pc \in {"idle", "keepRole"}
           /\ \A s \in Tasks \ {t} : ~Current(s)'
<1>1. Whole /\ Wanted /\ app' # app /\ ~Running("init")
  BY DEF CleanStep, Clean, Whole, SignsOut, SignedOut
<1>2. Current(t)
  BY <1>1, CleanStepFacts
<1>3. /\ \/ At(t, "leave")
         \/ At(t, "forget") /\ t = "logout"
      /\ EndFrame(t) /\ task'[t].pc \in {"idle", "keepRole"}
  BY <1>1, CleanStepFacts DEF SignsOut, Ended, PlaceOK, Running, At
<1>4. Gone
  BY <1>1, <1>2, <1>3 DEF Wanted
<1>5. \A s \in Tasks \ {t} : ~Current(s)'
  BY <1>3 DEF EndFrame, Alike, Current, Running, At
<1> QED BY <1>2, <1>3, <1>4, <1>5

LEMMA GoneKept ==
    ASSUME NEW t \in Tasks, CleanStep(t), Gone, app'.status = "authenticated"
    PROVE  Gone'
<1>1. /\ \A s \in Tasks : PlaceOK(s)
      /\ {"init", "signIn", "logout"} \subseteq Tasks
      /\ TypeInv /\ OrderInv /\ Step(t)
  BY CleanStepFacts
<1>2. ~SignsOut(t)
  BY DEF SignsOut, SignedOut
<1>3. \A s \in Tasks \ {t} :
         /\ Alike(s) \/ (At(s, "waiting") /\ \E ok \in BOOLEAN : IsTold(s, ok))
         /\ Current(s)' => Current(s)
  BY <1>1, StepFrame
<1>4. task[t].pc \notin {"forget", "leave"}
  BY <1>1, <1>2, StepKinds
     DEF GoesOn, Ended, Signals, EndsRefresh, GetsPair, StoresToken, Wipes, SignsIn,
         PlaceOK, At
<1>5. (At("logout", "forget") \/ \E s \in Tasks : At(s, "leave"))'
  BY <1>1, <1>3, <1>4 DEF Gone, Alike, At
<1>6. ASSUME Current(t)' PROVE Current(t)
  BY <1>1, <1>2, <1>6, StepKinds, StepFrame
     DEF GoesOn, Ended, EndsRefresh, IsTold, GetsPair, StoresToken, Wipes, SignsIn,
         SameLate, Current, Running, At
<1>7. Current("signIn")' => At("signIn", "leave")'
  BY <1>1, <1>3, <1>4, <1>6 DEF Gone, Alike, At
<1>8. Bare'
  BY BareKept DEF Gone
<1>9. ASSUME NEW s \in Tasks \ {t}, Current(s)'
      PROVE  ~Storing(s)' /\ ~At(s, "posting")'
  <2>1. ~Storing(s) /\ ~At(s, "posting")
    BY <1>3, <1>9 DEF Gone
  <2> QED BY <1>3, <2>1 DEF Alike, IsTold, AfterRefresh, Storing, At
<1>10. ASSUME Current(t)' PROVE ~Storing(t)' /\ ~At(t, "posting")'
  <2>1. Current(t) /\ ~Storing(t) /\ ~At(t, "posting") /\ t # "signIn"
    BY <1>4, <1>6, <1>10 DEF Gone, At
  <2> QED BY <1>1, <1>2, <2>1, StepKinds
          DEF Gone, Bare, GoesOn, Ended, Signals, EndsRefresh, IsTold, AfterRefresh,
              GetsPair, StoresToken, Wipes, SignsIn, PlaceOK, Storing, At
<1> QED BY <1>5, <1>7, <1>8, <1>9, <1>10 DEF Gone

(* The log-out or the listener wipes the storage of a session that is on   *)
(* the screens, and whatever else was under way belongs to the past.       *)
LEMMA EndWipes ==
    ASSUME NEW t \in Tasks, CleanStep(t), Wipes(t), ~At(t, "wipe"),
           app.status = "authenticated"
    PROVE  Gone'
<1>1. PlaceOK(t) /\ "logout" \in Tasks
  BY CleanStepFacts
<1>2. /\ EndFrame(t) /\ app' = app /\ Bare'
      /\ \/ task'[t].pc = "leave"
         \/ t = "logout" /\ task'[t].pc = "forget"
  BY <1>1 DEF Wipes, Empty, Bare, PlaceOK, At
<1>3. \A s \in Tasks \ {t} : ~Current(s)'
  BY <1>2 DEF EndFrame, Alike, Current, Running, At
<1>4. (At("logout", "forget") \/ \E s \in Tasks : At(s, "leave"))'
  BY <1>2 DEF At
<1>5. "signIn" \in Tasks
  BY DEF Tasks
<1> QED BY <1>2, <1>3, <1>4, <1>5 DEF Gone, Storing, At

(* A call that clears the session goes on until the listener has wiped.    *)
LEMMA DyingKept ==
    ASSUME NEW t \in Tasks, CleanStep(t), Dying,
           app.status = "authenticated", app'.status = "authenticated"
    PROVE  Gone' \/ Dying'
<1>1. TypeInv /\ OrderInv /\ Step(t)
  BY CleanStepFacts
<1>2. PICK s \in Tasks : Current(s) /\ Clearing(s)
  BY DEF Dying
<1>3. ~SignsOut(t)
  BY DEF SignsOut, SignedOut
<1>4. CASE Wipes(t) /\ ~At(t, "wipe")
  BY <1>4, EndWipes
<1>5. CASE ~(Wipes(t) /\ ~At(t, "wipe"))
  <2>1. CASE s # t
    <3>1. Alike(s) /\ SameLate(s)
      BY <1>1, <1>2, <1>3, <1>5, <2>1, StepKinds
         DEF GoesOn, EndsRefresh, FinishFrame, GetsPair, StoresToken, Wipes, SignsIn,
             Frame, Clearing, At
    <3> QED BY <1>2, <3>1 DEF Dying, Alike, SameLate, Current, Running, Clearing, At
  <2>2. CASE s = t
    <3>1. SameLate(t) /\ Clearing(t)'
      BY <1>1, <1>2, <1>3, <1>5, <2>2, StepKinds
         DEF GoesOn, Ended, Signals, EndsRefresh, GetsPair, StoresToken, Wipes, SignsIn,
             Clearing, At
    <3> QED BY <1>2, <2>2, <3>1 DEF Dying, SameLate, Current, Running, Clearing, At
  <2> QED BY <2>1, <2>2
<1> QED BY <1>4, <1>5

LEMMA WholeKept ==
    ASSUME NEW t \in Tasks, CleanStep(t)
    PROVE  Whole'
<1>1. /\ \A s \in Tasks : PlaceOK(s)
      /\ {"init", "signIn", "logout"} \subseteq Tasks
      /\ TypeInv /\ OrderInv /\ Step(t) /\ Running(t)
      /\ app.status \in {"unknown", "authenticated", "unauthenticated"}
      /\ ~Current(t) => store' = store /\ app' = app
      /\ Starting /\ Alone /\ Whole /\ SignInShown
  BY CleanStepFacts DEF CleanStep, Clean
<1>2. ASSUME app.status = "unknown"
      PROVE  SignsOut(t) /\ t = "init" /\ Ended(t) /\ Bare /\ ~Storing(t)
  <2>1. t = "init" /\ At(t, "readStore") /\ Bare
    BY <1>1, <1>2 DEF Starting, Whole, Running
  <2>2. SignsOut(t)
    BY <1>1, <2>1, StepKinds
       DEF GoesOn, Ended, Signals, EndsRefresh, GetsPair, StoresToken, Wipes, SignsIn,
           Bare, At
  <2> QED BY <2>1, <2>2 DEF SignsOut, Signals, Storing, At
<1>3. app'.status # "unknown"
  BY <1>1, <1>2, AppGoesOn DEF SignsOut, SignedOut
<1>4. ~Running("init")'
  <2>1. CASE app.status = "unknown"
    BY <1>2, <2>1 DEF Ended, Running, At
  <2>2. CASE app.status # "unknown"
    <3>1. ~Running("init") /\ t # "init"
      BY <1>1, <2>2 DEF Whole
    <3> QED BY <1>1, <3>1, StepFrame DEF Alike, Running, At
  <2> QED BY <2>1, <2>2
<1>5. ASSUME SigningIn
      PROVE  /\ app.status = "unauthenticated" /\ task["signIn"].pc \in SignInSteps
             /\ Stored({"saveRefresh", "saveExpiry"}) \/ Bare
  BY <1>1, <1>5 DEF Alone, PlaceOK, SigningIn, Whole
<1>6. ASSUME SigningIn'
      PROVE  /\ task'["signIn"].pc \notin {"posting", "attach"}
             /\ Storing("signIn")' => task'["signIn"].next = "saveRole"
  <2>1. SigningIn
    BY <1>1, <1>6, SignInGoesOn
  <2>2. CASE t # "signIn"
    <3>1. ~Current(t)
      BY <1>1, <1>5, <2>1, <2>2 DEF Alone
    <3>2. CASE Alike("signIn")
      BY <1>1, <2>1, <3>2 DEF Whole, Alike, Storing
    <3>3. CASE ~Alike("signIn")
      <4>1. At("signIn", "waiting")
        BY <1>1, <2>2, <3>3, StepFrame
      <4>2. Bare
        BY <1>5, <2>1, <4>1 DEF Stored, At
      <4>3. PICK ok \in BOOLEAN : EndsRefresh(t, ok)
        BY <1>1, <2>2, <3>3, StepKinds
           DEF GoesOn, GetsPair, StoresToken, Wipes, SignsOut, SignsIn, Frame, EndFrame
      <4>4. ~ok
        BY <3>1, <4>2, <4>3, NothingRefreshed
      <4> QED BY <1>1, <2>2, <4>1, <4>3, <4>4
              DEF EndsRefresh, FinishFrame, IsTold, AfterRefresh, Storing
    <3> QED BY <3>2, <3>3
  <2>3. CASE t = "signIn"
    <3>1. task[t].pc \in SignInSteps /\ task[t].pc \notin {"posting", "attach"}
          /\ (Storing(t) => task[t].next = "saveRole")
      BY <1>1, <1>5, <2>1, <2>3 DEF Whole
    <3>2. At(t, "refresh") => store.refresh = 0
      BY <1>5, <2>1, <2>3 DEF Stored, Bare, At
    <3> QED BY <1>1, <1>6, <2>3, <3>1, <3>2, StepKinds
            DEF GoesOn, Ended, Signals, EndsRefresh, IsTold, AfterRefresh, GetsPair,
                StoresToken, Wipes, SignsOut, SignsIn, SigningIn, SignInSteps,
                Storing, At
  <2> QED BY <2>2, <2>3
<1>7. ASSUME app'.status = "unauthenticated",
             SigningIn' => ~Stored({"saveRefresh", "saveExpiry"})'
      PROVE  Bare'
  <2>1. CASE app.status = "unknown"
    BY <1>2, <2>1, BareKept
  <2>2. CASE app.status = "authenticated"
    <3>1. SignsOut(t)
      BY <1>1, <1>7, <2>2, AppGoesOn
    <3>2. Gone
      BY <2>2, <3>1, EndOvertakes
    <3> QED BY <3>2, BareKept DEF Gone
  <2>3. CASE app.status = "unauthenticated" /\ t = "signIn" /\ SigningIn
    <3>1. ~SignsIn(t)
      BY <1>7 DEF SignsIn
    <3>2. Storing(t) => task[t].next = "saveRole"
      BY <1>1, <2>3 DEF Whole
    <3>3. ~StoresToken(t)
      BY <1>7, <2>3, <3>2
         DEF StoresToken, SamePublic, SigningIn, Stored, Storing, At
    <3>4. ~Stored({"saveRefresh", "saveExpiry"})
      <4> SUFFICES ASSUME Stored({"saveRefresh", "saveExpiry"}) PROVE FALSE
        OBVIOUS
      <4>1. GoesOn(t) /\ task'[t].pc \in {"saveRole", "show"} /\ SamePublic(t)
        BY <1>1, <2>3, <3>1, <3>2, <3>3, StepKinds
           DEF Stored, GoesOn, Ended, Signals, EndsRefresh, GetsPair, StoresToken, Wipes,
               SignsOut, Storing, At
      <4> QED BY <1>7, <2>3, <4>1 DEF SamePublic, SigningIn, Stored
    <3>5. Bare
      BY <1>5, <2>3, <3>4
    <3>6. ~At(t, "saveAccess")
      BY <1>1, <3>1, <3>3, StepKinds
         DEF GoesOn, EndsRefresh, GetsPair, StoresToken, Wipes, SignsOut, Signals, At
    <3> QED BY <2>3, <3>2, <3>4, <3>5, <3>6, BareKept DEF Stored, Storing, At
  <2>4. CASE app.status = "unauthenticated" /\ ~(t = "signIn" /\ SigningIn)
    <3>1. Bare
      <4>1. CASE SigningIn
        <5>1. SigningIn'
          BY <1>1, <2>4, <4>1, SignInGoesOn
        <5>2. CASE Alike("signIn")
          BY <1>5, <1>7, <4>1, <5>1, <5>2 DEF Alike, Stored
        <5>3. CASE At("signIn", "waiting")
          BY <1>5, <4>1, <5>3 DEF Stored, At
        <5> QED BY <1>1, <2>4, <4>1, <5>2, <5>3, StepFrame
      <4>2. CASE ~SigningIn
        BY <1>1, <2>4, <4>2 DEF Whole
      <4> QED BY <4>1, <4>2
    <3>2. Current(t) => task[t].pc \in {"keepRole", "expire", "leave"}
      BY <1>1, <2>4 DEF Alone, At
    <3> QED BY <3>1, <3>2, BareKept DEF Storing
  <2> QED BY <1>1, <2>1, <2>2, <2>3, <2>4
<1>8. ASSUME app'.status = "authenticated"
      PROVE  Gone' \/ Dying' \/ (store'.access # 0 /\ store'.refresh # 0)
  <2>1. CASE app.status = "authenticated" /\ Gone
    BY <1>8, <2>1, GoneKept
  <2>2. CASE app.status = "authenticated" /\ Dying
    BY <1>8, <2>2, DyingKept
  <2>3. CASE app.status = "authenticated" /\ ~Gone /\ ~Dying
    <3>1. store.access # 0 /\ store.refresh # 0
      BY <1>1, <2>3 DEF Whole
    <3>2. CASE StoresToken(t)
      <4>1. task[t].pair # 0
        BY <1>1, <3>2, PairsOfCalls, LenIssued DEF StoresToken, Storing, At, TypeInv
      <4> QED BY <3>1, <3>2, <4>1 DEF StoresToken
    <3>3. CASE Wipes(t) /\ ~At(t, "wipe")
      BY <2>3, <3>3, EndWipes
    <3>4. ~(Wipes(t) /\ At(t, "wipe"))
      <4> SUFFICES ASSUME Wipes(t), At(t, "wipe") PROVE FALSE
        OBVIOUS
      <4>1. store'.access = 0
        BY DEF Wipes, Empty
      <4>2. Current(t)
        BY <1>1, <3>1, <4>1
      <4> QED BY <2>3, <4>2 DEF Dying, Clearing, At
    <3>5. CASE ~StoresToken(t) /\ ~Wipes(t)
      <4>1. SameTokens
        BY <1>1, <3>5, StepKinds
           DEF GoesOn, EndsRefresh, GetsPair, SignsOut, SignsIn, SameTokens
      <4> QED BY <3>1, <4>1 DEF SameTokens
    <3> QED BY <3>2, <3>3, <3>4, <3>5
  <2>4. CASE app.status = "unauthenticated"
    <3>1. SignsIn(t) /\ Current(t)
      BY <1>1, <1>8, <2>4, AppGoesOn
    <3>2. At(t, "show")
      BY <1>1, <2>4, <3>1 DEF SignsIn, Whole, At, Running
    <3>3. t = "signIn" /\ SigningIn
      BY <1>1, <2>4, <3>1, <3>2 DEF Alone, At
    <3>4. store.access = task[t].pair /\ store.refresh = task[t].pair /\ task[t].pair # 0
      BY <1>1, <3>2, <3>3, PairsOfCalls, LenIssued DEF SignInShown, Stored, At, TypeInv
    <3> QED BY <3>1, <3>4 DEF SignsIn, SameTokens
  <2>5. app.status # "unknown"
    BY <1>2, <1>8 DEF SignsOut, SignedOut
  <2> QED BY <1>1, <2>1, <2>2, <2>3, <2>4, <2>5
<1> QED BY <1>3, <1>4, <1>6, <1>7, <1>8 DEF Whole

LEMMA WantedKept ==
    ASSUME NEW t \in Tasks, CleanStep(t)
    PROVE  Wanted'
<1>1. /\ \A s \in Tasks : PlaceOK(s)
      /\ {"init", "signIn", "logout"} \subseteq Tasks
      /\ TypeInv /\ OrderInv /\ Step(t)
      /\ app.status \in {"unknown", "authenticated", "unauthenticated"}
      /\ ~Current(t) => app' = app
      /\ Starting /\ Alone /\ Whole /\ Wanted
  BY CleanStepFacts DEF CleanStep, Clean
<1>2. ASSUME Gone, NEW s \in Tasks \ {t}, Current(s)' PROVE Gone'
  <2>1. ~SignsOut(t)
    BY <1>2, EndOvertakes DEF Gone
  <2>2. app'.status = "authenticated"
    BY <1>1, <1>2, <2>1, AppGoesOn DEF Gone
  <2> QED BY <1>2, <2>2, GoneKept
<1>3. ASSUME app'.status = "authenticated", NEW s \in Tasks, Current(s)', At(s, "leave")'
      PROVE  Gone'
  <2>1. CASE s # t
    <3>1. Current(s) /\ At(s, "leave")
      BY <1>1, <1>3, <2>1, StepFrame DEF Alike, IsTold, AfterRefresh, At
    <3>2. app.status = "authenticated"
      <4>1. app.status # "unknown"
        BY <1>1, <3>1 DEF Whole, Starting, At
      <4>2. CASE app.status = "unauthenticated"
        <5>1. SignsIn(t) /\ Current(t)
          BY <1>1, <1>3, <4>2, AppGoesOn
        <5>2. t = "signIn" /\ SigningIn
          BY <1>1, <4>2, <5>1 DEF SignsIn, Alone, Whole, Running, At
        <5> QED BY <1>1, <2>1, <3>1, <4>2, <5>2 DEF Alone
      <4> QED BY <1>1, <4>1, <4>2
    <3> QED BY <1>1, <1>2, <1>3, <2>1, <3>1, <3>2 DEF Wanted
  <2>2. CASE s = t
    <3>1. Wipes(t) /\ At(t, "expire") /\ app' = app
      BY <1>1, <1>3, <2>2, StepKinds
         DEF GoesOn, Ended, Signals, EndsRefresh, IsTold, AfterRefresh, GetsPair,
             StoresToken, Wipes, SignsOut, SignsIn, At
    <3> QED BY <1>3, <3>1, EndWipes DEF At
  <2> QED BY <2>1, <2>2
<1>4. ASSUME Current("logout")', At("logout", "forget")'
      PROVE  Gone'
  <2>1. CASE t = "logout"
    <3>1. Wipes(t) /\ At(t, "logout")
      BY <1>1, <1>4, <2>1, StepKinds
         DEF GoesOn, Ended, Signals, EndsRefresh, IsTold, AfterRefresh, GetsPair,
             StoresToken, Wipes, SignsOut, SignsIn, At
    <3>2. Current(t) /\ ~task[t].public
      BY <1>1, <1>4, <2>1, <3>1 DEF Wipes, SameLate, Current, Running, PlaceOK, At
    <3>3. app.status = "authenticated"
      BY <3>1, <3>2, MomentIsSignedIn DEF At
    <3> QED BY <3>1, <3>3, EndWipes DEF At
  <2>2. CASE t # "logout"
    <3>1. Current("logout") /\ At("logout", "forget")
      BY <1>1, <1>4, <2>2, StepFrame DEF Alike, IsTold, AfterRefresh, At
    <3> QED BY <1>1, <1>2, <1>4, <2>2, <3>1 DEF Wanted
  <2> QED BY <2>1, <2>2
<1> QED BY <1>3, <1>4 DEF Wanted

(* A call is newly in need of a new access token only when there is one,   *)
(* or none at all.                                                         *)
LEMMA RenewedKept ==
    ASSUME NEW t \in Tasks, CleanStep(t), NEW s \in Tasks, Renewed(s)'
    PROVE  store'.access = 0 \/ store'.access > settled
<1>1. /\ \A u \in Tasks : PlaceOK(u)
      /\ {"init", "signIn", "logout"} \subseteq Tasks
      /\ TypeInv /\ OrderInv /\ Step(t) /\ Running(t)
      /\ ~Current(t) => app' = app
      /\ Whole /\ Wanted /\ NewEnough
  BY CleanStepFacts DEF CleanStep, Clean
<1>2. CASE Wipes(t)
  BY <1>2 DEF Wipes, Empty
<1>3. CASE StoresToken(t) /\ At(t, "saveAccess")
  BY <1>1, <1>3 DEF StoresToken, PlaceOK, Storing, At
<1>4. CASE ~Wipes(t) /\ ~(StoresToken(t) /\ At(t, "saveAccess"))
  <2>1. store'.access = store.access
    BY <1>1, <1>4, StepKinds
       DEF GoesOn, EndsRefresh, GetsPair, StoresToken, SignsOut, SignsIn, SameTokens
  <2>2. ASSUME NEW u \in Tasks, Renewed(u)
        PROVE  store'.access = 0 \/ store'.access > settled
    BY <1>1, <2>1, <2>2 DEF NewEnough
  <2>3. ASSUME SignsOut(t), app.status = "authenticated"
        PROVE  store'.access = 0
    BY <2>1, <2>3, EndOvertakes DEF Gone, Bare
  <2>4. CASE s # t
    <3>1. CASE Renewed(s)
      BY <2>2, <3>1
    <3>2. CASE SignsOut(t) /\ app.status = "authenticated"
      BY <2>3, <3>2
    <3>3. CASE ~Renewed(s) /\ ~(SignsOut(t) /\ app.status = "authenticated")
      <4>1. \/ Alike(s) /\ SameLate(s)
            \/ \E ok \in BOOLEAN : EndsRefresh(t, ok) /\ At(s, "waiting") /\ IsTold(s, ok)
        BY <1>1, <1>4, <2>4, <3>3, StepKinds
           DEF GoesOn, EndsRefresh, GetsPair, StoresToken, SignsOut, SignsIn, Frame,
               EndFrame, FinishFrame
      <4>2. CASE Alike(s) /\ SameLate(s)
        BY <3>3, <4>2 DEF Renewed, Alike, SameLate, Storing, Running, At
      <4>3. ASSUME NEW ok \in BOOLEAN, EndsRefresh(t, ok), At(s, "waiting"), IsTold(s, ok)
            PROVE  Renewed(t)
        <5>1. ok
          BY <3>3, <4>3
             DEF Renewed, IsTold, AfterRefresh, SameLate, Storing, Running, At
        <5> QED BY <4>3, <5>1 DEF EndsRefresh, Renewed, Storing, At
      <4> QED BY <2>2, <4>1, <4>2, <4>3
    <3> QED BY <3>1, <3>2, <3>3
  <2>5. CASE s = t
    <3>1. Renewed(t)
      BY <1>1, <1>4, <2>5, StepKinds
         DEF GoesOn, Ended, Signals, SameRequest, EndsRefresh, IsTold, AfterRefresh,
             GetsPair, StoresToken, SignsOut, SignsIn, Renewed, PlaceOK, SameLate,
             Storing, Running, At
    <3> QED BY <2>2, <3>1
  <2> QED BY <2>4, <2>5
<1> QED BY <1>2, <1>3, <1>4

LEMMA NewEnoughKept ==
    ASSUME NEW t \in Tasks, CleanStep(t)
    PROVE  NewEnough'
<1>1. /\ \A s \in Tasks : PlaceOK(s)
      /\ TypeInv /\ OrderInv /\ Step(t)
      /\ settled' = settled
      /\ app.status \in {"unknown", "authenticated", "unauthenticated"}
      /\ Whole /\ NewEnough
  BY CleanStepFacts, StepFrame DEF CleanStep, Clean
<1>2. ASSUME Gone \/ Dying, app.status = "authenticated", ~SignsOut(t)
      PROVE  Gone' \/ Dying'
  <2>1. app'.status = "authenticated"
    BY <1>1, <1>2, AppGoesOn
  <2> QED BY <1>2, <2>1, GoneKept, DyingKept
<1>3. (\E s \in Tasks : Renewed(s)') => store'.access = 0 \/ store'.access > settled'
  BY <1>1, RenewedKept
<1>4. ASSUME NEW s \in Tasks \ {t}, Current(s)', task'[s].refused,
             task'[s].pc \in {"reattach", "sent"}
      PROVE  Gone' \/ Dying' \/ task'[s].token > settled'
  <2>1. Current(s) /\ Alike(s)
    BY <1>1, <1>4, StepFrame DEF IsTold, AfterRefresh
  <2>2. Gone \/ Dying \/ task[s].token > settled
    BY <1>1, <1>4, <2>1 DEF NewEnough, Alike
  <2>3. ~task[s].public
    BY <1>1, <1>4, <2>1 DEF PlaceOK, SignInSteps, Alike
  <2>4. app.status = "authenticated"
    BY <1>4, <2>1, <2>3, MomentIsSignedIn DEF Alike
  <2>5. ~SignsOut(t)
    BY <1>4, <2>4, EndOvertakes
  <2> QED BY <1>1, <1>2, <2>1, <2>2, <2>4, <2>5 DEF Alike
<1>5. ASSUME Current(t)', task'[t].refused, task'[t].pc \in {"reattach", "sent"}
      PROVE  Gone' \/ Dying' \/ task'[t].token > settled'
  <2>1. GoesOn(t)
    BY <1>1, <1>5, StepKinds
       DEF EndsRefresh, IsTold, AfterRefresh, GetsPair, StoresToken, Wipes,
           SignsOut, SignsIn, Signals, Ended
  <2>2. /\ Current(t) /\ task[t].refused
        /\ task[t].pc \in {"attach", "reattach"} /\ ~task[t].public
    BY <1>1, <1>5, <2>1
       DEF GoesOn, SameRequest, Ended, Signals, SameLate, Current, Running, PlaceOK,
           SignInSteps, At
  <2>3. app.status = "authenticated" /\ ~SignsOut(t)
    BY <2>1, <2>2, MomentIsSignedIn DEF GoesOn, SignsOut, SignedOut
  <2>4. CASE At(t, "reattach") /\ SameRequest(t)
    BY <1>1, <1>2, <2>2, <2>3, <2>4 DEF NewEnough, SameRequest, At
  <2>5. CASE task'[t].token = store.access
    <3>1. Renewed(t)
      BY <2>2 DEF Renewed
    <3>2. store.access = 0 \/ store.access > settled
      BY <1>1, <3>1 DEF NewEnough
    <3>3. store.access = 0 => Gone \/ Dying
      BY <1>1, <2>3 DEF Whole
    <3> QED BY <1>1, <1>2, <2>3, <2>5, <3>2, <3>3
  <2> QED BY <1>5, <2>1, <2>2, <2>4, <2>5 DEF GoesOn, Ended, Signals, At
<1> QED BY <1>3, <1>4, <1>5 DEF NewEnough

(* Only one call is in _doRefresh, so nobody else stores a refresh token   *)
(* while it presents the stored one.                                       *)
LEMMA PresentedKept ==
    ASSUME NEW t \in Tasks, CleanStep(t)
    PROVE  Presented'
<1>1. /\ \A s \in Tasks : PlaceOK(s)
      /\ "signIn" \in Tasks
      /\ TypeInv /\ OrderInv /\ Step(t) /\ OneRefresh /\ Presented
      /\ app.status \in {"unknown", "authenticated", "unauthenticated"}
      /\ ~Current(t) => store' = store /\ app' = app
      /\ Starting /\ Alone /\ Whole
  BY CleanStepFacts DEF CleanStep, Clean
<1> SUFFICES ASSUME app'.status = "authenticated", NEW s \in Tasks,
                    Current(s)', At(s, "posting")'
             PROVE  Dying' \/ task'[s].pair = store'.refresh
  BY DEF Presented
<1>2. ~SignsOut(t)
  BY DEF SignsOut, SignedOut
<1>3. Current(s)
  <2>1. CASE s # t
    BY <1>1, <2>1, StepFrame
  <2>2. CASE s = t
    BY <1>1, <2>2, StepKinds, StepFrame
       DEF GoesOn, Ended, Signals, EndsRefresh, IsTold, AfterRefresh, GetsPair,
           StoresToken, Wipes, SignsOut, SignsIn, SameLate, Current, Running, At
  <2> QED BY <2>1, <2>2
<1>4. app.status = "authenticated"
  <2>1. CASE app.status = "unauthenticated"
    <3>1. SignsIn(t) /\ Current(t)
      BY <1>1, <2>1, AppGoesOn
    <3>2. t = "signIn" /\ SigningIn
      BY <1>1, <2>1, <3>1 DEF SignsIn, Alone, Whole, Running, At
    <3>3. s = t
      BY <1>1, <1>3, <2>1, <3>2 DEF Alone
    <3> QED BY <3>1, <3>3 DEF SignsIn, Ended, At
  <2>2. CASE app.status = "unknown"
    <3>1. s = "init" /\ At(s, "readStore") /\ Bare
      BY <1>1, <1>3, <2>2 DEF Starting, Whole, Current, Running
    <3>2. s = t
      BY <1>1, <3>1, StepFrame DEF Alike, At
    <3> QED BY <1>1, <1>2, <3>1, <3>2, StepKinds
            DEF GoesOn, Ended, Signals, EndsRefresh, GetsPair, StoresToken, Wipes,
                SignsIn, At
  <2> QED BY <1>1, <2>1, <2>2
<1>5. CASE Dying
  <2>1. ~Gone'
    BY DEF Gone
  <2> QED BY <1>4, <1>5, <2>1, DyingKept
<1>6. CASE ~Dying /\ s # t
  <2>1. Alike(s) /\ At(s, "posting")
    BY <1>1, <1>6, StepFrame DEF Alike, IsTold, AfterRefresh, At
  <2>2. task[s].pair = store.refresh
    BY <1>1, <1>3, <1>4, <1>6, <2>1 DEF Presented
  <2>3. CASE ~Current(t)
    BY <1>1, <2>1, <2>2, <2>3 DEF Alike
  <2>4. CASE Current(t)
    <3>1. ~Wipes(t)
      <4>1. At(t, "wipe") => FALSE
        BY <1>6, <2>4 DEF Dying, Clearing, At
      <4>2. Wipes(t) => Gone'
        BY <1>4, <4>1, EndWipes
      <4> QED BY <4>2 DEF Gone
    <3>2. ~StoresToken(t)
      <4> SUFFICES ASSUME StoresToken(t) PROVE FALSE
        OBVIOUS
      <4>1. Storing(t) /\ task[t].next \in {"idle", "saveRole", "refreshed"}
        BY <1>1 DEF StoresToken, Storing, At, TypeInv, TasksOK, CallOK, CallsOfTasks
      <4>2. task[t].next # "refreshed"
        BY <1>1, <1>6, <2>1, <4>1 DEF OneRefresh, InRefresh, At
      <4>3. t = "signIn"
        BY <1>1, <4>1, <4>2 DEF PlaceOK
      <4> QED BY <1>1, <1>3, <1>4, <1>6, <2>4, <4>3 DEF Alone
    <3>3. store'.refresh = store.refresh
      BY <1>1, <3>1, <3>2, StepKinds
         DEF GoesOn, EndsRefresh, GetsPair, SignsOut, SignsIn, SameTokens
    <3> QED BY <2>1, <2>2, <3>3 DEF Alike
  <2> QED BY <2>3, <2>4
<1>7. CASE s = t
  BY <1>1, <1>2, <1>7, StepKinds
     DEF GoesOn, Ended, Signals, SameTokens, EndsRefresh, IsTold, AfterRefresh,
         GetsPair, StoresToken, Wipes, SignsIn, At
<1> QED BY <1>5, <1>6, <1>7

LEMMA CleanKeptByOthers ==
    ASSUME TypeInv, OrderInv, Whole, Wanted, NewEnough, Presented, Other, ~Kill
    PROVE  Whole' /\ Wanted' /\ NewEnough' /\ Presented'
<1>1. /\ SameTokens /\ UNCHANGED app
      /\ (\E s \in Tasks : Begun(s)) \/ Passes
      /\ {"init", "signIn", "logout"} \subseteq Tasks
      /\ \A s \in Tasks : PlaceOK(s)
      /\ Bare => Bare'
  BY OtherKinds DEF Tasks, OrderInv, Bare, SameTokens
<1>2. CASE Passes
  <2>1. /\ task' = task /\ settled' = settled /\ app' = app
        /\ store'.access = store.access /\ store'.refresh = store.refresh
    BY <1>1, <1>2 DEF Passes, SameTokens
  <2>2. (Gone => Gone') /\ (Dying => Dying')
    BY <1>1, <2>1 DEF Gone, Dying, Storing, At, Current, Running, Clearing
  <2>3. Whole'
    BY <1>1, <2>1, <2>2 DEF Whole, SigningIn, Stored, Storing, At, Running
  <2>4. Wanted'
    BY <2>1, <2>2 DEF Wanted, At, Current, Running
  <2>5. NewEnough'
    BY <2>1, <2>2 DEF NewEnough, Renewed, Storing, At, Current, Running
  <2>6. Presented'
    BY <2>1, <2>2 DEF Presented, At, Current, Running
  <2> QED BY <2>3, <2>4, <2>5, <2>6
<1>3. ASSUME NEW s \in Tasks, Begun(s)
      PROVE  Whole' /\ Wanted' /\ NewEnough' /\ Presented'
  <2>1. /\ At(s, "idle") /\ ~task[s].refused /\ ~task[s].late
        /\ ~task'[s].late /\ task'[s].pc \in {"check", "logout", "verify"}
        /\ ~task'[s].refused \/ At(s, "verify")'
        /\ \A u \in Tasks \ {s} : Alike(u)
        /\ \A u \in Tasks \ {s} : Current(u)' => Current(u)
    <3>1. At(s, "idle") /\ ~task[s].refused /\ ~task[s].late
      BY <1>1, <1>3 DEF Begun, PlaceOK, At
    <3>2. \A u \in Tasks \ {s} : Alike(u) /\ (task[u].late => task'[u].late)
      BY <1>3 DEF Begun, SameLate
    <3>3. /\ ~task'[s].late /\ task'[s].pc \in {"check", "logout", "verify"}
          /\ ~task'[s].refused \/ At(s, "verify")'
      BY <1>3, <3>1 DEF Begun, SameLate, At
    <3> QED BY <3>1, <3>2, <3>3 DEF Alike, Current, Running, At
  <2>2. ASSUME Gone PROVE Gone'
    BY <1>1, <1>3, <2>1, <2>2 DEF Begun, Gone, Alike, Storing, At
  <2>3. ASSUME Dying, app.status = "authenticated" PROVE Dying'
    <3>1. PICK u \in Tasks : Current(u) /\ Clearing(u)
      BY <2>3 DEF Dying
    <3>2. u # s /\ Alike(u) /\ SameLate(u)
      BY <1>3, <2>1, <2>3, <3>1 DEF Begun, Current, Running
    <3> QED BY <3>1, <3>2 DEF Dying, Alike, SameLate, Current, Running, Clearing, At
  <2>4. Whole'
    <3>1. s # "init" /\ app.status # "unknown"
      BY <1>3 DEF Begun
    <3>2. ~Running("init") /\ ~Running("init")'
      BY <1>1, <2>1, <3>1 DEF Whole, Alike, Running, At
    <3>3. CASE app.status = "unauthenticated"
      <4>1. ~SigningIn
        BY <1>1, <1>3, <3>3 DEF Begun, SigningIn, PlaceOK, SignInSteps, At
      <4>2. Bare'
        BY <1>1, <3>3, <4>1 DEF Whole
      <4>3. At("signIn", "verify")'
        BY <1>3, <3>3 DEF Begun, At
      <4> QED BY <1>1, <3>2, <3>3, <4>2, <4>3 DEF Whole, Storing, At
    <3>4. CASE app.status = "authenticated"
      <4>1. s # "signIn" /\ At("signIn", "idle")
        BY <1>3, <3>4 DEF Begun
      <4>2. ~SigningIn'
        BY <1>1, <2>1, <4>1 DEF SigningIn, Alike, PlaceOK, SignInSteps, At
      <4> QED BY <1>1, <2>2, <2>3, <3>2, <3>4, <4>2 DEF Whole, SameTokens
    <3> QED BY <1>3, <3>3, <3>4 DEF Begun
  <2>5. Wanted'
    <3>1. ASSUME app.status = "authenticated", NEW u \in Tasks, Current(u)', At(u, "leave")'
          PROVE  Gone'
      BY <2>1, <2>2, <3>1 DEF Wanted, Alike, At
    <3>2. ASSUME Current("logout")', At("logout", "forget")' PROVE Gone'
      BY <1>1, <2>1, <2>2, <3>2 DEF Wanted, Alike, At
    <3> QED BY <1>1, <3>1, <3>2 DEF Wanted
  <2>6. ASSUME NEW u \in Tasks, Renewed(u)'
        PROVE  store'.access = 0 \/ store'.access > settled'
    <3>1. u # s
      BY <1>3, <2>1, <2>6 DEF Begun, Renewed, Storing, At
    <3>2. CASE app.status = "unauthenticated"
      <4>1. ~SigningIn
        BY <1>1, <1>3, <3>2 DEF Begun, SigningIn, PlaceOK, SignInSteps, At
      <4> QED BY <1>1, <3>2, <4>1 DEF Whole, Bare
    <3>3. CASE app.status = "authenticated"
      <4>1. Renewed(u)
        BY <1>3, <2>1, <2>6, <3>1, <3>3
           DEF Begun, Renewed, Alike, SameLate, Storing, Running, At
      <4>2. settled' = settled
        BY <1>1, <1>3, <4>1 DEF Begun, AtRest, Renewed, Storing, Running, At
      <4> QED BY <1>1, <4>1, <4>2 DEF NewEnough, SameTokens
    <3> QED BY <1>3, <3>2, <3>3 DEF Begun
  <2>7. ASSUME NEW u \in Tasks, Current(u)', task'[u].refused,
               task'[u].pc \in {"reattach", "sent"}
        PROVE  Gone' \/ Dying' \/ task'[u].token > settled'
    <3>1. u # s /\ Alike(u) /\ Current(u)
      BY <2>1, <2>7
    <3>2. settled' = settled
      BY <1>3, <3>1 DEF Begun, AtRest, Current, Running
    <3>3. app.status = "authenticated"
      BY <1>3, <2>7, <3>1 DEF Begun, Current, Running
    <3> QED BY <2>2, <2>3, <2>7, <3>1, <3>2, <3>3 DEF NewEnough, Alike
  <2>8. Presented'
    <3> SUFFICES ASSUME app.status = "authenticated", NEW u \in Tasks,
                        Current(u)', At(u, "posting")'
                 PROVE  Dying' \/ task'[u].pair = store'.refresh
      BY <1>1 DEF Presented
    <3>1. u # s /\ Alike(u) /\ Current(u) /\ At(u, "posting")
      BY <2>1 DEF Alike, At
    <3> QED BY <1>1, <2>3, <3>1 DEF Presented, Alike, SameTokens
  <2> QED BY <2>4, <2>5, <2>6, <2>7, <2>8 DEF NewEnough
<1> QED BY <1>1, <1>2, <1>3

(* A step of an app that has met no fault and no late write.               *)
LEMMA StepIsClean ==
    ASSUME SessionInv, NEW t \in Tasks, Step(t), Meddling(t), ~meddled', ~faulty'
    PROVE  CleanStep(t)
<1>1. TypeInv /\ OrderInv
  BY DEF SessionInv, RefreshInv
<1>2. ~meddled /\ ~faulty /\ ~torn
  BY <1>1, LateLeaves, StepFrame DEF SessionInv, TornInv
<1> QED BY <1>1, <1>2
        DEF SessionInv, RefreshInv, AloneInv, ShownInv, CleanInv, LiveInv, Works, Clean,
            CleanStep

LEMMA CleanKept ==
    ASSUME SessionInv, [Next]_vars
    PROVE  CleanInv'
<1> SUFFICES ASSUME ~meddled', ~faulty'
             PROVE  Whole' /\ Wanted' /\ NewEnough' /\ Presented'
  BY DEF CleanInv
<1>1. TypeInv /\ OrderInv
  BY DEF SessionInv, RefreshInv
<1>2. ASSUME NEW t \in Tasks, Step(t), Meddling(t)
      PROVE  Whole' /\ Wanted' /\ NewEnough' /\ Presented'
  BY <1>2, StepIsClean, WholeKept, WantedKept, NewEnoughKept, PresentedKept
<1>3. CASE Other /\ UNCHANGED meddled
  <2>1. ~Kill
    BY <1>1, KillKind
  <2>2. UNCHANGED faulty
    BY <1>1, <1>3, <2>1, OtherKinds
  <2>3. Whole /\ Wanted /\ NewEnough /\ Presented
    BY <1>3, <2>2 DEF SessionInv, CleanInv
  <2> QED BY <1>1, <1>3, <2>1, <2>3, CleanKeptByOthers
<1>4. CASE UNCHANGED vars
  <2>1. UNCHANGED <<store, app, task, settled, meddled, faulty>>
    BY <1>4 DEF vars, limits
  <2>2. Whole /\ Wanted /\ NewEnough /\ Presented
    BY <2>1 DEF SessionInv, CleanInv
  <2>3. (Gone => Gone') /\ (Dying => Dying') /\ (Bare => Bare')
    BY <2>1 DEF Gone, Bare, Dying, Storing, At, Current, Running, Clearing
  <2>4. Whole' /\ Wanted'
    BY <2>1, <2>2, <2>3
       DEF Whole, Wanted, SigningIn, Stored, Storing, At, Current, Running
  <2>5. NewEnough' /\ Presented'
    BY <2>1, <2>2, <2>3
       DEF NewEnough, Presented, Renewed, Storing, At, Current, Running
  <2> QED BY <2>4, <2>5
<1> QED BY <1>2, <1>3, <1>4, StepOrOther

LEMMA TornKept ==
    ASSUME TypeInv, TornInv, [Next]_vars
    PROVE  TornInv'
<1>1. CASE Kill
  BY <1>1, KillKind DEF TornInv
<1>2. CASE UNCHANGED vars
  BY <1>2 DEF vars, limits, TornInv
<1> QED BY <1>1, <1>2, StepFrame, OtherKinds, StepOrOther DEF TornInv

LEMMA SessionInvAtFirst == Init => SessionInv
<1> SUFFICES ASSUME Init PROVE SessionInv
  OBVIOUS
<1>1. RefreshInv /\ OrderInv /\ AloneInv
  BY RefreshInvAtFirst, OrderAtFirst
<1>2. /\ \A s \in Tasks : /\ task[s].pc = IF s = "init" THEN "readStore" ELSE "idle"
                          /\ ~task[s].refused /\ ~task[s].late /\ ~task[s].public
      /\ app.status = "unknown"
      /\ store.access = 0 /\ store.refresh = 0 /\ store.expiry = "none"
      /\ torn = FALSE
      /\ {"init", "signIn", "logout"} \subseteq Tasks
  BY DEF Init, Started, Idle, Empty, Tasks
<1>3. LiveInv
  BY <1>2 DEF LiveInv, Works, Unsaved, At
<1>4. ShownInv
  BY <1>2
     DEF ShownInv, SignInShown, StartShown, SessionShown, SigningIn, Trying
<1>5. CleanInv
  BY <1>2
     DEF CleanInv, Whole, Wanted, NewEnough, Presented, Renewed, Bare, SigningIn,
         Storing, Running, At
<1>6. TornInv
  BY <1>2 DEF TornInv
<1> QED BY <1>1, <1>3, <1>4, <1>5, <1>6 DEF SessionInv

LEMMA SessionInvKept == SessionInv /\ [Next]_vars => SessionInv'
<1> SUFFICES ASSUME SessionInv, [Next]_vars PROVE SessionInv'
  OBVIOUS
<1>1. /\ RefreshInv /\ TypeInv /\ OrderInv /\ AloneInv
      /\ LiveInv /\ ShownInv /\ TornInv
  BY DEF SessionInv, RefreshInv
<1> QED BY <1>1, RefreshInvKept, OrderKept, AloneInvKept, LiveKept, ShownKept,
           CleanKept, TornKept
        DEF SessionInv

(* While every refresh is answered and the app runs, however many requests *)
(* find the token expired and in whatever order they come back, a session  *)
(* on the screens ends only for a refresh token that has had its thirty    *)
(* days, or because it is ending already (api_client.dart:10-13).          *)
THEOREM NoSessionEndsNeedlessly == Spec => NoNeedlessExpiry
<1> DEFINE Due == \A t \in Tasks :
              /\ ~Clearing(t) /\ Clearing(t)' /\ ~task[t].late
              /\ app.status = "authenticated" /\ ~faulty' /\ ~meddled'
              => (\E s \in Tasks : TooOld(s)) \/ Ending
<1>1. SessionInv /\ [Next]_vars => Due
  <2> SUFFICES ASSUME SessionInv, [Next]_vars, NEW t \in Tasks,
                      ~Clearing(t), Clearing(t)', ~task[t].late,
                      app.status = "authenticated", ~faulty', ~meddled'
               PROVE  (\E s \in Tasks : TooOld(s)) \/ Ending
    OBVIOUS
  <2>1. TypeInv
    BY DEF SessionInv, RefreshInv
  <2>2. PICK u \in Tasks : Step(u) /\ Meddling(u)
    <3>1. ~Kill
      BY <2>1, KillKind
    <3>2. ~Other
      BY <2>1, <3>1, OtherKinds DEF Begun, Passes, Alike, Clearing
    <3>3. task' # task
      BY DEF Clearing
    <3> QED BY <3>2, <3>3, StepOrOther DEF vars
  <2>3. CleanStep(u)
    BY <2>2, StepIsClean
  <2>4. /\ OrderInv /\ PlaceOK(t) /\ expired <= settled
        /\ ~SigningIn /\ Whole /\ NewEnough /\ Presented
        /\ \A s \in Tasks : At(s, "posting") => task[s].pair \in live
    <3>1. OrderInv /\ Alone /\ Whole /\ NewEnough /\ Presented
          /\ \A s \in Tasks : At(s, "posting") => task[s].pair \in live
      BY <2>3 DEF CleanStep, Clean
    <3>2. PlaceOK(u) /\ Running(u)
      BY <2>1, <2>2, <3>1, StepFrame DEF OrderInv
    <3> QED BY <3>1, <3>2 DEF OrderInv, PlaceOK, Alone
  <2>5. Gone \/ Dying => Ending
    BY DEF Gone, Dying, Ending, Current
  <2>6. ASSUME EndsRefresh(u, FALSE) PROVE (\E s \in Tasks : TooOld(s)) \/ Ending
    <3>1. CASE store.refresh = 0
      BY <2>4, <2>5, <3>1 DEF Whole
    <3>2. CASE At(u, "posting") /\ task[u].pair <= lapsed
      <4>1. Current(u) => Dying \/ task[u].pair = store.refresh
        BY <2>4, <3>2 DEF Presented
      <4> QED BY <2>5, <3>2, <4>1 DEF TooOld, Current, Running, At
    <3> QED BY <2>4, <2>6, <3>1, <3>2 DEF EndsRefresh
  <2>7. CASE t # u
    <3>1. PICK ok \in BOOLEAN : EndsRefresh(u, ok)
      BY <2>1, <2>2, <2>7, StepKinds
         DEF GoesOn, GetsPair, StoresToken, Wipes, SignsOut, SignsIn, Frame, EndFrame,
             Alike, Clearing
    <3>2. ~ok
      BY <2>7, <3>1
         DEF EndsRefresh, FinishFrame, Alike, IsTold, AfterRefresh, Clearing
    <3> QED BY <2>6, <3>1, <3>2
  <2>8. CASE t = u
    <3>1. CASE GoesOn(t)
      <4>1. At(t, "sent") /\ task[t].refused /\ ~Known(task[t].token)
        BY <2>4, <3>1 DEF GoesOn, Ended, Signals, PlaceOK, SigningIn, Clearing, At
      <4>2. Current(t)
        BY <4>1 DEF Current, Running, At
      <4>3. expired \in Nat /\ settled \in Nat /\ task[t].token \in Nat
        BY <2>1, <4>1, LenIssued DEF TypeInv, ServerOK, TasksOK, CallOK
      <4>4. ~(task[t].token > settled)
        BY <2>4, <4>1, <4>3 DEF Known
      <4> QED BY <2>4, <2>5, <4>1, <4>2, <4>4 DEF NewEnough, At
    <3>2. ASSUME NEW ok \in BOOLEAN, EndsRefresh(t, ok)
          PROVE  (\E s \in Tasks : TooOld(s)) \/ Ending
      <4>1. ~ok
        BY <3>2 DEF EndsRefresh, IsTold, AfterRefresh, Clearing
      <4> QED BY <2>6, <2>8, <3>2, <4>1
    <3> QED BY <2>1, <2>2, <2>8, <3>1, <3>2, StepKinds
            DEF GetsPair, StoresToken, Wipes, SignsOut, SignsIn, Signals, Ended, Ending,
                Clearing, At
  <2> QED BY <2>7, <2>8
<1>2. SessionInv /\ [Next]_vars => [Due]_vars
  BY <1>1
<1> QED BY <1>2, SessionInvAtFirst, SessionInvKept, PTL DEF Spec, NoNeedlessExpiry

(* Between calls the tokens in storage are those of the session on the     *)
(* screens, whatever came before: refreshes that failed, log-outs, kills   *)
(* (auth_provider.dart:272, token_manager.dart:30-32).                     *)
THEOREM StorageFollowsTheScreens == Spec => []StoreFollowsScreen
<1>1. SessionInv => StoreFollowsScreen
  <2> SUFFICES ASSUME SessionInv, ~meddled, ~torn, AtRest
               PROVE  /\ app.status = "authenticated" =>
                           /\ store.access # 0
                           /\ issued[store.access].session = app.session
                           /\ ~faulty => store.refresh # 0
                      /\ app.status = "unauthenticated" /\ ~faulty =>
                           store.access = 0 /\ store.refresh = 0
    BY DEF StoreFollowsScreen
  <2>1. /\ SessionShown
        /\ ~faulty => Whole
        /\ {"init", "signIn", "logout"} \subseteq Tasks
    BY DEF SessionInv, ShownInv, CleanInv, Tasks
  <2>2. ~Leaving /\ ~Gone /\ ~Dying /\ ~SigningIn
    BY <2>1
       DEF AtRest, Leaving, Gone, Dying, Clearing, SigningIn, SessionInv, OrderInv,
           PlaceOK, SignInSteps, At
  <2> QED BY <2>1, <2>2 DEF SessionShown, OfSession, Whole, Bare, Sess
<1> QED BY <1>1, SessionInvAtFirst, SessionInvKept, PTL DEF Spec

(* While every refresh is answered and the app runs, the server refuses a  *)
(* refresh token only for its age, and never because it was exchanged      *)
(* already: what _doRefresh posts (api_client.dart:240-274) has not been   *)
(* presented before, overtaken by a log-out or not.                        *)
THEOREM RefusedForAgeOnly ==
    Spec => [](~faulty => \A t \in Tasks :
                  At(t, "posting") /\ ~Taken(task[t].pair) => task[t].pair <= lapsed)
<1> DEFINE Old == \A t \in Tasks :
              At(t, "posting") /\ ~Taken(task[t].pair) => task[t].pair <= lapsed
<1>1. SessionInv => (~faulty => Old)
  <2> SUFFICES ASSUME SessionInv, ~faulty, NEW t \in Tasks,
                      At(t, "posting"), ~Taken(task[t].pair)
               PROVE  task[t].pair <= lapsed
    OBVIOUS
  <2>1. task[t].pair \in live
    BY DEF SessionInv, LiveInv, Works
  <2>2. task[t].pair \in Int /\ lapsed \in Int
    <3>1. TypeInv /\ task[t] \in CallsOfTasks
      BY DEF SessionInv, RefreshInv, TypeInv, TasksOK, CallOK
    <3>2. MaxTokens \in Nat /\ Len(issued) \in Nat
      BY <3>1, ClientAssumption, LenIssued DEF TypeInv
    <3> QED BY <3>1, <3>2 DEF CallsOfTasks, Tokens, TypeInv, ServerOK
  <2> QED BY <2>1, <2>2 DEF Taken
<1> QED BY <1>1, SessionInvAtFirst, SessionInvKept, PTL DEF Spec

(* While a session is on the screens, every call that no log-out overtook  *)
(* sends and refreshes tokens of that session: no user's request goes out  *)
(* with the token of the user before (api_client.dart:170-176, 240-244).   *)
THEOREM RequestsAreOfTheSession ==
    Spec => [](~meddled /\ ~torn /\ app.status = "authenticated" =>
                  \A t \in Tasks : ~task[t].late =>
                     /\ At(t, "posting") =>
                           issued[task[t].pair].session = app.session
                     /\ At(t, "sent") /\ task[t].token # 0 =>
                           issued[task[t].token].session = app.session)
<1> DEFINE Ours == \A t \in Tasks : ~task[t].late =>
              /\ At(t, "posting") => issued[task[t].pair].session = app.session
              /\ At(t, "sent") /\ task[t].token # 0 =>
                    issued[task[t].token].session = app.session
<1>1. SessionInv => (~meddled /\ ~torn /\ app.status = "authenticated" => Ours)
  <2> SUFFICES ASSUME SessionInv, ~meddled, ~torn, app.status = "authenticated",
                      NEW t \in Tasks, ~task[t].late
               PROVE  /\ At(t, "posting") =>
                           issued[task[t].pair].session = app.session
                      /\ At(t, "sent") /\ task[t].token # 0 =>
                           issued[task[t].token].session = app.session
    OBVIOUS
  <2>1. Current(t) => Holds(t, app.session)
    BY DEF SessionInv, ShownInv, SessionShown
  <2> QED BY <2>1 DEF Holds, Current, Running, At, Sess
<1> QED BY <1>1, SessionInvAtFirst, SessionInvKept, PTL DEF Spec
=============================================================================
