---------------------------- MODULE ClientSession ----------------------------
(***************************************************************************)
(* The session of the app: the tokens in secure storage, the status the    *)
(* screens show, and the calls that touch them: requests through the JWT   *)
(* interceptor (api_client.dart), the start and the sign-in and log-out of *)
(* AuthProvider, and the listener that ends an expired session.            *)
(*                                                                         *)
(* Dart runs one piece of code at a time and changes at an await, so an    *)
(* action is what happens from one await to the next.  The storage plugin  *)
(* promises no order between calls that overlap.  The server is taken as   *)
(* Auth models it: it gives pairs of an access and a refresh token, n for  *)
(* the n-th, and takes a refresh token once and for thirty days.           *)
(***************************************************************************)
EXTENDS Integers, Sequences

CONSTANTS
    Screens,      \* requests that screens make
    MaxTokens,    \* bound: pairs of tokens that the server issues
    MaxBudget     \* bound: calls begun, refreshes that fail, kills and lapses

Tasks == Screens \cup {"init", "signIn", "logout"}
Nobody == "nobody"

ASSUME ClientAssumption ==
    /\ Screens \cap {"init", "signIn", "logout", Nobody} = {}
    /\ MaxTokens \in Nat
    /\ MaxBudget \in Nat

VARIABLES
    store,         \* what secure storage holds; 0 is no token
    app,           \* AuthProvider: the status, and the session it shows
    task,          \* the calls under way
    refreshing,    \* who is in _doRefresh: _isRefreshing, if not Nobody
    issued,        \* server: the session of each pair, and what it replaced
    live,          \* server: the refresh tokens not yet exchanged
    expired,       \* server: access tokens up to this one are refused
    lapsed,        \* server: and so are the refresh tokens up to this one
    budget,        \* bound: how many more calls and faults there may be
    faulty,        \* history: a refresh failed, or the app was killed
    torn,          \* history: a kill left tokens of two sessions stored
    settled,       \* pairs issued before the calls of the moment began
    replaced,      \* history: tokens whose successor the app has stored
    meddled        \* history: a call changed a session begun after it

server  == <<issued, live, expired, lapsed>>
limits  == <<settled, budget, faulty, torn>>
vars    == <<store, app, task, refreshing, server, limits, replaced, meddled>>
-----------------------------------------------------------------------------
Empty == [access |-> 0, refresh |-> 0, expiry |-> "none", role |-> FALSE]

SignedOut == [status |-> "unauthenticated", session |-> 0]

(* token: what the request carries; pair: the refresh token presented,     *)
(* then the pair received; next: what follows once a pair is stored; role: *)
(* what clearSession keeps; public: is it the sign-in's request, which goes *)
(* without a token?  late: a history, has a session ended since?           *)
Idle == [pc |-> "idle", token |-> 0, pair |-> 0, refused |-> FALSE,
         next |-> "idle", role |-> FALSE, public |-> FALSE, late |-> FALSE]

At(t, pc) == task[t].pc = pc
Running(t) == ~At(t, "idle")

Tokens == 0 .. MaxTokens

TypeOK ==
    /\ store \in [access : Tokens, refresh : Tokens,
                  expiry : {"none", "later", "past"}, role : BOOLEAN]
    /\ app \in [status : {"unknown", "authenticated", "unauthenticated"},
                session : Tokens]
    /\ task \in [Tasks ->
          [pc : {"idle", "readStore", "verify", "saveRole", "show",
                 "check", "stale", "waiting", "refresh", "posting",
                 "saveAccess", "saveRefresh", "saveExpiry", "attach",
                 "reattach", "sent", "readKept", "wipe", "restore", "expire",
                 "leave", "logout", "forget", "keepRole"},
           token : Tokens, pair : Tokens, refused : BOOLEAN,
           next : {"idle", "saveRole", "refreshed"}, role : BOOLEAN,
           public : BOOLEAN, late : BOOLEAN]]
    /\ refreshing \in Tasks \cup {Nobody}
    /\ issued \in Seq([session : Tokens, from : Tokens])
    /\ Len(issued) <= MaxTokens
    /\ live \subseteq DOMAIN issued
    /\ expired \in Tokens
    /\ lapsed \in 0 .. expired
    /\ settled \in Tokens
    /\ budget \in 0 .. MaxBudget
    /\ faulty \in BOOLEAN
    /\ torn \in BOOLEAN
    /\ replaced \subseteq DOMAIN issued
    /\ meddled \in BOOLEAN

Started == [t \in Tasks |-> IF t = "init" THEN [Idle EXCEPT !.pc = "readStore"]
                            ELSE Idle]

Init ==
    /\ store = Empty
    /\ app = [status |-> "unknown", session |-> 0]
    /\ task = Started
    /\ refreshing = Nobody
    /\ issued = <<>>
    /\ live = {}
    /\ expired = 0
    /\ lapsed = 0
    /\ settled = 0
    /\ budget = MaxBudget
    /\ faulty = FALSE
    /\ torn = FALSE
    /\ replaced = {}
    /\ meddled = FALSE
-----------------------------------------------------------------------------
Goto(t, pc) == task' = [task EXCEPT ![t].pc = pc]

Done(t) == task' = [task EXCEPT ![t] = Idle]

AtRest == \A t \in Tasks : At(t, "idle")

Spend == budget > 0 /\ budget' = budget - 1

Begin(t) ==
    /\ At(t, "idle")
    /\ Spend
    /\ settled' = IF AtRest THEN Len(issued) ELSE settled
    /\ UNCHANGED <<faulty, torn>>

Save(changed) == store' = changed

(* A session ends or begins: every other call that is under way belongs to *)
(* the past.                                                               *)
Overtake(t, after) ==
    task' = [s \in Tasks |->
               IF s = t THEN after
               ELSE [task[s] EXCEPT !.late = @ \/ Running(s)]]

(* The session ends, in storage or on the screens.                         *)
End(t, after) ==
    IF app.status = "authenticated" THEN Overtake(t, after)
    ELSE task' = [task EXCEPT ![t] = after]

(* The server issues a pair.                                               *)
CanIssue == Len(issued) < MaxTokens
New == Len(issued) + 1

Issue(session, from) ==
    /\ CanIssue
    /\ issued' = Append(issued, [session |-> session, from |-> from])
    /\ live' = (live \ {from}) \cup {New}
    /\ UNCHANGED <<expired, lapsed>>
-----------------------------------------------------------------------------
(* Plausible slips in the code below, each used by one mutant: no lock,    *)
(* the result passed on before it is known, the waiters forgotten, seconds *)
(* for milliseconds, a log-out that removes only the access token.         *)
JoinWithoutLock(t, refused) ==
    /\ refreshing' = t
    /\ task' = [task EXCEPT ![t].pc = "refresh", ![t].refused = refused,
                            ![t].token = 0]

FinishTooSoon(t, ok) ==
    /\ refreshing' = Nobody
    /\ task' = [s \in Tasks |->
                  IF s = t \/ At(s, "waiting")
                  THEN [task[s] EXCEPT
                          !.pc = IF ok /\ s = t THEN "attach" ELSE "readKept",
                          !.pair = 0, !.next = "idle"]
                  ELSE task[s]]

FinishAlone(t, ok) ==
    /\ refreshing' = Nobody
    /\ task' = [task EXCEPT ![t].pc = IF ok THEN "attach" ELSE "readKept",
                            ![t].pair = 0, ![t].next = "idle"]

SaveExpirySeconds(t) ==
    /\ At(t, "saveExpiry")
    /\ Save([store EXCEPT !.expiry = "inSeconds"])
    /\ Goto(t, "attach")
    /\ UNCHANGED <<app, refreshing, server, limits, replaced>>

WipeAccess(t) ==
    /\ At(t, "logout")
    /\ Save([store EXCEPT !.access = 0])
    /\ End(t, [task[t] EXCEPT !.pc = "forget"])
    /\ UNCHANGED <<app, refreshing, server, limits, replaced>>

(* _refreshWithLock: whoever finds a refresh under way waits for its       *)
(* result.  Nothing is awaited between the test and the setting of the     *)
(* flag.                                                                   *)
Join(t, refused) ==
    /\ refreshing' = IF refreshing = Nobody THEN t ELSE refreshing
    /\ task' = [task EXCEPT
                  ![t].pc = IF refreshing = Nobody THEN "refresh" ELSE "waiting",
                  ![t].refused = refused, ![t].token = 0]

(* The finally block: the flag is cleared and every waiter is told.  They  *)
(* go on to attach the new token, or to clear the session.                 *)
AfterRefresh(ok) == IF ok THEN "attach" ELSE "readKept"

Finish(t, ok) ==
    /\ refreshing' = Nobody
    /\ task' = [s \in Tasks |->
                  IF s = t \/ At(s, "waiting")
                  THEN [task[s] EXCEPT !.pc = AfterRefresh(ok), !.pair = 0,
                                       !.next = "idle"]
                  ELSE task[s]]

(* Does the server take the refresh token: is it new and not too old?      *)
Taken(pair) == pair \in live /\ pair > lapsed

(* _doRefresh: the stored refresh token is read, presented, and replaced.  *)
ReadRefreshToken(t) ==
    /\ At(t, "refresh")
    /\ IF store.refresh = 0
       THEN Finish(t, FALSE)
       ELSE /\ task' = [task EXCEPT ![t].pc = "posting", ![t].pair = store.refresh]
            /\ UNCHANGED refreshing
    /\ UNCHANGED <<store, app, server, limits, replaced>>

Rotated(t) ==
    LET old == task[t].pair IN
    /\ At(t, "posting")
    /\ Taken(old)
    /\ Issue(issued[old].session, old)
    /\ task' = [task EXCEPT ![t].pc = "saveAccess", ![t].pair = New,
                            ![t].next = "refreshed"]
    /\ UNCHANGED <<store, app, refreshing, limits, replaced>>

Refused(t) ==
    /\ At(t, "posting")
    /\ ~Taken(task[t].pair)
    /\ Finish(t, FALSE)
    /\ UNCHANGED <<store, app, server, limits, replaced>>

(* The request or its answer is lost or late: the catch-all makes a failed *)
(* refresh of it, whether or not the server has rotated the token.         *)
RefreshFails(t) ==
    /\ At(t, "posting")
    /\ Spend \/ (~CanIssue /\ UNCHANGED budget)
    /\ faulty' = TRUE
    /\ live' \in {live, live \ {task[t].pair}}
    /\ Finish(t, FALSE)
    /\ UNCHANGED <<store, app, issued, expired, lapsed, settled, torn, replaced>>

(* saveTokens: three writes, one after the other.                          *)
SaveAccess(t) ==
    /\ At(t, "saveAccess")
    /\ Save([store EXCEPT !.access = task[t].pair])
    /\ Goto(t, "saveRefresh")
    /\ UNCHANGED <<app, refreshing, server, limits, replaced>>

SaveRefresh(t) ==
    /\ At(t, "saveRefresh")
    /\ Save([store EXCEPT !.refresh = task[t].pair])
    /\ replaced' = replaced \cup ({issued[task[t].pair].from} \ {0})
    /\ Goto(t, "saveExpiry")
    /\ UNCHANGED <<app, refreshing, server, limits>>

SaveExpiry(t) ==
    /\ At(t, "saveExpiry")
    /\ Save([store EXCEPT !.expiry = "later"])
    /\ CASE task[t].next = "refreshed" -> Finish(t, TRUE)
         [] task[t].next = "saveRole"  -> Goto(t, "saveRole") /\ UNCHANGED refreshing
         [] task[t].next = "idle"      -> Done(t) /\ UNCHANGED refreshing
    /\ UNCHANGED <<app, server, limits, replaced>>
-----------------------------------------------------------------------------
(* The router shows the screens while the app is signed in, from when the  *)
(* sign-in has returned.                                                   *)
OnScreens == app.status = "authenticated" /\ At("signIn", "idle")

(* A request through the interceptor.  It may still be under way when the  *)
(* app is no longer signed in.                                             *)
Request(s) ==
    /\ OnScreens
    /\ Begin(s)
    /\ Goto(s, "check")
    /\ UNCHANGED <<store, app, refreshing, server, replaced>>

(* onRequest: isTokenExpired reads the expiry, ...                         *)
CheckExpiry(t) ==
    /\ At(t, "check")
    /\ Goto(t, IF store.expiry = "past" THEN "stale" ELSE "attach")
    /\ UNCHANGED <<store, app, refreshing, server, limits, replaced>>

(* ... a refresh comes first if it is past, ...                            *)
RefreshFirst(t) ==
    /\ At(t, "stale")
    /\ Join(t, task[t].refused)
    /\ UNCHANGED <<store, app, server, limits, replaced>>

(* ... and the stored token goes with the request.  A retry gets it from   *)
(* onError, and once more on its way through onRequest if there is one.    *)
Attach(t) ==
    /\ \/ At(t, "attach") /\ ~task[t].public
       \/ At(t, "reattach") /\ store.access # 0
    /\ task' = [task EXCEPT
                  ![t].token = store.access,
                  ![t].pc = IF @ = "attach" /\ task[t].refused THEN "reattach" ELSE "sent"]
    /\ UNCHANGED <<store, app, refreshing, server, limits, replaced>>

SendBare(t) ==
    /\ At(t, "reattach")
    /\ store.access = 0
    /\ Goto(t, "sent")
    /\ UNCHANGED <<store, app, refreshing, server, limits, replaced>>

Known(token) == token > expired

(* The server answers.  The start takes the profile's user for the one who *)
(* is signed in; SelectRole's answer holds a new pair to be stored; after  *)
(* setupProfile, of the profile screen, the app is signed in once more.    *)
Answered(t) ==
    /\ At(t, "sent")
    /\ Known(task[t].token)
    /\ LET session == issued[task[t].token].session IN
       CASE t = "init" ->
              /\ app' = [status |-> "authenticated", session |-> session]
              /\ Done(t)
              /\ UNCHANGED server
         [] t = "signIn" ->
              /\ Issue(session, 0)
              /\ task' = [task EXCEPT ![t].pc = "saveAccess", ![t].pair = New,
                                      ![t].next = "idle"]
              /\ UNCHANGED app
         [] OTHER ->
              /\ \/ Done(t)
                 \/ /\ t \in Screens
                    /\ task' = [task EXCEPT ![t].pc = "saveRole", ![t].pair = task[t].token]
              /\ UNCHANGED <<app, server>>
    /\ UNCHANGED <<store, refreshing, limits, replaced>>

(* What an error that reaches the caller does: _init signs out, a screen   *)
(* shows it, and verifyOtp has signed in already.                          *)
Told(t) == IF t = "init" THEN SignedOut ELSE app

(* An error other than 401, or no answer in time.                          *)
Failed(t) ==
    /\ At(t, "sent")
    /\ app' = Told(t)
    /\ Done(t)
    /\ UNCHANGED <<store, refreshing, server, limits, replaced>>

(* onError: the first 401 leads to a refresh and a retry, the second to    *)
(* the end of the session.                                                 *)
Unauthorized(t) ==
    /\ At(t, "sent")
    /\ ~Known(task[t].token)
    /\ IF task[t].refused
       THEN Goto(t, "readKept") /\ UNCHANGED refreshing
       ELSE Join(t, TRUE)
    /\ UNCHANGED <<store, app, server, limits, replaced>>
-----------------------------------------------------------------------------
(* clearSession keeps the role over the wiping of the storage (nothing     *)
(* stores a service for it to keep); the caller then signals the expiry    *)
(* and reports its error, ...                                              *)
ReadKept(t) ==
    /\ At(t, "readKept")
    /\ task' = [task EXCEPT ![t].pc = "wipe", ![t].role = store.role]
    /\ UNCHANGED <<store, app, refreshing, server, limits, replaced>>

Wipe(t) ==
    /\ At(t, "wipe")
    /\ Save(Empty)
    /\ Goto(t, "restore")
    /\ UNCHANGED <<app, refreshing, server, limits, replaced>>

Restore(t) ==
    /\ At(t, "restore")
    /\ Save([store EXCEPT !.role = @ \/ task[t].role])
    /\ app' = Told(t)
    /\ task' = [task EXCEPT ![t] = [Idle EXCEPT !.pc = "expire", !.late = task[t].late]]
    /\ UNCHANGED <<refreshing, server, limits, replaced>>

(* ... and AuthProvider's listener, logoutAndChooseRole, wipes it again.   *)
(* Its steps take the place of those of the call that signalled.           *)
WipeAgain(t) ==
    /\ At(t, "expire")
    /\ Save(Empty)
    /\ End(t, [task[t] EXCEPT !.pc = "leave"])
    /\ UNCHANGED <<app, refreshing, server, limits, replaced>>

Leave(t) ==
    /\ At(t, "leave")
    /\ app' = SignedOut
    /\ End(t, Idle)
    /\ UNCHANGED <<store, refreshing, server, limits, replaced>>
-----------------------------------------------------------------------------
(* AuthProvider._init: a stored token and role are tried on the profile.   *)
(* Nothing else runs yet, so its two reads are one step.                   *)
ReadStore(t) ==
    /\ At(t, "readStore")
    /\ IF store.access # 0 /\ store.role
       THEN Goto(t, "check") /\ UNCHANGED app
       ELSE app' = SignedOut /\ Done(t)
    /\ UNCHANGED <<store, refreshing, server, limits, replaced>>

(* selectLoginRole and verifyOtp.                                          *)
SignIn ==
    /\ app.status = "unauthenticated"
    /\ Begin("signIn")
    /\ Overtake("signIn", [Idle EXCEPT !.pc = "verify", !.public = TRUE])
    /\ Save([store EXCEPT !.role = TRUE])
    /\ UNCHANGED <<app, refreshing, server, replaced>>

Verified(t) ==
    /\ At(t, "verify")
    /\ Issue(New, 0)
    /\ task' = [task EXCEPT ![t].pc = "saveAccess", ![t].pair = New,
                            ![t].next = "saveRole"]
    /\ UNCHANGED <<store, app, refreshing, limits, replaced>>

(* A wrong code is a 401 too, and onError treats it as any other: the      *)
(* stored refresh token is tried and the code sent once more, and then the *)
(* session is cleared and its end signalled.                               *)
Denied(t) ==
    /\ At(t, "verify")
    /\ IF task[t].refused
       THEN Goto(t, "readKept") /\ UNCHANGED refreshing
       ELSE Join(t, TRUE)
    /\ UNCHANGED <<store, app, server, limits, replaced>>

VerifyAgain(t) ==
    /\ At(t, "attach")
    /\ task[t].public
    /\ Goto(t, "verify")
    /\ UNCHANGED <<store, app, refreshing, server, limits, replaced>>

VerifyFails(t) ==
    /\ At(t, "verify")
    /\ Done(t)
    /\ UNCHANGED <<store, app, refreshing, server, limits, replaced>>

(* verifyOtp and setupProfile: the role is stored, and after one more      *)
(* write, for the phone, the app is signed in.  If the role chosen is not  *)
(* the account's, verifyOtp asks for /auth/select-role.                    *)
SaveRole(t) ==
    /\ At(t, "saveRole")
    /\ Save([store EXCEPT !.role = TRUE])
    /\ Goto(t, "show")
    /\ UNCHANGED <<app, refreshing, server, limits, replaced>>

Show(t) ==
    /\ At(t, "show")
    /\ app' = [status |-> "authenticated", session |-> issued[task[t].pair].session]
    /\ \/ Done(t)
       \/ /\ t = "signIn"
          /\ task' = [task EXCEPT ![t] = [Idle EXCEPT !.pc = "check", !.late = task[t].late]]
    /\ UNCHANGED <<store, refreshing, server, limits, replaced>>

(* logout: the storage is wiped, the screens are left, the role put back.  *)
(* The server is not told.                                                 *)
LogOut ==
    /\ OnScreens
    /\ Begin("logout")
    /\ Goto("logout", "logout")
    /\ UNCHANGED <<store, app, refreshing, server, replaced>>

WipeAll(t) ==
    /\ At(t, "logout")
    /\ Save(Empty)
    /\ End(t, [task[t] EXCEPT !.pc = "forget"])
    /\ UNCHANGED <<app, refreshing, server, limits, replaced>>

Forget(t) ==
    /\ At(t, "forget")
    /\ app' = SignedOut
    /\ End(t, [task[t] EXCEPT !.pc = "keepRole"])
    /\ UNCHANGED <<store, refreshing, server, limits, replaced>>

KeepRole(t) ==
    /\ At(t, "keepRole")
    /\ Save([store EXCEPT !.role = TRUE])
    /\ Done(t)
    /\ UNCHANGED <<app, refreshing, server, limits, replaced>>
-----------------------------------------------------------------------------
(* The two stored tokens are of two sessions, as between the two writes of *)
(* a sign-in that found the tokens of an old session in storage.           *)
Mixed == /\ store.access # 0
         /\ store.refresh # 0
         /\ issued[store.access].session # issued[store.refresh].session

(* The app is killed and started again; a request that was posted may have *)
(* reached the server, see RefreshFails.                                   *)
Kill ==
    /\ Spend
    /\ faulty' = TRUE
    /\ torn' = (torn \/ Mixed)
    /\ app' = [status |-> "unknown", session |-> 0]
    /\ task' = Started
    /\ refreshing' = Nobody
    /\ settled' = Len(issued)
    /\ UNCHANGED <<store, server, replaced>>

(* Thirty seconds before the expiry that the app has stored: an hour after *)
(* a refresh, as the server's expires_at is not read there.                *)
ExpiryComes ==
    /\ store.expiry = "later"
    /\ Save([store EXCEPT !.expiry = "past"])
    /\ UNCHANGED <<app, task, refreshing, server, limits, replaced>>

(* Access tokens work for thirty days, longer than calls that overlap take *)
(* from the first to the last.                                             *)
TokensExpire ==
    /\ expired' \in expired + 1 .. (IF AtRest THEN Len(issued) ELSE settled)
    /\ UNCHANGED <<store, app, task, refreshing, issued, live, lapsed, limits, replaced>>

(* Refresh tokens work for thirty days too, from the same moment but for   *)
(* the part of a second that an access token's expiry is rounded down by.  *)
RefreshTokensLapse ==
    /\ lapsed' \in lapsed + 1 .. expired
    /\ Spend
    /\ UNCHANGED <<store, app, task, refreshing, issued, live, expired, settled, faulty, torn, replaced>>
-----------------------------------------------------------------------------
Step(t) ==
    \/ CheckExpiry(t) \/ RefreshFirst(t) \/ Attach(t) \/ SendBare(t)
    \/ Answered(t) \/ Failed(t) \/ Unauthorized(t)
    \/ ReadRefreshToken(t) \/ Rotated(t) \/ Refused(t) \/ RefreshFails(t)
    \/ SaveAccess(t) \/ SaveRefresh(t) \/ SaveExpiry(t)
    \/ ReadKept(t) \/ Wipe(t) \/ Restore(t) \/ WipeAgain(t) \/ Leave(t)
    \/ ReadStore(t)
    \/ Verified(t) \/ Denied(t) \/ VerifyAgain(t) \/ VerifyFails(t)
    \/ SaveRole(t) \/ Show(t)
    \/ WipeAll(t) \/ Forget(t) \/ KeepRole(t)

Meddling(t) ==
    meddled' = (meddled \/ (task[t].late /\ <<store, app>>' # <<store, app>>))

Next ==
    \/ \E t \in Tasks : Step(t) /\ Meddling(t)
    \/ (\E s \in Screens : Request(s)) /\ UNCHANGED meddled
    \/ (SignIn \/ LogOut \/ Kill) /\ UNCHANGED meddled
    \/ (ExpiryComes \/ TokensExpire \/ RefreshTokensLapse) /\ UNCHANGED meddled

Spec == Init /\ [][Next]_vars

(* Storage answers, and dio gives up on a server that does not within 30 s *)
(* (ApiEndpoints): a call that need not wait for another one goes on.      *)
FairSpec == Spec /\ \A t \in Tasks : WF_vars(Step(t) /\ Meddling(t))
-----------------------------------------------------------------------------
(* A refresh token is not presented again once the app has stored what it  *)
(* was given for it: requests that find it too old at the same time share  *)
(* one refresh (api_client.dart:217), and later ones read its result.      *)
NotPresentedAgain == \A t \in Tasks : At(t, "posting") => task[t].pair \notin replaced

Clearing(t) == task[t].pc \in {"readKept", "wipe", "restore", "expire", "leave"}

(* The refresh that a call presents its token for is refused for age; the  *)
(* token is the stored one, but for a call that a log-out overtook.        *)
TooOld(t) ==
    /\ At(t, "posting")
    /\ task[t].pair <= lapsed
    /\ task[t].late \/ task[t].pair = store.refresh

(* The session is ending already: another request clears it, or a log-out  *)
(* or the listener has wiped the storage and not yet left the screens.     *)
Ending ==
    \/ At("logout", "forget")
    \/ \E s \in Tasks : At(s, "leave") \/ (Clearing(s) /\ ~task[s].late)

(* While every refresh is answered and the app runs, a request ends the    *)
(* session on the screens only if the refresh token has had its thirty     *)
(* days, however many find the access token expired and in whatever order  *)
(* they come back (api_client.dart:10-13), or if it is ending already.     *)
NoNeedlessExpiry ==
    [][\A t \in Tasks :
         /\ ~Clearing(t) /\ Clearing(t)' /\ ~task[t].late
         /\ app.status = "authenticated" /\ ~faulty' /\ ~meddled'
         => (\E s \in Tasks : TooOld(s)) \/ Ending]_vars

(* Between calls, the stored session is the one on the screens: complete,  *)
(* unless the app was once killed, and gone after a log-out, unless a call *)
(* that the log-out did not wait for brought it back (auth_provider.dart:  *)
(* 272, token_manager.dart:30-32).  A kill between the two writes of a     *)
(* sign-in can leave tokens of two sessions, of which the start shows one  *)
(* and a later refresh brings back the other.                              *)
StoreFollowsScreen ==
    ~meddled /\ ~torn /\ AtRest =>
        /\ app.status = "authenticated" =>
              /\ store.access # 0
              /\ issued[store.access].session = app.session
              /\ ~faulty => store.refresh # 0
        /\ app.status = "unauthenticated" /\ ~faulty =>
              store.access = 0 /\ store.refresh = 0

(* No request waits for ever for a refresh, the start always ends in one   *)
(* status or the other, and so does a sign-in or a log-out.                *)
EveryTaskEnds == \A t \in Tasks : []<>~Running(t)
=============================================================================
