--------------------------------- MODULE Auth ---------------------------------
(***************************************************************************)
(* Sign-in by one-time code, roles and rotated refresh tokens, from        *)
(* backend/internal/auth/auth_service.go, over the PostgreSQL tables       *)
(* otp_records, users and refresh_tokens.                                  *)
(*                                                                         *)
(* A call is a sequence of SQL statements, one action each; the calls of   *)
(* different goroutines interleave between statements.  Only VerifyOTP     *)
(* opens a transaction.  Its writes stay in the goroutine's locals until   *)
(* Commit, which is what READ COMMITTED shows to the other calls; its row  *)
(* locks and its unfinished INSERT into users make other calls wait.       *)
(*                                                                         *)
(* A code stands for its record: codes are taken to be distinct.  Nothing  *)
(* reads the Redis copy of a code, so it is left out, and so are name,     *)
(* email and last_login.                                                   *)
(***************************************************************************)
EXTENDS Integers

CONSTANTS
    Phones,
    Roles,         \* values of users.role a client may select
    Customer,      \* the default of users.role
    OtpIds,        \* rows otp_records may get; a bound on codes sent
    UserIds,       \* rows users may get
    TokenIds,      \* rows refresh_tokens may get; a bound on tokens issued
    Reqs,          \* request goroutines, each reused once it is idle again
    None,          \* no phone, no user; a row that does not exist has it
    Ops,           \* the operations clients use
    MaxCalls,      \* bound: calls received in a behaviour
    MaxFailures    \* bound: failed statements and crashes in a behaviour

ASSUME AuthAssumption ==
    /\ Customer \in Roles
    /\ None \notin Phones \cup UserIds
    /\ Ops \subseteq {"send", "verify", "select", "refresh", "logout"}
    /\ MaxCalls \in Nat
    /\ MaxFailures \in Nat

VARIABLES
    otps,          \* [OtpIds -> rows of otp_records]
    users,         \* [UserIds -> rows of users]
    tokens,        \* [TokenIds -> rows of refresh_tokens]
    go,            \* [Reqs -> Goroutines], the locals of each request
    calls,         \* calls received so far
    failures,      \* statements failed and crashes so far
    signIns,       \* history: [OtpIds -> Nat], sign-ins a code has given
    rotations,     \* history: [TokenIds -> Nat], refreshes a token has given
    claim          \* history: [UserIds -> Roles], the role in the access
                   \* token issued last

tables  == <<otps, users, tokens>>
bounds  == <<calls, failures>>
history == <<signIns, rotations, claim>>
vars    == <<tables, go, bounds, history>>

OtpRows   == [phone : Phones \cup {None}, used : BOOLEAN, deleted : BOOLEAN,
              expired : BOOLEAN]
UserRows  == [phone : Phones \cup {None}, role : Roles]
TokenRows == [user : UserIds \cup {None}, used : BOOLEAN, deleted : BOOLEAN,
              expired : BOOLEAN]

Calls ==
    [op : {"send"}, phone : Phones]
        \cup [op : {"verify"}, phone : Phones, otp : OtpIds]
        \cup [op : {"select"}, user : UserIds, role : Roles]
        \cup [op : {"refresh", "logout"}, token : TokenIds]
NoCall == [op |-> "none"]

FirstStep == [send |-> "invalidate", verify |-> "lookup", select |-> "load",
              refresh |-> "check", logout |-> "forget"]
InTx  == {"find", "insert", "touch", "commit"}
Steps == InTx \cup {"idle", "invalidate", "create", "lookup", "mark", "load",
                    "setRole", "check", "owner", "rotate", "issue", "forget"}

(* user and role are the user variable of a call; marked and fresh say     *)
(* that its open transaction has set used and has inserted user.           *)
Goroutines == [pc : Steps, call : Calls \cup {NoCall}, user : UserIds \cup {None},
               role : Roles, marked : BOOLEAN, fresh : BOOLEAN]
Idle == [pc |-> "idle", call |-> NoCall, user |-> None, role |-> Customer,
         marked |-> FALSE, fresh |-> FALSE]

TypeOK ==
    /\ otps \in [OtpIds -> OtpRows]
    /\ users \in [UserIds -> UserRows]
    /\ tokens \in [TokenIds -> TokenRows]
    /\ go \in [Reqs -> Goroutines]
    /\ calls \in 0 .. MaxCalls
    /\ failures \in 0 .. MaxFailures
    /\ signIns \in [OtpIds -> Nat]
    /\ rotations \in [TokenIds -> Nat]
    /\ claim \in [UserIds -> Roles]

NoOtp   == [phone |-> None, used |-> FALSE, deleted |-> FALSE, expired |-> FALSE]
NoUser  == [phone |-> None, role |-> Customer]
NoToken == [user |-> None, used |-> FALSE, deleted |-> FALSE, expired |-> FALSE]

Init ==
    /\ otps = [o \in OtpIds |-> NoOtp]
    /\ users = [u \in UserIds |-> NoUser]
    /\ tokens = [t \in TokenIds |-> NoToken]
    /\ go = [r \in Reqs |-> Idle]
    /\ calls = 0
    /\ failures = 0
    /\ signIns = [o \in OtpIds |-> 0]
    /\ rotations = [t \in TokenIds |-> 0]
    /\ claim = [u \in UserIds |-> Customer]
-----------------------------------------------------------------------------
(* Plausible slips in the code below, each used by one mutant.             *)

OtpLiveThoughUsed(o)   == ~(otps[o].deleted \/ otps[o].expired)
TokenLiveThoughUsed(t) == ~(tokens[t].deleted \/ tokens[t].expired)
PhoneTakenIgnored(p)   == FALSE
RoleOfDefault(u)       == Customer
PreviousUsed(p) == {o \in OtpIds : otps[o].phone = p /\ otps[o].used}
(* An INSERT that is refused is tried again for ever.                      *)
InsertUserAgainAndAgain(r) ==
    /\ go[r].pc = "insert"
    /\ \A q \in Reqs \ {r} : ~(go[q].fresh /\ go[q].call.phone = go[r].call.phone)
    /\ \A u \in UserIds : users[u].phone # go[r].call.phone
    /\ \E u \in {n \in UserIds : \A q \in Reqs : go[q].user # n} :
          /\ users[u].phone = None
          /\ go' = [go EXCEPT ![r].pc = "touch", ![r].user = u, ![r].fresh = TRUE]
    /\ UNCHANGED <<tables, bounds, history>>
IssueTokenToPhone(r) ==
    /\ \E t \in TokenIds : tokens' = [tokens EXCEPT ![t].user = users[go[r].user].phone]
    /\ UNCHANGED claim
MarkUsedOutsideTx(r) ==
    /\ go[r].pc = "mark"
    /\ otps' = [otps EXCEPT ![go[r].call.otp].used = TRUE]
    /\ go' = [go EXCEPT ![r].pc = "find"]
    /\ UNCHANGED <<users, tokens, bounds, history>>
TouchUserIssuesToken(r) ==
    /\ go[r].pc = "touch"
    /\ \E t \in TokenIds : tokens' = [tokens EXCEPT ![t].user = go[r].user]
    /\ go' = [go EXCEPT ![r].pc = "commit"]
    /\ UNCHANGED <<otps, users, bounds, history>>
-----------------------------------------------------------------------------
At(r, step) == go[r].pc = step
Phone(r) == go[r].call.phone
Otp(r)   == go[r].call.otp
Token(r) == go[r].call.token
User(r)  == go[r].user

Goto(r, step) == go' = [go EXCEPT ![r].pc = step]
Finish(r)     == go' = [go EXCEPT ![r] = Idle]

(* Rows locked, or inserted and not committed, by another transaction.     *)
OtpLocked(r, o)    == \E q \in Reqs \ {r} : go[q].marked /\ Otp(q) = o
UserLocked(r, u)   == \E q \in Reqs \ {r} : At(q, "commit") /\ User(q) = u
PhonePending(r, p) == \E q \in Reqs \ {r} : go[q].fresh /\ Phone(q) = p

NewOtps   == {o \in OtpIds : otps[o].phone = None}
NewUsers  == {u \in UserIds : users[u].phone = None /\ \A q \in Reqs : User(q) # u}
NewTokens == {t \in TokenIds : tokens[t].user = None}

OtpLive(o)    == ~(otps[o].used \/ otps[o].deleted \/ otps[o].expired)
TokenLive(t)  == ~(tokens[t].used \/ tokens[t].deleted \/ tokens[t].expired)
UsersWith(p)  == {u \in UserIds : users[u].phone = p}
PhoneTaken(p) == UsersWith(p) # {}
RoleOf(u)     == users[u].role

(* Rows that SendOTP soft-deletes before it creates a new one.             *)
Previous(p) == {o \in OtpIds : otps[o].phone = p /\ ~otps[o].used /\ ~otps[o].deleted}

(* issueRefreshToken, with the access token that is handed out with it.    *)
IssueToken(r) ==
    /\ \E t \in NewTokens : tokens' = [tokens EXCEPT ![t].user = User(r)]
    /\ claim' = [claim EXCEPT ![User(r)] = go[r].role]
-----------------------------------------------------------------------------
Receive(r, c) ==
    /\ At(r, "idle")
    /\ calls < MaxCalls
    /\ c.op \in Ops
    /\ c.op = "select" => users[c.user].phone # None
    /\ c.op \in {"refresh", "logout"} => tokens[c.token].user # None
    /\ calls' = calls + 1
    /\ go' = [go EXCEPT ![r].pc = FirstStep[c.op], ![r].call = c]
    /\ UNCHANGED <<tables, failures, history>>

(* SendOTP.  The DELETE waits for a transaction that holds one of its rows.*)
InvalidatePrevious(r) ==
    /\ At(r, "invalidate")
    /\ \A o \in Previous(Phone(r)) : ~OtpLocked(r, o)
    /\ otps' = [o \in OtpIds |-> IF o \in Previous(Phone(r))
                                 THEN [otps[o] EXCEPT !.deleted = TRUE] ELSE otps[o]]
    /\ Goto(r, "create")
    /\ UNCHANGED <<users, tokens, bounds, history>>

CreateOtp(r) ==
    /\ At(r, "create")
    /\ \E o \in NewOtps : otps' = [otps EXCEPT ![o].phone = Phone(r)]
    /\ Finish(r)
    /\ UNCHANGED <<users, tokens, bounds, history>>

(* VerifyOTP, before its transaction: the code is looked up, or refused as *)
(* used, unknown or expired.                                               *)
Lookup(r) ==
    /\ At(r, "lookup")
    /\ IF otps[Otp(r)].phone = Phone(r) /\ OtpLive(Otp(r))
       THEN Goto(r, "mark") ELSE Finish(r)
    /\ UNCHANGED <<tables, bounds, history>>

(* UPDATE by the record's id, which locks the row.  gorm adds deleted_at   *)
(* IS NULL and nothing tests used again; matching no row is not an error.  *)
MarkUsed(r) ==
    /\ At(r, "mark")
    /\ ~OtpLocked(r, Otp(r))
    /\ go' = [go EXCEPT ![r].pc = "find", ![r].marked = ~otps[Otp(r)].deleted]
    /\ UNCHANGED <<tables, bounds, history>>

FindUser(r) ==
    /\ At(r, "find")
    /\ \/ UsersWith(Phone(r)) = {} /\ Goto(r, "insert")
       \/ \E u \in UsersWith(Phone(r)) :
             go' = [go EXCEPT ![r].pc = "touch", ![r].user = u, ![r].role = RoleOf(u)]
    /\ UNCHANGED <<tables, bounds, history>>

(* INSERT of a user.  It waits for an unfinished INSERT of the same phone; *)
(* if that one was committed, the index refuses this one and the           *)
(* transaction rolls back.                                                 *)
InsertUser(r) ==
    /\ At(r, "insert")
    /\ ~PhonePending(r, Phone(r))
    /\ \/ PhoneTaken(Phone(r)) /\ Finish(r)
       \/ /\ ~PhoneTaken(Phone(r))
          /\ \E u \in NewUsers :
                go' = [go EXCEPT ![r].pc = "touch", ![r].user = u, ![r].fresh = TRUE]
    /\ UNCHANGED <<tables, bounds, history>>

(* UPDATE of last_login, which locks the user's row.                       *)
TouchUser(r) ==
    /\ At(r, "touch")
    /\ ~UserLocked(r, User(r))
    /\ Goto(r, "commit")
    /\ UNCHANGED <<tables, bounds, history>>

(* The refresh token's INSERT, seen by nobody else, and COMMIT.            *)
Commit(r) ==
    /\ At(r, "commit")
    /\ otps' = IF go[r].marked THEN [otps EXCEPT ![Otp(r)].used = TRUE] ELSE otps
    /\ users' = IF go[r].fresh THEN [users EXCEPT ![User(r)].phone = Phone(r)]
                               ELSE users
    /\ IssueToken(r)
    /\ signIns' = [signIns EXCEPT ![Otp(r)] = @ + 1]
    /\ Finish(r)
    /\ UNCHANGED <<bounds, rotations>>

(* SelectRole.                                                             *)
LoadUser(r) ==
    /\ At(r, "load")
    /\ go' = [go EXCEPT ![r].pc = "setRole", ![r].user = go[r].call.user]
    /\ UNCHANGED <<tables, bounds, history>>

SetRole(r) ==
    /\ At(r, "setRole")
    /\ ~UserLocked(r, User(r))
    /\ users' = [users EXCEPT ![User(r)].role = go[r].call.role]
    /\ go' = [go EXCEPT ![r].pc = "issue", ![r].role = go[r].call.role]
    /\ UNCHANGED <<otps, tokens, bounds, history>>

(* The end of SelectRole and of RefreshAccessToken.                        *)
Issue(r) ==
    /\ At(r, "issue")
    /\ IssueToken(r)
    /\ rotations' = IF go[r].call.op = "refresh"
                    THEN [rotations EXCEPT ![Token(r)] = @ + 1] ELSE rotations
    /\ Finish(r)
    /\ UNCHANGED <<otps, users, bounds, signIns>>

(* RefreshAccessToken.                                                     *)
CheckToken(r) ==
    /\ At(r, "check")
    /\ IF TokenLive(Token(r)) THEN Goto(r, "owner") ELSE Finish(r)
    /\ UNCHANGED <<tables, bounds, history>>

LoadOwner(r) ==
    LET u == tokens[Token(r)].user IN
    /\ At(r, "owner")
    /\ IF users[u].phone = None
       THEN Finish(r)
       ELSE go' = [go EXCEPT ![r].pc = "rotate", ![r].user = u, ![r].role = RoleOf(u)]
    /\ UNCHANGED <<tables, bounds, history>>

(* UPDATE by the token's id, of a row that is not deleted.                 *)
Rotate(r) ==
    /\ At(r, "rotate")
    /\ tokens' = IF tokens[Token(r)].deleted THEN tokens
                 ELSE [tokens EXCEPT ![Token(r)].used = TRUE]
    /\ Goto(r, "issue")
    /\ UNCHANGED <<otps, users, bounds, history>>

Logout(r) ==
    /\ At(r, "forget")
    /\ tokens' = [tokens EXCEPT ![Token(r)].deleted = TRUE]
    /\ Finish(r)
    /\ UNCHANGED <<otps, users, bounds, history>>
-----------------------------------------------------------------------------
(* Failures, and the passing of time.                                      *)

Fail == failures < MaxFailures /\ failures' = failures + 1

(* A statement whose error ends the call.  In VerifyOTP's transaction that *)
(* undoes everything, elsewhere nothing.                                   *)
CallFails(r) ==
    /\ Fail
    /\ go[r].pc \notin {"idle", "invalidate", "setRole", "rotate"}
    /\ Finish(r)
    /\ UNCHANGED <<tables, calls, history>>

(* A statement whose error the code ignores: SendOTP's DELETE and the      *)
(* UPDATEs of SelectRole and RefreshAccessToken.                           *)
WriteFails(r) ==
    /\ Fail
    /\ \/ At(r, "invalidate") /\ Goto(r, "create")
       \/ At(r, "rotate") /\ Goto(r, "issue")
       \/ /\ At(r, "setRole")
          /\ go' = [go EXCEPT ![r].pc = "issue", ![r].role = go[r].call.role]
    /\ UNCHANGED <<tables, calls, history>>

Crash ==
    /\ Fail
    /\ go' = [r \in Reqs |-> Idle]
    /\ UNCHANGED <<tables, calls, history>>

ExpireOtp(o) ==
    /\ otps[o].phone # None
    /\ otps' = [otps EXCEPT ![o].expired = TRUE]
    /\ UNCHANGED <<users, tokens, go, bounds, history>>

ExpireToken(t) ==
    /\ tokens[t].user # None
    /\ tokens' = [tokens EXCEPT ![t].expired = TRUE]
    /\ UNCHANGED <<otps, users, go, bounds, history>>
-----------------------------------------------------------------------------
Statement(r) ==
    \/ InvalidatePrevious(r) \/ CreateOtp(r)
    \/ Lookup(r) \/ MarkUsed(r) \/ FindUser(r) \/ InsertUser(r)
    \/ TouchUser(r) \/ Commit(r)
    \/ LoadUser(r) \/ SetRole(r) \/ Issue(r)
    \/ CheckToken(r) \/ LoadOwner(r) \/ Rotate(r)
    \/ Logout(r)

Next ==
    \/ \E r \in Reqs, c \in Calls : Receive(r, c)
    \/ \E r \in Reqs : Statement(r)
    \/ \E r \in Reqs : CallFails(r)
    \/ \E r \in Reqs : WriteFails(r)
    \/ Crash
    \/ \E o \in OtpIds : ExpireOtp(o)
    \/ \E t \in TokenIds : ExpireToken(t)

Spec == Init /\ [][Next]_vars

(* PostgreSQL serves the waiters of a lock in order of arrival, so a       *)
(* statement that can run again and again does run in the end.             *)
FairSpec == Spec /\ \A r \in Reqs : SF_vars(Statement(r))
-----------------------------------------------------------------------------
(* The unique index (auth_model.go:12) and the transaction leave at most   *)
(* one account per phone, however many codes are verified at once.         *)
OneUserPerPhone ==
    \A u, v \in UserIds :
        users[u].phone # None /\ users[u].phone = users[v].phone => u = v

(* "OTP is only consumed after all downstream steps succeed"               *)
(* (auth_service.go:65): a used code has signed an account in, and a code  *)
(* that has is used, unless a later SendOTP deleted it under the call.     *)
SignInsRecorded ==
    \A o \in OtpIds :
        /\ otps[o].used => signIns[o] > 0 /\ PhoneTaken(otps[o].phone)
        /\ signIns[o] > 0 => otps[o].used \/ otps[o].deleted

(* No foreign key protects refresh_tokens.user_id, yet no failure leaves   *)
(* a token without its account: both are written by one transaction.       *)
TokensHaveOwners ==
    \A t \in TokenIds :
        tokens[t].user # None => users[tokens[t].user].phone # None

(* "Rotate: mark old token used" (auth_service.go:206): a token that has   *)
(* given a new one cannot be presented again.                              *)
RotatedIsSpent ==
    \A t \in TokenIds : rotations[t] > 0 /\ failures = 0 => ~TokenLive(t)

(* Row locks are taken in the order code, phone, user: no call waits for   *)
(* ever.                                                                   *)
EveryCallReturns == \A r \in Reqs : ~At(r, "idle") ~> At(r, "idle")

(* A used code is refused ("OTP already used", auth_service.go:89), so a   *)
(* code signs in once: true of calls that do not overlap, see MCAuth.      *)
ConsumedOnce == \A o \in OtpIds : signIns[o] <= 1

(* A rotated token is refused, so a token gives at most one new one, when  *)
(* calls do not overlap.                                                   *)
RotatedOnce == \A t \in TokenIds : failures = 0 => rotations[t] <= 1

(* "Invalidate any previous unused OTPs for this phone"                    *)
(* (auth_service.go:42): a phone has at most one code that works, when     *)
(* calls do not overlap.                                                   *)
OneLiveOtp ==
    \A o, s \in OtpIds :
        /\ failures = 0
        /\ otps[o].phone # None /\ otps[o].phone = otps[s].phone
        /\ OtpLive(o) /\ OtpLive(s)
        => o = s

(* Between calls, the access token issued last to a user says the role     *)
(* that is stored for that user.                                           *)
ClaimIsCurrent ==
    failures = 0 /\ (\A r \in Reqs : At(r, "idle")) =>
        \A u \in UserIds : claim[u] = users[u].role
=============================================================================
