------------------------------ MODULE AuthProofs ------------------------------
(***************************************************************************)
(* Safety of sign-in with any number of phones, goroutines, calls and      *)
(* failures.                                                               *)
(*                                                                         *)
(* None of the properties is inductive.  Fits says which call a goroutine  *)
(* carries at each step.  UserOK relates the user a call holds to the      *)
(* table: found, inserted by its own transaction and still unseen, or      *)
(* named by a token.  FreshApart is what the unique index gives: no two    *)
(* unfinished transactions insert one phone.  CodeOK says that the code of *)
(* a transaction is the phone's own and is marked, unless it was deleted   *)
(* first.                                                                  *)
(*                                                                         *)
(* The second part is about calls that come one at a time.                 *)
(***************************************************************************)
EXTENDS MCAuthModes, TLAPS

Sending    == [op : {"send"}, phone : Phones]
Verifying  == [op : {"verify"}, phone : Phones, otp : OtpIds]
Selecting  == [op : {"select"}, user : UserIds, role : Roles]
Refreshing == [op : {"refresh"}, token : TokenIds]
Leaving    == [op : {"logout"}, token : TokenIds]

Fits(g) ==
    /\ g.pc \in {"invalidate", "create"} => g.call \in Sending
    /\ g.pc \in {"lookup", "mark", "find", "insert", "touch", "commit"} =>
           g.call \in Verifying
    /\ g.pc \in {"load", "setRole"} => g.call \in Selecting
    /\ g.pc \in {"check", "owner", "rotate"} => g.call \in Refreshing
    /\ g.pc = "issue" => g.call \in Selecting \cup Refreshing
    /\ g.pc = "forget" => g.call \in Leaving
    /\ g.pc \in {"touch", "commit", "setRole", "rotate", "issue"} =>
           g.user \in UserIds

UserOK(r) ==
    /\ go[r].fresh =>
          /\ go[r].pc \in {"touch", "commit"}
          /\ users[User(r)].phone = None
          /\ \A u \in UserIds : users[u].phone # Phone(r)
    /\ go[r].pc \in {"touch", "commit"} /\ ~go[r].fresh =>
          users[User(r)].phone = Phone(r)
    /\ go[r].pc = "load" => users[go[r].call.user].phone # None
    /\ go[r].pc \in {"setRole", "rotate", "issue"} => users[User(r)].phone # None

FreshApart ==
    \A r, q \in Reqs :
        r # q /\ go[r].fresh /\ go[q].fresh => User(r) # User(q) /\ Phone(r) # Phone(q)

UserInv == (\A r \in Reqs : UserOK(r)) /\ FreshApart

TInv == TypeOK /\ \A r \in Reqs : Fits(go[r])

(* The token a refresh is about is a row of the table.                     *)
Presented ==
    \A r \in Reqs : go[r].pc \in {"check", "owner"} => tokens[Token(r)].user # None

LEMMA CallKinds ==
    ASSUME NEW c \in Calls
    PROVE  /\ c.op \in {"send", "verify", "select", "refresh", "logout"}
           /\ c.op = "send" => c \in Sending
           /\ c.op = "verify" => c \in Verifying
           /\ c.op = "select" => c \in Selecting
           /\ c.op = "refresh" => c \in Refreshing
           /\ c.op = "logout" => c \in Leaving
BY DEF Calls, Sending, Verifying, Selecting, Refreshing, Leaving

LEMMA IdleFits ==
    Idle \in Goroutines /\ Fits(Idle) /\ Idle.pc = "idle"
    /\ Idle.fresh = FALSE /\ Idle.marked = FALSE
BY AuthAssumption DEF Idle, Goroutines, Fits, Steps, NoCall

(* A goroutine that only advances keeps its call and its locals.           *)
LEMMA Advance ==
    ASSUME go \in [Reqs -> Goroutines], NEW r \in Reqs, NEW s \in Steps, Goto(r, s)
    PROVE  /\ go' \in [Reqs -> Goroutines]
           /\ go'[r].pc = s
           /\ go'[r].call = go[r].call /\ go'[r].user = go[r].user
           /\ go'[r].role = go[r].role
           /\ go'[r].marked = go[r].marked /\ go'[r].fresh = go[r].fresh
           /\ \A q \in Reqs \ {r} : go'[q] = go[q]
<1>1. go[r] \in Goroutines
    OBVIOUS
<1> QED
    BY <1>1 DEF Goto, Goroutines

LEMMA Finished ==
    ASSUME go \in [Reqs -> Goroutines], NEW r \in Reqs, Finish(r)
    PROVE  /\ go' \in [Reqs -> Goroutines]
           /\ go'[r] = Idle
           /\ \A q \in Reqs \ {r} : go'[q] = go[q]
BY IdleFits DEF Finish

LEMMA Received ==
    ASSUME TInv, NEW r \in Reqs, NEW c \in Calls, Receive(r, c)
    PROVE  /\ go' \in [Reqs -> Goroutines]
           /\ go'[r].pc = FirstStep[c.op] /\ go'[r].call = c
           /\ go'[r].user = go[r].user /\ go'[r].fresh = go[r].fresh
           /\ \A q \in Reqs \ {r} : go'[q] = go[q]
           /\ Fits(go'[r])
<1>1. go[r] \in Goroutines
    BY DEF TInv, TypeOK
<1>2. FirstStep[c.op] \in Steps
    BY CallKinds DEF FirstStep, Steps, InTx
<1>3. /\ go'[r].pc = FirstStep[c.op] /\ go'[r].call = c
      /\ go'[r].user = go[r].user /\ go'[r].fresh = go[r].fresh
      /\ \A q \in Reqs \ {r} : go'[q] = go[q]
    BY <1>1 DEF Receive, TInv, TypeOK, Goroutines
<1>4. go' \in [Reqs -> Goroutines]
    BY <1>1, <1>2 DEF Receive, TInv, TypeOK, Goroutines
<1>5. Fits(go'[r])
    BY <1>3, CallKinds DEF Fits, FirstStep
<1> QED
    BY <1>3, <1>4, <1>5

LEMMA InitTyped == Init => TInv
BY AuthAssumption, IdleFits
DEF Init, TInv, TypeOK, OtpRows, UserRows, TokenRows, NoOtp, NoUser, NoToken

(* Issuing a token keeps the types of the tables it writes.                *)
LEMMA Issued ==
    ASSUME TypeOK, NEW r \in Reqs, go[r].user \in UserIds, IssueToken(r)
    PROVE  tokens' \in [TokenIds -> TokenRows] /\ claim' \in [UserIds -> Roles]
<1>1. go[r].role \in Roles
    BY DEF TypeOK, Goroutines
<1>2. claim' \in [UserIds -> Roles]
    BY <1>1 DEF IssueToken, User, TypeOK
<1>3. PICK t \in TokenIds : tokens' = [tokens EXCEPT ![t].user = go[r].user]
    BY DEF IssueToken, NewTokens, User
<1>4. tokens' \in [TokenIds -> TokenRows]
    BY <1>3 DEF TypeOK, TokenRows
<1> QED
    BY <1>2, <1>4

LEMMA TypeStep == TInv /\ Presented /\ [Next]_vars => TInv'
<1> SUFFICES ASSUME TInv, Presented, [Next]_vars PROVE TInv'
    OBVIOUS
<1> USE AuthAssumption DEF tables, bounds, history, At
<1>0. /\ TypeOK /\ go \in [Reqs -> Goroutines]
      /\ \A r \in Reqs : Fits(go[r]) /\ go[r] \in Goroutines
    BY DEF TInv, TypeOK
<1>s. {"find", "insert", "touch", "commit", "rotate", "issue"} \subseteq Steps
    BY DEF Steps, InTx
<1>a. ASSUME NEW r \in Reqs, go' \in [Reqs -> Goroutines],
             \A q \in Reqs \ {r} : go'[q] = go[q], Fits(go'[r])
      PROVE  \A q \in Reqs : Fits(go'[q])
    BY <1>0, <1>a
<1>b. ASSUME NEW r \in Reqs, NEW s \in Steps, Goto(r, s),
             \A g \in Goroutines :
                 g.pc = s /\ g.call = go[r].call /\ g.user = go[r].user => Fits(g)
      PROVE  go' \in [Reqs -> Goroutines] /\ \A q \in Reqs : Fits(go'[q])
    <2>1. go' \in [Reqs -> Goroutines] /\ go'[r] \in Goroutines
        BY <1>0, <1>b, Advance
    <2>2. Fits(go'[r])
        BY <1>0, <1>b, <2>1, Advance
    <2> QED
        BY <1>0, <1>a, <1>b, <2>1, <2>2, Advance
<1>c. ASSUME NEW r \in Reqs, Finish(r)
      PROVE  go' \in [Reqs -> Goroutines] /\ \A q \in Reqs : Fits(go'[q])
    BY <1>0, <1>a, <1>c, Finished, IdleFits
<1>1. ASSUME NEW r \in Reqs, NEW c \in Calls, Receive(r, c) PROVE TInv'
    <2>1. go' \in [Reqs -> Goroutines] /\ \A q \in Reqs : Fits(go'[q])
        <3>1. go' \in [Reqs -> Goroutines] /\ Fits(go'[r])
              /\ \A q \in Reqs \ {r} : go'[q] = go[q]
            BY <1>1, Received
        <3> QED
            BY <1>a, <3>1
    <2> QED
        BY <1>0, <1>1, <2>1 DEF Receive, TInv, TypeOK
<1>2. ASSUME NEW r \in Reqs, InvalidatePrevious(r) PROVE TInv'
    <2>1. "create" \in Steps /\ Goto(r, "create")
        BY <1>2 DEF InvalidatePrevious, Steps, InTx
    <2>2. go' \in [Reqs -> Goroutines] /\ \A q \in Reqs : Fits(go'[q])
        BY <1>0, <1>2, <1>b, <2>1 DEF InvalidatePrevious, Fits
    <2>3. otps' \in [OtpIds -> OtpRows]
        BY ZenonT(60), <1>0, <1>2 DEF InvalidatePrevious, TypeOK, OtpRows
    <2> QED
        BY <1>0, <1>2, <2>1, <2>2, <2>3 DEF InvalidatePrevious, TInv, TypeOK
<1>3. ASSUME NEW r \in Reqs, CreateOtp(r) PROVE TInv'
    <2>1. otps' \in [OtpIds -> OtpRows]
        <3>1. go[r].call.phone \in Phones
            BY <1>0, <1>3 DEF CreateOtp, Fits, Sending
        <3>2. PICK o \in OtpIds : otps' = [otps EXCEPT ![o].phone = go[r].call.phone]
            BY <1>3 DEF CreateOtp, NewOtps, Phone
        <3> QED
            BY <1>0, <3>1, <3>2 DEF TypeOK, OtpRows
    <2> QED
        BY <1>0, <1>3, <1>c, <2>1 DEF CreateOtp, TInv, TypeOK
<1>4. ASSUME NEW r \in Reqs, Lookup(r) PROVE TInv'
    <2>1. go' \in [Reqs -> Goroutines] /\ \A q \in Reqs : Fits(go'[q])
        <3>1. "mark" \in Steps
            BY DEF Steps
        <3>2. CASE Goto(r, "mark")
            BY <1>0, <1>4, <1>b, <3>1, <3>2 DEF Lookup, Fits
        <3>3. CASE Finish(r)
            BY <1>c, <3>3
        <3> QED
            BY <1>4, <3>2, <3>3 DEF Lookup
    <2> QED
        BY <1>0, <1>4, <2>1 DEF Lookup, TInv, TypeOK
<1>5. ASSUME NEW r \in Reqs, MarkUsed(r) PROVE TInv'
    <2>1. go' \in [Reqs -> Goroutines] /\ Fits(go'[r])
          /\ \A q \in Reqs \ {r} : go'[q] = go[q]
        <3>1. PICK b \in BOOLEAN : go' = [go EXCEPT ![r].pc = "find", ![r].marked = b]
            BY <1>0, <1>5 DEF MarkUsed, TypeOK, OtpRows
        <3>2. go'[r].pc = "find" /\ go'[r].call = go[r].call
              /\ \A q \in Reqs \ {r} : go'[q] = go[q]
            BY <1>0, <3>1 DEF Goroutines
        <3>3. go' \in [Reqs -> Goroutines]
            BY <1>0, <1>s, <3>1 DEF Goroutines
        <3> QED
            BY <1>0, <1>5, <3>2, <3>3 DEF MarkUsed, Fits
    <2> QED
        BY <1>0, <1>5, <1>a, <2>1 DEF MarkUsed, TInv, TypeOK
<1>6. ASSUME NEW r \in Reqs, FindUser(r) PROVE TInv'
    <2>1. go' \in [Reqs -> Goroutines] /\ Fits(go'[r])
          /\ \A q \in Reqs \ {r} : go'[q] = go[q]
        <3>1. CASE Goto(r, "insert")
            <4>1. "insert" \in Steps
                BY DEF Steps, InTx
            <4>2. go' \in [Reqs -> Goroutines]
                  /\ go'[r].pc = "insert" /\ go'[r].call = go[r].call
                  /\ \A q \in Reqs \ {r} : go'[q] = go[q]
                BY <1>0, <3>1, <4>1, Advance
            <4> QED
                BY <1>0, <1>6, <4>2 DEF FindUser, Fits
        <3>2. ASSUME NEW u \in UserIds,
                     go' = [go EXCEPT ![r].pc = "touch", ![r].user = u,
                                      ![r].role = RoleOf(u)]
              PROVE  go' \in [Reqs -> Goroutines] /\ Fits(go'[r])
                     /\ \A q \in Reqs \ {r} : go'[q] = go[q]
            <4>1. users[u].role \in Roles
                BY <1>0 DEF TypeOK, UserRows
            <4>2. go'[r].pc = "touch" /\ go'[r].call = go[r].call /\ go'[r].user = u
                  /\ \A q \in Reqs \ {r} : go'[q] = go[q]
                BY <1>0, <3>2 DEF Goroutines
            <4>3. go' \in [Reqs -> Goroutines]
                BY ZenonT(60), <1>0, <1>s, <3>2, <4>1 DEF RoleOf, Goroutines
            <4> QED
                BY <1>0, <1>6, <4>2, <4>3 DEF FindUser, Fits
        <3> QED
            BY <1>6, <3>1, <3>2 DEF FindUser, UsersWith
    <2> QED
        BY <1>0, <1>6, <1>a, <2>1 DEF FindUser, TInv, TypeOK
<1>7. ASSUME NEW r \in Reqs, InsertUser(r) PROVE TInv'
    <2>1. go' \in [Reqs -> Goroutines] /\ Fits(go'[r])
          /\ \A q \in Reqs \ {r} : go'[q] = go[q]
        <3>1. CASE Finish(r)
            BY <1>0, <3>1, Finished, IdleFits
        <3>2. ASSUME NEW u \in UserIds,
                     go' = [go EXCEPT ![r].pc = "touch", ![r].user = u, ![r].fresh = TRUE]
              PROVE  go' \in [Reqs -> Goroutines] /\ Fits(go'[r])
                     /\ \A q \in Reqs \ {r} : go'[q] = go[q]
            <4>1. go'[r].pc = "touch" /\ go'[r].call = go[r].call /\ go'[r].user = u
                  /\ \A q \in Reqs \ {r} : go'[q] = go[q]
                BY <1>0, <3>2 DEF Goroutines
            <4>2. go' \in [Reqs -> Goroutines]
                BY ZenonT(60), <1>0, <1>s, <3>2 DEF Goroutines
            <4> QED
                BY <1>0, <1>7, <4>1, <4>2 DEF InsertUser, Fits
        <3> QED
            BY <1>7, <3>1, <3>2 DEF InsertUser, NewUsers
    <2> QED
        BY <1>0, <1>7, <1>a, <2>1 DEF InsertUser, TInv, TypeOK
<1>8. ASSUME NEW r \in Reqs, TouchUser(r) PROVE TInv'
    <2>1. "commit" \in Steps /\ Goto(r, "commit")
        BY <1>8 DEF TouchUser, Steps, InTx
    <2>2. go' \in [Reqs -> Goroutines] /\ \A q \in Reqs : Fits(go'[q])
        BY <1>0, <1>8, <1>b, <2>1 DEF TouchUser, Fits
    <2> QED
        BY <1>0, <1>8, <2>1, <2>2 DEF TouchUser, TInv, TypeOK
<1>9. ASSUME NEW r \in Reqs, Commit(r) PROVE TInv'
    <2>1. go[r].user \in UserIds /\ go[r].call \in Verifying
        BY <1>0, <1>9 DEF Commit, Fits
    <2>2. tokens' \in [TokenIds -> TokenRows] /\ claim' \in [UserIds -> Roles]
        BY <1>0, <1>9, <2>1, Issued DEF Commit
    <2>3. otps' \in [OtpIds -> OtpRows]
        <3>1. [otps EXCEPT ![Otp(r)].used = TRUE] \in [OtpIds -> OtpRows]
            BY ZenonT(60), <1>0 DEF TypeOK, OtpRows
        <3> QED
            BY <1>0, <1>9, <3>1 DEF Commit, TypeOK
    <2>4. users' \in [UserIds -> UserRows]
        <3>1. [users EXCEPT ![User(r)].phone = Phone(r)] \in [UserIds -> UserRows]
            <4>1. go[r].call.phone \in Phones
                BY <2>1 DEF Verifying
            <4> QED
                BY <1>0, <4>1 DEF TypeOK, UserRows, Phone
        <3>2. users' = users \/ users' = [users EXCEPT ![User(r)].phone = Phone(r)]
            BY <1>9 DEF Commit
        <3> QED
            BY <1>0, <3>1, <3>2 DEF TypeOK
    <2>5. signIns' \in [OtpIds -> Nat]
        <3>1. go[r].call.otp \in OtpIds
            BY <2>1 DEF Verifying
        <3>2. signIns' = [signIns EXCEPT ![go[r].call.otp] = signIns[go[r].call.otp] + 1]
            BY <1>9 DEF Commit, Otp
        <3>3. signIns \in [OtpIds -> Nat]
            BY <1>0 DEF TypeOK
        <3> QED
            BY <3>1, <3>2, <3>3
    <2> QED
        BY <1>0, <1>9, <1>c, <2>2, <2>3, <2>4, <2>5 DEF Commit, TInv, TypeOK
<1>10. ASSUME NEW r \in Reqs, LoadUser(r) PROVE TInv'
    <2>1. go' \in [Reqs -> Goroutines] /\ Fits(go'[r])
          /\ \A q \in Reqs \ {r} : go'[q] = go[q]
        <3>1. go[r].call.user \in UserIds /\ go[r].call \in Selecting
            BY <1>0, <1>10 DEF LoadUser, Fits, Selecting
        <3> QED
            BY ZenonT(60), <1>0, <1>10, <3>1 DEF LoadUser, Fits, Goroutines, Steps
    <2> QED
        BY <1>0, <1>10, <1>a, <2>1 DEF LoadUser, TInv, TypeOK
<1>11. ASSUME NEW r \in Reqs, SetRole(r) PROVE TInv'
    <2>1. /\ go[r].call.role \in Roles /\ go[r].call \in Selecting
          /\ go[r].user \in UserIds
        BY <1>0, <1>11 DEF SetRole, Fits, Selecting
    <2>2. go' \in [Reqs -> Goroutines] /\ Fits(go'[r])
          /\ \A q \in Reqs \ {r} : go'[q] = go[q]
        BY ZenonT(60), <1>0, <1>11, <2>1 DEF SetRole, Fits, Goroutines, Steps
    <2>3. users' \in [UserIds -> UserRows]
        BY <1>0, <1>11, <2>1 DEF SetRole, TypeOK, UserRows
    <2> QED
        BY <1>0, <1>11, <1>a, <2>2, <2>3 DEF SetRole, TInv, TypeOK
<1>12. ASSUME NEW r \in Reqs, Issue(r) PROVE TInv'
    <2>1. tokens' \in [TokenIds -> TokenRows] /\ claim' \in [UserIds -> Roles]
        <3>1. go[r].user \in UserIds
            BY <1>0, <1>12 DEF Issue, Fits
        <3> QED
            BY <1>0, <1>12, <3>1, Issued DEF Issue
    <2>2. rotations' \in [TokenIds -> Nat]
        <3>1. rotations \in [TokenIds -> Nat]
            BY <1>0 DEF TypeOK
        <3>2. \/ rotations' = rotations
              \/ rotations' = [rotations EXCEPT ![Token(r)] = rotations[Token(r)] + 1]
            BY <1>12 DEF Issue
        <3> QED
            BY <3>1, <3>2
    <2> QED
        BY <1>0, <1>12, <1>c, <2>1, <2>2 DEF Issue, TInv, TypeOK
<1>13. ASSUME NEW r \in Reqs, CheckToken(r) PROVE TInv'
    <2>1. go' \in [Reqs -> Goroutines] /\ \A q \in Reqs : Fits(go'[q])
        <3>1. "owner" \in Steps
            BY DEF Steps
        <3>2. CASE Goto(r, "owner")
            BY <1>0, <1>13, <1>b, <3>1, <3>2 DEF CheckToken, Fits
        <3>3. CASE Finish(r)
            BY <1>c, <3>3
        <3> QED
            BY <1>13, <3>2, <3>3 DEF CheckToken
    <2> QED
        BY <1>0, <1>13, <2>1 DEF CheckToken, TInv, TypeOK
<1>14. ASSUME NEW r \in Reqs, LoadOwner(r) PROVE TInv'
    <2>1. go' \in [Reqs -> Goroutines] /\ Fits(go'[r])
          /\ \A q \in Reqs \ {r} : go'[q] = go[q]
        <3>1. CASE Finish(r)
            BY <1>0, <3>1, Finished, IdleFits
        <3>2. CASE ~Finish(r)
            <4> DEFINE u == tokens[Token(r)].user
            <4>1. go[r].call \in Refreshing /\ go[r].call.token \in TokenIds
                BY <1>0, <1>14 DEF LoadOwner, Fits, Refreshing
            <4>2. u \in UserIds
                BY <1>0, <1>14, <4>1 DEF LoadOwner, Presented, Token, TypeOK, TokenRows
            <4>3. users[u].role \in Roles
                BY <1>0, <4>2 DEF TypeOK, UserRows
            <4>4. go' = [go EXCEPT ![r].pc = "rotate", ![r].user = u,
                                   ![r].role = users[u].role]
                BY <1>14, <3>2 DEF LoadOwner, RoleOf
            <4> HIDE DEF u
            <4>5. go'[r].pc = "rotate" /\ go'[r].call = go[r].call /\ go'[r].user = u
                  /\ \A q \in Reqs \ {r} : go'[q] = go[q]
                BY <1>0, <4>4 DEF Goroutines
            <4>6. go' \in [Reqs -> Goroutines]
                BY ZenonT(60), <1>0, <1>s, <4>2, <4>3, <4>4 DEF Goroutines
            <4> QED
                BY <4>1, <4>2, <4>5, <4>6 DEF Fits
        <3> QED
            BY <3>1, <3>2
    <2> QED
        BY <1>0, <1>14, <1>a, <2>1 DEF LoadOwner, TInv, TypeOK
<1>15. ASSUME NEW r \in Reqs, Rotate(r) PROVE TInv'
    <2>1. "issue" \in Steps /\ Goto(r, "issue")
        BY <1>15 DEF Rotate, Steps
    <2>2. go' \in [Reqs -> Goroutines] /\ \A q \in Reqs : Fits(go'[q])
        BY <1>0, <1>15, <1>b, <2>1 DEF Rotate, Fits
    <2>3. tokens' \in [TokenIds -> TokenRows]
        <3>1. [tokens EXCEPT ![Token(r)].used = TRUE] \in [TokenIds -> TokenRows]
            BY <1>0 DEF TypeOK, TokenRows
        <3> QED
            BY <1>0, <1>15, <3>1 DEF Rotate, TypeOK
    <2> QED
        BY <1>0, <1>15, <2>2, <2>3 DEF Rotate, TInv, TypeOK
<1>16. ASSUME NEW r \in Reqs, Logout(r) PROVE TInv'
    <2>1. tokens' \in [TokenIds -> TokenRows]
        BY <1>0, <1>16 DEF Logout, TypeOK, TokenRows
    <2> QED
        BY <1>0, <1>16, <1>c, <2>1 DEF Logout, TInv, TypeOK
<1>17. ASSUME NEW r \in Reqs, CallFails(r) PROVE TInv'
    BY <1>0, <1>17, <1>c DEF CallFails, Fail, TInv, TypeOK
<1>18. ASSUME NEW r \in Reqs, WriteFails(r) PROVE TInv'
    <2>1. go' \in [Reqs -> Goroutines] /\ \A q \in Reqs : Fits(go'[q])
        <3>1. CASE At(r, "invalidate") /\ Goto(r, "create")
            BY <1>0, <1>b, <3>1 DEF Fits, Steps
        <3>2. CASE At(r, "rotate") /\ Goto(r, "issue")
            BY <1>0, <1>b, <3>2 DEF Fits, Steps
        <3>3. CASE /\ At(r, "setRole")
                   /\ go' = [go EXCEPT ![r].pc = "issue", ![r].role = go[r].call.role]
            <4>1. go[r].call.role \in Roles
                BY <1>0, <3>3 DEF Fits, Selecting
            <4>2. go' \in [Reqs -> Goroutines] /\ Fits(go'[r])
                  /\ \A q \in Reqs \ {r} : go'[q] = go[q]
                BY ZenonT(60), <1>0, <3>3, <4>1 DEF Fits, Goroutines, Steps
            <4> QED
                BY <1>a, <4>2
        <3> QED
            BY <1>18, <3>1, <3>2, <3>3 DEF WriteFails
    <2> QED
        BY <1>0, <1>18, <2>1 DEF WriteFails, Fail, TInv, TypeOK
<1>19. ASSUME Crash PROVE TInv'
    BY <1>0, <1>19, IdleFits DEF Crash, Fail, TInv, TypeOK
<1>20. ASSUME NEW o \in OtpIds, ExpireOtp(o) PROVE TInv'
    BY <1>0, <1>20 DEF ExpireOtp, TInv, TypeOK, OtpRows
<1>21. ASSUME NEW t \in TokenIds, ExpireToken(t) PROVE TInv'
    BY <1>0, <1>21 DEF ExpireToken, TInv, TypeOK, TokenRows
<1>22. CASE UNCHANGED vars
    BY <1>0, <1>22 DEF vars, TInv, TypeOK
<1> QED
    BY <1>1, <1>2, <1>3, <1>4, <1>5, <1>6, <1>7, <1>8, <1>9, <1>10, <1>11,
       <1>12, <1>13, <1>14, <1>15, <1>16, <1>17, <1>18, <1>19, <1>20, <1>21,
       <1>22 DEF Next, Statement

Kept(r) ==
    /\ go'[r].call = go[r].call /\ go'[r].user = go[r].user
    /\ go'[r].fresh = go[r].fresh /\ go'[r].marked = go[r].marked

To(r, s) == go'[r].pc = s /\ Kept(r) /\ go'[r].role = go[r].role

Touching(r, u, f) ==
    /\ go'[r].pc = "touch" /\ go'[r].call = go[r].call
    /\ go'[r].user = u /\ go'[r].fresh = f /\ go'[r].marked = go[r].marked

(* What a step of r does to its locals.                                    *)
Moved(r) ==
    \/ go'[r] = Idle
    \/ \E c \in Calls : /\ Receive(r, c) /\ go'[r].pc = FirstStep[c.op]
                        /\ go'[r].call = c /\ go'[r].user = go[r].user
                        /\ go'[r].fresh = go[r].fresh /\ go'[r].marked = go[r].marked
                        /\ go'[r].role = go[r].role
    \/ (InvalidatePrevious(r) \/ WriteFails(r)) /\ go[r].pc = "invalidate" /\ To(r, "create")
    \/ Lookup(r) /\ otps[Otp(r)].phone = Phone(r) /\ To(r, "mark")
    \/ /\ MarkUsed(r) /\ go'[r].pc = "find" /\ go'[r].call = go[r].call
       /\ go'[r].user = go[r].user /\ go'[r].fresh = go[r].fresh
       /\ go'[r].marked = ~otps[Otp(r)].deleted /\ go'[r].role = go[r].role
    \/ FindUser(r) /\ To(r, "insert")
    \/ FindUser(r) /\ \E u \in UsersWith(Phone(r)) :
                           Touching(r, u, go[r].fresh) /\ go'[r].role = users[u].role
    \/ /\ InsertUser(r) /\ ~PhonePending(r, Phone(r)) /\ ~PhoneTaken(Phone(r))
       /\ \E u \in NewUsers : Touching(r, u, TRUE) /\ go'[r].role = go[r].role
    \/ TouchUser(r) /\ To(r, "commit")
    \/ /\ LoadUser(r) /\ go'[r].pc = "setRole" /\ go'[r].call = go[r].call
       /\ go'[r].user = go[r].call.user /\ go'[r].fresh = go[r].fresh
       /\ go'[r].marked = go[r].marked
    \/ /\ SetRole(r) \/ WriteFails(r)
       /\ go[r].pc = "setRole" /\ go'[r].pc = "issue" /\ Kept(r)
       /\ go'[r].role = go[r].call.role
    \/ CheckToken(r) /\ To(r, "owner")
    \/ /\ LoadOwner(r) /\ go'[r].pc = "rotate" /\ go'[r].call = go[r].call
       /\ go'[r].user = tokens[Token(r)].user /\ go'[r].fresh = go[r].fresh
       /\ go'[r].marked = go[r].marked /\ users[tokens[Token(r)].user].phone # None
       /\ go'[r].role = users[tokens[Token(r)].user].role
    \/ (Rotate(r) \/ WriteFails(r)) /\ go[r].pc = "rotate" /\ To(r, "issue")

LEMMA Step ==
    ASSUME TInv, [Next]_vars, NEW q \in Reqs, go'[q] # go[q]
    PROVE  Moved(q)
<1> USE DEF At
<1>0. go \in [Reqs -> Goroutines] /\ \A r \in Reqs : go[r] \in Goroutines
    BY DEF TInv, TypeOK
<1>a. ASSUME NEW r \in Reqs, Finish(r) PROVE Moved(q)
    BY <1>0, <1>a, Finished DEF Moved
<1>b. ASSUME NEW r \in Reqs, NEW s \in Steps, Goto(r, s) PROVE r = q /\ To(r, s)
    BY <1>0, <1>b, Advance DEF To, Kept
<1>1. ASSUME NEW r \in Reqs, NEW c \in Calls, Receive(r, c) PROVE Moved(q)
    <2>1. r = q
        BY <1>1, Received
    <2>2. go'[r].marked = go[r].marked /\ go'[r].role = go[r].role
        BY <1>0, <1>1 DEF Receive, Goroutines
    <2> QED
        BY <1>1, <2>1, <2>2, Received DEF Moved
<1>2. ASSUME NEW r \in Reqs, InvalidatePrevious(r) PROVE Moved(q)
    BY <1>2, <1>b DEF InvalidatePrevious, Moved, Steps
<1>3. ASSUME NEW r \in Reqs, CreateOtp(r) PROVE Moved(q)
    BY <1>3, <1>a DEF CreateOtp
<1>4. ASSUME NEW r \in Reqs, Lookup(r) PROVE Moved(q)
    <2>1. CASE Finish(r)
        BY <1>a, <2>1
    <2>2. CASE otps[Otp(r)].phone = Phone(r) /\ Goto(r, "mark")
        BY <1>4, <1>b, <2>2 DEF Moved, Steps
    <2> QED
        BY <1>4, <2>1, <2>2 DEF Lookup
<1>5. ASSUME NEW r \in Reqs, MarkUsed(r) PROVE Moved(q)
    <2>1. go' = [go EXCEPT ![r].pc = "find", ![r].marked = ~otps[Otp(r)].deleted]
        BY <1>5 DEF MarkUsed
    <2>2. r = q
        BY <1>0, <2>1
    <2>3. /\ go'[r].pc = "find" /\ go'[r].call = go[r].call
          /\ go'[r].user = go[r].user /\ go'[r].fresh = go[r].fresh
          /\ go'[r].marked = ~otps[Otp(r)].deleted /\ go'[r].role = go[r].role
        BY <1>0, <2>1 DEF Goroutines
    <2> QED
        BY <1>5, <2>2, <2>3 DEF Moved
<1>6. ASSUME NEW r \in Reqs, FindUser(r) PROVE Moved(q)
    <2>1. CASE Goto(r, "insert")
        BY <1>6, <1>b, <2>1 DEF Moved, Steps, InTx
    <2>2. ASSUME NEW u \in UsersWith(Phone(r)),
                 go' = [go EXCEPT ![r].pc = "touch", ![r].user = u, ![r].role = RoleOf(u)]
          PROVE  Moved(q)
        <3>1. r = q
            BY <1>0, <2>2
        <3>2. Touching(r, u, go[r].fresh) /\ go'[r].role = users[u].role
            BY <1>0, <2>2 DEF Goroutines, Touching, RoleOf
        <3> QED
            BY <1>6, <3>1, <3>2 DEF Moved
    <2> QED
        BY <1>6, <2>1, <2>2 DEF FindUser
<1>7. ASSUME NEW r \in Reqs, InsertUser(r) PROVE Moved(q)
    <2>1. CASE Finish(r)
        BY <1>a, <2>1
    <2>2. ASSUME ~PhoneTaken(Phone(r)), NEW u \in NewUsers,
                 go' = [go EXCEPT ![r].pc = "touch", ![r].user = u, ![r].fresh = TRUE]
          PROVE  Moved(q)
        <3>1. r = q
            BY <1>0, <2>2
        <3>2. Touching(r, u, TRUE) /\ go'[r].role = go[r].role
            BY <1>0, <2>2 DEF Goroutines, Touching
        <3>3. ~PhonePending(r, Phone(r))
            BY <1>7 DEF InsertUser
        <3> QED
            BY <1>7, <2>2, <3>1, <3>2, <3>3 DEF Moved
    <2> QED
        BY <1>7, <2>1, <2>2 DEF InsertUser
<1>8. ASSUME NEW r \in Reqs, TouchUser(r) PROVE Moved(q)
    BY <1>8, <1>b DEF TouchUser, Moved, Steps, InTx
<1>9. ASSUME NEW r \in Reqs, Commit(r) PROVE Moved(q)
    BY <1>9, <1>a DEF Commit
<1>10. ASSUME NEW r \in Reqs, LoadUser(r) PROVE Moved(q)
    <2>1. go' = [go EXCEPT ![r].pc = "setRole", ![r].user = go[r].call.user]
        BY <1>10 DEF LoadUser
    <2>2. r = q
        BY <1>0, <2>1
    <2>3. /\ go'[r].pc = "setRole" /\ go'[r].call = go[r].call
          /\ go'[r].user = go[r].call.user /\ go'[r].fresh = go[r].fresh
          /\ go'[r].marked = go[r].marked
        BY <1>0, <2>1 DEF Goroutines
    <2> QED
        BY <1>10, <2>2, <2>3 DEF Moved
<1>c. ASSUME NEW r \in Reqs, At(r, "setRole"), SetRole(r) \/ WriteFails(r),
             go' = [go EXCEPT ![r].pc = "issue", ![r].role = go[r].call.role]
      PROVE  Moved(q)
    <2>1. r = q
        BY <1>0, <1>c
    <2>2. go'[r].pc = "issue" /\ Kept(r) /\ go'[r].role = go[r].call.role
        BY <1>0, <1>c DEF Goroutines, Kept
    <2> QED
        BY <1>c, <2>1, <2>2 DEF Moved
<1>11. ASSUME NEW r \in Reqs, SetRole(r) PROVE Moved(q)
    BY <1>11, <1>c DEF SetRole
<1>12. ASSUME NEW r \in Reqs, Issue(r) PROVE Moved(q)
    BY <1>12, <1>a DEF Issue
<1>13. ASSUME NEW r \in Reqs, CheckToken(r) PROVE Moved(q)
    <2>1. CASE Finish(r)
        BY <1>a, <2>1
    <2>2. CASE Goto(r, "owner")
        BY <1>13, <1>b, <2>2 DEF Moved, Steps
    <2> QED
        BY <1>13, <2>1, <2>2 DEF CheckToken
<1>14. ASSUME NEW r \in Reqs, LoadOwner(r) PROVE Moved(q)
    <2> DEFINE u == tokens[Token(r)].user
    <2>1. CASE Finish(r)
        BY <1>a, <2>1
    <2>2. ASSUME users[u].phone # None,
                 go' = [go EXCEPT ![r].pc = "rotate", ![r].user = u, ![r].role = RoleOf(u)]
          PROVE  Moved(q)
        <3> HIDE DEF u
        <3>1. r = q
            BY <1>0, <2>2
        <3>2. /\ go'[r].pc = "rotate" /\ go'[r].call = go[r].call
              /\ go'[r].user = u /\ go'[r].fresh = go[r].fresh
              /\ go'[r].marked = go[r].marked /\ go'[r].role = users[u].role
            BY <1>0, <2>2 DEF Goroutines, RoleOf
        <3> QED
            BY <1>14, <2>2, <3>1, <3>2 DEF Moved, u
    <2> QED
        BY <1>14, <2>1, <2>2 DEF LoadOwner
<1>15. ASSUME NEW r \in Reqs, Rotate(r) PROVE Moved(q)
    BY <1>15, <1>b DEF Rotate, Moved, Steps
<1>16. ASSUME NEW r \in Reqs, Logout(r) PROVE Moved(q)
    BY <1>16, <1>a DEF Logout
<1>17. ASSUME NEW r \in Reqs, CallFails(r) PROVE Moved(q)
    BY <1>17, <1>a DEF CallFails
<1>18. ASSUME NEW r \in Reqs, WriteFails(r) PROVE Moved(q)
    <2>1. CASE At(r, "invalidate") /\ Goto(r, "create")
        BY <1>18, <1>b, <2>1 DEF Moved, Steps
    <2>2. CASE At(r, "rotate") /\ Goto(r, "issue")
        BY <1>18, <1>b, <2>2 DEF Moved, Steps
    <2>3. CASE /\ At(r, "setRole")
               /\ go' = [go EXCEPT ![r].pc = "issue", ![r].role = go[r].call.role]
        BY <1>18, <1>c, <2>3
    <2> QED
        BY <1>18, <2>1, <2>2, <2>3 DEF WriteFails
<1>19. ASSUME Crash PROVE Moved(q)
    BY <1>19 DEF Crash, Moved
<1>20. ASSUME NEW o \in OtpIds, ExpireOtp(o) PROVE FALSE
    BY <1>20 DEF ExpireOtp
<1>21. ASSUME NEW t \in TokenIds, ExpireToken(t) PROVE FALSE
    BY <1>21 DEF ExpireToken
<1>22. CASE UNCHANGED vars
    BY <1>22 DEF vars
<1> QED
    BY <1>1, <1>2, <1>3, <1>4, <1>5, <1>6, <1>7, <1>8, <1>9, <1>10, <1>11,
       <1>12, <1>13, <1>14, <1>15, <1>16, <1>17, <1>18, <1>19, <1>20, <1>21,
       <1>22 DEF Next, Statement

(* Tokens keep their user, so a token that was presented stays a row.      *)
LEMMA PresentedStep == TInv /\ Presented /\ [Next]_vars => Presented'
<1> SUFFICES ASSUME TInv, Presented, [Next]_vars PROVE Presented'
    OBVIOUS
<1> USE AuthAssumption DEF tables, bounds, history, At, Token
<1>0. /\ TypeOK /\ go \in [Reqs -> Goroutines]
      /\ \A r \in Reqs : Fits(go[r]) /\ go[r] \in Goroutines
    BY DEF TInv, TypeOK
<1>1. \A t \in TokenIds : tokens[t].user # None => tokens'[t].user = tokens[t].user
    <2>1. ASSUME NEW r \in Reqs, IssueToken(r)
          PROVE  \A t \in TokenIds :
                     tokens[t].user # None => tokens'[t].user = tokens[t].user
        BY <1>0, <2>1 DEF IssueToken, NewTokens, TypeOK, TokenRows
    <2>2. ASSUME NEW r \in Reqs, Rotate(r)
          PROVE  \A t \in TokenIds : tokens'[t].user = tokens[t].user
        BY <1>0, <2>2 DEF Rotate, TypeOK, TokenRows
    <2>3. ASSUME NEW r \in Reqs, Logout(r)
          PROVE  \A t \in TokenIds : tokens'[t].user = tokens[t].user
        BY <1>0, <2>3 DEF Logout, TypeOK, TokenRows
    <2>4. ASSUME NEW x \in TokenIds, ExpireToken(x)
          PROVE  \A t \in TokenIds : tokens'[t].user = tokens[t].user
        BY <1>0, <2>4 DEF ExpireToken, TypeOK, TokenRows
    <2>5. CASE tokens' = tokens
        BY <2>5
    <2> QED
        BY <2>1, <2>2, <2>3, <2>4, <2>5
        DEF Next, Statement, Receive, InvalidatePrevious, CreateOtp, Lookup, MarkUsed,
            FindUser, InsertUser, TouchUser, Commit, LoadUser, SetRole, Issue,
            CheckToken, LoadOwner, CallFails, WriteFails, Crash, ExpireOtp, vars
<1>2. ASSUME NEW q \in Reqs, go'[q].pc \in {"check", "owner"}, go'[q] # go[q]
      PROVE  tokens[go'[q].call.token].user # None
    <2>1. ASSUME NEW c \in Calls, Receive(q, c) PROVE tokens[go'[q].call.token].user # None
        <3>1. go'[q].pc = FirstStep[c.op] /\ go'[q].call = c
            BY <2>1, Received
        <3>2. c.op = "refresh"
            BY <1>2, <3>1, CallKinds DEF FirstStep
        <3> QED
            BY <2>1, <3>1, <3>2 DEF Receive
    <2>2. CASE CheckToken(q) /\ To(q, "owner")
        BY <2>2 DEF CheckToken, Presented, To, Kept
    <2> QED
        BY <1>2, <2>1, <2>2, Step, IdleFits DEF Moved, To, Touching
<1>3. ASSUME NEW q \in Reqs, go'[q].pc \in {"check", "owner"}
      PROVE  tokens'[go'[q].call.token].user # None
    <2>1. go'[q].call.token \in TokenIds
        BY SMTT(40), <1>3, TypeStep DEF TInv, Fits, Refreshing
    <2> QED
        BY <1>1, <1>2, <1>3, <2>1 DEF Presented
<1> QED
    BY <1>3 DEF Presented

(* Only Commit writes phones, and only the row its transaction inserted.   *)
LEMMA PhonesWritten ==
    ASSUME TInv, [Next]_vars
    PROVE  \/ \A u \in UserIds : users'[u].phone = users[u].phone
           \/ \E r \in Reqs : /\ Commit(r) /\ go[r].fresh
                               /\ users' = [users EXCEPT ![User(r)].phone = Phone(r)]
<1>1. users \in [UserIds -> UserRows]
    BY DEF TInv, TypeOK
<1>2. ASSUME NEW r \in Reqs, SetRole(r)
      PROVE  \A u \in UserIds : users'[u].phone = users[u].phone
    BY <1>1, <1>2 DEF SetRole, UserRows
<1>3. ASSUME NEW r \in Reqs, Commit(r)
      PROVE  \/ users' = users
             \/ go[r].fresh /\ users' = [users EXCEPT ![User(r)].phone = Phone(r)]
    BY <1>3 DEF Commit
<1>4. CASE users' = users
    BY <1>4
<1> QED
    BY ZenonT(60), <1>2, <1>3, <1>4
    DEF Next, Statement, Receive, InvalidatePrevious, CreateOtp, Lookup, MarkUsed,
        FindUser, InsertUser, TouchUser, LoadUser, Issue, CheckToken, LoadOwner, Rotate,
        Logout, CallFails, WriteFails, Crash, ExpireOtp, ExpireToken, vars, tables,
        bounds, history

(* A goroutine that moves while the phones stay has its user in order.     *)
LEMMA MoverOK ==
    ASSUME TInv, \A r \in Reqs : UserOK(r), NEW q \in Reqs, Moved(q),
           go'[q].user \in UserIds \cup {None},
           \A u \in UserIds : users'[u].phone = users[u].phone,
           Fits(go'[q])
    PROVE  /\ UserOK(q)'
           /\ go'[q].fresh /\ ~go[q].fresh =>
                 /\ InsertUser(q) /\ ~PhonePending(q, Phone(q))
                 /\ go'[q].user \in NewUsers /\ go'[q].call = go[q].call
           /\ go'[q].fresh /\ go[q].fresh =>
                 go'[q].call = go[q].call /\ go'[q].user = go[q].user
<1> USE DEF At
<1>0. UserOK(q) /\ Fits(go[q]) /\ go[q] \in Goroutines
    BY DEF TInv, TypeOK
<1>1. CASE go'[q] = Idle
    BY <1>1, IdleFits DEF UserOK
<1>2. ASSUME NEW c \in Calls, Receive(q, c), go'[q].pc = FirstStep[c.op],
             go'[q].call = c, go'[q].fresh = go[q].fresh
      PROVE  UserOK(q)' /\ ~go'[q].fresh
    <2>1. ~go[q].fresh
        BY <1>0, <1>2 DEF UserOK, Receive
    <2>2. go'[q].pc \in {"invalidate", "lookup", "load", "check", "forget"}
          /\ (go'[q].pc = "load" => c \in Selecting /\ c.op = "select")
        BY <1>2, CallKinds DEF FirstStep
    <2>3. go'[q].pc = "load" => users'[c.user].phone # None
        BY <1>2, <2>2 DEF Receive, Selecting
    <2> QED
        BY <1>2, <2>1, <2>2, <2>3 DEF UserOK
<1>3. CASE go[q].pc = "invalidate" /\ To(q, "create")
    BY <1>0, <1>3 DEF UserOK, To, Kept
<1>4. CASE Lookup(q) /\ To(q, "mark")
    BY <1>0, <1>4 DEF UserOK, To, Kept, Lookup
<1>5. CASE /\ MarkUsed(q) /\ go'[q].pc = "find" /\ go'[q].fresh = go[q].fresh
    BY <1>0, <1>5 DEF UserOK, MarkUsed
<1>6. CASE FindUser(q) /\ To(q, "insert")
    BY <1>0, <1>6 DEF UserOK, To, Kept, FindUser
<1>7. ASSUME FindUser(q), NEW u \in UsersWith(Phone(q)), Touching(q, u, go[q].fresh)
      PROVE  UserOK(q)' /\ ~go'[q].fresh
    BY <1>0, <1>7 DEF UserOK, Touching, FindUser, UsersWith, User, Phone
<1>8. ASSUME InsertUser(q), ~PhoneTaken(Phone(q)), NEW u \in NewUsers,
             Touching(q, u, TRUE)
      PROVE  UserOK(q)'
    <2>1. u \in UserIds /\ users'[u].phone = None
        BY DEF NewUsers
    <2>2. \A v \in UserIds : users'[v].phone # go[q].call.phone
        BY <1>8 DEF PhoneTaken, UsersWith, Phone
    <2> QED
        BY <1>8, <2>1, <2>2 DEF UserOK, Touching, User, Phone
<1>9. CASE TouchUser(q) /\ To(q, "commit")
    <2>1. go[q].user \in UserIds
        BY <1>0, <1>9 DEF TouchUser, Fits
    <2> QED
        BY <1>0, <1>9, <2>1 DEF UserOK, To, Kept, TouchUser, User, Phone
<1>10. CASE /\ LoadUser(q) /\ go'[q].pc = "setRole" /\ go'[q].call = go[q].call
            /\ go'[q].user = go[q].call.user /\ go'[q].fresh = go[q].fresh
    <2>1. go[q].call.user \in UserIds
        BY <1>0, <1>10 DEF LoadUser, Fits, Selecting
    <2> QED
        BY <1>0, <1>10, <2>1 DEF UserOK, LoadUser, User
<1>11. CASE go[q].pc = "setRole" /\ go'[q].pc = "issue" /\ Kept(q)
    BY <1>0, <1>11 DEF UserOK, Kept, Fits, User
<1>12. CASE CheckToken(q) /\ To(q, "owner")
    BY <1>0, <1>12 DEF UserOK, To, Kept, CheckToken
<1>13. CASE /\ LoadOwner(q) /\ go'[q].pc = "rotate" /\ go'[q].call = go[q].call
            /\ go'[q].user = tokens[Token(q)].user /\ go'[q].fresh = go[q].fresh
            /\ users[tokens[Token(q)].user].phone # None
    <2>1. go'[q].user \in UserIds
        BY <1>13 DEF Fits
    <2> QED
        BY <1>0, <1>13, <2>1 DEF UserOK, LoadOwner, User
<1>14. CASE go[q].pc = "rotate" /\ To(q, "issue")
    BY <1>0, <1>14 DEF UserOK, To, Kept, Fits, User
<1>15. go[q].fresh => go[q].pc \in {"touch", "commit"}
    BY <1>0 DEF UserOK
<1> QED
    BY <1>1, <1>2, <1>3, <1>4, <1>5, <1>6, <1>7, <1>8, <1>9, <1>10, <1>11, <1>12,
       <1>13, <1>14, <1>15, IdleFits
    DEF Moved, Touching, To, Kept, TouchUser, InsertUser

LEMMA UserStep ==
    ASSUME TInv, Presented, UserInv, OneUserPerPhone, [Next]_vars
    PROVE  UserInv' /\ OneUserPerPhone'
<1> USE AuthAssumption DEF At, User, Phone
<1>0. /\ go \in [Reqs -> Goroutines] /\ users \in [UserIds -> UserRows]
      /\ \A r \in Reqs : Fits(go[r]) /\ go[r] \in Goroutines /\ UserOK(r)
      /\ go' \in [Reqs -> Goroutines]
      /\ \A r \in Reqs : Fits(go'[r]) /\ go'[r] \in Goroutines
    BY TypeStep DEF TInv, TypeOK, UserInv
<1>1. CASE \A u \in UserIds : users'[u].phone = users[u].phone
    <2>1. OneUserPerPhone'
        BY <1>1 DEF OneUserPerPhone
    <2>2. ASSUME NEW q \in Reqs, go'[q] = go[q] PROVE UserOK(q)'
        <3>1. go[q].pc = "load" => go[q].call.user \in UserIds
            BY <1>0 DEF Fits, Selecting
        <3>2. go[q].pc \in {"touch", "commit", "setRole", "rotate", "issue"} =>
                  go[q].user \in UserIds
            BY <1>0 DEF Fits
        <3> QED
            BY <1>0, <1>1, <2>2, <3>1, <3>2 DEF UserOK
    <2>3. ASSUME NEW q \in Reqs, go'[q] # go[q]
          PROVE  /\ UserOK(q)'
                 /\ go'[q].fresh /\ ~go[q].fresh =>
                       /\ InsertUser(q) /\ ~PhonePending(q, Phone(q))
                       /\ go'[q].user \in NewUsers /\ go'[q].call = go[q].call
                 /\ go'[q].fresh /\ go[q].fresh =>
                       go'[q].call = go[q].call /\ go'[q].user = go[q].user
        <3>1. Moved(q)
            BY <2>3, Step
        <3>2. go'[q].user \in UserIds \cup {None}
            BY <1>0 DEF Goroutines
        <3> QED
            BY <1>0, <1>1, <3>1, <3>2, MoverOK
    <2>4. ASSUME NEW r \in Reqs, NEW q \in Reqs, r # q, go'[r].fresh, ~go[r].fresh,
                 go'[q].fresh
          PROVE  go'[r].user # go'[q].user /\ go'[r].call.phone # go'[q].call.phone
        <3>1. /\ InsertUser(r) /\ ~PhonePending(r, Phone(r))
              /\ go'[r].user \in NewUsers /\ go'[r].call = go[r].call
            BY <2>3, <2>4
        <3>2. go'[q] = go[q]
            BY <1>0, <2>4, <3>1 DEF InsertUser, Finish
        <3> QED
            BY <2>4, <3>1, <3>2 DEF PhonePending, NewUsers
    <2>5. FreshApart'
        <3> SUFFICES ASSUME NEW r \in Reqs, NEW q \in Reqs, r # q,
                            go'[r].fresh, go'[q].fresh
                     PROVE  /\ go'[r].user # go'[q].user
                            /\ go'[r].call.phone # go'[q].call.phone
            BY DEF FreshApart
        <3>1. CASE go[r].fresh /\ go[q].fresh
            <4>1. go'[r].call = go[r].call /\ go'[r].user = go[r].user
                BY <2>3, <3>1
            <4>2. go'[q].call = go[q].call /\ go'[q].user = go[q].user
                BY <2>3, <3>1
            <4> QED
                BY <3>1, <4>1, <4>2 DEF UserInv, FreshApart
        <3>2. CASE ~go[r].fresh
            BY <2>4, <3>2
        <3>3. CASE ~go[q].fresh
            BY <2>4, <3>3
        <3>4. go[r].fresh \in BOOLEAN /\ go[q].fresh \in BOOLEAN
            BY <1>0 DEF Goroutines
        <3> QED
            BY <3>1, <3>2, <3>3, <3>4
    <2> QED
        BY <2>1, <2>2, <2>3, <2>5 DEF UserInv
<1>2. ASSUME NEW r \in Reqs, Commit(r), go[r].fresh,
             users' = [users EXCEPT ![User(r)].phone = Phone(r)]
      PROVE  UserInv' /\ OneUserPerPhone'
    <2> DEFINE n == go[r].user
    <2> DEFINE p == go[r].call.phone
    <2>1. n \in UserIds /\ p \in Phones /\ p # None
        BY <1>0, <1>2 DEF Commit, Fits, Verifying
    <2>2. users[n].phone = None /\ \A u \in UserIds : users[u].phone # p
        BY <1>0, <1>2 DEF UserOK
    <2>3. users'[n].phone = p /\ \A u \in UserIds \ {n} : users'[u].phone = users[u].phone
        BY <1>0, <1>2, <2>1 DEF UserRows
    <2>4. go'[r] = Idle /\ \A q \in Reqs \ {r} : go'[q] = go[q]
        BY <1>0, <1>2, Finished DEF Commit
    <2>5. \A q \in Reqs \ {r} : go[q].fresh => go[q].user # n /\ go[q].call.phone # p
        BY <1>2 DEF UserInv, FreshApart
    <2> HIDE DEF n, p
    <2>6. OneUserPerPhone'
        BY <2>1, <2>2, <2>3 DEF OneUserPerPhone
    <2>7. UserOK(r)'
        BY <2>4, IdleFits DEF UserOK
    <2>8. ASSUME NEW q \in Reqs \ {r} PROVE UserOK(q)'
        <3>1. go'[q] = go[q]
            BY <2>4
        <3>2. go[q].fresh => /\ go[q].pc \in {"touch", "commit"}
                             /\ users'[go[q].user].phone = None
                             /\ \A u \in UserIds : users'[u].phone # go[q].call.phone
            BY <1>0, <2>1, <2>3, <2>5 DEF UserOK, Fits
        <3>3. go[q].pc \in {"touch", "commit"} /\ ~go[q].fresh =>
                  users'[go[q].user].phone = go[q].call.phone
            <4>1. go[q].pc \in {"touch", "commit"} =>
                      go[q].call.phone # None /\ go[q].user \in UserIds
                BY <1>0 DEF Fits, Verifying
            <4> QED
                BY <1>0, <2>2, <2>3, <4>1 DEF UserOK
        <3>4. go[q].pc = "load" => users'[go[q].call.user].phone # None
            BY <1>0, <2>1, <2>3 DEF UserOK, Fits, Selecting
        <3>5. go[q].pc \in {"setRole", "rotate", "issue"} =>
                  users'[go[q].user].phone # None
            BY <1>0, <2>1, <2>3 DEF UserOK, Fits
        <3> QED
            BY <3>1, <3>2, <3>3, <3>4, <3>5 DEF UserOK
    <2>9. FreshApart'
        BY SMTT(40), <2>4, IdleFits DEF UserInv, FreshApart
    <2> QED
        BY <2>6, <2>7, <2>8, <2>9 DEF UserInv
<1> QED
    BY <1>1, <1>2, PhonesWritten

(* The user of every token exists: a sign-in writes both in one            *)
(* transaction, the other calls hold a user that was already there.        *)
LEMMA OwnerStep ==
    ASSUME TInv, UserInv, TokensHaveOwners, [Next]_vars
    PROVE  TokensHaveOwners'
<1> USE AuthAssumption DEF At, User, Phone
<1>0. /\ go \in [Reqs -> Goroutines] /\ users \in [UserIds -> UserRows]
      /\ tokens \in [TokenIds -> TokenRows]
      /\ \A r \in Reqs : Fits(go[r]) /\ go[r] \in Goroutines /\ UserOK(r)
    BY DEF TInv, TypeOK, UserInv
<1>1. \A u \in UserIds : users[u].phone # None => users'[u].phone # None
    <2>1. ASSUME NEW r \in Reqs, Commit(r),
                 users' = [users EXCEPT ![User(r)].phone = Phone(r)]
          PROVE  \A u \in UserIds : users[u].phone # None => users'[u].phone # None
        <3>1. go[r].call.phone # None
            BY <1>0, <2>1 DEF Commit, Fits, Verifying
        <3> QED
            BY <1>0, <2>1, <3>1 DEF UserRows
    <2> QED
        BY <2>1, PhonesWritten
<1>2. ASSUME \A t \in TokenIds : tokens'[t].user = tokens[t].user
      PROVE  TokensHaveOwners'
    BY <1>0, <1>1, <1>2 DEF TokensHaveOwners, TokenRows
<1>3. ASSUME NEW r \in Reqs, IssueToken(r), go[r].user \in UserIds,
             users'[go[r].user].phone # None
      PROVE  TokensHaveOwners'
    <2>1. PICK t \in TokenIds : tokens' = [tokens EXCEPT ![t].user = go[r].user]
        BY <1>3 DEF IssueToken, NewTokens
    <2>2. tokens'[t].user = go[r].user
          /\ \A x \in TokenIds \ {t} : tokens'[x] = tokens[x]
        BY <1>0, <2>1 DEF TokenRows
    <2> QED
        BY <1>0, <1>1, <1>3, <2>2 DEF TokensHaveOwners, TokenRows
<1>4. ASSUME NEW r \in Reqs, Commit(r) PROVE TokensHaveOwners'
    <2>1. go[r].user \in UserIds /\ go[r].call.phone # None
        BY <1>0, <1>4 DEF Commit, Fits, Verifying
    <2>2. CASE go[r].fresh
        <3>1. users' = [users EXCEPT ![go[r].user].phone = go[r].call.phone]
            BY <1>4, <2>2 DEF Commit
        <3>2. users'[go[r].user].phone # None
            BY <1>0, <2>1, <3>1 DEF UserRows
        <3> QED
            BY <1>3, <1>4, <2>1, <3>2 DEF Commit
    <2>3. CASE ~go[r].fresh
        <3>1. users[go[r].user].phone # None
            BY <1>0, <1>4, <2>1, <2>3 DEF UserOK, Commit
        <3> QED
            BY <1>1, <1>3, <1>4, <2>1, <3>1 DEF Commit
    <2> QED
        BY <2>2, <2>3
<1>5. ASSUME NEW r \in Reqs, Issue(r) PROVE TokensHaveOwners'
    <2>1. go[r].user \in UserIds /\ users[go[r].user].phone # None
        BY <1>0, <1>5 DEF Issue, Fits, UserOK
    <2> QED
        BY <1>1, <1>3, <1>5, <2>1 DEF Issue
<1>6. ASSUME NEW r \in Reqs, Rotate(r) PROVE TokensHaveOwners'
    BY <1>0, <1>2, <1>6 DEF Rotate, TokenRows
<1>7. ASSUME NEW r \in Reqs, Logout(r) PROVE TokensHaveOwners'
    BY <1>0, <1>2, <1>7 DEF Logout, TokenRows
<1>8. ASSUME NEW t \in TokenIds, ExpireToken(t) PROVE TokensHaveOwners'
    BY <1>0, <1>2, <1>8 DEF ExpireToken, TokenRows
<1>9. CASE tokens' = tokens
    BY <1>2, <1>9
<1> QED
    BY <1>4, <1>5, <1>6, <1>7, <1>8, <1>9
    DEF Next, Statement, Receive, InvalidatePrevious, CreateOtp, Lookup, MarkUsed,
        FindUser, InsertUser, TouchUser, LoadUser, SetRole, CheckToken, LoadOwner,
        CallFails, WriteFails, Crash, ExpireOtp, vars, tables, bounds, history

(* What a transaction knows of its code.                                   *)
CodeOK ==
    /\ \A o \in OtpIds : otps[o].used => otps[o].phone # None
    /\ \A r \in Reqs :
          /\ go[r].pc = "mark" \/ go[r].pc \in InTx => otps[Otp(r)].phone = Phone(r)
          /\ go[r].pc \in InTx => go[r].marked \/ otps[Otp(r)].deleted

(* A row's phone is set once, deleted_at stays, and only Commit sets used. *)
LEMMA CodesWritten ==
    ASSUME TInv, [Next]_vars
    PROVE  /\ \A o \in OtpIds : otps[o].phone # None => otps'[o].phone = otps[o].phone
           /\ \A o \in OtpIds : otps[o].deleted => otps'[o].deleted
           /\ \/ /\ \A o \in OtpIds : otps'[o].used = otps[o].used
                 /\ signIns' = signIns
              \/ \E r \in Reqs : Commit(r)
<1>1. otps \in [OtpIds -> OtpRows]
    BY DEF TInv, TypeOK
<1>2. ASSUME NEW r \in Reqs, InvalidatePrevious(r)
      PROVE  \A o \in OtpIds : /\ otps'[o].phone = otps[o].phone
                               /\ otps[o].deleted => otps'[o].deleted
                               /\ otps'[o].used = otps[o].used
    BY <1>1, <1>2 DEF InvalidatePrevious, OtpRows
<1>3. ASSUME NEW r \in Reqs, CreateOtp(r)
      PROVE  \A o \in OtpIds : /\ otps[o].phone # None => otps'[o].phone = otps[o].phone
                               /\ otps[o].deleted => otps'[o].deleted
                               /\ otps'[o].used = otps[o].used
    BY <1>1, <1>3 DEF CreateOtp, NewOtps, OtpRows
<1>4. ASSUME NEW r \in Reqs, Commit(r)
      PROVE  \A o \in OtpIds : /\ otps'[o].phone = otps[o].phone
                               /\ otps[o].deleted => otps'[o].deleted
    BY <1>1, <1>4 DEF Commit, OtpRows
<1>5. ASSUME NEW x \in OtpIds, ExpireOtp(x)
      PROVE  \A o \in OtpIds : /\ otps'[o].phone = otps[o].phone
                               /\ otps[o].deleted => otps'[o].deleted
                               /\ otps'[o].used = otps[o].used
    BY <1>1, <1>5 DEF ExpireOtp, OtpRows
<1>6. CASE otps' = otps /\ signIns' = signIns
    BY <1>6
<1>7. /\ \A r \in Reqs : InvalidatePrevious(r) \/ CreateOtp(r) => signIns' = signIns
      /\ \A x \in OtpIds : ExpireOtp(x) => signIns' = signIns
    BY SMTT(40) DEF InvalidatePrevious, CreateOtp, ExpireOtp, history
<1>8. \/ otps' = otps /\ signIns' = signIns
      \/ \E r \in Reqs : InvalidatePrevious(r) \/ CreateOtp(r) \/ Commit(r)
      \/ \E x \in OtpIds : ExpireOtp(x)
    BY DEF Next, Statement, Receive, Lookup, MarkUsed, FindUser, InsertUser, TouchUser,
        LoadUser, SetRole, Issue, CheckToken, LoadOwner, Rotate, Logout, CallFails,
        WriteFails, Crash, ExpireToken, vars, tables, bounds, history
<1>9. CASE \E r \in Reqs : InvalidatePrevious(r) \/ CreateOtp(r)
    BY <1>2, <1>3, <1>7, <1>9
<1>10. CASE \E r \in Reqs : Commit(r)
    BY <1>4, <1>10
<1>11. CASE \E x \in OtpIds : ExpireOtp(x)
    BY <1>5, <1>7, <1>11
<1> QED
    BY <1>6, <1>8, <1>9, <1>10, <1>11

(* Phones stay taken.                                                      *)
LEMMA PhonesStay ==
    ASSUME TInv, UserInv, [Next]_vars
    PROVE  \A p \in Phones : PhoneTaken(p) => PhoneTaken(p)'
<1>1. users \in [UserIds -> UserRows]
    BY DEF TInv, TypeOK
<1>2. ASSUME NEW r \in Reqs, go[r].fresh,
             users' = [users EXCEPT ![User(r)].phone = Phone(r)]
      PROVE  \A u \in UserIds : users[u].phone # None => users'[u].phone = users[u].phone
    <2>1. users[User(r)].phone = None
        BY <1>2 DEF UserInv, UserOK
    <2> QED
        BY <1>1, <1>2, <2>1 DEF UserRows
<1>3. \A u \in UserIds : users[u].phone # None => users'[u].phone = users[u].phone
    BY <1>2, PhonesWritten
<1> QED
    BY <1>3, AuthAssumption DEF PhoneTaken, UsersWith

LEMMA CodeStep ==
    ASSUME TInv, Presented, UserInv, CodeOK, SignInsRecorded, [Next]_vars
    PROVE  CodeOK' /\ SignInsRecorded'
<1> USE AuthAssumption DEF At, Otp, Phone, User
<1>0. /\ go \in [Reqs -> Goroutines] /\ otps \in [OtpIds -> OtpRows]
      /\ users \in [UserIds -> UserRows] /\ signIns \in [OtpIds -> Nat]
      /\ \A r \in Reqs : Fits(go[r]) /\ go[r] \in Goroutines /\ UserOK(r)
      /\ go' \in [Reqs -> Goroutines]
      /\ \A r \in Reqs : Fits(go'[r]) /\ go'[r] \in Goroutines
    BY TypeStep DEF TInv, TypeOK, UserInv
<1>1. ASSUME NEW q \in Reqs, go'[q].pc = "mark" \/ go'[q].pc \in InTx
      PROVE  /\ otps[go'[q].call.otp].phone = go'[q].call.phone
             /\ go'[q].pc \in InTx => go'[q].marked \/ otps[go'[q].call.otp].deleted
    <2>1. CASE go'[q] = go[q]
        BY <1>1, <2>1 DEF CodeOK
    <2>2. CASE go'[q] # go[q]
        <3>0. Moved(q)
            BY <2>2, Step
        <3>1. CASE Lookup(q) /\ otps[Otp(q)].phone = Phone(q) /\ To(q, "mark")
            BY <3>1 DEF To, Kept, InTx
        <3>2. CASE /\ MarkUsed(q) /\ go'[q].pc = "find" /\ go'[q].call = go[q].call
                   /\ go'[q].marked = ~otps[Otp(q)].deleted
            BY <3>2 DEF MarkUsed, CodeOK
        <3>3. CASE FindUser(q) /\ To(q, "insert")
            BY <3>3 DEF FindUser, To, Kept, CodeOK, InTx
        <3>4. ASSUME NEW u, FindUser(q), Touching(q, u, go[q].fresh)
              PROVE  /\ otps[go'[q].call.otp].phone = go'[q].call.phone
                     /\ go'[q].marked \/ otps[go'[q].call.otp].deleted
            BY <3>4 DEF FindUser, Touching, CodeOK, InTx
        <3>5. ASSUME NEW u, InsertUser(q), Touching(q, u, TRUE)
              PROVE  /\ otps[go'[q].call.otp].phone = go'[q].call.phone
                     /\ go'[q].marked \/ otps[go'[q].call.otp].deleted
            BY <3>5 DEF InsertUser, Touching, CodeOK, InTx
        <3>6. CASE TouchUser(q) /\ To(q, "commit")
            BY <3>6 DEF TouchUser, To, Kept, CodeOK, InTx
        <3>7. ASSUME NEW c \in Calls, go'[q].pc = FirstStep[c.op] PROVE FALSE
            BY <1>1, <3>7, CallKinds DEF FirstStep, InTx
        <3> QED
            BY <1>1, <3>0, <3>1, <3>2, <3>3, <3>4, <3>5, <3>6, <3>7, IdleFits
            DEF Moved, To, InTx
    <2> QED
        BY <2>1, <2>2
<1>2. ASSUME NEW q \in Reqs, go'[q].pc = "mark" \/ go'[q].pc \in InTx
      PROVE  /\ otps'[go'[q].call.otp].phone = go'[q].call.phone
             /\ go'[q].pc \in InTx => go'[q].marked \/ otps'[go'[q].call.otp].deleted
    <2>1. go'[q].call.otp \in OtpIds /\ go'[q].call.phone # None
        BY <1>0, <1>2 DEF Fits, InTx, Verifying
    <2> QED
        BY <1>1, <1>2, <2>1, CodesWritten
<1>3. CASE /\ \A o \in OtpIds : otps'[o].used = otps[o].used
           /\ signIns' = signIns
    <2>1. \A o \in OtpIds : otps'[o].used => otps'[o].phone = otps[o].phone
                                             /\ otps[o].phone \in Phones
        BY <1>0, <1>3, CodesWritten DEF CodeOK, OtpRows
    <2>2. CodeOK'
        BY <1>2, <1>3, <2>1 DEF CodeOK
    <2>3. SignInsRecorded'
        BY <1>0, <1>3, <2>1, PhonesStay, CodesWritten DEF SignInsRecorded
    <2> QED
        BY <2>2, <2>3
<1>4. ASSUME NEW r \in Reqs, Commit(r) PROVE CodeOK' /\ SignInsRecorded'
    <2> DEFINE c == go[r].call.otp
    <2> DEFINE p == go[r].call.phone
    <2>1. c \in OtpIds /\ p \in Phones /\ p # None /\ go[r].user \in UserIds
        BY <1>0, <1>4 DEF Commit, Fits, Verifying
    <2>2. otps[c].phone = p /\ (go[r].marked \/ otps[c].deleted)
        BY <1>4 DEF Commit, CodeOK, InTx
    <2>3. /\ \A o \in OtpIds \ {c} : otps'[o] = otps[o]
          /\ otps'[c].phone = p
          /\ otps'[c].used \/ otps'[c].deleted
        <3>1. CASE go[r].marked
            <4>1. otps' = [otps EXCEPT ![c].used = TRUE]
                BY <1>4, <3>1 DEF Commit
            <4> QED
                BY <1>0, <2>1, <2>2, <4>1 DEF OtpRows
        <3>2. CASE ~go[r].marked
            <4>1. otps' = otps
                BY <1>4, <3>2 DEF Commit
            <4> QED
                BY <2>2, <3>2, <4>1
        <3> QED
            BY <3>1, <3>2
    <2>4. signIns'[c] > 0 /\ \A o \in OtpIds \ {c} : signIns'[o] = signIns[o]
        <3>1. signIns' = [signIns EXCEPT ![c] = signIns[c] + 1]
            BY <1>4 DEF Commit
        <3> QED
            BY <1>0, <2>1, <3>1
    <2>5. \E u \in UserIds : users'[u].phone = p
        <3>1. CASE go[r].fresh
            <4>1. users' = [users EXCEPT ![go[r].user].phone = p]
                BY <1>4, <3>1 DEF Commit
            <4>2. users'[go[r].user].phone = p
                BY <1>0, <2>1, <4>1 DEF UserRows
            <4> QED
                BY <2>1, <4>2
        <3>2. CASE ~go[r].fresh
            <4>1. users' = users
                BY <1>4, <3>2 DEF Commit
            <4>2. users[go[r].user].phone = p
                BY <1>0, <1>4, <3>2 DEF Commit, UserOK
            <4> QED
                BY <2>1, <4>1, <4>2
        <3> QED
            BY <3>1, <3>2
    <2> HIDE DEF c, p
    <2>6. CodeOK'
        BY <1>2, <2>1, <2>3 DEF CodeOK
    <2>7. ASSUME NEW o \in OtpIds
          PROVE  /\ otps'[o].used => signIns'[o] > 0 /\ PhoneTaken(otps[o].phone)'
                 /\ otps'[o].phone = otps[o].phone
                 /\ signIns'[o] > 0 => otps'[o].used \/ otps'[o].deleted
        <3>1. CASE o = c
            BY <2>2, <2>3, <2>4, <2>5, <3>1 DEF PhoneTaken, UsersWith
        <3>2. CASE o # c
            <4>1. otps'[o] = otps[o] /\ signIns'[o] = signIns[o]
                BY <2>3, <2>4, <3>2
            <4>2. otps[o].used => otps[o].phone \in Phones
                BY <1>0 DEF CodeOK, OtpRows
            <4> QED
                BY <4>1, <4>2, PhonesStay DEF SignInsRecorded, PhoneTaken, UsersWith
        <3> QED
            BY <3>1, <3>2
    <2>8. SignInsRecorded'
        BY <2>7 DEF SignInsRecorded, PhoneTaken, UsersWith
    <2> QED
        BY <2>6, <2>8
<1> QED
    BY <1>3, <1>4, CodesWritten
(* As long as no statement fails, a refresh that comes to issue a token    *)
(* has spent the one it was given.                                         *)
SpentBeforeIssue ==
    \A r \in Reqs :
        failures = 0 /\ go[r].pc = "issue" /\ go[r].call.op = "refresh" =>
            ~TokenLive(Token(r))

(* used, deleted_at and expiry stay.                                       *)
LEMMA DeadTokensStay ==
    ASSUME TInv, [Next]_vars
    PROVE  \A t \in TokenIds : ~TokenLive(t) => ~TokenLive(t)'
<1>1. tokens \in [TokenIds -> TokenRows]
    BY DEF TInv, TypeOK
<1>2. ASSUME NEW r \in Reqs, IssueToken(r)
      PROVE  \A t \in TokenIds : ~TokenLive(t) => ~TokenLive(t)'
    BY <1>1, <1>2 DEF IssueToken, NewTokens, TokenLive, TokenRows
<1>3. ASSUME NEW r \in Reqs, Rotate(r) \/ Logout(r)
      PROVE  \A t \in TokenIds : ~TokenLive(t) => ~TokenLive(t)'
    BY <1>1, <1>3 DEF Rotate, Logout, TokenLive, TokenRows
<1>4. ASSUME NEW x \in TokenIds, ExpireToken(x)
      PROVE  \A t \in TokenIds : ~TokenLive(t) => ~TokenLive(t)'
    BY <1>1, <1>4 DEF ExpireToken, TokenLive, TokenRows
<1>5. CASE tokens' = tokens
    BY SMTT(40), <1>5 DEF TokenLive
<1>6. \/ tokens' = tokens
      \/ \E r \in Reqs : IssueToken(r) \/ Rotate(r) \/ Logout(r)
      \/ \E x \in TokenIds : ExpireToken(x)
    BY ZenonT(60) DEF Next, Statement, Receive, InvalidatePrevious, CreateOtp, Lookup, MarkUsed,
        FindUser, InsertUser, TouchUser, Commit, LoadUser, SetRole, Issue, CheckToken,
        LoadOwner, CallFails, WriteFails, Crash, ExpireOtp, vars, tables, bounds,
        history
<1> QED
    BY <1>2, <1>3, <1>4, <1>5, <1>6

(* Only a refresh that issues a token counts as a rotation, and failures   *)
(* are not forgotten.                                                      *)
LEMMA RotationsWritten ==
    ASSUME TInv, [Next]_vars
    PROVE  /\ failures' = 0 => failures = 0
           /\ \/ rotations' = rotations
              \/ \E r \in Reqs :
                    /\ Issue(r) /\ go[r].pc = "issue" /\ go[r].call.op = "refresh"
                    /\ rotations' = [rotations EXCEPT ![Token(r)] = @ + 1]
<1>1. failures \in Nat
    BY AuthAssumption DEF TInv, TypeOK
<1>2. failures' = failures \/ failures' = failures + 1
    BY ZenonT(60) DEF Next, Statement, Receive, InvalidatePrevious, CreateOtp, Lookup, MarkUsed,
        FindUser, InsertUser, TouchUser, Commit, LoadUser, SetRole, Issue, CheckToken,
        LoadOwner, Rotate, Logout, CallFails, WriteFails, Crash, Fail, ExpireOtp,
        ExpireToken, vars, tables, bounds, history
<1>3. ASSUME NEW r \in Reqs, Issue(r)
      PROVE  \/ rotations' = rotations
             \/ /\ Issue(r) /\ go[r].pc = "issue" /\ go[r].call.op = "refresh"
                /\ rotations' = [rotations EXCEPT ![Token(r)] = @ + 1]
    BY <1>3 DEF Issue, At
<1>4. rotations' = rotations \/ \E r \in Reqs : Issue(r)
    BY DEF Next, Statement, Receive, InvalidatePrevious, CreateOtp, Lookup, MarkUsed,
        FindUser, InsertUser, TouchUser, Commit, LoadUser, SetRole, CheckToken,
        LoadOwner, Rotate, Logout, CallFails, WriteFails, Crash, ExpireOtp,
        ExpireToken, vars, tables, bounds, history
<1> QED
    BY <1>1, <1>2, <1>3, <1>4

LEMMA RotateStep ==
    ASSUME TInv, Presented, SpentBeforeIssue, RotatedIsSpent, [Next]_vars
    PROVE  SpentBeforeIssue' /\ RotatedIsSpent'
<1> USE DEF At, Token
<1>0. /\ go \in [Reqs -> Goroutines] /\ tokens \in [TokenIds -> TokenRows]
      /\ rotations \in [TokenIds -> Nat]
      /\ \A r \in Reqs : Fits(go[r]) /\ go[r] \in Goroutines
    BY DEF TInv, TypeOK
<1>1. ASSUME failures' = 0, NEW q \in Reqs, go'[q].pc = "issue",
             go'[q].call.op = "refresh"
      PROVE  /\ go'[q].call.token \in TokenIds
             /\ ~TokenLive(go[q].call.token)' /\ go'[q].call = go[q].call
    <2>1. failures = 0
        BY <1>1, RotationsWritten
    <2>2. CASE go'[q] = go[q]
        <3>1. go[q].call.token \in TokenIds
            BY <1>0, <1>1, <2>2 DEF Fits, Selecting, Refreshing
        <3> QED
            BY <1>1, <2>1, <2>2, <3>1, DeadTokensStay DEF SpentBeforeIssue
    <2>3. CASE go'[q] # go[q]
        <3>1. Moved(q)
            BY <2>3, Step
        <3>2. ASSUME NEW c \in Calls, go'[q].pc = FirstStep[c.op] PROVE FALSE
            BY <1>1, <3>2, CallKinds DEF FirstStep
        <3>3. go'[q].call = go[q].call /\ go[q].pc \in {"setRole", "rotate"}
              /\ (go[q].pc = "rotate" => Rotate(q) \/ WriteFails(q))
            BY <1>1, <3>1, <3>2, IdleFits DEF Moved, To, Kept, Touching
        <3>4. go[q].pc = "rotate" /\ go[q].call.token \in TokenIds
            BY <1>0, <1>1, <3>3 DEF Fits, Selecting, Refreshing
        <3>5. ~WriteFails(q)
            BY <1>1, <2>1 DEF WriteFails, Fail
        <3> QED
            BY <1>0, <3>3, <3>4, <3>5 DEF Rotate, TokenLive, TokenRows
    <2> QED
        BY <2>2, <2>3
<1>2. SpentBeforeIssue'
    BY <1>1 DEF SpentBeforeIssue
<1>3. ASSUME NEW t \in TokenIds, rotations'[t] > 0, failures' = 0
      PROVE  ~TokenLive(t)'
    <2>1. failures = 0
        BY <1>3, RotationsWritten
    <2>2. CASE rotations[t] > 0
        BY <2>1, <2>2, DeadTokensStay DEF RotatedIsSpent
    <2>3. CASE ~(rotations[t] > 0)
        <3>1. PICK r \in Reqs :
                  /\ go[r].pc = "issue" /\ go[r].call.op = "refresh"
                  /\ rotations' = [rotations EXCEPT ![go[r].call.token] = @ + 1]
            BY <1>3, <2>3, RotationsWritten
        <3>2. go[r].call.token = t
            BY <1>0, <1>3, <2>3, <3>1
        <3> QED
            BY <2>1, <3>1, <3>2, DeadTokensStay DEF SpentBeforeIssue
    <2> QED
        BY <2>2, <2>3
<1>4. RotatedIsSpent'
    BY <1>3 DEF RotatedIsSpent
<1> QED
    BY <1>2, <1>4

(* The inductive invariant.                                                *)
IInv == TInv /\ Presented /\ UserInv /\ OneUserPerPhone /\ TokensHaveOwners
            /\ CodeOK /\ SignInsRecorded /\ SpentBeforeIssue /\ RotatedIsSpent

LEMMA IInvInit == Init => IInv
<1> SUFFICES ASSUME Init PROVE IInv
    OBVIOUS
<1>1. TInv
    BY InitTyped
<1>2. \A r \in Reqs : go[r].pc = "idle" /\ go[r].fresh = FALSE
    BY IdleFits DEF Init
<1>3. Presented /\ UserInv
    BY <1>2 DEF Presented, UserInv, UserOK, FreshApart
<1>4. OneUserPerPhone /\ TokensHaveOwners
    BY DEF Init, OneUserPerPhone, TokensHaveOwners, NoUser, NoToken
<1>5. CodeOK
    BY <1>2 DEF Init, CodeOK, NoOtp, InTx
<1>6. SignInsRecorded
    BY DEF Init, SignInsRecorded, NoOtp
<1>7. SpentBeforeIssue /\ RotatedIsSpent
    BY <1>2 DEF Init, SpentBeforeIssue, RotatedIsSpent
<1> QED
    BY <1>1, <1>3, <1>4, <1>5, <1>6, <1>7 DEF IInv

LEMMA Invariance == Spec => []IInv
<1>1. IInv /\ [Next]_vars => IInv'
    BY TypeStep, PresentedStep, UserStep, OwnerStep, CodeStep, RotateStep DEF IInv
<1> QED
    BY <1>1, IInvInit, PTL DEF Spec

(* Every row, every local of a call and every count has its type; the      *)
(* typing needs Presented, for a token's user is None until it is issued.  *)
THEOREM TypeCorrect == Spec => []TypeOK
<1>1. IInv => TypeOK
    BY DEF IInv, TInv
<1> QED
    BY <1>1, Invariance, PTL

(* However many codes are verified at once, a phone has one account: a     *)
(* second transaction waits for the first one's INSERT and meets its row.  *)
THEOREM OneAccountPerPhone == Spec => []OneUserPerPhone
<1>1. IInv => OneUserPerPhone
    BY DEF IInv
<1> QED
    BY <1>1, Invariance, PTL

(* Every refresh token belongs to an account, whatever fails or crashes.   *)
THEOREM OwnersExist == Spec => []TokensHaveOwners
<1>1. IInv => TokensHaveOwners
    BY DEF IInv
<1> QED
    BY <1>1, Invariance, PTL

(* A used code has signed in an account that exists, and a code that has   *)
(* is used or was deleted by a later SendOTP, whatever fails or crashes.   *)
THEOREM CodesAccounted == Spec => []SignInsRecorded
<1>1. IInv => SignInsRecorded
    BY DEF IInv
<1> QED
    BY <1>1, Invariance, PTL

(* A refresh token that has given a new one is not live, until a statement *)
(* or the server fails.                                                    *)
THEOREM RotatedNeverLive == Spec => []RotatedIsSpent
<1>1. IInv => RotatedIsSpent
    BY DEF IInv
<1> QED
    BY <1>1, Invariance, PTL
-----------------------------------------------------------------------------
(* Calls that come one at a time.  A call then finds the tables as it left *)
(* them, and each conjunct below says what it still knows: the code it was *)
(* let through with has signed nobody in, the token it was let through     *)
(* with has given no other, the previous codes of its phone are dead, and  *)
(* the role it is about to put into an access token is the stored one.     *)

FreshCode ==
    \A r \in Reqs : go[r].pc = "mark" \/ go[r].pc \in InTx => signIns[Otp(r)] = 0

FreshToken ==
    \A r \in Reqs :
        /\ failures = 0
        /\ go[r].pc \in {"owner", "rotate", "issue"} /\ go[r].call.op = "refresh"
        => rotations[Token(r)] = 0

NoneLive ==
    \A r \in Reqs : failures = 0 /\ go[r].pc = "create" =>
        \A o \in OtpIds : otps[o].phone = Phone(r) => ~OtpLive(o)

DefaultRoles ==
    /\ \A u \in UserIds : users[u].phone = None => users[u].role = Customer
    /\ \A r \in Reqs :
          go[r].pc \in {"idle", "lookup", "mark", "find", "insert"} =>
              go[r].role = Customer

RoleKnown ==
    failures = 0 =>
        /\ \A r \in Reqs : go[r].pc \in {"touch", "commit", "rotate", "issue"} =>
              go[r].role = users[User(r)].role
        /\ \A u \in UserIds : \/ claim[u] = users[u].role
                              \/ \E r \in Reqs : go[r].pc = "issue" /\ User(r) = u

(* A goroutine in the middle of a call stays where it is while another one *)
(* moves; with one call at a time there is no other one.                   *)
LEMMA OnlyOneMoves ==
    ASSUME TInv, NEW r \in Reqs, NEW q \in Reqs, r # q,
           Statement(r) \/ CallFails(r) \/ WriteFails(r)
           \/ \E c \in Calls : Receive(r, c)
    PROVE  go'[q] = go[q]
<1>1. go \in [Reqs -> Goroutines]
    BY DEF TInv, TypeOK
<1>2. CASE \E c \in Calls : Receive(r, c)
    BY <1>1, <1>2 DEF Receive
<1>3. CASE CallFails(r) \/ WriteFails(r)
    BY <1>1, <1>3 DEF CallFails, WriteFails, Finish, Goto
<1>4. CASE InvalidatePrevious(r) \/ CreateOtp(r) \/ Lookup(r) \/ MarkUsed(r)
    BY <1>1, <1>4 DEF InvalidatePrevious, CreateOtp, Lookup, MarkUsed, Finish, Goto
<1>5. CASE FindUser(r) \/ InsertUser(r)
    BY <1>1, <1>5 DEF FindUser, InsertUser, Finish, Goto
<1>6. CASE TouchUser(r) \/ Commit(r) \/ LoadUser(r) \/ SetRole(r) \/ Issue(r)
    BY <1>1, <1>6 DEF TouchUser, Commit, LoadUser, SetRole, Issue, Finish, Goto
<1>7. CASE CheckToken(r) \/ LoadOwner(r) \/ Rotate(r) \/ Logout(r)
    BY <1>1, <1>7 DEF CheckToken, LoadOwner, Rotate, Logout, Finish, Goto
<1> QED
    BY <1>2, <1>3, <1>4, <1>5, <1>6, <1>7 DEF Statement

(* ConsumedOnce, with FreshCode: only a live code is let through, and no   *)
(* other call signs in with it before this one does.                       *)
LEMMA AloneCodeStep ==
    ASSUME IInv, [Next]_vars, OneAtATime(go), OneAtATime(go'), FreshCode, ConsumedOnce
    PROVE  FreshCode' /\ ConsumedOnce'
<1> USE DEF At, Otp
<1>0. /\ go \in [Reqs -> Goroutines] /\ signIns \in [OtpIds -> Nat]
      /\ \A r \in Reqs : Fits(go[r])
      /\ \A r \in Reqs : Fits(go'[r])
    BY TypeStep DEF IInv, TInv, TypeOK
<1>1. ASSUME NEW q \in Reqs, go'[q].pc = "mark" \/ go'[q].pc \in InTx
      PROVE  signIns[go'[q].call.otp] = 0
    <2>1. CASE go'[q] = go[q]
        BY <1>1, <2>1 DEF FreshCode
    <2>2. CASE go'[q] # go[q]
        <3>0. Moved(q)
            BY <2>2, Step DEF IInv
        <3>1. CASE Lookup(q) /\ To(q, "mark")
            <4>1. OtpLive(go[q].call.otp) /\ go[q].call.otp \in OtpIds
                BY <1>0, <3>1, Finished, IdleFits
                DEF Lookup, To, Fits, Verifying
            <4>2. signIns[go[q].call.otp] = 0
                BY <1>0, <4>1 DEF IInv, SignInsRecorded, OtpLive
            <4> QED
                BY <3>1, <4>2 DEF To, Kept
        <3>2. CASE MarkUsed(q) /\ go'[q].call = go[q].call
            BY <3>2 DEF MarkUsed, FreshCode
        <3>3. CASE FindUser(q) /\ go'[q].call = go[q].call
            BY <3>3 DEF FindUser, FreshCode, InTx
        <3>4. CASE InsertUser(q) /\ go'[q].call = go[q].call
            BY <3>4 DEF InsertUser, FreshCode, InTx
        <3>5. CASE TouchUser(q) /\ go'[q].call = go[q].call
            BY <3>5 DEF TouchUser, FreshCode, InTx
        <3>6. ASSUME NEW c \in Calls, go'[q].pc = FirstStep[c.op] PROVE FALSE
            BY <1>1, <3>6, CallKinds DEF FirstStep, InTx
        <3> QED
            BY <1>1, <3>0, <3>1, <3>2, <3>3, <3>4, <3>5, <3>6, IdleFits
            DEF Moved, To, Kept, Touching, InTx
    <2> QED
        BY <2>1, <2>2
<1>2. CASE signIns' = signIns
    BY <1>1, <1>2 DEF FreshCode, ConsumedOnce
<1>3. ASSUME NEW r \in Reqs, Commit(r) PROVE FreshCode' /\ ConsumedOnce'
    <2>1. go[r].pc = "commit" /\ go[r].call.otp \in OtpIds /\ signIns[go[r].call.otp] = 0
        BY <1>0, <1>3 DEF Commit, FreshCode, Fits, Verifying, InTx
    <2>2. ASSUME NEW q \in Reqs PROVE go'[q].pc = "idle"
        <3>1. go'[r] = Idle /\ (q # r => go'[q] = go[q])
            BY <1>0, <1>3, Finished DEF Commit
        <3> QED
            BY <2>1, <3>1, IdleFits DEF OneAtATime
    <2>3. FreshCode'
        BY <2>2 DEF FreshCode, InTx
    <2>4. signIns' = [signIns EXCEPT ![go[r].call.otp] = 1]
        BY <1>3, <2>1 DEF Commit
    <2>5. ConsumedOnce'
        BY <1>0, <2>1, <2>4 DEF ConsumedOnce
    <2> QED
        BY <2>3, <2>5
<1> QED
    BY <1>2, <1>3, CodesWritten DEF IInv

(* RotatedOnce, with FreshToken: RotatedIsSpent turns a token away that    *)
(* has given one.                                                          *)
LEMMA AloneTokenStep ==
    ASSUME IInv, [Next]_vars, OneAtATime(go), OneAtATime(go'), FreshToken, RotatedOnce
    PROVE  FreshToken' /\ RotatedOnce'
<1> USE DEF At, Token
<1>0. /\ go \in [Reqs -> Goroutines] /\ rotations \in [TokenIds -> Nat]
      /\ \A r \in Reqs : Fits(go[r])
      /\ \A r \in Reqs : Fits(go'[r])
    BY TypeStep DEF IInv, TInv, TypeOK
<1>1. ASSUME failures' = 0, NEW q \in Reqs, go'[q].call.op = "refresh",
             go'[q].pc \in {"owner", "rotate", "issue"}
      PROVE  rotations[go'[q].call.token] = 0
    <2>0. failures = 0
        BY <1>1, RotationsWritten DEF IInv
    <2>1. CASE go'[q] = go[q]
        BY <1>1, <2>0, <2>1 DEF FreshToken
    <2>2. CASE go'[q] # go[q]
        <3>0. Moved(q)
            BY <2>2, Step DEF IInv
        <3>1. CASE CheckToken(q) /\ To(q, "owner")
            <4>1. TokenLive(go[q].call.token) /\ go[q].call.token \in TokenIds
                BY <1>0, <3>1, Finished, IdleFits
                DEF CheckToken, To, Fits, Refreshing
            <4>2. rotations[go[q].call.token] = 0
                BY <1>0, <2>0, <4>1 DEF IInv, RotatedIsSpent
            <4> QED
                BY <3>1, <4>2 DEF To, Kept
        <3>2. CASE LoadOwner(q) /\ go'[q].call = go[q].call
            BY <1>1, <2>0, <3>2 DEF LoadOwner, FreshToken
        <3>3. CASE go[q].pc = "rotate" /\ go'[q].call = go[q].call
            BY <1>1, <2>0, <3>3 DEF FreshToken
        <3>4. CASE go[q].pc = "setRole" /\ go'[q].call = go[q].call
            BY <1>0, <1>1, <3>4 DEF Fits, Selecting
        <3>5. ASSUME NEW c \in Calls, go'[q].pc = FirstStep[c.op] PROVE FALSE
            BY <1>1, <3>5, CallKinds DEF FirstStep
        <3> QED
            BY <1>1, <3>0, <3>1, <3>2, <3>3, <3>4, <3>5, IdleFits
            DEF Moved, To, Kept, Touching
    <2> QED
        BY <2>1, <2>2
<1>2. CASE rotations' = rotations
    <2>1. FreshToken'
        BY <1>1, <1>2 DEF FreshToken
    <2>2. RotatedOnce'
        BY <1>2, RotationsWritten DEF RotatedOnce, IInv
    <2> QED
        BY <2>1, <2>2
<1>3. ASSUME NEW r \in Reqs, Issue(r), go[r].call.op = "refresh",
             rotations' = [rotations EXCEPT ![Token(r)] = @ + 1]
      PROVE  FreshToken' /\ RotatedOnce'
    <2>1. go[r].pc = "issue" /\ go[r].call.token \in TokenIds
        BY <1>0, <1>3 DEF Issue, Fits, Selecting, Refreshing
    <2>2. ASSUME NEW q \in Reqs PROVE go'[q].pc = "idle"
        <3>1. go'[r] = Idle /\ (q # r => go'[q] = go[q])
            BY <1>0, <1>3, Finished DEF Issue
        <3> QED
            BY <2>1, <3>1, IdleFits DEF OneAtATime
    <2>3. FreshToken'
        BY <2>2 DEF FreshToken
    <2>4. ASSUME NEW t \in TokenIds, failures' = 0 PROVE rotations'[t] <= 1
        <3>1. failures = 0
            BY <2>4, RotationsWritten DEF IInv
        <3>2. rotations[go[r].call.token] = 0
            BY <1>3, <2>1, <3>1 DEF FreshToken
        <3> QED
            BY <1>0, <1>3, <2>1, <3>1, <3>2 DEF RotatedOnce
    <2> QED
        BY <2>3, <2>4 DEF RotatedOnce
<1> QED
    BY <1>2, <1>3, RotationsWritten DEF IInv

(* A live code was live before, unless SendOTP has just created it.        *)
LEMMA LiveCodes ==
    ASSUME TInv, [Next]_vars, NEW o \in OtpIds, otps'[o].phone # None, OtpLive(o)'
    PROVE  \/ otps'[o].phone = otps[o].phone /\ OtpLive(o)
           \/ \E r \in Reqs : /\ CreateOtp(r) /\ otps'[o].phone = Phone(r)
                               /\ \A x \in OtpIds \ {o} : otps'[x] = otps[x]
<1>1. otps \in [OtpIds -> OtpRows]
    BY DEF TInv, TypeOK
<1>2. ASSUME NEW r \in Reqs, InvalidatePrevious(r)
      PROVE  otps'[o].phone = otps[o].phone /\ OtpLive(o)
    BY <1>1, <1>2 DEF InvalidatePrevious, OtpLive, OtpRows
<1>3. ASSUME NEW r \in Reqs, CreateOtp(r),
             ~(otps'[o].phone = otps[o].phone /\ OtpLive(o))
      PROVE  otps'[o].phone = Phone(r) /\ \A x \in OtpIds \ {o} : otps'[x] = otps[x]
    <2>1. PICK n \in OtpIds : otps' = [otps EXCEPT ![n].phone = Phone(r)]
        BY <1>3 DEF CreateOtp, NewOtps
    <2>2. o = n
        BY <1>1, <1>3, <2>1 DEF OtpLive, OtpRows
    <2>3. otps'[o].phone = Phone(r)
        BY <1>1, <2>1, <2>2 DEF OtpRows
    <2>4. \A x \in OtpIds \ {o} : otps'[x] = otps[x]
        BY <1>1, <2>1, <2>2
    <2> QED
        BY <2>3, <2>4
<1>4. ASSUME NEW r \in Reqs, Commit(r)
      PROVE  otps'[o].phone = otps[o].phone /\ OtpLive(o)
    BY <1>1, <1>4 DEF Commit, OtpLive, OtpRows
<1>5. ASSUME NEW x \in OtpIds, ExpireOtp(x)
      PROVE  otps'[o].phone = otps[o].phone /\ OtpLive(o)
    BY <1>1, <1>5 DEF ExpireOtp, OtpLive, OtpRows
<1>6. CASE otps' = otps
    BY <1>6 DEF OtpLive
<1>7. \/ otps' = otps
      \/ \E r \in Reqs : InvalidatePrevious(r) \/ CreateOtp(r) \/ Commit(r)
      \/ \E x \in OtpIds : ExpireOtp(x)
    BY DEF Next, Statement, Receive, Lookup, MarkUsed, FindUser, InsertUser, TouchUser,
        LoadUser, SetRole, Issue, CheckToken, LoadOwner, Rotate, Logout, CallFails,
        WriteFails, Crash, ExpireToken, vars, tables, bounds, history
<1> QED
    BY <1>2, <1>3, <1>4, <1>5, <1>6, <1>7

(* OneLiveOtp, with NoneLive: nothing comes between the DELETE and the     *)
(* INSERT of one SendOTP.                                                  *)
LEMMA AloneOtpStep ==
    ASSUME IInv, [Next]_vars, OneAtATime(go), OneAtATime(go'), NoneLive, OneLiveOtp
    PROVE  NoneLive' /\ OneLiveOtp'
<1> USE AuthAssumption DEF At, Phone
<1>0. /\ go \in [Reqs -> Goroutines] /\ otps \in [OtpIds -> OtpRows]
      /\ \A r \in Reqs : Fits(go[r]) /\ Fits(go'[r])
      /\ TInv
      /\ failures' = 0 => failures = 0
    BY TypeStep, RotationsWritten DEF IInv, TInv, TypeOK
<1>1. ASSUME NEW q \in Reqs, failures' = 0, go'[q].pc = "create",
             NEW o \in OtpIds, otps'[o].phone = go'[q].call.phone, OtpLive(o)'
      PROVE  FALSE
    <2>1. go'[q].call.phone \in Phones
        BY <1>0, <1>1 DEF Fits, Sending
    <2>2. CASE go'[q] = go[q]
        <3>1. ASSUME NEW r \in Reqs, CreateOtp(r) PROVE FALSE
            <4>1. r = q
                BY <1>1, <2>2, <3>1 DEF CreateOtp, OneAtATime
            <4> QED
                BY <1>0, <1>1, <2>2, <3>1, <4>1, Finished, IdleFits DEF CreateOtp
        <3>2. otps'[o].phone = otps[o].phone /\ OtpLive(o)
            BY <1>0, <1>1, <2>1, <3>1, LiveCodes DEF IInv
        <3> QED
            BY <1>0, <1>1, <2>2, <3>2 DEF NoneLive
    <2>3. CASE go'[q] # go[q]
        <3>1. Moved(q)
            BY <2>3, Step DEF IInv
        <3>2. ASSUME NEW c \in Calls, go'[q].pc = FirstStep[c.op] PROVE FALSE
            BY <1>1, <3>2, CallKinds DEF FirstStep
        <3>3. InvalidatePrevious(q) \/ WriteFails(q)
            BY <1>1, <3>1, <3>2, IdleFits DEF Moved, To, Touching
        <3>4. ~WriteFails(q)
            BY <1>0, <1>1 DEF WriteFails, Fail
        <3>5. go'[q].call = go[q].call
            BY <1>1, <3>1, <3>2, IdleFits DEF Moved, To, Kept, Touching
        <3> QED
            BY <1>0, <1>1, <3>3, <3>4, <3>5
            DEF InvalidatePrevious, Previous, OtpLive, OtpRows
    <2> QED
        BY <2>2, <2>3
<1>2. NoneLive'
    BY <1>1 DEF NoneLive
<1>3. ASSUME failures' = 0, NEW o \in OtpIds, NEW s \in OtpIds, o # s,
             otps'[o].phone # None, otps'[o].phone = otps'[s].phone,
             OtpLive(o)', OtpLive(s)'
      PROVE  FALSE
    <2>1. ASSUME NEW r \in Reqs, CreateOtp(r), NEW x \in OtpIds, NEW y \in OtpIds \ {x},
                 otps'[x].phone = Phone(r), otps'[y].phone = Phone(r),
                 \A z \in OtpIds \ {x} : otps'[z] = otps[z], OtpLive(y)'
          PROVE  FALSE
        <3>1. otps[y].phone = Phone(r) /\ OtpLive(y)
            BY <2>1 DEF OtpLive
        <3> QED
            BY <1>0, <1>3, <2>1, <3>1 DEF CreateOtp, NoneLive
    <2>2. otps'[o].phone = otps[o].phone /\ OtpLive(o)
        BY <1>0, <1>3, <2>1, LiveCodes DEF IInv
    <2>3. otps'[s].phone = otps[s].phone /\ OtpLive(s)
        BY <1>0, <1>3, <2>1, LiveCodes DEF IInv
    <2> QED
        BY <1>0, <1>3, <2>2, <2>3 DEF OneLiveOtp
<1>4. OneLiveOtp'
    BY <1>3 DEF OneLiveOtp
<1> QED
    BY <1>2, <1>4

(* Roles are written by SelectRole alone, and to a user that exists.       *)
LEMMA RolesWritten ==
    ASSUME TInv, [Next]_vars
    PROVE  \/ \A u \in UserIds : users'[u].role = users[u].role
           \/ \E r \in Reqs : SetRole(r)
<1>1. users \in [UserIds -> UserRows]
    BY DEF TInv, TypeOK
<1>2. ASSUME NEW r \in Reqs, Commit(r)
      PROVE  \A u \in UserIds : users'[u].role = users[u].role
    BY <1>1, <1>2 DEF Commit, UserRows
<1>3. CASE users' = users
    BY <1>3
<1>4. users' = users \/ \E r \in Reqs : Commit(r) \/ SetRole(r)
    BY DEF Next, Statement, Receive, InvalidatePrevious, CreateOtp, Lookup, MarkUsed,
        FindUser, InsertUser, TouchUser, LoadUser, Issue, CheckToken, LoadOwner, Rotate,
        Logout, CallFails, WriteFails, Crash, ExpireOtp, ExpireToken, vars, tables,
        bounds, history
<1> QED
    BY <1>2, <1>3, <1>4

LEMMA DefaultRolesStep ==
    ASSUME IInv, [Next]_vars, DefaultRoles
    PROVE  DefaultRoles'
<1> USE AuthAssumption DEF At
<1>0. /\ users \in [UserIds -> UserRows] /\ go \in [Reqs -> Goroutines]
      /\ \A r \in Reqs : Fits(go[r]) /\ UserOK(r) /\ go[r] \in Goroutines
      /\ TInv
    BY DEF IInv, TInv, TypeOK, UserInv
<1>1. ASSUME NEW u \in UserIds, users'[u].phone = None PROVE users'[u].role = Customer
    <2>1. users[u].phone = None
        <3>1. ASSUME NEW r \in Reqs, Commit(r), go[r].fresh,
                     users' = [users EXCEPT ![User(r)].phone = Phone(r)]
              PROVE  users[u].phone = None
            <4>1. go[r].call.phone # None
                BY <1>0, <3>1 DEF Commit, Fits, Verifying
            <4> QED
                BY <1>0, <1>1, <3>1, <4>1 DEF UserRows, Phone
        <3> QED
            BY <1>0, <1>1, <3>1, PhonesWritten
    <2>2. ASSUME NEW r \in Reqs, SetRole(r) PROVE users'[u].role = users[u].role
        <3>1. users[User(r)].phone # None
            BY <1>0, <2>2 DEF SetRole, UserOK
        <3> QED
            BY <1>0, <2>1, <2>2, <3>1 DEF SetRole, UserRows
    <2> QED
        BY <1>0, <2>1, <2>2, RolesWritten DEF DefaultRoles
<1>2. ASSUME NEW q \in Reqs, go'[q].pc \in {"idle", "lookup", "mark", "find", "insert"}
      PROVE  go'[q].role = Customer
    <2>1. CASE go'[q] = go[q]
        BY <1>2, <2>1 DEF DefaultRoles
    <2>2. CASE go'[q] # go[q]
        <3>1. Moved(q)
            BY <1>0, <2>2, Step
        <3>2. CASE go'[q] = Idle
            BY <3>2 DEF Idle
        <3>3. CASE \E c \in Calls : Receive(q, c) /\ go'[q].role = go[q].role
            BY <3>3 DEF Receive, DefaultRoles
        <3>4. CASE /\ Lookup(q) \/ MarkUsed(q) \/ FindUser(q)
                   /\ go'[q].role = go[q].role
            BY <3>4 DEF Lookup, MarkUsed, FindUser, DefaultRoles
        <3> QED
            BY <1>2, <3>1, <3>2, <3>3, <3>4 DEF Moved, To, Touching
    <2> QED
        BY <2>1, <2>2
<1> QED
    BY <1>1, <1>2 DEF DefaultRoles

(* A call leaves "issue" with a token, unless something fails.             *)
LEMMA IssueLeft ==
    ASSUME TInv, [Next]_vars, failures' = 0, NEW q \in Reqs, go[q].pc = "issue",
           go'[q] # go[q]
    PROVE  Issue(q)
<1> USE DEF At
<1>1. failures \in Nat
    BY AuthAssumption DEF TInv, TypeOK
<1>2. ~Crash /\ \A r \in Reqs : ~CallFails(r) /\ ~WriteFails(r)
    BY <1>1 DEF Crash, CallFails, WriteFails, Fail
<1>3. \E r \in Reqs : Statement(r) \/ \E c \in Calls : Receive(r, c)
    BY <1>2 DEF Next, ExpireOtp, ExpireToken, vars
<1>4. Statement(q) \/ \E c \in Calls : Receive(q, c)
    BY <1>3, OnlyOneMoves
<1> QED
    BY <1>4
    DEF Statement, Receive, InvalidatePrevious, CreateOtp, Lookup, MarkUsed, FindUser,
        InsertUser, TouchUser, Commit, LoadUser, SetRole, CheckToken, LoadOwner,
        Rotate, Logout

(* The role a call puts into its token is the stored one: nobody writes it *)
(* between the call's reading and its issuing.                             *)
LEMMA AloneRoleStep ==
    ASSUME IInv, [Next]_vars, OneAtATime(go), OneAtATime(go'), DefaultRoles, RoleKnown
    PROVE  RoleKnown'
<1> USE AuthAssumption DEF At, User
<1>0. /\ users \in [UserIds -> UserRows] /\ go \in [Reqs -> Goroutines]
      /\ claim \in [UserIds -> Roles]
      /\ \A r \in Reqs : Fits(go[r]) /\ UserOK(r) /\ go[r] \in Goroutines
      /\ \A r \in Reqs : Fits(go'[r])
      /\ TInv
    BY TypeStep DEF IInv, TInv, TypeOK, UserInv
<1> SUFFICES ASSUME failures' = 0 PROVE RoleKnown'
    BY DEF RoleKnown
<1>1. failures = 0 /\ \A r \in Reqs : ~WriteFails(r)
    BY <1>0, RotationsWritten DEF WriteFails, Fail
<1>2. ASSUME NEW q \in Reqs, go'[q].pc \in {"touch", "commit", "rotate", "issue"}
      PROVE  go'[q].role = users'[go'[q].user].role
    <2>1. go'[q].user \in UserIds
        BY <1>0, <1>2 DEF Fits
    <2>2. ASSUME NEW r \in Reqs, SetRole(r) PROVE go'[q].role = users'[go'[q].user].role
        <3>1. q = r
            BY <1>0, <1>2, <2>2, OnlyOneMoves DEF SetRole, OneAtATime, Statement
        <3> QED
            BY <1>0, <2>1, <2>2, <3>1 DEF SetRole, UserRows, Goroutines
    <2>3. ASSUME \A r \in Reqs : ~SetRole(r), go'[q] # go[q]
          PROVE  go'[q].role = users[go'[q].user].role
        <3>1. Moved(q)
            BY <1>0, <2>3, Step
        <3>2. ASSUME NEW c \in Calls, go'[q].pc = FirstStep[c.op] PROVE FALSE
            BY <1>2, <3>2, CallKinds DEF FirstStep
        <3>3. CASE /\ InsertUser(q)
                   /\ \E u \in NewUsers : Touching(q, u, TRUE) /\ go'[q].role = go[q].role
            BY <3>3 DEF InsertUser, DefaultRoles, NewUsers, Touching
        <3>4. CASE /\ TouchUser(q) \/ go[q].pc = "rotate"
                   /\ Kept(q) /\ go'[q].role = go[q].role
            BY <1>1, <3>4 DEF TouchUser, Kept, RoleKnown
        <3> QED
            BY <1>1, <1>2, <2>3, <3>1, <3>2, <3>3, <3>4, IdleFits
            DEF Moved, To, Touching
    <2>4. ASSUME go'[q] = go[q] PROVE go'[q].role = users[go'[q].user].role
        BY <1>1, <1>2, <2>4 DEF RoleKnown
    <2> QED
        BY <1>0, <2>1, <2>2, <2>3, <2>4, RolesWritten
<1>3. ASSUME NEW u \in UserIds, NEW r \in Reqs, IssueToken(r), Finish(r),
             go[r].pc \in {"commit", "issue"}, \A q \in Reqs : ~SetRole(q)
      PROVE  claim'[u] = users'[u].role
    <2>1. go[r].user \in UserIds /\ go[r].role = users[go[r].user].role
        BY <1>0, <1>1, <1>3 DEF Fits, RoleKnown
    <2>2. claim' = [claim EXCEPT ![go[r].user] = go[r].role]
        BY <1>3 DEF IssueToken
    <2>3. u # go[r].user => claim[u] = users[u].role
        BY <1>1, <1>3 DEF RoleKnown, OneAtATime
    <2>4. users'[u].role = users[u].role
        BY <1>0, <1>3, RolesWritten
    <2> QED
        BY <1>0, <2>1, <2>2, <2>3, <2>4
<1>4. ASSUME NEW u \in UserIds
      PROVE  \/ claim'[u] = users'[u].role
             \/ \E r \in Reqs : go'[r].pc = "issue" /\ go'[r].user = u
    <2>1. ASSUME NEW r \in Reqs, Commit(r) \/ Issue(r) PROVE claim'[u] = users'[u].role
        <3>1. \A q \in Reqs : ~SetRole(q)
            BY <1>0, <2>1, Finished, IdleFits, OnlyOneMoves
            DEF Commit, Issue, SetRole, OneAtATime, Statement
        <3> QED
            BY <1>3, <2>1, <3>1 DEF Commit, Issue
    <2>2. CASE \A r \in Reqs : ~Commit(r) /\ ~Issue(r)
        <3>1. claim' = claim
            BY <2>2
            DEF Next, Statement, Receive, InvalidatePrevious, CreateOtp, Lookup,
                MarkUsed, FindUser, InsertUser, TouchUser, LoadUser, SetRole,
                CheckToken, LoadOwner, Rotate, Logout, CallFails, WriteFails, Crash,
                ExpireOtp, ExpireToken, vars, tables, bounds, history
        <3>2. ASSUME NEW r \in Reqs, go[r].pc = "issue", go[r].user = u
              PROVE  go'[r].pc = "issue" /\ go'[r].user = u
            BY <1>0, <2>2, <3>2, IssueLeft
        <3>3. ASSUME NEW r \in Reqs, SetRole(r)
              PROVE  \/ users'[u].role = users[u].role
                     \/ go'[r].pc = "issue" /\ go'[r].user = u
            BY <1>0, <3>3 DEF SetRole, UserRows, Goroutines
        <3> QED
            BY SMTT(40), <1>0, <1>1, <3>1, <3>2, <3>3, RolesWritten DEF RoleKnown
    <2> QED
        BY <2>1, <2>2
<1> QED
    BY <1>2, <1>4 DEF RoleKnown

(* The inductive invariant of both modes.                                  *)
AloneInv ==
    /\ IInv /\ DefaultRoles
    /\ alone => /\ OneAtATime(go)
                /\ FreshCode /\ ConsumedOnce
                /\ FreshToken /\ RotatedOnce
                /\ NoneLive /\ OneLiveOtp
                /\ RoleKnown

LEMMA AloneInvInit == ModesInit => AloneInv
<1> SUFFICES ASSUME ModesInit PROVE AloneInv
    OBVIOUS
<1>1. IInv
    BY IInvInit DEF ModesInit
<1>2. \A r \in Reqs : go[r] = Idle /\ go[r].pc = "idle"
    BY IdleFits DEF ModesInit, Init
<1>3. OneAtATime(go) /\ FreshCode /\ FreshToken /\ NoneLive
    BY <1>2 DEF OneAtATime, FreshCode, FreshToken, NoneLive, InTx
<1>4. ConsumedOnce /\ RotatedOnce /\ OneLiveOtp
    BY DEF ModesInit, Init, ConsumedOnce, RotatedOnce, OneLiveOtp, NoOtp
<1>5. DefaultRoles /\ RoleKnown
    BY <1>2 DEF ModesInit, Init, DefaultRoles, RoleKnown, NoUser, Idle
<1> QED
    BY <1>1, <1>3, <1>4, <1>5 DEF AloneInv

LEMMA AloneInvariance == ModesSpec => []AloneInv
<1>1. AloneInv /\ [ModesNext]_modeVars => AloneInv'
    <2> SUFFICES ASSUME AloneInv, [ModesNext]_modeVars PROVE AloneInv'
        OBVIOUS
    <2>1. [Next]_vars /\ alone' = alone
        BY DEF ModesNext, modeVars
    <2>2. alone => OneAtATime(go)'
        BY DEF ModesNext, modeVars, vars, AloneInv, OneAtATime
    <2>3. IInv' /\ DefaultRoles'
        BY <2>1, TypeStep, PresentedStep, UserStep, OwnerStep, CodeStep, RotateStep,
           DefaultRolesStep DEF IInv, AloneInv
    <2>4. ASSUME alone
          PROVE  /\ FreshCode' /\ ConsumedOnce' /\ FreshToken' /\ RotatedOnce'
                 /\ NoneLive' /\ OneLiveOtp' /\ RoleKnown'
        <3>1. OneAtATime(go) /\ OneAtATime(go')
            BY <2>2, <2>4 DEF AloneInv, OneAtATime
        <3> QED
            BY <2>1, <2>4, <3>1, AloneCodeStep, AloneTokenStep, AloneOtpStep,
               AloneRoleStep DEF AloneInv
    <2> QED
        BY <2>1, <2>2, <2>3, <2>4 DEF AloneInv
<1> QED
    BY <1>1, AloneInvInit, PTL DEF ModesSpec

(* Calls that come one at a time sign in once with each code, whatever     *)
(* fails and wherever the server crashes.                                  *)
THEOREM CodesWorkOnce == ModesSpec => []AloneConsumedOnce
<1>1. AloneInv => AloneConsumedOnce
    BY DEF AloneInv, AloneConsumedOnce
<1> QED
    BY <1>1, AloneInvariance, PTL

(* A refresh token gives at most one new one to calls that come one at a   *)
(* time, until a statement or the server fails.                            *)
THEOREM TokensWorkOnce == ModesSpec => []AloneRotatedOnce
<1>1. AloneInv => AloneRotatedOnce
    BY DEF AloneInv, AloneRotatedOnce
<1> QED
    BY <1>1, AloneInvariance, PTL

(* A phone has at most one code that works when codes are asked for one    *)
(* call at a time and nothing fails.                                       *)
THEOREM OneCodeLive == ModesSpec => []AloneOneLiveOtp
<1>1. AloneInv => AloneOneLiveOtp
    BY DEF AloneInv, AloneOneLiveOtp
<1> QED
    BY <1>1, AloneInvariance, PTL

(* Between calls that come one at a time, the last access token of every   *)
(* user says the stored role, until something fails.                       *)
THEOREM LastTokenSaysRole == ModesSpec => []AloneClaimIsCurrent
<1>1. AloneInv => AloneClaimIsCurrent
    BY DEF AloneInv, AloneClaimIsCurrent, RoleKnown, ClaimIsCurrent, At
<1> QED
    BY <1>1, AloneInvariance, PTL
==============================================================================
