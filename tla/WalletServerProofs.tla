-------------------------- MODULE WalletServerProofs --------------------------
(***************************************************************************)
(* The wallet behind the rate limiter, for any number of users, addresses  *)
(* and requests, when every user calls from a single address: the calls of *)
(* a user do not overlap, the books balance, and the balances implement    *)
(* the atomic Account.                                                     *)
(*                                                                         *)
(* The invariants of the two parts are taken from their own proofs: every  *)
(* step of the server is a step of each part or leaves it alone (Parts).   *)
(* Linked ties the parts together and, with the limiter's exclusion, gives *)
(* OneCallPerUser; that in turn keeps Current, a balance that was read     *)
(* stays the balance of the row until it is written back, and Rows and     *)
(* Books, from which the two results follow.                               *)
(***************************************************************************)
EXTENDS WalletServer, TLAPS

GateProof == INSTANCE RateLimiterProofs
PayProof  == INSTANCE WalletProofs

Linked ==
    \A r \in Reqs :
        /\ phase[r] = "serving" <=> InCall(r)
        /\ InCall(r) => ip[r] \in Addrs[call[r].user]

PartsInv == GateProof!IInv /\ PayProof!IInv /\ Linked

(* A balance in memory is the one in the table, and nobody inserts a row   *)
(* that is there already.                                                  *)
Current ==
    \A r \in Reqs :
        /\ pc[r] \in {"journal", "store"} /\ found[r] =>
              mem[r] = balance[call[r].user]
        /\ pc[r] = "insert" => call[r].user \notin rows

Rows ==
    /\ \A u \in Users \ rows : balance[u] = 0
    /\ \A r \in Reqs : pc[r] \in {"idle", "load", "insert"} => ~found[r]
    /\ \A r \in Reqs : pc[r] \in {"journal", "store"} =>
          /\ found[r] => call[r].user \in rows
          /\ call[r].user \notin damaged => found[r]

Change(r) == IF call[r].op = "add" THEN call[r].amount ELSE -call[r].amount

Books ==
    \A u \in Users \ damaged :
        /\ Pay!Settled(u) => balance[u] = credit[u] - debit[u]
        /\ \A r \in Reqs :
              pc[r] = "store" /\ call[r].user = u =>
                  balance[u] + Change(r) = credit[u] - debit[u]

IInv == PartsInv /\ OneCallPerUser /\ Current /\ Rows /\ Books
-----------------------------------------------------------------------------
LEMMA Assumptions == GateProof!LimiterAssumption /\ PayProof!WalletAssumption
BY PartsAssumption DEF Gate!LimiterAssumption, GateProof!LimiterAssumption,
   Pay!WalletAssumption, PayProof!WalletAssumption

LEMMA GateSame == [Gate!Next]_gateVars => [GateProof!Next]_(GateProof!vars)
BY DEF gateVars, GateProof!vars, GateProof!clientVars, GateProof!bucketVars,
   Gate!Next, Gate!Arrive, Gate!Admit, Gate!Reject, Gate!Leave, Gate!Tick,
   Gate!Restart, Gate!Free, Gate!Expired, Gate!HasToken, Gate!Tokens, Gate!Age,
   Gate!Unlock,
   GateProof!Next, GateProof!Arrive, GateProof!Admit, GateProof!Reject,
   GateProof!Leave, GateProof!Tick, GateProof!Restart, GateProof!Free,
   GateProof!Expired, GateProof!HasToken, GateProof!Tokens, GateProof!Age,
   GateProof!Unlock

LEMMA PaySame == [Pay!Next]_payVars => [PayProof!Next]_(PayProof!vars)
BY DEF payVars, PayProof!vars, PayProof!tables, PayProof!locals, Pay!tables,
   Pay!Calls, Pay!Ops, Pay!AnyCall, Pay!User, Pay!Op, Pay!Amount, Pay!Goto,
   Pay!AfterLoad, Pay!Read, Pay!Sufficient, Pay!Entry, Pay!Stored, Pay!Returned,
   Pay!Fail, Pay!Next, Pay!Statement, Pay!Receive, Pay!FindOrMiss, Pay!InsertRow,
   Pay!LoadForWithdraw, Pay!Journal, Pay!Store, Pay!Respond,
   Pay!FindOrCreateFails, Pay!LoadForWithdrawFails, Pay!JournalFails,
   Pay!StoreFails, Pay!Crash,
   PayProof!Calls, PayProof!Ops, PayProof!AnyCall, PayProof!User, PayProof!Op,
   PayProof!Amount, PayProof!Goto, PayProof!AfterLoad, PayProof!Read,
   PayProof!Sufficient, PayProof!Entry, PayProof!Stored, PayProof!Returned,
   PayProof!Fail, PayProof!Next, PayProof!Statement, PayProof!Receive,
   PayProof!FindOrMiss, PayProof!InsertRow, PayProof!LoadForWithdraw,
   PayProof!Journal, PayProof!Store, PayProof!Respond,
   PayProof!FindOrCreateFails, PayProof!LoadForWithdrawFails,
   PayProof!JournalFails, PayProof!StoreFails, PayProof!Crash

(* Every step of the server is a step of each part, or leaves it alone.    *)
LEMMA Parts == [Next]_vars => [Gate!Next]_gateVars /\ [Pay!Next]_payVars
<1> SUFFICES ASSUME [Next]_vars
             PROVE  [Gate!Next]_gateVars /\ [Pay!Next]_payVars
    OBVIOUS
<1>1. ASSUME NEW r \in Reqs, NEW i \in IPs, Arrive(r, i)
      PROVE  Gate!Next /\ UNCHANGED payVars
    BY <1>1 DEF Arrive, Gate!Next
<1>2. ASSUME NEW r \in Reqs, NEW c \in Pay!Calls, Dispatch(r, c)
      PROVE  Gate!Next /\ Pay!Next
    BY <1>2 DEF Dispatch, Gate!Next, Pay!Next
<1>3. ASSUME NEW r \in Reqs, Refuse(r) PROVE Gate!Next /\ UNCHANGED payVars
    BY <1>3 DEF Refuse, Gate!Next
<1>4. ASSUME NEW r \in Reqs, Run(r) PROVE UNCHANGED gateVars /\ Pay!Next
    BY <1>4 DEF Run, Pay!Next
<1>5. ASSUME NEW r \in Reqs, Reply(r) PROVE Gate!Next /\ Pay!Next
    BY <1>5 DEF Reply, Gate!Next, Pay!Next
<1>6. ASSUME Tick PROVE Gate!Next /\ UNCHANGED payVars
    BY <1>6 DEF Tick, Gate!Next
<1>7. ASSUME Restart PROVE Gate!Next /\ Pay!Next
    BY <1>7 DEF Restart, Gate!Next, Pay!Next
<1>8. CASE UNCHANGED vars
    BY <1>8 DEF vars
<1> QED
    BY <1>1, <1>2, <1>3, <1>4, <1>5, <1>6, <1>7, <1>8 DEF Next

LEMMA PartsInit == Init => PartsInv
<1> SUFFICES ASSUME Init PROVE PartsInv
    OBVIOUS
<1>1. GateProof!Init
    BY DEF Init, Gate!Init, GateProof!Init
<1>2. PayProof!Init
    BY DEF Init, Pay!Init, PayProof!Init, Pay!AnyCall, PayProof!AnyCall, Pay!Calls,
       PayProof!Calls, Pay!Ops, PayProof!Ops
<1>3. Linked
    BY DEF Init, Gate!Init, Pay!Init, Linked, InCall
<1> QED
    BY <1>1, <1>2, <1>3, Assumptions, GateProof!InitInv, PayProof!InitInv
    DEF PartsInv, PayProof!BInv

(* The types that the proofs below use.                                    *)
LEMMA Types ==
    ASSUME PartsInv
    PROVE  /\ phase \in [Reqs -> {"idle", "waiting", "serving"}]
           /\ ip \in [Reqs -> IPs]
           /\ pc \in [Reqs -> {"idle", "load", "insert", "journal", "store", "reply"}]
           /\ call \in [Reqs -> Pay!Calls]
           /\ mem \in [Reqs -> Int]
           /\ found \in [Reqs -> BOOLEAN]
           /\ rows \subseteq Users
           /\ damaged \subseteq Users
           /\ balance \in [Users -> Int]
           /\ credit \in [Users -> Nat]
           /\ debit \in [Users -> Nat]
           /\ \A r \in Reqs : /\ call[r].user \in Users
                               /\ call[r].op \in {"get", "add", "withdraw"}
                               /\ call[r].amount \in Nat \ {0}
<1>1. \A c \in Pay!Calls : /\ c.user \in Users
                            /\ c.op \in {"get", "add", "withdraw"}
                            /\ c.amount \in Nat \ {0}
    BY PartsAssumption DEF Pay!WalletAssumption, Pay!Calls, Pay!Ops
<1> QED
    BY <1>1 DEF PartsInv, GateProof!IInv, GateProof!TypeOK, GateProof!Phases,
       PayProof!IInv, PayProof!TypeOK, PayProof!Steps, PayProof!Calls, PayProof!Ops,
       Pay!Calls, Pay!Ops

(* What the wallet's own invariant says of a balance in memory.            *)
LEMMA Reads ==
    ASSUME PartsInv, NEW r \in Reqs
    PROVE  /\ pc[r] = "insert" => mem[r] = 0 /\ call[r].op # "withdraw"
           /\ pc[r] \in {"journal", "store"} =>
                 /\ call[r].op # "get"
                 /\ call[r].op = "withdraw" => mem[r] >= call[r].amount
BY DEF PartsInv, PayProof!IInv, PayProof!ReadOK, PayProof!Op, PayProof!Amount

LEMMA PartsStep == PartsInv /\ [Next]_vars => PartsInv'
<1> SUFFICES ASSUME PartsInv, [Next]_vars PROVE PartsInv'
    OBVIOUS
<1>1. GateProof!IInv' /\ PayProof!IInv'
    BY Parts, GateSame, PaySame, Assumptions, GateProof!InvStep, PayProof!InvStep
    DEF PartsInv
<1>2. Linked'
    <2> USE Types DEF PartsInv, Linked, InCall
    <2>1. ASSUME NEW r \in Reqs, NEW i \in IPs, Arrive(r, i) PROVE Linked'
        BY <2>1 DEF Arrive, Gate!Arrive, payVars
    <2>2. ASSUME NEW r \in Reqs, NEW c \in Pay!Calls, Dispatch(r, c) PROVE Linked'
        BY <2>2 DEF Dispatch, Gate!Admit, Pay!Receive, Pay!Goto
    <2>3. ASSUME NEW r \in Reqs, Refuse(r) PROVE Linked'
        BY <2>3 DEF Refuse, Gate!Reject, payVars
    <2>4. ASSUME NEW r \in Reqs, Run(r) PROVE Linked'
        <3>1. \E step \in {"insert", "journal", "store", "reply"} :
                 pc[r] # "idle" /\ pc' = [pc EXCEPT ![r] = step]
            BY <2>4 DEF Run, Pay!Statement, Pay!FindOrMiss, Pay!InsertRow,
               Pay!LoadForWithdraw, Pay!Journal, Pay!Store, Pay!FindOrCreateFails,
               Pay!LoadForWithdrawFails, Pay!JournalFails, Pay!StoreFails, Pay!Goto,
               Pay!AfterLoad
        <3>2. UNCHANGED call
            BY <2>4 DEF Run, Pay!Statement, Pay!FindOrMiss, Pay!InsertRow,
               Pay!LoadForWithdraw, Pay!Journal, Pay!Store, Pay!FindOrCreateFails,
               Pay!LoadForWithdrawFails, Pay!JournalFails, Pay!StoreFails
        <3> QED
            BY <2>4, <3>1, <3>2 DEF Run, gateVars
    <2>5. ASSUME NEW r \in Reqs, Reply(r) PROVE Linked'
        BY <2>5 DEF Reply, Pay!Respond, Gate!Leave, Pay!Goto
    <2>6. ASSUME Tick PROVE Linked'
        BY <2>6 DEF Tick, Gate!Tick, payVars
    <2>7. ASSUME Restart PROVE Linked'
        BY <2>7 DEF Restart, Gate!Restart, Pay!Crash
    <2>8. CASE UNCHANGED vars
        BY <2>8 DEF vars, gateVars, payVars
    <2> QED
        BY <2>1, <2>2, <2>3, <2>4, <2>5, <2>6, <2>7, <2>8 DEF Next
<1> QED
    BY <1>1, <1>2 DEF PartsInv

(* Two calls of a user come from one address, so one lock admits them, and *)
(* that lock has one holder.                                               *)
LEMMA Exclusion == SingleAddress /\ PartsInv => OneCallPerUser
<1> SUFFICES ASSUME SingleAddress, PartsInv PROVE OneCallPerUser
    OBVIOUS
<1>1. GateProof!OneServedPerIP
    BY GateProof!OwnersExclude, Assumptions DEF PartsInv
<1> QED
    BY <1>1, Types DEF PartsInv, Linked, OneCallPerUser, SingleAddress,
       GateProof!OneServedPerIP

LEMMA InitInv == SingleAddress /\ Init => IInv
<1> SUFFICES ASSUME SingleAddress, Init PROVE IInv
    OBVIOUS
<1>1. PartsInv
    BY PartsInit
<1>2. Current /\ Rows /\ Books
    BY DEF Init, Pay!Init, Current, Rows, Books
<1> QED
    BY <1>1, <1>2, Exclusion DEF IInv

LEMMA InvStep == SingleAddress /\ IInv /\ [Next]_vars => IInv'
<1> DEFINE Goal == (Current /\ Rows /\ Books)'
<1> SUFFICES ASSUME SingleAddress, IInv, [Next]_vars PROVE IInv'
    OBVIOUS
<1>1. PartsInv /\ PartsInv'
    BY PartsStep DEF IInv
<1>2. OneCallPerUser'
    BY <1>1, Exclusion, PTL
<1> USE <1>1, Types, Reads
    DEF IInv, OneCallPerUser, InCall, Current, Rows, Books, Change, Pay!Settled,
        Pay!User, Pay!Op, Pay!Amount, Pay!Goto, Pay!tables, Pay!AfterLoad
<1>3. ASSUME UNCHANGED payVars PROVE Goal
    BY <1>3 DEF payVars
<1>4. ASSUME NEW r \in Reqs, NEW c \in Pay!Calls, Dispatch(r, c) PROVE Goal
    BY <1>4 DEF Dispatch, Pay!Receive
<1>5. ASSUME NEW r \in Reqs, Pay!FindOrMiss(r) PROVE Goal
    BY <1>5 DEF Pay!FindOrMiss, Pay!Read
<1>6. ASSUME NEW r \in Reqs, Pay!InsertRow(r) PROVE Goal
    <2>1. Current'
        BY <1>6 DEF Pay!InsertRow
    <2>2. Rows'
        BY <1>6 DEF Pay!InsertRow
    <2>3. Books'
        BY <1>6 DEF Pay!InsertRow
    <2> QED
        BY <2>1, <2>2, <2>3
<1>7. ASSUME NEW r \in Reqs, Pay!LoadForWithdraw(r) PROVE Goal
    BY <1>7 DEF Pay!LoadForWithdraw, Pay!Read
<1>8. ASSUME NEW r \in Reqs, Pay!Journal(r) PROVE Goal
    <2>1. Current'
        BY <1>8 DEF Pay!Journal, Pay!Entry
    <2>2. Rows'
        BY <1>8 DEF Pay!Journal, Pay!Entry
    <2>3. Books'
        BY <1>8 DEF Pay!Journal, Pay!Entry
    <2> QED
        BY <2>1, <2>2, <2>3
<1>9. ASSUME NEW r \in Reqs, Pay!Store(r) PROVE Goal
    <2>1. Current'
        BY <1>9 DEF Pay!Store, Pay!Stored
    <2>2. Rows'
        BY <1>9 DEF Pay!Store, Pay!Stored
    <2>3. Books'
        BY <1>9 DEF Pay!Store, Pay!Stored
    <2> QED
        BY <2>1, <2>2, <2>3
<1>10. ASSUME NEW r \in Reqs, Pay!FindOrCreateFails(r) PROVE Goal
    BY <1>10 DEF Pay!FindOrCreateFails
<1>11. ASSUME NEW r \in Reqs, Pay!LoadForWithdrawFails(r) PROVE Goal
    BY <1>11 DEF Pay!LoadForWithdrawFails
<1>12. ASSUME NEW r \in Reqs, Pay!JournalFails(r) PROVE Goal
    BY <1>12 DEF Pay!JournalFails
<1>13. ASSUME NEW r \in Reqs, Pay!StoreFails(r) PROVE Goal
    BY <1>13 DEF Pay!StoreFails
<1>14. ASSUME NEW r \in Reqs, Reply(r) PROVE Goal
    BY <1>14 DEF Reply, Pay!Respond
<1>15. ASSUME Restart PROVE Goal
    BY <1>15 DEF Restart, Pay!Crash
<1>16. Goal
    BY <1>3, <1>4, <1>5, <1>6, <1>7, <1>8, <1>9, <1>10, <1>11, <1>12, <1>13,
       <1>14, <1>15
    DEF Next, vars, Arrive, Refuse, Run, Tick, Pay!Statement
<1> QED
    BY <1>1, <1>2, <1>16

(* A store moves the balance of the row by the amount of the call, and by  *)
(* a withdrawal only if the row covers it; no other step moves a balance.  *)
LEMMA AccountStep == IInv /\ [Next]_vars => [Abstract!Next]_balance
<1> SUFFICES ASSUME IInv, [Next]_vars, balance' # balance PROVE Abstract!Next
    OBVIOUS
<1>1. PartsInv
    BY DEF IInv
<1>2. PICK r \in Reqs : Pay!Store(r)
    BY DEF Next, vars, payVars, Arrive, Dispatch, Refuse, Run, Reply, Tick, Restart,
       Pay!tables, Pay!Receive, Pay!Respond, Pay!Crash, Pay!Statement,
       Pay!FindOrMiss, Pay!InsertRow, Pay!LoadForWithdraw, Pay!Journal,
       Pay!FindOrCreateFails, Pay!LoadForWithdrawFails, Pay!JournalFails,
       Pay!StoreFails
<1> DEFINE u == call[r].user
           a == call[r].amount
<1>3. /\ u \in Users
      /\ a \in Amounts
      /\ mem[r] = balance[u]
      /\ balance' = [balance EXCEPT ![u] = Pay!Stored(r)]
    BY <1>1, <1>2, Types DEF Pay!Store, IInv, Current, Pay!User, Pay!Calls
<1>4. CASE call[r].op = "add"
    BY <1>3, <1>4 DEF Pay!Stored, Pay!Op, Pay!Amount, Abstract!Next, Abstract!Deposit
<1>5. CASE call[r].op = "withdraw"
    <2>1. balance[u] >= a
        BY <1>1, <1>2, <1>3, <1>5, Reads DEF Pay!Store
    <2> QED
        BY <1>3, <1>5, <2>1
        DEF Pay!Stored, Pay!Op, Pay!Amount, Abstract!Next, Abstract!Withdraw
<1> QED
    BY <1>1, <1>2, <1>4, <1>5, Types, Reads DEF Pay!Store

(* With one address per user, the limiter's lock keeps the calls of a user *)
(* from overlapping (rate_limiter.go:38-55).                               *)
THEOREM CallsSerialised ==
    ASSUME SingleAddress
    PROVE  Spec => []OneCallPerUser
<1>1. Init => IInv
    BY InitInv
<1>2. IInv /\ [Next]_vars => IInv'
    BY InvStep
<1>3. IInv => OneCallPerUser
    BY DEF IInv
<1> QED
    BY <1>1, <1>2, <1>3, PTL DEF Spec

(* With one address per user, the books of every undamaged user balance    *)
(* between calls (payment_service.go:19-63).                               *)
THEOREM BooksKept ==
    ASSUME SingleAddress
    PROVE  Spec => []BooksBalance
<1>1. Init => IInv
    BY InitInv
<1>2. IInv /\ [Next]_vars => IInv'
    BY InvStep
<1>3. IInv => BooksBalance
    BY DEF IInv, Books, BooksBalance, Pay!BooksBalance
<1> QED
    BY <1>1, <1>2, <1>3, PTL DEF Spec

(* A wallet of u and its transactions differ by at most n.                 *)
Within(u, n) == -n <= Pay!Gap(u) /\ Pay!Gap(u) <= n

(* The same, once the call has written what it is about to write.          *)
WillBeWithin(r, n) ==
    LET gap == IF found[r] THEN Pay!Gap(call[r].user) + Change(r)
                           ELSE Pay!Gap(call[r].user)
    IN  -n <= gap /\ gap <= n

(* cost is the amount m once for each failure.  A call that goes on        *)
(* without a row has paid for its failure before it does the damage.       *)
Damage(cost, m) ==
    /\ \A u \in Users : Pay!Settled(u) => Within(u, cost)
    /\ \A r \in Reqs :
          /\ pc[r] = "journal" /\ ~found[r] => Within(call[r].user, cost - m)
          /\ pc[r] = "store" => WillBeWithin(r, cost)

(* What the failures of a step add to the cost.                            *)
LEMMA CostStep ==
    ASSUME PartsInv, NEW m \in Nat, [Next]_vars
    PROVE  /\ failures * m \in Nat
           /\ (failures * m)' \in {failures * m, failures * m + m}
           /\ failures' # failures => (failures * m)' = failures * m + m
<1>1. failures \in Nat
    BY PartsAssumption DEF PartsInv, PayProof!IInv, PayProof!TypeOK, Pay!WalletAssumption
<1>2. failures' \in {failures, failures + 1}
    BY Parts DEF payVars, Pay!tables, Pay!Next, Pay!Statement, Pay!Fail, Pay!Receive,
       Pay!FindOrMiss, Pay!InsertRow, Pay!LoadForWithdraw, Pay!Journal, Pay!Store,
       Pay!Respond, Pay!FindOrCreateFails, Pay!LoadForWithdrawFails,
       Pay!JournalFails, Pay!StoreFails, Pay!Crash
<1>3. \A n \in Nat : n * m \in Nat /\ (n + 1) * m = n * m + m
    OBVIOUS
<1> QED
    BY <1>1, <1>2, <1>3

LEMMA DamageStep ==
    ASSUME IInv, IInv', [Next]_vars, NEW m \in Nat, \A a \in Amounts : a <= m,
           NEW cost \in Int, Damage(cost, m), NEW next \in {cost, cost + m},
           failures' # failures => next = cost + m
    PROVE  Damage(next, m)'
<1>1. PartsInv /\ PartsInv'
    BY DEF IInv
<1>2. \A r \in Reqs : call[r].amount \in 1 .. m
    <2>1. \A r \in Reqs : call[r].amount \in Amounts
        BY <1>1, Types DEF Pay!Calls
    <2> QED
        BY <1>1, <2>1, Types
<1> USE <1>1, <1>2, Types, Reads
    DEF IInv, OneCallPerUser, InCall, Current, Rows, Change, Pay!Settled, Damage,
        Within, WillBeWithin, Pay!Gap, Pay!User, Pay!Op, Pay!Amount, Pay!Goto,
        Pay!tables, Pay!AfterLoad, Pay!Fail
<1>3. ASSUME UNCHANGED payVars PROVE Damage(next, m)'
    BY <1>3 DEF payVars
<1>4. ASSUME NEW r \in Reqs, NEW c \in Pay!Calls, Dispatch(r, c) PROVE Damage(next, m)'
    BY <1>4 DEF Dispatch, Pay!Receive
<1>5. ASSUME NEW r \in Reqs, Pay!FindOrMiss(r) PROVE Damage(next, m)'
    BY <1>5 DEF Pay!FindOrMiss, Pay!Read
<1>6. ASSUME NEW r \in Reqs, Pay!InsertRow(r) PROVE Damage(next, m)'
    <2>1. \A u \in Users : Pay!Settled(u)' => Within(u, next)'
        BY <1>6 DEF Pay!InsertRow
    <2>2. ASSUME NEW s \in Reqs, pc'[s] = "journal", ~found'[s]
          PROVE  Within(call[s].user, next - m)'
        <3>1. s # r
            BY ZenonT(60), <1>6, <2>2 DEF Pay!InsertRow
        <3>2. /\ pc[s] = "journal" /\ ~found[s]
              /\ Within(call[s].user, cost - m)
              /\ UNCHANGED <<balance, credit, debit, call>>
            BY <1>6, <2>2, <3>1 DEF Pay!InsertRow
        <3> QED
            BY <3>2
    <2>3. \A s \in Reqs : pc'[s] = "store" => WillBeWithin(s, next)'
        BY <1>6 DEF Pay!InsertRow
    <2> QED
        BY <2>1, <2>2, <2>3
<1>7. ASSUME NEW r \in Reqs, Pay!LoadForWithdraw(r) PROVE Damage(next, m)'
    BY <1>7 DEF Pay!LoadForWithdraw, Pay!Read
<1>8. ASSUME NEW r \in Reqs, Pay!Journal(r) PROVE Damage(next, m)'
    BY <1>8 DEF Pay!Journal, Pay!Entry
<1>9. ASSUME NEW r \in Reqs, Pay!Store(r) PROVE Damage(next, m)'
    BY <1>9 DEF Pay!Store, Pay!Stored
<1>10. ASSUME NEW r \in Reqs, Pay!FindOrCreateFails(r) PROVE Damage(next, m)'
    BY <1>10 DEF Pay!FindOrCreateFails
<1>11. ASSUME NEW r \in Reqs, Pay!LoadForWithdrawFails(r) PROVE Damage(next, m)'
    BY <1>11 DEF Pay!LoadForWithdrawFails
<1>12. ASSUME NEW r \in Reqs, Pay!JournalFails(r) PROVE Damage(next, m)'
    BY <1>12 DEF Pay!JournalFails
<1>13. ASSUME NEW r \in Reqs, Pay!StoreFails(r) PROVE Damage(next, m)'
    <2> USE <1>13 DEF Pay!StoreFails
    <2>1. next = cost + m /\ Pay!Gap(call[r].user) \in Int /\ Change(r) \in -m .. m
        OBVIOUS
    <2>2. Within(call[r].user, next)'
        BY <2>1
    <2>3. \A u \in Users : Pay!Settled(u)' => Within(u, next)'
        BY <2>1, <2>2
    <2>4. \A s \in Reqs : pc'[s] = "journal" /\ ~found'[s] =>
                             Within(call[s].user, next - m)'
        BY <2>1
    <2>5. \A s \in Reqs : pc'[s] = "store" => WillBeWithin(s, next)'
        BY <2>1
    <2> QED
        BY <2>3, <2>4, <2>5
<1>14. ASSUME NEW r \in Reqs, Reply(r) PROVE Damage(next, m)'
    BY <1>14 DEF Reply, Pay!Respond
<1>15. ASSUME Restart PROVE Damage(next, m)'
    BY <1>15 DEF Restart, Pay!Crash
<1> QED
    BY <1>3, <1>4, <1>5, <1>6, <1>7, <1>8, <1>9, <1>10, <1>11, <1>12, <1>13,
       <1>14, <1>15
    DEF Next, vars, Arrive, Refuse, Run, Tick, Pay!Statement

(* With one address per user, each failed statement and each restart puts  *)
(* a wallet and its transactions apart by no more than the amount of one   *)
(* call (payment_service.go:31-32, 59-60).                                 *)
THEOREM FailuresCostOneCall ==
    ASSUME SingleAddress, NEW m \in Amounts, \A a \in Amounts : a <= m
    PROVE  Spec => []OneAmountPerFailure
<1>1. m \in Nat
    BY PartsAssumption DEF Pay!WalletAssumption
<1>2. Init => IInv /\ Damage(failures * m, m)
    <2> SUFFICES ASSUME Init PROVE Damage(failures * m, m)
        BY InitInv
    <2>1. failures = 0 /\ 0 * m = 0
        BY <1>1 DEF Init, Pay!Init
    <2> QED
        BY <2>1 DEF Init, Pay!Init, Damage, Within, Pay!Gap
<1>3. IInv /\ Damage(failures * m, m) /\ [Next]_vars =>
        IInv' /\ Damage(failures * m, m)'
    <2> SUFFICES ASSUME IInv, Damage(failures * m, m), [Next]_vars
                 PROVE  IInv' /\ Damage(failures * m, m)'
        OBVIOUS
    <2>1. IInv'
        BY InvStep
    <2>2. PICK cost \in Int, next \in Int :
            /\ next \in {cost, cost + m}
            /\ cost = failures * m /\ next = (failures * m)'
            /\ failures' # failures => next = cost + m
        BY <1>1, CostStep DEF IInv
    <2>3. Damage(next, m)'
        BY <1>1, <2>1, <2>2, DamageStep
    <2> QED
        BY <2>1, <2>2, <2>3 DEF Damage, Within, WillBeWithin
<1>4. IInv /\ Damage(failures * m, m) => OneAmountPerFailure
    <2> SUFFICES ASSUME IInv, Damage(failures * m, m), NEW u \in Users, Pay!Settled(u)
                 PROVE  Pay!Gap(u) \in -(failures * m) .. failures * m
        BY DEF OneAmountPerFailure, Pay!OneAmountPerFailure
    <2>1. PartsInv /\ failures \in Nat
        BY PartsAssumption
        DEF IInv, PartsInv, PayProof!IInv, PayProof!TypeOK, Pay!WalletAssumption
    <2>2. failures * m \in Int /\ Pay!Gap(u) \in Int
        BY <1>1, <2>1, Types DEF Pay!Gap
    <2> QED
        BY <2>2 DEF Damage, Within
<1> QED
    BY <1>2, <1>3, <1>4, PTL DEF Spec

(* With one address per user the balances implement the atomic Account:    *)
(* each change of a balance is one whole deposit or withdrawal, and none   *)
(* writes back a stale balance (payment_service.go:32, 60).                *)
THEOREM Atomic ==
    ASSUME SingleAddress
    PROVE  Spec => AccountSpec
<1>1. Init => IInv /\ Abstract!Init
    BY InitInv DEF Init, Pay!Init, Abstract!Init
<1>2. IInv /\ [Next]_vars => IInv' /\ [Abstract!Next]_balance
    BY InvStep, AccountStep
<1> QED
    BY <1>1, <1>2, PTL DEF Spec, AccountSpec, Abstract!Spec
=============================================================================
