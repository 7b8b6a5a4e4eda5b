----------------------------- MODULE WalletProofs -----------------------------
(***************************************************************************)
(* Safety of the wallet with any number of users, goroutines and calls, in *)
(* every interleaving of their statements and with any failures.           *)
(*                                                                         *)
(* Neither property is inductive: what a call will store was computed from *)
(* a balance it read earlier.  ReadOK records what stays true of such a    *)
(* read (a withdrawal read enough), and ReadBacked, until something fails, *)
(* that the credits already journaled cover it.                            *)
(***************************************************************************)
EXTENDS Wallet, TLAPS

ReadOK ==
    \A r \in Reqs :
        /\ pc[r] \in {"idle", "load", "insert"} => mem[r] = 0
        /\ pc[r] = "insert" => Op(r) # "withdraw"
        /\ pc[r] \in {"journal", "store"} =>
              /\ Op(r) # "get"
              /\ mem[r] >= 0
              /\ Op(r) = "withdraw" => mem[r] >= Amount(r)

ReadBacked ==
    failures = 0 =>
        \A r \in Reqs :
            /\ pc[r] \in {"journal", "store"} => mem[r] <= credit[User(r)]
            /\ pc[r] = "store" /\ Op(r) = "add" =>
                  mem[r] + Amount(r) <= credit[User(r)]

IInv == TypeOK /\ NeverNegative /\ ReadOK

BInv == IInv /\ Backed /\ ReadBacked

LEMMA SomeCall == AnyCall \in Calls
<1>1. \E u \in Users, a \in Amounts : [user |-> u, op |-> "get", amount |-> a] \in Calls
    BY WalletAssumption DEF Calls, Ops
<1> QED
    BY <1>1 DEF AnyCall

LEMMA CallFields ==
    ASSUME NEW c \in Calls
    PROVE  c.user \in Users /\ c.op \in Ops /\ c.amount \in Nat \ {0}
BY WalletAssumption DEF Calls

LEMMA InitInv == Init => BInv
BY SomeCall, WalletAssumption
DEF Init, BInv, IInv, TypeOK, NeverNegative, ReadOK, Backed, ReadBacked, Steps, Op

(* Loading a row, or not, keeps the types of the locals.                   *)
LEMMA ReadTypes ==
    ASSUME TypeOK, NEW r \in Reqs, Read(r) \/ UNCHANGED <<mem, found>>
    PROVE  mem' \in [Reqs -> Int] /\ found' \in [Reqs -> BOOLEAN]
<1>1. User(r) \in Users
    BY CallFields DEF TypeOK, User
<1>2. CASE Read(r)
    BY <1>1, <1>2 DEF Read, TypeOK
<1>3. CASE UNCHANGED <<mem, found>>
    BY <1>3 DEF TypeOK
<1> QED
    BY <1>2, <1>3

(* Every variable keeps its type.                                          *)
LEMMA TypeStep == TypeOK /\ [Next]_vars => TypeOK'
<1> SUFFICES ASSUME TypeOK, [Next]_vars PROVE TypeOK'
    OBVIOUS
<1> USE WalletAssumption, SomeCall, CallFields
    DEF TypeOK, Steps, Ops, Goto, User, Op, Amount, tables, AfterLoad, Fail
<1>1. ASSUME NEW r \in Reqs, NEW c \in Calls, Receive(r, c) PROVE TypeOK'
    BY <1>1 DEF Receive
<1>2. ASSUME NEW r \in Reqs, FindOrMiss(r) PROVE TypeOK'
    <2>1. mem' \in [Reqs -> Int] /\ found' \in [Reqs -> BOOLEAN]
        BY <1>2, ReadTypes DEF FindOrMiss
    <2>2. pc' \in [Reqs -> Steps]
        BY <1>2 DEF FindOrMiss
    <2> QED
        BY <1>2, <2>1, <2>2 DEF FindOrMiss
<1>3. ASSUME NEW r \in Reqs, InsertRow(r) PROVE TypeOK'
    BY <1>3 DEF InsertRow
<1>4. ASSUME NEW r \in Reqs, LoadForWithdraw(r) PROVE TypeOK'
    <2>1. mem' \in [Reqs -> Int] /\ found' \in [Reqs -> BOOLEAN]
        BY <1>4, ReadTypes DEF LoadForWithdraw
    <2>2. pc' \in [Reqs -> Steps]
        BY <1>4 DEF LoadForWithdraw
    <2> QED
        BY <1>4, <2>1, <2>2 DEF LoadForWithdraw
<1>5. ASSUME NEW r \in Reqs, Journal(r) PROVE TypeOK'
    BY <1>5 DEF Journal, Entry
<1>6. ASSUME NEW r \in Reqs, Store(r) PROVE TypeOK'
    BY <1>6 DEF Store, Stored, Returned
<1>7. ASSUME NEW r \in Reqs, Respond(r) PROVE TypeOK'
    BY <1>7 DEF Respond
<1>8. ASSUME NEW r \in Reqs, FindOrCreateFails(r) PROVE TypeOK'
    BY <1>8 DEF FindOrCreateFails
<1>9. ASSUME NEW r \in Reqs, LoadForWithdrawFails(r) PROVE TypeOK'
    BY <1>9 DEF LoadForWithdrawFails
<1>10. ASSUME NEW r \in Reqs, JournalFails(r) PROVE TypeOK'
    BY <1>10 DEF JournalFails
<1>11. ASSUME NEW r \in Reqs, StoreFails(r) PROVE TypeOK'
    BY <1>11 DEF StoreFails, Returned
<1>12. ASSUME Crash PROVE TypeOK'
    BY <1>12 DEF Crash
<1>13. CASE UNCHANGED vars
    BY <1>13 DEF vars, locals
<1> QED
    BY <1>1, <1>2, <1>3, <1>4, <1>5, <1>6, <1>7, <1>8, <1>9, <1>10, <1>11,
       <1>12, <1>13 DEF Next, Statement

LEMMA InvStep == IInv /\ [Next]_vars => IInv'
<1> DEFINE Goal == (NeverNegative /\ ReadOK)'
<1> SUFFICES ASSUME IInv, [Next]_vars PROVE Goal
    BY TypeStep DEF IInv
<1> USE WalletAssumption, SomeCall, CallFields
    DEF IInv, TypeOK, NeverNegative, ReadOK, Steps, Ops, Goto, User, Op, Amount,
        tables, AfterLoad, Fail
<1>1. ASSUME NEW r \in Reqs, NEW c \in Calls, Receive(r, c) PROVE Goal
    BY <1>1 DEF Receive
<1>2. ASSUME NEW r \in Reqs, FindOrMiss(r) PROVE Goal
    BY <1>2 DEF FindOrMiss, Read
<1>3. ASSUME NEW r \in Reqs, InsertRow(r) PROVE Goal
    BY <1>3 DEF InsertRow
<1>4. ASSUME NEW r \in Reqs, LoadForWithdraw(r) PROVE Goal
    BY <1>4 DEF LoadForWithdraw, Read, Sufficient
<1>5. ASSUME NEW r \in Reqs, Journal(r) PROVE Goal
    BY <1>5 DEF Journal
<1>6. ASSUME NEW r \in Reqs, Store(r) PROVE Goal
    BY <1>6 DEF Store, Stored
<1>7. ASSUME NEW r \in Reqs, Respond(r) PROVE Goal
    BY <1>7 DEF Respond
<1>8. ASSUME NEW r \in Reqs, FindOrCreateFails(r) PROVE Goal
    BY <1>8 DEF FindOrCreateFails
<1>9. ASSUME NEW r \in Reqs, LoadForWithdrawFails(r) PROVE Goal
    BY <1>9 DEF LoadForWithdrawFails
<1>10. ASSUME NEW r \in Reqs, JournalFails(r) PROVE Goal
    BY <1>10 DEF JournalFails
<1>11. ASSUME NEW r \in Reqs, StoreFails(r) PROVE Goal
    BY <1>11 DEF StoreFails
<1>12. ASSUME Crash PROVE Goal
    BY <1>12 DEF Crash
<1>13. CASE UNCHANGED vars
    BY <1>13 DEF vars, locals
<1> QED
    BY <1>1, <1>2, <1>3, <1>4, <1>5, <1>6, <1>7, <1>8, <1>9, <1>10, <1>11,
       <1>12, <1>13 DEF Next, Statement

LEMMA BackedStep == BInv /\ [Next]_vars => BInv'
<1> DEFINE Goal == (Backed /\ ReadBacked)'
<1> SUFFICES ASSUME BInv, [Next]_vars PROVE Goal
    BY InvStep DEF BInv
<1> USE WalletAssumption, SomeCall, CallFields
    DEF BInv, IInv, TypeOK, NeverNegative, ReadOK, Backed, ReadBacked, Steps, Ops,
        Goto, User, Op, Amount, tables, AfterLoad
<1>1. ASSUME NEW r \in Reqs, NEW c \in Calls, Receive(r, c) PROVE Goal
    BY <1>1 DEF Receive
<1>2. ASSUME NEW r \in Reqs, FindOrMiss(r) PROVE Goal
    BY <1>2 DEF FindOrMiss, Read
<1>3. ASSUME NEW r \in Reqs, InsertRow(r) PROVE Goal
    BY <1>3 DEF InsertRow
<1>4. ASSUME NEW r \in Reqs, LoadForWithdraw(r) PROVE Goal
    BY <1>4 DEF LoadForWithdraw, Read
<1>5. ASSUME NEW r \in Reqs, Journal(r) PROVE Goal
    BY <1>5 DEF Journal, Entry
<1>6. ASSUME NEW r \in Reqs, Store(r) PROVE Goal
    BY <1>6 DEF Store, Stored
<1>7. ASSUME NEW r \in Reqs, Respond(r) PROVE Goal
    BY <1>7 DEF Respond
<1>8. CASE failures' # 0
    BY <1>8
<1>9. ASSUME Fail PROVE failures' # 0
    BY <1>9 DEF Fail
<1>10. CASE UNCHANGED vars
    BY <1>10 DEF vars, locals
<1> QED
    BY <1>1, <1>2, <1>3, <1>4, <1>5, <1>6, <1>7, <1>8, <1>9, <1>10
    DEF Next, Statement, FindOrCreateFails, LoadForWithdrawFails, JournalFails,
        StoreFails, Crash

(* The tables and the locals of the calls keep their types.                *)
THEOREM TypeCorrect == Spec => []TypeOK
<1>1. Init => TypeOK
    BY InitInv DEF BInv, IInv
<1> QED
    BY <1>1, TypeStep, PTL DEF Spec

(* No interleaving and no failure drives a balance below zero              *)
(* (payment_service.go:43-63).                                             *)
THEOREM Solvent == Spec => []NeverNegative
<1>1. Init => IInv
    BY InitInv DEF BInv
<1>2. IInv => NeverNegative
    BY DEF IInv
<1> QED
    BY <1>1, <1>2, InvStep, PTL DEF Spec

(* Until something fails, every balance is covered by journaled credits,   *)
(* however many updates are lost (payment_service.go:31-32).               *)
THEOREM NothingMinted == Spec => []Backed
<1>1. BInv => Backed
    BY DEF BInv
<1> QED
    BY <1>1, InitInv, BackedStep, PTL DEF Spec
=============================================================================
