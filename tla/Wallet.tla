-------------------------------- MODULE Wallet --------------------------------
(***************************************************************************)
(* The wallet of backend/internal/payments/payment_service.go: GetBalance, *)
(* AddMoney and Withdraw over the tables wallet_balances and transactions. *)
(*                                                                         *)
(* No call opens a database transaction.  A call is a sequence of SQL      *)
(* statements, each of which is one action here, and the calls of          *)
(* different goroutines interleave between statements.  The balance is     *)
(* read into memory by the first statement and written back, changed, by   *)
(* the last one.  Errors of most statements are ignored by the code, so    *)
(* each statement also has an action in which it fails, and the process    *)
(* may die between two statements.                                         *)
(*                                                                         *)
(* Amounts are whole units: rounding of float64 is not modelled.  The      *)
(* transactions table is abstracted to its totals by type.                 *)
(***************************************************************************)
EXTENDS Integers

CONSTANTS
    Users,
    Reqs,          \* request goroutines, each reused once it is idle again
    Amounts,       \* request amounts; the binding requires them positive
    MaxCalls,      \* bound: calls received in a behaviour
    MaxFailures    \* bound: failed statements and crashes in a behaviour

ASSUME WalletAssumption ==
    /\ Users # {}
    /\ Amounts \subseteq Nat \ {0}
    /\ Amounts # {}
    /\ MaxCalls \in Nat
    /\ MaxFailures \in Nat

VARIABLES
    rows,      \* users with a row in wallet_balances
    balance,   \* [Users -> Int], wallet_balances.balance; 0 with no row
    credit,    \* [Users -> Nat], sum of the user's credit transactions
    debit,     \* [Users -> Nat], sum of the user's debit transactions
    pc,        \* [Reqs -> Steps], the next statement of each goroutine
    call,      \* [Reqs -> Calls], what it was asked to do
    mem,       \* [Reqs -> Int], w.Balance; what the call returns at the end
    found,     \* [Reqs -> BOOLEAN], w.ID is set: w is a row of the table
    calls,     \* calls received so far
    failures,  \* statements failed and crashes so far
    damaged    \* history: users with a call that a failure cut short or
               \* made skip a write

tables == <<rows, balance, credit, debit>>
locals == <<pc, call, mem, found>>
vars   == <<tables, locals, calls, failures, damaged>>

Ops   == {"get", "add", "withdraw"}
Steps == {"idle", "load", "insert", "journal", "store", "reply"}
Calls == [user : Users, op : Ops, amount : Amounts]

(* An idle goroutine has no locals; they are given one fixed value.        *)
AnyCall == CHOOSE c \in Calls : TRUE

TypeOK ==
    /\ rows \subseteq Users
    /\ balance \in [Users -> Int]
    /\ credit \in [Users -> Nat]
    /\ debit \in [Users -> Nat]
    /\ pc \in [Reqs -> Steps]
    /\ call \in [Reqs -> Calls]
    /\ mem \in [Reqs -> Int]
    /\ found \in [Reqs -> BOOLEAN]
    /\ calls \in 0 .. MaxCalls
    /\ failures \in 0 .. MaxFailures
    /\ damaged \subseteq Users

Init ==
    /\ rows = {}
    /\ balance = [u \in Users |-> 0]
    /\ credit = [u \in Users |-> 0]
    /\ debit = [u \in Users |-> 0]
    /\ pc = [r \in Reqs |-> "idle"]
    /\ call = [r \in Reqs |-> AnyCall]
    /\ mem = [r \in Reqs |-> 0]
    /\ found = [r \in Reqs |-> FALSE]
    /\ calls = 0
    /\ failures = 0
    /\ damaged = {}

User(r)   == call[r].user
Op(r)     == call[r].op
Amount(r) == call[r].amount

Goto(r, step) == pc' = [pc EXCEPT ![r] = step]

-----------------------------------------------------------------------------
(* Plausible slips in the code below, each used by one mutant.             *)

SufficientAnyway(r)  == TRUE
StoredTwice(r)       == IF Op(r) = "add" THEN mem[r] + 2 * Amount(r)
                                         ELSE mem[r] - Amount(r)
StoredUnsigned(r)    == mem[r] + Amount(r)
EntrySigned(r)       == IF Op(r) = "add" THEN Amount(r) ELSE -Amount(r)
ReadWithoutID(r)     == /\ mem' = [mem EXCEPT ![r] = balance[User(r)]]
                        /\ UNCHANGED found
-----------------------------------------------------------------------------
Receive(r, c) ==
    /\ pc[r] = "idle"
    /\ calls < MaxCalls
    /\ calls' = calls + 1
    /\ call' = [call EXCEPT ![r] = c]
    /\ Goto(r, "load")
    /\ UNCHANGED <<tables, mem, found, failures, damaged>>

(* The step after the wallet is in memory: GetBalance returns it, AddMoney *)
(* goes on to journal the credit.                                          *)
AfterLoad(r) == IF Op(r) = "get" THEN "reply" ELSE "journal"

(* w becomes the row of the user.                                          *)
Read(r) ==
    /\ mem' = [mem EXCEPT ![r] = balance[User(r)]]
    /\ found' = [found EXCEPT ![r] = TRUE]

(* FirstOrCreate of GetBalance and AddMoney: the SELECT.                   *)
FindOrMiss(r) ==
    /\ pc[r] = "load"
    /\ Op(r) # "withdraw"
    /\ IF User(r) \in rows
       THEN Read(r) /\ Goto(r, AfterLoad(r))
       ELSE Goto(r, "insert") /\ UNCHANGED <<mem, found>>
    /\ UNCHANGED <<tables, call, calls, failures, damaged>>

(* FirstOrCreate: the INSERT after a miss.  If another call has inserted   *)
(* the row in the meantime the unique index refuses this one, the error is *)
(* dropped, and w stays a zero value without an ID.                        *)
InsertRow(r) ==
    /\ pc[r] = "insert"
    /\ rows' = rows \cup {User(r)}
    /\ found' = [found EXCEPT ![r] = User(r) \notin rows]
    /\ damaged' = IF User(r) \in rows /\ Op(r) = "add"
                  THEN damaged \cup {User(r)} ELSE damaged
    /\ Goto(r, AfterLoad(r))
    /\ UNCHANGED <<balance, credit, debit, call, mem, calls, failures>>

Sufficient(r) == balance[User(r)] >= Amount(r)

(* First and the balance test of Withdraw: "wallet not found",             *)
(* "insufficient balance", or on with the withdrawal.                      *)
LoadForWithdraw(r) ==
    /\ pc[r] = "load"
    /\ Op(r) = "withdraw"
    /\ IF User(r) \in rows
       THEN Read(r) /\ Goto(r, IF Sufficient(r) THEN "journal" ELSE "reply")
       ELSE Goto(r, "reply") /\ UNCHANGED <<mem, found>>
    /\ UNCHANGED <<tables, call, calls, failures, damaged>>

(* Transaction.Amount is unsigned; Type tells credits from debits.         *)
Entry(r) == Amount(r)

(* Create(&tx): a successful credit or a pending debit.                    *)
Journal(r) ==
    /\ pc[r] = "journal"
    /\ IF Op(r) = "add"
       THEN /\ credit' = [credit EXCEPT ![User(r)] = @ + Entry(r)]
            /\ UNCHANGED debit
       ELSE /\ debit' = [debit EXCEPT ![User(r)] = @ + Entry(r)]
            /\ UNCHANGED credit
    /\ Goto(r, "store")
    /\ UNCHANGED <<rows, balance, call, mem, found, calls, failures, damaged>>

(* The value that Update("balance", ...) writes.                           *)
Stored(r) == IF Op(r) = "add" THEN mem[r] + Amount(r) ELSE mem[r] - Amount(r)

(* What is left in w at the end.  Update has already set w.Balance to the  *)
(* value it writes, and the code adds (or subtracts) the amount once more. *)
Returned(r) == IF Op(r) = "add" THEN mem[r] + 2 * Amount(r)
                                ELSE mem[r] - 2 * Amount(r)

(* Update("balance", ...), by the ID in w: without an ID gorm refuses it   *)
(* for want of a WHERE clause and the error is dropped.                    *)
Store(r) ==
    /\ pc[r] = "store"
    /\ balance' = IF found[r] THEN [balance EXCEPT ![User(r)] = Stored(r)]
                              ELSE balance
    /\ mem' = [mem EXCEPT ![r] = Returned(r)]
    /\ Goto(r, "reply")
    /\ UNCHANGED <<rows, credit, debit, call, found, calls, failures, damaged>>

(* The handler writes its reply; the call's locals are gone.               *)
Respond(r) ==
    /\ pc[r] = "reply"
    /\ Goto(r, "idle")
    /\ call' = [call EXCEPT ![r] = AnyCall]
    /\ mem' = [mem EXCEPT ![r] = 0]
    /\ found' = [found EXCEPT ![r] = FALSE]
    /\ UNCHANGED <<tables, calls, failures, damaged>>
-----------------------------------------------------------------------------
(* Failures.                                                               *)

Fail == failures < MaxFailures /\ failures' = failures + 1

(* A statement of FirstOrCreate fails: w stays without an ID.  AddMoney    *)
(* goes on regardless, so its credit will be journaled and not stored.     *)
FindOrCreateFails(r) ==
    /\ Fail
    /\ \/ pc[r] = "insert"
       \/ pc[r] = "load" /\ Op(r) # "withdraw"
    /\ damaged' = IF Op(r) = "add" THEN damaged \cup {User(r)} ELSE damaged
    /\ Goto(r, AfterLoad(r))
    /\ UNCHANGED <<tables, call, mem, found, calls>>

(* First fails: Withdraw reports "wallet not found".                       *)
LoadForWithdrawFails(r) ==
    /\ Fail
    /\ pc[r] = "load"
    /\ Op(r) = "withdraw"
    /\ Goto(r, "reply")
    /\ UNCHANGED <<tables, call, mem, found, calls, damaged>>

(* Create(&tx) fails: the code goes on to store the balance.               *)
JournalFails(r) ==
    /\ Fail
    /\ pc[r] = "journal"
    /\ damaged' = damaged \cup {User(r)}
    /\ Goto(r, "store")
    /\ UNCHANGED <<tables, call, mem, found, calls>>

(* Update fails: the code replies as if it had not.                        *)
StoreFails(r) ==
    /\ Fail
    /\ pc[r] = "store"
    /\ damaged' = damaged \cup {User(r)}
    /\ mem' = [mem EXCEPT ![r] = Returned(r)]
    /\ Goto(r, "reply")
    /\ UNCHANGED <<tables, call, found, calls>>

(* The process dies.  Only a call between its journal entry and its store  *)
(* leaves the tables out of step.                                          *)
Crash ==
    /\ Fail
    /\ damaged' = damaged \cup {User(r) : r \in {q \in Reqs : pc[q] = "store"}}
    /\ pc' = [r \in Reqs |-> "idle"]
    /\ call' = [r \in Reqs |-> AnyCall]
    /\ mem' = [r \in Reqs |-> 0]
    /\ found' = [r \in Reqs |-> FALSE]
    /\ UNCHANGED <<tables, calls>>
-----------------------------------------------------------------------------
Statement(r) ==
    \/ FindOrMiss(r)
    \/ InsertRow(r)
    \/ LoadForWithdraw(r)
    \/ Journal(r)
    \/ Store(r)
    \/ FindOrCreateFails(r)
    \/ LoadForWithdrawFails(r)
    \/ JournalFails(r)
    \/ StoreFails(r)

Next ==
    \/ \E r \in Reqs, c \in Calls : Receive(r, c)
    \/ \E r \in Reqs : Statement(r)
    \/ \E r \in Reqs : Respond(r)
    \/ Crash

Spec == Init /\ [][Next]_vars
-----------------------------------------------------------------------------
(* No interleaving, failure or crash makes a balance negative: the value a *)
(* withdrawal stores is computed from the same read that passed its test   *)
(* (payment_service.go:48, 60), however stale that read is by then.        *)
NeverNegative == \A u \in Users : balance[u] >= 0

(* Until something fails, a wallet never holds more than was ever credited *)
(* to it: an update lost to a race can drop a credit or a debit, and can   *)
(* never store a credit that no transaction row accounts for.              *)
Backed == \A u \in Users : failures = 0 => balance[u] <= credit[u]

(* A call that no failure touched tells the client the balance it stored,  *)
(* which is what a client that shows the reply as the wallet expects.      *)
ReplyIsStored ==
    [][\A r \in Reqs : Store(r) /\ found[r] => mem'[r] = balance'[User(r)]]_vars

(* No call of u is between its journal entry and its store.                *)
Settled(u) == \A r \in Reqs : User(r) = u => pc[r] # "store"

(* A withdrawal that was accepted is covered by what the user deposited:   *)
(* what "insufficient balance" (payment_service.go:49) says is refused.    *)
NoOverdraft == \A u \in Users : failures = 0 => debit[u] <= credit[u]

(* The books balance: between calls the wallet equals credits minus        *)
(* debits, for every user whose calls no failure has damaged.  It holds    *)
(* only where something serialises the calls of a user.                    *)
BooksBalance ==
    \A u \in Users \ damaged :
        Settled(u) => balance[u] = credit[u] - debit[u]

Gap(u) == balance[u] - (credit[u] - debit[u])

(* Between calls the wallet and the transactions of a user differ by no    *)
(* more than the amount of one call for each statement that failed and     *)
(* each crash: a deposit that was journaled and not stored, or stored and  *)
(* not journaled, is the damage of its own call and is not made worse by   *)
(* later ones (payment_service.go:31-32, 59-60).  It too holds only where  *)
(* something serialises the calls of a user.                               *)
OneAmountPerFailure ==
    \A u \in Users : Settled(u) =>
        \E a \in Amounts : Gap(u) \in -(failures * a) .. failures * a
=============================================================================
