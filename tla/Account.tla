------------------------------- MODULE Account -------------------------------
(***************************************************************************)
(* What a wallet promises: a balance changes by one whole deposit or       *)
(* withdrawal at a time, made on the balance of that instant, and by a     *)
(* withdrawal only when that balance covers it.  WalletServer is shown to  *)
(* implement it.  It does not say that every call that was asked for       *)
(* changes a balance: one that fails half-way may change none.             *)
(***************************************************************************)
EXTENDS Integers

CONSTANTS Users, Amounts

VARIABLE funds   \* [Users -> Nat]

Init == funds = [u \in Users |-> 0]

Deposit(u, a) == funds' = [funds EXCEPT ![u] = @ + a]

Withdraw(u, a) ==
    /\ funds[u] >= a
    /\ funds' = [funds EXCEPT ![u] = @ - a]

Next == \E u \in Users, a \in Amounts : Deposit(u, a) \/ Withdraw(u, a)

Spec == Init /\ [][Next]_funds
=============================================================================
