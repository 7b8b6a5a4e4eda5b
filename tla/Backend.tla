------------------------------- MODULE Backend -------------------------------
(***************************************************************************)
(* The server process with the services around orders: it starts, migrates *)
(* and seeds (Startup), then answers the desks, the pricing handler        *)
(* (Orders), the administrators (Office) and the profile screen            *)
(* (Profiles) at once, until it dies and is started again on the database  *)
(* it left.                                                                *)
(***************************************************************************)
EXTENDS Office, Profiles

vars == <<bootVars, callVars, orderVars, tables, profiles>>

TypeOK ==
    /\ BootTypeOK
    /\ budget \in Nat
    /\ OrdersTypeOK
    /\ OfficeTypeOK
    /\ ProfilesTypeOK

CONSTANT MaxBudget    \* bound: the calls and failures of one behaviour

ASSUME MaxBudgetAssumption == MaxBudget \in Nat

Init ==
    /\ BootInit
    /\ go = <<>>
    /\ budget = MaxBudget
    /\ OrdersInit
    /\ OfficeInit
    /\ ProfilesInit

dataVars == <<orderVars, tables, profiles>>

BootStep == Start \/ Boot

Next ==
    \/ BootStep /\ UNCHANGED <<callVars, dataVars>>
    \/ Crash /\ Spend(1) /\ Abandon /\ UNCHANGED dataVars
    \/ (LookupFails \/ SeedFails) /\ Spend(1) /\ UNCHANGED <<go, dataVars>>
    \/ OrdersNext /\ UNCHANGED <<bootVars, tables, profiles>>
    \/ OfficeNext /\ UNCHANGED <<bootVars, profiles>>
    \/ ProfilesNext /\ UNCHANGED <<bootVars, orderVars, tables>>

Spec == Init /\ [][Next]_vars

(* The container's restart policy and the process itself go on; requests   *)
(* need not come, and need not be worked on.                               *)
FairSpec == Spec /\ WF_bootVars(BootStep)
-----------------------------------------------------------------------------
(* Whatever fails on the way, the container is restarted until a process   *)
(* has been through migrations and seeds and stays up.                     *)
ServesInTheEnd == <>[](proc = "serve")
=============================================================================
