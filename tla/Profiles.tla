------------------------------ MODULE Profiles ------------------------------
(***************************************************************************)
(* GetProfile and UpdateProfile of users/user_service.go: both look the    *)
(* row of the user up and create it if it is missing, in two statements,   *)
(* and whoever comes second is refused by the unique index on user_id.     *)
(* An address stands for the four fields that UpdateProfile sets.          *)
(***************************************************************************)
EXTENDS Calls

CONSTANTS ProfileUsers, Addresses

ASSUME ProfilesAssumption == {"none", "blank"} \cap Addresses = {}

VARIABLE profiles    \* profiles[u]: "none", "blank" or an address

ProfilesInit == profiles = [u \in ProfileUsers |-> "none"]

ProfilesTypeOK == profiles \in [ProfileUsers -> Addresses \cup {"none", "blank"}]

AskProfile ==
    /\ Spend(1)
    /\ \E u \in ProfileUsers, op \in {"getProfile", "updateProfile"},
         a \in Addresses :
          Receive([op |-> op, pc |-> "find", user |-> u, address |-> a,
                   there |-> profiles[u] # "none", failed |-> FALSE])
    /\ UNCHANGED profiles

ProfileCall(i, pc) ==
    Open(i) /\ go[i].op \in {"getProfile", "updateProfile"} /\ go[i].pc = pc

(* What a call does once it has the row.                                   *)
AfterFind(i) == IF go[i].op = "updateProfile" THEN "save" ELSE "done"

FindProfileRow(i) ==
    /\ ProfileCall(i, "find")
    /\ Goto(i, IF profiles[go[i].user] = "none" THEN "create" ELSE AfterFind(i))
    /\ UNCHANGED <<budget, profiles>>

CreateOver(old) == "blank"      \* a slip: insert or overwrite

Create(old) == IF old = "none" THEN "blank" ELSE old

(* The INSERT of the blank row.  If the row has appeared in the meantime,  *)
(* the error is dropped: GetProfile answers with a profile without an id,  *)
(* and UpdateProfile's UPDATE, which has no id to name the row by, is      *)
(* refused as well, and answers that all is well.                          *)
CreateProfileRow(i) ==
    LET u == go[i].user IN
        /\ ProfileCall(i, "create")
        /\ profiles' = [profiles EXCEPT ![u] = Create(@)]
        /\ Goto(i, IF profiles[u] = "none" THEN AfterFind(i) ELSE "done")
        /\ UNCHANGED budget

SaveProfileRow(i) ==
    /\ ProfileCall(i, "save")
    /\ profiles' = [profiles EXCEPT ![go[i].user] = go[i].address]
    /\ Goto(i, "done")
    /\ UNCHANGED budget

(* Each of the statements may fail; only GetProfile's first one is told,   *)
(* and all end what the call does.                                         *)
ProfileFails(i) ==
    /\ \E pc \in {"find", "create", "save"} : ProfileCall(i, pc)
    /\ Spend(1)
    /\ go' = [go EXCEPT ![i].failed = TRUE, ![i].pc = "done"]
    /\ UNCHANGED profiles

ProfilesNext ==
    \/ AskProfile
    \/ \E i \in DOMAIN go :
          FindProfileRow(i) \/ CreateProfileRow(i) \/ SaveProfileRow(i)
              \/ ProfileFails(i)
-----------------------------------------------------------------------------
(* An update of a row that was there when the call came, and none of whose *)
(* statements failed, is stored, and no first visit that is still under    *)
(* way puts the blank row back.                                            *)
UpdatesAreKept ==
    \A i \in DOMAIN go :
        /\ go[i].op = "updateProfile"
        /\ go[i].pc = "done"
        /\ go[i].there
        /\ ~go[i].failed
        => profiles[go[i].user] \in Addresses
=============================================================================
