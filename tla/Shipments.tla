------------------------------ MODULE Shipments ------------------------------
(***************************************************************************)
(* The life of a shipment: created and cancelled by its customer           *)
(* (internal/shipments), accepted by a driver (internal/driver), scanned   *)
(* and dispatched by a warehouse (internal/warehouse).  The three services *)
(* write the same row of the shipments table and know nothing of each      *)
(* other.                                                                  *)
(*                                                                         *)
(* A call is one or two SQL statements without a transaction, one action   *)
(* each.  An UPDATE tests its WHERE clause and writes in one step.         *)
(* UpdateStatus, AssignDriver and AddEarning have no caller and are left   *)
(* out; RejectOrder does nothing; lists and statistics only read.          *)
(***************************************************************************)
EXTENDS Integers

CONSTANTS
    Ids,           \* rows the shipments table may get
    Customers,
    Drivers,       \* users with the role driver
    Reqs,          \* request goroutines, each reused once it is idle again
    None,          \* no driver, no customer
    MaxCalls,      \* bound: calls received in a behaviour
    MaxFailures    \* bound: failed statements and crashes in a behaviour

ASSUME ShipmentsAssumption ==
    /\ None \notin Customers \cup Drivers
    /\ MaxCalls \in Nat
    /\ MaxFailures \in Nat

VARIABLES
    ships,         \* [Ids -> Rows], the shipments table
    profiles,      \* drivers with a row in driver_profiles
    go,            \* [Reqs -> Goroutines], the locals of each request
    calls,         \* calls received so far
    failures       \* statements failed and crashes so far

vars == <<ships, profiles, go, calls, failures>>

Statuses == {"pending", "assigned", "at_warehouse", "out_for_delivery", "cancelled"}
Rows == [status : Statuses, customer : Customers \cup {None},
         driver : Drivers \cup {None}]
NoRow == [status |-> "pending", customer |-> None, driver |-> None]

Calls ==
    [op : {"create"}, customer : Customers]
        \cup [op : {"cancel"}, customer : Customers, id : Ids]
        \cup [op : {"profile"}, driver : Drivers]
        \cup [op : {"accept"}, driver : Drivers, id : Ids]
        \cup [op : {"inbound", "outbound", "dispatch"}, id : Ids]
NoCall == [op |-> "none"]

FirstStep == [create |-> "insert", cancel |-> "own", profile |-> "find",
              accept |-> "who", inbound |-> "scan", outbound |-> "scan",
              dispatch |-> "move"]
Steps == {"idle", "insert", "own", "cancel", "find", "enrol", "who", "claim",
          "scan", "move", "reply"}

(* ok is what a call in step "reply" tells its client.                     *)
Goroutines == [pc : Steps, call : Calls \cup {NoCall}, ok : BOOLEAN]
Idle == [pc |-> "idle", call |-> NoCall, ok |-> FALSE]

TypeOK ==
    /\ ships \in [Ids -> Rows]
    /\ profiles \subseteq Drivers
    /\ go \in [Reqs -> Goroutines]
    /\ calls \in 0 .. MaxCalls
    /\ failures \in 0 .. MaxFailures

Init ==
    /\ ships = [i \in Ids |-> NoRow]
    /\ profiles = {}
    /\ go = [r \in Reqs |-> Idle]
    /\ calls = 0
    /\ failures = 0
-----------------------------------------------------------------------------
At(r, step) == go[r].pc = step
Op(r)       == go[r].call.op
Id(r)       == go[r].call.id
Customer(r) == go[r].call.customer
Driver(r)   == go[r].call.driver
Exists(i)   == ships[i].customer # None

Goto(r, step)  == go' = [go EXCEPT ![r].pc = step]
Reply(r, good) == go' = [go EXCEPT ![r].pc = "reply", ![r].ok = good]

(* Plausible slips in the code below, each used by one mutant.             *)

ClaimableAnyway(i)    == Exists(i)
OwnedByAnyone(r)      == Exists(Id(r))
CancelledToPending(r) == [ships EXCEPT ![Id(r)].status = "pending"]
MovedRaw(r)           == Op(r)
-----------------------------------------------------------------------------
(* The path names any id: nothing checks that it is a row's.               *)
Receive(r, c) ==
    /\ At(r, "idle")
    /\ calls < MaxCalls
    /\ calls' = calls + 1
    /\ go' = [go EXCEPT ![r].pc = FirstStep[c.op], ![r].call = c]
    /\ UNCHANGED <<ships, profiles, failures>>

(* Create: one INSERT of a pending row without a driver.  A tracking       *)
(* number that is taken makes it fail.                                     *)
InsertRow(r) ==
    /\ At(r, "insert")
    /\ \E i \in Ids :
          /\ ~Exists(i)
          /\ ships' = [ships EXCEPT ![i].customer = Customer(r)]
    /\ Reply(r, TRUE)
    /\ UNCHANGED <<profiles, calls, failures>>

(* Cancel: the row by id and customer, then an UPDATE by id.               *)
Owned(r) == Exists(Id(r)) /\ ships[Id(r)].customer = Customer(r)

FindOwn(r) ==
    /\ At(r, "own")
    /\ IF Owned(r) THEN Goto(r, "cancel") ELSE Reply(r, FALSE)
    /\ UNCHANGED <<ships, profiles, calls, failures>>

Cancelled(r) == [ships EXCEPT ![Id(r)].status = "cancelled"]

SetCancelled(r) ==
    /\ At(r, "cancel")
    /\ ships' = Cancelled(r)
    /\ Reply(r, TRUE)
    /\ UNCHANGED <<profiles, calls, failures>>

(* GetOrCreate of a driver's profile: FirstOrCreate, errors ignored.       *)
FindProfile(r) ==
    /\ At(r, "find")
    /\ IF Driver(r) \in profiles THEN Reply(r, TRUE) ELSE Goto(r, "enrol")
    /\ UNCHANGED <<ships, profiles, calls, failures>>

InsertProfile(r) ==
    /\ At(r, "enrol")
    /\ profiles' = profiles \cup {Driver(r)}
    /\ Reply(r, TRUE)
    /\ UNCHANGED <<ships, calls, failures>>

(* AcceptOrder: the driver's profile, then the conditional UPDATE.  The    *)
(* handler answers accepted, whether or not a row matched, be it that the  *)
(* order has a driver or that there is none of that id.                    *)
Enrolled(r) == Driver(r) \in profiles

FindDriver(r) ==
    /\ At(r, "who")
    /\ IF Enrolled(r) THEN Goto(r, "claim") ELSE Reply(r, FALSE)
    /\ UNCHANGED <<ships, profiles, calls, failures>>

Claimable(i) == Exists(i) /\ ships[i].driver = None
Claimed(r) == [ships EXCEPT ![Id(r)].driver = Driver(r), ![Id(r)].status = "assigned"]

Claim(r) ==
    /\ At(r, "claim")
    /\ ships' = IF Claimable(Id(r)) THEN Claimed(r) ELSE ships
    /\ Reply(r, TRUE)
    /\ UNCHANGED <<profiles, calls, failures>>

(* Scan: the row by its tracking number, then an UPDATE by id; Dispatch is *)
(* the UPDATE alone.                                                       *)
Scannable(r) == Exists(Id(r))

FindParcel(r) ==
    /\ At(r, "scan")
    /\ IF Scannable(r) THEN Goto(r, "move") ELSE Reply(r, FALSE)
    /\ UNCHANGED <<ships, profiles, calls, failures>>

Moved(r) == IF Op(r) = "inbound" THEN "at_warehouse" ELSE "out_for_delivery"

SetMoved(r) ==
    /\ At(r, "move")
    /\ ships' = IF Exists(Id(r)) THEN [ships EXCEPT ![Id(r)].status = Moved(r)]
                                 ELSE ships
    /\ Reply(r, TRUE)
    /\ UNCHANGED <<profiles, calls, failures>>

Respond(r) ==
    /\ At(r, "reply")
    /\ go' = [go EXCEPT ![r] = Idle]
    /\ UNCHANGED <<ships, profiles, calls, failures>>
-----------------------------------------------------------------------------
Fail == failures < MaxFailures /\ failures' = failures + 1

(* A statement fails.  The code ignores the errors of Cancel's and Scan's  *)
(* UPDATE and of FirstOrCreate, and answers as if they had succeeded.      *)
StatementFails(r) ==
    /\ Fail
    /\ ~At(r, "idle") /\ ~At(r, "reply")
    /\ Reply(r, \/ go[r].pc \in {"cancel", "find", "enrol"}
                \/ At(r, "move") /\ Op(r) # "dispatch")
    /\ UNCHANGED <<ships, profiles, calls>>

Crash ==
    /\ Fail
    /\ go' = [r \in Reqs |-> Idle]
    /\ UNCHANGED <<ships, profiles, calls>>
-----------------------------------------------------------------------------
Statement(r) ==
    \/ InsertRow(r)
    \/ FindOwn(r) \/ SetCancelled(r)
    \/ FindProfile(r) \/ InsertProfile(r)
    \/ FindDriver(r) \/ Claim(r)
    \/ FindParcel(r) \/ SetMoved(r)
    \/ Respond(r)

Next ==
    \/ \E r \in Reqs, c \in Calls : Receive(r, c)
    \/ \E r \in Reqs : Statement(r)
    \/ \E r \in Reqs : StatementFails(r)
    \/ Crash

Spec == Init /\ [][Next]_vars
-----------------------------------------------------------------------------
(* Both conditions of GetAvailableOrders (driver_service.go:47) agree: a   *)
(* pending shipment has no driver, because the claim writes both columns   *)
(* at once and nothing makes a shipment pending again; and no shipment is  *)
(* assigned to nobody.                                                     *)
StatusFollowsDriver ==
    \A i \in Ids :
        /\ ships[i].status = "pending" => ships[i].driver = None
        /\ ships[i].status = "assigned" => ships[i].driver # None

(* Every driver_id names an existing profile, without a foreign key.       *)
DriversEnrolled == \A i \in Ids : ships[i].driver \in profiles \cup {None}

(* However many drivers accept at once, the first claim stands: a driver   *)
(* is never replaced (the conditional UPDATE, driver_service.go:71).       *)
FirstClaimStands ==
    [][\A i \in Ids :
          ships[i].driver # None => ships'[i].driver = ships[i].driver]_vars

(* A shipment only becomes cancelled by a call of its own customer.        *)
CancelledByOwner ==
    [][\A i \in Ids :
          ships[i].status # "cancelled" /\ ships'[i].status = "cancelled" =>
              \E r \in Reqs : /\ At(r, "cancel") /\ Id(r) = i
                              /\ Customer(r) = ships[i].customer]_vars

(* "accepted": true (driver_handler.go:70) tells the driver that the order *)
(* is theirs.  (An accept that names no row is answered so too.)           *)
AcceptedIsMine ==
    [][\A r \in Reqs :
          At(r, "claim") /\ Exists(Id(r)) /\ At(r, "reply")' /\ go'[r].ok =>
              ships'[Id(r)].driver = Driver(r)]_vars
=============================================================================
