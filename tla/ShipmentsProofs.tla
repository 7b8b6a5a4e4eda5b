---------------------------- MODULE ShipmentsProofs ----------------------------
(***************************************************************************)
(* Safety of the shipments' life cycle with any number of shipments,       *)
(* customers, drivers and goroutines, and any failures.                    *)
(*                                                                         *)
(* The properties are not inductive: a call acts on what an earlier        *)
(* statement of it found.  CallFits says which call a goroutine carries at *)
(* each step; FoundStands says that what FindDriver and FindOwn found is   *)
(* still so when the UPDATE runs, because rows and profiles are never      *)
(* removed and the customer of a row never changes.                        *)
(***************************************************************************)
EXTENDS Shipments, TLAPS

Inserting == [op : {"create"}, customer : Customers]
Cancelling == [op : {"cancel"}, customer : Customers, id : Ids]
Profiling == [op : {"profile"}, driver : Drivers]
Accepting == [op : {"accept"}, driver : Drivers, id : Ids]
Moving == [op : {"inbound", "outbound", "dispatch"}, id : Ids]

CallFits ==
    \A r \in Reqs :
        /\ go[r].pc = "insert" => go[r].call \in Inserting
        /\ go[r].pc \in {"own", "cancel"} => go[r].call \in Cancelling
        /\ go[r].pc \in {"find", "enrol"} => go[r].call \in Profiling
        /\ go[r].pc \in {"who", "claim"} => go[r].call \in Accepting
        /\ go[r].pc \in {"scan", "move"} => go[r].call \in Moving

FoundStands ==
    \A r \in Reqs :
        /\ At(r, "claim") => Driver(r) \in profiles
        /\ At(r, "cancel") => ships[Id(r)].customer = Customer(r)

TInv == TypeOK /\ CallFits

IInv == TInv /\ FoundStands /\ StatusFollowsDriver /\ DriversEnrolled

LEMMA CallKinds ==
    ASSUME NEW c \in Calls
    PROVE  /\ c.op \in {"create", "cancel", "profile", "accept",
                        "inbound", "outbound", "dispatch"}
           /\ c.op = "create" => c \in Inserting
           /\ c.op = "cancel" => c \in Cancelling
           /\ c.op = "profile" => c \in Profiling
           /\ c.op = "accept" => c \in Accepting
           /\ c.op \in {"inbound", "outbound", "dispatch"} => c \in Moving
BY DEF Calls, Inserting, Cancelling, Profiling, Accepting, Moving

(* A goroutine that only advances keeps its type and its call.             *)
LEMMA Advance ==
    ASSUME go \in [Reqs -> Goroutines], NEW r \in Reqs, NEW s \in Steps,
           NEW b \in BOOLEAN,
           go' = [go EXCEPT ![r].pc = s] \/ go' = [go EXCEPT ![r].pc = s, ![r].ok = b]
    PROVE  /\ go' \in [Reqs -> Goroutines]
           /\ go'[r].pc = s /\ go'[r].call = go[r].call
           /\ \A q \in Reqs \ {r} : go'[q] = go[q]
<1>1. go[r] \in Goroutines
    OBVIOUS
<1>2. CASE go' = [go EXCEPT ![r].pc = s]
    BY <1>1, <1>2 DEF Goroutines
<1>3. CASE go' = [go EXCEPT ![r].pc = s, ![r].ok = b]
    BY <1>1, <1>3 DEF Goroutines
<1> QED
    BY <1>2, <1>3

LEMMA InitInv == Init => IInv
BY ShipmentsAssumption
DEF Init, IInv, TInv, TypeOK, CallFits, FoundStands, StatusFollowsDriver,
    DriversEnrolled, NoRow, Rows, Statuses, Idle, NoCall, Goroutines, Steps, At, Exists

LEMMA TypeStep == TInv /\ [Next]_vars => TInv'
<1> SUFFICES ASSUME TInv, [Next]_vars PROVE TInv'
    OBVIOUS
<1> USE ShipmentsAssumption DEF TInv, At
<1>1. ASSUME NEW r \in Reqs, NEW c \in Calls, Receive(r, c) PROVE TInv'
    <2>1. go[r] \in Goroutines
        BY DEF TypeOK
    <2>2. FirstStep[c.op] \in Steps
        BY CallKinds DEF FirstStep, Steps
    <2>3. go' \in [Reqs -> Goroutines]
        BY <1>1, <2>1, <2>2 DEF Receive, TypeOK, Goroutines
    <2>4. go'[r].pc = FirstStep[c.op] /\ go'[r].call = c
          /\ \A q \in Reqs \ {r} : go'[q] = go[q]
        BY <1>1, <2>1 DEF Receive, TypeOK, Goroutines
    <2>5. CallFits'
        BY <2>4, CallKinds DEF CallFits, FirstStep
    <2> QED
        BY <1>1, <2>3, <2>5 DEF Receive, TypeOK
<1>2. ASSUME NEW r \in Reqs, InsertRow(r) PROVE TInv'
    <2>1. go[r].call.customer \in Customers
        BY <1>2 DEF InsertRow, CallFits, Inserting
    <2>2. ships' \in [Ids -> Rows]
        BY <1>2, <2>1 DEF InsertRow, TypeOK, Rows, Customer
    <2> QED
        BY <1>2, <2>2, Advance DEF InsertRow, TypeOK, Reply, CallFits, Steps, Inserting
<1>3. ASSUME NEW r \in Reqs, FindOwn(r) PROVE TInv'
    BY ZenonT(60), <1>3, Advance DEF FindOwn, TypeOK, Goto, Reply, CallFits, Steps, Cancelling
<1>4. ASSUME NEW r \in Reqs, SetCancelled(r) PROVE TInv'
    <2>1. ships' \in [Ids -> Rows]
        BY <1>4 DEF SetCancelled, Cancelled, TypeOK, Rows, Statuses
    <2> QED
        BY <1>4, <2>1, Advance DEF SetCancelled, TypeOK, Reply, CallFits, Steps, Cancelling
<1>5. ASSUME NEW r \in Reqs, FindProfile(r) PROVE TInv'
    <2>1. CASE Driver(r) \in profiles
        BY ZenonT(60), <1>5, <2>1, Advance
        DEF FindProfile, TypeOK, Reply, CallFits, Steps, Profiling
    <2>2. CASE Driver(r) \notin profiles
        BY <1>5, <2>2, Advance DEF FindProfile, TypeOK, Goto, CallFits, Steps
    <2> QED
        BY <2>1, <2>2
<1>6. ASSUME NEW r \in Reqs, InsertProfile(r) PROVE TInv'
    <2>1. profiles' \subseteq Drivers
        BY <1>6 DEF InsertProfile, TypeOK, CallFits, Profiling, Driver
    <2> QED
        BY <1>6, <2>1, Advance DEF InsertProfile, TypeOK, Reply, CallFits, Steps, Profiling
<1>7. ASSUME NEW r \in Reqs, FindDriver(r) PROVE TInv'
    BY <1>7, Advance DEF FindDriver, TypeOK, Goto, Reply, CallFits, Steps
<1>8. ASSUME NEW r \in Reqs, Claim(r) PROVE TInv'
    <2>1. go[r].call.driver \in Drivers
        BY <1>8 DEF Claim, CallFits, Accepting
    <2>2. Claimed(r) \in [Ids -> Rows]
        BY <2>1 DEF Claimed, TypeOK, Rows, Statuses, Driver
    <2>3. ships' \in [Ids -> Rows]
        BY <1>8, <2>2 DEF Claim, TypeOK
    <2> QED
        BY <1>8, <2>3, Advance DEF Claim, TypeOK, Reply, CallFits, Steps
<1>9. ASSUME NEW r \in Reqs, FindParcel(r) PROVE TInv'
    <2>1. CASE Scannable(r)
        <3>1. /\ go' \in [Reqs -> Goroutines]
              /\ go'[r].pc = "move" /\ go'[r].call = go[r].call
              /\ \A q \in Reqs \ {r} : go'[q] = go[q]
            BY <1>9, <2>1, Advance DEF FindParcel, TypeOK, Goto, Steps
        <3>2. go[r].call \in Moving
            BY <1>9 DEF FindParcel, CallFits
        <3>3. CallFits'
            BY <3>1, <3>2 DEF CallFits
        <3> QED
            BY <1>9, <3>1, <3>3 DEF FindParcel, TypeOK
    <2>2. CASE ~Scannable(r)
        BY <1>9, <2>2, Advance DEF FindParcel, TypeOK, Reply, CallFits, Steps
    <2> QED
        BY <2>1, <2>2
<1>10. ASSUME NEW r \in Reqs, SetMoved(r) PROVE TInv'
    <2>1. Moved(r) \in Statuses
        BY DEF Moved, Statuses
    <2>2. [ships EXCEPT ![Id(r)].status = Moved(r)] \in [Ids -> Rows]
        BY <2>1 DEF TypeOK, Rows
    <2>3. ships' \in [Ids -> Rows]
        BY <1>10, <2>2 DEF SetMoved, TypeOK
    <2> QED
        BY <1>10, <2>3, Advance DEF SetMoved, TypeOK, Reply, CallFits, Steps, Moving
<1>11. ASSUME NEW r \in Reqs, Respond(r) PROVE TInv'
    <2>1. Idle \in Goroutines /\ Idle.pc = "idle"
        BY DEF Idle, Goroutines, Steps, NoCall
    <2>2. go' \in [Reqs -> Goroutines] /\ go'[r] = Idle
          /\ \A q \in Reqs \ {r} : go'[q] = go[q]
        BY <1>11, <2>1 DEF Respond, TypeOK
    <2>3. CallFits'
        BY <2>1, <2>2 DEF CallFits
    <2> QED
        BY <1>11, <2>2, <2>3 DEF Respond, TypeOK
<1>12. ASSUME NEW r \in Reqs, StatementFails(r) PROVE TInv'
    <2>1. PICK b \in BOOLEAN : go' = [go EXCEPT ![r].pc = "reply", ![r].ok = b]
        BY <1>12 DEF StatementFails, Reply
    <2>2. /\ go' \in [Reqs -> Goroutines]
          /\ go'[r].pc = "reply" /\ go'[r].call = go[r].call
          /\ \A q \in Reqs \ {r} : go'[q] = go[q]
        BY <2>1, Advance DEF TypeOK, Steps
    <2>3. CallFits'
        BY <2>2 DEF CallFits
    <2> QED
        BY <1>12, <2>2, <2>3 DEF StatementFails, Fail, TypeOK
<1>13. ASSUME Crash PROVE TInv'
    <2>1. Idle \in Goroutines /\ Idle.pc = "idle"
        BY DEF Idle, Goroutines, Steps, NoCall
    <2> QED
        BY <1>13, <2>1 DEF Crash, Fail, TypeOK, CallFits
<1>14. CASE UNCHANGED vars
    BY <1>14 DEF vars, TypeOK, CallFits
<1> QED
    BY <1>1, <1>2, <1>3, <1>4, <1>5, <1>6, <1>7, <1>8, <1>9, <1>10, <1>11,
       <1>12, <1>13, <1>14 DEF Next, Statement

(* A step that leaves the rows alone and removes no profile only has to    *)
(* answer for what the goroutine that took it has found.                   *)
LEMMA Quiet ==
    ASSUME IInv, NEW r \in Reqs, ships' = ships, profiles \subseteq profiles',
           \A q \in Reqs \ {r} : go'[q] = go[q],
           go'[r].pc = "claim" => go'[r].call.driver \in profiles',
           go'[r].pc = "cancel" =>
               ships[go'[r].call.id].customer = go'[r].call.customer
    PROVE  (FoundStands /\ StatusFollowsDriver /\ DriversEnrolled)'
<1>1. FoundStands'
    BY DEF IInv, FoundStands, At, Driver, Id, Customer, Exists
<1> QED
    BY <1>1 DEF IInv, StatusFollowsDriver, DriversEnrolled

LEMMA InvStep == IInv /\ [Next]_vars => IInv'
<1> DEFINE Goal == (FoundStands /\ StatusFollowsDriver /\ DriversEnrolled)'
<1> SUFFICES ASSUME IInv, [Next]_vars PROVE Goal
    BY TypeStep DEF IInv
<1> USE ShipmentsAssumption
    DEF IInv, TInv, At, Id, Driver, Customer
<1>0. TypeOK /\ TypeOK' /\ CallFits /\ CallFits'
    BY TypeStep
<1>1. ASSUME NEW r \in Reqs, NEW c \in Calls, Receive(r, c) PROVE Goal
    <2>1. go'[r].pc = FirstStep[c.op] /\ \A q \in Reqs \ {r} : go'[q] = go[q]
        BY <1>1 DEF Receive, TypeOK, Goroutines
    <2>2. FirstStep[c.op] \notin {"claim", "cancel"}
        BY CallKinds DEF FirstStep
    <2>3. go'[r].call = c
        BY <1>1 DEF Receive, TypeOK, Goroutines
    <2> QED
        BY <1>1, <2>1, <2>2, <2>3, Quiet DEF Receive
<1>2. ASSUME NEW r \in Reqs, InsertRow(r) PROVE Goal
    <2>1. PICK i \in Ids : /\ ships[i].customer = None
                           /\ ships' = [ships EXCEPT ![i].customer = Customer(r)]
        BY <1>2 DEF InsertRow, Exists
    <2>2. /\ \A j \in Ids : ships'[j].status = ships[j].status
          /\ \A j \in Ids : ships'[j].driver = ships[j].driver
          /\ \A j \in Ids \ {i} : ships'[j] = ships[j]
        BY <2>1 DEF TypeOK, Rows
    <2>3. \A q \in Reqs : go[q].pc = "cancel" => go[q].call.id # i
        BY <2>1 DEF FoundStands, CallFits, Cancelling
    <2>4. go'[r].pc = "reply" /\ \A q \in Reqs \ {r} : go'[q] = go[q]
        BY <1>2, Advance DEF InsertRow, Reply, TypeOK, Steps
    <2>5. FoundStands'
        <3>1. \A q \in Reqs : go[q].pc = "cancel" => go[q].call.id \in Ids \ {i}
            BY <2>3 DEF CallFits, Cancelling
        <3>2. profiles' = profiles
            BY <1>2 DEF InsertRow
        <3>3. ASSUME NEW q \in Reqs, go'[q].pc \in {"who", "claim", "cancel"}
              PROVE  q # r /\ go'[q] = go[q]
            BY <2>4, <3>3
        <3>4. ASSUME NEW q \in Reqs, go'[q].pc = "cancel"
              PROVE  ships'[go'[q].call.id].customer = go'[q].call.customer
            BY <2>2, <3>1, <3>3, <3>4 DEF FoundStands
        <3> QED
            BY <3>2, <3>3, <3>4 DEF FoundStands
    <2> QED
        BY <1>2, <2>2, <2>5 DEF InsertRow, StatusFollowsDriver, DriversEnrolled
<1>3. ASSUME NEW r \in Reqs, FindOwn(r) PROVE Goal
    <2>1. CASE Owned(r)
        <3>1. go'[r].call = go[r].call /\ go'[r].pc = "cancel"
              /\ \A q \in Reqs \ {r} : go'[q] = go[q]
            BY <1>3, <2>1, Advance DEF FindOwn, Goto, TypeOK, Steps
        <3> QED
            BY <1>3, <2>1, <3>1, Quiet DEF FindOwn, Owned
    <2>2. CASE ~Owned(r)
        <3>1. go'[r].pc = "reply" /\ \A q \in Reqs \ {r} : go'[q] = go[q]
            BY <1>3, <2>2, Advance DEF FindOwn, Reply, TypeOK, Steps
        <3> QED
            BY <1>3, <3>1, Quiet DEF FindOwn
    <2> QED
        BY <2>1, <2>2
<1>4. ASSUME NEW r \in Reqs, SetCancelled(r) PROVE Goal
    <2>1. /\ go[r].call.id \in Ids
          /\ ships' = [ships EXCEPT ![go[r].call.id].status = "cancelled"]
        BY <1>4 DEF SetCancelled, Cancelled, CallFits, Cancelling
    <2>2. /\ \A j \in Ids : ships'[j].status \in {ships[j].status, "cancelled"}
          /\ \A j \in Ids : ships'[j].driver = ships[j].driver
          /\ \A j \in Ids : ships'[j].customer = ships[j].customer
        BY <2>1 DEF TypeOK, Rows
    <2>3. go'[r].pc = "reply" /\ \A q \in Reqs \ {r} : go'[q] = go[q]
        BY <1>4, Advance DEF SetCancelled, Reply, TypeOK, Steps
    <2> QED
        BY <1>4, <2>2, <2>3
        DEF SetCancelled, FoundStands, CallFits, Cancelling, Accepting, Exists,
            StatusFollowsDriver, DriversEnrolled
<1>5. ASSUME NEW r \in Reqs, FindProfile(r) PROVE Goal
    <2>1. go'[r].pc \in {"reply", "enrol"} /\ \A q \in Reqs \ {r} : go'[q] = go[q]
        <3>1. CASE Driver(r) \in profiles
            BY <1>5, <3>1, Advance DEF FindProfile, Reply, TypeOK, Steps
        <3>2. CASE Driver(r) \notin profiles
            BY <1>5, <3>2, Advance DEF FindProfile, Goto, TypeOK, Steps
        <3> QED
            BY <3>1, <3>2
    <2> QED
        BY <1>5, <2>1, Quiet DEF FindProfile
<1>6. ASSUME NEW r \in Reqs, InsertProfile(r) PROVE Goal
    <2>1. go'[r].pc = "reply" /\ \A q \in Reqs \ {r} : go'[q] = go[q]
        BY <1>6, Advance DEF InsertProfile, Reply, TypeOK, Steps
    <2> QED
        BY <1>6, <2>1, Quiet DEF InsertProfile
<1>7. ASSUME NEW r \in Reqs, FindDriver(r) PROVE Goal
    <2>1. CASE Enrolled(r)
        <3>1. go'[r].call = go[r].call /\ go'[r].pc = "claim"
              /\ \A q \in Reqs \ {r} : go'[q] = go[q]
            BY <1>7, <2>1, Advance DEF FindDriver, Goto, TypeOK, Steps
        <3> QED
            BY <1>7, <2>1, <3>1, Quiet DEF FindDriver, Enrolled, FoundStands
    <2>2. CASE ~Enrolled(r)
        <3>1. go'[r].pc = "reply" /\ \A q \in Reqs \ {r} : go'[q] = go[q]
            BY <1>7, <2>2, Advance DEF FindDriver, Reply, TypeOK, Steps
        <3> QED
            BY <1>7, <3>1, Quiet DEF FindDriver
    <2> QED
        BY <2>1, <2>2
<1>8. ASSUME NEW r \in Reqs, Claim(r) PROVE Goal
    <2>1. go[r].call.id \in Ids /\ go[r].call.driver \in Drivers \cap profiles
        BY <1>8 DEF Claim, CallFits, Accepting, FoundStands
    <2>2. \A j \in Ids :
              /\ ships'[j].customer = ships[j].customer
              /\ \/ ships'[j] = ships[j]
                 \/ ships'[j].status = "assigned" /\ ships'[j].driver = go[r].call.driver
        BY <1>8, <2>1 DEF Claim, Claimed, TypeOK, Rows
    <2>3. go'[r].pc = "reply" /\ \A q \in Reqs \ {r} : go'[q] = go[q]
        BY <1>8, Advance DEF Claim, Reply, TypeOK, Steps
    <2>4. FoundStands'
        BY <1>8, <2>2, <2>3 DEF Claim, FoundStands, CallFits, Cancelling
    <2> QED
        BY <1>8, <2>1, <2>2, <2>4 DEF Claim, StatusFollowsDriver, DriversEnrolled
<1>9. ASSUME NEW r \in Reqs, FindParcel(r) PROVE Goal
    <2>1. go'[r].pc \in {"reply", "move"} /\ \A q \in Reqs \ {r} : go'[q] = go[q]
        <3>1. CASE Scannable(r)
            BY <1>9, <3>1, Advance DEF FindParcel, Goto, TypeOK, Steps
        <3>2. CASE ~Scannable(r)
            BY <1>9, <3>2, Advance DEF FindParcel, Reply, TypeOK, Steps
        <3> QED
            BY <3>1, <3>2
    <2> QED
        BY <1>9, <2>1, Quiet DEF FindParcel
<1>10. ASSUME NEW r \in Reqs, SetMoved(r) PROVE Goal
    <2>1. \A j \in Ids :
              /\ ships'[j].customer = ships[j].customer
              /\ ships'[j].driver = ships[j].driver
              /\ ships'[j].status \in {ships[j].status, "at_warehouse", "out_for_delivery"}
        BY <1>10 DEF SetMoved, Moved, TypeOK, Rows
    <2>2. go'[r].pc = "reply" /\ \A q \in Reqs \ {r} : go'[q] = go[q]
        BY <1>10, Advance DEF SetMoved, Reply, TypeOK, Steps
    <2> QED
        BY <1>10, <2>1, <2>2
        DEF SetMoved, FoundStands, CallFits, Cancelling, Accepting, Exists,
            StatusFollowsDriver, DriversEnrolled
<1>11. ASSUME NEW r \in Reqs, Respond(r) PROVE Goal
    <2>1. go'[r].pc = "idle" /\ \A q \in Reqs \ {r} : go'[q] = go[q]
        BY <1>11 DEF Respond, Idle, TypeOK
    <2> QED
        BY <1>11, <2>1, Quiet DEF Respond
<1>12. ASSUME NEW r \in Reqs, StatementFails(r) PROVE Goal
    <2>1. PICK b \in BOOLEAN : go' = [go EXCEPT ![r].pc = "reply", ![r].ok = b]
        BY <1>12 DEF StatementFails, Reply
    <2>2. go'[r].pc = "reply" /\ \A q \in Reqs \ {r} : go'[q] = go[q]
        BY <2>1, Advance DEF TypeOK, Steps
    <2> QED
        BY <1>12, <2>2, Quiet DEF StatementFails
<1>13. ASSUME Crash PROVE Goal
    BY <1>13
    DEF Crash, Idle, TypeOK, FoundStands, StatusFollowsDriver, DriversEnrolled
<1>14. CASE UNCHANGED vars
    BY <1>14 DEF vars, FoundStands, StatusFollowsDriver, DriversEnrolled, Exists
<1> QED
    BY <1>1, <1>2, <1>3, <1>4, <1>5, <1>6, <1>7, <1>8, <1>9, <1>10, <1>11,
       <1>12, <1>13, <1>14 DEF Next, Statement

LEMMA Invariance == Spec => []IInv
<1>1. Init => IInv
    BY InitInv
<1>2. IInv /\ [Next]_vars => IInv'
    BY InvStep
<1> QED
    BY <1>1, <1>2, PTL DEF Spec

(* The table, the profiles and the locals of the calls keep their types.   *)
THEOREM TypeCorrect == Spec => []TypeOK
<1>1. IInv => TypeOK
    BY DEF IInv, TInv
<1> QED
    BY <1>1, Invariance, PTL

(* The two conditions under which an order is offered to drivers always    *)
(* agree, and an assigned shipment has a driver.                           *)
THEOREM StatusAgrees == Spec => []StatusFollowsDriver
<1>1. IInv => StatusFollowsDriver
    BY DEF IInv
<1> QED
    BY <1>1, Invariance, PTL

(* Without a foreign key, a shipment's driver always has a profile.        *)
THEOREM ProfilesExist == Spec => []DriversEnrolled
<1>1. IInv => DriversEnrolled
    BY DEF IInv
<1> QED
    BY <1>1, Invariance, PTL

(* A row's driver is only ever set by a claim that finds none.             *)
LEMMA DriverKept ==
    ASSUME IInv, [Next]_vars
    PROVE  \A i \in Ids : ships[i].driver # None => ships'[i].driver = ships[i].driver
<1> USE ShipmentsAssumption DEF IInv, TInv, TypeOK
<1>1. ASSUME NEW r \in Reqs, InsertRow(r)
      PROVE  \A i \in Ids : ships'[i].driver = ships[i].driver
    BY <1>1 DEF InsertRow, Rows
<1>2. ASSUME NEW r \in Reqs, SetCancelled(r)
      PROVE  \A i \in Ids : ships'[i].driver = ships[i].driver
    BY <1>2 DEF SetCancelled, Cancelled, Rows
<1>3. ASSUME NEW r \in Reqs, Claim(r)
      PROVE  \A i \in Ids : ships[i].driver # None => ships'[i].driver = ships[i].driver
    <2>1. \A i \in Ids : i # Id(r) => Claimed(r)[i] = ships[i]
        BY DEF Claimed
    <2> QED
        BY <1>3, <2>1 DEF Claim, Claimable
<1>4. ASSUME NEW r \in Reqs, SetMoved(r)
      PROVE  \A i \in Ids : ships'[i].driver = ships[i].driver
    BY <1>4 DEF SetMoved, Rows
<1>5. CASE ships' = ships
    BY <1>5
<1> QED
    BY <1>1, <1>2, <1>3, <1>4, <1>5
    DEF Next, Statement, Receive, FindOwn, FindProfile, InsertProfile, FindDriver,
        FindParcel, Respond, StatementFails, Crash, vars

(* However many drivers accept at once, the first claim stands.            *)
THEOREM ClaimStands == Spec => FirstClaimStands
<1>1. IInv /\ [Next]_vars =>
          [\A i \in Ids :
              ships[i].driver # None => ships'[i].driver = ships[i].driver]_vars
    BY DriverKept
<1> QED
    BY <1>1, Invariance, PTL DEF Spec, FirstClaimStands

(* Only a call of its own customer cancels a shipment, although the UPDATE *)
(* names the row by its id alone.                                          *)
THEOREM OwnerCancels == Spec => CancelledByOwner
<1> DEFINE Mine ==
        \A i \in Ids :
            ships[i].status # "cancelled" /\ ships'[i].status = "cancelled" =>
                \E r \in Reqs : /\ At(r, "cancel") /\ Id(r) = i
                                /\ Customer(r) = ships[i].customer
<1>1. ASSUME IInv, [Next]_vars PROVE [Mine]_vars
    <2> USE <1>1, ShipmentsAssumption DEF IInv, TInv, TypeOK
    <2>1. ASSUME NEW r \in Reqs, InsertRow(r)
          PROVE  \A i \in Ids : ships'[i].status = ships[i].status
        BY <2>1 DEF InsertRow, Rows
    <2>2. ASSUME NEW r \in Reqs, SetCancelled(r) PROVE Mine
        <3>1. \A i \in Ids : i # Id(r) => ships'[i] = ships[i]
            BY <2>2 DEF SetCancelled, Cancelled
        <3>2. At(r, "cancel") /\ Customer(r) = ships[Id(r)].customer
            BY <2>2 DEF SetCancelled, FoundStands
        <3> QED
            BY <3>1, <3>2
    <2>3. ASSUME NEW r \in Reqs, Claim(r)
          PROVE  \A i \in Ids : ships'[i].status \in {ships[i].status, "assigned"}
        BY <2>3 DEF Claim, Claimed, Rows
    <2>4. ASSUME NEW r \in Reqs, SetMoved(r)
          PROVE  \A i \in Ids : ships'[i].status \in
                     {ships[i].status, "at_warehouse", "out_for_delivery"}
        BY <2>4 DEF SetMoved, Moved, Rows
    <2>5. CASE ships' = ships
        BY <2>5
    <2> QED
        BY <2>1, <2>2, <2>3, <2>4, <2>5
        DEF Next, Statement, Receive, FindOwn, FindProfile, InsertProfile, FindDriver,
            FindParcel, Respond, StatementFails, Crash, vars
<1> QED
    BY <1>1, Invariance, PTL DEF Spec, CancelledByOwner
===============================================================================
