------------------------------- MODULE Office -------------------------------
(***************************************************************************)
(* The administrators' reports, admin_service.go and fleet_service.go.     *)
(* A report is a list of figures, each counted by a statement of its own   *)
(* outside any transaction, with its error dropped, while the other        *)
(* services go on writing the tables.                                      *)
(*                                                                         *)
(* A row is the set of tags that some WHERE clause asks for.  A sum of     *)
(* amounts is counted like the rows it adds up.                            *)
(***************************************************************************)
EXTENDS Orders

VARIABLE tables    \* tables[t]: the rows of the tables that are not orders

(* What the services that insert into these tables store, as far as a      *)
(* report asks for it: a new user is a customer, a new driver off line.    *)
NewUser      == {}
NewShipment  == {"pending", "today"}
NewDriver    == {}
NewVehicle   == {"active"}
NewWarehouse == {"active"}

NewRow == [users      |-> NewUser,
           shipments  |-> NewShipment,
           drivers    |-> NewDriver,
           vehicles   |-> NewVehicle,
           warehouses |-> NewWarehouse]

(* The tag that later writes put on a row or take from it.                 *)
Switch == [users      |-> "driver",
           shipments  |-> "pending",
           drivers    |-> "online",
           vehicles   |-> "active"]

(* The tags of an order are told apart by their names.                     *)
ASSUME OfficeAssumption ==
    \A desk \in Desks : \A form \in Forms[desk] :
        form.mode \notin {"delivered", "cancelled", "terminal"}

OfficeInit == tables = [t \in DOMAIN NewRow |-> <<>>]

OfficeTypeOK ==
    \A t \in DOMAIN NewRow : \A k \in DOMAIN tables[t] :
        tables[t][k] \subseteq {"pending", "today", "driver", "online", "active"}

OrderTags(o) ==
    {o.status, o.mode} \cup (IF o.status \in Terminal THEN {"terminal"} ELSE {})

TableRows(t) ==
    IF t \in Desks THEN [k \in DOMAIN orders[t] |-> OrderTags(orders[t][k])]
                   ELSE tables[t]

(* SELECT count( * ) with the WHERE clause of the figure.                  *)
Count(figure) ==
    LET table == TableRows(figure[1])
    IN  Cardinality({k \in DOMAIN table : figure[2] \in table[k] \cup {"all"}})
-----------------------------------------------------------------------------
(* Plausible slips in the reports, each used by one mutant.                *)
DashboardOfDrivers ==
    << <<"drivers", "all">>,    <<"users", "driver">>,
       <<"shipments", "all">>,  <<"shipments", "pending">>,
       <<"drivers", "online">>, <<"drivers", "online">>,
       <<"warehouses", "active">>, <<"shipments", "all">>,
       <<"shipments", "today">>, <<"shipments", "today">> >>

AnalyticsUnfiltered ==
    << <<"shipments", "today">>, <<"courier", "all">>, <<"logistics", "all">>,
       <<"drivers", "online">>, <<"courier", "all">>, <<"courier", "terminal">>,
       <<"courier", "all">>, <<"courier", "all">>, <<"courier", "all">>,
       <<"logistics", "air">>, <<"logistics", "ocean">>, <<"courier", "all">> >>

Dashboard ==
    << <<"users", "all">>,      <<"users", "driver">>,
       <<"shipments", "all">>,  <<"shipments", "pending">>,
       <<"drivers", "online">>, <<"drivers", "online">>,
       <<"warehouses", "active">>,
       <<"shipments", "all">>,                               \* revenue
       <<"shipments", "today">>, <<"shipments", "today">> >> \* revenue

(* No transport mode is seeded under the name "ocean".                     *)
Analytics ==
    << <<"shipments", "today">>,
       <<"courier", "all">>, <<"logistics", "all">>,         \* revenue
       <<"drivers", "online">>,
       <<"courier", "delivered">>, <<"courier", "terminal">>,
       <<"courier", "all">>, <<"courier", "all">>,           \* last 7 days
       <<"courier", "all">>,                                 \* the mode split
       <<"logistics", "air">>, <<"logistics", "ocean">>,
       <<"courier", "all">> >>                               \* top routes

(* The count of due maintenance compares a text with a timestamp, which    *)
(* PostgreSQL refuses: its figure stays 0 and is left out.                 *)
FleetSummary ==
    << <<"vehicles", "all">>, <<"vehicles", "active">>, <<"drivers", "online">> >>

Reports == [dashboard |-> Dashboard, analytics |-> Analytics, fleet |-> FleetSummary]

AskReport(op) ==
    /\ Spend(1)
    /\ Receive([op |-> op, pc |-> "count", figures |-> <<>>,
                failed |-> FALSE, grew |-> 0])
    /\ UNCHANGED <<orderVars, tables>>

Reporting(i) == Open(i) /\ go[i].op \in DOMAIN Reports

NextFigure(i) == Reports[go[i].op][Len(go[i].figures) + 1]

Put(i, value, failed) ==
    LET figures == Append(go[i].figures, value) IN
        go' = [go EXCEPT
                 ![i].figures = figures,
                 ![i].failed = @ \/ failed,
                 ![i].pc = IF Len(figures) = Len(Reports[go[i].op]) THEN "done"
                                                                   ELSE @]

CountFigure(i) ==
    /\ Reporting(i)
    /\ Put(i, Count(NextFigure(i)), FALSE)
    /\ UNCHANGED <<budget, orderVars, tables>>

(* A statement that fails leaves its figure 0; the revenue of today is     *)
(* scanned into the variable that still holds all revenue.                 *)
CountFails(i) ==
    /\ Reporting(i)
    /\ Spend(1)
    /\ Put(i, IF go[i].op = "dashboard" /\ Len(go[i].figures) = 9
              THEN go[i].figures[8] ELSE 0, TRUE)
    /\ UNCHANGED <<orderVars, tables>>
-----------------------------------------------------------------------------
(* The other services insert a row, which the open reports note, or change *)
(* one: a role is selected, a driver goes on or off line, a shipment is no *)
(* longer pending, a vehicle is put in or out of service.                  *)
Grown == [i \in DOMAIN go |->
             IF Reporting(i) THEN [go[i] EXCEPT !.grew = @ + 1] ELSE go[i]]

InsertedRow ==
    /\ \E t \in DOMAIN NewRow :
          tables' = [tables EXCEPT ![t] = Append(@, NewRow[t])]
    /\ go' = Append(Grown, [op |-> "write", pc |-> "done"])

ChangedRow ==
    /\ \E t \in DOMAIN Switch : \E k \in DOMAIN tables[t] :
        /\ t = "shipments" => Switch[t] \in tables[t][k]
        /\ tables' = [tables EXCEPT ![t][k] = SymDiff(@, {Switch[t]})]
    /\ go' = Append(go, [op |-> "write", pc |-> "done"])

WriteRow ==
    /\ Serves("write")
    /\ Spend(1)
    /\ InsertedRow \/ ChangedRow
    /\ UNCHANGED orderVars

OfficeNext ==
    \/ \E op \in DOMAIN Reports : AskReport(op)
    \/ WriteRow
    \/ \E i \in DOMAIN go : CountFigure(i) \/ CountFails(i)
-----------------------------------------------------------------------------
(* <<whole, part>>: the figures of a report that are shown as part of one  *)
(* another, the whole counted first.                                       *)
Parts == [dashboard |-> {<<1, 2>>, <<3, 4>>, <<3, 9>>, <<8, 10>>},
          fleet     |-> {<<1, 2>>}]

(* Drivers among users, pending and today's among shipments, vehicles in   *)
(* service: a report whose statements all succeeded shows no more of a     *)
(* part than of the whole, but for rows that were added while it ran.      *)
PartsWithinWhole ==
    \A i \in DOMAIN go :
        go[i].op \in DOMAIN Parts /\ go[i].pc = "done" /\ ~go[i].failed =>
            \A p \in Parts[go[i].op] :
                go[i].figures[p[2]] <= go[i].figures[p[1]] + go[i].grew

(* The on-time rate is one, even if statements fail: delivered orders are  *)
(* counted before the finished ones they are divided by, and a delivered   *)
(* order never becomes unfinished.                                         *)
OnTimeIsARate ==
    \A i \in DOMAIN go :
        LET f == go[i].figures IN
            go[i].op = "analytics" /\ go[i].pc = "done" /\ f[6] > 0
                => f[5] <= f[6]
=============================================================================
