------------------------------- MODULE Orders -------------------------------
(***************************************************************************)
(* The courier and the logistics desk, courier_service.go and              *)
(* logistics_service.go, and the pricing handler, which all ask the        *)
(* pricing engine.  The catalog rows that the engine looks up are those    *)
(* which the start-up left in the tables.                                  *)
(*                                                                         *)
(* A form is what a client fills in, with the fields of                    *)
(* pricing.EstimateRequest; at the logistics desk from and to name ports.  *)
(* The lookups of one estimate are one step, as nothing writes those       *)
(* tables while the process serves.  An order keeps the fields that some   *)
(* statement reads again.                                                  *)
(***************************************************************************)
EXTENDS Calls, Pricing

CONSTANTS
    Customers,
    Bookers,        \* bound: those of the customers who book
    TrackingNos,    \* the numbers that newTrackingID draws from
    PageAsks,       \* the pages and limits that are asked for
    Forms,          \* Forms[desk]: the forms that clients fill in
    CityWithId      \* the city whose id is that of a port

ASSUME OrdersAssumption ==
    /\ Bookers \subseteq Customers
    /\ TrackingNos \subseteq Nat
    /\ \A ask \in PageAsks : ask.page \in Int /\ ask.limit \in Int

(* The ids that name a city, and None for every id that names no row.      *)
CityIds == {None} \cup {e.key : e \in {e \in Catalog : e.table = "cities"}}

(* A distance is not negative; measures are numbers, of which the handlers *)
(* refuse no negative volume or declared value; a port's id may be the id  *)
(* of any city.                                                            *)
ASSUME FormsAssumption ==
    /\ \A a \in Located, b \in CityIds \ {None} : RoadKm[<<a, b>>] \in Nat
    /\ \A p \in DOMAIN CityWithId : CityWithId[p] \in CityIds
    /\ \A desk \in {"courier", "logistics", "pricing"} : \A form \in Forms[desk] :
          LET Places == IF desk = "logistics" THEN DOMAIN CityWithId ELSE CityIds
          IN  form \in [ mode : {form.mode}, kg : Int, vol : Int,
                         from : Places, to : Places, goods : {form.goods},
                         vehicle : {form.vehicle}, declared : Int,
                         insured : BOOLEAN, fragile : BOOLEAN, express : BOOLEAN ]

VARIABLES
    orders,    \* orders[desk]: the rows of the desk's table, oldest first
    priced     \* history: the prices that were answered

orderVars == <<orders, priced>>

Desks == {"courier", "logistics"}
Prefix == [courier |-> "JDC", logistics |-> "JDL"]
FirstStatus == [courier |-> "booked", logistics |-> "draft"]
Terminal == {"delivered", "cancelled"}

OrdersInit ==
    /\ orders = [d \in Desks |-> <<>>]
    /\ priced = {}

OrdersTypeOK ==
    \A d \in Desks : \A i \in DOMAIN orders[d] :
        LET o == orders[d][i] IN
            /\ o.tracking \in {Prefix[d]} \X TrackingNos
            /\ o.by \in Bookers
            /\ o.status \in {FirstStatus[d]} \cup Terminal
            /\ o.total > 0

(* How many of these rows were inserted after row k.                       *)
Newer(k, all) == Cardinality({j \in all : j > k})
-----------------------------------------------------------------------------
(* Plausible slips in the code below, each used by one mutant.             *)
LogisticsBookingByRoad(form) ==
    [form EXCEPT !.mode = RoadIfEmpty(@), !.from = None, !.to = None,
                 !.vehicle = None, !.express = FALSE, !.fragile = FALSE]
TakenNever(tracking, desk) == FALSE
CancellableOnce(o) == o.status # "cancelled"
PageFromOne(call, all) ==
    {k \in all : Newer(k, all) \in call.page * call.limit .. Cardinality(all)}
-----------------------------------------------------------------------------
(* What each handler makes of a form before it asks the engine.            *)
SeaIfEmpty(mode) == IF mode = "" THEN "sea" ELSE mode

CourierQuote(form) == [form EXCEPT !.mode = "road", !.vol = 0]

(* An express parcel can be quoted and not booked.                         *)
CourierBooking(form) == [CourierQuote(form) EXCEPT !.express = FALSE]

Cargo(form) == [form EXCEPT !.mode = SeaIfEmpty(@), !.vehicle = None,
                            !.express = FALSE, !.fragile = FALSE]

(* The quote passes the ids of the ports as ids of cities, the booking     *)
(* passes no city at all.                                                  *)
LogisticsQuote(form) ==
    [Cargo(form) EXCEPT !.from = CityWithId[@], !.to = CityWithId[@]]

LogisticsBooking(form) == [Cargo(form) EXCEPT !.from = None, !.to = None]

OneLeg(form) ==
    [ legs |-> << [mode |-> form.mode, from |-> form.from, to |-> form.to] >>,
      kg |-> form.kg, vol |-> form.vol,
      declared |-> form.declared, insured |-> form.insured ]

Request(kind, desk, form) ==
    CASE desk = "courier" /\ kind = "quote"     -> CourierQuote(form)
      [] desk = "courier" /\ kind = "booking"   -> CourierBooking(form)
      [] desk = "logistics" /\ kind = "quote"   -> LogisticsQuote(form)
      [] desk = "logistics" /\ kind = "booking" -> LogisticsBooking(form)
      [] OTHER                                  -> form

Bill(kind, request, found) ==
    IF kind = "legs" THEN EstimateMultiModal(OneLeg(request), found)
                     ELSE Estimate(request, found)

(* The rows that the lookups of a request find if none of them fails.      *)
Findable(request) ==
    {request.from, request.to, request.goods, request.vehicle}
        \cap {e.key : e \in {e \in Catalog : rows[e] > 0}}

Answer(kind, desk, form, lost) ==
    LET request == Request(kind, desk, form)
        found   == Findable(request) \ lost
    IN  [ desk  |-> desk,
          form  |-> form,
          clean |-> clean /\ lost = {},
          total |-> Bill(kind, request, found).total ]
-----------------------------------------------------------------------------
(* POST /courier/estimate, /logistics/estimate, /pricing/estimate and      *)
(* /pricing/multi-modal: nothing is stored.                                *)
Quote(desk, kind, form, lost) ==
    /\ form.kg > 0
    /\ Receive([op |-> kind, pc |-> "done"])
    /\ priced' = priced \cup {Answer(kind, desk, form, lost)}
    /\ UNCHANGED orders

(* CreateOrder up to the INSERT: the tracking number is drawn, the price   *)
(* is asked for.  Numbers are only compared: with calls before this one, a *)
(* number at most one higher is as good as any other.                      *)
Book(desk, kind, form, lost) ==
    /\ form.kg > 0
    /\ \E c \in Bookers, n \in TrackingNos \cap 1 .. Len(go) + 1 :
          Receive([op |-> kind, pc |-> "insert", desk |-> desk, by |-> c,
                   tracking |-> <<Prefix[desk], n>>, mode |-> form.mode,
                   answer |-> Answer(kind, desk, form, lost)])
    /\ UNCHANGED orderVars

Kinds == [courier   |-> {"quote", "booking"},
          logistics |-> {"quote", "booking"},
          pricing   |-> {"single", "legs"}]

Ask(desk, kind, form, lost) ==
    IF kind = "booking" THEN Book(desk, kind, form, lost)
                        ELSE Quote(desk, kind, form, lost)

AskDesk ==
    /\ Spend(1)
    /\ \E desk \in DOMAIN Kinds : \E kind \in Kinds[desk], form \in Forms[desk] :
          Ask(desk, kind, form, {})

(* A lookup that fails is not noticed: the engine takes its default.       *)
AskDeskLookupsFail ==
    /\ Spend(2)
    /\ \E desk \in DOMAIN Kinds : \E kind \in Kinds[desk], form \in Forms[desk] :
          \E lost \in SUBSET Findable(Request(kind, desk, form)) :
              lost # {} /\ Ask(desk, kind, form, lost)

Taken(tracking, desk) ==
    \E i \in DOMAIN orders[desk] : orders[desk][i].tracking = tracking

NewOrder(call) ==
    [ tracking |-> call.tracking,
      by       |-> call.by,
      mode     |-> call.mode,
      status   |-> FirstStatus[call.desk],
      total    |-> call.answer.total ]

(* The INSERT, which the unique index on the tracking id may refuse: the   *)
(* answer is then an error, and no other number is tried.                  *)
InsertOrder(i) ==
    LET call == go[i] IN
        /\ IsAt(i, "booking", "insert")
        /\ IF Taken(call.tracking, call.desk) THEN UNCHANGED orderVars
           ELSE /\ orders' = [orders EXCEPT ![call.desk] = Append(@, NewOrder(call))]
                /\ priced' = priced \cup {call.answer}
        /\ Goto(i, "done")
        /\ UNCHANGED budget
-----------------------------------------------------------------------------
(* CancelOrder, and whether the order was delivered before the call came.  *)
Cancel ==
    \E c \in Customers, k \in DOMAIN orders.courier :
        /\ Spend(1)
        /\ Receive([op |-> "cancel", pc |-> "load", by |-> c, order |-> k,
                    late |-> orders.courier[k].status = "delivered"])
        /\ UNCHANGED orderVars

Cancellable(o) == o.status \notin Terminal

LoadOrder(i) ==
    /\ IsAt(i, "cancel", "load")
    /\ LET o == orders.courier[go[i].order] IN
           Goto(i, IF o.by = go[i].by /\ Cancellable(o) THEN "update" ELSE "done")
    /\ UNCHANGED <<orderVars, budget>>

UpdateOrder(i) ==
    /\ IsAt(i, "cancel", "update")
    /\ orders' = [orders EXCEPT !.courier[go[i].order].status = "cancelled"]
    /\ Goto(i, "done")
    /\ UNCHANGED <<priced, budget>>

(* The back office: the code reads this status and never writes it.        *)
Deliver ==
    /\ \E k \in DOMAIN orders.courier :
        /\ orders.courier[k].status = "booked"
        /\ orders' = [orders EXCEPT !.courier[k].status = "delivered"]
    /\ UNCHANGED <<priced, callVars>>
-----------------------------------------------------------------------------
(* ListOrders: Count, then Find with an offset, newest first.              *)
PageOf(page) == IF page < 1 THEN 1 ELSE page
LimitOf(limit) == IF limit < 1 \/ limit > 100 THEN 20 ELSE limit

List ==
    \E d \in Desks, c \in Customers, ask \in PageAsks :
      \E status \in {"", FirstStatus[d]} :
        /\ Spend(1)
        /\ Receive([op |-> "list", pc |-> "count", desk |-> d, by |-> c,
                    status |-> status,
                    page |-> PageOf(ask.page), limit |-> LimitOf(ask.limit),
                    total |-> 0, found |-> {}])
        /\ UNCHANGED orderVars

(* The rows that the WHERE clauses of both statements let through.         *)
Selected(call) ==
    {k \in DOMAIN orders[call.desk] :
        LET o == orders[call.desk][k]
        IN  o.by = call.by /\ call.status \in {"", o.status}}

(* ORDER BY created_at DESC, OFFSET and LIMIT: a page is the rows before   *)
(* which that many newer ones come.                                        *)
PageIn(call, all) ==
    LET offset == (call.page - 1) * call.limit
    IN  {k \in all : Newer(k, all) \in offset .. offset + call.limit - 1}

CountOrders(i) ==
    /\ IsAt(i, "list", "count")
    /\ go' = [go EXCEPT ![i].total = Cardinality(Selected(go[i])), ![i].pc = "find"]
    /\ UNCHANGED <<orderVars, budget>>

FindOrders(i) ==
    /\ IsAt(i, "list", "find")
    /\ go' = [go EXCEPT ![i].found = PageIn(go[i], Selected(go[i])), ![i].pc = "done"]
    /\ UNCHANGED <<orderVars, budget>>

(* A statement that fails ends the call with an error.                     *)
OrderFails(i) ==
    /\ Open(i)
    /\ go[i].op \in {"booking", "cancel", "list"}
    /\ Spend(1)
    /\ Goto(i, "gone")
    /\ UNCHANGED orderVars

OrdersNext ==
    \/ AskDesk \/ AskDeskLookupsFail
    \/ Cancel \/ List \/ Deliver
    \/ \E i \in DOMAIN go :
          InsertOrder(i) \/ LoadOrder(i) \/ UpdateOrder(i)
              \/ CountOrders(i) \/ FindOrders(i) \/ OrderFails(i)
-----------------------------------------------------------------------------
(* Where the code promises one price: a parcel that is not express, cargo  *)
(* by air or sea, and one leg by air or sea that needs no handling.        *)
Comparable(desk, form) ==
    CASE desk = "courier"   -> ~form.express
      [] desk = "logistics" -> SeaIfEmpty(form.mode) \in {"air", "sea"}
      [] OTHER              -> /\ form.mode \in {"air", "sea"}
                               /\ form.goods \notin HighRisk
                               /\ ~form.fragile
                               /\ ~form.express

(* A form has the same price whether it is quoted or booked, or asked for  *)
(* as a single estimate or as a journey of one leg, by whichever processes *)
(* answer, as long as they and their lookups met no error.                 *)
OnePrice ==
    \A p, q \in priced :
        /\ p.desk = q.desk
        /\ p.form = q.form
        /\ p.clean /\ q.clean
        /\ Comparable(p.desk, p.form)
        => p.total = q.total

(* A tracking id names one order of the two desks, although each table has *)
(* its own index and the numbers are drawn at random.                      *)
TrackingNamesOneOrder ==
    \A d, e \in Desks :
        \A i \in DOMAIN orders[d], j \in DOMAIN orders[e] :
            orders[d][i].tracking = orders[e][j].tracking => d = e /\ i = j

(* A page of all orders is never shorter than the total it comes with says *)
(* although other calls book orders between the two statements.            *)
PageFull ==
    \A i \in DOMAIN go :
        go[i].op = "list" /\ go[i].pc = "done" /\ go[i].status = "" =>
            LET left == go[i].total - (go[i].page - 1) * go[i].limit
            IN  Cardinality(go[i].found) >= (IF left < go[i].limit THEN left ELSE go[i].limit)

(* An order that was delivered before a cancel call came stays delivered:  *)
(* only a call that was already under way can still cancel it.             *)
DeliveredStands ==
    [][\A k \in DOMAIN orders.courier :
          orders.courier[k].status = "delivered" =>
              \/ orders'.courier[k].status = "delivered"
              \/ \E i \in DOMAIN go :
                    go[i].op = "cancel" /\ go[i].order = k /\ ~go[i].late
      ]_orderVars
=============================================================================
