--------------------------- MODULE BackendProofs ----------------------------
(***************************************************************************)
(* The serving process with any number of calls, orders, rows and users.   *)
(*                                                                         *)
(* The services share the process and the list of calls, and nothing else: *)
(* Within says that a step of one service leaves the calls of the others   *)
(* alone.  What a property needs is then an invariant of one service's     *)
(* tables and of the locals of its own calls.                              *)
(***************************************************************************)
EXTENDS Backend, StartupProofs, FiniteSetTheorems

OrderOps == {"quote", "single", "legs", "booking", "cancel", "list"}
OfficeOps == {"dashboard", "analytics", "fleet", "write"}
ProfileOps == {"getProfile", "updateProfile"}

IsRecord(g, fields) == g = [x \in DOMAIN g |-> g[x]] /\ fields \subseteq DOMAIN g

(* The locals that the calls of each operation have.                       *)
CallOK(g) ==
    /\ IsRecord(g, {"op", "pc"})
    /\ g.op = "booking" => IsRecord(g, {"desk", "by", "tracking", "mode", "answer"})
    /\ g.op = "cancel" => IsRecord(g, {"by", "order", "late"})
    /\ g.op = "list" =>
           IsRecord(g, {"desk", "by", "status", "page", "limit", "total", "found"})
    /\ g.op \in {"dashboard", "analytics", "fleet"} =>
           IsRecord(g, {"figures", "failed", "grew"})
    /\ g.op \in ProfileOps => IsRecord(g, {"user", "address", "there", "failed"})

GoOK == IsSequence(go) /\ \A i \in DOMAIN go : CallOK(go[i])

(* A step that concerns only calls of these operations.                    *)
Within(ops) ==
    /\ IsSequence(go')
    /\ Len(go') \in {Len(go), Len(go) + 1}
    /\ \A i \in DOMAIN go :
          /\ CallOK(go'[i])
          /\ go'[i].op = go[i].op
          /\ go[i].op \notin ops => go'[i] = go[i]
    /\ \A i \in DOMAIN go' \ DOMAIN go : CallOK(go'[i]) /\ go'[i].op \in ops
-----------------------------------------------------------------------------
LEMMA SequenceFacts ==
    ASSUME NEW s, IsSequence(s), NEW x
    PROVE  /\ Len(s) \in Nat
           /\ DOMAIN s = 1 .. Len(s)
           /\ IsSequence(Append(s, x))
           /\ Len(Append(s, x)) = Len(s) + 1
           /\ DOMAIN Append(s, x) = 1 .. Len(s) + 1
           /\ \A i \in DOMAIN s : Append(s, x)[i] = s[i]
           /\ Append(s, x)[Len(s) + 1] = x
           /\ \A i \in DOMAIN s :
                 /\ IsSequence([s EXCEPT ![i] = x])
                 /\ Len([s EXCEPT ![i] = x]) = Len(s)
                 /\ DOMAIN [s EXCEPT ![i] = x] = DOMAIN s
                 /\ [s EXCEPT ![i] = x][i] = x
                 /\ \A j \in DOMAIN s \ {i} : [s EXCEPT ![i] = x][j] = s[j]
<1>1. PICK S : s \in Seq(S)
  BY DEF IsSequence
<1>2. s \in Seq(S \cup {x})
  BY <1>1
<1>3. Append(s, x) \in Seq(S \cup {x})
  BY <1>2
<1>4. \A i \in DOMAIN s : [s EXCEPT ![i] = x] \in Seq(S \cup {x})
  BY <1>2
<1>5. IsSequence(Append(s, x)) /\ \A i \in DOMAIN s : IsSequence([s EXCEPT ![i] = x])
  BY <1>3, <1>4 DEF IsSequence
<1> QED BY <1>2, <1>5

LEMMA Unmoved ==
    ASSUME GoOK, UNCHANGED go, NEW ops
    PROVE  Within(ops)
BY SequenceFacts DEF GoOK, Within

LEMMA OneMore ==
    ASSUME GoOK, NEW call, CallOK(call), go' = Append(go, call),
           NEW ops, call.op \in ops
    PROVE  Within(ops)
<1>1. /\ Len(go) \in Nat
      /\ DOMAIN go = 1 .. Len(go)
      /\ IsSequence(go')
      /\ Len(go') = Len(go) + 1
      /\ DOMAIN go' = 1 .. Len(go) + 1
      /\ \A i \in DOMAIN go : go'[i] = go[i]
      /\ go'[Len(go) + 1] = call
  BY SequenceFacts DEF GoOK
<1>2. \A i \in DOMAIN go' \ DOMAIN go : i = Len(go) + 1
  BY <1>1
<1> QED BY <1>1, <1>2 DEF GoOK, Within

LEMMA OneChanged ==
    ASSUME GoOK, NEW i \in DOMAIN go, NEW call, CallOK(call),
           call.op = go[i].op, go' = [go EXCEPT ![i] = call],
           NEW ops, call.op \in ops
    PROVE  Within(ops)
<1>1. /\ IsSequence(go')
      /\ Len(go') = Len(go)
      /\ DOMAIN go' = DOMAIN go
      /\ go'[i] = call
      /\ \A j \in DOMAIN go \ {i} : go'[j] = go[j]
  BY SequenceFacts DEF GoOK
<1> QED BY <1>1 DEF GoOK, Within

(* A call that moves on to another statement.                              *)
LEMMA Gone ==
    ASSUME GoOK, NEW i \in DOMAIN go, NEW pc, Goto(i, pc),
           NEW ops, go[i].op \in ops
    PROVE  /\ Within(ops)
           /\ go'[i] = [go[i] EXCEPT !.pc = pc]
           /\ \A j \in DOMAIN go \ {i} : go'[j] = go[j]
           /\ DOMAIN go' = DOMAIN go
<1> DEFINE call == [go[i] EXCEPT !.pc = pc]
<1>1. CallOK(go[i])
  BY DEF GoOK
<1>2. /\ DOMAIN call = DOMAIN go[i]
      /\ call = [x \in DOMAIN call |-> call[x]]
      /\ call.op = go[i].op
  BY <1>1 DEF CallOK, IsRecord
<1>3. CallOK(call)
  BY <1>1, <1>2 DEF CallOK, IsRecord
<1>4. go' = [go EXCEPT ![i] = call]
  BY DEF Goto
<1> HIDE DEF call
<1>5. Within(ops)
  BY <1>2, <1>3, <1>4, OneChanged
<1> QED BY <1>4, <1>5, SequenceFacts DEF GoOK, call

LEMMA ProfilesWithin ==
    ASSUME GoOK, ProfilesNext
    PROVE  Within(ProfileOps)
<1>1. CASE AskProfile
  <2>1. PICK u \in ProfileUsers, op \in {"getProfile", "updateProfile"},
             a \in Addresses :
          go' = Append(go, [op |-> op, pc |-> "find", user |-> u, address |-> a,
                            there |-> profiles[u] # "none", failed |-> FALSE])
    BY <1>1 DEF AskProfile, Receive
  <2> DEFINE call == [op |-> op, pc |-> "find", user |-> u, address |-> a,
                      there |-> profiles[u] # "none", failed |-> FALSE]
  <2>2. CallOK(call) /\ call.op \in ProfileOps
    BY DEF CallOK, IsRecord, ProfileOps
  <2> HIDE DEF call
  <2> QED BY <2>1, <2>2, OneMore DEF call
<1>2. ASSUME NEW i \in DOMAIN go, ProfileFails(i)
      PROVE  Within(ProfileOps)
  <2> DEFINE call == [go[i] EXCEPT !.failed = TRUE, !.pc = "done"]
  <2>1. go[i].op \in ProfileOps /\ CallOK(go[i])
    BY <1>2 DEF ProfileFails, ProfileCall, ProfileOps, GoOK
  <2>2. CallOK(call) /\ call.op = go[i].op
    BY <2>1 DEF CallOK, IsRecord, ProfileOps
  <2>3. go' = [go EXCEPT ![i] = call]
    BY <1>2 DEF ProfileFails
  <2> HIDE DEF call
  <2> QED BY <2>1, <2>2, <2>3, OneChanged
<1>3. ASSUME NEW i \in DOMAIN go,
             FindProfileRow(i) \/ CreateProfileRow(i) \/ SaveProfileRow(i)
      PROVE  Within(ProfileOps)
  <2>1. go[i].op \in ProfileOps
    BY <1>3 DEF FindProfileRow, CreateProfileRow, SaveProfileRow, ProfileCall, ProfileOps
  <2>2. PICK pc : Goto(i, pc)
    BY <1>3 DEF FindProfileRow, CreateProfileRow, SaveProfileRow
  <2> QED BY <2>1, <2>2, Gone
<1> QED BY <1>1, <1>2, <1>3 DEF ProfilesNext

LEMMA OrdersWithin ==
    ASSUME GoOK, OrdersNext
    PROVE  Within(OrderOps)
<1>1. ASSUME NEW desk, NEW kind \in {"quote", "single", "legs"}, NEW form, NEW lost,
             Quote(desk, kind, form, lost)
      PROVE  Within(OrderOps)
  <2> DEFINE call == [op |-> kind, pc |-> "done"]
  <2>1. go' = Append(go, call)
    BY <1>1 DEF Quote, Receive
  <2>2. CallOK(call) /\ call.op \in OrderOps
    BY DEF CallOK, IsRecord, OrderOps, ProfileOps
  <2> HIDE DEF call
  <2> QED BY <2>1, <2>2, OneMore
<1>2. ASSUME NEW desk, NEW form, NEW lost, Book(desk, "booking", form, lost)
      PROVE  Within(OrderOps)
  <2>1. PICK c \in Bookers, n \in TrackingNos \cap 1 .. Len(go) + 1 :
          go' = Append(go,
                  [op |-> "booking", pc |-> "insert", desk |-> desk, by |-> c,
                   tracking |-> <<Prefix[desk], n>>, mode |-> form.mode,
                   answer |-> Answer("booking", desk, form, lost)])
    BY <1>2 DEF Book, Receive
  <2> DEFINE call == [op |-> "booking", pc |-> "insert", desk |-> desk, by |-> c,
                      tracking |-> <<Prefix[desk], n>>, mode |-> form.mode,
                      answer |-> Answer("booking", desk, form, lost)]
  <2>2. CallOK(call) /\ call.op \in OrderOps
    BY DEF CallOK, IsRecord, OrderOps, ProfileOps
  <2> HIDE DEF call
  <2> QED BY <2>1, <2>2, OneMore DEF call
<1>3. ASSUME NEW desk \in DOMAIN Kinds, NEW kind \in Kinds[desk],
             NEW form, NEW lost, Ask(desk, kind, form, lost)
      PROVE  Within(OrderOps)
  <2>1. kind \in {"quote", "booking", "single", "legs"}
    BY DEF Kinds
  <2> QED BY <1>1, <1>2, <1>3, <2>1 DEF Ask
<1>4. CASE AskDesk
  BY <1>3, <1>4 DEF AskDesk
<1>5. CASE AskDeskLookupsFail
  BY <1>3, <1>5 DEF AskDeskLookupsFail
<1>6. CASE Cancel
  <2>1. PICK c \in Customers, k \in DOMAIN orders.courier :
          go' = Append(go,
                  [op |-> "cancel", pc |-> "load", by |-> c, order |-> k,
                   late |-> orders.courier[k].status = "delivered"])
    BY <1>6 DEF Cancel, Receive
  <2> DEFINE call == [op |-> "cancel", pc |-> "load", by |-> c, order |-> k,
                      late |-> orders.courier[k].status = "delivered"]
  <2>2. CallOK(call) /\ call.op \in OrderOps
    BY DEF CallOK, IsRecord, OrderOps, ProfileOps
  <2> HIDE DEF call
  <2> QED BY <2>1, <2>2, OneMore DEF call
<1>7. CASE List
  <2>1. PICK d \in Desks, c \in Customers, ask \in PageAsks :
          \E status \in {"", FirstStatus[d]} :
            go' = Append(go,
                    [op |-> "list", pc |-> "count", desk |-> d, by |-> c,
                     status |-> status,
                     page |-> PageOf(ask.page), limit |-> LimitOf(ask.limit),
                     total |-> 0, found |-> {}])
    BY <1>7 DEF List, Receive
  <2>2. PICK status :
            go' = Append(go,
                    [op |-> "list", pc |-> "count", desk |-> d, by |-> c,
                     status |-> status,
                     page |-> PageOf(ask.page), limit |-> LimitOf(ask.limit),
                     total |-> 0, found |-> {}])
    BY <2>1
  <2> DEFINE call == [op |-> "list", pc |-> "count", desk |-> d, by |-> c,
                      status |-> status,
                      page |-> PageOf(ask.page), limit |-> LimitOf(ask.limit),
                      total |-> 0, found |-> {}]
  <2>3. CallOK(call) /\ call.op \in OrderOps
    BY DEF CallOK, IsRecord, OrderOps, ProfileOps
  <2> HIDE DEF call
  <2> QED BY <2>2, <2>3, OneMore DEF call
<1>8. CASE Deliver
  BY <1>8, Unmoved DEF Deliver, callVars
<1>9. ASSUME NEW i \in DOMAIN go, InsertOrder(i) \/ LoadOrder(i) \/ UpdateOrder(i)
                                     \/ OrderFails(i)
      PROVE  Within(OrderOps)
  <2>1. go[i].op \in OrderOps
    BY <1>9 DEF InsertOrder, LoadOrder, UpdateOrder, OrderFails, IsAt, OrderOps
  <2>2. PICK pc : Goto(i, pc)
    BY <1>9 DEF InsertOrder, LoadOrder, UpdateOrder, OrderFails
  <2> QED BY <2>1, <2>2, Gone
<1>10. ASSUME NEW i \in DOMAIN go, CountOrders(i)
       PROVE  Within(OrderOps)
  <2> DEFINE call == [go[i] EXCEPT !.total = Cardinality(Selected(go[i])), !.pc = "find"]
  <2>1. go[i].op = "list" /\ CallOK(go[i])
    BY <1>10 DEF CountOrders, IsAt, GoOK
  <2>2. CallOK(call) /\ call.op = "list"
    BY <2>1 DEF CallOK, IsRecord, ProfileOps
  <2>3. go' = [go EXCEPT ![i] = call]
    BY <1>10 DEF CountOrders
  <2> HIDE DEF call
  <2> QED BY <2>1, <2>2, <2>3, OneChanged DEF OrderOps
<1>11. ASSUME NEW i \in DOMAIN go, FindOrders(i)
       PROVE  Within(OrderOps)
  <2> DEFINE call == [go[i] EXCEPT !.found = PageIn(go[i], Selected(go[i])),
                                   !.pc = "done"]
  <2>1. go[i].op = "list" /\ CallOK(go[i])
    BY <1>11 DEF FindOrders, IsAt, GoOK
  <2>2. CallOK(call) /\ call.op = "list"
    BY <2>1 DEF CallOK, IsRecord, ProfileOps
  <2>3. go' = [go EXCEPT ![i] = call]
    BY <1>11 DEF FindOrders
  <2> HIDE DEF call
  <2> QED BY <2>1, <2>2, <2>3, OneChanged DEF OrderOps
<1> QED BY <1>4, <1>5, <1>6, <1>7, <1>8, <1>9, <1>10, <1>11 DEF OrdersNext

LEMMA GrownFacts ==
    ASSUME GoOK
    PROVE  /\ IsSequence(Grown)
           /\ DOMAIN Grown = DOMAIN go
           /\ Len(Grown) = Len(go)
           /\ \A i \in DOMAIN go :
                 /\ CallOK(Grown[i])
                 /\ Grown[i].op = go[i].op
                 /\ go[i].op \notin OfficeOps => Grown[i] = go[i]
                 /\ Grown[i] = IF Reporting(i) THEN [go[i] EXCEPT !.grew = @ + 1]
                                               ELSE go[i]
<1> DEFINE T == {Grown[i] : i \in DOMAIN go}
<1>1. Len(go) \in Nat /\ DOMAIN go = 1 .. Len(go)
  BY SequenceFacts DEF GoOK
<1>2. DOMAIN Grown = DOMAIN go /\ Grown \in [1 .. Len(go) -> T]
  BY <1>1 DEF Grown
<1>3. Grown \in Seq(T) /\ Len(Grown) = Len(go)
  <2> HIDE DEF T, Grown
  <2> QED BY <1>1, <1>2
<1>4. IsSequence(Grown)
  <2> HIDE DEF T
  <2> QED BY <1>3 DEF IsSequence
<1>5. ASSUME NEW i \in DOMAIN go
      PROVE  /\ CallOK(Grown[i])
             /\ Grown[i].op = go[i].op
             /\ go[i].op \notin OfficeOps => Grown[i] = go[i]
  <2>1. CallOK(go[i])
    BY DEF GoOK
  <2>2. CASE Reporting(i)
    <3>1. Grown[i] = [go[i] EXCEPT !.grew = @ + 1]
      BY <2>2 DEF Grown
    <3>2. go[i].op \in {"dashboard", "analytics", "fleet"}
      BY <2>2 DEF Reporting, Reports
    <3> QED BY <2>1, <3>1, <3>2 DEF CallOK, IsRecord, OfficeOps, ProfileOps
  <2>3. CASE ~Reporting(i)
    BY <2>1, <2>3 DEF Grown
  <2> QED BY <2>2, <2>3
<1>6. \A i \in DOMAIN go :
          Grown[i] = IF Reporting(i) THEN [go[i] EXCEPT !.grew = @ + 1] ELSE go[i]
  BY DEF Grown
<1> QED BY <1>2, <1>3, <1>4, <1>5, <1>6

LEMMA PutWithin ==
    ASSUME GoOK, NEW i \in DOMAIN go, Reporting(i), NEW value, NEW failed,
           Put(i, value, failed)
    PROVE  /\ Within(OfficeOps)
           /\ go'[i].figures = Append(go[i].figures, value)
           /\ go'[i].failed = (go[i].failed \/ failed)
           /\ go'[i].grew = go[i].grew
           /\ go'[i].pc \in {go[i].pc, "done"}
           /\ go'[i].pc = "done" => Len(go'[i].figures) = Len(Reports[go[i].op])
           /\ \A j \in DOMAIN go \ {i} : go'[j] = go[j]
           /\ DOMAIN go' = DOMAIN go
<1> DEFINE figures == Append(go[i].figures, value)
           pc == IF Len(figures) = Len(Reports[go[i].op]) THEN "done" ELSE go[i].pc
           call == [go[i] EXCEPT !.figures = figures,
                                 !.failed = @ \/ failed, !.pc = pc]
<1>1. go[i].op \in {"dashboard", "analytics", "fleet"} /\ CallOK(go[i])
  BY DEF Reporting, Reports, GoOK
<1>2. go' = [go EXCEPT ![i] = call]
  BY DEF Put
<1> HIDE DEF figures, pc
<1>3. /\ CallOK(call) /\ call.op = go[i].op
      /\ call.figures = figures
      /\ call.failed = (go[i].failed \/ failed)
      /\ call.grew = go[i].grew
      /\ call.pc = pc
  BY <1>1 DEF CallOK, IsRecord, ProfileOps
<1> HIDE DEF call
<1>4. Within(OfficeOps)
  BY <1>1, <1>2, <1>3, OneChanged DEF OfficeOps
<1>5. /\ go'[i] = call
      /\ \A j \in DOMAIN go \ {i} : go'[j] = go[j]
      /\ DOMAIN go' = DOMAIN go
  BY <1>2, SequenceFacts DEF GoOK
<1>6. /\ pc \in {go[i].pc, "done"}
      /\ pc = "done" => Len(figures) = Len(Reports[go[i].op])
  BY DEF pc, Reporting, Open
<1> QED BY <1>3, <1>4, <1>5, <1>6 DEF figures

LEMMA OfficeWithin ==
    ASSUME GoOK, OfficeNext
    PROVE  Within(OfficeOps)
<1>1. ASSUME NEW op \in DOMAIN Reports, AskReport(op)
      PROVE  Within(OfficeOps)
  <2> DEFINE call == [op |-> op, pc |-> "count", figures |-> <<>>,
                      failed |-> FALSE, grew |-> 0]
  <2>1. go' = Append(go, call)
    BY <1>1 DEF AskReport, Receive
  <2>2. CallOK(call) /\ call.op \in OfficeOps
    BY DEF CallOK, IsRecord, OfficeOps, ProfileOps, Reports
  <2> HIDE DEF call
  <2> QED BY <2>1, <2>2, OneMore
<1>2. ASSUME NEW i \in DOMAIN go, CountFigure(i) \/ CountFails(i)
      PROVE  Within(OfficeOps)
  <2>1. Reporting(i)
    BY <1>2 DEF CountFigure, CountFails
  <2>2. \E value, failed : Put(i, value, failed)
    BY <1>2 DEF CountFigure, CountFails
  <2> QED BY <2>1, <2>2, PutWithin
<1>3. CASE WriteRow
  <2> DEFINE call == [op |-> "write", pc |-> "done"]
  <2>1. CallOK(call) /\ call.op \in OfficeOps
    BY DEF CallOK, IsRecord, OfficeOps, ProfileOps
  <2>2. CASE InsertedRow
    <3>1. go' = Append(Grown, call)
      BY <2>2 DEF InsertedRow
    <3> HIDE DEF call
    <3>2. /\ IsSequence(go')
          /\ Len(go') = Len(go) + 1
          /\ DOMAIN go' = 1 .. Len(go) + 1
          /\ \A i \in DOMAIN go : go'[i] = Grown[i]
          /\ go'[Len(go) + 1] = call
      BY <3>1, GrownFacts, SequenceFacts
    <3>3. \A i \in DOMAIN go' \ DOMAIN go : i = Len(go) + 1
      BY <3>2, SequenceFacts DEF GoOK
    <3> QED BY <2>1, <3>2, <3>3, GrownFacts DEF Within
  <2>3. CASE ChangedRow
    <3>1. go' = Append(go, call)
      BY <2>3 DEF ChangedRow
    <3> HIDE DEF call
    <3> QED BY <2>1, <3>1, OneMore
  <2> QED BY <1>3, <2>2, <2>3 DEF WriteRow
<1> QED BY <1>1, <1>2, <1>3 DEF OfficeNext

(* A process that dies ends the calls it was working on and no others.     *)
LEMMA Abandoned ==
    ASSUME GoOK, Abandon
    PROVE  /\ GoOK'
           /\ DOMAIN go' = DOMAIN go
           /\ \A i \in DOMAIN go :
                 \/ go[i].pc = "done" /\ go'[i] = go[i]
                 \/ go'[i] = [go[i] EXCEPT !.pc = "gone"]
<1> DEFINE Left(i) == IF go[i].pc = "done" THEN go[i]
                                          ELSE [go[i] EXCEPT !.pc = "gone"]
           T == {Left(i) : i \in DOMAIN go}
<1>1. Len(go) \in Nat /\ DOMAIN go = 1 .. Len(go)
  BY SequenceFacts DEF GoOK
<1>2. go' = [i \in DOMAIN go |-> Left(i)]
  BY DEF Abandon
<1>3. \A i \in DOMAIN go : CallOK(Left(i))
  <2> SUFFICES ASSUME NEW i \in DOMAIN go PROVE CallOK(Left(i))
    OBVIOUS
  <2>1. CallOK(go[i])
    BY DEF GoOK
  <2> QED BY <2>1 DEF CallOK, IsRecord, ProfileOps
<1>4. DOMAIN go' = DOMAIN go /\ \A i \in DOMAIN go : go'[i] = Left(i)
  BY <1>2
<1>5. go' \in [1 .. Len(go) -> T]
  BY <1>1, <1>2
<1>6. go' \in Seq(T)
  <2> HIDE DEF T
  <2> QED BY <1>1, <1>5
<1>7. IsSequence(go')
  <2> HIDE DEF T
  <2> QED BY <1>6 DEF IsSequence
<1> QED BY <1>3, <1>4, <1>7 DEF GoOK
-----------------------------------------------------------------------------
(* The calls keep the locals of their operations.                          *)
LEMMA GrowthOK ==
    ASSUME GoOK, NEW ops, Within(ops)
    PROVE  /\ GoOK'
           /\ DOMAIN go \subseteq DOMAIN go'
           /\ \A i \in DOMAIN go' \ DOMAIN go : i = Len(go) + 1
<1>1. DOMAIN go = 1 .. Len(go) /\ Len(go) \in Nat
  BY SequenceFacts DEF GoOK
<1>2. DOMAIN go' = 1 .. Len(go')
  BY SequenceFacts DEF Within
<1>3. Len(go') \in {Len(go), Len(go) + 1}
  BY DEF Within
<1>4. DOMAIN go \subseteq DOMAIN go' /\ \A i \in DOMAIN go' \ DOMAIN go : i = Len(go) + 1
  <2> DEFINE n == Len(go)
             m == Len(go')
  <2>1. n \in Nat /\ m \in {n, n + 1}
    BY <1>1, <1>3
  <2> HIDE DEF n, m
  <2>2. 1 .. n \subseteq 1 .. m /\ \A i \in (1 .. m) \ (1 .. n) : i = n + 1
    BY ONLY <2>1
  <2> QED BY <1>1, <1>2, <2>2 DEF n, m
<1>5. \A i \in DOMAIN go' : CallOK(go'[i])
  BY DEF Within
<1>6. GoOK'
  BY <1>5 DEF GoOK, Within
<1> QED BY <1>4, <1>6

(* Every step is one of start-up, the death of the process, or a step of   *)
(* one service that leaves the tables of the others alone.                 *)
LEMMA Steps ==
    ASSUME GoOK, [Next]_vars
    PROVE  \/ UNCHANGED <<go, dataVars>>
           \/ Abandon /\ UNCHANGED dataVars
           \/ OrdersNext /\ Within(OrderOps) /\ UNCHANGED <<tables, profiles>>
           \/ OfficeNext /\ Within(OfficeOps) /\ UNCHANGED <<orders, profiles>>
           \/ ProfilesNext /\ Within(ProfileOps) /\ UNCHANGED <<orderVars, tables>>
<1>1. CASE UNCHANGED vars
  BY <1>1 DEF vars, callVars, dataVars
<1>2. CASE Next
  <2>1. OfficeNext => UNCHANGED orders
    BY DEF OfficeNext, AskReport, WriteRow, CountFigure, CountFails, orderVars
  <2> QED BY <1>2, <2>1, OrdersWithin, OfficeWithin, ProfilesWithin
          DEF Next, callVars, dataVars, orderVars
<1> QED BY <1>1, <1>2

LEMMA GoOKKept ==
    ASSUME GoOK, [Next]_vars
    PROVE  GoOK'
<1>1. CASE UNCHANGED <<go, dataVars>>
  BY <1>1 DEF GoOK
<1>2. CASE Abandon
  BY <1>2, Abandoned
<1> QED BY <1>1, <1>2, Steps, GrowthOK

LEMMA GoOKAtFirst == Init => GoOK
<1>1. <<>> \in Seq({})
  OBVIOUS
<1> QED BY <1>1 DEF Init, GoOK, IsSequence

(* The serving process is a process of Startup: no call that it answers    *)
(* touches the tables that the seeds fill, or what start-up remembers.     *)
THEOREM BootRefined == Spec => BootSpec
<1>1. Init => BootInit
  BY DEF Init
<1>2. [Next]_vars => [BootNext]_bootVars
  BY DEF Next, vars, BootStep, BootNext, BootFails, bootVars
<1> QED BY <1>1, <1>2, PTL DEF Spec, BootSpec

(* So what start-up guarantees holds while the services write their own    *)
(* tables and however often the process dies with calls open.              *)
THEOREM SeedsHoldWhileServing ==
    Spec => [](NoOrphans /\ CleanStartComplete) /\ Idempotent
BY BootRefined, NoOrphanRows, CleanStartsComplete, SeedsAreIdempotent, PTL
-----------------------------------------------------------------------------
(* Profiles.  A row that is there stays, and never becomes blank again.    *)
ProfileCallOK(g) ==
    g.op \in ProfileOps =>
        /\ g.user \in ProfileUsers
        /\ g.address \in Addresses
        /\ g.there => profiles[g.user] # "none"
        /\ g.pc = "create" => ~g.there
        /\ g.pc \in {"find", "create", "save", "done", "gone"}
        /\ g.op = "updateProfile" /\ g.pc = "done" /\ g.there /\ ~g.failed
               => profiles[g.user] \in Addresses

ProfilesInv ==
    /\ GoOK
    /\ ProfilesTypeOK
    /\ \A i \in DOMAIN go : ProfileCallOK(go[i])

LEMMA ProfilesOnlyFill ==
    ASSUME ProfilesInv, ProfilesNext
    PROVE  /\ ProfilesTypeOK'
           /\ \A u \in ProfileUsers :
                 /\ profiles[u] # "none" => profiles'[u] # "none"
                 /\ profiles[u] \in Addresses => profiles'[u] \in Addresses
<1> USE DEF ProfilesInv, ProfilesTypeOK
<1>1. CASE UNCHANGED profiles
  BY <1>1
<1>2. ASSUME NEW i \in DOMAIN go, CreateProfileRow(i)
      PROVE  /\ ProfilesTypeOK'
             /\ \A u \in ProfileUsers :
                   /\ profiles[u] # "none" => profiles'[u] # "none"
                   /\ profiles[u] \in Addresses => profiles'[u] \in Addresses
  <2>1. go[i].user \in ProfileUsers
    BY <1>2 DEF CreateProfileRow, ProfileCall, ProfileCallOK, ProfileOps
  <2> QED BY <1>2, <2>1, ProfilesAssumption DEF CreateProfileRow, Create
<1>3. ASSUME NEW i \in DOMAIN go, SaveProfileRow(i)
      PROVE  /\ ProfilesTypeOK'
             /\ \A u \in ProfileUsers :
                   /\ profiles[u] # "none" => profiles'[u] # "none"
                   /\ profiles[u] \in Addresses => profiles'[u] \in Addresses
  <2>1. go[i].user \in ProfileUsers /\ go[i].address \in Addresses
    BY <1>3 DEF SaveProfileRow, ProfileCall, ProfileCallOK, ProfileOps
  <2> QED BY <1>3, <2>1, ProfilesAssumption DEF SaveProfileRow
<1> QED BY <1>1, <1>2, <1>3
        DEF ProfilesNext, AskProfile, FindProfileRow, ProfileFails

LEMMA ProfileStepsKept ==
    ASSUME ProfilesInv, ProfilesNext, Within(ProfileOps)
    PROVE  ProfilesInv'
<1> DEFINE Fill == \A u \in ProfileUsers :
                 /\ profiles[u] # "none" => profiles'[u] # "none"
                 /\ profiles[u] \in Addresses => profiles'[u] \in Addresses
<1>1. ProfilesTypeOK' /\ Fill
  BY ProfilesOnlyFill
<1>2. GoOK'
  BY GrowthOK DEF ProfilesInv
<1>3. ASSUME NEW j \in DOMAIN go, go'[j] = go[j]
      PROVE  ProfileCallOK(go[j])'
  <2>1. ProfileCallOK(go[j])
    BY DEF ProfilesInv
  <2> QED BY <1>1, <1>3, <2>1 DEF ProfileCallOK
<1> SUFFICES \A j \in DOMAIN go' : ProfileCallOK(go[j])'
  BY <1>1, <1>2 DEF ProfilesInv
<1>4. CASE AskProfile
  <2>1. PICK u \in ProfileUsers, op \in {"getProfile", "updateProfile"},
             a \in Addresses :
          go' = Append(go, [op |-> op, pc |-> "find", user |-> u, address |-> a,
                            there |-> profiles[u] # "none", failed |-> FALSE])
    BY <1>4 DEF AskProfile, Receive
  <2> DEFINE call == [op |-> op, pc |-> "find", user |-> u, address |-> a,
                      there |-> profiles[u] # "none", failed |-> FALSE]
  <2>2. /\ \A j \in DOMAIN go : go'[j] = go[j]
        /\ \A j \in DOMAIN go' \ DOMAIN go : go'[j] = call
    <3> HIDE DEF call
    <3> QED BY <2>1, SequenceFacts DEF ProfilesInv, GoOK, call
  <2>3. profiles' = profiles
    BY <1>4 DEF AskProfile
  <2>4. ASSUME NEW j \in DOMAIN go' \ DOMAIN go
        PROVE  ProfileCallOK(go[j])'
    <3>1. go'[j] = call
      BY <2>2
    <3>2. /\ go'[j].user = u /\ go'[j].address = a
          /\ go'[j].pc = "find" /\ go'[j].op = op
      BY <3>1
    <3>3. go'[j].there => profiles[u] # "none"
      <4>1. call.there = (profiles[u] # "none")
        OBVIOUS
      <4> HIDE DEF call
      <4> QED BY <3>1, <4>1, Zenon
    <3> QED BY <2>3, <3>2, <3>3 DEF ProfileCallOK
  <2> QED BY <1>3, <2>2, <2>4
<1>5. ASSUME NEW i \in DOMAIN go, NEW pc, Goto(i, pc), go[i].op \in ProfileOps,
             pc = "create" => ~go[i].there,
             pc \in {"create", "save", "done"},
             go[i].op = "updateProfile" /\ pc = "done" /\ go[i].there
                 => profiles'[go[i].user] \in Addresses
      PROVE  \A j \in DOMAIN go' : ProfileCallOK(go[j])'
  <2>1. /\ go'[i] = [go[i] EXCEPT !.pc = pc]
        /\ \A j \in DOMAIN go \ {i} : go'[j] = go[j]
        /\ DOMAIN go' = DOMAIN go
    BY <1>5, Gone DEF ProfilesInv
  <2>2. CallOK(go[i]) /\ ProfileCallOK(go[i])
    BY DEF ProfilesInv, GoOK
  <2>3. ProfileCallOK(go[i])'
    BY <1>1, <1>5, <2>1, <2>2 DEF ProfileCallOK, CallOK, IsRecord
  <2> QED BY <1>3, <2>1, <2>3
<1>6. ASSUME NEW i \in DOMAIN go, FindProfileRow(i)
      PROVE  \A j \in DOMAIN go' : ProfileCallOK(go[j])'
  <2> DEFINE pc == IF profiles[go[i].user] = "none" THEN "create" ELSE AfterFind(i)
  <2>1. Goto(i, pc) /\ go[i].op \in ProfileOps /\ ProfileCallOK(go[i])
    BY <1>6 DEF FindProfileRow, ProfileCall, ProfileOps, ProfilesInv
  <2>2. /\ pc = "create" => ~go[i].there
        /\ pc \in {"create", "save", "done"}
        /\ go[i].op = "updateProfile" => pc # "done"
    BY <2>1 DEF AfterFind, ProfileCallOK
  <2> HIDE DEF pc
  <2> QED BY <2>1, <2>2, <1>5
<1>7. ASSUME NEW i \in DOMAIN go, CreateProfileRow(i)
      PROVE  \A j \in DOMAIN go' : ProfileCallOK(go[j])'
  <2>1. PICK pc \in {"save", "done"} : Goto(i, pc)
    BY <1>7 DEF CreateProfileRow, AfterFind
  <2>2. go[i].op \in ProfileOps /\ ProfileCallOK(go[i]) /\ go[i].pc = "create"
    BY <1>7 DEF CreateProfileRow, ProfileCall, ProfileOps, ProfilesInv
  <2>3. ~go[i].there
    BY <2>2 DEF ProfileCallOK
  <2> QED BY <2>1, <2>2, <2>3, <1>5
<1>8. ASSUME NEW i \in DOMAIN go, SaveProfileRow(i)
      PROVE  \A j \in DOMAIN go' : ProfileCallOK(go[j])'
  <2>1. Goto(i, "done") /\ go[i].op \in ProfileOps /\ ProfileCallOK(go[i])
    BY <1>8 DEF SaveProfileRow, ProfileCall, ProfileOps, ProfilesInv
  <2>2. profiles'[go[i].user] \in Addresses
    BY <1>8, <2>1 DEF SaveProfileRow, ProfileCallOK, ProfilesInv, ProfilesTypeOK
  <2> QED BY <2>1, <2>2, <1>5
<1>9. ASSUME NEW i \in DOMAIN go, ProfileFails(i)
      PROVE  \A j \in DOMAIN go' : ProfileCallOK(go[j])'
  <2> DEFINE call == [go[i] EXCEPT !.failed = TRUE, !.pc = "done"]
  <2>1. go' = [go EXCEPT ![i] = call] /\ profiles' = profiles
    BY <1>9 DEF ProfileFails
  <2>2. CallOK(go[i]) /\ ProfileCallOK(go[i]) /\ go[i].op \in ProfileOps
    BY <1>9 DEF ProfileFails, ProfileCall, ProfileOps, ProfilesInv, GoOK
  <2>3. /\ go'[i] = call
        /\ \A j \in DOMAIN go \ {i} : go'[j] = go[j]
        /\ DOMAIN go' = DOMAIN go
    <3> HIDE DEF call
    <3> QED BY <2>1, SequenceFacts DEF ProfilesInv, GoOK
  <2>4. ProfileCallOK(go[i])'
    BY <2>1, <2>2, <2>3 DEF ProfileCallOK, CallOK, IsRecord
  <2> QED BY <1>3, <2>3, <2>4
<1> QED BY <1>4, <1>6, <1>7, <1>8, <1>9 DEF ProfilesNext

LEMMA ProfilesInvKept ==
    ASSUME ProfilesInv, [Next]_vars
    PROVE  ProfilesInv'
<1>1. ProfilesNext /\ Within(ProfileOps) => ProfilesInv'
  BY ProfileStepsKept
<1>2. CASE UNCHANGED <<go, dataVars>>
  BY <1>2 DEF ProfilesInv, GoOK, ProfilesTypeOK, ProfileCallOK, dataVars
<1>3. CASE Abandon /\ UNCHANGED dataVars
  <2>1. GoOK'
    BY <1>3, Abandoned DEF ProfilesInv
  <2>2. ASSUME NEW j \in DOMAIN go'
        PROVE  ProfileCallOK(go[j])'
    <3>1. j \in DOMAIN go /\ CallOK(go[j]) /\ ProfileCallOK(go[j])
      BY <1>3, Abandoned DEF ProfilesInv, GoOK
    <3>2. go'[j] = go[j] \/ go'[j] = [go[j] EXCEPT !.pc = "gone"]
      BY <1>3, <3>1, Abandoned DEF ProfilesInv
    <3> QED BY <1>3, <3>1, <3>2 DEF ProfileCallOK, CallOK, IsRecord, dataVars
  <2> QED BY <1>3, <2>1, <2>2 DEF ProfilesInv, ProfilesTypeOK, dataVars
<1>4. ASSUME NEW ops, Within(ops), ops \cap ProfileOps = {}, UNCHANGED profiles
      PROVE  ProfilesInv'
  <2>1. GoOK'
    BY <1>4, GrowthOK DEF ProfilesInv
  <2>2. ASSUME NEW j \in DOMAIN go', go'[j].op \in ProfileOps
        PROVE  j \in DOMAIN go /\ go'[j] = go[j]
    BY <1>4, <2>2 DEF Within
  <2>3. \A j \in DOMAIN go' : ProfileCallOK(go[j])'
    BY <1>4, <2>2 DEF ProfileCallOK, ProfilesInv
  <2> QED BY <1>4, <2>1, <2>3 DEF ProfilesInv, ProfilesTypeOK
<1>5. OrderOps \cap ProfileOps = {} /\ OfficeOps \cap ProfileOps = {}
  BY DEF OrderOps, OfficeOps, ProfileOps
<1> QED BY <1>1, <1>2, <1>3, <1>4, <1>5, Steps DEF ProfilesInv

LEMMA ProfilesInvHolds == Spec => []ProfilesInv
<1>1. Init => ProfilesInv
  BY GoOKAtFirst DEF Init, ProfilesInit, ProfilesInv, ProfilesTypeOK
<1> QED BY <1>1, ProfilesInvKept, PTL DEF Spec

(* An update of a row that was there when the call came, and none of whose *)
(* statements failed, is stored, and no other call puts the blank row of a *)
(* first visit over it.                                                    *)
THEOREM UpdatesKept == Spec => []UpdatesAreKept
<1>1. ProfilesInv => UpdatesAreKept
  BY DEF ProfilesInv, ProfileCallOK, UpdatesAreKept, ProfileOps
<1> QED BY <1>1, ProfilesInvHolds, PTL
-----------------------------------------------------------------------------
(* Orders.  A row keeps its place and its number; a delivered or cancelled *)
(* one stays one of the two.  A cancel call that came after the delivery   *)
(* finds the order finished, and never reaches its UPDATE.                 *)
Finished == Terminal \cup {"terminal"}

OrdersFit ==
    /\ orders = [d \in Desks |-> orders[d]]
    /\ \A d \in Desks :
          /\ IsSequence(orders[d])
          /\ \A k \in DOMAIN orders[d] :
                /\ IsRecord(orders[d][k], {"tracking", "status", "mode"})
                /\ orders[d][k].tracking[1] = Prefix[d]
                /\ orders[d][k].mode \notin Finished

OrderCallOK(g) ==
    /\ g.op = "booking" =>
          /\ g.desk \in Desks
          /\ g.tracking[1] = Prefix[g.desk]
          /\ g.mode \notin Finished
    /\ g.op = "cancel" =>
          /\ g.order \in DOMAIN orders.courier
          /\ g.late => orders.courier[g.order].status \in Terminal
          /\ g.pc = "update" => ~g.late

OrdersInv ==
    /\ GoOK
    /\ OrdersFit
    /\ TrackingNamesOneOrder
    /\ \A i \in DOMAIN go : OrderCallOK(go[i])

(* What every step leaves of the rows that there are.                      *)
OrdersStay ==
    /\ \A d \in Desks : \A k \in DOMAIN orders[d] :
          /\ k \in DOMAIN orders'[d]
          /\ orders'[d][k].tracking = orders[d][k].tracking
          /\ orders'[d][k].mode = orders[d][k].mode
    /\ \A k \in DOMAIN orders.courier :
          orders.courier[k].status \in Terminal => orders'.courier[k].status \in Terminal

LEMMA OrdersSame ==
    ASSUME OrdersFit, TrackingNamesOneOrder, UNCHANGED orders
    PROVE  OrdersFit' /\ TrackingNamesOneOrder' /\ OrdersStay
BY DEF OrdersFit, TrackingNamesOneOrder, OrdersStay, Desks

LEMMA OrderInserted ==
    ASSUME OrdersFit, TrackingNamesOneOrder, NEW d \in Desks, NEW o,
           IsRecord(o, {"tracking", "status", "mode"}), o.tracking[1] = Prefix[d],
           o.mode \notin Finished,
           ~Taken(o.tracking, d), orders' = [orders EXCEPT ![d] = Append(@, o)]
    PROVE  /\ OrdersFit' /\ TrackingNamesOneOrder' /\ OrdersStay
           /\ \A k \in DOMAIN orders.courier : orders'.courier[k] = orders.courier[k]
<1> DEFINE new == Len(orders[d]) + 1
<1>1. /\ IsSequence(orders[d]) /\ Len(orders[d]) \in Nat
      /\ DOMAIN orders[d] = 1 .. Len(orders[d])
  BY SequenceFacts DEF OrdersFit
<1>2. /\ orders'[d] = Append(orders[d], o)
      /\ \A e \in Desks \ {d} : orders'[e] = orders[e]
      /\ orders' = [e \in Desks |-> orders'[e]]
  BY DEF OrdersFit
<1>3. /\ IsSequence(orders'[d])
      /\ DOMAIN orders'[d] = 1 .. new
      /\ \A k \in DOMAIN orders[d] : orders'[d][k] = orders[d][k]
      /\ orders'[d][new] = o
  BY <1>1, <1>2, SequenceFacts
<1>4. /\ DOMAIN orders[d] \subseteq DOMAIN orders'[d]
      /\ \A k \in DOMAIN orders'[d] : k \in DOMAIN orders[d] \/ k = new
      /\ new \notin DOMAIN orders[d]
  BY <1>1, <1>3
<1> HIDE DEF new
<1>5. /\ \A e \in Desks : \A k \in DOMAIN orders[e] :
            k \in DOMAIN orders'[e] /\ orders'[e][k] = orders[e][k]
      /\ \A e \in Desks : \A k \in DOMAIN orders'[e] :
            k \in DOMAIN orders[e] \/ (e = d /\ k = new)
  BY <1>2, <1>3, <1>4
<1>6. OrdersFit'
  <2>1. ASSUME NEW e \in Desks
        PROVE  /\ IsSequence(orders'[e])
               /\ \A k \in DOMAIN orders'[e] :
                     /\ IsRecord(orders'[e][k], {"tracking", "status", "mode"})
                     /\ orders'[e][k].tracking[1] = Prefix[e]
                     /\ orders'[e][k].mode \notin Finished
    <3>1. IsSequence(orders'[e])
      BY <1>2, <1>3 DEF OrdersFit
    <3> QED BY <1>3, <1>5, <3>1 DEF OrdersFit
  <2> QED BY <1>2, <2>1 DEF OrdersFit
<1>7. OrdersStay
  BY <1>5 DEF OrdersStay, Desks
<1>8. TrackingNamesOneOrder'
  <2>1. \A e \in Desks : \A k \in DOMAIN orders[e] :
            orders[e][k].tracking # o.tracking
    <3> SUFFICES ASSUME NEW e \in Desks, NEW k \in DOMAIN orders[e],
                        orders[e][k].tracking = o.tracking
                 PROVE  FALSE
      OBVIOUS
    <3>1. Prefix[e] = Prefix[d]
      BY DEF OrdersFit
    <3>2. e = d
      BY <3>1 DEF Prefix, Desks
    <3> QED BY <3>2 DEF Taken
  <2> QED BY <1>3, <1>5, <2>1 DEF TrackingNamesOneOrder
<1> QED BY <1>5, <1>6, <1>7, <1>8 DEF Desks

LEMMA OrderMoved ==
    ASSUME OrdersFit, TrackingNamesOneOrder, NEW k \in DOMAIN orders.courier,
           NEW status \in Terminal,
           orders' = [orders EXCEPT !.courier[k].status = status]
    PROVE  /\ OrdersFit' /\ TrackingNamesOneOrder' /\ OrdersStay
           /\ orders'.courier[k].status = status
           /\ \A j \in DOMAIN orders.courier \ {k} :
                 orders'.courier[j] = orders.courier[j]
<1> DEFINE o == [orders.courier[k] EXCEPT !.status = status]
<1>1. /\ IsSequence(orders.courier)
      /\ IsRecord(orders.courier[k], {"tracking", "status", "mode"})
  BY DEF OrdersFit, Desks
<1>2. /\ IsRecord(o, {"tracking", "status", "mode"})
      /\ o.tracking = orders.courier[k].tracking
      /\ o.mode = orders.courier[k].mode
      /\ o.status = status
  BY <1>1 DEF IsRecord
<1>3. /\ orders'.courier = [orders.courier EXCEPT ![k] = o]
      /\ orders'.logistics = orders.logistics
      /\ orders' = [d \in Desks |-> orders'[d]]
  BY DEF OrdersFit, Desks
<1> HIDE DEF o
<1>4. /\ IsSequence(orders'.courier)
      /\ DOMAIN orders'.courier = DOMAIN orders.courier
      /\ orders'.courier[k] = o
      /\ \A j \in DOMAIN orders.courier \ {k} : orders'.courier[j] = orders.courier[j]
  BY SMTT(40), <1>1, <1>3, SequenceFacts
<1>5. \A d \in Desks :
          /\ IsSequence(orders'[d])
          /\ DOMAIN orders'[d] = DOMAIN orders[d]
          /\ \A j \in DOMAIN orders[d] :
                /\ IsRecord(orders'[d][j], {"tracking", "status", "mode"})
                /\ orders'[d][j].tracking = orders[d][j].tracking
                /\ orders'[d][j].mode = orders[d][j].mode
  BY <1>2, <1>3, <1>4 DEF OrdersFit, Desks
<1>6. OrdersFit'
  <2>1. \A d \in Desks : \A j \in DOMAIN orders'[d] :
            /\ IsRecord(orders'[d][j], {"tracking", "status", "mode"})
            /\ orders'[d][j].tracking[1] = Prefix[d]
            /\ orders'[d][j].mode \notin Finished
    <3> TAKE d \in Desks
    <3>1. DOMAIN orders'[d] = DOMAIN orders[d]
      BY <1>5
    <3> TAKE j \in DOMAIN orders'[d]
    <3>2. /\ IsRecord(orders'[d][j], {"tracking", "status", "mode"})
          /\ orders'[d][j].tracking = orders[d][j].tracking
          /\ orders'[d][j].mode = orders[d][j].mode
      BY <1>5, <3>1
    <3>3. orders[d][j].tracking[1] = Prefix[d] /\ orders[d][j].mode \notin Finished
      BY <3>1 DEF OrdersFit
    <3> QED BY <3>2, <3>3
  <2>2. orders' = [d \in Desks |-> orders'[d]]
    BY <1>3
  <2>3. \A d \in Desks : IsSequence(orders'[d])
    BY <1>5
  <2> QED BY <2>1, <2>2, <2>3, Zenon DEF OrdersFit
<1>7. TrackingNamesOneOrder'
  BY <1>5 DEF TrackingNamesOneOrder
<1>8. OrdersStay
  BY <1>2, <1>4, <1>5 DEF OrdersStay, Desks
<1> QED BY <1>2, <1>4, <1>6, <1>7, <1>8
LEMMA OrderStepsKept ==
    ASSUME OrdersInv, OrdersNext, Within(OrderOps)
    PROVE  OrdersInv' /\ OrdersStay
<1>1. GoOK /\ GoOK' /\ OrdersFit /\ TrackingNamesOneOrder
  BY GrowthOK DEF OrdersInv
<1>2. UNCHANGED orders => OrdersFit' /\ TrackingNamesOneOrder' /\ OrdersStay
  BY <1>1, OrdersSame
<1>3. ASSUME OrdersStay, NEW j \in DOMAIN go, go'[j] = go[j]
      PROVE  OrderCallOK(go[j])'
  <2>1. OrderCallOK(go[j])
    BY DEF OrdersInv
  <2> QED BY <1>3, <2>1 DEF OrderCallOK, OrdersStay, Desks
<1> DEFINE Goal == OrdersInv' /\ OrdersStay
<1>4. ASSUME UNCHANGED orders, NEW call, go' = Append(go, call),
             call.op = "booking" =>
                /\ call.desk \in Desks
                /\ call.tracking[1] = Prefix[call.desk]
                /\ call.mode \notin Finished,
             call.op = "cancel" =>
                /\ call.order \in DOMAIN orders.courier
                /\ call.late => orders.courier[call.order].status \in Terminal
                /\ call.pc = "update" => ~call.late
      PROVE  Goal
  <2>1. /\ \A j \in DOMAIN go : go'[j] = go[j]
        /\ \A j \in DOMAIN go' \ DOMAIN go : go'[j] = call
    BY <1>1, <1>4, SequenceFacts DEF GoOK
  <2>2. \A j \in DOMAIN go' \ DOMAIN go : OrderCallOK(go[j])'
    BY <1>4, <2>1 DEF OrderCallOK
  <2>3. \A j \in DOMAIN go' : OrderCallOK(go[j])'
    BY <1>2, <1>3, <1>4, <2>1, <2>2
  <2> QED BY <1>1, <1>2, <1>4, <2>3 DEF OrdersInv
<1>5. ASSUME NEW i \in DOMAIN go, NEW call, go' = [go EXCEPT ![i] = call],
             OrdersFit', TrackingNamesOneOrder', OrdersStay,
             CallOK(go[i]), call.op = go[i].op,
             go[i].op = "booking" =>
                /\ call.desk = go[i].desk
                /\ call.tracking = go[i].tracking
                /\ call.mode = go[i].mode,
             go[i].op = "cancel" => call.order = go[i].order /\ call.late = go[i].late,
             call.op = "cancel" /\ call.pc = "update" => ~go[i].late
      PROVE  Goal
  <2>1. /\ go'[i] = call
        /\ \A j \in DOMAIN go \ {i} : go'[j] = go[j]
        /\ DOMAIN go' = DOMAIN go
    BY <1>1, <1>5, SequenceFacts DEF GoOK
  <2>2. OrderCallOK(go[i])
    BY DEF OrdersInv
  <2>3. OrderCallOK(go[i])'
    BY <1>5, <2>1, <2>2 DEF OrderCallOK, OrdersStay, Desks
  <2>4. \A j \in DOMAIN go' : OrderCallOK(go[j])'
    BY <1>3, <1>5, <2>1, <2>3
  <2> QED BY <1>1, <1>5, <2>4 DEF OrdersInv
<1>6. ASSUME NEW i \in DOMAIN go, NEW pc, Goto(i, pc),
             OrdersFit', TrackingNamesOneOrder', OrdersStay,
             go[i].op = "cancel" /\ pc = "update" => ~go[i].late
      PROVE  Goal
  <2> DEFINE call == [go[i] EXCEPT !.pc = pc]
  <2>1. CallOK(go[i])
    BY <1>1 DEF GoOK
  <2>2. /\ call.op = go[i].op /\ call.pc = pc
        /\ go[i].op = "booking" =>
              /\ call.desk = go[i].desk
              /\ call.tracking = go[i].tracking
              /\ call.mode = go[i].mode
        /\ go[i].op = "cancel" => call.order = go[i].order /\ call.late = go[i].late
    BY <2>1 DEF CallOK, IsRecord
  <2>3. go' = [go EXCEPT ![i] = call]
    BY <1>6 DEF Goto
  <2> HIDE DEF call
  <2> QED BY <1>5, <1>6, <2>1, <2>2, <2>3
<1> SUFFICES Goal
  OBVIOUS
<1> HIDE DEF Goal
<1>7. ASSUME NEW desk \in DOMAIN Kinds, NEW kind \in Kinds[desk],
             NEW form \in Forms[desk], NEW lost, Ask(desk, kind, form, lost)
      PROVE  Goal
  <2>1. CASE kind = "booking"
    <3>1. desk \in Desks
      BY <2>1 DEF Kinds, Desks
    <3>2. PICK c \in Bookers, n \in TrackingNos \cap 1 .. Len(go) + 1 :
            go' = Append(go,
                    [op |-> "booking", pc |-> "insert", desk |-> desk, by |-> c,
                     tracking |-> <<Prefix[desk], n>>, mode |-> form.mode,
                     answer |-> Answer("booking", desk, form, lost)])
      BY <1>7, <2>1 DEF Ask, Book, Receive
    <3> DEFINE call == [op |-> "booking", pc |-> "insert", desk |-> desk, by |-> c,
                     tracking |-> <<Prefix[desk], n>>, mode |-> form.mode,
                     answer |-> Answer("booking", desk, form, lost)]
    <3>3. /\ call.op = "booking" /\ call.desk \in Desks
          /\ call.tracking[1] = Prefix[call.desk]
          /\ call.mode \notin Finished
      BY <3>1, OfficeAssumption DEF Finished, Terminal
    <3>4. UNCHANGED orders
      BY <1>7, <2>1 DEF Ask, Book, orderVars
    <3> HIDE DEF call
    <3> QED BY <1>4, <3>2, <3>3, <3>4 DEF call
  <2>2. CASE kind # "booking"
    <3> DEFINE call == [op |-> kind, pc |-> "done"]
    <3>1. go' = Append(go, call) /\ UNCHANGED orders
      BY <1>7, <2>2 DEF Ask, Quote, Receive
    <3>2. call.op # "booking" /\ call.op # "cancel"
      BY <2>2 DEF Kinds
    <3> HIDE DEF call
    <3> QED BY <1>4, <3>1, <3>2
  <2> QED BY <2>1, <2>2
<1>8. CASE AskDesk \/ AskDeskLookupsFail
  BY <1>7, <1>8 DEF AskDesk, AskDeskLookupsFail
<1>9. CASE Cancel
  <2>1. PICK c \in Customers, k \in DOMAIN orders.courier :
          go' = Append(go,
                  [op |-> "cancel", pc |-> "load", by |-> c, order |-> k,
                   late |-> orders.courier[k].status = "delivered"])
    BY <1>9 DEF Cancel, Receive
  <2> DEFINE late == orders.courier[k].status = "delivered"
             call == [op |-> "cancel", pc |-> "load", by |-> c, order |-> k,
                      late |-> late]
  <2>2. call.op = "cancel" /\ call.pc = "load" /\ call.order = k /\ call.late = late
    BY Zenon
  <2>3. UNCHANGED orders
    BY <1>9 DEF Cancel, orderVars
  <2>4. go' = Append(go, call)
    BY <2>1
  <2>5. k \in DOMAIN orders.courier /\ (late => orders.courier[k].status \in Terminal)
    BY DEF Terminal
  <2> HIDE DEF call, late
  <2> QED BY <1>4, <2>2, <2>3, <2>4, <2>5
<1>10. CASE List
  <2>1. PICK call : go' = Append(go, call) /\ call.op = "list"
    <3>1. PICK d, c, ask, status :
            go' = Append(go,
                    [op |-> "list", pc |-> "count", desk |-> d, by |-> c,
                     status |-> status,
                     page |-> PageOf(ask.page), limit |-> LimitOf(ask.limit),
                     total |-> 0, found |-> {}])
      BY <1>10 DEF List, Receive
    <3> QED BY <3>1
  <2>2. UNCHANGED orders
    BY <1>10 DEF List, orderVars
  <2> QED BY <1>4, <2>1, <2>2
<1>11. CASE Deliver
  <2>1. go' = go
    BY <1>11 DEF Deliver, callVars
  <2>2. PICK k \in DOMAIN orders.courier :
          orders' = [orders EXCEPT !.courier[k].status = "delivered"]
    BY <1>11 DEF Deliver
  <2>3. OrdersFit' /\ TrackingNamesOneOrder' /\ OrdersStay
    BY <1>1, <2>2, OrderMoved DEF Terminal
  <2>4. \A j \in DOMAIN go' : OrderCallOK(go[j])'
    BY <1>3, <2>1, <2>3
  <2> QED BY <1>1, <2>3, <2>4 DEF OrdersInv, Goal
<1>12. ASSUME NEW i \in DOMAIN go, InsertOrder(i)
       PROVE  Goal
  <2>1. Goto(i, "done") /\ go[i].op = "booking" /\ CallOK(go[i]) /\ OrderCallOK(go[i])
    BY <1>12 DEF InsertOrder, IsAt, OrdersInv, GoOK
  <2>2. OrdersFit' /\ TrackingNamesOneOrder' /\ OrdersStay
    <3>1. CASE Taken(go[i].tracking, go[i].desk)
      BY <1>2, <1>12, <3>1 DEF InsertOrder, orderVars
    <3>2. CASE ~Taken(go[i].tracking, go[i].desk)
      <4> DEFINE o == NewOrder(go[i])
      <4>1. /\ go[i].desk \in Desks /\ go[i].tracking[1] = Prefix[go[i].desk]
            /\ go[i].mode \notin Finished
        BY <2>1 DEF OrderCallOK
      <4>2. orders' = [orders EXCEPT ![go[i].desk] = Append(@, o)]
        BY <1>12, <3>2 DEF InsertOrder
      <4>3. /\ IsRecord(o, {"tracking", "status", "mode"})
            /\ o.tracking = go[i].tracking /\ o.mode = go[i].mode
        BY DEF IsRecord, NewOrder
      <4> HIDE DEF o
      <4> QED BY <1>1, <3>2, <4>1, <4>2, <4>3, OrderInserted
    <3> QED BY <3>1, <3>2
  <2> QED BY <1>6, <2>1, <2>2
<1>13. ASSUME NEW i \in DOMAIN go, LoadOrder(i)
       PROVE  Goal
  <2> DEFINE o == orders.courier[go[i].order]
             pc == IF o.by = go[i].by /\ Cancellable(o) THEN "update" ELSE "done"
  <2>1. /\ Goto(i, pc) /\ go[i].op = "cancel" /\ OrderCallOK(go[i])
        /\ UNCHANGED orders
    BY <1>13 DEF LoadOrder, IsAt, OrdersInv, orderVars
  <2>2. pc = "update" => ~go[i].late
    BY <2>1 DEF OrderCallOK, Cancellable
  <2> HIDE DEF pc
  <2> QED BY <1>2, <1>6, <2>1, <2>2
<1>14. ASSUME NEW i \in DOMAIN go, UpdateOrder(i)
       PROVE  Goal
  <2>1. /\ Goto(i, "done") /\ go[i].op = "cancel" /\ OrderCallOK(go[i])
        /\ orders' = [orders EXCEPT !.courier[go[i].order].status = "cancelled"]
    BY <1>14 DEF UpdateOrder, IsAt, OrdersInv
  <2>2. go[i].order \in DOMAIN orders.courier
    BY <2>1 DEF OrderCallOK
  <2>3. OrdersFit' /\ TrackingNamesOneOrder' /\ OrdersStay
    BY <1>1, <2>1, <2>2, OrderMoved DEF Terminal
  <2> QED BY <1>6, <2>1, <2>3
<1>15. ASSUME NEW i \in DOMAIN go, CountOrders(i)
       PROVE  Goal
  <2> DEFINE call == [go[i] EXCEPT !.total = Cardinality(Selected(go[i])), !.pc = "find"]
  <2>1. go[i].op = "list" /\ CallOK(go[i]) /\ UNCHANGED orders
    BY <1>1, <1>15 DEF CountOrders, IsAt, GoOK, orderVars
  <2>2. call.op = "list"
    BY <2>1 DEF CallOK, IsRecord
  <2>3. go' = [go EXCEPT ![i] = call]
    BY <1>15 DEF CountOrders
  <2> HIDE DEF call
  <2> QED BY <1>2, <1>5, <2>1, <2>2, <2>3
<1>16. ASSUME NEW i \in DOMAIN go, FindOrders(i)
       PROVE  Goal
  <2> DEFINE call == [go[i] EXCEPT !.found = PageIn(go[i], Selected(go[i])),
                                   !.pc = "done"]
  <2>1. go[i].op = "list" /\ CallOK(go[i]) /\ UNCHANGED orders
    BY <1>1, <1>16 DEF FindOrders, IsAt, GoOK, orderVars
  <2>2. call.op = "list"
    BY <2>1 DEF CallOK, IsRecord
  <2>3. go' = [go EXCEPT ![i] = call]
    BY <1>16 DEF FindOrders
  <2> HIDE DEF call
  <2> QED BY <1>2, <1>5, <2>1, <2>2, <2>3
<1>17. ASSUME NEW i \in DOMAIN go, OrderFails(i)
       PROVE  Goal
  BY <1>2, <1>6, <1>17 DEF OrderFails, orderVars
<1> QED BY <1>8, <1>9, <1>10, <1>11, <1>12, <1>13, <1>14, <1>15, <1>16, <1>17
        DEF OrdersNext
LEMMA OrdersInvKept ==
    ASSUME OrdersInv, [Next]_vars
    PROVE  OrdersInv' /\ OrdersStay
<1>1. OrdersNext /\ Within(OrderOps) => OrdersInv' /\ OrdersStay
  BY OrderStepsKept
<1>2. UNCHANGED orders => OrdersFit' /\ TrackingNamesOneOrder' /\ OrdersStay
  BY OrdersSame DEF OrdersInv
<1>3. CASE UNCHANGED <<go, dataVars>>
  <2>1. UNCHANGED <<go, orders>>
    BY <1>3 DEF dataVars, orderVars
  <2>2. \A j \in DOMAIN go' : OrderCallOK(go[j])'
    BY <2>1 DEF OrdersInv, OrderCallOK
  <2>3. GoOK'
    BY <2>1 DEF OrdersInv, GoOK
  <2> QED BY <1>2, <2>1, <2>2, <2>3 DEF OrdersInv
<1>4. CASE Abandon /\ UNCHANGED dataVars
  <2>1. UNCHANGED orders
    BY <1>4 DEF dataVars, orderVars
  <2>2. GoOK'
    BY <1>4, Abandoned DEF OrdersInv
  <2>3. ASSUME NEW j \in DOMAIN go'
        PROVE  OrderCallOK(go[j])'
    <3>1. j \in DOMAIN go /\ CallOK(go[j]) /\ OrderCallOK(go[j])
      BY <1>4, Abandoned DEF OrdersInv, GoOK
    <3>2. go'[j] = go[j] \/ go'[j] = [go[j] EXCEPT !.pc = "gone"]
      BY <1>4, <3>1, Abandoned DEF OrdersInv
    <3> QED BY <2>1, <3>1, <3>2 DEF OrderCallOK, CallOK, IsRecord
  <2> QED BY <1>2, <2>1, <2>2, <2>3 DEF OrdersInv
<1>5. ASSUME NEW ops, Within(ops), ops \cap OrderOps = {}, UNCHANGED orders
      PROVE  OrdersInv' /\ OrdersStay
  <2>1. GoOK'
    BY <1>5, GrowthOK DEF OrdersInv
  <2>2. ASSUME NEW j \in DOMAIN go', go'[j].op \in OrderOps
        PROVE  j \in DOMAIN go /\ go'[j] = go[j]
    BY <1>5, <2>2 DEF Within
  <2>3. \A j \in DOMAIN go' : OrderCallOK(go[j])'
    <3> SUFFICES ASSUME NEW j \in DOMAIN go', go'[j].op \in OrderOps
                 PROVE  OrderCallOK(go[j])'
      BY DEF OrderCallOK, OrderOps
    <3>1. j \in DOMAIN go /\ go'[j] = go[j]
      BY <2>2
    <3>2. OrderCallOK(go[j])
      BY <3>1 DEF OrdersInv
    <3> QED BY <1>5, <3>1, <3>2 DEF OrderCallOK
  <2> QED BY <1>2, <1>5, <2>1, <2>3 DEF OrdersInv
<1>6. OfficeOps \cap OrderOps = {} /\ ProfileOps \cap OrderOps = {}
  BY DEF OrderOps, OfficeOps, ProfileOps
<1> QED BY <1>1, <1>3, <1>4, <1>5, <1>6, Steps DEF OrdersInv, orderVars

LEMMA OrdersInvAtFirst == Init => OrdersInv
<1> SUFFICES ASSUME Init PROVE OrdersInv
  OBVIOUS
<1>1. orders = [d \in Desks |-> <<>>] /\ go = <<>>
  BY DEF Init, OrdersInit
<1>2. IsSequence(<<>>)
  <2>1. <<>> \in Seq({})
    OBVIOUS
  <2> QED BY <2>1 DEF IsSequence
<1>3. OrdersFit /\ TrackingNamesOneOrder
  BY <1>1, <1>2 DEF OrdersFit, TrackingNamesOneOrder
<1> QED BY <1>1, <1>3, GoOKAtFirst DEF OrdersInv

(* A tracking id names one order of the two desks, although each table has *)
(* its own index and the numbers are drawn at random.                      *)
THEOREM NumbersUnique == Spec => []TrackingNamesOneOrder
<1>1. OrdersInv => TrackingNamesOneOrder
  BY DEF OrdersInv
<1> QED BY <1>1, OrdersInvAtFirst, OrdersInvKept, PTL DEF Spec

(* Only a cancel call that was under way before an order was delivered can *)
(* still cancel it.                                                        *)
THEOREM DeliveredStays == Spec => DeliveredStands
<1> DEFINE Stands ==
      \A k \in DOMAIN orders.courier :
          orders.courier[k].status = "delivered" =>
              \/ orders'.courier[k].status = "delivered"
              \/ \E i \in DOMAIN go :
                    go[i].op = "cancel" /\ go[i].order = k /\ ~go[i].late
<1>1. OrdersInv /\ [Next]_vars => [Stands]_orderVars
  <2> SUFFICES ASSUME OrdersInv, [Next]_vars,
                      NEW k \in DOMAIN orders.courier,
                      orders.courier[k].status = "delivered",
                      orders'.courier[k].status # "delivered"
               PROVE  \E i \in DOMAIN go :
                        go[i].op = "cancel" /\ go[i].order = k /\ ~go[i].late
    OBVIOUS
  <2>1. OrdersNext
    BY Steps DEF OrdersInv, dataVars, orderVars
  <2>2. orders' # orders /\ OrdersFit /\ TrackingNamesOneOrder
    BY DEF OrdersInv
  <2>3. CASE Deliver
    <3>1. PICK j \in DOMAIN orders.courier :
            orders' = [orders EXCEPT !.courier[j].status = "delivered"]
      BY <2>3 DEF Deliver
    <3> QED BY <2>2, <3>1, OrderMoved DEF Terminal
  <2>4. ASSUME NEW i \in DOMAIN go, InsertOrder(i)
        PROVE  FALSE
    <3>1. /\ go[i].desk \in Desks /\ go[i].tracking[1] = Prefix[go[i].desk]
          /\ go[i].mode \notin Finished
      BY <2>4 DEF InsertOrder, IsAt, OrdersInv, OrderCallOK
    <3> DEFINE o == NewOrder(go[i])
    <3>2. /\ ~Taken(go[i].tracking, go[i].desk)
          /\ orders' = [orders EXCEPT ![go[i].desk] = Append(@, o)]
      BY <2>2, <2>4 DEF InsertOrder, orderVars
    <3>3. /\ IsRecord(o, {"tracking", "status", "mode"})
          /\ o.tracking = go[i].tracking /\ o.mode = go[i].mode
      BY DEF IsRecord, NewOrder
    <3> HIDE DEF o
    <3>4. orders'.courier[k] = orders.courier[k]
      BY <2>2, <3>1, <3>2, <3>3, OrderInserted
    <3> QED BY <3>4
  <2>5. ASSUME NEW i \in DOMAIN go, UpdateOrder(i)
        PROVE  go[i].op = "cancel" /\ go[i].order = k /\ ~go[i].late
    <3>1. /\ go[i].op = "cancel" /\ go[i].pc = "update" /\ OrderCallOK(go[i])
          /\ orders' = [orders EXCEPT !.courier[go[i].order].status = "cancelled"]
      BY <2>5 DEF UpdateOrder, IsAt, OrdersInv
    <3>2. go[i].order \in DOMAIN orders.courier /\ ~go[i].late
      BY <3>1 DEF OrderCallOK
    <3>3. k # go[i].order => orders'.courier[k] = orders.courier[k]
      BY <2>2, <3>1, <3>2, OrderMoved DEF Terminal
    <3> QED BY <3>1, <3>2, <3>3
  <2>6. AskDesk \/ AskDeskLookupsFail \/ Cancel \/ List => UNCHANGED orders
    <3>1. ASSUME NEW desk, NEW kind, NEW form, NEW lost, Ask(desk, kind, form, lost)
          PROVE  UNCHANGED orders
      BY <3>1 DEF Ask, Book, Quote, orderVars
    <3> QED BY <3>1 DEF AskDesk, AskDeskLookupsFail, Cancel, List, orderVars
  <2>7. \A i \in DOMAIN go :
            LoadOrder(i) \/ CountOrders(i) \/ FindOrders(i) \/ OrderFails(i)
                => UNCHANGED orders
    BY DEF LoadOrder, CountOrders, FindOrders, OrderFails, orderVars
  <2> QED BY <2>1, <2>2, <2>3, <2>4, <2>5, <2>6, <2>7 DEF OrdersNext
<1> QED BY <1>1, OrdersInvAtFirst, OrdersInvKept, PTL DEF Spec, DeliveredStands
-----------------------------------------------------------------------------
(* The on-time rate.  Finished orders only become more.                    *)
Over == {k \in DOMAIN orders.courier : orders.courier[k].status \in Terminal}

RateCallOK(g) ==
    g.op = "analytics" =>
        /\ IsSequence(g.figures)
        /\ g.pc = "done" => Len(g.figures) = Len(Analytics)
        /\ Len(g.figures) >= 5 =>
              /\ g.figures[5] \in Nat
              /\ g.figures[5] <= Cardinality(Over)
        /\ Len(g.figures) >= 6 /\ g.figures[6] > 0 => g.figures[5] <= g.figures[6]

RateInv == OrdersInv /\ \A i \in DOMAIN go : RateCallOK(go[i])

LEMMA FiniteDomain ==
    ASSUME NEW s, IsSequence(s)
    PROVE  IsFiniteSet(DOMAIN s) /\ Cardinality(DOMAIN s) = Len(s)
<1>1. DOMAIN s = 1 .. Len(s) /\ Len(s) \in Nat
  BY SequenceFacts
<1>2. 1 \in Int /\ Len(s) \in Int
  BY <1>1
<1>3. /\ IsFiniteSet(1 .. Len(s))
      /\ Cardinality(1 .. Len(s)) = IF 1 > Len(s) THEN 0 ELSE Len(s) - 1 + 1
  BY <1>2, FS_Interval
<1> QED BY <1>1, <1>3

LEMMA OverFacts ==
    ASSUME OrdersFit
    PROVE  /\ IsFiniteSet(DOMAIN orders.courier)
           /\ IsFiniteSet(Over) /\ Cardinality(Over) \in Nat
<1>1. IsFiniteSet(DOMAIN orders.courier)
  BY FiniteDomain DEF OrdersFit, Desks
<1>2. Over \subseteq DOMAIN orders.courier
  BY DEF Over
<1> QED BY <1>1, <1>2, FS_Subset, FS_CardinalityType

LEMMA OverGrows ==
    ASSUME OrdersFit', OrdersStay
    PROVE  Cardinality(Over') \in Nat /\ Cardinality(Over) <= Cardinality(Over')
<1>1. Over \subseteq Over'
  BY DEF Over, OrdersStay, Desks
<1>2. IsFiniteSet(DOMAIN orders'.courier)
  BY FiniteDomain DEF OrdersFit, Desks
<1>3. Over' \subseteq DOMAIN orders'.courier
  BY DEF Over
<1>4. IsFiniteSet(Over')
  BY <1>2, <1>3, FS_Subset
<1> QED BY <1>1, <1>4, FS_Subset, FS_CardinalityType

LEMMA RateCounts ==
    ASSUME OrdersFit
    PROVE  /\ Count(<<"courier", "delivered">>) \in Nat
           /\ Count(<<"courier", "delivered">>) <= Cardinality(Over)
           /\ Count(<<"courier", "terminal">>) \in Nat
           /\ Cardinality(Over) <= Count(<<"courier", "terminal">>)
<1> DEFINE D == {k \in DOMAIN orders.courier :
                    "delivered" \in OrderTags(orders.courier[k]) \cup {"all"}}
           T == {k \in DOMAIN orders.courier :
                    "terminal" \in OrderTags(orders.courier[k]) \cup {"all"}}
<1>1. \A k \in DOMAIN orders.courier :
          orders.courier[k].mode \notin {"delivered", "cancelled", "terminal"}
  BY DEF OrdersFit, Desks, Finished, Terminal
<1>2. TableRows("courier") =
          [k \in DOMAIN orders.courier |-> OrderTags(orders.courier[k])]
  BY DEF TableRows, Desks
<1>3. /\ Count(<<"courier", "delivered">>) = Cardinality(D)
      /\ Count(<<"courier", "terminal">>) = Cardinality(T)
  <2> DEFINE Tagged(tag) ==
        {k \in DOMAIN TableRows("courier") : tag \in TableRows("courier")[k] \cup {"all"}}
  <2>1. Tagged("delivered") = D /\ Tagged("terminal") = T
    <3> HIDE DEF D, T
    <3> QED BY <1>2 DEF D, T
  <2> QED BY <2>1 DEF Count
<1>4. D \subseteq Over
  BY <1>1 DEF Over, OrderTags, Terminal
<1>5. Over \subseteq T /\ T \subseteq DOMAIN orders.courier
  BY DEF Over, OrderTags
<1>6. IsFiniteSet(DOMAIN orders.courier)
  BY OverFacts
<1> HIDE DEF D, T
<1> QED BY <1>3, <1>4, <1>5, <1>6, OverFacts, FS_Subset, FS_CardinalityType
(* What a write of another service leaves of the calls.                    *)
LEMMA WriteLeaves ==
    ASSUME GoOK, WriteRow
    PROVE  /\ \A j \in DOMAIN go :
                 \/ ChangedRow /\ go'[j] = go[j]
                 \/ ~Reporting(j) /\ go'[j] = go[j]
                 \/ Reporting(j) /\ go'[j] = [go[j] EXCEPT !.grew = @ + 1]
           /\ \A j \in DOMAIN go' \ DOMAIN go : go'[j] = [op |-> "write", pc |-> "done"]
<1> DEFINE call == [op |-> "write", pc |-> "done"]
<1>1. CASE InsertedRow
  <2>1. go' = Append(Grown, call)
    BY <1>1 DEF InsertedRow
  <2> HIDE DEF call
  <2>2. /\ \A j \in DOMAIN go : go'[j] = Grown[j]
        /\ \A j \in DOMAIN go' \ DOMAIN go : go'[j] = call
    BY <2>1, GrownFacts, SequenceFacts
  <2> QED BY <2>2, GrownFacts DEF call
<1>2. CASE ChangedRow
  <2>1. go' = Append(go, call)
    BY <1>2 DEF ChangedRow
  <2> HIDE DEF call
  <2> QED BY <1>2, <2>1, SequenceFacts DEF GoOK, call
<1> QED BY <1>1, <1>2 DEF WriteRow

LEMMA RateInvKept ==
    ASSUME RateInv, [Next]_vars
    PROVE  RateInv'
<1> DEFINE m == Cardinality(Over)
           n == Cardinality(Over')
           Goal == \A j \in DOMAIN go' : RateCallOK(go[j])'
<1>1. OrdersInv /\ OrdersInv' /\ OrdersStay /\ GoOK
  BY OrdersInvKept DEF RateInv, OrdersInv
<1>2. m \in Nat /\ n \in Nat /\ m <= n
  BY <1>1, OverFacts, OverGrows DEF OrdersInv
<1> SUFFICES Goal
  BY <1>1 DEF RateInv
<1> HIDE DEF m, n, Goal
<1>3. ASSUME NEW j \in DOMAIN go, go'[j].op = go[j].op,
             go[j].op = "analytics" => go'[j].figures = go[j].figures,
             go'[j].pc \in {go[j].pc, "gone"}
      PROVE  RateCallOK(go[j])'
  <2>1. RateCallOK(go[j])
    BY DEF RateInv
  <2> QED BY <1>2, <1>3, <2>1 DEF RateCallOK, m, n
<1>4. CASE UNCHANGED go
  BY <1>3, <1>4 DEF Goal
<1>5. CASE Abandon
  <2>1. ASSUME NEW j \in DOMAIN go'
        PROVE  RateCallOK(go[j])'
    <3>1. j \in DOMAIN go /\ CallOK(go[j])
      BY <1>1, <1>5, Abandoned DEF GoOK
    <3>2. go'[j] = go[j] \/ go'[j] = [go[j] EXCEPT !.pc = "gone"]
      BY <1>1, <1>5, <3>1, Abandoned
    <3>3. /\ go'[j].op = go[j].op /\ go'[j].pc \in {go[j].pc, "gone"}
          /\ go[j].op = "analytics" => go'[j].figures = go[j].figures
      BY <3>1, <3>2 DEF CallOK, IsRecord
    <3> QED BY <1>3, <3>1, <3>3
  <2> QED BY <2>1 DEF Goal
<1>6. ASSUME NEW ops, Within(ops), "analytics" \notin ops
      PROVE  Goal
  <2>1. ASSUME NEW j \in DOMAIN go', go'[j].op = "analytics"
        PROVE  j \in DOMAIN go /\ go'[j] = go[j]
    BY <1>6, <2>1 DEF Within
  <2>2. ASSUME NEW j \in DOMAIN go', go'[j].op = "analytics"
        PROVE  RateCallOK(go[j])'
    BY <1>3, <2>1, <2>2
  <2>3. ASSUME NEW j \in DOMAIN go', go'[j].op # "analytics"
        PROVE  RateCallOK(go[j])'
    BY <2>3 DEF RateCallOK
  <2> QED BY <2>2, <2>3 DEF Goal
<1>7. ASSUME NEW op \in DOMAIN Reports, AskReport(op)
      PROVE  Goal
  <2> DEFINE call == [op |-> op, pc |-> "count", figures |-> <<>>,
                      failed |-> FALSE, grew |-> 0]
  <2>1. go' = Append(go, call)
    BY <1>7 DEF AskReport, Receive
  <2>2. /\ call.pc = "count" /\ call.figures = <<>>
    OBVIOUS
  <2> HIDE DEF call
  <2>3. /\ \A j \in DOMAIN go : go'[j] = go[j]
        /\ \A j \in DOMAIN go' \ DOMAIN go : go'[j] = call
    BY <1>1, <2>1, SequenceFacts DEF GoOK
  <2>4. IsSequence(<<>>) /\ Len(<<>>) = 0
    <3>1. <<>> \in Seq({})
      OBVIOUS
    <3> QED BY <3>1 DEF IsSequence
  <2>5. ASSUME NEW j \in DOMAIN go' \ DOMAIN go
        PROVE  RateCallOK(go[j])'
    <3>1. go'[j].pc = "count" /\ go'[j].figures = <<>>
      BY <2>2, <2>3
    <3> QED BY <2>4, <3>1 DEF RateCallOK
  <2> QED BY <1>3, <2>3, <2>5 DEF Goal
<1>8. ASSUME NEW i \in DOMAIN go, Reporting(i), NEW value, NEW failed,
             Put(i, value, failed),
             go[i].op = "analytics" /\ Len(go[i].figures) = 4 =>
                value \in Nat /\ value <= m,
             go[i].op = "analytics" /\ Len(go[i].figures) = 5 =>
                value \in Nat /\ (value > 0 => m <= value)
      PROVE  Goal
  <2>1. /\ go'[i].figures = Append(go[i].figures, value)
        /\ go'[i].pc = "done" => Len(go'[i].figures) = Len(Reports[go[i].op])
        /\ go'[i].op = go[i].op
        /\ \A j \in DOMAIN go \ {i} : go'[j] = go[j]
        /\ DOMAIN go' = DOMAIN go
    BY <1>1, <1>8, PutWithin DEF Within
  <2>2. RateCallOK(go[i])'
    <3> SUFFICES ASSUME go[i].op = "analytics"
                 PROVE  RateCallOK(go[i])'
      BY <2>1 DEF RateCallOK
    <3> DEFINE f == go[i].figures
               g == go'[i].figures
    <3>1. /\ IsSequence(f)
          /\ Len(f) >= 5 => f[5] \in Nat /\ f[5] <= m
          /\ Len(f) >= 6 /\ f[6] > 0 => f[5] <= f[6]
      BY DEF RateInv, RateCallOK, m
    <3>2. /\ Len(f) \in Nat
          /\ DOMAIN f = 1 .. Len(f)
          /\ IsSequence(g)
          /\ Len(g) = Len(f) + 1
          /\ \A k \in DOMAIN f : g[k] = f[k]
          /\ g[Len(f) + 1] = value
      BY <2>1, <3>1, SequenceFacts
    <3> HIDE DEF f, g
    <3>3. Len(g) >= 5 => g[5] \in Nat /\ g[5] <= m
      <4>1. CASE Len(f) = 4
        BY <1>8, <3>2, <4>1 DEF f
      <4>2. CASE Len(f) >= 5
        BY <3>1, <3>2, <4>2
      <4> QED BY <3>2, <4>1, <4>2
    <3>4. Len(g) >= 6 /\ g[6] > 0 => g[5] <= g[6]
      <4>1. CASE Len(f) = 5
        BY <1>2, <1>8, <3>1, <3>2, <4>1 DEF f
      <4>2. CASE Len(f) >= 6
        BY <3>1, <3>2, <4>2
      <4> QED BY <3>2, <4>1, <4>2
    <3>5. go'[i].pc = "done" => Len(g) = Len(Analytics)
      BY <2>1 DEF g, Reports
    <3>6. Len(g) >= 5 => g[5] \in Nat /\ g[5] <= n
      BY <1>2, <3>3
    <3> QED BY <3>2, <3>4, <3>5, <3>6 DEF RateCallOK, n, g
  <2> QED BY <1>3, <2>1, <2>2 DEF Goal
<1>9. ASSUME NEW i \in DOMAIN go, CountFigure(i)
      PROVE  Goal
  <2>1. Reporting(i) /\ Put(i, Count(NextFigure(i)), FALSE)
    BY <1>9 DEF CountFigure
  <2>2. go[i].op = "analytics" /\ Len(go[i].figures) = 4
            => NextFigure(i) = <<"courier", "delivered">>
    BY DEF NextFigure, Reports, Analytics
  <2>3. go[i].op = "analytics" /\ Len(go[i].figures) = 5
            => NextFigure(i) = <<"courier", "terminal">>
    BY DEF NextFigure, Reports, Analytics
  <2>4. OrdersFit
    BY <1>1 DEF OrdersInv
  <2> DEFINE value == Count(NextFigure(i))
  <2>5. /\ go[i].op = "analytics" /\ Len(go[i].figures) = 4 =>
              value \in Nat /\ value <= m
        /\ go[i].op = "analytics" /\ Len(go[i].figures) = 5 =>
              value \in Nat /\ (value > 0 => m <= value)
    BY <2>2, <2>3, <2>4, RateCounts DEF m
  <2> HIDE DEF value
  <2> QED BY <1>8, <2>1, <2>5 DEF value
<1>10. ASSUME NEW i \in DOMAIN go, CountFails(i)
       PROVE  Goal
  <2>1. PICK value, failed :
           /\ Reporting(i)
           /\ Put(i, value, failed)
           /\ go[i].op = "analytics" => value = 0
    BY <1>10 DEF CountFails
  <2>2. go[i].op = "analytics" =>
           value \in Nat /\ value <= m /\ (value > 0 => m <= value)
    BY <1>2, <2>1
  <2> QED BY <1>8, <2>1, <2>2
<1>11. CASE WriteRow
  <2>1. ASSUME NEW j \in DOMAIN go
        PROVE  RateCallOK(go[j])'
    <3>1. /\ CallOK(go[j])
          /\ \/ go'[j] = go[j]
             \/ Reporting(j) /\ go'[j] = [go[j] EXCEPT !.grew = @ + 1]
      BY <1>1, <1>11, WriteLeaves DEF GoOK
    <3>2. /\ go'[j].op = go[j].op /\ go'[j].pc = go[j].pc
          /\ go[j].op = "analytics" => go'[j].figures = go[j].figures
      BY <3>1 DEF CallOK, IsRecord
    <3> QED BY <1>3, <3>2
  <2>2. ASSUME NEW j \in DOMAIN go' \ DOMAIN go
        PROVE  RateCallOK(go[j])'
    <3>1. go'[j].op = "write"
      BY <1>1, <1>11, WriteLeaves
    <3> QED BY <3>1 DEF RateCallOK
  <2> QED BY <2>1, <2>2 DEF Goal
<1>12. "analytics" \notin OrderOps /\ "analytics" \notin ProfileOps
  BY DEF OrderOps, ProfileOps
<1> QED BY <1>1, <1>4, <1>5, <1>6, <1>7, <1>9, <1>10, <1>11, <1>12, Steps
        DEF OfficeNext

(* The on-time rate of the analytics is at most one, even if statements    *)
(* fail and orders are delivered and cancelled while they are counted.     *)
THEOREM RateIsARate == Spec => []OnTimeIsARate
<1>1. Init => RateInv
  BY OrdersInvAtFirst DEF Init, RateInv
<1>2. RateInv => OnTimeIsARate
  <2> SUFFICES ASSUME RateInv, NEW i \in DOMAIN go,
                      go[i].op = "analytics", go[i].pc = "done", go[i].figures[6] > 0
               PROVE  go[i].figures[5] <= go[i].figures[6]
    BY DEF OnTimeIsARate
  <2>1. Len(go[i].figures) = 12
    BY DEF RateInv, RateCallOK, Analytics
  <2> QED BY <2>1 DEF RateInv, RateCallOK
<1> QED BY <1>1, <1>2, RateInvKept, PTL DEF Spec
-----------------------------------------------------------------------------
(* Parts of a whole.  While a report is open, the table of the whole has   *)
(* no more rows than the report counted and noted since.                   *)
TablesFit ==
    /\ tables = [t \in DOMAIN NewRow |-> tables[t]]
    /\ \A t \in DOMAIN NewRow : IsSequence(tables[t])

Whole(op, p) == Reports[op][p[1]][1]

PartsCallOK(g) ==
    g.op \in DOMAIN Parts =>
        /\ IsSequence(g.figures)
        /\ g.grew \in Nat
        /\ g.pc \in {"count", "done", "gone"}
        /\ g.pc = "done" => Len(g.figures) = Len(Reports[g.op])
        /\ ~g.failed => \A p \in Parts[g.op] :
              /\ Len(g.figures) >= p[1] =>
                    /\ g.figures[p[1]] \in Nat
                    /\ g.pc = "count" =>
                          Len(tables[Whole(g.op, p)]) <= g.figures[p[1]] + g.grew
              /\ Len(g.figures) >= p[2] =>
                    /\ g.figures[p[2]] \in Nat
                    /\ g.figures[p[2]] <= g.figures[p[1]] + g.grew

PartsInv == GoOK /\ TablesFit /\ \A i \in DOMAIN go : PartsCallOK(go[i])

LEMMA PartsPlan ==
    ASSUME NEW op \in DOMAIN Parts, NEW p \in Parts[op]
    PROVE  /\ p[1] \in Nat /\ p[2] \in Nat
           /\ 1 <= p[1] /\ p[1] < p[2] /\ p[2] <= Len(Reports[op])
           /\ Whole(op, p) \in DOMAIN NewRow
           /\ Reports[op][p[1]][2] = "all"
           /\ Reports[op][p[2]][1] = Whole(op, p)
<1>1. CASE op = "dashboard"
  <2>1. p \in {<<1, 2>>, <<3, 4>>, <<3, 9>>, <<8, 10>>}
    BY <1>1 DEF Parts
  <2>2. Reports[op] = Dashboard
    BY <1>1 DEF Reports
  <2> QED BY <2>1, <2>2 DEF Dashboard, Whole, NewRow
<1>2. CASE op = "fleet"
  <2>1. p = <<1, 2>>
    BY <1>2 DEF Parts
  <2>2. Reports[op] = FleetSummary
    BY <1>2 DEF Reports
  <2> QED BY <2>1, <2>2 DEF FleetSummary, Whole, NewRow
<1> QED BY <1>1, <1>2 DEF Parts

LEMMA PartCounts ==
    ASSUME TablesFit, NEW figure, figure[1] \in DOMAIN NewRow
    PROVE  /\ Count(figure) \in Nat
           /\ Count(figure) <= Len(tables[figure[1]])
           /\ figure[2] = "all" => Count(figure) = Len(tables[figure[1]])
<1> DEFINE table == tables[figure[1]]
           S == {k \in DOMAIN table : figure[2] \in table[k] \cup {"all"}}
<1>1. figure[1] \notin Desks
  BY DEF NewRow, Desks
<1>2. Count(figure) = Cardinality(S)
  BY <1>1 DEF Count, TableRows
<1>3. IsFiniteSet(DOMAIN table) /\ Cardinality(DOMAIN table) = Len(table)
  BY FiniteDomain DEF TablesFit
<1>4. S \subseteq DOMAIN table
  OBVIOUS
<1>5. figure[2] = "all" => S = DOMAIN table
  OBVIOUS
<1> HIDE DEF S, table
<1>6. Cardinality(S) \in Nat /\ Cardinality(S) <= Cardinality(DOMAIN table)
  BY <1>3, <1>4, FS_Subset, FS_CardinalityType
<1>7. figure[2] = "all" => Cardinality(S) = Cardinality(DOMAIN table)
  BY <1>5
<1> QED BY <1>2, <1>3, <1>6, <1>7 DEF table

LEMMA TablesGrow ==
    ASSUME TablesFit, WriteRow
    PROVE  /\ TablesFit'
           /\ \A t \in DOMAIN NewRow :
                 /\ Len(tables[t]) \in Nat /\ Len(tables'[t]) \in Nat
                 /\ Len(tables'[t]) <= Len(tables[t]) + 1
                 /\ ChangedRow => Len(tables'[t]) = Len(tables[t])
<1>1. \A t \in DOMAIN NewRow : Len(tables[t]) \in Nat
  BY SequenceFacts DEF TablesFit
<1>2. CASE ChangedRow
  <2>1. PICK t \in DOMAIN Switch : \E k \in DOMAIN tables[t] :
            tables' = [tables EXCEPT ![t][k] = SymDiff(@, {Switch[t]})]
    BY <1>2 DEF ChangedRow
  <2>2. PICK k \in DOMAIN tables[t] : \E x :
            tables' = [tables EXCEPT ![t] = [tables[t] EXCEPT ![k] = x]]
    BY <2>1
  <2>7. PICK row : tables' = [tables EXCEPT ![t] = [tables[t] EXCEPT ![k] = row]]
    BY <2>2
  <2>3. t \in DOMAIN NewRow
    BY <2>1 DEF Switch, NewRow
  <2> DEFINE new == [tables[t] EXCEPT ![k] = row]
  <2>4. IsSequence(new) /\ Len(new) = Len(tables[t])
    <3>1. IsSequence(tables[t])
      BY <2>3 DEF TablesFit
    <3>2. k \in DOMAIN tables[t]
      BY <2>2
    <3>3. \A x : \A i \in DOMAIN tables[t] :
              /\ IsSequence([tables[t] EXCEPT ![i] = x])
              /\ Len([tables[t] EXCEPT ![i] = x]) = Len(tables[t])
      BY <3>1, SequenceFacts
    <3> QED BY <3>2, <3>3
  <2> HIDE DEF new
  <2>5. /\ tables'[t] = new
        /\ \A u \in DOMAIN NewRow \ {t} : tables'[u] = tables[u]
        /\ tables' = [u \in DOMAIN NewRow |-> tables'[u]]
    BY <2>7, <2>3 DEF TablesFit, new
  <2>6. \A u \in DOMAIN NewRow : IsSequence(tables'[u]) /\ Len(tables'[u]) = Len(tables[u])
    BY <2>4, <2>5 DEF TablesFit
  <2> QED BY <1>1, <2>5, <2>6 DEF TablesFit
<1>3. CASE InsertedRow /\ ~ChangedRow
  <2>1. PICK t \in DOMAIN NewRow : tables' = [tables EXCEPT ![t] = Append(@, NewRow[t])]
    BY <1>3 DEF InsertedRow
  <2> DEFINE new == Append(tables[t], NewRow[t])
  <2>2. IsSequence(new) /\ Len(new) = Len(tables[t]) + 1
    BY SequenceFacts DEF TablesFit
  <2> HIDE DEF new
  <2>3. /\ tables'[t] = new
        /\ \A u \in DOMAIN NewRow \ {t} : tables'[u] = tables[u]
        /\ tables' = [u \in DOMAIN NewRow |-> tables'[u]]
    BY <2>1 DEF TablesFit, new
  <2>4. \A u \in DOMAIN NewRow :
            /\ IsSequence(tables'[u])
            /\ Len(tables'[u]) \in {Len(tables[u]), Len(tables[u]) + 1}
    BY <2>2, <2>3 DEF TablesFit
  <2> QED BY <1>1, <1>3, <2>3, <2>4 DEF TablesFit
<1> QED BY <1>2, <1>3 DEF WriteRow

LEMMA PartsInvKept ==
    ASSUME PartsInv, [Next]_vars
    PROVE  PartsInv'
<1> DEFINE Goal == \A j \in DOMAIN go' : PartsCallOK(go[j])'
<1>1. GoOK /\ GoOK' /\ TablesFit
  BY GoOKKept DEF PartsInv
<1>2. \A t \in DOMAIN NewRow : Len(tables[t]) \in Nat
  BY <1>1, SequenceFacts DEF TablesFit
<1>3. UNCHANGED tables => TablesFit'
  BY <1>1 DEF TablesFit
<1> HIDE DEF Goal
<1>4. ASSUME UNCHANGED tables, NEW j \in DOMAIN go, go'[j].op = go[j].op,
             go[j].op \in DOMAIN Parts =>
                /\ go'[j].figures = go[j].figures
                /\ go'[j].failed = go[j].failed
                /\ go'[j].grew = go[j].grew,
             go'[j].pc \in {go[j].pc, "gone"}
      PROVE  PartsCallOK(go[j])'
  <2> SUFFICES ASSUME go[j].op \in DOMAIN Parts
               PROVE  PartsCallOK(go[j])'
    BY <1>4 DEF PartsCallOK
  <2>1. PartsCallOK(go[j])
    BY DEF PartsInv
  <2> QED BY <1>4, <2>1 DEF PartsCallOK
<1>5. CASE UNCHANGED <<go, tables>>
  BY <1>3, <1>1, <1>4, <1>5 DEF PartsInv
<1>6. CASE Abandon /\ UNCHANGED tables
  <2>1. ASSUME NEW j \in DOMAIN go'
        PROVE  PartsCallOK(go[j])'
    <3>1. j \in DOMAIN go /\ CallOK(go[j])
      BY <1>1, <1>6, Abandoned DEF GoOK
    <3>2. go'[j] = go[j] \/ go'[j] = [go[j] EXCEPT !.pc = "gone"]
      BY <1>1, <1>6, <3>1, Abandoned
    <3>3. /\ go'[j].op = go[j].op /\ go'[j].pc \in {go[j].pc, "gone"}
          /\ go[j].op \in {"dashboard", "fleet"} =>
                /\ go'[j].figures = go[j].figures
                /\ go'[j].failed = go[j].failed
                /\ go'[j].grew = go[j].grew
      BY <3>1, <3>2 DEF CallOK, IsRecord
    <3> QED BY <1>4, <1>6, <3>1, <3>3 DEF Parts
  <2> QED BY <1>1, <1>3, <1>6, <2>1 DEF PartsInv
<1>7. ASSUME NEW ops, Within(ops), ops \cap DOMAIN Parts = {}, UNCHANGED tables
      PROVE  PartsInv'
  <2>1. ASSUME NEW j \in DOMAIN go', go'[j].op \in DOMAIN Parts
        PROVE  j \in DOMAIN go /\ go'[j] = go[j]
    BY <1>7, <2>1 DEF Within
  <2>2. ASSUME NEW j \in DOMAIN go', go'[j].op \in DOMAIN Parts
        PROVE  PartsCallOK(go[j])'
    BY <1>4, <1>7, <2>1, <2>2
  <2>3. ASSUME NEW j \in DOMAIN go', go'[j].op \notin DOMAIN Parts
        PROVE  PartsCallOK(go[j])'
    BY <2>3 DEF PartsCallOK
  <2> QED BY <1>1, <1>3, <1>7, <2>2, <2>3 DEF PartsInv
<1>8. ASSUME NEW op \in DOMAIN Reports, AskReport(op)
      PROVE  PartsInv'
  <2> DEFINE call == [op |-> op, pc |-> "count", figures |-> <<>>,
                      failed |-> FALSE, grew |-> 0]
  <2>1. go' = Append(go, call) /\ UNCHANGED tables
    BY <1>8 DEF AskReport, Receive
  <2>2. call.pc = "count" /\ call.figures = <<>> /\ call.grew = 0 /\ call.op = op
    OBVIOUS
  <2> HIDE DEF call
  <2>3. /\ \A j \in DOMAIN go : go'[j] = go[j]
        /\ \A j \in DOMAIN go' \ DOMAIN go : go'[j] = call
    BY <1>1, <2>1, SequenceFacts DEF GoOK
  <2>4. IsSequence(<<>>) /\ Len(<<>>) = 0
    <3>1. <<>> \in Seq({})
      OBVIOUS
    <3> QED BY <3>1 DEF IsSequence
  <2>5. ASSUME NEW j \in DOMAIN go' \ DOMAIN go
        PROVE  PartsCallOK(go[j])'
    <3>1. go'[j].pc = "count" /\ go'[j].figures = <<>> /\ go'[j].grew = 0
      BY <2>2, <2>3
    <3> QED BY <2>4, <3>1, PartsPlan DEF PartsCallOK
  <2>6. \A j \in DOMAIN go' : PartsCallOK(go[j])'
    BY <1>4, <2>1, <2>3, <2>5
  <2> QED BY <1>1, <1>3, <2>1, <2>6 DEF PartsInv
<1>9. ASSUME NEW i \in DOMAIN go, Reporting(i), NEW value, NEW failed,
             Put(i, value, failed), UNCHANGED tables,
             ~failed => value = Count(NextFigure(i))
      PROVE  PartsInv'
  <2>1. /\ go'[i].figures = Append(go[i].figures, value)
        /\ go'[i].failed = (go[i].failed \/ failed)
        /\ go'[i].grew = go[i].grew
        /\ go'[i].pc \in {go[i].pc, "done"}
        /\ go'[i].pc = "done" => Len(go'[i].figures) = Len(Reports[go[i].op])
        /\ go'[i].op = go[i].op
        /\ \A j \in DOMAIN go \ {i} : go'[j] = go[j]
        /\ DOMAIN go' = DOMAIN go
    BY <1>1, <1>9, PutWithin DEF Within
  <2>2. PartsCallOK(go[i])'
    <3> SUFFICES ASSUME go[i].op \in DOMAIN Parts
                 PROVE  PartsCallOK(go[i])'
      BY <2>1 DEF PartsCallOK
    <3> DEFINE f == go[i].figures
               g == go'[i].figures
               op == go[i].op
               grew == go[i].grew
    <3>1. /\ PartsCallOK(go[i])
          /\ go[i].pc = "count"
          /\ grew \in Nat
      BY <1>9 DEF PartsInv, PartsCallOK, Reporting, Open
    <3>2. /\ Len(f) \in Nat
          /\ DOMAIN f = 1 .. Len(f)
          /\ IsSequence(g)
          /\ Len(g) = Len(f) + 1
          /\ \A k \in DOMAIN f : g[k] = f[k]
          /\ g[Len(f) + 1] = value
      BY <2>1, <3>1, SequenceFacts DEF PartsCallOK
    <3>3. ASSUME ~go'[i].failed, NEW p \in Parts[op]
          PROVE  /\ Len(g) >= p[1] =>
                       g[p[1]] \in Nat /\ Len(tables[Whole(op, p)]) <= g[p[1]] + grew
                 /\ Len(g) >= p[2] =>
                       g[p[2]] \in Nat /\ g[p[2]] <= g[p[1]] + grew
      <4>1. ~go[i].failed /\ ~failed
        BY <2>1, <3>3
      <4>2. value = Count(NextFigure(i))
        BY <1>9, <4>1
      <4>3. /\ p[1] \in Nat /\ p[2] \in Nat /\ 1 <= p[1] /\ p[1] < p[2]
            /\ Whole(op, p) \in DOMAIN NewRow
            /\ Reports[op][p[1]][1] = Whole(op, p)
            /\ Reports[op][p[1]][2] = "all"
            /\ Reports[op][p[2]][1] = Whole(op, p)
        BY PartsPlan DEF Whole
      <4> DEFINE rowsOf == Len(tables[Whole(op, p)])
      <4>4. /\ Len(f) >= p[1] => f[p[1]] \in Nat /\ rowsOf <= f[p[1]] + grew
            /\ Len(f) >= p[2] => f[p[2]] \in Nat /\ f[p[2]] <= f[p[1]] + grew
            /\ rowsOf \in Nat
        BY <1>2, <3>1, <4>1, <4>3 DEF PartsCallOK
      <4>5. Len(f) + 1 = p[1] => value \in Nat /\ value = rowsOf
        BY <1>1, <4>2, <4>3, PartCounts DEF NextFigure
      <4>6. Len(f) + 1 = p[2] => value \in Nat /\ value <= rowsOf
        BY <1>1, <4>2, <4>3, PartCounts DEF NextFigure
      <4> HIDE DEF f, g, op, grew, rowsOf
      <4>7. Len(g) >= p[1] => g[p[1]] \in Nat /\ rowsOf <= g[p[1]] + grew
        <5>1. CASE Len(f) + 1 = p[1]
          BY <3>1, <3>2, <4>4, <4>5, <5>1
        <5>2. CASE Len(f) >= p[1]
          BY <3>2, <4>3, <4>4, <5>2
        <5> QED BY <3>2, <4>3, <5>1, <5>2
      <4>8. Len(g) >= p[2] => g[p[2]] \in Nat /\ g[p[2]] <= g[p[1]] + grew
        <5>1. CASE Len(f) + 1 = p[2]
          BY <3>1, <3>2, <4>3, <4>4, <4>6, <4>7, <5>1
        <5>2. CASE Len(f) >= p[2]
          BY <3>2, <4>3, <4>4, <5>2
        <5> QED BY <3>2, <4>3, <5>1, <5>2
      <4> QED BY <4>7, <4>8 DEF rowsOf
    <3>4. ~go'[i].failed => \A p \in Parts[op] :
             /\ Len(g) >= p[1] =>
                   g[p[1]] \in Nat /\ Len(tables[Whole(op, p)]) <= g[p[1]] + grew
             /\ Len(g) >= p[2] =>
                   g[p[2]] \in Nat /\ g[p[2]] <= g[p[1]] + grew
      BY <3>3
    <3> QED BY <1>9, <2>1, <3>1, <3>2, <3>4 DEF PartsCallOK
  <2>3. \A j \in DOMAIN go' : PartsCallOK(go[j])'
    BY <1>4, <1>9, <2>1, <2>2
  <2> QED BY <1>1, <1>3, <1>9, <2>3 DEF PartsInv
<1>10. ASSUME NEW i \in DOMAIN go, CountFigure(i) \/ CountFails(i)
       PROVE  PartsInv'
  <2>1. PICK value, failed :
           /\ Put(i, value, failed)
           /\ ~failed => value = Count(NextFigure(i))
    BY <1>10 DEF CountFigure, CountFails
  <2>2. Reporting(i) /\ UNCHANGED tables
    BY <1>10 DEF CountFigure, CountFails
  <2> QED BY <1>9, <2>1, <2>2
<1>11. CASE WriteRow
  <2>1. ASSUME NEW j \in DOMAIN go
        PROVE  PartsCallOK(go[j])'
    <3>1. PartsCallOK(go[j]) /\ CallOK(go[j])
      BY <1>1 DEF PartsInv, GoOK
    <3>2. \/ ChangedRow /\ go'[j] = go[j]
          \/ ~Reporting(j) /\ go'[j] = go[j]
          \/ Reporting(j) /\ go'[j] = [go[j] EXCEPT !.grew = @ + 1]
      BY <1>1, <1>11, WriteLeaves
    <3> SUFFICES ASSUME go[j].op \in DOMAIN Parts
                 PROVE  PartsCallOK(go[j])'
      BY <3>1, <3>2 DEF PartsCallOK, CallOK, IsRecord
    <3>3. Reporting(j) <=> go[j].pc = "count"
      <4>1. proc = "serve"
        BY <1>11 DEF WriteRow, Serves
      <4>2. go[j].op \in DOMAIN Reports
        BY DEF Parts, Reports
      <4>3. go[j].pc \in {"count", "done", "gone"}
        BY <3>1 DEF PartsCallOK
      <4> QED BY <4>1, <4>2, <4>3 DEF Reporting, Open
    <3>4. \A p \in Parts[go[j].op] :
             /\ Whole(go[j].op, p) \in DOMAIN NewRow
             /\ p[1] < p[2] /\ p[1] \in Nat /\ p[2] \in Nat
      BY PartsPlan
    <3>5. /\ \A t \in DOMAIN NewRow :
                 /\ Len(tables'[t]) \in Nat
                 /\ Len(tables'[t]) <= Len(tables[t]) + 1
                 /\ ChangedRow => Len(tables'[t]) = Len(tables[t])
      BY <1>1, <1>11, TablesGrow
    <3>6. CASE go'[j] = go[j] /\ (ChangedRow \/ ~Reporting(j))
      BY <3>1, <3>3, <3>4, <3>5, <3>6 DEF PartsCallOK
    <3>7. CASE Reporting(j) /\ go'[j] = [go[j] EXCEPT !.grew = @ + 1]
      <4>1. /\ go'[j].op = go[j].op /\ go'[j].pc = go[j].pc
            /\ go'[j].figures = go[j].figures
            /\ go'[j].failed = go[j].failed
            /\ go'[j].grew = go[j].grew + 1
        BY <3>1, <3>7 DEF CallOK, IsRecord, Parts
      <4> DEFINE f == go[j].figures
                 grew == go[j].grew
      <4>2. Len(f) \in Nat
        BY <3>1, SequenceFacts DEF PartsCallOK
      <4>3. ASSUME ~go[j].failed, NEW p \in Parts[go[j].op]
            PROVE  /\ Len(f) >= p[1] =>
                        /\ f[p[1]] \in Nat
                        /\ Len(tables'[Whole(go[j].op, p)]) <= f[p[1]] + (grew + 1)
                   /\ Len(f) >= p[2] =>
                        /\ f[p[2]] \in Nat
                        /\ f[p[2]] <= f[p[1]] + (grew + 1)
        <5>1. /\ grew \in Nat
              /\ Len(f) >= p[1] =>
                     /\ f[p[1]] \in Nat
                     /\ Len(tables[Whole(go[j].op, p)]) <= f[p[1]] + grew
              /\ Len(f) >= p[2] => f[p[2]] \in Nat /\ f[p[2]] <= f[p[1]] + grew
          BY <3>1, <3>3, <3>7, <4>3 DEF PartsCallOK
        <5>2. Len(f) >= p[2] => Len(f) >= p[1]
          BY <3>4, <4>2
        <5> HIDE DEF f, grew
        <5> QED BY SMTT(40), <1>2, <3>4, <3>5, <5>1, <5>2, <4>2
      <4>4. ~go[j].failed => \A p \in Parts[go[j].op] :
                   /\ Len(f) >= p[1] =>
                        /\ f[p[1]] \in Nat
                        /\ Len(tables'[Whole(go[j].op, p)]) <= f[p[1]] + (grew + 1)
                   /\ Len(f) >= p[2] =>
                        /\ f[p[2]] \in Nat
                        /\ f[p[2]] <= f[p[1]] + (grew + 1)
        BY <4>3
      <4> QED BY <3>1, <4>1, <4>4 DEF PartsCallOK
    <3> QED BY <3>2, <3>6, <3>7
  <2>2. ASSUME NEW j \in DOMAIN go' \ DOMAIN go
        PROVE  PartsCallOK(go[j])'
    <3>1. go'[j].op = "write"
      BY <1>1, <1>11, WriteLeaves
    <3> QED BY <3>1 DEF PartsCallOK, Parts
  <2>3. TablesFit'
    BY <1>1, <1>11, TablesGrow
  <2> QED BY <1>1, <2>1, <2>2, <2>3 DEF PartsInv
<1>12. OrderOps \cap DOMAIN Parts = {} /\ ProfileOps \cap DOMAIN Parts = {}
  BY DEF OrderOps, ProfileOps, Parts
<1>13. OfficeNext => PartsInv'
  BY <1>8, <1>10, <1>11 DEF OfficeNext
<1> QED BY <1>1, <1>5, <1>6, <1>7, <1>12, <1>13, Steps DEF dataVars

LEMMA PartsInvHolds == Spec => []PartsInv
<1>1. Init => PartsInv
  <2>1. <<>> \in Seq({})
    OBVIOUS
  <2>2. IsSequence(<<>>)
    BY <2>1 DEF IsSequence
  <2> QED BY <2>2, GoOKAtFirst DEF Init, OfficeInit, PartsInv, TablesFit
<1> QED BY <1>1, PartsInvKept, PTL DEF Spec

(* A report whose statements all succeeded shows no more of a part than of *)
(* the whole, but for rows that were added while it ran.                   *)
THEOREM PartsFit == Spec => []PartsWithinWhole
<1>1. PartsInv => PartsWithinWhole
  <2> SUFFICES ASSUME PartsInv, NEW i \in DOMAIN go, go[i].op \in DOMAIN Parts,
                      go[i].pc = "done", ~go[i].failed, NEW p \in Parts[go[i].op]
               PROVE  go[i].figures[p[2]] <= go[i].figures[p[1]] + go[i].grew
    BY DEF PartsWithinWhole
  <2>1. PartsCallOK(go[i])
    BY DEF PartsInv
  <2>2. p[2] <= Len(Reports[go[i].op])
    BY PartsPlan
  <2> QED BY <2>1, <2>2 DEF PartsCallOK
<1> QED BY <1>1, PartsInvHolds, PTL
-----------------------------------------------------------------------------
(* The price of a heavier shipment, for every request and every rate of    *)
(* distance.  The total is a sum of terms, each rounded to the paisa, and  *)
(* each is shown not to fall when only the weight grows.                   *)

(* What a client can ask for: ids of any kind, a weight, and a volume and  *)
(* a declared value that may be negative, as no handler refuses that.      *)
Requests(Ids) ==
    [ mode : Ids, kg : Nat, vol : Int, from : Ids, to : Ids, goods : Ids,
      vehicle : Ids, declared : Int, insured : BOOLEAN, fragile : BOOLEAN,
      express : BOOLEAN ]

Handling(freight, handled) == IF handled THEN Round(5 * freight, 100) ELSE 0

(* The sum that Estimate puts GST on, in terms of the road distance.       *)
Subtotal(req, mode, km, handled) ==
    LET freight == BaseFreight(mode, req.kg, req.vol)
    IN  Express(req, freight) + Express(req, DistanceCost(mode, km, req.kg))
            + Express(req, Round(8 * freight, 100)) + 2 * LoadUnload(req.kg)
            + Handling(freight, handled) + Premium(req)

(* Rounding to the paisa keeps the order.                                  *)
LEMMA RoundMonotone ==
    ASSUME NEW n \in Nat, NEW m \in Nat, n <= m, NEW k \in {2, 10, 100}
    PROVE  /\ Round(n, k) \in Nat
           /\ Round(m, k) \in Nat
           /\ Round(n, k) <= Round(m, k)
<1>1. CASE k = 2
  BY <1>1 DEF Round
<1>2. CASE k = 10
  BY <1>2 DEF Round
<1>3. CASE k = 100
  BY <1>3 DEF Round
<1> QED BY <1>1, <1>2, <1>3

LEMMA ProductMonotone ==
    ASSUME NEW a \in Nat, NEW b \in Nat, a <= b, NEW c \in Nat
    PROVE  c * a <= c * b /\ c * a \in Nat /\ c * b \in Nat
OBVIOUS

LEMMA FreightMonotone ==
    ASSUME NEW mode, NEW a \in Nat, NEW b \in Nat, a <= b, NEW vol \in Int
    PROVE  /\ BaseFreight(mode, a, vol) \in Nat
           /\ BaseFreight(mode, b, vol) \in Nat
           /\ BaseFreight(mode, a, vol) <= BaseFreight(mode, b, vol)
<1>1. CASE mode = "air"
  BY <1>1 DEF BaseFreight, Larger
<1>2. CASE mode = "sea"
  BY <1>2 DEF BaseFreight, Larger
<1>3. CASE mode = "rail"
  BY <1>3 DEF BaseFreight, Larger
<1>4. CASE mode \notin {"air", "sea", "rail"}
  BY <1>4 DEF BaseFreight, Larger
<1> QED BY <1>1, <1>2, <1>3, <1>4

LEMMA DistanceMonotone ==
    ASSUME NEW mode, NEW km \in Nat, NEW a \in Nat, NEW b \in Nat, a <= b
    PROVE  /\ DistanceCost(mode, km, a) \in Nat
           /\ DistanceCost(mode, km, b) \in Nat
           /\ DistanceCost(mode, km, a) <= DistanceCost(mode, km, b)
<1>1. a * km \in Nat /\ b * km \in Nat /\ a * km <= b * km
  BY ProductMonotone
<1>2. /\ 18 * (a * km) \in Nat /\ 18 * (b * km) \in Nat
      /\ 18 * (a * km) <= 18 * (b * km)
      /\ 35 * (a * km) \in Nat /\ 35 * (b * km) \in Nat
      /\ 35 * (a * km) <= 35 * (b * km)
  BY <1>1
<1>3. CASE mode \in {"air", "sea"}
  BY <1>3 DEF DistanceCost
<1>4. CASE mode = "rail"
  BY <1>2, <1>4, RoundMonotone DEF DistanceCost
<1>5. CASE mode \notin {"air", "sea", "rail"}
  BY <1>2, <1>5, RoundMonotone DEF DistanceCost
<1> QED BY <1>3, <1>4, <1>5

LEMMA LoadingMonotone ==
    ASSUME NEW a \in Nat, NEW b \in Nat, a <= b
    PROVE  /\ LoadUnload(a) \in Nat
           /\ LoadUnload(b) \in Nat
           /\ LoadUnload(a) <= LoadUnload(b)
BY DEF LoadUnload

LEMMA ExpressMonotone ==
    ASSUME NEW p, NEW q, q.express = p.express,
           NEW a \in Nat, NEW b \in Nat, a <= b
    PROVE  /\ Express(p, a) \in Nat
           /\ Express(q, b) \in Nat
           /\ Express(p, a) <= Express(q, b)
<1>1. 3 * a \in Nat /\ 3 * b \in Nat /\ 3 * a <= 3 * b
  OBVIOUS
<1> QED BY <1>1, RoundMonotone DEF Express

LEMMA PremiumIsNatural ==
    ASSUME NEW req, req.declared \in Int
    PROVE  Premium(req) \in Nat
<1>1. req.declared > 0 => Round(5 * req.declared, 1000) \in Nat
  BY DEF Round
<1> QED BY <1>1 DEF Premium, Larger

LEMMA SubtotalMonotone ==
    ASSUME NEW Ids, NEW p \in Requests(Ids), NEW w \in Nat, p.kg <= w,
           NEW mode, NEW km \in Nat, NEW handled \in BOOLEAN
    PROVE  LET q == [p EXCEPT !.kg = w]
           IN  /\ Subtotal(p, mode, km, handled) \in Nat
               /\ Subtotal(q, mode, km, handled) \in Nat
               /\ Subtotal(p, mode, km, handled) <= Subtotal(q, mode, km, handled)
<1> DEFINE q == [p EXCEPT !.kg = w]
           fp == BaseFreight(mode, p.kg, p.vol)
           fq == BaseFreight(mode, q.kg, q.vol)
<1>1. /\ p.kg \in Nat /\ q.kg = w /\ p.vol \in Int /\ q.vol = p.vol
      /\ p.declared \in Int /\ q.express = p.express
      /\ q \in Requests(Ids)
      /\ q.insured = p.insured /\ q.declared = p.declared
  BY DEF Requests
<1>2. Premium(q) = Premium(p) /\ Premium(p) \in Nat
  BY <1>1, PremiumIsNatural DEF Premium
<1> HIDE DEF q
<1>3. fp \in Nat /\ fq \in Nat /\ fp <= fq
  BY <1>1, FreightMonotone
<1>4. /\ DistanceCost(mode, km, p.kg) \in Nat
      /\ DistanceCost(mode, km, q.kg) \in Nat
      /\ DistanceCost(mode, km, p.kg) <= DistanceCost(mode, km, q.kg)
  BY <1>1, DistanceMonotone
<1>5. /\ LoadUnload(p.kg) \in Nat
      /\ LoadUnload(q.kg) \in Nat
      /\ LoadUnload(p.kg) <= LoadUnload(q.kg)
  BY <1>1, LoadingMonotone
<1> HIDE DEF fp, fq
<1>6. /\ Round(8 * fp, 100) \in Nat
      /\ Round(8 * fq, 100) \in Nat
      /\ Round(8 * fp, 100) <= Round(8 * fq, 100)
  BY <1>3, RoundMonotone, 8 * fp \in Nat, 8 * fq \in Nat, 8 * fp <= 8 * fq
<1>7. /\ Handling(fp, handled) \in Nat
      /\ Handling(fq, handled) \in Nat
      /\ Handling(fp, handled) <= Handling(fq, handled)
  BY <1>3, RoundMonotone, 5 * fp \in Nat, 5 * fq \in Nat, 5 * fp <= 5 * fq
     DEF Handling
<1>8. /\ Express(p, fp) \in Nat /\ Express(q, fq) \in Nat
      /\ Express(p, fp) <= Express(q, fq)
  BY <1>1, <1>3, ExpressMonotone
<1>9. /\ Express(p, DistanceCost(mode, km, p.kg)) \in Nat
      /\ Express(q, DistanceCost(mode, km, q.kg)) \in Nat
      /\ Express(p, DistanceCost(mode, km, p.kg))
            <= Express(q, DistanceCost(mode, km, q.kg))
  BY <1>1, <1>4, ExpressMonotone
<1>10. /\ Express(p, Round(8 * fp, 100)) \in Nat
       /\ Express(q, Round(8 * fq, 100)) \in Nat
       /\ Express(p, Round(8 * fp, 100)) <= Express(q, Round(8 * fq, 100))
  BY <1>1, <1>6, ExpressMonotone
<1>11. /\ Subtotal(p, mode, km, handled) =
              Express(p, fp) + Express(p, DistanceCost(mode, km, p.kg))
                + Express(p, Round(8 * fp, 100)) + 2 * LoadUnload(p.kg)
                + Handling(fp, handled) + Premium(p)
       /\ Subtotal(q, mode, km, handled) =
              Express(q, fq) + Express(q, DistanceCost(mode, km, q.kg))
                + Express(q, Round(8 * fq, 100)) + 2 * LoadUnload(q.kg)
                + Handling(fq, handled) + Premium(q)
  BY DEF Subtotal, fp, fq
<1>12. /\ Subtotal(p, mode, km, handled) \in Nat
       /\ Subtotal(q, mode, km, handled) \in Nat
       /\ Subtotal(p, mode, km, handled) <= Subtotal(q, mode, km, handled)
  BY <1>2, <1>5, <1>7, <1>8, <1>9, <1>10, <1>11
<1> QED BY <1>12 DEF q

LEMMA GstMonotone ==
    ASSUME NEW a \in Nat, NEW b \in Nat, a <= b
    PROVE  Gst(a) \in Nat /\ Gst(b) \in Nat /\ Gst(a) <= Gst(b)
<1>1. 18 * a \in Nat /\ 18 * b \in Nat /\ 18 * a <= 18 * b
  OBVIOUS
<1> QED BY <1>1, RoundMonotone DEF Gst

(* A heavier shipment never costs less, whatever its mode, although air    *)
(* prices by the larger of weight and volume, sea by either, and loading   *)
(* by a rate that only begins at 500 kg (pricing_service.go:202).          *)
THEOREM HeavierNoCheaper ==
    ASSUME NEW Ids, NEW req \in Requests(Ids), NEW w \in Nat, req.kg <= w,
           NEW found, DistanceKm(req.from, req.to, found) \in Nat
    PROVE  Estimate(req, found).total
              <= Estimate([req EXCEPT !.kg = w], found).total
<1> DEFINE q       == [req EXCEPT !.kg = w]
           mode    == RoadIfEmpty(req.mode)
           km      == DistanceKm(req.from, req.to, found)
           handled == req.goods \in HighRisk \cap found \/ req.fragile
           s       == Subtotal(req, mode, km, handled)
           t       == Subtotal(q, mode, km, handled)
<1>1. Estimate(req, found).total = s + Gst(s)
  BY DEF Estimate, Subtotal, Handling
<1>2. /\ q.mode = req.mode /\ q.from = req.from /\ q.to = req.to
      /\ q.goods = req.goods /\ q.fragile = req.fragile
  BY DEF Requests
<1>3. Estimate(q, found).total = t + Gst(t)
  <2> HIDE DEF q
  <2> QED BY <1>2 DEF Estimate, Subtotal, Handling
<1>4. s \in Nat /\ t \in Nat /\ s <= t
  BY SubtotalMonotone
<1>5. Gst(s) \in Nat /\ Gst(t) \in Nat /\ Gst(s) <= Gst(t)
  <2> HIDE DEF s, t
  <2> QED BY <1>4, GstMonotone
<1> HIDE DEF s, t, q
<1>6. Estimate(req, found).total <= Estimate(q, found).total
  BY <1>1, <1>3, <1>4, <1>5
<1> QED BY <1>6 DEF q
-----------------------------------------------------------------------------
(* One price.  All the answers of processes that started cleanly are       *)
(* compared with the list price, which depends on the form alone.          *)

(* The sum on which Estimate puts GST, and that of a journey of one leg.   *)
LEMMA EstimateTotal ==
    ASSUME NEW req, NEW found
    PROVE  LET s == Subtotal(req, RoadIfEmpty(req.mode),
                             DistanceKm(req.from, req.to, found),
                             req.goods \in HighRisk \cap found \/ req.fragile)
           IN  Estimate(req, found).total = s + Gst(s)
BY DEF Estimate, Subtotal, Handling

(* The sum over a journey of one leg is the cost of that leg.              *)
LEMMA OneLegTotal ==
    ASSUME NEW req, NEW found, DOMAIN req.legs = {1},
           LegCost(req, req.legs[1], found) \in Int
    PROVE  LET base == LegCost(req, req.legs[1], found)
               s    == base + Round(8 * base, 100) + 2 * LoadUnload(req.kg)
                            + Premium(req)
           IN  EstimateMultiModal(req, found).total = s + Gst(s)
<1> DEFINE cost == LegCost(req, req.legs[1], found)
           Sum(f) == [S \in SUBSET {1} |->
                        IF S = {} THEN 0
                        ELSE LET x == CHOOSE x \in S : TRUE
                             IN  LegCost(req, req.legs[x], found) + f[S \ {x}]]
           g == [S \in SUBSET {1} |-> IF S = {} THEN 0 ELSE cost]
           iter == CHOOSE f : f = Sum(f)
           Cost(i) == LegCost(req, req.legs[i], found)
           base == MapThenSumSet(Cost, DOMAIN req.legs)
           s == base + Round(8 * base, 100) + 2 * LoadUnload(req.kg) + Premium(req)
<1>1. g = Sum(g)
  <2>1. \A S \in SUBSET {1} : g[S] = Sum(g)[S]
    <3> TAKE S \in SUBSET {1}
    <3>1. CASE S = {}
      BY <3>1
    <3>2. CASE S = {1}
      <4>1. (CHOOSE x \in S : TRUE) = 1
        BY <3>2
      <4>2. g[{}] = 0 /\ g[S] = cost /\ S \ {1} = {}
        BY <3>2
      <4>3. Sum(g)[S] = cost + g[{}]
        BY <3>2, <4>1, <4>2
      <4> QED BY <4>2, <4>3
    <3> QED BY <3>1, <3>2
  <2> QED BY <2>1
<1>2. iter = Sum(iter)
  BY <1>1
<1>3. iter[{}] = 0
  BY <1>2
<1>4. iter[{1}] = cost
  <2>1. (CHOOSE x \in {1} : TRUE) = 1
    OBVIOUS
  <2>2. {1} \ {1} = {}
    OBVIOUS
  <2> HIDE DEF iter
  <2>3. Sum(iter)[{1}] = LegCost(req, req.legs[CHOOSE x \in {1} : TRUE], found)
                             + iter[{1} \ {CHOOSE x \in {1} : TRUE}]
    OBVIOUS
  <2>4. Sum(iter)[{1}] = cost + 0
    BY <1>3, <2>1, <2>2, <2>3
  <2>5. iter[{1}] = Sum(iter)[{1}]
    BY <1>2
  <2> QED BY <2>4, <2>5
<1>5. base = iter[{1}]
  BY DEF MapThenSumSet, MapThenFoldSet
<1>6. EstimateMultiModal(req, found).total = s + Gst(s)
  BY DEF EstimateMultiModal
<1> HIDE DEF base, cost
<1> QED BY <1>4, <1>5, <1>6 DEF cost

(* The keys of all the master data that pricing looks up.                 *)
CatalogKeys == {e.key : e \in Catalog}

(* What a form costs with the whole catalog: cargo as it is booked, a      *)
(* parcel as one that is not express.                                      *)
ListPrice(desk, form) ==
    LET request == CASE desk = "courier"   -> CourierBooking(form)
                     [] desk = "logistics" -> LogisticsBooking(form)
                     [] OTHER              -> form
    IN  Estimate(request, CatalogKeys).total

(* A price is positive: loading is 100.00 at least, twice, and no term of  *)
(* the sum is negative.                                                    *)
LEMMA SubtotalIsNatural ==
    ASSUME NEW req, req.kg \in Nat, req.kg > 0, req.vol \in Int, req.declared \in Int,
           NEW mode, NEW km \in Nat, NEW handled
    PROVE  /\ Subtotal(req, mode, km, handled) \in Nat
           /\ Subtotal(req, mode, km, handled) > 0
<1> DEFINE freight == BaseFreight(mode, req.kg, req.vol)
           distance == DistanceCost(mode, km, req.kg)
           fuel == Round(8 * freight, 100)
<1>1. freight \in Nat /\ distance \in Nat
  BY FreightMonotone, DistanceMonotone, req.kg <= req.kg
<1>2. LoadUnload(req.kg) \in Nat /\ LoadUnload(req.kg) > 0
  BY DEF LoadUnload
<1>3. Premium(req) \in Nat
  BY PremiumIsNatural
<1> HIDE DEF freight, distance
<1>4. fuel \in Nat /\ Handling(freight, handled) \in Nat
  <2>1. 8 * freight \in Nat /\ 5 * freight \in Nat
    BY <1>1
  <2>2. fuel \in Nat /\ Round(5 * freight, 100) \in Nat
    BY <2>1, RoundMonotone
  <2> QED BY <2>2 DEF Handling
<1> HIDE DEF fuel
<1>5. Express(req, freight) \in Nat /\ Express(req, distance) \in Nat
      /\ Express(req, fuel) \in Nat
  BY <1>1, <1>4, ExpressMonotone, freight <= freight, distance <= distance, fuel <= fuel
<1>6. Subtotal(req, mode, km, handled) =
          Express(req, freight) + Express(req, distance) + Express(req, fuel)
              + 2 * LoadUnload(req.kg) + Handling(freight, handled) + Premium(req)
  BY DEF Subtotal, freight, distance, fuel
<1> QED BY <1>2, <1>3, <1>4, <1>5, <1>6

(* One leg by air or sea that needs no handling costs what one estimate    *)
(* of it does, although the journey sums, and rounds, in another way.      *)
LEMMA LegsTotal ==
    ASSUME NEW req, req.kg \in Nat, req.vol \in Int, req.declared \in Int,
           req.mode \in {"air", "sea"}, ~req.express,
           NEW found, NEW journey,
           journey.legs = << [mode |-> req.mode, from |-> req.from, to |-> req.to] >>,
           journey.kg = req.kg, journey.vol = req.vol,
           journey.insured = req.insured, journey.declared = req.declared,
           NEW km \in Nat
    PROVE  LET s == Subtotal(req, req.mode, km, FALSE)
           IN  EstimateMultiModal(journey, found).total = s + Gst(s)
<1> DEFINE freight == BaseFreight(req.mode, req.kg, req.vol)
           fuel    == Round(8 * freight, 100)
           s       == freight + fuel + 2 * LoadUnload(req.kg) + Premium(req)
<1>1. freight \in Nat
  BY FreightMonotone, req.kg <= req.kg
<1>2. fuel \in Nat
  <2> HIDE DEF freight
  <2> QED BY SMTT(40), <1>1, RoundMonotone, 8 * freight \in Nat, 8 * freight <= 8 * freight
<1>3. LoadUnload(req.kg) \in Nat /\ Premium(req) \in Nat
  BY PremiumIsNatural DEF LoadUnload
<1>4. DOMAIN journey.legs = {1} /\ journey.legs[1].mode = req.mode
  OBVIOUS
<1>5. LegCost(journey, journey.legs[1], found) = freight
  <2>1. LegCost(journey, journey.legs[1], found) = freight + 0
    BY <1>4 DEF LegCost, DistanceCost
  <2> QED BY <1>1, <2>1
<1>6. Premium(journey) = Premium(req)
  BY DEF Premium
<1>7. EstimateMultiModal(journey, found).total = s + Gst(s)
  <2> HIDE DEF freight
  <2> QED BY <1>1, <1>4, <1>5, <1>6, OneLegTotal
<1>8. Subtotal(req, req.mode, km, FALSE) =
          freight + 0 + fuel + 2 * LoadUnload(req.kg) + 0 + Premium(req)
  <2>1. DistanceCost(req.mode, km, req.kg) = 0
    BY DEF DistanceCost
  <2> QED BY <2>1 DEF Subtotal, Express, Handling
<1> HIDE DEF freight, fuel
<1>9. freight + 0 + fuel + 2 * LoadUnload(req.kg) + 0 + Premium(req) = s
  BY <1>1, <1>2, <1>3
<1> QED BY <1>7, <1>8, <1>9

(* Where the bookings, the rows and the prices of the next state come      *)
(* from: an answer is given for a form that passed the handler's check, by *)
(* a process that serves.                                                  *)
Given(kind, desk, answer) ==
    /\ proc = "serve"
    /\ \E form \in Forms[desk] : \E lost :
          form.kg > 0 /\ answer = Answer(kind, desk, form, lost)

LEMMA BookingFrom ==
    ASSUME GoOK, [Next]_vars, NEW j \in DOMAIN go', go'[j].op = "booking"
    PROVE  \/ /\ j \in DOMAIN go
              /\ go[j].op = "booking"
              /\ go'[j].desk = go[j].desk
              /\ go'[j].by = go[j].by
              /\ go'[j].tracking = go[j].tracking
              /\ go'[j].answer = go[j].answer
           \/ /\ go'[j].desk \in Desks
              /\ go'[j].by \in Bookers
              /\ go'[j].tracking \in {Prefix[go'[j].desk]} \X TrackingNos
              /\ Given("booking", go'[j].desk, go'[j].answer)
<1> DEFINE Old == /\ j \in DOMAIN go
                  /\ go[j].op = "booking"
                  /\ go'[j].desk = go[j].desk
                  /\ go'[j].by = go[j].by
                  /\ go'[j].tracking = go[j].tracking
                  /\ go'[j].answer = go[j].answer
           New == /\ go'[j].desk \in Desks
                  /\ go'[j].by \in Bookers
                  /\ go'[j].tracking \in {Prefix[go'[j].desk]} \X TrackingNos
                  /\ Given("booking", go'[j].desk, go'[j].answer)
<1> SUFFICES Old \/ New
  OBVIOUS
<1>1. ASSUME j \in DOMAIN go, go'[j] = go[j]
      PROVE  Old
  BY <1>1
<1>2. ASSUME NEW pc, j \in DOMAIN go, go'[j] = [go[j] EXCEPT !.pc = pc]
      PROVE  Old
  <2>1. CallOK(go[j])
    BY <1>2 DEF GoOK
  <2> QED BY <1>2, <2>1 DEF CallOK, IsRecord
<1>3. ASSUME NEW call, go' = Append(go, call), call.op = "booking" => New
      PROVE  Old \/ New
  <2>1. j \in DOMAIN go => go'[j] = go[j]
    BY <1>3, SequenceFacts DEF GoOK
  <2>2. j \notin DOMAIN go => go'[j] = call
    BY <1>3, SequenceFacts DEF GoOK
  <2> HIDE DEF New, Old
  <2> QED BY <1>1, <1>3, <2>1, <2>2
<1> HIDE DEF Old
<1>4. CASE UNCHANGED <<go, dataVars>>
  BY <1>1, <1>4
<1>5. CASE Abandon
  BY <1>1, <1>2, <1>5, Abandoned
<1>6. ASSUME NEW ops, Within(ops), "booking" \notin ops
      PROVE  Old
  BY <1>1, <1>6 DEF Within
<1>7. CASE OrdersNext /\ Within(OrderOps)
  <2>1. ASSUME NEW desk \in DOMAIN Kinds, NEW kind \in Kinds[desk],
               NEW form \in Forms[desk], NEW lost, Ask(desk, kind, form, lost)
        PROVE  Old \/ New
    <3>1. CASE kind = "booking"
      <4>1. desk \in Desks
        BY <3>1 DEF Kinds, Desks
      <4>2. PICK c \in Bookers, n \in TrackingNos \cap 1 .. Len(go) + 1 :
              go' = Append(go,
                      [op |-> "booking", pc |-> "insert", desk |-> desk, by |-> c,
                       tracking |-> <<Prefix[desk], n>>, mode |-> form.mode,
                       answer |-> Answer("booking", desk, form, lost)])
        BY <2>1, <3>1 DEF Ask, Book, Receive
      <4> DEFINE answer == Answer("booking", desk, form, lost)
                 call == [op |-> "booking", pc |-> "insert", desk |-> desk, by |-> c,
                          tracking |-> <<Prefix[desk], n>>, mode |-> form.mode,
                          answer |-> answer]
      <4>3. Given("booking", desk, answer)
        <5>1. proc = "serve" /\ form.kg > 0
          BY <2>1, <3>1 DEF Ask, Book, Receive, Serves
        <5> QED BY <5>1 DEF Given
      <4> HIDE DEF answer
      <4>4. /\ call.desk = desk /\ call.by = c /\ call.answer = answer
            /\ call.tracking \in {Prefix[desk]} \X TrackingNos
        OBVIOUS
      <4> HIDE DEF call
      <4>5. go' = Append(go, call)
        BY <4>2 DEF call, answer
      <4>6. j \notin DOMAIN go => go'[j] = call
        BY <4>5, SequenceFacts DEF GoOK
      <4>7. j \in DOMAIN go => go'[j] = go[j]
        BY <4>5, SequenceFacts DEF GoOK
      <4> QED BY <1>1, <4>1, <4>3, <4>4, <4>6, <4>7
    <3>2. CASE kind # "booking"
      <4> DEFINE call == [op |-> kind, pc |-> "done"]
      <4>1. go' = Append(go, call) /\ call.op # "booking"
        BY <2>1, <3>2 DEF Ask, Quote, Receive
      <4> HIDE DEF call, New
      <4> QED BY <1>3, <4>1
    <3> QED BY <3>1, <3>2
  <2>2. CASE AskDesk \/ AskDeskLookupsFail
    BY <2>1, <2>2 DEF AskDesk, AskDeskLookupsFail
  <2> HIDE DEF New
  <2>3. ASSUME NEW call, go' = Append(go, call), call.op # "booking"
        PROVE  Old \/ New
    BY <1>3, <2>3
  <2>4. CASE Cancel \/ List
    <3>1. PICK call : go' = Append(go, call) /\ call.op # "booking"
      <4>1. ASSUME Cancel
            PROVE  \E call : go' = Append(go, call) /\ call.op # "booking"
        <5>1. PICK c \in Customers, k \in DOMAIN orders.courier :
                go' = Append(go,
                        [op |-> "cancel", pc |-> "load", by |-> c, order |-> k,
                         late |-> orders.courier[k].status = "delivered"])
          BY <4>1 DEF Cancel, Receive
        <5> QED BY <5>1
      <4>2. ASSUME List
            PROVE  \E call : go' = Append(go, call) /\ call.op # "booking"
        <5>1. PICK d, c, ask, status :
                go' = Append(go,
                        [op |-> "list", pc |-> "count", desk |-> d, by |-> c,
                         status |-> status,
                         page |-> PageOf(ask.page), limit |-> LimitOf(ask.limit),
                         total |-> 0, found |-> {}])
          BY <4>2 DEF List, Receive
        <5> QED BY <5>1
      <4> QED BY <2>4, <4>1, <4>2
    <3> QED BY <2>3, <3>1
  <2>5. CASE Deliver
    BY <1>1, <2>5 DEF Deliver, callVars
  <2>6. ASSUME NEW i \in DOMAIN go, NEW pc, Goto(i, pc)
        PROVE  Old
    <3>1. go' = [go EXCEPT ![i] = [go[i] EXCEPT !.pc = pc]]
      BY <2>6 DEF Goto
    <3>2. DOMAIN go' = DOMAIN go
      BY <3>1
    <3>3. CASE j = i
      BY <1>2, <3>1, <3>2, <3>3
    <3>4. CASE j # i
      BY <1>1, <3>1, <3>2, <3>4
    <3> QED BY <3>3, <3>4
  <2>7. ASSUME NEW i \in DOMAIN go,
               InsertOrder(i) \/ LoadOrder(i) \/ UpdateOrder(i) \/ OrderFails(i)
        PROVE  Old
    BY <2>6, <2>7 DEF InsertOrder, LoadOrder, UpdateOrder, OrderFails
  <2>8. ASSUME NEW i \in DOMAIN go, CountOrders(i) \/ FindOrders(i)
        PROVE  Old
    <3>1. go[i].op = "list" /\ \E call : go' = [go EXCEPT ![i] = call]
      BY <2>8 DEF CountOrders, FindOrders, IsAt
    <3>2. DOMAIN go' = DOMAIN go /\ \A l \in DOMAIN go \ {i} : go'[l] = go[l]
      BY <3>1
    <3>3. j # i
      BY <1>7, <3>1 DEF Within
    <3> QED BY <1>1, <3>2, <3>3
  <2> QED BY <1>7, <2>2, <2>4, <2>5, <2>7, <2>8 DEF OrdersNext
<1>8. "booking" \notin OfficeOps /\ "booking" \notin ProfileOps
  BY DEF OfficeOps, ProfileOps
<1> HIDE DEF New
<1> QED BY <1>4, <1>5, <1>6, <1>7, <1>8, Steps

(* A row stays as it is, but that its status may become a final one, or is *)
(* new and a booking's.                                                    *)
LEMMA RowsFrom ==
    ASSUME OrdersInv, [Next]_vars, NEW d \in Desks
    PROVE  /\ DOMAIN orders[d] \subseteq DOMAIN orders'[d]
           /\ \A k \in DOMAIN orders[d] :
                 \/ orders'[d][k] = orders[d][k]
                 \/ \E status \in Terminal :
                       orders'[d][k] = [orders[d][k] EXCEPT !.status = status]
           /\ \A k \in DOMAIN orders'[d] \ DOMAIN orders[d] :
                 \E i \in DOMAIN go :
                    /\ go[i].op = "booking" /\ go[i].desk = d
                    /\ orders'[d][k] = NewOrder(go[i])
<1> DEFINE Goal ==
        /\ DOMAIN orders[d] \subseteq DOMAIN orders'[d]
        /\ \A k \in DOMAIN orders[d] :
              \/ orders'[d][k] = orders[d][k]
              \/ \E status \in Terminal :
                    orders'[d][k] = [orders[d][k] EXCEPT !.status = status]
        /\ \A k \in DOMAIN orders'[d] \ DOMAIN orders[d] :
              \E i \in DOMAIN go :
                 /\ go[i].op = "booking" /\ go[i].desk = d
                 /\ orders'[d][k] = NewOrder(go[i])
<1> SUFFICES Goal
  OBVIOUS
<1>1. GoOK /\ OrdersFit
  BY DEF OrdersInv
<1>2. UNCHANGED orders => Goal
  OBVIOUS
<1>3. ASSUME NEW l \in DOMAIN orders.courier, NEW status \in Terminal,
             orders' = [orders EXCEPT !.courier[l].status = status]
      PROVE  Goal
  <2> DEFINE o == [orders.courier[l] EXCEPT !.status = status]
  <2>1. /\ orders'.courier = [orders.courier EXCEPT ![l] = o]
        /\ orders'.logistics = orders.logistics
    BY <1>1, <1>3 DEF OrdersFit, Desks
  <2>2. /\ orders'.courier[l] = [orders.courier[l] EXCEPT !.status = status]
        /\ \A k \in DOMAIN orders.courier \ {l} :
              orders'.courier[k] = orders.courier[k]
        /\ DOMAIN orders'.courier = DOMAIN orders.courier
    BY <2>1
  <2> HIDE DEF o
  <2>3. CASE d = "courier"
    BY <2>2, <2>3
  <2>4. CASE d = "logistics"
    BY <2>1, <2>4
  <2> QED BY <2>3, <2>4 DEF Desks
<1>4. ASSUME NEW i \in DOMAIN go, InsertOrder(i)
      PROVE  Goal
  <2> DEFINE o == NewOrder(go[i])
             e == go[i].desk
  <2>1. go[i].op = "booking" /\ e \in Desks
    BY <1>4 DEF InsertOrder, IsAt, OrdersInv, OrderCallOK
  <2>2. CASE orders' = [orders EXCEPT ![e] = Append(@, o)]
    <3>1. /\ orders'[e] = Append(orders[e], o)
          /\ \A f \in Desks \ {e} : orders'[f] = orders[f]
      BY <1>1, <2>1, <2>2 DEF OrdersFit
    <3>2. CASE d = e
      <4>1. IsSequence(orders[d]) /\ orders'[d] = Append(orders[d], o)
        BY <1>1, <3>1, <3>2 DEF OrdersFit
      <4> HIDE DEF o
      <4>2. /\ DOMAIN orders[d] = 1 .. Len(orders[d])
            /\ Len(orders[d]) \in Nat
            /\ DOMAIN orders'[d] = 1 .. Len(orders[d]) + 1
            /\ \A k \in DOMAIN orders[d] : orders'[d][k] = orders[d][k]
            /\ orders'[d][Len(orders[d]) + 1] = o
        BY <4>1, SequenceFacts
      <4>3. \A k \in DOMAIN orders'[d] \ DOMAIN orders[d] : orders'[d][k] = o
        BY <4>2
      <4> QED BY <2>1, <3>2, <4>2, <4>3 DEF o
    <3>3. CASE d # e
      <4>1. orders'[d] = orders[d]
        BY <3>1, <3>3
      <4> QED BY <4>1
    <3> QED BY <3>2, <3>3
  <2>3. CASE UNCHANGED orders
    BY <1>2, <2>3
  <2> QED BY <1>4, <2>2, <2>3 DEF InsertOrder, orderVars
<1>5. CASE Deliver
  <2>1. PICK l \in DOMAIN orders.courier :
          orders' = [orders EXCEPT !.courier[l].status = "delivered"]
    BY <1>5 DEF Deliver
  <2> QED BY <1>3, <2>1 DEF Terminal
<1>6. ASSUME NEW i \in DOMAIN go, UpdateOrder(i)
      PROVE  Goal
  <2>1. /\ go[i].op = "cancel" /\ OrderCallOK(go[i])
        /\ orders' = [orders EXCEPT !.courier[go[i].order].status = "cancelled"]
    BY <1>6 DEF UpdateOrder, IsAt, OrdersInv
  <2>2. go[i].order \in DOMAIN orders.courier
    BY <2>1 DEF OrderCallOK
  <2> QED BY <1>3, <2>1, <2>2 DEF Terminal
<1>7. ASSUME NEW i \in DOMAIN go,
             LoadOrder(i) \/ CountOrders(i) \/ FindOrders(i) \/ OrderFails(i)
      PROVE  Goal
  BY <1>2, <1>7 DEF LoadOrder, CountOrders, FindOrders, OrderFails, orderVars
<1>8. CASE AskDesk \/ AskDeskLookupsFail \/ Cancel \/ List
  <2>1. UNCHANGED orders
    BY <1>8 DEF AskDesk, AskDeskLookupsFail, Cancel, List, Ask, Book, Quote, orderVars
  <2> QED BY <1>2, <2>1
<1> HIDE DEF Goal
<1>9. OrdersNext => Goal
  BY <1>4, <1>5, <1>6, <1>7, <1>8 DEF OrdersNext
<1> QED BY <1>1, <1>2, <1>9, Steps DEF dataVars, orderVars

LEMMA PricesFrom ==
    ASSUME GoOK, [Next]_vars
    PROVE  \A p \in priced' :
              \/ p \in priced
              \/ \E i \in DOMAIN go : go[i].op = "booking" /\ p = go[i].answer
              \/ \E desk \in DOMAIN Kinds : \E kind \in Kinds[desk] :
                    Given(kind, desk, p)
<1> DEFINE Goal ==
        \A p \in priced' :
           \/ p \in priced
           \/ \E i \in DOMAIN go : go[i].op = "booking" /\ p = go[i].answer
           \/ \E desk \in DOMAIN Kinds : \E kind \in Kinds[desk] :
                 Given(kind, desk, p)
<1> SUFFICES Goal
  OBVIOUS
<1>1. UNCHANGED priced => Goal
  OBVIOUS
<1>2. ASSUME NEW desk \in DOMAIN Kinds, NEW kind \in Kinds[desk],
             NEW form \in Forms[desk], NEW lost, Ask(desk, kind, form, lost)
      PROVE  Goal
  <2>1. CASE kind = "booking"
    BY <1>1, <1>2, <2>1 DEF Ask, Book, orderVars
  <2>2. CASE kind # "booking"
    <3> DEFINE answer == Answer(kind, desk, form, lost)
    <3>1. priced' = priced \cup {answer} /\ proc = "serve" /\ form.kg > 0
      BY <1>2, <2>2 DEF Ask, Quote, Receive, Serves
    <3>2. Given(kind, desk, answer)
      BY <3>1 DEF Given
    <3> HIDE DEF answer
    <3> QED BY <3>1, <3>2
  <2> QED BY <2>1, <2>2
<1>3. ASSUME NEW i \in DOMAIN go, InsertOrder(i)
      PROVE  Goal
  BY <1>3 DEF InsertOrder, IsAt, orderVars
<1> HIDE DEF Goal
<1>4. CASE AskDesk \/ AskDeskLookupsFail
  BY <1>2, <1>4 DEF AskDesk, AskDeskLookupsFail
<1>5. CASE Cancel \/ List \/ Deliver
  BY <1>1, <1>5 DEF Cancel, List, Deliver, orderVars
<1>6. ASSUME NEW i \in DOMAIN go,
             LoadOrder(i) \/ UpdateOrder(i) \/ CountOrders(i) \/ FindOrders(i)
                          \/ OrderFails(i)
      PROVE  Goal
  BY <1>1, <1>6 DEF LoadOrder, UpdateOrder, CountOrders, FindOrders, OrderFails, orderVars
<1>7. OrdersNext => Goal
  BY <1>3, <1>4, <1>5, <1>6 DEF OrdersNext
<1>8. OfficeNext => UNCHANGED priced
  BY DEF OfficeNext, AskReport, WriteRow, CountFigure, CountFails, orderVars
<1> QED BY <1>1, <1>7, <1>8, Steps DEF dataVars, orderVars

(* An answer of a process that started without an error and found every   *)
(* row it looked up shows the list price, if the code promises one price.  *)
RightAnswer(a) ==
    a.clean /\ Comparable(a.desk, a.form) => a.total = ListPrice(a.desk, a.form)

(* What the engine reads of a request, whichever handler made it.          *)
LEMMA RequestFacts ==
    ASSUME NEW desk \in DOMAIN Kinds, NEW kind \in Kinds[desk],
           NEW form \in Forms[desk]
    PROVE  LET r == Request(kind, desk, form)
           IN  /\ r.kg = form.kg /\ r.kg \in Int
               /\ r.declared = form.declared /\ r.declared \in Int
               /\ r.insured = form.insured
               /\ r.goods = form.goods
               /\ r.vol \in Int
               /\ r.from \in CityIds /\ r.to \in CityIds
               /\ desk = "courier" =>
                     /\ r.vol = 0 /\ r.mode = "road"
                     /\ r.from = form.from /\ r.to = form.to
                     /\ r.fragile = form.fragile
                     /\ kind = "quote" => r.express = form.express
                     /\ kind = "booking" => r.express = FALSE
               /\ desk = "logistics" =>
                     /\ r.vol = form.vol /\ r.mode = SeaIfEmpty(form.mode)
                     /\ r.fragile = FALSE /\ r.express = FALSE
               /\ desk = "pricing" => r = form
<1> DEFINE Places == IF desk = "logistics" THEN DOMAIN CityWithId ELSE CityIds
<1>1. desk \in {"courier", "logistics", "pricing"}
  BY DEF Kinds
<1>2. form \in [ mode : {form.mode}, kg : Int, vol : Int,
                 from : Places, to : Places, goods : {form.goods},
                 vehicle : {form.vehicle}, declared : Int,
                 insured : BOOLEAN, fragile : BOOLEAN, express : BOOLEAN ]
  BY <1>1, FormsAssumption
<1>3. CASE desk = "courier"
  <2>1. kind \in {"quote", "booking"}
    BY <1>3 DEF Kinds
  <2>2. form.from \in CityIds /\ form.to \in CityIds
    BY <1>2, <1>3
  <2> DEFINE q == CourierQuote(form)
             b == CourierBooking(form)
  <2>3. \A r \in {q, b} :
            /\ r.kg = form.kg /\ r.declared = form.declared /\ r.insured = form.insured
            /\ r.goods = form.goods /\ r.vol = 0 /\ r.mode = "road"
            /\ r.fragile = form.fragile /\ r.from = form.from /\ r.to = form.to
    BY <1>2 DEF CourierQuote, CourierBooking
  <2>4. q.express = form.express /\ b.express = FALSE
    BY <1>2 DEF CourierQuote, CourierBooking
  <2>5. form.kg \in Int /\ form.declared \in Int
    BY <1>2
  <2>6. Request(kind, desk, form) = IF kind = "quote" THEN q ELSE b
    BY <1>3, <2>1 DEF Request
  <2> HIDE DEF q, b
  <2> QED BY <1>3, <2>1, <2>2, <2>3, <2>4, <2>5, <2>6
<1>4. CASE desk = "logistics"
  <2>1. kind \in {"quote", "booking"}
    BY <1>4 DEF Kinds
  <2>2. CityWithId[form.from] \in CityIds /\ CityWithId[form.to] \in CityIds
        /\ None \in CityIds
    BY <1>2, <1>4, FormsAssumption DEF CityIds
  <2>3. CASE kind = "quote"
    <3>1. Request(kind, desk, form) = LogisticsQuote(form)
      BY <1>4, <2>3 DEF Request
    <3> QED BY <1>2, <1>4, <2>2, <2>3, <3>1 DEF LogisticsQuote, Cargo
  <2>4. CASE kind = "booking"
    <3>1. Request(kind, desk, form) = LogisticsBooking(form)
      BY <1>4, <2>4 DEF Request
    <3> QED BY <1>2, <1>4, <2>2, <2>4, <3>1 DEF LogisticsBooking, Cargo
  <2> QED BY <2>1, <2>3, <2>4
<1>5. CASE desk = "pricing"
  <2>1. Request(kind, desk, form) = form
    BY <1>5 DEF Request
  <2>2. form.from \in CityIds /\ form.to \in CityIds
    BY <1>2, <1>5
  <2> QED BY <1>2, <1>5, <2>1, <2>2
<1> QED BY <1>1, <1>3, <1>4, <1>5

LEMMA DistanceIsNatural ==
    ASSUME NEW from \in CityIds, NEW to \in CityIds, NEW found
    PROVE  DistanceKm(from, to, found) \in Nat
BY FormsAssumption DEF DistanceKm

(* What a sum depends on.                                                  *)
LEMMA SubtotalSame ==
    ASSUME NEW p, NEW q, p.kg = q.kg, p.vol = q.vol, p.express = q.express,
           p.insured = q.insured, p.declared = q.declared,
           NEW mode, NEW km, NEW kn, km = kn \/ mode \in {"air", "sea"}, NEW handled
    PROVE  Subtotal(p, mode, km, handled) = Subtotal(q, mode, kn, handled)
<1>1. DistanceCost(mode, km, p.kg) = DistanceCost(mode, kn, q.kg)
  BY DEF DistanceCost
<1>2. Premium(p) = Premium(q)
  BY DEF Premium
<1> QED BY <1>1, <1>2 DEF Subtotal, Express

(* What a booking stores in total_amount.                                  *)
LEMMA AnswersPositive ==
    ASSUME NEW desk \in Desks, NEW answer, Given("booking", desk, answer)
    PROVE  answer.total \in Nat /\ answer.total > 0
<1>1. PICK form \in Forms[desk] : \E lost :
          form.kg > 0 /\ answer = Answer("booking", desk, form, lost)
  BY DEF Given
<1>2. PICK lost : form.kg > 0 /\ answer = Answer("booking", desk, form, lost)
  BY <1>1
<1> DEFINE r == Request("booking", desk, form)
           found == Findable(r) \ lost
           s == Subtotal(r, RoadIfEmpty(r.mode), DistanceKm(r.from, r.to, found),
                         r.goods \in HighRisk \cap found \/ r.fragile)
<1>3. desk \in DOMAIN Kinds /\ "booking" \in Kinds[desk]
  BY DEF Kinds, Desks
<1>4. answer.total = s + Gst(s)
  BY <1>2, EstimateTotal DEF Answer, Bill
<1>5. r.kg \in Nat /\ r.kg > 0 /\ r.vol \in Int /\ r.declared \in Int
      /\ DistanceKm(r.from, r.to, found) \in Nat
  <2> HIDE DEF r
  <2>1. /\ r.kg = form.kg /\ r.kg \in Int /\ r.declared \in Int /\ r.vol \in Int
        /\ r.from \in CityIds /\ r.to \in CityIds
    BY <1>3, RequestFacts DEF r
  <2> HIDE DEF found
  <2> QED BY <1>2, <2>1, DistanceIsNatural
<1>6. s \in Nat /\ s > 0
  <2> HIDE DEF r, found
  <2> QED BY <1>5, SubtotalIsNatural
<1> HIDE DEF s
<1>7. Gst(s) \in Nat
  BY <1>6, GstMonotone, s <= s
<1> QED BY <1>4, <1>6, <1>7

(* With the whole catalog and no failed lookup, an answer is the list      *)
(* price wherever the code promises one price.                             *)
LEMMA AnswersRight ==
    ASSUME CleanStartComplete, NEW desk \in DOMAIN Kinds, NEW kind \in Kinds[desk],
           NEW answer, Given(kind, desk, answer)
    PROVE  RightAnswer(answer)
<1>1. PICK form \in Forms[desk] : \E lost :
          form.kg > 0 /\ answer = Answer(kind, desk, form, lost)
  BY DEF Given
<1>2. PICK lost : form.kg > 0 /\ answer = Answer(kind, desk, form, lost)
  BY <1>1
<1> DEFINE r       == Request(kind, desk, form)
           booked  == IF desk = "pricing" THEN "single" ELSE "booking"
           q       == Request(booked, desk, form)
           found   == Findable(r) \ lost
           keys    == CatalogKeys
           rRisky  == r.goods \in HighRisk \cap found \/ r.fragile
           qRisky  == q.goods \in HighRisk \cap keys \/ q.fragile
           rKm     == DistanceKm(r.from, r.to, found)
           qKm     == DistanceKm(q.from, q.to, keys)
           s       == Subtotal(r, RoadIfEmpty(r.mode), rKm, rRisky)
           t       == Subtotal(q, RoadIfEmpty(q.mode), qKm, qRisky)
<1>3. /\ answer.desk = desk /\ answer.form = form
      /\ answer.clean = (clean /\ lost = {})
      /\ answer.total = Bill(kind, r, found).total
  BY <1>2 DEF Answer
<1> SUFFICES ASSUME clean, lost = {}, Comparable(desk, form)
             PROVE  Bill(kind, r, found).total = t + Gst(t)
  <2>1. booked \in Kinds[desk]
    BY DEF Kinds
  <2>2. ListPrice(desk, form) = Estimate(q, keys).total
    <3>1. CASE desk = "pricing"
      BY <3>1 DEF ListPrice, Request
    <3>2. CASE desk = "courier"
      BY <3>2 DEF ListPrice, Request
    <3>3. CASE desk = "logistics"
      BY <3>3 DEF ListPrice, Request
    <3> QED BY <3>1, <3>2, <3>3 DEF Kinds
  <2>3. ListPrice(desk, form) = t + Gst(t)
    BY <2>2, EstimateTotal
  <2> HIDE DEF t, r, found
  <2> QED BY <1>3, <2>3 DEF RightAnswer
<1>4. \A x \in {r.from, r.to, r.goods} : x \in found <=> x \in keys
  <2>1. Complete
    BY DEF CleanStartComplete, Given
  <2>2. {e.key : e \in {e \in Catalog : rows[e] > 0}} = keys
    BY <2>1 DEF Complete, CatalogKeys
  <2> QED BY <2>2 DEF Findable
<1> DEFINE Facts(x, k) ==
        /\ x.kg = form.kg /\ x.kg \in Int
        /\ x.declared = form.declared /\ x.declared \in Int
        /\ x.insured = form.insured
        /\ x.goods = form.goods
        /\ x.vol \in Int
        /\ x.from \in CityIds /\ x.to \in CityIds
        /\ desk = "courier" =>
              /\ x.vol = 0 /\ x.mode = "road"
              /\ x.from = form.from /\ x.to = form.to
              /\ x.fragile = form.fragile
              /\ k = "quote" => x.express = form.express
              /\ k = "booking" => x.express = FALSE
        /\ desk = "logistics" =>
              /\ x.vol = form.vol /\ x.mode = SeaIfEmpty(form.mode)
              /\ x.fragile = FALSE /\ x.express = FALSE
        /\ desk = "pricing" => x = form
<1>5. Facts(r, kind)
  BY RequestFacts
<1>6. Facts(q, booked)
  <2>1. booked \in Kinds[desk]
    BY DEF Kinds
  <2> HIDE DEF booked
  <2> QED BY <2>1, RequestFacts
<1>7. form.express \in BOOLEAN
  <2>1. desk \in {"courier", "logistics", "pricing"}
    BY DEF Kinds
  <2> QED BY <2>1, FormsAssumption
<1> HIDE DEF r, q, found, keys
<1>8. rRisky = qRisky
  <2>1. (r.goods \in HighRisk \cap found) = (q.goods \in HighRisk \cap keys)
    BY <1>4, <1>5, <1>6
  <2>2. r.fragile = q.fragile
    <3>1. desk \in {"courier", "logistics", "pricing"}
      BY DEF Kinds
    <3> QED BY <1>5, <1>6, <3>1
  <2> QED BY <2>1, <2>2
<1>9. r.kg = q.kg /\ r.vol = q.vol /\ r.express = q.express /\ r.insured = q.insured
      /\ r.declared = q.declared /\ r.mode = q.mode
  <2>1. CASE desk = "courier"
    <3>1. kind \in {"quote", "booking"} /\ form.express = FALSE /\ booked = "booking"
      BY <1>7, <2>1 DEF Comparable, Kinds
    <3> QED BY <1>5, <1>6, <2>1, <3>1
  <2>2. CASE desk = "logistics"
    BY <1>5, <1>6, <2>2
  <2>3. CASE desk = "pricing"
    BY <1>5, <1>6, <2>3
  <2> QED BY <2>1, <2>2, <2>3 DEF Kinds
<1>10. rKm = qKm \/ RoadIfEmpty(r.mode) \in {"air", "sea"}
  <2>1. CASE desk \in {"courier", "pricing"}
    <3>1. r.from = q.from /\ r.to = q.to
      BY <1>5, <1>6, <2>1
    <3> QED BY <1>4, <3>1 DEF DistanceKm
  <2>2. CASE desk = "logistics"
    BY <1>5, <2>2 DEF Comparable, RoadIfEmpty
  <2> QED BY <2>1, <2>2 DEF Kinds
<1> HIDE DEF rKm, qKm
<1>11. s = t
  <2> HIDE DEF rRisky, qRisky
  <2>1. RoadIfEmpty(q.mode) = RoadIfEmpty(r.mode)
    BY <1>9
  <2> QED BY <1>8, <1>9, <1>10, <2>1, SubtotalSame
<1> HIDE DEF t
<1>12. CASE kind # "legs"
  <2>1. Bill(kind, r, found).total = s + Gst(s)
    BY <1>12, EstimateTotal DEF Bill, rKm
  <2> HIDE DEF s
  <2> QED BY <1>11, <2>1
<1>13. CASE kind = "legs"
  <2>1. desk = "pricing"
    BY <1>13 DEF Kinds
  <2>2. r = form /\ form.mode \in {"air", "sea"} /\ ~form.express
        /\ ~rRisky /\ form.kg \in Nat /\ form.vol \in Int /\ form.declared \in Int
    BY <1>2, <1>5, <2>1 DEF Comparable
  <2> DEFINE journey == OneLeg(r)
             u == Subtotal(r, r.mode, rKm, FALSE)
  <2>3. rKm \in Nat
    <3>1. r.from \in CityIds /\ r.to \in CityIds
      BY <1>5
    <3> QED BY <3>1, DistanceIsNatural DEF rKm
  <2>4. /\ journey.legs = << [mode |-> r.mode, from |-> r.from, to |-> r.to] >>
        /\ journey.kg = r.kg /\ journey.vol = r.vol
        /\ journey.insured = r.insured /\ journey.declared = r.declared
    BY DEF OneLeg
  <2> HIDE DEF journey
  <2>5. EstimateMultiModal(journey, found).total = u + Gst(u)
    BY <2>2, <2>3, <2>4, LegsTotal
  <2>6. u = s
    <3>1. RoadIfEmpty(r.mode) = r.mode
      BY <2>2 DEF RoadIfEmpty
    <3>2. rRisky = FALSE
      BY <2>2
    <3> HIDE DEF rRisky
    <3> QED BY <3>1, <3>2
  <2> HIDE DEF u, s
  <2> QED BY <1>11, <1>13, <2>5, <2>6 DEF Bill, journey
<1> QED BY <1>12, <1>13

(* The bookings that are under way, the rows of the two desks, and every   *)
(* price given so far.                                                     *)
BookingOK(g) ==
    /\ g.desk \in Desks
    /\ g.by \in Bookers
    /\ g.tracking \in {Prefix[g.desk]} \X TrackingNos
    /\ g.answer.total \in Nat \ {0}
    /\ RightAnswer(g.answer)

RowOK(d, o) ==
    /\ IsRecord(o, {"tracking", "by", "status", "total"})
    /\ o.tracking \in {Prefix[d]} \X TrackingNos
    /\ o.by \in Bookers
    /\ o.status \in {FirstStatus[d]} \cup Terminal
    /\ o.total \in Nat \ {0}

SalesInv ==
    /\ OrdersInv
    /\ \A i \in DOMAIN go : go[i].op = "booking" => BookingOK(go[i])
    /\ \A d \in Desks : \A k \in DOMAIN orders[d] : RowOK(d, orders[d][k])
    /\ \A p \in priced : RightAnswer(p)

LEMMA SalesInvKept ==
    ASSUME SalesInv, CleanStartComplete, [Next]_vars
    PROVE  SalesInv'
<1>1. OrdersInv' /\ OrdersInv /\ GoOK
  BY OrdersInvKept DEF SalesInv, OrdersInv
<1>2. ASSUME NEW j \in DOMAIN go', go'[j].op = "booking"
      PROVE  BookingOK(go'[j])
  <2>1. CASE /\ j \in DOMAIN go
             /\ go[j].op = "booking"
             /\ go'[j].desk = go[j].desk
             /\ go'[j].by = go[j].by
             /\ go'[j].tracking = go[j].tracking
             /\ go'[j].answer = go[j].answer
    <3>1. BookingOK(go[j])
      BY <2>1 DEF SalesInv
    <3> QED BY <2>1, <3>1 DEF BookingOK
  <2>2. CASE /\ go'[j].desk \in Desks
             /\ go'[j].by \in Bookers
             /\ go'[j].tracking \in {Prefix[go'[j].desk]} \X TrackingNos
             /\ Given("booking", go'[j].desk, go'[j].answer)
    <3>1. go'[j].desk \in DOMAIN Kinds /\ "booking" \in Kinds[go'[j].desk]
      BY <2>2 DEF Kinds, Desks
    <3>2. RightAnswer(go'[j].answer)
      BY <2>2, <3>1, AnswersRight
    <3>3. go'[j].answer.total \in Nat \ {0}
      BY <2>2, AnswersPositive
    <3> QED BY <2>2, <3>2, <3>3 DEF BookingOK
  <2> QED BY <1>1, <1>2, <2>1, <2>2, BookingFrom
<1>3. ASSUME NEW d \in Desks, NEW k \in DOMAIN orders'[d]
      PROVE  RowOK(d, orders'[d][k])
  <2>1. CASE k \in DOMAIN orders[d]
    <3>1. RowOK(d, orders[d][k])
      BY <2>1 DEF SalesInv
    <3>2. \/ orders'[d][k] = orders[d][k]
          \/ \E status \in Terminal :
                orders'[d][k] = [orders[d][k] EXCEPT !.status = status]
      BY <1>1, <2>1, RowsFrom
    <3> QED BY <3>1, <3>2 DEF RowOK, IsRecord
  <2>2. CASE k \notin DOMAIN orders[d]
    <3>1. PICK i \in DOMAIN go : /\ go[i].op = "booking" /\ go[i].desk = d
                                 /\ orders'[d][k] = NewOrder(go[i])
      BY <1>1, <2>2, RowsFrom
    <3>2. BookingOK(go[i])
      BY <3>1 DEF SalesInv
    <3> QED BY <3>1, <3>2 DEF BookingOK, RowOK, NewOrder, IsRecord
  <2> QED BY <2>1, <2>2
<1>4. ASSUME NEW p \in priced'
      PROVE  RightAnswer(p)
  <2>1. CASE p \in priced
    BY <2>1 DEF SalesInv
  <2>2. CASE \E i \in DOMAIN go : go[i].op = "booking" /\ p = go[i].answer
    BY <2>2 DEF SalesInv, BookingOK
  <2>3. CASE \E desk \in DOMAIN Kinds : \E kind \in Kinds[desk] : Given(kind, desk, p)
    BY <2>3, AnswersRight
  <2> QED BY <1>1, <2>1, <2>2, <2>3, PricesFrom
<1>5. \A j \in DOMAIN go' : go'[j].op = "booking" => BookingOK(go[j])'
  BY <1>2 DEF BookingOK
<1> QED BY <1>1, <1>3, <1>4, <1>5 DEF SalesInv

LEMMA SalesInvAtFirst == Init => SalesInv
BY OrdersInvAtFirst DEF Init, OrdersInit, SalesInv

LEMMA SalesInvHolds == Spec => []SalesInv
BY SalesInvAtFirst, SalesInvKept, SeedsHoldWhileServing, PTL DEF Spec

(* A form has the same price whether it is quoted or booked, or asked for  *)
(* as a single estimate or as a journey of one leg, by whichever processes *)
(* answer, as long as they and their lookups met no error.                 *)
THEOREM PricesAgree == Spec => []OnePrice
<1>1. SalesInv => OnePrice
  <2> SUFFICES ASSUME SalesInv, NEW p \in priced, NEW q \in priced,
                      p.desk = q.desk, p.form = q.form, p.clean, q.clean,
                      Comparable(p.desk, p.form)
               PROVE  p.total = q.total
    BY DEF OnePrice
  <2>1. RightAnswer(p) /\ RightAnswer(q)
    BY DEF SalesInv
  <2> QED BY <2>1 DEF RightAnswer
<1> QED BY <1>1, SalesInvHolds, PTL

-----------------------------------------------------------------------------
LEMMA TablesKept ==
    ASSUME TablesFit, OfficeTypeOK, [Next]_vars
    PROVE  OfficeTypeOK'
<1> DEFINE Tags == {"pending", "today", "driver", "online", "active"}
<1>1. UNCHANGED tables => OfficeTypeOK'
  BY DEF OfficeTypeOK
<1>2. CASE InsertedRow
  <2>1. PICK t \in DOMAIN NewRow : tables' = [tables EXCEPT ![t] = Append(@, NewRow[t])]
    BY <1>2 DEF InsertedRow
  <2>2. IsSequence(tables[t])
    BY DEF TablesFit
  <2>3. NewRow[t] \subseteq Tags
    BY DEF NewRow, NewUser, NewShipment, NewDriver, NewVehicle, NewWarehouse
  <2>4. tables'[t] = Append(tables[t], NewRow[t])
        /\ \A u \in DOMAIN NewRow \ {t} : tables'[u] = tables[u]
    BY <2>1 DEF TablesFit
  <2>5. /\ DOMAIN tables[t] = 1 .. Len(tables[t])
        /\ Len(tables[t]) \in Nat
        /\ DOMAIN tables'[t] = 1 .. Len(tables[t]) + 1
        /\ \A k \in DOMAIN tables[t] : tables'[t][k] = tables[t][k]
        /\ tables'[t][Len(tables[t]) + 1] = NewRow[t]
    BY <2>2, <2>4, SequenceFacts
  <2>6. \A k \in DOMAIN tables'[t] : tables'[t][k] \subseteq Tags
    <3> TAKE k \in DOMAIN tables'[t]
    <3>1. k \in DOMAIN tables[t] \/ k = Len(tables[t]) + 1
      BY <2>5
    <3> QED BY <2>3, <2>5, <3>1 DEF OfficeTypeOK
  <2> QED BY <2>4, <2>6 DEF OfficeTypeOK
<1>3. CASE ChangedRow
  <2>0. PICK t \in DOMAIN Switch : \E k \in DOMAIN tables[t] :
            tables' = [tables EXCEPT ![t][k] = SymDiff(@, {Switch[t]})]
    BY <1>3 DEF ChangedRow
  <2>1. PICK k \in DOMAIN tables[t] :
            tables' = [tables EXCEPT ![t][k] = SymDiff(tables[t][k], {Switch[t]})]
    BY <2>0
  <2>2. t \in DOMAIN NewRow /\ Switch[t] \in Tags
    BY DEF Switch, NewRow
  <2> DEFINE row == SymDiff(tables[t][k], {Switch[t]})
  <2>3. row \subseteq Tags
    BY <2>2 DEF SymDiff, OfficeTypeOK
  <2> HIDE DEF row
  <2>4. /\ tables'[t] = [tables[t] EXCEPT ![k] = row]
        /\ \A u \in DOMAIN NewRow \ {t} : tables'[u] = tables[u]
    BY <2>1, <2>2 DEF TablesFit, row
  <2>5. \A l \in DOMAIN tables'[t] : tables'[t][l] \subseteq Tags
    BY <2>2, <2>3, <2>4 DEF OfficeTypeOK
  <2> QED BY <2>4, <2>5 DEF OfficeTypeOK
<1>4. OfficeNext => InsertedRow \/ ChangedRow \/ UNCHANGED tables
  BY DEF OfficeNext, AskReport, WriteRow, CountFigure, CountFails
<1> QED BY <1>1, <1>2, <1>3, <1>4 DEF Next, vars, dataVars

(* Each call takes at most the calls that the bound still allows.          *)
LEMMA BudgetKept ==
    ASSUME budget \in Nat, [Next]_vars
    PROVE  (budget \in Nat)'
<1>1. \A n \in Nat : Spend(n) => budget' \in Nat
  BY SMTT(40) DEF Spend
<1>2. OrdersNext => budget' \in Nat
  BY <1>1 DEF OrdersNext, AskDesk, AskDeskLookupsFail, Cancel, List, Deliver, InsertOrder,
              LoadOrder, UpdateOrder, CountOrders, FindOrders, OrderFails, callVars
<1>3. OfficeNext => budget' \in Nat
  BY <1>1 DEF OfficeNext, AskReport, WriteRow, CountFigure, CountFails
<1>4. ProfilesNext => budget' \in Nat
  BY <1>1 DEF ProfilesNext, AskProfile, FindProfileRow, CreateProfileRow,
              SaveProfileRow, ProfileFails
<1> QED BY <1>1, <1>2, <1>3, <1>4 DEF Next, vars, callVars

(* The types of everything that the process and its services keep.         *)
THEOREM BackendTypeCorrect == Spec => []TypeOK
<1>1. Spec => []BootTypeOK
  BY BootRefined, BootTypeCorrect
<1>2. Spec => [](budget \in Nat)
  <2>1. Init => budget \in Nat
    BY MaxBudgetAssumption DEF Init
  <2>2. budget \in Nat /\ [Next]_vars => (budget \in Nat)'
    BY BudgetKept
  <2> QED BY <2>1, <2>2, PTL DEF Spec
<1>3. Spec => []OfficeTypeOK
  <2>1. Init => OfficeTypeOK
    BY DEF Init, OfficeInit, OfficeTypeOK
  <2>2. PartsInv => TablesFit
    BY DEF PartsInv
  <2> QED BY PartsInvHolds, <2>1, <2>2, TablesKept, PTL DEF Spec
<1>4. ProfilesInv => ProfilesTypeOK
  BY DEF ProfilesInv
<1>5. SalesInv => OrdersTypeOK
  BY DEF SalesInv, RowOK, OrdersTypeOK
<1> QED BY <1>1, <1>2, <1>3, <1>4, <1>5, ProfilesInvHolds, SalesInvHolds, PTL DEF TypeOK

-----------------------------------------------------------------------------
(* The page of a finite set of rows.  Counting the newer ones numbers the  *)
(* rows from 0 without a gap, so that a page holds one row for every       *)
(* number between its offset and the end.                                  *)
LEMMA Numbered ==
    ASSUME NEW all, IsFiniteSet(all), all \subseteq Nat
    PROVE  [k \in all |-> Newer(k, all)]
               \in Surjection(all, 0 .. Cardinality(all) - 1)
<1> DEFINE n == Cardinality(all)
           rank == [k \in all |-> Newer(k, all)]
           After(k) == {j \in all : j > k}
<1>1. n \in Nat
  BY FS_CardinalityType
<1>2. ASSUME NEW k \in all
      PROVE  /\ Newer(k, all) = Cardinality(After(k))
             /\ IsFiniteSet(After(k))
             /\ Newer(k, all) \in 0 .. n - 1
  <2>1. Newer(k, all) = Cardinality(After(k))
    BY DEF Newer
  <2>2. After(k) \in SUBSET all /\ k \notin After(k)
    OBVIOUS
  <2>3. IsFiniteSet(After(k)) /\ Cardinality(After(k)) <= n
        /\ (n = Cardinality(After(k)) => all = After(k))
    BY <2>2, FS_Subset
  <2>4. Cardinality(After(k)) \in Nat /\ Cardinality(After(k)) # n
    BY <2>2, <2>3, FS_CardinalityType
  <2> HIDE DEF After, n
  <2> QED BY <1>1, <2>1, <2>3, <2>4
<1>3. ASSUME NEW k \in all, NEW j \in all, k < j
      PROVE  Newer(k, all) # Newer(j, all)
  <2>1. After(j) \in SUBSET After(k) /\ j \in After(k) /\ j \notin After(j)
    <3>1. k \in Nat /\ j \in Nat /\ \A l \in all : l \in Nat
      OBVIOUS
    <3>2. \A l \in all : l > j => l > k
      BY <1>3, <3>1
    <3>3. After(j) \subseteq After(k)
      BY <3>2
    <3>4. j > k /\ ~(j > j)
      BY <1>3, <3>1
    <3> QED BY <3>3, <3>4
  <2>2. Cardinality(After(k)) = Cardinality(After(j)) => After(k) = After(j)
    BY <1>2, <2>1, FS_Subset
  <2> QED BY <1>2, <2>1, <2>2
<1>4. rank \in Injection(all, 0 .. n - 1)
  <2>1. rank \in [all -> 0 .. n - 1]
    BY <1>2
  <2>2. ASSUME NEW k \in all, NEW j \in all, rank[k] = rank[j]
        PROVE  k = j
    <3>1. k \in Nat /\ j \in Nat /\ Newer(k, all) = Newer(j, all)
      BY <2>2
    <3> QED BY <1>3, <3>1
  <2> HIDE DEF rank
  <2> QED BY <2>1, <2>2 DEF Injection, IsInjective
<1>5. IsFiniteSet(0 .. n - 1) /\ Cardinality(0 .. n - 1) = n
  <2>1. 0 \in Int /\ n - 1 \in Int
    BY <1>1
  <2> QED BY <1>1, <2>1, FS_Interval
<1> HIDE DEF rank
<1>6. rank \in Surjection(all, 0 .. n - 1)
  BY <1>4, <1>5, FS_Injection
<1> QED BY <1>6 DEF rank

LEMMA PageHolds ==
    ASSUME NEW all, IsFiniteSet(all), all \subseteq Nat, NEW call,
           call.page \in Nat \ {0}, call.limit \in Nat \ {0},
           NEW total \in Nat, total <= Cardinality(all)
    PROVE  LET left == total - (call.page - 1) * call.limit
           IN  /\ Cardinality(PageIn(call, all)) \in Nat
               /\ Cardinality(PageIn(call, all))
                     >= (IF left < call.limit THEN left ELSE call.limit)
<1> DEFINE n      == Cardinality(all)
           offset == (call.page - 1) * call.limit
           last   == IF total < offset + call.limit THEN total - 1
                                                    ELSE offset + call.limit - 1
           page   == {k \in all : Newer(k, all) \in offset .. last}
           rank   == [k \in page |-> Newer(k, all)]
<1>1. n \in Nat /\ offset \in Nat
  BY FS_CardinalityType
<1>2. PageIn(call, all) \in SUBSET all
  BY DEF PageIn
<1>3. IsFiniteSet(PageIn(call, all)) /\ Cardinality(PageIn(call, all)) \in Nat
  BY <1>2, FS_Subset, FS_CardinalityType
<1>4. \A k \in all : Newer(k, all) \in 0 .. n - 1
  BY Numbered DEF Surjection
<1>5. page \in SUBSET PageIn(call, all)
  <2> HIDE DEF offset
  <2>1. last <= offset + call.limit - 1 /\ last \in Int
    BY <1>1
  <2> HIDE DEF last
  <2>2. \A k \in page : Newer(k, all) \in offset .. offset + call.limit - 1
    BY <1>1, <1>4, <2>1
  <2> QED BY <2>2 DEF PageIn, offset
<1>6. rank \in Surjection(page, offset .. last)
  <2>1. ASSUME NEW r \in offset .. last
        PROVE  \E k \in page : Newer(k, all) = r
    <3> HIDE DEF offset
    <3>1. r \in 0 .. n - 1
      BY <1>1
    <3>2. PICK k \in all : Newer(k, all) = r
      BY <3>1, Numbered DEF Surjection
    <3> QED BY <3>2
  <2> HIDE DEF last, offset
  <2>2. rank \in [page -> offset .. last] /\ \A k \in page : rank[k] = Newer(k, all)
    OBVIOUS
  <2> HIDE DEF rank, page
  <2> QED BY <2>1, <2>2 DEF Surjection
<1>7. IsFiniteSet(page) /\ Cardinality(page) <= Cardinality(PageIn(call, all))
  BY <1>3, <1>5, FS_Subset
<1>8. Cardinality(offset .. last) <= Cardinality(page)
  <2> HIDE DEF rank, page
  <2> QED BY <1>6, <1>7, FS_Surjection
<1>9. Cardinality(offset .. last) = IF offset > last THEN 0 ELSE last - offset + 1
  <2>1. offset \in Int /\ last \in Int
    BY <1>1
  <2> QED BY <2>1, FS_Interval
<1>10. Cardinality(page) \in Nat
  BY <1>7, FS_CardinalityType
<1>11. Cardinality(page) >= (IF total - offset < call.limit THEN total - offset ELSE call.limit)
  <2> HIDE DEF page, offset
  <2> QED BY <1>1, <1>8, <1>9, <1>10
<1> HIDE DEF page, offset
<1>12. Cardinality(PageIn(call, all))
          >= (IF total - offset < call.limit THEN total - offset ELSE call.limit)
  BY <1>1, <1>3, <1>7, <1>10, <1>11
<1> QED BY <1>3, <1>12 DEF offset

(* The rows of a desk's table that a user booked: what a list call of all  *)
(* statuses selects.                                                       *)
BookedBy(user, placed) == {k \in DOMAIN placed : placed[k].by = user}

Left(g) == g.total - (g.page - 1) * g.limit

(* Such a call has counted no more rows than it would select ever after:   *)
(* rows are only added, and the one who booked a row does not change.      *)
ListCallOK(g) ==
    g.op = "list" =>
        /\ g.desk \in Desks
        /\ g.page \in Nat \ {0}
        /\ g.limit \in Nat \ {0}
        /\ g.total \in Nat
        /\ g.pc \in {"count", "find", "done", "gone"}
        /\ g.status = "" /\ g.pc = "find" =>
              g.total <= Cardinality(BookedBy(g.by, orders[g.desk]))
        /\ g.status = "" /\ g.pc = "done" =>
              Cardinality(g.found) >= (IF Left(g) < g.limit THEN Left(g) ELSE g.limit)

ListInv == \A i \in DOMAIN go : ListCallOK(go[i])

LEMMA BookedByFacts ==
    ASSUME NEW placed, IsSequence(placed), NEW user
    PROVE  /\ BookedBy(user, placed) \subseteq Nat
           /\ IsFiniteSet(BookedBy(user, placed))
           /\ Cardinality(BookedBy(user, placed)) \in Nat
<1>1. IsFiniteSet(DOMAIN placed) /\ DOMAIN placed \subseteq Nat
  BY FiniteDomain, SequenceFacts
<1>2. BookedBy(user, placed) \in SUBSET DOMAIN placed
  BY DEF BookedBy
<1> QED BY <1>1, <1>2, FS_Subset, FS_CardinalityType

LEMMA SelectedFacts ==
    ASSUME OrdersFit, NEW g, g.desk \in Desks
    PROVE  /\ Selected(g) \subseteq Nat
           /\ IsFiniteSet(Selected(g))
           /\ Cardinality(Selected(g)) \in Nat
           /\ g.status = "" => Selected(g) = BookedBy(g.by, orders[g.desk])
<1>1. IsSequence(orders[g.desk])
  BY DEF OrdersFit
<1>2. Selected(g) \in SUBSET BookedBy(g.by, orders[g.desk])
  BY DEF Selected, BookedBy
<1>3. g.status = "" => Selected(g) = BookedBy(g.by, orders[g.desk])
  BY DEF Selected, BookedBy
<1> QED BY <1>1, <1>2, <1>3, BookedByFacts, FS_Subset, FS_CardinalityType

LEMMA BookedByGrows ==
    ASSUME SalesInv, SalesInv', [Next]_vars, NEW d \in Desks, NEW user
    PROVE  /\ Cardinality(BookedBy(user, orders[d])) \in Nat
           /\ Cardinality(BookedBy(user, orders'[d])) \in Nat
           /\ Cardinality(BookedBy(user, orders[d]))
                 <= Cardinality(BookedBy(user, orders'[d]))
<1>1. OrdersInv /\ IsSequence(orders[d]) /\ IsSequence(orders'[d])
  BY DEF SalesInv, OrdersInv, OrdersFit
<1>2. ASSUME NEW k \in DOMAIN orders[d]
      PROVE  k \in DOMAIN orders'[d] /\ orders'[d][k].by = orders[d][k].by
  <2>1. RowOK(d, orders[d][k])
    BY DEF SalesInv
  <2>2. /\ k \in DOMAIN orders'[d]
        /\ \/ orders'[d][k] = orders[d][k]
           \/ \E status \in Terminal :
                 orders'[d][k] = [orders[d][k] EXCEPT !.status = status]
    BY <1>1, RowsFrom
  <2> QED BY <2>1, <2>2 DEF RowOK, IsRecord
<1>3. BookedBy(user, orders[d]) \in SUBSET BookedBy(user, orders'[d])
  BY <1>2 DEF BookedBy
<1> QED BY <1>1, <1>3, BookedByFacts, FS_Subset

(* Facts about numbers, for terms that the solver does not know as such.   *)
LEMMA AtMost ==
    /\ \A a \in Nat : a <= a
    /\ \A a, b, c \in Nat : a <= b /\ b <= c => a <= c
OBVIOUS

LEMMA ListInvKept ==
    ASSUME SalesInv, SalesInv', ListInv, [Next]_vars
    PROVE  ListInv'
<1>1. GoOK /\ GoOK' /\ OrdersFit
  BY DEF SalesInv, OrdersInv
<1>2. ASSUME NEW j \in DOMAIN go, go'[j] = go[j]
      PROVE  ListCallOK(go[j])'
  <2>1. ListCallOK(go[j])
    BY DEF ListInv
  <2> SUFFICES ASSUME go[j].op = "list" PROVE ListCallOK(go[j])'
    BY <1>2 DEF ListCallOK
  <2>2. go[j].desk \in Desks
    BY <2>1 DEF ListCallOK
  <2> DEFINE before == Cardinality(BookedBy(go[j].by, orders[go[j].desk]))
             after  == Cardinality(BookedBy(go[j].by, orders'[go[j].desk]))
  <2>3. before \in Nat /\ after \in Nat /\ before <= after
    BY <2>2, BookedByGrows
  <2>4. go[j].status = "" /\ go[j].pc = "find" => go[j].total <= before
    BY <2>1 DEF ListCallOK
  <2>5. go[j].total \in Nat
    BY <2>1 DEF ListCallOK
  <2> HIDE DEF before
  <2>6. go[j].status = "" /\ go[j].pc = "find" =>
            go[j].total <= Cardinality(BookedBy(go[j].by, orders'[go[j].desk]))
    <3> SUFFICES ASSUME go[j].status = "", go[j].pc = "find"
                 PROVE  go[j].total <= after
      OBVIOUS
    <3> HIDE DEF after
    <3>1. go[j].total <= before
      BY <2>4
    <3> DEFINE total == go[j].total
    <3>2. total \in Nat /\ total <= before
      BY <2>5, <3>1
    <3> HIDE DEF total
    <3>3. total <= after
      BY <2>3, <3>2, AtMost
    <3> QED BY <3>3 DEF total
  <2>7. Left(go[j])' = Left(go[j])
    BY <1>2 DEF Left
  <2> QED BY <1>2, <2>1, <2>6, <2>7 DEF ListCallOK
<1>3. ASSUME NEW j \in DOMAIN go, NEW pc \in {"done", "gone"},
             go'[j] = [go[j] EXCEPT !.pc = pc], go[j].op # "list" \/ pc = "gone"
      PROVE  ListCallOK(go[j])'
  <2>1. ListCallOK(go[j]) /\ CallOK(go[j])
    BY <1>1 DEF ListInv, GoOK
  <2> QED BY <1>3, <2>1 DEF ListCallOK, CallOK, IsRecord
<1>4. ASSUME NEW call, go' = Append(go, call),
             call.op = "list" =>
                /\ call.desk \in Desks
                /\ call.page \in Nat \ {0} /\ call.limit \in Nat \ {0}
                /\ call.total \in Nat /\ call.pc = "count"
      PROVE  ListInv'
  <2>1. /\ \A j \in DOMAIN go : go'[j] = go[j]
        /\ \A j \in DOMAIN go' \ DOMAIN go : go'[j] = call
    BY <1>1, <1>4, SequenceFacts DEF GoOK
  <2>2. \A j \in DOMAIN go' \ DOMAIN go : ListCallOK(go[j])'
    BY <1>4, <2>1 DEF ListCallOK
  <2> QED BY <1>2, <2>1, <2>2 DEF ListInv
<1>5. ASSUME NEW i \in DOMAIN go, ListCallOK(go[i])',
             NEW call, go' = [go EXCEPT ![i] = call]
      PROVE  ListInv'
  <2>1. DOMAIN go' = DOMAIN go /\ \A j \in DOMAIN go \ {i} : go'[j] = go[j]
    BY <1>5
  <2> QED BY <1>2, <1>5, <2>1 DEF ListInv
<1>6. ASSUME NEW ops, Within(ops), "list" \notin ops
      PROVE  ListInv'
  <2>1. \A j \in DOMAIN go' : go'[j].op = "list" => j \in DOMAIN go /\ go'[j] = go[j]
    BY <1>6 DEF Within
  <2>2. \A j \in DOMAIN go' : ListCallOK(go[j])'
    <3> TAKE j \in DOMAIN go'
    <3>1. CASE go'[j].op = "list"
      BY <1>2, <2>1, <3>1
    <3>2. CASE go'[j].op # "list"
      BY <3>2 DEF ListCallOK
    <3> QED BY <3>1, <3>2
  <2> QED BY <2>2 DEF ListInv
<1>7. CASE UNCHANGED go
  BY <1>2, <1>7 DEF ListInv
<1>8. CASE Abandon
  <2>1. \A j \in DOMAIN go' : j \in DOMAIN go
    BY <1>1, <1>8, Abandoned
  <2>2. \A j \in DOMAIN go : go'[j] = go[j] \/ go'[j] = [go[j] EXCEPT !.pc = "gone"]
    BY <1>1, <1>8, Abandoned
  <2> QED BY <1>2, <1>3, <2>1, <2>2 DEF ListInv
<1>9. ASSUME NEW i \in DOMAIN go, NEW pc \in {"done", "update", "gone"}, Goto(i, pc),
             go[i].op # "list" \/ pc = "gone"
      PROVE  ListInv'
  <2>1. go' = [go EXCEPT ![i] = [go[i] EXCEPT !.pc = pc]]
    BY <1>9 DEF Goto
  <2>2. go'[i] = [go[i] EXCEPT !.pc = pc]
    BY <2>1
  <2>3. CallOK(go[i])
    BY <1>1 DEF GoOK
  <2>4. ListCallOK(go[i])'
    <3>1. CASE go[i].op # "list"
      BY <2>2, <2>3, <3>1 DEF ListCallOK, CallOK, IsRecord
    <3>2. CASE pc = "gone"
      BY <1>3, <2>2, <3>2
    <3> QED BY <1>9, <3>1, <3>2
  <2> QED BY <1>5, <2>1, <2>4
<1>10. ASSUME NEW i \in DOMAIN go, CountOrders(i)
       PROVE  ListInv'
  <2> DEFINE total == Cardinality(Selected(go[i]))
             call  == [go[i] EXCEPT !.total = total, !.pc = "find"]
  <2>1. /\ go[i].op = "list" /\ CallOK(go[i]) /\ ListCallOK(go[i])
        /\ UNCHANGED orders /\ go' = [go EXCEPT ![i] = call]
    BY <1>1, <1>10 DEF CountOrders, IsAt, GoOK, ListInv, orderVars
  <2>2. /\ go[i].desk \in Desks
        /\ total \in Nat
        /\ go[i].status = "" => total = Cardinality(BookedBy(go[i].by, orders[go[i].desk]))
    <3>1. go[i].desk \in Desks
      BY <2>1 DEF ListCallOK
    <3> QED BY <1>1, <3>1, SelectedFacts
  <2> HIDE DEF total
  <2>3. /\ go'[i].op = "list" /\ go'[i].desk = go[i].desk /\ go'[i].by = go[i].by
        /\ go'[i].page = go[i].page /\ go'[i].limit = go[i].limit
        /\ go'[i].status = go[i].status
        /\ go'[i].total = total /\ go'[i].pc = "find"
    BY <2>1 DEF CallOK, IsRecord
  <2> HIDE DEF call
  <2>4. go'[i].status = "" =>
            go'[i].total = Cardinality(BookedBy(go'[i].by, orders'[go'[i].desk]))
    BY <2>1, <2>2, <2>3
  <2>5. /\ go'[i].page \in Nat \ {0} /\ go'[i].limit \in Nat \ {0}
        /\ go'[i].desk \in Desks /\ go'[i].total \in Nat
    BY <2>1, <2>2, <2>3 DEF ListCallOK
  <2>6. go'[i].status = "" =>
            go'[i].total <= Cardinality(BookedBy(go'[i].by, orders'[go'[i].desk]))
    <3> SUFFICES ASSUME go'[i].status = ""
                 PROVE  total <= Cardinality(BookedBy(go'[i].by, orders'[go'[i].desk]))
      BY <2>3
    <3>1. total = Cardinality(BookedBy(go'[i].by, orders'[go'[i].desk]))
      BY <2>3, <2>4
    <3>2. total <= total
      BY <2>2, AtMost
    <3> QED BY <3>1, <3>2, Zenon
  <2>7. ListCallOK(go[i])'
    BY <2>3, <2>5, <2>6 DEF ListCallOK
  <2> QED BY <1>5, <2>1, <2>7
<1>11. ASSUME NEW i \in DOMAIN go, FindOrders(i)
       PROVE  ListInv'
  <2> DEFINE found == PageIn(go[i], Selected(go[i]))
             call  == [go[i] EXCEPT !.found = found, !.pc = "done"]
  <2>1. /\ go[i].op = "list" /\ go[i].pc = "find" /\ CallOK(go[i]) /\ ListCallOK(go[i])
        /\ go' = [go EXCEPT ![i] = call]
    BY <1>1, <1>11 DEF FindOrders, IsAt, GoOK, ListInv
  <2>2. go[i].status = "" =>
            Cardinality(found) >= (IF Left(go[i]) < go[i].limit THEN Left(go[i])
                                                                ELSE go[i].limit)
    <3> SUFFICES ASSUME go[i].status = ""
                 PROVE  Cardinality(found) >= (IF Left(go[i]) < go[i].limit
                                               THEN Left(go[i]) ELSE go[i].limit)
      OBVIOUS
    <3>1. /\ go[i].desk \in Desks /\ go[i].total \in Nat
          /\ go[i].page \in Nat \ {0} /\ go[i].limit \in Nat \ {0}
          /\ go[i].total <= Cardinality(BookedBy(go[i].by, orders[go[i].desk]))
      BY <2>1 DEF ListCallOK
    <3>2. /\ IsFiniteSet(Selected(go[i])) /\ Selected(go[i]) \subseteq Nat
          /\ go[i].total <= Cardinality(Selected(go[i]))
      BY <1>1, <3>1, SelectedFacts
    <3> QED BY <3>1, <3>2, PageHolds DEF Left
  <2> HIDE DEF found
  <2>3. /\ go'[i].op = "list" /\ go'[i].desk = go[i].desk /\ go'[i].by = go[i].by
        /\ go'[i].page = go[i].page /\ go'[i].limit = go[i].limit
        /\ go'[i].status = go[i].status /\ go'[i].total = go[i].total
        /\ go'[i].found = found /\ go'[i].pc = "done"
    BY <2>1 DEF CallOK, IsRecord
  <2> HIDE DEF call
  <2>4. Left(go'[i]) = Left(go[i])
    BY <2>3 DEF Left
  <2>5. ListCallOK(go[i])'
    BY <2>1, <2>2, <2>3, <2>4 DEF ListCallOK
  <2> QED BY <1>5, <2>1, <2>5
<1>12. CASE AskDesk \/ AskDeskLookupsFail
  <2>1. ASSUME NEW desk \in DOMAIN Kinds, NEW kind \in Kinds[desk],
               NEW form \in Forms[desk], NEW lost, Ask(desk, kind, form, lost)
        PROVE  ListInv'
    <3>1. PICK call : go' = Append(go, call) /\ call.op = kind
      <4>1. CASE kind = "booking"
        <5>1. PICK c, n :
                go' = Append(go,
                        [op |-> "booking", pc |-> "insert", desk |-> desk, by |-> c,
                         tracking |-> <<Prefix[desk], n>>, mode |-> form.mode,
                         answer |-> Answer("booking", desk, form, lost)])
          BY <2>1, <4>1 DEF Ask, Book, Receive
        <5> DEFINE call == [op |-> "booking", pc |-> "insert", desk |-> desk, by |-> c,
                            tracking |-> <<Prefix[desk], n>>, mode |-> form.mode,
                            answer |-> Answer("booking", desk, form, lost)]
        <5>2. call.op = kind
          BY <4>1
        <5>3. go' = Append(go, call)
          BY <5>1
        <5> HIDE DEF call
        <5> QED BY <5>2, <5>3
      <4>2. CASE kind # "booking"
        BY <2>1, <4>2 DEF Ask, Quote, Receive
      <4> QED BY <4>1, <4>2
    <3>2. kind # "list"
      BY DEF Kinds
    <3> QED BY <1>4, <3>1, <3>2
  <2> QED BY <1>12, <2>1 DEF AskDesk, AskDeskLookupsFail
<1>13. CASE Cancel
  <2>1. PICK call : go' = Append(go, call) /\ call.op = "cancel"
    <3>1. PICK c, k :
            go' = Append(go,
                    [op |-> "cancel", pc |-> "load", by |-> c, order |-> k,
                     late |-> orders.courier[k].status = "delivered"])
      BY <1>13 DEF Cancel, Receive
    <3> QED BY <3>1
  <2> QED BY <1>4, <2>1
<1>14. CASE List
  <2>1. PICK d \in Desks, c \in Customers, ask \in PageAsks :
          \E status \in {"", FirstStatus[d]} :
            go' = Append(go,
                    [op |-> "list", pc |-> "count", desk |-> d, by |-> c,
                     status |-> status,
                     page |-> PageOf(ask.page), limit |-> LimitOf(ask.limit),
                     total |-> 0, found |-> {}])
    BY <1>14 DEF List, Receive
  <2>2. PageOf(ask.page) \in Nat \ {0} /\ LimitOf(ask.limit) \in Nat \ {0}
    BY OrdersAssumption DEF PageOf, LimitOf
  <2>3. PICK status :
            go' = Append(go,
                    [op |-> "list", pc |-> "count", desk |-> d, by |-> c,
                     status |-> status,
                     page |-> PageOf(ask.page), limit |-> LimitOf(ask.limit),
                     total |-> 0, found |-> {}])
    BY <2>1
  <2> DEFINE page == PageOf(ask.page)
             limit == LimitOf(ask.limit)
             call == [op |-> "list", pc |-> "count", desk |-> d, by |-> c,
                      status |-> status, page |-> page, limit |-> limit,
                      total |-> 0, found |-> {}]
  <2> HIDE DEF page, limit
  <2>4. /\ call.desk \in Desks /\ call.page = page /\ call.limit = limit
        /\ call.total = 0 /\ call.pc = "count"
    OBVIOUS
  <2>5. go' = Append(go, call)
    BY <2>3 DEF page, limit
  <2>6. page \in Nat \ {0} /\ limit \in Nat \ {0}
    BY <2>2 DEF page, limit
  <2> HIDE DEF call
  <2> QED BY <1>4, <2>4, <2>5, <2>6
<1>15. CASE Deliver
  BY <1>7, <1>15 DEF Deliver, callVars
<1>16. ASSUME NEW i \in DOMAIN go,
              InsertOrder(i) \/ LoadOrder(i) \/ UpdateOrder(i) \/ OrderFails(i)
       PROVE  ListInv'
  BY <1>9, <1>16 DEF InsertOrder, LoadOrder, UpdateOrder, OrderFails, IsAt
<1>17. OrdersNext => ListInv'
  BY <1>10, <1>11, <1>12, <1>13, <1>14, <1>15, <1>16 DEF OrdersNext
<1>18. "list" \notin OfficeOps /\ "list" \notin ProfileOps
  BY DEF OfficeOps, ProfileOps
<1> QED BY <1>1, <1>6, <1>7, <1>8, <1>17, <1>18, Steps

(* A page of all orders is never shorter than the total it comes with says *)
(* although other calls book orders between the two statements.            *)
THEOREM PagesFull == Spec => []PageFull
<1>1. Init => ListInv
  BY DEF Init, ListInv
<1>2. ListInv => PageFull
  BY DEF ListInv, ListCallOK, Left, PageFull
<1>3. SalesInv /\ SalesInv' /\ ListInv /\ [Next]_vars => ListInv'
  BY ListInvKept
<1> QED BY <1>1, <1>2, <1>3, SalesInvHolds, PTL DEF Spec
=============================================================================
