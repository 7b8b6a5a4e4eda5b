---------------------------- MODULE StartupProofs ----------------------------
(***************************************************************************)
(* What start-up guarantees on any database and after any number of        *)
(* crashes and failed statements.                                          *)
(*                                                                         *)
(* The seed plan is used only as a sequence of entries in the order that   *)
(* SeedPlanAssumption asks for.  NoOrphans rests on KnownExist: a country  *)
(* that the current function has found is a row, and stays one.            *)
(* CleanStartComplete rests on Progress: a process without an error of its *)
(* own has made sure of every entry before the one it is at, and knows     *)
(* every country that the current function looks up.                       *)
(***************************************************************************)
EXTENDS Startup, TLAPS

KnownExist == \A c \in known : Present(CountryRow(c))

OrphanInv == BootTypeOK /\ KnownExist /\ NoOrphans

Progress ==
    /\ proc \in {"connect", "migrate"} => at = 1
    /\ proc = "serve" => at = Len(SeedPlan) + 1
    /\ clean /\ proc # "down" =>
          /\ \A i \in 1 .. at - 1 : rows[SeedPlan[i]] > 0
          /\ at > 1 => known = LooksUp(SeedPlan[at - 1].table)

CleanInv == BootTypeOK /\ Progress
-----------------------------------------------------------------------------
(* The plan is a sequence, whatever its entries are.                       *)
IsSequence(s) == \E S : s \in Seq(S)

LEMMA OneEntry ==
    ASSUME NEW table, NEW country, NEW k
    PROVE  IsSequence(Entries(table, country, <<k>>))
<1> DEFINE row == [table |-> table, key |-> k, country |-> country]
<1>1. Entries(table, country, <<k>>) \in Seq({row})
  BY DEF Entries
<1> QED BY <1>1 DEF IsSequence

LEMMA TwoEntries ==
    ASSUME NEW table, NEW country, NEW k, NEW l
    PROVE  IsSequence(Entries(table, country, <<k, l>>))
<1> DEFINE row(key) == [table |-> table, key |-> key, country |-> country]
<1>1. Entries(table, country, <<k, l>>) \in Seq({row(k), row(l)})
  BY DEF Entries
<1> QED BY <1>1 DEF IsSequence

LEMMA Concatenated ==
    ASSUME NEW s, NEW t, IsSequence(s), IsSequence(t)
    PROVE  IsSequence(s \o t)
<1>1. PICK S : s \in Seq(S)
  BY DEF IsSequence
<1>2. PICK T : t \in Seq(T)
  BY DEF IsSequence
<1>3. s \in Seq(S \cup T) /\ t \in Seq(S \cup T)
  BY <1>1, <1>2
<1>4. s \o t \in Seq(S \cup T)
  BY <1>3
<1> QED BY <1>4 DEF IsSequence

LEMMA PlanIsSequence ==
    /\ DOMAIN SeedPlan = 1 .. Len(SeedPlan)
    /\ Len(SeedPlan) \in Nat
<1>1. /\ IsSequence(Roles)
      /\ IsSequence(TransportModes)
      /\ IsSequence(ShipmentStatuses)
      /\ IsSequence(PaymentMethods)
  BY OneEntry, TwoEntries, Zenon
     DEF Roles, TransportModes, ShipmentStatuses, PaymentMethods
<1>2. /\ IsSequence(GoodsCategories)
      /\ IsSequence(VehicleTypes)
      /\ IsSequence(WarehouseTypes)
      /\ IsSequence(GSTRates)
  BY OneEntry, Zenon DEF GoodsCategories, VehicleTypes, WarehouseTypes, GSTRates
<1>3. /\ IsSequence(Countries)
      /\ IsSequence(States)
      /\ IsSequence(Cities)
      /\ IsSequence(Ports)
  BY OneEntry, TwoEntries, Concatenated, Zenon DEF Countries, States, Cities, Ports
<1>4. /\ IsSequence(HSNCodes)
      /\ IsSequence(PricingRules)
      /\ IsSequence(FuelRates)
      /\ IsSequence(InsuranceRates)
  BY OneEntry, Zenon DEF HSNCodes, PricingRules, FuelRates, InsuranceRates
<1>5. IsSequence(SeedPlan)
  BY <1>1, <1>2, <1>3, <1>4, Concatenated, Zenon DEF SeedPlan
<1>6. PICK S : SeedPlan \in Seq(S)
  BY <1>5 DEF IsSequence
<1> QED BY <1>6

LEMMA EntryInCatalog ==
    ASSUME NEW i \in 1 .. Len(SeedPlan)
    PROVE  SeedPlan[i] \in Catalog
BY PlanIsSequence DEF Catalog, Range
-----------------------------------------------------------------------------
LEMMA KnownNowFits ==
    ASSUME BootTypeOK
    PROVE  KnownNow \subseteq {"IN", "AE"}
BY DEF BootTypeOK, KnownNow, LooksUp

(* A turn of a seeding function keeps the types.                           *)
LEMMA SeedRowTypes ==
    ASSUME BootTypeOK, Seeding,
           NEW countries \in SUBSET {"IN", "AE"},
           SeedRow(countries)
    PROVE  /\ rows' \in [Catalog -> Nat]
           /\ at' \in 1 .. Len(SeedPlan) + 1
           /\ known' \subseteq {"IN", "AE"}
<1>1. Entry \in Catalog /\ rows[Entry] \in Nat
  BY EntryInCatalog DEF BootTypeOK, Seeding, Entry
<1>2. FirstOrCreate(rows[Entry]) \in Nat
  BY <1>1 DEF FirstOrCreate
<1>3. rows' \in [Catalog -> Nat]
  <2>1. CASE Skipped(countries)
    BY <2>1 DEF BootTypeOK, SeedRow
  <2>2. CASE ~Skipped(countries)
    BY <1>2, <2>2 DEF BootTypeOK, SeedRow
  <2> QED BY <2>1, <2>2
<1> QED BY <1>3, PlanIsSequence DEF BootTypeOK, SeedRow, Seeding

LEMMA TypesKept ==
    ASSUME BootTypeOK, [BootNext]_bootVars
    PROVE  BootTypeOK'
<1> USE PlanIsSequence
<1>1. CASE UNCHANGED bootVars
  BY <1>1 DEF BootTypeOK, bootVars
<1>2. CASE Start
  BY <1>2 DEF BootTypeOK, Start
<1>3. CASE ConnectDatabase
  BY <1>3 DEF BootTypeOK, ConnectDatabase
<1>4. CASE AutoMigrate
  <2>1. Len(Groups) \in Nat
    BY DEF Groups
  <2> QED BY <1>4, <2>1 DEF BootTypeOK, AutoMigrate
<1>5. CASE Migrated
  BY <1>5 DEF BootTypeOK, Migrated
<1>6. CASE Seed
  BY <1>6, KnownNowFits, SeedRowTypes DEF BootTypeOK, Seed, SeedRow, Seeding
<1>7. CASE Serve
  BY <1>7 DEF BootTypeOK, Serve
<1>8. CASE Crash
  BY <1>8 DEF BootTypeOK, Crash
<1>9. CASE LookupFails
  <2>1. PICK c \in LooksUp(Entry.table) : SeedRow(KnownNow \ {c})
    BY <1>9 DEF LookupFails
  <2> QED BY <1>9, <2>1, KnownNowFits, SeedRowTypes
          DEF BootTypeOK, LookupFails, SeedRow, Seeding
<1>10. CASE SeedFails
  <2>1. known' \subseteq {"IN", "AE"}
    BY <1>10, KnownNowFits DEF SeedFails
  <2>2. at' \in 1 .. Len(SeedPlan) + 1
    BY <1>10 DEF BootTypeOK, SeedFails, Seeding
  <2> QED BY <1>10, <2>1, <2>2 DEF BootTypeOK, SeedFails
<1> QED BY <1>1, <1>2, <1>3, <1>4, <1>5, <1>6, <1>7, <1>8, <1>9, <1>10
        DEF BootNext, Boot, BootFails

LEMMA InitTypes == BootInit => BootTypeOK
BY PlanIsSequence DEF BootInit, BootTypeOK, Groups

(* The process and its tables keep their types: the entry that is next is  *)
(* one of the plan, and only groups that exist are counted.                *)
THEOREM BootTypeCorrect == BootSpec => []BootTypeOK
BY InitTypes, TypesKept, PTL DEF BootSpec
-----------------------------------------------------------------------------
(* What a step does to the rows: at most the current entry is created, and *)
(* only if the countries it needs are among those the function found.      *)
LEMMA RowsGrow ==
    ASSUME BootTypeOK, [BootNext]_bootVars
    PROVE  \A e \in Catalog :
              /\ rows[e] > 0 => rows'[e] = rows[e]
              /\ rows'[e] # rows[e] /\ e.country # "none" =>
                        {"IN", e.country} \subseteq known'
<1>1. ASSUME Seeding, NEW countries, SeedRow(countries)
      PROVE  \A e \in Catalog :
                /\ rows[e] > 0 => rows'[e] = rows[e]
                /\ rows'[e] # rows[e] /\ e.country # "none" =>
                          {"IN", e.country} \subseteq known'
  <2>1. CASE Skipped(countries)
    BY <1>1, <2>1 DEF SeedRow
  <2>2. CASE ~Skipped(countries)
    <3>1. rows' = [rows EXCEPT ![Entry] = FirstOrCreate(@)]
      BY <1>1, <2>2 DEF SeedRow
    <3>2. Entry.country # "none" => {"IN", Entry.country} \subseteq known'
      BY <1>1, <2>2 DEF SeedRow, Skipped
    <3> QED BY <3>1, <3>2 DEF BootTypeOK, FirstOrCreate
  <2> QED BY <2>1, <2>2
<1>2. CASE Seed
  BY <1>1, <1>2 DEF Seed
<1>3. CASE LookupFails
  BY <1>1, <1>3 DEF LookupFails
<1>4. CASE UNCHANGED rows
  BY <1>4
<1> QED BY <1>2, <1>3, <1>4
        DEF BootNext, Boot, BootFails, Start, ConnectDatabase, AutoMigrate,
            Migrated, Serve, Crash, SeedFails, bootVars

(* An entry is created at most once: restarts neither lose it nor enter it *)
(* again (seeder.go:12).                                                   *)
THEOREM SeedsAreIdempotent == BootSpec => Idempotent
<1>1. BootTypeOK /\ [BootNext]_bootVars =>
          [\A e \in Catalog : rows[e] > 0 => rows'[e] = rows[e]]_bootVars
  BY RowsGrow
<1> QED BY <1>1, BootTypeCorrect, PTL DEF BootSpec, Idempotent
-----------------------------------------------------------------------------
(* A country that a function knows is a row.                               *)
LEMMA KnownNowExist ==
    ASSUME KnownExist
    PROVE  \A c \in KnownNow : Present(CountryRow(c))
BY DEF KnownNow, KnownExist

LEMMA PresentStays ==
    ASSUME BootTypeOK, [BootNext]_bootVars, NEW e, Present(e)
    PROVE  Present(e)'
<1>1. e \in Catalog /\ rows[e] > 0
  BY DEF Present
<1>2. rows'[e] = rows[e]
  BY <1>1, RowsGrow
<1> QED BY <1>1, <1>2 DEF Present

(* What a function knows after a step it knew, or found, before it.        *)
LEMMA KnownFrom ==
    ASSUME [BootNext]_bootVars
    PROVE  known' \subseteq known \cup KnownNow
<1>1. CASE Seed
  BY <1>1 DEF Seed, SeedRow
<1>2. CASE LookupFails
  BY <1>2 DEF LookupFails, SeedRow
<1>3. CASE SeedFails
  BY <1>3 DEF SeedFails
<1>4. CASE Start
  BY <1>4 DEF Start
<1>5. CASE UNCHANGED known
  BY <1>5
<1> QED BY <1>1, <1>2, <1>3, <1>4, <1>5
        DEF BootNext, Boot, BootFails, ConnectDatabase, AutoMigrate,
            Migrated, Serve, Crash, bootVars

LEMMA OrphanInvKept ==
    ASSUME OrphanInv, [BootNext]_bootVars
    PROVE  OrphanInv'
<1>1. BootTypeOK'
  BY TypesKept DEF OrphanInv
<1>2. KnownExist'
  <2> SUFFICES ASSUME NEW c \in known'
               PROVE  Present(CountryRow(c))'
    BY DEF KnownExist
  <2>1. Present(CountryRow(c))
    BY KnownFrom, KnownNowExist DEF OrphanInv, KnownExist
  <2> QED BY <2>1, PresentStays DEF OrphanInv, CountryRow
<1>3. NoOrphans'
  <2> SUFFICES ASSUME NEW e \in Catalog, e.country # "none", Present(e)'
               PROVE  Present(CountryRow(e.country))'
    BY DEF NoOrphans
  <2>1. CASE rows'[e] = rows[e]
    <3>1. Present(CountryRow(e.country))
      BY <2>1 DEF OrphanInv, NoOrphans, Present
    <3> QED BY <3>1, PresentStays DEF OrphanInv, CountryRow
  <2>2. CASE rows'[e] # rows[e]
    <3>1. e.country \in known'
      BY <2>2, RowsGrow DEF OrphanInv
    <3> QED BY <1>2, <3>1 DEF KnownExist
  <2> QED BY <2>1, <2>2
<1> QED BY <1>1, <1>2, <1>3 DEF OrphanInv

(* There is no foreign key, and still no state, city or port is ever       *)
(* stored without the country whose id it carries.                         *)
THEOREM NoOrphanRows == BootSpec => []NoOrphans
<1>1. BootInit => OrphanInv
  BY InitTypes DEF BootInit, OrphanInv, KnownExist, NoOrphans, Present
<1>2. OrphanInv => NoOrphans
  BY DEF OrphanInv
<1> QED BY <1>1, <1>2, OrphanInvKept, PTL DEF BootSpec
-----------------------------------------------------------------------------
(* A process without an error so far knows what its function looks up.     *)
LEMMA CleanKnows ==
    ASSUME CleanInv, Seeding, clean
    PROVE  KnownNow = LooksUp(Entry.table)
<1>1. /\ at \in 1 .. Len(SeedPlan)
      /\ at \in DOMAIN SeedPlan
      /\ proc = "seed"
  BY PlanIsSequence DEF CleanInv, BootTypeOK, Seeding
<1>2. CASE Begins
  <2>1. ASSUME NEW c \in LooksUp(Entry.table)
        PROVE  Present(CountryRow(c))
    <3>1. PICK j \in 1 .. at - 1 : SeedPlan[j] = CountryRow(c)
      BY <1>1, SeedPlanAssumption DEF Entry
    <3>2. j \in 1 .. Len(SeedPlan)
      BY <1>1, <3>1, PlanIsSequence
    <3>3. rows[SeedPlan[j]] > 0
      BY <1>1, <3>1 DEF CleanInv, Progress
    <3> QED BY <3>1, <3>2, <3>3, EntryInCatalog DEF Present
  <2> QED BY <1>2, <2>1 DEF KnownNow
<1>3. CASE ~Begins
  <2>1. PICK j \in 1 .. at - 1 : SeedPlan[j].table = Entry.table
    BY <1>3 DEF Begins
  <2>2. SeedPlan[at - 1].table = Entry.table
    BY <1>1, <2>1, SeedPlanAssumption DEF Entry
  <2>3. known = LooksUp(SeedPlan[at - 1].table)
    BY <1>1, <2>1, PlanIsSequence DEF CleanInv, Progress, BootTypeOK
  <2> QED BY <1>3, <2>2, <2>3 DEF KnownNow
<1> QED BY <1>2, <1>3

LEMMA ProgressOfSeed ==
    ASSUME CleanInv, Seed, clean
    PROVE  /\ \A i \in 1 .. at' - 1 : rows'[SeedPlan[i]] > 0
           /\ at' > 1 => known' = LooksUp(SeedPlan[at' - 1].table)
<1>1. /\ at \in 1 .. Len(SeedPlan)
      /\ at \in DOMAIN SeedPlan
      /\ at' = at + 1
      /\ at' - 1 = at
      /\ proc = "seed"
  BY PlanIsSequence DEF CleanInv, BootTypeOK, Seeding, Seed, SeedRow
<1>2. KnownNow = LooksUp(Entry.table)
  BY CleanKnows DEF Seed
<1>3. known' = LooksUp(SeedPlan[at' - 1].table)
  BY <1>1, <1>2 DEF Seed, SeedRow, Entry
<1>4. ~Skipped(KnownNow)
  BY <1>1, <1>2, SeedPlanAssumption DEF Skipped, Entry
<1>5. rows' = [rows EXCEPT ![Entry] = FirstOrCreate(@)]
  BY <1>4 DEF Seed, SeedRow
<1>6. rows'[Entry] > 0
  <2>1. Entry \in Catalog
    BY <1>1, EntryInCatalog DEF Entry
  <2> QED BY <1>5, <2>1 DEF CleanInv, BootTypeOK, FirstOrCreate
<1>7. ASSUME NEW i \in 1 .. at - 1
      PROVE  rows'[SeedPlan[i]] > 0
  <2>1. i \in 1 .. Len(SeedPlan) /\ rows[SeedPlan[i]] > 0
    BY <1>1, PlanIsSequence DEF CleanInv, Progress
  <2>2. rows'[SeedPlan[i]] = rows[SeedPlan[i]]
    BY <2>1, EntryInCatalog, RowsGrow DEF BootNext, Boot, CleanInv
  <2> QED BY <2>1, <2>2
<1>8. \A i \in 1 .. at' - 1 : i \in 1 .. at - 1 \/ i = at
  BY <1>1
<1> QED BY <1>3, <1>6, <1>7, <1>8 DEF Entry

LEMMA CleanInvKept ==
    ASSUME CleanInv, [BootNext]_bootVars
    PROVE  CleanInv'
<1>1. BootTypeOK'
  BY TypesKept DEF CleanInv
<1> SUFFICES Progress'
  BY <1>1 DEF CleanInv
<1> USE PlanIsSequence DEF CleanInv, Progress, BootTypeOK
<1>2. CASE UNCHANGED bootVars
  BY <1>2 DEF bootVars
<1>3. CASE Start
  BY <1>3 DEF Start
<1>4. CASE ConnectDatabase
  BY <1>4 DEF ConnectDatabase
<1>5. CASE AutoMigrate
  BY <1>5 DEF AutoMigrate
<1>6. CASE Migrated
  BY <1>6 DEF Migrated
<1>7. CASE Seed
  <2>1. proc' = "seed" /\ clean' = clean
    BY <1>7 DEF Seed, SeedRow, Seeding
  <2>2. clean => /\ \A i \in 1 .. at' - 1 : rows'[SeedPlan[i]] > 0
                 /\ at' > 1 => known' = LooksUp(SeedPlan[at' - 1].table)
    BY <1>7, ProgressOfSeed
  <2> QED BY ONLY <2>1, <2>2 DEF Progress
<1>8. CASE Serve
  BY <1>8 DEF Serve
<1>9. CASE Crash
  BY <1>9 DEF Crash
<1>10. CASE LookupFails
  BY <1>10 DEF LookupFails, SeedRow, Seeding
<1>11. CASE SeedFails
  BY <1>11 DEF SeedFails, Seeding
<1> QED BY ONLY <1>2, <1>3, <1>4, <1>5, <1>6, <1>7, <1>8, <1>9, <1>10, <1>11,
              [BootNext]_bootVars
        DEF BootNext, Boot, BootFails

(* A process that serves without an error of its own has every row of the  *)
(* catalog, whatever the processes before it left undone.                  *)
THEOREM CleanStartsComplete == BootSpec => []CleanStartComplete
<1>1. BootInit => CleanInv
  BY InitTypes DEF BootInit, CleanInv, Progress
<1>2. CleanInv => CleanStartComplete
  <2> SUFFICES ASSUME CleanInv, proc = "serve", clean, NEW e \in Catalog
               PROVE  rows[e] > 0
    BY DEF CleanStartComplete, Complete
  <2>1. PICK i \in 1 .. Len(SeedPlan) : e = SeedPlan[i]
    BY PlanIsSequence DEF Catalog, Range
  <2>2. i \in 1 .. at - 1
    BY <2>1, PlanIsSequence DEF CleanInv, Progress
  <2> QED BY <2>1, <2>2 DEF CleanInv, Progress
<1> QED BY <1>1, <1>2, CleanInvKept, PTL DEF BootSpec
=============================================================================
