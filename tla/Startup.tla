------------------------------- MODULE Startup -------------------------------
(***************************************************************************)
(* A server process from its start to listening: main.go, config's         *)
(* ConnectDatabase, migrations.Run and seed.Run, with the container's      *)
(* restart policy around it.                                               *)
(*                                                                         *)
(* Every seeding function is a loop of statements whose errors are         *)
(* dropped, so a process can listen with a row missing, and the next start *)
(* is what fills the gap.  A table is represented by the rows other code   *)
(* reads, or by one row.  The SELECT and the INSERT of one row are one     *)
(* step: there is a single process, and nothing else writes these tables.  *)
(***************************************************************************)
EXTENDS Integers, Sequences, SequencesExt

VARIABLES
    proc,      \* what the process is doing
    groups,    \* how many groups of tables exist
    rows,      \* rows[e]: how many rows the entry e of the seed plan has
    at,        \* the entry of the seed plan that is next
    known,     \* the countries that the current seeding function has found
    clean      \* no statement of the present process has failed

bootVars == <<proc, groups, rows, at, known, clean>>
-----------------------------------------------------------------------------
(* The seed plan: the entries in the order in which Run creates them.  The *)
(* entries of states, cities and ports store the id of a country.          *)
Entries(table, country, keys) ==
    [i \in DOMAIN keys |->
        [table |-> table, key |-> keys[i], country |-> country]]

Roles            == Entries("roles", "none", <<"customer">>)
TransportModes   == Entries("transport_modes", "none", <<"air", "sea">>)
ShipmentStatuses == Entries("shipment_statuses", "none", <<"delivered">>)
PaymentMethods   == Entries("payment_methods", "none", <<"wallet">>)
GoodsCategories  == Entries("goods_categories", "none", <<"Medicine">>)
VehicleTypes     == Entries("vehicle_types", "none", <<"Tempo">>)
WarehouseTypes   == Entries("warehouse_types", "none", <<"General">>)
GSTRates         == Entries("gst_rates", "none", <<"18% GST">>)
Countries        == Entries("countries", "none", <<"IN", "AE">>)
States           == Entries("states", "IN", <<"MH">>)
Cities           == Entries("cities", "IN", <<"Mumbai", "Delhi">>)
Ports            == Entries("ports", "IN", <<"INJNP">>)
                        \o Entries("ports", "AE", <<"AEJEA">>)
HSNCodes         == Entries("hsn_codes", "none", <<"7208">>)
PricingRules     == Entries("pricing_rules", "none", <<"Road Domestic">>)
FuelRates        == Entries("fuel_rates", "none", <<"diesel">>)
InsuranceRates   == Entries("insurance_rates", "none", <<"General">>)

SeedPlan ==
    Roles \o TransportModes \o ShipmentStatuses \o PaymentMethods
        \o GoodsCategories \o VehicleTypes \o WarehouseTypes \o GSTRates
        \o Countries \o States \o Cities \o Ports
        \o HSNCodes \o PricingRules \o FuelRates \o InsuranceRates

Catalog == Range(SeedPlan)

CountryRow(code) == [table |-> "countries", key |-> code, country |-> "none"]

(* seedStates, seedCities and seedPorts begin by looking India up and      *)
(* return at once if they do not find it; seedPorts then looks for the     *)
(* Emirates and goes on without their ports if it does not find them.      *)
LooksUp(table) ==
    CASE table \in {"states", "cities"} -> {"IN"}
      [] table = "ports"                -> {"IN", "AE"}
      [] OTHER                          -> {}

(* What the order of the seed plan must be for a clean start to be         *)
(* complete: the entries of a table follow each other, and the rows that   *)
(* name a country come after it and in a function that looks it up.        *)
ASSUME SeedPlanAssumption ==
    \A i \in DOMAIN SeedPlan :
        /\ \A j \in 1 .. i - 1 :
              SeedPlan[j].table = SeedPlan[i].table
                  => SeedPlan[i - 1].table = SeedPlan[i].table
        /\ \A c \in LooksUp(SeedPlan[i].table) :
              \E j \in 1 .. i - 1 : SeedPlan[j] = CountryRow(c)
        /\ SeedPlan[i].country # "none"
              => {"IN", SeedPlan[i].country} \subseteq LooksUp(SeedPlan[i].table)

(* The groups of models that AutoMigrate goes through.                     *)
Groups == <<"master", "auth", "shipments", "tracking", "driver", "fleet",
            "warehouse", "payments", "notifications", "admin">>

BootTypeOK ==
    /\ proc \in {"down", "connect", "migrate", "seed", "serve"}
    /\ groups \in 0 .. Len(Groups)
    /\ rows \in [Catalog -> Nat]
    /\ at \in 1 .. Len(SeedPlan) + 1
    /\ known \subseteq {"IN", "AE"}
    /\ clean \in BOOLEAN

BootInit ==
    /\ proc = "down"
    /\ groups = 0
    /\ rows = [e \in Catalog |-> 0]
    /\ at = 1
    /\ known = {}
    /\ clean = TRUE
-----------------------------------------------------------------------------
(* docker-compose.yml:43, "restart: unless-stopped".                       *)
Start ==
    /\ proc = "down"
    /\ proc' = "connect"
    /\ clean' = TRUE
    /\ at' = 1
    /\ known' = {}
    /\ UNCHANGED <<groups, rows>>

(* gorm.Open and CREATE SCHEMA IF NOT EXISTS.  Redis is only pinged.       *)
ConnectDatabase ==
    /\ proc = "connect"
    /\ proc' = "migrate"
    /\ UNCHANGED <<groups, rows, at, known, clean>>

(* AutoMigrate creates what is missing, model after model, and never drops *)
(* anything.                                                               *)
AutoMigrateAll ==      \* a slip: what exists is created again
    /\ proc = "migrate"
    /\ groups' = groups + 1
    /\ UNCHANGED <<proc, rows, at, known, clean>>

AutoMigrate ==
    /\ proc = "migrate"
    /\ groups < Len(Groups)
    /\ groups' = groups + 1
    /\ UNCHANGED <<proc, rows, at, known, clean>>

(* A plausible slip: seed only a database that was never seeded.           *)
MigratedSeedsOnce ==
    /\ proc = "migrate"
    /\ groups = Len(Groups)
    /\ proc' = IF rows[SeedPlan[1]] > 0 THEN "serve" ELSE "seed"
    /\ UNCHANGED <<groups, rows, at, known, clean>>

Migrated ==
    /\ proc = "migrate"
    /\ groups = Len(Groups)
    /\ proc' = "seed"
    /\ UNCHANGED <<groups, rows, at, known, clean>>
-----------------------------------------------------------------------------
Seeding == proc = "seed" /\ at <= Len(SeedPlan)
Entry == SeedPlan[at]

Present(e) == e \in Catalog /\ rows[e] > 0

(* The current entry is the first of its table, where a function begins.   *)
Begins == \A i \in 1 .. at - 1 : SeedPlan[i].table # Entry.table

(* The countries the current function knows: it reads them as it begins.   *)
KnownNow ==
    IF Begins THEN {c \in LooksUp(Entry.table) : Present(CountryRow(c))}
              ELSE known

(* Plausible slips in the code below, each used by one mutant.             *)
SkippedUnlessIndia(countries) == Entry.country # "none" /\ "IN" \notin countries
CreateAgain(n) == n + 1
ServeIfComplete ==
    /\ proc = "seed"
    /\ at > Len(SeedPlan)
    /\ \A e \in Catalog : rows[e] > 0
    /\ proc' = "serve"
    /\ UNCHANGED <<groups, rows, at, known, clean>>

(* Is the current entry left out, as its country, or India, is unknown?    *)
Skipped(countries) ==
    Entry.country # "none" /\ ~({"IN", Entry.country} \subseteq countries)

(* FirstOrCreate, or an INSERT that ON CONFLICT (code) DO NOTHING drops:   *)
(* either way the row is there once afterwards.                            *)
FirstOrCreate(n) == IF n = 0 THEN 1 ELSE n

(* One turn of the loop of a seeding function that found these countries.  *)
SeedRow(countries) ==
    /\ known' = countries
    /\ rows' = IF Skipped(countries) THEN rows
               ELSE [rows EXCEPT ![Entry] = FirstOrCreate(@)]
    /\ at' = at + 1
    /\ UNCHANGED <<proc, groups>>

Seed == Seeding /\ SeedRow(KnownNow) /\ UNCHANGED clean

Serve ==
    /\ proc = "seed"
    /\ at > Len(SeedPlan)
    /\ proc' = "serve"
    /\ UNCHANGED <<groups, rows, at, known, clean>>

Boot == ConnectDatabase \/ AutoMigrate \/ Migrated \/ Seed \/ Serve
-----------------------------------------------------------------------------
(* An error of the connection, the schema or a migration ends the process  *)
(* (log.Fatalf); a crash ends it anywhere.                                 *)
Crash ==
    /\ proc # "down"
    /\ proc' = "down"
    /\ UNCHANGED <<groups, rows, at, known, clean>>

(* The SELECT of a country fails.                                          *)
LookupFails ==
    /\ Seeding
    /\ Begins
    /\ \E c \in LooksUp(Entry.table) :
        /\ c = "AE" => "IN" \in KnownNow
        /\ SeedRow(KnownNow \ {c})
    /\ clean' = FALSE

(* The statement of a row fails: the loop goes on with the next one.       *)
SeedFails ==
    /\ Seeding
    /\ ~Skipped(KnownNow)
    /\ known' = KnownNow
    /\ at' = at + 1
    /\ clean' = FALSE
    /\ UNCHANGED <<proc, groups, rows>>

BootFails == Crash \/ LookupFails \/ SeedFails

BootNext == Start \/ Boot \/ BootFails

BootSpec == BootInit /\ [][BootNext]_bootVars
-----------------------------------------------------------------------------
Complete == \A e \in Catalog : rows[e] > 0

(* There is no foreign key, and still no state, city or port is stored     *)
(* without the country whose id it carries.                                *)
NoOrphans ==
    \A e \in Catalog :
        e.country # "none" /\ Present(e) => Present(CountryRow(e.country))

(* A process that reached ListenAndServe without an error of its own has   *)
(* the whole catalog, whatever the processes before it left undone.        *)
CleanStartComplete == proc = "serve" /\ clean => Complete

(* "Safe to call on every startup (idempotent)" (seeder.go:12): however    *)
(* often processes die and start over, an entry that is there is neither   *)
(* lost nor entered again, although cities, pricing rules, fuel and        *)
(* insurance rates have no unique index.                                   *)
Idempotent ==
    [][\A e \in Catalog : rows[e] > 0 => rows'[e] = rows[e]]_bootVars
=============================================================================
