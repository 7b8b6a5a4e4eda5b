# JD Logistics: a verification project

TLA+ models of the JD Logistics backend (Go, gin, gorm, PostgreSQL) and of the
session of its Flutter client.  TLC checks the models on small instances, TLAPS
proves the results that should hold for every instance.  Paths below are
relative to `src/jd_logistics/`.

## The system

| Part | State | Operations | What makes it hard |
|---|---|---|---|
| rate limiter, `backend/middleware/rate_limiter.go` | a bucket (tokens, last reset, mutex) per client address, in memory | admit or refuse a request | the mutex is held over the whole handler; lazy refill; restart forgets |
| wallet, `backend/internal/payments` | `wallet_balances`, `transactions` | GetBalance, AddMoney, Withdraw, GetHistory | read-modify-write and two tables without a transaction; ignored errors |
| authentication, `backend/internal/auth` | `users`, `otp_records`, `refresh_tokens`, a write-only Redis cache | SendOTP, VerifyOTP, SelectRole, SetupProfile, RefreshToken, Logout | one-time codes and rotated tokens looked up in one statement and used in a later one; a transaction with row locks and a unique index |
| shipments, driver desk, warehouse desk, `backend/internal/{shipments,driver,warehouse}` | `shipments`, `driver_profiles`, `warehouse_profiles` | create, cancel; list, accept, reject; scan, dispatch | three independent writers of one status column |
| start-up, `backend/cmd/server`, `internal/{migrations,seed}`, `config` | the schema and the reference tables | connect, migrate, seed, serve | runs again on every restart, over whatever the last one left; drops the error of every seeding statement |
| pricing, `backend/internal/pricing` | reads the reference tables | Estimate, EstimateMultiModal | minimums, rounding, silent defaults for missing rows |
| courier and logistics orders, `backend/internal/{courier,logistics}` | `courier_orders`, `logistics_orders` | quote, create, list, cancel | price asked for twice by different code; check-then-act cancel; random tracking numbers out of 10,000 a year |
| administration and fleet, `backend/internal/{admin,fleet}` | reports over all tables; `vehicles` | GetDashboard, GetPlatformStats, GetAnalytics, GetFleetSummary; create and update a vehicle | a report is many statements, with their errors dropped, while the tables change |
| user profiles, `backend/internal/users` | `user_profiles` | GetProfile, UpdateProfile | find, then insert: two first visits collide |
| tracking, notifications, master data | one table each | insert, list | little |
| client session, `frontend/lib/core/{network,auth}`, `providers/auth_provider.dart`, `app/app_router.dart` | stored tokens, expiry, role; the status on the screens; the refresh in flight | attach token, refresh once on 401, retry, start, sign in, log out, expire | several requests share one refresh; storage is asynchronous; a log-out does not wait for requests |
| other client providers, services, screens | lists and forms | load and show | stale lists |

The client talks to the backend by HTTP/JSON only.  A backend request goes
through CORS, the rate limiter, for most routes the JWT and role middleware,
and then a handler that calls one service method.  Services share nothing but
the database, except that both order desks call the pricing service; there is
no queue and no background job.  Each request runs in its own goroutine, so any
two service methods may interleave between SQL statements, except where the
limiter's lock keeps two requests of one address apart.

## What each part should guarantee

- **Rate limiter**: one request of an address at a time past it, a bounded
  number of requests per window, no waiting on other addresses.
- **Wallet**: balances equal to credits minus debits, never negative; a failure
  costs no more than the call it hits; no stale balance written back; the reply
  equal to what is stored.
- **Authentication**: one account per phone; a code and a refresh token each
  work once; a failed sign-in consumes nothing; no token without an account;
  calls that wait for locks return.
- **Shipments**: status and driver agree; the first claim stands; only the
  customer cancels; a driver is told the truth.
- **Start-up**: seeding twice changes nothing; no city or port without its
  country; a start without errors leaves the whole catalog; in the end a
  process serves.
- **Orders and pricing**: a form has one price, however it is asked for; more
  weight never costs less; a tracking id names one order; what is delivered
  stays so; a page is as full as its total says.
- **Reports**: a part never exceeds its whole; a rate is at most one.
- **Profiles**: a stored update is not undone by a first visit.
- **Client session**: one refresh at a time, no spent refresh token presented,
  every waiting request answered, no session ended before its refresh token is
  too old, storage and screens in agreement.

The hazards behind these, line by line, are in `PROJECT.json` with the
properties that cover each of them.

## Modules

| Module | Models | State and how it maps to the code |
|---|---|---|
| `RateLimiter` | `middleware/rate_limiter.go` | `known`, `tokens`, `age`, `holder` are the buckets map, `bucket.tokens`, the time since `bucket.lastReset` and `bucket.mu`; `phase` is where a request is in the middleware. `Arrive` is lines 29-36, `Admit` and `Reject` the locked section, `Leave` the deferred unlock after `c.Next()` |
| `Wallet` | `payments/payment_service.go` | `rows`, `balance`: `wallet_balances`; `credit`, `debit`: the totals of `transactions` by type; `mem`, `found`: the local `w`. One action per SQL statement, one more for each that fails |
| `Account` | no code; what the wallet promises of its balances | a balance changes by one deposit or withdrawal at a time, on the balance of that instant. A call that fails before its write is no step of it |
| `WalletServer` | `cmd/server/main.go`: limiter, then handler | instances of `RateLimiter` and `Wallet`; `Dispatch` is the limiter's `Admit` and the wallet's `Receive` in one step, `Reply` the wallet's `Respond` and the limiter's `Leave` |
| `Auth` | `auth/auth_service.go` | `otps`, `users`, `tokens`: the three tables; `go`: the locals of each request, among them the uncommitted writes of VerifyOTP's transaction (`marked`, `fresh`) |
| `Shipments` | `shipments/shipment_service.go`, `driver/driver_service.go`, `warehouse/warehouse_service.go` | `ships`: the `shipments` table; `profiles`: `driver_profiles`; `go`: the locals and the answer of each request |
| `Startup` | `cmd/server/main.go`, `config/database.go`, `migrations/migrate.go`, `seed/seeder.go` | `proc`: where the process is; `groups`: the migrated models; `rows`: the reference tables; `at`, `known`: the loop and the country ids of the seeding function |
| `Calls` | how gin runs handlers | `go`: the calls so far with their locals; the frame of the four modules below |
| `Pricing` | `pricing/pricing_service.go` | operators only: `Estimate`, `EstimateMultiModal`, and what they are made of, in paise |
| `Orders` | `courier/*`, `logistics/*`, the handlers of pricing | `orders[desk]`: the two tables. One action per statement: the price, the insert, the cancel's read and write, the list's count and page |
| `Office` | `admin/admin_service.go`, `fleet/fleet_service.go` | `tables`: rows as sets of the tags that WHERE clauses ask for; a report is the list of its figures, counted one per step |
| `Profiles` | `users/user_service.go` | `profiles[u]`: no row, a blank one, or an address; find, create and save are a step each |
| `Backend` | the process that starts and then runs the four above | composes `Startup`, `Orders`, `Office`, `Profiles`; a crash ends every open call |
| `ClientSession` | `api_client.dart`, `token_manager.dart`, `auth_provider.dart` | `store`: secure storage; `app`: AuthProvider's status; `refreshing`: `_isRefreshing`; `task`: where each call is; `issued`, `live`, `expired`, `lapsed`: what the server has given and still takes |
| `*Proofs` | | the theorems of the module they are named after; `BackendProofs` has those of `Orders`, `Office`, `Profiles` and `Pricing` too |
| `MC*` | | instances for TLC; a `.cfg` per question. `MCAuthModes` adds `alone`: in a behaviour where it is true, calls do not overlap |

Conventions that all modules share:

- **A SQL statement is a step.**  The code's services hold no Go lock, so any
  two calls interleave between statements.  A statement with a WHERE clause
  tests and writes in one step.  The lookups of one estimate are one step too,
  since nothing writes those tables while the process serves.
- **Between two awaits is a step** in the client: Dart runs one piece of code at
  a time.  Every read and write of secure storage that another call could come
  between is a step of its own.  Merged are the two reads of the start, next to
  which nothing runs; the end of `clearSession`, as no code stores the service
  that it would write back; and writes of data that the model leaves out.
- **Only VerifyOTP has a transaction.**  Its writes stay in `go` until `Commit`;
  a row it has updated, and a phone it has inserted, make other writers wait.
  That is READ COMMITTED as PostgreSQL runs it, with one simplification: a
  statement that waits for a row sees the table at the moment it runs, not at
  the moment it began to wait.  For `InvalidatePrevious`, the one statement
  where it could matter, PostgreSQL would also skip a code created while it
  waited; such a code stays live, as it does in the interleavings already
  modelled in which it is created just after the statement.
- **Failures.**  Statements may fail and the process may die, as often as
  `MaxFailures`, or the `budget` that calls and failures share, allows.  After
  an error the model does what the code does: most errors are dropped, the
  others end the call.
- **Goroutines.**  In `Wallet`, `Auth` and `Shipments` they are reused: `Reqs`
  bounds how many calls overlap, `MaxCalls` how many there are in a behaviour.
  From `Calls` on, `go` keeps every call, so it also serves as the history
  that properties of answers need.
- **Histories.**  `recent`, `damaged`, `signIns`, `rotations`, `claim`, `clean`,
  `priced`, `faulty`, `torn`, `replaced` and `meddled` record what properties
  speak of and no action of the code reads.
- The paragraphs "Plausible slips" hold wrong variants of a module's
  definitions.  Each property of a passing run is known to fail under one of
  them, so none of them holds vacuously.

Data that no property tells apart is left out: names, parcels, times other than
expiry, the Redis copy of a code (written, never read), and the contents of
access tokens except the role.  Of a reference table the model keeps the rows
that other code reads, or one row.

## What the runs check

| Run | Question | Bounds | Result |
|---|---|---|---|
| `limiter` | Who is past the limiter, how many get through, and does a hanging handler hold up other addresses? | 3 requests, 2 addresses, 2 tokens, window 1, 1 restart; the handlers of one address may hang | `OneServedPerIP`, `WithinTwoFillings`, `OthersAnswered` hold |
| `wallet_races` | What survives overlapping calls of one user, with failures? | 3 goroutines, 4 calls, amounts 1 and 2, 2 failures | `NeverNegative`, `Backed` hold |
| `wallet_reply` | Is the balance in the reply the stored one? | 1 goroutine | **no** |
| `wallet_overdraft` | Are withdrawals covered by deposits? | 2 goroutines, 3 calls, no failure | **no** |
| `server_books` | Does the limiter repair the wallet? | 2 users with an address each, 3 requests, 3 calls, 1 amount, a restart, 2 failures (the restart may be one) | `BooksBalance`, `OneAmountPerFailure` hold and the balances implement `Account` |
| `auth_races` | Sign-ins, role changes and refreshes: what holds when calls overlap, what only when they do not? | 2 phones, 3 tokens, 1 failure; overlapping: 2 goroutines, 5 calls, 2 codes; alone: 6 calls, 3 codes | `OneUserPerPhone`, `SignInsRecorded`, `TokensHaveOwners` hold; `ConsumedOnce`, `RotatedOnce`, `OneLiveOtp`, `ClaimIsCurrent` hold of calls that do not overlap (`Alone...`) |
| `auth_liveness` | Do calls that wait for each other's locks return, also after a failure? | 2 goroutines, 4 calls of any operation on 1 phone, 4 codes, 3 tokens, 1 failure or crash | `EveryCallReturns` holds |
| `auth_code_reuse` | Does a code sign in once? | 2 goroutines, 4 calls | **no** |
| `shipments_races` | Three services writing one table | 3 goroutines, 6 calls, 2 shipments, customers and drivers, 1 failure | `StatusFollowsDriver`, `FirstClaimStands`, `CancelledByOwner` hold |
| `shipments_lost_claim` | Is an accepted order the driver's? | 2 drivers | **no** |
| `backend` | A process that starts over a half-seeded database and serves orders, reports and profiles | 3 calls and failures in all, 8 workloads, 2 desks, 2 tracking numbers, 2 cities | twelve properties hold: `NoOrphans`, `CleanStartComplete`, `Idempotent`, `ServesInTheEnd`; `OnePrice`, `TrackingNamesOneOrder`, `PageFull`, `DeliveredStands`; `PartsWithinWhole`, `OnTimeIsARate`; `UpdatesAreKept`; the types |
| `client_session` | The app's session, await by await, with wrong codes, expiring tokens, failed refreshes and kills | 2 requests of screens next to start, sign-in and log-out; 3 pairs of tokens; 4 calls, failures, kills and lapses of refresh tokens | `NotPresentedAgain`, `NoNeedlessExpiry`, `StoreFollowsScreen`, `EveryTaskEnds` hold |

Why the bounds are enough to be worth something: every interleaving hazard in
this code is between two calls, and the third goroutine lets a bystander run in
between; `auth_liveness`, where nothing can be reduced by symmetry, has two and
all operations instead.  Two users, addresses, phones or drivers are what it
takes for one to interfere with the other.  Five or six calls are enough to set
a scene (send, verify) and then race on it.  Two amounts let a withdrawal fit
one balance and not another.  One failure can hit any statement; two hit both
halves of the wallet's pair of writes, or two calls in `server_books`.  What holds for all values is proved,
see below.

A behaviour of `backend` keeps to the operations of one workload, those that a
property relates: a quote and a booking, a booking and a cancel, a report and
the writers of its tables, and so on.  The instance is then the sum of small
ones and not their product, and what three workloads at once might do is left
to the theorems, which have no such bound.  Workloads that compare prices also
run over an incomplete catalog.  The forms have 500 and 501 kg, the two sides of the
loading charge, with and without the fields that quote and booking treat
differently.  Two tracking numbers are soon exhausted, which is the point.

In `client_session` two requests suffice for one to wait for the other's
refresh, and three pairs for a sign-in, a refresh and a sign-in after a
log-out, with calls of the first session still under way.  What a sign-in, a
wrong code, a request and a lapsed refresh token do together is within the
budget of four.  The run has 660,000 states.

The runs of `Wallet`, `Auth`, `Shipments`, `backend` and `client_session` allow
deadlock because a behaviour ends when its budget is used up.  The limiter and
the server in front of the wallet never stop.

### Fairness

- `limiter`: strong fairness of taking the lock, because `sync.Mutex` switches
  to first-come order once a waiter has starved for a millisecond; weak
  fairness of a handler's return, for one address only.  For the other one
  nothing is assumed, which is what the property is about.
- `auth_liveness`: strong fairness of each call's next statement.  PostgreSQL
  queues waiters of a row lock and no call here waits for anything else.  That
  a failed statement or a crash frees the locks of its call is part of the run;
  failures themselves are not assumed to happen.
- `backend`: weak fairness of the process's own steps and of its start, which
  `restart: unless-stopped` (`docker-compose.yml:43`) gives.  Requests need
  neither come nor be worked on.
- `client_session`: weak fairness of each call's next step.  Storage answers,
  and dio gives up on a server after 30 seconds.  A call that waits for another
  call's refresh has no step of its own, so that it goes on is a result and not
  an assumption.

### What the code does not do

Four runs show a property, stated by the repository, that does not hold.

1. `wallet_reply`: gorm's `Update` writes the new balance into `w.Balance`, and
   the code adds the amount once more for the reply (`payment_service.go:32-33`,
   `60-61`).  The stored balance is right, the displayed one is not.
2. `wallet_overdraft`: the balance test and the write are two statements.  Behind
   the limiter it takes two addresses; `server_books` shows that with one address
   per user it cannot happen.
3. `auth_code_reuse`: the code is looked up unused before the transaction and
   marked by id within it, without looking again.
4. `shipments_lost_claim`: `AcceptOrder` does not look at `RowsAffected`.  The
   handler drops the error of parsing the id, so an accept that names no row is
   answered `accepted: true` as well.  The statement itself names its table
   without the schema, see below: the finding supposes a deployment that sets
   `search_path`.

More follows from the same causes and has no run of its own.  With overlapping
calls `RotatedOnce` and `OneLiveOtp` of `Auth` also have counterexamples (one
refresh token rotated twice, two live codes for a phone), as can be seen by
checking them in place of their `Alone...` forms; and in `Shipments` a
cancelled shipment can be claimed or scanned again, because no writer looks at
the status it overwrites.

The remaining properties are stated as strongly as the code allows.  What their
exceptions leave out is worth knowing.

- *Price.*  `OnePrice` compares only clean answers, and only those forms whose
  quote and booking ask the engine the same thing (`Comparable`).  An express
  parcel can be quoted and cannot be booked; the logistics quote passes the ids
  of ports as ids of cities while the booking passes none; a row that is
  missing, or whose SELECT fails, is silently priced with a default.  The
  recommended "Truck (Small)" is not a seeded vehicle, and the tables of pricing
  rules, fuel and insurance rates are seeded and never read.
- *Cancel.*  `DeliveredStands` excepts a cancel that was under way before the
  delivery.
- *Reports.*  `PartsWithinWhole` allows for the rows added while the report ran
  and for failures: a failed count shows zero, except that a failed sum of
  today's revenue shows all revenue (`admin_service.go:37`).  Orders by "ocean" are counted, but the seeded mode
  is "sea".
- *Profiles.*  `UpdatesAreKept` is about users whose row was there.  Two first
  requests of a user can collide, and then a PUT may answer 200 with nothing
  stored.
- *Wallet.*  A call that fails between its two writes leaves them apart, and no
  later call repairs it.  `BooksBalance` excepts the users whom that happened to,
  `OneAmountPerFailure` says how far apart it can leave them, and `Account` sees
  no step.  A first deposit whose INSERT loses to another call's goes on without
  an id and stores nothing; the limiter keeps two calls of a user from that too.
- *Client, ends of sessions.*  A wrong code is answered 401
  (`auth_handler.go:47`), and `onError` makes no exception for public paths
  (`api_client.dart:182-212`): the app tries the stored refresh token, sends the
  code again if it has a new pair, and then clears the session and signals its
  end.  The listener wipes the chosen role with it, so after a mistyped code the
  user chooses the role again.  Access and refresh tokens both last thirty days
  (`jwt.go:21`, `auth_service.go:196,244`), so the 401 for an expired access
  token normally meets an expired refresh token and the session ends.  What
  keeps a session in use alive is the hour after which the app refreshes by its
  own clock.  `NoNeedlessExpiry` says that age is the only reason while
  refreshes are answered.
- *Client, storage.*  `meddled` excepts calls that a log-out overtook: the
  log-out waits for no request, so a refresh in flight can write its pair into
  the wiped storage and bring the session back.  The expiry handler restores the
  role (`token_manager.dart:55-56` says role and service are preserved), but the
  listener it then signals wipes everything.  Log-out does not tell the server,
  so its refresh token stays live.  After a refresh the stored expiry is one
  hour ahead whatever `expires_at` says.  A retry after the storage was wiped
  goes out with "Bearer null".  `torn` excepts a kill between the first two
  writes of a sign-in that found an old session in storage: the access token is
  then of the new session and the refresh token of the old one, the next start
  shows the one, and the next refresh replaces it by the other.

Other observations, outside the models: `driver_service.go` and
`warehouse_service.go` name the table `shipments` without its schema, so these
statements fail unless the deployment sets `search_path` (`StatementFails`
covers what then happens); the client's customers book courier orders while
drivers and warehouses work on shipments, and nothing turns one into the
other; the client's dispatch call sends `parcel_id` where the handler requires
`shipment_id`; it offers roles (`courier_driver`, `logistics_customer`) that
`SelectRole` refuses.

## What is proved

TLAPS checks the theorems for every value of the constants: any number of
goroutines, users, rows, calls and failures.  Every invariant that a passing
run checks is the subject of a theorem; the temporal properties that remain
with TLC are named at the end.

The assumptions are those named in the modules, and TLC evaluates each of them.

- `LimiterAssumption`, `WalletAssumption`, `AddrsAssumption`, `AuthAssumption`,
  `ShipmentsAssumption`, `ClientAssumption` and `MaxBudgetAssumption` say that
  bounds are natural numbers, that "no one" is not someone, and that the
  addresses of users are addresses.
- `OrdersAssumption`, `ProfilesAssumption` and `OfficeAssumption` say that those
  who book are customers, that pages, limits and tracking numbers are integers,
  and that addresses and modes are not named like the marks the models use.
- `FormsAssumption` says that measures are integers and distances natural
  numbers.  Volumes and declared values may be negative, which no handler
  refuses; the ids of a form may name a city or none, and a port's id may be the
  id of any city.
- `SeedPlanAssumption` is about the fixed seed plan: rows of a table follow each
  other, countries come first.
- `WalletServer`'s results also assume `SingleAddress`, which is what they are
  about.

| Module | Theorem | Rests on |
|---|---|---|
| `RateLimiterProofs` | `TypeCorrect`, `MutualExclusion`, `LocksAreOwned` | `Owner`: who is served holds the lock of its address |
| | `TwoFillings` (`WithinTwoFillings`) | `CountInv`: of the requests of any last stretch of the window, the present filling of the bucket accounts for those since the refill, and `Before`, a filling and one more per restart, for the rest |
| `WalletProofs` | `TypeCorrect`, `Solvent` (never negative) | `ReadOK`: a withdrawal under way has read a balance that covers it |
| | `NothingMinted` (`Backed`) | `ReadBacked`: until something fails, what a call has read, and what an AddMoney will store, is covered by the credits journaled so far |
| `WalletServerProofs` | `CallsSerialised`, `BooksKept`, `Atomic` | the invariants of both parts; `Linked`: served by the limiter iff in a wallet call, from one of the user's addresses; `Current`: what was read is still stored; `Rows`, `Books` |
| | `FailuresCostOneCall` (`OneAmountPerFailure`) | `Damage`: wallet and transactions of a user are within one amount per failure of each other, or will be when the call under way has stored its balance |
| `ShipmentsProofs` | `TypeCorrect`, `StatusAgrees`, `ProfilesExist`, `ClaimStands`, `OwnerCancels` | `CallFits`, `FoundStands`: what the first statement of a call found is still so at its second |
| `AuthProofs` | `TypeCorrect`, `OneAccountPerPhone`, `OwnersExist`, `CodesAccounted`, `RotatedNeverLive` | `Fits`, `UserOK`, `FreshApart`, `Presented`, `CodeOK`, `SpentBeforeIssue` |
| | `CodesWorkOnce`, `TokensWorkOnce`, `OneCodeLive`, `LastTokenSaysRole` (the `Alone...` properties) | `AloneInv`: of calls one at a time, the code or token that the call has found is still unused, no other code of the phone is live when one is created, and the user a token is issued for has the role that the call knows |
| `StartupProofs` | `BootTypeCorrect`, `NoOrphanRows`, `CleanStartsComplete`, `SeedsAreIdempotent` | `KnownExist`: a country the seeding function has found is a row; `Progress`: a process without errors has every row before `at`, and knows the countries its function looks up |
| `BackendProofs` | `BootRefined`, `SeedsHoldWhileServing` | every step of the whole is a step of `Startup` or leaves its variables alone |
| | `BackendTypeCorrect` (`TypeOK`), `PricesAgree` (`OnePrice`) | `SalesInv`: every row, booking under way and price on record is well formed, and its price is the one of its form (`RightAnswer`) |
| | `NumbersUnique`, `DeliveredStays` | `OrdersInv`: ids carry their desk's prefix and are distinct within a table, and a cancel that came after the delivery is not at its UPDATE; `OrdersStay`: rows are only appended, their ids stay, and what is finished stays finished |
| | `PagesFull` (`PageFull`) | `ListInv`: a list has counted no more rows than it would now select |
| | `RateIsARate`, `PartsFit` | `RateInv`: the delivered orders that a report has counted are no more than the finished ones there now; `PartsInv`: a table has no more rows than the report has counted and has seen added since |
| | `UpdatesKept` | `ProfilesInv`: a row that was there when a call came is there now, and such a call never inserts |
| | `HeavierNoCheaper` | no state: each part of `Estimate` grows with the weight, for every form whose measures are integers and every distance |
| `ClientSessionProofs` | `TypeCorrect`, `OneCallRefreshes`, `WaitersAreServed`, `SpentNeverPresented` | `OneRefresh`, `Served`; `UnsavedFresh`: a pair on its way to storage is newer than what is stored; `SpentOnes` |
| | `NoSessionEndsNeedlessly`, `StorageFollowsTheScreens`, `RefusedForAgeOnly`, `RequestsAreOfTheSession` | `SessionInv`, see below |

The argument is the same everywhere.  A property speaks of the tables, and a
step writes to them from a goroutine's locals, which were read earlier; so the
property is not inductive until one says what the locals still have to do with
the tables.  In `Auth` that is `UserOK`: the user a call holds is a row with
its phone, or is being inserted by the call itself and still unseen.  Two
unfinished inserts of one phone would break `OneUserPerPhone` when both commit;
`FreshApart`, which the wait of `InsertUser` keeps, rules them out.  `CodeOK`
says that the transaction's code is the phone's own and is marked, or was
deleted before it could be, which is the exception `SignInsRecorded` makes.

`AloneInv` shows what the overlaps of `auth_code_reuse` cost: with at most one
call past its first statement, the lookup still holds when the row is written,
through every failed statement and crash.  What it says of roles reaches over
calls: a role is changed by `SelectRole` only, whose next step issues the token
that says so.

`Atomic` is the refinement: every step of the server with one address per user
is a step of `Account` on the balances or leaves them alone.  It needs
`Current`, and `Current` is what fails without the limiter.  It says that what
is stored is a whole deposit or withdrawal, and not that every call is stored:
a call that a failure cuts short is a step that leaves the balances alone.
What such calls cost is `FailuresCostOneCall`: each of them had a failure of its
own, and it puts a wallet and its transactions apart by its amount at most.

`BootRefined` is the other one: `Backend` implements `Startup`'s `BootSpec` with
the services left out, so what is proved of the seeds holds under load, without
a second proof.  In `BackendProofs` the services are kept apart by `Within`,
which says that a step of one of them leaves the calls of the others as they
are; each invariant is then proved against the few actions that can touch it.

`PricesAgree` compares two calls of the engine that may be any number of steps
apart.  Its core is `RightAnswer`: a clean answer's total is what the engine
computes from the form over the complete catalog, which by
`CleanStartsComplete` is the catalog it read.  What remains is arithmetic: that
the quote and the booking of a `Comparable` form, and its one-leg journey, have
the same parts.  `PagesFull` counts: a page holds the rows whose rank, the
number of newer rows, lies between its offset and its end, and the ranks of a
finite set of n rows are exactly 0 to n - 1 (`Numbered`).

In `ClientSession` the boolean `_isRefreshing` is a lock without a queue.
`OneRefresh` says that it is set exactly while one call is inside `_doRefresh`.
That the pair to be presented is not a spent one then needs two facts: whoever
holds a pair not stored yet is the only one who knows it (`UnsavedFresh`), and
the stored refresh token is never among the spent ones (`SpentOnes`).  That each
waiter is told needs the converse, `Served`: a set flag has its call in
`_doRefresh`.

`SessionInv` is the invariant of whole sessions, and it adds to those facts six
parts.  `OrderInv` says which call may be where: before the start has decided
only the start runs, and each call is at steps of its own.  `AloneInv`: while
nobody is signed in the sign-in is alone, but for a log-out's or the listener's
last step and for calls that an earlier session left behind.  `LiveInv`: as long
as every refresh is answered, the stored refresh token has not been exchanged,
or a call that has its successor is about to store it.  `ShownInv`: storage, and
every call that no log-out overtook, holds tokens of the session on the screens
only.  `CleanInv`: without faults storage holds both tokens, unless a call of
the session is ending it (`Dying`) or has wiped everything (`Gone`); what a call
presents is then the stored refresh token (`Presented`), and what it carries
after a refresh is newer than anything the server has expired (`NewEnough`).
`TornInv` ties `torn` to kills.  `NoSessionEndsNeedlessly` follows: the first
call to end a session was refused, it was not refused because the token had been
exchanged, so the token was too old.

TLC checked `SessionInv` before it was proved, on two screens with three pairs
and a budget of four (660,000 states) and on one screen with four pairs and a
budget of five (2.4 million).  The larger instance is also where an earlier form
of `StoreFollowsScreen`, without the exception for `torn`, turned out to be
false: two sign-ins and a kill between two writes are one more call than the
run's budget allows.  The proof first says what kinds of steps there are
(`StepKinds`: goes on, ends a refresh, receives a pair, stores a token, wipes,
signs in, signs out), and each part of the invariant is then proved against the
kinds and not against the twenty-nine actions of a call.

Only model-checked, because the prover cannot do liveness under fairness:
`OthersAnswered`, `EveryCallReturns`, `ServesInTheEnd`, `EveryTaskEnds`.  Where
a proof would have needed induction over data the model says the same thing
another way: the limiter keeps a count per stretch of the window (`recent`), a
page is a set of ranks and not a filtered sequence, and a price is a sum of
named parts.  The only fold left in a theorem's reach is `EstimateMultiModal`'s
over the legs of a journey, and `OnePrice` compares journeys of one leg.

## What is not modelled, and why

`PROJECT.json` lists every component.  In short: master data are read-only
lists; notifications are inserts and a flag that only goes up; tracking events
are an append-only list that no other code reads or writes; CORS sets fixed
headers.  Of fleet, maintenance records are left out (inserted and listed, and
the one statement that counts them compares a text column with a time, which
PostgreSQL refuses); of the driver desk, the single-column writes of position
and status.  Screens, widgets and mock data are most of the client's lines and
hold nothing to check; the providers other than `AuthProvider` load and show.
Among them `driver_provider.dart` uses its list across an await, which is
listed as a hazard and not yet modelled.

## Plan

1. `SessionServer`: `ClientSession` against `Auth` in place of `issued` and
   `live`, with lost answers.  A rotation whose answer is lost costs the
   session; the single refresh of the client is what keeps the server's
   check-then-rotate race from being reached.
2. `DriverApp`: `DriverProvider`'s list of orders around its awaits, against
   `Shipments`.
3. Proofs: `ConsumedOnce` and `RotatedOnce` for `Auth` behind the limiter's
   lock, in the way `WalletServerProofs` has them for the wallet, in place of
   the assumption that calls do not overlap.
