# gatstogo: TLA+ models and proofs

gatstogo is a multi-tenant web application for LPG plants: a customer buys a quantity of
gas online (Paystack) or for cash, gets a 4-digit code, and a plant's staff redeem it at a
terminal, dispense the gas and close the ticket. Plants apply on the platform's own pages, are
approved by administrators, and are run by their owners from a console. This directory holds models
of the parts of that program, the TLC runs that check them and the TLAPS proofs.
Sources are named relative to the repository's root; `PROJECT.json` maps every definition to the
lines it models.

Contents: [1 the system](#1-the-system), [2 modules](#2-modules),
[3 properties and runs](#3-properties-and-runs), [4 proofs](#4-proofs), [5 plan](#5-plan),
[6 not modelled](#6-not-modelled), [7 what the models show](#7-what-the-models-show-besides).

## 1. The system

One Go process (`cmd/server`), several of which may run; Postgres (row-level security per plant,
READ COMMITTED transactions through `tenantdb.WithTenant`); Redis (sessions, PIN limiter,
receipt codes, reset tokens, IP limits); Paystack, Termii and Resend over HTTP; a second binary,
`cmd/gtg`, that migrates the database and manages administrators.
Every request runs in a goroutine of its own. Nothing but Postgres's constraints and row locks and
Redis's single commands orders two requests.

| Component | State | Operations | Hard behaviour | What makes it correct |
|---|---|---|---|---|
| Ticket lifecycle (`internal/tickets`, `cmd/server/tickets.go`) | `tickets` rows: status, code, pump, confirmed_at | Purchase (checkout, cash), MarkPaid, Redeem, StartDispensing, CloseFilled, BulkCloseFilled, Void, Confirm | webhook and callback race; redelivered events; SELECT then unguarded UPDATE; reused codes; aborted transactions | gas released once and only for money received; a live code names one ticket; charged tickets become paid |
| Pumps (`internal/pumps`) | `pumps` rows: status, order | AssignLeastBusy, ValidateShiftPump, Upsert, List with EnsureDefault | stale snapshots; a pump fails under way; two first pages insert Pump 1 | an assigned ticket stays at its pump; a pump is one member's |
| Staff terminal (`cmd/server/terminal.go`, `internal/shifts`) | `shifts`, `cash_movements` rows | PIN login, StartOrResume, Close, logout, redeem, fill, sale, close; managers' price, pump and staff forms | logins race; Redis is outside the transaction; sessions share a shift; a permission is asked for in one statement and used in the next | one open shift per member; cash counted once; a session agrees with its shift; a manager acts with the permission for it |
| Sessions (`internal/session`, `internal/middleware/session.go`) | Redis session keys, cookies | Create, Load, Touch, Delete; the four `Require...Session` | the copy in a session goes stale; a request touches what was ended | an ended session stays ended; nobody works on a closed shift or after being deactivated |
| PIN limiter (`internal/shifts`) | Redis: failures, lock | Locked, RecordFailure, Reset | commands interleave; death between INCR and EXPIRE | guesses before a lockout bounded; counters expire; locks end |
| Receipt codes (`internal/receipts`, `cmd/server/receipts.go`) | Redis: code, cooldown, failures, lock | RequestCode, VerifyCode | as above; a counter outlives its code | guesses per code bounded; a code passes once |
| Password reset and logins (`internal/passwordreset`, `cmd/server/auth.go`, `accounts.go`) | Redis: tokens, fixed-window IP limits; `users.password_hash` | Create, Consume, reset, change, login | token consumed before the password is changed; verify, then UPDATE by id | a link changes a password at most once; nobody else replaces one without knowing it; an address is let in again |
| Onboarding (`internal/plants`, `internal/buyers`, `cmd/server/admin_write.go`, `marketing.go`) | `plants`, `users`, `buyer_signups` rows; Paystack subaccounts | sign-up, approve, suspend, settlement, provisioning, buyers' sign-up | double submits around an external call; ranks under an advisory lock; notices outside the transaction | ranks dense, unique and at most the limit; no active plant without a subaccount |
| Owner console (`cmd/server/owner_write.go`, `internal/staff`, `prices`, `hours`) | `users`, `prices`, `plant_hours` rows | staff, PINs, permissions, prices, hours, settings, void | PIN uniqueness without an index; `now()` is a transaction's beginning; overlapping saves; segments that are dropped unsaid; hours over midnight | PINs unique; a price takes effect; open exactly in the hours |
| Reviews (`internal/reviews`, `cmd/server/reviews.go`) | `plant_reviews` rows | EnsureRequest, Submit | the same ticket filled again | one request per ticket, one review per request, kept |
| Bank list (`internal/payments`) | in-memory cache and its lock | BanksWithFallback | lock dropped during the fetch | a list shown is recent |
| Logo uploads (`internal/uploads`) | files | SaveLogo | files change before the form is accepted | one logo per plant; a refused form harms nobody |
| Migrations (`internal/migrate`, `cmd/gtg`) | `schema_migrations` | Up, Seed, guardSeed | two processes start at once; seed files among the others | the schema is what the table records |
| Administrators (`cmd/gtg/admin.go`) | `users` rows | create-admin, delete-admin | count, confirm, write | one administrator remains |
| Tenancy (`internal/tenantdb`, `internal/middleware/tenant.go`, `cmd/server/main.go`) | connections and the plant each is scoped to; Postgres policies | WithTenant; start, shutdown | requests of all plants share a pool; transactions fail halfway; shutdown waits for connections | one plant never reaches another's rows; a signal ends the process |
| Web front (`internal/middleware`, `internal/csrf`, routes in `main.go`, forms in `web/templates`) | cookies, CSRF tokens | routing by host, entry pages, session and CSRF checks | a form outlives its page's cookie or session; a plant changes its status under way; a failed lookup is answered as no plant | a refusal has a cause outside the page |
| Read pages (`cmd/server/main.go`, `terminal.go`, `admin_plant_detail.go`) | none (reads) | dashboard, home, terminal, console, plant detail | statements of one page see different moments; errors are dropped | a figure shown is a figure that was read |
| SMS, e-mail, password hashing, audit, config, texts | none that is read back | - | - | - |

How they interact: the checkout writes a pending row, commits, and initialises Paystack; Paystack
redirects the browser to the callback and posts `charge.success` to the webhook; either asks
Paystack to verify, then calls MarkPaid and AssignLeastBusy in one transaction. The terminal's PIN
login passes the PIN limiter, checks the pump, opens or resumes a shift and stores member, shift and
pump in a session; later requests trust that copy. Filling a ticket asks its customer for a review in the
same transaction. A customer's receipt session, created by a verified code, allows Confirm on a filled
ticket. Every request passes the host's resolution, the session middleware and the CSRF check before its handler,
and reaches the plant's rows through `WithTenant`.

## 2. Modules

| Module | What it is |
|---|---|
| `Tickets` | the ticket table and every handler that writes a row of it, with Paystack as an environment |
| `GasLedger` | what the ticket table promises: money, gas and the holder of each code, nothing else |
| `TicketsLedger` | the refinement mapping: `ImplementsLedger` says that `Tickets` implements `GasLedger` |
| `ShiftBook` | what the terminal promises the owner: a shift of a member who has none begins, keeps its pump, is finished and counted once |
| `TerminalBook` | the refinement mapping: `ImplementsShiftBook` says that `Terminal` implements `ShiftBook` |
| `FirstComers` | what the launch program promises of founding ranks and of buyers' ranks: the next free one, if any remain, for good; `Onboarding` and `BuyerOffer` map to it (`Founders`, `FirstBuyers`) |
| `Terminal` | PIN login, shifts, staff sessions and their requests, switches of members and pumps |
| `PinLimiter`, `CodeStore`, `RateLimit` | the PIN limiter, the receipt codes, the limit per address: one Redis command per step, with time |
| `Server` | the process from its first dependency to its exit, and `WithTenant` on shared connections |
| `Onboarding`, `BuyerOffer` | plants: applications, founding ranks, subaccounts, status and notices; buyers' ranks |
| `Accounts` | an owner's password, reset links, logins and the sliding session |
| `Roster`, `Managers`, `Prices`, `Hours` | the owner's console and the managers' part of the terminal |
| `Reviews`, `BankCache`, `Logos` | one request and answer per ticket; the bank list; logo files |
| `Migrations`, `Admins` | the two commands of `gtg` |
| `Pages` | the forms of every page: where each posts, the token it carries, the values it offers |
| `Site` | a browser tab on its way through host, plant status, route, session and CSRF to an answer |
| `Dashboard` | the pages that only show, statement by statement |
| `MCTickets`, `MCTerminal`, `MCSecrets`, `MCOffice` | instances for TLC |
| `TicketsProofs`, `LedgerProofs`, `TerminalProofs`, `SecretsProofs`, `OnboardingProofs`, `AccountsProofs`, `SiteProofs`, `OfficeProofs` | the theorems; `SecretsProofs` and `OfficeProofs` end with those about the compositions `MCSecrets` and `MCOffice` |

`MCSecrets` explores `PinLimiter`, `CodeStore`, `RateLimit` and `Server`, and `MCOffice` the fourteen components
around the sale of gas, each with the others at rest: they share no key, row or caller that these
models keep, so the state space is their disjoint sum, and a variable `part` says whose turn it is. `MCTickets` and
`MCTerminal` have a run of their own each: what the two share, a member's pump, is an arbitrary one in
`Tickets`.

### Tickets

A row is a ticket `t`: `status[t]` ("none" until the INSERT commits), `code[t]`, `pump[t]`, `kind[t]`
(`online` or `cash`), `confirmed`, and `born[t]`, the `created_at` that `now()` takes from the *start*
of the transaction. `paystack[t]` and `event[t]` are Paystack's transaction and its webhook.

The grain: a guarded `UPDATE ... WHERE status = ...` is one step, because the row lock it takes is held
to commit and a second writer re-evaluates its guard after it. MarkPaid and Confirm SELECT without a lock
and UPDATE by id or reference alone: they are two steps each (`DeliverWebhook`/`Callback`, then
`FinishConfirm`; `ConfirmReceived`, then `SetConfirmedAt`), with what the SELECT returned kept in
`saw`/`confirming`. An INSERT and its commit are one step: until then no other transaction sees the row, and
one that inserts the same code waits for it. `BeginPurchase` is apart because it fixes `created_at`.
A unique violation aborts the transaction (`InsertCollides`, then `InsertRefused`).
`AssignLeastBusy` counts in a snapshot; `Candidates` is what it may choose when any set of other
transactions is not yet visible. `Initialize` follows the commit and may fail. `Charge` may charge another
amount. The 200 that answers a webhook may be lost (`FinishConfirm` may leave the event due), and the callback
can be reloaded, so every confirmation may be repeated.

Left out of `Tickets`: review requests (see `Reviews`), audit rows and SMS that the handlers also write and
nothing here reads; who the actor is (see `Terminal`); prices and hours, which only decide whether a purchase
begins (see `Prices`, `Hours`). The set of pumps and their order are fixed. `tickets.Fill` has no caller.

### Terminal and Managers

`Tokens` are PIN logins, each of which may end in a session with that token. A login goes through
`stage[k]`: verified (`VerifyPIN`), validated (`ValidateShiftPump`), then `ResumeShift`, or `FindNoShift`
and `InsertShift`, then `CreateSession`; it may fail or die at any point (`LoginFails`), with a committed
shift staying open. The pump check and the look for an open shift are SELECTs of one READ COMMITTED
transaction and take a step each. `LetIn` is `RequireStaffSession`; requests of one session overlap
(`inside[k]` is a set). What a request carries from its session never changes, so `inside[k]` only needs the
kinds of request under way. `CloseShift` commits before `DeleteSession`, and `RequestEnds` between them is a
crash. Pumps and members are switched at any time. `known`, `foreseen` and `closers` are history that
the properties need. `shifts.IncrementTokens*`, `MostRecentOpenShiftID`, `RecordCashMovement` and
`Session.SetShift` have no callers and are left out.

In `Managers` a manager's request asks for its permission (`AskPermission`, `terminalManagerCan`) and writes in the
next step of the same READ COMMITTED transaction (`CommitManaged`, with its audit entry); the owner ticks boxes and
switches members, and managers switch each other, in between. `wrote` and `crossed` are history.

### PinLimiter, CodeStore and RateLimit

Each Redis command is a step; attempts (verifications, lookups, visits) interleave between them and may die.
TTLs count down with `PINTick`/`CodeTick`/`RateTick`. A tick waits while a failure is between its INCR and its last
command: those follow each other within milliseconds and the shortest TTL is 20 s. It does not wait for
requests that are comparing, reading or about to INCR, which may be arbitrarily slow. `ComparePIN` and
`ReadCode` choose whether the secret was right. In `CodeStore` an error of a DEL is ignored as in the code
(`Unless`); in the others, any other error ends the request, or, for an address, lets it in.

### Server

`process` goes through the dependencies of `CreateNewServer` in their order, up, draining, closing (`AppDB.Close`),
closed (`AdminDB.Close`) and out. A request looks its plant up on AdminDB, then runs one or two transactions of
`WithTenant`: acquire, begin, `set_config(..., is_local)`, statements, COMMIT, and the deferred release; every step
may fail. `setting[c]` is `app.current_plant_id` on a connection, and `Visible` the policies of migration 0001.
A shutdown that runs out of its ten seconds goes on to close the pools while requests are still in flight.

### Onboarding and BuyerOffer

A plant is known by the form that created it. `plants.Create` is `LockFounding`, `CountFounding`, `InsertPlant`
or `RefusePlant`: the INSERTs and the COMMIT are one step, because until then nobody sees the row, and the unique
indexes (`Insertable`) make whoever inserts the same slug wait. An administrator's plant skips the founding rank and
begins active with a subaccount. `CreateSubaccount` is Paystack's answer, `SetSettlement` the UPDATE. A status request reads the
previous status (`LoadNotice`), sets the new one by id alone (`SetStatus`) and sends the notice after it.
`BuyerOffer` is the same race with COUNT instead of MAX.

### Accounts

Passwords are known by the form that set them, sessions by their login. `Consume` is GETDEL; the UPDATE that
follows may fail. A change of password loads its session, touches it (EXPIRE: nothing for a key that is gone),
verifies, and updates by id. `setSince` is what a change could not know. Nobody asks a session which password it
was opened with, so sessions outlive resets.

### Roster, Prices, Hours, Reviews, BankCache, Logos, Migrations, Admins

Each is one table or file and the requests that write it, cut where the code reads in one statement and writes in
another: compare the hashes, then INSERT (`Roster`); begin, then INSERT with the beginning's time (`Prices`); DELETE what is
visible, then INSERT with its conflicts (`Hours`: `ON CONFLICT DO UPDATE` for a closed day only; `ParseWeekForm` reads the fields, each a
time, blank or garbled, and what is `Unreadable` is passed over in silence); find or make a
request under the ticket's row lock, commit, send (`Reviews`); look, fetch without the lock, store (`BankCache`);
remove other types, write, save the row (`Logos`); look up a version, then apply it with its record (`Migrations`); count, confirm,
remove (`Admins`). `OpenAsScheduled` compares StatusNow with a definition of its own, `Covers`, that
counts minutes over the whole week.

### Pages and Site

`Pages` has one operator per form of the templates (and the terminal's script): the path, the kind of CSRF token,
and the values that radio buttons, lists, boxes and hidden fields offer, as a function of the rows the page is drawn
from. A row is its status there. `Site` follows one tab: `Ask` and `Submit` send the cookies of that moment
(`cookies`), then the answer is made in the order of the code: the entry pages' own look at the plant, the tenant
middleware, the session middleware (`NotSignedIn`), CSRF (`Verified`), the handler. Either lookup of the plant may fail
(`LookupFails`: any error is the 404), Redis may not answer (`NotSignedIn`: a session that is gone), and the handler of a page may answer 404 or
500 in its place (`NotFoundFor`, `FailsFor`: a row the path names is not there, or a query failed). `Routes` is the router with
its groups; `Taken` what a handler accepts. Meanwhile other tabs sign in and out and get cookies, keys expire,
and administrators change the plant's status. `seen` (the statuses while the request was under way) and `causes`
(what became of the page's tokens, and what was wrong with the last request) are history.

### Dashboard

A page is the sequence of its statements, each given by the tables it reads (`Statements`). Each statement sees
what is committed when it begins; a failed one aborts its transaction (`AfterFailure`) and the loaders go on without
saying so. `firstPump` is the collision of two `EnsureDefault`. `DropSession` is the terminal's resumption that
finds no session, no open shift or no database.

## 3. Properties and runs

| Run | Instance | What it shows |
|---|---|---|
| `tickets` | 2 tickets, 2 codes, 1 pump, symmetric; 1.06M states | `OpenCodesUnique`, `FundedBeforeGas`, `RedeemedOnce`, `PaidTicketRedeemable`, `ConfirmedWasFilled`, and that the table implements `GasLedger` |
| `tickets_live` | 1 ticket, 2 pumps, database answers the lookup | `ChargedIsConfirmed` under fairness, `PumpNeverReassigned` |
| `tickets_terminal` (violation) | 1 ticket | MarkPaid takes a void or filled ticket back to paid |
| `tickets_collision` (violation) | 2 tickets | Purchase gives up after the first collision |
| `tickets_lookup` (violation) | 1 ticket | a database error in the webhook's lookup is acknowledged, the payment stays pending |
| `terminal` | 3 logins, 2 members (one an operator), 2 shifts, 1 pump, 2 overlapping requests; 2.28M states | `OneOpenShiftPerMember`, `SessionMatchesShift`, `PumpSharedOnlyByRace`, and that the terminal implements `ShiftBook` |
| `terminal_shift` (violation) | 2 logins | a session of a shift that another session ended is still let in |
| `terminal_inactive` (violation) | 2 logins | a deactivated member's session is still let in |
| `secrets` | 2 PIN attempts; 2 verifications, 1 lookup, 2 codes; 3 visits; 3 requests of 2 plants on 1 connection | `AttemptsLimited`, `WrongPerCodeBounded`, `AdmittedBounded`, `PlantsApart`; `LockEnds`, `BlockEnds`, `ShutdownEnds` under fairness |
| `codes_once` (violation) | 2 verifications, no fault | one code passes twice |
| `office` | 15 parts, each on its own instance; 1.01M states | the invariants of the components around the sale, below |
| `logos` (violation) | 2 forms, 1 slug, 2 types | a refused form for a new plant replaces the logo of the plant that has its slug |

The properties of `office`:

| Property | Of | What it says |
|---|---|---|
| `RanksInTurn` | `Onboarding` | applications are registered one by one, each with the next free founding rank, which it keeps (implements `FirstComers`); nobody is refused for losing the race for one |
| `ActiveIsSettled` | | an active plant has a subaccount |
| `NoticeTwiceOnlyByRace` | | a second notice of approval needs two approvals that overlapped, or a plant put back |
| `OffersInTurn` | `BuyerOffer` | the same of buyers' ranks (implements `FirstComers`), and the rank answered is the rank stored |
| `PasswordsGuarded` | `Accounts` | a link changes one password once; a change replaces a password its user knew, or one set while it was under way |
| `SessionStaysEnded` | | no Touch brings a session back |
| `PINSharedOnlyByRace` | `Roster` | two members share a PIN only if neither was there when the other was compared |
| `LicensedUnlessRace` | `Managers` | a manager's form writes with the permission for it unless the row changed while it was under way |
| `TakesEffectUnlessRace` | `Prices` | the price committed last is current unless one committed while it was under way is |
| `HoursAsEntered` | `Hours` | after a save, every segment of its form is there as entered, or a time of it was missing or unreadable; the rest is from forms saved meanwhile, never from an older week; no segment twice; open exactly in the intervals of the day's rows |
| `ReviewKept` | `Reviews` | every link sent is the stored request's; whoever was thanked finds the answer there |
| `ListIsRecent` | `BankCache` | a list shown was current at most one TTL ago |
| `SchemaAsRecorded` | `Migrations` | files applied once, in order, as recorded; "complete" means complete |
| `LastAdminStaysUnlessRace` | `Admins` | only overlapping removals take the last administrator |
| `OneLogoUnlessRace` | `Logos` | one file per slug unless two uploads overlapped |
| `AnsweredForACause` | `Site` | every refusal of a page's form has a cause outside the page; a page that is there is not found, or fails, only for a query that failed, a row that is not there, or a status the plant had |
| `PageHoldsTogether` | `Dashboard` | a dashboard that is shown is whole; later panels know what earlier ones show |

Every run has one type invariant (`TypeOK`, `SecretsTypeOK`, `OfficeTypeOK`), and every property of a passing
run a mutant: a definition changed the way a plausible bug would, with which TLC finds the property violated.

**Why the bounds are enough.** Two tickets are what a code conflict, a code reuse and a busy pump take; the
second is also the "other customer" whose confirmation is mixed up with the first. Two codes let a
conflict be escaped. Every request in `Tickets` may be repeated without bound, so no count is cut short
there. Three logins are two of one member and one of another, which is the least that has a resumed shift
*and* a race for the pump; two shifts are one per member, and a closed shift may be followed by a
second of the same member. Two overlapping requests reach every pair of a shift end with another request.
The limits of 2 and 3 (5 in the code) let a counter be below, at and past its limit;
`CodeTTL = 2 * VerifyLockoutTTL` as in the code (10 and 5 minutes), so a lock can start, end and start again
in one code's life; in `PinLimiter` the window exceeds the lock. `MaxCodeAttempts` is the code's 6.
In `Server` one connection is the pool at its limit, two plants are a plant and any other, three requests let two wait.

In `office`: three sign-ups for two founding spots, so that two race and one goes without, with an administrator's plant beside them that has
no rank; one plant of each kind, one settlement and two status requests in the part `approvals`, since what a
status request reads can be overtaken by one other; three buyers with three numbers for two spots; two links and two
submissions, which may carry the same one, and two changes against each other and a reset; two members' forms, two
PINs, two phones; three prices (the last committed, the one that keeps it from taking effect, and a third); two saves of a week
of two days of four minutes, with closed days (with hours left in the fields), second segments, hours over midnight and around the clock, segments half filled in or
unreadable, and days without hours among the forms (`MCDayForms`); two fillings and two answers; two pages and three lists; two processes and three files of which one
is a seed; two removals; three logos of two types for one slug, two of whose forms overlap while the third comes after them; two managers and two forms,
with all boxes ticked or none.
`Site`: the plant's status moves (`PlantBecomes`) only where a host depends on it; pages are drawn with a row of every kind
(`Rows`), so they offer every form they can; two session tokens and two public ones are the page's own and its successor.
`Dashboard`: one page is followed, with two commits of a sale or a shift's end; only order matters between them.
Explicit bounds in guards: `MaxRequests` (overlapping requests), `MaxDeaths`, `MaxFaults`, `MaxRateFaults`, `MaxLists`, `MaxLogins`, `MaxMinted`,
`MaxCommits`, `CountBound` (a counter past its limit), `ReviewedForms` and `AskedStatuses` (`office` leaves out "closed", which
no guard tells from "suspended").

**What is excepted.** `PaidTicketRedeemable`, `RedeemedOnce` and `ConfirmedWasFilled` except the tickets on which MarkPaid's
UPDATE undid a later write (`overwritten`; the defect `tickets_terminal` shows), and the first also those
under whose code a later-begun purchase was already used up (`overtaken`). The `...UnlessRace` and `...OnlyByRace`
properties, and `HoursAsEntered` (`overlap`), name, by history variables, the overlap that the code does not exclude. The theorems hold with these
exceptions named, so they show that there is no other way.
`WrongPerCodeBounded` and `AttemptsLimited` are stated for histories without a death or a fault: a request that dies
before its INCR is a guess that nobody counted, and as many can be lost as die. `WrongPerCodeBounded` is the
maximum wherever the TTLs leave the time for it: TLC finds a history that reaches the bound, 6, in the instance of `secrets`, and in every
other instance tried (one or two verifications, 2 to 5 attempts, TTLs of 2 to 8) whose TTLs are long enough. Counters that overlap one code's life come from an older code, from the expiry of that
counter, and from an older code's acceptance that deletes it. `BlockEnds` excepts a counter whose EXPIRE was lost
(`stuck`): it never ends.

**Fairness.** `tickets_live`: Paystack redelivers until it is acknowledged (WF of `DeliverWebhook`), and a delivery
is not rolled back for ever although it may fail any number of times (SF of `FinishConfirm`); no fairness for
customers, staff or callbacks. `secrets`: time passes (WF of `PINTick` and `RateTick`); a PIN attempt that has begun takes its
next step or dies (WF): the server has no queue in front of a handler; a visit that has counted itself runs its EXPIRE, or that fails
(WF); every step of a request of `Server` is answered or fails, because each call has a context or a socket that
ends (WF per request); and main goes on once there is a signal (WF of `ShutdownStep`). No client, attempt or signal is
assumed to come. `office` states no liveness.

Deadlock is checked in `tickets`, `tickets_live` and `terminal`. In `secrets` the server exits, and in `office` and `logos` the finitely many
forms end: these really stop.

### What the violations mean

- MarkPaid (`tickets.go:388-403`): SELECT, then UPDATE by id. A void, or a fill after the other confirmation,
  in between is undone. `RedeemedOnce` shows this is the only way to release gas twice.
- Purchase (`tickets.go:171-216`): the retry loop runs inside a transaction that the first collision aborted.
- Webhook lookup (`cmd/server/tickets.go:350`): any error is acknowledged.
- `RequireStaffSession`: does not look at the shift or the member; a second session of a closed shift, or a
  deactivated member's, goes on; a cash sale then lands on a shift already counted.
- VerifyCode (`receipts.go:110-122`): GET, compare and DEL are three steps.
- Logos (`admin_write.go:189`): `SaveLogo` runs before the slug is looked up; a form that is refused has by then replaced, or
  removed, the logo of the plant that has the slug, whose `logo_path` goes on naming it.

## 4. Proofs

Every safety invariant and every action property of a passing run is proved, for every value of the constants, from named
assumptions on these only: finite attempts and verifications, positive limits, distinct null values, and about `Site`
the hosts a tab can be at (below). The invariant a run checks is seldom inductive; what is added is named.
`MCSecrets` and `MCOffice` compose components that keep out of each other's way: `SecretsCompose` and `OfficeCompose` say that such a
composition implements the specification of each component (`PINSpec`, `OnboardingSpec`, ...), so each component is proved about by
itself, and `SecretsTypes`, `SecretsKept`, `OfficeTypes` and `OfficeKept` put the results together for the `Spec` that the runs explore.

- `TicketsProofs`: `TypeCorrect`, `CodesUnique`, `GasIsFunded`, `GasReleasedOnce`, `PaidIsRedeemable`,
  `ConfirmedIsFilled`, `PumpStable`, `PaymentsNotStranded`, `DeliveriesSettle`. `OpenCodesUnique` is nearly inductive because the partial index guards the
  two steps that open a ticket. Funding needs that a request whose SELECT succeeded saw a successful charge, and
  that charges are final. The others need where stale reads can be, and that a row is the youngest of its
  code unless it is in one of the named exceptions.
- `LedgerProofs`: `TicketsImplementLedger`. `OpenCodesUnique` makes a code's holder well defined, so a step that
  opens one ticket under a free code is a claim and a step that closes tickets frees their codes. Two facts are
  needed beyond the invariant above: every row has a code, and Paystack hears of a ticket only after its row exists
  (so the INSERT itself receives no money online). `FundedBeforeGas` gives the guard of `Release`. The step of
  MarkPaid that brings a void or filled ticket back is a new claim, which the ledger allows: its promise is
  weaker than `RedeemedOnce`, and holds without exceptions.
- `TerminalProofs`: `TerminalTypes`, `OneOpenShift`, `SessionIsRight`, `PumpRaceOnly`, `CountedOnce`, from one
  invariant, `TerminalInv`. Its parts: a login that has a shift has one of its own member's, and rows keep member
  and pump (`StartedHasShift`, hence the session's copies agree); what a login remembers of the table are rows of
  it (`RemembersRows`), and none of those is open at its pump (`CheckedPumpStaysFree`), since a row of the past can
  close but not reopen: what is not remembered came later, the race.
  `TerminalKeepsBook` shows the refinement of `ShiftBook`: `InsertShift` begins an entry and `CloseShift` finishes one, every other step leaves the
  book alone. It needs, beyond `TerminalInv`, that a login on its way is of a member of the staff (`LoginIsOfStaff`), and that a request's shift is a row
  of the table (`InsideHasShift`). `ClosedOnce` says one consequence of the refinement, which `CountedOnce` proves directly.
- `SecretsProofs`, the PIN limiter: `PINTypes`, `PINGuessesBounded`, `PINCounterExpires`, `PINAttemptsLimited`. The bound follows
  from where wrong PINs are: counted, or with an attempt about to count (`GuessesCounted`); the counter passes its limit only by attempts
  about to lock or clear (`FailsBounded`); an attempt is one or the other, so their numbers add up to at most
  the attempts there are.
- `SecretsProofs`, the receipt codes: `CodeTypes` and `WrongPerCode`. The invariant `WrongIsAllowed` bounds the wrong codes at every moment by an
  `Allowance` that only grows in one code's life. It has three terms: what counters that did not lock may have
  counted, a share of `MaxVerifyAttempts - 1` for every counter that can still overlap this life (an older one
  that expires first, one for each verification that goes on to delete one, the present one); one round of all verifications for every lock that came and went, of which there are
  no more than fit in the code's TTL with time left after them; and the verifications that have yet to count or to lock. A step moves a
  wrong code from one term to another, and time makes room only as locks end. What is compared stays strictly below the allowance: an older
  counter has counted a failure before the code came, so the code starts with room for one more than it can use. That strictness is what makes
  the bound one that is reached.
- `SecretsProofs`, the rest: `RateTypes` and `AdmissionsBounded` (admitted visits are counted ones); `ServerTypes` and
  `PlantsStayApart` (`HeldByRunning`: a connection belongs to one request that is in its transaction;
  `ScopeFits`: its setting is that request's plant or empty; `ReachedOwn`).
- `OnboardingProofs`: `FoundingRanks`, `RefusedForItsName`, `RanksGoInTurn` from `RankInv`: the ranks are an initial segment
  (`RanksAreFirst`), and whoever has counted holds the lock and means to insert its successor (`ClaimIsNext`).
  For the refinement of `FirstComers`, `InTurn` adds what `RankInv` does not say: only applications have ranks, and one that counted and is to
  be given none counted when none was left, which holds until it inserts (`ClaimIsTheirs`). An insert is then `Register`, every other step a stutter.
  `ActiveAreSettled` from `Settled`: a subaccount never goes away, so what `MayBecome` saw still holds at the UPDATE.
  `NoticesTwiceOnlyByRace` from `Noticed`: once a plant was told, its status is past provisioning (`Standing`) unless put back, so a
  request that read provisioning read it before (`ReadBefore`) and is in the other's history (`Raced`).
- `AccountsProofs`: `LinksUsedOnce` (GETDEL: a link that somebody carries is not there any more), `ReplacedByKnowers` from `KnownOrSetSince`: the
  current password is the one verified or one set since; `PasswordsAreGuarded`; and the action property
  `SessionsStayEnded`.
- `SiteProofs`: `SiteTypes`, `RefusedOnlyForACause`, `AnswersHaveCauses`, for every set of tabs. First the tables, by path: `PostRoutes` says which gate, session and token
  each POST route asks for, `GetRoutes` the same of pages, and one lemma per page of `Pages` says that each of its forms has a route, that route's kind of token, and values the handler takes
  (`Fits`), whatever rows it is drawn with. Then the hosts: `PlatformHosts` and a plant's own host are told apart by
  `IsMarketingHost`, `IsTenantHost` and `ExtractSubdomain` for any host that resolves. Then `SiteInv`: a request under way brings the browser's cookies unless something
  happened to them since (`UnderWay`); the forms that a tab offers lead to where the tab is at home (`AtHome`) and carry the tokens of the browser's cookies, with the same exception (`TokensInStep`); no
  public token is newer than the last one made (`Minted`). `ShownAnswers` says what the handler of a page answers, and that it leaves a cause behind when that is not the page. A refusal without a cause would need a form that does not fit or a token out of step.
- `OfficeProofs`, each small component with its types and its property: `PINsSharedOnlyByRace` (`PINsCompared`), `PricesTakeEffect` (`BeganAfter`: a commit that was not under way with
  another began after it; `HasLatest`), `LastAdminsStay` (`KeepsSomebody`), `ReviewsKept` (`LinksMatch`),
  `ListsAreRecent` (`ListsKnown`: a cached list has been out of date no longer than it has been cached), `OneLogosUnlessRace` (`OneWriter`: outside of an overlap one form writes a slug's files),
  `OfferRanksAreDense` (`OffersAreFirst`, `OfferIsNext`, with the cardinality of the ranked) and the refinement of `FirstComers`, `OffersGoInTurn`
  (`NextFreeIsCounted`: COUNT + 1 is the least rank that nobody has), `WeeksAreAsSaved`
  (`RestIsOfOverlap`: what a save under way will not delete was inserted by a save that committed since it began, which is in its history; `OneSegment`; together
  `SavesInv`), `OpensAsScheduled` (arithmetic modulo the week) and
  `HoursAreAsEntered`, `ManagersLicensed` (`LicensedOrCrossed`), `PagesHoldTogether` (`PanelsInOrder`: what panels saw grows, and a
  failed one in a transaction has only failed ones after it), `SchemasAsRecorded` (`Migrated`: what a process has behind it is recorded, `BehindIt`; it applies only
  what it wants, `AppliesWanted`; and the primary key makes record and body one).

**Assumed of the hosts** (`HostsAssumption` of `Site`, checked by the run on its tabs): a tab is at a platform host, at a name directly below the domain, or
at a name outside of it that has two labels or more and does not begin with `www`. Names two levels below the domain have no DNS record and no certificate
(`docs/cloudflare-deployment.md:30`: "`a.b.gatstogo.com` would not be"). What the code would do with one is in section 7.

**Liveness.** `ChargedIsConfirmed`, `LockEnds`, `BlockEnds` and `ShutdownEnds` need fairness and ENABLED, which are beyond the prover: they are only
model-checked. What they rest on besides fairness is proved, for every instance:

- `PaymentsNotStranded`: if the webhook's lookup reaches its database, a charged ticket that is pending has a webhook that Paystack still
  delivers, and the delivery's next step can be taken: the code its ticket holds is free for it, and a pump is found. Needed is `EventIsDue`: an event is acknowledged only when its
  ticket is not left pending, and a SELECT that found a ticket settled stays right, since nothing takes a ticket back to pending. Where the lookup
  may fail this is false (`tickets_lookup`). `DeliveriesSettle`: the step that finishes a delivery leaves the ticket settled.
- `LocksRunOut`, `BlocksRunOut`, `ShutdownsRunOut`: while a lock, a block or a shutdown lasts, every step decreases a measure, or leaves what is waited for as it was:
  the time that is left, and the steps that attempts or requests have before them. A lock is set again only by the attempts it found under way, each once; a
  block is not prolonged by visits; a shutdown waits for requests that have a step to take. `NothingIsPutOff` says so of the composition.

## 5. Plan

All of the plan is carried out: the core (`Tickets`, `Terminal`, `PinLimiter`, `CodeStore`), the refinements, the components around the sale, the
web front and the read pages, and a theorem for every safety property. What would add to it:

1. A composition of `Terminal` with the queue of a pump, for tickets no shift's bulk close can reach (section 7).
2. The messages of `notifications.go` with the process's exit: the goroutines that send them are not waited for.

## 6. Not modelled

- Presentation: static marketing, legal and help texts, the layout of the templates. Most of the repository's lines are Go code
  generated from templates; of these the forms are in `Pages`, the rest writes strings.
- Outgoing mail and SMS (`internal/sms`, `internal/email`, `notifications.go`): calls whose failures are logged. Where the order of a message matters
  it is a step of its caller.
- The SQL of the row-level policies (`Server` models what they promise), password hashing (bcrypt: a comparison that is right or wrong),
  the health check, the export of buyers, the support pages, formatting, configuration.
- Money arithmetic: amounts only decide whether Paystack's charge equals the ticket's, which `Charge` chooses.
- Functions without a caller: `tickets.Fill`, `shifts.IncrementTokens*`, `MostRecentOpenShiftID`, `RecordCashMovement`, `Session.SetShift`,
  `loadPlatformStaff`, `loadSystemTables`.
- The branch of `ownerActorCan` for managers, and the dashboard's refresh of a manager's permissions (`main.go:633-659`): no code gives a manager
  a password, so none has an owner's session.

## 7. What the models show besides

Behaviours that the models reach and no text of the repository excludes, or that a property names as its exception:

- A checkout that Paystack refuses leaves a pending row that keeps its code (`cmd/server/tickets.go:239`); nothing sets `expired`.
- A ticket voided after the charge and before the confirmation stays void; the delivery is acknowledged and nothing refunds (`cmd/server/tickets.go:413`).
- A dispensing ticket without a pump is not in any bulk close (`internal/tickets/tickets.go:332`), but can be closed by id.
- The failure counter of a receipt code outlives the code it counts for (`receipts.go:126-129`); a PIN, receipt or address counter whose EXPIRE is lost
  counts for ever.
- Sessions outlive a password reset and the removal of an administrator.
- A reset link is spent when the UPDATE that follows fails (`auth.go:339`).
- Two settlement submits create two subaccounts at Paystack, of which the last is stored (`admin_write.go:310`). A stale form can reopen a closed plant.
- A price that is committed after one that began later is never current (`prices.go:37`).
- The hours form drops a segment of which one time is missing or is none (`hours.go:152-154`; `ParseWeekForm` passes it on, 173-178), saves the rest
  and answers as after a whole save. A day that loses all its segments has no rows and shows as open the whole day, "Hours not set" (`hours.go:124-126`). The owner's
  message "Could not save those opening hours. Check the time format and try again." (`main.go:744`) is never shown for a time's format.
- Two saves of the week that overlap may leave a mixture, by `ON CONFLICT DO UPDATE` (`hours.go:146`). After midnight, hours that began the
  day before are looked for among the new day's rows (`hours.go:80`).
- A failed fetch of the bank list shows the built-in one although an older list is cached (`paystack.go:300`).
- The first pages of a new plant each insert Pump 1; the one that waited fails, and with it the rest of its transaction: a dashboard answers 500, the
  terminal shows no ratings (`pumps.go:29`).
- The terminal page loads its parts as a "best-effort" (`terminal.go:165`), but inside one transaction the first failure empties all later ones. The
  administrators' console reads without a transaction and shows zeros for what failed. The page of a plant answers 404 for any error of its first query.
- Any error of the lookup of a host's plant, a lost database or a cancelled request included, is the branded 404 (`tenant.go:80-83`, `marketing.go:69-72`).
- `Require...Session` and the terminal's page drop the cookie on any error of Load, Redis being away included.
- A terminal page that is open longer than its public cookie lives shows a refused token as "Incorrect PIN."
- `hasBaseDomainSuffix` "reports whether host is a direct subdomain" but accepts deeper names (`internal/middleware/tenant.go:176-186`), and
  `ExtractSubdomain` takes the first label: `sunrise.b.gatstogo.com` would be answered as `sunrise`, a host of one label or one that begins with `www.` as
  the platform. `HostsAssumption` leaves such hosts out.
- `/pricing`, `/get-started` and its two forms answer on any host; no page has a form for `POST /admin/plants`.
- `pumps.Upsert` turns a status it does not know into "working".
