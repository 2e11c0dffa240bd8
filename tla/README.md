# Amplify, Conference and Registrant in TLA+

Specifications, model-checking runs and machine-checked proofs for the parts of this repository that keep state: the
outbox of Amplify with the deliveries and points it drives, and the backends of the conference app and of its
registration desks. Paths below are relative to `apps/`.

## 1. Inventory

**Amplify** (Ballerina; `amplify-api`, `amplify-jobs`, `amplify-domain`, `amplify-common`, `amplify-database`) lets
employees share campaigns on LinkedIn and earn points. **Conference** (Go, `conference/backend`) is the backend of a
conference app: profiles, connections, coins, a shop paid in coins, an AI assistant. **Registrant** (Go,
`registrant/backend`) scans attendees at a desk and copies what it has to a sheet. The API and the jobs of Amplify share
PostgreSQL only: domain rows and outbox rows are written in one transaction and the jobs react to the latter. The
conference's replicas share a PostgreSQL schema they do not own, and each keeps caches, a token source and an event queue.

| Component | State | Operations | Hard behaviour | What makes it correct |
|---|---|---|---|---|
| outbox and runs (`amplify-jobs/run.bal`, `amplify-domain/modules/store/outbox.bal`) | outbox rows with attempts and a lease, a run per replica, an advisory lock | enqueue, claim, settle, release stale, hand back, admin re-queue | leases that run out, dying runs, a lost lock session, late settles | a row stays with the run that handles it; every row is settled; attempts stay in budget |
| announcements (`handlers.bal`, `modules/announcements`) | the announcement row, the chat's cards | insert, marker, call, save, admin retry | lost answers and failed writes between any two steps; saves without a version | one card per authorisation; SENT is true and final |
| LinkedIn sharing and connections (`modules/sharing`, `modules/connection`) | share with rounds, marker, version; engagements; connection and tokens | request, publish, record, duplicate, fail; connect, remove, revoke | posting is not idempotent; redelivery; a 401 to an old token | one post per round; settled rounds stay; each engagement counts once |
| claims, points ledger, recognition, gate (`external_sharing`, `scoring`, `recognition`, `store/tx_gate.bal`) | claims with a version, ledger rows, standings, the gate's permit | submit, approve, reject, amplify, reverse, adjust, rebuild | reads before the transaction; lock order across replicas | a decision and its points commit together; the standings are the ledger's |
| idempotency keys (`amplify-api/idempotency.bal`, `store/settings.bal`) | a row per key | claim, complete, release, expire | rows without an owner, lost answers | an effect happens once |
| conference shop (`repository/shop.go`) | stock, orders, row locks, pool | list, order, confirm, expire | lock order, caps, replays, payment against expiry | stock adds up; an order is paid once |
| coins (`service/coin_service.go`) | allocations, scans | scan, transfer, views, preference | two scans at once, the transfer job between two writes | a code pays once; all views agree |
| attendees, connections (`repository/attendee_profile.go`, `repository/connection.go`) | profiles, pairs, directory cursor | import, claim, page, push; request, accept, delete, list | rows claimed between pages; two identities of one account; both parties at once | a walk misses nobody; an address is shown with consent |
| features (`features/`, `middleware/feature.go`) | a cached reading of `app_config` | load, refresh, gate, allowlist, list | overlapping refreshes, edits, failing queries | decisions rest on recent readings and do not go back |
| assistant (`clients/aiagent`, `handlers/`) | token source, audit | ask, profile, admin routes | a token endpoint that hangs under a mutex, lost answers | a call ends in time unless its own lookups are slow; the audit is true |
| schema capabilities (`repository/schema.go`) | what was probed | probe, degrade | migrations between probe and query | a query names only what exists |
| request chain, analytics, shutdown (`middleware/`, `cmd/server/main.go`) | writers, event queue | serve, record, flush, stop | panics behind a buffer, a full queue, stopping | an event tells what was answered |
| authentication (`middleware/auth.go` of both) | signing keys | boot, refresh, verify | rotation while requests run | callers are judged by the keys in memory |
| registrant (`handlers/agenda.go`, `sheets/sheet.go`) | registrations, a sheet | register, count, sync | a cipher that never repeats, three calls per sync | a rescan is refused; a lone sync replaces the sheet |

`PROJECT.json` lists every component, modelled or not, and every hazard of the modelled parts at its line, with the properties about it; section 6
names the hazards of the parts left out.

## 2. Plan

Built in this order: `OutboxRuns`; `Announcing` over it with `CardDelivery`; `Deliveries` as the outbox's interface and
`Publishing` over that; `Shop` with `ShopLedger`; `Coins`, `Attendees`, `Connections`, `Registrants`; `FeatureFlags`,
`Assistant`, `SchemaCaps`, `Serving`, `SigningKeys`; `Points`, `IdempotencyKeys`; then the proofs. What could follow, by
how much it would say:

1. **Settings cache and scheduler sync**: generations of the cache against a write that lands during a load, and the pushes
   of two replicas to the scheduler, whose order nothing enforces.
2. **Database breaker**: one trial at a time, late outcomes of calls that began before it opened.
3. **OAuth states and the re-seal of tokens**, beside the connection in `Publishing`; the leaver sweep against the handlers
   that read the directory before it; the house cache.

## 3. Modules and code

**`OutboxRuns`**. Each replica moves through the phases of `runOnce`/`execute`: `Begin` (the in-process flag and
`PgRunLock`), `ReleaseStale`, `Claim` (`claimOutbox`, one statement, `SKIP LOCKED`), `BeginRow`/`HandlerReturns`
(`processRow`), `Settle` (`completeOutbox`, `retryOutbox`, `failOutbox`, each guarded by `locked_by`), `HandBack` when the
budget is used up, `Finish`. `Die`, `ClaimAnswerLost` and `LockDrops` are the faults. Time is a `Tick` that lowers leases
and waits and raises the age of runs and rows. `DeadRun` stands for the id of every run that is over, since ids are never
reused.

**`Announcing`** extends it with `handleCampaignRegistered`, one action per database or Novera call, an error possible at
each and a death between any two. `AskRetry` and `AdminRetry` are the read and the transaction of the admin's retry.
**`CardDelivery`** is what it promises: each card spends an authorisation.

**`Deliveries`** is what the outbox promises to any handler: a written event is delivered, perhaps again and to several
workers, until an answer settles it; a settled event stays settled; and, when `Exclusive`, a delivery keeps the others out.

**`Publishing`** conjoins the actions of `Deliveries` with the handler of `RepostRequested`, one action per read, write or
call. Every write is guarded by the version that was read, may fail, and may commit with its answer lost. Employees share no
state but the unique post id, so one is modelled; a post id that belongs to somebody else is a choice in `RecordPublish`.

**`Shop`** takes a checkout apart into key lookup, opening of the transaction, the lock of each item in id order, check of
stock and caps, and commit; a confirmation into the lock of the order's row, the payment's verification and the update under
the unique hash; a sweep into the orders it locks, the stock it restores and its commit. Row locks and pool connections are
told by who is where. A wait that closes a cycle makes the database abort one of the transactions. **`ShopLedger`** is
stock and orders without transactions.

**`Coins`** is a scan step by step (checks, the two lookups outside, insert, update to FAILED) and the views. The transfer
job is not in the repository: `CronTakes` says which rows it takes up.

**`Attendees`** holds the directory in its page order, the upsert that binds a row to an account (`claim`), the caller's
walk through the pages, which leaves out the row bound to the sub the caller came with, and the broadcast push. **`Connections`** extends it: a call works out the identities its caller
answers to, then acts on the row of the pair, then describes the other party after the commit. A token's sub is a uuid or an
email, so a person has several forms. **`Registrants`** is the desk (look up, insert), the day's count and a sync
(clear, append, space), each call of which may fail or lose its answer.

**`FeatureFlags`** numbers the edits of `app_config`; a refresh is one query under the mutex, a request loads once for the
flag and once more for the allowlist when it is refused. **`Assistant`** is a call with its deadlines, the token fetch under
the mutex with the memory of a failure, the gateway refusing with 401 or 403, con-ai applying a change or not with its answer
lost or not, the lookups of Matches and O2Bar, which no budget covers, and the audit row.
**`SchemaCaps`** is one probe per query, none under the lock, while a migration adds objects; `track_topics`, which the topic
query joins and nothing probes, is taken to come with `sessions.topic_id`.
**`Serving`** is a request's way down and up the middlewares with the writer it answers on, the event, the SDK's queue and
the shutdown of `main.go`. **`SigningKeys`** is startup and the ticker with `fetchJWKS`, and the tokens a request offers one
after another.

**`Points`**: a call reads outside the transaction, enters the gate of its process, then takes the locks its statements take
in their order (claim row, unique reference, recognition lock), and commits ledger, claim and standings together.
**`IdempotencyKeys`** is insert, read, handler, complete or release, and expiry, with statements that are applied and
unanswered.

The `MC*` modules give constants their values and symmetries. `MCPublishing` chooses at the start which of two instances a
behaviour is of (`focus`). `MCSettles`, `MCAttendees` and `MCPlatform` put together
components that share no state: a behaviour is about one of them, chosen at the start by `focus`, because an interleaving of
two would show nothing either does not show alone. Renamable calls begin in the order of their numbers there.

`*Proofs` hold the theorems, `SumTheorems` the facts about sums they share.

## 4. Runs

Several properties are conjunctions of named parts, so that one run asks one question of a component; the parts stand next to
it in the component's module.

| Run | Instance | Question |
|---|---|---|
| `outbox_lease` | two replicas, two rows, the lock may drop | `HandlerHoldsRow`: a row stays with its run. `AttemptsWithinBudget`: only faults push attempts beyond the budget |
| `outbox_drains` | one replica, two rows, one fault | `QueueDrains`: every queued row is settled once its handler stops deferring and admins stop re-queueing |
| `card_lease` | two replicas, the lock may drop | `AtMostOneCard`, `NothingLostSilently`, `SentIsFinal` |
| `card_lock` | rows outlast the lease, the lock holds, an admin retries | the lock alone is enough; `DeliversCards` and `ImplementsDeliveries` are the refinements |
| `card_settles` | one replica, two faults | `RegisteredIsSettled`, once the kill switch stays on |
| `share_posts` | two workers; either one campaign, two rounds, one token, not kept apart by the outbox, or two campaigns of one post, one round each, two tokens, kept apart | `OnePostPerRound`, counted round by round, `DoneIsSettled`, `SettledRoundStays`; `PublishedIsRecorded`, `RevokesTheTokenUsed` |
| `shop_orders` | one user, one item of stock 4 capped at 3, two checkouts of three carts, two confirmations, a sweep, four connections | `StockConserved`, `CapRespected`, `ReplaySameOrder`, `PaidInFullOnce`, `ImplementsLedger` |
| `settles` | carts that cross over two items; two requests and a queue of one; two keys, two documents | `CallsAnswered`, `PendingSettles`: shop calls and orders end, deadlocks included. `ShutdownDrains` (`StopCompletes`, `EventsLeave`). `RotationArrives`. On the way `AnswersAreTrue` (`RecordedAsAnswered`, `EventsAccounted`, `NotModifiedIsTrue`) and `JudgedByCurrentKeys` (`SignedByACurrentKey`, `GoodTokenLetIn`) |
| `attendees` | three people, pages of one, two calls on two rows, two scans of two codes, two visits and two syncs | `DirectorySafety` (`WalkIsComplete`, `PushesReachAttendees`, `RowsKept`), `ConnectionSafety` (`DisclosedWithConsent`, `RefusalIsTrue`, `BothSidesSeeTheRow`), `CoinSafety` (`AcceptedOnce`, `TransferredOnce`, `CoinViewsAgree`), `DeskSafety` (`RescanIsRefused`, `CountsWhatWasScanned`, `LoneSyncReplaces`) |
| `platform` | two requests with a TTL of 1; two AI calls; two reads and a migration; three calls of two replicas around one post; three requests under one key | `FlagSafety` (`ShownAsRead`, `DecisionsAreRecent`, `NeverGoesBack`, `OneReadingPerTTL`), `CallerSafety` (`LateByLookupsOnly`, `CallerKeepsSession`, `OwnProfileOnly`, `AuditNamesRealChanges`), `SchemaSafety` (`NamesWhatExists`, `AbsenceWasAnswered`), `LedgerSafety` (`DecisionsArePaid`, `PaidWithinTier`, `NobodyStuck`, a ledger that only grows, `DecisionStands`), `StandingsFollowLedger`, `KeySafety` (`OneAtATime`, `EffectOnce`, `StoredIsTrue`) |
| `share_rejected` | one campaign | `RejectedDidNotPost`, violated: see below |
| `directory_own_row` | as `attendees` | `OwnRowNotShown`, violated: see below |

`TypeOK`/`TypesOK` is the type invariant of what a run composes.

**Findings.** `share_rejected`: a 201 with an unusable `x-restli-id` is reported as an error that is not retried; the handler
clears the marker and fails the share as rejected although the post is live (`handlers.bal:355`: "so it did not post"), so the
next request posts again.
`directory_own_row`: the directory leaves out the row bound to the sub of the caller's token (`handlers/attendee.go:209`), so a
caller whose token names it by email meets the row it claimed under its uuid, which `attendee_profile.go:322-323` calls
"the caller's own row" and says is excluded. `WalkIsComplete` therefore speaks of the sub.

**Other deviations met while modelling**, which the models contain and no run of its own shows:

- A row whose every run dies is never FAILED, since only a settle fails a row (`store/outbox.bal:164-169` says it reaches
  FAILED); `AttemptsWithinBudget` counts those faults apart.
- An error on the last attempt fails the row while its announcement stays QUEUED, which the admin retry refuses
  (`store/outbox.bal:150`).
- `validateRunConfig` accepts tunings under which a row outlives its lease (`ready.bal:98`); with a lost lock session that
  gives two cards (`handlers.bal:122`: at most one). This is why `Defended` is an assumption of the theorems below.
- A panic behind the ETag buffer is answered and recorded as 200 (`middleware/analytics.go:84` says 500).
- A transfer job that took PENDING rows would pay a code twice; PARTNER codes, which `models/coin.go:31` names, are refused
  by `buildEventData`.
- Two scans of one attendee that overlap at two desks are both confirmed, and overlapping syncs leave two tables.
- A slow probe answered before a migration is stored after it, and stays until restart.
- A replayed checkout may be refused on stock or caps that its own first order used up; when every pool connection is held by
  a checkout that lost the race for its key, the second lookups wait for the requests' deadlines.
- A change con-ai applied whose answer is lost is not in the audit; `AuditNamesRealChanges` is the other direction.
- The write deadline is derived from the AI budget alone (`config.go:754-756`); Matches and O2Bar look attendees up after it, so
  a slow database still cuts their connection. `LateByLookupsOnly` says that nothing else does.
- A repeat of a point adjustment is only recognised by its key: the correction gets a fresh reference each time
  (`amplify-api/idempotency.bal:84-86`).
- A reversal that lands between the reads and the commit of a top-up leaves its author the difference of the rules only
  (`external_sharing/service.bal:220-222`); `PaidWithinTier` bounds what is left.

**Bounds.** Two replicas, workers, calls or scans: every hazard here is between one actor and one that overlaps or takes over.
In the outbox, two rows let a batch be half done; `MaxAttempts = 2` has a first and a last attempt, `MaxFaults = 2` lets
the run that takes over die as well; the timings are the smallest for which the lease is longer than budget plus call (3 > 1 +
1), with `RowSeconds` 1 (the lease covers a row) or 4 (it does not). Two rounds let a late handler of the first meet the
second; two tokens are a connection and a reconnection. To keep `share_posts` small, the connection of its first instance is not
removed and expires only between deliveries; in the second a share is not called for again, the connection does not expire and
is not removed again after the reconnection, and shares are asked for one after the other. The theorems have none of these
restrictions. In the shop, a stock of four and a cap of three let the cap refuse
before the stock does and the stock be restored between two refusals; two items are needed for a deadlock and one is enough
otherwise. Pages of one row put a cursor between any two rows. A third person lets somebody be imported behind the cursor.
A third request under a key meets the row a second one inherited. The third call of the points reverses or rebuilds while two
decide. `MaxVersion`, `MaxActs`, `MaxRows`, `MaxBegun`, `MaxEdits`, `MaxMigrations`, `MaxDocuments`, `MaxTime` and `MaxClock`
cap counters. The proofs hold for every value of all of them.

Where a cfg says `CHECK_DEADLOCK FALSE` the instance really ends: every call has been made, or the process has stopped.

**Fairness.** `OutboxFairness`, `Announcing!Fairness`: weak fairness of a run's steps and the clock, because the scheduler
triggers runs forever and a run that is not killed goes on; strong fairness of a start within the budget, `Claim` and `BeginRow`,
because the budget is minutes and a claim is one statement;
the clock opens a scheduled campaign. `Shop!Fairness`: weak fairness of the steps of calls and sweeps, of the
database's breaking of deadlocks and of the ageing of orders; strong fairness of the acquisition of a row lock or a connection,
since both are granted in turn. `ServingFairness`: weak fairness of the steps of a request, of the SDK's flush and of the shutdown.
`KeysFairness`:
weak fairness of boot, restart, ticker and of ending a fetch and storing its keys; strong fairness of a fetch that succeeds, since
the provider is not down for ever. Nowhere is there fairness on deaths, failures, refusals, deferrals or what users and operators do.

## 5. Proofs

Every invariant and every action property of the passing runs, and each refinement, is a theorem: for any number of rows,
replicas, workers, users, calls, people, keys and documents, and for any bound. What is assumed are the modules' named
ASSUMEs (types of constants, and for the outbox what `validateRunConfig` checks) and two conditions, each the hypothesis of
the theorems that name it:

- `Defended`, a lease that covers a row or a lock that outlives its run, in `OutboxHandlersHold` and the theorems about cards
  except their types. Without it the code does send two cards (section 4).
- `CronTakes \subseteq {"FAILED"}` in `CoinsAreSafe`: what `coin_service.go:175-179` says of a job outside the repository.

**`OutboxRunsProofs`**. `OutboxInv` (for `OutboxTyped`, `OutboxHandlersHold`) adds to the types that only a run inside its
loop has a batch, that a row's lock, status and attempts agree with the batch of its holder, and one of two arguments:
`LeaseKeepsRows` (the lease left and the age of the run add up to `LeaseSeconds`, so the rows of a run that may still start
one are not stale) or `LockKeepsRows` (every live run holds the lock, so there is no other). `OutboxDelivers` needs, besides,
that a run outside a row has no current row. `OutboxStaysInBudget` (`BudgetInv`) charges each attempt above `MaxAttempts`
to a fault: a live run that no longer holds the advisory lock lost it by a fault (`LostShape`); such a run may cost a row one
more attempt (`Owing`) until its own lease time is over, because a row's lease outlasts those of the runs that began before its
claim (`LeasesOutlast`); and attempts plus what is owed stay within what is allowed. It needs no defence, because
overlapping runs are made by faults too.

**`AnnouncingProofs`**: `OneCard`, `NothingLost`, `SentStays`, `ImplementsCards`. A card count alone is not inductive:
`LicencesAreFree` says that whatever the handler would take for permission to send leaves an authorisation unspent, and
`HandlerKnows` carries that through the handler's steps. Every step is shown to be an outbox step first, so the outbox
invariant is reused.

**`PublishingProofs`**: `PublishingInv` says that a worker's copy is the share or an older one, that a copy with the
marker *is* the share (so no other write passes the version guard while it lives), that a round whose call is still to come has only
posts that were reported as errors (`Counted`, per round, so a round without a post leaves nothing for a later one), and that a connection's token is determined by its version. A lemma per action shape
(`HandlerEffect`) lets each part be proved once.

**`ShopProofs`**. Two classifications of steps carry everything. For payments and replays (`PaidOnce`, `OneOrder`) every
step answers with an order that is there, places one, settles one, mails, or leaves users, keys, totals and hashes alone
(`StepKinds`); `ShopInv` says that hashes are unique and paid for, keys are unique, and mail goes out once. For stock, every
step keeps the book or places, settles, gives up or fulfils orders (`BookSteps`); `StockIsConserved` and `LedgerImplemented`
follow from it, with the sums of `SumTheorems`. `CapsAreRespected` needs what holds between a checkout's
checks and its commit, `CapInv`: the checkout holds the row of each item in its cart, a row has one holder, and the cart
still fits under the cap.

**`ServingProofs`**. `CallersJudged`: `KeysInv` ties the keys in memory to the document they were read from, and each caller's
refusals to keys that memory held while its request ran. `AnswersMatchEvents`: `ServingInv` describes a request by its place in the
chain (`RequestShape`: which writer it answers on, what is buffered, whether its event is recorded) and says that each event
stands in one of queue, batch, sent, dropped and lost. `SettlesTyped` puts shop, serving and keys together.

**`PlatformProofs`**. `PointsAreSafe`: `PointsInv` ties each claim to the ledger rows of its references, each row to the
lock its writer holds, and each call to what it has read; that nobody is stuck follows from the order in which calls take their
locks. `StandingsAreTheLedgers` adds that a call between its ledger row and its standings holds the recognition lock, and that the
sum over a ledger grown by a row is the sum plus its points. `OneEffectPerKey`: at most one request runs under a row
(`RunnerHasRow`, `OneAtATime`) and every effect is stored or counted as forgotten (`Accounted`). `FlagsFollowTheTable`: what a
request, the cache and a query hold are readings that were in force, and each is at most as old as its deadline.
`SchemaIsSafe`: what was found exists, as nothing is dropped. `CallersAreSafe`: the token source's mutex has one holder, who
began no later than anybody who waits for it, so all of them are served by its answer (`TokenShape`); a call past its budget
is in its lookups (`CallShape`); a change is applied only for a call
that was let through (`AppliedShape`).

**`ConferenceProofs`**. `DirectoryIsSafe`: rows keep their positions, and up to its cursor the walk has shown everybody it had to, nobody twice, and no
row bound to the caller's sub
(`WalkInv`), which rests on what a page of a finite set of positions is (`LimitIs`, `PageIs`). `ConnectionsAreSafe`: every form of
an identity names one person, so a call that has worked out who it is can only touch rows of that person, and a row's state
is covered by consents given before it (`TableInv`). `CoinsAreSafe`: an accepted scan owns the one row of its code and
attendee, and a row was paid once if it is TRANSFERRED and never otherwise. `DesksAreSafe`: confirmed attendees have a row, rows
belong to visits, and a sync nobody overlapped has the sheet to itself from its first call to its last.

**`SumTheorems`**. The library defines a sum over a set by recursion. That its value does not depend on the order, and how it
changes when one value or one element does, is proved from the well-foundedness of strict inclusion among finite sets: a smallest
subset a claim fails for leads to a contradiction. Stock, coins, points and ranks use these lemmas.

**Only model-checked.** The six liveness properties: `QueueDrains`, `RegisteredIsSettled`, `CallsAnswered`, `PendingSettles`,
`ShutdownDrains` and `RotationArrives`. They rest on fairness, hence on ENABLED, which the prover does not reason about. The
violated properties of `share_rejected` and `directory_own_row` are counterexamples and have nothing to prove.

## 6. Not modelled

Of the modelled parts: purges of settled rows, backlog counts and metrics; wording, payloads and audit rows other than the
assistant's; the re-seal of tokens, OAuth states and reminders; `failForLostConnection`, which nothing calls; monthly and
per-campaign sums, which follow the same statements as the totals; encryption of columns and the text search over them;
header selection and masking of events; the parsing of tokens beyond whether they decode with the claims needed, key, audience and the rest; the check of Novera's
button URL, which defers a row as a missing configuration does.

Whole components, each with its reason in `PROJECT.json`: campaigns and the API surface (single transactions guarded by a version;
routing), identity and leavers (a daily sweep without memory), reporting (reads), the database breaker (any statement may fail in the
models, which is what an open breaker does), retries and metrics, settings cache, scheduler sync and house cache (section 2), adapters,
migrations, maintenance jobs and stubs; and of the conference, events, sessions and speakers (single statements) and configuration.

Hazards without a property, in the parts left out: a re-seal that meets a reconnection (`connection/repository.bal:219`), an OAuth
state used twice (`oauth_state.bal:153`), a late outcome in the breaker (`resilience/db_breaker.bal:79`), a load that began
before a write and ends after it (`amplify-api/settings.bal:129`), pushes of two replicas to the scheduler
(`scheduler_sync.bal:148`), a refresh racing a lookup (`house_service.bal:68`) and an erasure after the directory was read
(`amplify-jobs/leavers.bal:180`).
