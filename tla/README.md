# iPredict: a verification development in TLA+

iPredict is a prediction market on Stellar. Users bet XLM on yes/no questions;
four Soroban contracts hold the money, settle the markets and keep a
leaderboard, a referral registry and a reward token; off-chain services post
outcomes, index the contracts' events and serve a web frontend. This directory
models both sides, checks them with TLC on small instances, and proves with
TLAPS, for every instance, the central facts about the contracts, about what
the indexer writes, and about the oracle's daemons.

Run from this directory: `tlc -config MCPool.cfg MCPredictionMarket.tla`,
`tlapm Leaderboard_proofs.tla`. PROJECT.json names the module of every
configuration, the source lines behind every definition, and for every property
a mutated definition under which it fails.

## 1. Inventory

### The contracts (`contracts/`)

| Part | State | Operations | Who calls it |
|---|---|---|---|
| `ipredict_token` (IPRED) | admin, authorized minters, balances, total supply | `initialize`, `set_minter`, `remove_minter`, `mint`, `transfer`, `burn` | the leaderboard mints; holders |
| `leaderboard` | admin, trusted callers, token address; per user points and won/lost counts; the top list: 50 slots, a reverse index, a cached weakest entry | `initialize`, `set_contracts`, `set_token`, `reward`, `add_pts`, `reward_bonus`, `add_bonus_pts`; views `get_top_players`, `get_rank` | market, registry |
| `referral_registry` | admin and addresses; one profile per user, naming at most one referrer; referral counts and earnings | `initialize`, `set_xlm_sac`, `register_referral`, `credit` | users, market |
| `prediction_market` | configuration and roles; markets, bet entries, bettor index; the fee pot; the cached "has a referrer" answers; the creation rate window | `initialize`, `set_config`, resolver and fee recipient roles, `create_market`, `place_bet`, `resolve_market`, `cancel_market`, `cancel_refund`, `claim`, `withdraw_fees` | admin, resolvers, bettors |
| its optimistic oracle | bond minimums and windows; one submission per market; council votes | `set_bond_minimums`, `set_challenge_window`, `set_council_window`, `submit_outcome`, `challenge`, `finalize_outcome`, `vote_on_challenge`, `resolve_challenge`, `finalize_challenge_timeout`, `cancel_unsubmitted_market` | anyone with a bond, council, anyone |
| XLM asset contract | XLM balances | `transfer` | outside the repository |

A bet calls the registry (`credit`), which pays the referrer in XLM and scores
points; a claim pays XLM, scores, and the leaderboard mints; a registration
scores and mints. A failing call anywhere reverts the whole transaction. All
XLM, stakes and bonds and fees of every market, sits in the one balance of the
market contract: nothing but the bookkeeping keeps them apart.

### Off-chain

| Part | State | What it does |
|---|---|---|
| `indexer/` | a checkpoint, processed events, dead letters, markets, bets, users in Postgres | polls contract events page by page, writes them once, replays failures, backfills history; a lock keeps one writer |
| `db/`, `infra/scripts/init-db.sh` | `schema_migrations` | three programs apply and revert migrations |
| `oracle/aggregator` | the signing key, hashes of what was sent, held markets, what the bots spent | reads council votes, sends resolutions, challenges and finalizes, rotates keys |
| `oracle/adapters` | response caches, a sliding-window limiter, circuit breakers | fetches prices and results and weighs them into a decision |
| `oracle/submitter`, `oracle/monitor`, `oracle/metrics` | watermarks, cooldowns, snapshots | sends with retries; tells operators |
| `backend/` | Redis cache, rate windows, connection pool, nonces | HTTP API over the indexed database, intake of outcomes |
| `frontend/` | caches of tabs over a shared proxy, one connected wallet | builds, sends and polls transactions; pages |
| `shared/` | environment | secrets, the retry helper |
| `status-page/`, the rest of `infra/` | none that counts | static pages, container files |

### What is hard

* One balance, many claims on it, called in any order by people who do not
  know each other: bets, claims, refunds, sweeps, withdrawals, bonds.
* The admin may resolve or cancel at any point of a dispute.
* Deadlines: betting ends where submission begins, challenge ends where
  finalization begins, ruling and timeout begin together.
* Values that are kept twice: the points in a slot, the reverse index, the
  cached minimum, market totals, the bettor index, the cached referrer answer,
  the referral counts, the vote count; off-chain the tables, caches and pages.
* Integer division: fees, net amounts, payouts, bond shares.
* Several contracts in one transaction, and a deployment in several.
* Off-chain: pages of events, checkpoints that move ahead of what was written,
  crashes between two statements, replay, two writers, answers that are lost,
  retries of what may have happened, values read before an await and used after.

PROJECT.json lists each as a hazard at its line.

## 2. Modules

| Module | Models | Code |
|---|---|---|
| `IPredictToken` | the token | `ipredict_token/src/lib.rs` |
| `Leaderboard` | scoring and the top list, with the token it mints; paging by selection sort, and the rank | `leaderboard/src/lib.rs` |
| `ReferralRegistry` | profiles, counters, `credit`; XLM transfers (external) | `referral_registry/src/lib.rs`, the asset contract as market and registry use it |
| `PredictionMarket` | the market without its oracle | `prediction_market/src/lib.rs` |
| `OptimisticOracle` | the oracle, and with it the whole system | the same file |
| `DisputeLifecycle` | what the oracle promises, one market at a time | abstract |
| `Deployment` | initialization transactions with users in between | `scripts/deploy-testnet.sh`, `setup` of the contract tests |
| `LivePolling` | contending indexers, pages, checkpoint, dead letters and their replay | `indexer/` poll loop, lock, dead letters |
| `IndexerProcess` | the Indexer class: event by event, cursor, shutdown | `indexer/src/index.ts` and token handlers |
| `IndexerJobs` | backfill in windows, reindex and its resume point, one poll over several endpoints | `backfill.ts`, `poll-loop.ts` |
| `IndexedMarkets` | what the handlers make of one market, with late dead letters; rebuild of the leaderboard | `indexer/src/handlers` (of `bet_placed.ts` its HEAD side), `leaderboard-rebuild.ts` |
| `Migrations` | three programs over one schema, a lock that one of them takes | `db/migrate.ts`, `migrate-down.ts`, `init-db.sh` |
| `ProviderCalls` | coalesced loads, the limiter that counts them, HTTP retries that it does not count; the circuit breaker and its restarts (a library: no adapter calls it yet) | `oracle/src/adapters` |
| `SourceResolution` | asking sources, weighing, keeping the evidence; staleness alerts | `resolve.ts`, `normalize.ts`, `freshness.ts` |
| `AdapterRules` | which adapters can map which market, the sweep, what a quote says | `index.ts`, `mappability.ts`, `unmappableSweep.ts` |
| `OracleRunner` | several aggregators and one expired market; its row of `oracle_submissions`, which the API, the indexer and the clean-up of nonces write too | `market-finalizer.ts`, `runner-dependencies.ts`, `db/oracle.ts`, `oracle_challenge.ts`, `oracle_finalized.ts` |
| `RunnerLoop` | pages ordered by the text of an id and continued by its number, over a list that changes; alerts, shutdown | `runner-loop` and its dependencies |
| `OracleKeys` | rotation of the signing key; API keys | `key-rotation.ts`, `keys` |
| `CouncilBots` | the challenge bot, its kill switch and spending limit; one call per market | `challenge-bot.ts`, `finalize-bot` |
| `CouncilRecords` | the audit export, paged as the runner's list is; votes, thresholds and evidence | `council-audit.ts` and the validation tools |
| `OracleSubmitter` | `withRetry`, a bonded submission, the resolver's transactions | `shared/src/retry.ts`, `submit-with-retry.ts` |
| `OracleMonitor` | cycles, watermarks, alerts with cooldown, delivery; overlapping refreshes of the metrics, the histogram, the ring | `oracle/src/monitor`, `oracle/src/metrics` |
| `BackendCache` | the Redis circuit breaker; `getOrSet` against commits, deletions and outages | `backend/src/cache` |
| `RateLimits` | shared and local windows, what a refused client is told | `rateLimiter*.ts`, the frontend's limiter |
| `DatabasePool` | cancellation by pid, routing to a replica, the slow query report | `backend/src/db/pool.ts` |
| `OracleIntake` | replay checks, clean-ups, spikes of failed keys | `backend/src/api/oracle.ts`, `db/oracle.ts` |
| `MarketApi` | three keys of a market with joined loads; listings, orders and odds | `backend/src/api/markets.ts` |
| `FrontendPages` | caches of tabs over the proxy; wallets; the bettors' page | `frontend/src/services`, hooks |
| `FrontendTransactions` | a write, its polls, and the user who repeats it | `soroban.ts`, `useBet`, `useClaim` |
| `SecretsLoading` | precedence of ambient, backend and file secrets | `shared/src/secrets.ts` |
| `Leaderboard_proofs`, `PredictionMarket_proofs`, `MarketMoney_proofs`, `OptimisticOracle_proofs` | theorems of the contracts | |
| `OracleRunner_proofs` | theorems of the finalizer | |
| `Indexer_proofs` | theorems of the live mode, the token tables and the migrations | |
| `OracleSafeguards_proofs` | theorems of the keys, the provider calls, the breaker and the bots | |
| `SumFacts` | what a sum over a finite set is | |
| `MC*` | values for TLC | |

How the contract modules correspond to the code:

* One action per contract entry point, named after it; its parameters are the
  caller and the arguments. Authentication is who the caller is. An error
  return or a trap reverts, so a failing call is a step that does not happen:
  the guards are the negations of all early returns, in this call and in those
  it makes. Cross-contract calls are conjuncts of the calling action.
* A chain of transfers in one call is a chain of balances (`Transferred`), each
  with its own check, because the order can decide whether the last succeeds.
* An absent storage key is a value: `NoBet`, `NoProfile`, `NoSlot`, `Nobody`,
  `"unknown"`. A default that the code gives on reading (`unwrap_or`) is the
  initial value.
* `upsert_top` is the disjunction of its four exits, `UpdateListed`,
  `AppendPlayer`, `BelowCutoff` and `ReplaceWeakest`.
* `place_bet` is accepted by `BetAccepted`, routes its fee by `FeeKept` or
  `FeeOffered`, and writes `BetRecorded`, in that order in the code and
  composed by conjunction here.
* An unsigned addition that would overflow traps: `Score` is guarded by
  `U64Max`.
* Fees, payouts and bond shares are computed with the code's own constants and
  rounding (`TotalFee`, `Net`, `Payout`, `WinnerShare`).

How the off-chain modules correspond to the code:

* An action is what runs between two awaits that others can interleave with: one
  statement, one transaction or one call and the code up to the next. What was
  read before an await is a field of the caller's record and used after it.
* A crash forgets the variables of a process and keeps the tables; a lost answer
  is an action that takes effect and fails all the same. Each kind of fault is
  counted by a bound (`...Faults`, `...Crashes`, `Outages`).
* Times are ages or countdowns that saturate at the largest constant they are
  compared with, so clocks need no bound.
* Pure rules (which adapter, what a vote amounts to, page and odds arithmetic)
  are operators, checked against a reference definition for every value of
  `question`, which the run moves through all inputs of small sets.

Definitions whose comment begins "A slip" are never used by a specification:
they are the bugs that the properties were tried against.

## 3. Runs

A run explores several small instances. Its variable `focus` names the part
that a behaviour is about; `Only(part)` keeps the variables of the others as
they are, so no part sees another, and the states of a run are the sum of its
parts and not the product. An invariant of a part is guarded by `focus`, or, where `MCDaemons` and
`MCOffChain` EXTEND the part's own module, is the definition
that a theorem states: the parts out of focus stand in their initial states.
Liveness is stated by `Explores(part) =>`, and the fairness conditions of
several parts are one formula: in a behaviour of one part the disjuncts of the
others are never enabled, so it says of that part what its own specification
says.

Passing runs:

| Run | Parts and questions |
|---|---|
| `MCLeaderboard` | `leaderboard`: do the copies in the top list stay consistent, and do pages and ranks tell the same order, for four players on three slots up to the u64 limit? `token`: is the supply what is held, through minting, burning, self-transfers and bad amounts? |
| `MCPool` | `pool`: is one market's money always there, never stranded, and are claims never blocked? `markets`: two markets over one fee pot. `admin`: roles, mistaken configuration, the creation limit. `deployment`: users calling while the contracts are set up |
| `MCDispute` | `dispute`: bonds and stakes covered, every market decided and every bond returned, with the admin deciding in mid-dispute. `council`: membership, minimums and windows that change meanwhile; refinement of `DisputeLifecycle` |
| `MCDaemons` | `live`, `backfill`, `poll`, `process`, `tables` (indexer and schema): nothing lost or applied twice (`EffectsAreAppliedOnce`, `TokenTablesAreSound`, `SchemaIsRecorded`, `PollsAreOrderly`). `runner` (two aggregators alone), `disputed` (one beside the API, a dispute, the indexer and the clean-up), `loop` (finalizer): `ResolutionsAreSound`, `FinalizedRowIsKept`. `rotation`, `keys`, `calls`, `breaker` (oracle): `KeysAreSound`, `CallsAreSound`, `ProvidersAreSpared`. Each gets on: `DaemonsProgress` |
| `MCServices` | `circuit`, `cache`, `query` (backend); `form`, `tabs`, `wallet`, `board` (browser): recent answers and true reports (`AnswersAreTrue`), recovery (`ServicesProgress`) |
| `MCOffChain` | `market`, `crowd`, `rebuild`, `routing`, `queries`, `windows`, `client`, `intake`, `guesses`, `pages`, `listing`, `secrets`: tables follow the chain (`TablesFollowTheChain`), reads, limits and intake keep to their bounds (`BoundsHold`), and what was promised stays true (`PromisesHold`). `bot`, `once`: no bond is spent but where it may be, and a bot looks once more before it sends (`BotsAreSound`, `LastLookHolds`). `monitor`, `alerts`, `retry`, `submit`, `resolver`, `audit`, `tables`, `polls`, `decision`, `stale`, `rules`: `BondsAreSpentOnce`, `OperatorsAreTold`, `DecisionsAreSound`, `NeverTakenBack` |

Runs that end in a counterexample, each a disagreement between the code and
what the repository says of it (details in PROJECT.json, findings):

| Run | Shows |
|---|---|
| `MCLeaderboardMin` | an in-place improvement while the list fills leaves the cached minimum stale; when the list is full, an eviction can remove a player who is not the weakest. The proved `CutoffIsLowerBound` is what remains true. |
| `MCStranded` | refunds are gross, while the fees in them may have been withdrawn or paid to a referrer; after a cancellation in mid-dispute the refunds use up an escrowed bond, which the finalizer can then never return. Without a bond to use up it is the last refund that reverts. |
| `MCTestnet` | the deployment script leaves the leaderboard unable to mint. |
| `MCMigrationsInit` | `init-db.sh` runs the down-scripts of recorded migrations and records them, so the schema is not what `schema_migrations` says (`ShellSpec` of `MCDaemons`). |
| `MCPaging` | a page of the runner's list is ordered by the text of the ids and continued after the number of the last one: of markets 9 and 10 with one end time a full page ends in 10, and 9 is passed over (`PagingSpec` of `MCDaemons`). |
| `MCReplay` | an event is recorded under its place in the page, since the SDK's events carry no index of their own; live mode begins again at `START_LEDGER`, the pages are cut elsewhere, and a bet is added to its position and its market's totals twice (`ReplaySpec` of `MCDaemons`). |

Further differences were met on the way and have no run of their own:

* README.md:164 and :178 promise the referrer of a user a share of every bet.
  `place_bet` caches credit's answer (lib.rs:690), and one it cached before the
  user registered is never asked for again: those users' bets earn their
  referrer nothing. What does hold is that a cached yes is true
  (`CachedReferrersExist`).
* README.md:162 promises 10 points and 2 IPRED on a cancelled market, which
  `cancel_refund` does not pay; ipredict.md speaks of a net refund, the code
  refunds gross.
* ORACLE_RUNBOOK.md:96 calls the council window the time available to rule;
  `resolve_challenge` is refused until it is over, and votes are taken in it
  and after it.
* All-Features.md:157 asks for a threshold of agreeing votes;
  `resolve_challenge` counts votes of either kind and applies the outcome its
  caller passes.
* `finalize_challenge_timeout` is described as the way out when the council is
  unavailable; it does not look at the votes, so it can be called the instant
  a ruling can.
* Migrations: two 0026 files are not in `LEGACY_MIGRATION_GROUPS`, so
  `listMigrationFiles` throws; 17 of 41 files end their own transaction;
  `migrate-down` takes no lock.
* Indexer: live mode asks for one page of `EVENTS_PER_PAGE` events and sets the
  checkpoint to the newest ledger whether or not the page was full, so what did
  not fit is never fetched (`overlooked`); a crash of the replay job between the
  row of an event and its effect leaves a row that blocks the event for ever;
  a shutdown in the middle of a page saves the cursor past events it
  did not process (index.ts:99); an empty backfill window ends the job before
  the head; a malformed dead letter is retried for ever.
* Oracle: a crash between sending and recording loses the hash; a failed
  challenge and a failed key retirement are never retried, and an incoming key
  that failed its verification stays registered on the contract.
* Quota: rateLimiter.ts:23-25 waits "rather than allowing callers to exceed the
  provider quota", but a slot is taken once a load, before `fetchWithRetry`
  (binance.ts:84-85), whose repeated requests take none. `AdmissionsKept` is what
  holds of loads, `RequestsAreBounded` what holds of requests.
* Recorded hashes: the finalizer keeps a hash so that it "can inspect the exact
  transaction rather than blindly submitting again" (market-finalizer.ts:144).
  A challenged row refuses it (the trigger of migration 0016 lets no row go back
  to submitted), and `cleanupExpiredNonces` deletes whole rows after the nonce
  retention, 600 s by default, whatever hash or verdict they hold. `hashLost`
  marks both; without them `OneLiveTransaction` holds.
* Resolution lag: collector.ts:33 says "Hours from expiry to finalization". The
  query selects `resolved_at_epoch`, the code subtracts from
  `finalized_at_epoch`, which is absent and counts as 0: every sample is the end
  time, negated. `NoLagIsADuration` says so of the model, and no property speaks
  of the lags themselves.
* Audit export: it selects `market_id::text AS market_id` and orders by that
  alias, so a page is in the order of the texts while the next one begins after
  the number of its last id (council-audit.ts:426-434), against "in `market_id`
  order" and "each page starts after the last market of the previous one"
  (406-412): a full page 10, 11 loses 9, and after a full page 10, 9 comes 10 again.
  `ExportIsComplete` and `ExportIsOrdered` speak of the ids for which text and
  number agree about every other one.
* A lost answer: submit-with-retry.ts:33-36 says that a submission that landed
  "is never resent as a duplicate bond". One that lands between the last look
  and the next send is; `NoBondTwice` excuses it.
* Events: the market contract publishes those of its oracle only
  (All-Features.md:46-71 lists the others as missing). What bets, creations,
  resolutions, claims, scores and token moves would say is modelled from the
  handlers that decode them.
* handlers/bet_placed.ts stands with merge markers (102, 309, 327 and 334, 336,
  490) and does not compile; its HEAD side is modelled.
* Backend: a load that overlaps an invalidation leaves a stale entry for one
  time to live; a client's disconnect cancels the load that others joined;
  `betsKey` ignores page and limit.
* Frontend: a write is reported as timed out after 90 s while its transaction
  stays valid for 300 s; the proxy caches error bodies; a late answer for the
  previous account overwrites the page.

### Bounds, and why they are enough

Each is a constant, named where it is declared.

* `MaxMarkets`, `LastCreation`, `MaxTime`: markets, the time of the last
  creation, the clock. One market shows everything about one market; the second
  one in `markets` is there for the shared balance; four in `admin` fill
  more than two rate windows. The clock reaches every deadline of a dispute:
  `InTime` only accepts a submission or a challenge from which every deadline
  can still be reached, so liveness is not refuted by the end of the clock.
* `BetAmounts`: 49 is below the minimum bet, 50 is the minimum and its fee goes
  wholly to the referral part, 199 loses units in each division. Real amounts
  are in stroops; the rounding only depends on the amount modulo 10 000, and
  the small amounts show every case: no loss, loss in the fee, loss in the net.
* `Funds`, `BetFunds`, `BondFunds`: what a user can spend, so that several bets
  and a bond are possible and running out of funds is too.
* `MaxTop` = 3 with four players: filling, full, evicting, returning.
  `U64Max` is small, so that overflow and the sentinel are reached.
* `SupplyCap`: mints no further; supply is otherwise unbounded.
* `BondAmounts` include one below the minimum and an odd one, for the halves.
* Off-chain: two processes, callers, tabs or connections are enough for every
  race of two; three where a third observes (`Callers`, `Attempts`). Fault
  bounds are at least one of each kind at every point, two where a fault of the
  recovery matters. Times to live, windows and backoffs are one to three ticks,
  each different from those it is compared with.
* `runner` and `disputed`: what two aggregators do to each other and what others
  do to one market are explored apart (`TwoAlone`, `OneAmongOthers`), because the
  product is too large for a run; the theorems have no such restriction. In
  `disputed` the API stores a submission with a nonce: a row without one is like
  one whose nonce is never cleared away.
* `Expired` = {3, 9, 10} with pages of one: 9 and 10 end together and their texts
  are in the other order, 3 ends later. `AuditMarkets` = {9, 10, 11, 95} with pages
  of two has ids on either side of a digit.
* `EventsPerPage` = 2 with three events: a page that is full and one that is not.
  `Outages` is shared by the indexers and the replay job: one fault of either, at
  any point. `MaxLetters` leaves room for a replay that ends in another letter.
* Symmetry is used over bettors or players only, in runs without liveness.

`CHECK_DEADLOCK FALSE` stands where the system may really stop: the clock or a
bound is reached, every market is decided and everything is claimed.

### Fairness

`OracleFairness` is weak fairness of the clock and of the three calls that
anyone may make, `finalize_outcome`, `finalize_challenge_timeout` and
`cancel_unsubmitted_market`. Ledgers close whatever the users do; that somebody
makes a call that is open to everyone, costs a fee of a fraction of a cent and
releases a bond or a stake is the assumption the design rests on (the runner in
`oracle/` exists for it). Admin, council, bettors and bonders are not assumed to
do anything. `BondsReleased`, a part of `DisputesEnd`, holds in `MCDispute`, where the fee pot stays in
the contract, and fails in `MCStranded`, where it is withdrawn: the difference
is the finding.

Off-chain, weak fairness is assumed of what an event loop or a database does by
itself: a running process takes its next step, a timer fires, a ledger closes, a
sent request is answered or fails, a transaction in the network lands or
expires. Strong fairness is assumed only of taking a contended lock (`TakeLock`
of a migration, which Postgres queues) and of reserving a slot of the limiter
(`Acquire`, whose waiters wake in turn). Nobody is assumed to crash, to retry by
hand, to vote or to repair; outages end because their number is bounded.


## 4. Proofs

Seven modules of theorems, and `SumFacts` under them: of the contracts for any set
of addresses, any number of markets, slots, votes and bonds, and any amounts; of
the finalizer for any number of aggregators, council members, transactions and
faults; of the indexer for any chain of events, any page size and any number of
processes, replays, migrations and programs; of the oracle's safeguards for any
keys, providers, callers, quotas, markets and limits. Every kind of fault is
bounded by a constant that can be any number. The prover checks every leaf;
nothing is assumed but the constants' assumptions and the hypotheses listed below.

| Theorem | Module | Says |
|---|---|---|
| `LeaderboardInvariant` | `Leaderboard_proofs` | `LInv` is an invariant of `LeaderboardSpec` |
| `LeaderboardTypes` | | `LeaderboardTypeOK` |
| `SlotIndexAlwaysConsistent` | | `SlotIndexConsistent` |
| `ListedPointsAlwaysCurrent` | | `ListedPointsCurrent` |
| `CutoffAlwaysLowerBound` | | `CutoffIsLowerBound` |
| `BetterPlayerIsListed` | | `OutscoringGetsListed`, an action property |
| `TokenInvariant`, `SupplyAlwaysHeld` | | `SupplyIsHeld`, of `TokenSpec` |
| `VerdictInvariant`, `VerdictsAreFinal` | `PredictionMarket_proofs` | `VerdictIsFinal`, an action property of `MarketSpec` |
| `BooksInvariant`, `BooksAlwaysAgree` | | `BooksAgree` |
| `WindowInvariant`, `CreationIsLimited` | | `AtMostTwoWindows` |
| `RecordsInvariant`, `RewardsAlwaysMatch`, `ReferralsAlwaysCounted` | | `RewardsMatchClaims`, `ReferralCountsMatch` |
| `RewardContractsConsistent` | | the leaderboard's invariants and `SupplyIsHeld`, of `MarketSpec` |
| `MoneyInvariant`, `AlwaysSolvent` | `MarketMoney_proofs` | `SolventUntilCancelled` |
| `NothingElseIsStranded` | | `OnlyDustIsStranded` |
| `RegistryAlwaysEmpty` | | `RegistryHoldsNothing` |
| `CachedReferrersAlwaysExist`, `RecordsAlwaysAgree` | | `RecordsAgree`, of which `CachedReferrersExist` is a part |
| `MarketTypes` | | `MarketTypeOK` |
| `RefundInvariant`, `RefundsCoveredWhileFeesStay` | | `SolventWhileFeesStay`, if nobody who receives fees bets |
| `DisputeInvariant`, `VotesAlwaysCounted` | `OptimisticOracle_proofs` | `VotesAreCounted`, of `OracleSpec` |
| `DisputedVerdictsAreFinal` | | verdicts are final under the oracle's calls too |
| `StakesStayFrozen` | | `SubmissionFreezesStakes`, an action property |
| `ImplementsLifecycle` | | `FollowsLifecycle`: the oracle implements `DisputeLifecycle` |
| `BondInvariant`, `BondsAlwaysExact` | | `BondsAreExact` |
| `DisputedBooksAgree`, `DisputedRecordsAgree` | | `BooksAgree` and the records of the other contracts under the oracle's calls too |
| `RunnerInvariant`, `FinalizedAlwaysMatches`, `NoticesAlwaysTrue` | `OracleRunner_proofs` | `FinalizedMatchesChain`, `NoticesAreTrue`, of `RunnerSpec`: with the API, the indexer and the clean-up writing the row |
| `FinalizedRowStays` | | `FinalizedRowIsKept`, an action property |
| `OneAlwaysLive` | | `OneLiveTransaction` |
| `OneAlertForAHold`, `FinalizationsAlwaysAnnounced` | | `OneAlertPerHold`, `FinalizationsAnnounced` |
| `ResolutionsAlwaysSound` | | `ResolutionsAreSound`, the conjunction of these five |
| `LiveInvariant`, `EffectsAlwaysAppliedOnce` | `Indexer_proofs` | `EffectsAreAppliedOnce`, of `LiveSpec`: every row is applied at most once, and nothing is passed over but what a full page left out |
| `ProcessInvariant`, `TokenTablesAlwaysSound` | | `TokenTablesAreSound`, of `ProcessSpec` |
| `MigrationInvariant`, `SchemaAlwaysRecorded` | | `SchemaIsRecorded`, of `MigSpec`, for `db:migrate` and `db:migrate:down` |
| `RotationInvariant`, `KeysAlwaysSound` | `OracleSafeguards_proofs` | `KeysAreSound` |
| `CallsInvariant`, `BreakerInvariant`, `CallsAlwaysSound` | | `CallsAreSound`: of loads, of requests, of the cache, and of the breaker's file |
| `ProvidersAlwaysSpared` | | `ProvidersAreSpared`, action properties |
| `BotInvariant`, `GuardInvariant`, `BotsAlwaysSound` | | `BotsAreSound` |
| `LastLookAlwaysHolds` | | `LastLookHolds`, action properties |

`SumFacts` has the lemmas on sums that the money and the token balances rest on.

### Assumptions

`TokenConstants`, `LeaderboardConstants`, `ReferralConstants`, `MarketConstants`
and `OracleConstants` type the constants, say that addresses are finitely many
and that the five contracts have five addresses. Three say who calls:
`BettorsAreUsers` that neither the market nor the registry bets, and two parts
of `OracleConstants` that the market contract posts no bond; they are contracts,
and no code of theirs calls `place_bet`, `submit_outcome` or `challenge`. The
prover asked for them: a contract that bets in its own market transfers to
itself, and the books count money that never came. TLC evaluates all of them in
every run. The finalizer's theorems need `RunnerConstants`: the bound on its
transactions is a number, so that the settlement's hash is none of them.

Off-chain, `LiveConstants` and `TokenEventsAssumption` say what a chain's events
are: ordered by ledger, a transaction in one ledger, and mints are the token
events without a sender. `MigrationConstants` is that nobody is no
program. `CallConstants`, `BreakerConstants` and `BotConstants` type quotas, times,
thresholds and limits; the submissions a bot sees are finitely many. Which events
are undecodable or rejected, the directory of migrations and how many faults there
are, is free. The key rotation and the guard of one call per market need nothing.

What a theorem says about special cases stands in the property and not in an
assumption: `SolventUntilCancelled` and `BondsAreExact` speak of states in which
no market was cancelled (`NoneCancelled`), because after a cancellation they are
false (`MCStranded`). That nobody names the contract itself as referrer or
treasury (`PaysOthers`) is asked only where money would otherwise be stranded.

One theorem has a hypothesis of its own: `RefundsCoveredWhileFeesStay` supposes
that no bettor is also a referrer or a treasury. The property takes the balances
of those who receive fees as its witness that no fee has left the contract; one
who also bets can spend what it received and look as if it had received nothing.
The `markets` part of `MCPool` satisfies it.

The migrations' theorems suppose `Kinds \subseteq {"migrate", "down"}`: with
`init-db.sh` among the programs the property is false, as `MCMigrationsInit` shows;
`MCDaemons` satisfies it. The live mode's have no hypothesis: what they say is of
rows, which are told apart by transaction and place in the page. That an event is
applied at most once (`AppliedAtMostOnce`) is not proved: `MCReplay` refutes it.

### The top list

None of the four invariants is inductive alone: an eviction clears
the index of whoever sits in the cached minimum's slot, so it keeps the index
consistent only if that slot is occupied, which is part of the cut-off's
invariant; the cut-off is a lower bound after an update only if the updated
total did not fall, which needs that the slot held the player's current points.
`ListInv` is their conjunction with the types; it is kept by each exit of
`upsert_top` (`UpdateListedKeeps`, `AppendPlayerKeeps`, `BelowCutoffKeeps`,
`ReplaceWeakestKeeps`), hence by a score (`ScoreKeeps`), hence by every step.
`initialize` resets the count of the list, which would orphan slots: it cannot
harm because before it nobody can score. `UninitializedIsEmpty` says so, and
`LInv` is the two together. `recompute_min` is a `CHOOSE`; that there is
something to choose is `WeakestSlotIsWeakest`, from the least element of a
nonempty set of naturals.

### Sums

`SumFunctionOnSet` is a fold over a set whose order a `CHOOSE` fixes. That it is
defined for finite sets, that the order does not matter, and what adding,
removing or changing one element does, is proved in `SumFacts` from the
least element principle of the naturals, which the library states without an
operator parameter. The proofs about money cite `SumIsNatural`, `SumsAgree`,
`SumOfUpdate`, `SumOfOneMore`, `SumOfPart`, and `SharesOfAll`: rounded-down shares of a pool
add up to at most the pool and fall short by less than one unit a share.

### The token

`initialize` sets the supply to 0 whatever was minted, so that the supply is the
sum of the balances needs that before it nobody has anything: there is no
minter. `TokenInv` says the two together. A transfer to oneself is a case of its
own: both reads of the balance precede both writes.

### Verdicts

Two calls write markets without looking at a verdict.
`create_market` overwrites the entry after the last one, and `initialize` sets
the count back to 0 and so makes room for overwriting. The first is harmless
because no market above the count is decided, the second because nothing was
created before `initialize`; `VerdictInv` says both, with the types they need.
`StepIsOneOfThem` sorts every call of the system into four kinds, by what it
does to the markets: leave them alone (`QuietStep`), initialize
(`InitializeStep`), create (`CreateStep`), or rewrite one that is undecided
(`MarketStepOf`). The invariant and the property are then shown for each kind,
and the oracle's calls are sorted the same way (`DisputeStepIsAnyStep`).

### Books

`place_bet` writes a market's totals, its count, the bettor index and the user's
entry apart. `BooksAgree` is not inductive: `create_market` starts its totals at
0 without looking at bets, and a first bet adds to a net it does not reset.
`EntriesOK` adds that a market above the count has no bets, and that an entry
without a bet has no net. A bet moves one entry (`BetMovesSide`,
`BetMovesBackers`), claims and refunds mark one (`EntryStep`), and everything
else keeps the entries.

### The hourly limit

`check_rate` keeps a window and not the times of the creations. `Spaced` relates
them: the window's own markets are the last `count` ones, those behind it were
created before it started, and those behind the one before it an hour earlier.
Hence a market and the one two limits after it lie an hour apart, and an hour
holds at most two limits. A market keeps its end and not its creation, so the
theorem is about markets of one duration.

### Money

`MoneyInv`: what the contract holds beyond the fee pot (`Held`) is at least all
open stakes and at most those, the initial balance and one unit for each
rounding. Each step moves `Held` and the stakes of one market by nearly the same
amount: `MoneyMoves` says what a call does to the balances, `Settles` what it
does to the stakes of one market, and `MarketSumMoves` takes it from one market to all.
A bet brings the net and at most one unit (`FeesAddUp`: the three divisions).
A resolution turns a pool into payouts: their sum is at most the pool and falls
short by less than one unit a winner, because each quotient does
(`ResolutionStakes`); it needs `BooksAgree`, which says that the winners' nets
add up to the winning total. A claim pays one payout and strikes it. A pool
nobody can win goes to the pot and leaves the stakes at once.

After a cancellation a market owes gross bets and not nets, so that
`SolventWhileFeesStay` is about what a cancellation takes back out of the fee pot.
`RefundInv` keeps two sums below the balance. One is what every market would
cost if it were cancelled now (`Refundable`), the other what of that does not
come back out of the pot (`Backing`: gross bets less `FeesInPool` while a market
is undecided), with the pot itself. A cancellation either takes back that much
or finds less in the pot and empties it: in the first case the second sum stays
what it was, in the second it falls to the first, which is why both are needed.
That a market never takes back more than its bets brought in is the bound
98 gross >= 100 net, kept bet by bet.

`BondInv` repeats the argument with the bonds of the open disputes beside the
stakes (`Covered`). Each oracle call moves balance, bonds and pot together:
a post and a challenge add a bond, a settlement pays the winner its bond and
`WinnerShare` and credits `ProtocolCredit` to the pot, which add up to both bonds
whatever is rounded. That nobody but a bonder is paid is `BondersOK`: the market
contract as a winner would keep what it pays.

### Records

`RecordsInv` has no fact about another contract that it does not need: the
leaderboard's `ListInv`, the token's `Holdings`, and that an unregistered user
names nobody, without which a registration could move a user from one count to
another. The same fact keeps what the market caches of the registry true
(`CachedInv`): a bet caches a yes only of a user with a referrer, and a profile
that names one is never written again. Four kinds of step write the records (`StepIsRecordsStep`): a
registration, a claim, the referrer's bonus points, and none. A claim adds one
market to the claimed ones because the flag was clear (`ClaimIsCounted`), one
bet to the won or lost ones and that bet's tokens (`ClaimIsRewarded`). The
oracle's calls reach none of the other contracts, and the invariant carries over.

### Disputes

`FollowsLifecycle` is proved step by step under `DisputeInv`: a posting, a
challenge, a settlement or a decision of `DisputeLifecycle`, and otherwise
nothing it can see (`StepImplements`). The refinement mapping is `Verdict`,
the state of the submission and `Escrow`. That escrow only rises by a challenge
to more than its double rests on the bond having been that of the submitter
alone, which is in `DisputeOK`; that no verdict comes back on
`VerdictsGivenOnce`. `SubmissionFreezesStakes` needs that an outcome is only
posted after betting ended (`OnceExpired`), which the clock keeps.

### The finalizer

Several aggregators, the API, the indexer and the clean-up of nonces share one row,
and each aggregator holds an outcome and a hash from an earlier step while the
others move. `MatchInv` ties all of them to the transactions and to the settlement
of the submission, whose hash (`Settlement`) is none of the aggregators': a hash in
the row (`RowIsTrue`) or in a runner's hands (`WorkIsTrue`) is of a transaction sent
for the outcome beside it, or of the settlement that the indexer saw, and a
transaction that succeeded is the verdict. So whoever finalizes the row, on the word
of the contract or of a transaction, writes its verdict.

The exception is a cancelled market whose submission was settled: its row is final
with the settlement's verdict, and an aggregator that meets that hash finds a
transaction that succeeded on a market without a verdict, and marks the row with the
outcome of the votes. That several of them cannot mark different outcomes is the
rest of the invariant: who checks a settlement has the outcome of the final row it
read (`ReadFrom`), and since the row may be deleted meanwhile and come again, all who
check one agree among themselves (`Agrees`).

`OneLiveTransaction` needs to know where a live transaction can be: none while
the one runner that works is about to send, the one it holds while it records, waits
or checks (`KnownTo`), and otherwise the one in the row (`KnownFrom`). The indexer may
put the settlement's hash over it; then the contract is decided, and no runner
starts again. Four things break the invariant. Two are recorded as `unguarded`: a
second runner at work, against which the code has no lock, and a death while
recording. Two as `hashLost`: a challenged row that refuses the hash, and a row that
is deleted with one.

### The live mode

`EffectsAreAppliedOnce` counts rows and effects; what keeps it is `DbSound`: what is
applied has a row and no two effects have one row, so that a second indexer, a
restart at `START_LEDGER` or a replay that finds a row leaves the effect alone. It is
kept by one event (`WriteEvent`), hence by a page of any length (induction over the
page by its least bad place), hence by the commit.

A row may be that of another event, which an earlier page had at the same place: then
what is in hand is left out, and must have been applied before. That is `Covered`: of
a transaction of which anything has a row or a letter everything is applied, lettered
or left out by a full page, because pages begin and end with a ledger unless they are
full. The checkpoint passes nothing over, but not by looking at the checkpoint alone:
after a lost session two indexers commit pages fetched before each other's.
`CursorsAreSettled` says of every living indexer that what is behind its cursor is
accounted for, and of a page in hand that it holds what lies between its cursor and
its end but for what a full page left out. That `getEvents` returns such a page is
`PrefixExists`, about the `CHOOSE` in `EventsUpTo`. `JobIsSound` has the one row
that may stand without its effect, that of the replay between its two statements.
`NoRowWithoutEffect` compares two counts; the proof is the bijection from the log
to the rows.

### The token tables

The saved cursor is behind the loop's own, and the loop's behind the end of the
page it works on by what is left of the page: `PagesAreCovered` says that each has
passed over only events that have a row or a letter or are left.
The balances are those of the caught-up indexer only when it is caught up;
`BalancesFollowRows` makes them those of the rows at every step without a fault,
and `BalancesAddUp` states, whatever crashes, that they add up to the mints whose
balance was written (`credits`): a transfer moves and a mint adds, a crash between
the row of a mint and its balance loses the mint and nothing else.

### Migrations

A program that has run its SQL writes its row in a later step. That the row is not
a second one needs that nobody recorded the file meanwhile, which the advisory
lock sees to for `db:migrate` (`LockIsHeld`), and that it is about a file of the
directory (`FilesAreNamed`); `db:migrate:down` takes no lock, and can only remove
a row (`RunnersDoNotCollide` is part of the invariant). Rows are a sequence, so
what is left when one is taken out, and when one is appended, are lemmas
(`RowRemoved`), and the schema and the sums are then compared row by row.

### The signing key

`RotationInv` says where both keys of a rotation are at every stage: the outgoing
one registered and different from the incoming one until it is retired, so that
a rollback finds a key the contract accepts and a retirement leaves one. Each of
the calls may have reached the chain although it failed, and the invariant is
kept either way.

### Calls, quota and breaker

The limiter counts what is left in its list after pruning, and prunes only when
asked. `Tracks` relates the list to the reservations of every span of ticks up to the
window, as the history variable `admitted` counts them: they are the last ones of the
list, and everything before them is as old as the span. Hence a pruning drops only
what the window dropped (`BelowCuts`), and the count that is compared with the quota
is that of the window.

Requests are bounded by what a load may still send. `Spent` says of every span that
the requests sent in it (`sent`), with the attempts that the loads under way have left
(`LeftOf`), are at most those of the loads let through in it, and of one load of each
query that began before it. A repeated request moves one from what is left to what
was sent, a new load brings as many as it may send, and a tick only shortens spans.

`LoadInv` ties the cache's entry to the load in flight and a waiting
caller to both. `BreakerInv` has that the file is the memory, and that a closed
breaker has counted at most one outcome more than what came after it closed: the
success that closed it.

### The bots

A bot checks and then acts, with awaits between. `Established` says what of its
checks still holds at each step: the market it has in hand is another's
submission, its verdict is a disagreement, and what it will have spent is within
the limit unless a dispute was not indexed when it looked (`lagged`), which is the
exception the property itself makes. `GuardInv` adds to `OneCallPerMarket` that
claims and calls in hand are the same markets (`ClaimsMatchCalls`): the claim is
what refuses a second call, and a call is what releases its claim. The action
properties of `LastLookHolds` are shown per step: the switch and the market's
state are read in the same step in which the bot goes on.

### Only model-checked

* Liveness and `ENABLED`: `DisputesEnd`, `DaemonsProgress`, `ServicesProgress`,
  the `ClaimsNeverBlocked` of `PoolPaysClaims`, and `ScriptServesUsers` are out of
  the prover's reach. Everything else that `PoolPaysClaims` names is proved:
  `MarketTypes`, `NothingElseIsStranded`, `AlwaysSolvent` and
  `RefundsCoveredWhileFeesStay`.
* `ViewsAgree`: the views are selection sorts, and what they compute for every
  input is an induction over sequences. The same goes for `DecisionsAreSound`,
  whose rules are tables and folds over evidence, and for listings, odds and reports
  in `BoundsHold`.
* `PollsAreOrderly`, `BondsAreSpentOnce`, `OperatorsAreTold`, `NeverTakenBack`,
  `AnswersAreTrue`, `TablesFollowTheChain`, `BoundsHold` and `PromisesHold` join
  several components each of which TLC exhausts; of them no theorem is stated.

## 5. Not modelled

* `upgrade` of any contract: arbitrary new code.
* Storage lifetimes: an archived entry must be restored before it is read, so
  it is unavailable and never wrong.
* i128 overflow: amounts are bounded by the XLM in existence.
* Event payloads, names, questions, images, categories, and the timestamps the
  contract writes and never reads.
* The registry's read-only legacy keys: they yield the same profile.
* `record_bet`, which does nothing.
* `set_config` to contracts of a stranger: the `admin` part of `MCPool` has one
  mistaken address at which no such contract answers, and its correction.
* HTTP and JSON, SQL text, decoding of XDR, rendering, logging: pure I/O, taken
  for what it returns.
* Status page, container files, seeds: nothing else depends on their state.
