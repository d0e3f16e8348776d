# A TLA+ model of the Kawa lending protocol

The repository holds three CosmWasm contracts (`contracts/lending`,
`contracts/oracle`, `contracts/address-provider`), the packages they share, and
the scripts that deploy them and keep the oracle's averages alive
(`scripts/deploy`). This directory specifies them: TLA+ modules translated from
the source, configurations that check them with TLC on small instances, and
proofs that TLAPS checks for every instance.

## The system

| Component | State | Operations |
|---|---|---|
| **Lending**: markets (`interest_rates.rs`, `types/lending/market.rs`, `interest_rate_model.rs`) | `MARKETS`: indexes, rates, totals in shares, parameters | accrue interest, recompute rates, convert shares and coins |
| **Lending**: users (`execute.rs`, `user.rs`) | `COLLATERALS`, `DEBTS` by user and denom | deposit, withdraw, borrow, repay, liquidate, update_asset_collateral_status |
| **Lending**: owner (`execute.rs`) | `OWNER`, `CONFIG`, `UNCOLLATERALIZED_LOAN_LIMITS` | update_owner, update_config, init_asset, update_asset, update_uncollateralized_loan_limit |
| **Lending**: queries (`query.rs`) | none | all of them; maps are paged |
| **Health** (`lending/health.rs`, `packages/health`) | none | value positions; below the liquidation threshold, above the max LTV |
| **Oracle** (`oracle/base`, `oracle/wasm`) | owner, config, price source per denom, TWAP snapshots per denom | set/remove source, update config, record snapshots, query prices (fixed, spot, TWAP, Pyth, each perhaps through another source) |
| **Address provider** | owner, prefix, address per contract type | set address, update owner, query |
| **mars-owner** (external crate) | owner, proposed owner, emergency owner | propose, clear, accept, abolish, set/clear emergency owner |
| **Keeper** (`recordTwapSnapshots.ts`) | none | record the snapshots of one denom (`usei`), once per call of the script; a schedule, and the other TWAP sources, are for whoever runs it |
| **Deployment script** (`scripts/deploy/base`) | what is done: code ids, addresses, address types, assets, in memory and in a file | upload, instantiate, set addresses, open markets, set price sources, smoke-test, hand over |

A transaction runs one handler to its end, or leaves no trace: an error, a
panic or a failed bank message rolls everything back. Within it the lending
contract queries the address provider for the oracle's address, the oracle for
the price of each denom the user has an entry in, and asks the bank to send
coins; the oracle queries Astroport pairs and Pyth. There are no threads and no
callbacks in the contracts. What is hard is elsewhere:

* **ordering inside a handler**: interest must accrue at the old rates before
  anything they depend on changes, and rates must be recomputed after it;
  handlers work on copies of the market and save them last;
* **rounding**: amounts are scaled to shares and back, each time truncated or
  rounded up, and sums of rounded parts are kept equal to rounded sums;
* **interleaving of users, owners, blocks and prices**: the state a transaction
  finds was left by any sequence of the others';
* **pairs of maps** that must agree (debts and their total, flag and limit);
* **anybody may record snapshots**, at any time: recording is rate-limited, and
  it purges;
* **sources that read through sources**, set one at a time;
* **readers** page through maps that change between two pages;
* **the deployment** is a sequence of transactions by a process that fails, loses
  replies, is killed and is started again.

What makes each part correct:

* markets: shares and totals agree, parameters are valid, rates are fresh,
  indexes are continuous within a block and do not shrink with time;
* users: rounding never favours the caller, nobody moves another's position,
  and coins never get stuck;
* health: no stranger's transaction pushes a healthy user below 1, and seized
  collateral is paid for;
* owner: only the owner of the moment sets parameters, and never retroactively;
* queries: a quote is what a transaction of the same block does; a walk through
  the pages of a map is complete and ends;
* oracle: averages are averages of what the pair traded at, recording moves no
  price, new sources never form a cycle;
* address provider: addresses the contracts can use are told from others;
* keeper: averages become and stay available;
* deployment: what is remembered is true, and the end is a wired system.

## Modules

| Module | Models |
|---|---|
| `Decimals` | `Uint128`, `Decimal` (external) and `packages/utils/src/math.rs` |
| `InterestRates` | a market as a record, and the functions on it; no state |
| `Health` | `packages/health/src/health.rs` |
| `Storage` | `cw_storage_plus::Map` as a partial function (external) |
| `OwnerRole` | `mars_owner::Owner`, from its use (external) |
| `Lending` | the lending contract: all its state and every `ExecuteMsg` |
| `Ledger` | abstract: the accounts in coins that `Lending` implements |
| `LendingProperties` | what lending promises |
| `Pages` | range, exclusive bound and take: a page of a map |
| `Paging` | abstract: a reader that walks through a map that changes |
| `LendingQueries`, `LendingClient` | lending's queries; lending with a reader of a user's debts |
| `Oracle` | the oracle: all its state, every message, and the pairs and feeds it asks (external) |
| `OracleProperties`, `OracleQueries` | what it promises, with a history of trades; its queries |
| `Keeper` | the oracle with a keeper and others who record |
| `AddressProvider` | the address provider and the helpers that ask it |
| `Protocol` | the three contracts, pairs, feeds and time together |
| `Deployment` | the deployment script and the contracts it makes |
| `MCInterest`, `MCLiquidation`, `MCOwner`, `MCClient`, `MCOracle`, `MCRegistry`, `MCKeeper`, `MCProtocol`, `MCDeployment` | instances for TLC |
| `LendingProofs`, `ClaimsProofs` | theorems about lending: its state; what it is worth in coins |
| `PagingProofs`, `ClientProofs` | theorems about walks through pages; about lending's queries and their reader |
| `OracleProofs`, `OracleClientProofs` | theorems about the oracle; about its keeper and the pages of its prices |
| `ProtocolProofs`, `DeploymentProofs` | theorems about the contracts together; about the deployment |

### Lending

`Lending` EXTENDS `InterestRates` (which extends `Decimals`), `Health`,
`Storage` and `OwnerRole`. Its variables are the contract's storage items, the
coins the bank holds for it (`balance`), the block time (`now`), and what the
oracle behind each address provider answers (`oracle`).

One action is one accepted message. Each `?`, early return and failing send is
a conjunct of the guard, so a refused message is a step that is not enabled. The
order of the handler is kept through LET: `market` is the local copy after
`apply_accumulated_interests`, and `SaveMarket` is `update_interest_rates`
followed by `MARKETS.save`. Two places where the order matters to the result:

* `Deposit` checks the cap against the market as stored, before accrual;
* `Liquidate` computes everything from the stored markets and applies interest
  to the debt's market at the end; the market of the collateral is saved only
  when it is the same one, which `SaveMarket(d, ...)` expresses for both cases.

Abstractions:

* Integers do not overflow: `Uint128` and `Decimal` arithmetic either fits or
  aborts the transaction, so unbounded integers only add behaviours.
* `One` (10^18) and `ScalingFactor` (10^6) are parameters. Every rounding of the
  code is there, at the precision of the parameters; with small ones it is met
  more often than in the code, never differently.
* Events, attributes, string formats and address validation are left out. A
  depositor may deposit for anybody; who pays does not matter, so the sender of
  coins is not modelled, and coins outside the contract are `Supply` minus
  `balance`. A refund is the difference between what is attached and kept.
* `oracle` moves within `Answers` (`OracleMoves`, and with the time in `Tick`):
  for each provider no oracle, or a price or an error for each denom. This is the
  interface that `Protocol` implements with the other two contracts.

A query is modelled as the set of its answers, which has one element, or none
when the query fails. `positions_from_coins` and `compute_health_from_coins`,
which other contracts call, are in `LendingQueries`.

### Oracle

Snapshots, sources and the base denom are the contract's items. A pair is
`swap`, what it returns for the simulated amount, and `cumulative`, which grows
by it each second and wraps at `MaxCumulative`. `Unit[d]` is 10 to the number of
decimals of `d`, so that the adjustment of precisions truncates as in the code.
A chain of sources is followed by the recursive function `PriceWithin` with as
many links as there are denoms; a cycle, on which a query of the contract runs
out of gas, has no price. Cw20 tokens and pairs of three assets occur as inputs
that validation refuses.

### Address provider and Protocol

An address is a model value; `Bech32` holds those that can be decoded, `OnChain`
those the chain validates, and `StartsWith` relates them to prefixes.
`Protocol` has one contract of each kind, and instantiates all three modules on
its variables. Lending's `oracle` is not a variable there but `OracleSeen`, what
the address provider and the oracle it names answer at the moment.

### Keeper and Deployment

`Keeper` adds to the oracle a process that records every `Interval` seconds, for
every TWAP source. Both are assumptions on whoever runs the repository's script.
`Deployment` follows the script task by task. A call succeeds, is refused by the
contract, fails without effect, or has its effect and loses its reply; an
exception ends the run and saves what is remembered to the file; a kill saves
nothing. `chain` is the list of the contracts there are: an instantiation whose
reply was lost is made again, and the earlier contract stays, unused.

The smoke tests (`config.runTests`, which both chains' configurations set) deposit
10 coins of the base asset, borrow 1, send 2 to repay it and withdraw 10. They are
tasks like the others: each may be refused by lending, by reason of its market,
its price source, or the deployer's health, with the coins and loans that earlier
runs left behind. `executeDeposit` catches its own error and the script goes on to
borrow; an error of the other three ends the run before it is done.

## What is checked

| Run | Instance | Properties | States |
|---|---|---|---|
| `interest` | 1 market, 2 users, 4 coins, amounts 2 and 3, 2 one-year blocks | `TypeOK`, `DebtSharesConserved`, `CollateralSharesCovered`, `FundsNeverStuck`, `EquityNeverShrinksInABlock`, `TimeNeverShrinksClaims`, `PositionsIsolated` | 36 195 |
| `liquidation` | 2 markets, 2 users, 4 coins of each, a price that halves and doubles, or no oracle | `OthersNeverHurtHealth`, `SeizureIsPaid`, `ImplementsLedger` | 74 085 |
| `owner` | 1 denom, 1 user, 2 admins, 2 providers, 6 updates of parameters, loan limits, all owner updates | `UncollateralizedIffLimit`, `MarketsValid`, `RatesFresh`, `IndexesContinuous`, `OnlyOwnerSetsParams`, `InterestIsCovered` | 81 120 |
| `client` | 2 markets, 1 user, a reader with pages of one and two | `HealthAgrees`, `QuotesHold`, `DebtsWalkIsPaged`, `DebtsWalkComplete`, `DebtsWalkEnds` | 46 340 |
| `oracle_twap` | a stable pair of denoms with precisions 1 and 2, 6 seconds, 2 windows | `OracleTypeOK`, `TwapIsAverage`, `SnapshotsBounded`, `RecordingMovesNoPrice` | 78 072 |
| `registry` | 4 denoms, 3 pairs, fixed, spot and Pyth sources through each other, 2 owners | `NewSourcesResolve`, `PricesEnumerated` | 7 056 |
| `keeper` | 2 denoms with tolerances 1 and 2, 13 seconds | `TwapStaysAvailable`, `TwapEventuallyAvailable` | 19 864 |
| `protocol` | 3 contracts, 1 user, 2 markets, a TWAP and a Pyth source, 3 addresses | `PrefixDecides`, `ImplementsLending`, `StrangersNeverHurt` | 42 432 |
| `deployment` | 2 assets, 2 sources, smoke tests in one of them, 3 faults of any kind | `DeploymentTypeOK`, `MarksAreTrue`, `DoneMeansWired`, `EventuallyDeployed` | 256 780 |

The bounds, and why the interesting cases happen within them:

* *Decimals with two digits and 100 shares to the coin* make truncation visible
  at every conversion: indexes such as 1.21 do not divide the amounts.
* *interest*: the base rate and the slopes are high and a block is a year, so
  two blocks take a debt past its collateral; amounts 2 and 3 of 4 coins leave
  and repay parts of each position, overpay and are refunded, and reach the
  deposit cap. Users liquidate each other and themselves in the same market.
* *liquidation*: the bonus of 1 and the close factor of 0.6 reach both branches
  of `liquidation_compute_amounts`, and amounts that round to zero. One block of
  interest is enough for the stored indexes to be stale.
* *owner*: the inputs mix valid fields, fields valid only one at a time, and an
  incomplete `init_asset`; loan limits are also set before the market exists;
  ten times the coins make the interest of one block exceed the roundings.
* *client*: keys are read in pages of one (the default) and two (the maximum); a debt is
  borrowed or repaid before, at and behind the reader's place.
* *oracle_twap*: the window of 2 with tolerance 1 and that of 3 with tolerance 2
  give lists of up to five snapshots, usable, too young, and purged; the
  cumulative price wraps at 90, and the tokens differ by a factor of ten.
* *registry*: two denoms can be set through each other in both orders, and the
  base denom changes to each of two others.
* *keeper*: the interval of 3 is the tolerance of 1 plus 2, the largest that
  suffices (`Punctual`, below); 13 seconds are more than three times the window.
* *protocol*: one coin of each denom and integer prices keep the state space of
  three contracts small. One user: what another may do to a user's health in
  lending is the question of `liquidation`; here it is what the other contracts
  and their callers may do. A recording, two seconds and a quote fit in 3
  seconds, and the typo of an address is stored and corrected.
* *deployment*: three faults allow a lost reply, a crash in the run after it and
  a failure in the next. The base asset has a market and a price source, a max LTV
  of 0.4 and a liquidation threshold of 0.5: a failed deposit, or a repayment
  whose reply is lost, leaves the deployer with coins or debts that the tests of the
  next run meet.
* *two_pairs*: a denom with a TWAP source on a pair of 10 coins, another pair of 30,
  6 seconds: enough to record, move the source, and record again.

`Amount`, `LoanLimit`, `Answers`, `ConfigInput`, `AssetInput`, `UpdateInput`,
`OwnerInput`, `Status`, `SourceInput`, `BaseInput`, `RecordInput`, `Return`,
`Quote`, `AddressInput` and `LimitInput` bound the messages and what the outside
answers; `Supply`, `TimeStep`, `MaxTime`, `MaxSnapshots` and `MaxFaults` bound
the runs; in `Deployment`, `BaseAsset`, `MaxLtv`, `LiqThreshold` and `RunTests` say
what the smoke tests meet. Interchangeable users or admins are symmetric
(SYMMETRY), in runs without liveness only. Deadlock is not checked: when time is at its bound, and
in the contracts too, there may be no message that is accepted; a deployment
that is done stops.

### Refinements

* `ImplementsLedger`: `Lending` implements `Ledger` with `Dust` = 1 coin and
  the mapping `owned` and `owed` to the coins that the shares are worth now. Each
  message moves at most the accounts it is about, by what is paid, less at most a
  coin that its sender loses; interest is never negative. Proved while a share is
  worth at most a coin.
* `DebtsWalkIsPaged`: lending with a reader of debts implements `Paging` on the
  keys of the reader's debts. Proved, and so is that every walk of `Paging` is
  complete; `DebtsWalkComplete` follows.
* `ImplementsLending`: `Protocol` implements `Lending` with `OracleSeen` for
  `oracle`. Whatever owners, feeds and pairs do, lending sees an environment it is
  specified with, and all that holds of `Lending` holds in the deployment. The
  mutant reads a negative quote as an unsigned price. Proved while prices fit in
  the code's integers.

### Fairness and liveness

*The contracts have none.* A contract acts when it is called, and nothing in the
code makes users, owners or prices do anything. What can be promised is that a
call would succeed; `FundsNeverStuck` says this of repay and withdraw, as an
invariant, checked and proved while optimal utilizations are below 1. At 1, which
the code accepts, a message that leaves a market with more debt than collateral is
refused, since the second slope divides by zero; a repayment or a deposit goes
through if it brings the utilization back to 1. Around them there are three processes that act by themselves:

* a *reader* asks for the next page until one is empty (`WF(ReadPage)`):
  `DebtsWalkEnds`, although transactions go on;
* the *keeper* is run by a scheduler at its interval, so time does not pass it
  by, and time passes (`WF(KeeperRuns)`, `WF(TimePasses)`):
  `TwapEventuallyAvailable`. The others who record have no fairness and no limit;
* the *deployment script* goes on until it is done or throws, and whoever deploys
  runs it again (`WF(Skip \/ Succeed \/ Refused \/ Finish)`, `WF(Start)`). Faults
  have no fairness and are bounded by `MaxFaults`: `EventuallyDeployed`. Its one
  exception, `MarketForgotten`, is a market that exists and that the file does
  not know of, because the reply of `init_asset` was lost or the process was
  killed before it saved: each later run calls `init_asset` again, is refused,
  and ends there. It takes an edit of the file to go on. The smoke tests do not
  stand in the way, whatever the failed ones left: each run deposits again before
  it borrows, and once faults end, a run passes. This needs a market and a price
  source for the base asset, as the instance has.

Each property of a passing run has a mutant of a definition (marked *Mutant*,
not used otherwise) that violates it.

### Where code and comments disagree

| Run | What it shows |
|---|---|
| `rewards` | accrued protocol rewards become shares nobody holds; the comment on `apply_accumulated_interests` promises them to the rewards collector |
| `withdraw_health` | a withdrawal that passes the health check can leave its user liquidatable: the check looks at coins, the contract stores truncated shares |
| `two_pairs` | a denom's TWAP source is moved to another pair, but its snapshots stay: the next average is taken from a cumulative price of the earlier pair, and is 40 coins where the pair of the source never returned more than 30; the doc of `query_astroport_twap_price` says the price is from the pair at `pair_address` |

Further places met while modelling, which the modules reproduce and no run is
spent on:

* a loan limit writes a debt of zero (`execute.rs:337`), and `is_borrowing`
  counts it; in a denom without a market it makes `query_user_debts` fail;
* `withdraw` asks for the oracle's address before it knows that it needs it;
* of the snapshots in the window the oldest is taken, where the doc of the source
  says the closest to the window size (`price_source.rs:42`);
* the difference over a wrap-around is one short (`price_source.rs:322`), which
  `TwapIsAverage` allows for;
* an optimal utilization of 1 is valid, and `get_borrow_rate` divides by one less
  the optimal utilization (`interest_rate_model.rs:44`): while debt exceeds
  collateral, messages that leave it so are refused;
* a source that others are read through can be removed, and a new base denom
  does not get the price 1: `NewSourcesResolve` excuses both;
* a page of prices fails as a whole with one of them: `PricesEnumerated` is about
  sources that cannot fail;
* a configured prefix may be longer than the chain's; then addresses of the chain
  are stored unvalidated. `PrefixDecides` is checked with the chain's own;
* the handover to a multisig calls contracts that the script never instantiates,
  first of all `incentives`, and so never gets to the others. The `deployment`
  run is without a multisig;
* `seiMainnetConfig` has the base asset `usei`, opens no market for it, and sets
  `runTests`: the smoke tests' deposit is refused and caught, the borrow is refused
  and ends the run, and what follows in the script is never reached. With a
  `BaseAsset` that is not in `Assets`, `EventuallyDeployed` is violated without any
  fault; in the `deployment` run the base asset has a market.

To run one: `tlc -workers 2 -config MCInterest.cfg MCInterest.tla`.

## What is proved

For all values of the constants that satisfy the named assumptions of the
modules. Those say that constants have their types, that users, denoms and the
oracle's possible sources are finite sets, and little more; a theorem that needs
more says so.

| Module | Theorem | Statement |
|---|---|---|
| `LendingProofs` | `SoundAlways` | the inductive invariant `Sound` |
| | `TypeCorrect`, `MarketsAlwaysValid` | `TypeOK`, `MarketsValid` |
| | `IndexesAlwaysContinuous`, `RatesAlwaysFresh` | `IndexesContinuous`, `RatesFresh` |
| | `FlagsAlwaysAgree` | `UncollateralizedIffLimit` |
| | `PositionsAlwaysIsolated` | `PositionsIsolated` |
| | `OnlyOwnerEverSets` | `OnlyOwnerSetsParams` |
| | `DebtSharesAlwaysConserved` | `DebtSharesConserved` |
| | `CollateralSharesAlwaysCovered` | `CollateralSharesCovered` |
| | `SubtractionsAlwaysSucceed` | no checked subtraction of shares fails |
| | `FundsNeverStuckWithTwoSlopes` | `FundsNeverStuck` in every state with `TwoSlopes` |
| `ClaimsProofs` | `TimeNeverShrinks` | `TimeNeverShrinksClaims` |
| | `EquityNeverShrinks` | `EquityNeverShrinksInABlock` |
| | `SeizureAlwaysPaid` | `SeizureIsPaid` |
| | `OthersNeverHurt` | `OthersNeverHurtHealth` |
| | `LedgerImplemented` | `ImplementsLedger`, if always `SharesAreFine` |
| `PagingProofs` | `WalkAlwaysComplete` | `WalkComplete` of `Paging`, for any finite set of keys |
| `ClientProofs` | `HealthAlwaysAgrees`, `QuotesAlwaysHold` | `HealthAgrees`, `QuotesHold` |
| | `DebtsWalkAlwaysPaged`, `DebtsWalkAlwaysComplete` | `DebtsWalkIsPaged`, `DebtsWalkComplete` |
| | `ClientRunsLending` | lending with a client is lending: `ClientSpec => Spec` |
| `OracleProofs` | `OracleTypeCorrect` | `OracleTypeOK` |
| | `SnapshotsAlwaysBounded` | `SnapshotsBounded` |
| | `RecordingNeverMovesAPrice` | `RecordingMovesNoPrice` |
| | `NewSourcesAlwaysResolve` | `NewSourcesResolve` |
| | `TwapAlwaysAverage` | `TwapIsAverage`, if `OnePairEach` |
| `OracleClientProofs` | `PunctualKeepsAvailable` | `TwapStaysAvailable`, for a `Punctual` keeper |
| | `PricesAlwaysEnumerated` | `PricesEnumerated` |
| `ProtocolProofs` | `DeploymentImplementsLending` | `ImplementsLending`, if always `PricesFit` |
| | `StrangersNeverHurtAnybody` | `StrangersNeverHurt`, if always `PricesFit` |
| | `PrefixAlwaysDecides` | `PrefixDecides`, if every address of the chain has the configured prefixes |
| `DeploymentProofs` | `DeploymentTypeCorrect`, `MarksAlwaysTrue`, `DoneAlwaysWired` | `DeploymentTypeOK`, `MarksAreTrue`, `DoneMeansWired` |

### The hypotheses

* `TwoSlopes`: no market has an optimal utilization of 1. The code accepts 1, and
  then divides by zero while the utilization exceeds it.
* `SharesAreFine`: a share is worth at most a coin, that is, no index has grown to
  10^6 times what it started from. Beyond that a single share is more than the coin
  of `Dust`. It is a hypothesis on the behaviour because nothing in the code stops
  an index. It is not vacuous: every state of `liquidation` satisfies it. It cannot
  be dropped: with one share to the coin and an index of 1.68 a deposit of 2 loses
  more than a coin to truncation.
* `PricesFit`: no price exceeds `MaxPrice`, which stands for `Uint128::MAX`. A
  greater one overflows in the code and the query fails; in the model, whose
  numbers are unbounded, it would be answered.
* *the prefixes*: a configured prefix may be longer than the chain's (see above),
  and then addresses of the chain are not told from others.
* `OnePairEach`: the TWAP sources that the owner may set for a denom are of one
  pair. Without it `TwapIsAverage` does not hold of this code (run `two_pairs`).
* `Punctual`: the keeper comes at least every `tolerance + 2` seconds, for every
  source, and every second for one with a tolerance of 0, whose window is a single
  second. One second more, and the last snapshot may leave the window before the
  next is old enough for it.

### The arguments

*Lending.* `TypeOK` is not inductive: amounts are divided by the indexes, which
must be positive, and the liquidity rate subtracts the reserve factor from 1,
which needs valid parameters. `Sound` adds both for every market, and that no
market has accrued interest past the block time. The first part of `LendingProofs`
shows that each function on markets keeps this. Every step that changes a market
does one of three things to it (`MarketChanged`): it *settles* it (accrues, changes
totals, recomputes the rates), *reparametrises* it (perhaps accruing and
recomputing), or *opens* it. One lemma per handler puts it in a class
(`DepositSettles`, ...); soundness, continuity of the indexes and freshness of
the rates are then proved once per class. Isolation follows: within a block the
indexes are continuous, so a user's coins change only when the shares do, and
lemmas per handler say whose shares it moves; that shares exist only in denoms
with a market, except for debts of zero, is an invariant of its own
(`SharesAlwaysHaveMarkets`). The flag and the limit are compared entry by entry
over the steps that write either map.

*Ownership.* The strengthening is `RoleInv`: without an owner there is no
proposed and no emergency owner either, so nobody becomes one. Then only the
emergency owner's branch is left to anybody but the owner.

*Sums of shares.* A total is a sum over users, which the community modules define
by a recursion over a set that a CHOOSE takes apart. It is shown that the recursion
has a solution on the subsets of every finite set, by the least size of a
counterexample, and what the sums need is derived from it: one element taken out
(`SumSplit`), and two functions that differ at one argument. What remains is
bookkeeping: each message changes the shares of one user (two, in a liquidation) in
a denom by what it changes the total by. Collateral is a bound only, since accrual
adds shares to the total that nobody holds. It follows that a part never exceeds
the total, so the checked subtractions succeed. With that, a repayment or a
withdrawal can fail only where the rates are computed, and with two slopes these
always can be: `FundsNeverStuckWithTwoSlopes`.

*Time.* When time moves nothing else in the contract does, and every operation
from the index to the coins (linear interest, products, quotients, both
roundings) is monotone.

*Coins.* Truncation and rounding up are characterised by the products that bracket
them. Per message it is shown what the accounts of its user gain or lose against
the coins paid (`DepositCoins`, ..., `LiquidateCoins`): an account gains at most
what is paid in, and a debt shrinks by at most what is repaid. Within a block a
second accrual changes nothing, so the coins can be computed from the accrued
market before and after. Equity then shrinks in no message, since sums change
where one summand does. With the same effects, and `SharesAreFine` for the coin
that rounding may take, each message is a step of `Ledger`. For `SeizureIsPaid` the
roundings of `liquidation_compute_amounts` are followed in both of its branches.

*Health.* The weighted and unweighted sums over a user's positions are sums of
functions of denoms, and monotone in them. A message of somebody else leaves the
user's debts no higher and collaterals no lower, denom by denom; the one of a user
that may lower the health (disabling a collateral) checks it. A liquidation lowers
both, but is refused for a healthy user. `HealthAgrees` is an equality of the same
sums: entries that the computation from coins drops are worth zero.

*Paging and readers.* The strengthening of `WalkComplete` is `WalkInv`: the keys
given are those up to the reader's place, none twice, and all of them that stayed.
Pages must not be empty before the end, for which the theorem assumes positive
limits (`PagingAssumption`). A page of any size exists for every finite set of
numbers; with this, and the reader's place being zero or a key (`LastIsKey`),
reading debts is a step of `Paging` and every other step of lending is one of its
changes of the map. `DebtsWalkAlwaysComplete` is then the theorem of `Paging`
carried over: `Walk` and `WalkProofs` are instances of the same definitions.

*Oracle.* `OracleSound` is the types, snapshots in order of time and not of the
future, and sources such as validation accepts. `retain` is a selection that keeps
the order. For `SnapshotsBounded`, of two snapshots of a denom the later is more
than the tolerance in force after the earlier, so those in a window are few. For
`RecordingMovesNoPrice`, what is purged was out of the window of the source, and
what is added is too young for it; that the prices of other denoms do not move
either is an induction over the links of their chains: the recursion of
`PriceWithin` is solved as the sums are. For `NewSourcesResolve`, a chain that
resolves is no longer than there are denoms with a source, and a source set for a
new denom adds one link at its end.

*Averages.* The invariant (`SnapshotsAccounted`) is that the cumulative price of a
pair is what any snapshot of it says plus the sum of the increments of every second
since, modulo the wrap-around. A second adds one term to each such sum, a recording
adds a snapshot whose sum is empty, and purging only drops some. An increment is a
quotient, so the sum of the increments is below the quotient of the coins' sum by
at most one digit a second (`SumsOfQuotients`); the difference that the code takes
is that sum, or one less over a wrap-around (`DeltaIsGrowth`); and the two
divisions from there to the price, one of which adjusts precisions for stable
pairs, lose what `TwapIsAverage` allows (`XykAverage`, `StableAverage`). The lemmas
on sums are those of `LendingProofs`, restated for intervals of seconds.

*Keeper.* Invariant (`KeeperInv`): every snapshot is followed by another at most
`2 * tolerance + 1` seconds later, or the keeper's next run is no later than that.
Others who record only add snapshots; a run of the keeper finds the last snapshot
too fresh, in which case that one serves, or adds one. Then a snapshot in the
window has a successor that enters it no later than it leaves, and the average
stays available. That a page of prices has the price that is asked for alone goes
link by link again.

*Protocol.* Prices are unsigned through every chain, the averages included: their
period is positive, and the difference of the cumulative prices is taken modulo
the wrap-around. So what lending sees of the oracle is one of the answers it is
specified with, and each step of the three contracts is a step of lending, a move
of its environment, or a stutter. `O` and `OP`, `L` and `LP` are pairs of instances
of the same definitions, with and without the theorems; lemmas say so
(`SamePrices`, ...), and carry the theorems on each contract alone over.
`StrangersNeverHurt` is `OthersNeverHurtHealth` for steps of lending and
`RecordingMovesNoPrice` for those of the oracle; the price of each denom that the
user has an entry in must be shown to be answered after the step, too.

*Deployment.* `MarksAreTrue` needs that memory and file are each truthful about
the contracts they name, that the contracts the script is past instantiating are
in memory, and that the file is behind the memory while the script runs
(`FileBehind`): a new address provider would otherwise leave a mark in a file that
names an old one. `DoneMeansWired` adds (`Complete`) that the contracts remembered
name each other (`Linked`) and that what the script is past is done (`Progress`).
A smoke test moves the deployer's coins and nothing that these speak of.

### Only model-checked

* Liveness (`DebtsWalkEnds`, `TwapEventuallyAvailable`, `EventuallyDeployed`) and
  ENABLED are out of the prover's reach.
* `InterestIsCovered` is a statement about precision and not true of all
  constants: an index has as many digits as `One`, and an amount with more digits
  than that turns the rounding of an index into more than a coin. With the code's
  10^18 and 10^6 it takes more than 10^24 shares, that is, amounts of 10^18 of a
  denom; `owner` checks it for amounts that are as small against its `One`.

To check the proofs: `tlapm LendingProofs.tla`, and the same for `ClaimsProofs`,
`PagingProofs`, `ClientProofs`, `OracleProofs`, `OracleClientProofs`,
`ProtocolProofs` and `DeploymentProofs`. Each takes one to eight minutes from
nothing; a module that extends another with proofs checks only its own.

## Not modelled

* Events, attributes, error texts, string and address formats, the validity of
  denoms.
* The chains' configurations; in the smoke tests, interest and anybody else's coins.
* `packages/testing`, `integration-tests`, `schemas`, the generated clients.
* Incentives, rewards collector and swapper: message types without a contract.
* More than one oracle contract or address provider in `Protocol`; `Lending`
  alone has several providers.

Some queries are written down for completeness and no property is about them
(stored items returned as they are, and pages of other maps than debts and
prices, which are read through the same operators of `Pages`).

## Left to do

1. A bound on the amounts, as a hypothesis, under which `InterestIsCovered` holds.
2. Larger instances: three users; an uncollateralized borrower beside an ordinary
   one.
