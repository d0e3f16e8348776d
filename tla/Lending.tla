------------------------------ MODULE Lending ------------------------------
(***************************************************************************)
(* The lending contract: contracts/lending/src.                            *)
(*                                                                         *)
(* A step is a transaction that succeeds, a new block, or a move of the    *)
(* oracle.  A handler that returns an error, panics, or whose bank message *)
(* fails is rolled back as a whole, so its step is simply not enabled:     *)
(* each `?` and each early return of a handler is a conjunct of its        *)
(* action.  Handlers compute on local copies and save them at the end;     *)
(* the actions below keep their order through LET.                         *)
(***************************************************************************)
EXTENDS InterestRates, OwnerRole, Health, Storage

CONSTANTS
    User,           \* the addresses that hold positions
    Denom,          \* the denoms markets may be opened for
    Provider,       \* the address providers the contract may be configured with
    Supply,         \* Supply[d]: all the coins of denom d that exist
    Unlimited,      \* the default deposit cap (Uint128::MAX in the code)
    \* The inputs of messages:
    Amount,         \* coins attached to, or named in, a message
    Status,         \* collateral statuses that users ask for
    LoanLimit,      \* uncollateralized loan limits the owner may set
    ConfigInput,    \* CreateOrUpdateConfig: records of the fields that are given
    AssetInput,     \* InitOrUpdateAssetParams: likewise
    UpdateInput,    \* likewise, of the messages that update an asset
    OwnerInput,     \* the kinds of owner updates that are sent
    \* The environment:
    Answers,        \* what the oracles behind the address providers may answer
    TimeStep,       \* the seconds that may pass between two blocks
    MaxTime         \* bound on time

VARIABLES
    role,           \* OWNER
    config,         \* CONFIG
    markets,        \* MARKETS: denom -> Market
    collaterals,    \* COLLATERALS: <<user, denom>> -> Collateral
    debts,          \* DEBTS: <<user, denom>> -> Debt
    limits,         \* UNCOLLATERALIZED_LOAN_LIMITS: <<user, denom>> -> coins
    balance,        \* the coins the bank module holds for the contract
    oracle,         \* oracle[p]: the prices answered by the oracle known to
                    \* p, for each address provider p that knows one on this
                    \* chain
    now             \* the block time, in seconds

vars == <<role, config, markets, collaterals, debts, limits, balance, oracle, now>>

AssetParam ==
    {"max_loan_to_value", "reserve_factor", "liquidation_threshold",
     "liquidation_bonus", "interest_rate_model", "deposit_enabled",
     "borrow_enabled", "deposit_cap"}

ParamValue ==
    [max_loan_to_value |-> Decimal, reserve_factor |-> Decimal,
     liquidation_threshold |-> Decimal, liquidation_bonus |-> Decimal,
     interest_rate_model |-> InterestRateModel, deposit_enabled |-> BOOLEAN,
     borrow_enabled |-> BOOLEAN, deposit_cap |-> Uint]

ASSUME InputAssumption ==
    /\ None \notin User \cup Denom \cup Provider \cup Amount
    /\ Supply \in [Denom -> Nat]
    /\ Unlimited \in Nat
    /\ Amount \subseteq Nat \ {0}
    /\ Status \subseteq BOOLEAN
    /\ LoanLimit \subseteq Nat
    /\ \A c \in ConfigInput :
        /\ "address_provider" \in DOMAIN c => c.address_provider \in Provider
        /\ "close_factor" \in DOMAIN c => c.close_factor \in Decimal
    /\ \A p \in AssetInput \cup UpdateInput :
        \A f \in AssetParam \cap DOMAIN p : p[f] \in ParamValue[f]
    /\ OwnerInput \subseteq OwnerUpdates
    /\ \A answers \in Answers :
        /\ DOMAIN answers \subseteq Provider
        /\ \A p \in DOMAIN answers : IsMap(answers[p], Denom, Decimal)
    /\ TimeStep \subseteq Nat \ {0}
    /\ MaxTime \in Nat

\* An account exists once it has been created, and a denom once there are coins of
\* it, so there are finitely many.
ASSUME FiniteAssumption == IsFiniteSet(User) /\ IsFiniteSet(Denom)

Position == User \X Denom

Config == [address_provider : Provider, close_factor : Decimal]

Collateral == [amount_scaled : Uint, enabled : BOOLEAN]

Debt == [amount_scaled : Uint, uncollateralized : BOOLEAN]

-----------------------------------------------------------------------------
(***************************************************************************)
(* A user's positions: contracts/lending/src/user.rs                       *)
(***************************************************************************)

Limit(u, d) == LoadOr(limits, <<u, d>>, 0)

HasDebt(u, d) == <<u, d>> \in DOMAIN debts

HasCollateral(u, d) == <<u, d>> \in DOMAIN collaterals

DebtScaled(u, d) == IF HasDebt(u, d) THEN debts[<<u, d>>].amount_scaled ELSE 0

CollateralScaled(u, d) ==
    IF HasCollateral(u, d) THEN collaterals[<<u, d>>].amount_scaled ELSE 0

IsBorrowing(u) == \E d \in Denom : HasDebt(u, d)

\* Mutant: reads the entry as it was before the handler changed it.
IncreaseStaleCollateral(colls, u, d, scaled) ==
    Save(colls, <<u, d>>, [amount_scaled |-> CollateralScaled(u, d) + scaled,
                           enabled |-> TRUE])

IncreaseCollateral(colls, u, d, scaled) ==
    Save(colls, <<u, d>>,
         IF <<u, d>> \in DOMAIN colls
         THEN [colls[<<u, d>>] EXCEPT !.amount_scaled = @ + scaled]
         ELSE [amount_scaled |-> scaled, enabled |-> TRUE])

DecreaseCollateral(colls, u, d, scaled) ==
    IF colls[<<u, d>>].amount_scaled = scaled
    THEN Remove(colls, <<u, d>>)
    ELSE Save(colls, <<u, d>>, [colls[<<u, d>>] EXCEPT !.amount_scaled = @ - scaled])

\* Mutant: a borrow resets the flag.
IncreaseCollateralizedDebt(u, d, scaled, uncollateralized) ==
    Save(debts, <<u, d>>, [amount_scaled |-> DebtScaled(u, d) + scaled,
                           uncollateralized |-> FALSE])

IncreaseDebt(u, d, scaled, uncollateralized) ==
    Save(debts, <<u, d>>, [amount_scaled |-> DebtScaled(u, d) + scaled,
                           uncollateralized |-> uncollateralized])

\* Mutant: what is left of a debt is forgotten when it is less than a coin.
DecreaseDebtToDust(u, d, scaled) ==
    IF debts[<<u, d>>].amount_scaled - scaled < ScalingFactor
    THEN Remove(debts, <<u, d>>)
    ELSE Save(debts, <<u, d>>, [debts[<<u, d>>] EXCEPT !.amount_scaled = @ - scaled])

DecreaseDebt(u, d, scaled) ==
    IF debts[<<u, d>>].amount_scaled = scaled
    THEN Remove(debts, <<u, d>>)
    ELSE Save(debts, <<u, d>>, [debts[<<u, d>>] EXCEPT !.amount_scaled = @ - scaled])

-----------------------------------------------------------------------------
(***************************************************************************)
(* The health of a user's positions: contracts/lending/src/health.rs       *)
(***************************************************************************)

\* query_contract_addrs(Oracle) succeeds.
OracleKnown == config.address_provider \in DOMAIN oracle

Prices == oracle[config.address_provider]

PriceKnown(d) == OracleKnown /\ d \in DOMAIN Prices

\* The denoms u has an entry in, were the collaterals colls.
PositionDenoms(u, colls) ==
    {d \in Denom : <<u, d>> \in DOMAIN colls \cup DOMAIN debts}

\* Every load and query that get_user_positions_map makes succeeds.
PositionsDefined(u, colls) ==
    \A d \in PositionDenoms(u, colls) : d \in DOMAIN markets /\ PriceKnown(d)

\* An uncollateralized debt does not count; a disabled collateral neither.
Positions(u, colls) ==
    [d \in PositionDenoms(u, colls) |->
        [collateral_amount |->
            IF <<u, d>> \in DOMAIN colls /\ colls[<<u, d>>].enabled
            THEN UnderlyingLiquidity(colls[<<u, d>>].amount_scaled, markets[d], now)
            ELSE 0,
         debt_amount |->
            IF HasDebt(u, d) /\ ~debts[<<u, d>>].uncollateralized
            THEN UnderlyingDebt(debts[<<u, d>>].amount_scaled, markets[d], now)
            ELSE 0,
         price |-> Prices[d],
         max_ltv |-> markets[d].max_loan_to_value,
         liquidation_threshold |-> markets[d].liquidation_threshold]]

\* Mutant: looks at the collaterals in storage, not at the changed ones.
LiquidatableBefore(u, colls) ==
    PositionsDefined(u, collaterals) /\ IsLiquidatable(Positions(u, collaterals))

Liquidatable(u, colls) ==
    PositionsDefined(u, colls) /\ IsLiquidatable(Positions(u, colls))

HealthyAfterWithdraw(u, d, amount) ==
    LET positions == Positions(u, collaterals)
    IN  /\ PositionsDefined(u, collaterals)
        /\ amount <= positions[d].collateral_amount
        /\ ~IsLiquidatable([positions EXCEPT ![d].collateral_amount = @ - amount])

\* A new debt in a denom without an entry adds a position that holds nothing.
\* The debt is added to an existing position, and counts unless that position
\* is marked as uncollateralized.
WithinMaxLtvAfterBorrow(u, d, amount) ==
    LET positions == Positions(u, collaterals)
        counted == IF HasDebt(u, d) /\ debts[<<u, d>>].uncollateralized THEN 0 ELSE amount
        after == IF d \in DOMAIN positions
                 THEN [positions EXCEPT ![d].debt_amount = @ + counted]
                 ELSE Save(positions, d,
                           [collateral_amount |-> 0, debt_amount |-> amount,
                            price |-> Prices[d], max_ltv |-> 0,
                            liquidation_threshold |-> 0])
    IN  /\ PositionsDefined(u, collaterals)
        /\ PriceKnown(d)
        /\ ~IsAboveMaxLtv(after)

-----------------------------------------------------------------------------
(***************************************************************************)
(* The bank module (external).  Coins attached to a message are credited   *)
(* before the handler runs; a send fails for zero coins and for more coins *)
(* than the contract has.                                                  *)
(***************************************************************************)

CanAttach(d, amount) == balance[d] + amount <= Supply[d]

CanSend(d, amount) == 0 < amount /\ amount <= balance[d]

-----------------------------------------------------------------------------
(***************************************************************************)
(* Instantiation and the owner's handlers: contracts/lending/src/execute.rs *)
(***************************************************************************)

Given(input, field, default) == IF field \in DOMAIN input THEN input[field] ELSE default

ValidConfig(c) == c.close_factor <= One

Init ==
    /\ \E a \in Admin : role = InitialRole(a)
    /\ \E c \in ConfigInput :
        /\ {"address_provider", "close_factor"} \subseteq DOMAIN c
        /\ config = [address_provider |-> c.address_provider,
                     close_factor |-> c.close_factor]
        /\ ValidConfig(config)
    /\ markets = EmptyMap
    /\ collaterals = EmptyMap
    /\ debts = EmptyMap
    /\ limits = EmptyMap
    /\ balance = [d \in Denom |-> 0]
    /\ oracle \in Answers
    /\ now = 0

UpdateOwner(sender, update) ==
    /\ role' \in UpdatedRoles(role, update, sender)
    /\ UNCHANGED <<config, markets, collaterals, debts, limits, balance, oracle, now>>

UpdateConfig(sender, input) ==
    LET new == [address_provider |->
                    Given(input, "address_provider", config.address_provider),
                close_factor |-> Given(input, "close_factor", config.close_factor)]
    IN  /\ IsOwner(role, sender)
        /\ ValidConfig(new)
        /\ config' = new
        /\ UNCHANGED <<role, markets, collaterals, debts, limits, balance, oracle, now>>

NewMarket(input) ==
    [max_loan_to_value |-> input.max_loan_to_value,
     liquidation_threshold |-> input.liquidation_threshold,
     liquidation_bonus |-> input.liquidation_bonus,
     reserve_factor |-> input.reserve_factor,
     interest_rate_model |-> input.interest_rate_model,
     borrow_index |-> One, liquidity_index |-> One,
     borrow_rate |-> 0, liquidity_rate |-> 0,
     indexes_last_updated |-> now,
     collateral_total_scaled |-> 0, debt_total_scaled |-> 0,
     deposit_enabled |-> input.deposit_enabled,
     borrow_enabled |-> input.borrow_enabled,
     deposit_cap |-> Given(input, "deposit_cap", Unlimited)]

InitAsset(sender, d, input) ==
    /\ IsOwner(role, sender)
    /\ d \notin DOMAIN markets
    /\ AssetParam \ {"deposit_cap"} \subseteq DOMAIN input
    /\ ValidMarket(NewMarket(input))
    /\ markets' = Save(markets, d, NewMarket(input))
    /\ UNCHANGED <<role, config, collaterals, debts, limits, balance, oracle, now>>

\* Mutant: the rates depend on the model only.
TouchesModel(market, input) == "interest_rate_model" \in DOMAIN input

\* Whether the update closes the period the current rates were valid in.
TouchesRates(market, input) ==
    \/ "reserve_factor" \in DOMAIN input /\ input.reserve_factor # market.reserve_factor
    \/ "interest_rate_model" \in DOMAIN input

WithParams(market, input) ==
    [market EXCEPT
        !.max_loan_to_value = Given(input, "max_loan_to_value", @),
        !.reserve_factor = Given(input, "reserve_factor", @),
        !.liquidation_threshold = Given(input, "liquidation_threshold", @),
        !.liquidation_bonus = Given(input, "liquidation_bonus", @),
        !.interest_rate_model = Given(input, "interest_rate_model", @),
        !.deposit_enabled = Given(input, "deposit_enabled", @),
        !.borrow_enabled = Given(input, "borrow_enabled", @),
        !.deposit_cap = Given(input, "deposit_cap", @)]

\* Mutant: the market is validated before the given fields are merged.
UpdateAssetValidatedEarly(d, input) ==
    LET touches == TouchesRates(markets[d], input)
        accrued == IF touches THEN ApplyAccumulatedInterests(markets[d], now)
                   ELSE markets[d]
        updated == WithParams(accrued, input)
    IN  /\ ValidMarket(accrued)
        /\ markets' = Save(markets, d, IF touches THEN UpdateInterestRates(updated, now)
                                       ELSE updated)

\* Mutant: interest accrues after the rates have changed.
UpdateAssetRatesFirst(d, input) ==
    LET touches == TouchesRates(markets[d], input)
        updated == WithParams(markets[d], input)
        rated   == UpdateInterestRates(updated, now)
    IN  /\ ValidMarket(updated)
        /\ markets' = Save(markets, d, IF touches THEN ApplyAccumulatedInterests(rated, now)
                                       ELSE updated)

UpdateAssetByOwner(d, input) ==
    LET touches == TouchesRates(markets[d], input)
        accrued == IF touches THEN ApplyAccumulatedInterests(markets[d], now)
                   ELSE markets[d]
        updated == WithParams(accrued, input)
    IN  /\ ValidMarket(updated)
        /\ touches => RatesDefined(updated, now)
        /\ markets' = Save(markets, d, IF touches THEN UpdateInterestRates(updated, now)
                                       ELSE updated)

\* Mutant: the other fields of the message are applied as well.
UpdateAllByEmergencyOwner(d, input) ==
    /\ "borrow_enabled" \in DOMAIN input
    /\ ~input.borrow_enabled
    /\ markets' = [markets EXCEPT ![d] = WithParams(@, input)]

UpdateAssetByEmergencyOwner(d, input) ==
    /\ "borrow_enabled" \in DOMAIN input
    /\ ~input.borrow_enabled
    /\ markets' = [markets EXCEPT ![d].borrow_enabled = FALSE]

UpdateAsset(sender, d, input) ==
    /\ d \in DOMAIN markets
    /\ \/ /\ IsOwner(role, sender)
          /\ UpdateAssetByOwner(d, input)
       \/ /\ ~IsOwner(role, sender)
          /\ IsEmergencyOwner(role, sender)
          /\ UpdateAssetByEmergencyOwner(d, input)
    /\ UNCHANGED <<role, config, collaterals, debts, limits, balance, oracle, now>>

\* The entry in debts is written even when nothing is owed, and the denom need
\* not have a market.
UpdateUncollateralizedLoanLimit(sender, u, d, new_limit) ==
    /\ IsOwner(role, sender)
    /\ ~(Limit(u, d) = 0 /\ DebtScaled(u, d) # 0)
    /\ ~(Limit(u, d) # 0 /\ new_limit = 0 /\ DebtScaled(u, d) # 0)
    /\ limits' = Save(limits, <<u, d>>, new_limit)
    /\ debts' = Save(debts, <<u, d>>, [amount_scaled |-> DebtScaled(u, d),
                                       uncollateralized |-> new_limit # 0])
    /\ UNCHANGED <<role, config, markets, collaterals, balance, oracle, now>>

-----------------------------------------------------------------------------
(***************************************************************************)
(* The users' handlers: contracts/lending/src/execute.rs                   *)
(***************************************************************************)

\* `market` is the local copy a handler has changed: the rates are recomputed
\* and the market is saved.
SaveMarket(d, market) ==
    /\ RatesDefined(market, now)
    /\ markets' = Save(markets, d, UpdateInterestRates(market, now))

\* Anybody deposits on behalf of u.  The cap is checked before interest accrues.
Deposit(u, d, amount) ==
    LET market == ApplyAccumulatedInterests(markets[d], now)
        scaled == ScaledLiquidity(amount, market, now)
    IN  /\ CanAttach(d, amount)
        /\ d \in DOMAIN markets
        /\ markets[d].deposit_enabled
        /\ UnderlyingLiquidity(markets[d].collateral_total_scaled, markets[d], now)
             + amount <= markets[d].deposit_cap
        /\ market.liquidity_index # 0
        /\ collaterals' = IncreaseCollateral(collaterals, u, d, scaled)
        /\ SaveMarket(d, IncreaseTotalCollateral(market, scaled))
        /\ balance' = [balance EXCEPT ![d] = @ + amount]
        /\ UNCHANGED <<role, config, debts, limits, oracle, now>>

\* Mutant: the withdrawn coins are scaled, rather than those that are left.
ScaledWithdrawal(u, d, amount) == ScaledLiquidity(amount, markets[d], now)

\* The shares that a withdrawal of `amount` coins burns: what is left is
\* computed in coins and scaled again.
WithdrawnShares(u, d, amount) ==
    LET before == CollateralScaled(u, d)
        left   == UnderlyingLiquidity(before, markets[d], now) - amount
    IN  before - ScaledLiquidity(left, ApplyAccumulatedInterests(markets[d], now), now)

\* `request` is an amount, or None for everything.
Withdraw(u, d, request) ==
    LET before == CollateralScaled(u, d)
        owned  == UnderlyingLiquidity(before, markets[d], now)
        amount == IF request = None THEN owned ELSE request
        market == ApplyAccumulatedInterests(markets[d], now)
        scaled == WithdrawnShares(u, d, amount)
    IN  /\ d \in DOMAIN markets
        /\ before # 0
        /\ amount <= owned
        /\ OracleKnown
        /\ collaterals[<<u, d>>].enabled /\ IsBorrowing(u)
             => HealthyAfterWithdraw(u, d, amount)
        /\ 0 <= scaled
        /\ collaterals' = DecreaseCollateral(collaterals, u, d, scaled)
        /\ scaled <= market.collateral_total_scaled
        /\ SaveMarket(d, DecreaseTotalCollateral(market, scaled))
        /\ CanSend(d, amount)
        /\ balance' = [balance EXCEPT ![d] = @ - amount]
        /\ UNCHANGED <<role, config, debts, limits, oracle, now>>

Borrow(u, d, amount) ==
    LET market == ApplyAccumulatedInterests(markets[d], now)
        scaled == ScaledDebt(amount, market, now)
        uncollateralized == Limit(u, d) # 0
    IN  /\ d \in DOMAIN markets
        /\ markets[d].borrow_enabled
        /\ amount <= UnderlyingLiquidity(markets[d].collateral_total_scaled,
                                         markets[d], now)
        /\ OracleKnown
        /\ ~uncollateralized => WithinMaxLtvAfterBorrow(u, d, amount)
        /\ uncollateralized =>
             UnderlyingDebt(DebtScaled(u, d), markets[d], now) + amount <= Limit(u, d)
        /\ debts' = IncreaseDebt(u, d, scaled, uncollateralized)
        /\ SaveMarket(d, IncreaseTotalDebt(market, scaled))
        /\ CanSend(d, amount)
        /\ balance' = [balance EXCEPT ![d] = @ - amount]
        /\ UNCHANGED <<role, config, collaterals, limits, oracle, now>>

\* The coins of u's debt left by a repayment of `amount` coins; what exceeds
\* the debt is refunded.
LeftToRepay(owed, amount) == IF amount > owed THEN 0 ELSE owed - amount

\* Mutant: what is left is scaled with the index in storage.
RepaidSharesAtStoredIndex(u, d, amount) ==
    LET owed == UnderlyingDebt(DebtScaled(u, d), markets[d], now)
    IN  DebtScaled(u, d)
          - ScaledCeil(LeftToRepay(owed, amount), markets[d].borrow_index)

\* The shares it burns.
RepaidShares(u, d, amount) ==
    LET market == ApplyAccumulatedInterests(markets[d], now)
        before == DebtScaled(u, d)
        owed   == UnderlyingDebt(before, market, now)
    IN  before - ScaledDebt(LeftToRepay(owed, amount), market, now)

Repay(u, d, amount, on_behalf_of) ==
    LET market == ApplyAccumulatedInterests(markets[d], now)
        owed   == UnderlyingDebt(DebtScaled(u, d), market, now)
        scaled == RepaidShares(u, d, amount)
    IN  /\ CanAttach(d, amount)
        /\ on_behalf_of => Limit(u, d) = 0
        /\ HasDebt(u, d)
        /\ d \in DOMAIN markets
        /\ 0 <= scaled
        /\ scaled <= market.debt_total_scaled
        /\ debts' = DecreaseDebt(u, d, scaled)
        /\ SaveMarket(d, DecreaseTotalDebt(market, scaled))
        /\ balance' = [balance EXCEPT ![d] = @ + (owed - LeftToRepay(owed, amount))]
        /\ UNCHANGED <<role, config, collaterals, limits, oracle, now>>

-----------------------------------------------------------------------------
(***************************************************************************)
(* Liquidation: contracts/lending/src/execute.rs                           *)
(***************************************************************************)

\* The coins of collateral that a repayment of debt buys.
CollateralFor(repaid, bonus, collateral_price, debt_price) ==
    DivideUintByDecimal(UintMul(UintMul(repaid, debt_price), bonus), collateral_price)

\* The repayment of debt that buys some coins of collateral.
DebtFor(seized, bonus, collateral_price, debt_price) ==
    DivideUintByDecimal(
        DivideUintByDecimal(UintMul(seized, collateral_price), debt_price), bonus)

\* The coins of debt repaid, and the coins and shares of collateral seized for
\* them, when `sent` coins are offered against a debt of `owed` coins and the
\* user holds `held` shares of the collateral.
LiquidationAmounts(held, owed, sent, market, collateral_price, debt_price) ==
    LET bonus     == One + market.liquidation_bonus
        repayable == Min({sent, UintMul(owed, config.close_factor)})
        wanted    == CollateralFor(repayable, bonus, collateral_price, debt_price)
        wanted_scaled == ScaledLiquidity(wanted, market, now)
        whole     == UnderlyingLiquidity(held, market, now)
    IN  IF wanted_scaled > held
        THEN [repaid |-> DebtFor(whole, bonus, collateral_price, debt_price),
              seized |-> whole, seized_scaled |-> held]
        ELSE [repaid |-> repayable, seized |-> wanted, seized_scaled |-> wanted_scaled]

\* Mutant: only a liquidation without a reward is refused.
SeizesSomething(result) == result.seized # 0 \/ result.repaid = 0

\* Neither side of a liquidation is zero unless both are.
BothOrNothing(result) == (result.seized = 0) <=> (result.repaid = 0)

\* u's shares of c go to r, against a repayment of u's debt in d.  The market
\* of c is left alone unless it is the market of d.
Liquidate(u, r, c, d, sent) ==
    LET debt_market == ApplyAccumulatedInterests(markets[d], now)
        owed_scaled == debts[<<u, d>>].amount_scaled
        owed   == UnderlyingDebt(owed_scaled, markets[d], now)
        result == LiquidationAmounts(collaterals[<<u, c>>].amount_scaled, owed, sent,
                                     markets[c], Prices[c], Prices[d])
        scaled == owed_scaled - ScaledDebt(owed - result.repaid, markets[d], now)
    IN  /\ CanAttach(d, sent)
        /\ Limit(u, d) = 0
        /\ HasCollateral(u, c)
        /\ collaterals[<<u, c>>].enabled
        /\ HasDebt(u, d)
        /\ OracleKnown
        /\ Liquidatable(u, collaterals)
        /\ Prices[c] # 0
        /\ BothOrNothing(result)
        /\ result.repaid <= sent
        /\ result.seized_scaled <= collaterals[<<u, c>>].amount_scaled
        /\ collaterals' =
             IncreaseCollateral(DecreaseCollateral(collaterals, u, c, result.seized_scaled),
                                r, c, result.seized_scaled)
        /\ result.repaid <= owed
        /\ 0 <= scaled
        /\ debts' = DecreaseDebt(u, d, scaled)
        /\ scaled <= markets[d].debt_total_scaled
        /\ SaveMarket(d, DecreaseTotalDebt(debt_market, scaled))
        /\ balance' = [balance EXCEPT ![d] = @ + result.repaid]
        /\ UNCHANGED <<role, config, limits, oracle, now>>

\* Disabling must leave the user healthy; the check sees the new status.
UpdateAssetCollateralStatus(u, d, enable) ==
    LET updated == [collaterals EXCEPT ![<<u, d>>].enabled = enable]
    IN  /\ HasCollateral(u, d)
        /\ collaterals' = updated
        /\ collaterals[<<u, d>>].enabled /\ ~enable
             => /\ OracleKnown
                /\ PositionsDefined(u, updated)
                /\ ~Liquidatable(u, updated)
        /\ UNCHANGED <<role, config, markets, debts, limits, balance, oracle, now>>

-----------------------------------------------------------------------------
(***************************************************************************)
(* The environment (external): blocks, and the oracle behind each address  *)
(* provider, which answers each denom with any price, or with an error.    *)
(* A provider may also come to know no oracle, or one of another chain.    *)
(***************************************************************************)

Tick(seconds) ==
    /\ now + seconds <= MaxTime
    /\ now' = now + seconds
    /\ oracle' \in Answers
    /\ UNCHANGED <<role, config, markets, collaterals, debts, limits, balance>>

OracleMoves ==
    /\ oracle' \in Answers
    /\ UNCHANGED <<role, config, markets, collaterals, debts, limits, balance, now>>

-----------------------------------------------------------------------------

OwnerStep ==
    \E sender \in Admin :
        \/ \E update \in OwnerInput : UpdateOwner(sender, update)
        \/ \E input \in ConfigInput : UpdateConfig(sender, input)
        \/ \E d \in Denom, input \in AssetInput : InitAsset(sender, d, input)
        \/ \E d \in Denom, input \in UpdateInput : UpdateAsset(sender, d, input)
        \/ \E u \in User, d \in Denom, new_limit \in LoanLimit :
              UpdateUncollateralizedLoanLimit(sender, u, d, new_limit)

UserStep ==
    \E u \in User, d \in Denom :
        \/ \E amount \in Amount : Deposit(u, d, amount)
        \/ \E request \in Amount \cup {None} : Withdraw(u, d, request)
        \/ \E amount \in Amount : Borrow(u, d, amount)
        \/ \E amount \in Amount, on_behalf_of \in BOOLEAN :
              Repay(u, d, amount, on_behalf_of)
        \/ \E r \in User, c \in Denom, sent \in Amount : Liquidate(u, r, c, d, sent)
        \/ \E enable \in Status : UpdateAssetCollateralStatus(u, d, enable)

EnvironmentStep ==
    \/ \E seconds \in TimeStep : Tick(seconds)
    \/ OracleMoves

Next == OwnerStep \/ UserStep \/ EnvironmentStep

Spec == Init /\ [][Next]_vars
=============================================================================
