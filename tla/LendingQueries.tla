--------------------------- MODULE LendingQueries ---------------------------
(***************************************************************************)
(* The queries of the lending contract: contracts/lending/src/query.rs,    *)
(* and the health that other contracts compute from coins with them:       *)
(* packages/health/src.                                                    *)
(*                                                                         *)
(* A query changes nothing.  It is the set of its answers: one, or none    *)
(* where the query fails.                                                  *)
(***************************************************************************)
EXTENDS LendingProperties, Pages, Functions

CONSTANT DenomKey   \* DenomKey[d]: the place of d in the order of the bytes

ASSUME DenomKeyAssumption == DenomKey \in [Denom -> Nat \ {0}] /\ IsInjective(DenomKey)

KeysOf(denoms) == {DenomKey[d] : d \in denoms}

\* A page of the answers for some denoms.
Paged(denoms, start_after, limit, Answer(_)) ==
    LET start == IF start_after = None THEN 0 ELSE DenomKey[start_after]
    IN  Collected(PageOf(denoms, DenomKey, start, limit), Answer)

-----------------------------------------------------------------------------

QueryConfig ==
    {[owner |-> role.owner, proposed_new_owner |-> role.proposed,
      emergency_owner |-> role.emergency_owner,
      address_provider |-> config.address_provider,
      close_factor |-> config.close_factor]}

QueryMarket(d) == {markets[k] : k \in {d} \cap DOMAIN markets}

QueryMarkets(start_after, limit) ==
    Paged(DOMAIN markets, start_after, limit, QueryMarket)

QueryUncollateralizedLoanLimit(u, d) == {Limit(u, d)}

QueryUncollateralizedLoanLimits(u, start_after, limit) ==
    Paged({d \in Denom : <<u, d>> \in DOMAIN limits}, start_after, limit,
          LAMBDA d : QueryUncollateralizedLoanLimit(u, d))

\* Mutant: the interest that is not stored yet is left out.
QueryStoredDebt(u, d) ==
    {[amount_scaled |-> DebtScaled(u, d),
      amount |-> UnderlyingCeil(DebtScaled(u, d), market.borrow_index),
      uncollateralized |-> HasDebt(u, d) /\ debts[<<u, d>>].uncollateralized] :
        market \in QueryMarket(d)}

QueryUserDebt(u, d) ==
    {[amount_scaled |-> DebtScaled(u, d),
      amount |-> UnderlyingDebt(DebtScaled(u, d), market, now),
      uncollateralized |-> HasDebt(u, d) /\ debts[<<u, d>>].uncollateralized] :
        market \in QueryMarket(d)}

QueryUserDebts(u, start_after, limit) ==
    Paged({d \in Denom : HasDebt(u, d)}, start_after, limit,
          LAMBDA d : QueryUserDebt(u, d))

QueryUserCollateral(u, d) ==
    {[amount_scaled |-> CollateralScaled(u, d),
      amount |-> UnderlyingLiquidity(CollateralScaled(u, d), market, now),
      enabled |-> HasCollateral(u, d) /\ collaterals[<<u, d>>].enabled] :
        market \in QueryMarket(d)}

QueryUserCollaterals(u, start_after, limit) ==
    Paged({d \in Denom : HasCollateral(u, d)}, start_after, limit,
          LAMBDA d : QueryUserCollateral(u, d))

QueryScaledLiquidityAmount(d, amount) ==
    {ScaledLiquidity(amount, market, now) : market \in QueryMarket(d)}

QueryScaledDebtAmount(d, amount) ==
    {ScaledDebt(amount, market, now) : market \in QueryMarket(d)}

QueryUnderlyingLiquidityAmount(d, scaled) ==
    {UnderlyingLiquidity(scaled, market, now) : market \in QueryMarket(d)}

QueryUnderlyingDebtAmount(d, scaled) ==
    {UnderlyingDebt(scaled, market, now) : market \in QueryMarket(d)}

-----------------------------------------------------------------------------
(***************************************************************************)
(* The health of a user, asked of the contract, and computed from coins.   *)
(***************************************************************************)

TotalCollateralValue(positions) ==
    MapThenSumSet(LAMBDA d : Value(positions[d].collateral_amount, positions[d].price),
                  DOMAIN positions)

\* Without debt there is no health factor: the user is not borrowing.
HealthFactor(adjusted_collateral, debt_value) ==
    IF debt_value = 0 THEN None ELSE FromRatio(adjusted_collateral, debt_value)

HealthOf(positions) ==
    LET debt_value == TotalDebtValue(positions)
        max_ltv    == MaxLtvAdjustedCollateral(positions)
        threshold  == LiquidationThresholdAdjustedCollateral(positions)
    IN  [total_collateral |-> TotalCollateralValue(positions),
         total_debt |-> debt_value,
         weighted_max_ltv_collateral |-> max_ltv,
         weighted_liquidation_threshold_collateral |-> threshold,
         max_ltv_hf |-> HealthFactor(max_ltv, debt_value),
         liq_threshold_hf |-> HealthFactor(threshold, debt_value)]

QueryUserPosition(u) ==
    IF OracleKnown /\ PositionsDefined(u, collaterals)
    THEN {HealthOf(Positions(u, collaterals))}
    ELSE {}

\* Mutant: a debt replaces the collateral of the same denom.
PositionsFromEither(collateral, debt) ==
    [d \in DOMAIN collateral \cup DOMAIN debt |->
        [collateral_amount |-> IF d \in DOMAIN debt THEN 0 ELSE collateral[d],
         debt_amount |-> LoadOr(debt, d, 0),
         price |-> Prices[d],
         max_ltv |-> markets[d].max_loan_to_value,
         liquidation_threshold |-> markets[d].liquidation_threshold]]

\* Coins are a function from denoms to amounts.
PositionsFromCoins(collateral, debt) ==
    [d \in DOMAIN collateral \cup DOMAIN debt |->
        [collateral_amount |-> LoadOr(collateral, d, 0),
         debt_amount |-> LoadOr(debt, d, 0),
         price |-> Prices[d],
         max_ltv |-> markets[d].max_loan_to_value,
         liquidation_threshold |-> markets[d].liquidation_threshold]]

ComputeHealthFromCoins(collateral, debt) ==
    IF \A d \in DOMAIN collateral \cup DOMAIN debt : d \in DOMAIN markets /\ PriceKnown(d)
    THEN {HealthOf(PositionsFromCoins(collateral, debt))}
    ELSE {}

-----------------------------------------------------------------------------

\* What the docs of the queries say a transaction of the same block will do, it
\* does: a deposit and a borrow add the shares quoted for their amount,
\* repaying the quoted debt cancels it, and withdrawing the quoted collateral
\* closes the position.  (The queries compute with the market as it is stored,
\* the handlers with the interest applied to a copy.)
QuotesHold ==
    [][\A u \in User, d \in Denom, amount \in Amount :
        LET paid == balance'[d] - balance[d]
        IN  /\ paid = amount /\ Deposit(u, d, amount) =>
                CollateralScaled(u, d)' - CollateralScaled(u, d)
                    \in QueryScaledLiquidityAmount(d, amount)
            /\ paid = -amount /\ Borrow(u, d, amount) =>
                DebtScaled(u, d)' - DebtScaled(u, d) \in QueryScaledDebtAmount(d, amount)
            /\ paid \in 0 .. amount /\ Repay(u, d, amount, FALSE) =>
                \A debt \in QueryUserDebt(u, d) : debt.amount <= amount => ~HasDebt(u, d)'
            /\ paid = -amount /\ Withdraw(u, d, amount) =>
                \A collateral \in QueryUserCollateral(u, d) :
                    collateral.amount = amount => ~HasCollateral(u, d)']_vars

\* The coins that a user's debts and deposits amount to, as the queries tell
\* them: what counts for the user's health.
CollateralCoins(u) ==
    [d \in {e \in Denom : HasCollateral(u, e) /\ collaterals[<<u, e>>].enabled} |->
        CHOOSE amount \in {c.amount : c \in QueryUserCollateral(u, d)} : TRUE]

DebtCoins(u) ==
    [d \in {e \in Denom : HasDebt(u, e) /\ ~debts[<<u, e>>].uncollateralized} |->
        CHOOSE amount \in {c.amount : c \in QueryUserDebt(u, d)} : TRUE]

\* The two ways to the health of a user agree: a contract that computes it from
\* the coins the user has and owes comes to what UserPosition answers, in which
\* it is computed from entries and flags.
HealthAgrees ==
    \A u \in User : \A health \in QueryUserPosition(u) :
        ComputeHealthFromCoins(CollateralCoins(u), DebtCoins(u)) = {health}
=============================================================================
