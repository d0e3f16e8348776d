------------------------------- MODULE Health -------------------------------
(***************************************************************************)
(* packages/health/src/health.rs: the health of a user's positions.        *)
(*                                                                         *)
(* Positions are a function from denoms to records of the amounts held and *)
(* owed (in coins), the price, and the two risk parameters of the market.  *)
(* Prices value coins in the base asset, truncating.                       *)
(***************************************************************************)
EXTENDS Decimals, FiniteSetsExt

Value(amount, price) == UintMul(amount, price)

TotalDebtValue(positions) ==
    MapThenSumSet(LAMBDA d : Value(positions[d].debt_amount, positions[d].price),
                  DOMAIN positions)

MaxLtvAdjustedCollateral(positions) ==
    MapThenSumSet(LAMBDA d : UintMul(Value(positions[d].collateral_amount,
                                           positions[d].price),
                                     positions[d].max_ltv),
                  DOMAIN positions)

LiquidationThresholdAdjustedCollateral(positions) ==
    MapThenSumSet(LAMBDA d : UintMul(Value(positions[d].collateral_amount,
                                           positions[d].price),
                                     positions[d].liquidation_threshold),
                  DOMAIN positions)

\* The health factor is undefined without debt; such a user is healthy.
BelowOne(adjusted_collateral, debt_value) ==
    debt_value # 0 /\ FromRatio(adjusted_collateral, debt_value) < One

IsLiquidatable(positions) ==
    BelowOne(LiquidationThresholdAdjustedCollateral(positions),
             TotalDebtValue(positions))

IsAboveMaxLtv(positions) ==
    BelowOne(MaxLtvAdjustedCollateral(positions), TotalDebtValue(positions))
=============================================================================
