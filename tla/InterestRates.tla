--------------------------- MODULE InterestRates ---------------------------
(***************************************************************************)
(* A market of the lending contract as a value, and the functions of       *)
(* contracts/lending/src/interest_rates.rs and                             *)
(* packages/types/src/lending/{market,interest_rate_model}.rs on it.       *)
(*                                                                         *)
(* Users own shares ("scaled amounts").  An index turns shares into coins: *)
(* the borrow index for debts, the liquidity index for collateral.  An     *)
(* index is stored with the time it was last updated and the rate it grows *)
(* at, so its value at a later time t is computed when it is needed        *)
(* (UpdatedBorrowIndex, UpdatedLiquidityIndex), and only written back when *)
(* a handler touches the market (ApplyAccumulatedInterests).               *)
(***************************************************************************)
EXTENDS Decimals

CONSTANTS
    ScalingFactor,      \* shares minted per coin at index 1 (10^6 in the code)
    SecondsPerYear      \* 31536000 in the code

ASSUME ScalingAssumption ==
    /\ ScalingFactor \in Nat \ {0}
    /\ SecondsPerYear \in Nat \ {0}

InterestRateModel ==
    [optimal_utilization_rate : Decimal, base : Decimal,
     slope_1 : Decimal, slope_2 : Decimal]

Market ==
    [max_loan_to_value : Decimal, liquidation_threshold : Decimal,
     liquidation_bonus : Decimal, reserve_factor : Decimal,
     interest_rate_model : InterestRateModel,
     borrow_index : Decimal, liquidity_index : Decimal,
     borrow_rate : Decimal, liquidity_rate : Decimal,
     indexes_last_updated : Nat,
     collateral_total_scaled : Uint, debt_total_scaled : Uint,
     deposit_enabled : BOOLEAN, borrow_enabled : BOOLEAN, deposit_cap : Uint]

ValidMarket(m) ==
    /\ m.reserve_factor < One
    /\ m.max_loan_to_value <= One
    /\ m.liquidation_threshold <= One
    /\ m.liquidation_bonus <= One
    /\ m.liquidation_threshold > m.max_loan_to_value
    /\ m.interest_rate_model.optimal_utilization_rate <= One

-----------------------------------------------------------------------------
(***************************************************************************)
(* Indexes                                                                 *)
(***************************************************************************)

\* Mutant: only the interest, without what it is earned on.
InterestAlone(index, rate, elapsed) ==
    DecimalMul(index, DecimalMul(rate, FromRatio(elapsed, SecondsPerYear)))

AppliedLinearInterest(index, rate, elapsed) ==
    DecimalMul(index, One + DecimalMul(rate, FromRatio(elapsed, SecondsPerYear)))

UpdatedBorrowIndex(m, t) ==
    IF m.indexes_last_updated < t /\ m.borrow_rate # 0
    THEN AppliedLinearInterest(m.borrow_index, m.borrow_rate,
                               t - m.indexes_last_updated)
    ELSE m.borrow_index

UpdatedLiquidityIndex(m, t) ==
    IF m.indexes_last_updated < t /\ m.liquidity_rate # 0
    THEN AppliedLinearInterest(m.liquidity_index, m.liquidity_rate,
                               t - m.indexes_last_updated)
    ELSE m.liquidity_index

-----------------------------------------------------------------------------
(***************************************************************************)
(* Shares to coins and back.  Liquidity is truncated, debt is rounded up.  *)
(***************************************************************************)

ScaledFloor(amount, index) == DivideUintByDecimal(amount * ScalingFactor, index)

ScaledCeil(amount, index) == DivideUintByDecimalCeil(amount * ScalingFactor, index)

UnderlyingFloor(scaled, index) == UintMul(scaled, index) \div ScalingFactor

UnderlyingCeil(scaled, index) == DivCeil(UintMul(scaled, index), ScalingFactor)

ScaledLiquidity(amount, m, t) == ScaledFloor(amount, UpdatedLiquidityIndex(m, t))

UnderlyingLiquidity(scaled, m, t) ==
    UnderlyingFloor(scaled, UpdatedLiquidityIndex(m, t))

ScaledDebt(amount, m, t) == ScaledCeil(amount, UpdatedBorrowIndex(m, t))

UnderlyingDebt(scaled, m, t) == UnderlyingCeil(scaled, UpdatedBorrowIndex(m, t))

-----------------------------------------------------------------------------
(***************************************************************************)
(* Accrual.  The protocol's share of the interest becomes collateral       *)
(* shares of the market; the lines that would give them to the rewards     *)
(* collector are commented out, so nobody owns them.                       *)
(***************************************************************************)

\* The part of the interest accrued up to t that the protocol keeps, in coins.
AccruedProtocolRewards(m, t) ==
    LET before == UnderlyingCeil(m.debt_total_scaled, m.borrow_index)
        after  == UnderlyingCeil(m.debt_total_scaled, UpdatedBorrowIndex(m, t))
    IN  UintMul(IF after > before THEN after - before ELSE 0, m.reserve_factor)

\* Mutant: the market forgets when interest was last applied.
ApplyInterestsAgain(m, t) ==
    [m EXCEPT
        !.borrow_index = UpdatedBorrowIndex(m, t),
        !.liquidity_index = UpdatedLiquidityIndex(m, t)]

ApplyAccumulatedInterests(m, t) ==
    [m EXCEPT
        !.borrow_index = UpdatedBorrowIndex(m, t),
        !.liquidity_index = UpdatedLiquidityIndex(m, t),
        !.indexes_last_updated = IF @ < t THEN t ELSE @,
        !.collateral_total_scaled =
            @ + ScaledLiquidity(AccruedProtocolRewards(m, t), m, t)]

-----------------------------------------------------------------------------
(***************************************************************************)
(* Rates                                                                   *)
(***************************************************************************)

\* The only division of get_borrow_rate that can fail: an optimal utilization
\* of 1 leaves no room for the second slope.
BorrowRateDefined(irm, utilization) ==
    utilization > irm.optimal_utilization_rate => irm.optimal_utilization_rate # One

BorrowRate(irm, utilization) ==
    LET optimal == irm.optimal_utilization_rate
    IN  IF utilization = 0
        THEN irm.base
        ELSE IF utilization <= optimal
        THEN irm.base
             + DecimalMul(irm.slope_1, DivideDecimalByDecimal(utilization, optimal))
        ELSE irm.base + irm.slope_1
             + DivideDecimalByDecimal(DecimalMul(irm.slope_2, utilization - optimal),
                                      One - optimal)

\* Mutant: the operands of the subtraction are swapped.
SwappedLiquidityRate(borrow_rate, utilization, reserve_factor) ==
    DecimalMul(DecimalMul(borrow_rate, utilization), reserve_factor - One)

\* Mutant: depositors earn the rate of the debt on all that they own.
RateOnEverything(borrow_rate, utilization, reserve_factor) == borrow_rate

LiquidityRate(borrow_rate, utilization, reserve_factor) ==
    DecimalMul(DecimalMul(borrow_rate, utilization), One - reserve_factor)

UtilizationRate(m, t) ==
    LET collateral == UnderlyingLiquidity(m.collateral_total_scaled, m, t)
        debt       == UnderlyingDebt(m.debt_total_scaled, m, t)
    IN  IF collateral = 0 THEN 0 ELSE FromRatio(debt, collateral)

\* update_interest_rates returns an error exactly when this is false.
RatesDefined(m, t) == BorrowRateDefined(m.interest_rate_model, UtilizationRate(m, t))

UpdateInterestRates(m, t) ==
    LET utilization == UtilizationRate(m, t)
        borrow_rate == BorrowRate(m.interest_rate_model, utilization)
    IN  [m EXCEPT
            !.borrow_rate = borrow_rate,
            !.liquidity_rate =
                LiquidityRate(borrow_rate, utilization, m.reserve_factor)]

-----------------------------------------------------------------------------
(***************************************************************************)
(* Totals                                                                  *)
(***************************************************************************)

IncreaseTotalCollateral(m, scaled) == [m EXCEPT !.collateral_total_scaled = @ + scaled]

DecreaseTotalCollateral(m, scaled) == [m EXCEPT !.collateral_total_scaled = @ - scaled]

IncreaseTotalDebt(m, scaled) == [m EXCEPT !.debt_total_scaled = @ + scaled]

DecreaseTotalDebt(m, scaled) == [m EXCEPT !.debt_total_scaled = @ - scaled]
=============================================================================
