------------------------- MODULE LendingProperties -------------------------
(***************************************************************************)
(* What the lending contract promises.                                     *)
(***************************************************************************)
EXTENDS Lending

\* Every item the contract stores has the type of the Rust struct that
\* declares it (packages/types/src/lending), and unsigned integers stay so.
TypeOK ==
    /\ role \in Role
    /\ config \in Config
    /\ IsMap(markets, Denom, Market)
    /\ IsMap(collaterals, Position, Collateral)
    /\ IsMap(debts, Position, Debt)
    /\ IsMap(limits, Position, Uint)
    /\ balance \in [Denom -> Nat]
    /\ DOMAIN oracle \subseteq Provider
    /\ \A p \in DOMAIN oracle : IsMap(oracle[p], Denom, Decimal)
    /\ now \in Nat

-----------------------------------------------------------------------------
(***************************************************************************)
(* Shares and totals                                                       *)
(***************************************************************************)

TotalOf(Scaled(_, _), d) == SumFunction([u \in User |-> Scaled(u, d)])

\* The debt total a market computes its interest from is exactly the debt its
\* users have: borrow, repay and liquidate, and every rounding in them, change
\* debt_total_scaled and the borrower's entry in DEBTS by the same shares.
DebtSharesConserved ==
    \A d \in DOMAIN markets : TotalOf(DebtScaled, d) = markets[d].debt_total_scaled

\* A market has at least the collateral shares its users hold, so that
\* decreasing the total never underflows in withdraw.  (Not exactly: the
\* protocol's shares are counted in the total only.)
CollateralSharesCovered ==
    \A d \in DOMAIN markets :
        TotalOf(CollateralScaled, d) <= markets[d].collateral_total_scaled

\* The flag that takes a debt out of the health factor and the limit that takes
\* its place agree for every entry, although borrow, repay, liquidate and the
\* owner write them in different maps.  If they did not, a borrow could be
\* checked against the collateral and then not count against it.
UncollateralizedIffLimit ==
    \A k \in DOMAIN debts : debts[k].uncollateralized <=> LoadOr(limits, k, 0) # 0

-----------------------------------------------------------------------------
(***************************************************************************)
(* Rates and indexes                                                       *)
(***************************************************************************)

\* Each way to open or change a market leaves its parameters valid, whatever
\* mix of fields the message gives.
MarketsValid == \A d \in DOMAIN markets : ValidMarket(markets[d])

Untouched(m) ==
    /\ m.borrow_rate = 0 /\ m.liquidity_rate = 0
    /\ m.collateral_total_scaled = 0 /\ m.debt_total_scaled = 0
    /\ m.borrow_index = One /\ m.liquidity_index = One

\* The stored rates are those of the stored totals, indexes and parameters: no
\* handler changes anything the rates depend on and leaves the rates behind.
\* (A market nobody has used yet still has the zero rates it was opened with.)
RatesFresh ==
    \A d \in DOMAIN markets :
        LET m == markets[d]
        IN  Untouched(m) \/ UpdateInterestRates(m, m.indexes_last_updated) = m

\* No transaction changes what the indexes are worth in its block.  Interest is
\* always that of the rates in force while the time passed: new parameters and
\* new totals apply from now on only, as update_asset_by_owner says of them.
IndexesContinuous ==
    [][now' = now =>
        \A d \in DOMAIN markets :
            /\ UpdatedBorrowIndex(markets[d], now)' = UpdatedBorrowIndex(markets[d], now)
            /\ UpdatedLiquidityIndex(markets[d], now)'
                 = UpdatedLiquidityIndex(markets[d], now)]_vars

\* The owner of the moment alone sets what the protocol runs on, whoever held or
\* was promised the role before: a message of anybody else that update_asset
\* accepts at most disables borrowing, whatever other fields it has, and once
\* the role is abolished the parameters, the configuration, the loan limits and
\* the role itself are frozen.
OnlyOwnerSetsParams ==
    [][/\ \A sender \in Admin, d \in DOMAIN markets, input \in UpdateInput :
            ~IsOwner(role, sender) /\ UpdateAsset(sender, d, input) =>
                markets' = [markets EXCEPT ![d].borrow_enabled = FALSE]
       /\ role.owner = None =>
            /\ <<role, config, limits>>' = <<role, config, limits>>
            /\ \A d \in DOMAIN markets', f \in AssetParam :
                  d \in DOMAIN markets /\ markets'[d][f] = markets[d][f]]_vars

-----------------------------------------------------------------------------
(***************************************************************************)
(* Coins                                                                   *)
(***************************************************************************)

DebtOf(u, d) ==
    IF d \in DOMAIN markets THEN UnderlyingDebt(DebtScaled(u, d), markets[d], now) ELSE 0

CollateralOf(u, d) ==
    IF d \in DOMAIN markets
    THEN UnderlyingLiquidity(CollateralScaled(u, d), markets[d], now)
    ELSE 0

\* What the contract has and is owed in d, less what it owes its depositors and
\* the protocol (with the interest that has accrued but is not stored yet).
Equity(d) ==
    LET m == ApplyAccumulatedInterests(markets[d], now)
    IN  balance[d] + TotalOf(DebtOf, d)
          - UnderlyingFloor(m.collateral_total_scaled, m.liquidity_index)

\* Rounding is in favour of the protocol: within a block no transaction, and so
\* no sequence of them, takes more coins out of a market than it gives up in
\* claims.
EquityNeverShrinksInABlock ==
    [][now' = now => \A d \in DOMAIN markets : Equity(d)' >= Equity(d)]_vars

\* The interest that time credits is charged, although the rates come from a
\* utilization of a ceiled debt over a floored collateral and every index, share
\* and rate is rounded: the equity of a market loses in time at most the interest
\* on a coin of debt and on a coin of collateral, which those roundings are, and
\* a coin for each amount that is rounded to be told.  This is about amounts that
\* are small against One: the rounding of an index is worth more than a coin to an
\* amount that has more digits than the index.
InterestIsCovered ==
    [][now' # now =>
        \A d \in DOMAIN markets :
            LET m == markets[d]
                utilization == UtilizationRate(m, m.indexes_last_updated)
                interest == (m.borrow_rate * (One + utilization) * (now' - now))
                              \div (One * One * SecondsPerYear)
            IN  Equity(d)' >= Equity(d) - interest - Cardinality(User) - 1]_vars

\* Waiting never loses coins to either side: when only time passes no debt and
\* no deposit gets smaller.
TimeNeverShrinksClaims ==
    [][now' # now =>
        \A u \in User, d \in Denom :
            DebtOf(u, d)' >= DebtOf(u, d) /\ CollateralOf(u, d)' >= CollateralOf(u, d)]_vars

\* Within a block a user's debt changes by a borrow or repayment of that debt
\* or a liquidation that repays it, and a deposit gets smaller by its owner's
\* withdrawal or a liquidation that seizes it; nobody else's transaction, by
\* the interest it stores or the rates it changes, moves them by a coin.
PositionsIsolated ==
    [][now' = now =>
        \A u \in User, d \in Denom :
            /\ DebtOf(u, d)' # DebtOf(u, d) =>
                \E amount \in Amount :
                    \/ Borrow(u, d, amount)
                    \/ \E on_behalf_of \in BOOLEAN : Repay(u, d, amount, on_behalf_of)
                    \/ \E r \in User, c \in Denom : Liquidate(u, r, c, d, amount)
            /\ CollateralOf(u, d)' < CollateralOf(u, d) =>
                \/ \E request \in Amount \cup {None} : Withdraw(u, d, request)
                \/ \E r \in User, c \in Denom, sent \in Amount :
                      Liquidate(u, r, d, c, sent)]_vars

Accounts == INSTANCE Ledger WITH
    owned <- [k \in Position |-> CollateralOf(k[1], k[2])],
    owed  <- [k \in Position |-> DebtOf(k[1], k[2])],
    cash  <- balance,
    Dust  <- 1

\* The contract implements the accounts: every message moves exactly the
\* accounts it names, by the coins that the bank moves and at most one coin of
\* rounding against the user (or between the parties of a liquidation), and
\* whatever else it stores, updates or mints is not visible in them.
ImplementsLedger == Accounts!Spec

\* A debtor can repay, and a depositor can withdraw, any part of what there is:
\* no rounding makes a checked subtraction of repay or withdraw fail, be it from
\* the user's shares or from the market's total, and the rates of the market
\* that is left are defined.
FundsNeverStuck ==
    \A u \in User, d \in DOMAIN markets, amount \in Amount :
        LET m == ApplyAccumulatedInterests(markets[d], now)
            repaid == RepaidShares(u, d, amount)
            withdrawn == WithdrawnShares(u, d, amount)
        IN  /\ DebtOf(u, d) > 0 =>
                /\ repaid \in 0 .. m.debt_total_scaled
                /\ RatesDefined(DecreaseTotalDebt(m, repaid), now)
            /\ amount <= CollateralOf(u, d) =>
                /\ withdrawn \in 0 .. m.collateral_total_scaled
                /\ RatesDefined(DecreaseTotalCollateral(m, withdrawn), now)

-----------------------------------------------------------------------------
(***************************************************************************)
(* Health and liquidation                                                  *)
(***************************************************************************)

Healthy(u) ==
    PositionsDefined(u, collaterals) /\ ~IsLiquidatable(Positions(u, collaterals))

\* A user who is healthy stays so, until a price, the time or the owner's
\* parameters change, or the user withdraws or borrows.  Deposits, repayments,
\* liquidations of others and changes of collateral status cannot push anybody
\* below, however they round.
OthersNeverHurtHealth ==
    [][\A u \in User :
        Healthy(u) /\ ~Healthy(u)' =>
            \/ EnvironmentStep
            \/ OwnerStep
            \/ ~PositionsDefined(u, collaterals)'
            \/ \E d \in Denom :
                \/ \E request \in Amount \cup {None} : Withdraw(u, d, request)
                \/ \E amount \in Amount : Borrow(u, d, amount)]_vars

\* Coins of collateral that u loses, and coins the contract gains, in a step.
Lost(u, c) == CollateralOf(u, c) - CollateralOf(u, c)'

Paid(d) == balance[d]' - balance[d]

\* Collateral is never taken for nothing, nor, up to the rounding, for less
\* than it is worth: what a liquidated user loses, but for a coin, is worth at
\* most the repayment and the bonus, with a coin more repaid, and the price of
\* another coin of the debt and a unit of the base asset for the roundings.
SeizureIsPaid ==
    [][\A u \in User, c \in Denom :
        Lost(u, c) > 0 =>
            \A r \in User, d \in Denom, sent \in Amount :
                Liquidate(u, r, c, d, sent) =>
                    /\ Paid(d) > 0
                    /\ (Lost(u, c) - 1) * Prices[c] * One
                         <= (Paid(d) + 1) * Prices[d] * (One + markets[c].liquidation_bonus)
                              + (Prices[d] + One) * One]_vars

-----------------------------------------------------------------------------
(***************************************************************************)
(* What comments and error messages say, and the code does not do.         *)
(***************************************************************************)

\* interest_rates.rs says that accrued protocol rewards are minted to the
\* rewards collector: then every collateral share of a market has an owner.
CollateralSharesOwned ==
    \A d \in DOMAIN markets :
        TotalOf(CollateralScaled, d) = markets[d].collateral_total_scaled

\* error.rs says that a health factor can't be less than 1 after withdraw.
HealthyAfterOwnWithdraw ==
    [][\A u \in User, d \in Denom, request \in Amount \cup {None} :
        Withdraw(u, d, request) /\ Healthy(u) => Healthy(u)']_vars
=============================================================================
