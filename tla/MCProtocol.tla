----------------------------- MODULE MCProtocol -----------------------------
(***************************************************************************)
(* Two denoms, each with a market: usd is the base denom, and osmo is      *)
(* priced by a feed or by the average of its pair with usd.  The owner     *)
(* sets up all three contracts step by step.                               *)
(***************************************************************************)
EXTENDS Protocol

CONSTANTS u1, admin, osmo, usd, pair, feed, provider, oracle_contract, hub_account, typo,
    chain

MCSupply == [d \in Denom |-> 1]

MCPairAssets == [p \in Pair |-> <<osmo, usd>>]

MCPairType == [p \in Pair |-> "xyk"]

MCUnit == [d \in Denom |-> 1]

MCReturn == [k \in Pair \X Denom |-> {2}]

\* The average of the last two seconds, or the quote of a feed.
MCSources ==
    {osmo} \X
        {[type |-> "astroport_twap", pair |-> pair, window_size |-> 2, tolerance |-> 1],
         [type |-> "pyth", feed |-> feed, max_staleness |-> 1, denom_decimals |-> 0]}

\* A price, and what is not one.
MCQuote == {[price |-> price, expo |-> 0] : price \in {2, -2}}

MCConfigInput == {[address_provider |-> provider, close_factor |-> 5]}

MCAssetInput ==
    {[max_loan_to_value |-> 6, reserve_factor |-> 0, liquidation_threshold |-> 8,
      liquidation_bonus |-> 1,
      interest_rate_model |->
        [optimal_utilization_rate |-> 8, base |-> 0, slope_1 |-> 0, slope_2 |-> 0],
      deposit_enabled |-> TRUE, borrow_enabled |-> TRUE]}

\* typo looks like an address of the chain, and is none.
MCStartsWith == {admin, oracle_contract, typo} \X Prefix

MCAddressInput == {"oracle"} \X Address
=============================================================================
