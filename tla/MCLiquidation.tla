--------------------------- MODULE MCLiquidation ---------------------------
(***************************************************************************)
(* Health and liquidation: two markets, two users, and prices that move.   *)
(***************************************************************************)
EXTENDS LendingProperties, TLC

CONSTANTS u1, u2, admin, atom, osmo, provider

MCSymmetry == Permutations(User)

MCSupply == [d \in Denom |-> 4]

\* Two prices of osmo, and a provider that knows no oracle.
MCAnswers ==
    {EmptyMap} \cup
    {[p \in Provider |-> [d \in Denom |-> IF d = atom THEN 100 ELSE price]] :
        price \in {60, 120}}

MCConfigInput == {[address_provider |-> provider, close_factor |-> 60]}

MCAssetInput ==
    {[max_loan_to_value |-> 60, reserve_factor |-> 20, liquidation_threshold |-> 80,
      liquidation_bonus |-> 100,
      interest_rate_model |->
        [optimal_utilization_rate |-> 80, base |-> 0, slope_1 |-> 20, slope_2 |-> 60],
      deposit_enabled |-> TRUE, borrow_enabled |-> TRUE, deposit_cap |-> 4]}
=============================================================================
