----------------------------- MODULE MCInterest -----------------------------
(***************************************************************************)
(* Interest and shares: one market, two users, a fixed price, and blocks   *)
(* far enough apart for debts to outgrow their collateral.                 *)
(***************************************************************************)
EXTENDS LendingProperties, TLC

CONSTANTS u1, u2, admin, atom, provider

MCSymmetry == Permutations(User)

MCSupply == [d \in Denom |-> 4]

MCAnswers == {[p \in Provider |-> [d \in Denom |-> 100]]}

MCConfigInput == {[address_provider |-> provider, close_factor |-> 50]}

MCModel == [optimal_utilization_rate |-> 80, base |-> 10, slope_1 |-> 40, slope_2 |-> 100]

MCAssetInput ==
    {[max_loan_to_value |-> 80, reserve_factor |-> 50, liquidation_threshold |-> 90,
      liquidation_bonus |-> 10, interest_rate_model |-> MCModel,
      deposit_enabled |-> TRUE, borrow_enabled |-> TRUE, deposit_cap |-> 4]}
=============================================================================
