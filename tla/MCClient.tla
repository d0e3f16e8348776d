------------------------------ MODULE MCClient ------------------------------
(***************************************************************************)
(* Two markets, what their queries say, and a client that reads one user's *)
(* debts page by page.                                                     *)
(***************************************************************************)
EXTENDS LendingClient

CONSTANTS u1, admin, atom, osmo, provider

MCSupply == [d \in Denom |-> IF d = atom THEN 4 ELSE 2]

MCDenomKey == [d \in Denom |-> IF d = atom THEN 1 ELSE 2]

MCAnswers == {[p \in Provider |-> [d \in Denom |-> 100]]}

MCConfigInput == {[address_provider |-> provider, close_factor |-> 50]}

MCAssetInput ==
    {[max_loan_to_value |-> 80, reserve_factor |-> 20, liquidation_threshold |-> 90,
      liquidation_bonus |-> 10,
      interest_rate_model |->
        [optimal_utilization_rate |-> 80, base |-> 10, slope_1 |-> 40, slope_2 |-> 100],
      deposit_enabled |-> TRUE, borrow_enabled |-> TRUE]}
=============================================================================
