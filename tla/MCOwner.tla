------------------------------ MODULE MCOwner ------------------------------
(***************************************************************************)
(* The owner's messages: updates of an asset that mix valid and invalid    *)
(* fields, loan limits in a denom that may not have a market, changes of   *)
(* the roles and of the configuration, with what a user does meanwhile.    *)
(***************************************************************************)
EXTENDS LendingProperties, TLC

CONSTANTS u1, admin, guardian, atom, provider, provider2

MCSymmetry == Permutations(Admin)

MCSupply == [d \in Denom |-> 40]

MCAnswers == {[p \in Provider |-> [d \in Denom |-> 100]]}

MCConfigInput ==
    {[address_provider |-> provider, close_factor |-> 50], [close_factor |-> 101]}
        \cup [address_provider : Provider]

MCModel == [optimal_utilization_rate |-> 80, base |-> 0, slope_1 |-> 20, slope_2 |-> 60]

\* One complete input, one without a field, one that is not valid.
MCAssetInput ==
    LET complete ==
            [max_loan_to_value |-> 60, reserve_factor |-> 20,
             liquidation_threshold |-> 80, liquidation_bonus |-> 25,
             interest_rate_model |-> MCModel,
             deposit_enabled |-> TRUE, borrow_enabled |-> TRUE]
    IN  {complete,
         [f \in DOMAIN complete \ {"reserve_factor"} |-> complete[f]],
         [complete EXCEPT !.max_loan_to_value = 80]}

\* A loan-to-value of 70 is valid with the threshold of 80 a market opens with,
\* and a threshold of 65 with the loan-to-value of 60, but not both.
MCUpdateInput ==
    {[max_loan_to_value |-> 70],
     [liquidation_threshold |-> 65],
     [reserve_factor |-> 50],
     [interest_rate_model |-> [MCModel EXCEPT !.base = 40]],
     [borrow_enabled |-> FALSE, max_loan_to_value |-> 70],
     [borrow_enabled |-> TRUE]}
=============================================================================
