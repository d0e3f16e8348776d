------------------------------ MODULE MCKeeper ------------------------------
(***************************************************************************)
(* Two denoms, with different windows, and a keeper that is just fast      *)
(* enough for the smaller tolerance.                                       *)
(***************************************************************************)
EXTENDS Keeper, TLC

CONSTANTS admin, atom, luna, usd, osmo, pair, pair2

MCPairAssets == [p \in Pair |-> <<osmo, IF p = pair THEN atom ELSE luna>>]

MCPairType == [p \in Pair |-> "xyk"]

MCUnit == [d \in Denom |-> 10]

MCReturn == [k \in Side |-> {20}]

MCSources ==
    atom :> [type |-> "astroport_twap", pair |-> pair, window_size |-> 4, tolerance |-> 1]
        @@ luna :> [type |-> "astroport_twap", pair |-> pair2, window_size |-> 4, tolerance |-> 2]

MCSourceInput == {<<d, MCSources[d]>> : d \in DOMAIN MCSources}
=============================================================================
