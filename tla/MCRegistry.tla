----------------------------- MODULE MCRegistry -----------------------------
(***************************************************************************)
(* Chains of sources: atom and osmo are priced through each other on one   *)
(* pair, or by Pyth through usd.  One pair has a cw20 token and one has    *)
(* three assets.  Time and trades hardly matter here.                      *)
(***************************************************************************)
EXTENDS OracleQueries

CONSTANTS admin, admin2, atom, osmo, usd, luna, pair, cw20_pair, big_pair, token, feed

MCPairAssets ==
    [p \in Pair |-> CASE p = pair -> <<atom, osmo>>
                      [] p = cw20_pair -> <<atom, token>>
                      [] p = big_pair -> <<atom, osmo, luna>>]

MCPairType == [p \in Pair |-> "xyk"]

MCUnit == [d \in Denom |-> 10]

MCReturn == [k \in Side |-> {20}]

Fixed(price) == [type |-> "fixed", price |-> price]

Spot(p) == [type |-> "astroport_spot", pair |-> p]

Pyth == [type |-> "pyth", feed |-> feed, max_staleness |-> 1, denom_decimals |-> 1]

MCSourceInput ==
    {<<atom, Spot(p)>> : p \in Pair}
        \cup {<<atom, Pyth>>, <<osmo, Spot(pair)>>, <<osmo, Fixed(15)>>,
              <<usd, Fixed(200)>>, <<usd, Pyth>>}

MCQuote == {[price |-> 3, expo |-> 1], [price |-> 35, expo |-> -1]}

MCDenomKey ==
    [d \in Denom |-> CASE d = atom -> 1 [] d = luna -> 2 [] d = osmo -> 3 [] d = usd -> 4]
=============================================================================
