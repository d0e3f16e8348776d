------------------------------ MODULE MCOracle ------------------------------
(***************************************************************************)
(* Averages: atom has a TWAP source on its pair with the base denom, which *)
(* the owner sets, replaces and removes while anybody records snapshots.   *)
(* A token of osmo has ten times the coins of a token of atom.             *)
(***************************************************************************)
EXTENDS OracleProperties

CONSTANTS admin, atom, osmo, usd, pair, other_pair

MCPairAssets == [p \in Pair |-> <<osmo, atom>>]

MCUnit == [d \in Denom |-> IF d = osmo THEN 100 ELSE 10]

MCReturn == [k \in Side |-> IF k[2] = osmo THEN {3} ELSE {100, 255}]

Twap(p, w, t) == [type |-> "astroport_twap", pair |-> p, window_size |-> w, tolerance |-> t]

\* The same window with two tolerances, and a wider one.
MCSourceInput == {<<atom, Twap(pair, 2, 1)>>, <<atom, Twap(pair, 3, 2)>>}

MCStableType == [p \in Pair |-> "stable"]

\* Two pairs of the same denoms, of which one always gives the better price, and
\* a source of atom on each.
MCTwoPairsInput == {<<atom, Twap(p, 2, 1)>> : p \in Pair}

MCTwoPairsReturn == [k \in Side |-> IF k[1] = pair THEN {10, 20} ELSE {30}]

MCXykType == [p \in Pair |-> "xyk"]
=============================================================================
