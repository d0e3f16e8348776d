--------------------------- MODULE OracleQueries ---------------------------
(***************************************************************************)
(* The queries of the oracle: contracts/oracle/base/src/contract.rs.  (The *)
(* price of one coin, which handlers and other sources ask for, is Price   *)
(* of Oracle.)                                                             *)
(***************************************************************************)
EXTENDS OracleProperties, Pages

CONSTANT DenomKey   \* DenomKey[d]: the place of d in the order of the bytes,
                    \* counted from 1

ASSUME DenomKeyAssumption ==
    /\ DenomKey \in [Denom -> Nat \ {0}]
    /\ \A d, other \in Denom : DenomKey[d] = DenomKey[other] => d = other
    /\ None \notin Denom

Paged(start_after, limit, Answer(_)) ==
    LET start == IF start_after = None THEN 0 ELSE DenomKey[start_after]
    IN  Collected(PageOf(DOMAIN price_sources, DenomKey, start, limit), Answer)

QueryConfig ==
    {[owner |-> role.owner, proposed_new_owner |-> role.proposed,
      base_denom |-> base_denom]}

QueryPriceSource(d) == {price_sources[k] : k \in {d} \cap DOMAIN price_sources}

QueryPriceSources(start_after, limit) == Paged(start_after, limit, QueryPriceSource)

QueryPrices(start_after, limit) == Paged(start_after, limit, Price)

-----------------------------------------------------------------------------

\* The doc of QueryMsg::Prices says that it enumerates all coins' prices.  So it
\* does, at the price that each of them has when it is asked for alone, as long
\* as every source can be followed to its end and the ends are prices fixed by
\* the owner.  (A page fails as a whole when one of its prices does, so that a
\* stale feed, or an average that is not there yet, hides the others.)
PricesEnumerated ==
    /\ AllResolve
    /\ \A d \in DOMAIN price_sources : price_sources[d].type \in {"fixed", "astroport_spot"}
    => \A d \in DOMAIN price_sources :
        \E start_after \in DOMAIN price_sources \cup {None} :
            \E page \in QueryPrices(start_after, NoLimit) :
                d \in DOMAIN page /\ Price(d) = {page[d]}
=============================================================================
