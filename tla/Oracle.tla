------------------------------- MODULE Oracle -------------------------------
(***************************************************************************)
(* The oracle contract: contracts/oracle/base/src and                      *)
(* contracts/oracle/wasm/src.                                              *)
(*                                                                         *)
(* A step is a transaction that succeeds, a new block, or a move of the    *)
(* Astroport pairs and Pyth feeds the contract reads.  A query that may    *)
(* fail is the set of its answers: one price, or none.                     *)
(***************************************************************************)
EXTENDS Decimals, OwnerRole, Storage, Sequences, FiniteSets

CONSTANTS
    Denom,          \* the denoms that may be priced, all of them valid
    Usd,            \* the denom "usd"
    Pair,           \* the addresses of Astroport pairs
    PairAssets,     \* PairAssets[p]: the sequence of its assets; an asset that
                    \* is not in Denom is a cw20 token
    PairType,       \* PairType[p]: "xyk", "stable" or "custom"
    Unit,           \* Unit[d]: 10^precision, one whole token of d
    TwapUnit,       \* 10^TWAP_PRECISION
    MaxCumulative,  \* the largest cumulative price (Uint128::MAX)
    Feed,           \* the Pyth feeds
    \* The inputs of messages:
    SourceInput,    \* the <<denom, price source>> the owner may send
    BaseInput,      \* the base denoms the owner may choose
    RecordInput,    \* the sets of denoms that anybody records snapshots for
    OwnerInput,     \* the kinds of owner updates that are sent
    \* The environment:
    Return,         \* Return[<<pair, denom>>]: what a swap of one token may return
    Quote,          \* the [price, expo] a feed may publish
    TimeStep,       \* the seconds that may pass between two blocks
    MaxTime,        \* bound on time
    MaxSnapshots    \* bound on the snapshots recorded for a denom

VARIABLES
    role,           \* OWNER
    base_denom,     \* CONFIG
    price_sources,  \* denom -> price source
    snapshots,      \* ASTROPORT_TWAP_SNAPSHOTS: denom -> sequence of snapshots
    swap,           \* the coins a pair returns for one token of a denom
    cumulative,     \* the cumulative prices of the pairs
    feeds,          \* the last quote of each Pyth feed
    now             \* the block time, in seconds

contract == <<role, base_denom, price_sources, snapshots>>

market == <<swap, cumulative, feeds, now>>

oracleVars == <<contract, market>>

Snapshot == [timestamp : Nat, price_cumulative : 0 .. MaxCumulative]

PriceSource ==
    [type : {"fixed"}, price : Decimal]
        \cup [type : {"astroport_spot"}, pair : Pair]
        \cup [type : {"astroport_twap"}, pair : Pair, window_size : Nat, tolerance : Nat]
        \cup [type : {"pyth"}, feed : Feed, max_staleness : Nat, denom_decimals : Nat]

ElementsOf(seq) == {seq[i] : i \in DOMAIN seq}

\* get_other_astroport_pair_denom succeeds: two native coins, one of them d.
PairPrices(pair, d) ==
    /\ Len(PairAssets[pair]) = 2
    /\ ElementsOf(PairAssets[pair]) \subseteq Denom
    /\ d \in ElementsOf(PairAssets[pair])

Side == {k \in Pair \X Denom : PairPrices(k[1], k[2])}

ASSUME OracleAssumption ==
    /\ Usd \in Denom
    /\ \A p \in Pair : PairAssets[p] \in Seq(ElementsOf(PairAssets[p]))
    /\ PairType \in [Pair -> {"xyk", "stable", "custom"}]
    /\ Unit \in [Denom -> Nat \ {0}]
    /\ TwapUnit \in Nat \ {0}
    /\ MaxCumulative \in Nat
    /\ SourceInput \subseteq Denom \X PriceSource
    /\ BaseInput \subseteq Denom
    /\ RecordInput \subseteq SUBSET Denom
    /\ OwnerInput \subseteq OwnerUpdates
    /\ \A k \in Side : Return[k] \subseteq Nat
    /\ Quote \subseteq [price : Int, expo : Int]
    /\ TimeStep \subseteq Nat \ {0}
    /\ MaxTime \in Nat
    /\ MaxSnapshots \in Nat

-----------------------------------------------------------------------------
(***************************************************************************)
(* Astroport pairs: contracts/oracle/wasm/src/helpers.rs                   *)
(***************************************************************************)

OtherDenom(pair, d) ==
    IF PairAssets[pair][1] = d THEN PairAssets[pair][2] ELSE PairAssets[pair][1]

\* Mutant: whether the other denom can be priced is not asked.
NamesDenom(pair, d) == PairPrices(pair, d)

\* The price of d in the pair's other denom can be turned into one in the base
\* denom, as far as validation looks.
ValidPair(pair, d) ==
    /\ PairPrices(pair, d)
    /\ \/ base_denom \in ElementsOf(PairAssets[pair])
       \/ OtherDenom(pair, d) \in DOMAIN price_sources

\* Rounds down when there are fewer digits to keep.
AdjustPrecision(value, current_unit, new_unit) == (value * new_unit) \div current_unit

-----------------------------------------------------------------------------
(***************************************************************************)
(* Time-weighted averages: contracts/oracle/wasm/src/price_source.rs       *)
(***************************************************************************)

AbsDiff(a, b) == IF a < b THEN b - a ELSE a - b

WithinWindow(snapshot, source) ==
    AbsDiff(AbsDiff(now, snapshot.timestamp), source.window_size) <= source.tolerance

\* The snapshots the average may start from.
Usable(list, source) == {i \in DOMAIN list : WithinWindow(list[i], source)}

TwapAvailable(d, source) ==
    /\ d \in DOMAIN snapshots
    /\ Len(snapshots[d]) >= 2
    /\ Usable(snapshots[d], source) # {}

\* find() takes the first one in the list.
PreviousSnapshot(list, source) ==
    list[CHOOSE i \in Usable(list, source) : \A j \in Usable(list, source) : i <= j]

\* A cumulative price that has become smaller has wrapped.
PriceDelta(current, previous) ==
    IF previous < current THEN current - previous
    ELSE current + (MaxCumulative - previous)

\* Mutant: the precisions of the two denoms are swapped.
SwappedAveragePrice(pair, d, delta, period) ==
    IF PairType[pair] = "xyk" THEN FromRatio(delta, TwapUnit * period)
    ELSE FromRatio(AdjustPrecision(delta, TwapUnit, Unit[d]),
                   Unit[OtherDenom(pair, d)] * period)

AveragePrice(pair, d, delta, period) ==
    IF PairType[pair] = "xyk" THEN FromRatio(delta, TwapUnit * period)
    ELSE FromRatio(AdjustPrecision(delta, TwapUnit, Unit[OtherDenom(pair, d)]),
                   Unit[d] * period)

\* In the pair's other denom.
TwapPrices(d, source) ==
    LET current  == cumulative[<<source.pair, d>>]
        previous == PreviousSnapshot(snapshots[d], source)
    IN  IF /\ TwapAvailable(d, source)
           /\ current # previous.price_cumulative
           /\ PairType[source.pair] # "custom"
        THEN {AveragePrice(source.pair, d,
                           PriceDelta(current, previous.price_cumulative),
                           now - previous.timestamp)}
        ELSE {}

\* Simulates a swap of one token.
SpotPrices(d, pair) == {FromRatio(swap[<<pair, d>>], Unit[d])}

-----------------------------------------------------------------------------
(***************************************************************************)
(* Pyth: contracts/oracle/base/src/pyth.rs                                 *)
(***************************************************************************)

\* Uint128::from(10u8).checked_pow(n)
TenTo[n \in Nat] == IF n = 0 THEN 1 ELSE 10 * TenTo[n - 1]

\* Denom_decimals and expo are the exponents of the code.
ScalePythPrice(value, expo, denom_decimals, usd_price) ==
    LET pyth_price == IF expo < 0 THEN FromRatio(value, TenTo[-expo])
                      ELSE FromRatio(value * TenTo[expo], 1)
        denom_scaled == FromRatio(1, TenTo[denom_decimals])
    IN  DecimalMul(DecimalMul(usd_price, denom_scaled), pyth_price)

\* Mutant: a quote need not be a price.
RecentFeed(source) ==
    /\ source.feed \in DOMAIN feeds
    /\ AbsDiff(now, feeds[source.feed].publish_time) <= source.max_staleness

\* The feed is neither too old (nor from too far in the future) nor worthless.
FeedUsable(source) ==
    /\ source.feed \in DOMAIN feeds
    /\ AbsDiff(now, feeds[source.feed].publish_time) <= source.max_staleness
    /\ feeds[source.feed].price > 0

-----------------------------------------------------------------------------
(***************************************************************************)
(* The price of a denom is read through the price of another: query_price  *)
(* calls itself.  It is followed for as many links as there are denoms; a  *)
(* longer chain is a cycle, and the call runs out of gas.                  *)
(***************************************************************************)

ASSUME DenomAssumption == IsFiniteSet(Denom)

\* The denoms whose price a source of d asks for.
ReadsThrough(d, source) ==
    CASE source.type = "fixed" -> {}
      [] source.type = "pyth" -> {Usd}
      [] OTHER -> IF base_denom \in ElementsOf(PairAssets[source.pair]) THEN {}
                  ELSE {OtherDenom(source.pair, d)}

PriceWithin[links \in 0 .. Cardinality(Denom)] ==
    [d \in Denom |->
        LET source == price_sources[d]
            \* normalize_price
            InBaseDenom(prices) ==
                IF ReadsThrough(d, source) = {} THEN prices
                ELSE {DecimalMul(price, other) :
                        price \in prices,
                        other \in PriceWithin[links - 1][OtherDenom(source.pair, d)]}
        IN  IF links = 0 \/ d \notin DOMAIN price_sources THEN {}
            ELSE CASE source.type = "fixed" -> {source.price}
                   [] source.type = "astroport_spot" -> InBaseDenom(SpotPrices(d, source.pair))
                   [] source.type = "astroport_twap" -> InBaseDenom(TwapPrices(d, source))
                   [] source.type = "pyth" ->
                        IF FeedUsable(source)
                        THEN {ScalePythPrice(feeds[source.feed].price, feeds[source.feed].expo,
                                             source.denom_decimals, usd) :
                                usd \in PriceWithin[links - 1][Usd]}
                        ELSE {}]

\* QueryMsg::Price
Price(d) == PriceWithin[Cardinality(Denom)][d]

-----------------------------------------------------------------------------
(***************************************************************************)
(* Instantiation and the owner's messages                                  *)
(***************************************************************************)

Init ==
    /\ \E a \in Admin : role = InitialRole(a)
    /\ base_denom \in BaseInput
    /\ price_sources = Save(EmptyMap, base_denom, [type |-> "fixed", price |-> One])
    /\ snapshots = EmptyMap
    /\ swap \in [Side -> UNION {Return[k] : k \in Side}]
    /\ \A k \in Side : swap[k] \in Return[k]
    /\ cumulative = [k \in Side |-> 0]
    /\ feeds = EmptyMap
    /\ now = 0

UpdateOwner(sender, update) ==
    /\ role' \in UpdatedRoles(role, update, sender)
    /\ UNCHANGED <<base_denom, price_sources, snapshots, market>>

\* PriceSourceUnchecked::validate
ValidSource(d, source) ==
    /\ d # base_denom
    /\ source.type \in {"astroport_spot", "astroport_twap"} => ValidPair(source.pair, d)
    /\ source.type = "astroport_twap" =>
        /\ source.tolerance < source.window_size
        /\ source.window_size > 1
    /\ source.type = "pyth" => Usd \in DOMAIN price_sources

\* Replaces the source the denom has; its snapshots stay.
SetPriceSource(sender, d, source) ==
    /\ IsOwner(role, sender)
    /\ ValidSource(d, source)
    /\ price_sources' = Save(price_sources, d, source)
    /\ UNCHANGED <<role, base_denom, snapshots, market>>

\* Any denom, whether it has a source or not and whether others need it or not.
RemovePriceSource(sender, d) ==
    /\ IsOwner(role, sender)
    /\ price_sources' = Remove(price_sources, d)
    /\ UNCHANGED <<role, base_denom, snapshots, market>>

UpdateConfig(sender, d) ==
    /\ IsOwner(role, sender)
    /\ base_denom' = d
    /\ UNCHANGED <<role, price_sources, snapshots, market>>

-----------------------------------------------------------------------------
(***************************************************************************)
(* Recording snapshots: contracts/oracle/wasm/src/astroport_twap.rs        *)
(***************************************************************************)

\* Mutant: the first snapshot of the list is taken for the last one.
FirstTooSoon(list, source) ==
    list # <<>> /\ now - list[1].timestamp < source.tolerance

\* Mutant: a snapshot is rejected within the window, not within the tolerance.
WithinWindowTooSoon(list, source) ==
    list # <<>> /\ now - list[Len(list)].timestamp < source.window_size

\* The last snapshot is less than `tolerance` seconds old.
TooSoon(list, source) ==
    list # <<>> /\ now - list[Len(list)].timestamp < source.tolerance

\* Vec::retain: the elements of a list at some of its indexes, in their order.
Retain(list, kept) ==
    LET result[n \in 0 .. Len(list)] ==
            IF n = 0 THEN <<>>
            ELSE IF n \in kept THEN Append(result[n - 1], list[n])
            ELSE result[n - 1]
    IN  result[Len(list)]

\* Mutant: snapshots older than the window are purged, whatever the tolerance.
WithoutOld(list, source) ==
    Retain(list, {i \in DOMAIN list : now - list[i].timestamp <= source.window_size})

Retained(list, source) ==
    Retain(list, {i \in DOMAIN list :
                    now - list[i].timestamp <= source.window_size + source.tolerance})

\* Mutant: the new snapshot is put first.
RecordedFirst(d) ==
    LET source == price_sources[d]
        list   == LoadOr(snapshots, d, <<>>)
    IN  IF TooSoon(list, source) THEN list
        ELSE <<[timestamp |-> now, price_cumulative |-> cumulative[<<source.pair, d>>]]>>
               \o Retained(list, source)

Recorded(d) ==
    LET source == price_sources[d]
        list   == LoadOr(snapshots, d, <<>>)
    IN  IF TooSoon(list, source) THEN list
        ELSE Append(Retained(list, source),
                    [timestamp |-> now, price_cumulative |-> cumulative[<<source.pair, d>>]])

\* Anybody may send it.  One denom without a TWAP source fails all of them.
RecordTwapSnapshots(denoms) ==
    /\ \A d \in denoms : d \in DOMAIN price_sources
                           /\ price_sources[d].type = "astroport_twap"
    /\ \A d \in denoms : Len(Recorded(d)) <= MaxSnapshots
    /\ snapshots' = [d \in DOMAIN snapshots \cup denoms |->
                        IF d \in denoms THEN Recorded(d) ELSE snapshots[d]]
    /\ UNCHANGED <<role, base_denom, price_sources, market>>

-----------------------------------------------------------------------------
(***************************************************************************)
(* The environment (external).  Astroport adds, for each second, the price *)
(* of a pair to its cumulative price, in units of TWAP precision, and lets *)
(* it wrap.  Pyth publishes quotes.                                        *)
(***************************************************************************)

PricePerSecond(pair, d) ==
    (swap[<<pair, d>>] * TwapUnit)
        \div Unit[IF PairType[pair] = "stable" THEN OtherDenom(pair, d) ELSE d]

Tick(seconds) ==
    /\ now + seconds <= MaxTime
    /\ now' = now + seconds
    /\ cumulative' = [k \in Side |->
            (cumulative[k] + seconds * PricePerSecond(k[1], k[2])) % (MaxCumulative + 1)]
    /\ UNCHANGED <<contract, swap, feeds>>

Trade(side, coins) ==
    /\ swap' = [swap EXCEPT ![side] = coins]
    /\ UNCHANGED <<contract, cumulative, feeds, now>>

Publish(feed, quote) ==
    /\ feeds' = Save(feeds, feed, [price |-> quote.price, expo |-> quote.expo,
                                   publish_time |-> now])
    /\ UNCHANGED <<contract, swap, cumulative, now>>

-----------------------------------------------------------------------------

OwnerStep ==
    \E sender \in Admin :
        \/ \E update \in OwnerInput : UpdateOwner(sender, update)
        \/ \E input \in SourceInput : SetPriceSource(sender, input[1], input[2])
        \/ \E d \in Denom : RemovePriceSource(sender, d)
        \/ \E d \in BaseInput : UpdateConfig(sender, d)

MarketStep ==
    \/ \E seconds \in TimeStep : Tick(seconds)
    \/ \E side \in Side : \E coins \in Return[side] : Trade(side, coins)
    \/ \E feed \in Feed, quote \in Quote : Publish(feed, quote)

Next ==
    \/ OwnerStep
    \/ \E denoms \in RecordInput : RecordTwapSnapshots(denoms)
    \/ MarketStep

Spec == Init /\ [][Next]_oracleVars
=============================================================================
