-------------------------- MODULE OracleProperties --------------------------
(***************************************************************************)
(* What the oracle promises.  The history variable `traded` remembers what *)
(* the pairs returned in every second, so that an average can be compared  *)
(* with the prices it is the average of.                                   *)
(***************************************************************************)
EXTENDS Oracle, FiniteSetsExt

\* The fields of a source are machine integers.
ASSUME SourcesFinite == IsFiniteSet(SourceInput)

VARIABLE traded     \* traded[t + 1]: `swap` in second t

HistoryInit == Init /\ traded = <<>>

HistoryNext ==
    /\ Next
    /\ traded' = traded \o [t \in 1 .. now' - now |-> swap]

HistorySpec == HistoryInit /\ [][HistoryNext]_<<oracleVars, traded>>

-----------------------------------------------------------------------------

\* Every item the contract stores has the type of the Rust struct that declares
\* it, and snapshots are taken in order and never later than now: the
\* differences of timestamps that recording and averaging compute stay unsigned.
OracleTypeOK ==
    /\ role \in Role
    /\ base_denom \in Denom
    /\ IsMap(price_sources, Denom, PriceSource)
    /\ DOMAIN snapshots \subseteq Denom
    /\ \A d \in DOMAIN snapshots :
        /\ \A i \in DOMAIN snapshots[d] :
            /\ snapshots[d][i] \in Snapshot
            /\ snapshots[d][i].timestamp <= now
        /\ \A i, j \in DOMAIN snapshots[d] :
            i <= j => snapshots[d][i].timestamp <= snapshots[d][j].timestamp
    /\ cumulative \in [Side -> 0 .. MaxCumulative]
    /\ now \in Nat

-----------------------------------------------------------------------------
(***************************************************************************)
(* Averages and snapshots                                                  *)
(***************************************************************************)

HasTwap(d) ==
    d \in DOMAIN price_sources /\ price_sources[d].type = "astroport_twap"

\* What the pair of d's source has returned for tokens of d since the snapshot
\* that the average starts from, added over the seconds, and their number.
TradedSince(d) ==
    LET source == price_sources[d]
        start  == PreviousSnapshot(snapshots[d], source).timestamp
    IN  [seconds |-> now - start,
         coins |-> MapThenSumSet(LAMBDA t : traded[t][<<source.pair, d>>], start + 1 .. now)]

\* The comment on the overflow: it doesn't overflow more than once in a period.
WrapsAtMostOnce(d) ==
    LET p == price_sources[d].pair
    IN  TradedSince(d).coins * TwapUnit
          <= MaxCumulative * Unit[IF PairType[p] = "stable"
                                  THEN OtherDenom(p, d) ELSE d]

\* A TWAP price is the average of what the pair itself traded at, from the
\* snapshot used until now: never above, and below by no more than the digits
\* the cumulative price has for each second (and one more for a wrap-around).
\* Whatever was recorded, skipped and purged in between, and whatever the
\* precisions of the two denoms.
TwapIsAverage ==
    \A d \in Denom :
        HasTwap(d) => \A price \in TwapPrices(d, price_sources[d]) :
            LET p     == price_sources[d].pair
                total == TradedSince(d)
                stable == PairType[p] = "stable"
                digit == Unit[IF stable THEN OtherDenom(p, d) ELSE d]
                lost  == (total.seconds + 1) * digit + (IF stable THEN TwapUnit ELSE 0)
                scale == Unit[d] * total.seconds
            IN  WrapsAtMostOnce(d) =>
                /\ price * scale <= total.coins * One
                /\ (total.coins * TwapUnit - lost) * One <= (price + 1) * scale * TwapUnit

\* Anybody may record snapshots, at any time and as often as they like, and no
\* price moves by it: what is purged was out of the window of every price that
\* is answered, and what is added is too recent to be used.
RecordingMovesNoPrice ==
    [][snapshots' # snapshots =>
        \A d \in Denom : Price(d) # {} => Price(d)' = Price(d)]_<<oracleVars, traded>>

TwapInputs(d) == {input[2] : input \in {i \in SourceInput :
                                            i[1] = d /\ i[2].type = "astroport_twap"}}

\* The list of snapshots a query searches is bounded, whoever records how often
\* and however the owner changes the source, as long as every source the denom
\* has had has a tolerance: snapshots are at least a tolerance apart and were
\* all within a window and a tolerance of the last one.
SnapshotsBounded ==
    \A d \in DOMAIN snapshots :
        LET tolerance == Min({s.tolerance : s \in TwapInputs(d)})
            reach == Max({s.window_size + s.tolerance : s \in TwapInputs(d)})
        IN  tolerance > 0 => Len(snapshots[d]) <= 1 + reach \div tolerance

\* price_source.rs says of query_astroport_twap_price that it queries the price
\* "from the Astroport pair at `pair_address`": then an average is never above
\* the best that this pair itself returned since the snapshot it starts from.
\* A weaker statement than TwapIsAverage.  A cumulative price that is smaller
\* than the snapshot's is taken for one that wrapped; it is not spoken about.
TwapIsOfItsPair ==
    \A d \in Denom :
        HasTwap(d) => \A price \in TwapPrices(d, price_sources[d]) :
            LET its_pair == price_sources[d].pair
                start == PreviousSnapshot(snapshots[d], price_sources[d])
            IN  cumulative[<<its_pair, d>>] > start.price_cumulative =>
                    \E t \in start.timestamp + 1 .. now :
                        price * Unit[d] <= traded[t][<<its_pair, d>>] * One

-----------------------------------------------------------------------------
(***************************************************************************)
(* Chains of price sources                                                 *)
(***************************************************************************)

\* The denoms whose price can be followed to a source that reads no other.
ResolvedWithin[links \in 0 .. Cardinality(Denom)] ==
    {d \in DOMAIN price_sources :
        links > 0 /\ ReadsThrough(d, price_sources[d]) \subseteq ResolvedWithin[links - 1]}

AllResolve == DOMAIN price_sources \subseteq ResolvedWithin[Cardinality(Denom)]

\* Sources given to denoms that had none, one at a time, in any order that
\* validation accepts, never leave a price without an end: each new source
\* rests on one that is there, so no cycle and no missing link arises until
\* the owner replaces or removes a source, or changes the base denom.
NewSourcesResolve ==
    [][AllResolve /\ ~AllResolve' =>
        \/ base_denom' # base_denom
        \/ \E d \in DOMAIN price_sources :
              \/ d \notin DOMAIN price_sources'
              \/ price_sources'[d] # price_sources[d]]_<<oracleVars, traded>>
=============================================================================
