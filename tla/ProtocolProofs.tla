--------------------------- MODULE ProtocolProofs ---------------------------
(***************************************************************************)
(* What is proved of the contracts together: lending sees prices such as   *)
(* its own specification allows, so the deployment implements it; an       *)
(* address is used exactly if it has the prefix of the chain; and nobody   *)
(* but the user, an owner, the time and the markets makes a healthy user   *)
(* liquidatable.                                                           *)
(***************************************************************************)
EXTENDS Protocol, TLAPS

\* The oracle, with what is proved of it alone.  O and OP are instances of the
\* same definitions; the lemmas of this section say so, one for each that is
\* needed.
OP == INSTANCE OracleProofs WITH
    role <- oracle_role, OwnerInput <- OracleOwnerInput, traded <- <<>>

LEMMA OracleAssumed ==
    /\ OP!OneAssumption /\ OP!NoneAssumption
    /\ OP!OracleAssumption /\ OP!DenomAssumption /\ OP!SourcesFinite
  <1>1. OP!OneAssumption /\ OP!NoneAssumption
    BY ProtocolAssumption, NoneAssumption
  <1>2. OP!OracleAssumption
    BY ProtocolAssumption
    DEF O!OracleAssumption, OP!OracleAssumption, O!Side, OP!Side, O!PairPrices, OP!PairPrices,
        O!ElementsOf, OP!ElementsOf, O!PriceSource, OP!PriceSource,
        O!OwnerUpdates, OP!OwnerUpdates, O!Decimal, OP!Decimal
  <1>3. OP!DenomAssumption
    BY ProtocolAssumption DEF O!IsFiniteSet, OP!IsFiniteSet
  <1>4. OP!SourcesFinite
    BY ProtocolAssumption DEF IsFiniteSet, OP!IsFiniteSet
  <1> QED
    BY <1>1, <1>2, <1>3, <1>4

LEMMA SameInit == O!Init => OP!Init
  <1> SUFFICES ASSUME O!Init PROVE OP!Init
    OBVIOUS
  <1> QED
    BY DEF O!Init, OP!Init, O!InitialRole, OP!InitialRole, O!Save, OP!Save, O!EmptyMap, OP!EmptyMap,
        O!Side, OP!Side, O!PairPrices, OP!PairPrices, O!ElementsOf, OP!ElementsOf

LEMMA SameOwnerStep == ASSUME O!OwnerStep PROVE OP!OwnerStep
  BY DEF O!OwnerStep, OP!OwnerStep, O!UpdateOwner, OP!UpdateOwner,
      O!SetPriceSource, OP!SetPriceSource, O!RemovePriceSource, OP!RemovePriceSource,
      O!UpdateConfig, OP!UpdateConfig, O!UpdatedRoles, OP!UpdatedRoles, O!IsOwner, OP!IsOwner,
      O!ValidSource, OP!ValidSource, O!ValidPair, OP!ValidPair, O!PairPrices, OP!PairPrices,
      O!ElementsOf, OP!ElementsOf, O!OtherDenom, OP!OtherDenom,
      O!Save, OP!Save, O!Remove, OP!Remove, O!market, OP!market

LEMMA SameRecording ==
    ASSUME NEW denoms, O!RecordTwapSnapshots(denoms)
    PROVE  OP!RecordTwapSnapshots(denoms)
  BY DEF O!RecordTwapSnapshots, OP!RecordTwapSnapshots, O!Recorded, OP!Recorded,
      O!TooSoon, OP!TooSoon, O!Retained, OP!Retained, O!Retain, OP!Retain,
      O!LoadOr, OP!LoadOr, O!market, OP!market

LEMMA SameMarketStep == ASSUME O!MarketStep PROVE OP!MarketStep
  BY DEF O!MarketStep, OP!MarketStep, O!Tick, OP!Tick, O!Trade, OP!Trade, O!Publish, OP!Publish,
      O!PricePerSecond, OP!PricePerSecond, O!OtherDenom, OP!OtherDenom,
      O!Side, OP!Side, O!PairPrices, OP!PairPrices, O!ElementsOf, OP!ElementsOf,
      O!Save, OP!Save, O!contract, OP!contract

LEMMA SamePrices == O!PriceWithin = OP!PriceWithin
  BY DEF O!PriceWithin, OP!PriceWithin, O!TwapPrices, OP!TwapPrices, O!SpotPrices, OP!SpotPrices,
      O!ScalePythPrice, OP!ScalePythPrice, O!TenTo, OP!TenTo, O!FeedUsable, OP!FeedUsable,
      O!ReadsThrough, OP!ReadsThrough, O!OtherDenom, OP!OtherDenom, O!ElementsOf, OP!ElementsOf,
      O!DecimalMul, OP!DecimalMul, O!FromRatio, OP!FromRatio, O!AbsDiff, OP!AbsDiff,
      O!PriceDelta, OP!PriceDelta, O!AveragePrice, OP!AveragePrice,
      O!AdjustPrecision, OP!AdjustPrecision, O!PreviousSnapshot, OP!PreviousSnapshot,
      O!Usable, OP!Usable, O!WithinWindow, OP!WithinWindow, O!TwapAvailable, OP!TwapAvailable,
      O!Cardinality, OP!Cardinality, O!IsFiniteSet, OP!IsFiniteSet

-----------------------------------------------------------------------------
(***************************************************************************)
(* The oracle among the others                                             *)
(***************************************************************************)

\* The invariant: the types that the oracle's own proof needs.
OracleFine == OP!OracleSound /\ OP!FeedsTyped

LEMMA InitOracleFine == Init => OracleFine
  <1> SUFFICES ASSUME Init PROVE OracleFine
    OBVIOUS
  <1>1. OP!Init
    BY SameInit DEF Init
  <1>2. OP!OracleSound
    BY <1>1, OP!InitOracleSound, OracleAssumed
  <1>3. OP!FeedsTyped
    BY <1>1 DEF OP!Init, OP!EmptyMap, OP!FeedsTyped
  <1> QED
    BY <1>2, <1>3 DEF OracleFine

LEMMA StepsOfTheOracle == [Next]_protocolVars => [OP!Next]_(OP!oracleVars)
  <1> SUFFICES ASSUME [Next]_protocolVars PROVE [OP!Next]_(OP!oracleVars)
    OBVIOUS
  <1>1. CASE UNCHANGED <<oracleContract, outside, now>>
    BY <1>1 DEF oracleContract, outside, OP!oracleVars, OP!contract, OP!market
  <1>2. CASE O!OwnerStep
    BY <1>2, SameOwnerStep DEF OP!Next
  <1>3. CASE \E denoms \in RecordInput : O!RecordTwapSnapshots(denoms)
    BY <1>3, SameRecording DEF OP!Next
  <1>4. CASE O!MarketStep
    BY <1>4, SameMarketStep DEF OP!Next
  <1> QED
    BY <1>1, <1>2, <1>3, <1>4
    DEF Next, LendingStep, OracleStep, ProviderStep, OutsideStep, protocolVars

LEMMA OracleStaysFine == OracleFine /\ [Next]_protocolVars => OracleFine'
  <1> SUFFICES ASSUME OracleFine, [Next]_protocolVars PROVE OracleFine'
    OBVIOUS
  <1>1. [OP!Next]_(OP!oracleVars)
    BY StepsOfTheOracle
  <1>2. OP!OracleSound'
    BY <1>1, OP!NextOracleSound, OracleAssumed DEF OracleFine
  <1>3. OP!FeedsTyped'
    BY <1>1, OP!FeedsStayTyped, OracleAssumed DEF OracleFine
  <1> QED
    BY <1>2, <1>3 DEF OracleFine

LEMMA OracleAlwaysFine == Spec => []OracleFine
  BY InitOracleFine, OracleStaysFine, PTL DEF Spec

-----------------------------------------------------------------------------
(***************************************************************************)
(* What lending sees                                                       *)
(***************************************************************************)

LEMMA FinePricesUnsigned ==
    ASSUME OracleFine, NEW d \in Denom
    PROVE  O!Price(d) \subseteq Nat
  <1>1. \E p : OP!IsPricingBySteps(p)
    BY OP!PricingExists, OracleAssumed DEF OracleFine
  <1>2. \E p : OP!IsPricing(p)
    BY <1>1, OP!PricingSteps, OracleAssumed
  <1>3. OP!IsPricing(OP!PriceWithin)
    BY <1>2, OP!PriceWithinIs, OracleAssumed
  <1>4. OP!PriceWithin[OP!Cardinality(Denom)][d] \subseteq Nat
    BY <1>3, OP!PricesAreUnsigned, OracleAssumed DEF OracleFine
  <1>5. O!Cardinality(Denom) = OP!Cardinality(Denom)
    BY DEF O!Cardinality, OP!Cardinality, O!IsFiniteSet, OP!IsFiniteSet
  <1> QED
    BY <1>4, <1>5, SamePrices DEF O!Price

\* MaxPrice is Uint128::MAX: in the code a greater price overflows and the query
\* fails, in the model it would be answered.
PricesFit == \A d \in Denom : \A price \in O!Price(d) : price <= MaxPrice

SeenAnswered == OracleSeen \in AnyAnswers

LEMMA SeenIsAnswered == OracleFine /\ PricesFit => SeenAnswered
  <1> SUFFICES ASSUME OracleFine, PricesFit PROVE OracleSeen \in AnyAnswers
    BY DEF SeenAnswered
  <1> DEFINE Answer == UNION {[priced -> 0 .. MaxPrice] : priced \in SUBSET Denom}
  <1>1. ASSUME NEW f \in Answer PROVE [p \in Provider |-> f] \in AnyAnswers
    <2>1. Provider \in SUBSET Provider
      OBVIOUS
    <2>2. [p \in Provider |-> f] \in [Provider -> Answer]
      OBVIOUS
    <2> HIDE DEF Answer
    <2>3. [Provider -> Answer] \in {[known -> Answer] : known \in SUBSET Provider}
      BY <2>1
    <2> QED
      BY <2>2, <2>3 DEF AnyAnswers, Answer
  <1>2. PricesAnswered \in Answer
    <2> DEFINE priced == {e \in Denom : O!Price(e) # {}}
    <2>1. ASSUME NEW d \in priced PROVE (CHOOSE price \in O!Price(d) : TRUE) \in 0 .. MaxPrice
      <3>1. O!Price(d) \subseteq Nat /\ \A price \in O!Price(d) : price <= MaxPrice
        BY FinePricesUnsigned DEF PricesFit
      <3>2. (CHOOSE price \in O!Price(d) : TRUE) \in O!Price(d)
        OBVIOUS
      <3> QED
        BY <3>1, <3>2, ProtocolAssumption
    <2>2. PricesAnswered \in [priced -> 0 .. MaxPrice]
      BY <2>1 DEF PricesAnswered
    <2>3. priced \in SUBSET Denom
      OBVIOUS
    <2> HIDE DEF priced
    <2> QED
      BY <2>2, <2>3
  <1>3. EmptyMap \in Answer
    <2>1. EmptyMap \in [{} -> 0 .. MaxPrice]
      BY DEF EmptyMap
    <2>2. {} \in SUBSET Denom
      OBVIOUS
    <2> QED
      BY <2>1, <2>2
  <1>4. EmptyMap \in AnyAnswers
    <2>1. EmptyMap \in [{} -> Answer]
      BY DEF EmptyMap
    <2> HIDE DEF Answer
    <2>2. {} \in SUBSET Provider
      OBVIOUS
    <2>3. [{} -> Answer] \in {[known -> Answer] : known \in SUBSET Provider}
      BY <2>2
    <2> QED
      BY <2>1, <2>3 DEF AnyAnswers, Answer
  <1>5. CASE P!ContractAddr("oracle") = {}
    BY <1>4, <1>5 DEF OracleSeen
  <1>6. CASE P!ContractAddr("oracle") # {} /\ P!ContractAddr("oracle") = {OracleAddress}
    <2>1. OracleSeen = [p \in Provider |-> PricesAnswered]
      BY <1>6, Zenon DEF OracleSeen
    <2> QED
      BY <1>1, <1>2, <2>1
  <1>7. CASE P!ContractAddr("oracle") # {} /\ P!ContractAddr("oracle") # {OracleAddress}
    <2>1. OracleSeen = [p \in Provider |-> EmptyMap]
      BY <1>7, Zenon DEF OracleSeen
    <2> QED
      BY <1>1, <1>3, <2>1
  <1> QED
    BY <1>5, <1>6, <1>7

LEMMA StepsOfLending ==
    ASSUME [Next]_protocolVars, SeenAnswered'
    PROVE  L!Next
  <1>0. OracleSeen' \in AnyAnswers
    BY DEF SeenAnswered, AnyAnswers
  <1>1. CASE LendingStep
    BY <1>1 DEF LendingStep, L!Next
  <1>2. ASSUME NEW seconds \in TimeStep, O!Tick(seconds), UNCHANGED lendingContract
        PROVE  L!Next
    BY <1>0, <1>2 DEF O!Tick, lendingContract, L!Tick, L!EnvironmentStep, L!Next
  <1>3. ASSUME UNCHANGED <<lendingContract, now>> PROVE L!Next
    BY <1>0, <1>3 DEF lendingContract, L!OracleMoves, L!EnvironmentStep, L!Next
  <1>4. OracleStep => UNCHANGED <<lendingContract, now>>
    BY DEF OracleStep, O!OwnerStep, O!UpdateOwner, O!SetPriceSource, O!RemovePriceSource,
           O!UpdateConfig, O!RecordTwapSnapshots, O!market
  <1>5. ProviderStep => UNCHANGED <<lendingContract, now>>
    BY DEF ProviderStep
  <1>6. ASSUME OutsideStep PROVE L!Next
    <2>1. CASE \E seconds \in TimeStep : O!Tick(seconds)
      BY <1>2, <1>6, <2>1 DEF OutsideStep
    <2>2. CASE UNCHANGED now
      BY <1>3, <1>6, <2>2 DEF OutsideStep
    <2> QED
      BY <1>6, <2>1, <2>2 DEF OutsideStep, O!MarketStep, O!Trade, O!Publish
  <1>7. UNCHANGED protocolVars => UNCHANGED <<lendingContract, now>>
    BY DEF protocolVars
  <1> QED
    BY <1>1, <1>3, <1>4, <1>5, <1>6, <1>7 DEF Next

\* Whatever anybody sends to the three contracts, and whatever the pairs and feeds
\* say, the lending contract takes no step that its specification does not allow:
\* the prices query_price gives it are unsigned decimals or errors, through any
\* chain of sources, and change only between its transactions.
THEOREM DeploymentImplementsLending == Spec /\ []PricesFit => ImplementsLending
  <1>1. Init /\ OracleFine /\ PricesFit => L!Init
    BY SeenIsAnswered DEF Init, L!Init, SeenAnswered
  <1>2. OracleFine' /\ PricesFit' => SeenAnswered'
    BY SeenIsAnswered, PTL
  <1>3. [Next]_protocolVars /\ OracleFine' /\ PricesFit' => [L!Next]_(L!vars)
    BY <1>2, StepsOfLending
  <1> QED
    BY <1>1, <1>3, OracleAlwaysFine, PTL DEF Spec, ImplementsLending, L!Spec

-----------------------------------------------------------------------------
(***************************************************************************)
(* Lending, with what is proved of it alone.  Again L and LP are instances *)
(* of the same definitions, for which one lemma each says so, from the     *)
(* functions on markets to the messages.                                   *)
(***************************************************************************)

LP == INSTANCE ClaimsProofs WITH
    role <- lending_role, OwnerInput <- LendingOwnerInput,
    oracle <- OracleSeen, Answers <- AnyAnswers

LEMMA LendingAssumed ==
    /\ LP!OneAssumption /\ LP!ScalingAssumption /\ LP!NoneAssumption
    /\ LP!InputAssumption /\ LP!FiniteAssumption
  <1>1. LP!OneAssumption /\ LP!ScalingAssumption /\ LP!NoneAssumption
    BY LendingAssumption, ProtocolAssumption, NoneAssumption
    DEF L!ScalingAssumption, LP!ScalingAssumption
  <1>2. LP!InputAssumption
    BY LendingAssumption
    DEF L!InputAssumption, LP!InputAssumption, L!Decimal, LP!Decimal, L!AssetParam, LP!AssetParam,
        L!ParamValue, LP!ParamValue, L!InterestRateModel, LP!InterestRateModel, L!Uint, LP!Uint,
        L!OwnerUpdates, LP!OwnerUpdates, L!IsMap, LP!IsMap
  <1>3. LP!FiniteAssumption
    BY LendingAssumption
    DEF L!FiniteAssumption, LP!FiniteAssumption, L!IsFiniteSet, LP!IsFiniteSet
  <1> QED
    BY <1>1, <1>2, <1>3

LEMMA SameScaledLiquidity ==
    \A a, m, t : L!ScaledLiquidity(a, m, t) = LP!ScaledLiquidity(a, m, t)
  BY DEF L!ScaledLiquidity, LP!ScaledLiquidity, L!ScaledFloor, LP!ScaledFloor,
      L!UpdatedLiquidityIndex, LP!UpdatedLiquidityIndex, L!DivideUintByDecimal,
      LP!DivideUintByDecimal, L!AppliedLinearInterest, LP!AppliedLinearInterest, L!DecimalMul,
      LP!DecimalMul, L!FromRatio, LP!FromRatio

LEMMA SameScaledDebt == \A a, m, t : L!ScaledDebt(a, m, t) = LP!ScaledDebt(a, m, t)
  BY DEF L!ScaledDebt, LP!ScaledDebt, L!ScaledCeil, LP!ScaledCeil, L!UpdatedBorrowIndex,
      LP!UpdatedBorrowIndex, L!DivideUintByDecimalCeil, LP!DivideUintByDecimalCeil,
      L!AppliedLinearInterest, LP!AppliedLinearInterest, L!DivCeil, LP!DivCeil, L!DecimalMul,
      LP!DecimalMul, L!FromRatio, LP!FromRatio

LEMMA SameUnderlyingLiquidity ==
    \A a, m, t : L!UnderlyingLiquidity(a, m, t) = LP!UnderlyingLiquidity(a, m, t)
  BY DEF L!UnderlyingLiquidity, LP!UnderlyingLiquidity, L!UnderlyingFloor, LP!UnderlyingFloor,
      L!UpdatedLiquidityIndex, LP!UpdatedLiquidityIndex, L!UintMul, LP!UintMul,
      L!AppliedLinearInterest, LP!AppliedLinearInterest, L!DecimalMul, LP!DecimalMul,
      L!FromRatio, LP!FromRatio

LEMMA SameUnderlyingDebt ==
    \A a, m, t : L!UnderlyingDebt(a, m, t) = LP!UnderlyingDebt(a, m, t)
  BY DEF L!UnderlyingDebt, LP!UnderlyingDebt, L!UnderlyingCeil, LP!UnderlyingCeil,
      L!UpdatedBorrowIndex, LP!UpdatedBorrowIndex, L!DivCeil, LP!DivCeil, L!UintMul, LP!UintMul,
      L!AppliedLinearInterest, LP!AppliedLinearInterest, L!DecimalMul, LP!DecimalMul,
      L!FromRatio, LP!FromRatio

LEMMA SameUpdatedBorrowIndex ==
    \A m, t : L!UpdatedBorrowIndex(m, t) = LP!UpdatedBorrowIndex(m, t)
  BY DEF L!UpdatedBorrowIndex, LP!UpdatedBorrowIndex, L!AppliedLinearInterest,
      LP!AppliedLinearInterest, L!DecimalMul, LP!DecimalMul, L!FromRatio, LP!FromRatio

LEMMA SameUpdatedLiquidityIndex ==
    \A m, t : L!UpdatedLiquidityIndex(m, t) = LP!UpdatedLiquidityIndex(m, t)
  BY DEF L!UpdatedLiquidityIndex, LP!UpdatedLiquidityIndex, L!AppliedLinearInterest,
      LP!AppliedLinearInterest, L!DecimalMul, LP!DecimalMul, L!FromRatio, LP!FromRatio

LEMMA SameAccruedProtocolRewards ==
    \A m, t : L!AccruedProtocolRewards(m, t) = LP!AccruedProtocolRewards(m, t)
  BY SameUpdatedBorrowIndex
  DEF L!AccruedProtocolRewards, LP!AccruedProtocolRewards, L!UnderlyingCeil, LP!UnderlyingCeil,
      L!UintMul, LP!UintMul, L!DivCeil, LP!DivCeil

LEMMA SameApplyAccumulatedInterests ==
    \A m, t : L!ApplyAccumulatedInterests(m, t) = LP!ApplyAccumulatedInterests(m, t)
  BY SameUpdatedBorrowIndex, SameUpdatedLiquidityIndex, SameScaledLiquidity,
     SameAccruedProtocolRewards
  DEF L!ApplyAccumulatedInterests, LP!ApplyAccumulatedInterests

LEMMA SameUtilizationRate == \A m, t : L!UtilizationRate(m, t) = LP!UtilizationRate(m, t)
  BY SameUnderlyingLiquidity, SameUnderlyingDebt
  DEF L!UtilizationRate, LP!UtilizationRate, L!FromRatio, LP!FromRatio

LEMMA SameBorrowRateDefined ==
    \A i, x : L!BorrowRateDefined(i, x) <=> LP!BorrowRateDefined(i, x)
  BY DEF L!BorrowRateDefined, LP!BorrowRateDefined

LEMMA SameBorrowRate == \A i, x : L!BorrowRate(i, x) = LP!BorrowRate(i, x)
  BY DEF L!BorrowRate, LP!BorrowRate, L!DecimalMul, LP!DecimalMul, L!DivideDecimalByDecimal,
      LP!DivideDecimalByDecimal, L!FromRatio, LP!FromRatio

LEMMA SameLiquidityRate ==
    \A b, x, r : L!LiquidityRate(b, x, r) = LP!LiquidityRate(b, x, r)
  BY DEF L!LiquidityRate, LP!LiquidityRate, L!DecimalMul, LP!DecimalMul

LEMMA SameRatesDefined == \A m, t : L!RatesDefined(m, t) <=> LP!RatesDefined(m, t)
  BY SameBorrowRateDefined, SameUtilizationRate
  DEF L!RatesDefined, LP!RatesDefined

LEMMA SameUpdateInterestRates ==
    \A m, t : L!UpdateInterestRates(m, t) = LP!UpdateInterestRates(m, t)
  BY SameUtilizationRate, SameBorrowRate, SameLiquidityRate
  DEF L!UpdateInterestRates, LP!UpdateInterestRates

LEMMA SameIncreaseTotalCollateral ==
    \A m, s : L!IncreaseTotalCollateral(m, s) = LP!IncreaseTotalCollateral(m, s)
  BY DEF L!IncreaseTotalCollateral, LP!IncreaseTotalCollateral

LEMMA SameDecreaseTotalCollateral ==
    \A m, s : L!DecreaseTotalCollateral(m, s) = LP!DecreaseTotalCollateral(m, s)
  BY DEF L!DecreaseTotalCollateral, LP!DecreaseTotalCollateral

LEMMA SameIncreaseTotalDebt ==
    \A m, s : L!IncreaseTotalDebt(m, s) = LP!IncreaseTotalDebt(m, s)
  BY DEF L!IncreaseTotalDebt, LP!IncreaseTotalDebt

LEMMA SameDecreaseTotalDebt ==
    \A m, s : L!DecreaseTotalDebt(m, s) = LP!DecreaseTotalDebt(m, s)
  BY DEF L!DecreaseTotalDebt, LP!DecreaseTotalDebt

LEMMA SameSave == \A f, k, x : L!Save(f, k, x) = LP!Save(f, k, x)
  BY DEF L!Save, LP!Save

LEMMA SameRemove == \A f, k : L!Remove(f, k) = LP!Remove(f, k)
  BY DEF L!Remove, LP!Remove

LEMMA SameLoadOr == \A f, k, x : L!LoadOr(f, k, x) = LP!LoadOr(f, k, x)
  BY DEF L!LoadOr, LP!LoadOr

LEMMA SameIsLiquidatable == \A p : L!IsLiquidatable(p) <=> LP!IsLiquidatable(p)
  BY DEF L!IsLiquidatable, LP!IsLiquidatable, L!BelowOne, LP!BelowOne,
      L!LiquidationThresholdAdjustedCollateral, LP!LiquidationThresholdAdjustedCollateral,
      L!TotalDebtValue, LP!TotalDebtValue, L!FromRatio, LP!FromRatio, L!MapThenSumSet,
      LP!MapThenSumSet, L!UintMul, LP!UintMul, L!Value, LP!Value, L!MapThenFoldSet,
      LP!MapThenFoldSet

LEMMA SameIsAboveMaxLtv == \A p : L!IsAboveMaxLtv(p) <=> LP!IsAboveMaxLtv(p)
  BY DEF L!IsAboveMaxLtv, LP!IsAboveMaxLtv, L!BelowOne, LP!BelowOne, L!MaxLtvAdjustedCollateral,
      LP!MaxLtvAdjustedCollateral, L!TotalDebtValue, LP!TotalDebtValue, L!FromRatio,
      LP!FromRatio, L!MapThenSumSet, LP!MapThenSumSet, L!UintMul, LP!UintMul, L!Value, LP!Value,
      L!MapThenFoldSet, LP!MapThenFoldSet

LEMMA SameLimit == \A u, d : L!Limit(u, d) = LP!Limit(u, d)
  BY SameLoadOr
  DEF L!Limit, LP!Limit

LEMMA SameHasDebt == \A u, d : L!HasDebt(u, d) <=> LP!HasDebt(u, d)
  BY DEF L!HasDebt, LP!HasDebt

LEMMA SameHasCollateral == \A u, d : L!HasCollateral(u, d) <=> LP!HasCollateral(u, d)
  BY DEF L!HasCollateral, LP!HasCollateral

LEMMA SameDebtScaled == \A u, d : L!DebtScaled(u, d) = LP!DebtScaled(u, d)
  BY SameHasDebt
  DEF L!DebtScaled, LP!DebtScaled

LEMMA SameCollateralScaled ==
    \A u, d : L!CollateralScaled(u, d) = LP!CollateralScaled(u, d)
  BY SameHasCollateral
  DEF L!CollateralScaled, LP!CollateralScaled

LEMMA SameIsBorrowing == \A u : L!IsBorrowing(u) <=> LP!IsBorrowing(u)
  BY SameHasDebt
  DEF L!IsBorrowing, LP!IsBorrowing

LEMMA SameIncreaseCollateral ==
    \A f, u, d, s : L!IncreaseCollateral(f, u, d, s) = LP!IncreaseCollateral(f, u, d, s)
  BY SameSave
  DEF L!IncreaseCollateral, LP!IncreaseCollateral

LEMMA SameDecreaseCollateral ==
    \A f, u, d, s : L!DecreaseCollateral(f, u, d, s) = LP!DecreaseCollateral(f, u, d, s)
  BY SameRemove, SameSave
  DEF L!DecreaseCollateral, LP!DecreaseCollateral

LEMMA SameIncreaseDebt ==
    \A u, d, s, x : L!IncreaseDebt(u, d, s, x) = LP!IncreaseDebt(u, d, s, x)
  BY SameSave, SameDebtScaled
  DEF L!IncreaseDebt, LP!IncreaseDebt

LEMMA SameDecreaseDebt == \A u, d, s : L!DecreaseDebt(u, d, s) = LP!DecreaseDebt(u, d, s)
  BY SameRemove, SameSave
  DEF L!DecreaseDebt, LP!DecreaseDebt

LEMMA SameOracleKnown == L!OracleKnown <=> LP!OracleKnown
  BY DEF L!OracleKnown, LP!OracleKnown

LEMMA SamePricesSeen == L!Prices = LP!Prices
  BY DEF L!Prices, LP!Prices

LEMMA SamePriceKnown == \A d : L!PriceKnown(d) <=> LP!PriceKnown(d)
  BY SameOracleKnown, SamePricesSeen
  DEF L!PriceKnown, LP!PriceKnown

LEMMA SamePositionDenoms == \A u, f : L!PositionDenoms(u, f) = LP!PositionDenoms(u, f)
  BY DEF L!PositionDenoms, LP!PositionDenoms

LEMMA SamePositionsDefined ==
    \A u, f : L!PositionsDefined(u, f) <=> LP!PositionsDefined(u, f)
  BY SamePositionDenoms, SamePriceKnown
  DEF L!PositionsDefined, LP!PositionsDefined

LEMMA SamePositions == \A u, f : L!Positions(u, f) = LP!Positions(u, f)
  BY SamePositionDenoms, SameUnderlyingLiquidity, SameHasDebt, SameUnderlyingDebt,
     SamePricesSeen
  DEF L!Positions, LP!Positions

LEMMA SameLiquidatable == \A u, f : L!Liquidatable(u, f) <=> LP!Liquidatable(u, f)
  BY SamePositionsDefined, SameIsLiquidatable, SamePositions
  DEF L!Liquidatable, LP!Liquidatable

LEMMA SameHealthyAfterWithdraw ==
    \A u, d, a : L!HealthyAfterWithdraw(u, d, a) <=> LP!HealthyAfterWithdraw(u, d, a)
  BY SamePositions, SamePositionsDefined, SameIsLiquidatable
  DEF L!HealthyAfterWithdraw, LP!HealthyAfterWithdraw

LEMMA SameWithinMaxLtvAfterBorrow ==
    \A u, d, a : L!WithinMaxLtvAfterBorrow(u, d, a) <=> LP!WithinMaxLtvAfterBorrow(u, d, a)
  BY SamePositions, SameHasDebt, SameSave, SamePricesSeen, SamePositionsDefined,
     SamePriceKnown, SameIsAboveMaxLtv
  DEF L!WithinMaxLtvAfterBorrow, LP!WithinMaxLtvAfterBorrow

LEMMA SameCanAttach == \A d, a : L!CanAttach(d, a) <=> LP!CanAttach(d, a)
  BY DEF L!CanAttach, LP!CanAttach

LEMMA SameCanSend == \A d, a : L!CanSend(d, a) <=> LP!CanSend(d, a)
  BY DEF L!CanSend, LP!CanSend

LEMMA SameSaveMarket == \A d, m : L!SaveMarket(d, m) <=> LP!SaveMarket(d, m)
  BY SameRatesDefined, SameSave, SameUpdateInterestRates
  DEF L!SaveMarket, LP!SaveMarket

LEMMA SameWithdrawnShares ==
    \A u, d, a : L!WithdrawnShares(u, d, a) = LP!WithdrawnShares(u, d, a)
  BY SameCollateralScaled, SameUnderlyingLiquidity, SameScaledLiquidity,
     SameApplyAccumulatedInterests
  DEF L!WithdrawnShares, LP!WithdrawnShares

LEMMA SameLeftToRepay == \A x, y : L!LeftToRepay(x, y) = LP!LeftToRepay(x, y)
  BY DEF L!LeftToRepay, LP!LeftToRepay

LEMMA SameRepaidShares == \A u, d, a : L!RepaidShares(u, d, a) = LP!RepaidShares(u, d, a)
  BY SameApplyAccumulatedInterests, SameDebtScaled, SameUnderlyingDebt, SameScaledDebt,
     SameLeftToRepay
  DEF L!RepaidShares, LP!RepaidShares

LEMMA SameMin == \A S : L!Min(S) = LP!Min(S)
  BY DEF L!Min, LP!Min

LEMMA SameUintMul == \A n, a : L!UintMul(n, a) = LP!UintMul(n, a)
  BY DEF L!UintMul, LP!UintMul

LEMMA SameCollateralFor ==
    \A a, b, x, y : L!CollateralFor(a, b, x, y) = LP!CollateralFor(a, b, x, y)
  BY SameUintMul
  DEF L!CollateralFor, LP!CollateralFor, L!DivideUintByDecimal, LP!DivideUintByDecimal

LEMMA SameDebtFor == \A a, b, x, y : L!DebtFor(a, b, x, y) = LP!DebtFor(a, b, x, y)
  BY SameUintMul
  DEF L!DebtFor, LP!DebtFor, L!DivideUintByDecimal, LP!DivideUintByDecimal

LEMMA SameLiquidationAmounts ==
    \A h, o, s, m, x, y :
        L!LiquidationAmounts(h, o, s, m, x, y) = LP!LiquidationAmounts(h, o, s, m, x, y)
  BY SameMin, SameUintMul, SameCollateralFor, SameScaledLiquidity, SameUnderlyingLiquidity,
     SameDebtFor
  DEF L!LiquidationAmounts, LP!LiquidationAmounts

LEMMA SameBothOrNothing == \A r : L!BothOrNothing(r) <=> LP!BothOrNothing(r)
  BY DEF L!BothOrNothing, LP!BothOrNothing

LEMMA SameDeposit ==
    \A u, d, a : L!Deposit(u, d, a) <=> LP!Deposit(u, d, a)
  BY SameApplyAccumulatedInterests, SameScaledLiquidity, SameCanAttach,
     SameUnderlyingLiquidity, SameIncreaseCollateral, SameSaveMarket,
     SameIncreaseTotalCollateral
  DEF L!Deposit, LP!Deposit

LEMMA SameWithdraw ==
    \A u, d, a : L!Withdraw(u, d, a) <=> LP!Withdraw(u, d, a)
  BY SameCollateralScaled, SameUnderlyingLiquidity, SameApplyAccumulatedInterests,
     SameWithdrawnShares, SameOracleKnown, SameIsBorrowing, SameHealthyAfterWithdraw,
     SameDecreaseCollateral, SameSaveMarket, SameDecreaseTotalCollateral, SameCanSend
  DEF L!Withdraw, LP!Withdraw

LEMMA SameBorrow ==
    \A u, d, a : L!Borrow(u, d, a) <=> LP!Borrow(u, d, a)
  BY SameApplyAccumulatedInterests, SameScaledDebt, SameLimit, SameUnderlyingLiquidity,
     SameOracleKnown, SameWithinMaxLtvAfterBorrow, SameUnderlyingDebt, SameDebtScaled,
     SameIncreaseDebt, SameSaveMarket, SameIncreaseTotalDebt, SameCanSend
  DEF L!Borrow, LP!Borrow

LEMMA SameRepay ==
    \A u, d, a, b : L!Repay(u, d, a, b) <=> LP!Repay(u, d, a, b)
  BY SameApplyAccumulatedInterests, SameUnderlyingDebt, SameDebtScaled, SameRepaidShares,
     SameCanAttach, SameLimit, SameHasDebt, SameDecreaseDebt, SameSaveMarket,
     SameDecreaseTotalDebt, SameLeftToRepay
  DEF L!Repay, LP!Repay

LEMMA SameLiquidate ==
    \A u, r, c, d, a : L!Liquidate(u, r, c, d, a) <=> LP!Liquidate(u, r, c, d, a)
  BY SameApplyAccumulatedInterests, SameUnderlyingDebt, SameLiquidationAmounts,
     SamePricesSeen, SameScaledDebt, SameCanAttach, SameLimit, SameHasCollateral,
     SameHasDebt, SameOracleKnown, SameLiquidatable, SameBothOrNothing,
     SameIncreaseCollateral, SameDecreaseCollateral, SameDecreaseDebt, SameSaveMarket,
     SameDecreaseTotalDebt
  DEF L!Liquidate, LP!Liquidate

LEMMA SameUpdateAssetCollateralStatus ==
    \A u, d, a : L!UpdateAssetCollateralStatus(u, d, a) <=> 
        LP!UpdateAssetCollateralStatus(u, d, a)
  BY SameHasCollateral, SameOracleKnown, SamePositionsDefined, SameLiquidatable
  DEF L!UpdateAssetCollateralStatus, LP!UpdateAssetCollateralStatus

LEMMA SameUpdateOwner ==
    \A s, x : L!UpdateOwner(s, x) <=> LP!UpdateOwner(s, x)
  BY DEF L!UpdateOwner, LP!UpdateOwner, L!UpdatedRoles, LP!UpdatedRoles, L!IsOwner, LP!IsOwner

LEMMA SameUpdateConfig ==
    \A s, x : L!UpdateConfig(s, x) <=> LP!UpdateConfig(s, x)
  BY DEF L!UpdateConfig, LP!UpdateConfig, L!Given, LP!Given, L!IsOwner, LP!IsOwner, L!ValidConfig,
      LP!ValidConfig

LEMMA SameInitAsset ==
    \A s, d, x : L!InitAsset(s, d, x) <=> LP!InitAsset(s, d, x)
  BY SameSave
  DEF L!InitAsset, LP!InitAsset, L!IsOwner, LP!IsOwner, L!AssetParam, LP!AssetParam,
      L!ValidMarket, LP!ValidMarket, L!NewMarket, LP!NewMarket, L!Given, LP!Given

LEMMA SameTouchesRates == \A m, x : L!TouchesRates(m, x) <=> LP!TouchesRates(m, x)
  BY DEF L!TouchesRates, LP!TouchesRates

LEMMA SameWithParams == \A m, x : L!WithParams(m, x) = LP!WithParams(m, x)
  BY DEF L!WithParams, LP!WithParams, L!Given, LP!Given

LEMMA SameValidMarket == \A m : L!ValidMarket(m) <=> LP!ValidMarket(m)
  BY DEF L!ValidMarket, LP!ValidMarket

LEMMA SameUpdateAssetByOwner ==
    \A d, x : L!UpdateAssetByOwner(d, x) <=> LP!UpdateAssetByOwner(d, x)
  BY SameTouchesRates, SameApplyAccumulatedInterests, SameWithParams, SameValidMarket,
     SameRatesDefined, SameSave, SameUpdateInterestRates
  DEF L!UpdateAssetByOwner, LP!UpdateAssetByOwner

LEMMA SameUpdateAssetByEmergencyOwner ==
    \A d, x : L!UpdateAssetByEmergencyOwner(d, x) <=> LP!UpdateAssetByEmergencyOwner(d, x)
  BY DEF L!UpdateAssetByEmergencyOwner, LP!UpdateAssetByEmergencyOwner

LEMMA SameUpdateAsset ==
    \A s, d, x : L!UpdateAsset(s, d, x) <=> LP!UpdateAsset(s, d, x)
  BY SameUpdateAssetByOwner, SameUpdateAssetByEmergencyOwner
  DEF L!UpdateAsset, LP!UpdateAsset, L!IsOwner, LP!IsOwner, L!IsEmergencyOwner,
      LP!IsEmergencyOwner

LEMMA SameUpdateUncollateralizedLoanLimit ==
    \A s, u, d, x : L!UpdateUncollateralizedLoanLimit(s, u, d, x) <=> 
        LP!UpdateUncollateralizedLoanLimit(s, u, d, x)
  BY SameLimit, SameDebtScaled, SameSave
  DEF L!UpdateUncollateralizedLoanLimit, LP!UpdateUncollateralizedLoanLimit, L!IsOwner,
      LP!IsOwner

LEMMA SameLendingInit == L!Init => LP!Init
  BY DEF L!Init, LP!Init, L!InitialRole, LP!InitialRole, L!ValidConfig, LP!ValidConfig, L!EmptyMap,
      LP!EmptyMap

LEMMA SameUserStep == L!UserStep => LP!UserStep
  BY SameDeposit, SameWithdraw, SameBorrow, SameRepay, SameLiquidate,
     SameUpdateAssetCollateralStatus
  DEF L!UserStep, LP!UserStep

LEMMA SameLendingOwnerStep == L!OwnerStep => LP!OwnerStep
  BY SameUpdateOwner, SameUpdateConfig, SameInitAsset, SameUpdateAsset,
     SameUpdateUncollateralizedLoanLimit
  DEF L!OwnerStep, LP!OwnerStep

LEMMA SameNext == [L!Next]_(L!vars) => [LP!Next]_(LP!vars)
  <1>1. L!EnvironmentStep => LP!EnvironmentStep
    BY DEF L!EnvironmentStep, LP!EnvironmentStep, L!Tick, LP!Tick, L!OracleMoves, LP!OracleMoves
  <1>2. UNCHANGED L!vars => UNCHANGED LP!vars
    BY DEF L!vars, LP!vars
  <1> QED
    BY <1>1, <1>2, SameUserStep, SameLendingOwnerStep DEF L!Next, LP!Next

SameHealth == \A u \in User : Healthy(u) <=> LP!Healthy(u)

LEMMA HealthIsTheSame == SameHealth
  BY SamePositionsDefined, SamePositions, SameIsLiquidatable DEF SameHealth, Healthy, LP!Healthy

\* All that was proved of lending alone holds of it here, with what its proofs about
\* health assume of a state.
LEMMA LendingFine == Spec /\ []PricesFit => [](LP!HealthInv)
  <1>1. L!Spec => LP!Spec
    BY SameLendingInit, SameNext, PTL DEF L!Spec, LP!Spec
  <1>2. LP!Spec => [](LP!HealthInv)
    BY LP!HealthInvAlways, LendingAssumed
  <1> QED
    BY <1>1, <1>2, DeploymentImplementsLending DEF ImplementsLending

-----------------------------------------------------------------------------
(***************************************************************************)
(* Strangers                                                               *)
(***************************************************************************)

PricesAgree == \A d \in Denom : O!Price(d) = OP!Price(d)

LEMMA PricesAreTheSame == PricesAgree
  BY SamePrices DEF PricesAgree, O!Price, OP!Price, O!Cardinality, OP!Cardinality,
      O!IsFiniteSet, OP!IsFiniteSet

LEMMA RecordingKeepsPrices ==
    ASSUME OracleFine, OracleFine', NEW denoms, O!RecordTwapSnapshots(denoms),
           NEW d \in DOMAIN PricesAnswered
    PROVE  d \in DOMAIN PricesAnswered' /\ PricesAnswered'[d] = PricesAnswered[d]
  <1>1. d \in Denom /\ O!Price(d) # {}
    BY DEF PricesAnswered
  <1>2. O!Price(d)' = O!Price(d)
    <2>1. PricesAgree /\ PricesAgree'
      BY PricesAreTheSame, PTL
    <2>2. O!Price(d) = OP!Price(d) /\ O!Price(d)' = OP!Price(d)'
      BY <1>1, <2>1 DEF PricesAgree
    <2>3. OP!RecordTwapSnapshots(denoms)
      BY SameRecording
    <2>4. OP!OracleSound /\ OP!OracleSound'
      BY DEF OracleFine
    <2> QED
      BY <1>1, <2>2, <2>3, <2>4, OP!PriceUnmoved, OracleAssumed
  <1> QED
    BY <1>1, <1>2 DEF PricesAnswered

\* What lending is told does not change when anybody records snapshots; it may be
\* told more.
LEMMA RecordingKeepsHealth ==
    ASSUME OracleFine, OracleFine', NEW denoms, O!RecordTwapSnapshots(denoms),
           UNCHANGED <<lendingContract, providerContract>>, NEW u \in User, Healthy(u)
    PROVE  Healthy(u)'
  <1>1. /\ config' = config /\ markets' = markets /\ collaterals' = collaterals
        /\ debts' = debts /\ now' = now
    BY DEF lendingContract, O!RecordTwapSnapshots, O!market
  <1>2. P!ContractAddr("oracle")' = P!ContractAddr("oracle")
    BY DEF providerContract, P!ContractAddr, P!QueryAddress
  <1> DEFINE D == L!PositionDenoms(u, collaterals)
  <1>3. ASSUME NEW d \in D PROVE L!PriceKnown(d)' /\ L!Prices'[d] = L!Prices[d]
    <2>1. L!PriceKnown(d)
      BY DEF Healthy, L!PositionsDefined
    <2>2. config.address_provider \in DOMAIN OracleSeen
          /\ d \in DOMAIN OracleSeen[config.address_provider]
      BY <2>1 DEF L!PriceKnown, L!OracleKnown, L!Prices
    <2>3. P!ContractAddr("oracle") = {OracleAddress}
      <3>1. P!ContractAddr("oracle") # {}
        BY <2>2 DEF OracleSeen, EmptyMap
      <3> QED
        BY <2>2, <3>1 DEF OracleSeen, EmptyMap
    <2>4. OracleSeen = [p \in Provider |-> PricesAnswered]
      BY <2>3 DEF OracleSeen
    <2>5. OracleSeen' = [p \in Provider |-> PricesAnswered']
      BY <1>2, <2>3 DEF OracleSeen
    <2>6. /\ config.address_provider \in Provider /\ d \in DOMAIN PricesAnswered
      BY <2>2, <2>4
    <2>7. d \in DOMAIN PricesAnswered' /\ PricesAnswered'[d] = PricesAnswered[d]
      BY <2>6, RecordingKeepsPrices
    <2> QED
      BY <1>1, <2>4, <2>5, <2>6, <2>7 DEF L!PriceKnown, L!OracleKnown, L!Prices
  <1>4. L!PositionDenoms(u, collaterals)' = D
    BY <1>1 DEF L!PositionDenoms
  <1>5. L!PositionsDefined(u, collaterals)'
    BY <1>1, <1>3, <1>4 DEF Healthy, L!PositionsDefined
  <1>6. L!Positions(u, collaterals)' = L!Positions(u, collaterals)
    BY <1>1, <1>3, <1>4 DEF L!Positions, L!HasDebt
  <1>7. ~L!IsLiquidatable(L!Positions(u, collaterals)')
    BY <1>6 DEF Healthy
  <1> QED
    BY <1>5, <1>7 DEF Healthy

TakesOut(u) ==
    \E d \in Denom :
        \/ \E request \in Amount \cup {None} : L!Withdraw(u, d, request)
        \/ \E amount \in Amount : L!Borrow(u, d, amount)

LEMMA LendingUsersKeepHealth ==
    ASSUME LP!HealthInv, LP!HealthInv', L!UserStep, NEW u \in User, ~TakesOut(u), Healthy(u),
           \A d \in Denom, amount \in Amount : L!Deposit(u, d, amount) => L!PriceKnown(d)
    PROVE  Healthy(u)'
  <1>1. LP!UserStep /\ LP!Next
    BY SameUserStep DEF LP!Next
  <1>2. ~LP!TakesOut(u)
    BY SameWithdraw, SameBorrow DEF TakesOut, LP!TakesOut
  <1>3. \A d \in Denom, amount \in Amount : LP!Deposit(u, d, amount) => LP!PriceKnown(d)
    BY SameDeposit, SamePriceKnown
  <1>4. SameHealth /\ SameHealth'
    BY HealthIsTheSame, PTL
  <1>5. LP!Healthy(u)
    BY <1>4 DEF SameHealth
  <1>6. LP!Healthy(u)'
    BY <1>1, <1>2, <1>3, <1>5, LP!OthersLeaveHealthy, LendingAssumed
  <1> QED
    BY <1>4, <1>6 DEF SameHealth

\* Nobody but the owners, and those who trade and publish, can make a user of the
\* deployment unhealthy who takes nothing out: no message to lending, whatever it
\* rounds and however coins move, and no recording of snapshots, whenever it is sent.
THEOREM StrangersNeverHurtAnybody == Spec /\ []PricesFit => StrangersNeverHurt
  <1>1. ASSUME LP!HealthInv, LP!HealthInv', OracleFine, OracleFine', Next,
               NEW u \in User, Healthy(u), ~Healthy(u)'
        PROVE  \/ OutsideStep
               \/ UNCHANGED <<lendingContract, providerContract>> /\ O!OwnerStep
               \/ UNCHANGED <<oracleContract, providerContract>> /\ L!OwnerStep
               \/ ProviderStep
               \/ \E d \in Denom :
                   \/ \E request \in Amount \cup {None} : L!Withdraw(u, d, request)
                   \/ \E amount \in Amount : L!Borrow(u, d, amount)
                   \/ \E amount \in Amount : L!Deposit(u, d, amount) /\ ~L!PriceKnown(d)
    <2>1. CASE L!UserStep
      BY <1>1, <2>1, LendingUsersKeepHealth DEF TakesOut
    <2>2. CASE LendingStep /\ L!OwnerStep
      BY <2>2 DEF LendingStep
    <2>3. CASE OracleStep
      BY <1>1, <2>3, RecordingKeepsHealth DEF OracleStep
    <2> QED
      BY <1>1, <2>1, <2>2, <2>3 DEF Next, LendingStep
  <1>2. LP!HealthInv /\ LP!HealthInv' /\ OracleFine /\ OracleFine' /\ [Next]_protocolVars
        => [\A u \in User :
              Healthy(u) /\ ~Healthy(u)' =>
                \/ OutsideStep
                \/ UNCHANGED <<lendingContract, providerContract>> /\ O!OwnerStep
                \/ UNCHANGED <<oracleContract, providerContract>> /\ L!OwnerStep
                \/ ProviderStep
                \/ \E d \in Denom :
                    \/ \E request \in Amount \cup {None} : L!Withdraw(u, d, request)
                    \/ \E amount \in Amount : L!Borrow(u, d, amount)
                    \/ \E amount \in Amount :
                          L!Deposit(u, d, amount) /\ ~L!PriceKnown(d)]_protocolVars
    BY <1>1
  <1> QED
    BY <1>2, LendingFine, OracleAlwaysFine, PTL DEF Spec, StrangersNeverHurt

-----------------------------------------------------------------------------
(***************************************************************************)
(* Addresses                                                               *)
(***************************************************************************)

PrefixedAreOnChain ==
    /\ prefix \in Prefix
    /\ \A type \in DOMAIN addresses :
          <<addresses[type], prefix>> \in StartsWith => addresses[type] \in OnChain

\* Where every address of the chain has the configured prefix, the contracts find
\* an address in query_contract_addr exactly if it has that prefix, whatever the
\* owners of the provider stored.
THEOREM PrefixAlwaysDecides ==
    ASSUME \A a \in OnChain, p \in Prefix : <<a, p>> \in StartsWith
    PROVE  Spec => []PrefixDecides
  <1>1. Init => PrefixedAreOnChain
    BY DEF Init, P!Init, P!EmptyMap, PrefixedAreOnChain
  <1>2. PrefixedAreOnChain /\ [Next]_protocolVars => PrefixedAreOnChain'
    <2> SUFFICES ASSUME PrefixedAreOnChain, [Next]_protocolVars PROVE PrefixedAreOnChain'
      OBVIOUS
    <2>1. CASE UNCHANGED <<prefix, addresses>>
      BY <2>1 DEF PrefixedAreOnChain
    <2>2. ASSUME NEW sender, NEW type, NEW address, P!SetAddress(sender, type, address)
          PROVE  PrefixedAreOnChain'
      <3>1. P!ValidAddress(address) /\ addresses' = P!Save(addresses, type, address) /\ prefix' = prefix
        BY <2>2 DEF P!SetAddress
      <3>2. <<address, prefix>> \in StartsWith => address \in OnChain
        BY <3>1 DEF P!ValidAddress
      <3>3. \A t \in DOMAIN addresses' :
                \/ t = type /\ addresses'[t] = address
                \/ t \in DOMAIN addresses /\ addresses'[t] = addresses[t]
        BY <3>1 DEF P!Save
      <3> QED
        BY <3>1, <3>2, <3>3 DEF PrefixedAreOnChain
    <2> QED
      BY <2>1, <2>2
      DEF Next, LendingStep, OracleStep, ProviderStep, OutsideStep, P!UpdateOwner,
          protocolVars, providerContract
  <1>3. PrefixedAreOnChain => PrefixDecides
    <2> SUFFICES ASSUME PrefixedAreOnChain, NEW type \in DOMAIN addresses
                 PROVE  <<addresses[type], prefix>> \in StartsWith <=> P!ContractAddr(type) # {}
      BY DEF PrefixDecides
    <2>1. P!ContractAddr(type) = {addresses[type]} \cap OnChain
      BY DEF P!ContractAddr, P!QueryAddress
    <2> QED
      BY <2>1 DEF PrefixedAreOnChain
  <1> QED
    BY <1>1, <1>2, <1>3, PTL DEF Spec
=============================================================================
