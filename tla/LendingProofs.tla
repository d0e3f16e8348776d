--------------------------- MODULE LendingProofs ---------------------------
(***************************************************************************)
(* Proofs of the properties of LendingProperties, for every value of the   *)
(* constants that satisfies the assumptions: first what the functions of   *)
(* InterestRates return for every market, then what the messages of        *)
(* Lending keep true, who sets what the protocol runs on, for every        *)
(* sequence of owners, and last that the shares of the users and the       *)
(* totals of the markets agree.                                            *)
(*                                                                         *)
(* The totals of the properties are sums over all users, which the         *)
(* community modules define by a recursion that a CHOOSE picks.  It is     *)
(* shown that this recursion has a solution and what follows from it; then *)
(* come what each message books, the two theorems on the totals, that      *)
(* therefore nothing is ever subtracted from less than it, and that the    *)
(* handlers that pay out or take back do not fail for the arithmetic.      *)
(***************************************************************************)
EXTENDS LendingProperties, FiniteSetTheorems, TLAPS

-----------------------------------------------------------------------------
(***************************************************************************)
(* What the functions of InterestRates return                              *)
(***************************************************************************)

\* A market as the handlers may find it: with the fields of the struct,
\* parameters that were validated, and indexes that can be divided by.
SoundMarket(m) ==
    /\ m \in Market
    /\ ValidMarket(m)
    /\ 0 < m.borrow_index
    /\ 0 < m.liquidity_index

-----------------------------------------------------------------------------
(***************************************************************************)
(* Arithmetic                                                              *)
(***************************************************************************)

\* Division of naturals, as `Uint128` divides, gives a natural.
LEMMA DivType == ASSUME NEW a \in Nat, NEW b \in Nat \ {0} PROVE a \div b \in Nat
  BY SMT

LEMMA TimesType == ASSUME NEW a \in Nat, NEW b \in Nat PROVE a * b \in Nat
  BY SMT

\* A quotient is at least b when the dividend is at least b times the divisor.
LEMMA DivBound ==
    ASSUME NEW a \in Nat, NEW b \in Nat, NEW c \in Nat \ {0}, b * c <= a
    PROVE  b <= a \div c
  <1> DEFINE q == a \div c
  <1>1. q \in Nat /\ a < (q + 1) * c
    BY SMT
  <1>2. SUFFICES ASSUME q + 1 <= b PROVE FALSE
    BY <1>1
  <1>3. (q + 1) * c <= b * c
    BY <1>1, <1>2, SMT
  <1> QED
    BY <1>1, <1>3, SMT

LEMMA DivMonotone ==
    ASSUME NEW a \in Nat, NEW b \in Nat, NEW c \in Nat \ {0}, a <= b
    PROVE  a \div c <= b \div c
  <1>1. a \div c \in Nat /\ (a \div c) * c <= a /\ (a \div c) * c \in Nat
    BY SMT
  <1>2. (a \div c) * c <= b
    BY <1>1
  <1> QED
    BY <1>1, <1>2, DivBound

LEMMA DecimalMulType ==
    ASSUME NEW a \in Nat, NEW b \in Nat PROVE DecimalMul(a, b) \in Nat
  BY OneAssumption, TimesType, DivType DEF DecimalMul

LEMMA UintMulType ==
    ASSUME NEW a \in Nat, NEW b \in Nat PROVE UintMul(a, b) \in Nat
  BY OneAssumption, TimesType, DivType DEF UintMul

LEMMA FromRatioType ==
    ASSUME NEW a \in Nat, NEW b \in Nat \ {0} PROVE FromRatio(a, b) \in Nat
  BY OneAssumption, TimesType, DivType DEF FromRatio

LEMMA DivideUintType ==
    ASSUME NEW a \in Nat, NEW b \in Nat \ {0} PROVE DivideUintByDecimal(a, b) \in Nat
  BY OneAssumption, TimesType, DivType DEF DivideUintByDecimal

LEMMA DivCeilType ==
    ASSUME NEW a \in Nat, NEW b \in Nat \ {0} PROVE DivCeil(a, b) \in Nat
  BY DivType DEF DivCeil

\* Shares and coins are unsigned when the index is positive.
LEMMA ScaleTypes ==
    ASSUME NEW a \in Nat, NEW i \in Nat \ {0}
    PROVE  /\ ScaledFloor(a, i) \in Nat
           /\ ScaledCeil(a, i) \in Nat
           /\ UnderlyingFloor(a, i) \in Nat
           /\ UnderlyingCeil(a, i) \in Nat
  <1>1. a * ScalingFactor \in Nat /\ UintMul(a, i) \in Nat
    BY ScalingAssumption, TimesType, UintMulType
  <1>2. (a * ScalingFactor) * One \in Nat
    BY <1>1, OneAssumption, TimesType
  <1> QED
    BY <1>1, <1>2, ScalingAssumption, DivideUintType, DivCeilType, DivType
    DEF ScaledFloor, ScaledCeil, UnderlyingFloor, UnderlyingCeil, DivideUintByDecimalCeil

\* More shares are never fewer coins, and no shares are none.
LEMMA UnderlyingMonotone ==
    ASSUME NEW a \in Nat, NEW b \in Nat, NEW i \in Nat, a <= b
    PROVE  UnderlyingFloor(a, i) <= UnderlyingFloor(b, i)
  <1>1. a * i \in Nat /\ b * i \in Nat /\ a * i <= b * i
    BY SMT
  <1>2. UintMul(a, i) \in Nat /\ UintMul(b, i) \in Nat /\ UintMul(a, i) <= UintMul(b, i)
    BY <1>1, OneAssumption, DivMonotone, UintMulType DEF UintMul
  <1> QED
    BY <1>2, ScalingAssumption, DivMonotone DEF UnderlyingFloor

LEMMA NoUnderlying ==
    ASSUME NEW i \in Nat PROVE UnderlyingFloor(0, i) = 0 /\ UnderlyingCeil(0, i) = 0
  <1>1. UintMul(0, i) = 0
    BY OneAssumption DEF UintMul
  <1> QED
    BY <1>1, ScalingAssumption DEF UnderlyingFloor, UnderlyingCeil, DivCeil

-----------------------------------------------------------------------------
(***************************************************************************)
(* Indexes                                                                 *)
(***************************************************************************)

\* Interest never makes an index smaller.
LEMMA AppliedInterestGrows ==
    ASSUME NEW index \in Nat, NEW rate \in Nat, NEW elapsed \in Nat
    PROVE  /\ AppliedLinearInterest(index, rate, elapsed) \in Nat
           /\ index <= AppliedLinearInterest(index, rate, elapsed)
  <1> DEFINE x == DecimalMul(rate, FromRatio(elapsed, SecondsPerYear))
  <1>1. x \in Nat
    BY ScalingAssumption, FromRatioType, DecimalMulType
  <1> HIDE DEF x
  <1>2. One + x \in Nat /\ One <= One + x
    BY <1>1, OneAssumption
  <1>3. index * One <= index * (One + x)
    <2>1. index * (One + x) = index * One + index * x
      BY <1>1, OneAssumption, SMT
    <2>2. index * x \in Nat /\ index * One \in Nat
      BY <1>1, OneAssumption, TimesType
    <2> QED
      BY <2>1, <2>2, SMT
  <1>4. index * (One + x) \in Nat
    BY <1>2, TimesType
  <1>5. index <= (index * (One + x)) \div One
    BY <1>3, <1>4, OneAssumption, DivBound
  <1> QED
    BY <1>2, <1>5, DecimalMulType DEF AppliedLinearInterest, x, DecimalMul

LEMMA UpdatedIndexesGrow ==
    ASSUME NEW m \in Market, NEW t \in Nat
    PROVE  /\ UpdatedBorrowIndex(m, t) \in Nat
           /\ m.borrow_index <= UpdatedBorrowIndex(m, t)
           /\ UpdatedLiquidityIndex(m, t) \in Nat
           /\ m.liquidity_index <= UpdatedLiquidityIndex(m, t)
  <1>1. /\ m.borrow_index \in Nat /\ m.borrow_rate \in Nat
        /\ m.liquidity_index \in Nat /\ m.liquidity_rate \in Nat
        /\ m.indexes_last_updated \in Nat
    BY DEF Market, Decimal
  <1> DEFINE elapsed == t - m.indexes_last_updated
  <1>2. m.indexes_last_updated < t => elapsed \in Nat
    BY <1>1
  <1> HIDE DEF elapsed
  <1>3. ASSUME m.indexes_last_updated < t
        PROVE  /\ AppliedLinearInterest(m.borrow_index, m.borrow_rate, elapsed) \in Nat
               /\ m.borrow_index
                    <= AppliedLinearInterest(m.borrow_index, m.borrow_rate, elapsed)
               /\ AppliedLinearInterest(m.liquidity_index, m.liquidity_rate, elapsed) \in Nat
               /\ m.liquidity_index
                    <= AppliedLinearInterest(m.liquidity_index, m.liquidity_rate, elapsed)
    BY <1>1, <1>2, <1>3, AppliedInterestGrows
  <1>4. /\ UpdatedBorrowIndex(m, t) \in Nat
        /\ m.borrow_index <= UpdatedBorrowIndex(m, t)
    BY <1>1, <1>3 DEF UpdatedBorrowIndex, elapsed
  <1>5. /\ UpdatedLiquidityIndex(m, t) \in Nat
        /\ m.liquidity_index <= UpdatedLiquidityIndex(m, t)
    BY <1>1, <1>3 DEF UpdatedLiquidityIndex, elapsed
  <1> QED
    BY <1>4, <1>5

-----------------------------------------------------------------------------
(***************************************************************************)
(* Markets                                                                 *)
(***************************************************************************)

\* Conversions with the indexes of a sound market are defined.
LEMMA ConversionTypes ==
    ASSUME NEW m, SoundMarket(m), NEW t \in Nat, NEW a \in Nat
    PROVE  /\ ScaledLiquidity(a, m, t) \in Nat
           /\ UnderlyingLiquidity(a, m, t) \in Nat
           /\ ScaledDebt(a, m, t) \in Nat
           /\ UnderlyingDebt(a, m, t) \in Nat
  <1>1. /\ m \in Market
        /\ m.borrow_index \in Nat \ {0}
        /\ m.liquidity_index \in Nat \ {0}
    BY DEF SoundMarket, Market, Decimal
  <1>2. /\ UpdatedBorrowIndex(m, t) \in Nat \ {0}
        /\ UpdatedLiquidityIndex(m, t) \in Nat \ {0}
    BY <1>1, UpdatedIndexesGrow
  <1> QED
    BY <1>2, ScaleTypes DEF ScaledLiquidity, UnderlyingLiquidity, ScaledDebt, UnderlyingDebt

LEMMA RewardsType ==
    ASSUME NEW m, SoundMarket(m), NEW t \in Nat
    PROVE  AccruedProtocolRewards(m, t) \in Nat
  <1> DEFINE before == UnderlyingCeil(m.debt_total_scaled, m.borrow_index)
             after  == UnderlyingCeil(m.debt_total_scaled, UpdatedBorrowIndex(m, t))
             minted == IF after > before THEN after - before ELSE 0
  <1>1. /\ m \in Market
        /\ m.borrow_index \in Nat \ {0}
        /\ m.debt_total_scaled \in Nat
        /\ m.reserve_factor \in Nat
    BY DEF SoundMarket, Market, Decimal, Uint
  <1>2. UpdatedBorrowIndex(m, t) \in Nat \ {0}
    BY <1>1, UpdatedIndexesGrow
  <1>3. before \in Nat /\ after \in Nat
    BY <1>1, <1>2, ScaleTypes
  <1> HIDE DEF before, after
  <1>4. minted \in Nat
    BY <1>3
  <1> HIDE DEF minted
  <1>5. UintMul(minted, m.reserve_factor) \in Nat
    BY <1>1, <1>4, UintMulType
  <1> QED
    BY <1>5 DEF AccruedProtocolRewards, minted, before, after

LEMMA AccrualType ==
    ASSUME NEW m, SoundMarket(m), NEW t \in Nat
    PROVE  SoundMarket(ApplyAccumulatedInterests(m, t))
  <1> DEFINE b == UpdatedBorrowIndex(m, t)
             l == UpdatedLiquidityIndex(m, t)
             s == ScaledLiquidity(AccruedProtocolRewards(m, t), m, t)
  <1>1. m \in Market /\ ValidMarket(m)
    BY DEF SoundMarket
  <1>2. b \in Nat /\ 0 < b /\ l \in Nat /\ 0 < l
    <2>1. /\ m.borrow_index \in Nat /\ 0 < m.borrow_index
          /\ m.liquidity_index \in Nat /\ 0 < m.liquidity_index
      BY DEF SoundMarket, Market, Decimal
    <2> QED
      BY <1>1, <2>1, UpdatedIndexesGrow
  <1>3. s \in Nat
    BY RewardsType, ConversionTypes
  <1> HIDE DEF b, l, s
  <1>4. ApplyAccumulatedInterests(m, t) =
            [m EXCEPT !.borrow_index = b, !.liquidity_index = l,
                      !.indexes_last_updated = IF @ < t THEN t ELSE @,
                      !.collateral_total_scaled = @ + s]
    BY DEF ApplyAccumulatedInterests, b, l, s
  <1> DEFINE a == [m EXCEPT !.borrow_index = b, !.liquidity_index = l,
                            !.indexes_last_updated = IF @ < t THEN t ELSE @,
                            !.collateral_total_scaled = @ + s]
  <1>5. a \in Market
    <2>1. /\ (IF m.indexes_last_updated < t THEN t ELSE m.indexes_last_updated) \in Nat
          /\ m.collateral_total_scaled + s \in Nat
      BY <1>1, <1>3 DEF Market, Uint
    <2> QED
      BY <1>1, <1>2, <2>1 DEF Market, Decimal, Uint
  <1>6. ValidMarket(a)
    BY <1>1 DEF ValidMarket, Market
  <1>7. 0 < a.borrow_index /\ 0 < a.liquidity_index
    BY <1>1, <1>2 DEF Market
  <1> QED
    BY <1>4, <1>5, <1>6, <1>7 DEF SoundMarket

LEMMA UtilizationType ==
    ASSUME NEW m, SoundMarket(m), NEW t \in Nat
    PROVE  UtilizationRate(m, t) \in Nat
  <1> DEFINE collateral == UnderlyingLiquidity(m.collateral_total_scaled, m, t)
             debt       == UnderlyingDebt(m.debt_total_scaled, m, t)
  <1>1. m.collateral_total_scaled \in Nat /\ m.debt_total_scaled \in Nat
    BY DEF SoundMarket, Market, Uint
  <1>2. collateral \in Nat /\ debt \in Nat
    BY <1>1, ConversionTypes
  <1> HIDE DEF collateral, debt
  <1>3. collateral # 0 => FromRatio(debt, collateral) \in Nat
    BY <1>2, FromRatioType
  <1> QED
    BY <1>3 DEF UtilizationRate, collateral, debt

\* The rates are unsigned wherever get_borrow_rate does not divide by zero.
LEMMA BorrowRateType ==
    ASSUME NEW irm \in InterestRateModel, NEW utilization \in Nat,
           irm.optimal_utilization_rate <= One,
           BorrowRateDefined(irm, utilization)
    PROVE  BorrowRate(irm, utilization) \in Nat
  <1> DEFINE optimal == irm.optimal_utilization_rate
  <1>1. /\ optimal \in Nat /\ irm.base \in Nat
        /\ irm.slope_1 \in Nat /\ irm.slope_2 \in Nat
    BY DEF InterestRateModel, Decimal
  <1>2. CASE utilization = 0
    BY <1>1, <1>2 DEF BorrowRate
  <1>3. CASE utilization # 0 /\ utilization <= optimal
    <2>1. optimal \in Nat \ {0}
      BY <1>1, <1>3
    <2>2. DecimalMul(irm.slope_1, DivideDecimalByDecimal(utilization, optimal)) \in Nat
      BY <1>1, <2>1, FromRatioType, DecimalMulType DEF DivideDecimalByDecimal
    <2> QED
      BY <1>1, <1>3, <2>2 DEF BorrowRate
  <1>4. CASE ~(utilization <= optimal)
    <2>1. /\ utilization - optimal \in Nat
          /\ One - optimal \in Nat \ {0}
      BY <1>1, <1>4, OneAssumption DEF BorrowRateDefined
    <2>2. DivideDecimalByDecimal(DecimalMul(irm.slope_2, utilization - optimal),
                                 One - optimal) \in Nat
      BY <1>1, <2>1, FromRatioType, DecimalMulType DEF DivideDecimalByDecimal
    <2>3. utilization # 0
      BY <1>1, <1>4
    <2> QED
      BY <1>1, <1>4, <2>2, <2>3 DEF BorrowRate
  <1> QED
    BY <1>2, <1>3, <1>4

LEMMA RatesType ==
    ASSUME NEW m, SoundMarket(m), NEW t \in Nat, RatesDefined(m, t)
    PROVE  SoundMarket(UpdateInterestRates(m, t))
  <1> DEFINE u == UtilizationRate(m, t)
             b == BorrowRate(m.interest_rate_model, u)
             l == LiquidityRate(b, u, m.reserve_factor)
             r == [m EXCEPT !.borrow_rate = b, !.liquidity_rate = l]
  <1>1. m \in Market /\ ValidMarket(m)
    BY DEF SoundMarket
  <1>2. u \in Nat
    BY UtilizationType
  <1>3. b \in Nat
    <2>1. /\ m.interest_rate_model \in InterestRateModel
          /\ m.interest_rate_model.optimal_utilization_rate <= One
          /\ BorrowRateDefined(m.interest_rate_model, u)
      BY <1>1 DEF Market, ValidMarket, RatesDefined
    <2> QED
      BY <1>2, <2>1, BorrowRateType
  <1>4. l \in Nat
    <2>1. One - m.reserve_factor \in Nat
      BY <1>1, OneAssumption DEF Market, ValidMarket, Decimal
    <2> QED
      BY <1>2, <1>3, <2>1, DecimalMulType DEF LiquidityRate
  <1>5. UpdateInterestRates(m, t) = r
    BY DEF UpdateInterestRates
  <1> HIDE DEF u, b, l
  <1>6. r \in Market
    BY <1>1, <1>3, <1>4 DEF Market, Decimal
  <1>7. ValidMarket(r)
    BY <1>1 DEF ValidMarket, Market
  <1>8. 0 < r.borrow_index /\ 0 < r.liquidity_index
    BY DEF SoundMarket, Market
  <1> QED
    BY <1>5, <1>6, <1>7, <1>8 DEF SoundMarket

LEMMA TotalsType ==
    ASSUME NEW m, SoundMarket(m), NEW s \in Nat
    PROVE  /\ SoundMarket(IncreaseTotalCollateral(m, s))
           /\ SoundMarket(IncreaseTotalDebt(m, s))
           /\ s <= m.collateral_total_scaled => SoundMarket(DecreaseTotalCollateral(m, s))
           /\ s <= m.debt_total_scaled => SoundMarket(DecreaseTotalDebt(m, s))
  <1>1. /\ m \in Market /\ ValidMarket(m)
        /\ 0 < m.borrow_index /\ 0 < m.liquidity_index
    BY DEF SoundMarket
  <1>2. ASSUME NEW x \in Nat
        PROVE  /\ SoundMarket([m EXCEPT !.collateral_total_scaled = x])
               /\ SoundMarket([m EXCEPT !.debt_total_scaled = x])
    BY <1>1 DEF SoundMarket, Market, ValidMarket, Uint
  <1>3. m.collateral_total_scaled \in Nat /\ m.debt_total_scaled \in Nat
    BY <1>1 DEF Market, Uint
  <1>4. /\ m.collateral_total_scaled + s \in Nat
        /\ m.debt_total_scaled + s \in Nat
        /\ s <= m.collateral_total_scaled => m.collateral_total_scaled - s \in Nat
        /\ s <= m.debt_total_scaled => m.debt_total_scaled - s \in Nat
    BY <1>3
  <1> QED
    BY <1>2, <1>4
    DEF IncreaseTotalCollateral, IncreaseTotalDebt,
        DecreaseTotalCollateral, DecreaseTotalDebt

-----------------------------------------------------------------------------
(***************************************************************************)
(* What a handler leaves in storage                                        *)
(***************************************************************************)

\* x holds the interest of m up to the time t.
AccruedTo(x, m, t) ==
    /\ x.borrow_index = UpdatedBorrowIndex(m, t)
    /\ x.liquidity_index = UpdatedLiquidityIndex(m, t)
    /\ x.indexes_last_updated = t

\* x is a market that a handler which found m may save at the time t: interest
\* is stored up to t, and the rates are those of its totals.
Settled(x, m, t) ==
    /\ SoundMarket(x)
    /\ AccruedTo(x, m, t)
    /\ UpdateInterestRates(x, t) = x

LEMMA AccrualAccrues ==
    ASSUME NEW m \in Market, NEW t \in Nat, m.indexes_last_updated <= t
    PROVE  AccruedTo(ApplyAccumulatedInterests(m, t), m, t)
  <1>1. m.indexes_last_updated \in Nat
    BY DEF Market
  <1>2. (IF m.indexes_last_updated < t THEN t ELSE m.indexes_last_updated) = t
    BY <1>1
  <1> QED
    BY <1>2 DEF AccruedTo, ApplyAccumulatedInterests, Market

LEMMA TotalsKeepAccrual ==
    ASSUME NEW x \in Market, NEW m, NEW t, NEW s, AccruedTo(x, m, t)
    PROVE  /\ AccruedTo(IncreaseTotalCollateral(x, s), m, t)
           /\ AccruedTo(DecreaseTotalCollateral(x, s), m, t)
           /\ AccruedTo(IncreaseTotalDebt(x, s), m, t)
           /\ AccruedTo(DecreaseTotalDebt(x, s), m, t)
  BY DEF AccruedTo, Market, IncreaseTotalCollateral, DecreaseTotalCollateral,
         IncreaseTotalDebt, DecreaseTotalDebt

\* Storing the interest accrued so far does not change what an index is worth.
LEMMA AccrualIsContinuous ==
    ASSUME NEW x, NEW m, NEW t \in Nat, AccruedTo(x, m, t)
    PROVE  /\ UpdatedBorrowIndex(x, t) = UpdatedBorrowIndex(m, t)
           /\ UpdatedLiquidityIndex(x, t) = UpdatedLiquidityIndex(m, t)
  <1>1. ~(x.indexes_last_updated < t)
    BY DEF AccruedTo
  <1>2. /\ UpdatedBorrowIndex(x, t) = x.borrow_index
        /\ UpdatedLiquidityIndex(x, t) = x.liquidity_index
    BY <1>1 DEF UpdatedBorrowIndex, UpdatedLiquidityIndex
  <1> QED
    BY <1>2 DEF AccruedTo

\* When interest is stored up to t, the rates of t do not depend on the rates
\* stored before: computing them a second time changes nothing.
LEMMA RatesSettle ==
    ASSUME NEW x, SoundMarket(x), NEW m, NEW t \in Nat,
           AccruedTo(x, m, t), RatesDefined(x, t)
    PROVE  Settled(UpdateInterestRates(x, t), m, t)
  <1> DEFINE r == UpdateInterestRates(x, t)
  <1>1. SoundMarket(r)
    BY RatesType
  <1>2. /\ x \in Market
        /\ r \in Market
    BY <1>1 DEF SoundMarket
  <1>3. /\ r.borrow_index = x.borrow_index
        /\ r.liquidity_index = x.liquidity_index
        /\ r.indexes_last_updated = x.indexes_last_updated
        /\ r.collateral_total_scaled = x.collateral_total_scaled
        /\ r.debt_total_scaled = x.debt_total_scaled
        /\ r.interest_rate_model = x.interest_rate_model
        /\ r.reserve_factor = x.reserve_factor
    BY <1>2 DEF UpdateInterestRates, Market
  <1>4. AccruedTo(r, m, t)
    BY <1>3 DEF AccruedTo
  <1>5. /\ UpdatedBorrowIndex(r, t) = UpdatedBorrowIndex(x, t)
        /\ UpdatedLiquidityIndex(r, t) = UpdatedLiquidityIndex(x, t)
    BY <1>4, AccrualIsContinuous
  <1>6. UtilizationRate(r, t) = UtilizationRate(x, t)
    BY <1>3, <1>5 DEF UtilizationRate, UnderlyingLiquidity, UnderlyingDebt
  <1>7. UpdateInterestRates(r, t) = r
    <2> DEFINE b == BorrowRate(x.interest_rate_model, UtilizationRate(x, t))
               l == LiquidityRate(b, UtilizationRate(x, t), x.reserve_factor)
    <2>1. /\ r = [x EXCEPT !.borrow_rate = b, !.liquidity_rate = l]
          /\ UpdateInterestRates(r, t) = [r EXCEPT !.borrow_rate = b, !.liquidity_rate = l]
      BY <1>3, <1>6 DEF UpdateInterestRates
    <2> HIDE DEF b, l, r
    <2> QED
      BY <1>2, <2>1 DEF Market
  <1> QED
    BY <1>1, <1>4, <1>7 DEF Settled

-----------------------------------------------------------------------------
(***************************************************************************)
(* What the messages keep true                                             *)
(***************************************************************************)

\* The inductive invariant of the types: what TypeOK says, markets whose indexes
\* can be divided by and whose parameters are valid, and interest that is never
\* stored ahead of time.  Without the last two a step could leave the types,
\* for the conversions divide by the indexes and the rates subtract from 1.
Sound ==
    /\ TypeOK
    /\ \A d \in DOMAIN markets :
        SoundMarket(markets[d]) /\ markets[d].indexes_last_updated <= now

-----------------------------------------------------------------------------
(***************************************************************************)
(* Storage                                                                 *)
(***************************************************************************)

LEMMA SaveType ==
    ASSUME NEW map, NEW Key, NEW Item, IsMap(map, Key, Item),
           NEW k \in Key, NEW v \in Item
    PROVE  IsMap(Save(map, k, v), Key, Item)
  BY DEF IsMap, Save

LEMMA RemoveType ==
    ASSUME NEW map, NEW Key, NEW Item, IsMap(map, Key, Item), NEW k
    PROVE  IsMap(Remove(map, k), Key, Item)
  BY DEF IsMap, Remove

LEMMA EmptyMapType == ASSUME NEW Key, NEW Item PROVE IsMap(EmptyMap, Key, Item)
  BY DEF IsMap, EmptyMap

\* Shares are unsigned, also where there is no entry.
LEMMA PositionTypes ==
    ASSUME TypeOK, NEW u \in User, NEW d \in Denom
    PROVE  /\ <<u, d>> \in Position
           /\ DebtScaled(u, d) \in Nat
           /\ CollateralScaled(u, d) \in Nat
           /\ Limit(u, d) \in Nat
  <1>1. <<u, d>> \in Position
    BY DEF Position
  <1>2. /\ HasDebt(u, d) => debts[<<u, d>>] \in Debt
        /\ HasCollateral(u, d) => collaterals[<<u, d>>] \in Collateral
        /\ <<u, d>> \in DOMAIN limits => limits[<<u, d>>] \in Uint
    BY <1>1 DEF TypeOK, IsMap, HasDebt, HasCollateral
  <1> QED
    BY <1>1, <1>2 DEF DebtScaled, CollateralScaled, Limit, LoadOr, Debt, Collateral, Uint

LEMMA IncreaseCollateralType ==
    ASSUME NEW colls, IsMap(colls, Position, Collateral),
           NEW u \in User, NEW d \in Denom, NEW scaled \in Nat
    PROVE  IsMap(IncreaseCollateral(colls, u, d, scaled), Position, Collateral)
  <1>1. <<u, d>> \in Position
    BY DEF Position
  <1>2. <<u, d>> \in DOMAIN colls => colls[<<u, d>>] \in Collateral
    BY DEF IsMap
  <1>3. (IF <<u, d>> \in DOMAIN colls
         THEN [colls[<<u, d>>] EXCEPT !.amount_scaled = @ + scaled]
         ELSE [amount_scaled |-> scaled, enabled |-> TRUE]) \in Collateral
    BY <1>2 DEF Collateral, Uint
  <1> QED
    BY <1>1, <1>3, SaveType DEF IncreaseCollateral

LEMMA DecreaseCollateralType ==
    ASSUME NEW colls, IsMap(colls, Position, Collateral),
           NEW u \in User, NEW d \in Denom, <<u, d>> \in DOMAIN colls,
           NEW scaled \in Nat, scaled <= colls[<<u, d>>].amount_scaled
    PROVE  IsMap(DecreaseCollateral(colls, u, d, scaled), Position, Collateral)
  <1>1. <<u, d>> \in Position
    BY DEF Position
  <1>2. colls[<<u, d>>] \in Collateral
    BY DEF IsMap
  <1>3. [colls[<<u, d>>] EXCEPT !.amount_scaled = @ - scaled] \in Collateral
    BY <1>2 DEF Collateral, Uint
  <1> QED
    BY <1>1, <1>3, SaveType, RemoveType DEF DecreaseCollateral

LEMMA IncreaseDebtType ==
    ASSUME TypeOK, NEW u \in User, NEW d \in Denom, NEW scaled \in Nat,
           NEW uncollateralized \in BOOLEAN
    PROVE  IsMap(IncreaseDebt(u, d, scaled, uncollateralized), Position, Debt)
  <1>1. <<u, d>> \in Position /\ DebtScaled(u, d) + scaled \in Nat
    BY PositionTypes
  <1>2. [amount_scaled |-> DebtScaled(u, d) + scaled,
         uncollateralized |-> uncollateralized] \in Debt
    BY <1>1 DEF Debt, Uint
  <1> QED
    BY <1>1, <1>2, SaveType DEF IncreaseDebt, TypeOK

LEMMA DecreaseDebtType ==
    ASSUME TypeOK, NEW u \in User, NEW d \in Denom, HasDebt(u, d),
           NEW scaled \in Nat, scaled <= debts[<<u, d>>].amount_scaled
    PROVE  IsMap(DecreaseDebt(u, d, scaled), Position, Debt)
  <1>1. <<u, d>> \in Position
    BY PositionTypes
  <1>2. debts[<<u, d>>] \in Debt
    BY DEF TypeOK, IsMap, HasDebt
  <1>3. [debts[<<u, d>>] EXCEPT !.amount_scaled = @ - scaled] \in Debt
    BY <1>2 DEF Debt, Uint
  <1> QED
    BY <1>1, <1>3, SaveType, RemoveType DEF DecreaseDebt, TypeOK

-----------------------------------------------------------------------------
(***************************************************************************)
(* The initial states                                                      *)
(***************************************************************************)

LEMMA InitSound == Init => Sound
  <1> SUFFICES ASSUME Init PROVE Sound
    OBVIOUS
  <1>1. role \in Role
    BY DEF Init, Role, InitialRole
  <1>2. config \in Config
    BY InputAssumption DEF Init, Config
  <1>3. /\ IsMap(markets, Denom, Market)
        /\ IsMap(collaterals, Position, Collateral)
        /\ IsMap(debts, Position, Debt)
        /\ IsMap(limits, Position, Uint)
    BY EmptyMapType DEF Init
  <1>4. /\ balance \in [Denom -> Nat]
        /\ now \in Nat
        /\ DOMAIN markets = {}
    BY DEF Init, EmptyMap
  <1>5. /\ DOMAIN oracle \subseteq Provider
        /\ \A p \in DOMAIN oracle : IsMap(oracle[p], Denom, Decimal)
    BY InputAssumption DEF Init
  <1> QED
    BY <1>1, <1>2, <1>3, <1>4, <1>5 DEF Sound, TypeOK

-----------------------------------------------------------------------------
(***************************************************************************)
(* What the users' handlers do to the market they touch                    *)
(***************************************************************************)

\* The step replaces the market of d by one that a handler may save.
MarketSettled(d) ==
    /\ d \in DOMAIN markets
    /\ \E r : Settled(r, markets[d], now) /\ markets' = Save(markets, d, r)

\* Every handler starts from a market with the interest accrued so far.
LEMMA AccruedMarket ==
    ASSUME Sound, NEW d \in DOMAIN markets
    PROVE  LET m == ApplyAccumulatedInterests(markets[d], now)
           IN  /\ m \in Market
               /\ SoundMarket(m)
               /\ AccruedTo(m, markets[d], now)
               /\ m.debt_total_scaled = markets[d].debt_total_scaled
               /\ d \in Denom
  <1>1. now \in Nat /\ d \in Denom /\ markets[d] \in Market
    BY DEF Sound, TypeOK, IsMap
  <1>2. SoundMarket(markets[d]) /\ markets[d].indexes_last_updated <= now
    BY DEF Sound
  <1>3. ApplyAccumulatedInterests(markets[d], now).debt_total_scaled
            = markets[d].debt_total_scaled
    BY <1>1 DEF ApplyAccumulatedInterests, Market
  <1> QED
    BY <1>1, <1>2, <1>3, AccrualType, AccrualAccrues DEF SoundMarket

LEMMA SaveMarketSettles ==
    ASSUME Sound, NEW d \in DOMAIN markets, NEW x, SoundMarket(x),
           AccruedTo(x, markets[d], now), SaveMarket(d, x)
    PROVE  MarketSettled(d)
  <1>1. now \in Nat
    BY DEF Sound, TypeOK
  <1>2. Settled(UpdateInterestRates(x, now), markets[d], now)
    BY <1>1, RatesSettle DEF SaveMarket
  <1> QED
    BY <1>2 DEF MarketSettled, SaveMarket

\* A market that was saved is sound, and the others are as they were.
LEMMA SettledMarketsSound ==
    ASSUME Sound, NEW d, MarketSettled(d), now' = now
    PROVE  /\ IsMap(markets', Denom, Market)
           /\ \A e \in DOMAIN markets' :
                SoundMarket(markets'[e]) /\ markets'[e].indexes_last_updated <= now'
  <1>1. PICK r : Settled(r, markets[d], now) /\ markets' = Save(markets, d, r)
    BY DEF MarketSettled
  <1>2. d \in Denom /\ now \in Nat
    BY DEF MarketSettled, Sound, TypeOK, IsMap
  <1>3. SoundMarket(r) /\ r \in Market /\ r.indexes_last_updated <= now
    BY <1>1, <1>2 DEF Settled, SoundMarket, AccruedTo
  <1>4. IsMap(markets', Denom, Market)
    BY <1>1, <1>2, <1>3, SaveType DEF Sound, TypeOK
  <1>5. ASSUME NEW e \in DOMAIN markets'
        PROVE  SoundMarket(markets'[e]) /\ markets'[e].indexes_last_updated <= now'
    <2>1. markets'[e] = IF e = d THEN r ELSE markets[e]
      BY <1>1 DEF Save
    <2>2. e # d => e \in DOMAIN markets
      BY <1>1 DEF Save
    <2> QED
      BY <1>3, <2>1, <2>2 DEF Sound
  <1> QED
    BY <1>4, <1>5

\* The market of d with the interest accrued so far.
Accrued(d) == ApplyAccumulatedInterests(markets[d], now)

LEMMA DepositSettles ==
    ASSUME Sound, NEW u \in User, NEW d \in Denom, NEW amount \in Amount,
           Deposit(u, d, amount)
    PROVE  /\ MarketSettled(d)
           /\ \E s \in Nat :
                /\ collaterals' = IncreaseCollateral(collaterals, u, d, s)
                /\ SaveMarket(d, IncreaseTotalCollateral(Accrued(d), s))
           /\ IsMap(collaterals', Position, Collateral)
           /\ balance' \in [Denom -> Nat]
  <1> DEFINE m == ApplyAccumulatedInterests(markets[d], now)
             scaled == ScaledLiquidity(amount, m, now)
  <1>1. /\ d \in DOMAIN markets
        /\ collaterals' = IncreaseCollateral(collaterals, u, d, scaled)
        /\ SaveMarket(d, IncreaseTotalCollateral(m, scaled))
        /\ balance' = [balance EXCEPT ![d] = @ + amount]
    BY DEF Deposit
  <1>2. /\ m \in Market /\ SoundMarket(m)
        /\ AccruedTo(m, markets[d], now)
    BY <1>1, AccruedMarket
  <1>3. now \in Nat /\ amount \in Nat
    BY InputAssumption DEF Sound, TypeOK
  <1>4. scaled \in Nat
    BY <1>2, <1>3, ConversionTypes
  <1> HIDE DEF m, scaled
  <1>5. MarketSettled(d)
    BY <1>1, <1>2, <1>4, TotalsType, TotalsKeepAccrual, SaveMarketSettles
  <1>6. IsMap(collaterals', Position, Collateral)
    BY <1>1, <1>4, IncreaseCollateralType DEF Sound, TypeOK
  <1>7. balance' \in [Denom -> Nat]
    BY <1>1, <1>3 DEF Sound, TypeOK
  <1> QED
    BY <1>1, <1>4, <1>5, <1>6, <1>7 DEF Accrued, m

LEMMA WithdrawSettles ==
    ASSUME Sound, NEW u \in User, NEW d \in Denom,
           NEW request \in Amount \cup {None}, Withdraw(u, d, request)
    PROVE  /\ MarketSettled(d)
           /\ HasCollateral(u, d)
           /\ \E s \in Nat :
                /\ s <= CollateralScaled(u, d)
                /\ collaterals' = DecreaseCollateral(collaterals, u, d, s)
                /\ SaveMarket(d, DecreaseTotalCollateral(Accrued(d), s))
           /\ IsMap(collaterals', Position, Collateral)
           /\ balance' \in [Denom -> Nat]
  <1> DEFINE m == ApplyAccumulatedInterests(markets[d], now)
             before == CollateralScaled(u, d)
             owned  == UnderlyingLiquidity(before, markets[d], now)
             amount == IF request = None THEN owned ELSE request
             left   == ScaledLiquidity(owned - amount, m, now)
             scaled == WithdrawnShares(u, d, amount)
  <1>1. /\ d \in DOMAIN markets
        /\ before # 0
        /\ amount <= owned
        /\ 0 <= scaled
        /\ collaterals' = DecreaseCollateral(collaterals, u, d, scaled)
        /\ scaled <= m.collateral_total_scaled
        /\ SaveMarket(d, DecreaseTotalCollateral(m, scaled))
        /\ CanSend(d, amount)
        /\ balance' = [balance EXCEPT ![d] = @ - amount]
    BY DEF Withdraw
  <1>2. /\ m \in Market /\ SoundMarket(m)
        /\ AccruedTo(m, markets[d], now)
    BY <1>1, AccruedMarket
  <1>3. now \in Nat /\ before \in Nat /\ SoundMarket(markets[d])
    BY <1>1, PositionTypes DEF Sound, TypeOK
  <1>4. owned \in Nat
    BY <1>3, ConversionTypes
  <1>5. amount \in Nat
    BY <1>4, InputAssumption
  <1>6. scaled = before - left
    BY DEF WithdrawnShares
  <1> HIDE DEF owned, amount
  <1>7. owned - amount \in Nat
    BY <1>1, <1>4, <1>5
  <1>8. left \in Nat
    BY <1>2, <1>3, <1>7, ConversionTypes
  <1> HIDE DEF left, scaled, before
  <1>9. scaled \in Nat /\ scaled <= before
    BY <1>1, <1>3, <1>6, <1>8
  <1> HIDE DEF m
  <1>10. MarketSettled(d)
    BY <1>1, <1>2, <1>9, TotalsType, TotalsKeepAccrual, SaveMarketSettles
  <1>11. /\ <<u, d>> \in DOMAIN collaterals
         /\ scaled <= collaterals[<<u, d>>].amount_scaled
    BY <1>1, <1>9 DEF before, CollateralScaled, HasCollateral
  <1>12. IsMap(collaterals', Position, Collateral)
    BY <1>1, <1>9, <1>11, DecreaseCollateralType DEF Sound, TypeOK
  <1>13. balance' \in [Denom -> Nat]
    BY <1>1, <1>5 DEF Sound, TypeOK, CanSend
  <1> QED
    BY <1>1, <1>9, <1>10, <1>11, <1>12, <1>13 DEF Accrued, m, before, HasCollateral

LEMMA BorrowSettles ==
    ASSUME Sound, NEW u \in User, NEW d \in Denom, NEW amount \in Amount,
           Borrow(u, d, amount)
    PROVE  /\ MarketSettled(d)
           /\ \E s \in Nat :
                /\ debts' = IncreaseDebt(u, d, s, Limit(u, d) # 0)
                /\ SaveMarket(d, IncreaseTotalDebt(Accrued(d), s))
           /\ IsMap(debts', Position, Debt)
           /\ balance' \in [Denom -> Nat]
  <1> DEFINE m == ApplyAccumulatedInterests(markets[d], now)
             scaled == ScaledDebt(amount, m, now)
  <1>1. /\ d \in DOMAIN markets
        /\ debts' = IncreaseDebt(u, d, scaled, Limit(u, d) # 0)
        /\ SaveMarket(d, IncreaseTotalDebt(m, scaled))
        /\ CanSend(d, amount)
        /\ balance' = [balance EXCEPT ![d] = @ - amount]
    BY DEF Borrow
  <1>2. /\ m \in Market /\ SoundMarket(m)
        /\ AccruedTo(m, markets[d], now)
    BY <1>1, AccruedMarket
  <1>3. now \in Nat /\ amount \in Nat
    BY InputAssumption DEF Sound, TypeOK
  <1>4. scaled \in Nat
    BY <1>2, <1>3, ConversionTypes
  <1> HIDE DEF m, scaled
  <1>5. MarketSettled(d)
    BY <1>1, <1>2, <1>4, TotalsType, TotalsKeepAccrual, SaveMarketSettles
  <1>6. IsMap(debts', Position, Debt)
    BY <1>1, <1>4, IncreaseDebtType DEF Sound
  <1>7. balance' \in [Denom -> Nat]
    BY <1>1, <1>3 DEF Sound, TypeOK, CanSend
  <1> QED
    BY <1>1, <1>4, <1>5, <1>6, <1>7 DEF Accrued, m

LEMMA LeftToRepayType ==
    ASSUME NEW owed \in Nat, NEW amount \in Nat
    PROVE  /\ LeftToRepay(owed, amount) \in Nat
           /\ owed - LeftToRepay(owed, amount) \in Nat
  BY DEF LeftToRepay

LEMMA RepaySettles ==
    ASSUME Sound, NEW u \in User, NEW d \in Denom, NEW amount \in Amount,
           NEW on_behalf_of \in BOOLEAN, Repay(u, d, amount, on_behalf_of)
    PROVE  /\ MarketSettled(d)
           /\ HasDebt(u, d)
           /\ \E s \in Nat :
                /\ s <= DebtScaled(u, d)
                /\ debts' = DecreaseDebt(u, d, s)
                /\ SaveMarket(d, DecreaseTotalDebt(Accrued(d), s))
           /\ IsMap(debts', Position, Debt)
           /\ balance' \in [Denom -> Nat]
  <1> DEFINE m == ApplyAccumulatedInterests(markets[d], now)
             owed == UnderlyingDebt(DebtScaled(u, d), m, now)
             left == LeftToRepay(owed, amount)
             scaled == RepaidShares(u, d, amount)
  <1>1. /\ d \in DOMAIN markets
        /\ HasDebt(u, d)
        /\ 0 <= scaled
        /\ scaled <= m.debt_total_scaled
        /\ debts' = DecreaseDebt(u, d, scaled)
        /\ SaveMarket(d, DecreaseTotalDebt(m, scaled))
        /\ balance' = [balance EXCEPT ![d] = @ + (owed - left)]
    BY DEF Repay
  <1>2. /\ m \in Market /\ SoundMarket(m)
        /\ AccruedTo(m, markets[d], now)
    BY <1>1, AccruedMarket
  <1>3. now \in Nat /\ amount \in Nat /\ DebtScaled(u, d) \in Nat
    BY InputAssumption, PositionTypes DEF Sound, TypeOK
  <1>4. owed \in Nat
    BY <1>2, <1>3, ConversionTypes
  <1>5. scaled = DebtScaled(u, d) - ScaledDebt(left, m, now)
    BY DEF RepaidShares
  <1> HIDE DEF m, owed
  <1>6. left \in Nat /\ owed - left \in Nat
    BY <1>3, <1>4, LeftToRepayType
  <1> HIDE DEF left, scaled
  <1>7. ScaledDebt(left, m, now) \in Nat
    BY <1>2, <1>3, <1>6, ConversionTypes
  <1>8. scaled \in Nat /\ scaled <= DebtScaled(u, d)
    BY <1>1, <1>3, <1>5, <1>7
  <1>9. MarketSettled(d)
    BY <1>1, <1>2, <1>8, TotalsType, TotalsKeepAccrual, SaveMarketSettles
  <1>10. IsMap(debts', Position, Debt)
    BY <1>1, <1>8, DecreaseDebtType DEF Sound, DebtScaled
  <1>11. balance' \in [Denom -> Nat]
    BY <1>1, <1>6 DEF Sound, TypeOK
  <1> QED
    BY <1>1, <1>8, <1>9, <1>10, <1>11 DEF Accrued, m

-----------------------------------------------------------------------------
(***************************************************************************)
(* Liquidation                                                             *)
(***************************************************************************)

\* A liquidation is only computed where both prices are known.
LEMMA LiquidatablePrices ==
    ASSUME Sound, NEW u \in User, NEW c \in Denom, NEW d \in Denom,
           HasCollateral(u, c), HasDebt(u, d), Liquidatable(u, collaterals)
    PROVE  /\ c \in DOMAIN markets /\ Prices[c] \in Nat
           /\ d \in DOMAIN markets /\ Prices[d] \in Nat
  <1>1. c \in PositionDenoms(u, collaterals) /\ d \in PositionDenoms(u, collaterals)
    BY DEF PositionDenoms, HasCollateral, HasDebt
  <1>2. /\ c \in DOMAIN markets /\ PriceKnown(c)
        /\ d \in DOMAIN markets /\ PriceKnown(d)
    BY <1>1 DEF Liquidatable, PositionsDefined
  <1>3. IsMap(Prices, Denom, Decimal)
    BY <1>2 DEF PriceKnown, OracleKnown, Prices, Sound, TypeOK
  <1> QED
    BY <1>2, <1>3 DEF PriceKnown, IsMap, Decimal

LEMMA MinOfTwo ==
    ASSUME NEW a \in Nat, NEW b \in Nat
    PROVE  Min({a, b}) \in Nat /\ Min({a, b}) <= a /\ Min({a, b}) <= b
  <1>1. \E x \in {a, b} : \A y \in {a, b} : x <= y
    <2>1. CASE a <= b
      BY <2>1
    <2>2. CASE b <= a
      BY <2>2
    <2> QED
      BY <2>1, <2>2
  <1>2. Min({a, b}) \in {a, b} /\ \A y \in {a, b} : Min({a, b}) <= y
    BY <1>1, Zenon DEF Min
  <1> QED
    BY <1>2

\* Nothing can be bought with a debt that is worth nothing, so that the price
\* of the debt is only divided by when it is not zero.
LEMMA LiquidationAmountsType ==
    ASSUME Sound, NEW held \in Nat, NEW owed \in Nat, NEW sent \in Nat,
           NEW m, SoundMarket(m), NEW cp \in Nat, cp # 0, NEW dp \in Nat
    PROVE  LET result == LiquidationAmounts(held, owed, sent, m, cp, dp)
           IN  result.repaid \in Nat /\ result.seized \in Nat /\ result.seized_scaled \in Nat
  <1> DEFINE bonus     == One + m.liquidation_bonus
             repayable == Min({sent, UintMul(owed, config.close_factor)})
             worth     == UintMul(UintMul(repayable, dp), bonus)
             wanted    == CollateralFor(repayable, bonus, cp, dp)
             wanted_scaled == ScaledLiquidity(wanted, m, now)
             whole     == UnderlyingLiquidity(held, m, now)
             repaid    == DebtFor(whole, bonus, cp, dp)
  <1>1. /\ bonus \in Nat \ {0}
        /\ config.close_factor \in Nat
        /\ now \in Nat
    BY OneAssumption DEF Sound, TypeOK, Config, SoundMarket, Market, Decimal
  <1> HIDE DEF bonus
  <1>2. repayable \in Nat
    BY <1>1, UintMulType, MinOfTwo
  <1> HIDE DEF repayable
  <1>3. worth \in Nat
    BY <1>1, <1>2, UintMulType
  <1>4. wanted \in Nat
    BY <1>3, DivideUintType DEF CollateralFor
  <1>5. whole \in Nat
    BY <1>1, ConversionTypes
  <1>6. wanted_scaled \in Nat
    BY <1>1, <1>4, ConversionTypes
  <1>7. ASSUME dp = 0 PROVE wanted_scaled = 0
    <2>1. \A n \in Nat : UintMul(n, 0) = 0 /\ UintMul(0, n) = 0
      BY OneAssumption DEF UintMul
    <2>2. worth = 0
      BY <1>1, <1>2, <1>7, <2>1
    <2> HIDE DEF worth
    <2>3. wanted = 0
      BY <2>2, OneAssumption DEF CollateralFor, DivideUintByDecimal, worth
    <2>4. UpdatedLiquidityIndex(m, now) \in Nat \ {0}
      BY <1>1, UpdatedIndexesGrow DEF SoundMarket, Market, Decimal
    <2>5. \A i \in Nat \ {0} : ScaledFloor(0, i) = 0
      BY OneAssumption, ScalingAssumption DEF ScaledFloor, DivideUintByDecimal
    <2> HIDE DEF wanted
    <2> QED
      BY <2>3, <2>4, <2>5 DEF ScaledLiquidity
  <1>8. wanted_scaled > held => repaid \in Nat
    <2> SUFFICES ASSUME wanted_scaled > held PROVE repaid \in Nat
      OBVIOUS
    <2>1. dp \in Nat \ {0}
      BY <1>6, <1>7
    <2> HIDE DEF whole
    <2>2. DivideUintByDecimal(UintMul(whole, cp), dp) \in Nat
      BY <1>5, <2>1, UintMulType, DivideUintType
    <2> QED
      BY <1>1, <2>2, DivideUintType DEF DebtFor
  <1> HIDE DEF wanted, wanted_scaled, whole, repaid
  <1>9. LiquidationAmounts(held, owed, sent, m, cp, dp) =
          IF wanted_scaled > held
          THEN [repaid |-> repaid, seized |-> whole, seized_scaled |-> held]
          ELSE [repaid |-> repayable, seized |-> wanted, seized_scaled |-> wanted_scaled]
    BY DEF LiquidationAmounts, bonus, repayable, wanted, wanted_scaled, whole, repaid
  <1> QED
    BY <1>2, <1>4, <1>5, <1>6, <1>8, <1>9

LEMMA LiquidateSettles ==
    ASSUME Sound, NEW u \in User, NEW r \in User, NEW c \in Denom, NEW d \in Denom,
           NEW sent \in Amount, Liquidate(u, r, c, d, sent)
    PROVE  /\ MarketSettled(d)
           /\ c \in DOMAIN markets
           /\ HasDebt(u, d)
           /\ \E s \in Nat :
                /\ s <= DebtScaled(u, d)
                /\ debts' = DecreaseDebt(u, d, s)
                /\ SaveMarket(d, DecreaseTotalDebt(Accrued(d), s))
           /\ \E s \in Nat :
                /\ s <= CollateralScaled(u, c)
                /\ collaterals' =
                     IncreaseCollateral(DecreaseCollateral(collaterals, u, c, s), r, c, s)
           /\ IsMap(collaterals', Position, Collateral)
           /\ IsMap(debts', Position, Debt)
           /\ balance' \in [Denom -> Nat]
  <1> DEFINE m == ApplyAccumulatedInterests(markets[d], now)
             held == collaterals[<<u, c>>].amount_scaled
             owed_scaled == debts[<<u, d>>].amount_scaled
             owed == UnderlyingDebt(owed_scaled, markets[d], now)
             result == LiquidationAmounts(held, owed, sent, markets[c], Prices[c], Prices[d])
             seized == result.seized_scaled
             left == ScaledDebt(owed - result.repaid, markets[d], now)
             scaled == owed_scaled - left
  <1>1. /\ HasCollateral(u, c) /\ HasDebt(u, d)
        /\ Liquidatable(u, collaterals)
        /\ Prices[c] # 0
        /\ seized <= held
        /\ collaterals' =
             IncreaseCollateral(DecreaseCollateral(collaterals, u, c, seized), r, c, seized)
        /\ result.repaid <= owed
        /\ 0 <= scaled
        /\ debts' = DecreaseDebt(u, d, scaled)
        /\ scaled <= markets[d].debt_total_scaled
        /\ SaveMarket(d, DecreaseTotalDebt(m, scaled))
        /\ balance' = [balance EXCEPT ![d] = @ + result.repaid]
    BY DEF Liquidate
  <1>2. /\ c \in DOMAIN markets /\ Prices[c] \in Nat
        /\ d \in DOMAIN markets /\ Prices[d] \in Nat
    BY <1>1, LiquidatablePrices
  <1>3. SoundMarket(markets[c]) /\ SoundMarket(markets[d])
    BY <1>2 DEF Sound
  <1>4. /\ m \in Market /\ SoundMarket(m)
        /\ AccruedTo(m, markets[d], now)
        /\ m.debt_total_scaled = markets[d].debt_total_scaled
    BY <1>2, AccruedMarket
  <1>5. now \in Nat /\ sent \in Nat
    BY InputAssumption DEF Sound, TypeOK
  <1>6. held \in Nat /\ owed_scaled \in Nat
    <2>1. CollateralScaled(u, c) = held /\ DebtScaled(u, d) = owed_scaled
      BY <1>1 DEF CollateralScaled, DebtScaled
    <2> QED
      BY <2>1, PositionTypes DEF Sound
  <1> HIDE DEF held, owed_scaled, m
  <1>7. owed \in Nat
    BY <1>3, <1>5, <1>6, ConversionTypes
  <1> HIDE DEF owed
  <1>8. result.repaid \in Nat /\ seized \in Nat
    BY <1>1, <1>2, <1>3, <1>5, <1>6, <1>7, LiquidationAmountsType
  <1> HIDE DEF result, seized
  <1>9. owed - result.repaid \in Nat
    BY <1>1, <1>7, <1>8
  <1>10. left \in Nat
    BY <1>3, <1>5, <1>9, ConversionTypes
  <1> HIDE DEF left
  <1>11. scaled \in Nat /\ scaled <= owed_scaled
    BY <1>1, <1>6, <1>10
  <1> HIDE DEF scaled
  <1>12. MarketSettled(d)
    BY <1>1, <1>2, <1>4, <1>11, TotalsType, TotalsKeepAccrual, SaveMarketSettles
  <1>13. IsMap(collaterals', Position, Collateral)
    <2>1. IsMap(DecreaseCollateral(collaterals, u, c, seized), Position, Collateral)
      BY <1>1, <1>8, DecreaseCollateralType DEF Sound, TypeOK, HasCollateral, held
    <2> QED
      BY <1>1, <1>8, <2>1, IncreaseCollateralType
  <1>14. IsMap(debts', Position, Debt)
    BY <1>1, <1>11, DecreaseDebtType DEF Sound, owed_scaled
  <1>15. balance' \in [Denom -> Nat]
    BY <1>1, <1>8 DEF Sound, TypeOK
  <1>16. seized <= CollateralScaled(u, c)
    BY <1>1 DEF CollateralScaled, held
  <1>17. scaled <= DebtScaled(u, d) /\ SaveMarket(d, DecreaseTotalDebt(Accrued(d), scaled))
    BY <1>1, <1>11 DEF DebtScaled, owed_scaled, Accrued, m
  <1> QED
    BY <1>1, <1>2, <1>8, <1>11, <1>12, <1>13, <1>14, <1>15, <1>16, <1>17

-----------------------------------------------------------------------------
(***************************************************************************)
(* What the owner's handlers do to the market they touch                   *)
(***************************************************************************)

\* x is m with other parameters, none of which the rates depend on.
Reparametrised(x, m) ==
    /\ SoundMarket(x)
    /\ x.interest_rate_model = m.interest_rate_model
    /\ x.reserve_factor = m.reserve_factor
    /\ x.borrow_index = m.borrow_index
    /\ x.liquidity_index = m.liquidity_index
    /\ x.borrow_rate = m.borrow_rate
    /\ x.liquidity_rate = m.liquidity_rate
    /\ x.indexes_last_updated = m.indexes_last_updated
    /\ x.collateral_total_scaled = m.collateral_total_scaled
    /\ x.debt_total_scaled = m.debt_total_scaled

MarketReparametrised(d) ==
    /\ d \in DOMAIN markets
    /\ \E r : Reparametrised(r, markets[d]) /\ markets' = Save(markets, d, r)

MarketOpened(d) ==
    /\ d \in Denom \ DOMAIN markets
    /\ \E r : /\ SoundMarket(r)
              /\ Untouched(r)
              /\ r.indexes_last_updated = now
              /\ markets' = Save(markets, d, r)

LEMMA GivenType ==
    ASSUME NEW input \in AssetInput \cup UpdateInput, NEW f \in AssetParam,
           NEW default, f \in DOMAIN input \/ default \in ParamValue[f]
    PROVE  Given(input, f, default) \in ParamValue[f]
  BY InputAssumption DEF Given

LEMMA InitAssetOpens ==
    ASSUME Sound, NEW sender \in Admin, NEW d \in Denom, NEW input \in AssetInput,
           InitAsset(sender, d, input)
    PROVE  MarketOpened(d)
  <1> DEFINE r == NewMarket(input)
  <1>1. /\ d \notin DOMAIN markets
        /\ AssetParam \ {"deposit_cap"} \subseteq DOMAIN input
        /\ ValidMarket(r)
        /\ markets' = Save(markets, d, r)
    BY DEF InitAsset
  <1>2. \A f \in AssetParam \cap DOMAIN input : input[f] \in ParamValue[f]
    BY InputAssumption
  <1>3. /\ input.max_loan_to_value \in Decimal
        /\ input.liquidation_threshold \in Decimal
        /\ input.liquidation_bonus \in Decimal
        /\ input.reserve_factor \in Decimal
        /\ input.interest_rate_model \in InterestRateModel
        /\ input.deposit_enabled \in BOOLEAN
        /\ input.borrow_enabled \in BOOLEAN
    BY <1>1, <1>2 DEF AssetParam, ParamValue
  <1>4. Given(input, "deposit_cap", Unlimited) \in Uint
    BY <1>2, InputAssumption DEF Given, AssetParam, ParamValue, Uint
  <1>5. now \in Nat /\ One \in Nat \ {0}
    BY OneAssumption DEF Sound, TypeOK
  <1>6. r \in Market
    BY <1>3, <1>4, <1>5 DEF NewMarket, Market, Decimal, Uint
  <1>7. SoundMarket(r) /\ Untouched(r) /\ r.indexes_last_updated = now
    BY <1>1, <1>5, <1>6 DEF SoundMarket, Untouched, NewMarket
  <1> QED
    BY <1>1, <1>7 DEF MarketOpened

\* Merging a message into a market changes parameters only, and to values of
\* their types.
LEMMA WithParamsType ==
    ASSUME NEW m \in Market, NEW input \in UpdateInput
    PROVE  /\ WithParams(m, input) \in Market
           /\ WithParams(m, input).borrow_index = m.borrow_index
           /\ WithParams(m, input).liquidity_index = m.liquidity_index
           /\ WithParams(m, input).borrow_rate = m.borrow_rate
           /\ WithParams(m, input).liquidity_rate = m.liquidity_rate
           /\ WithParams(m, input).indexes_last_updated = m.indexes_last_updated
           /\ WithParams(m, input).collateral_total_scaled = m.collateral_total_scaled
           /\ WithParams(m, input).debt_total_scaled = m.debt_total_scaled
           /\ WithParams(m, input).interest_rate_model
                = Given(input, "interest_rate_model", m.interest_rate_model)
           /\ WithParams(m, input).reserve_factor
                = Given(input, "reserve_factor", m.reserve_factor)
  <1>1. \A f \in AssetParam \cap DOMAIN input : input[f] \in ParamValue[f]
    BY InputAssumption
  <1>2. /\ Given(input, "max_loan_to_value", m.max_loan_to_value) \in Decimal
        /\ Given(input, "reserve_factor", m.reserve_factor) \in Decimal
        /\ Given(input, "liquidation_threshold", m.liquidation_threshold) \in Decimal
        /\ Given(input, "liquidation_bonus", m.liquidation_bonus) \in Decimal
        /\ Given(input, "interest_rate_model", m.interest_rate_model) \in InterestRateModel
        /\ Given(input, "deposit_enabled", m.deposit_enabled) \in BOOLEAN
        /\ Given(input, "borrow_enabled", m.borrow_enabled) \in BOOLEAN
        /\ Given(input, "deposit_cap", m.deposit_cap) \in Uint
    BY <1>1 DEF Given, AssetParam, ParamValue, Market
  <1> QED
    BY <1>2 DEF WithParams, Market

LEMMA UpdateAssetChanges ==
    ASSUME Sound, NEW sender \in Admin, NEW d \in Denom, NEW input \in UpdateInput,
           UpdateAsset(sender, d, input)
    PROVE  MarketSettled(d) \/ MarketReparametrised(d)
  <1>1. d \in DOMAIN markets /\ (UpdateAssetByOwner(d, input)
                                 \/ UpdateAssetByEmergencyOwner(d, input))
    BY DEF UpdateAsset
  <1>2. SoundMarket(markets[d]) /\ markets[d] \in Market /\ now \in Nat
    BY <1>1 DEF Sound, TypeOK, SoundMarket
  <1>3. CASE UpdateAssetByOwner(d, input) /\ TouchesRates(markets[d], input)
    <2> DEFINE m == ApplyAccumulatedInterests(markets[d], now)
               x == WithParams(m, input)
    <2>1. /\ ValidMarket(x)
          /\ SaveMarket(d, x)
      BY <1>3 DEF UpdateAssetByOwner, SaveMarket
    <2>2. /\ m \in Market /\ SoundMarket(m)
          /\ AccruedTo(m, markets[d], now)
      BY <1>1, AccruedMarket
    <2> HIDE DEF m
    <2>3. /\ x \in Market
          /\ x.borrow_index = m.borrow_index
          /\ x.liquidity_index = m.liquidity_index
          /\ x.indexes_last_updated = m.indexes_last_updated
      BY <2>2, WithParamsType
    <2>4. SoundMarket(x) /\ AccruedTo(x, markets[d], now)
      BY <2>1, <2>2, <2>3 DEF SoundMarket, AccruedTo
    <2> QED
      BY <1>1, <2>1, <2>4, SaveMarketSettles
  <1>4. CASE UpdateAssetByOwner(d, input) /\ ~TouchesRates(markets[d], input)
    <2> DEFINE x == WithParams(markets[d], input)
    <2>1. ValidMarket(x) /\ markets' = Save(markets, d, x)
      BY <1>4 DEF UpdateAssetByOwner
    <2>2. /\ Given(input, "interest_rate_model", markets[d].interest_rate_model)
               = markets[d].interest_rate_model
          /\ Given(input, "reserve_factor", markets[d].reserve_factor)
               = markets[d].reserve_factor
      BY <1>4 DEF TouchesRates, Given
    <2>3. Reparametrised(x, markets[d])
      BY <1>2, <2>1, <2>2, WithParamsType DEF Reparametrised, SoundMarket
    <2> QED
      BY <1>1, <2>1, <2>3 DEF MarketReparametrised
  <1>5. CASE UpdateAssetByEmergencyOwner(d, input)
    <2> DEFINE x == [markets[d] EXCEPT !.borrow_enabled = FALSE]
    <2>1. IsMap(markets, Denom, Market)
      BY DEF Sound, TypeOK
    <2>2. markets' = Save(markets, d, x)
      BY <1>1, <1>5, <2>1 DEF UpdateAssetByEmergencyOwner, Save, IsMap
    <2>3. Reparametrised(x, markets[d])
      BY <1>2 DEF Reparametrised, SoundMarket, ValidMarket, Market
    <2> QED
      BY <1>1, <2>2, <2>3 DEF MarketReparametrised
  <1> QED
    BY <1>1, <1>3, <1>4, <1>5

-----------------------------------------------------------------------------
(***************************************************************************)
(* Steps                                                                   *)
(***************************************************************************)

\* The only three ways in which a step may change a market.
MarketChanged(d) == MarketSettled(d) \/ MarketReparametrised(d) \/ MarketOpened(d)

LEMMA ChangedMarketsSound ==
    ASSUME Sound, NEW d \in Denom, MarketChanged(d), now' = now
    PROVE  /\ IsMap(markets', Denom, Market)
           /\ \A e \in DOMAIN markets' :
                SoundMarket(markets'[e]) /\ markets'[e].indexes_last_updated <= now'
  <1>1. CASE MarketSettled(d)
    BY <1>1, SettledMarketsSound
  <1>2. CASE ~MarketSettled(d)
    <2>1. PICK r : /\ SoundMarket(r)
                   /\ r.indexes_last_updated <= now
                   /\ markets' = Save(markets, d, r)
      <3>1. CASE MarketReparametrised(d)
        BY <3>1 DEF MarketReparametrised, Reparametrised, Sound
      <3>2. CASE MarketOpened(d)
        <4>1. now <= now
          BY DEF Sound, TypeOK
        <4> QED
          BY <3>2, <4>1 DEF MarketOpened
      <3> QED
        BY <1>2, <3>1, <3>2 DEF MarketChanged
    <2>2. IsMap(markets', Denom, Market)
      BY <2>1, SaveType DEF Sound, TypeOK, SoundMarket
    <2>3. ASSUME NEW e \in DOMAIN markets'
          PROVE  SoundMarket(markets'[e]) /\ markets'[e].indexes_last_updated <= now'
      <3>1. markets'[e] = (IF e = d THEN r ELSE markets[e])
            /\ (e # d => e \in DOMAIN markets)
        BY <2>1 DEF Save
      <3> QED
        BY <2>1, <3>1 DEF Sound
    <2> QED
      BY <2>2, <2>3
  <1> QED
    BY <1>1, <1>2

LEMMA UpdateOwnerSound ==
    ASSUME Sound, NEW sender \in Admin, NEW update \in OwnerInput,
           UpdateOwner(sender, update)
    PROVE  role' \in Role
  <1>1. role \in Role /\ update \in OwnerUpdates
    BY InputAssumption DEF Sound, TypeOK
  <1>2. role' \in UpdatedRoles(role, update, sender)
    BY DEF UpdateOwner
  <1>3. CASE update = "accept_proposed"
    BY <1>1, <1>2, <1>3 DEF UpdatedRoles, Role
  <1>4. CASE update = "propose_new_owner"
    BY <1>1, <1>2, <1>4 DEF UpdatedRoles, Role
  <1>5. CASE update = "clear_proposed"
    BY <1>1, <1>2, <1>5 DEF UpdatedRoles, Role
  <1>6. CASE update = "set_emergency_owner"
    BY <1>1, <1>2, <1>6 DEF UpdatedRoles, Role
  <1>7. CASE update = "clear_emergency_owner"
    BY <1>1, <1>2, <1>7 DEF UpdatedRoles, Role
  <1>8. CASE update = "abolish_owner_role"
    BY <1>1, <1>2, <1>8 DEF UpdatedRoles, Role
  <1> QED
    BY <1>1, <1>3, <1>4, <1>5, <1>6, <1>7, <1>8 DEF OwnerUpdates

LEMMA UpdateConfigSound ==
    ASSUME Sound, NEW sender \in Admin, NEW input \in ConfigInput,
           UpdateConfig(sender, input)
    PROVE  config' \in Config
  <1>1. /\ Given(input, "address_provider", config.address_provider) \in Provider
        /\ Given(input, "close_factor", config.close_factor) \in Decimal
    BY InputAssumption DEF Given, Sound, TypeOK, Config
  <1> QED
    BY <1>1 DEF UpdateConfig, Config

LEMMA LoanLimitSound ==
    ASSUME Sound, NEW sender \in Admin, NEW u \in User, NEW d \in Denom,
           NEW new_limit \in LoanLimit,
           UpdateUncollateralizedLoanLimit(sender, u, d, new_limit)
    PROVE  /\ IsMap(limits', Position, Uint)
           /\ IsMap(debts', Position, Debt)
  <1>1. /\ limits' = Save(limits, <<u, d>>, new_limit)
        /\ debts' = Save(debts, <<u, d>>, [amount_scaled |-> DebtScaled(u, d),
                                           uncollateralized |-> new_limit # 0])
    BY DEF UpdateUncollateralizedLoanLimit
  <1>2. /\ <<u, d>> \in Position
        /\ new_limit \in Uint
        /\ DebtScaled(u, d) \in Uint
    BY InputAssumption, PositionTypes DEF Sound, Uint
  <1>3. [amount_scaled |-> DebtScaled(u, d), uncollateralized |-> new_limit # 0] \in Debt
    BY <1>2 DEF Debt
  <1> QED
    BY <1>1, <1>2, <1>3, SaveType DEF Sound, TypeOK

LEMMA CollateralStatusSound ==
    ASSUME Sound, NEW u \in User, NEW d \in Denom, NEW enable \in Status,
           UpdateAssetCollateralStatus(u, d, enable)
    PROVE  IsMap(collaterals', Position, Collateral)
  <1>1. /\ HasCollateral(u, d)
        /\ collaterals' = [collaterals EXCEPT ![<<u, d>>].enabled = enable]
    BY DEF UpdateAssetCollateralStatus
  <1>2. enable \in BOOLEAN
    BY InputAssumption
  <1>3. [collaterals[<<u, d>>] EXCEPT !.enabled = enable] \in Collateral
    BY <1>1, <1>2 DEF Sound, TypeOK, IsMap, HasCollateral, Collateral
  <1> QED
    BY <1>1, <1>3 DEF Sound, TypeOK, IsMap

LEMMA OracleSound ==
    ASSUME oracle' \in Answers
    PROVE  /\ DOMAIN oracle' \subseteq Provider
           /\ \A p \in DOMAIN oracle' : IsMap(oracle'[p], Denom, Decimal)
  BY InputAssumption

LEMMA OwnerStepSound == ASSUME Sound, OwnerStep PROVE Sound'
  <1> USE DEF Sound, TypeOK
  <1>1. PICK sender \in Admin :
            \/ \E update \in OwnerInput : UpdateOwner(sender, update)
            \/ \E input \in ConfigInput : UpdateConfig(sender, input)
            \/ \E d \in Denom, input \in AssetInput : InitAsset(sender, d, input)
            \/ \E d \in Denom, input \in UpdateInput : UpdateAsset(sender, d, input)
            \/ \E u \in User, d \in Denom, new_limit \in LoanLimit :
                  UpdateUncollateralizedLoanLimit(sender, u, d, new_limit)
    BY DEF OwnerStep
  <1>2. ASSUME NEW update \in OwnerInput, UpdateOwner(sender, update) PROVE Sound'
    BY <1>2, UpdateOwnerSound DEF UpdateOwner
  <1>3. ASSUME NEW input \in ConfigInput, UpdateConfig(sender, input) PROVE Sound'
    BY <1>3, UpdateConfigSound DEF UpdateConfig
  <1>4. ASSUME NEW d \in Denom, NEW input \in AssetInput, InitAsset(sender, d, input)
        PROVE  Sound'
    <2>1. MarketChanged(d)
      BY <1>4, InitAssetOpens DEF MarketChanged
    <2> QED
      BY <1>4, <2>1, ChangedMarketsSound DEF InitAsset
  <1>5. ASSUME NEW d \in Denom, NEW input \in UpdateInput, UpdateAsset(sender, d, input)
        PROVE  Sound'
    <2>1. MarketChanged(d)
      BY <1>5, UpdateAssetChanges DEF MarketChanged
    <2> QED
      BY <1>5, <2>1, ChangedMarketsSound DEF UpdateAsset
  <1>6. ASSUME NEW u \in User, NEW d \in Denom, NEW new_limit \in LoanLimit,
               UpdateUncollateralizedLoanLimit(sender, u, d, new_limit)
        PROVE  Sound'
    BY <1>6, LoanLimitSound DEF UpdateUncollateralizedLoanLimit
  <1> QED
    BY <1>1, <1>2, <1>3, <1>4, <1>5, <1>6

LEMMA UserStepSound == ASSUME Sound, UserStep PROVE Sound'
  <1> USE DEF Sound, TypeOK
  <1>1. PICK u \in User, d \in Denom :
            \/ \E amount \in Amount : Deposit(u, d, amount)
            \/ \E request \in Amount \cup {None} : Withdraw(u, d, request)
            \/ \E amount \in Amount : Borrow(u, d, amount)
            \/ \E amount \in Amount, on_behalf_of \in BOOLEAN :
                  Repay(u, d, amount, on_behalf_of)
            \/ \E r \in User, c \in Denom, sent \in Amount : Liquidate(u, r, c, d, sent)
            \/ \E enable \in Status : UpdateAssetCollateralStatus(u, d, enable)
    BY DEF UserStep
  <1>2. ASSUME NEW amount \in Amount, Deposit(u, d, amount) PROVE Sound'
    <2>1. MarketChanged(d)
      BY <1>2, DepositSettles DEF MarketChanged
    <2> QED
      BY <1>2, <2>1, DepositSettles, ChangedMarketsSound DEF Deposit
  <1>3. ASSUME NEW request \in Amount \cup {None}, Withdraw(u, d, request) PROVE Sound'
    <2>1. MarketChanged(d)
      BY <1>3, WithdrawSettles DEF MarketChanged
    <2> QED
      BY <1>3, <2>1, WithdrawSettles, ChangedMarketsSound DEF Withdraw
  <1>4. ASSUME NEW amount \in Amount, Borrow(u, d, amount) PROVE Sound'
    <2>1. MarketChanged(d)
      BY <1>4, BorrowSettles DEF MarketChanged
    <2> QED
      BY <1>4, <2>1, BorrowSettles, ChangedMarketsSound DEF Borrow
  <1>5. ASSUME NEW amount \in Amount, NEW on_behalf_of \in BOOLEAN,
               Repay(u, d, amount, on_behalf_of)
        PROVE  Sound'
    <2>1. MarketChanged(d)
      BY <1>5, RepaySettles DEF MarketChanged
    <2> QED
      BY <1>5, <2>1, RepaySettles, ChangedMarketsSound DEF Repay
  <1>6. ASSUME NEW r \in User, NEW c \in Denom, NEW sent \in Amount,
               Liquidate(u, r, c, d, sent)
        PROVE  Sound'
    <2>1. MarketChanged(d)
      BY <1>6, LiquidateSettles DEF MarketChanged
    <2> QED
      BY <1>6, <2>1, LiquidateSettles, ChangedMarketsSound DEF Liquidate
  <1>7. ASSUME NEW enable \in Status, UpdateAssetCollateralStatus(u, d, enable)
        PROVE  Sound'
    BY <1>7, CollateralStatusSound DEF UpdateAssetCollateralStatus
  <1> QED
    BY <1>1, <1>2, <1>3, <1>4, <1>5, <1>6, <1>7

LEMMA EnvironmentStepSound == ASSUME Sound, EnvironmentStep PROVE Sound'
  <1> USE DEF Sound, TypeOK
  <1>1. ASSUME NEW seconds \in TimeStep, Tick(seconds) PROVE Sound'
    <2>1. now \in Nat /\ seconds \in Nat /\ now' = now + seconds /\ markets' = markets
      BY <1>1, InputAssumption DEF Tick
    <2>2. \A d \in DOMAIN markets : markets[d].indexes_last_updated <= now'
      <3> TAKE d \in DOMAIN markets
      <3>1. markets[d].indexes_last_updated \in Nat
        BY DEF SoundMarket, Market
      <3> QED
        BY <2>1, <3>1
    <2>3. /\ DOMAIN oracle' \subseteq Provider
          /\ \A p \in DOMAIN oracle' : IsMap(oracle'[p], Denom, Decimal)
      BY <1>1, OracleSound DEF Tick
    <2> QED
      BY <1>1, <2>1, <2>2, <2>3 DEF Tick
  <1>2. ASSUME OracleMoves PROVE Sound'
    BY <1>2, OracleSound DEF OracleMoves
  <1> QED
    BY <1>1, <1>2 DEF EnvironmentStep

LEMMA NextSound == Sound /\ [Next]_vars => Sound'
  <1> SUFFICES ASSUME Sound, [Next]_vars PROVE Sound'
    OBVIOUS
  <1>1. CASE UNCHANGED vars
    BY <1>1 DEF vars, Sound, TypeOK
  <1> QED
    BY <1>1, OwnerStepSound, UserStepSound, EnvironmentStepSound DEF Next

\* The inductive invariant holds in every state the contract can reach.
THEOREM SoundAlways == Spec => []Sound
  BY InitSound, NextSound, PTL DEF Spec

\* Whatever the parameters, the sequence of messages and the answers of the
\* oracle, what the contract stores keeps its types: the checked subtractions
\* of the handlers are where unsigned integers need them, and no division of
\* the conversions is by zero.
THEOREM TypeCorrect == Spec => []TypeOK
  <1>1. Sound => TypeOK
    BY DEF Sound
  <1> QED
    BY <1>1, SoundAlways, PTL

\* No mix of fields in init_asset or update_asset, over any number of updates,
\* leaves a market with parameters that validate refuses.
THEOREM MarketsAlwaysValid == Spec => []MarketsValid
  <1>1. Sound => MarketsValid
    BY DEF Sound, SoundMarket, MarketsValid
  <1> QED
    BY <1>1, SoundAlways, PTL

-----------------------------------------------------------------------------
(***************************************************************************)
(* Rates and indexes                                                       *)
(***************************************************************************)

\* A step that changes MARKETS changes one market, in one of the three ways.
LEMMA MarketsStep ==
    ASSUME Sound, [Next]_vars
    PROVE  \/ markets' = markets
           \/ now' = now /\ \E d \in Denom : MarketChanged(d)
  <1>1. CASE OwnerStep
    <2>1. ASSUME NEW sender \in Admin, NEW d \in Denom, NEW input \in AssetInput,
                 InitAsset(sender, d, input)
          PROVE  now' = now /\ MarketChanged(d)
      BY <2>1, InitAssetOpens DEF MarketChanged, InitAsset
    <2>2. ASSUME NEW sender \in Admin, NEW d \in Denom, NEW input \in UpdateInput,
                 UpdateAsset(sender, d, input)
          PROVE  now' = now /\ MarketChanged(d)
      BY <2>2, UpdateAssetChanges DEF MarketChanged, UpdateAsset
    <2> QED
      BY <1>1, <2>1, <2>2
      DEF OwnerStep, UpdateOwner, UpdateConfig, UpdateUncollateralizedLoanLimit
  <1>2. CASE UserStep
    <2>1. ASSUME NEW u \in User, NEW d \in Denom, NEW amount \in Amount,
                 Deposit(u, d, amount) \/ Borrow(u, d, amount)
          PROVE  now' = now /\ MarketChanged(d)
      BY <2>1, DepositSettles, BorrowSettles DEF MarketChanged, Deposit, Borrow
    <2>2. ASSUME NEW u \in User, NEW d \in Denom, NEW request \in Amount \cup {None},
                 Withdraw(u, d, request)
          PROVE  now' = now /\ MarketChanged(d)
      BY <2>2, WithdrawSettles DEF MarketChanged, Withdraw
    <2>3. ASSUME NEW u \in User, NEW d \in Denom, NEW amount \in Amount,
                 NEW on_behalf_of \in BOOLEAN, Repay(u, d, amount, on_behalf_of)
          PROVE  now' = now /\ MarketChanged(d)
      BY <2>3, RepaySettles DEF MarketChanged, Repay
    <2>4. ASSUME NEW u \in User, NEW d \in Denom, NEW r \in User, NEW c \in Denom,
                 NEW sent \in Amount, Liquidate(u, r, c, d, sent)
          PROVE  now' = now /\ MarketChanged(d)
      BY <2>4, LiquidateSettles DEF MarketChanged, Liquidate
    <2> QED
      BY <1>2, <2>1, <2>2, <2>3, <2>4 DEF UserStep, UpdateAssetCollateralStatus
  <1>3. CASE EnvironmentStep \/ UNCHANGED vars
    BY <1>3 DEF EnvironmentStep, Tick, OracleMoves, vars
  <1> QED
    BY <1>1, <1>2, <1>3 DEF Next

LEMMA ChangedMarketsContinuous ==
    ASSUME Sound, NEW d \in Denom, MarketChanged(d), now' = now, NEW e \in DOMAIN markets
    PROVE  /\ UpdatedBorrowIndex(markets[e], now)' = UpdatedBorrowIndex(markets[e], now)
           /\ UpdatedLiquidityIndex(markets[e], now)' = UpdatedLiquidityIndex(markets[e], now)
  <1>1. now \in Nat
    BY DEF Sound, TypeOK
  <1>2. PICK r : /\ markets' = Save(markets, d, r)
                 /\ d \in DOMAIN markets =>
                      \/ Settled(r, markets[d], now)
                      \/ Reparametrised(r, markets[d])
    BY DEF MarketChanged, MarketSettled, MarketReparametrised, MarketOpened
  <1>3. markets'[e] = IF e = d THEN r ELSE markets[e]
    BY <1>2 DEF Save
  <1>4. CASE e # d
    BY <1>3, <1>4
  <1>5. CASE e = d /\ Settled(r, markets[d], now)
    <2>1. /\ UpdatedBorrowIndex(r, now) = UpdatedBorrowIndex(markets[e], now)
          /\ UpdatedLiquidityIndex(r, now) = UpdatedLiquidityIndex(markets[e], now)
      BY <1>1, <1>5, AccrualIsContinuous DEF Settled
    <2> QED
      BY <1>3, <1>5, <2>1
  <1>6. CASE e = d /\ Reparametrised(r, markets[d])
    <2>1. /\ UpdatedBorrowIndex(r, now) = UpdatedBorrowIndex(markets[e], now)
          /\ UpdatedLiquidityIndex(r, now) = UpdatedLiquidityIndex(markets[e], now)
      BY <1>6 DEF Reparametrised, UpdatedBorrowIndex, UpdatedLiquidityIndex
    <2> QED
      BY <1>3, <1>6, <2>1
  <1> QED
    BY <1>2, <1>4, <1>5, <1>6

\* No sequence of messages in a block moves an index: interest is what the rates
\* in force made it while time passed, whatever the users and the owner do now.
THEOREM IndexesAlwaysContinuous == Spec => IndexesContinuous
  <1>1. Sound /\ [Next]_vars =>
          [now' = now =>
            \A d \in DOMAIN markets :
              /\ UpdatedBorrowIndex(markets[d], now)' = UpdatedBorrowIndex(markets[d], now)
              /\ UpdatedLiquidityIndex(markets[d], now)'
                   = UpdatedLiquidityIndex(markets[d], now)]_vars
    BY MarketsStep, ChangedMarketsContinuous
  <1> QED
    BY <1>1, SoundAlways, PTL DEF Spec, IndexesContinuous

\* The rates of a market are those it would compute again.
FreshRates(m) == Untouched(m) \/ UpdateInterestRates(m, m.indexes_last_updated) = m

\* Parameters that the rates do not depend on leave them fresh.
LEMMA ReparametrisedFresh ==
    ASSUME NEW m \in Market, NEW r, Reparametrised(r, m), FreshRates(m)
    PROVE  FreshRates(r)
  <1> DEFINE t == m.indexes_last_updated
             u == UtilizationRate(m, t)
             b == BorrowRate(m.interest_rate_model, u)
             l == LiquidityRate(b, u, m.reserve_factor)
  <1>1. Untouched(m) => Untouched(r)
    BY DEF Untouched, Reparametrised
  <1>2. ASSUME UpdateInterestRates(m, t) = m
        PROVE  UpdateInterestRates(r, t) = r
    <2>1. UtilizationRate(r, t) = u
      BY DEF Reparametrised, UtilizationRate, UnderlyingLiquidity, UnderlyingDebt,
             UpdatedLiquidityIndex, UpdatedBorrowIndex
    <2>2. UpdateInterestRates(r, t) = [r EXCEPT !.borrow_rate = b, !.liquidity_rate = l]
      BY <2>1 DEF Reparametrised, UpdateInterestRates
    <2>3. [m EXCEPT !.borrow_rate = b, !.liquidity_rate = l] = m
      BY <1>2 DEF UpdateInterestRates
    <2> HIDE DEF u, b, l
    <2>4. m.borrow_rate = b /\ m.liquidity_rate = l
      BY <2>3 DEF Market
    <2>5. r \in Market /\ r.borrow_rate = b /\ r.liquidity_rate = l
      BY <2>4 DEF Reparametrised, SoundMarket
    <2>6. [r EXCEPT !.borrow_rate = b, !.liquidity_rate = l] = r
      BY <2>5 DEF Market
    <2> QED
      BY <2>2, <2>6
  <1>3. r.indexes_last_updated = t
    BY DEF Reparametrised
  <1> QED
    BY <1>1, <1>2, <1>3 DEF FreshRates

\* No handler leaves behind rates that its own changes made stale.
THEOREM RatesAlwaysFresh == Spec => []RatesFresh
  <1>1. RatesFresh <=> \A d \in DOMAIN markets : FreshRates(markets[d])
    BY DEF RatesFresh, FreshRates
  <1>2. Init => RatesFresh
    BY DEF Init, EmptyMap, RatesFresh
  <1>3. ASSUME Sound, RatesFresh, [Next]_vars PROVE RatesFresh'
    <2>1. CASE markets' = markets
      BY <1>3, <2>1 DEF RatesFresh
    <2>2. ASSUME now' = now, NEW d \in Denom, MarketChanged(d) PROVE RatesFresh'
      <3>1. PICK r : markets' = Save(markets, d, r) /\ FreshRates(r)
        <4>1. CASE MarketSettled(d)
          BY <4>1 DEF MarketSettled, Settled, AccruedTo, FreshRates
        <4>2. CASE MarketReparametrised(d)
          BY <1>1, <1>3, <4>2, ReparametrisedFresh
          DEF MarketReparametrised, Sound, SoundMarket
        <4>3. CASE MarketOpened(d)
          BY <4>3 DEF MarketOpened, FreshRates
        <4> QED
          BY <2>2, <4>1, <4>2, <4>3 DEF MarketChanged
      <3>2. ASSUME NEW e \in DOMAIN markets' PROVE FreshRates(markets'[e])
        <4>1. markets'[e] = (IF e = d THEN r ELSE markets[e])
              /\ (e # d => e \in DOMAIN markets)
          BY <3>1 DEF Save
        <4> QED
          BY <1>1, <1>3, <3>1, <4>1
      <3> QED
        BY <3>2 DEF RatesFresh, FreshRates
    <2> QED
      BY <1>3, <2>1, <2>2, MarketsStep
  <1> QED
    BY <1>2, <1>3, SoundAlways, PTL DEF Spec

-----------------------------------------------------------------------------
(***************************************************************************)
(* Uncollateralized loans                                                  *)
(***************************************************************************)

\* The entry for a position, when there is one, agrees with its limit.
LEMMA IncreaseDebtFlag ==
    ASSUME UncollateralizedIffLimit, NEW u \in User, NEW d \in Denom, NEW scaled,
           debts' = IncreaseDebt(u, d, scaled, Limit(u, d) # 0), limits' = limits
    PROVE  UncollateralizedIffLimit'
  <1> SUFFICES ASSUME NEW k \in DOMAIN debts'
               PROVE  debts'[k].uncollateralized <=> LoadOr(limits, k, 0) # 0
    BY DEF UncollateralizedIffLimit, LoadOr
  <1>1. CASE k = <<u, d>>
    BY <1>1 DEF IncreaseDebt, Save, Limit
  <1>2. CASE k # <<u, d>>
    <2>1. k \in DOMAIN debts /\ debts'[k] = debts[k]
      BY <1>2 DEF IncreaseDebt, Save
    <2> QED
      BY <2>1 DEF UncollateralizedIffLimit
  <1> QED
    BY <1>1, <1>2

LEMMA DecreaseDebtFlag ==
    ASSUME Sound, UncollateralizedIffLimit, NEW u \in User, NEW d \in Denom, NEW scaled,
           HasDebt(u, d), debts' = DecreaseDebt(u, d, scaled), limits' = limits
    PROVE  UncollateralizedIffLimit'
  <1> SUFFICES ASSUME NEW k \in DOMAIN debts'
               PROVE  debts'[k].uncollateralized <=> LoadOr(limits, k, 0) # 0
    BY DEF UncollateralizedIffLimit, LoadOr
  <1>1. debts[<<u, d>>] \in Debt
    BY DEF Sound, TypeOK, IsMap, HasDebt
  <1>2. k \in DOMAIN debts /\ debts'[k].uncollateralized = debts[k].uncollateralized
    BY <1>1 DEF DecreaseDebt, Save, Remove, HasDebt, Debt
  <1> QED
    BY <1>2 DEF UncollateralizedIffLimit

\* A debt is left out of the health factor exactly while a limit holds for it,
\* over every sequence of loans, repayments, liquidations and limit changes.
THEOREM FlagsAlwaysAgree == Spec => []UncollateralizedIffLimit
  <1>1. Init => UncollateralizedIffLimit
    BY DEF Init, EmptyMap, UncollateralizedIffLimit
  <1>2. ASSUME Sound, UncollateralizedIffLimit, [Next]_vars
        PROVE  UncollateralizedIffLimit'
    <2>1. CASE UNCHANGED <<debts, limits>>
      BY <1>2, <2>1 DEF UncollateralizedIffLimit
    <2>2. ASSUME NEW sender \in Admin, NEW u \in User, NEW d \in Denom,
                 NEW new_limit \in LoanLimit,
                 UpdateUncollateralizedLoanLimit(sender, u, d, new_limit)
          PROVE  UncollateralizedIffLimit'
      <3>1. /\ limits' = Save(limits, <<u, d>>, new_limit)
            /\ debts' = Save(debts, <<u, d>>, [amount_scaled |-> DebtScaled(u, d),
                                               uncollateralized |-> new_limit # 0])
        BY <2>2 DEF UpdateUncollateralizedLoanLimit
      <3>2. ASSUME NEW k \in DOMAIN debts'
            PROVE  debts'[k].uncollateralized <=> LoadOr(limits', k, 0) # 0
        <4>1. CASE k = <<u, d>>
          BY <3>1, <4>1 DEF Save, LoadOr
        <4>2. CASE k # <<u, d>>
          <5>1. k \in DOMAIN debts /\ debts'[k] = debts[k]
            BY <3>1, <4>2 DEF Save
          <5>2. LoadOr(limits', k, 0) = LoadOr(limits, k, 0)
            BY <3>1, <4>2 DEF Save, LoadOr
          <5> QED
            BY <1>2, <5>1, <5>2 DEF UncollateralizedIffLimit
        <4> QED
          BY <4>1, <4>2
      <3> QED
        BY <3>2 DEF UncollateralizedIffLimit
    <2>3. ASSUME NEW u \in User, NEW d \in Denom, NEW amount \in Amount,
                 Borrow(u, d, amount)
          PROVE  UncollateralizedIffLimit'
      BY <1>2, <2>3, IncreaseDebtFlag DEF Borrow
    <2>4. ASSUME NEW u \in User, NEW d \in Denom, NEW amount \in Amount,
                 NEW on_behalf_of \in BOOLEAN, Repay(u, d, amount, on_behalf_of)
          PROVE  UncollateralizedIffLimit'
      BY <1>2, <2>4, DecreaseDebtFlag DEF Repay
    <2>5. ASSUME NEW u \in User, NEW d \in Denom, NEW r \in User, NEW c \in Denom,
                 NEW sent \in Amount, Liquidate(u, r, c, d, sent)
          PROVE  UncollateralizedIffLimit'
      BY <1>2, <2>5, DecreaseDebtFlag DEF Liquidate
    <2>6. CASE OwnerStep
      BY <2>1, <2>2, <2>6 DEF OwnerStep, UpdateOwner, UpdateConfig, InitAsset, UpdateAsset
    <2>7. CASE UserStep
      <3>1. ASSUME NEW u \in User, NEW d \in Denom,
                   \/ \E amount \in Amount : Deposit(u, d, amount)
                   \/ \E request \in Amount \cup {None} : Withdraw(u, d, request)
                   \/ \E enable \in Status : UpdateAssetCollateralStatus(u, d, enable)
            PROVE  UNCHANGED <<debts, limits>>
        BY <3>1 DEF Deposit, Withdraw, UpdateAssetCollateralStatus
      <3> QED
        BY <2>1, <2>3, <2>4, <2>5, <2>7, <3>1 DEF UserStep
    <2>8. CASE EnvironmentStep \/ UNCHANGED vars
      BY <2>1, <2>8 DEF EnvironmentStep, Tick, OracleMoves, vars
    <2> QED
      BY <1>2, <2>6, <2>7, <2>8 DEF Next
  <1> QED
    BY <1>1, <1>2, SoundAlways, PTL DEF Spec

-----------------------------------------------------------------------------
(***************************************************************************)
(* Positions                                                               *)
(***************************************************************************)

AmountIn(colls, u, d) ==
    IF <<u, d>> \in DOMAIN colls THEN colls[<<u, d>>].amount_scaled ELSE 0

LEMMA IncreaseCollateralEffect ==
    ASSUME NEW colls, IsMap(colls, Position, Collateral),
           NEW u, NEW d, NEW v \in User, NEW e \in Denom, NEW s \in Nat
    PROVE  AmountIn(IncreaseCollateral(colls, v, e, s), u, d)
             = AmountIn(colls, u, d) + IF <<u, d>> = <<v, e>> THEN s ELSE 0
  <1>1. \A k \in DOMAIN colls : colls[k] \in Collateral
    BY DEF IsMap
  <1>2. AmountIn(colls, u, d) \in Nat
    BY <1>1 DEF AmountIn, Collateral, Uint
  <1>3. CASE <<u, d>> = <<v, e>>
    BY <1>1, <1>2, <1>3 DEF AmountIn, IncreaseCollateral, Save, Collateral, Uint
  <1>4. CASE <<u, d>> # <<v, e>>
    BY <1>2, <1>4 DEF AmountIn, IncreaseCollateral, Save
  <1> QED
    BY <1>3, <1>4

LEMMA DecreaseCollateralEffect ==
    ASSUME NEW colls, IsMap(colls, Position, Collateral),
           NEW u, NEW d, NEW v \in User, NEW e \in Denom, NEW s \in Nat,
           <<v, e>> \in DOMAIN colls
    PROVE  AmountIn(DecreaseCollateral(colls, v, e, s), u, d)
             = AmountIn(colls, u, d) - IF <<u, d>> = <<v, e>> THEN s ELSE 0
  <1>1. \A k \in DOMAIN colls : colls[k] \in Collateral
    BY DEF IsMap
  <1>2. AmountIn(colls, u, d) \in Nat
    BY <1>1 DEF AmountIn, Collateral, Uint
  <1>3. CASE <<u, d>> = <<v, e>>
    BY <1>1, <1>2, <1>3 DEF AmountIn, DecreaseCollateral, Save, Remove, Collateral, Uint
  <1>4. CASE <<u, d>> # <<v, e>>
    BY <1>2, <1>4 DEF AmountIn, DecreaseCollateral, Save, Remove
  <1> QED
    BY <1>3, <1>4

\* A user's debt shares in d are moved by three messages only, and only where
\* there is a market.
DebtMoved(u, d) ==
    /\ d \in DOMAIN markets
    /\ \E amount \in Amount :
        \/ Borrow(u, d, amount)
        \/ \E on_behalf_of \in BOOLEAN : Repay(u, d, amount, on_behalf_of)
        \/ \E r \in User, c \in Denom : Liquidate(u, r, c, d, amount)

\* Two messages take collateral shares in d from a user.
CollateralTaken(u, d) ==
    \/ \E request \in Amount \cup {None} : Withdraw(u, d, request)
    \/ \E r \in User, c \in Denom, sent \in Amount : Liquidate(u, r, d, c, sent)

LEMMA DebtSharesStep ==
    ASSUME Sound, [Next]_vars, NEW u \in User, NEW d \in Denom,
           DebtScaled(u, d)' # DebtScaled(u, d)
    PROVE  DebtMoved(u, d)
  <1>1. debts' # debts
    BY DEF DebtScaled, HasDebt
  <1>2. ASSUME NEW sender \in Admin, NEW v \in User, NEW e \in Denom,
               NEW new_limit \in LoanLimit,
               UpdateUncollateralizedLoanLimit(sender, v, e, new_limit)
        PROVE  FALSE
    <2>1. debts' = Save(debts, <<v, e>>, [amount_scaled |-> DebtScaled(v, e),
                                         uncollateralized |-> new_limit # 0])
      BY <1>2 DEF UpdateUncollateralizedLoanLimit
    <2> QED
      BY <2>1 DEF DebtScaled, HasDebt, Save
  <1>3. ASSUME NEW v \in User, NEW e \in Denom, NEW amount \in Amount,
               Borrow(v, e, amount)
        PROVE  DebtMoved(u, d)
    <2>1. PICK s, b : debts' = IncreaseDebt(v, e, s, b)
      BY <1>3 DEF Borrow
    <2>2. u = v /\ d = e
      BY <2>1 DEF IncreaseDebt, Save, DebtScaled, HasDebt
    <2> QED
      BY <1>3, <2>2, BorrowSettles DEF DebtMoved, MarketSettled
  <1>4. ASSUME NEW v \in User, NEW e \in Denom, NEW s, debts' = DecreaseDebt(v, e, s)
        PROVE  u = v /\ d = e
    BY <1>4 DEF DecreaseDebt, Save, Remove, DebtScaled, HasDebt
  <1>5. ASSUME NEW v \in User, NEW e \in Denom, NEW amount \in Amount,
               NEW on_behalf_of \in BOOLEAN, Repay(v, e, amount, on_behalf_of)
        PROVE  DebtMoved(u, d)
    <2>1. u = v /\ d = e
      BY <1>4, <1>5 DEF Repay
    <2> QED
      BY <1>5, <2>1, RepaySettles DEF DebtMoved, MarketSettled
  <1>6. ASSUME NEW v \in User, NEW e \in Denom, NEW r \in User, NEW c \in Denom,
               NEW sent \in Amount, Liquidate(v, r, c, e, sent)
        PROVE  DebtMoved(u, d)
    <2>1. u = v /\ d = e
      BY <1>4, <1>6 DEF Liquidate
    <2> QED
      BY <1>6, <2>1, LiquidateSettles DEF DebtMoved, MarketSettled
  <1>7. CASE OwnerStep
    BY <1>1, <1>2, <1>7 DEF OwnerStep, UpdateOwner, UpdateConfig, InitAsset, UpdateAsset
  <1>8. CASE UserStep
    <2>1. ASSUME NEW v \in User, NEW e \in Denom,
                 \/ \E amount \in Amount : Deposit(v, e, amount)
                 \/ \E request \in Amount \cup {None} : Withdraw(v, e, request)
                 \/ \E enable \in Status : UpdateAssetCollateralStatus(v, e, enable)
          PROVE  debts' = debts
      BY <2>1 DEF Deposit, Withdraw, UpdateAssetCollateralStatus
    <2> QED
      BY <1>1, <1>3, <1>5, <1>6, <1>8, <2>1 DEF UserStep
  <1>9. CASE EnvironmentStep \/ UNCHANGED vars
    BY <1>1, <1>9 DEF EnvironmentStep, Tick, OracleMoves, vars
  <1> QED
    BY <1>7, <1>8, <1>9 DEF Next

LEMMA CollateralSharesStep ==
    ASSUME Sound, [Next]_vars, NEW u \in User, NEW d \in Denom
    PROVE  /\ CollateralScaled(u, d)' # CollateralScaled(u, d) => d \in DOMAIN markets
           /\ CollateralTaken(u, d) \/ CollateralScaled(u, d)' >= CollateralScaled(u, d)
  <1> DEFINE Kept == /\ CollateralScaled(u, d)' # CollateralScaled(u, d) => d \in DOMAIN markets
                     /\ CollateralTaken(u, d)
                          \/ CollateralScaled(u, d)' >= CollateralScaled(u, d)
  <1> SUFFICES Kept
    OBVIOUS
  <1>1. /\ CollateralScaled(u, d) = AmountIn(collaterals, u, d)
        /\ CollateralScaled(u, d)' = AmountIn(collaterals', u, d)
        /\ CollateralScaled(u, d) \in Nat
        /\ IsMap(collaterals, Position, Collateral)
    BY PositionTypes DEF CollateralScaled, HasCollateral, AmountIn, Sound, TypeOK
  <1>2. CASE collaterals' = collaterals
    BY <1>1, <1>2
  <1>3. ASSUME NEW v \in User, NEW e \in Denom, NEW amount \in Amount,
               Deposit(v, e, amount)
        PROVE  Kept
    <2>1. PICK s \in Nat : collaterals' = IncreaseCollateral(collaterals, v, e, s)
      BY <1>3, DepositSettles
    <2>2. AmountIn(collaterals', u, d)
            = AmountIn(collaterals, u, d) + IF <<u, d>> = <<v, e>> THEN s ELSE 0
      BY <1>1, <2>1, IncreaseCollateralEffect
    <2>3. e \in DOMAIN markets
      BY <1>3 DEF Deposit
    <2> QED
      BY <1>1, <2>2, <2>3
  <1>4. ASSUME NEW v \in User, NEW e \in Denom, NEW request \in Amount \cup {None},
               Withdraw(v, e, request)
        PROVE  Kept
    <2>1. CASE <<u, d>> = <<v, e>>
      BY <1>4, <2>1 DEF CollateralTaken, Withdraw
    <2>2. CASE <<u, d>> # <<v, e>>
      <3>1. PICK s : collaterals' = DecreaseCollateral(collaterals, v, e, s)
        BY <1>4 DEF Withdraw
      <3>2. AmountIn(collaterals', u, d) = AmountIn(collaterals, u, d)
        BY <2>2, <3>1 DEF AmountIn, DecreaseCollateral, Save, Remove
      <3> QED
        BY <1>1, <3>2
    <2> QED
      BY <2>1, <2>2
  <1>5. ASSUME NEW v \in User, NEW e \in Denom, NEW r \in User, NEW c \in Denom,
               NEW sent \in Amount, Liquidate(v, r, c, e, sent)
        PROVE  Kept
    <2>1. PICK s \in Nat :
            /\ s <= CollateralScaled(v, c)
            /\ collaterals' =
                 IncreaseCollateral(DecreaseCollateral(collaterals, v, c, s), r, c, s)
      BY <1>5, LiquidateSettles
    <2> DEFINE mid == DecreaseCollateral(collaterals, v, c, s)
    <2>2. <<v, c>> \in DOMAIN collaterals /\ c \in DOMAIN markets
      BY <1>5, LiquidateSettles DEF Liquidate, HasCollateral
    <2>3. IsMap(mid, Position, Collateral)
      BY <1>1, <2>1, <2>2, DecreaseCollateralType DEF CollateralScaled, HasCollateral
    <2>4. AmountIn(mid, u, d)
            = AmountIn(collaterals, u, d) - IF <<u, d>> = <<v, c>> THEN s ELSE 0
      BY <1>1, <2>2, DecreaseCollateralEffect
    <2> HIDE DEF mid
    <2>5. AmountIn(collaterals', u, d)
            = AmountIn(mid, u, d) + IF <<u, d>> = <<r, c>> THEN s ELSE 0
      BY <2>1, <2>3, IncreaseCollateralEffect DEF mid
    <2>6. CASE <<u, d>> = <<v, c>>
      BY <1>5, <2>2, <2>6 DEF CollateralTaken
    <2>7. CASE <<u, d>> # <<v, c>>
      BY <1>1, <2>2, <2>4, <2>5, <2>7
    <2> QED
      BY <2>6, <2>7
  <1>6. ASSUME NEW v \in User, NEW e \in Denom, NEW enable \in Status,
               UpdateAssetCollateralStatus(v, e, enable)
        PROVE  Kept
    <2>1. AmountIn(collaterals', u, d) = AmountIn(collaterals, u, d)
      BY <1>1, <1>6
      DEF UpdateAssetCollateralStatus, HasCollateral, AmountIn, IsMap, Collateral
    <2> QED
      BY <1>1, <2>1
  <1>7. CASE OwnerStep
    BY <1>2, <1>7 DEF OwnerStep, UpdateOwner, UpdateConfig, InitAsset, UpdateAsset,
                      UpdateUncollateralizedLoanLimit
  <1>8. CASE UserStep
    <2>1. ASSUME NEW v \in User, NEW e \in Denom, NEW amount \in Amount,
                 Borrow(v, e, amount) \/ \E b \in BOOLEAN : Repay(v, e, amount, b)
          PROVE  collaterals' = collaterals
      BY <2>1 DEF Borrow, Repay
    <2> HIDE DEF Kept
    <2> QED
      BY <1>2, <1>3, <1>4, <1>5, <1>6, <1>8, <2>1 DEF UserStep
  <1>9. CASE EnvironmentStep \/ UNCHANGED vars
    BY <1>2, <1>9 DEF EnvironmentStep, Tick, OracleMoves, vars
  <1> HIDE DEF Kept
  <1> QED
    BY <1>7, <1>8, <1>9 DEF Next

\* Shares exist only where there is a market to value them.
SharesHaveMarkets ==
    \A u \in User, d \in Denom :
        d \notin DOMAIN markets => DebtScaled(u, d) = 0 /\ CollateralScaled(u, d) = 0

LEMMA MarketsStay ==
    ASSUME Sound, [Next]_vars PROVE DOMAIN markets \subseteq DOMAIN markets'
  BY MarketsStep
  DEF MarketChanged, MarketSettled, MarketReparametrised, MarketOpened, Save

LEMMA SharesAlwaysHaveMarkets == Spec => []SharesHaveMarkets
  <1>1. Init => SharesHaveMarkets
    BY DEF Init, EmptyMap, SharesHaveMarkets, DebtScaled, CollateralScaled,
           HasDebt, HasCollateral
  <1>2. ASSUME Sound, SharesHaveMarkets, [Next]_vars PROVE SharesHaveMarkets'
    <2>1. SUFFICES ASSUME NEW u \in User, NEW d \in Denom, d \notin DOMAIN markets
                   PROVE  DebtScaled(u, d)' = 0 /\ CollateralScaled(u, d)' = 0
      BY <1>2, MarketsStay DEF SharesHaveMarkets
    <2>2. DebtScaled(u, d)' = DebtScaled(u, d)
      BY <1>2, <2>1, DebtSharesStep DEF DebtMoved
    <2>3. CollateralScaled(u, d)' = CollateralScaled(u, d)
      BY <1>2, <2>1, CollateralSharesStep
    <2> QED
      BY <1>2, <2>1, <2>2, <2>3 DEF SharesHaveMarkets
  <1> QED
    BY <1>1, <1>2, SoundAlways, PTL DEF Spec

\* The indexes of an open market can be multiplied with.
LEMMA IndexTypes ==
    ASSUME Sound, NEW d \in DOMAIN markets
    PROVE  /\ UpdatedBorrowIndex(markets[d], now) \in Nat
           /\ UpdatedLiquidityIndex(markets[d], now) \in Nat
  <1>1. markets[d] \in Market /\ now \in Nat
    BY DEF Sound, SoundMarket, TypeOK
  <1> QED
    BY <1>1, UpdatedIndexesGrow

LEMMA DebtIsolated ==
    ASSUME Sound, Sound', SharesHaveMarkets, [Next]_vars, now' = now,
           NEW u \in User, NEW d \in Denom, ~DebtMoved(u, d)
    PROVE  DebtOf(u, d)' = DebtOf(u, d)
  <1>1. DebtScaled(u, d)' = DebtScaled(u, d)
    BY DebtSharesStep
  <1>2. CASE d \in DOMAIN markets
    <2>1. d \in DOMAIN markets'
      BY <1>2, MarketsStay
    <2>2. UpdatedBorrowIndex(markets[d], now)' = UpdatedBorrowIndex(markets[d], now)
      BY <1>2, MarketsStep, ChangedMarketsContinuous
    <2> QED
      BY <1>1, <1>2, <2>1, <2>2 DEF DebtOf, UnderlyingDebt
  <1>3. CASE d \notin DOMAIN markets
    <2>1. DebtScaled(u, d)' = 0 /\ DebtOf(u, d) = 0
      BY <1>1, <1>3 DEF SharesHaveMarkets, DebtOf
    <2>2. CASE d \notin DOMAIN markets'
      BY <2>1, <2>2 DEF DebtOf
    <2>3. CASE d \in DOMAIN markets'
      <3>1. UpdatedBorrowIndex(markets[d], now)' \in Nat
        <4>1. SoundMarket(markets'[d]) /\ now' \in Nat
          BY <2>3 DEF Sound, TypeOK
        <4> QED
          BY <4>1, UpdatedIndexesGrow DEF SoundMarket
      <3>2. DebtOf(u, d)' = UnderlyingCeil(0, UpdatedBorrowIndex(markets[d], now)')
        BY <2>1, <2>3 DEF DebtOf, UnderlyingDebt
      <3> QED
        BY <2>1, <3>1, <3>2, NoUnderlying
    <2> QED
      BY <2>2, <2>3
  <1> QED
    BY <1>2, <1>3

LEMMA CollateralIsolated ==
    ASSUME Sound, Sound', SharesHaveMarkets, [Next]_vars, now' = now,
           NEW u \in User, NEW d \in Denom, ~CollateralTaken(u, d)
    PROVE  CollateralOf(u, d)' >= CollateralOf(u, d)
  <1>1. /\ CollateralScaled(u, d)' >= CollateralScaled(u, d)
        /\ CollateralScaled(u, d) \in Nat
    BY CollateralSharesStep, PositionTypes DEF Sound
  <1>2. CollateralScaled(u, d)' \in Nat
    <2>1. IsMap(collaterals', Position, Collateral) /\ <<u, d>> \in Position
      BY DEF Sound, TypeOK, Position
    <2> QED
      BY <2>1 DEF CollateralScaled, HasCollateral, IsMap, Collateral, Uint
  <1>3. CASE d \in DOMAIN markets
    <2>1. d \in DOMAIN markets'
      BY <1>3, MarketsStay
    <2>2. UpdatedLiquidityIndex(markets[d], now)' = UpdatedLiquidityIndex(markets[d], now)
      BY <1>3, MarketsStep, ChangedMarketsContinuous
    <2> DEFINE i == UpdatedLiquidityIndex(markets[d], now)
    <2>3. i \in Nat
      BY <1>3, IndexTypes
    <2>4. /\ CollateralOf(u, d) = UnderlyingFloor(CollateralScaled(u, d), i)
          /\ CollateralOf(u, d)' = UnderlyingFloor(CollateralScaled(u, d)', i)
      BY <1>3, <2>1, <2>2 DEF CollateralOf, UnderlyingLiquidity
    <2> HIDE DEF i
    <2>5. UnderlyingFloor(CollateralScaled(u, d), i)
            <= UnderlyingFloor(CollateralScaled(u, d)', i)
      BY <1>1, <1>2, <2>3, UnderlyingMonotone
    <2>6. UnderlyingFloor(CollateralScaled(u, d), i) \in Nat
          /\ UnderlyingFloor(CollateralScaled(u, d)', i) \in Nat
      BY <1>1, <1>2, <2>3, ScalingAssumption, UintMulType, DivType DEF UnderlyingFloor
    <2> QED
      BY <2>4, <2>5, <2>6
  <1>4. CASE d \notin DOMAIN markets
    <2>1. CollateralScaled(u, d)' = 0 /\ CollateralOf(u, d) = 0
      BY <1>4, CollateralSharesStep DEF SharesHaveMarkets, CollateralOf
    <2>2. CASE d \notin DOMAIN markets'
      BY <2>1, <2>2 DEF CollateralOf
    <2>3. CASE d \in DOMAIN markets'
      <3>1. UpdatedLiquidityIndex(markets[d], now)' \in Nat
        <4>1. SoundMarket(markets'[d]) /\ now' \in Nat
          BY <2>3 DEF Sound, TypeOK
        <4> QED
          BY <4>1, UpdatedIndexesGrow DEF SoundMarket
      <3>2. CollateralOf(u, d)' = UnderlyingFloor(0, UpdatedLiquidityIndex(markets[d], now)')
        BY <2>1, <2>3 DEF CollateralOf, UnderlyingLiquidity
      <3> QED
        BY <2>1, <3>1, <3>2, NoUnderlying
    <2> QED
      BY <2>2, <2>3
  <1> QED
    BY <1>3, <1>4

\* For any number of users and markets: within a block nobody's transaction
\* moves what another user owes or owns by a coin, a liquidation of that user
\* apart.
THEOREM PositionsAlwaysIsolated == Spec => PositionsIsolated
  <1>1. ASSUME Sound, Sound', SharesHaveMarkets, [Next]_vars, now' = now,
               NEW u \in User, NEW d \in Denom
        PROVE  /\ DebtOf(u, d)' # DebtOf(u, d) =>
                    \E amount \in Amount :
                        \/ Borrow(u, d, amount)
                        \/ \E on_behalf_of \in BOOLEAN : Repay(u, d, amount, on_behalf_of)
                        \/ \E r \in User, c \in Denom : Liquidate(u, r, c, d, amount)
               /\ CollateralOf(u, d)' < CollateralOf(u, d) =>
                    \/ \E request \in Amount \cup {None} : Withdraw(u, d, request)
                    \/ \E r \in User, c \in Denom, sent \in Amount :
                          Liquidate(u, r, d, c, sent)
    <2>1. DebtOf(u, d)' # DebtOf(u, d) => DebtMoved(u, d)
      BY <1>1, DebtIsolated
    <2>2. CollateralOf(u, d)' < CollateralOf(u, d) => CollateralTaken(u, d)
      <3>1. CollateralOf(u, d) \in Nat
        BY <1>1, PositionTypes, ConversionTypes DEF CollateralOf, Sound, TypeOK
      <3>2. CollateralOf(u, d)' \in Nat
        <4>1. CollateralScaled(u, d)' \in Nat
          BY <1>1, PositionTypes DEF Sound, TypeOK, CollateralScaled, HasCollateral,
                                     Position, IsMap, Collateral, Uint
        <4>2. d \in DOMAIN markets' => SoundMarket(markets'[d]) /\ now' \in Nat
          BY <1>1 DEF Sound, TypeOK
        <4> QED
          BY <4>1, <4>2, ConversionTypes DEF CollateralOf
      <3> QED
        BY <1>1, <3>1, <3>2, CollateralIsolated
    <2> QED
      BY <2>1, <2>2 DEF DebtMoved, CollateralTaken
  <1>2. Sound /\ Sound' /\ SharesHaveMarkets /\ [Next]_vars =>
          [now' = now =>
            \A u \in User, d \in Denom :
              /\ DebtOf(u, d)' # DebtOf(u, d) =>
                    \E amount \in Amount :
                        \/ Borrow(u, d, amount)
                        \/ \E on_behalf_of \in BOOLEAN : Repay(u, d, amount, on_behalf_of)
                        \/ \E r \in User, c \in Denom : Liquidate(u, r, c, d, amount)
              /\ CollateralOf(u, d)' < CollateralOf(u, d) =>
                    \/ \E request \in Amount \cup {None} : Withdraw(u, d, request)
                    \/ \E r \in User, c \in Denom, sent \in Amount :
                          Liquidate(u, r, d, c, sent)]_vars
    BY <1>1
  <1> QED
    BY <1>2, SoundAlways, SharesAlwaysHaveMarkets, PTL DEF Spec, PositionsIsolated

-----------------------------------------------------------------------------
(***************************************************************************)
(* The role                                                                *)
(***************************************************************************)

\* When nobody is the owner, nobody can become one, and there is no emergency
\* owner left.
Abolished == role.proposed = None /\ role.emergency_owner = None

RoleInv == role.owner = None => Abolished

LEMMA RolesKeepInv ==
    ASSUME Sound, RoleInv, NEW sender \in Admin, NEW update \in OwnerInput,
           UpdateOwner(sender, update)
    PROVE  role.owner # None /\ RoleInv'
  <1>1. role \in Role /\ update \in OwnerUpdates /\ sender # None
    BY InputAssumption, NoneAssumption DEF Sound, TypeOK
  <1>2. role' \in UpdatedRoles(role, update, sender)
    BY DEF UpdateOwner
  <1>3. CASE update = "accept_proposed"
    <2>1. role.proposed = sender /\ role' = [role EXCEPT !.owner = sender, !.proposed = None]
      BY <1>2, <1>3 DEF UpdatedRoles
    <2>2. role'.owner = sender
      BY <1>1, <2>1 DEF Role
    <2> QED
      BY <1>1, <2>1, <2>2 DEF RoleInv, Abolished
  <1>4. CASE update # "accept_proposed"
    <2>1. role.owner = sender
      BY <1>2, <1>4 DEF UpdatedRoles, IsOwner
    <2>2. CASE update = "abolish_owner_role"
      <3>1. role' = [owner |-> None, proposed |-> None, emergency_owner |-> None]
        BY <1>2, <2>1, <2>2 DEF UpdatedRoles, IsOwner
      <3> QED
        BY <1>1, <2>1, <3>1 DEF RoleInv, Abolished
    <2>3. CASE update # "abolish_owner_role"
      <3>1. role'.owner = role.owner
        <4>1. CASE update = "propose_new_owner"
          BY <1>1, <1>2, <2>1, <4>1 DEF UpdatedRoles, IsOwner, Role
        <4>2. CASE update = "clear_proposed"
          BY <1>1, <1>2, <2>1, <4>2 DEF UpdatedRoles, IsOwner, Role
        <4>3. CASE update = "set_emergency_owner"
          BY <1>1, <1>2, <2>1, <4>3 DEF UpdatedRoles, IsOwner, Role
        <4>4. CASE update = "clear_emergency_owner"
          BY <1>1, <1>2, <2>1, <4>4 DEF UpdatedRoles, IsOwner, Role
        <4> QED
          BY <1>1, <1>4, <2>3, <4>1, <4>2, <4>3, <4>4 DEF OwnerUpdates
      <3> QED
        BY <1>1, <2>1, <3>1 DEF RoleInv
    <2> QED
      BY <2>2, <2>3
  <1> QED
    BY <1>3, <1>4

\* Only UpdateOwner changes the role.
LEMMA RoleStep ==
    ASSUME [Next]_vars
    PROVE  \/ role' = role
           \/ \E sender \in Admin, update \in OwnerInput : UpdateOwner(sender, update)
  <1>1. CASE OwnerStep
    BY <1>1 DEF OwnerStep, UpdateConfig, InitAsset, UpdateAsset,
                UpdateUncollateralizedLoanLimit
  <1>2. CASE UserStep
    <2>1. \A u \in User, d \in Denom, amount \in Amount :
            Deposit(u, d, amount) \/ Borrow(u, d, amount) => role' = role
      BY DEF Deposit, Borrow
    <2>2. \A u \in User, d \in Denom, request \in Amount \cup {None} :
            Withdraw(u, d, request) => role' = role
      BY DEF Withdraw
    <2>3. \A u \in User, d \in Denom, amount \in Amount, on_behalf_of \in BOOLEAN :
            Repay(u, d, amount, on_behalf_of) => role' = role
      BY DEF Repay
    <2>4. \A u \in User, d \in Denom, r \in User, c \in Denom, sent \in Amount :
            Liquidate(u, r, c, d, sent) => role' = role
      BY DEF Liquidate
    <2>5. \A u \in User, d \in Denom, enable \in Status :
            UpdateAssetCollateralStatus(u, d, enable) => role' = role
      BY DEF UpdateAssetCollateralStatus
    <2> QED
      BY <1>2, <2>1, <2>2, <2>3, <2>4, <2>5 DEF UserStep
  <1>3. CASE EnvironmentStep \/ UNCHANGED vars
    BY <1>3 DEF EnvironmentStep, Tick, OracleMoves, vars
  <1> QED
    BY <1>1, <1>2, <1>3 DEF Next

LEMMA RoleInvAlways == Spec => []RoleInv
  <1>1. Init => RoleInv
    BY NoneAssumption DEF Init, InitialRole, RoleInv
  <1>2. ASSUME Sound, RoleInv, [Next]_vars PROVE RoleInv'
    <2>1. CASE role' = role
      BY <1>2, <2>1 DEF RoleInv, Abolished
    <2>2. ASSUME NEW sender \in Admin, NEW update \in OwnerInput,
                 UpdateOwner(sender, update)
          PROVE  RoleInv'
      BY <1>2, <2>2, RolesKeepInv
    <2> QED
      BY <1>2, <2>1, <2>2, RoleStep
  <1> QED
    BY <1>1, <1>2, SoundAlways, PTL DEF Spec

-----------------------------------------------------------------------------
(***************************************************************************)
(* The parameters                                                          *)
(***************************************************************************)

\* The market of d keeps its parameters, and the others are as they were.
ParamsKept ==
    \A d \in DOMAIN markets', f \in AssetParam :
        d \in DOMAIN markets /\ markets'[d][f] = markets[d][f]

\* Accrual, totals and rates are not parameters.
LEMMA SavedMarketKeepsParams ==
    ASSUME NEW m \in Market, NEW s, NEW x, NEW f \in AssetParam,
           LET a == ApplyAccumulatedInterests(m, now)
           IN  x \in {IncreaseTotalCollateral(a, s), DecreaseTotalCollateral(a, s),
                      IncreaseTotalDebt(a, s), DecreaseTotalDebt(a, s)}
    PROVE  UpdateInterestRates(x, now)[f] = m[f]
  <1> DEFINE a == ApplyAccumulatedInterests(m, now)
  <1>1. DOMAIN a = DOMAIN m /\ a[f] = m[f]
    BY DEF ApplyAccumulatedInterests, AssetParam, Market
  <1>2. AssetParam \subseteq DOMAIN m
    BY DEF AssetParam, Market
  <1> HIDE DEF a
  <1>3. DOMAIN x = DOMAIN m /\ x[f] = m[f]
    BY <1>1, <1>2 DEF IncreaseTotalCollateral, DecreaseTotalCollateral,
                      IncreaseTotalDebt, DecreaseTotalDebt, AssetParam, a
  <1> QED
    BY <1>2, <1>3 DEF UpdateInterestRates, AssetParam

LEMMA SaveMarketKeepsParams ==
    ASSUME Sound, NEW d \in DOMAIN markets, NEW s, NEW x, SaveMarket(d, x),
           LET a == ApplyAccumulatedInterests(markets[d], now)
           IN  x \in {IncreaseTotalCollateral(a, s), DecreaseTotalCollateral(a, s),
                      IncreaseTotalDebt(a, s), DecreaseTotalDebt(a, s)}
    PROVE  ParamsKept
  <1>1. markets[d] \in Market
    BY DEF Sound, SoundMarket
  <1>2. \A f \in AssetParam : UpdateInterestRates(x, now)[f] = markets[d][f]
    BY <1>1, SavedMarketKeepsParams
  <1> QED
    BY <1>2 DEF SaveMarket, Save, ParamsKept

\* A step of anybody but an owner keeps the parameters of all markets.
LEMMA UsersKeepParams ==
    ASSUME Sound, UserStep
    PROVE  ParamsKept /\ config' = config /\ limits' = limits
  <1>1. ASSUME NEW u \in User, NEW d \in Denom, NEW amount \in Amount,
               Deposit(u, d, amount)
        PROVE  ParamsKept /\ config' = config /\ limits' = limits
    BY <1>1, SaveMarketKeepsParams DEF Deposit
  <1>2. ASSUME NEW u \in User, NEW d \in Denom, NEW request \in Amount \cup {None},
               Withdraw(u, d, request)
        PROVE  ParamsKept /\ config' = config /\ limits' = limits
    BY <1>2, SaveMarketKeepsParams DEF Withdraw
  <1>3. ASSUME NEW u \in User, NEW d \in Denom, NEW amount \in Amount,
               Borrow(u, d, amount)
        PROVE  ParamsKept /\ config' = config /\ limits' = limits
    BY <1>3, SaveMarketKeepsParams DEF Borrow
  <1>4. ASSUME NEW u \in User, NEW d \in Denom, NEW amount \in Amount,
               NEW on_behalf_of \in BOOLEAN, Repay(u, d, amount, on_behalf_of)
        PROVE  ParamsKept /\ config' = config /\ limits' = limits
    BY <1>4, SaveMarketKeepsParams DEF Repay
  <1>5. ASSUME NEW u \in User, NEW d \in Denom, NEW r \in User, NEW c \in Denom,
               NEW sent \in Amount, Liquidate(u, r, c, d, sent)
        PROVE  ParamsKept /\ config' = config /\ limits' = limits
    <2>1. d \in DOMAIN markets
      BY <1>5, LiquidateSettles DEF MarketSettled
    <2> QED
      BY <1>5, <2>1, SaveMarketKeepsParams DEF Liquidate
  <1>6. ASSUME NEW u \in User, NEW d \in Denom, NEW enable \in Status,
               UpdateAssetCollateralStatus(u, d, enable)
        PROVE  ParamsKept /\ config' = config /\ limits' = limits
    BY <1>6 DEF UpdateAssetCollateralStatus, ParamsKept
  <1> QED
    BY <1>1, <1>2, <1>3, <1>4, <1>5, <1>6 DEF UserStep

\* Without an owner, no message that needs one succeeds.
LEMMA NoOwnerNoOwnerStep ==
    ASSUME Sound, RoleInv, role.owner = None PROVE ~OwnerStep
  <1>1. \A sender \in Admin : ~IsOwner(role, sender) /\ ~IsEmergencyOwner(role, sender)
    BY NoneAssumption DEF RoleInv, Abolished, IsOwner, IsEmergencyOwner
  <1>2. \A sender \in Admin, update \in OwnerInput : ~UpdateOwner(sender, update)
    BY RolesKeepInv
  <1> QED
    BY <1>1, <1>2 DEF OwnerStep, UpdateConfig, InitAsset, UpdateAsset,
                      UpdateUncollateralizedLoanLimit

\* However the role was handed on before: nobody else's message sets a
\* parameter, and once the role is abolished everything it governs is frozen.
THEOREM OnlyOwnerEverSets == Spec => OnlyOwnerSetsParams
  <1> DEFINE P == \A sender \in Admin, d \in DOMAIN markets, input \in UpdateInput :
                    ~IsOwner(role, sender) /\ UpdateAsset(sender, d, input) =>
                        markets' = [markets EXCEPT ![d].borrow_enabled = FALSE]
             Q == role.owner = None =>
                    /\ <<role, config, limits>>' = <<role, config, limits>>
                    /\ \A d \in DOMAIN markets', f \in AssetParam :
                          d \in DOMAIN markets /\ markets'[d][f] = markets[d][f]
  <1>1. P
    BY DEF UpdateAsset, UpdateAssetByEmergencyOwner
  <1>2. ASSUME Sound, RoleInv, [Next]_vars PROVE Q
    <2>1. SUFFICES ASSUME role.owner = None
                   PROVE  <<role, config, limits>>' = <<role, config, limits>> /\ ParamsKept
      BY DEF ParamsKept
    <2>2. ~OwnerStep
      BY <1>2, <2>1, NoOwnerNoOwnerStep
    <2>3. role' = role
      BY <1>2, <2>1, RoleStep, RolesKeepInv
    <2>4. CASE UserStep
      BY <1>2, <2>3, <2>4, UsersKeepParams
    <2>5. CASE EnvironmentStep \/ UNCHANGED vars
      BY <2>5 DEF EnvironmentStep, Tick, OracleMoves, vars, ParamsKept
    <2> QED
      BY <1>2, <2>2, <2>4, <2>5 DEF Next
  <1>3. Sound /\ RoleInv /\ [Next]_vars => [P /\ Q]_vars
    BY <1>1, <1>2
  <1> QED
    BY <1>3, SoundAlways, RoleInvAlways, PTL DEF Spec, OnlyOwnerSetsParams


-----------------------------------------------------------------------------
(***************************************************************************)
(* Sums over finite sets                                                   *)
(***************************************************************************)

\* Every set of numbers that holds 0 and the successors of its members holds all.
LEMMA LeastCounterexample ==
    ASSUME NEW T, 0 \in T, \A n \in Nat : n \in T => n + 1 \in T
    PROVE  Nat \subseteq T
  <1> DEFINE Rest == Nat \ T
  <1> SUFFICES ASSUME Rest # {} PROVE FALSE
    OBVIOUS
  <1>1. PICK n \in Rest : \A m \in Rest : ~(<<m, n>> \in OpToRel(<, Nat))
    <2>1. Rest \subseteq Nat
      OBVIOUS
    <2> HIDE DEF Rest
    <2> QED
      BY <2>1, WFMin, NatLessThanWellFounded
  <1>2. \A m \in Nat : m < n => m \in T
    BY <1>1 DEF OpToRel
  <1>3. n # 0 /\ n - 1 \in Nat
    OBVIOUS
  <1> QED
    BY <1>2, <1>3

\* The recursion that the sum of f over a set is computed by.
SumStep(f, sums, s) ==
    IF s = {} THEN 0 ELSE LET x == CHOOSE x \in s : TRUE IN f[x] + sums[s \ {x}]

Sums(f) == CHOOSE sums : sums = [s \in SUBSET DOMAIN f |->
    IF s = {} THEN 0 ELSE LET x == CHOOSE x \in s : TRUE IN f[x] + sums[s \ {x}]]

LEMMA SumIsRecursive == ASSUME NEW f PROVE SumFunction(f) = Sums(f)[DOMAIN f]
  BY DEF SumFunction, SumFunctionOnSet, FoldFunctionOnSet, MapThenFoldSet, Sums

LEMMA SmallerSet ==
    ASSUME NEW s, IsFiniteSet(s), s # {}
    PROVE  LET x == CHOOSE x \in s : TRUE
           IN  /\ x \in s
               /\ IsFiniteSet(s \ {x})
               /\ Cardinality(s \ {x}) = Cardinality(s) - 1
               /\ Cardinality(s) \in Nat \ {0}
  BY FS_RemoveElement, FS_CardinalityType, FS_EmptySet

LEMMA SumsExist ==
    ASSUME NEW S, IsFiniteSet(S), NEW f \in [S -> Nat]
    PROVE  \A s \in SUBSET S : Sums(f)[s] = SumStep(f, Sums(f), s)
  <1> DEFINE Correct(h, n) ==
                \A s \in SUBSET S : Cardinality(s) <= n => h[s] = SumStep(f, h, s)
             T == {n \in Nat : \E h : Correct(h, n)}
  <1>1. \A s \in SUBSET S : IsFiniteSet(s) /\ Cardinality(s) \in Nat
                            /\ Cardinality(s) <= Cardinality(S)
    BY FS_Subset, FS_CardinalityType
  <1>2. 0 \in T
    <2> DEFINE h == [s \in SUBSET S |-> 0]
    <2>1. ASSUME NEW s \in SUBSET S, Cardinality(s) <= 0 PROVE h[s] = SumStep(f, h, s)
      <3>1. s = {}
        BY <1>1, <2>1, FS_EmptySet
      <3> QED
        BY <3>1 DEF SumStep
    <2> QED
      BY <2>1
  <1>3. ASSUME NEW n \in Nat, n \in T PROVE n + 1 \in T
    <2>1. PICK h : Correct(h, n)
      BY <1>3
    <2> DEFINE g == [s \in SUBSET S |->
                        IF Cardinality(s) <= n THEN h[s] ELSE SumStep(f, h, s)]
    <2>2. ASSUME NEW s \in SUBSET S, Cardinality(s) <= n + 1
          PROVE  g[s] = SumStep(f, h, s) /\ SumStep(f, g, s) = SumStep(f, h, s)
      <3>1. g[s] = SumStep(f, h, s)
        BY <2>1
      <3>2. CASE s = {}
        BY <3>1, <3>2 DEF SumStep
      <3>3. CASE s # {}
        <4> DEFINE x == CHOOSE x \in s : TRUE
        <4>1. s \ {x} \in SUBSET S /\ Cardinality(s \ {x}) <= n
          BY <1>1, <2>2, <3>3, SmallerSet
        <4>2. g[s \ {x}] = h[s \ {x}]
          BY <4>1
        <4> HIDE DEF g
        <4> QED
          BY <3>1, <3>3, <4>2 DEF SumStep
      <3> QED
        BY <3>1, <3>2, <3>3
    <2> HIDE DEF g
    <2>3. Correct(g, n + 1)
      BY <2>2
    <2>4. n + 1 \in Nat
      OBVIOUS
    <2> HIDE DEF Correct
    <2> QED
      BY <2>3, <2>4
  <1>4. Cardinality(S) \in T
    <2> HIDE DEF T
    <2> QED
      BY <1>1, <1>2, <1>3, LeastCounterexample
  <1>5. PICK h : Correct(h, Cardinality(S))
    BY <1>4
  <1> DEFINE g == [s \in SUBSET S |-> h[s]]
  <1>6. ASSUME NEW s \in SUBSET S PROVE g[s] = SumStep(f, g, s)
    <2>1. h[s] = SumStep(f, h, s)
      BY <1>1, <1>5
    <2>2. SumStep(f, g, s) = SumStep(f, h, s)
      BY DEF SumStep
    <2> QED
      BY <2>1, <2>2
  <1> HIDE DEF g
  <1>7. g = [s \in SUBSET DOMAIN f |->
             IF s = {} THEN 0 ELSE LET x == CHOOSE x \in s : TRUE IN f[x] + g[s \ {x}]]
    BY <1>6 DEF g, SumStep
  <1>8. Sums(f) = [s \in SUBSET DOMAIN f |->
             IF s = {} THEN 0 ELSE LET x == CHOOSE x \in s : TRUE IN f[x] + Sums(f)[s \ {x}]]
    BY <1>7 DEF Sums
  <1> QED
    BY <1>8 DEF SumStep

LEMMA SumEquations ==
    ASSUME NEW S, IsFiniteSet(S), NEW f \in [S -> Nat]
    PROVE  /\ Sums(f)[{}] = 0
           /\ \A s \in (SUBSET S) \ {{}} :
                LET x == CHOOSE x \in s : TRUE
                IN  Sums(f)[s] = f[x] + Sums(f)[s \ {x}]
  <1>1. \A s \in SUBSET S : Sums(f)[s] = SumStep(f, Sums(f), s)
    BY SumsExist
  <1> QED
    BY <1>1 DEF SumStep

\* A sum of naturals is one, each of its terms is part of it, and it is zero
\* unless one of them is not.
LEMMA SumType ==
    ASSUME NEW S, IsFiniteSet(S), NEW f \in [S -> Nat]
    PROVE  /\ SumFunction(f) \in Nat
           /\ \A x \in S : f[x] <= SumFunction(f)
           /\ SumFunction(f) # 0 => \E x \in S : f[x] # 0
  <1> DEFINE Correct(s) == /\ Sums(f)[s] \in Nat
                           /\ \A x \in s : f[x] <= Sums(f)[s]
                           /\ Sums(f)[s] # 0 => \E x \in s : f[x] # 0
             T == {n \in Nat : \A s \in SUBSET S : Cardinality(s) = n => Correct(s)}
  <1>1. \A s \in SUBSET S : IsFiniteSet(s) /\ Cardinality(s) \in Nat
    BY FS_Subset, FS_CardinalityType
  <1>2. 0 \in T
    <2>1. ASSUME NEW s \in SUBSET S, Cardinality(s) = 0 PROVE Correct(s)
      <3>1. s = {}
        BY <1>1, <2>1, FS_EmptySet
      <3> QED
        BY <3>1, SumEquations
    <2> QED
      BY <2>1
  <1>3. ASSUME NEW n \in Nat, n \in T PROVE n + 1 \in T
    <2>1. ASSUME NEW s \in SUBSET S, Cardinality(s) = n + 1 PROVE Correct(s)
      <3> DEFINE x == CHOOSE x \in s : TRUE
      <3>1. s # {}
        BY <2>1, FS_EmptySet
      <3>2. x \in s /\ s \ {x} \in SUBSET S /\ Cardinality(s \ {x}) = n
        BY <1>1, <2>1, <3>1, SmallerSet
      <3>3. Sums(f)[s] = f[x] + Sums(f)[s \ {x}]
        BY <3>1, SumEquations
      <3>4. Correct(s \ {x})
        BY <1>3, <3>2
      <3> HIDE DEF x
      <3>5. f[x] \in Nat
        BY <3>2
      <3>6. \A y \in s : y = x \/ y \in s \ {x}
        OBVIOUS
      <3>7. \A y \in s : f[y] \in Nat
        OBVIOUS
      <3> QED
        BY <3>3, <3>4, <3>5, <3>6, <3>7
    <2> HIDE DEF Correct
    <2> QED
      BY <2>1
  <1>4. Cardinality(S) \in T
    <2> HIDE DEF T
    <2> QED
      BY <1>1, <1>2, <1>3, LeastCounterexample
  <1>5. Correct(S)
    BY <1>4
  <1> QED
    BY <1>5, SumIsRecursive

\* A sum changes by what one of its terms changes by.
LEMMA SumChange ==
    ASSUME NEW S, IsFiniteSet(S), NEW f \in [S -> Nat], NEW g \in [S -> Nat],
           NEW v \in S, \A x \in S \ {v} : g[x] = f[x]
    PROVE  SumFunction(g) - g[v] = SumFunction(f) - f[v]
  <1> DEFINE Correct(s) == IF v \in s THEN Sums(g)[s] - g[v] = Sums(f)[s] - f[v]
                           ELSE Sums(g)[s] = Sums(f)[s]
             Typed(s) == Sums(f)[s] \in Nat /\ Sums(g)[s] \in Nat
             T == {n \in Nat : \A s \in SUBSET S :
                        Cardinality(s) = n => Correct(s) /\ Typed(s)}
  <1>1. \A s \in SUBSET S : IsFiniteSet(s) /\ Cardinality(s) \in Nat
    BY FS_Subset, FS_CardinalityType
  <1>2. 0 \in T
    <2>1. ASSUME NEW s \in SUBSET S, Cardinality(s) = 0 PROVE Correct(s) /\ Typed(s)
      <3>1. s = {}
        BY <1>1, <2>1, FS_EmptySet
      <3> QED
        BY <3>1, SumEquations
    <2> HIDE DEF Correct, Typed
    <2> QED
      BY <2>1
  <1>3. ASSUME NEW n \in Nat, n \in T PROVE n + 1 \in T
    <2>1. ASSUME NEW s \in SUBSET S, Cardinality(s) = n + 1 PROVE Correct(s) /\ Typed(s)
      <3> DEFINE x == CHOOSE x \in s : TRUE
      <3>1. s # {}
        BY <2>1, FS_EmptySet
      <3>2. x \in s /\ s \ {x} \in SUBSET S /\ Cardinality(s \ {x}) = n
        BY <1>1, <2>1, <3>1, SmallerSet
      <3>3. Sums(f)[s] = f[x] + Sums(f)[s \ {x}] /\ Sums(g)[s] = g[x] + Sums(g)[s \ {x}]
        BY <3>1, SumEquations
      <3>4. Correct(s \ {x}) /\ Typed(s \ {x})
        BY <1>3, <3>2
      <3> HIDE DEF x
      <3>5. f[x] \in Nat /\ g[x] \in Nat /\ f[v] \in Nat /\ g[v] \in Nat
        BY <3>2
      <3>6. v = x \/ (f[x] = g[x] /\ (v \in s <=> v \in s \ {x}))
        BY <3>2
      <3> QED
        BY <3>2, <3>3, <3>4, <3>5, <3>6
    <2> HIDE DEF Correct, Typed
    <2> QED
      BY <2>1
  <1>4. Cardinality(S) \in T
    <2> HIDE DEF T
    <2> QED
      BY <1>1, <1>2, <1>3, LeastCounterexample
  <1>5. Correct(S)
    BY <1>4
  <1> QED
    BY <1>5, SumIsRecursive

\* A sum over any part of the domain is one.
LEMMA PartialSumType ==
    ASSUME NEW S, IsFiniteSet(S), NEW f \in [S -> Nat]
    PROVE  \A s \in SUBSET S : Sums(f)[s] \in Nat
  <1> DEFINE T == {n \in Nat : \A s \in SUBSET S : Cardinality(s) = n => Sums(f)[s] \in Nat}
  <1>1. \A s \in SUBSET S : IsFiniteSet(s) /\ Cardinality(s) \in Nat
    BY FS_Subset, FS_CardinalityType
  <1>2. 0 \in T
    <2>1. ASSUME NEW s \in SUBSET S, Cardinality(s) = 0 PROVE Sums(f)[s] \in Nat
      <3>1. s = {}
        BY <1>1, <2>1, FS_EmptySet
      <3> QED
        BY <3>1, SumEquations
    <2> QED
      BY <2>1
  <1>3. ASSUME NEW n \in Nat, n \in T PROVE n + 1 \in T
    <2>1. ASSUME NEW s \in SUBSET S, Cardinality(s) = n + 1 PROVE Sums(f)[s] \in Nat
      <3> DEFINE x == CHOOSE x \in s : TRUE
      <3>1. s # {}
        BY <2>1, FS_EmptySet
      <3>2. x \in s /\ s \ {x} \in SUBSET S /\ Cardinality(s \ {x}) = n
        BY <1>1, <2>1, <3>1, SmallerSet
      <3>3. Sums(f)[s] = f[x] + Sums(f)[s \ {x}]
        BY <3>1, SumEquations
      <3>4. Sums(f)[s \ {x}] \in Nat
        BY <1>3, <3>2
      <3> HIDE DEF x
      <3>5. f[x] \in Nat
        BY <3>2
      <3> QED
        BY <3>3, <3>4, <3>5
    <2> QED
      BY <2>1
  <1>4. Nat \subseteq T
    <2> HIDE DEF T
    <2> QED
      BY <1>2, <1>3, LeastCounterexample
  <1> QED
    BY <1>1, <1>4

\* The order in which a sum is taken does not matter: any term can be the first.
LEMMA SumSplit ==
    ASSUME NEW S, IsFiniteSet(S), NEW f \in [S -> Nat]
    PROVE  \A s \in SUBSET S : \A v \in s : Sums(f)[s] = f[v] + Sums(f)[s \ {v}]
  <1> DEFINE Correct(s) == \A v \in s : Sums(f)[s] = f[v] + Sums(f)[s \ {v}]
             T == {n \in Nat : \A s \in SUBSET S : Cardinality(s) = n => Correct(s)}
  <1>1. \A s \in SUBSET S : IsFiniteSet(s) /\ Cardinality(s) \in Nat /\ Sums(f)[s] \in Nat
    BY FS_Subset, FS_CardinalityType, PartialSumType
  <1>2. 0 \in T
    <2>1. ASSUME NEW s \in SUBSET S, Cardinality(s) = 0 PROVE Correct(s)
      BY <1>1, <2>1, FS_EmptySet
    <2> HIDE DEF Correct
    <2> QED
      BY <2>1
  <1>3. ASSUME NEW n \in Nat, n \in T PROVE n + 1 \in T
    <2>1. ASSUME NEW s \in SUBSET S, Cardinality(s) = n + 1 PROVE Correct(s)
      <3> DEFINE x == CHOOSE x \in s : TRUE
      <3>1. s # {}
        BY <2>1, FS_EmptySet
      <3>2. x \in s /\ s \ {x} \in SUBSET S /\ Cardinality(s \ {x}) = n
        BY <1>1, <2>1, <3>1, SmallerSet
      <3>3. Sums(f)[s] = f[x] + Sums(f)[s \ {x}]
        BY <3>1, SumEquations
      <3> HIDE DEF x
      <3>4. ASSUME NEW v \in s, v # x PROVE Sums(f)[s] = f[v] + Sums(f)[s \ {v}]
        <4>1. /\ v \in s \ {x} /\ x \in s \ {v}
              /\ s \ {v} \in SUBSET S /\ Cardinality(s \ {v}) = n
              /\ (s \ {v}) \ {x} = (s \ {x}) \ {v}
              /\ (s \ {v}) \ {x} \in SUBSET S
          BY <1>1, <2>1, <3>2, <3>4, FS_RemoveElement
        <4>2. Correct(s \ {x}) /\ Correct(s \ {v})
          BY <1>3, <3>2, <4>1
        <4> DEFINE most == Sums(f)[(s \ {v}) \ {x}]
        <4>3. Sums(f)[s \ {x}] = f[v] + most
          BY <4>1, <4>2
        <4>4. Sums(f)[s \ {v}] = f[x] + most
          BY <4>1, <4>2
        <4>5. f[x] \in Nat /\ f[v] \in Nat /\ most \in Nat
          BY <1>1, <3>2, <4>1
        <4> HIDE DEF most
        <4> QED
          BY <3>3, <4>3, <4>4, <4>5
      <3> QED
        BY <3>3, <3>4
    <2> HIDE DEF Correct
    <2> QED
      BY <2>1
  <1>4. Nat \subseteq T
    <2> HIDE DEF T
    <2> QED
      BY <1>2, <1>3, LeastCounterexample
  <1> QED
    BY <1>1, <1>4

\* A sum whose terms that are not zero are terms of another, or less, is not more.
LEMMA SumMonotone ==
    ASSUME NEW S, IsFiniteSet(S), NEW f \in [S -> Nat],
           NEW R, IsFiniteSet(R), NEW g \in [R -> Nat],
           \A x \in S : f[x] # 0 => x \in R /\ f[x] <= g[x]
    PROVE  SumFunction(f) <= SumFunction(g)
  <1> DEFINE Correct(s) ==
                \A r \in SUBSET R :
                    (\A x \in s : f[x] # 0 => x \in r) => Sums(f)[s] <= Sums(g)[r]
             T == {n \in Nat : \A s \in SUBSET S : Cardinality(s) = n => Correct(s)}
  <1>1. \A s \in SUBSET S : IsFiniteSet(s) /\ Cardinality(s) \in Nat /\ Sums(f)[s] \in Nat
    BY FS_Subset, FS_CardinalityType, PartialSumType
  <1>0. \A r \in SUBSET R : /\ Sums(g)[r] \in Nat
                             /\ \A v \in r : Sums(g)[r] = g[v] + Sums(g)[r \ {v}]
    BY PartialSumType, SumSplit
  <1>2. 0 \in T
    <2>1. ASSUME NEW s \in SUBSET S, Cardinality(s) = 0 PROVE Correct(s)
      <3>1. Sums(f)[s] = 0
        BY <1>1, <2>1, FS_EmptySet, SumEquations
      <3> QED
        BY <1>0, <3>1
    <2> HIDE DEF Correct
    <2> QED
      BY <2>1
  <1>3. ASSUME NEW n \in Nat, n \in T PROVE n + 1 \in T
    <2>1. ASSUME NEW s \in SUBSET S, Cardinality(s) = n + 1 PROVE Correct(s)
      <3>1. s # {}
        BY <2>1, FS_EmptySet
      <3> SUFFICES ASSUME NEW r \in SUBSET R, \A x \in s : f[x] # 0 => x \in r
                   PROVE  Sums(f)[s] <= Sums(g)[r]
        OBVIOUS
      <3> DEFINE x == CHOOSE x \in s : TRUE
      <3>2. x \in s /\ s \ {x} \in SUBSET S /\ Cardinality(s \ {x}) = n
        BY <1>1, <2>1, <3>1, SmallerSet
      <3>3. Sums(f)[s] = f[x] + Sums(f)[s \ {x}]
        BY <3>1, SumEquations
      <3>4. Correct(s \ {x})
        BY <1>3, <3>2
      <3> HIDE DEF x
      <3>5. f[x] \in Nat /\ Sums(f)[s \ {x}] \in Nat
        BY <1>1, <3>2
      <3>6. CASE f[x] = 0
        <4>1. Sums(f)[s \ {x}] <= Sums(g)[r]
          BY <3>4
        <4> QED
          BY <3>3, <3>5, <3>6, <4>1
      <3>7. CASE f[x] # 0
        <4>1. x \in r /\ x \in R /\ f[x] <= g[x] /\ r \ {x} \in SUBSET R
          BY <3>2, <3>7
        <4>2. Sums(g)[r] = g[x] + Sums(g)[r \ {x}]
          BY <1>0, <4>1
        <4>3. Sums(f)[s \ {x}] <= Sums(g)[r \ {x}]
          BY <3>4, <4>1
        <4>4. g[x] \in Nat /\ Sums(g)[r \ {x}] \in Nat
          BY <1>0, <4>1
        <4> QED
          BY <3>3, <3>5, <4>1, <4>2, <4>3, <4>4
      <3> QED
        BY <3>6, <3>7
    <2> HIDE DEF Correct
    <2> QED
      BY <2>1
  <1>4. Nat \subseteq T
    <2> HIDE DEF T
    <2> QED
      BY <1>2, <1>3, LeastCounterexample
  <1>5. Correct(S)
    BY <1>1, <1>4
  <1>6. Sums(f)[S] <= Sums(g)[R]
    BY <1>5
  <1> QED
    BY <1>6, SumIsRecursive

-----------------------------------------------------------------------------
(***************************************************************************)
(* What a message books                                                    *)
(***************************************************************************)

\* The total debt of d changes by `debt` shares, its total collateral by
\* `collateral` shares or by more, and no other market changes.
TotalsMove(d, debt, collateral) ==
    /\ d \in DOMAIN markets
    /\ markets'[d].debt_total_scaled = markets[d].debt_total_scaled + debt
    /\ markets'[d].collateral_total_scaled
         >= markets[d].collateral_total_scaled + collateral
    /\ \A e \in DOMAIN markets \ {d} : markets'[e] = markets[e]

\* Accrual leaves the debt total alone and only adds to the collateral total.
LEMMA AccruedTotals ==
    ASSUME Sound, NEW d \in DOMAIN markets
    PROVE  /\ Accrued(d) \in Market
           /\ Accrued(d).debt_total_scaled = markets[d].debt_total_scaled
           /\ Accrued(d).collateral_total_scaled >= markets[d].collateral_total_scaled
           /\ markets[d].debt_total_scaled \in Nat
           /\ markets[d].collateral_total_scaled \in Nat
  <1> DEFINE s == ScaledLiquidity(AccruedProtocolRewards(markets[d], now), markets[d], now)
  <1>1. SoundMarket(markets[d]) /\ markets[d] \in Market /\ now \in Nat
    BY DEF Sound, SoundMarket, TypeOK
  <1>2. s \in Nat
    BY <1>1, RewardsType, ConversionTypes
  <1> HIDE DEF s
  <1>3. Accrued(d).collateral_total_scaled = markets[d].collateral_total_scaled + s
    BY <1>1 DEF Accrued, ApplyAccumulatedInterests, Market, s
  <1>4. markets[d].debt_total_scaled \in Nat /\ markets[d].collateral_total_scaled \in Nat
    BY <1>1 DEF Market, Uint
  <1> QED
    BY <1>2, <1>3, <1>4, AccruedMarket DEF Accrued

\* Saving a market computes its rates and leaves its totals alone.
LEMMA SavedTotals ==
    ASSUME NEW d \in DOMAIN markets, NEW x, SaveMarket(d, x),
           {"debt_total_scaled", "collateral_total_scaled"} \subseteq DOMAIN x
    PROVE  /\ markets'[d].debt_total_scaled = x.debt_total_scaled
           /\ markets'[d].collateral_total_scaled = x.collateral_total_scaled
           /\ \A e \in DOMAIN markets \ {d} : markets'[e] = markets[e]
  <1> DEFINE r == UpdateInterestRates(x, now)
  <1>1. markets' = Save(markets, d, r)
    BY DEF SaveMarket
  <1>2. /\ r.debt_total_scaled = x.debt_total_scaled
        /\ r.collateral_total_scaled = x.collateral_total_scaled
    BY DEF UpdateInterestRates
  <1> HIDE DEF r
  <1> QED
    BY <1>1, <1>2 DEF Save

LEMMA SavedMoves ==
    ASSUME Sound, NEW d \in DOMAIN markets, NEW s \in Nat
    PROVE  /\ SaveMarket(d, IncreaseTotalDebt(Accrued(d), s)) => TotalsMove(d, s, 0)
           /\ SaveMarket(d, DecreaseTotalDebt(Accrued(d), s)) => TotalsMove(d, -s, 0)
           /\ SaveMarket(d, IncreaseTotalCollateral(Accrued(d), s)) => TotalsMove(d, 0, s)
           /\ SaveMarket(d, DecreaseTotalCollateral(Accrued(d), s)) => TotalsMove(d, 0, -s)
  <1> DEFINE m == Accrued(d)
  <1>1. /\ m \in Market
        /\ m.debt_total_scaled = markets[d].debt_total_scaled
        /\ m.collateral_total_scaled >= markets[d].collateral_total_scaled
        /\ markets[d].debt_total_scaled \in Nat
        /\ markets[d].collateral_total_scaled \in Nat
    BY AccruedTotals
  <1>2. m.debt_total_scaled \in Nat /\ m.collateral_total_scaled \in Nat
    BY <1>1 DEF Market, Uint
  <1> HIDE DEF m
  <1>3. ASSUME NEW x, SaveMarket(d, x), NEW debt \in Int, NEW collateral \in Int,
               {"debt_total_scaled", "collateral_total_scaled"} \subseteq DOMAIN x,
               x.debt_total_scaled = m.debt_total_scaled + debt,
               x.collateral_total_scaled = m.collateral_total_scaled + collateral
        PROVE  TotalsMove(d, debt, collateral)
    BY <1>1, <1>2, <1>3, SavedTotals DEF TotalsMove
  <1>4. /\ DOMAIN m = DOMAIN IncreaseTotalDebt(m, s)
        /\ DOMAIN m = DOMAIN DecreaseTotalDebt(m, s)
        /\ DOMAIN m = DOMAIN IncreaseTotalCollateral(m, s)
        /\ DOMAIN m = DOMAIN DecreaseTotalCollateral(m, s)
        /\ {"debt_total_scaled", "collateral_total_scaled"} \subseteq DOMAIN m
    BY <1>1 DEF Market, IncreaseTotalDebt, DecreaseTotalDebt,
                IncreaseTotalCollateral, DecreaseTotalCollateral
  <1>5. /\ IncreaseTotalDebt(m, s).debt_total_scaled = m.debt_total_scaled + s
        /\ IncreaseTotalDebt(m, s).collateral_total_scaled = m.collateral_total_scaled + 0
        /\ DecreaseTotalDebt(m, s).debt_total_scaled = m.debt_total_scaled + -s
        /\ DecreaseTotalDebt(m, s).collateral_total_scaled = m.collateral_total_scaled + 0
        /\ IncreaseTotalCollateral(m, s).debt_total_scaled = m.debt_total_scaled + 0
        /\ IncreaseTotalCollateral(m, s).collateral_total_scaled
             = m.collateral_total_scaled + s
        /\ DecreaseTotalCollateral(m, s).debt_total_scaled = m.debt_total_scaled + 0
        /\ DecreaseTotalCollateral(m, s).collateral_total_scaled
             = m.collateral_total_scaled + -s
    BY <1>1, <1>2 DEF Market, IncreaseTotalDebt, DecreaseTotalDebt,
                      IncreaseTotalCollateral, DecreaseTotalCollateral
  <1>6. 0 \in Int /\ s \in Int /\ -s \in Int
    OBVIOUS
  <1>7. ASSUME SaveMarket(d, IncreaseTotalDebt(m, s)) PROVE TotalsMove(d, s, 0)
    BY <1>3, <1>4, <1>5, <1>6, <1>7
  <1>8. ASSUME SaveMarket(d, DecreaseTotalDebt(m, s)) PROVE TotalsMove(d, -s, 0)
    BY <1>3, <1>4, <1>5, <1>6, <1>8
  <1>9. ASSUME SaveMarket(d, IncreaseTotalCollateral(m, s)) PROVE TotalsMove(d, 0, s)
    BY <1>3, <1>4, <1>5, <1>6, <1>9
  <1>10. ASSUME SaveMarket(d, DecreaseTotalCollateral(m, s)) PROVE TotalsMove(d, 0, -s)
    BY <1>3, <1>4, <1>5, <1>6, <1>10
  <1> QED
    BY <1>7, <1>8, <1>9, <1>10 DEF m

\* An update of a market's parameters moves no total, but what accrues.
LEMMA UpdateAssetTotals ==
    ASSUME Sound, NEW sender \in Admin, NEW d \in Denom, NEW input \in UpdateInput,
           UpdateAsset(sender, d, input)
    PROVE  TotalsMove(d, 0, 0)
  <1>1. d \in DOMAIN markets /\ (UpdateAssetByOwner(d, input)
                                 \/ UpdateAssetByEmergencyOwner(d, input))
    BY DEF UpdateAsset
  <1>2. /\ Accrued(d) \in Market
        /\ Accrued(d).debt_total_scaled = markets[d].debt_total_scaled
        /\ Accrued(d).collateral_total_scaled >= markets[d].collateral_total_scaled
        /\ markets[d].debt_total_scaled \in Nat
        /\ markets[d].collateral_total_scaled \in Nat
    BY <1>1, AccruedTotals
  <1>3. markets[d] \in Market
    BY <1>1 DEF Sound, SoundMarket
  <1>4. CASE UpdateAssetByOwner(d, input) /\ TouchesRates(markets[d], input)
    <2> DEFINE m == Accrued(d)
               x == WithParams(m, input)
    <2>1. SaveMarket(d, x)
      BY <1>4 DEF UpdateAssetByOwner, SaveMarket, Accrued
    <2> HIDE DEF m
    <2>2. /\ x \in Market
          /\ x.debt_total_scaled = m.debt_total_scaled
          /\ x.collateral_total_scaled = m.collateral_total_scaled
      BY <1>2, WithParamsType DEF m
    <2> HIDE DEF x
    <2>3. {"debt_total_scaled", "collateral_total_scaled"} \subseteq DOMAIN x
      BY <2>2 DEF Market
    <2> QED
      BY <1>1, <1>2, <2>1, <2>2, <2>3, SavedTotals DEF TotalsMove, m
  <1>5. ASSUME NEW x, markets' = Save(markets, d, x),
               x.debt_total_scaled = markets[d].debt_total_scaled,
               x.collateral_total_scaled = markets[d].collateral_total_scaled
        PROVE  TotalsMove(d, 0, 0)
    BY <1>1, <1>2, <1>5 DEF TotalsMove, Save
  <1>6. CASE UpdateAssetByOwner(d, input) /\ ~TouchesRates(markets[d], input)
    <2> DEFINE x == WithParams(markets[d], input)
    <2>1. markets' = Save(markets, d, x)
      BY <1>6 DEF UpdateAssetByOwner
    <2>2. /\ x.debt_total_scaled = markets[d].debt_total_scaled
          /\ x.collateral_total_scaled = markets[d].collateral_total_scaled
      BY <1>3, WithParamsType
    <2> QED
      BY <1>5, <2>1, <2>2
  <1>7. CASE UpdateAssetByEmergencyOwner(d, input)
    <2> DEFINE x == [markets[d] EXCEPT !.borrow_enabled = FALSE]
    <2>1. IsMap(markets, Denom, Market)
      BY DEF Sound, TypeOK
    <2>2. markets' = Save(markets, d, x)
      BY <1>1, <1>7, <2>1 DEF UpdateAssetByEmergencyOwner, Save, IsMap
    <2>3. /\ x.debt_total_scaled = markets[d].debt_total_scaled
          /\ x.collateral_total_scaled = markets[d].collateral_total_scaled
      BY <1>3 DEF Market
    <2> QED
      BY <1>5, <2>2, <2>3
  <1> QED
    BY <1>1, <1>4, <1>6, <1>7

\* Debts are entered for one user at a time.
LEMMA IncreaseDebtEffect ==
    ASSUME Sound, NEW v \in User, NEW e \in Denom, NEW s \in Nat, NEW b,
           debts' = IncreaseDebt(v, e, s, b), NEW u \in User, NEW d \in Denom
    PROVE  DebtScaled(u, d)'
             = DebtScaled(u, d) + IF <<u, d>> = <<v, e>> THEN s ELSE 0
  <1>1. DebtScaled(u, d) \in Nat
    BY PositionTypes DEF Sound
  <1>2. CASE <<u, d>> = <<v, e>>
    BY <1>1, <1>2 DEF IncreaseDebt, Save, DebtScaled, HasDebt
  <1>3. CASE <<u, d>> # <<v, e>>
    <2>1. DebtScaled(u, d)' = DebtScaled(u, d)
      BY <1>3 DEF IncreaseDebt, Save, DebtScaled, HasDebt
    <2> QED
      BY <1>1, <1>3, <2>1
  <1> QED
    BY <1>2, <1>3

LEMMA DecreaseDebtEffect ==
    ASSUME Sound, NEW v \in User, NEW e \in Denom, NEW s \in Nat, HasDebt(v, e),
           debts' = DecreaseDebt(v, e, s), NEW u \in User, NEW d \in Denom
    PROVE  DebtScaled(u, d)'
             = DebtScaled(u, d) + IF <<u, d>> = <<v, e>> THEN -s ELSE 0
  <1>1. DebtScaled(u, d) \in Nat
    BY PositionTypes DEF Sound
  <1>2. debts[<<v, e>>] \in Debt
    BY DEF Sound, TypeOK, IsMap, HasDebt
  <1>3. CASE <<u, d>> = <<v, e>>
    <2>1. DebtScaled(u, d) = debts[<<v, e>>].amount_scaled
      BY <1>3 DEF DebtScaled, HasDebt
    <2>2. CASE debts[<<v, e>>].amount_scaled = s
      <3>1. DebtScaled(u, d)' = 0
        BY <1>3, <2>2 DEF DecreaseDebt, Remove, DebtScaled, HasDebt
      <3> QED
        BY <1>1, <1>3, <2>1, <2>2, <3>1
    <2>3. CASE debts[<<v, e>>].amount_scaled # s
      <3>1. DebtScaled(u, d)' = debts[<<v, e>>].amount_scaled - s
        BY <1>2, <1>3, <2>3 DEF DecreaseDebt, Save, DebtScaled, HasDebt, Debt
      <3> QED
        BY <1>1, <1>3, <2>1, <3>1
    <2> QED
      BY <2>2, <2>3
  <1>4. CASE <<u, d>> # <<v, e>>
    <2>1. DebtScaled(u, d)' = DebtScaled(u, d)
      BY <1>4 DEF DecreaseDebt, Remove, Save, DebtScaled, HasDebt
    <2> QED
      BY <1>1, <1>4, <2>1
  <1> QED
    BY <1>3, <1>4

\* In the step, the debt shares of v in e change by `debt`, and nothing else
\* that a debt total is compared with: no other debt, and no market but that
\* of e, whose total changes by as much.
DebtBooked(v, e, debt) ==
    /\ v \in User /\ debt \in Int
    /\ \A u \in User, d \in Denom :
        DebtScaled(u, d)'
          = DebtScaled(u, d) + IF <<u, d>> = <<v, e>> THEN debt ELSE 0
    /\ e \in DOMAIN markets
    /\ markets'[e].debt_total_scaled = markets[e].debt_total_scaled + debt
    /\ \A d \in DOMAIN markets \ {e} : markets'[d] = markets[d]

\* No debt changes, and no debt total.
DebtsKept ==
    /\ \A u \in User, d \in Denom : DebtScaled(u, d)' = DebtScaled(u, d)
    /\ \A d \in DOMAIN markets :
        markets'[d].debt_total_scaled = markets[d].debt_total_scaled

LEMMA DebtsStep ==
    ASSUME Sound, [Next]_vars
    PROVE  DebtsKept \/ \E v, e, debt : DebtBooked(v, e, debt)
  <1> DEFINE Booked == \E v, e, debt : DebtBooked(v, e, debt)
  <1>1. ASSUME NEW d, NEW collateral, TotalsMove(d, 0, collateral), UNCHANGED debts
        PROVE  DebtsKept
    <2>1. \A e \in DOMAIN markets : markets[e].debt_total_scaled \in Nat
      BY AccruedTotals
    <2> QED
      BY <1>1, <2>1 DEF TotalsMove, DebtsKept, DebtScaled, HasDebt
  <1>2. ASSUME NEW v \in User, NEW e \in Denom, NEW amount \in Amount,
               Deposit(v, e, amount)
        PROVE  DebtsKept
    BY <1>1, <1>2, DepositSettles, SavedMoves DEF Deposit, MarketSettled
  <1>3. ASSUME NEW v \in User, NEW e \in Denom, NEW request \in Amount \cup {None},
               Withdraw(v, e, request)
        PROVE  DebtsKept
    BY <1>1, <1>3, WithdrawSettles, SavedMoves DEF Withdraw, MarketSettled
  <1>4. ASSUME NEW v \in User, NEW e \in Denom, NEW amount \in Amount,
               Borrow(v, e, amount)
        PROVE  Booked
    <2>1. PICK s \in Nat : /\ debts' = IncreaseDebt(v, e, s, Limit(v, e) # 0)
                           /\ SaveMarket(e, IncreaseTotalDebt(Accrued(e), s))
      BY <1>4, BorrowSettles
    <2>2. e \in DOMAIN markets
      BY <1>4, BorrowSettles DEF MarketSettled
    <2>3. TotalsMove(e, s, 0)
      BY <2>1, <2>2, SavedMoves
    <2>4. DebtBooked(v, e, s)
      BY <2>1, <2>2, <2>3, IncreaseDebtEffect DEF TotalsMove, DebtBooked
    <2> QED
      BY <2>4
  <1>5. ASSUME NEW v \in User, NEW e \in Denom, NEW s \in Nat, HasDebt(v, e),
               e \in DOMAIN markets, debts' = DecreaseDebt(v, e, s),
               SaveMarket(e, DecreaseTotalDebt(Accrued(e), s))
        PROVE  Booked
    <2>1. TotalsMove(e, -s, 0)
      BY <1>5, SavedMoves
    <2>2. -s \in Int
      OBVIOUS
    <2>3. DebtBooked(v, e, -s)
      BY <1>5, <2>1, <2>2, DecreaseDebtEffect DEF TotalsMove, DebtBooked
    <2> QED
      BY <2>3
  <1> SUFFICES DebtsKept \/ Booked
    OBVIOUS
  <1> HIDE DEF Booked
  <1>6. ASSUME NEW v \in User, NEW e \in Denom, NEW amount \in Amount,
               NEW on_behalf_of \in BOOLEAN, Repay(v, e, amount, on_behalf_of)
        PROVE  Booked
    BY <1>5, <1>6, RepaySettles DEF MarketSettled
  <1>7. ASSUME NEW v \in User, NEW e \in Denom, NEW r \in User, NEW c \in Denom,
               NEW sent \in Amount, Liquidate(v, r, c, e, sent)
        PROVE  Booked
    BY <1>5, <1>7, LiquidateSettles DEF MarketSettled
  <1>8. ASSUME NEW sender \in Admin, NEW v \in User, NEW e \in Denom,
               NEW new_limit \in LoanLimit,
               UpdateUncollateralizedLoanLimit(sender, v, e, new_limit)
        PROVE  DebtsKept
    <2>1. /\ debts' = Save(debts, <<v, e>>, [amount_scaled |-> DebtScaled(v, e),
                                            uncollateralized |-> new_limit # 0])
          /\ markets' = markets
      BY <1>8 DEF UpdateUncollateralizedLoanLimit
    <2> QED
      BY <2>1 DEF DebtsKept, DebtScaled, HasDebt, Save
  <1>9. ASSUME UNCHANGED debts, NEW d, MarketOpened(d)
        PROVE  DebtsKept
    BY <1>9 DEF MarketOpened, Save, DebtsKept,
                DebtScaled, HasDebt
  <1>10. ASSUME UNCHANGED <<debts, markets>> PROVE DebtsKept
    BY <1>10 DEF DebtsKept, DebtScaled, HasDebt
  <1>11. CASE OwnerStep
    <2>1. ASSUME NEW sender \in Admin, NEW d \in Denom, NEW input \in AssetInput,
                 InitAsset(sender, d, input)
          PROVE  DebtsKept
      BY <1>9, <2>1, InitAssetOpens DEF InitAsset
    <2>2. ASSUME NEW sender \in Admin, NEW d \in Denom, NEW input \in UpdateInput,
                 UpdateAsset(sender, d, input)
          PROVE  DebtsKept
      BY <1>1, <2>2, UpdateAssetTotals DEF UpdateAsset
    <2> QED
      BY <1>8, <1>10, <1>11, <2>1, <2>2 DEF OwnerStep, UpdateOwner, UpdateConfig
  <1>12. CASE UserStep
    <2>1. ASSUME NEW u \in User, NEW d \in Denom, NEW enable \in Status,
                 UpdateAssetCollateralStatus(u, d, enable)
          PROVE  DebtsKept
      BY <1>10, <2>1 DEF UpdateAssetCollateralStatus
    <2> QED
      BY <1>2, <1>3, <1>4, <1>6, <1>7, <1>12, <2>1 DEF UserStep
  <1>13. CASE EnvironmentStep \/ UNCHANGED vars
    BY <1>10, <1>13 DEF EnvironmentStep, Tick, OracleMoves, vars
  <1> QED
    BY <1>11, <1>12, <1>13 DEF Next

LEMMA NewMarketsEmpty ==
    ASSUME Sound, [Next]_vars, NEW d \in DOMAIN markets', d \notin DOMAIN markets
    PROVE  /\ markets'[d].debt_total_scaled = 0
           /\ markets'[d].collateral_total_scaled = 0
  <1>1. PICK e \in Denom : MarketChanged(e)
    BY MarketsStep
  <1>2. MarketOpened(d)
    BY <1>1 DEF MarketChanged, MarketSettled, MarketReparametrised, MarketOpened, Save
  <1> QED
    BY <1>2 DEF MarketOpened, Untouched, Save

-----------------------------------------------------------------------------
(***************************************************************************)
(* The totals                                                              *)
(***************************************************************************)

\* The shares of all users in d, as the function that is summed over.
DebtsIn(d) == [u \in User |-> DebtScaled(u, d)]

CollateralsIn(d) == [u \in User |-> CollateralScaled(u, d)]

LEMMA SharesType ==
    ASSUME TypeOK, NEW d \in Denom
    PROVE  DebtsIn(d) \in [User -> Nat] /\ CollateralsIn(d) \in [User -> Nat]
  BY PositionTypes DEF DebtsIn, CollateralsIn

LEMMA SharesTypePrimed ==
    ASSUME Sound', NEW d \in Denom
    PROVE  DebtsIn(d)' \in [User -> Nat] /\ CollateralsIn(d)' \in [User -> Nat]
  <1>1. IsMap(debts', Position, Debt) /\ IsMap(collaterals', Position, Collateral)
    BY DEF Sound, TypeOK
  <1>2. ASSUME NEW u \in User
        PROVE  DebtScaled(u, d)' \in Nat /\ CollateralScaled(u, d)' \in Nat
    BY <1>1 DEF DebtScaled, CollateralScaled, HasDebt, HasCollateral, IsMap,
                Debt, Collateral, Uint, Position
  <1> QED
    BY <1>2 DEF DebtsIn, CollateralsIn

\* However many users borrow, repay and are liquidated, and however their
\* shares are rounded, the debt total of a market stays the sum of their debts.
THEOREM DebtSharesAlwaysConserved == Spec => []DebtSharesConserved
  <1> DEFINE Conserved == \A d \in DOMAIN markets :
                            SumFunction(DebtsIn(d)) = markets[d].debt_total_scaled
  <1>1. DebtSharesConserved <=> Conserved
    BY DEF DebtSharesConserved, TotalOf, DebtsIn
  <1>2. Init => Conserved
    BY DEF Init, EmptyMap
  <1>3. ASSUME Sound, Sound', SharesHaveMarkets, Conserved, [Next]_vars PROVE Conserved'
    <2> SUFFICES ASSUME NEW d \in DOMAIN markets'
                 PROVE  SumFunction(DebtsIn(d)') = markets'[d].debt_total_scaled
      OBVIOUS
    <2>1. d \in Denom /\ TypeOK
      BY <1>3 DEF Sound, TypeOK, IsMap
    <2>2. DebtsIn(d) \in [User -> Nat] /\ DebtsIn(d)' \in [User -> Nat]
      BY <1>3, <2>1, SharesType, SharesTypePrimed
    <2>3. CASE d \notin DOMAIN markets
      <3>1. \A u \in User : DebtScaled(u, d)' = 0
        BY <1>3, <2>1, <2>3, DebtSharesStep DEF SharesHaveMarkets, DebtMoved
      <3>2. \A u \in User : DebtsIn(d)'[u] = 0
        BY <3>1 DEF DebtsIn
      <3>3. SumFunction(DebtsIn(d)') = 0
        BY <2>2, <3>2, FiniteAssumption, SumType
      <3> QED
        BY <1>3, <2>3, <3>3, NewMarketsEmpty
    <2>4. CASE d \in DOMAIN markets
      <3>1. SumFunction(DebtsIn(d)) = markets[d].debt_total_scaled
        BY <1>3, <2>4
      <3>2. CASE DebtsKept
        <4>1. DebtsIn(d)' = DebtsIn(d)
          BY <2>1, <3>2 DEF DebtsKept, DebtsIn
        <4> QED
          BY <2>4, <3>1, <3>2, <4>1 DEF DebtsKept
      <3>3. ASSUME NEW v, NEW e, NEW debt, DebtBooked(v, e, debt)
            PROVE  SumFunction(DebtsIn(d)') = markets'[d].debt_total_scaled
        <4>1. CASE d # e
          <5>1. DebtsIn(d)' = DebtsIn(d)
            <6>1. \A u \in User : DebtScaled(u, d) \in Nat
              BY <2>1, PositionTypes
            <6>2. \A u \in User : DebtScaled(u, d)' = DebtScaled(u, d)
              BY <2>1, <3>3, <4>1, <6>1 DEF DebtBooked
            <6> QED
              BY <6>2 DEF DebtsIn
          <5> QED
            BY <2>4, <3>1, <3>3, <4>1, <5>1 DEF DebtBooked
        <4>2. CASE d = e
          <5>1. \A u \in User : DebtScaled(u, d) \in Nat
            BY <2>1, PositionTypes
          <5>2. /\ v \in User
                /\ DebtsIn(d)'[v] = DebtsIn(d)[v] + debt
                /\ \A u \in User \ {v} : DebtsIn(d)'[u] = DebtsIn(d)[u]
            BY <2>1, <3>3, <4>2, <5>1 DEF DebtBooked, DebtsIn
          <5>3. SumFunction(DebtsIn(d)') - DebtsIn(d)'[v]
                  = SumFunction(DebtsIn(d)) - DebtsIn(d)[v]
            BY <2>2, <5>2, FiniteAssumption, SumChange
          <5>4. /\ SumFunction(DebtsIn(d)') \in Nat /\ SumFunction(DebtsIn(d)) \in Nat
                /\ DebtsIn(d)[v] \in Nat /\ debt \in Int
            BY <2>2, <3>3, <5>2, FiniteAssumption, SumType DEF DebtBooked
          <5>5. markets'[d].debt_total_scaled = markets[d].debt_total_scaled + debt
            BY <3>3, <4>2 DEF DebtBooked
          <5> QED
            BY <3>1, <5>2, <5>3, <5>4, <5>5
        <4> QED
          BY <4>1, <4>2
      <3> QED
        BY <1>3, <3>2, <3>3, DebtsStep
    <2> QED
      BY <2>3, <2>4
  <1> HIDE DEF Conserved
  <1>4. Spec => []Conserved
    BY <1>2, <1>3, SoundAlways, SharesAlwaysHaveMarkets, PTL DEF Spec
  <1> QED
    BY <1>1, <1>4, PTL
-----------------------------------------------------------------------------

\* No total of collateral gets smaller.
CollateralTotalsGrow ==
    \A d \in DOMAIN markets :
        markets'[d].collateral_total_scaled >= markets[d].collateral_total_scaled

CollateralsKept ==
    /\ \A u \in User, d \in Denom : CollateralScaled(u, d)' = CollateralScaled(u, d)
    /\ CollateralTotalsGrow

\* In the step the collateral shares of v in e change by `s`, the total of e by
\* as many or more, and nothing else does.
CollateralBooked(v, e, s) ==
    /\ v \in User /\ s \in Int
    /\ \A u \in User, d \in Denom :
        CollateralScaled(u, d)'
          = CollateralScaled(u, d) + IF <<u, d>> = <<v, e>> THEN s ELSE 0
    /\ e \in DOMAIN markets
    /\ markets'[e].collateral_total_scaled >= markets[e].collateral_total_scaled + s
    /\ \A d \in DOMAIN markets \ {e} : markets'[d] = markets[d]

\* In the step v hands `s` collateral shares in c to r, who may be v.
CollateralPassed(v, r, c, s) ==
    /\ v \in User /\ r \in User /\ s \in Nat /\ c \in Denom
    /\ s <= CollateralScaled(v, c)
    /\ \A u \in User, d \in Denom :
        CollateralScaled(u, d)'
          = (CollateralScaled(u, d) - IF <<u, d>> = <<v, c>> THEN s ELSE 0)
              + IF <<u, d>> = <<r, c>> THEN s ELSE 0
    /\ CollateralTotalsGrow

LEMMA CollateralsStep ==
    ASSUME Sound, [Next]_vars
    PROVE  \/ CollateralsKept
           \/ \E v, e, s : CollateralBooked(v, e, s)
           \/ \E v, r, c, s : CollateralPassed(v, r, c, s)
  <1> DEFINE Booked == \E v, e, s : CollateralBooked(v, e, s)
             Passed == \E v, r, c, s : CollateralPassed(v, r, c, s)
  <1> SUFFICES CollateralsKept \/ Booked \/ Passed
    OBVIOUS
  <1>1. /\ IsMap(collaterals, Position, Collateral)
        /\ \A u, d : CollateralScaled(u, d) = AmountIn(collaterals, u, d)
        /\ \A u, d : CollateralScaled(u, d)' = AmountIn(collaterals', u, d)
        /\ \A u \in User, d \in Denom : CollateralScaled(u, d) \in Nat
    BY PositionTypes DEF CollateralScaled, HasCollateral, AmountIn, Sound, TypeOK
  <1>2. \A e \in DOMAIN markets :
            markets[e].collateral_total_scaled \in Nat /\ e \in Denom
    BY AccruedTotals DEF Sound, TypeOK, IsMap
  <1>3. ASSUME NEW d, NEW debt, TotalsMove(d, debt, 0) PROVE CollateralTotalsGrow
    BY <1>2, <1>3 DEF TotalsMove, CollateralTotalsGrow
  <1>4. ASSUME NEW v \in User, NEW e \in Denom, NEW amount \in Amount,
               Deposit(v, e, amount)
        PROVE  Booked
    <2>1. PICK s \in Nat : /\ collaterals' = IncreaseCollateral(collaterals, v, e, s)
                           /\ SaveMarket(e, IncreaseTotalCollateral(Accrued(e), s))
      BY <1>4, DepositSettles
    <2>2. e \in DOMAIN markets
      BY <1>4, DepositSettles DEF MarketSettled
    <2>3. TotalsMove(e, 0, s)
      BY <2>1, <2>2, SavedMoves
    <2>4. ASSUME NEW u \in User, NEW d \in Denom
          PROVE  CollateralScaled(u, d)'
                   = CollateralScaled(u, d) + IF <<u, d>> = <<v, e>> THEN s ELSE 0
      BY <1>1, <2>1, IncreaseCollateralEffect
    <2>5. CollateralBooked(v, e, s)
      BY <2>2, <2>3, <2>4 DEF TotalsMove, CollateralBooked
    <2> QED
      BY <2>5
  <1>5. ASSUME NEW v \in User, NEW e \in Denom, NEW request \in Amount \cup {None},
               Withdraw(v, e, request)
        PROVE  Booked
    <2>1. PICK s \in Nat : /\ collaterals' = DecreaseCollateral(collaterals, v, e, s)
                           /\ SaveMarket(e, DecreaseTotalCollateral(Accrued(e), s))
      BY <1>5, WithdrawSettles
    <2>2. e \in DOMAIN markets /\ <<v, e>> \in DOMAIN collaterals
      BY <1>5, WithdrawSettles DEF MarketSettled, HasCollateral
    <2>3. TotalsMove(e, 0, -s)
      BY <2>1, <2>2, SavedMoves
    <2>4. ASSUME NEW u \in User, NEW d \in Denom
          PROVE  CollateralScaled(u, d)'
                   = CollateralScaled(u, d) + IF <<u, d>> = <<v, e>> THEN -s ELSE 0
      <3>1. CollateralScaled(u, d)'
              = CollateralScaled(u, d) - IF <<u, d>> = <<v, e>> THEN s ELSE 0
        BY <1>1, <2>1, <2>2, DecreaseCollateralEffect
      <3> QED
        BY <1>1, <3>1
    <2>5. -s \in Int
      OBVIOUS
    <2>6. CollateralBooked(v, e, -s)
      BY <2>2, <2>3, <2>4, <2>5 DEF TotalsMove, CollateralBooked
    <2> QED
      BY <2>6
  <1>6. ASSUME NEW v \in User, NEW e \in Denom, NEW r \in User, NEW c \in Denom,
               NEW sent \in Amount, Liquidate(v, r, c, e, sent)
        PROVE  Passed
    <2>1. PICK s \in Nat :
            /\ s <= CollateralScaled(v, c)
            /\ collaterals' =
                 IncreaseCollateral(DecreaseCollateral(collaterals, v, c, s), r, c, s)
      BY <1>6, LiquidateSettles
    <2> DEFINE mid == DecreaseCollateral(collaterals, v, c, s)
    <2>2. <<v, c>> \in DOMAIN collaterals /\ e \in DOMAIN markets
      BY <1>6, LiquidateSettles DEF Liquidate, HasCollateral, MarketSettled
    <2>3. IsMap(mid, Position, Collateral)
      BY <1>1, <2>1, <2>2, DecreaseCollateralType DEF CollateralScaled, HasCollateral
    <2>4. \A u \in User, d \in Denom :
            AmountIn(mid, u, d)
              = AmountIn(collaterals, u, d) - IF <<u, d>> = <<v, c>> THEN s ELSE 0
      BY <1>1, <2>2, DecreaseCollateralEffect
    <2>5. \A u \in User, d \in Denom :
            AmountIn(collaterals', u, d)
              = AmountIn(mid, u, d) + IF <<u, d>> = <<r, c>> THEN s ELSE 0
      <3> HIDE DEF mid
      <3> QED
        BY <2>1, <2>3, IncreaseCollateralEffect DEF mid
    <2> HIDE DEF mid
    <2>6. CollateralTotalsGrow
      BY <1>3, <1>6, <2>2, LiquidateSettles, SavedMoves
    <2>7. CollateralPassed(v, r, c, s)
      BY <1>1, <2>1, <2>4, <2>5, <2>6 DEF CollateralPassed
    <2> QED
      BY <2>7
  <1>7. ASSUME \A u \in User, d \in Denom :
                    AmountIn(collaterals', u, d) = AmountIn(collaterals, u, d),
               \/ UNCHANGED markets
               \/ \E d, debt : TotalsMove(d, debt, 0)
               \/ \E d : MarketOpened(d)
        PROVE  CollateralsKept
    <2>1. ASSUME \A d \in DOMAIN markets : markets'[d] = markets[d]
          PROVE  CollateralTotalsGrow
      <3> SUFFICES ASSUME NEW d \in DOMAIN markets
                   PROVE  markets'[d].collateral_total_scaled
                            >= markets[d].collateral_total_scaled
        BY DEF CollateralTotalsGrow
      <3> QED
        BY <1>2, <2>1
    <2>2. ASSUME NEW d, MarketOpened(d) PROVE CollateralTotalsGrow
      BY <2>1, <2>2 DEF MarketOpened, Save
    <2>3. CollateralTotalsGrow
      BY <1>3, <1>7, <2>1, <2>2
    <2> QED
      BY <1>1, <1>7, <2>3 DEF CollateralsKept
  <1>8. CASE OwnerStep
    <2>1. UNCHANGED collaterals
      BY <1>8 DEF OwnerStep, UpdateOwner, UpdateConfig, InitAsset, UpdateAsset,
                  UpdateUncollateralizedLoanLimit
    <2>2. ASSUME NEW sender \in Admin, NEW d \in Denom, NEW input \in AssetInput,
                 InitAsset(sender, d, input)
          PROVE  CollateralsKept
      BY <1>7, <2>1, <2>2, InitAssetOpens
    <2>3. ASSUME NEW sender \in Admin, NEW d \in Denom, NEW input \in UpdateInput,
                 UpdateAsset(sender, d, input)
          PROVE  CollateralsKept
      BY <1>7, <2>1, <2>3, UpdateAssetTotals
    <2> QED
      BY <1>7, <1>8, <2>1, <2>2, <2>3
      DEF OwnerStep, UpdateOwner, UpdateConfig, UpdateUncollateralizedLoanLimit
  <1>9. CASE UserStep
    <2>1. ASSUME NEW u \in User, NEW d \in Denom, NEW amount \in Amount,
                 Borrow(u, d, amount)
          PROVE  CollateralsKept
      <3>1. UNCHANGED collaterals
        BY <2>1 DEF Borrow
      <3> QED
        BY <1>7, <2>1, <3>1, BorrowSettles, SavedMoves DEF MarketSettled
    <2>2. ASSUME NEW u \in User, NEW d \in Denom, NEW amount \in Amount,
                 NEW on_behalf_of \in BOOLEAN, Repay(u, d, amount, on_behalf_of)
          PROVE  CollateralsKept
      <3>1. UNCHANGED collaterals
        BY <2>2 DEF Repay
      <3> QED
        BY <1>7, <2>2, <3>1, RepaySettles, SavedMoves DEF MarketSettled
    <2>3. ASSUME NEW u \in User, NEW d \in Denom, NEW enable \in Status,
                 UpdateAssetCollateralStatus(u, d, enable)
          PROVE  CollateralsKept
      <3>1. \A v \in User, e \in Denom :
                AmountIn(collaterals', v, e) = AmountIn(collaterals, v, e)
        BY <1>1, <2>3
        DEF UpdateAssetCollateralStatus, HasCollateral, AmountIn, IsMap, Collateral
      <3>2. UNCHANGED markets
        BY <2>3 DEF UpdateAssetCollateralStatus
      <3> QED
        BY <1>7, <3>1, <3>2
    <2> HIDE DEF Booked, Passed
    <2> QED
      BY <1>4, <1>5, <1>6, <1>9, <2>1, <2>2, <2>3 DEF UserStep
  <1>10. CASE EnvironmentStep \/ UNCHANGED vars
    <2>1. UNCHANGED <<collaterals, markets>>
      BY <1>10 DEF EnvironmentStep, Tick, OracleMoves, vars
    <2> QED
      BY <1>7, <2>1
  <1> HIDE DEF Booked, Passed
  <1> QED
    BY <1>8, <1>9, <1>10 DEF Next

\* g is f after v has handed s to r.
HandedOver(f, g, v, r, s) ==
    \A x \in DOMAIN f :
        g[x] = (f[x] - IF x = v THEN s ELSE 0) + IF x = r THEN s ELSE 0

\* What one user hands to another does not change the sum.
LEMMA SumPassed ==
    ASSUME NEW S, IsFiniteSet(S), NEW f \in [S -> Nat], NEW g \in [S -> Nat],
           NEW v \in S, NEW r \in S, NEW s \in Nat, s <= f[v],
           HandedOver(f, g, v, r, s)
    PROVE  SumFunction(g) = SumFunction(f)
  <1> DEFINE h == [x \in S |-> f[x] - IF x = v THEN s ELSE 0]
  <1>1. h \in [S -> Nat]
    OBVIOUS
  <1>2. SumFunction(h) - h[v] = SumFunction(f) - f[v]
    <2>1. \A x \in S \ {v} : h[x] = f[x]
      OBVIOUS
    <2> HIDE DEF h
    <2> QED
      BY <1>1, <2>1, SumChange
  <1>3. SumFunction(g) - g[r] = SumFunction(h) - h[r]
    <2>1. \A x \in S \ {r} : g[x] = h[x]
      BY <1>1 DEF HandedOver
    <2> HIDE DEF h
    <2> QED
      BY <1>1, <2>1, SumChange
  <1>4. h[v] = f[v] - s /\ g[r] = h[r] + s
    BY DEF HandedOver
  <1> HIDE DEF h
  <1>5. /\ SumFunction(f) \in Nat /\ SumFunction(g) \in Nat /\ SumFunction(h) \in Nat
        /\ f[v] \in Nat /\ g[r] \in Nat /\ h[v] \in Nat /\ h[r] \in Nat
    BY <1>1, SumType
  <1> QED
    BY <1>2, <1>3, <1>4, <1>5

\* A market never has fewer collateral shares than its users hold, whatever
\* they deposit, withdraw and seize and whatever accrues to the protocol.
THEOREM CollateralSharesAlwaysCovered == Spec => []CollateralSharesCovered
  <1> DEFINE Covered == \A d \in DOMAIN markets :
                SumFunction(CollateralsIn(d)) <= markets[d].collateral_total_scaled
  <1>1. CollateralSharesCovered <=> Covered
    BY DEF CollateralSharesCovered, TotalOf, CollateralsIn
  <1>2. Init => Covered
    BY DEF Init, EmptyMap
  <1>3. ASSUME Sound, Sound', SharesHaveMarkets, Covered, [Next]_vars PROVE Covered'
    <2> SUFFICES ASSUME NEW d \in DOMAIN markets'
                 PROVE  SumFunction(CollateralsIn(d)') <= markets'[d].collateral_total_scaled
      OBVIOUS
    <2>1. d \in Denom /\ TypeOK /\ \A u \in User : CollateralScaled(u, d) \in Nat
      BY <1>3, PositionTypes DEF Sound, TypeOK, IsMap
    <2>2. /\ CollateralsIn(d) \in [User -> Nat]
          /\ CollateralsIn(d)' \in [User -> Nat]
          /\ SumFunction(CollateralsIn(d)) \in Nat
          /\ SumFunction(CollateralsIn(d)') \in Nat
      BY <1>3, <2>1, SharesType, SharesTypePrimed, FiniteAssumption, SumType
    <2>3. CASE d \notin DOMAIN markets
      <3>1. \A u \in User : CollateralScaled(u, d)' = 0
        BY <1>3, <2>1, <2>3, CollateralSharesStep DEF SharesHaveMarkets
      <3>2. \A u \in User : CollateralsIn(d)'[u] = 0
        BY <3>1 DEF CollateralsIn
      <3>3. SumFunction(CollateralsIn(d)') = 0
        BY <2>2, <3>2, FiniteAssumption, SumType
      <3>4. markets'[d].collateral_total_scaled = 0
        BY <1>3, <2>3, NewMarketsEmpty
      <3> QED
        BY <3>3, <3>4
    <2>4. CASE d \in DOMAIN markets
      <3>1. SumFunction(CollateralsIn(d)) <= markets[d].collateral_total_scaled
        BY <1>3, <2>4
      <3>2. /\ markets[d].collateral_total_scaled \in Nat
            /\ markets'[d].collateral_total_scaled \in Nat
        BY <1>3, <2>4 DEF Sound, SoundMarket, Market, Uint
      <3>3. ASSUME CollateralsIn(d)' = CollateralsIn(d),
                   markets'[d].collateral_total_scaled >= markets[d].collateral_total_scaled
            PROVE  SumFunction(CollateralsIn(d)') <= markets'[d].collateral_total_scaled
        BY <2>2, <3>1, <3>2, <3>3
      <3>4. CASE CollateralsKept
        <4>1. CollateralsIn(d)' = CollateralsIn(d)
          BY <2>1, <3>4 DEF CollateralsKept, CollateralsIn
        <4> QED
          BY <2>4, <3>3, <3>4, <4>1 DEF CollateralsKept, CollateralTotalsGrow
      <3>5. ASSUME NEW v, NEW e, NEW s, CollateralBooked(v, e, s)
            PROVE  SumFunction(CollateralsIn(d)') <= markets'[d].collateral_total_scaled
        <4>1. CASE d # e
          <5>1. CollateralsIn(d)' = CollateralsIn(d)
            <6>1. \A u \in User : CollateralScaled(u, d)' = CollateralScaled(u, d)
              BY <2>1, <3>5, <4>1 DEF CollateralBooked
            <6> QED
              BY <6>1 DEF CollateralsIn
          <5>2. markets'[d] = markets[d]
            BY <2>4, <3>5, <4>1 DEF CollateralBooked
          <5> QED
            BY <3>2, <3>3, <5>1, <5>2
        <4>2. CASE d = e
          <5>1. /\ v \in User
                /\ CollateralsIn(d)'[v] = CollateralsIn(d)[v] + s
                /\ \A u \in User \ {v} : CollateralsIn(d)'[u] = CollateralsIn(d)[u]
            BY <2>1, <3>5, <4>2 DEF CollateralBooked, CollateralsIn
          <5>2. SumFunction(CollateralsIn(d)') - CollateralsIn(d)'[v]
                  = SumFunction(CollateralsIn(d)) - CollateralsIn(d)[v]
            BY <2>2, <5>1, FiniteAssumption, SumChange
          <5>3. CollateralsIn(d)[v] \in Nat /\ s \in Int
            BY <2>2, <3>5, <5>1 DEF CollateralBooked
          <5>4. markets'[d].collateral_total_scaled
                  >= markets[d].collateral_total_scaled + s
            BY <3>5, <4>2 DEF CollateralBooked
          <5> QED
            BY <2>2, <3>1, <3>2, <5>1, <5>2, <5>3, <5>4
        <4> QED
          BY <4>1, <4>2
      <3>6. ASSUME NEW v, NEW r, NEW c, NEW s, CollateralPassed(v, r, c, s)
            PROVE  SumFunction(CollateralsIn(d)') <= markets'[d].collateral_total_scaled
        <4>1. markets'[d].collateral_total_scaled >= markets[d].collateral_total_scaled
          BY <2>4, <3>6 DEF CollateralPassed, CollateralTotalsGrow
        <4>2. CASE d # c
          <5>1. \A u \in User : CollateralScaled(u, d)' = CollateralScaled(u, d)
            BY <2>1, <3>6, <4>2 DEF CollateralPassed
          <5>2. CollateralsIn(d)' = CollateralsIn(d)
            BY <5>1 DEF CollateralsIn
          <5> QED
            BY <3>3, <4>1, <5>2
        <4>3. CASE d = c
          <5>1. /\ v \in User /\ r \in User /\ s \in Nat
                /\ s <= CollateralsIn(d)[v]
                /\ HandedOver(CollateralsIn(d), CollateralsIn(d)', v, r, s)
            BY <2>1, <3>6, <4>3 DEF CollateralPassed, CollateralsIn, HandedOver
          <5>2. SumFunction(CollateralsIn(d)') = SumFunction(CollateralsIn(d))
            BY <2>2, <5>1, FiniteAssumption, SumPassed
          <5> QED
            BY <2>2, <3>1, <3>2, <4>1, <5>2
        <4> QED
          BY <4>2, <4>3
      <3> QED
        BY <1>3, <3>4, <3>5, <3>6, CollateralsStep
    <2> QED
      BY <2>3, <2>4
  <1> HIDE DEF Covered
  <1>4. Spec => []Covered
    BY <1>2, <1>3, SoundAlways, SharesAlwaysHaveMarkets, PTL DEF Spec
  <1> QED
    BY <1>1, <1>4, PTL
-----------------------------------------------------------------------------
(***************************************************************************)
(* Repaying and withdrawing                                                *)
(***************************************************************************)

LEMMA BelowDivCeil ==
    ASSUME NEW a \in Nat, NEW b \in Nat \ {0}, NEW n \in Nat, n < DivCeil(a, b)
    PROVE  n * b < a
  <1> DEFINE q == a \div b
             r == a % b
  <1>1. /\ q \in Nat /\ r \in Nat /\ r < b
        /\ a = q * b + r
    BY SMT
  <1>2. DivCeil(a, b) = q + (IF r = 0 THEN 0 ELSE 1)
    BY DEF DivCeil
  <1> HIDE DEF q, r
  <1>3. CASE r = 0
    <2>1. n + 1 <= q
      BY <1>1, <1>2, <1>3
    <2>2. (n + 1) * b <= q * b /\ (n + 1) * b = n * b + b
      BY <1>1, <2>1, SMT
    <2>3. q * b \in Nat /\ n * b \in Nat
      BY <1>1, TimesType
    <2> QED
      BY <1>1, <1>3, <2>2, <2>3
  <1>4. CASE r # 0
    <2>1. n <= q
      BY <1>1, <1>2, <1>4
    <2>2. n * b <= q * b
      BY <1>1, <2>1, SMT
    <2>3. q * b \in Nat /\ n * b \in Nat
      BY <1>1, TimesType
    <2> QED
      BY <1>1, <1>4, <2>2, <2>3
  <1> QED
    BY <1>3, <1>4

LEMMA DivCeilBound ==
    ASSUME NEW a \in Nat, NEW b \in Nat \ {0}, NEW c \in Nat, a <= c * b
    PROVE  DivCeil(a, b) <= c
  <1>1. DivCeil(a, b) \in Nat
    BY DivCeilType
  <1>2. SUFFICES ASSUME c < DivCeil(a, b) PROVE FALSE
    BY <1>1
  <1>3. c * b < a
    BY <1>2, BelowDivCeil
  <1>4. c * b \in Nat
    BY TimesType
  <1> QED
    BY <1>3, <1>4

LEMMA DivTimes ==
    ASSUME NEW a \in Nat, NEW b \in Nat \ {0}, NEW n \in Nat, n <= a \div b
    PROVE  n * b <= a
  <1> DEFINE q == a \div b
  <1>1. q \in Nat /\ q * b <= a /\ q * b \in Nat
    BY SMT
  <1> HIDE DEF q
  <1>2. n * b <= q * b /\ n * b \in Nat
    BY <1>1, TimesType, SMT DEF q
  <1> QED
    BY <1>1, <1>2

LEMMA DivBelow ==
    ASSUME NEW a \in Nat, NEW b \in Nat \ {0}, NEW c \in Nat, a <= c * b
    PROVE  a \div b <= c
  <1>1. a \div b \in Nat
    BY DivType
  <1>2. SUFFICES ASSUME c + 1 <= a \div b PROVE FALSE
    BY <1>1
  <1>3. (c + 1) * b <= a
    BY <1>2, DivTimes
  <1>4. (c + 1) * b = c * b + b /\ c * b \in Nat
    BY SMT
  <1> QED
    BY <1>3, <1>4

\* A debt that is less than what the shares are rounded up to takes no more
\* shares than there are.
LEMMA LeftDebtFits ==
    ASSUME NEW s \in Nat, NEW i \in Nat \ {0}, NEW n \in Nat, n < UnderlyingCeil(s, i)
    PROVE  ScaledCeil(n, i) <= s
  <1>1. UintMul(s, i) \in Nat /\ s * i \in Nat /\ n * ScalingFactor \in Nat
    BY UintMulType, TimesType, ScalingAssumption
  <1>2. n * ScalingFactor < UintMul(s, i)
    BY <1>1, BelowDivCeil, ScalingAssumption DEF UnderlyingCeil
  <1>3. (n * ScalingFactor) * One <= s * i
    BY <1>1, <1>2, DivTimes, OneAssumption DEF UintMul
  <1>4. (n * ScalingFactor) * One \in Nat
    BY <1>1, TimesType, OneAssumption
  <1> QED
    BY <1>3, <1>4, DivCeilBound DEF ScaledCeil, DivideUintByDecimalCeil

\* Coins the shares are rounded down to take no more shares than there are.
LEMMA LeftCollateralFits ==
    ASSUME NEW s \in Nat, NEW i \in Nat \ {0}, NEW n \in Nat, n <= UnderlyingFloor(s, i)
    PROVE  ScaledFloor(n, i) <= s
  <1>1. UintMul(s, i) \in Nat /\ s * i \in Nat /\ n * ScalingFactor \in Nat
    BY UintMulType, TimesType, ScalingAssumption
  <1>2. n * ScalingFactor <= UintMul(s, i)
    BY <1>1, DivTimes, ScalingAssumption DEF UnderlyingFloor
  <1>3. (n * ScalingFactor) * One <= s * i
    BY <1>1, <1>2, DivTimes, OneAssumption DEF UintMul
  <1>4. (n * ScalingFactor) * One \in Nat
    BY <1>1, TimesType, OneAssumption
  <1> QED
    BY <1>3, <1>4, DivBelow DEF ScaledFloor, DivideUintByDecimal

\* The checked subtractions of repay and of withdraw succeed, of the user's
\* shares and of the market's total, for any part of what there is.
SubtractionsSucceed ==
    \A u \in User, d \in DOMAIN markets, amount \in Amount :
        /\ DebtOf(u, d) > 0 =>
            RepaidShares(u, d, amount) \in 0 .. Accrued(d).debt_total_scaled
        /\ amount <= CollateralOf(u, d) =>
            WithdrawnShares(u, d, amount) \in 0 .. Accrued(d).collateral_total_scaled

LEMMA RepaidSharesFit ==
    ASSUME Sound, NEW u \in User, NEW d \in DOMAIN markets, NEW amount \in Amount,
           DebtOf(u, d) > 0
    PROVE  RepaidShares(u, d, amount) \in 0 .. DebtScaled(u, d)
  <1> DEFINE m == ApplyAccumulatedInterests(markets[d], now)
             i == UpdatedBorrowIndex(markets[d], now)
             before == DebtScaled(u, d)
             owed == UnderlyingCeil(before, i)
             left == LeftToRepay(owed, amount)
  <1>1. now \in Nat /\ SoundMarket(markets[d]) /\ d \in Denom /\ amount \in Nat \ {0}
    BY InputAssumption DEF Sound, TypeOK, IsMap
  <1>2. UpdatedBorrowIndex(m, now) = i
    BY <1>1, AccruedMarket, AccrualIsContinuous
  <1>3. i \in Nat \ {0}
    BY <1>1, UpdatedIndexesGrow DEF SoundMarket, Market, Decimal
  <1>4. before \in Nat
    BY <1>1, PositionTypes DEF Sound
  <1>5. owed > 0
    BY DEF DebtOf, UnderlyingDebt
  <1>6. RepaidShares(u, d, amount) = before - ScaledCeil(left, i)
    BY <1>2 DEF RepaidShares, UnderlyingDebt, ScaledDebt
  <1> HIDE DEF i, before
  <1>7. owed \in Nat
    BY <1>3, <1>4, ScaleTypes
  <1>8. left \in Nat /\ left < owed
    <2> HIDE DEF owed
    <2> QED
      BY <1>1, <1>5, <1>7 DEF LeftToRepay
  <1> HIDE DEF left
  <1>9. ScaledCeil(left, i) <= before /\ ScaledCeil(left, i) \in Nat
    BY <1>3, <1>4, <1>8, LeftDebtFits, ScaleTypes
  <1> QED
    BY <1>4, <1>6, <1>9 DEF before

LEMMA WithdrawnSharesFit ==
    ASSUME Sound, NEW u \in User, NEW d \in DOMAIN markets, NEW amount \in Amount,
           amount <= CollateralOf(u, d)
    PROVE  WithdrawnShares(u, d, amount) \in 0 .. CollateralScaled(u, d)
  <1> DEFINE m == ApplyAccumulatedInterests(markets[d], now)
             i == UpdatedLiquidityIndex(markets[d], now)
             before == CollateralScaled(u, d)
             owned == UnderlyingFloor(before, i)
             left == owned - amount
  <1>1. now \in Nat /\ SoundMarket(markets[d]) /\ d \in Denom /\ amount \in Nat
    BY InputAssumption DEF Sound, TypeOK, IsMap
  <1>2. UpdatedLiquidityIndex(m, now) = i
    BY <1>1, AccruedMarket, AccrualIsContinuous
  <1>3. i \in Nat \ {0}
    BY <1>1, UpdatedIndexesGrow DEF SoundMarket, Market, Decimal
  <1>4. before \in Nat
    BY <1>1, PositionTypes DEF Sound
  <1>5. amount <= owned
    BY DEF CollateralOf, UnderlyingLiquidity
  <1>6. WithdrawnShares(u, d, amount) = before - ScaledFloor(left, i)
    BY <1>2 DEF WithdrawnShares, UnderlyingLiquidity, ScaledLiquidity
  <1> HIDE DEF i, before
  <1>7. owned \in Nat
    BY <1>3, <1>4, ScaleTypes
  <1>8. left \in Nat /\ left <= owned
    <2> HIDE DEF owned
    <2> QED
      BY <1>1, <1>5, <1>7
  <1> HIDE DEF left
  <1>9. ScaledFloor(left, i) <= before /\ ScaledFloor(left, i) \in Nat
    BY <1>3, <1>4, <1>8, LeftCollateralFits, ScaleTypes
  <1> QED
    BY <1>4, <1>6, <1>9 DEF before

\* The totals hold what any one user has.
LEMMA PositionsWithinTotals ==
    ASSUME Sound, DebtSharesConserved, CollateralSharesCovered,
           NEW u \in User, NEW d \in DOMAIN markets
    PROVE  /\ DebtScaled(u, d) <= Accrued(d).debt_total_scaled
           /\ CollateralScaled(u, d) <= Accrued(d).collateral_total_scaled
  <1>1. d \in Denom /\ TypeOK
    BY DEF Sound, TypeOK, IsMap
  <1>2. /\ SumFunction(DebtsIn(d)) = markets[d].debt_total_scaled
        /\ SumFunction(CollateralsIn(d)) <= markets[d].collateral_total_scaled
    BY DEF DebtSharesConserved, CollateralSharesCovered, TotalOf, DebtsIn, CollateralsIn
  <1>3. /\ DebtsIn(d)[u] <= SumFunction(DebtsIn(d))
        /\ CollateralsIn(d)[u] <= SumFunction(CollateralsIn(d))
        /\ SumFunction(CollateralsIn(d)) \in Nat
    BY <1>1, SharesType, FiniteAssumption, SumType
  <1>4. /\ DebtsIn(d)[u] = DebtScaled(u, d) /\ CollateralsIn(d)[u] = CollateralScaled(u, d)
        /\ DebtScaled(u, d) \in Nat /\ CollateralScaled(u, d) \in Nat
    BY <1>1, PositionTypes DEF DebtsIn, CollateralsIn
  <1>5. /\ Accrued(d).debt_total_scaled = markets[d].debt_total_scaled
        /\ Accrued(d).collateral_total_scaled >= markets[d].collateral_total_scaled
        /\ markets[d].collateral_total_scaled \in Nat
        /\ Accrued(d).collateral_total_scaled \in Nat
    BY AccruedTotals DEF Market, Uint
  <1> QED
    BY <1>2, <1>3, <1>4, <1>5

\* Whatever the indexes have grown to, no rounding makes a subtraction of repay
\* or of withdraw fail: a debtor can give back, and a depositor can take, any
\* number of coins up to all there are.
THEOREM SubtractionsAlwaysSucceed == Spec => []SubtractionsSucceed
  <1>1. ASSUME Sound, DebtSharesConserved, CollateralSharesCovered
        PROVE  SubtractionsSucceed
    <2> SUFFICES ASSUME NEW u \in User, NEW d \in DOMAIN markets, NEW amount \in Amount
                 PROVE  /\ DebtOf(u, d) > 0 =>
                            RepaidShares(u, d, amount)
                              \in 0 .. Accrued(d).debt_total_scaled
                        /\ amount <= CollateralOf(u, d) =>
                            WithdrawnShares(u, d, amount)
                              \in 0 .. Accrued(d).collateral_total_scaled
      BY DEF SubtractionsSucceed
    <2>1. /\ DebtScaled(u, d) <= Accrued(d).debt_total_scaled
          /\ CollateralScaled(u, d) <= Accrued(d).collateral_total_scaled
      BY <1>1, PositionsWithinTotals
    <2>2. /\ DebtScaled(u, d) \in Nat /\ CollateralScaled(u, d) \in Nat
          /\ Accrued(d).debt_total_scaled \in Nat
          /\ Accrued(d).collateral_total_scaled \in Nat
      BY <1>1, PositionTypes, AccruedTotals DEF Sound, TypeOK, IsMap, Market, Uint
    <2>3. /\ DebtOf(u, d) > 0 => RepaidShares(u, d, amount) \in 0 .. DebtScaled(u, d)
          /\ amount <= CollateralOf(u, d) =>
                WithdrawnShares(u, d, amount) \in 0 .. CollateralScaled(u, d)
      BY <1>1, RepaidSharesFit, WithdrawnSharesFit
    <2> QED
      BY <2>1, <2>2, <2>3
  <1> QED
    BY <1>1, SoundAlways, DebtSharesAlwaysConserved, CollateralSharesAlwaysCovered, PTL

\* Every market's model has room for a second slope.
TwoSlopes ==
    \A d \in DOMAIN markets :
        markets[d].interest_rate_model.optimal_utilization_rate # One

\* As long as no market has an optimal utilization of 1, which makes
\* get_borrow_rate divide by zero when the utilization exceeds it, nothing at all
\* that depends on the position keeps a debtor from repaying or a depositor from
\* withdrawing.
THEOREM FundsNeverStuckWithTwoSlopes == Spec => [](TwoSlopes => FundsNeverStuck)
  <1>1. ASSUME Sound, SubtractionsSucceed, TwoSlopes PROVE FundsNeverStuck
    <2>1. ASSUME NEW d \in DOMAIN markets, NEW s
          PROVE  /\ RatesDefined(DecreaseTotalDebt(Accrued(d), s), now)
                 /\ RatesDefined(DecreaseTotalCollateral(Accrued(d), s), now)
      <3>1. Accrued(d).interest_rate_model = markets[d].interest_rate_model
            /\ Accrued(d) \in Market
        BY <1>1, AccruedTotals DEF Accrued, ApplyAccumulatedInterests, Sound, SoundMarket,
                                   Market
      <3>2. /\ DecreaseTotalDebt(Accrued(d), s).interest_rate_model
                 = markets[d].interest_rate_model
            /\ DecreaseTotalCollateral(Accrued(d), s).interest_rate_model
                 = markets[d].interest_rate_model
        BY <3>1 DEF DecreaseTotalDebt, DecreaseTotalCollateral, Market
      <3> QED
        BY <1>1, <3>2 DEF TwoSlopes, RatesDefined, BorrowRateDefined
    <2> QED
      BY <1>1, <2>1 DEF SubtractionsSucceed, FundsNeverStuck, Accrued
  <1> QED
    BY <1>1, SoundAlways, SubtractionsAlwaysSucceed, PTL
=============================================================================
