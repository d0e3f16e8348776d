---------------------------- MODULE ClaimsProofs ----------------------------
(***************************************************************************)
(* Coins: what time and each message do to what users owe and own, to what *)
(* the contract has, to what it owes, and to the health of those who did   *)
(* not act, for every sequence of parameters, prices and blocks.           *)
(***************************************************************************)
EXTENDS LendingProofs

-----------------------------------------------------------------------------
(***************************************************************************)
(* Arithmetic                                                              *)
(***************************************************************************)

LEMMA TimesMonotone ==
    ASSUME NEW a \in Nat, NEW b \in Nat, NEW c \in Nat, a <= b
    PROVE  a * c <= b * c /\ c * a <= c * b
  BY SMT

LEMMA DecimalMulMonotone ==
    ASSUME NEW a \in Nat, NEW b \in Nat, NEW c \in Nat, a <= b
    PROVE  DecimalMul(c, a) <= DecimalMul(c, b)
  <1>1. c * a \in Nat /\ c * b \in Nat /\ c * a <= c * b
    BY TimesMonotone, TimesType
  <1> QED
    BY <1>1, OneAssumption, DivMonotone DEF DecimalMul

LEMMA FromRatioMonotone ==
    ASSUME NEW a \in Nat, NEW b \in Nat, NEW c \in Nat \ {0}, a <= b
    PROVE  FromRatio(a, c) <= FromRatio(b, c)
  <1>1. a * One \in Nat /\ b * One \in Nat /\ a * One <= b * One
    BY OneAssumption, TimesMonotone, TimesType
  <1> QED
    BY <1>1, DivMonotone DEF FromRatio

LEMMA DivCeilMonotone ==
    ASSUME NEW a \in Nat, NEW b \in Nat, NEW c \in Nat \ {0}, a <= b
    PROVE  DivCeil(a, c) <= DivCeil(b, c)
  <1>1. a \div c \in Nat /\ b \div c \in Nat /\ a \div c <= b \div c
    BY DivType, DivMonotone
  <1>2. a \div c = b \div c /\ b % c = 0 => a % c = 0
    BY SMT
  <1> QED
    BY <1>1, <1>2 DEF DivCeil

\* The same shares are worth no less at a higher index.
LEMMA UnderlyingGrows ==
    ASSUME NEW scaled \in Nat, NEW i \in Nat, NEW j \in Nat, i <= j
    PROVE  /\ UnderlyingFloor(scaled, i) <= UnderlyingFloor(scaled, j)
           /\ UnderlyingCeil(scaled, i) <= UnderlyingCeil(scaled, j)
  <1>1. /\ scaled * i \in Nat /\ scaled * j \in Nat
        /\ scaled * i <= scaled * j
    BY TimesMonotone, TimesType
  <1>2. /\ UintMul(scaled, i) \in Nat /\ UintMul(scaled, j) \in Nat
        /\ UintMul(scaled, i) <= UintMul(scaled, j)
    BY <1>1, OneAssumption, DivMonotone, UintMulType DEF UintMul
  <1> QED
    BY <1>2, ScalingAssumption, DivMonotone, DivCeilMonotone
    DEF UnderlyingFloor, UnderlyingCeil

-----------------------------------------------------------------------------
(***************************************************************************)
(* Interest                                                                *)
(***************************************************************************)

\* Interest over a longer time is no less.
LEMMA InterestMonotone ==
    ASSUME NEW index \in Nat, NEW rate \in Nat, NEW s \in Nat, NEW t \in Nat, s <= t
    PROVE  AppliedLinearInterest(index, rate, s) <= AppliedLinearInterest(index, rate, t)
  <1> DEFINE x == FromRatio(s, SecondsPerYear)
             y == FromRatio(t, SecondsPerYear)
  <1>1. x \in Nat /\ y \in Nat /\ x <= y
    BY ScalingAssumption, FromRatioType, FromRatioMonotone
  <1> HIDE DEF x, y
  <1>2. /\ DecimalMul(rate, x) \in Nat /\ DecimalMul(rate, y) \in Nat
        /\ DecimalMul(rate, x) <= DecimalMul(rate, y)
    BY <1>1, DecimalMulType, DecimalMulMonotone
  <1>3. /\ One + DecimalMul(rate, x) \in Nat /\ One + DecimalMul(rate, y) \in Nat
        /\ One + DecimalMul(rate, x) <= One + DecimalMul(rate, y)
    BY <1>2, OneAssumption
  <1> QED
    BY <1>3, DecimalMulMonotone DEF AppliedLinearInterest, x, y

LEMMA IndexesMonotone ==
    ASSUME NEW m \in Market, NEW s \in Nat, NEW t \in Nat, s <= t
    PROVE  /\ UpdatedBorrowIndex(m, s) <= UpdatedBorrowIndex(m, t)
           /\ UpdatedLiquidityIndex(m, s) <= UpdatedLiquidityIndex(m, t)
  <1>1. /\ m.borrow_index \in Nat /\ m.borrow_rate \in Nat
        /\ m.liquidity_index \in Nat /\ m.liquidity_rate \in Nat
        /\ m.indexes_last_updated \in Nat
    BY DEF Market, Decimal
  <1>2. /\ m.borrow_index <= UpdatedBorrowIndex(m, t)
        /\ m.liquidity_index <= UpdatedLiquidityIndex(m, t)
    BY UpdatedIndexesGrow
  <1> DEFINE x == s - m.indexes_last_updated
             y == t - m.indexes_last_updated
  <1>3. CASE m.indexes_last_updated < s
    <2>1. m.indexes_last_updated < t /\ x \in Nat /\ y \in Nat /\ x <= y
      BY <1>1, <1>3
    <2> HIDE DEF x, y
    <2>2. /\ AppliedLinearInterest(m.borrow_index, m.borrow_rate, x)
               <= AppliedLinearInterest(m.borrow_index, m.borrow_rate, y)
          /\ AppliedLinearInterest(m.liquidity_index, m.liquidity_rate, x)
               <= AppliedLinearInterest(m.liquidity_index, m.liquidity_rate, y)
      BY <1>1, <2>1, InterestMonotone
    <2>3. m.borrow_index <= m.borrow_index /\ m.liquidity_index <= m.liquidity_index
      BY <1>1
    <2> QED
      BY <1>3, <2>1, <2>2, <2>3 DEF UpdatedBorrowIndex, UpdatedLiquidityIndex, x, y
  <1>4. CASE ~(m.indexes_last_updated < s)
    BY <1>2, <1>4 DEF UpdatedBorrowIndex, UpdatedLiquidityIndex
  <1> QED
    BY <1>3, <1>4

-----------------------------------------------------------------------------

\* Only Tick moves the clock, and it leaves markets and positions alone.
LEMMA OnlyTickMovesTime ==
    ASSUME Sound, [Next]_vars, now' # now
    PROVE  /\ now' \in Nat /\ now <= now'
           /\ UNCHANGED <<markets, debts, collaterals, balance>>
  <1>1. ~OwnerStep
    BY DEF OwnerStep, UpdateOwner, UpdateConfig, InitAsset, UpdateAsset,
           UpdateUncollateralizedLoanLimit
  <1>2. ~UserStep
    <2>1. \A u \in User, d \in Denom, amount \in Amount :
            ~Deposit(u, d, amount) /\ ~Borrow(u, d, amount)
      BY DEF Deposit, Borrow
    <2>2. \A u \in User, d \in Denom, request \in Amount \cup {None} :
            ~Withdraw(u, d, request)
      BY DEF Withdraw
    <2>3. \A u \in User, d \in Denom, amount \in Amount, on_behalf_of \in BOOLEAN :
            ~Repay(u, d, amount, on_behalf_of)
      BY DEF Repay
    <2>4. \A u \in User, d \in Denom, r \in User, c \in Denom, sent \in Amount :
            ~Liquidate(u, r, c, d, sent)
      BY DEF Liquidate
    <2>5. \A u \in User, d \in Denom, enable \in Status :
            ~UpdateAssetCollateralStatus(u, d, enable)
      BY DEF UpdateAssetCollateralStatus
    <2> QED
      BY <2>1, <2>2, <2>3, <2>4, <2>5 DEF UserStep
  <1>3. PICK seconds \in TimeStep : Tick(seconds)
    BY <1>1, <1>2 DEF Next, vars, EnvironmentStep, OracleMoves
  <1>4. now \in Nat /\ seconds \in Nat
    BY InputAssumption DEF Sound, TypeOK
  <1> QED
    BY <1>3, <1>4 DEF Tick

LEMMA WaitingNeverShrinks ==
    ASSUME Sound, [Next]_vars, now' # now, NEW u \in User, NEW d \in Denom
    PROVE  DebtOf(u, d)' >= DebtOf(u, d) /\ CollateralOf(u, d)' >= CollateralOf(u, d)
  <1>1. /\ now \in Nat /\ now' \in Nat /\ now <= now'
        /\ UNCHANGED <<markets, debts, collaterals>>
    BY OnlyTickMovesTime DEF Sound, TypeOK
  <1>2. /\ DebtScaled(u, d) \in Nat /\ CollateralScaled(u, d) \in Nat
        /\ DebtScaled(u, d)' = DebtScaled(u, d)
        /\ CollateralScaled(u, d)' = CollateralScaled(u, d)
    BY <1>1, PositionTypes
    DEF Sound, DebtScaled, CollateralScaled, HasDebt, HasCollateral
  <1>3. CASE d \in DOMAIN markets
    <2>1. markets[d] \in Market
      BY <1>3 DEF Sound, SoundMarket
    <2> DEFINE i == UpdatedBorrowIndex(markets[d], now)
               j == UpdatedBorrowIndex(markets[d], now')
               k == UpdatedLiquidityIndex(markets[d], now)
               l == UpdatedLiquidityIndex(markets[d], now')
    <2>2. i \in Nat /\ j \in Nat /\ k \in Nat /\ l \in Nat /\ i <= j /\ k <= l
      BY <1>1, <2>1, UpdatedIndexesGrow, IndexesMonotone
    <2>3. /\ DebtOf(u, d) = UnderlyingCeil(DebtScaled(u, d), i)
          /\ DebtOf(u, d)' = UnderlyingCeil(DebtScaled(u, d), j)
          /\ CollateralOf(u, d) = UnderlyingFloor(CollateralScaled(u, d), k)
          /\ CollateralOf(u, d)' = UnderlyingFloor(CollateralScaled(u, d), l)
      BY <1>1, <1>2, <1>3 DEF DebtOf, CollateralOf, UnderlyingDebt, UnderlyingLiquidity
    <2> HIDE DEF i, j, k, l
    <2> DEFINE a == DebtScaled(u, d)
               b == CollateralScaled(u, d)
    <2> HIDE DEF a, b
    <2>4. /\ UnderlyingCeil(a, i) <= UnderlyingCeil(a, j)
          /\ UnderlyingFloor(b, k) <= UnderlyingFloor(b, l)
      BY <1>2, <2>2, UnderlyingGrows DEF a, b
    <2>5. /\ UnderlyingCeil(a, i) \in Nat /\ UnderlyingCeil(a, j) \in Nat
          /\ UnderlyingFloor(b, k) \in Nat /\ UnderlyingFloor(b, l) \in Nat
      BY <1>2, <2>2, ScalingAssumption, UintMulType, DivType, DivCeilType
      DEF a, b, UnderlyingCeil, UnderlyingFloor
    <2> QED
      BY <2>3, <2>4, <2>5 DEF a, b
  <1>4. CASE d \notin DOMAIN markets
    BY <1>1, <1>4 DEF DebtOf, CollateralOf
  <1> QED
    BY <1>3, <1>4

\* However long nobody touches a market, and whatever its rates are, no debt
\* and no deposit in it gets smaller by waiting.
THEOREM TimeNeverShrinks == Spec => TimeNeverShrinksClaims
  <1>1. Sound /\ [Next]_vars =>
          [now' # now =>
            \A u \in User, d \in Denom :
                DebtOf(u, d)' >= DebtOf(u, d) /\ CollateralOf(u, d)' >= CollateralOf(u, d)]_vars
    BY WaitingNeverShrinks
  <1> QED
    BY <1>1, SoundAlways, PTL DEF Spec, TimeNeverShrinksClaims

-----------------------------------------------------------------------------
(***************************************************************************)
(* Shares and coins                                                        *)
(***************************************************************************)

\* The shares that are one coin at index 1, times the index 1.
Coin == ScalingFactor * One

LEMMA CoinType == Coin \in Nat \ {0} /\ One <= Coin
  BY OneAssumption, ScalingAssumption, SMT DEF Coin

LEMMA DivIff ==
    ASSUME NEW a \in Nat, NEW b \in Nat \ {0}, NEW n \in Nat
    PROVE  n <= a \div b <=> n * b <= a
  BY DivTimes, DivBound

LEMMA DivCeilCovers ==
    ASSUME NEW a \in Nat, NEW b \in Nat \ {0}
    PROVE  a <= DivCeil(a, b) * b /\ DivCeil(a, b) * b < a + b
  <1> DEFINE q == a \div b
             r == a % b
  <1>1. /\ q \in Nat /\ r \in Nat /\ r < b
        /\ a = q * b + r
    BY SMT
  <1>2. DivCeil(a, b) = q + (IF r = 0 THEN 0 ELSE 1)
    BY DEF DivCeil
  <1> HIDE DEF q, r
  <1>3. (q + 1) * b = q * b + b /\ q * b \in Nat
    BY <1>1, SMT
  <1>4. CASE r = 0
    <2>1. DivCeil(a, b) = q
      BY <1>1, <1>2, <1>4
    <2> QED
      BY <1>1, <1>3, <1>4, <2>1
  <1>5. CASE r # 0
    <2>1. DivCeil(a, b) * b = q * b + b
      BY <1>2, <1>3, <1>5
    <2> QED
      BY <1>1, <1>3, <1>5, <2>1
  <1> QED
    BY <1>4, <1>5

LEMMA DivCeilIff ==
    ASSUME NEW a \in Nat, NEW b \in Nat \ {0}, NEW n \in Nat
    PROVE  n < DivCeil(a, b) <=> n * b < a
  <1> DEFINE p == n * b
             c == DivCeil(a, b)
  <1>1. c \in Nat /\ p \in Nat
    BY DivCeilType, TimesType
  <1>2. n < c => p < a
    BY BelowDivCeil
  <1>3. ASSUME p < a, c <= n PROVE FALSE
    <2>1. a <= c * b /\ c * b \in Nat
      BY <1>1, DivCeilCovers, TimesType
    <2> HIDE DEF c
    <2>2. c * b <= p
      BY <1>1, <1>3, SMT
    <2> HIDE DEF p
    <2> QED
      BY <1>1, <1>3, <2>1, <2>2
  <1> HIDE DEF p, c
  <1>4. n < c <=> p < a
    BY <1>1, <1>2, <1>3
  <1> QED
    BY <1>4 DEF p, c

LEMMA UnderlyingType ==
    ASSUME NEW s \in Nat, NEW i \in Nat
    PROVE  UnderlyingFloor(s, i) \in Nat /\ UnderlyingCeil(s, i) \in Nat
  <1>1. UintMul(s, i) \in Nat
    BY UintMulType
  <1> QED
    BY <1>1, ScalingAssumption, DivType, DivCeilType DEF UnderlyingFloor, UnderlyingCeil

\* s shares at the index i are k coins or more, rounded down, exactly when
\* they are worth k coins.
LEMMA FloorCoins ==
    ASSUME NEW s \in Nat, NEW i \in Nat, NEW k \in Nat
    PROVE  k <= UnderlyingFloor(s, i) <=> k * Coin <= s * i
  <1> DEFINE p == s * i
             n == k * ScalingFactor
  <1>1. p \in Nat /\ n \in Nat /\ UintMul(s, i) \in Nat
    BY TimesType, UintMulType, ScalingAssumption
  <1>2. n * One = k * Coin
    BY OneAssumption, ScalingAssumption, SMT DEF Coin
  <1>3. k <= UnderlyingFloor(s, i) <=> n <= UintMul(s, i)
    BY <1>1, ScalingAssumption, DivIff DEF UnderlyingFloor
  <1> HIDE DEF p, n
  <1>4. n <= UintMul(s, i) <=> n * One <= p
    BY <1>1, OneAssumption, DivIff DEF UintMul, p
  <1> QED
    BY <1>2, <1>3, <1>4 DEF p

\* Rounded up, they are more than k coins exactly when they are worth k coins
\* and an atomic of a share.
LEMMA CeilCoins ==
    ASSUME NEW s \in Nat, NEW i \in Nat, NEW k \in Nat
    PROVE  k < UnderlyingCeil(s, i) <=> k * Coin + One <= s * i
  <1> DEFINE p == s * i
             n == k * ScalingFactor
             m == UintMul(s, i)
  <1>1. p \in Nat /\ n \in Nat /\ m \in Nat
    BY TimesType, UintMulType, ScalingAssumption
  <1>2. (n + 1) * One = k * Coin + One
    BY OneAssumption, ScalingAssumption, SMT DEF Coin
  <1>3. k < UnderlyingCeil(s, i) <=> n < m
    BY <1>1, ScalingAssumption, DivCeilIff DEF UnderlyingCeil
  <1> HIDE DEF n
  <1>4. n < m <=> n + 1 <= m
    <2> HIDE DEF m
    <2> QED
      BY <1>1
  <1>5. n + 1 \in Nat
    BY <1>1
  <1> HIDE DEF p
  <1>6. n + 1 <= m <=> (n + 1) * One <= p
    BY <1>1, <1>5, OneAssumption, DivIff DEF UintMul, p
  <1> QED
    BY <1>2, <1>3, <1>4, <1>6 DEF p

\* The shares for a number of coins are worth no more, rounded down, and no
\* less, rounded up; and they are off by less than a share.
LEMMA SharesForCoins ==
    ASSUME NEW a \in Nat, NEW i \in Nat \ {0}
    PROVE  /\ ScaledFloor(a, i) * i <= a * Coin
           /\ a * Coin < ScaledFloor(a, i) * i + i
           /\ a * Coin <= ScaledCeil(a, i) * i
           /\ ScaledCeil(a, i) * i < a * Coin + i
  <1> DEFINE n == a * Coin
             q == n \div i
             r == n % i
  <1>1. (a * ScalingFactor) * One = n /\ n \in Nat
    BY OneAssumption, ScalingAssumption, SMT DEF Coin
  <1>2. ScaledFloor(a, i) = q /\ ScaledCeil(a, i) = DivCeil(n, i)
    BY <1>1 DEF ScaledFloor, DivideUintByDecimal, ScaledCeil, DivideUintByDecimalCeil
  <1> HIDE DEF n
  <1>3. q \in Nat /\ q * i <= n /\ n < q * i + i
    <2>1. /\ q \in Nat /\ r \in Nat /\ r < i
          /\ n = q * i + r
      BY <1>1, SMT
    <2> HIDE DEF q, r
    <2>2. q * i \in Nat
      BY <2>1, TimesType
    <2> QED
      BY <1>1, <2>1, <2>2
  <1>4. n <= DivCeil(n, i) * i /\ DivCeil(n, i) * i < n + i
    BY <1>1, DivCeilCovers
  <1> QED
    BY <1>2, <1>3, <1>4 DEF n

\* More shares than a number of coins is worth raise a rounded amount by as
\* many coins, and fewer by no more.
LEMMA MoreShares ==
    ASSUME NEW t \in Nat, NEW s \in Nat, NEW i \in Nat, NEW a \in Nat
    PROVE  /\ a * Coin <= s * i =>
                /\ UnderlyingFloor(t + s, i) >= UnderlyingFloor(t, i) + a
                /\ UnderlyingCeil(t + s, i) >= UnderlyingCeil(t, i) + a
           /\ s * i <= a * Coin =>
                /\ UnderlyingFloor(t + s, i) <= UnderlyingFloor(t, i) + a
                /\ UnderlyingCeil(t + s, i) <= UnderlyingCeil(t, i) + a
  <1> DEFINE f == UnderlyingFloor(t, i)
             g == UnderlyingFloor(t + s, i)
             c == UnderlyingCeil(t, i)
             e == UnderlyingCeil(t + s, i)
             T == t * i
             S == s * i
             V(k) == k * Coin
  <1>1. f \in Nat /\ g \in Nat /\ c \in Nat /\ e \in Nat
    <2>1. t + s \in Nat
      OBVIOUS
    <2> QED
      BY <2>1, UnderlyingType
  <1>2. T \in Nat /\ S \in Nat /\ (t + s) * i = T + S
    BY TimesType, SMT
  <1>3. \A k \in Nat : /\ k <= f <=> V(k) <= T
                       /\ k <= g <=> V(k) <= T + S
                       /\ k < c <=> V(k) + One <= T
                       /\ k < e <=> V(k) + One <= T + S
    <2> SUFFICES ASSUME NEW k \in Nat
                 PROVE  /\ k <= f <=> V(k) <= T
                        /\ k <= g <=> V(k) <= T + S
                        /\ k < c <=> V(k) + One <= T
                        /\ k < e <=> V(k) + One <= T + S
      OBVIOUS
    <2>1. k <= f <=> V(k) <= T
      BY FloorCoins
    <2>2. k <= g <=> V(k) <= (t + s) * i
      BY FloorCoins
    <2>3. k < c <=> V(k) + One <= T
      BY CeilCoins
    <2>4. k < e <=> V(k) + One <= (t + s) * i
      BY CeilCoins
    <2> HIDE DEF f, g, c, e, T, S, V
    <2> QED
      BY <1>2, <2>1, <2>2, <2>3, <2>4
  <1>4. \A k \in Nat : V(k) \in Nat /\ V(k + a) = V(k) + V(a)
    BY CoinType, SMT
  <1>5. V(a) \in Nat
    BY <1>4
  <1>6. a # 0 => V(a) = V(a - 1) + Coin /\ a - 1 \in Nat
    BY CoinType, SMT
  <1>7. a * Coin = V(a) /\ s * i = S
    OBVIOUS
  <1>8. V(0) = 0
    BY CoinType
  <1> HIDE DEF f, g, c, e, T, S, V
  <1>9. ASSUME V(a) <= S PROVE f + a <= g /\ c + a <= e
    <2>1. f + a <= g
      <3>1. V(f) <= T /\ V(f) \in Nat /\ V(f + a) = V(f) + V(a) /\ f + a \in Nat
        BY <1>1, <1>3, <1>4
      <3>2. V(f + a) <= T + S
        BY <1>2, <1>5, <1>9, <3>1
      <3> QED
        BY <1>3, <3>1, <3>2
    <2>2. CASE c = 0
      <3>1. ASSUME a = 0 PROVE c + a <= e
        BY <1>1, <2>2, <3>1
      <3>2. ASSUME a # 0 PROVE c + a <= e
        <4>1. a - 1 \in Nat /\ V(a) = V(a - 1) + Coin /\ V(a - 1) \in Nat
          BY <1>4, <1>6, <3>2
        <4>2. V(a - 1) + One <= T + S
          BY <1>2, <1>9, <4>1, CoinType, OneAssumption
        <4>3. a - 1 < e
          BY <1>3, <4>1, <4>2
        <4> QED
          BY <1>1, <2>2, <4>3
      <3>3. c + a <= e
        BY <3>1, <3>2
      <3> QED
        BY <2>1, <3>3
    <2>3. CASE c # 0
      <3> DEFINE b == c - 1
      <3>1. b \in Nat /\ c = b + 1 /\ b < c
        BY <1>1, <2>3
      <3> HIDE DEF b
      <3>2. V(b) + One <= T /\ V(b) \in Nat /\ V(b + a) = V(b) + V(a) /\ b + a \in Nat
        BY <1>3, <1>4, <3>1
      <3>3. V(b + a) + One <= T + S
        BY <1>2, <1>5, <1>9, <3>2, OneAssumption
      <3>4. b + a < e
        BY <1>3, <3>2, <3>3
      <3>5. c + a <= e
        BY <1>1, <3>1, <3>4
      <3> QED
        BY <2>1, <3>5
    <2> QED
      BY <2>2, <2>3
  <1>10. ASSUME S <= V(a) PROVE g <= f + a /\ e <= c + a
    <2>1. ASSUME f + a + 1 <= g PROVE FALSE
      <3>1. V((f + 1) + a) = V(f + 1) + V(a) /\ V(f + 1) \in Nat /\ f + 1 \in Nat
        BY <1>1, <1>4
      <3>2. (f + 1) + a \in Nat /\ (f + 1) + a <= g
        BY <1>1, <2>1
      <3>3. V((f + 1) + a) <= T + S
        BY <1>3, <3>2
      <3>4. V(f + 1) <= T
        BY <1>2, <1>5, <1>10, <3>1, <3>3
      <3>5. f + 1 <= f
        BY <1>3, <3>1, <3>4
      <3> QED
        BY <1>1, <3>5
    <2>2. ASSUME c + a < e PROVE FALSE
      <3>1. V(c + a) = V(c) + V(a) /\ V(c) \in Nat /\ c + a \in Nat
        BY <1>1, <1>4
      <3>2. V(c + a) + One <= T + S
        BY <1>3, <2>2, <3>1
      <3>3. V(c) + One <= T
        BY <1>2, <1>5, <1>10, <3>1, <3>2, OneAssumption
      <3>4. c < c
        BY <1>1, <1>3, <3>3
      <3> QED
        BY <1>1, <3>4
    <2> QED
      BY <1>1, <2>1, <2>2
  <1>11. /\ V(a) <= S => g >= f + a /\ e >= c + a
         /\ S <= V(a) => g <= f + a /\ e <= c + a
    BY <1>1, <1>9, <1>10
  <1> QED
    BY <1>7, <1>11 DEF f, g, c, e

\* Shares that are bought with, or sold for, a number of coins.
LEMMA AddedCoins ==
    ASSUME NEW t \in Nat, NEW i \in Nat \ {0}, NEW a \in Nat
    PROVE  /\ UnderlyingFloor(t + ScaledFloor(a, i), i) <= UnderlyingFloor(t, i) + a
           /\ UnderlyingCeil(t, i) + a <= UnderlyingCeil(t + ScaledCeil(a, i), i)
           /\ i <= Coin =>
                /\ UnderlyingFloor(t, i) + a - 1 <= UnderlyingFloor(t + ScaledFloor(a, i), i)
                /\ UnderlyingCeil(t + ScaledCeil(a, i), i) <= UnderlyingCeil(t, i) + a + 1
  <1> DEFINE s == ScaledFloor(a, i)
             r == ScaledCeil(a, i)
  <1>1. s \in Nat /\ r \in Nat
    BY ScaleTypes
  <1>2. /\ s * i <= a * Coin /\ a * Coin < s * i + i
        /\ a * Coin <= r * i /\ r * i < a * Coin + i
    BY SharesForCoins
  <1> HIDE DEF s, r
  <1>3. /\ s * i \in Nat /\ r * i \in Nat /\ a * Coin \in Nat /\ Coin \in Nat
        /\ (a + 1) * Coin = a * Coin + Coin
        /\ a # 0 => a - 1 \in Nat /\ (a - 1) * Coin \in Nat
                    /\ a * Coin = (a - 1) * Coin + Coin
    BY <1>1, CoinType, TimesType, SMT
  <1>4. t + s \in Nat /\ t + r \in Nat
    BY <1>1
  <1>5. /\ UnderlyingFloor(t, i) \in Nat /\ UnderlyingFloor(t + s, i) \in Nat
        /\ UnderlyingCeil(t, i) \in Nat /\ UnderlyingCeil(t + r, i) \in Nat
    BY <1>4, UnderlyingType
  <1>6. /\ UnderlyingFloor(t + s, i) <= UnderlyingFloor(t, i) + a
        /\ UnderlyingCeil(t, i) + a <= UnderlyingCeil(t + r, i)
    BY <1>1, <1>2, <1>5, MoreShares
  <1>7. ASSUME i <= Coin
        PROVE  /\ UnderlyingFloor(t, i) + a - 1 <= UnderlyingFloor(t + s, i)
               /\ UnderlyingCeil(t + r, i) <= UnderlyingCeil(t, i) + a + 1
    <2>1. UnderlyingCeil(t + r, i) <= UnderlyingCeil(t, i) + a + 1
      <3>1. r * i <= (a + 1) * Coin
        BY <1>2, <1>3, <1>7
      <3>2. a + 1 \in Nat
        OBVIOUS
      <3>3. UnderlyingCeil(t + r, i) <= UnderlyingCeil(t, i) + (a + 1)
        BY <1>1, <3>1, <3>2, MoreShares
      <3> QED
        BY <1>5, <3>3
    <2>2. CASE a = 0
      <3>1. UnderlyingFloor(t, i) <= UnderlyingFloor(t + s, i)
        BY <1>1, <1>4, UnderlyingMonotone
      <3> QED
        BY <1>5, <2>1, <2>2, <3>1
    <2>3. CASE a # 0
      <3>1. (a - 1) * Coin <= s * i /\ a - 1 \in Nat
        BY <1>2, <1>3, <1>7, <2>3
      <3>2. UnderlyingFloor(t + s, i) >= UnderlyingFloor(t, i) + (a - 1)
        BY <1>1, <3>1, MoreShares
      <3> QED
        BY <1>5, <2>1, <3>2
    <2> QED
      BY <2>2, <2>3
  <1> QED
    BY <1>6, <1>7 DEF s, r

\* Coins that are turned into shares and back.
LEMMA RoundTrip ==
    ASSUME NEW n \in Nat, NEW i \in Nat \ {0}
    PROVE  /\ UnderlyingFloor(ScaledFloor(n, i), i) <= n
           /\ n <= UnderlyingCeil(ScaledCeil(n, i), i)
           /\ i <= Coin => /\ n - 1 <= UnderlyingFloor(ScaledFloor(n, i), i)
                           /\ UnderlyingCeil(ScaledCeil(n, i), i) <= n + 1
  <1> DEFINE s == ScaledFloor(n, i)
             r == ScaledCeil(n, i)
  <1>1. s \in Nat /\ r \in Nat
    BY ScaleTypes
  <1>2. /\ UnderlyingFloor(0 + s, i) <= UnderlyingFloor(0, i) + n
        /\ UnderlyingCeil(0, i) + n <= UnderlyingCeil(0 + r, i)
        /\ i <= Coin =>
            /\ UnderlyingFloor(0, i) + n - 1 <= UnderlyingFloor(0 + s, i)
            /\ UnderlyingCeil(0 + r, i) <= UnderlyingCeil(0, i) + n + 1
    BY AddedCoins
  <1> HIDE DEF s, r
  <1>3. 0 + s = s /\ 0 + r = r
    BY <1>1
  <1>4. UnderlyingFloor(0, i) = 0 /\ UnderlyingCeil(0, i) = 0
    BY NoUnderlying
  <1>5. UnderlyingFloor(s, i) \in Nat /\ UnderlyingCeil(r, i) \in Nat
    BY <1>1, UnderlyingType
  <1>6. /\ UnderlyingFloor(s, i) <= n
        /\ n <= UnderlyingCeil(r, i)
        /\ i <= Coin => n - 1 <= UnderlyingFloor(s, i) /\ UnderlyingCeil(r, i) <= n + 1
    BY <1>2, <1>3, <1>4, <1>5
  <1> QED
    BY <1>6 DEF s, r

\* Shares that are taken from x and given to y are worth the same to both, but
\* for a coin of rounding.
LEMMA HandedCoins ==
    ASSUME NEW x \in Nat, NEW y \in Nat, NEW s \in Nat, NEW i \in Nat, s <= x
    PROVE  \E n \in Nat :
            /\ UnderlyingFloor(x, i) - UnderlyingFloor(x - s, i) \in n .. n + 1
            /\ UnderlyingFloor(y + s, i) - UnderlyingFloor(y, i) \in n .. n + 1
  <1> DEFINE p == s * i
             n == p \div Coin
  <1>1. p \in Nat
    BY TimesType
  <1>2. n \in Nat
    BY <1>1, CoinType, DivType
  <1>3. n * Coin <= p
    BY <1>1, <1>2, CoinType, DivIff
  <1>4. p <= (n + 1) * Coin
    <2>1. ~((n + 1) * Coin <= p)
      <3>1. n + 1 \in Nat /\ ~(n + 1 <= n)
        BY <1>2
      <3> QED
        BY <1>1, <3>1, CoinType, DivIff
    <2>2. (n + 1) * Coin \in Nat
      BY <1>2, CoinType, TimesType
    <2> HIDE DEF p, n
    <2> QED
      BY <1>1, <2>1, <2>2
  <1>5. n * Coin <= s * i /\ s * i <= (n + 1) * Coin /\ n + 1 \in Nat
    BY <1>2, <1>3, <1>4
  <1> HIDE DEF n
  <1>6. ASSUME NEW t \in Nat
        PROVE  UnderlyingFloor(t + s, i) - UnderlyingFloor(t, i) \in n .. n + 1
    <2>1. t + s \in Nat
      OBVIOUS
    <2>2. UnderlyingFloor(t, i) \in Nat /\ UnderlyingFloor(t + s, i) \in Nat
      BY <2>1, UnderlyingType
    <2>3. UnderlyingFloor(t + s, i) >= UnderlyingFloor(t, i) + n
      BY <1>2, <1>5, MoreShares
    <2>4. UnderlyingFloor(t + s, i) <= UnderlyingFloor(t, i) + (n + 1)
      BY <1>2, <1>5, MoreShares
    <2> QED
      BY <1>2, <2>2, <2>3, <2>4
  <1>7. x - s \in Nat /\ (x - s) + s = x
    OBVIOUS
  <1> QED
    BY <1>2, <1>6, <1>7

\* What a withdrawal burns is worth the coins it pays, or more.
LEMMA WithdrawnWorth ==
    ASSUME NEW x \in Nat, NEW i \in Nat \ {0}, NEW n \in Nat, n <= UnderlyingFloor(x, i),
           NEW t \in Nat, x - ScaledFloor(UnderlyingFloor(x, i) - n, i) <= t
    PROVE  LET s == x - ScaledFloor(UnderlyingFloor(x, i) - n, i)
           IN  UnderlyingFloor(t - s, i) <= UnderlyingFloor(t, i) - n
  <1> DEFINE f == UnderlyingFloor(x, i)
             l == f - n
             z == ScaledFloor(l, i)
             s == x - z
  <1>1. f \in Nat /\ n <= f
    BY UnderlyingType
  <1>2. l \in Nat /\ f = l + n
    <2> HIDE DEF f
    <2> QED
      BY <1>1
  <1>3. f * Coin <= x * i
    BY <1>1, FloorCoins
  <1>4. f * Coin = l * Coin + n * Coin /\ l * Coin \in Nat /\ n * Coin \in Nat
    <2> HIDE DEF f, l
    <2> QED
      BY <1>1, <1>2, CoinType, SMT
  <1>5. z \in Nat /\ z * i <= l * Coin
    BY <1>2, ScaleTypes, SharesForCoins
  <1>6. z <= x
    <2>1. l <= f
      <3> HIDE DEF f, l
      <3> QED
        BY <1>1, <1>2
    <2> QED
      BY <1>2, <2>1, LeftCollateralFits
  <1> HIDE DEF f, l
  <1>7. s \in Nat /\ x = z + s
    <2> HIDE DEF z
    <2> QED
      BY <1>5, <1>6
  <1> HIDE DEF z
  <1>8. x * i = z * i + s * i /\ z * i \in Nat /\ s * i \in Nat
    <2> HIDE DEF s
    <2> QED
      BY <1>5, <1>7, TimesType, SMT
  <1>9. s <= t
    BY DEF f, l, z
  <1> HIDE DEF s
  <1>10. n * Coin <= s * i
    BY <1>3, <1>4, <1>5, <1>8
  <1>11. t - s \in Nat /\ (t - s) + s = t
    BY <1>7, <1>9
  <1>12. UnderlyingFloor((t - s) + s, i) >= UnderlyingFloor(t - s, i) + n
    BY <1>7, <1>10, <1>11, MoreShares
  <1>13. UnderlyingFloor(t, i) \in Nat /\ UnderlyingFloor(t - s, i) \in Nat
    BY <1>11, UnderlyingType
  <1>14. UnderlyingFloor(t - s, i) <= UnderlyingFloor(t, i) - n
    BY <1>11, <1>12, <1>13
  <1> QED
    BY <1>14 DEF s, z, l, f

-----------------------------------------------------------------------------
(***************************************************************************)
(* The claims on a market                                                  *)
(***************************************************************************)

BorrowIndex(d) == UpdatedBorrowIndex(markets[d], now)

LiquidityIndex(d) == UpdatedLiquidityIndex(markets[d], now)

\* The coins that a market owes, to its depositors and to the protocol.
Claims(d) ==
    UnderlyingFloor(Accrued(d).collateral_total_scaled, Accrued(d).liquidity_index)

LEMMA IndexesType ==
    ASSUME Sound, NEW d \in DOMAIN markets
    PROVE  /\ BorrowIndex(d) \in Nat \ {0}
           /\ LiquidityIndex(d) \in Nat \ {0}
           /\ Claims(d) = UnderlyingFloor(Accrued(d).collateral_total_scaled,
                                          LiquidityIndex(d))
           /\ d \in Denom
           /\ UpdatedBorrowIndex(Accrued(d), now) = BorrowIndex(d)
           /\ UpdatedLiquidityIndex(Accrued(d), now) = LiquidityIndex(d)
           /\ Accrued(d).collateral_total_scaled \in Nat
  <1>1. SoundMarket(markets[d]) /\ now \in Nat
    BY DEF Sound, TypeOK
  <1>2. /\ markets[d] \in Market
        /\ markets[d].borrow_index \in Nat \ {0}
        /\ markets[d].liquidity_index \in Nat \ {0}
    BY <1>1 DEF SoundMarket, Market, Decimal
  <1>3. BorrowIndex(d) \in Nat \ {0} /\ LiquidityIndex(d) \in Nat \ {0}
    BY <1>1, <1>2, UpdatedIndexesGrow DEF BorrowIndex, LiquidityIndex
  <1>4. /\ AccruedTo(Accrued(d), markets[d], now)
        /\ Accrued(d) \in Market
        /\ d \in Denom
    BY AccruedMarket DEF Accrued
  <1>5. /\ UpdatedBorrowIndex(Accrued(d), now) = BorrowIndex(d)
        /\ UpdatedLiquidityIndex(Accrued(d), now) = LiquidityIndex(d)
    BY <1>1, <1>4, AccrualIsContinuous DEF BorrowIndex, LiquidityIndex
  <1>6. Accrued(d).liquidity_index = LiquidityIndex(d)
    BY <1>4 DEF AccruedTo, LiquidityIndex
  <1> QED
    BY <1>3, <1>4, <1>5, <1>6 DEF Claims, Market, Uint

\* Interest that is stored is not stored a second time.
LEMMA AccruedOnce ==
    ASSUME NEW m, SoundMarket(m), NEW t \in Nat, m.indexes_last_updated = t
    PROVE  /\ ApplyAccumulatedInterests(m, t).collateral_total_scaled
                = m.collateral_total_scaled
           /\ ApplyAccumulatedInterests(m, t).liquidity_index = m.liquidity_index
  <1>1. /\ m \in Market
        /\ m.collateral_total_scaled \in Nat
        /\ m.debt_total_scaled \in Nat
        /\ m.reserve_factor \in Nat
        /\ m.borrow_index \in Nat \ {0}
        /\ m.liquidity_index \in Nat \ {0}
    BY DEF SoundMarket, Market, Decimal, Uint
  <1>2. /\ UpdatedBorrowIndex(m, t) = m.borrow_index
        /\ UpdatedLiquidityIndex(m, t) = m.liquidity_index
    BY DEF UpdatedBorrowIndex, UpdatedLiquidityIndex
  <1>3. AccruedProtocolRewards(m, t) = 0
    <2>1. UnderlyingCeil(m.debt_total_scaled, m.borrow_index) \in Nat
      BY <1>1, UnderlyingType
    <2>2. AccruedProtocolRewards(m, t) = UintMul(0, m.reserve_factor)
      BY <1>2, <2>1 DEF AccruedProtocolRewards
    <2> QED
      BY <1>1, <2>2, OneAssumption DEF UintMul
  <1>4. ScaledLiquidity(0, m, t) = 0
    <2>1. 0 \div m.liquidity_index = 0
      BY <1>1
    <2>2. (0 * ScalingFactor) * One = 0
      BY OneAssumption, ScalingAssumption
    <2> QED
      BY <1>2, <2>1, <2>2 DEF ScaledLiquidity, ScaledFloor, DivideUintByDecimal
  <1> QED
    BY <1>1, <1>2, <1>3, <1>4 DEF ApplyAccumulatedInterests, Market

\* What a handler saves for d is worth what it computed; other markets stay.
LEMMA SavedClaims ==
    ASSUME Sound, Sound', now' = now, NEW d \in DOMAIN markets,
           NEW x \in Market, AccruedTo(x, markets[d], now), SaveMarket(d, x)
    PROVE  /\ Claims(d)' = UnderlyingFloor(x.collateral_total_scaled, LiquidityIndex(d))
           /\ \A e \in DOMAIN markets \ {d} : Claims(e)' = Claims(e)
  <1> DEFINE r == UpdateInterestRates(x, now)
  <1>1. markets' = Save(markets, d, r)
    BY DEF SaveMarket
  <1>2. markets'[d] = r /\ d \in DOMAIN markets'
    BY <1>1 DEF Save
  <1>3. SoundMarket(r) /\ now \in Nat
    BY <1>2 DEF Sound, TypeOK
  <1>4. /\ r.collateral_total_scaled = x.collateral_total_scaled
        /\ r.liquidity_index = LiquidityIndex(d)
        /\ r.indexes_last_updated = now
    BY DEF UpdateInterestRates, Market, AccruedTo, LiquidityIndex
  <1>5. Claims(d)' = UnderlyingFloor(ApplyAccumulatedInterests(r, now).collateral_total_scaled,
                                     ApplyAccumulatedInterests(r, now).liquidity_index)
    BY <1>2 DEF Claims, Accrued
  <1> HIDE DEF r
  <1>6. ASSUME NEW e \in DOMAIN markets \ {d} PROVE Claims(e)' = Claims(e)
    <2>1. markets'[e] = markets[e]
      BY <1>1 DEF Save
    <2> QED
      BY <2>1 DEF Claims, Accrued
  <1> QED
    BY <1>3, <1>4, <1>5, <1>6, AccruedOnce

ClaimsKept == \A e \in DOMAIN markets : Claims(e)' = Claims(e)

\* The four ways to change a total.
LEMMA SavedTotalsClaims ==
    ASSUME Sound, Sound', now' = now, NEW d \in DOMAIN markets, NEW s \in Nat
    PROVE  /\ s <= Accrued(d).debt_total_scaled
                /\ SaveMarket(d, DecreaseTotalDebt(Accrued(d), s)) => ClaimsKept
           /\ SaveMarket(d, IncreaseTotalDebt(Accrued(d), s)) => ClaimsKept
           /\ SaveMarket(d, IncreaseTotalCollateral(Accrued(d), s)) =>
                /\ Claims(d)' = UnderlyingFloor(Accrued(d).collateral_total_scaled + s,
                                                LiquidityIndex(d))
                /\ \A e \in DOMAIN markets \ {d} : Claims(e)' = Claims(e)
           /\ s <= Accrued(d).collateral_total_scaled
                /\ SaveMarket(d, DecreaseTotalCollateral(Accrued(d), s)) =>
                /\ Claims(d)' = UnderlyingFloor(Accrued(d).collateral_total_scaled - s,
                                                LiquidityIndex(d))
                /\ \A e \in DOMAIN markets \ {d} : Claims(e)' = Claims(e)
  <1> DEFINE m == Accrued(d)
  <1>1. /\ SoundMarket(m) /\ m \in Market
        /\ AccruedTo(m, markets[d], now)
        /\ Claims(d) = UnderlyingFloor(m.collateral_total_scaled, LiquidityIndex(d))
    BY AccruedMarket, IndexesType DEF Accrued
  <1> HIDE DEF m
  <1>2. ASSUME NEW x, SoundMarket(x), AccruedTo(x, markets[d], now), SaveMarket(d, x)
        PROVE  /\ Claims(d)' = UnderlyingFloor(x.collateral_total_scaled, LiquidityIndex(d))
               /\ \A e \in DOMAIN markets \ {d} : Claims(e)' = Claims(e)
               /\ x.collateral_total_scaled = m.collateral_total_scaled => ClaimsKept
    <2>1. x \in Market
      BY <1>2 DEF SoundMarket
    <2>2. /\ Claims(d)' = UnderlyingFloor(x.collateral_total_scaled, LiquidityIndex(d))
          /\ \A e \in DOMAIN markets \ {d} : Claims(e)' = Claims(e)
      BY <1>2, <2>1, SavedClaims
    <2> QED
      BY <1>1, <2>2 DEF ClaimsKept
  <1>3. /\ AccruedTo(IncreaseTotalCollateral(m, s), markets[d], now)
        /\ AccruedTo(DecreaseTotalCollateral(m, s), markets[d], now)
        /\ AccruedTo(IncreaseTotalDebt(m, s), markets[d], now)
        /\ AccruedTo(DecreaseTotalDebt(m, s), markets[d], now)
    BY <1>1, TotalsKeepAccrual
  <1>4. /\ SoundMarket(IncreaseTotalCollateral(m, s))
        /\ SoundMarket(IncreaseTotalDebt(m, s))
        /\ s <= m.collateral_total_scaled => SoundMarket(DecreaseTotalCollateral(m, s))
        /\ s <= m.debt_total_scaled => SoundMarket(DecreaseTotalDebt(m, s))
    BY <1>1, TotalsType
  <1>5. /\ IncreaseTotalCollateral(m, s).collateral_total_scaled = m.collateral_total_scaled + s
        /\ DecreaseTotalCollateral(m, s).collateral_total_scaled = m.collateral_total_scaled - s
        /\ IncreaseTotalDebt(m, s).collateral_total_scaled = m.collateral_total_scaled
        /\ DecreaseTotalDebt(m, s).collateral_total_scaled = m.collateral_total_scaled
    BY <1>1 DEF Market, IncreaseTotalCollateral, DecreaseTotalCollateral,
                IncreaseTotalDebt, DecreaseTotalDebt
  <1>6. ASSUME s <= m.debt_total_scaled, SaveMarket(d, DecreaseTotalDebt(m, s))
        PROVE  ClaimsKept
    BY <1>2, <1>3, <1>4, <1>5, <1>6
  <1>7. ASSUME SaveMarket(d, IncreaseTotalDebt(m, s)) PROVE ClaimsKept
    BY <1>2, <1>3, <1>4, <1>5, <1>7
  <1>8. ASSUME SaveMarket(d, IncreaseTotalCollateral(m, s))
        PROVE  /\ Claims(d)' = UnderlyingFloor(m.collateral_total_scaled + s, LiquidityIndex(d))
               /\ \A e \in DOMAIN markets \ {d} : Claims(e)' = Claims(e)
    BY <1>2, <1>3, <1>4, <1>5, <1>8
  <1>9. ASSUME s <= m.collateral_total_scaled, SaveMarket(d, DecreaseTotalCollateral(m, s))
        PROVE  /\ Claims(d)' = UnderlyingFloor(m.collateral_total_scaled - s, LiquidityIndex(d))
               /\ \A e \in DOMAIN markets \ {d} : Claims(e)' = Claims(e)
    BY <1>2, <1>3, <1>4, <1>5, <1>9
  <1> QED
    BY <1>6, <1>7, <1>8, <1>9 DEF m

\* Parameters that are not those of the rates do not enter accrual.
LEMMA ReparametrisedClaims ==
    ASSUME Sound, NEW d \in DOMAIN markets, NEW r, Reparametrised(r, markets[d])
    PROVE  /\ ApplyAccumulatedInterests(r, now).collateral_total_scaled
                = Accrued(d).collateral_total_scaled
           /\ ApplyAccumulatedInterests(r, now).liquidity_index = Accrued(d).liquidity_index
  <1> DEFINE m == markets[d]
  <1>1. r \in Market /\ m \in Market
    BY DEF Sound, SoundMarket, Reparametrised
  <1>2. /\ UpdatedBorrowIndex(r, now) = UpdatedBorrowIndex(m, now)
        /\ UpdatedLiquidityIndex(r, now) = UpdatedLiquidityIndex(m, now)
    BY DEF Reparametrised, UpdatedBorrowIndex, UpdatedLiquidityIndex
  <1>3. AccruedProtocolRewards(r, now) = AccruedProtocolRewards(m, now)
    BY <1>2 DEF Reparametrised, AccruedProtocolRewards
  <1>4. ScaledLiquidity(AccruedProtocolRewards(r, now), r, now)
          = ScaledLiquidity(AccruedProtocolRewards(m, now), m, now)
    BY <1>2, <1>3 DEF ScaledLiquidity
  <1>5. r.collateral_total_scaled = m.collateral_total_scaled
    BY DEF Reparametrised
  <1> HIDE DEF m
  <1>6. /\ ApplyAccumulatedInterests(r, now).collateral_total_scaled
             = ApplyAccumulatedInterests(m, now).collateral_total_scaled
        /\ ApplyAccumulatedInterests(r, now).liquidity_index
             = ApplyAccumulatedInterests(m, now).liquidity_index
    BY <1>1, <1>2, <1>4, <1>5 DEF ApplyAccumulatedInterests, Market
  <1> QED
    BY <1>6 DEF Accrued, m

LEMMA UpdateAssetClaims ==
    ASSUME Sound, Sound', NEW sender \in Admin, NEW d \in Denom,
           NEW input \in UpdateInput, UpdateAsset(sender, d, input)
    PROVE  ClaimsKept
  <1>1. /\ d \in DOMAIN markets /\ now' = now
        /\ UpdateAssetByOwner(d, input) \/ UpdateAssetByEmergencyOwner(d, input)
    BY DEF UpdateAsset
  <1>2. CASE UpdateAssetByOwner(d, input) /\ TouchesRates(markets[d], input)
    <2> DEFINE m == Accrued(d)
               x == WithParams(m, input)
    <2>1. SaveMarket(d, x)
      BY <1>2 DEF UpdateAssetByOwner, SaveMarket, Accrued
    <2>2. m \in Market /\ AccruedTo(m, markets[d], now)
      BY <1>1, AccruedMarket DEF Accrued
    <2>3. Claims(d) = UnderlyingFloor(m.collateral_total_scaled, LiquidityIndex(d))
      BY <1>1, IndexesType
    <2> HIDE DEF m
    <2>4. /\ x \in Market
          /\ x.collateral_total_scaled = m.collateral_total_scaled
          /\ AccruedTo(x, markets[d], now)
      BY <2>2, WithParamsType DEF AccruedTo
    <2> HIDE DEF x
    <2>5. /\ Claims(d)' = UnderlyingFloor(x.collateral_total_scaled, LiquidityIndex(d))
          /\ \A e \in DOMAIN markets \ {d} : Claims(e)' = Claims(e)
      BY <1>1, <2>1, <2>4, SavedClaims
    <2> QED
      BY <2>3, <2>4, <2>5 DEF ClaimsKept
  <1>3. ASSUME NEW r, Reparametrised(r, markets[d]), markets' = Save(markets, d, r)
        PROVE  ClaimsKept
    <2>1. markets'[d] = r /\ \A e \in DOMAIN markets \ {d} : markets'[e] = markets[e]
      BY <1>3 DEF Save
    <2>2. /\ ApplyAccumulatedInterests(r, now).collateral_total_scaled
               = Accrued(d).collateral_total_scaled
          /\ ApplyAccumulatedInterests(r, now).liquidity_index = Accrued(d).liquidity_index
      BY <1>1, <1>3, ReparametrisedClaims
    <2>3. Claims(d)' = Claims(d)
      BY <1>1, <2>1, <2>2 DEF Claims, Accrued
    <2>4. \A e \in DOMAIN markets \ {d} : Claims(e)' = Claims(e)
      BY <1>1, <2>1 DEF Claims, Accrued
    <2> QED
      BY <2>3, <2>4 DEF ClaimsKept
  <1>4. SoundMarket(markets[d]) /\ markets[d] \in Market
    BY <1>1 DEF Sound, SoundMarket
  <1>5. CASE UpdateAssetByOwner(d, input) /\ ~TouchesRates(markets[d], input)
    <2> DEFINE x == WithParams(markets[d], input)
    <2>1. ValidMarket(x) /\ markets' = Save(markets, d, x)
      BY <1>5 DEF UpdateAssetByOwner
    <2>2. /\ Given(input, "interest_rate_model", markets[d].interest_rate_model)
               = markets[d].interest_rate_model
          /\ Given(input, "reserve_factor", markets[d].reserve_factor)
               = markets[d].reserve_factor
      BY <1>5 DEF TouchesRates, Given
    <2>3. Reparametrised(x, markets[d])
      BY <1>4, <2>1, <2>2, WithParamsType DEF Reparametrised, SoundMarket
    <2> QED
      BY <1>3, <2>1, <2>3
  <1>6. CASE UpdateAssetByEmergencyOwner(d, input)
    <2> DEFINE x == [markets[d] EXCEPT !.borrow_enabled = FALSE]
    <2>1. IsMap(markets, Denom, Market)
      BY DEF Sound, TypeOK
    <2>2. markets' = Save(markets, d, x)
      BY <1>1, <1>6, <2>1 DEF UpdateAssetByEmergencyOwner, Save, IsMap
    <2>3. Reparametrised(x, markets[d])
      BY <1>4 DEF Reparametrised, SoundMarket, ValidMarket, Market
    <2> QED
      BY <1>3, <2>2, <2>3
  <1> QED
    BY <1>1, <1>2, <1>5, <1>6

\* A market that is opened was not there, so the others' claims stay.
LEMMA InitAssetClaims ==
    ASSUME Sound, NEW sender \in Admin, NEW d \in Denom, NEW input \in AssetInput,
           InitAsset(sender, d, input)
    PROVE  ClaimsKept
  <1>1. now' = now /\ d \notin DOMAIN markets
        /\ markets' = Save(markets, d, NewMarket(input))
    BY DEF InitAsset
  <1>2. \A e \in DOMAIN markets : markets'[e] = markets[e]
    BY <1>1 DEF Save
  <1> QED
    BY <1>1, <1>2 DEF ClaimsKept, Claims, Accrued

\* Where indexes are continuous, the same shares are the same coins.
LEMMA IndexesStay ==
    ASSUME Sound, [Next]_vars, now' = now, NEW d \in DOMAIN markets
    PROVE  /\ d \in DOMAIN markets'
           /\ BorrowIndex(d)' = BorrowIndex(d)
           /\ LiquidityIndex(d)' = LiquidityIndex(d)
  <1>1. d \in DOMAIN markets'
    BY MarketsStay
  <1>2. /\ UpdatedBorrowIndex(markets[d], now)' = UpdatedBorrowIndex(markets[d], now)
        /\ UpdatedLiquidityIndex(markets[d], now)' = UpdatedLiquidityIndex(markets[d], now)
    BY MarketsStep, ChangedMarketsContinuous
  <1> QED
    BY <1>1, <1>2 DEF BorrowIndex, LiquidityIndex

LEMMA CoinsOfShares ==
    ASSUME Sound, [Next]_vars, now' = now, NEW d \in DOMAIN markets, NEW u \in User
    PROVE  /\ DebtOf(u, d) = UnderlyingCeil(DebtScaled(u, d), BorrowIndex(d))
           /\ DebtOf(u, d)' = UnderlyingCeil(DebtScaled(u, d)', BorrowIndex(d))
           /\ CollateralOf(u, d) = UnderlyingFloor(CollateralScaled(u, d), LiquidityIndex(d))
           /\ CollateralOf(u, d)' = UnderlyingFloor(CollateralScaled(u, d)', LiquidityIndex(d))
  <1>1. /\ d \in DOMAIN markets'
        /\ BorrowIndex(d)' = BorrowIndex(d)
        /\ LiquidityIndex(d)' = LiquidityIndex(d)
    BY IndexesStay
  <1> QED
    BY <1>1 DEF DebtOf, CollateralOf, UnderlyingDebt, UnderlyingLiquidity,
                BorrowIndex, LiquidityIndex

LEMMA SameSharesSameCoins ==
    ASSUME Sound, Sound', SharesHaveMarkets, [Next]_vars, now' = now,
           NEW u \in User, NEW d \in Denom
    PROVE  /\ DebtScaled(u, d)' = DebtScaled(u, d) => DebtOf(u, d)' = DebtOf(u, d)
           /\ CollateralScaled(u, d)' = CollateralScaled(u, d)
                => CollateralOf(u, d)' = CollateralOf(u, d)
  <1>1. CASE d \in DOMAIN markets
    BY <1>1, CoinsOfShares
  <1>2. CASE d \notin DOMAIN markets
    <2>1. /\ DebtScaled(u, d) = 0 /\ CollateralScaled(u, d) = 0
          /\ DebtOf(u, d) = 0 /\ CollateralOf(u, d) = 0
      BY <1>2 DEF SharesHaveMarkets, DebtOf, CollateralOf
    <2>2. CASE d \notin DOMAIN markets'
      BY <2>1, <2>2 DEF DebtOf, CollateralOf
    <2>3. CASE d \in DOMAIN markets'
      <3>1. BorrowIndex(d)' \in Nat /\ LiquidityIndex(d)' \in Nat
        <4>1. SoundMarket(markets'[d]) /\ now' \in Nat
          BY <2>3 DEF Sound, TypeOK
        <4> QED
          BY <4>1, UpdatedIndexesGrow DEF SoundMarket, BorrowIndex, LiquidityIndex
      <3>2. /\ DebtOf(u, d)' = UnderlyingCeil(DebtScaled(u, d)', BorrowIndex(d)')
            /\ CollateralOf(u, d)'
                 = UnderlyingFloor(CollateralScaled(u, d)', LiquidityIndex(d)')
        BY <2>3 DEF DebtOf, CollateralOf, UnderlyingDebt, UnderlyingLiquidity,
                    BorrowIndex, LiquidityIndex
      <3>3. /\ UnderlyingCeil(0, BorrowIndex(d)') = 0
            /\ UnderlyingFloor(0, LiquidityIndex(d)') = 0
        BY <3>1, NoUnderlying
      <3> QED
        BY <2>1, <3>2, <3>3
    <2> QED
      BY <2>2, <2>3
  <1> QED
    BY <1>1, <1>2

-----------------------------------------------------------------------------
(***************************************************************************)
(* What each message moves, in coins                                       *)
(***************************************************************************)

\* In the step, the contract gains `coins` of d, and of no other denom any.
CashMoves(d, coins) ==
    \A e \in Denom : balance'[e] = balance[e] + IF e = d THEN coins ELSE 0

\* No debt, and no deposit, but those listed changes by a coin.
DebtsMoveAt(accounts) ==
    \A u \in User, d \in Denom : <<u, d>> \notin accounts => DebtOf(u, d)' = DebtOf(u, d)

CollateralsMoveAt(accounts) ==
    \A u \in User, d \in Denom :
        <<u, d>> \notin accounts => CollateralOf(u, d)' = CollateralOf(u, d)

ClaimsMoveAt(d) == \A e \in DOMAIN markets \ {d} : Claims(e)' = Claims(e)

\* A transaction: time stands still.
InBlock ==
    /\ Sound /\ Sound' /\ SharesHaveMarkets
    /\ [Next]_vars
    /\ now' = now

LEMMA Collaterals ==
    ASSUME NEW u, NEW d
    PROVE  /\ CollateralScaled(u, d) = AmountIn(collaterals, u, d)
           /\ CollateralScaled(u, d)' = AmountIn(collaterals', u, d)
  BY DEF CollateralScaled, HasCollateral, AmountIn

LEMMA SameDebts ==
    ASSUME InBlock, debts' = debts PROVE DebtsMoveAt({})
  <1>1. ASSUME NEW u \in User, NEW d \in Denom PROVE DebtOf(u, d)' = DebtOf(u, d)
    <2>1. DebtScaled(u, d)' = DebtScaled(u, d)
      BY DEF DebtScaled, HasDebt
    <2> QED
      BY <2>1, SameSharesSameCoins DEF InBlock
  <1> QED
    BY <1>1 DEF DebtsMoveAt

LEMMA SameCollaterals ==
    ASSUME InBlock, \A u \in User, d \in Denom :
                            CollateralScaled(u, d)' = CollateralScaled(u, d)
    PROVE  CollateralsMoveAt({})
  <1>1. ASSUME NEW u \in User, NEW d \in Denom PROVE CollateralOf(u, d)' = CollateralOf(u, d)
    BY SameSharesSameCoins DEF InBlock
  <1> QED
    BY <1>1 DEF CollateralsMoveAt

LEMMA CashType ==
    ASSUME Sound, NEW d \in Denom, NEW n \in Int,
           balance' = [balance EXCEPT ![d] = @ + n]
    PROVE  CashMoves(d, n)
  <1>1. balance \in [Denom -> Nat]
    BY DEF Sound, TypeOK
  <1> QED
    BY <1>1 DEF CashMoves

LEMMA DepositCoins ==
    ASSUME InBlock, NEW u \in User, NEW d \in Denom, NEW amount \in Amount,
           Deposit(u, d, amount)
    PROVE  /\ d \in DOMAIN markets /\ amount \in Nat \ {0}
           /\ CashMoves(d, amount)
           /\ DebtsMoveAt({})
           /\ CollateralsMoveAt({<<u, d>>})
           /\ ClaimsMoveAt(d)
           /\ Claims(d)' <= Claims(d) + amount
           /\ CollateralOf(u, d)' <= CollateralOf(u, d) + amount
           /\ LiquidityIndex(d) <= Coin =>
                CollateralOf(u, d) + amount - 1 <= CollateralOf(u, d)'
  <1> DEFINE i == LiquidityIndex(d)
             s == ScaledFloor(amount, i)
             t == Accrued(d).collateral_total_scaled
  <1>1. /\ Sound /\ Sound' /\ now' = now /\ amount \in Nat \ {0} /\ d \in DOMAIN markets
        /\ balance' = [balance EXCEPT ![d] = @ + amount] /\ debts' = debts
    BY InputAssumption DEF InBlock, Deposit
  <1>2. /\ i \in Nat \ {0} /\ t \in Nat
        /\ UpdatedLiquidityIndex(Accrued(d), now) = i
        /\ Claims(d) = UnderlyingFloor(t, i)
    BY <1>1, IndexesType
  <1>3. /\ collaterals' = IncreaseCollateral(collaterals, u, d, s)
        /\ SaveMarket(d, IncreaseTotalCollateral(Accrued(d), s))
    BY <1>2 DEF Deposit, ScaledLiquidity, Accrued
  <1>4. s \in Nat
    BY <1>1, <1>2, ScaleTypes
  <1>5. /\ Claims(d)' = UnderlyingFloor(t + s, i)
        /\ ClaimsMoveAt(d)
    BY <1>1, <1>3, <1>4, SavedTotalsClaims DEF ClaimsMoveAt
  <1>6. ASSUME NEW v \in User, NEW e \in Denom
        PROVE  CollateralScaled(v, e)'
                 = CollateralScaled(v, e) + IF <<v, e>> = <<u, d>> THEN s ELSE 0
    <2>1. IsMap(collaterals, Position, Collateral)
      BY <1>1 DEF Sound, TypeOK
    <2> HIDE DEF s
    <2> QED
      BY <1>3, <1>4, <2>1, IncreaseCollateralEffect, Collaterals
  <1>7. \A v \in User, e \in Denom : CollateralScaled(v, e) \in Nat
    BY <1>1, PositionTypes DEF Sound
  <1>8. CollateralScaled(u, d)' = CollateralScaled(u, d) + s
    BY <1>6
  <1>9. CollateralsMoveAt({<<u, d>>})
    <2>1. ASSUME NEW v \in User, NEW e \in Denom, <<v, e>> \notin {<<u, d>>}
          PROVE  CollateralOf(v, e)' = CollateralOf(v, e)
      <3>1. CollateralScaled(v, e)' = CollateralScaled(v, e)
        BY <1>6, <1>7, <2>1
      <3> QED
        BY <3>1, SameSharesSameCoins DEF InBlock
    <2> QED
      BY <2>1 DEF CollateralsMoveAt
  <1> DEFINE b == CollateralScaled(u, d)
  <1>10. /\ CollateralOf(u, d) = UnderlyingFloor(b, i)
         /\ CollateralOf(u, d)' = UnderlyingFloor(b + s, i)
    BY <1>1, <1>8, CoinsOfShares DEF InBlock
  <1>11. CashMoves(d, amount) /\ DebtsMoveAt({})
    <2>1. amount \in Int
      BY <1>1
    <2>2. CashMoves(d, amount)
      BY <1>1, <2>1, CashType
    <2>3. DebtsMoveAt({})
      BY <1>1, SameDebts
    <2> QED
      BY <2>2, <2>3
  <1> HIDE DEF i, t, b
  <1>12. b \in Nat
    BY <1>7 DEF b
  <1>13. /\ Claims(d)' <= Claims(d) + amount
         /\ CollateralOf(u, d)' <= CollateralOf(u, d) + amount
         /\ i <= Coin => CollateralOf(u, d) + amount - 1 <= CollateralOf(u, d)'
    <2>1. UnderlyingFloor(t + s, i) <= UnderlyingFloor(t, i) + amount
      BY <1>1, <1>2, AddedCoins
    <2>2. /\ UnderlyingFloor(b + s, i) <= UnderlyingFloor(b, i) + amount
          /\ i <= Coin => UnderlyingFloor(b, i) + amount - 1 <= UnderlyingFloor(b + s, i)
      BY <1>1, <1>2, <1>12, AddedCoins
    <2> HIDE DEF s
    <2> QED
      BY <1>2, <1>5, <1>10, <2>1, <2>2
  <1> QED
    BY <1>1, <1>5, <1>9, <1>11, <1>13 DEF i

LEMMA WithdrawCoins ==
    ASSUME InBlock, NEW u \in User, NEW d \in Denom,
           NEW request \in Amount \cup {None}, Withdraw(u, d, request)
    PROVE  \E amount \in Nat \ {0} :
           /\ d \in DOMAIN markets
           /\ amount <= CollateralOf(u, d)
           /\ CashMoves(d, -amount)
           /\ DebtsMoveAt({})
           /\ CollateralsMoveAt({<<u, d>>})
           /\ ClaimsMoveAt(d)
           /\ Claims(d)' <= Claims(d) - amount
           /\ CollateralOf(u, d)' <= CollateralOf(u, d) - amount
           /\ LiquidityIndex(d) <= Coin =>
                CollateralOf(u, d) - amount - 1 <= CollateralOf(u, d)'
  <1> DEFINE i == LiquidityIndex(d)
             b == CollateralScaled(u, d)
             owned == UnderlyingFloor(b, i)
             amount == IF request = None THEN owned ELSE request
             z == ScaledFloor(owned - amount, i)
             s == b - z
             t == Accrued(d).collateral_total_scaled
  <1>1. /\ Sound /\ Sound' /\ now' = now /\ d \in DOMAIN markets
        /\ debts' = debts /\ b # 0
    BY DEF InBlock, Withdraw
  <1>2. /\ i \in Nat \ {0} /\ t \in Nat
        /\ UpdatedLiquidityIndex(Accrued(d), now) = i
        /\ Claims(d) = UnderlyingFloor(t, i)
    BY <1>1, IndexesType
  <1>3. b \in Nat /\ (request # None => request \in Nat)
    BY <1>1, InputAssumption, PositionTypes DEF Sound
  <1>4. owned = UnderlyingLiquidity(b, markets[d], now)
    BY DEF UnderlyingLiquidity, LiquidityIndex
  <1>5. WithdrawnShares(u, d, amount) = s
    BY <1>2, <1>4 DEF WithdrawnShares, ScaledLiquidity, Accrued
  <1>6. /\ amount <= owned
        /\ 0 <= s
        /\ collaterals' = DecreaseCollateral(collaterals, u, d, s)
        /\ s <= t
        /\ SaveMarket(d, DecreaseTotalCollateral(Accrued(d), s))
        /\ CanSend(d, amount)
        /\ balance' = [balance EXCEPT ![d] = @ - amount]
    BY <1>4, <1>5 DEF Withdraw, Accrued
  <1>7. owned \in Nat /\ amount \in Nat
    <2>1. owned \in Nat
      BY <1>2, <1>3, ScaleTypes
    <2> QED
      BY <1>3, <2>1
  <1>8. amount # 0
    BY <1>6, <1>7 DEF CanSend
  <1> HIDE DEF amount
  <1>9. z \in Nat /\ owned - amount \in Nat
    <2>1. owned - amount \in Nat
      <3> HIDE DEF owned
      <3> QED
        BY <1>6, <1>7
    <2> QED
      BY <1>2, <2>1, ScaleTypes
  <1>10. s \in Nat
    <2> HIDE DEF z
    <2> QED
      BY <1>3, <1>6, <1>9
  <1>11. /\ Claims(d)' = UnderlyingFloor(t - s, i)
         /\ ClaimsMoveAt(d)
    <2> HIDE DEF s, t, i
    <2>1. s <= Accrued(d).collateral_total_scaled
      BY <1>6 DEF t
    <2> QED
      BY <1>1, <1>6, <1>10, <2>1, SavedTotalsClaims DEF ClaimsMoveAt, t, i
  <1>12. Claims(d)' <= Claims(d) - amount
    <2>1. UnderlyingFloor(t - s, i) <= UnderlyingFloor(t, i) - amount
      <3> HIDE DEF t
      <3> QED
        BY <1>2, <1>3, <1>6, <1>7, WithdrawnWorth
    <2> QED
      BY <1>2, <1>11, <2>1
  <1>13. ASSUME NEW v \in User, NEW e \in Denom
         PROVE  CollateralScaled(v, e)'
                  = CollateralScaled(v, e) - IF <<v, e>> = <<u, d>> THEN s ELSE 0
    <2>1. IsMap(collaterals, Position, Collateral)
      BY <1>1 DEF Sound, TypeOK
    <2>2. <<u, d>> \in DOMAIN collaterals
      BY <1>1 DEF CollateralScaled, HasCollateral
    <2> HIDE DEF s
    <2> QED
      BY <1>6, <1>10, <2>1, <2>2, DecreaseCollateralEffect, Collaterals
  <1>14. \A v \in User, e \in Denom : CollateralScaled(v, e) \in Nat
    BY <1>1, PositionTypes DEF Sound
  <1>15. CollateralsMoveAt({<<u, d>>})
    <2>1. ASSUME NEW v \in User, NEW e \in Denom, <<v, e>> \notin {<<u, d>>}
          PROVE  CollateralOf(v, e)' = CollateralOf(v, e)
      <3>1. CollateralScaled(v, e)' = CollateralScaled(v, e)
        BY <1>13, <1>14, <2>1
      <3> QED
        BY <3>1, SameSharesSameCoins DEF InBlock
    <2> QED
      BY <2>1 DEF CollateralsMoveAt
  <1>16. CollateralScaled(u, d)' = z
    <2>1. CollateralScaled(u, d)' = b - s
      BY <1>13
    <2> HIDE DEF z, b
    <2> QED
      BY <1>3, <1>9, <2>1
  <1>17. CollateralOf(u, d) = owned /\ CollateralOf(u, d)' = UnderlyingFloor(z, i)
    BY <1>1, <1>16, CoinsOfShares DEF InBlock
  <1>18. /\ UnderlyingFloor(z, i) <= owned - amount
         /\ i <= Coin => owned - amount - 1 <= UnderlyingFloor(z, i)
    <2> HIDE DEF owned
    <2> QED
      BY <1>2, <1>9, RoundTrip
  <1>19. CashMoves(d, -amount)
    <2>1. balance \in [Denom -> Nat] /\ -amount \in Int
      BY <1>1, <1>7 DEF Sound, TypeOK
    <2>2. balance' = [balance EXCEPT ![d] = @ + (-amount)]
      BY <1>6, <1>7, <2>1
    <2> QED
      BY <1>1, <2>1, <2>2, CashType
  <1>20. DebtsMoveAt({})
    BY <1>1, SameDebts
  <1> HIDE DEF i, owned, z
  <1> QED
    BY <1>1, <1>6, <1>7, <1>8, <1>11, <1>12, <1>15, <1>17, <1>18, <1>19, <1>20 DEF i

LEMMA BorrowCoins ==
    ASSUME InBlock, NEW u \in User, NEW d \in Denom, NEW amount \in Amount,
           Borrow(u, d, amount)
    PROVE  /\ d \in DOMAIN markets /\ amount \in Nat \ {0}
           /\ CashMoves(d, -amount)
           /\ CollateralsMoveAt({})
           /\ DebtsMoveAt({<<u, d>>})
           /\ ClaimsKept
           /\ DebtOf(u, d) + amount <= DebtOf(u, d)'
           /\ BorrowIndex(d) <= Coin => DebtOf(u, d)' <= DebtOf(u, d) + amount + 1
  <1> DEFINE i == BorrowIndex(d)
             s == ScaledCeil(amount, i)
             b == DebtScaled(u, d)
  <1>1. /\ Sound /\ Sound' /\ now' = now /\ amount \in Nat \ {0} /\ d \in DOMAIN markets
        /\ balance' = [balance EXCEPT ![d] = @ - amount] /\ collaterals' = collaterals
    BY InputAssumption DEF InBlock, Borrow
  <1>2. /\ i \in Nat \ {0}
        /\ UpdatedBorrowIndex(Accrued(d), now) = i
    BY <1>1, IndexesType
  <1>3. /\ debts' = IncreaseDebt(u, d, s, Limit(u, d) # 0)
        /\ SaveMarket(d, IncreaseTotalDebt(Accrued(d), s))
    BY <1>2 DEF Borrow, ScaledDebt, Accrued
  <1>4. s \in Nat
    BY <1>1, <1>2, ScaleTypes
  <1>5. ClaimsKept
    BY <1>1, <1>3, <1>4, SavedTotalsClaims
  <1>6. ASSUME NEW v \in User, NEW e \in Denom
        PROVE  DebtScaled(v, e)'
                 = DebtScaled(v, e) + IF <<v, e>> = <<u, d>> THEN s ELSE 0
    <2> HIDE DEF s
    <2> QED
      BY <1>1, <1>3, <1>4, IncreaseDebtEffect
  <1>7. \A v \in User, e \in Denom : DebtScaled(v, e) \in Nat
    BY <1>1, PositionTypes DEF Sound
  <1>8. DebtScaled(u, d)' = b + s
    BY <1>6
  <1>9. DebtsMoveAt({<<u, d>>})
    <2>1. ASSUME NEW v \in User, NEW e \in Denom, <<v, e>> \notin {<<u, d>>}
          PROVE  DebtOf(v, e)' = DebtOf(v, e)
      <3>1. DebtScaled(v, e)' = DebtScaled(v, e)
        BY <1>6, <1>7, <2>1
      <3> QED
        BY <3>1, SameSharesSameCoins DEF InBlock
    <2> QED
      BY <2>1 DEF DebtsMoveAt
  <1>10. /\ DebtOf(u, d) = UnderlyingCeil(b, i)
         /\ DebtOf(u, d)' = UnderlyingCeil(b + s, i)
    BY <1>1, <1>8, CoinsOfShares DEF InBlock
  <1>11. CashMoves(d, -amount)
    <2>1. balance \in [Denom -> Nat] /\ -amount \in Int
      BY <1>1 DEF Sound, TypeOK
    <2>2. balance' = [balance EXCEPT ![d] = @ + (-amount)]
      BY <1>1, <2>1
    <2> QED
      BY <1>1, <2>1, <2>2, CashType
  <1>12. CollateralsMoveAt({})
    <2>1. \A v \in User, e \in Denom : CollateralScaled(v, e)' = CollateralScaled(v, e)
      BY <1>1 DEF CollateralScaled, HasCollateral
    <2> QED
      BY <2>1, SameCollaterals
  <1>13. b \in Nat
    BY <1>7
  <1> HIDE DEF b, i
  <1>14. /\ UnderlyingCeil(b, i) + amount <= UnderlyingCeil(b + s, i)
         /\ i <= Coin => UnderlyingCeil(b + s, i) <= UnderlyingCeil(b, i) + amount + 1
    BY <1>1, <1>2, <1>13, AddedCoins
  <1> HIDE DEF s
  <1> QED
    BY <1>1, <1>5, <1>9, <1>10, <1>11, <1>12, <1>14 DEF i

\* A debt is scaled again from the coins that are left of it.
LEMMA PaidDebt ==
    ASSUME InBlock, NEW u \in User, NEW d \in DOMAIN markets, HasDebt(u, d),
           NEW left \in Nat,
           LET s == DebtScaled(u, d) - ScaledCeil(left, BorrowIndex(d))
           IN  /\ 0 <= s
               /\ s <= Accrued(d).debt_total_scaled
               /\ debts' = DecreaseDebt(u, d, s)
               /\ SaveMarket(d, DecreaseTotalDebt(Accrued(d), s))
    PROVE  /\ ClaimsKept
           /\ DebtsMoveAt({<<u, d>>})
           /\ left <= DebtOf(u, d)'
           /\ BorrowIndex(d) <= Coin => DebtOf(u, d)' <= left + 1
  <1> DEFINE i == BorrowIndex(d)
             b == DebtScaled(u, d)
             z == ScaledCeil(left, i)
             s == b - z
  <1>1. /\ Sound /\ Sound' /\ now' = now
    BY DEF InBlock
  <1>2. i \in Nat \ {0} /\ d \in Denom
    BY <1>1, IndexesType
  <1>3. z \in Nat
    BY <1>2, ScaleTypes
  <1>4. \A v \in User, e \in Denom : DebtScaled(v, e) \in Nat
    BY <1>1, PositionTypes DEF Sound
  <1>5. b \in Nat
    BY <1>2, <1>4
  <1>6. s \in Nat
    <2> HIDE DEF z, b
    <2>1. 0 <= s
      BY DEF z, b
    <2> QED
      BY <1>3, <1>5, <2>1
  <1>7. ClaimsKept
    <2> HIDE DEF s
    <2>1. /\ s <= Accrued(d).debt_total_scaled
          /\ SaveMarket(d, DecreaseTotalDebt(Accrued(d), s))
      BY DEF s
    <2> QED
      BY <1>1, <1>6, <2>1, SavedTotalsClaims
  <1>8. ASSUME NEW v \in User, NEW e \in Denom
        PROVE  DebtScaled(v, e)'
                 = DebtScaled(v, e) + IF <<v, e>> = <<u, d>> THEN -s ELSE 0
    <2>1. debts' = DecreaseDebt(u, d, s)
      OBVIOUS
    <2> HIDE DEF s
    <2> QED
      BY <1>1, <1>2, <1>6, <2>1, DecreaseDebtEffect
  <1>9. DebtScaled(u, d)' = z
    <2>1. DebtScaled(u, d)' = b + -s
      BY <1>2, <1>8
    <2> HIDE DEF z, b
    <2> QED
      BY <1>3, <1>5, <2>1
  <1>10. DebtsMoveAt({<<u, d>>})
    <2>1. ASSUME NEW v \in User, NEW e \in Denom, <<v, e>> \notin {<<u, d>>}
          PROVE  DebtOf(v, e)' = DebtOf(v, e)
      <3>1. DebtScaled(v, e)' = DebtScaled(v, e)
        BY <1>4, <1>8, <2>1
      <3> QED
        BY <3>1, SameSharesSameCoins DEF InBlock
    <2> QED
      BY <2>1 DEF DebtsMoveAt
  <1>11. DebtOf(u, d)' = UnderlyingCeil(z, i)
    BY <1>9, CoinsOfShares DEF InBlock
  <1>12. /\ left <= UnderlyingCeil(z, i)
         /\ i <= Coin => UnderlyingCeil(z, i) <= left + 1
    BY <1>2, RoundTrip
  <1> HIDE DEF z, s
  <1> QED
    BY <1>7, <1>10, <1>11, <1>12

LEMMA RepayCoins ==
    ASSUME InBlock, NEW u \in User, NEW d \in Denom, NEW amount \in Amount,
           NEW on_behalf_of \in BOOLEAN, Repay(u, d, amount, on_behalf_of)
    PROVE  \E paid \in Nat :
           /\ d \in DOMAIN markets
           /\ paid <= DebtOf(u, d)
           /\ CashMoves(d, paid)
           /\ CollateralsMoveAt({})
           /\ DebtsMoveAt({<<u, d>>})
           /\ ClaimsKept
           /\ DebtOf(u, d) - paid <= DebtOf(u, d)'
           /\ BorrowIndex(d) <= Coin => DebtOf(u, d)' <= DebtOf(u, d) - paid + 1
  <1> DEFINE i == BorrowIndex(d)
             b == DebtScaled(u, d)
             owed == UnderlyingCeil(b, i)
             left == LeftToRepay(owed, amount)
             paid == owed - left
             s == b - ScaledCeil(left, i)
  <1>1. /\ Sound /\ now' = now /\ amount \in Nat /\ d \in DOMAIN markets
        /\ HasDebt(u, d) /\ collaterals' = collaterals
    BY InputAssumption DEF InBlock, Repay
  <1>2. /\ i \in Nat \ {0}
        /\ UpdatedBorrowIndex(Accrued(d), now) = i
    BY <1>1, IndexesType
  <1>3. owed = UnderlyingDebt(b, ApplyAccumulatedInterests(markets[d], now), now)
    BY <1>2 DEF UnderlyingDebt, Accrued
  <1>4. RepaidShares(u, d, amount) = s
    BY <1>2, <1>3 DEF RepaidShares, ScaledDebt, Accrued
  <1>5. /\ 0 <= s
        /\ s <= Accrued(d).debt_total_scaled
        /\ debts' = DecreaseDebt(u, d, s)
        /\ SaveMarket(d, DecreaseTotalDebt(Accrued(d), s))
        /\ balance' = [balance EXCEPT ![d] = @ + paid]
    BY <1>3, <1>4 DEF Repay, Accrued
  <1>6. b \in Nat
    BY <1>1, PositionTypes DEF Sound
  <1>7. owed \in Nat
    BY <1>2, <1>6, UnderlyingType
  <1>8. DebtOf(u, d) = owed
    BY <1>1, CoinsOfShares DEF InBlock
  <1> HIDE DEF owed
  <1>9. left \in Nat /\ paid \in Nat
    BY <1>1, <1>7, LeftToRepayType
  <1> HIDE DEF left
  <1>10. paid <= owed /\ owed - paid = left
    BY <1>7, <1>9
  <1>11. /\ ClaimsKept
         /\ DebtsMoveAt({<<u, d>>})
         /\ left <= DebtOf(u, d)'
         /\ i <= Coin => DebtOf(u, d)' <= left + 1
    BY <1>1, <1>5, <1>9, PaidDebt
  <1>12. CashMoves(d, paid)
    <2> HIDE DEF paid
    <2>1. paid \in Int
      BY <1>9
    <2> QED
      BY <1>1, <1>5, <2>1, CashType
  <1>13. CollateralsMoveAt({})
    <2>1. \A v \in User, e \in Denom : CollateralScaled(v, e)' = CollateralScaled(v, e)
      BY <1>1 DEF CollateralScaled, HasCollateral
    <2> QED
      BY <2>1, SameCollaterals
  <1> HIDE DEF paid
  <1> QED
    BY <1>1, <1>8, <1>9, <1>10, <1>11, <1>12, <1>13

-----------------------------------------------------------------------------
(***************************************************************************)
(* Liquidation                                                             *)
(***************************************************************************)

LEMMA DivTight ==
    ASSUME NEW a \in Nat, NEW b \in Nat \ {0}
    PROVE  a \div b \in Nat /\ (a \div b) * b <= a /\ a < (a \div b) * b + b
  <1> DEFINE q == a \div b
             r == a % b
  <1>1. /\ q \in Nat /\ r \in Nat /\ r < b
        /\ a = q * b + r
    BY SMT
  <1> HIDE DEF q, r
  <1>2. q * b \in Nat
    BY <1>1, TimesType
  <1>3. q \in Nat /\ q * b <= a /\ a < q * b + b
    BY <1>1, <1>2
  <1> QED
    BY <1>3 DEF q

\* The collateral that a repayment buys is worth no more than the repayment
\* and the bonus.
LEMMA CollateralForWorth ==
    ASSUME NEW n \in Nat, NEW bonus \in Nat \ {0}, NEW cp \in Nat \ {0}, NEW dp \in Nat
    PROVE  /\ CollateralFor(n, bonus, cp, dp) \in Nat
           /\ (CollateralFor(n, bonus, cp, dp) * cp) * One <= (n * dp) * bonus
  <1> DEFINE p == n * dp
             a == p \div One
             q == a * bonus
             b == q \div One
             r == b * One
             w == r \div cp
  <1>1. p \in Nat
    BY TimesType
  <1> HIDE DEF p
  <1>2. a \in Nat /\ a * One <= p
    BY <1>1, OneAssumption, DivTight
  <1> HIDE DEF a
  <1>3. q \in Nat
    BY <1>2, TimesType
  <1> HIDE DEF q
  <1>4. b \in Nat /\ b * One <= q
    BY <1>3, OneAssumption, DivTight
  <1> HIDE DEF b
  <1>5. r \in Nat
    BY <1>4, OneAssumption, TimesType
  <1> HIDE DEF r
  <1>6. w \in Nat /\ w * cp <= r
    BY <1>5, DivTight
  <1>7. w = CollateralFor(n, bonus, cp, dp)
    BY DEF w, r, b, q, a, p, CollateralFor, DivideUintByDecimal, UintMul
  <1> HIDE DEF w
  <1>8. w * cp \in Nat /\ w * cp <= q
    <2> DEFINE x == w * cp
    <2>1. x \in Nat
      BY <1>6, TimesType
    <2>2. r <= q
      BY <1>4 DEF r
    <2>3. x <= r
      BY <1>6
    <2> HIDE DEF x
    <2>4. x <= q
      BY <1>3, <1>5, <2>1, <2>2, <2>3
    <2> QED
      BY <2>1, <2>4 DEF x
  <1>9. (w * cp) * One <= q * One
    <2> DEFINE x == w * cp
    <2> HIDE DEF x
    <2>1. x * One <= q * One
      BY <1>3, <1>8, OneAssumption, SMT DEF x
    <2> QED
      BY <2>1 DEF x
  <1>10. q * One = (a * One) * bonus
    BY <1>2, OneAssumption, SMT DEF q
  <1>11. (a * One) * bonus <= p * bonus
    <2> DEFINE x == a * One
    <2>1. x \in Nat
      BY <1>2, OneAssumption, TimesType
    <2> HIDE DEF x
    <2>2. x * bonus <= p * bonus
      BY <1>1, <1>2, <2>1, SMT DEF x
    <2> QED
      BY <2>2 DEF x
  <1>12. (w * cp) * One \in Nat /\ q * One \in Nat /\ p * bonus \in Nat
    BY <1>1, <1>3, <1>8, OneAssumption, TimesType
  <1>13. (w * cp) * One <= p * bonus
    BY <1>9, <1>10, <1>11, <1>12
  <1> QED
    BY <1>6, <1>7, <1>13 DEF p

\* The repayment that buys all of a collateral is worth it and the bonus, but
\* for a coin and for a unit of the base asset.
LEMMA DebtForWorth ==
    ASSUME NEW n \in Nat, NEW bonus \in Nat \ {0}, NEW cp \in Nat, NEW dp \in Nat \ {0}
    PROVE  /\ DebtFor(n, bonus, cp, dp) \in Nat
           /\ (n * cp) * One
                <= ((DebtFor(n, bonus, cp, dp) + 1) * dp) * bonus + (dp + One) * One
  <1> DEFINE p == n * cp
             a == p \div One
             q == a * One
             b == q \div dp
             r == b * One
             w == r \div bonus
  <1>1. p \in Nat
    BY TimesType
  <1> HIDE DEF p
  <1>2. a \in Nat /\ p < a * One + One
    BY <1>1, OneAssumption, DivTight
  <1> HIDE DEF a
  <1>3. q \in Nat
    BY <1>2, OneAssumption, TimesType
  <1>4. p < q + One
    BY <1>2
  <1> HIDE DEF q
  <1>5. b \in Nat /\ q < b * dp + dp
    BY <1>3, DivTight
  <1> HIDE DEF b
  <1>6. r \in Nat
    BY <1>5, OneAssumption, TimesType
  <1> HIDE DEF r
  <1>7. w \in Nat /\ r < w * bonus + bonus
    BY <1>6, DivTight
  <1>8. w = DebtFor(n, bonus, cp, dp)
    BY DEF w, r, b, q, a, p, DebtFor, DivideUintByDecimal, UintMul
  <1> HIDE DEF w
  <1> DEFINE k == (w + 1) * bonus
             l == b * dp
  <1>9. k \in Nat /\ r <= k
    BY <1>6, <1>7, SMT
  <1>10. l \in Nat /\ p <= l + (dp + One)
    <2>1. l \in Nat
      BY <1>5, TimesType
    <2> HIDE DEF l
    <2>2. q < l + dp
      BY <1>5 DEF l
    <2> QED
      BY <1>1, <1>3, <1>4, <2>1, <2>2, OneAssumption
  <1> HIDE DEF k
  <1>11. r * dp <= k * dp /\ r * dp \in Nat /\ k * dp \in Nat
    BY <1>6, <1>9, SMT
  <1>12. r * dp = l * One
    BY <1>5, OneAssumption, SMT DEF r
  <1> HIDE DEF l
  <1>13. /\ p * One <= (l + (dp + One)) * One
         /\ (l + (dp + One)) * One = l * One + (dp + One) * One
         /\ p * One \in Nat /\ l * One \in Nat /\ (dp + One) * One \in Nat
    BY <1>1, <1>10, OneAssumption, SMT
  <1>14. k * dp = ((w + 1) * dp) * bonus
    BY <1>7, SMT DEF k
  <1>15. p * One <= k * dp + (dp + One) * One
    BY <1>11, <1>12, <1>13
  <1> QED
    BY <1>7, <1>8, <1>14, <1>15 DEF p

\* What a liquidation seizes is no less than what the user loses, and worth no
\* more than the repayment and the bonus.
LEMMA SeizureWorth ==
    ASSUME Sound, NEW held \in Nat, NEW owed \in Nat, NEW sent \in Nat,
           NEW m, SoundMarket(m), NEW cp \in Nat \ {0}, NEW dp \in Nat,
           LiquidationAmounts(held, owed, sent, m, cp, dp).seized_scaled <= held
    PROVE  LET result == LiquidationAmounts(held, owed, sent, m, cp, dp)
               i == UpdatedLiquidityIndex(m, now)
           IN  /\ UnderlyingFloor(held, i) - UnderlyingFloor(held - result.seized_scaled, i)
                    <= result.seized
               /\ (result.seized * cp) * One
                    <= ((result.repaid + 1) * dp) * (One + m.liquidation_bonus)
                         + (dp + One) * One
  <1> DEFINE i         == UpdatedLiquidityIndex(m, now)
             bonus     == One + m.liquidation_bonus
             repayable == Min({sent, UintMul(owed, config.close_factor)})
             wanted    == CollateralFor(repayable, bonus, cp, dp)
             wanted_scaled == ScaledFloor(wanted, i)
             whole     == UnderlyingFloor(held, i)
             repaid    == DebtFor(whole, bonus, cp, dp)
             result    == LiquidationAmounts(held, owed, sent, m, cp, dp)
  <1>1. /\ bonus \in Nat \ {0}
        /\ config.close_factor \in Nat
        /\ i \in Nat \ {0}
    BY OneAssumption, UpdatedIndexesGrow
    DEF Sound, TypeOK, Config, SoundMarket, Market, Decimal
  <1>2. repayable \in Nat
    BY <1>1, UintMulType, MinOfTwo
  <1>3. result =
          IF wanted_scaled > held
          THEN [repaid |-> repaid, seized |-> whole, seized_scaled |-> held]
          ELSE [repaid |-> repayable, seized |-> wanted, seized_scaled |-> wanted_scaled]
    BY DEF LiquidationAmounts, ScaledLiquidity, UnderlyingLiquidity
  <1> HIDE DEF bonus, repayable, i
  <1>4. wanted \in Nat /\ (wanted * cp) * One <= (repayable * dp) * bonus
    BY <1>1, <1>2, CollateralForWorth
  <1> HIDE DEF wanted
  <1>5. wanted_scaled \in Nat /\ wanted_scaled * i <= wanted * Coin
    BY <1>1, <1>4, ScaleTypes, SharesForCoins
  <1>6. whole \in Nat
    BY <1>1, UnderlyingType
  <1> DEFINE extra == (dp + One) * One
  <1>7. extra \in Nat
    BY OneAssumption, SMT
  <1>8. ASSUME wanted_scaled > held
        PROVE  /\ whole - UnderlyingFloor(held - result.seized_scaled, i) <= result.seized
               /\ (result.seized * cp) * One <= ((result.repaid + 1) * dp) * bonus + extra
    <2>1. ASSUME dp = 0 PROVE FALSE
      <3>1. repayable * dp = 0
        BY <1>2, <2>1
      <3>2. 0 * bonus = 0
        BY <1>1
      <3>3. (wanted * cp) * One <= 0
        BY <1>4, <3>1, <3>2
      <3>4. wanted = 0
        <4> SUFFICES ASSUME wanted # 0 PROVE FALSE
          OBVIOUS
        <4>1. wanted * cp \in Nat \ {0}
          BY <1>4, SMT
        <4>2. (wanted * cp) * One \in Nat \ {0}
          <5> DEFINE x == wanted * cp
          <5> HIDE DEF x
          <5>1. x * One \in Nat \ {0}
            BY <4>1, OneAssumption, SMT DEF x
          <5> QED
            BY <5>1 DEF x
        <4> QED
          BY <3>3, <4>2
      <3>5. wanted * Coin = 0
        BY <3>4, CoinType
      <3> HIDE DEF wanted_scaled
      <3>6. wanted_scaled * i <= 0
        BY <1>5, <3>5
      <3>7. wanted_scaled # 0 => wanted_scaled * i \in Nat \ {0}
        BY <1>1, <1>5, SMT
      <3> QED
        BY <1>5, <1>8, <3>6, <3>7
    <2>2. dp \in Nat \ {0}
      BY <2>1
    <2>3. (whole * cp) * One <= ((repaid + 1) * dp) * bonus + extra
      BY <1>1, <1>6, <2>2, DebtForWorth
    <2> HIDE DEF wanted_scaled, repaid, extra
    <2>4. result.seized = whole /\ result.seized_scaled = held /\ result.repaid = repaid
      BY <1>3, <1>8
    <2> HIDE DEF whole, result
    <2>5. UnderlyingFloor(held - held, i) = 0
      BY <1>1, NoUnderlying
    <2> QED
      BY <1>6, <2>3, <2>4, <2>5
  <1>9. ASSUME ~(wanted_scaled > held)
        PROVE  /\ whole - UnderlyingFloor(held - result.seized_scaled, i) <= result.seized
               /\ (result.seized * cp) * One <= ((result.repaid + 1) * dp) * bonus + extra
    <2> DEFINE s == wanted_scaled
               y == repayable * dp
               z == (repayable + 1) * dp
    <2>1. result.seized = wanted /\ result.seized_scaled = s /\ result.repaid = repayable
      <3> HIDE DEF wanted_scaled
      <3> QED
        BY <1>3, <1>9
    <2>2. s \in Nat /\ s * i <= wanted * Coin
      BY <1>5
    <2> HIDE DEF s
    <2>3. s <= held
      BY <1>9, <2>2 DEF s
    <2>4. held - s \in Nat /\ (held - s) + s = held
      BY <2>2, <2>3
    <2> HIDE DEF whole
    <2>5. UnderlyingFloor((held - s) + s, i) <= UnderlyingFloor(held - s, i) + wanted
      BY <1>1, <1>4, <2>2, <2>4, MoreShares
    <2>6. UnderlyingFloor(held - s, i) \in Nat
      BY <1>1, <2>4, UnderlyingType
    <2>7. whole - UnderlyingFloor(held - s, i) <= wanted
      BY <1>4, <1>6, <2>4, <2>5, <2>6 DEF whole
    <2>8. y \in Nat /\ z \in Nat /\ y <= z
      BY <1>2, SMT
    <2>9. y * bonus <= z * bonus /\ y * bonus \in Nat /\ z * bonus \in Nat
      <3> HIDE DEF y, z
      <3> QED
        BY <1>1, <2>8, SMT
    <2>10. (wanted * cp) * One \in Nat
      BY <1>4, OneAssumption, TimesType
    <2> HIDE DEF extra
    <2>11. (wanted * cp) * One <= z * bonus + extra
      BY <1>4, <1>7, <2>9, <2>10
    <2> HIDE DEF result
    <2> QED
      BY <2>1, <2>7, <2>11
  <1> HIDE DEF wanted_scaled, extra
  <1>10. /\ whole - UnderlyingFloor(held - result.seized_scaled, i) <= result.seized
         /\ (result.seized * cp) * One <= ((result.repaid + 1) * dp) * bonus + extra
    BY <1>8, <1>9
  <1> QED
    BY <1>10 DEF i, bonus, extra

\* Seized shares are worth as many coins to the one as to the other, but for a
\* coin; and who liquidates himself loses none.
LEMMA SeizedCoins ==
    ASSUME InBlock, NEW u \in User, NEW r \in User, NEW c \in DOMAIN markets,
           NEW s \in Nat, s <= CollateralScaled(u, c), HasCollateral(u, c),
           collaterals' = IncreaseCollateral(DecreaseCollateral(collaterals, u, c, s), r, c, s)
    PROVE  /\ CollateralsMoveAt({<<u, c>>, <<r, c>>})
           /\ u = r => Lost(u, c) = 0
           /\ u # r =>
                /\ Lost(u, c) \in Nat
                /\ Lost(u, c) = UnderlyingFloor(CollateralScaled(u, c), LiquidityIndex(c))
                                  - UnderlyingFloor(CollateralScaled(u, c) - s,
                                                    LiquidityIndex(c))
                /\ CollateralOf(r, c)' - CollateralOf(r, c)
                     \in Lost(u, c) - 1 .. Lost(u, c) + 1
  <1> DEFINE i == LiquidityIndex(c)
             x == CollateralScaled(u, c)
             y == CollateralScaled(r, c)
             mid == DecreaseCollateral(collaterals, u, c, s)
  <1>1. Sound /\ Sound' /\ c \in Denom /\ i \in Nat
    BY IndexesType DEF InBlock
  <1>2. \A v \in User, e \in Denom : CollateralScaled(v, e) \in Nat
    BY <1>1, PositionTypes DEF Sound
  <1>3. ASSUME NEW v \in User, NEW e \in Denom
        PROVE  CollateralScaled(v, e)'
                 = CollateralScaled(v, e) - (IF <<v, e>> = <<u, c>> THEN s ELSE 0)
                     + IF <<v, e>> = <<r, c>> THEN s ELSE 0
    <2>1. IsMap(collaterals, Position, Collateral) /\ <<u, c>> \in DOMAIN collaterals
      BY <1>1 DEF Sound, TypeOK, HasCollateral
    <2>2. s <= collaterals[<<u, c>>].amount_scaled
      BY DEF CollateralScaled
    <2>3. IsMap(mid, Position, Collateral)
      BY <1>1, <2>1, <2>2, DecreaseCollateralType
    <2>4. AmountIn(mid, v, e)
            = AmountIn(collaterals, v, e) - IF <<v, e>> = <<u, c>> THEN s ELSE 0
      BY <1>1, <2>1, DecreaseCollateralEffect
    <2>5. AmountIn(collaterals', v, e)
            = AmountIn(mid, v, e) + IF <<v, e>> = <<r, c>> THEN s ELSE 0
      <3> HIDE DEF mid
      <3> QED
        BY <1>1, <2>3, IncreaseCollateralEffect DEF mid
    <2> HIDE DEF mid
    <2> QED
      BY <2>4, <2>5, Collaterals
  <1>4. CollateralsMoveAt({<<u, c>>, <<r, c>>})
    <2>1. ASSUME NEW v \in User, NEW e \in Denom, <<v, e>> \notin {<<u, c>>, <<r, c>>}
          PROVE  CollateralOf(v, e)' = CollateralOf(v, e)
      <3>1. CollateralScaled(v, e)' = CollateralScaled(v, e)
        BY <1>2, <1>3, <2>1
      <3> QED
        BY <3>1, SameSharesSameCoins DEF InBlock
    <2> QED
      BY <2>1 DEF CollateralsMoveAt
  <1>5. ASSUME u = r PROVE Lost(u, c) = 0
    <2>1. CollateralScaled(u, c)' = CollateralScaled(u, c)
      BY <1>1, <1>2, <1>3, <1>5
    <2>2. CollateralOf(u, c)' = CollateralOf(u, c)
      BY <1>1, <2>1, SameSharesSameCoins DEF InBlock
    <2>3. CollateralOf(u, c) \in Nat
      <3>1. CollateralOf(u, c) = UnderlyingFloor(x, i)
        BY CoinsOfShares DEF InBlock
      <3>2. x \in Nat
        BY <1>1, <1>2
      <3> QED
        BY <1>1, <3>1, <3>2, UnderlyingType
    <2> QED
      BY <2>2, <2>3 DEF Lost
  <1>6. ASSUME u # r
        PROVE  /\ Lost(u, c) \in Nat
               /\ Lost(u, c) = UnderlyingFloor(x, i) - UnderlyingFloor(x - s, i)
               /\ CollateralOf(r, c)' - CollateralOf(r, c)
                     \in Lost(u, c) - 1 .. Lost(u, c) + 1
    <2>1. x \in Nat /\ y \in Nat /\ s <= x
      BY <1>1, <1>2
    <2>2. CollateralScaled(u, c)' = x - s /\ CollateralScaled(r, c)' = y + s
      <3>1. CollateralScaled(u, c)' = x - s
        BY <1>1, <1>2, <1>3, <1>6
      <3>2. CollateralScaled(r, c)' = y + s
        BY <1>1, <1>2, <1>3, <1>6
      <3> QED
        BY <3>1, <3>2
    <2>3. /\ CollateralOf(u, c) = UnderlyingFloor(x, i)
          /\ CollateralOf(u, c)' = UnderlyingFloor(x - s, i)
      BY <2>2, CoinsOfShares DEF InBlock
    <2>4. /\ CollateralOf(r, c) = UnderlyingFloor(y, i)
          /\ CollateralOf(r, c)' = UnderlyingFloor(y + s, i)
      BY <2>2, CoinsOfShares DEF InBlock
    <2> HIDE DEF x, y, i
    <2>5. PICK n \in Nat :
            /\ UnderlyingFloor(x, i) - UnderlyingFloor(x - s, i) \in n .. n + 1
            /\ UnderlyingFloor(y + s, i) - UnderlyingFloor(y, i) \in n .. n + 1
      BY <1>1, <2>1, HandedCoins
    <2>6. Lost(u, c) = UnderlyingFloor(x, i) - UnderlyingFloor(x - s, i)
      BY <2>3 DEF Lost
    <2> DEFINE given == UnderlyingFloor(y + s, i) - UnderlyingFloor(y, i)
    <2>7. CollateralOf(r, c)' - CollateralOf(r, c) = given
      BY <2>4
    <2> HIDE DEF given
    <2>8. Lost(u, c) \in n .. n + 1 /\ given \in n .. n + 1
      BY <2>5, <2>6 DEF given
    <2>9. Lost(u, c) \in Nat /\ given \in Lost(u, c) - 1 .. Lost(u, c) + 1
      BY <2>8
    <2> QED
      BY <2>6, <2>7, <2>9
  <1> QED
    BY <1>4, <1>5, <1>6

LEMMA LiquidateCoins ==
    ASSUME InBlock, NEW u \in User, NEW r \in User, NEW c \in Denom, NEW d \in Denom,
           NEW sent \in Amount, Liquidate(u, r, c, d, sent)
    PROVE  \E paid \in Nat :
           /\ c \in DOMAIN markets /\ d \in DOMAIN markets
           /\ paid <= DebtOf(u, d)
           /\ CashMoves(d, paid)
           /\ CollateralsMoveAt({<<u, c>>, <<r, c>>})
           /\ DebtsMoveAt({<<u, d>>})
           /\ ClaimsKept
           /\ DebtOf(u, d) - paid <= DebtOf(u, d)'
           /\ BorrowIndex(d) <= Coin => DebtOf(u, d)' <= DebtOf(u, d) - paid + 1
           /\ Lost(u, c) \in Nat
           /\ u = r => Lost(u, c) = 0
           /\ u # r => CollateralOf(r, c)' - CollateralOf(r, c)
                         \in Lost(u, c) - 1 .. Lost(u, c) + 1
           /\ Lost(u, c) > 0 =>
                /\ paid > 0
                /\ (Lost(u, c) * Prices[c]) * One
                     <= ((paid + 1) * Prices[d]) * (One + markets[c].liquidation_bonus)
                          + (Prices[d] + One) * One
  <1> DEFINE held == CollateralScaled(u, c)
             b == DebtScaled(u, d)
             i == BorrowIndex(d)
             j == LiquidityIndex(c)
             owed == UnderlyingCeil(b, i)
             cp == Prices[c]
             dp == Prices[d]
             result == LiquidationAmounts(held, owed, sent, markets[c], cp, dp)
             s == result.seized_scaled
             paid == result.repaid
             left == owed - paid
             scaled == b - ScaledCeil(left, i)
  <1>1. /\ Sound /\ Sound' /\ now' = now /\ sent \in Nat
        /\ HasCollateral(u, c) /\ HasDebt(u, d)
        /\ Liquidatable(u, collaterals)
        /\ cp # 0
    BY InputAssumption DEF InBlock, Liquidate
  <1>2. /\ c \in DOMAIN markets /\ cp \in Nat
        /\ d \in DOMAIN markets /\ dp \in Nat
    BY <1>1, LiquidatablePrices
  <1>3. SoundMarket(markets[c])
    BY <1>1, <1>2 DEF Sound
  <1>4. i \in Nat \ {0} /\ held \in Nat /\ b \in Nat /\ j \in Nat
    BY <1>1, <1>2, IndexesType, PositionTypes DEF Sound
  <1>5. held = collaterals[<<u, c>>].amount_scaled /\ b = debts[<<u, d>>].amount_scaled
    BY <1>1 DEF CollateralScaled, DebtScaled
  <1>6. owed = UnderlyingDebt(b, markets[d], now)
    BY DEF UnderlyingDebt, BorrowIndex
  <1>7. scaled = b - ScaledDebt(owed - paid, markets[d], now)
    BY DEF ScaledDebt, BorrowIndex
  <1>8. Accrued(d).debt_total_scaled = markets[d].debt_total_scaled
    BY <1>1, <1>2, AccruedMarket DEF Accrued
  <1>9. /\ BothOrNothing(result)
        /\ s <= held
        /\ collaterals' = IncreaseCollateral(DecreaseCollateral(collaterals, u, c, s), r, c, s)
        /\ paid <= owed
        /\ 0 <= scaled
        /\ debts' = DecreaseDebt(u, d, scaled)
        /\ scaled <= Accrued(d).debt_total_scaled
        /\ SaveMarket(d, DecreaseTotalDebt(Accrued(d), scaled))
        /\ balance' = [balance EXCEPT ![d] = @ + paid]
    BY <1>5, <1>6, <1>7, <1>8 DEF Liquidate, Accrued
  <1>10. owed \in Nat /\ DebtOf(u, d) = owed
    BY <1>2, <1>4, UnderlyingType, CoinsOfShares DEF InBlock
  <1> HIDE DEF owed, held
  <1>11. paid \in Nat /\ result.seized \in Nat /\ s \in Nat
    BY <1>1, <1>2, <1>3, <1>4, <1>10, LiquidationAmountsType
  <1>12. /\ UnderlyingFloor(held, j) - UnderlyingFloor(held - s, j) <= result.seized
         /\ (result.seized * cp) * One
              <= ((paid + 1) * dp) * (One + markets[c].liquidation_bonus) + (dp + One) * One
    <2>1. cp \in Nat \ {0}
      BY <1>1, <1>2
    <2> QED
      BY <1>1, <1>2, <1>3, <1>4, <1>9, <1>10, <2>1, SeizureWorth DEF LiquidityIndex
  <1>13. /\ CollateralsMoveAt({<<u, c>>, <<r, c>>})
         /\ u = r => Lost(u, c) = 0
         /\ u # r =>
              /\ Lost(u, c) \in Nat
              /\ Lost(u, c) = UnderlyingFloor(held, j) - UnderlyingFloor(held - s, j)
              /\ CollateralOf(r, c)' - CollateralOf(r, c)
                   \in Lost(u, c) - 1 .. Lost(u, c) + 1
    <2> HIDE DEF result
    <2> QED
      BY <1>1, <1>2, <1>9, <1>11, SeizedCoins DEF held
  <1> HIDE DEF result
  <1>14. left \in Nat /\ left = owed - paid
    BY <1>9, <1>10, <1>11
  <1> HIDE DEF left
  <1>15. /\ ClaimsKept
         /\ DebtsMoveAt({<<u, d>>})
         /\ left <= DebtOf(u, d)'
         /\ i <= Coin => DebtOf(u, d)' <= left + 1
    BY <1>1, <1>2, <1>9, <1>14, PaidDebt
  <1>16. CashMoves(d, paid)
    <2>1. paid \in Int
      BY <1>11
    <2> QED
      BY <1>1, <1>9, <2>1, CashType
  <1> HIDE DEF scaled
  <1>17. Lost(u, c) \in Nat /\ (Lost(u, c) > 0 => Lost(u, c) <= result.seized)
    <2> HIDE DEF j, s
    <2>1. u = r => Lost(u, c) \in Nat /\ ~(Lost(u, c) > 0)
      BY <1>13
    <2>2. u # r => Lost(u, c) \in Nat /\ Lost(u, c) <= result.seized
      BY <1>12, <1>13
    <2> QED
      BY <2>1, <2>2
  <1>18. ASSUME Lost(u, c) > 0
         PROVE  /\ paid > 0
                /\ (Lost(u, c) * cp) * One
                     <= ((paid + 1) * dp) * (One + markets[c].liquidation_bonus)
                          + (dp + One) * One
    <2> DEFINE l == Lost(u, c)
               z == result.seized
               bound == ((paid + 1) * dp) * (One + markets[c].liquidation_bonus)
                          + (dp + One) * One
    <2>1. l \in Nat /\ z \in Nat /\ 0 < l /\ l <= z
      BY <1>11, <1>17, <1>18
    <2>2. paid # 0
      BY <1>9, <2>1 DEF BothOrNothing
    <2>3. bound \in Int
      <3>1. markets[c].liquidation_bonus \in Nat
        BY <1>3 DEF SoundMarket, Market, Decimal
      <3> DEFINE v == (paid + 1) * dp
                 w == One + markets[c].liquidation_bonus
      <3>2. v \in Nat /\ w \in Nat /\ (dp + One) * One \in Nat
        BY <1>2, <1>11, <3>1, OneAssumption, SMT
      <3> HIDE DEF v, w
      <3>3. v * w \in Nat
        BY <3>2, TimesType
      <3> QED
        BY <3>2, <3>3 DEF v, w
    <2> HIDE DEF l, z, bound
    <2>4. l * cp <= z * cp /\ l * cp \in Nat /\ z * cp \in Nat
      <3> HIDE DEF cp
      <3> QED
        BY <1>2, <2>1, SMT
    <2> DEFINE v == l * cp
               w == z * cp
    <2> HIDE DEF v, w
    <2>5. v * One <= w * One /\ v * One \in Nat /\ w * One \in Nat
      <3>1. v <= w /\ v \in Nat /\ w \in Nat
        BY <2>4 DEF v, w
      <3> QED
        BY <3>1, OneAssumption, SMT
    <2>6. w * One <= bound
      BY <1>12 DEF w, z, bound
    <2>7. v * One <= bound
      BY <2>3, <2>5, <2>6
    <2> HIDE DEF paid
    <2>8. paid > 0
      BY <1>11, <2>2
    <2> QED
      BY <2>7, <2>8 DEF v, l, bound
  <1> HIDE DEF paid
  <1> QED
    BY <1>2, <1>9, <1>10, <1>11, <1>13, <1>14, <1>15, <1>16, <1>17, <1>18

-----------------------------------------------------------------------------
(***************************************************************************)
(* Equity                                                                  *)
(***************************************************************************)

\* No account, no claim and no coin moves.
CoinsKept ==
    /\ balance' = balance
    /\ DebtsMoveAt({})
    /\ CollateralsMoveAt({})
    /\ ClaimsKept

LEMMA LoanLimitCoins ==
    ASSUME InBlock, NEW sender \in Admin, NEW u \in User, NEW d \in Denom,
           NEW new_limit \in LoanLimit,
           UpdateUncollateralizedLoanLimit(sender, u, d, new_limit)
    PROVE  CoinsKept
  <1>1. /\ now' = now /\ markets' = markets /\ balance' = balance
        /\ collaterals' = collaterals
        /\ debts' = Save(debts, <<u, d>>, [amount_scaled |-> DebtScaled(u, d),
                                           uncollateralized |-> new_limit # 0])
    BY DEF UpdateUncollateralizedLoanLimit
  <1>2. \A v \in User, e \in Denom : DebtScaled(v, e)' = DebtScaled(v, e)
    BY <1>1 DEF DebtScaled, HasDebt, Save
  <1>3. \A v \in User, e \in Denom : CollateralScaled(v, e)' = CollateralScaled(v, e)
    BY <1>1 DEF CollateralScaled, HasCollateral
  <1>4. DebtsMoveAt({})
    BY <1>2, SameSharesSameCoins DEF InBlock, DebtsMoveAt
  <1>5. CollateralsMoveAt({})
    BY <1>3, SameCollaterals
  <1>6. ClaimsKept
    BY <1>1 DEF ClaimsKept, Claims, Accrued
  <1> QED
    BY <1>1, <1>4, <1>5, <1>6 DEF CoinsKept

LEMMA CollateralStatusCoins ==
    ASSUME InBlock, NEW u \in User, NEW d \in Denom, NEW enable \in Status,
           UpdateAssetCollateralStatus(u, d, enable)
    PROVE  CoinsKept
  <1>1. /\ now' = now /\ markets' = markets /\ balance' = balance /\ debts' = debts
        /\ HasCollateral(u, d)
        /\ collaterals' = [collaterals EXCEPT ![<<u, d>>].enabled = enable]
    BY DEF UpdateAssetCollateralStatus
  <1>2. IsMap(collaterals, Position, Collateral)
    BY DEF InBlock, Sound, TypeOK
  <1>3. \A v \in User, e \in Denom : CollateralScaled(v, e)' = CollateralScaled(v, e)
    BY <1>1, <1>2 DEF CollateralScaled, HasCollateral, IsMap, Collateral
  <1>4. CollateralsMoveAt({})
    BY <1>3, SameCollaterals
  <1>5. DebtsMoveAt({})
    BY <1>1, SameDebts
  <1>6. ClaimsKept
    BY <1>1 DEF ClaimsKept, Claims, Accrued
  <1> QED
    BY <1>1, <1>4, <1>5, <1>6 DEF CoinsKept

\* The owner's messages about markets and the configuration, and prices.
LEMMA SharesKeptCoins ==
    ASSUME InBlock, balance' = balance, debts' = debts, collaterals' = collaterals,
           ClaimsKept
    PROVE  CoinsKept
  <1>1. \A v \in User, e \in Denom : CollateralScaled(v, e)' = CollateralScaled(v, e)
    BY DEF CollateralScaled, HasCollateral
  <1> QED
    BY <1>1, SameDebts, SameCollaterals DEF CoinsKept

\* The users' messages that move coins.
CoinsMessage ==
    \E u \in User, d \in Denom :
        \/ \E amount \in Amount : Deposit(u, d, amount)
        \/ \E request \in Amount \cup {None} : Withdraw(u, d, request)
        \/ \E amount \in Amount : Borrow(u, d, amount)
        \/ \E amount \in Amount, on_behalf_of \in BOOLEAN :
              Repay(u, d, amount, on_behalf_of)
        \/ \E r \in User, c \in Denom, sent \in Amount : Liquidate(u, r, c, d, sent)

LEMMA OtherMessages == ASSUME InBlock, ~CoinsMessage PROVE CoinsKept
  <1>1. Sound /\ Sound' /\ now' = now
    BY DEF InBlock
  <1>2. CASE OwnerStep
    <2>1. ASSUME NEW sender \in Admin, NEW update \in OwnerInput, UpdateOwner(sender, update)
          PROVE  CoinsKept
      <3>1. ClaimsKept
        BY <2>1 DEF UpdateOwner, ClaimsKept, Claims, Accrued
      <3> QED
        BY <2>1, <3>1, SharesKeptCoins DEF UpdateOwner
    <2>2. ASSUME NEW sender \in Admin, NEW input \in ConfigInput, UpdateConfig(sender, input)
          PROVE  CoinsKept
      <3>1. ClaimsKept
        BY <2>2 DEF UpdateConfig, ClaimsKept, Claims, Accrued
      <3> QED
        BY <2>2, <3>1, SharesKeptCoins DEF UpdateConfig
    <2>3. ASSUME NEW sender \in Admin, NEW d \in Denom, NEW input \in AssetInput,
                 InitAsset(sender, d, input)
          PROVE  CoinsKept
      <3>1. ClaimsKept
        BY <1>1, <2>3, InitAssetClaims
      <3> QED
        BY <2>3, <3>1, SharesKeptCoins DEF InitAsset
    <2>4. ASSUME NEW sender \in Admin, NEW d \in Denom, NEW input \in UpdateInput,
                 UpdateAsset(sender, d, input)
          PROVE  CoinsKept
      <3>1. ClaimsKept
        BY <1>1, <2>4, UpdateAssetClaims
      <3> QED
        BY <2>4, <3>1, SharesKeptCoins DEF UpdateAsset
    <2> QED
      BY <1>2, <2>1, <2>2, <2>3, <2>4, LoanLimitCoins DEF OwnerStep
  <1>3. CASE UserStep
    BY <1>3, CollateralStatusCoins DEF UserStep, CoinsMessage
  <1>4. CASE EnvironmentStep \/ UNCHANGED vars
    <2>1. ASSUME NEW seconds \in TimeStep, Tick(seconds) PROVE FALSE
      <3>1. now \in Nat /\ seconds \in Nat \ {0} /\ now' = now + seconds
        BY <1>1, <2>1, InputAssumption DEF Tick, Sound, TypeOK
      <3> QED
        BY <1>1, <3>1
    <2>2. UNCHANGED <<markets, debts, collaterals, balance>>
      BY <1>4, <2>1 DEF EnvironmentStep, OracleMoves, vars
    <2>3. ClaimsKept
      BY <1>1, <2>2 DEF ClaimsKept, Claims, Accrued
    <2> QED
      BY <2>2, <2>3, SharesKeptCoins
  <1> QED
    BY <1>2, <1>3, <1>4 DEF Next, InBlock

-----------------------------------------------------------------------------

\* The debts in coins of all users in d, as the function that is summed over.
DebtsInCoins(d) == [u \in User |-> DebtOf(u, d)]

LEMMA CoinsType ==
    ASSUME Sound, NEW d \in Denom, NEW u \in User
    PROVE  DebtOf(u, d) \in Nat /\ CollateralOf(u, d) \in Nat
  <1>1. DebtScaled(u, d) \in Nat /\ CollateralScaled(u, d) \in Nat
    BY PositionTypes DEF Sound
  <1>2. d \in DOMAIN markets => BorrowIndex(d) \in Nat /\ LiquidityIndex(d) \in Nat
    BY IndexesType
  <1> QED
    BY <1>1, <1>2, UnderlyingType
    DEF DebtOf, CollateralOf, UnderlyingDebt, UnderlyingLiquidity, BorrowIndex, LiquidityIndex

LEMMA CoinsTypePrimed ==
    ASSUME InBlock, NEW d \in Denom, NEW u \in User
    PROVE  DebtOf(u, d)' \in Nat /\ CollateralOf(u, d)' \in Nat
  <1>1. DebtScaled(u, d)' \in Nat /\ CollateralScaled(u, d)' \in Nat
    <2>1. Sound'
      BY DEF InBlock
    <2>2. DebtsIn(d)'[u] \in Nat /\ CollateralsIn(d)'[u] \in Nat
      BY <2>1, SharesTypePrimed
    <2> QED
      BY <2>2 DEF DebtsIn, CollateralsIn
  <1>2. d \in DOMAIN markets' => BorrowIndex(d)' \in Nat /\ LiquidityIndex(d)' \in Nat
    <2> SUFFICES ASSUME d \in DOMAIN markets'
                 PROVE  BorrowIndex(d)' \in Nat /\ LiquidityIndex(d)' \in Nat
      OBVIOUS
    <2>1. SoundMarket(markets'[d]) /\ now' \in Nat
      BY DEF InBlock, Sound, TypeOK
    <2> QED
      BY <2>1, UpdatedIndexesGrow DEF SoundMarket, BorrowIndex, LiquidityIndex
  <1>3. d \in DOMAIN markets' =>
          /\ DebtOf(u, d)' = UnderlyingCeil(DebtScaled(u, d)', BorrowIndex(d)')
          /\ CollateralOf(u, d)' = UnderlyingFloor(CollateralScaled(u, d)', LiquidityIndex(d)')
    BY DEF DebtOf, CollateralOf, UnderlyingDebt, UnderlyingLiquidity, BorrowIndex, LiquidityIndex
  <1>4. d \notin DOMAIN markets' => DebtOf(u, d)' = 0 /\ CollateralOf(u, d)' = 0
    BY DEF DebtOf, CollateralOf
  <1>5. CASE d \in DOMAIN markets'
    <2> DEFINE a == DebtScaled(u, d)'
               b == CollateralScaled(u, d)'
               i == BorrowIndex(d)'
               j == LiquidityIndex(d)'
    <2>1. a \in Nat /\ b \in Nat /\ i \in Nat /\ j \in Nat
      BY <1>1, <1>2, <1>5
    <2>2. DebtOf(u, d)' = UnderlyingCeil(a, i) /\ CollateralOf(u, d)' = UnderlyingFloor(b, j)
      BY <1>3, <1>5
    <2> HIDE DEF a, b, i, j
    <2>3. UnderlyingCeil(a, i) \in Nat /\ UnderlyingFloor(b, j) \in Nat
      BY <2>1, UnderlyingType
    <2> QED
      BY <2>2, <2>3
  <1> QED
    BY <1>4, <1>5

LEMMA DebtSumType ==
    ASSUME InBlock, NEW d \in Denom
    PROVE  /\ DebtsInCoins(d) \in [User -> Nat] /\ DebtsInCoins(d)' \in [User -> Nat]
           /\ SumFunction(DebtsInCoins(d)) \in Nat /\ SumFunction(DebtsInCoins(d)') \in Nat
  <1>1. DebtsInCoins(d) \in [User -> Nat] /\ DebtsInCoins(d)' \in [User -> Nat]
    BY CoinsType, CoinsTypePrimed DEF InBlock, DebtsInCoins
  <1> QED
    BY <1>1, FiniteAssumption, SumType

LEMMA DebtsStill ==
    ASSUME NEW accounts, DebtsMoveAt(accounts), NEW d \in Denom,
           \A u \in User : <<u, d>> \notin accounts
    PROVE  SumFunction(DebtsInCoins(d)') = SumFunction(DebtsInCoins(d))
  <1>1. DebtsInCoins(d)' = DebtsInCoins(d)
    BY DEF DebtsMoveAt, DebtsInCoins
  <1> QED
    BY <1>1

LEMMA DebtsMove ==
    ASSUME InBlock, NEW u \in User, NEW d \in Denom, DebtsMoveAt({<<u, d>>})
    PROVE  /\ SumFunction(DebtsInCoins(d)') - DebtOf(u, d)'
                = SumFunction(DebtsInCoins(d)) - DebtOf(u, d)
           /\ \A e \in Denom \ {d} :
                SumFunction(DebtsInCoins(e)') = SumFunction(DebtsInCoins(e))
  <1>1. \A v \in User \ {u} : DebtsInCoins(d)'[v] = DebtsInCoins(d)[v]
    BY DEF DebtsMoveAt, DebtsInCoins
  <1>2. DebtsInCoins(d)'[u] = DebtOf(u, d)' /\ DebtsInCoins(d)[u] = DebtOf(u, d)
    BY DEF DebtsInCoins
  <1>3. SumFunction(DebtsInCoins(d)') - DebtsInCoins(d)'[u]
          = SumFunction(DebtsInCoins(d)) - DebtsInCoins(d)[u]
    BY <1>1, DebtSumType, FiniteAssumption, SumChange
  <1>4. \A e \in Denom \ {d} : SumFunction(DebtsInCoins(e)') = SumFunction(DebtsInCoins(e))
    BY DebtsStill
  <1> QED
    BY <1>2, <1>3, <1>4

LEMMA EquityIs ==
    ASSUME NEW d
    PROVE  /\ Equity(d) = balance[d] + SumFunction(DebtsInCoins(d)) - Claims(d)
           /\ Equity(d)' = balance'[d] + SumFunction(DebtsInCoins(d)') - Claims(d)'
  BY DEF Equity, TotalOf, DebtsInCoins, Claims, Accrued

LEMMA ClaimsTypes ==
    ASSUME InBlock, NEW d \in DOMAIN markets
    PROVE  Claims(d) \in Nat
  BY IndexesType, UnderlyingType DEF InBlock

LEMMA ClaimsTypePrimed ==
    ASSUME InBlock, NEW d \in DOMAIN markets
    PROVE  Claims(d)' \in Nat
  <1>1. d \in DOMAIN markets'
    BY MarketsStay DEF InBlock
  <1>2. SoundMarket(markets'[d]) /\ now' \in Nat
    BY <1>1 DEF InBlock, Sound, TypeOK
  <1> DEFINE m == ApplyAccumulatedInterests(markets'[d], now')
  <1>3. SoundMarket(m)
    BY <1>2, AccrualType
  <1>4. m.collateral_total_scaled \in Nat /\ m.liquidity_index \in Nat
    <2> HIDE DEF m
    <2> QED
      BY <1>3 DEF SoundMarket, Market, Decimal, Uint
  <1>5. Claims(d)' = UnderlyingFloor(m.collateral_total_scaled, m.liquidity_index)
    BY DEF Claims, Accrued
  <1> HIDE DEF m
  <1> QED
    BY <1>4, <1>5, UnderlyingType

LEMMA EquityStep ==
    ASSUME InBlock, NEW e \in DOMAIN markets
    PROVE  Equity(e)' >= Equity(e)
  <1> DEFINE D == SumFunction(DebtsInCoins(e))
             E == SumFunction(DebtsInCoins(e)')
  <1>1. e \in Denom /\ balance \in [Denom -> Nat]
    BY IndexesType DEF InBlock, Sound, TypeOK
  <1>2. D \in Nat /\ E \in Nat
    BY <1>1, DebtSumType
  <1>3. Claims(e) \in Nat /\ Claims(e)' \in Nat
    BY ClaimsTypes, ClaimsTypePrimed
  <1>4. Equity(e) = balance[e] + D - Claims(e) /\ Equity(e)' = balance'[e] + E - Claims(e)'
    BY EquityIs
  <1>5. balance[e] \in Nat
    BY <1>1
  <1>6. \A v \in User, f \in Denom : DebtOf(v, f) \in Nat /\ DebtOf(v, f)' \in Nat
    BY CoinsType, CoinsTypePrimed DEF InBlock
  <1>7. DebtsMoveAt({}) => E = D
    BY <1>1, DebtsStill
  <1>8. ASSUME NEW u \in User, NEW d \in Denom, DebtsMoveAt({<<u, d>>})
        PROVE  E = D + IF e = d THEN DebtOf(u, d)' - DebtOf(u, d) ELSE 0
    <2>1. CASE e = d
      <3>1. E - DebtOf(u, d)' = D - DebtOf(u, d)
        BY <1>8, <2>1, DebtsMove
      <3>2. DebtOf(u, d) \in Nat /\ DebtOf(u, d)' \in Nat
        BY <1>6
      <3> HIDE DEF D, E
      <3> QED
        BY <1>2, <2>1, <3>1, <3>2
    <2>2. CASE e # d
      <3>1. E = D
        BY <1>1, <1>8, <2>2, DebtsMove
      <3> HIDE DEF D, E
      <3> QED
        BY <1>2, <2>2, <3>1
    <2> QED
      BY <2>1, <2>2
  <1> HIDE DEF D, E
  <1>9. CASE ~CoinsMessage
    <2>1. CoinsKept
      BY <1>9, OtherMessages
    <2> QED
      BY <1>2, <1>3, <1>4, <1>5, <1>7, <2>1 DEF CoinsKept, ClaimsKept
  <1>10. ASSUME NEW u \in User, NEW d \in Denom, NEW amount \in Amount,
                Deposit(u, d, amount)
         PROVE  Equity(e)' >= Equity(e)
    <2>1. /\ d \in DOMAIN markets /\ amount \in Nat \ {0}
          /\ CashMoves(d, amount)
          /\ DebtsMoveAt({})
          /\ ClaimsMoveAt(d)
          /\ Claims(d)' <= Claims(d) + amount
      BY <1>10, DepositCoins
    <2>2. balance'[e] = balance[e] + IF e = d THEN amount ELSE 0
      BY <1>1, <2>1 DEF CashMoves
    <2>3. e # d => Claims(e)' = Claims(e)
      BY <2>1 DEF ClaimsMoveAt
    <2> QED
      BY <1>2, <1>3, <1>4, <1>5, <1>7, <2>1, <2>2, <2>3
  <1>11. ASSUME NEW u \in User, NEW d \in Denom, NEW request \in Amount \cup {None},
                Withdraw(u, d, request)
         PROVE  Equity(e)' >= Equity(e)
    <2>1. PICK amount \in Nat \ {0} :
            /\ d \in DOMAIN markets
            /\ CashMoves(d, -amount)
            /\ DebtsMoveAt({})
            /\ ClaimsMoveAt(d)
            /\ Claims(d)' <= Claims(d) - amount
      BY <1>11, WithdrawCoins
    <2>2. balance'[e] = balance[e] + IF e = d THEN -amount ELSE 0
      BY <1>1, <2>1 DEF CashMoves
    <2>3. e # d => Claims(e)' = Claims(e)
      BY <2>1 DEF ClaimsMoveAt
    <2> QED
      BY <1>2, <1>3, <1>4, <1>5, <1>7, <2>1, <2>2, <2>3
  <1>12. ASSUME NEW u \in User, NEW d \in Denom, NEW amount \in Amount,
                Borrow(u, d, amount)
         PROVE  Equity(e)' >= Equity(e)
    <2>1. /\ amount \in Nat \ {0}
          /\ CashMoves(d, -amount)
          /\ DebtsMoveAt({<<u, d>>})
          /\ ClaimsKept
          /\ DebtOf(u, d) + amount <= DebtOf(u, d)'
      BY <1>12, BorrowCoins
    <2>2. balance'[e] = balance[e] + IF e = d THEN -amount ELSE 0
      BY <1>1, <2>1 DEF CashMoves
    <2>3. Claims(e)' = Claims(e)
      BY <2>1 DEF ClaimsKept
    <2>4. E = D + IF e = d THEN DebtOf(u, d)' - DebtOf(u, d) ELSE 0
      BY <1>8, <2>1
    <2>5. DebtOf(u, d) \in Nat /\ DebtOf(u, d)' \in Nat
      BY <1>6
    <2> QED
      BY <1>2, <1>3, <1>4, <1>5, <2>1, <2>2, <2>3, <2>4, <2>5
  <1>13. ASSUME NEW u \in User, NEW d \in Denom, NEW paid \in Nat,
                CashMoves(d, paid), DebtsMoveAt({<<u, d>>}), ClaimsKept,
                DebtOf(u, d) - paid <= DebtOf(u, d)'
         PROVE  Equity(e)' >= Equity(e)
    <2>1. balance'[e] = balance[e] + IF e = d THEN paid ELSE 0
      BY <1>1, <1>13 DEF CashMoves
    <2>2. Claims(e)' = Claims(e)
      BY <1>13 DEF ClaimsKept
    <2>3. E = D + IF e = d THEN DebtOf(u, d)' - DebtOf(u, d) ELSE 0
      BY <1>8, <1>13
    <2>4. DebtOf(u, d) \in Nat /\ DebtOf(u, d)' \in Nat
      BY <1>6
    <2> QED
      BY <1>2, <1>3, <1>4, <1>5, <1>13, <2>1, <2>2, <2>3, <2>4
  <1>14. ASSUME NEW u \in User, NEW d \in Denom, NEW amount \in Amount,
                NEW on_behalf_of \in BOOLEAN, Repay(u, d, amount, on_behalf_of)
         PROVE  Equity(e)' >= Equity(e)
    <2>1. PICK paid \in Nat :
            /\ CashMoves(d, paid)
            /\ DebtsMoveAt({<<u, d>>})
            /\ ClaimsKept
            /\ DebtOf(u, d) - paid <= DebtOf(u, d)'
      BY <1>14, RepayCoins
    <2> QED
      BY <1>13, <2>1
  <1>15. ASSUME NEW u \in User, NEW d \in Denom, NEW r \in User, NEW c \in Denom,
                NEW sent \in Amount, Liquidate(u, r, c, d, sent)
         PROVE  Equity(e)' >= Equity(e)
    <2>1. PICK paid \in Nat :
            /\ CashMoves(d, paid)
            /\ DebtsMoveAt({<<u, d>>})
            /\ ClaimsKept
            /\ DebtOf(u, d) - paid <= DebtOf(u, d)'
      BY <1>15, LiquidateCoins
    <2> QED
      BY <1>13, <2>1
  <1> QED
    BY <1>9, <1>10, <1>11, <1>12, <1>14, <1>15 DEF CoinsMessage

\* However the shares, indexes and totals of a message are rounded, it never
\* takes more coins out of a market than claims: for every market, and every
\* number of users.
THEOREM EquityNeverShrinks == Spec => EquityNeverShrinksInABlock
  <1>1. Sound /\ Sound' /\ SharesHaveMarkets /\ [Next]_vars =>
          [now' = now => \A d \in DOMAIN markets : Equity(d)' >= Equity(d)]_vars
    BY EquityStep DEF InBlock
  <1> QED
    BY <1>1, SoundAlways, SharesAlwaysHaveMarkets, PTL DEF Spec, EquityNeverShrinksInABlock

\* A liquidation takes no collateral for nothing, and none that is worth more
\* than what it repays and the bonus: for every price, bonus and index.
THEOREM SeizureAlwaysPaid == Spec => SeizureIsPaid
  <1>1. ASSUME Sound, Sound', SharesHaveMarkets, [Next]_vars,
               NEW u \in User, NEW c \in Denom, Lost(u, c) > 0,
               NEW r \in User, NEW d \in Denom, NEW sent \in Amount,
               Liquidate(u, r, c, d, sent)
        PROVE  /\ Paid(d) > 0
               /\ (Lost(u, c) - 1) * Prices[c] * One
                    <= (Paid(d) + 1) * Prices[d] * (One + markets[c].liquidation_bonus)
                         + (Prices[d] + One) * One
    <2>1. InBlock
      BY <1>1 DEF InBlock, Liquidate
    <2>2. PICK paid \in Nat :
            /\ c \in DOMAIN markets /\ d \in DOMAIN markets
            /\ CashMoves(d, paid)
            /\ Lost(u, c) \in Nat
            /\ paid > 0
            /\ (Lost(u, c) * Prices[c]) * One
                 <= ((paid + 1) * Prices[d]) * (One + markets[c].liquidation_bonus)
                      + (Prices[d] + One) * One
      BY <1>1, <2>1, LiquidateCoins
    <2>3. Paid(d) = paid
      <3>1. balance'[d] = balance[d] + paid
        BY <2>2 DEF CashMoves
      <3>2. balance[d] \in Nat
        BY <1>1 DEF Sound, TypeOK
      <3> QED
        BY <3>1, <3>2 DEF Paid
    <2>4. /\ HasCollateral(u, c) /\ HasDebt(u, d) /\ Liquidatable(u, collaterals)
      BY <1>1 DEF Liquidate
    <2>5. Prices[c] \in Nat /\ Prices[d] \in Nat
      BY <1>1, <2>4, LiquidatablePrices
    <2>6. markets[c].liquidation_bonus \in Nat
      BY <1>1, <2>2 DEF Sound, SoundMarket, Market, Decimal
    <2> DEFINE l == Lost(u, c)
               cp == Prices[c]
               dp == Prices[d]
               bonus == One + markets[c].liquidation_bonus
               bound == ((paid + 1) * dp) * bonus + (dp + One) * One
    <2>7. bound \in Nat
      <3>1. bonus \in Nat /\ (paid + 1) * dp \in Nat /\ (dp + One) * One \in Nat
        BY <2>5, <2>6, OneAssumption, SMT
      <3> DEFINE v == (paid + 1) * dp
      <3> HIDE DEF v, bonus
      <3>2. v * bonus \in Nat
        BY <3>1, TimesType DEF v
      <3> QED
        BY <3>1, <3>2 DEF v
    <2>8. (l * cp) * One <= bound /\ l \in Nat \ {0} /\ cp \in Nat
      BY <1>1, <2>2, <2>5
    <2> HIDE DEF l, cp, bound
    <2>9. (l - 1) * cp <= l * cp /\ (l - 1) * cp \in Nat /\ l * cp \in Nat
      BY <2>8, SMT
    <2>10. ((l - 1) * cp) * One <= (l * cp) * One
      <3> DEFINE x == (l - 1) * cp
                 y == l * cp
      <3> HIDE DEF x, y
      <3>1. x <= y /\ x \in Nat /\ y \in Nat
        BY <2>9 DEF x, y
      <3>2. x * One <= y * One
        BY <3>1, OneAssumption, SMT
      <3> QED
        BY <3>2 DEF x, y
    <2>11. ((l - 1) * cp) * One \in Nat /\ (l * cp) * One \in Nat
      BY <2>9, OneAssumption, TimesType
    <2>12. ((l - 1) * cp) * One <= bound
      BY <2>7, <2>8, <2>10, <2>11
    <2> QED
      BY <2>2, <2>3, <2>12 DEF l, cp, bound
  <1>2. Sound /\ Sound' /\ SharesHaveMarkets /\ [Next]_vars =>
          [\A u \in User, c \in Denom :
              Lost(u, c) > 0 =>
                  \A r \in User, d \in Denom, sent \in Amount :
                      Liquidate(u, r, c, d, sent) =>
                          /\ Paid(d) > 0
                          /\ (Lost(u, c) - 1) * Prices[c] * One
                               <= (Paid(d) + 1) * Prices[d]
                                      * (One + markets[c].liquidation_bonus)
                                    + (Prices[d] + One) * One]_vars
    BY <1>1
  <1> QED
    BY <1>2, SoundAlways, SharesAlwaysHaveMarkets, PTL DEF Spec, SeizureIsPaid

-----------------------------------------------------------------------------
(***************************************************************************)
(* The accounts in coins                                                   *)
(***************************************************************************)

\* The two accounts, as the functions that the ledger sees.
Owned == [k \in Position |-> CollateralOf(k[1], k[2])]

Owed == [k \in Position |-> DebtOf(k[1], k[2])]

\* A share is worth a coin at most: the indexes have not grown to the
\* ScalingFactor-fold of what they started from.
SharesAreFine ==
    \A d \in DOMAIN markets : BorrowIndex(d) <= Coin /\ LiquidityIndex(d) <= Coin

LEMMA LedgerVars ==
    /\ Accounts!ledgerVars = <<Owned, Owed, balance, now>>
    /\ Accounts!ledgerVars' = <<Owned', Owed', balance', now'>>
  BY DEF Accounts!ledgerVars, Owned, Owed

LEMMA AccountsAt ==
    ASSUME NEW u \in User, NEW d \in Denom
    PROVE  /\ Owned[<<u, d>>] = CollateralOf(u, d)
           /\ Owned'[<<u, d>>] = CollateralOf(u, d)'
           /\ Owed[<<u, d>>] = DebtOf(u, d)
           /\ Owed'[<<u, d>>] = DebtOf(u, d)'
  BY DEF Owned, Owed, Position

LEMMA InitLedger == Init => Accounts!Init
  <1> SUFFICES ASSUME Init PROVE Accounts!Init
    OBVIOUS
  <1>1. \A u, d : CollateralOf(u, d) = 0 /\ DebtOf(u, d) = 0
    BY DEF Init, EmptyMap, CollateralOf, DebtOf
  <1>2. Owned = [k \in Position |-> 0] /\ Owed = [k \in Position |-> 0]
    BY <1>1 DEF Owned, Owed
  <1> QED
    BY <1>2 DEF Init, Accounts!Init, Accounts!Account, Position, Owned, Owed

LEMMA LedgerStill ==
    ASSUME InBlock, CoinsKept
    PROVE  UNCHANGED Accounts!ledgerVars
  <1>1. \A k \in Position : k[1] \in User /\ k[2] \in Denom
    BY DEF Position
  <1>2. Owned' = Owned
    BY <1>1 DEF CoinsKept, CollateralsMoveAt, Owned
  <1>3. Owed' = Owed
    BY <1>1 DEF CoinsKept, DebtsMoveAt, Owed
  <1> QED
    BY <1>2, <1>3, LedgerVars DEF CoinsKept, InBlock

LEMMA OnlyThese ==
    ASSUME InBlock, NEW d \in Denom, NEW n \in Int, CashMoves(d, n),
           NEW X, NEW Y, CollateralsMoveAt(X), DebtsMoveAt(Y)
    PROVE  Accounts!OnlyMoves(X, Y, d) /\ balance'[d] = balance[d] + n
  <1>1. balance \in [Denom -> Nat] /\ now' = now
    BY DEF InBlock, Sound, TypeOK
  <1>2. \A e \in Denom \ {d} : balance'[e] = balance[e]
    BY <1>1 DEF CashMoves
  <1>3. balance'[d] = balance[d] + n
    BY <1>1 DEF CashMoves
  <1>4. \A k \in Position : k[1] \in User /\ k[2] \in Denom /\ k = <<k[1], k[2]>>
    BY DEF Position
  <1>5. \A k \in Position \ X : Owned'[k] = Owned[k]
    BY <1>4 DEF CollateralsMoveAt, Owned
  <1>6. \A k \in Position \ Y : Owed'[k] = Owed[k]
    BY <1>4 DEF DebtsMoveAt, Owed
  <1> QED
    BY <1>1, <1>2, <1>3, <1>5, <1>6
    DEF Accounts!OnlyMoves, Accounts!Account, Position, Owned, Owed

LEMMA DepositLedger ==
    ASSUME InBlock, SharesAreFine, NEW u \in User, NEW d \in Denom,
           NEW amount \in Amount, Deposit(u, d, amount)
    PROVE  Accounts!Deposit(u, d)
  <1>1. /\ d \in DOMAIN markets /\ amount \in Nat \ {0}
        /\ CashMoves(d, amount)
        /\ DebtsMoveAt({})
        /\ CollateralsMoveAt({<<u, d>>})
        /\ CollateralOf(u, d)' <= CollateralOf(u, d) + amount
        /\ CollateralOf(u, d) + amount - 1 <= CollateralOf(u, d)'
    BY DepositCoins DEF SharesAreFine
  <1>2. Accounts!OnlyMoves({<<u, d>>}, {}, d) /\ balance'[d] = balance[d] + amount
    BY <1>1, OnlyThese
  <1>3. CollateralOf(u, d) \in Nat /\ CollateralOf(u, d)' \in Nat /\ balance[d] \in Nat
    BY CoinsType, CoinsTypePrimed DEF InBlock, Sound, TypeOK
  <1>4. Accounts!Received(d) = amount
    BY <1>1, <1>2, <1>3 DEF Accounts!Received
  <1>5. CollateralOf(u, d)' \in CollateralOf(u, d) + amount - 1 .. CollateralOf(u, d) + amount
    BY <1>1, <1>3
  <1>6. Owned'[<<u, d>>] \in Owned[<<u, d>>] + amount - 1 .. Owned[<<u, d>>] + amount
    BY <1>5, AccountsAt
  <1> QED
    BY <1>1, <1>2, <1>4, <1>6 DEF Accounts!Deposit, Owned

LEMMA WithdrawLedger ==
    ASSUME InBlock, SharesAreFine, NEW u \in User, NEW d \in Denom,
           NEW request \in Amount \cup {None}, Withdraw(u, d, request)
    PROVE  Accounts!Withdraw(u, d)
  <1>1. PICK amount \in Nat \ {0} :
        /\ d \in DOMAIN markets
        /\ amount <= CollateralOf(u, d)
        /\ CashMoves(d, -amount)
        /\ DebtsMoveAt({})
        /\ CollateralsMoveAt({<<u, d>>})
        /\ CollateralOf(u, d)' <= CollateralOf(u, d) - amount
        /\ CollateralOf(u, d) - amount - 1 <= CollateralOf(u, d)'
    BY WithdrawCoins DEF SharesAreFine
  <1>2. Accounts!OnlyMoves({<<u, d>>}, {}, d) /\ balance'[d] = balance[d] + -amount
    BY <1>1, OnlyThese
  <1>3. CollateralOf(u, d) \in Nat /\ CollateralOf(u, d)' \in Nat /\ balance[d] \in Nat
    BY CoinsType, CoinsTypePrimed DEF InBlock, Sound, TypeOK
  <1>4. Accounts!Paid(d) = amount
    BY <1>1, <1>2, <1>3 DEF Accounts!Paid
  <1>5. CollateralOf(u, d)' \in CollateralOf(u, d) - amount - 1 .. CollateralOf(u, d) - amount
    BY <1>1, <1>3
  <1>6. /\ Owned'[<<u, d>>] \in Owned[<<u, d>>] - amount - 1 .. Owned[<<u, d>>] - amount
        /\ amount <= Owned[<<u, d>>]
    BY <1>1, <1>5, AccountsAt
  <1> QED
    BY <1>1, <1>2, <1>4, <1>6 DEF Accounts!Withdraw, Owned

LEMMA BorrowLedger ==
    ASSUME InBlock, SharesAreFine, NEW u \in User, NEW d \in Denom,
           NEW amount \in Amount, Borrow(u, d, amount)
    PROVE  Accounts!Borrow(u, d)
  <1>1. /\ d \in DOMAIN markets /\ amount \in Nat \ {0}
        /\ CashMoves(d, -amount)
        /\ CollateralsMoveAt({})
        /\ DebtsMoveAt({<<u, d>>})
        /\ DebtOf(u, d) + amount <= DebtOf(u, d)'
        /\ DebtOf(u, d)' <= DebtOf(u, d) + amount + 1
    BY BorrowCoins DEF SharesAreFine
  <1>2. Accounts!OnlyMoves({}, {<<u, d>>}, d) /\ balance'[d] = balance[d] + -amount
    BY <1>1, OnlyThese
  <1>3. DebtOf(u, d) \in Nat /\ DebtOf(u, d)' \in Nat /\ balance[d] \in Nat
    BY CoinsType, CoinsTypePrimed DEF InBlock, Sound, TypeOK
  <1>4. Accounts!Paid(d) = amount
    BY <1>1, <1>2, <1>3 DEF Accounts!Paid
  <1>5. DebtOf(u, d)' \in DebtOf(u, d) + amount .. DebtOf(u, d) + amount + 1
    BY <1>1, <1>3
  <1>6. Owed'[<<u, d>>] \in Owed[<<u, d>>] + amount .. Owed[<<u, d>>] + amount + 1
    BY <1>5, AccountsAt
  <1> QED
    BY <1>1, <1>2, <1>4, <1>6 DEF Accounts!Borrow, Owed

LEMMA RepaidLedger ==
    ASSUME InBlock, NEW u \in User, NEW d \in Denom, NEW paid \in Nat,
           paid <= DebtOf(u, d), balance'[d] = balance[d] + paid,
           DebtOf(u, d) - paid <= DebtOf(u, d)',
           DebtOf(u, d)' <= DebtOf(u, d) - paid + 1
    PROVE  Accounts!Received(d) = paid /\ Accounts!Repaid(u, d)
  <1>1. DebtOf(u, d) \in Nat /\ DebtOf(u, d)' \in Nat /\ balance[d] \in Nat
    BY CoinsType, CoinsTypePrimed DEF InBlock, Sound, TypeOK
  <1>2. Accounts!Received(d) = paid
    BY <1>1 DEF Accounts!Received
  <1>3. DebtOf(u, d)' \in DebtOf(u, d) - paid .. DebtOf(u, d) - paid + 1
    BY <1>1
  <1>4. /\ Owed'[<<u, d>>] \in Owed[<<u, d>>] - paid .. Owed[<<u, d>>] - paid + 1
        /\ paid <= Owed[<<u, d>>]
    BY <1>3, AccountsAt
  <1>5. paid >= 0
    OBVIOUS
  <1> QED
    BY <1>2, <1>4, <1>5 DEF Accounts!Repaid, Owed

LEMMA RepayLedger ==
    ASSUME InBlock, SharesAreFine, NEW u \in User, NEW d \in Denom,
           NEW amount \in Amount, NEW on_behalf_of \in BOOLEAN,
           Repay(u, d, amount, on_behalf_of)
    PROVE  Accounts!Repay(u, d)
  <1>1. PICK paid \in Nat :
        /\ d \in DOMAIN markets
        /\ paid <= DebtOf(u, d)
        /\ CashMoves(d, paid)
        /\ CollateralsMoveAt({})
        /\ DebtsMoveAt({<<u, d>>})
        /\ DebtOf(u, d) - paid <= DebtOf(u, d)'
        /\ DebtOf(u, d)' <= DebtOf(u, d) - paid + 1
    BY RepayCoins DEF SharesAreFine
  <1>2. Accounts!OnlyMoves({}, {<<u, d>>}, d) /\ balance'[d] = balance[d] + paid
    BY <1>1, OnlyThese
  <1>3. Accounts!Repaid(u, d)
    BY <1>1, <1>2, RepaidLedger
  <1> QED
    BY <1>2, <1>3 DEF Accounts!Repay

LEMMA LiquidateLedger ==
    ASSUME InBlock, SharesAreFine, NEW u \in User, NEW r \in User,
           NEW c \in Denom, NEW d \in Denom, NEW sent \in Amount,
           Liquidate(u, r, c, d, sent)
    PROVE  Accounts!Liquidate(u, r, c, d)
  <1>1. PICK paid \in Nat :
        /\ d \in DOMAIN markets
        /\ paid <= DebtOf(u, d)
        /\ CashMoves(d, paid)
        /\ CollateralsMoveAt({<<u, c>>, <<r, c>>})
        /\ DebtsMoveAt({<<u, d>>})
        /\ DebtOf(u, d) - paid <= DebtOf(u, d)'
        /\ DebtOf(u, d)' <= DebtOf(u, d) - paid + 1
        /\ Lost(u, c) \in Nat
        /\ u = r => Lost(u, c) = 0
        /\ u # r => CollateralOf(r, c)' - CollateralOf(r, c)
                      \in Lost(u, c) - 1 .. Lost(u, c) + 1
        /\ Lost(u, c) > 0 => paid > 0
    BY LiquidateCoins DEF SharesAreFine
  <1>2. /\ Accounts!OnlyMoves({<<u, c>>, <<r, c>>}, {<<u, d>>}, d)
        /\ balance'[d] = balance[d] + paid
    BY <1>1, OnlyThese
  <1>3. Accounts!Repaid(u, d) /\ Accounts!Received(d) = paid
    BY <1>1, <1>2, RepaidLedger
  <1>4. Owned[<<u, c>>] - Owned'[<<u, c>>] = Lost(u, c)
    BY AccountsAt DEF Lost
  <1>5. Owned'[<<r, c>>] - Owned[<<r, c>>] = CollateralOf(r, c)' - CollateralOf(r, c)
    BY AccountsAt
  <1> DEFINE taken == Owned[<<u, c>>] - Owned'[<<u, c>>]
             given == Owned'[<<r, c>>] - Owned[<<r, c>>]
  <1>6. IF u = r THEN taken = 0
        ELSE /\ taken >= 0
             /\ given \in taken - 1 .. taken + 1
             /\ taken > 0 => Accounts!Received(d) > 0
    <2> HIDE DEF taken, given
    <2>1. taken = Lost(u, c) /\ given = CollateralOf(r, c)' - CollateralOf(r, c)
      BY <1>4, <1>5 DEF taken, given
    <2> QED
      BY <1>1, <1>3, <2>1
  <1> QED
    BY <1>2, <1>3, <1>6 DEF Accounts!Liquidate, Owned

LEMMA WaitingLedger ==
    ASSUME Sound, [Next]_vars, now' # now
    PROVE  Accounts!TimePasses
  <1>1. now \in Nat /\ now' \in Nat /\ now <= now' /\ balance' = balance
    BY OnlyTickMovesTime DEF Sound, TypeOK
  <1>2. now' > now
    BY <1>1
  <1>3. \A k \in Position : Owned'[k] >= Owned[k] /\ Owed'[k] >= Owed[k]
    <2>1. ASSUME NEW k \in Position
          PROVE  Owned'[k] >= Owned[k] /\ Owed'[k] >= Owed[k]
      <3>1. k[1] \in User /\ k[2] \in Denom
        BY DEF Position
      <3>2. /\ DebtOf(k[1], k[2])' >= DebtOf(k[1], k[2])
            /\ CollateralOf(k[1], k[2])' >= CollateralOf(k[1], k[2])
        BY <3>1, WaitingNeverShrinks
      <3> QED
        BY <3>2 DEF Owned, Owed
    <2> QED
      BY <2>1
  <1> QED
    BY <1>1, <1>2, <1>3 DEF Accounts!TimePasses, Accounts!Account, Position, Owned, Owed

LEMMA LedgerStep ==
    ASSUME Sound, Sound', SharesHaveMarkets, SharesAreFine, [Next]_vars
    PROVE  [Accounts!Next]_(Accounts!ledgerVars)
  <1>1. CASE now' # now
    BY <1>1, WaitingLedger DEF Accounts!Next
  <1>2. CASE now' = now
    <2>1. InBlock
      BY <1>2 DEF InBlock
    <2>2. CASE ~CoinsMessage
      BY <2>1, <2>2, OtherMessages, LedgerStill
    <2>3. CASE CoinsMessage
      <3>1. PICK u \in User, d \in Denom :
              \/ \E amount \in Amount : Deposit(u, d, amount)
              \/ \E request \in Amount \cup {None} : Withdraw(u, d, request)
              \/ \E amount \in Amount : Borrow(u, d, amount)
              \/ \E amount \in Amount, on_behalf_of \in BOOLEAN :
                    Repay(u, d, amount, on_behalf_of)
              \/ \E r \in User, c \in Denom, sent \in Amount : Liquidate(u, r, c, d, sent)
        BY <2>3 DEF CoinsMessage
      <3>2. \/ Accounts!Deposit(u, d)
            \/ Accounts!Withdraw(u, d)
            \/ Accounts!Borrow(u, d)
            \/ Accounts!Repay(u, d)
            \/ \E r \in User, c \in Denom : Accounts!Liquidate(u, r, c, d)
        BY <2>1, <3>1, DepositLedger, WithdrawLedger, BorrowLedger, RepayLedger,
           LiquidateLedger
      <3> QED
        BY <3>2 DEF Accounts!Next
    <2> QED
      BY <2>2, <2>3
  <1> QED
    BY <1>1, <1>2

\* As long as a share is worth a coin at most, the contract implements the
\* ledger: whatever is stored, accrued, minted and rounded, each message moves
\* the accounts it names by the coins that the bank moves, but for a coin.
THEOREM LedgerImplemented == Spec /\ []SharesAreFine => ImplementsLedger
  <1>1. Sound /\ Sound' /\ SharesHaveMarkets /\ SharesAreFine /\ [Next]_vars
          => [Accounts!Next]_(Accounts!ledgerVars)
    BY LedgerStep
  <1> QED
    BY <1>1, InitLedger, SoundAlways, SharesAlwaysHaveMarkets, PTL
    DEF Spec, ImplementsLedger, Accounts!Spec

-----------------------------------------------------------------------------
(***************************************************************************)
(* What positions are worth.  The sums of Health are recursions that a     *)
(* CHOOSE picks; each is the sum of a function, for which the lemmas on    *)
(* sums hold.                                                              *)
(***************************************************************************)

PositionRecord ==
    [collateral_amount : Nat, debt_amount : Nat, price : Nat, max_ltv : Nat,
     liquidation_threshold : Nat]

ArePositions(positions) ==
    /\ DOMAIN positions \subseteq Denom
    /\ positions \in [DOMAIN positions -> PositionRecord]

DebtValues(positions) ==
    [d \in DOMAIN positions |-> Value(positions[d].debt_amount, positions[d].price)]

ThresholdValues(positions) ==
    [d \in DOMAIN positions |-> UintMul(Value(positions[d].collateral_amount, positions[d].price),
                                        positions[d].liquidation_threshold)]

LEMMA DebtValueIsSum ==
    ASSUME NEW positions
    PROVE  TotalDebtValue(positions) = SumFunction(DebtValues(positions))
  <1> DEFINE D == DOMAIN positions
             f == DebtValues(positions)
             V(x) == Value(positions[x].debt_amount, positions[x].price)
             Body(h) == [s \in SUBSET D |-> IF s = {} THEN 0
                           ELSE LET x == CHOOSE x \in s : TRUE IN V(x) + h[s \ {x}]]
             Terms(h) == [s \in SUBSET DOMAIN f |-> IF s = {} THEN 0
                           ELSE LET x == CHOOSE x \in s : TRUE IN f[x] + h[s \ {x}]]
  <1>1. D = DOMAIN f /\ \A x \in D : f[x] = V(x)
    BY DEF DebtValues
  <1>2. \A h : Body(h) = Terms(h)
    <2> HIDE DEF f, D, V
    <2>1. \A s \in SUBSET D : s # {} => (CHOOSE x \in s : TRUE) \in D
      OBVIOUS
    <2> QED
      BY <1>1, <2>1
  <1>3. TotalDebtValue(positions) = (CHOOSE h : h = Body(h))[D]
    BY DEF TotalDebtValue, MapThenSumSet, MapThenFoldSet
  <1>4. SumFunction(f) = (CHOOSE h : h = Terms(h))[D]
    BY <1>1, SumIsRecursive DEF Sums
  <1>5. (CHOOSE h : h = Body(h)) = (CHOOSE h : h = Terms(h))
    <2> HIDE DEF Body, Terms
    <2> QED
      BY <1>2, Zenon
  <1> QED
    BY <1>3, <1>4, <1>5

LEMMA ThresholdValueIsSum ==
    ASSUME NEW positions
    PROVE  LiquidationThresholdAdjustedCollateral(positions) = SumFunction(ThresholdValues(positions))
  <1> DEFINE D == DOMAIN positions
             f == ThresholdValues(positions)
             V(x) == UintMul(Value(positions[x].collateral_amount, positions[x].price),
                             positions[x].liquidation_threshold)
             Body(h) == [s \in SUBSET D |-> IF s = {} THEN 0
                           ELSE LET x == CHOOSE x \in s : TRUE IN V(x) + h[s \ {x}]]
             Terms(h) == [s \in SUBSET DOMAIN f |-> IF s = {} THEN 0
                           ELSE LET x == CHOOSE x \in s : TRUE IN f[x] + h[s \ {x}]]
  <1>1. D = DOMAIN f /\ \A x \in D : f[x] = V(x)
    BY DEF ThresholdValues
  <1>2. \A h : Body(h) = Terms(h)
    <2> HIDE DEF f, D, V
    <2>1. \A s \in SUBSET D : s # {} => (CHOOSE x \in s : TRUE) \in D
      OBVIOUS
    <2> QED
      BY <1>1, <2>1
  <1>3. LiquidationThresholdAdjustedCollateral(positions) = (CHOOSE h : h = Body(h))[D]
    BY DEF LiquidationThresholdAdjustedCollateral, MapThenSumSet, MapThenFoldSet
  <1>4. SumFunction(f) = (CHOOSE h : h = Terms(h))[D]
    BY <1>1, SumIsRecursive DEF Sums
  <1>5. (CHOOSE h : h = Body(h)) = (CHOOSE h : h = Terms(h))
    <2> HIDE DEF Body, Terms
    <2> QED
      BY <1>2, Zenon
  <1> QED
    BY <1>3, <1>4, <1>5

LEMMA ValuesTyped ==
    ASSUME NEW p, ArePositions(p)
    PROVE  /\ IsFiniteSet(DOMAIN p)
           /\ DebtValues(p) \in [DOMAIN p -> Nat]
           /\ ThresholdValues(p) \in [DOMAIN p -> Nat]
  <1>1. IsFiniteSet(DOMAIN p)
    BY FiniteAssumption, FS_Subset DEF ArePositions
  <1>2. \A d \in DOMAIN p : /\ p[d].collateral_amount \in Nat /\ p[d].debt_amount \in Nat
                            /\ p[d].price \in Nat /\ p[d].liquidation_threshold \in Nat
    BY DEF ArePositions, PositionRecord
  <1>3. \A d \in DOMAIN p : /\ Value(p[d].debt_amount, p[d].price) \in Nat
                            /\ Value(p[d].collateral_amount, p[d].price) \in Nat
    BY <1>2, UintMulType DEF Value
  <1>4. \A d \in DOMAIN p : UintMul(Value(p[d].collateral_amount, p[d].price),
                                    p[d].liquidation_threshold) \in Nat
    BY <1>2, <1>3, UintMulType
  <1> QED
    BY <1>1, <1>3, <1>4 DEF DebtValues, ThresholdValues

LEMMA UintMulMonotone ==
    ASSUME NEW m \in Nat, NEW n \in Nat, NEW a \in Nat, m <= n
    PROVE  UintMul(m, a) <= UintMul(n, a) /\ UintMul(0, a) = 0
  <1>1. m * a <= n * a /\ m * a \in Nat /\ n * a \in Nat
    BY TimesMonotone, TimesType
  <1>2. 0 * a = 0
    OBVIOUS
  <1>3. 0 \div One = 0
    BY OneAssumption
  <1> QED
    BY <1>1, <1>2, <1>3, DivMonotone, OneAssumption DEF UintMul

\* What p owes is owed, at the same price, in q, or more: then it is worth no more.
LEMMA DebtsWorthNoMore ==
    ASSUME NEW p, ArePositions(p), NEW q, ArePositions(q),
           \A d \in DOMAIN p : p[d].debt_amount # 0 =>
               /\ d \in DOMAIN q
               /\ p[d].debt_amount <= q[d].debt_amount
               /\ p[d].price = q[d].price
    PROVE  TotalDebtValue(p) <= TotalDebtValue(q)
  <1> DEFINE f == DebtValues(p)
             g == DebtValues(q)
  <1>1. ASSUME NEW d \in DOMAIN p, f[d] # 0 PROVE d \in DOMAIN q /\ f[d] <= g[d]
    <2>1. /\ p[d].debt_amount \in Nat /\ p[d].price \in Nat
          /\ f[d] = UintMul(p[d].debt_amount, p[d].price)
      BY DEF ArePositions, PositionRecord, DebtValues, Value
    <2>2. p[d].debt_amount # 0
      BY <1>1, <2>1, UintMulMonotone
    <2>3. /\ d \in DOMAIN q /\ p[d].debt_amount <= q[d].debt_amount
          /\ p[d].price = q[d].price
      BY <2>2
    <2>4. q[d].debt_amount \in Nat /\ g[d] = UintMul(q[d].debt_amount, q[d].price)
      BY <2>3 DEF ArePositions, PositionRecord, DebtValues, Value
    <2> QED
      BY <2>1, <2>3, <2>4, UintMulMonotone
  <1> HIDE DEF f, g
  <1>2. SumFunction(f) <= SumFunction(g)
    BY <1>1, ValuesTyped, SumMonotone DEF f, g
  <1> QED
    BY <1>2, DebtValueIsSum DEF f, g

LEMMA CollateralWorthNoMore ==
    ASSUME NEW p, ArePositions(p), NEW q, ArePositions(q),
           \A d \in DOMAIN p : p[d].collateral_amount # 0 =>
               /\ d \in DOMAIN q
               /\ p[d].collateral_amount <= q[d].collateral_amount
               /\ p[d].price = q[d].price
               /\ p[d].liquidation_threshold = q[d].liquidation_threshold
    PROVE  LiquidationThresholdAdjustedCollateral(p)
             <= LiquidationThresholdAdjustedCollateral(q)
  <1> DEFINE f == ThresholdValues(p)
             g == ThresholdValues(q)
  <1>1. ASSUME NEW d \in DOMAIN p, f[d] # 0 PROVE d \in DOMAIN q /\ f[d] <= g[d]
    <2> DEFINE v == UintMul(p[d].collateral_amount, p[d].price)
               w == UintMul(q[d].collateral_amount, q[d].price)
    <2>1. /\ p[d].collateral_amount \in Nat /\ p[d].price \in Nat
          /\ p[d].liquidation_threshold \in Nat
          /\ f[d] = UintMul(v, p[d].liquidation_threshold)
      BY DEF ArePositions, PositionRecord, ThresholdValues, Value
    <2>2. p[d].collateral_amount # 0
      <3>1. ASSUME p[d].collateral_amount = 0 PROVE f[d] = 0
        <4>1. v = 0
          BY <2>1, <3>1, UintMulMonotone
        <4> HIDE DEF v
        <4> QED
          BY <2>1, <4>1, UintMulMonotone
      <3> QED
        BY <1>1, <3>1
    <2>3. /\ d \in DOMAIN q /\ p[d].collateral_amount <= q[d].collateral_amount
          /\ p[d].price = q[d].price
          /\ p[d].liquidation_threshold = q[d].liquidation_threshold
      BY <2>2
    <2>4. /\ q[d].collateral_amount \in Nat
          /\ g[d] = UintMul(w, q[d].liquidation_threshold)
      BY <2>3 DEF ArePositions, PositionRecord, ThresholdValues, Value
    <2>5. v <= w /\ v \in Nat /\ w \in Nat
      BY <2>1, <2>3, <2>4, UintMulMonotone, UintMulType
    <2> HIDE DEF v, w
    <2> QED
      BY <2>1, <2>3, <2>4, <2>5, UintMulMonotone
  <1> HIDE DEF f, g
  <1>2. SumFunction(f) <= SumFunction(g)
    BY <1>1, ValuesTyped, SumMonotone DEF f, g
  <1> QED
    BY <1>2, ThresholdValueIsSum DEF f, g

LEMMA ValueTypes ==
    ASSUME NEW p, ArePositions(p)
    PROVE  TotalDebtValue(p) \in Nat /\ LiquidationThresholdAdjustedCollateral(p) \in Nat
  BY ValuesTyped, SumType, DebtValueIsSum, ThresholdValueIsSum

\* Who owes no more and has no less stays healthy.
LEMMA HealthierStaysHealthy ==
    ASSUME NEW p, ArePositions(p), NEW q, ArePositions(q), ~IsLiquidatable(p),
           TotalDebtValue(q) <= TotalDebtValue(p),
           LiquidationThresholdAdjustedCollateral(p)
             <= LiquidationThresholdAdjustedCollateral(q)
    PROVE  ~IsLiquidatable(q)
  <1> DEFINE a == LiquidationThresholdAdjustedCollateral(p)
             b == LiquidationThresholdAdjustedCollateral(q)
             m == TotalDebtValue(p)
             n == TotalDebtValue(q)
  <1>1. a \in Nat /\ b \in Nat /\ m \in Nat /\ n \in Nat /\ n <= m /\ a <= b
    BY ValueTypes
  <1>2. m # 0 => FromRatio(a, m) >= One
    <2>1. m # 0 => ~(FromRatio(a, m) < One)
      BY DEF IsLiquidatable, BelowOne
    <2> HIDE DEF a, m
    <2> QED
      BY <1>1, <2>1, FromRatioType, OneAssumption
  <1> HIDE DEF a, b, m, n
  <1>3. ASSUME n # 0 PROVE ~(FromRatio(b, n) < One)
    <2>1. m # 0 /\ One \in Nat \ {0}
      BY <1>1, <1>3, OneAssumption
    <2>2. One * m <= a * One
      BY <1>1, <1>2, <2>1, DivIff, TimesType DEF FromRatio
    <2>3. One * n <= One * m /\ a * One <= b * One
      BY <1>1, <2>1, TimesMonotone
    <2>4. One * n <= b * One
      BY <1>1, <2>1, <2>2, <2>3, TimesType
    <2>5. One <= FromRatio(b, n)
      BY <1>1, <1>3, <2>1, <2>4, DivIff, TimesType DEF FromRatio
    <2> QED
      BY <1>1, <1>3, <2>1, <2>5, FromRatioType
  <1> QED
    BY <1>3 DEF IsLiquidatable, BelowOne, b, n

-----------------------------------------------------------------------------
(***************************************************************************)
(* Health                                                                  *)
(***************************************************************************)

\* What counts of a user's debt and collateral in d for the user's health.
Owes(u, d) ==
    IF HasDebt(u, d) /\ ~debts[<<u, d>>].uncollateralized THEN DebtOf(u, d) ELSE 0

Holds(u, d) ==
    IF HasCollateral(u, d) /\ collaterals[<<u, d>>].enabled THEN CollateralOf(u, d) ELSE 0

\* The positions of u as they are.
Held(u) == Positions(u, collaterals)

LEMMA PositionsAre ==
    ASSUME Sound, NEW u \in User, PositionsDefined(u, collaterals)
    PROVE  /\ ArePositions(Held(u))
           /\ \A d \in DOMAIN Held(u) :
                /\ d \in Denom /\ d \in DOMAIN markets
                /\ Held(u)[d].debt_amount = Owes(u, d)
                /\ Held(u)[d].collateral_amount = Holds(u, d)
                /\ Held(u)[d].price = Prices[d]
                /\ Held(u)[d].max_ltv = markets[d].max_loan_to_value
                /\ Held(u)[d].liquidation_threshold = markets[d].liquidation_threshold
           /\ \A d \in Denom \ DOMAIN Held(u) : Owes(u, d) = 0 /\ Holds(u, d) = 0
  <1> DEFINE D == PositionDenoms(u, collaterals)
             p == Held(u)
  <1>1. DOMAIN p = D /\ D \subseteq Denom
    BY DEF Held, Positions, PositionDenoms
  <1>2. ASSUME NEW d \in D
        PROVE  /\ d \in Denom /\ d \in DOMAIN markets /\ PriceKnown(d)
               /\ (HasDebt(u, d) \/ HasCollateral(u, d))
    BY <1>2 DEF PositionsDefined, PositionDenoms, HasDebt, HasCollateral
  <1>3. ASSUME NEW d \in D
        PROVE  /\ p[d].debt_amount = Owes(u, d)
               /\ p[d].collateral_amount = Holds(u, d)
               /\ p[d].price = Prices[d]
               /\ p[d].max_ltv = markets[d].max_loan_to_value
               /\ p[d].liquidation_threshold = markets[d].liquidation_threshold
    <2>1. d \in DOMAIN markets
      BY <1>2
    <2>2. p[d] =
        [collateral_amount |->
            IF <<u, d>> \in DOMAIN collaterals /\ collaterals[<<u, d>>].enabled
            THEN UnderlyingLiquidity(collaterals[<<u, d>>].amount_scaled, markets[d], now)
            ELSE 0,
         debt_amount |->
            IF HasDebt(u, d) /\ ~debts[<<u, d>>].uncollateralized
            THEN UnderlyingDebt(debts[<<u, d>>].amount_scaled, markets[d], now)
            ELSE 0,
         price |-> Prices[d],
         max_ltv |-> markets[d].max_loan_to_value,
         liquidation_threshold |-> markets[d].liquidation_threshold]
      BY DEF Held, Positions
    <2>3. HasDebt(u, d) =>
            DebtOf(u, d) = UnderlyingDebt(debts[<<u, d>>].amount_scaled, markets[d], now)
      BY <2>1 DEF DebtOf, DebtScaled
    <2>4. HasCollateral(u, d) =>
            CollateralOf(u, d)
              = UnderlyingLiquidity(collaterals[<<u, d>>].amount_scaled, markets[d], now)
      BY <2>1 DEF CollateralOf, CollateralScaled
    <2> QED
      BY <2>2, <2>3, <2>4 DEF Owes, Holds, HasCollateral
  <1>4. ASSUME NEW d \in D PROVE p[d] \in PositionRecord
    <2>1. Owes(u, d) \in Nat /\ Holds(u, d) \in Nat
      BY <1>2, CoinsType DEF Owes, Holds
    <2>2. Prices[d] \in Nat
      BY <1>2 DEF PriceKnown, OracleKnown, Prices, Sound, TypeOK, IsMap, Decimal
    <2>3. /\ markets[d].max_loan_to_value \in Nat
          /\ markets[d].liquidation_threshold \in Nat
      BY <1>2 DEF Sound, SoundMarket, Market, Decimal
    <2>4. p[d] = [collateral_amount |-> p[d].collateral_amount,
                  debt_amount |-> p[d].debt_amount, price |-> p[d].price,
                  max_ltv |-> p[d].max_ltv,
                  liquidation_threshold |-> p[d].liquidation_threshold]
      BY DEF Held, Positions
    <2> HIDE DEF p
    <2> QED
      BY <1>3, <2>1, <2>2, <2>3, <2>4 DEF PositionRecord
  <1>5. p = [d \in D |-> p[d]]
    BY DEF Held, Positions
  <1>6. ASSUME NEW d \in Denom \ D PROVE Owes(u, d) = 0 /\ Holds(u, d) = 0
    BY <1>6 DEF Owes, Holds, PositionDenoms, HasDebt, HasCollateral
  <1> HIDE DEF p
  <1>7. ArePositions(p)
    BY <1>1, <1>4, <1>5 DEF ArePositions
  <1> HIDE DEF D
  <1> QED
    BY <1>1, <1>2, <1>3, <1>6, <1>7 DEF p

PositionsFine ==
    \A u \in User : PositionsDefined(u, collaterals) =>
        /\ ArePositions(Held(u))
        /\ \A d \in DOMAIN Held(u) :
             /\ d \in Denom /\ d \in DOMAIN markets
             /\ Held(u)[d].debt_amount = Owes(u, d)
             /\ Held(u)[d].collateral_amount = Holds(u, d)
             /\ Held(u)[d].price = Prices[d]
             /\ Held(u)[d].max_ltv = markets[d].max_loan_to_value
             /\ Held(u)[d].liquidation_threshold = markets[d].liquidation_threshold
        /\ \A d \in Denom \ DOMAIN Held(u) : Owes(u, d) = 0 /\ Holds(u, d) = 0

LEMMA SoundIsFine == Sound => PositionsFine
  BY PositionsAre DEF PositionsFine

LEMMA MoreSharesMoreCoins ==
    ASSUME NEW a \in Nat, NEW b \in Nat, NEW i \in Nat, a <= b
    PROVE  UnderlyingCeil(a, i) <= UnderlyingCeil(b, i)
  <1>1. /\ a * i \in Nat /\ b * i \in Nat
        /\ a * i <= b * i
    BY TimesMonotone, TimesType
  <1>2. /\ UintMul(a, i) \in Nat /\ UintMul(b, i) \in Nat
        /\ UintMul(a, i) <= UintMul(b, i)
    BY <1>1, OneAssumption, DivMonotone, UintMulType DEF UintMul
  <1> QED
    BY <1>2, ScalingAssumption, DivCeilMonotone DEF UnderlyingCeil

LEMMA FewerSharesOweNoMore ==
    ASSUME InBlock, NEW u \in User, NEW d \in Denom,
           DebtScaled(u, d)' <= DebtScaled(u, d), DebtScaled(u, d)' \in Nat
    PROVE  DebtOf(u, d)' <= DebtOf(u, d)
  <1>1. DebtScaled(u, d) \in Nat /\ DebtOf(u, d) \in Nat
    BY PositionTypes, CoinsType DEF InBlock, Sound
  <1>2. CASE d \in DOMAIN markets
    <2>1. /\ DebtOf(u, d) = UnderlyingCeil(DebtScaled(u, d), BorrowIndex(d))
          /\ DebtOf(u, d)' = UnderlyingCeil(DebtScaled(u, d)', BorrowIndex(d))
      BY <1>2, CoinsOfShares DEF InBlock
    <2>2. BorrowIndex(d) \in Nat
      BY <1>2, IndexesType DEF InBlock
    <2> QED
      BY <1>1, <2>1, <2>2, MoreSharesMoreCoins
  <1>3. CASE d \notin DOMAIN markets
    <2>1. DebtScaled(u, d)' = DebtScaled(u, d)
      BY <1>1, <1>3 DEF InBlock, SharesHaveMarkets
    <2> QED
      BY <1>1, <2>1, SameSharesSameCoins DEF InBlock
  <1> QED
    BY <1>2, <1>3

\* In the step, u takes on no debt, and no debt of u comes to count; no
\* collateral of u disappears or ceases to count.
DebtsNoWorse(u) ==
    \A d \in Denom :
        HasDebt(u, d)' =>
            /\ HasDebt(u, d)
            /\ debts'[<<u, d>>].uncollateralized = debts[<<u, d>>].uncollateralized
            /\ debts'[<<u, d>>].amount_scaled <= debts[<<u, d>>].amount_scaled

CollateralsNoWorse(u) ==
    \A d \in Denom :
        HasCollateral(u, d) =>
            /\ HasCollateral(u, d)'
            /\ collaterals[<<u, d>>].enabled => collaterals'[<<u, d>>].enabled

LEMMA OwesNoMore ==
    ASSUME InBlock, NEW u \in User, NEW d \in Denom, DebtsNoWorse(u)
    PROVE  Owes(u, d)' <= Owes(u, d)
  <1>1. DebtOf(u, d) \in Nat /\ DebtOf(u, d)' \in Nat
    BY CoinsType, CoinsTypePrimed DEF InBlock
  <1>2. CASE ~HasDebt(u, d)' \/ debts'[<<u, d>>].uncollateralized
    <2>1. Owes(u, d)' = 0
      BY <1>2 DEF Owes
    <2>2. Owes(u, d) \in Nat
      BY <1>1 DEF Owes
    <2> QED
      BY <2>1, <2>2
  <1>3. CASE HasDebt(u, d)' /\ ~debts'[<<u, d>>].uncollateralized
    <2>1. /\ HasDebt(u, d)
          /\ debts'[<<u, d>>].uncollateralized = debts[<<u, d>>].uncollateralized
          /\ debts'[<<u, d>>].amount_scaled <= debts[<<u, d>>].amount_scaled
      BY <1>3 DEF DebtsNoWorse
    <2>2. debts'[<<u, d>>] \in Debt
      BY <1>3 DEF InBlock, Sound, TypeOK, IsMap, HasDebt
    <2>3. DebtScaled(u, d)' <= DebtScaled(u, d) /\ DebtScaled(u, d)' \in Nat
      BY <1>3, <2>1, <2>2 DEF DebtScaled, Debt, Uint
    <2>4. DebtOf(u, d)' <= DebtOf(u, d)
      BY <2>3, FewerSharesOweNoMore
    <2>5. Owes(u, d)' = DebtOf(u, d)' /\ Owes(u, d) = DebtOf(u, d)
      BY <1>3, <2>1 DEF Owes
    <2> QED
      BY <2>4, <2>5
  <1> QED
    BY <1>2, <1>3

LEMMA HoldsNoLess ==
    ASSUME InBlock, NEW u \in User, NEW d \in Denom,
           CollateralsNoWorse(u), ~CollateralTaken(u, d)
    PROVE  Holds(u, d) <= Holds(u, d)'
  <1>1. CollateralOf(u, d) \in Nat /\ CollateralOf(u, d)' \in Nat
    BY CoinsType, CoinsTypePrimed DEF InBlock
  <1>2. CASE ~HasCollateral(u, d) \/ ~collaterals[<<u, d>>].enabled
    <2>1. Holds(u, d) = 0
      BY <1>2 DEF Holds
    <2>2. Holds(u, d)' \in Nat
      BY <1>1 DEF Holds
    <2> QED
      BY <2>1, <2>2
  <1>3. CASE HasCollateral(u, d) /\ collaterals[<<u, d>>].enabled
    <2>1. HasCollateral(u, d)' /\ collaterals'[<<u, d>>].enabled
      BY <1>3 DEF CollateralsNoWorse
    <2>2. CollateralOf(u, d)' >= CollateralOf(u, d)
      BY CollateralIsolated DEF InBlock
    <2>3. Holds(u, d)' = CollateralOf(u, d)' /\ Holds(u, d) = CollateralOf(u, d)
      BY <1>3, <2>1 DEF Holds
    <2> QED
      BY <1>1, <2>2, <2>3
  <1> QED
    BY <1>2, <1>3

LEMMA SameEntriesNoWorse ==
    ASSUME Sound, NEW u \in User
    PROVE  /\ debts' = debts => DebtsNoWorse(u)
           /\ collaterals' = collaterals => CollateralsNoWorse(u)
  <1>1. ASSUME debts' = debts, NEW d \in Denom, HasDebt(u, d)
        PROVE  debts[<<u, d>>].amount_scaled \in Nat
    BY <1>1 DEF HasDebt, Sound, TypeOK, IsMap, Debt, Uint
  <1>2. debts' = debts => \A d \in Denom : HasDebt(u, d)' = HasDebt(u, d)
    BY DEF HasDebt
  <1>3. collaterals' = collaterals => \A d \in Denom : HasCollateral(u, d)' = HasCollateral(u, d)
    BY DEF HasCollateral
  <1> QED
    BY <1>1, <1>2, <1>3 DEF DebtsNoWorse, CollateralsNoWorse

LEMMA DecreasedDebtNoWorse ==
    ASSUME Sound, NEW u \in User, NEW v \in User, NEW e \in Denom, HasDebt(v, e),
           NEW s \in Nat, debts' = DecreaseDebt(v, e, s)
    PROVE  DebtsNoWorse(u)
  <1>1. \A k \in DOMAIN debts : debts[k] \in Debt
    BY DEF Sound, TypeOK, IsMap
  <1>2. ASSUME NEW d \in Denom, HasDebt(u, d)'
        PROVE  /\ HasDebt(u, d)
               /\ debts'[<<u, d>>].uncollateralized = debts[<<u, d>>].uncollateralized
               /\ debts'[<<u, d>>].amount_scaled <= debts[<<u, d>>].amount_scaled
    <2>1. <<u, d>> \in DOMAIN debts'
      BY <1>2 DEF HasDebt
    <2>2. <<v, e>> \in DOMAIN debts
      BY DEF HasDebt
    <2>3. CASE debts[<<v, e>>].amount_scaled = s
      BY <1>1, <2>1, <2>2, <2>3 DEF DecreaseDebt, Remove, HasDebt, Debt, Uint
    <2>4. CASE debts[<<v, e>>].amount_scaled # s
      <3>1. debts' = Save(debts, <<v, e>>, [debts[<<v, e>>] EXCEPT !.amount_scaled = @ - s])
        BY <2>4 DEF DecreaseDebt
      <3>2. <<u, d>> \in DOMAIN debts
        BY <2>1, <2>2, <3>1 DEF Save
      <3>3. CASE <<u, d>> = <<v, e>>
        <4>1. debts'[<<u, d>>] = [debts[<<u, d>>] EXCEPT !.amount_scaled = @ - s]
          BY <3>1, <3>3 DEF Save
        <4>2. debts[<<u, d>>] \in Debt
          BY <1>1, <3>2
        <4> QED
          BY <3>2, <4>1, <4>2 DEF Debt, Uint, HasDebt
      <3>4. CASE <<u, d>> # <<v, e>>
        <4>1. debts'[<<u, d>>] = debts[<<u, d>>]
          BY <3>1, <3>2, <3>4 DEF Save
        <4>2. debts[<<u, d>>] \in Debt
          BY <1>1, <3>2
        <4> QED
          BY <3>2, <4>1, <4>2 DEF Debt, Uint, HasDebt
      <3> QED
        BY <3>3, <3>4
    <2> QED
      BY <2>3, <2>4
  <1> QED
    BY <1>2 DEF DebtsNoWorse

LEMMA IncreasedCollateralKept ==
    ASSUME NEW colls, IsMap(colls, Position, Collateral), NEW v \in User, NEW e \in Denom,
           NEW s \in Nat, NEW k \in DOMAIN colls
    PROVE  /\ k \in DOMAIN IncreaseCollateral(colls, v, e, s)
           /\ IncreaseCollateral(colls, v, e, s)[k].enabled = colls[k].enabled
  <1>1. colls[k] \in Collateral
    BY DEF IsMap
  <1> QED
    BY <1>1 DEF IncreaseCollateral, Save, Collateral

LEMMA DecreasedCollateralKept ==
    ASSUME NEW colls, IsMap(colls, Position, Collateral), NEW v \in User, NEW e \in Denom,
           NEW s \in Nat, NEW k \in DOMAIN colls, k # <<v, e>>
    PROVE  /\ k \in DOMAIN DecreaseCollateral(colls, v, e, s)
           /\ DecreaseCollateral(colls, v, e, s)[k] = colls[k]
  BY DEF DecreaseCollateral, Save, Remove

\* u takes something out.
TakesOut(u) ==
    \E d \in Denom :
        \/ \E request \in Amount \cup {None} : Withdraw(u, d, request)
        \/ \E amount \in Amount : Borrow(u, d, amount)

\* u gives a collateral up.
GivesUp(u) ==
    \E d \in Denom, enable \in Status :
        /\ UpdateAssetCollateralStatus(u, d, enable)
        /\ collaterals[<<u, d>>].enabled /\ ~enable

LEMMA UsersKeepTimeAndPrices ==
    ASSUME UserStep
    PROVE  now' = now /\ oracle' = oracle
  <1>1. ASSUME NEW u \in User, NEW d \in Denom, NEW amount \in Amount, Deposit(u, d, amount)
        PROVE  now' = now /\ oracle' = oracle
    BY <1>1 DEF Deposit
  <1>2. ASSUME NEW u \in User, NEW d \in Denom, NEW request \in Amount \cup {None},
               Withdraw(u, d, request)
        PROVE  now' = now /\ oracle' = oracle
    BY <1>2 DEF Withdraw
  <1>3. ASSUME NEW u \in User, NEW d \in Denom, NEW amount \in Amount, Borrow(u, d, amount)
        PROVE  now' = now /\ oracle' = oracle
    BY <1>3 DEF Borrow
  <1>4. ASSUME NEW u \in User, NEW d \in Denom, NEW amount \in Amount,
               NEW on_behalf_of \in BOOLEAN, Repay(u, d, amount, on_behalf_of)
        PROVE  now' = now /\ oracle' = oracle
    BY <1>4 DEF Repay
  <1>5. ASSUME NEW u \in User, NEW d \in Denom, NEW r \in User, NEW c \in Denom,
               NEW sent \in Amount, Liquidate(u, r, c, d, sent)
        PROVE  now' = now /\ oracle' = oracle
    BY <1>5 DEF Liquidate
  <1>6. ASSUME NEW u \in User, NEW d \in Denom, NEW enable \in Status,
               UpdateAssetCollateralStatus(u, d, enable)
        PROVE  now' = now /\ oracle' = oracle
    BY <1>6 DEF UpdateAssetCollateralStatus
  <1> QED
    BY <1>1, <1>2, <1>3, <1>4, <1>5, <1>6 DEF UserStep

LEMMA UsersMessagesNoWorse ==
    ASSUME InBlock, NEW u \in User, UserStep, ~TakesOut(u), ~GivesUp(u),
           ~Liquidatable(u, collaterals)
    PROVE  DebtsNoWorse(u) /\ CollateralsNoWorse(u)
  <1> USE DEF InBlock
  <1>1. IsMap(collaterals, Position, Collateral)
    BY DEF Sound, TypeOK
  <1>2. ASSUME NEW v \in User, NEW d \in Denom, NEW amount \in Amount, Deposit(v, d, amount)
        PROVE  DebtsNoWorse(u) /\ CollateralsNoWorse(u)
    <2>1. PICK s \in Nat : collaterals' = IncreaseCollateral(collaterals, v, d, s)
      BY <1>2, DepositSettles
    <2>2. debts' = debts
      BY <1>2 DEF Deposit
    <2>3. DebtsNoWorse(u)
      BY <2>2, SameEntriesNoWorse
    <2>4. CollateralsNoWorse(u)
      BY <1>1, <2>1, IncreasedCollateralKept DEF CollateralsNoWorse, HasCollateral
    <2> QED
      BY <2>3, <2>4
  <1>3. ASSUME NEW v \in User, NEW d \in Denom, NEW request \in Amount \cup {None},
               Withdraw(v, d, request)
        PROVE  DebtsNoWorse(u) /\ CollateralsNoWorse(u)
    <2>1. v # u
      BY <1>3 DEF TakesOut
    <2>2. PICK s \in Nat : /\ collaterals' = DecreaseCollateral(collaterals, v, d, s)
      BY <1>3, WithdrawSettles
    <2>3. DebtsNoWorse(u)
      BY <1>3, SameEntriesNoWorse DEF Withdraw
    <2>4. \A e \in Denom : <<u, e>> # <<v, d>>
      BY <2>1
    <2>5. CollateralsNoWorse(u)
      BY <1>1, <2>2, <2>4, DecreasedCollateralKept DEF CollateralsNoWorse, HasCollateral
    <2> QED
      BY <2>3, <2>5
  <1>4. ASSUME NEW v \in User, NEW d \in Denom, NEW amount \in Amount, Borrow(v, d, amount)
        PROVE  DebtsNoWorse(u) /\ CollateralsNoWorse(u)
    <2>1. v # u
      BY <1>4 DEF TakesOut
    <2>2. PICK s \in Nat : debts' = IncreaseDebt(v, d, s, Limit(v, d) # 0)
      BY <1>4, BorrowSettles
    <2>3. CollateralsNoWorse(u)
      BY <1>4, SameEntriesNoWorse DEF Borrow
    <2>4. \A e \in Denom : HasDebt(u, e)' => HasDebt(u, e) /\ debts'[<<u, e>>] = debts[<<u, e>>]
      BY <2>1, <2>2 DEF HasDebt, IncreaseDebt, Save
    <2>5. \A k \in DOMAIN debts : debts[k].amount_scaled \in Nat
      BY DEF Sound, TypeOK, IsMap, Debt, Uint
    <2>6. DebtsNoWorse(u)
      BY <2>4, <2>5 DEF DebtsNoWorse, HasDebt
    <2> QED
      BY <2>3, <2>6
  <1>5. ASSUME NEW v \in User, NEW d \in Denom, NEW amount \in Amount,
               NEW on_behalf_of \in BOOLEAN, Repay(v, d, amount, on_behalf_of)
        PROVE  DebtsNoWorse(u) /\ CollateralsNoWorse(u)
    <2>1. PICK s \in Nat : debts' = DecreaseDebt(v, d, s)
      BY <1>5, RepaySettles
    <2>2. HasDebt(v, d) /\ collaterals' = collaterals
      BY <1>5 DEF Repay
    <2> QED
      BY <2>1, <2>2, SameEntriesNoWorse, DecreasedDebtNoWorse
  <1>6. ASSUME NEW v \in User, NEW d \in Denom, NEW r \in User, NEW c \in Denom,
               NEW sent \in Amount, Liquidate(v, r, c, d, sent)
        PROVE  DebtsNoWorse(u) /\ CollateralsNoWorse(u)
    <2>1. v # u
      BY <1>6 DEF Liquidate
    <2>2. PICK s \in Nat : debts' = DecreaseDebt(v, d, s)
      BY <1>6, LiquidateSettles
    <2>3. DebtsNoWorse(u)
      BY <1>6, <2>2, LiquidateSettles, DecreasedDebtNoWorse
    <2>4. PICK t \in Nat :
            /\ t <= CollateralScaled(v, c)
            /\ collaterals' =
                 IncreaseCollateral(DecreaseCollateral(collaterals, v, c, t), r, c, t)
      BY <1>6, LiquidateSettles
    <2> DEFINE mid == DecreaseCollateral(collaterals, v, c, t)
    <2>5. HasCollateral(v, c) /\ <<v, c>> \in DOMAIN collaterals
      BY <1>6 DEF Liquidate, HasCollateral
    <2>6. t <= collaterals[<<v, c>>].amount_scaled
      BY <2>4, <2>5 DEF CollateralScaled
    <2>7. IsMap(mid, Position, Collateral)
      BY <1>1, <2>5, <2>6, DecreaseCollateralType
    <2>8. \A e \in Denom : <<u, e>> # <<v, c>>
      BY <2>1
    <2>9. ASSUME NEW e \in Denom, <<u, e>> \in DOMAIN collaterals
          PROVE  /\ <<u, e>> \in DOMAIN collaterals'
                 /\ collaterals'[<<u, e>>].enabled = collaterals[<<u, e>>].enabled
      <3>1. <<u, e>> \in DOMAIN mid /\ mid[<<u, e>>] = collaterals[<<u, e>>]
        BY <1>1, <2>8, <2>9, DecreasedCollateralKept
      <3> HIDE DEF mid
      <3>2. collaterals' = IncreaseCollateral(mid, r, c, t)
        BY <2>4 DEF mid
      <3> QED
        BY <2>7, <3>1, <3>2, IncreasedCollateralKept
    <2>10. CollateralsNoWorse(u)
      BY <2>9 DEF CollateralsNoWorse, HasCollateral
    <2> QED
      BY <2>3, <2>10
  <1>7. ASSUME NEW v \in User, NEW d \in Denom, NEW enable \in Status,
               UpdateAssetCollateralStatus(v, d, enable)
        PROVE  DebtsNoWorse(u) /\ CollateralsNoWorse(u)
    <2>1. /\ debts' = debts
          /\ collaterals' = [collaterals EXCEPT ![<<v, d>>].enabled = enable]
          /\ HasCollateral(v, d)
      BY <1>7 DEF UpdateAssetCollateralStatus
    <2>2. v = u => (collaterals[<<u, d>>].enabled => enable)
      BY <1>7 DEF GivesUp
    <2>3. CollateralsNoWorse(u)
      <3> SUFFICES ASSUME NEW e \in Denom, HasCollateral(u, e)
                   PROVE  /\ HasCollateral(u, e)'
                          /\ collaterals[<<u, e>>].enabled => collaterals'[<<u, e>>].enabled
        BY DEF CollateralsNoWorse
      <3>1. HasCollateral(u, e)'
        BY <2>1 DEF HasCollateral
      <3>2. collaterals[<<u, e>>] \in Collateral
        BY <1>1 DEF HasCollateral, IsMap
      <3>3. CASE <<u, e>> = <<v, d>>
        BY <2>1, <2>2, <3>1, <3>2, <3>3 DEF HasCollateral, Collateral
      <3>4. CASE <<u, e>> # <<v, d>>
        BY <2>1, <3>1, <3>4 DEF HasCollateral
      <3> QED
        BY <3>3, <3>4
    <2> QED
      BY <2>1, <2>3, SameEntriesNoWorse
  <1> QED
    BY <1>2, <1>3, <1>4, <1>5, <1>6, <1>7 DEF UserStep

\* Without u taking anything out, a message of a user leaves u healthy.
LEMMA HealthStep ==
    ASSUME InBlock, PositionsFine, PositionsFine', NEW u \in User, UserStep,
           ~TakesOut(u), Healthy(u), PositionsDefined(u, collaterals)'
    PROVE  Healthy(u)'
  <1>1. ~Liquidatable(u, collaterals)
    BY DEF Healthy, Liquidatable
  <1>2. CASE GivesUp(u)
    <2>1. PICK d \in Denom, enable \in Status :
            /\ UpdateAssetCollateralStatus(u, d, enable)
            /\ collaterals[<<u, d>>].enabled /\ ~enable
      BY <1>2 DEF GivesUp
    <2>2. /\ ~Liquidatable(u, collaterals') /\ PositionsDefined(u, collaterals')
          /\ config' = config /\ markets' = markets /\ debts' = debts
          /\ oracle' = oracle /\ now' = now
      BY <2>1 DEF UpdateAssetCollateralStatus
    <2>3. ~IsLiquidatable(Positions(u, collaterals'))
      BY <2>2 DEF Liquidatable
    <2>4. Prices' = Prices
      BY <2>2 DEF Prices
    <2>5. Positions(u, collaterals)' = Positions(u, collaterals')
      BY <2>2, <2>4 DEF Positions, PositionDenoms, HasDebt
    <2>6. ~IsLiquidatable(Positions(u, collaterals)')
      BY <2>3, <2>5
    <2> QED
      BY <2>6 DEF Healthy
  <1>3. CASE ~GivesUp(u)
    <2>1. DebtsNoWorse(u) /\ CollateralsNoWorse(u)
      BY <1>1, <1>3, UsersMessagesNoWorse
    <2>2. ASSUME NEW d \in Denom PROVE ~CollateralTaken(u, d)
      <3>1. \A r \in User, c \in Denom, sent \in Amount : ~Liquidate(u, r, d, c, sent)
        BY <1>1 DEF Liquidate
      <3> QED
        BY <3>1 DEF CollateralTaken, TakesOut
    <2> DEFINE p == Held(u)
               q == Held(u)'
    <2>3. /\ ArePositions(p)
          /\ \A d \in DOMAIN p :
                /\ d \in Denom /\ d \in DOMAIN markets
                /\ p[d].debt_amount = Owes(u, d)
                /\ p[d].collateral_amount = Holds(u, d)
                /\ p[d].price = Prices[d]
                /\ p[d].liquidation_threshold = markets[d].liquidation_threshold
          /\ \A d \in Denom \ DOMAIN p : Owes(u, d) = 0 /\ Holds(u, d) = 0
      BY DEF Healthy, PositionsFine
    <2>4. /\ ArePositions(q)
          /\ \A d \in DOMAIN q :
                /\ d \in Denom /\ d \in DOMAIN markets'
                /\ q[d].debt_amount = Owes(u, d)'
                /\ q[d].collateral_amount = Holds(u, d)'
                /\ q[d].price = Prices'[d]
                /\ q[d].liquidation_threshold = markets'[d].liquidation_threshold
          /\ \A d \in Denom \ DOMAIN q : Owes(u, d)' = 0 /\ Holds(u, d)' = 0
      BY DEF PositionsFine, ArePositions
    <2>5. /\ \A d \in DOMAIN markets' :
                markets'[d].liquidation_threshold = markets[d].liquidation_threshold
          /\ Prices' = Prices
      <3>1. ParamsKept /\ config' = config
        BY UsersKeepParams DEF InBlock
      <3>2. oracle' = oracle
        BY UsersKeepTimeAndPrices
      <3>3. \A d \in DOMAIN markets' :
               markets'[d]["liquidation_threshold"] = markets[d]["liquidation_threshold"]
        BY <3>1 DEF ParamsKept, AssetParam
      <3> QED
        BY <3>1, <3>2, <3>3 DEF Prices
    <2>6. \A d \in Denom : Owes(u, d) \in Nat /\ Holds(u, d) \in Nat
      BY CoinsType DEF InBlock, Owes, Holds
    <2>7. \A d \in Denom : Owes(u, d)' \in Nat /\ Holds(u, d)' \in Nat
      BY CoinsTypePrimed DEF Owes, Holds
    <2>8. \A d \in Denom : Owes(u, d)' <= Owes(u, d) /\ Holds(u, d) <= Holds(u, d)'
      BY <2>1, <2>2, OwesNoMore, HoldsNoLess
    <2> DEFINE o(d) == Owes(u, d)
               h(d) == Holds(u, d)
               oo(d) == Owes(u, d)'
               hh(d) == Holds(u, d)'
    <2> HIDE DEF p, q, o, h, oo, hh
    <2>9. TotalDebtValue(q) <= TotalDebtValue(p)
      <3>1. ASSUME NEW d \in DOMAIN q, q[d].debt_amount # 0
            PROVE  /\ d \in DOMAIN p
                   /\ q[d].debt_amount <= p[d].debt_amount
                   /\ q[d].price = p[d].price
        <4>1. d \in Denom /\ q[d].debt_amount = oo(d)
          BY <2>4 DEF oo
        <4>2. o(d) # 0 /\ oo(d) <= o(d)
          BY <2>6, <2>7, <2>8, <3>1, <4>1 DEF o, oo
        <4>3. d \in DOMAIN p /\ p[d].debt_amount = o(d)
          BY <2>3, <4>1, <4>2 DEF o
        <4> QED
          BY <2>3, <2>4, <2>5, <4>1, <4>2, <4>3
      <3> QED
        BY <2>3, <2>4, <3>1, DebtsWorthNoMore
    <2>10. LiquidationThresholdAdjustedCollateral(p) <= LiquidationThresholdAdjustedCollateral(q)
      <3>1. ASSUME NEW d \in DOMAIN p, p[d].collateral_amount # 0
            PROVE  /\ d \in DOMAIN q
                   /\ p[d].collateral_amount <= q[d].collateral_amount
                   /\ p[d].price = q[d].price
                   /\ p[d].liquidation_threshold = q[d].liquidation_threshold
        <4>1. d \in Denom /\ p[d].collateral_amount = h(d)
          BY <2>3 DEF h
        <4>2. hh(d) # 0 /\ h(d) <= hh(d)
          BY <2>6, <2>7, <2>8, <3>1, <4>1 DEF h, hh
        <4>3. d \in DOMAIN q /\ q[d].collateral_amount = hh(d)
          BY <2>4, <4>1, <4>2 DEF hh
        <4> QED
          BY <2>3, <2>4, <2>5, <4>1, <4>2, <4>3
      <3> QED
        BY <2>3, <2>4, <3>1, CollateralWorthNoMore
    <2>11. ~IsLiquidatable(p)
      BY DEF Healthy, Held, p
    <2>12. ~IsLiquidatable(q)
      BY <2>3, <2>4, <2>9, <2>10, <2>11, HealthierStaysHealthy
    <2> QED
      BY <2>12 DEF Healthy, Held, q
  <1> QED
    BY <1>2, <1>3

\* Nobody but the user, the owner, the prices and the time can make a healthy
\* user liquidatable: deposits, repayments, liquidations and changes of status
\* never do, whatever the indexes and prices, however they round.
THEOREM OthersNeverHurt == Spec => OthersNeverHurtHealth
  <1>1. ASSUME Sound, Sound', SharesHaveMarkets, PositionsFine, PositionsFine', [Next]_vars
        PROVE  [\A u \in User :
                   Healthy(u) /\ ~Healthy(u)' =>
                       \/ EnvironmentStep
                       \/ OwnerStep
                       \/ ~PositionsDefined(u, collaterals)'
                       \/ \E d \in Denom :
                           \/ \E request \in Amount \cup {None} : Withdraw(u, d, request)
                           \/ \E amount \in Amount : Borrow(u, d, amount)]_vars
    <2> SUFFICES ASSUME NEW u \in User, Healthy(u), ~Healthy(u)', Next,
                        ~EnvironmentStep, ~OwnerStep, PositionsDefined(u, collaterals)',
                        ~TakesOut(u)
                 PROVE  FALSE
      BY <1>1 DEF TakesOut
    <2>1. UserStep
      BY DEF Next
    <2>2. InBlock
      <3>1. now' = now
        BY <2>1, UsersKeepTimeAndPrices
      <3> QED
        BY <1>1, <3>1 DEF InBlock
    <2> QED
      BY <1>1, <2>1, <2>2, HealthStep
  <1> QED
    BY <1>1, SoundIsFine, SoundAlways, SharesAlwaysHaveMarkets, PTL
    DEF Spec, OthersNeverHurtHealth

\* No message of a user makes the positions of u undefined, but u's own loans, and
\* deposits of coins without a price: what a liquidator receives has one.
LEMMA PositionsStayDefined ==
    ASSUME Sound, [Next]_vars, NEW u \in User, UserStep, ~TakesOut(u),
           PositionsDefined(u, collaterals),
           \A d \in Denom, amount \in Amount : Deposit(u, d, amount) => PriceKnown(d)
    PROVE  PositionsDefined(u, collaterals)'
  <1> DEFINE Useable(d) == d \in DOMAIN markets /\ PriceKnown(d)
             Entry(d) == <<u, d>> \in DOMAIN collaterals \cup DOMAIN debts
  <1>1. \A d \in Denom : PriceKnown(d)' <=> PriceKnown(d)
    <2>1. config' = config /\ oracle' = oracle
      BY UsersKeepParams, UsersKeepTimeAndPrices
    <2> QED
      BY <2>1 DEF PriceKnown, OracleKnown, Prices
  <1>2. DOMAIN markets \subseteq DOMAIN markets'
    BY MarketsStay
  <1>3. \A d \in Denom : Entry(d) => Useable(d)
    BY DEF PositionsDefined, PositionDenoms
  <1>4. SUFFICES ASSUME NEW e \in Denom, Entry(e)' PROVE Entry(e) \/ Useable(e)
    BY <1>1, <1>2, <1>3 DEF PositionsDefined, PositionDenoms
  <1>5. ASSUME NEW v \in User, NEW d \in Denom, NEW amount \in Amount, Deposit(v, d, amount)
        PROVE  Entry(e) \/ Useable(e)
    <2>1. PICK s \in Nat : collaterals' = IncreaseCollateral(collaterals, v, d, s)
      BY <1>5, DepositSettles
    <2>2. debts' = debts /\ d \in DOMAIN markets
      BY <1>5 DEF Deposit
    <2>3. v = u => PriceKnown(d)
      BY <1>5
    <2> QED
      BY <1>4, <2>1, <2>2, <2>3 DEF IncreaseCollateral, Save
  <1>6. ASSUME NEW v \in User, NEW d \in Denom, NEW request \in Amount \cup {None},
               Withdraw(v, d, request)
        PROVE  Entry(e) \/ Useable(e)
    <2>1. PICK s \in Nat : collaterals' = DecreaseCollateral(collaterals, v, d, s)
      BY <1>6, WithdrawSettles
    <2>2. debts' = debts /\ v # u
      BY <1>6 DEF Withdraw, TakesOut
    <2> QED
      BY <1>4, <2>1, <2>2 DEF DecreaseCollateral, Save, Remove
  <1>7. ASSUME NEW v \in User, NEW d \in Denom, NEW amount \in Amount, Borrow(v, d, amount)
        PROVE  Entry(e) \/ Useable(e)
    <2>1. PICK s \in Nat : debts' = IncreaseDebt(v, d, s, Limit(v, d) # 0)
      BY <1>7, BorrowSettles
    <2>2. collaterals' = collaterals /\ v # u
      BY <1>7 DEF Borrow, TakesOut
    <2> QED
      BY <1>4, <2>1, <2>2 DEF IncreaseDebt, Save
  <1>8. ASSUME NEW v \in User, NEW d \in Denom, NEW amount \in Amount,
               NEW on_behalf_of \in BOOLEAN, Repay(v, d, amount, on_behalf_of)
        PROVE  Entry(e) \/ Useable(e)
    <2>1. PICK s \in Nat : debts' = DecreaseDebt(v, d, s)
      BY <1>8, RepaySettles
    <2>2. collaterals' = collaterals /\ <<v, d>> \in DOMAIN debts
      BY <1>8 DEF Repay, HasDebt
    <2> QED
      BY <1>4, <2>1, <2>2 DEF DecreaseDebt, Save, Remove
  <1>9. ASSUME NEW v \in User, NEW d \in Denom, NEW r \in User, NEW c \in Denom,
               NEW sent \in Amount, Liquidate(v, r, c, d, sent)
        PROVE  Entry(e) \/ Useable(e)
    <2>1. PICK s \in Nat : debts' = DecreaseDebt(v, d, s)
      BY <1>9, LiquidateSettles
    <2>2. PICK t \in Nat :
            collaterals' = IncreaseCollateral(DecreaseCollateral(collaterals, v, c, t), r, c, t)
      BY <1>9, LiquidateSettles
    <2>3. /\ <<v, d>> \in DOMAIN debts /\ <<v, c>> \in DOMAIN collaterals
          /\ PositionsDefined(v, collaterals)
      BY <1>9 DEF Liquidate, HasDebt, HasCollateral, Liquidatable
    <2>4. Useable(c)
      BY <2>3 DEF PositionsDefined, PositionDenoms
    <2>5. DOMAIN debts' \subseteq DOMAIN debts
      BY <2>1, <2>3 DEF DecreaseDebt, Save, Remove
    <2> DEFINE mid == DecreaseCollateral(collaterals, v, c, t)
    <2>6. DOMAIN mid \subseteq DOMAIN collaterals
      BY <2>3 DEF DecreaseCollateral, Save, Remove
    <2> HIDE DEF mid
    <2>7. collaterals' = IncreaseCollateral(mid, r, c, t)
      BY <2>2 DEF mid
    <2>8. DOMAIN collaterals' \subseteq DOMAIN mid \cup {<<r, c>>}
      BY <2>7 DEF IncreaseCollateral, Save
    <2>9. CASE e = c
      BY <2>4, <2>9
    <2>10. CASE e # c
      <3>1. <<u, e>> # <<r, c>>
        BY <2>10
      <3> QED
        BY <1>4, <2>5, <2>6, <2>8, <3>1
    <2> QED
      BY <2>9, <2>10
  <1>10. ASSUME NEW v \in User, NEW d \in Denom, NEW enable \in Status,
                UpdateAssetCollateralStatus(v, d, enable)
         PROVE  Entry(e) \/ Useable(e)
    BY <1>4, <1>10 DEF UpdateAssetCollateralStatus
  <1> QED
    BY <1>5, <1>6, <1>7, <1>8, <1>9, <1>10 DEF UserStep

\* All that the proofs about health assume of a state.
HealthInv == Sound /\ SharesHaveMarkets /\ PositionsFine

LEMMA HealthInvAlways == Spec => []HealthInv
  BY SoundIsFine, SoundAlways, SharesAlwaysHaveMarkets, PTL DEF HealthInv

\* No message of another leaves a healthy user without a health, or unhealthy, but a
\* deposit of coins without a price.
LEMMA OthersLeaveHealthy ==
    ASSUME HealthInv, HealthInv', [Next]_vars, NEW u \in User, UserStep, ~TakesOut(u),
           Healthy(u),
           \A d \in Denom, amount \in Amount : Deposit(u, d, amount) => PriceKnown(d)
    PROVE  Healthy(u)'
  <1>1. InBlock
    BY UsersKeepTimeAndPrices DEF InBlock, HealthInv
  <1>2. PositionsDefined(u, collaterals)'
    BY PositionsStayDefined DEF HealthInv, Healthy
  <1> QED
    BY <1>1, <1>2, HealthStep DEF HealthInv
=============================================================================
