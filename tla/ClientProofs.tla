---------------------------- MODULE ClientProofs ----------------------------
(***************************************************************************)
(* Proofs about the queries of the lending contract and a client that      *)
(* reads them page by page, for every number of denoms, all limits and     *)
(* every sequence of transactions between two pages.                       *)
(***************************************************************************)
EXTENDS LendingClient, ClaimsProofs

-----------------------------------------------------------------------------
(***************************************************************************)
(* The walk through a user's debts                                         *)
(***************************************************************************)

\* Paging, with what is proved of it.  Walk and WalkProofs are instances of the
\* same definitions.
WalkProofs == INSTANCE PagingProofs WITH Key <- KeysOf(Denom), entries <- DebtKeys

LEMMA KeysAreNumbers ==
    /\ KeysOf(Denom) \subseteq Nat \ {0}
    /\ IsFiniteSet(KeysOf(Denom))
    /\ \A denoms \in SUBSET Denom : KeysOf(denoms) \subseteq KeysOf(Denom)
  <1>1. DenomKey \in [Denom -> Nat \ {0}] /\ IsFiniteSet(Denom)
    BY DenomKeyAssumption, FiniteAssumption
  <1>2. IsFiniteSet(KeysOf(Denom))
    <2>1. DenomKey \in Surjection(Denom, KeysOf(Denom))
      BY <1>1 DEF Surjection, KeysOf
    <2> QED
      BY <1>1, <2>1, FS_Surjection DEF ExistsSurjection
  <1> QED
    BY <1>1, <1>2 DEF KeysOf

LEMMA WalkAssumed == WalkProofs!LimitAssumption /\ WalkProofs!PagingAssumption
  BY KeysAreNumbers, ClientAssumption, LimitAssumption
  DEF WalkProofs!PagingAssumption, WalkProofs!IsFiniteSet, IsFiniteSet

LEMMA DebtKeysAreKeys == DebtKeys \in SUBSET KeysOf(Denom)
  BY KeysAreNumbers DEF DebtKeys

\* The denoms that the keys of a set stand for are those of the set.
LEMMA KeysTellDenoms ==
    ASSUME NEW denoms \in SUBSET Denom, NEW page \in SUBSET KeysOf(denoms)
    PROVE  KeysOf({d \in denoms : DenomKey[d] \in page}) = page
  BY DEF KeysOf

\* The key the client was given last is that of a denom, which it then asks to
\* start after.
LastIsKey == last \in KeysOf(Denom) \cup {0}

LEMMA StartsAfterLast ==
    ASSUME LastIsKey
    PROVE  (IF StartAfter = None THEN 0 ELSE DenomKey[StartAfter]) = last
  <1>1. DenomKey \in [Denom -> Nat \ {0}] /\ None \notin Denom
    BY DenomKeyAssumption, InputAssumption
  <1>2. CASE last = 0
    BY <1>2 DEF StartAfter
  <1>3. CASE last # 0
    <2>1. \E d \in Denom : DenomKey[d] = last
      BY <1>3 DEF LastIsKey, KeysOf
    <2>2. StartAfter \in Denom /\ DenomKey[StartAfter] = last
      BY <1>3, <2>1 DEF StartAfter
    <2> QED
      BY <1>1, <2>2
  <1> QED
    BY <1>2, <1>3

LEMMA PageExists ==
    ASSUME NEW keys \in SUBSET Nat, IsFiniteSet(keys), NEW start \in Nat, NEW limit,
           PageSize(limit) \in Nat
    PROVE  \E page \in SUBSET keys : IsPage(page, keys, start, limit)
  <1>1. WalkProofs!PageSize(limit) = PageSize(limit)
    BY DEF WalkProofs!PageSize, PageSize
  <1>2. WalkProofs!IsFiniteSet(keys)
    BY DEF WalkProofs!IsFiniteSet, IsFiniteSet
  <1>3. \A page : WalkProofs!IsPage(page, keys, start, limit) <=> IsPage(page, keys, start, limit)
    BY <1>1 DEF WalkProofs!IsPage, IsPage, WalkProofs!Rest, Rest,
                WalkProofs!Cardinality, Cardinality
  <1> QED
    BY <1>1, <1>2, <1>3, WalkAssumed, WalkProofs!PageExists

\* What the client gets is a page of the reader's debts after the last one.
LEMMA PageOfDebts ==
    ASSUME LastIsKey, NEW limit \in LimitInput,
           NEW page \in QueryUserDebts(Reader, StartAfter, limit)
    PROVE  /\ KeysOf(DOMAIN page) \in SUBSET DebtKeys
           /\ IsPage(KeysOf(DOMAIN page), DebtKeys, last, limit)
  <1> DEFINE indebted == {d \in Denom : HasDebt(Reader, d)}
             keys == {DenomKey[d] : d \in indebted}
             items == PageOf(indebted, DenomKey, last, limit)
  <1>1. DOMAIN page = items
    BY StartsAfterLast DEF QueryUserDebts, Paged, Collected
  <1>2. keys \in SUBSET Nat /\ IsFiniteSet(keys) /\ keys = DebtKeys
    BY KeysAreNumbers, DebtKeysAreKeys, FS_Subset DEF DebtKeys, KeysOf
  <1>3. last \in Nat
    BY KeysAreNumbers DEF LastIsKey
  <1>4. PageSize(limit) \in Nat
    BY LimitAssumption, ClientAssumption DEF PageSize
  <1>5. /\ Page(keys, last, limit) \in SUBSET keys
        /\ IsPage(Page(keys, last, limit), keys, last, limit)
    BY <1>2, <1>3, <1>4, PageExists DEF Page
  <1>6. KeysOf(items) = Page(keys, last, limit)
    BY <1>5, KeysTellDenoms DEF PageOf, KeysOf
  <1> QED
    BY <1>1, <1>2, <1>5, <1>6

LEMMA WalkBegins == ClientInit => Walk!Init /\ LastIsKey
  BY DebtKeysAreKeys DEF ClientInit, Walk!Init, LastIsKey

LEMMA TransactionIsChange ==
    ASSUME LastIsKey, Transaction
    PROVE  Walk!Change /\ LastIsKey'
  <1>1. DebtKeys' \in SUBSET KeysOf(Denom)
    BY KeysAreNumbers DEF DebtKeys, KeysOf
  <1>2. Walk!Change
    BY <1>1 DEF Transaction, Walk!Change
  <1>3. last' = last
    BY DEF Transaction
  <1> QED
    BY <1>2, <1>3 DEF LastIsKey

LEMMA ReadingIsNextPage ==
    ASSUME LastIsKey, ReadPage
    PROVE  Walk!NextPage /\ LastIsKey'
  <1>1. PICK limit \in LimitInput :
            \E page \in QueryUserDebts(Reader, StartAfter, limit) :
                Walk!TakePage(KeysOf(DOMAIN page))
    BY DEF ReadPage
  <1>2. PICK answer \in QueryUserDebts(Reader, StartAfter, limit) :
            Walk!TakePage(KeysOf(DOMAIN answer))
    BY <1>1
  <1> DEFINE page == KeysOf(DOMAIN answer)
  <1>3. page \in SUBSET DebtKeys /\ IsPage(page, DebtKeys, last, limit)
    BY PageOfDebts
  <1>4. DebtKeys' = DebtKeys
    BY DEF ReadPage, vars, DebtKeys, HasDebt
  <1> HIDE DEF page
  <1>5. Walk!NextPage
    <2>1. Walk!IsPage(page, DebtKeys, last, limit)
      BY <1>3 DEF IsPage, Walk!IsPage, Rest, Walk!Rest, PageSize, Walk!PageSize,
                  Cardinality, Walk!Cardinality
    <2> QED
      BY <1>2, <1>3, <1>4, <2>1 DEF Walk!NextPage, page
  <1>6. last' \in page \cup {last}
    BY <1>2 DEF Walk!TakePage, page
  <1> QED
    BY <1>3, <1>5, <1>6, DebtKeysAreKeys DEF LastIsKey

LEMMA ClientStepIsWalkStep ==
    ASSUME LastIsKey, [ClientNext]_<<vars, last, answers, finished, steady>>
    PROVE  [Walk!Next]_Walk!pagingVars /\ LastIsKey'
  <1>1. CASE Transaction
    BY <1>1, TransactionIsChange DEF Walk!Next
  <1>2. CASE ReadPage
    BY <1>2, ReadingIsNextPage DEF Walk!Next
  <1>3. CASE UNCHANGED <<vars, last, answers, finished, steady>>
    BY <1>3 DEF Walk!pagingVars, Walk!clientVars, DebtKeys, HasDebt, vars, LastIsKey
  <1>4. Transaction \/ ReadPage \/ UNCHANGED <<vars, last, answers, finished, steady>>
    BY DEF ClientNext
  <1> QED
    BY <1>1, <1>2, <1>3, <1>4

\* Reading a user's debts page by page is a walk through a paged map, whatever
\* transactions come between two pages.
THEOREM DebtsWalkAlwaysPaged == ClientSpec => DebtsWalkIsPaged
  <1>1. ClientInit => Walk!Init /\ LastIsKey
    BY WalkBegins
  <1>2. LastIsKey /\ [ClientNext]_<<vars, last, answers, finished, steady>>
        => [Walk!Next]_Walk!pagingVars /\ LastIsKey'
    BY ClientStepIsWalkStep
  <1> QED
    BY <1>1, <1>2, PTL DEF ClientSpec, DebtsWalkIsPaged, Walk!Spec

LEMMA SameWalk == /\ Walk!Init => WalkProofs!Init
                  /\ [Walk!Next]_Walk!pagingVars => [WalkProofs!Next]_WalkProofs!pagingVars
                  /\ WalkProofs!WalkComplete => Walk!WalkComplete
  <1>1. Walk!Init => WalkProofs!Init
    BY DEF Walk!Init, WalkProofs!Init
  <1>2. ASSUME Walk!NextPage PROVE WalkProofs!NextPage
    BY <1>2 DEF Walk!NextPage, WalkProofs!NextPage, Walk!TakePage, WalkProofs!TakePage,
        Walk!IsPage, WalkProofs!IsPage, Walk!Rest, WalkProofs!Rest,
        Walk!PageSize, WalkProofs!PageSize, Walk!Cardinality, WalkProofs!Cardinality
  <1>3. ASSUME Walk!Change PROVE WalkProofs!Change
    BY <1>3 DEF Walk!Change, WalkProofs!Change
  <1>4. [Walk!Next]_Walk!pagingVars => [WalkProofs!Next]_WalkProofs!pagingVars
    BY <1>2, <1>3 DEF Walk!Next, WalkProofs!Next, Walk!pagingVars, WalkProofs!pagingVars,
        Walk!clientVars, WalkProofs!clientVars
  <1>5. WalkProofs!WalkComplete => Walk!WalkComplete
    BY DEF WalkProofs!WalkComplete, Walk!WalkComplete
  <1> QED
    BY <1>1, <1>4, <1>5

\* At its end the client was given every debt that was there all along, and none
\* twice.
THEOREM DebtsWalkAlwaysComplete == ClientSpec => []DebtsWalkComplete
  <1>1. WalkProofs!Spec => []WalkProofs!WalkComplete
    BY WalkProofs!WalkAlwaysComplete, WalkAssumed
  <1>2. ClientSpec => Walk!Init /\ [][Walk!Next]_Walk!pagingVars
    BY DebtsWalkAlwaysPaged DEF DebtsWalkIsPaged, Walk!Spec
  <1> QED
    BY <1>1, <1>2, SameWalk, PTL DEF WalkProofs!Spec, DebtsWalkComplete

-----------------------------------------------------------------------------
(***************************************************************************)
(* The health that others compute                                          *)
(***************************************************************************)

MaxLtvValues(positions) ==
    [d \in DOMAIN positions |-> UintMul(Value(positions[d].collateral_amount, positions[d].price),
                                        positions[d].max_ltv)]

CollateralValues(positions) ==
    [d \in DOMAIN positions |-> Value(positions[d].collateral_amount, positions[d].price)]

LEMMA MaxLtvValueIsSum ==
    ASSUME NEW positions
    PROVE  MaxLtvAdjustedCollateral(positions) = SumFunction(MaxLtvValues(positions))
  <1> DEFINE D == DOMAIN positions
             f == MaxLtvValues(positions)
             V(x) == UintMul(Value(positions[x].collateral_amount, positions[x].price),
                             positions[x].max_ltv)
             Body(h) == [s \in SUBSET D |-> IF s = {} THEN 0
                           ELSE LET x == CHOOSE x \in s : TRUE IN V(x) + h[s \ {x}]]
             Terms(h) == [s \in SUBSET DOMAIN f |-> IF s = {} THEN 0
                           ELSE LET x == CHOOSE x \in s : TRUE IN f[x] + h[s \ {x}]]
  <1>1. D = DOMAIN f /\ \A x \in D : f[x] = V(x)
    BY DEF MaxLtvValues
  <1>2. \A h : Body(h) = Terms(h)
    <2> HIDE DEF f, D, V
    <2>1. \A s \in SUBSET D : s # {} => (CHOOSE x \in s : TRUE) \in D
      OBVIOUS
    <2> QED
      BY <1>1, <2>1
  <1>3. MaxLtvAdjustedCollateral(positions) = (CHOOSE h : h = Body(h))[D]
    BY DEF MaxLtvAdjustedCollateral, MapThenSumSet, MapThenFoldSet
  <1>4. SumFunction(f) = (CHOOSE h : h = Terms(h))[D]
    BY <1>1, SumIsRecursive DEF Sums
  <1>5. (CHOOSE h : h = Body(h)) = (CHOOSE h : h = Terms(h))
    <2> HIDE DEF Body, Terms
    <2> QED
      BY <1>2, Zenon
  <1> QED
    BY <1>3, <1>4, <1>5

LEMMA CollateralValueIsSum ==
    ASSUME NEW positions
    PROVE  TotalCollateralValue(positions) = SumFunction(CollateralValues(positions))
  <1> DEFINE D == DOMAIN positions
             f == CollateralValues(positions)
             V(x) == Value(positions[x].collateral_amount, positions[x].price)
             Body(h) == [s \in SUBSET D |-> IF s = {} THEN 0
                           ELSE LET x == CHOOSE x \in s : TRUE IN V(x) + h[s \ {x}]]
             Terms(h) == [s \in SUBSET DOMAIN f |-> IF s = {} THEN 0
                           ELSE LET x == CHOOSE x \in s : TRUE IN f[x] + h[s \ {x}]]
  <1>1. D = DOMAIN f /\ \A x \in D : f[x] = V(x)
    BY DEF CollateralValues
  <1>2. \A h : Body(h) = Terms(h)
    <2> HIDE DEF f, D, V
    <2>1. \A s \in SUBSET D : s # {} => (CHOOSE x \in s : TRUE) \in D
      OBVIOUS
    <2> QED
      BY <1>1, <2>1
  <1>3. TotalCollateralValue(positions) = (CHOOSE h : h = Body(h))[D]
    BY DEF TotalCollateralValue, MapThenSumSet, MapThenFoldSet
  <1>4. SumFunction(f) = (CHOOSE h : h = Terms(h))[D]
    BY <1>1, SumIsRecursive DEF Sums
  <1>5. (CHOOSE h : h = Body(h)) = (CHOOSE h : h = Terms(h))
    <2> HIDE DEF Body, Terms
    <2> QED
      BY <1>2, Zenon
  <1> QED
    BY <1>3, <1>4, <1>5

\* Positions that differ by some in which nothing is held and nothing is owed.
SameButEmpty(p, q) ==
    /\ DOMAIN q \subseteq DOMAIN p
    /\ \A d \in DOMAIN q : p[d] = q[d]
    /\ \A d \in DOMAIN p \ DOMAIN q : p[d].collateral_amount = 0 /\ p[d].debt_amount = 0

LEMMA SameSum ==
    ASSUME NEW S, IsFiniteSet(S), NEW f \in [S -> Nat], NEW R \in SUBSET S,
           NEW g \in [R -> Nat], \A x \in R : f[x] = g[x], \A x \in S \ R : f[x] = 0
    PROVE  SumFunction(f) = SumFunction(g)
  <1>1. IsFiniteSet(R)
    BY FS_Subset
  <1>2. SumFunction(f) \in Nat /\ SumFunction(g) \in Nat
    BY <1>1, SumType
  <1>3. \A x \in S : f[x] # 0 => x \in R /\ f[x] <= g[x]
    OBVIOUS
  <1>4. \A x \in R : g[x] # 0 => x \in S /\ g[x] <= f[x]
    OBVIOUS
  <1>5. SumFunction(f) <= SumFunction(g) /\ SumFunction(g) <= SumFunction(f)
    BY <1>1, <1>3, <1>4, SumMonotone
  <1> QED
    BY <1>2, <1>5

LEMMA SameWorth ==
    ASSUME NEW p, ArePositions(p), NEW q, SameButEmpty(p, q), q \in [DOMAIN q -> PositionRecord]
    PROVE  HealthOf(p) = HealthOf(q)
  <1>1. DOMAIN q \in SUBSET DOMAIN p /\ ArePositions(q)
    BY DEF SameButEmpty, ArePositions
  <1>2. ASSUME NEW d \in DOMAIN p
        PROVE  /\ p[d].collateral_amount \in Nat /\ p[d].debt_amount \in Nat /\ p[d].price \in Nat
               /\ p[d].max_ltv \in Nat /\ p[d].liquidation_threshold \in Nat
    BY DEF ArePositions, PositionRecord
  <1>3. /\ MaxLtvValues(p) \in [DOMAIN p -> Nat]
        /\ CollateralValues(p) \in [DOMAIN p -> Nat]
    BY <1>2, UintMulType DEF MaxLtvValues, CollateralValues, Value
  <1>4. /\ MaxLtvValues(q) \in [DOMAIN q -> Nat]
        /\ CollateralValues(q) \in [DOMAIN q -> Nat]
    <2>1. ASSUME NEW d \in DOMAIN q
          PROVE  /\ q[d].collateral_amount \in Nat /\ q[d].debt_amount \in Nat
                 /\ q[d].price \in Nat /\ q[d].max_ltv \in Nat
      BY DEF PositionRecord
    <2> QED
      BY <2>1, UintMulType DEF MaxLtvValues, CollateralValues, Value
  <1>5. /\ IsFiniteSet(DOMAIN p)
        /\ DebtValues(p) \in [DOMAIN p -> Nat] /\ DebtValues(q) \in [DOMAIN q -> Nat]
        /\ ThresholdValues(p) \in [DOMAIN p -> Nat] /\ ThresholdValues(q) \in [DOMAIN q -> Nat]
    BY <1>1, ValuesTyped
  <1>6. ASSUME NEW d \in DOMAIN q
        PROVE  /\ DebtValues(p)[d] = DebtValues(q)[d]
               /\ ThresholdValues(p)[d] = ThresholdValues(q)[d]
               /\ MaxLtvValues(p)[d] = MaxLtvValues(q)[d]
               /\ CollateralValues(p)[d] = CollateralValues(q)[d]
    BY <1>1 DEF SameButEmpty, DebtValues, ThresholdValues, MaxLtvValues, CollateralValues
  <1>7. ASSUME NEW d \in DOMAIN p \ DOMAIN q
        PROVE  /\ DebtValues(p)[d] = 0 /\ ThresholdValues(p)[d] = 0
               /\ MaxLtvValues(p)[d] = 0 /\ CollateralValues(p)[d] = 0
    <2>1. Value(p[d].collateral_amount, p[d].price) = 0 /\ Value(p[d].debt_amount, p[d].price) = 0
      BY <1>2, UintMulMonotone DEF SameButEmpty, Value
    <2>2. UintMul(0, p[d].max_ltv) = 0 /\ UintMul(0, p[d].liquidation_threshold) = 0
      BY <1>2, UintMulMonotone
    <2> QED
      BY <2>1, <2>2 DEF DebtValues, ThresholdValues, MaxLtvValues, CollateralValues
  <1>8. /\ SumFunction(DebtValues(p)) = SumFunction(DebtValues(q))
        /\ SumFunction(ThresholdValues(p)) = SumFunction(ThresholdValues(q))
        /\ SumFunction(MaxLtvValues(p)) = SumFunction(MaxLtvValues(q))
        /\ SumFunction(CollateralValues(p)) = SumFunction(CollateralValues(q))
    BY <1>1, <1>3, <1>4, <1>5, <1>6, <1>7, SameSum
  <1> QED
    BY <1>8, DebtValueIsSum, ThresholdValueIsSum, MaxLtvValueIsSum, CollateralValueIsSum
    DEF HealthOf

\* The coins that the queries tell are those that count.
LEMMA CoinsAreTold ==
    ASSUME NEW u \in User, PositionsDefined(u, collaterals), NEW d \in Denom
    PROVE  /\ LoadOr(CollateralCoins(u), d, 0) = Holds(u, d)
           /\ LoadOr(DebtCoins(u), d, 0) = Owes(u, d)
  <1>1. LoadOr(CollateralCoins(u), d, 0) = Holds(u, d)
    <2>1. CASE HasCollateral(u, d) /\ collaterals[<<u, d>>].enabled
      <3>1. d \in DOMAIN markets
        BY <2>1 DEF PositionsDefined, PositionDenoms, HasCollateral
      <3>2. QueryMarket(d) = {markets[d]}
        BY <3>1 DEF QueryMarket
      <3> DEFINE answer == [amount_scaled |-> CollateralScaled(u, d),
                            amount |-> CollateralOf(u, d),
                            enabled |-> HasCollateral(u, d) /\ collaterals[<<u, d>>].enabled]
                 amounts == {c.amount : c \in QueryUserCollateral(u, d)}
      <3>3. QueryUserCollateral(u, d) = {answer}
        BY <3>1, <3>2, Zenon DEF QueryUserCollateral, CollateralOf
      <3>4. amounts = {answer.amount} /\ answer.amount = CollateralOf(u, d)
        BY <3>3
      <3> HIDE DEF answer
      <3>5. d \in DOMAIN CollateralCoins(u) /\ CollateralCoins(u)[d] = CHOOSE amount \in amounts : TRUE
        BY <2>1 DEF CollateralCoins
      <3> HIDE DEF amounts
      <3>6. CollateralCoins(u)[d] = CollateralOf(u, d)
        BY <3>4, <3>5
      <3> QED
        BY <2>1, <3>5, <3>6 DEF LoadOr, Holds
    <2>2. CASE ~(HasCollateral(u, d) /\ collaterals[<<u, d>>].enabled)
      <3>1. d \notin DOMAIN CollateralCoins(u)
        BY <2>2 DEF CollateralCoins
      <3> QED
        BY <2>2, <3>1 DEF LoadOr, Holds
    <2> QED
      BY <2>1, <2>2
  <1>2. LoadOr(DebtCoins(u), d, 0) = Owes(u, d)
    <2>1. CASE HasDebt(u, d) /\ ~debts[<<u, d>>].uncollateralized
      <3>1. d \in DOMAIN markets
        BY <2>1 DEF PositionsDefined, PositionDenoms, HasDebt
      <3>2. QueryMarket(d) = {markets[d]}
        BY <3>1 DEF QueryMarket
      <3> DEFINE answer == [amount_scaled |-> DebtScaled(u, d),
                            amount |-> DebtOf(u, d),
                            uncollateralized |->
                                HasDebt(u, d) /\ debts[<<u, d>>].uncollateralized]
                 amounts == {c.amount : c \in QueryUserDebt(u, d)}
      <3>3. QueryUserDebt(u, d) = {answer}
        BY <3>1, <3>2, Zenon DEF QueryUserDebt, DebtOf
      <3>4. amounts = {answer.amount} /\ answer.amount = DebtOf(u, d)
        BY <3>3
      <3> HIDE DEF answer
      <3>5. d \in DOMAIN DebtCoins(u) /\ DebtCoins(u)[d] = CHOOSE amount \in amounts : TRUE
        BY <2>1 DEF DebtCoins
      <3> HIDE DEF amounts
      <3>6. DebtCoins(u)[d] = DebtOf(u, d)
        BY <3>4, <3>5
      <3> QED
        BY <2>1, <3>5, <3>6 DEF LoadOr, Owes
    <2>2. CASE ~(HasDebt(u, d) /\ ~debts[<<u, d>>].uncollateralized)
      <3>1. d \notin DOMAIN DebtCoins(u)
        BY <2>2 DEF DebtCoins
      <3> QED
        BY <2>2, <3>1 DEF LoadOr, Owes
    <2> QED
      BY <2>1, <2>2
  <1> QED
    BY <1>1, <1>2

LEMMA HealthAgreesHere == ASSUME Sound PROVE HealthAgrees
  <1> SUFFICES ASSUME NEW u \in User, NEW health \in QueryUserPosition(u)
               PROVE  ComputeHealthFromCoins(CollateralCoins(u), DebtCoins(u)) = {health}
    BY DEF HealthAgrees
  <1> DEFINE p == Held(u)
             C == CollateralCoins(u)
             D == DebtCoins(u)
             q == PositionsFromCoins(C, D)
  <1>1. OracleKnown /\ PositionsDefined(u, collaterals) /\ health = HealthOf(p)
    BY DEF QueryUserPosition, Held
  <1>2. /\ ArePositions(p)
        /\ \A d \in DOMAIN p :
             /\ d \in Denom /\ d \in DOMAIN markets
             /\ p[d].debt_amount = Owes(u, d)
             /\ p[d].collateral_amount = Holds(u, d)
             /\ p[d].price = Prices[d]
             /\ p[d].max_ltv = markets[d].max_loan_to_value
             /\ p[d].liquidation_threshold = markets[d].liquidation_threshold
        /\ \A d \in Denom \ DOMAIN p : Owes(u, d) = 0 /\ Holds(u, d) = 0
    BY <1>1, PositionsAre
  <1>3. /\ DOMAIN C \cup DOMAIN D \subseteq DOMAIN p
        /\ DOMAIN C \cup DOMAIN D \subseteq PositionDenoms(u, collaterals)
    BY DEF CollateralCoins, DebtCoins, Held, Positions, PositionDenoms, HasCollateral, HasDebt
  <1>4. \A d \in DOMAIN C \cup DOMAIN D : d \in DOMAIN markets /\ PriceKnown(d)
    BY <1>1, <1>3 DEF PositionsDefined
  <1>5. ASSUME NEW d \in Denom
        PROVE  LoadOr(C, d, 0) = Holds(u, d) /\ LoadOr(D, d, 0) = Owes(u, d)
    BY <1>1, CoinsAreTold
  <1>6. DOMAIN q = DOMAIN C \cup DOMAIN D
    BY DEF PositionsFromCoins
  <1> HIDE DEF p, C, D
  <1>7. ASSUME NEW d \in DOMAIN q
        PROVE  p[d] = q[d] /\ q[d] \in PositionRecord
    <2>1. d \in DOMAIN p /\ d \in Denom
      BY <1>2, <1>3, <1>6
    <2>2. p[d] \in PositionRecord
      BY <1>2, <2>1 DEF ArePositions
    <2>3. q[d] = [collateral_amount |-> LoadOr(C, d, 0),
                  debt_amount |-> LoadOr(D, d, 0),
                  price |-> Prices[d],
                  max_ltv |-> markets[d].max_loan_to_value,
                  liquidation_threshold |-> markets[d].liquidation_threshold]
      BY <1>6 DEF PositionsFromCoins
    <2>4. q[d] = [collateral_amount |-> p[d].collateral_amount,
                  debt_amount |-> p[d].debt_amount,
                  price |-> p[d].price,
                  max_ltv |-> p[d].max_ltv,
                  liquidation_threshold |-> p[d].liquidation_threshold]
      BY <1>2, <1>5, <2>1, <2>3
    <2>5. p[d] = [collateral_amount |-> p[d].collateral_amount,
                  debt_amount |-> p[d].debt_amount,
                  price |-> p[d].price,
                  max_ltv |-> p[d].max_ltv,
                  liquidation_threshold |-> p[d].liquidation_threshold]
      BY <2>2 DEF PositionRecord
    <2> HIDE DEF q
    <2> QED
      BY <2>2, <2>4, <2>5
  <1>8. ASSUME NEW d \in DOMAIN p \ DOMAIN q
        PROVE  p[d].collateral_amount = 0 /\ p[d].debt_amount = 0
    <2>1. LoadOr(C, d, 0) = 0 /\ LoadOr(D, d, 0) = 0
      BY <1>6 DEF LoadOr
    <2> QED
      BY <1>2, <1>5, <2>1
  <1>9. q \in [DOMAIN q -> PositionRecord]
    <2>1. q = [d \in DOMAIN q |-> q[d]]
      BY DEF PositionsFromCoins
    <2> HIDE DEF q
    <2> QED
      BY <1>7, <2>1
  <1>10. ComputeHealthFromCoins(C, D) = {HealthOf(q)}
    BY <1>4 DEF ComputeHealthFromCoins
  <1> HIDE DEF q
  <1>11. SameButEmpty(p, q)
    BY <1>3, <1>6, <1>7, <1>8 DEF SameButEmpty
  <1>12. HealthOf(p) = HealthOf(q)
    BY <1>2, <1>9, <1>11, SameWorth
  <1> QED
    BY <1>1, <1>10, <1>12 DEF C, D

\* What a contract computes from the coins that a user has and owes is what the
\* lending contract answers of the user's position.
THEOREM HealthAlwaysAgrees == Spec => []HealthAgrees
  BY SoundAlways, HealthAgreesHere, PTL

-----------------------------------------------------------------------------
(***************************************************************************)
(* Quotes                                                                  *)
(***************************************************************************)

LEMMA NothingScaled ==
    ASSUME NEW i \in Nat \ {0} PROVE ScaledFloor(0, i) = 0 /\ ScaledCeil(0, i) = 0
  <1>1. (0 * ScalingFactor) * One = 0
    BY ScalingAssumption, OneAssumption
  <1>2. 0 \div i = 0 /\ (-0) \div i = 0
    OBVIOUS
  <1> QED
    BY <1>1, <1>2 DEF ScaledFloor, ScaledCeil, DivideUintByDecimal,
                      DivideUintByDecimalCeil, DivCeil

\* The answers to the queries of a market's coins.
LEMMA Quoted ==
    ASSUME Sound, NEW u \in User, NEW d \in DOMAIN markets, NEW amount \in Nat
    PROVE  /\ QueryScaledLiquidityAmount(d, amount) = {ScaledFloor(amount, LiquidityIndex(d))}
           /\ QueryScaledDebtAmount(d, amount) = {ScaledCeil(amount, BorrowIndex(d))}
           /\ \A debt \in QueryUserDebt(u, d) :
                debt.amount = UnderlyingCeil(DebtScaled(u, d), BorrowIndex(d))
           /\ \A collateral \in QueryUserCollateral(u, d) :
                collateral.amount = UnderlyingFloor(CollateralScaled(u, d), LiquidityIndex(d))
  <1>1. QueryMarket(d) = {markets[d]}
    BY DEF QueryMarket
  <1>2. QueryScaledLiquidityAmount(d, amount) = {ScaledFloor(amount, LiquidityIndex(d))}
    BY <1>1 DEF QueryScaledLiquidityAmount, ScaledLiquidity, LiquidityIndex
  <1>3. QueryScaledDebtAmount(d, amount) = {ScaledCeil(amount, BorrowIndex(d))}
    BY <1>1 DEF QueryScaledDebtAmount, ScaledDebt, BorrowIndex
  <1>4. ASSUME NEW debt \in QueryUserDebt(u, d)
        PROVE  debt.amount = UnderlyingCeil(DebtScaled(u, d), BorrowIndex(d))
    BY <1>1 DEF QueryUserDebt, UnderlyingDebt, BorrowIndex
  <1>5. ASSUME NEW collateral \in QueryUserCollateral(u, d)
        PROVE  collateral.amount = UnderlyingFloor(CollateralScaled(u, d), LiquidityIndex(d))
    BY <1>1 DEF QueryUserCollateral, UnderlyingLiquidity, LiquidityIndex
  <1> QED
    BY <1>2, <1>3, <1>4, <1>5

LEMMA DepositQuoted ==
    ASSUME Sound, NEW u \in User, NEW d \in Denom, NEW amount \in Amount, Deposit(u, d, amount)
    PROVE  CollateralScaled(u, d)' - CollateralScaled(u, d)
               \in QueryScaledLiquidityAmount(d, amount)
  <1> DEFINE s == ScaledFloor(amount, LiquidityIndex(d))
  <1>1. d \in DOMAIN markets /\ amount \in Nat
    BY InputAssumption DEF Deposit
  <1>2. /\ LiquidityIndex(d) \in Nat \ {0}
        /\ UpdatedLiquidityIndex(Accrued(d), now) = LiquidityIndex(d)
    BY <1>1, IndexesType
  <1>3. collaterals' = IncreaseCollateral(collaterals, u, d, s)
    BY <1>2 DEF Deposit, ScaledLiquidity, Accrued
  <1>4. s \in Nat /\ IsMap(collaterals, Position, Collateral) /\ CollateralScaled(u, d) \in Nat
    BY <1>1, <1>2, ScaleTypes, PositionTypes DEF Sound, TypeOK
  <1>5. QueryScaledLiquidityAmount(d, amount) = {s}
    BY <1>1, Quoted
  <1> HIDE DEF s
  <1>6. CollateralScaled(u, d)' = CollateralScaled(u, d) + s
    BY <1>3, <1>4, IncreaseCollateralEffect, Collaterals
  <1> QED
    BY <1>4, <1>5, <1>6

LEMMA BorrowQuoted ==
    ASSUME Sound, NEW u \in User, NEW d \in Denom, NEW amount \in Amount, Borrow(u, d, amount)
    PROVE  DebtScaled(u, d)' - DebtScaled(u, d) \in QueryScaledDebtAmount(d, amount)
  <1> DEFINE s == ScaledCeil(amount, BorrowIndex(d))
  <1>1. d \in DOMAIN markets /\ amount \in Nat
    BY InputAssumption DEF Borrow
  <1>2. /\ BorrowIndex(d) \in Nat \ {0}
        /\ UpdatedBorrowIndex(Accrued(d), now) = BorrowIndex(d)
    BY <1>1, IndexesType
  <1>3. debts' = IncreaseDebt(u, d, s, Limit(u, d) # 0)
    BY <1>2 DEF Borrow, ScaledDebt, Accrued
  <1>4. s \in Nat /\ DebtScaled(u, d) \in Nat
    BY <1>1, <1>2, ScaleTypes, PositionTypes DEF Sound
  <1>5. QueryScaledDebtAmount(d, amount) = {s}
    BY <1>1, Quoted
  <1> HIDE DEF s
  <1>6. DebtScaled(u, d)' = DebtScaled(u, d) + s
    BY <1>3, <1>4, IncreaseDebtEffect
  <1> QED
    BY <1>4, <1>5, <1>6

LEMMA RepayQuoted ==
    ASSUME Sound, NEW u \in User, NEW d \in Denom, NEW amount \in Amount,
           NEW on_behalf_of \in BOOLEAN, Repay(u, d, amount, on_behalf_of),
           NEW debt \in QueryUserDebt(u, d), debt.amount <= amount
    PROVE  ~HasDebt(u, d)'
  <1> DEFINE before == DebtScaled(u, d)
             i == BorrowIndex(d)
             owed == UnderlyingCeil(before, i)
  <1>1. /\ d \in DOMAIN markets /\ HasDebt(u, d) /\ amount \in Nat
        /\ debts' = DecreaseDebt(u, d, RepaidShares(u, d, amount))
    BY InputAssumption DEF Repay
  <1>2. i \in Nat \ {0} /\ UpdatedBorrowIndex(Accrued(d), now) = i
    BY <1>1, IndexesType
  <1>3. before \in Nat /\ owed \in Nat
    BY <1>2, PositionTypes, UnderlyingType DEF Sound
  <1>4. owed <= amount
    BY <1>1, Quoted
  <1>5. RepaidShares(u, d, amount) = before - ScaledCeil(LeftToRepay(owed, amount), i)
    BY <1>2 DEF RepaidShares, UnderlyingDebt, ScaledDebt, Accrued
  <1> HIDE DEF before, i, owed
  <1>6. LeftToRepay(owed, amount) = 0
    BY <1>1, <1>3, <1>4 DEF LeftToRepay
  <1>7. RepaidShares(u, d, amount) = before
    BY <1>2, <1>3, <1>5, <1>6, NothingScaled
  <1>8. debts[<<u, d>>].amount_scaled = before
    BY <1>1 DEF DebtScaled, before
  <1> QED
    BY <1>1, <1>7, <1>8 DEF DecreaseDebt, Remove, HasDebt

LEMMA WithdrawalQuoted ==
    ASSUME Sound, NEW u \in User, NEW d \in Denom, NEW amount \in Amount,
           Withdraw(u, d, amount),
           NEW collateral \in QueryUserCollateral(u, d), collateral.amount = amount
    PROVE  ~HasCollateral(u, d)'
  <1> DEFINE before == CollateralScaled(u, d)
             i == LiquidityIndex(d)
             owned == UnderlyingFloor(before, i)
  <1>1. /\ d \in DOMAIN markets /\ before # 0 /\ amount \in Nat
        /\ collaterals' = DecreaseCollateral(collaterals, u, d, WithdrawnShares(u, d, amount))
    BY InputAssumption DEF Withdraw
  <1>2. i \in Nat \ {0} /\ UpdatedLiquidityIndex(Accrued(d), now) = i
    BY <1>1, IndexesType
  <1>3. before \in Nat /\ owned \in Nat
    BY <1>2, PositionTypes, UnderlyingType DEF Sound
  <1>4. owned = amount
    BY <1>1, Quoted
  <1>5. WithdrawnShares(u, d, amount) = before - ScaledFloor(owned - amount, i)
    BY <1>2 DEF WithdrawnShares, UnderlyingLiquidity, ScaledLiquidity, Accrued, LiquidityIndex
  <1>6. collaterals[<<u, d>>].amount_scaled = before /\ HasCollateral(u, d)
    BY <1>1 DEF CollateralScaled
  <1> HIDE DEF before, i, owned
  <1>7. owned - amount = 0
    BY <1>3, <1>4
  <1>8. WithdrawnShares(u, d, amount) = before
    BY <1>2, <1>3, <1>5, <1>7, NothingScaled
  <1> QED
    BY <1>1, <1>6, <1>8 DEF DecreaseCollateral, Remove, HasCollateral

\* What the queries say that a transaction of the same block will do, it does.
THEOREM QuotesAlwaysHold == Spec => QuotesHold
  <1>1. ASSUME Sound
        PROVE  [\A u \in User, d \in Denom, amount \in Amount :
                LET paid == balance'[d] - balance[d]
                IN  /\ paid = amount /\ Deposit(u, d, amount) =>
                        CollateralScaled(u, d)' - CollateralScaled(u, d)
                            \in QueryScaledLiquidityAmount(d, amount)
                    /\ paid = -amount /\ Borrow(u, d, amount) =>
                        DebtScaled(u, d)' - DebtScaled(u, d) \in QueryScaledDebtAmount(d, amount)
                    /\ paid \in 0 .. amount /\ Repay(u, d, amount, FALSE) =>
                        \A debt \in QueryUserDebt(u, d) : debt.amount <= amount => ~HasDebt(u, d)'
                    /\ paid = -amount /\ Withdraw(u, d, amount) =>
                        \A collateral \in QueryUserCollateral(u, d) :
                            collateral.amount = amount => ~HasCollateral(u, d)']_vars
    BY <1>1, DepositQuoted, BorrowQuoted, RepayQuoted, WithdrawalQuoted
  <1> QED
    BY <1>1, SoundAlways, PTL DEF QuotesHold

\* A client's reading changes nothing in the contract, so that what holds of the
\* contract holds of it with a client.
THEOREM ClientRunsLending == ClientSpec => Spec
  <1>1. ClientInit => Init
    BY DEF ClientInit
  <1>2. [ClientNext]_<<vars, last, answers, finished, steady>> => [Next]_vars
    BY DEF ClientNext, Transaction, ReadPage, vars
  <1> QED
    BY <1>1, <1>2, PTL DEF ClientSpec, Spec
=============================================================================
