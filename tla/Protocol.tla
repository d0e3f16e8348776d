------------------------------ MODULE Protocol ------------------------------
(***************************************************************************)
(* The contracts together: lending asks the address provider for the       *)
(* oracle, and that oracle for prices, within the transaction that needs   *)
(* them.  There is one contract of each, on one chain, with one clock.     *)
(***************************************************************************)
EXTENDS OwnerRole, Storage, FiniteSets, Integers

CONSTANTS
    One, ScalingFactor, SecondsPerYear,
    User, Denom, Supply, Unlimited, Amount, Status, LoanLimit,
    ConfigInput, AssetInput, UpdateInput,           \* see Lending
    Usd, Pair, PairAssets, PairType, Unit, TwapUnit, MaxCumulative, Feed,
    SourceInput, BaseInput, RecordInput, Return, Quote, MaxSnapshots,   \* see Oracle
    Address, OnChain, Bech32, Prefix, StartsWith,   \* see AddressProvider
    AddressInput,       \* the <<address type, address>> its owner may set
    DefaultLimit, MaxLimit, NoLimit,                \* see Pages
    LendingOwnerInput, OracleOwnerInput, ProviderOwnerInput,    \* OwnerInput of each
    TimeStep, MaxTime,
    Provider,           \* the address of the address provider, alone
    OracleAddress,      \* the address of the oracle
    MaxPrice            \* bound on prices

VARIABLES
    lending_role, config, markets, collaterals, debts, limits, balance,
    oracle_role, base_denom, price_sources, snapshots,
    swap, cumulative, feeds,        \* the pairs and feeds of the oracle
    provider_role, prefix, addresses,
    now

lendingContract ==
    <<lending_role, config, markets, collaterals, debts, limits, balance>>

oracleContract == <<oracle_role, base_denom, price_sources, snapshots>>

outside == <<swap, cumulative, feeds>>

providerContract == <<provider_role, prefix, addresses>>

protocolVars == <<lendingContract, oracleContract, outside, providerContract, now>>

P == INSTANCE AddressProvider WITH
    role <- provider_role, OwnerInput <- ProviderOwnerInput

O == INSTANCE Oracle WITH
    role <- oracle_role, OwnerInput <- OracleOwnerInput

ASSUME ProtocolAssumption ==
    /\ O!OneAssumption /\ O!OracleAssumption /\ O!DenomAssumption
    /\ IsFiniteSet(SourceInput)
    /\ MaxPrice \in Nat

\* The prices the oracle answers, each asked for on its own.
PricesAnswered ==
    [d \in {e \in Denom : O!Price(e) # {}} |-> CHOOSE price \in O!Price(d) : TRUE]

\* What lending gets to see: no oracle, one that answers, or a contract that
\* is not an oracle and fails every query.
OracleSeen ==
    IF P!ContractAddr("oracle") = {} THEN EmptyMap
    ELSE [p \in Provider |->
            IF P!ContractAddr("oracle") = {OracleAddress} THEN PricesAnswered ELSE EmptyMap]

\* What oracles could answer: an unsigned price or an error, for each denom.
AnyAnswers ==
    UNION {[known -> UNION {[priced -> 0 .. MaxPrice] : priced \in SUBSET Denom}] :
              known \in SUBSET Provider}

L == INSTANCE Lending WITH
    role <- lending_role, OwnerInput <- LendingOwnerInput,
    oracle <- OracleSeen, Answers <- AnyAnswers

\* What Lending assumes of its own constants, of those given to it here.
ASSUME LendingAssumption ==
    L!ScalingAssumption /\ L!InputAssumption /\ L!FiniteAssumption

-----------------------------------------------------------------------------

Init ==
    /\ P!Init
    /\ O!Init
    /\ L!Init

LendingStep ==
    /\ UNCHANGED <<oracleContract, outside, providerContract, now>>
    /\ L!OwnerStep \/ L!UserStep

OracleStep ==
    /\ O!OwnerStep \/ \E denoms \in RecordInput : O!RecordTwapSnapshots(denoms)
    /\ UNCHANGED <<lendingContract, providerContract>>

ProviderStep ==
    /\ \E sender \in Admin :
        \/ \E input \in AddressInput : P!SetAddress(sender, input[1], input[2])
        \/ \E update \in ProviderOwnerInput : P!UpdateOwner(sender, update)
    /\ UNCHANGED <<lendingContract, oracleContract, outside, now>>

\* Time passes, pairs trade, feeds publish.
OutsideStep == O!MarketStep /\ UNCHANGED <<lendingContract, providerContract>>

Next == LendingStep \/ OracleStep \/ ProviderStep \/ OutsideStep

Spec == Init /\ [][Next]_protocolVars

-----------------------------------------------------------------------------

\* The contracts together implement the lending contract with the environment
\* it is specified with: whatever the owners of the oracle and of the address
\* provider do, and whatever the pairs and feeds say, lending sees prices that
\* are unsigned decimals, or errors, and they move in no other way than between
\* its transactions.  So what holds of Lending holds of the deployment.
ImplementsLending == L!Spec

\* The comment of query_contract_addr: the contracts can use an address exactly
\* if it has the configured prefix.  So lending has the oracle of this chain as
\* soon as its provider has an address that looks like one, and no account of
\* another chain is taken for a contract, whoever owned the provider when it was
\* stored.
PrefixDecides ==
    \A type \in DOMAIN addresses :
        <<addresses[type], prefix>> \in StartsWith <=> P!ContractAddr(type) # {}

Healthy(u) ==
    /\ L!PositionsDefined(u, collaterals)
    /\ ~L!IsLiquidatable(L!Positions(u, collaterals))

\* Nobody can push a healthy user below, by any message to any of the three
\* contracts, but their owners: a user who was healthy and no longer is, or
\* whose health can no longer be told, owes it to the time, to a trade, to a
\* feed, to an owner, to a withdrawal or loan of their own, or to a deposit of
\* coins that the oracle has no price for.  (Anybody may make that deposit for
\* them.)  In particular the snapshots that anybody may record take no price
\* away.
StrangersNeverHurt ==
    [][\A u \in User :
        Healthy(u) /\ ~Healthy(u)' =>
            \/ OutsideStep
            \/ UNCHANGED <<lendingContract, providerContract>> /\ O!OwnerStep
            \/ UNCHANGED <<oracleContract, providerContract>> /\ L!OwnerStep
            \/ ProviderStep
            \/ \E d \in Denom :
                \/ \E request \in Amount \cup {None} : L!Withdraw(u, d, request)
                \/ \E amount \in Amount : L!Borrow(u, d, amount)
                \/ \E amount \in Amount : L!Deposit(u, d, amount) /\ ~L!PriceKnown(d)]_protocolVars
=============================================================================
