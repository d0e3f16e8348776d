\* Averages of snapshots that anybody records, and a feed whose quotes need not be
\* prices.
CONSTANTS
    One = 10
    ScalingFactor = 1
    SecondsPerYear = 1
    u1 = u1
    admin = admin
    osmo = osmo
    usd = usd
    pair = pair
    feed = feed
    provider = provider
    oracle_contract = oracle_contract
    hub_account = hub_account
    typo = typo
    chain = chain
    None = None
    User = {u1}
    Admin = {admin}
    Denom = {osmo, usd}
    Supply <- MCSupply
    Unlimited = 100
    Amount = {1}
    Status = {FALSE}
    LoanLimit = {}
    ConfigInput <- MCConfigInput
    AssetInput <- MCAssetInput
    UpdateInput = {}
    Usd = usd
    Pair = {pair}
    PairAssets <- MCPairAssets
    PairType <- MCPairType
    Unit <- MCUnit
    TwapUnit = 1
    MaxCumulative = 100
    Feed = {feed}
    SourceInput <- MCSources
    BaseInput = {usd}
    RecordInput = {{osmo}}
    Return <- MCReturn
    Quote <- MCQuote
    MaxSnapshots = 9
    Address = {oracle_contract, hub_account, typo}
    OnChain = {oracle_contract}
    Bech32 = {oracle_contract, hub_account, typo}
    Prefix = {chain}
    StartsWith <- MCStartsWith
    AddressInput <- MCAddressInput
    DefaultLimit = 10
    MaxLimit = 30
    NoLimit = NoLimit
    LendingOwnerInput = {}
    OracleOwnerInput = {}
    ProviderOwnerInput = {"abolish_owner_role"}
    TimeStep = {3}
    MaxTime = 3
    Provider = {provider}
    OracleAddress = oracle_contract
    MaxPrice = 20
SPECIFICATION Spec
INVARIANTS
    PrefixDecides
PROPERTIES
    ImplementsLending
    StrangersNeverHurt
CHECK_DEADLOCK FALSE
