\* Sources are set, replaced and removed; the base denom and the owner change.
CONSTANTS
    One = 10
    admin = admin
    admin2 = admin2
    atom = atom
    osmo = osmo
    usd = usd
    luna = luna
    pair = pair
    cw20_pair = cw20_pair
    big_pair = big_pair
    token = token
    feed = feed
    None = None
    Admin = {admin, admin2}
    Denom = {atom, osmo, usd, luna}
    Usd = usd
    Pair = {pair, cw20_pair, big_pair}
    PairAssets <- MCPairAssets
    PairType <- MCPairType
    Unit <- MCUnit
    TwapUnit = 10
    MaxCumulative = 99
    Feed = {feed}
    SourceInput <- MCSourceInput
    BaseInput = {osmo, luna}
    RecordInput = {}
    OwnerInput = {"propose_new_owner", "accept_proposed", "abolish_owner_role"}
    Return <- MCReturn
    Quote <- MCQuote
    TimeStep = {2}
    MaxTime = 2
    MaxSnapshots = 9
    DefaultLimit = 1
    MaxLimit = 2
    NoLimit = NoLimit
    DenomKey <- MCDenomKey
SPECIFICATION HistorySpec
INVARIANTS
    PricesEnumerated
PROPERTIES
    NewSourcesResolve
CHECK_DEADLOCK FALSE
