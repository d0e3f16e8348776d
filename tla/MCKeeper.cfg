\* A keeper that comes every tolerance + 2 seconds.
CONSTANTS
    One = 10
    admin = admin
    atom = atom
    osmo = osmo
    usd = usd
    luna = luna
    pair2 = pair2
    pair = pair
    None = None
    Admin = {admin}
    Denom = {atom, luna, osmo, usd}
    Usd = usd
    Pair = {pair, pair2}
    PairAssets <- MCPairAssets
    PairType <- MCPairType
    Unit <- MCUnit
    TwapUnit = 10
    MaxCumulative = 999
    Feed = {}
    SourceInput <- MCSourceInput
    BaseInput = {osmo}
    RecordInput = {{atom}, {luna}}
    OwnerInput = {}
    Return <- MCReturn
    Quote = {}
    TimeStep = {1}
    MaxTime = 13
    MaxSnapshots = 9
    Sources <- MCSources
    Interval = 3
SPECIFICATION KeeperSpec
PROPERTIES
    TwapStaysAvailable
    TwapEventuallyAvailable
CHECK_DEADLOCK FALSE
