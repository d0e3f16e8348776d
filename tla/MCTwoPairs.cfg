\* A denom is moved from one pair to another.
CONSTANTS
    One = 10
    admin = admin
    atom = atom
    osmo = osmo
    usd = usd
    pair = pair
    other_pair = other_pair
    None = None
    Admin = {admin}
    Denom = {atom, osmo, usd}
    Usd = usd
    Pair = {pair, other_pair}
    PairAssets <- MCPairAssets
    PairType <- MCXykType
    Unit <- MCUnit
    TwapUnit = 10
    MaxCumulative = 1000
    Feed = {}
    SourceInput <- MCTwoPairsInput
    BaseInput = {osmo}
    RecordInput = {{atom}}
    OwnerInput = {}
    Return <- MCTwoPairsReturn
    Quote = {}
    TimeStep = {1, 2}
    MaxTime = 6
    MaxSnapshots = 9
SPECIFICATION HistorySpec
INVARIANTS
    TwapIsOfItsPair
CHECK_DEADLOCK FALSE
