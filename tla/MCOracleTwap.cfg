\* A stable pair whose cumulative price wraps.
CONSTANTS
    One = 10
    admin = admin
    atom = atom
    osmo = osmo
    usd = usd
    pair = pair
    other_pair = other_pair
    None = None
    Admin = {admin}
    Denom = {atom, osmo, usd}
    Usd = usd
    Pair = {pair}
    PairAssets <- MCPairAssets
    PairType <- MCStableType
    Unit <- MCUnit
    TwapUnit = 10
    MaxCumulative = 90
    Feed = {}
    SourceInput <- MCSourceInput
    BaseInput = {osmo}
    RecordInput = {{atom}}
    OwnerInput = {}
    Return <- MCReturn
    Quote = {}
    TimeStep = {1, 2}
    MaxTime = 6
    MaxSnapshots = 9
SPECIFICATION HistorySpec
INVARIANTS
    OracleTypeOK
    TwapIsAverage
    SnapshotsBounded
PROPERTIES
    RecordingMovesNoPrice
CHECK_DEADLOCK FALSE
