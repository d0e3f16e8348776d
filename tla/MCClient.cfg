\* Two markets, one user, interest over a year, pages of one and two.
CONSTANTS
    One = 100
    ScalingFactor = 100
    SecondsPerYear = 1
    u1 = u1
    admin = admin
    atom = atom
    osmo = osmo
    provider = provider
    None = None
    NoLimit = NoLimit
    User = {u1}
    Admin = {admin}
    Denom = {atom, osmo}
    Provider = {provider}
    Supply <- MCSupply
    Unlimited = 1000
    Amount = {2}
    Status = {}
    LoanLimit = {}
    ConfigInput <- MCConfigInput
    AssetInput <- MCAssetInput
    UpdateInput = {}
    OwnerInput = {}
    Answers <- MCAnswers
    TimeStep = {1}
    MaxTime = 1
    DefaultLimit = 1
    MaxLimit = 2
    DenomKey <- MCDenomKey
    Reader = u1
    LimitInput = {NoLimit, 3}
SPECIFICATION FairClientSpec
INVARIANTS
    HealthAgrees
    DebtsWalkComplete
PROPERTIES
    QuotesHold
    DebtsWalkIsPaged
    DebtsWalkEnds
CHECK_DEADLOCK FALSE
