\* Two markets, two users, prices that halve and double.
CONSTANTS
    One = 100
    ScalingFactor = 100
    SecondsPerYear = 1
    u1 = u1
    u2 = u2
    admin = admin
    atom = atom
    osmo = osmo
    provider = provider
    None = None
    User = {u1, u2}
    Admin = {admin}
    Denom = {atom, osmo}
    Provider = {provider}
    Supply <- MCSupply
    Unlimited = 1000
    Amount = {3}
    Status = {FALSE}
    LoanLimit = {}
    ConfigInput <- MCConfigInput
    AssetInput <- MCAssetInput
    UpdateInput = {}
    OwnerInput = {}
    Answers <- MCAnswers
    TimeStep = {1}
    MaxTime = 1
SYMMETRY MCSymmetry
SPECIFICATION Spec
PROPERTIES
    OthersNeverHurtHealth
    SeizureIsPaid
    ImplementsLedger
CHECK_DEADLOCK FALSE
