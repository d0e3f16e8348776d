\* One market, one user, interest over a year.
CONSTANTS
    One = 100
    ScalingFactor = 100
    SecondsPerYear = 1
    u1 = u1
    u2 = u2
    admin = admin
    atom = atom
    provider = provider
    None = None
    User = {u1}
    Admin = {admin}
    Denom = {atom}
    Provider = {provider}
    Supply <- MCSupply
    Unlimited = 1000
    Amount = {1, 4}
    Status = {}
    LoanLimit = {}
    ConfigInput <- MCConfigInput
    AssetInput <- MCAssetInput
    UpdateInput = {}
    OwnerInput = {}
    Answers <- MCAnswers
    TimeStep = {1}
    MaxTime = 1
SPECIFICATION Spec
PROPERTIES
    HealthyAfterOwnWithdraw
CHECK_DEADLOCK FALSE
