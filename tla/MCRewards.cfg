\* One market, two users, interest over two years.
CONSTANTS
    One = 100
    ScalingFactor = 100
    SecondsPerYear = 1
    u1 = u1
    u2 = u2
    admin = admin
    atom = atom
    provider = provider
    None = None
    User = {u1, u2}
    Admin = {admin}
    Denom = {atom}
    Provider = {provider}
    Supply <- MCSupply
    Unlimited = 1000
    Amount = {2, 3}
    Status = {}
    LoanLimit = {}
    ConfigInput <- MCConfigInput
    AssetInput <- MCAssetInput
    UpdateInput = {}
    OwnerInput = {}
    Answers <- MCAnswers
    TimeStep = {1}
    MaxTime = 2
SYMMETRY MCSymmetry
SPECIFICATION Spec
INVARIANTS
    CollateralSharesOwned
CHECK_DEADLOCK FALSE
