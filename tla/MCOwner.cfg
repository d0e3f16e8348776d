\* The owner, the emergency owner and a user, in one denom.
CONSTANTS
    One = 100
    ScalingFactor = 100
    SecondsPerYear = 1
    u1 = u1
    admin = admin
    guardian = guardian
    atom = atom
    provider = provider
    provider2 = provider2
    None = None
    User = {u1}
    Admin = {admin, guardian}
    Denom = {atom}
    Provider = {provider, provider2}
    Supply <- MCSupply
    Unlimited = 40
    Amount = {30}
    Status = {TRUE, FALSE}
    LoanLimit = {0, 30}
    ConfigInput <- MCConfigInput
    AssetInput <- MCAssetInput
    UpdateInput <- MCUpdateInput
    OwnerInput = {"propose_new_owner", "clear_proposed", "accept_proposed",
                  "abolish_owner_role", "set_emergency_owner", "clear_emergency_owner"}
    Answers <- MCAnswers
    TimeStep = {1}
    MaxTime = 1
SYMMETRY MCSymmetry
SPECIFICATION Spec
INVARIANTS
    UncollateralizedIffLimit
    MarketsValid
    RatesFresh
PROPERTIES
    IndexesContinuous
    OnlyOwnerSetsParams
    InterestIsCovered
CHECK_DEADLOCK FALSE
