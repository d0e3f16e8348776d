\* Up to three calls fail, lose their replies, or are cut off by a crash.
CONSTANTS
    sei = sei
    atom = atom
    multisig = multisig
    None = None
    Assets <- MCAssets
    OracleConfigs <- MCAssets
    BaseAsset = sei
    MaxLtv = 4
    LiqThreshold = 5
    RunTests = TRUE
    Multisig = None
    Losable <- MCAll
    MaxFaults = 3
SPECIFICATION FairSpec
INVARIANTS
    DeploymentTypeOK
    MarksAreTrue
    DoneMeansWired
PROPERTIES
    EventuallyDeployed
CHECK_DEADLOCK FALSE
