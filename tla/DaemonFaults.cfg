CONSTANTS
    Assets <- MCAssets
    Upper <- MCUpper
    AssetList <- RespeltAssets
    Rates <- EntryAndExit
    Mids = {0, 4}
    MaxPositionUsd = 8
    Buffers = {300, 999}
    Faults = {"refused", "torn"}
    MaxFills = 5
    MaxClock = 1
    MinApyToEnter = 87600
    MaxApyToExit = 17520
    None = None
    Torn = Torn
SPECIFICATION Spec
INVARIANT TypeOK
INVARIANT OnePerAsset
INVARIANT DamageContained
INVARIANT Settled
INVARIANT IInv
PROPERTY RestartPreserves
PROPERTY ImplementsRounds
