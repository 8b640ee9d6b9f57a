CONSTANTS
    Assets <- MCAssets
    Upper <- MCUpper
    AssetList <- TwoAssets
    Rates <- ShortRates
    Mids = {0, 4}
    MaxPositionUsd = 8
    Buffers = {300}
    Faults = {"refused", "torn"}
    MaxFills = 4
    MaxClock = 1
    DaemonStopped = TRUE
    MinApyToEnter = 87600
    MaxApyToExit = 17520
    None = None
    Torn = Torn
SPECIFICATION SwitchSpec
INVARIANT Accounted
INVARIANT SwitchTypeOK
INVARIANT SwitchInv
INVARIANT DamageContained
PROPERTY RestartPreserves
