CONSTANTS
    Assets <- MCAssets
    Upper <- MCUpper
    AssetList <- TwoAssets
    Rates <- MCRates
    Mids = {4}
    MaxPositionUsd = 8
    Buffers = {300}
    Faults = {"torn"}
    MaxFills = 4
    MaxClock = 1
    DaemonStopped = TRUE
    MinApyToEnter = 87600
    MaxApyToExit = 17520
    None = None
    Torn = Torn
SPECIFICATION SwitchSpec
INVARIANT ReportsFlat
