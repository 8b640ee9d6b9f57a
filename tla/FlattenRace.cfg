CONSTANTS
    Assets <- MCAssets
    Upper <- MCUpper
    AssetList <- RespeltAssets
    Rates <- ShortRates
    Mids = {4}
    MaxPositionUsd = 8
    Buffers = {300}
    Faults = {"refused", "clock"}
    MaxFills = 4
    MaxClock = 1
    DaemonStopped = FALSE
    MinApyToEnter = 87600
    MaxApyToExit = 17520
    None = None
    Torn = Torn
SPECIFICATION SwitchSpec
PROPERTY OnlyCloses
INVARIANT OnePerAsset
