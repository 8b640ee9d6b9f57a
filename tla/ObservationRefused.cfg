CONSTANTS
    Assets <- MCAssets
    Upper <- MCUpper
    AssetList <- OneAsset
    Rates <- EntryAndExit
    Mids = {4}
    MaxPositionUsd = 8
    Buffers = {300}
    Faults = {"refused"}
    MaxFills = 4
    MaxClock = 2
    MinApyToEnter = 87600
    MaxApyToExit = 17520
    None = None
    Torn = Torn
SPECIFICATION Spec
INVARIANT DecisionHasObservation
