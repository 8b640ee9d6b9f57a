CONSTANTS
    Assets <- MCAssets
    Upper <- MCUpper
    AssetList <- TwoAssets
    Rates <- MCRates
    Mids = {0, 4, 8}
    MaxPositionUsd = 8
    Buffers = {300, 999}
    Faults = {}
    MaxFills = 4
    MaxClock = 1
    DaemonStopped = TRUE
    MinApyToEnter = 87600
    MaxApyToExit = 17520
    None = None
    Torn = Torn
SPECIFICATION SwitchSpec
INVARIANT RespawnResumes
INVARIANT LogAlternates
INVARIANT ClosesUndoOpens
INVARIANT AuditTrail
INVARIANT Settled
INVARIANT CrashInv
INVARIANT BooksBalance
PROPERTY ImplementsBook
PROPERTY TradesNeverRevised
