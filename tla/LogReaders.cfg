CONSTANTS
    Assets <- MCAssets
    Upper <- MCUpper
    MinApyToEnter = 87600
    MaxApyToExit = 17520
    Torn = Torn
    NoMid = NoMid
    MaxWeight = 16
    FillStamps = {1, 3}
    ObsStamps = {2, 4}
    FillTerms <- MCFills
    ObsTerms <- MCObservations
    MaxHour = 4
SPECIFICATION ReadersSpec
INVARIANT RestoreMatchesFold
INVARIANT PairsAreNeighbours
INVARIANT AccrualIsStep
INVARIANT MarkIsLatest
INVARIANT DigestIgnoresNow
INVARIANT DigestFoldsCase
INVARIANT StatsMatchRestore
INVARIANT StatsShowLatest
PROPERTY FundingSettles
\* The logs are full.
CHECK_DEADLOCK FALSE
