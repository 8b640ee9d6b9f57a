CONSTANTS
    Assets <- MCAssets
    Upper <- MCUpper
    MinApyToEnter = 87600
    MaxApyToExit = 17520
    Torn = Torn
    NoMid = NoMid
    MaxWeight = 12
    FillStamps = {1, 3}
    ObsStamps = {2, 4}
    FillTerms <- MCFills
    ObsTerms <- MCObservations
    MaxHour = 4
SPECIFICATION ReadersSpec
INVARIANT OldRowsUnread
CHECK_DEADLOCK FALSE
