CONSTANTS
    Assets <- MCAssets
    Upper <- MCUpper
    AssetList <- MCAssetList
    Market <- MCMarket
    NoMid = NoMid
    Failed = Failed
    Unset = Unset
    Period = 3
    Timeout = 2
SPECIFICATION FairLoopSpec
PROPERTY CtrlCStops
