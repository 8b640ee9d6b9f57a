CONSTANTS
    Assets <- MCAssets
    Upper <- MCUpper
    AssetList <- MCAssetList
    Market <- MCMarket
    NoMid = NoMid
    Failed = Failed
    Unset = Unset
    Period = 3
    Timeout = 2
SPECIFICATION FairLoopSpec
INVARIANT LoopTypeOK
INVARIANT RoundBounded
INVARIANT QuoteIsOfAsset
INVARIANT SigningIsExplicit
PROPERTY NoBurst
PROPERTY HeededWhenWaiting
PROPERTY ImplementsRounds
