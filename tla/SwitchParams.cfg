SPECIFICATION Spec
CONSTANTS
    Byte = 4
    Unit = 4
    BirdClass = 1
    Word = 16
    MinSize = 2
    MaxWidth = 16
    MaxHeight = 12
    Absent = Absent
    None = None
    Garbage = Garbage
    Configs <- MCConfigs
    OdFrames <- MCOdFrames
    IcFrames <- MCIcFrames
INVARIANT TypeOK
INVARIANT OneConfiguration
INVARIANT NetworksOfLatest
INVARIANT DetectionsOfConfig
INVARIANT PredictionsOfConfig
INVARIANT BestIsMarked
INVARIANT CropInPicture
