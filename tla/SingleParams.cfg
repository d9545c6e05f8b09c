SPECIFICATION Spec
CONSTANTS
    Byte = 4
    Unit = 4
    BirdClass = 1
    Word = 16
    Absent = Absent
    None = None
    Garbage = Garbage
    PPL_DEFAULT_THRESHOLD = 1
    s_ssd_param <- MCSsdParam
    s_cls_param <- MCClsParam
    SsdConfigs <- MCSsdConfigs
    ClsConfigs <- MCClsConfigs
    SsdTensors <- MCSsdTensors
    ClsTensors <- MCClsTensors
INVARIANT TypeOK
INVARIANT OneConfiguration
INVARIANT ReadsInside
INVARIANT DetectionsRight
INVARIANT PredictionsRight
