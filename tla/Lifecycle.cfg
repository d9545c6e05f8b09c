SPECIFICATION FairSpec
CONSTANTS
    buf1 = buf1
    buf2 = buf2
    Buffers = {buf1, buf2}
    NoBuffer = NoBuffer
    MaxFaults = 3
INVARIANT TypeOK
INVARIANT CleanedUp
INVARIANT AnalysedWithParam
INVARIANT GivenUpOnExit
PROPERTY StoppedBeforeClose
PROPERTY SendsOnce
PROPERTY ExitEnds
PROPERTY FailedStartEnds
