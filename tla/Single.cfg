SPECIFICATION FairSpec
CONSTANTS
    PipelineDepth = 2
    MaxFaults = 3
INVARIANT TypeOK
INVARIANT ReleasesHeld
INVARIANT CleanedUp
INVARIANT FrameGivenBack
INVARIANT LostOnlyIfRefused
PROPERTY StoppedBeforeClose
PROPERTY NoStopAfterClose
PROPERTY ExitHonoured
PROPERTY LadderEnds
