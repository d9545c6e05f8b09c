SPECIFICATION Spec
CONSTANTS
    netA = netA
    netB = netB
    netC = netC
    full = full
    box = box
    t1 = t1
    t2 = t2
    t3 = t3
    t4 = t4
    t5 = t5
    t6 = t6
    Networks = {netA, netB}
    FirstNetwork = netA
    Crops = {full, box}
    DefaultCrop = full
    Stamps = {t1, t2, t3, t4}
    NoFrame = NoFrame
    PipelineDepth = 1
    MaxFaults = 1
    Configs <- OneConfig
    InitialConfig <- ConfigAB
    NoConfig = NoConfig
    NoNetwork = NoNetwork
    NoCrop = NoCrop
    NoStamp = NoStamp
SYMMETRY StampSymmetry
INVARIANT OdOnWholeImage
