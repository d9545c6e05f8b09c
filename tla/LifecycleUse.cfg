SPECIFICATION Spec
CONSTANTS
    buf1 = buf1
    buf2 = buf2
    Buffers = {buf1, buf2}
    NoBuffer = NoBuffer
    MaxFaults = 2
SYMMETRY BufferSymmetry
INVARIANT EvpUsesAlive
