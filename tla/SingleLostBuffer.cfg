SPECIFICATION Spec
CONSTANTS
    PipelineDepth = 1
    MaxFaults = 0
INVARIANT BufferFreed
