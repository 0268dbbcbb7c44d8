SPECIFICATION FrameSpec
CONSTANTS
    streamChunkSize = 3
    MaxLength = 13
    Bodies = {b1, b2}
    ParamHeaders = {p1}
INVARIANTS
    LoopComputesFrame
    ChunksTile
    OneTerminator
