SPECIFICATION Spec
CONSTANTS
    StrLen = 64
    ArrayLen = 1024
    OutLen = 16
    Versions <- MCVersions
    Lens <- MCLens
    ChunkLens <- MCChunkLens
INVARIANTS
    TypeOK
    BufferBounds
    PacketWhole
    SessionReady
PROPERTIES
    SenderReturns
    StreamSpec
CHECK_DEADLOCK FALSE
