SPECIFICATION Spec
CONSTANTS
    StrLen = 4
    ArrayLen = 8
    PacketNos <- MCPacketNos
    VersionBytes <- MCVersionBytes
    NameLens <- MCNameLens
    Chunks = 2
    Respawn = 2
    Rejoin = 4
    CtrMax = 6
CHECK_DEADLOCK FALSE
INVARIANT NameHasLength
