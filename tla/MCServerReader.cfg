SPECIFICATION Spec
CONSTANTS
    StrLen = 64
    ArrayLen = 1024
    PacketNos <- MCPacketNos
    VersionBytes <- MCVersionBytes
    MaxQty = 66
INVARIANTS
    TypeOK
    Framing
    FieldOfPacket
    ReaderInv
PROPERTY
    StreamSpec
CHECK_DEADLOCK FALSE
