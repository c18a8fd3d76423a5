SPECIFICATION Spec
CONSTANTS
    Replies <- MCReplies
    PacketBytes = 2
    Window = 2
    MaxLag = 4
INVARIANT TypeOK
PROPERTIES
    FreshConnection
    WholeReply
    RepliesArrive
\* The relay and its client may wait for each other for good.
CHECK_DEADLOCK FALSE
