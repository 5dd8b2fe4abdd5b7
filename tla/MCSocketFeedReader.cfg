SPECIFICATION SocketSpec
CONSTANTS
    Radix = 3
    MaxMessageSize = 3
    MaxStream = 14
    PayloadSize <- SomeSizes
    PeerStream <- Session
    RecvBuffer = 4
INVARIANTS
    FramesFollowStream
    OrderlyCloseLosesNothing
    JoinedIsFinal
PROPERTIES
    SocketStopReturns
    EndsWithPeer
