SPECIFICATION FairSpec
CONSTANTS
    LenSize = 1
    TagSize = 1
    EncLimit = 2
    PadMax = 3
    PadRate = 100
    MaxPacket = 3
    PipeCap = 4
    MaxBytes = 7
    Base = 4
    NonceSize = 3
    Salt <- SmallSalt
INVARIANTS
    DeliveredInOrder
    NeverInvalid
    NonceFresh
    WordsFresh
    EndsAtFrame
    GracefulEnd
PROPERTIES
    ShutdownSeen
    IsByteStream
