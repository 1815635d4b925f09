SPECIFICATION Spec
CONSTANTS
    Bits = 2
    kFrameMagic <- FrameMagic
    kMessageMagic <- MessageMagic
    kMessageVersion = 1
    max_frame_bytes = 48
    Headers <- SmallHeaders
    Payloads <- SmallPayloads
    Pieces = {3, 60}
    MaxSent = 2
    MaxReset = 1
    HashBits = 8
    OffsetBasis = 197
    Prime = 19
    Chars = {0, 1, 97, 255}
    MaxSignature = 3
INVARIANTS RestOfStream NoPhantomFrame ErrorJustified HeadersIntact
PROPERTIES FramesArrive
CHECK_DEADLOCK FALSE
