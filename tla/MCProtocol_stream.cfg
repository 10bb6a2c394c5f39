SPECIFICATION Spec
CONSTANTS
    MaxFrameSize = 144
    FrameTimeout = 2
    Tags = {131}
    Memories <- MCMemories
    Payloads <- MCPayloads
    Chunks = {1, 13}
    MaxSent = 2
    MaxDamaged = 24
    Noise <- MCNoise
    None = None
INVARIANTS TypeOK OnlySent Lossless AbsoluteDeadline Recognized
CHECK_DEADLOCK FALSE
