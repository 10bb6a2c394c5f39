SPECIFICATION Spec
CONSTANTS
    Sessions = {s1}
    Calls = {}
    Clouds = {k1, k2}
    CallOps <- NoOps
    VendorOps <- MixedOps
    QueueLimit = 2
    FirstValves <- OpenOnly
    MaxFrames = 2
    None = None
SYMMETRY Symmetry
INVARIANTS VendorReplyOrder VendorAnswered DropAccounting CloudFlag
