SPECIFICATION FairSpec
CONSTANTS
    Sessions = {s1}
    Calls = {c1}
    Clouds = {k1}
    CallOps <- CloseOnly
    VendorOps <- PlainOps
    QueueLimit = 1
    FirstValves <- OpenOnly
    MaxFrames = 1
    None = None

PROPERTIES CallsEnd StopEnds
