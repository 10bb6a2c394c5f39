SPECIFICATION Spec
CONSTANTS
    Sessions = {s1, s2}
    Calls = {c1}
    Clouds = {}
    CallOps <- CloseOnly
    VendorOps <- NoOps
    QueueLimit = 1
    FirstValves <- OpenOnly
    MaxFrames = 0
    None = None

INVARIANT WaiterReleased
