SPECIFICATION Spec
CONSTANTS
    Sessions = {s1}
    Calls = {c1, c2}
    Clouds = {}
    CallOps <- CallerOps
    VendorOps <- NoOps
    QueueLimit = 2
    FirstValves <- ValveOps
    MaxFrames = 0
    None = None
SYMMETRY Symmetry
INVARIANTS TypeOK ConfirmedByReadback OneInFlight
PROPERTY CallsArePromised
