SPECIFICATION Spec
CONSTANTS
    c1 = c1
    c2 = c2
    Callers <- OneCaller
    Readings <- OneReading
    MaxCounter = 1
    None = None
INVARIANT DecreaseRemembered
