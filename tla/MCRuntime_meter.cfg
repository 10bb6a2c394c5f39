SPECIFICATION FairSpec
CONSTANTS
    c1 = c1
    c2 = c2
    Callers <- TwoCallers
    Readings <- OneReading
    MaxCounter = 2
    None = None
INVARIANTS TypeOK NeverBackwards DecreaseEndsReading SettingDurable StoppedSaved
PROPERTIES CallsEnd StopEnds
