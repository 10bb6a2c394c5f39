SPECIFICATION FairSpec
CONSTANTS
    MaxEvents = 4
    MaxSettings = 2
INVARIANTS TypeOK OnlineVerified DiscoveryCurrent Listening StoppedQuietly
PROPERTIES AvailabilityFollows DiscoveryEnds StopEnds
