\* Two lives of the binary, one failed call, unusable answer or dying tunnel.
CONSTANTS
    MaxLives = 2
    MaxFaults = 1
SPECIFICATION FairSpec
INVARIANTS
    TypeOK
    GracefulStopEndsTunnel
    IdsAreOwnOrOrphans
    ZeroNeedsRace
PROPERTIES
    WatcherLearnsId
    CacheSpec
