\* A channel that fills, two attempts per bring-up.
SPECIFICATION FairSpec
CONSTANTS
    CommandCap = 3
    BringupAttempts = 2
INVARIANTS
    NothingStaleWhenOff
    SpawnFindsFreeSlot
PROPERTIES
    StopEndsMotion
    SensorReleased
    ObstacleHeeded
