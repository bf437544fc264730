SPECIFICATION FairSpec
CONSTANTS
    Chunks = {2, 6}
    Watchdog = 36
    ProbeRetries = 2
    MaxPoints = 10
    MaxSpins = 3
    StableSpins = 2
    Noise = {"Body"}
INVARIANT ScanIsOneTurn
PROPERTY FlagTellsTheTurn
PROPERTY ReadsEnd
