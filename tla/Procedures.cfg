\* A test with two legs, one that runs until it is stopped, the longest
\* calibration and the one with a task of its own.
SPECIFICATION Spec
CONSTANTS
    Offered = {"StraightDrive", "BasicMotor", "MagCalibration",
               "DistanceCalibration", "AttemptStraight"}
    EventCap = 7
    CommandCap = 1
INVARIANTS
    SlotIsExclusive
    RadarHoldsSlot
    SpawnFindsFreeTask
    EventsFindRoom
    CompletionIsAnnounced
PROPERTIES
    StopStands
VIEW ReadState
