\* A full and a drained pack; the largest factor flash can hold.
SPECIFICATION FairTrackSpec
CONSTANTS
    Started = {"MotorCalibration", "MagCalibration", "CoastAndAvoid"}
    ChannelCap = 2
    EventCap = 1
    Voltages = {58, 84}
    Factors = {150}
    PulseCounts = {1, 2}
INVARIANTS
    TracksFollowCommand
    EndsAtRest
    MeasuresWhatItCommands
    PulsesAreTheTracks
PROPERTIES
    CompensationHolds
    StopEndsRuns
    CalibrationEnds
