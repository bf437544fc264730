\* Distance calibrations that complete, fail or are stopped.
SPECIFICATION Spec
CONSTANTS
    MotorFactors = {nominal, slower}
    DistanceFactors = {nominal, first, second}
    Nominal = nominal
    NoValue = NoValue
    FlashCap = 3
    EventCap = 2
PROPERTY NothingProducedNothingChanged
