\* Two motor calibrations and two distance factors, the event channel at two.
SPECIFICATION FairSpec
CONSTANTS
    MotorFactors = {nominal, slower}
    DistanceFactors = {nominal, first}
    Nominal = nominal
    NoValue = NoValue
    FlashCap = 3
    EventCap = 2
INVARIANTS
    MotorCopiesAgree
    CommittedFactorLasts
    MotorStatusTellsWhatIsStored
PROPERTY QueriesAnswered
