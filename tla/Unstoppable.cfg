\* The two calibration paths and one test, on the smallest queues.
SPECIFICATION Spec
CONSTANTS
    Offered = {"BasicMotor", "MotorCalibration", "DistanceCalibration"}
    EventCap = 6
    CommandCap = 2
INVARIANT RunningIsStoppable
VIEW ReadState
