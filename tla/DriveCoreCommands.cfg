CONSTANTS
  Producers = {p1}
  Senders = {s1}
  Executor = executor
  Nobody = nobody
  NoRequest = noRequest
  Programs <- StepPrograms
  SentCommands = {"MotorCalibration", "ImuCalibration"}
  SentInterrupts = {"EmergencyBrake", "Stop"}
  DriveQueueSize = 1
  MaxSends = 2
  MaxInterrupts = 1
SPECIFICATION Spec
INVARIANTS
  MovesOnlyForAnIntent
  AwakeWhenDriving
