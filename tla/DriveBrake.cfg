CONSTANTS
  Producers = {p1}
  Senders = {s1}
  Executor = executor
  Nobody = nobody
  NoRequest = noRequest
  Programs <- LegPrograms
  SentCommands = {"Coast"}
  SentInterrupts = {"EmergencyBrake"}
  DriveQueueSize = 2
  MaxSends = 0
  MaxInterrupts = 1
SPECIFICATION Spec
PROPERTY EmergencyBrakeBrakes
