CONSTANTS
  Producers = {p1, p2}
  Senders = {s1}
  Executor = executor
  Nobody = nobody
  NoRequest = noRequest
  Programs <- LegPrograms
  SentCommands = {"Coast"}
  SentInterrupts = {"EmergencyBrake", "Stop"}
  DriveQueueSize = 2
  MaxSends = 2
  MaxInterrupts = 2
SPECIFICATION Spec
INVARIANTS
  CompletionProtocol
  SubmissionProtocol
  InterruptCancelsOpenStep
  NothingStaleUnderWay
PROPERTY
  ServiceSpec
SYMMETRY ProducerSymmetry
