CONSTANTS
  Producers = {p1, p2}
  Senders = {s1}
  Executor = executor
  Nobody = nobody
  NoRequest = noRequest
  Programs <- MovePrograms
  SentCommands = {"ImuCalibration"}
  SentInterrupts = {"Stop"}
  DriveQueueSize = 1
  MaxSends = 1
  MaxInterrupts = 1
SPECIFICATION FairSpec
PROPERTY
  SubmissionAnswered
  InterruptHandled
