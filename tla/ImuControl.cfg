\* The IMU task against every sequence of procedures, a feedback channel of three
\* and three FIFO errors in a row to end it.
SPECIFICATION FairSpec
CONSTANTS
    FeedbackCap = 3
    MaxFifoFailures = 3
INVARIANTS
    StreamsTheModeItKeeps
    ReadyOnlyWhileStreaming
    StreamEndsWithProcedure
    ReferenceIsCurrent
PROPERTY CommandTaken
