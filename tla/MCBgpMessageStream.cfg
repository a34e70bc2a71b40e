\* The writer is handed MaxMessages messages; once the reader has taken
\* them the behaviour ends.
CONSTANTS
    BodyLengths <- MCBodyLengths
    MaxMessages = 3
SPECIFICATION Spec
INVARIANT FramesReadAsWritten
PROPERTY WrittenMessagesEventuallyRead
CHECK_DEADLOCK FALSE
