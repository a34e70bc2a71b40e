\* The writer is handed MaxMessages messages; once the reader has taken
\* them the behaviour ends.
CONSTANTS
    BodyLengths <- MCBodyLengthsOverflow
    MaxMessages = 2
SPECIFICATION Spec
INVARIANT FramesReadAsWritten
CHECK_DEADLOCK FALSE
