\* A deserialized message reaches the unreachable! of update_message.
CONSTANTS
    Indices <- MCIndices
    VrfLengths <- MCVrfLengths
    BgpTypes <- MCBgpTypes
    Codes <- MCCodes
    MaxTlvs = 1
SPECIFICATION Spec
INVARIANT UpdateMessageNeverPanics
