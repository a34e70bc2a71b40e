\* The decoder stops at the end of the attribute bytes or at its first error.
CONSTANT Inputs <- MCInputs
SPECIFICATION Spec
INVARIANT TypeOK
INVARIANT DecodeConsumesDeclaredLength
INVARIANT DecodeEncodeRoundTrip
INVARIANT ErrorLocatesOffendingOctet
INVARIANT IncompleteOnlyWhenValueOverruns
CHECK_DEADLOCK FALSE
