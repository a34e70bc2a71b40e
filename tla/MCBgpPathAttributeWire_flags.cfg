\* The decoder stops at the end of the attribute bytes or at its first error.
CONSTANT Inputs <- MCInputs
SPECIFICATION Spec
INVARIANT DecodeAcceptsOnlyMatrixFlags
CHECK_DEADLOCK FALSE
