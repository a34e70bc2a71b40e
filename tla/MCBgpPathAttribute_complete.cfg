CONSTANT UnknownPairs <- MCUnknownPairs
SPECIFICATION Spec
INVARIANT FromComplete
