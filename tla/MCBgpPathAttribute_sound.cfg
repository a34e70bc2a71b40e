CONSTANT UnknownPairs <- MCUnknownPairs
SPECIFICATION Spec
INVARIANT FromSound
INVARIANT MpFamiliesAgree
