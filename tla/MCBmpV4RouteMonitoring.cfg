\* TLV build is exact against the spec rules.
CONSTANTS
    Indices <- MCIndices
    VrfLengths <- MCVrfLengths
    BgpTypes <- MCBgpTypes
    Codes <- MCCodes
    MaxTlvs = 1
SPECIFICATION Spec
INVARIANT BuildAcceptsExactlySpec
