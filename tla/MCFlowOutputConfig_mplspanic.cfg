\* format_mpls unwraps three octets of a label stack entry that may be shorter.
CONSTANTS
    IEs <- MCIEs
    IeDataType <- MCIeDataType
    MplsIEs <- MCMplsIEs
    StringConvertible <- MCStringConvertible
    StringArrayConvertible <- MCStringArrayConvertible
    CustomEmbedded <- MCCustomEmbedded
    CustomPrefixed <- MCCustomPrefixed
    Configs <- MCConfigs
    Flows <- MCFlows
SPECIFICATION Spec
INVARIANT NeverPanics
