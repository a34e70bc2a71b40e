\* A Coalesce over an unsigned64 and an ipv4Address IE, left as Identity.
CONSTANTS
    IEs <- MCIEs
    IeDataType <- MCIeDataType
    MplsIEs <- MCMplsIEs
    StringConvertible <- MCStringConvertible
    StringArrayConvertible <- MCStringArrayConvertible
    CustomEmbedded <- MCCustomEmbedded
    CustomPrefixed <- MCCustomPrefixed
    Configs <- MCCoalesceConfigs
    Flows <- MCFlows
SPECIFICATION Spec
INVARIANT RecordValuesHaveSchemaTypes
