\* The record against the schema written for the same configuration.
CONSTANTS
    IEs <- MCIEs
    IeDataType <- MCIeDataType
    MplsIEs <- MCMplsIEs
    StringConvertible <- MCStringConvertible
    StringArrayConvertible <- MCStringArrayConvertible
    CustomEmbedded <- MCCustomEmbedded
    CustomPrefixed <- MCCustomPrefixed
    Configs <- MCConfigs
    Flows <- MCFlows
SPECIFICATION Spec
INVARIANT RecordConformsToSchema
