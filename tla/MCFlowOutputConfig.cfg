\* Schema and record agree on nullability, and no record is dropped with
\* FieldIsNull, for configurations using every select and transform.
CONSTANTS
    IEs <- MCIEs
    IeDataType <- MCIeDataType
    MplsIEs <- MCMplsIEs
    StringConvertible <- MCStringConvertible
    StringArrayConvertible <- MCStringArrayConvertible
    CustomEmbedded <- MCCustomEmbedded
    CustomPrefixed <- MCCustomPrefixed
    Configs <- MCConfigs
    Flows <- MCFlows
SPECIFICATION Spec
INVARIANT NeverFieldIsNull
INVARIANT NullabilityAgrees
INVARIANT Layer2RecordHoldsSegmentId
