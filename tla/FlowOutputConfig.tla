--------------------------- MODULE FlowOutputConfig ---------------------------
(***************************************************************************)
(* The flow output configuration of crates/collector/src/flow/config.rs:   *)
(* from a FlowOutputConfig (an ordered map from output field names to      *)
(* FieldConfig) the collector derives an Avro record schema once           *)
(* (get_avro_schema), and for every flow an Avro record value              *)
(* (get_avro_value).  A FieldConfig selects IE fields of the flow record   *)
(* (Single, Coalesce, Mpls or Layer2SegmentId), transforms them (Identity, *)
(* the String family, MplsIndex, StringArray) and falls back to a default. *)
(*                                                                         *)
(* Data is abstracted to what the schema and the value disagree on: an IE  *)
(* field is its IE and its octets; a value is its Avro kind, whether it is *)
(* wrapped in a union, and its data.  Field names are model values; which  *)
(* of them contain or start with "custom_primitives." is given by the two  *)
(* sets below.  The conversions of ie::Field into RawValue, String and     *)
(* Vec<String> live in the generated flow-pkt code, outside this tree:     *)
(* Identity yields a value of the kind ie_avro_type gives the IE, and the  *)
(* sets StringConvertible and StringArrayConvertible say which IEs convert *)
(* without a FieldConversionError.                                         *)
(***************************************************************************)
EXTENDS Naturals, Sequences, SequencesExt, Bitwise

CONSTANTS
    IEs,                     \* the information elements
    IeDataType,              \* IE -> its IANA abstract data type
    MplsIEs,                 \* the mplsLabelStackSection IEs
    StringConvertible,       \* IEs whose fields convert into a String
    StringArrayConvertible,  \* IEs whose fields convert into a Vec<String>
    CustomEmbedded,          \* names that contain "custom_primitives."
    CustomPrefixed,          \* names that start with "custom_primitives."
    Configs,                 \* the FlowOutputConfigs, as sequences of [name, fc]
    Flows                    \* the flow records, as IE -> sequence of fields

ASSUME CustomPrefixed \subseteq CustomEmbedded

VARIABLES
    config,  \* the FlowOutputConfig the publisher was started with
    schema,  \* get_avro_schema of it
    flow,    \* the last flow record converted
    result   \* get_avro_value of it

vars == <<config, schema, flow, result>>

NoValue == << >>
Value(x) == << x >>

\* ie_avro_type: the primitive Avro type of an IE's abstract data type.
IeAvroType(ie) ==
    LET t == IeDataType[ie] IN
    CASE t \in {"unsigned8", "unsigned16", "signed8", "signed16", "signed32"} -> "Int"
      [] t \in {"unsigned32", "unsigned64", "signed64"} -> "Long"
      [] t \in {"octetArray", "basicList", "subTemplateList",
                "subTemplateMultiList", "unsigned256"} -> "Bytes"
      [] t \in {"macAddress", "string", "ipv4Address", "ipv6Address"} -> "String"
      [] t = "float32" -> "Float"
      [] t = "float64" -> "Double"
      [] t = "boolean" -> "Boolean"
      [] t \in {"dateTimeSeconds", "dateTimeMilliseconds"} -> "TimestampMillis"
      [] t = "dateTimeMicroseconds" -> "TimestampMicros"
      [] t = "dateTimeNanoseconds" -> "TimestampNanos"

(***************************************************************************)
(* Field selection.  A selection is NoValue (None) or Value(fields).       *)
(***************************************************************************)

\* SingleFieldSelect::apply: fields().get(ie).get(index).
SingleApply(s, f) ==
    IF s.index < Len(f[s.ie]) THEN Value(<< f[s.ie][s.index + 1] >>) ELSE NoValue

\* CoalesceFieldSelect::apply: the first of the IEs that selects a field.
CoalesceApply(s, f) ==
    LET present == {i \in DOMAIN s.ies : SingleApply(s.ies[i], f) # NoValue}
    IN IF present = {} THEN NoValue
       ELSE SingleApply(s.ies[CHOOSE i \in present : \A j \in present : i <= j], f)

\* MultiSelect::apply: every field the IEs select, in order; never None.
MultiApply(s, f) ==
    Value(FlattenSeq([i \in DOMAIN s.ies |->
                        IF SingleApply(s.ies[i], f) = NoValue THEN << >>
                        ELSE SingleApply(s.ies[i], f)[1]]))

\* Layer2SegmentId: u8::from and get_mask.  An identifier is its 8 octets,
\* most significant first.
EncapCode(e) == CASE e.variant = "VxLAN" -> 1
                  [] e.variant = "NVGRE" -> 2
                  [] e.variant = "Unassigned" -> e.value
\* Fault variant of get_mask: the 24-bit mask written as 0x0000_FFFF_FFFF.
GetMaskWide(e) ==
    IF e.variant \in {"VxLAN", "NVGRE"} THEN << 0, 0, 0, 0, 255, 255, 255, 255 >>
    ELSE << 0, 0, 0, 255, 255, 255, 255, 255 >>
GetMask(e) ==
    IF e.variant \in {"VxLAN", "NVGRE"} THEN << 0, 0, 0, 0, 0, 255, 255, 255 >>
    ELSE << 0, 0, 0, 255, 255, 255, 255, 255 >>

\* Layer2SegmentIdFieldSelect::apply: the field must be a layer2SegmentId
\* whose top octet ((id >> 56) as u8) is the encapsulation's code; the id is
\* then masked.
Layer2Apply(s, f) ==
    LET sel == SingleApply(s, f)
        x == sel[1][1]
    IN IF sel = NoValue \/ x.ie # "layer2SegmentId" \/ x.octets[1] # EncapCode(s.encap)
       THEN NoValue
       ELSE Value(<< [ie |-> x.ie,
                      octets |-> [i \in 1..8 |-> x.octets[i] & GetMask(s.encap)[i]]] >>)

SelectApply(s, f) ==
    CASE s.tag = "Single" -> SingleApply(s, f)
      [] s.tag = "Coalesce" -> CoalesceApply(s, f)
      [] s.tag = "Mpls" -> MultiApply(s, f)
      [] s.tag = "Layer2SegmentId" -> Layer2Apply(s, f)

\* Every selection function answers is_nullable() with true.
SelectIsNullable(s) == TRUE

\* FieldSelect::avro_type.  Coalesce compares the IEs, not their types.
SelectAvroType(s) ==
    CASE s.tag = "Single" -> IeAvroType(s.ie)
      [] s.tag = "Coalesce" ->
            IF Cardinality({s.ies[i].ie : i \in DOMAIN s.ies}) = 1
            THEN IeAvroType(s.ies[1].ie) ELSE "String"
      [] s.tag = "Mpls" -> "Array"
      [] s.tag = "Layer2SegmentId" -> "Long"

(***************************************************************************)
(* Transformation.  The outcome is a record: kind "Ok", "Err" or "Panic",  *)
(* the value (NoValue or Value(raw)) and the error.  A raw value is its    *)
(* Avro kind and its data.                                                 *)
(***************************************************************************)
Done(v) == [kind |-> "Ok", val |-> v, error |-> "None"]
Failed(e) == [kind |-> "Err", val |-> NoValue, error |-> e]
Raw(kind, data) == [kind |-> kind, data |-> data]

\* FieldTransformFunction::avro_type.
TransformAvroType(t, identity_type) ==
    CASE t = "Identity" -> identity_type
      [] t \in {"String", "TrimmedString", "LowercaseString", "Rename"} -> "String"
      [] t \in {"MplsIndex", "StringArray"} -> "Array"

\* format_mpls unwraps the first three octets of the label stack entry.
RECURSIVE MplsIndexLabels(_, _)
MplsIndexLabels(fields, acc) ==
    IF fields = << >> THEN Done(Value(Raw("Array", acc)))
    ELSE LET x == Head(fields) IN
         CASE x.ie \notin MplsIEs -> Failed("UnexpectedField")
           [] Len(x.octets) < 3 -> [kind |-> "Panic", val |-> NoValue, error |-> "unwrap"]
           [] OTHER -> MplsIndexLabels(Tail(fields), Append(acc, <<x.ie, SubSeq(x.octets, 1, 3)>>))

\* FieldTransformFunction::apply.  All but MplsIndex work on the last
\* field selected (field.pop()).
TransformApply(t, sel) ==
    LET fields == sel[1]
        last == fields[Len(fields)]
    IN CASE sel = NoValue -> Done(NoValue)
         [] t = "MplsIndex" -> MplsIndexLabels(fields, << >>)
         [] fields = << >> -> Done(NoValue)
         [] t = "Identity" -> Done(Value(Raw(IeAvroType(last.ie), last)))
         [] t \in {"String", "TrimmedString", "LowercaseString", "Rename"} ->
              IF last.ie \in StringConvertible THEN Done(Value(Raw("String", last)))
              ELSE Failed("FieldConversionError")
         [] t = "StringArray" ->
              IF last.ie \in StringArrayConvertible THEN Done(Value(Raw("Array", last)))
              ELSE Failed("FieldConversionError")

(***************************************************************************)
(* FieldConfig: select, default (NoValue or Value(raw)) and transform.     *)
(***************************************************************************)
IsNullable(fc) == SelectIsNullable(fc.select) /\ fc.default = NoValue

AvroType(fc) == TransformAvroType(fc.transform, SelectAvroType(fc.select))

\* Fault variant of FieldConfig::avro_value: the default never used.
AvroValueNoDefault(fc, f) ==
    TransformApply(fc.transform, SelectApply(fc.select, f))

\* FieldConfig::avro_value: the transformed selection, or the default.
AvroValue(fc, f) ==
    LET t == TransformApply(fc.transform, SelectApply(fc.select, f)) IN
    IF t.kind # "Ok" THEN t
    ELSE Done(IF t.val # NoValue THEN t.val ELSE fc.default)

(***************************************************************************)
(* The schema.  A schema field is its name, its type ("Missing" when no    *)
(* "type" key is written), whether it is a union with null, and the array  *)
(* item type.                                                              *)
(***************************************************************************)
SchemaField(name, type, nullable, items) ==
    [name |-> name, type |-> type, nullable |-> nullable, items |-> items]

\* FieldConfig::get_record_schema.  An array type is only written when an
\* item type is given.
GetRecordSchema(fc, name, inner_val) ==
    IF AvroType(fc) = "Array" /\ inner_val = NoValue
    THEN SchemaField(name, "Missing", IsNullable(fc), "None")
    ELSE SchemaField(name, AvroType(fc), IsNullable(fc),
                     IF AvroType(fc) = "Array" THEN inner_val[1] ELSE "None")

\* FlowOutputConfig::get_fields: a name containing "custom_primitives." is
\* left out and makes a map field "custom_primitives" be added at the end.
GetFields(cfg) ==
    LET regular == SelectSeq(cfg, LAMBDA e : e.name \notin CustomEmbedded)
        inner(fc) == IF fc.transform \in {"StringArray", "MplsIndex"}
                     THEN Value("String") ELSE NoValue
        custom == IF \E i \in DOMAIN cfg : cfg[i].name \in CustomEmbedded
                  THEN << SchemaField("custom_primitives", "Map", FALSE, "String") >>
                  ELSE << >>
    IN [i \in DOMAIN regular |->
          GetRecordSchema(regular[i].fc, regular[i].name, inner(regular[i].fc))]
       \o custom

\* get_avro_schema: the record's fixed fields, then the configured ones.
FixedSchemaFields ==
    << SchemaField("label", "Map", FALSE, "String"),
       SchemaField("stamp_inserted", "String", TRUE, "None"),
       SchemaField("stamp_updated", "String", TRUE, "None"),
       SchemaField("peer_ip_src", "String", FALSE, "None"),
       SchemaField("writer_id", "String", FALSE, "None") >>

GetAvroSchema(cfg) == FixedSchemaFields \o GetFields(cfg)


(***************************************************************************)
(* The record value.  A field value is its Avro kind, whether it is        *)
(* wrapped in Union(1, _), and its data; Null is the null branch.          *)
(***************************************************************************)
AvroField(name, val) == [name |-> name, val |-> val]
Plain(raw) == [kind |-> raw.kind, union |-> FALSE, data |-> raw.data]
Wrapped(raw) == [kind |-> raw.kind, union |-> TRUE, data |-> raw.data]
Null == [kind |-> "Null", union |-> FALSE, data |-> "null"]

\* The label, the window stamps, peer_ip_src and writer_id of the flow.
FixedValueFields ==
    << AvroField("label", Plain(Raw("Map", "labels"))),
       AvroField("stamp_inserted", Wrapped(Raw("String", "window_start"))),
       AvroField("stamp_updated", Wrapped(Raw("String", "window_end"))),
       AvroField("peer_ip_src", Plain(Raw("String", "peer_src"))),
       AvroField("writer_id", Plain(Raw("String", "writer_id"))) >>

Converted(fields, custom) ==
    [kind |-> "Ok", error |-> "None",
     fields |-> fields \o << AvroField("custom_primitives", Plain(Raw("Map", custom))) >>]
Aborted(kind, error) == [kind |-> kind, error |-> error, fields |-> << >>]

\* Fault variant of the loop of get_avro_value: union wrapping decided by
\* the select's is_nullable alone.
RECURSIVE ConvertFieldsSelectNullable(_, _, _, _, _)
ConvertFieldsSelectNullable(cfg, f, i, fields, custom) ==
    IF i > Len(cfg) THEN Converted(fields, custom)
    ELSE LET e == cfg[i]
             v == AvroValue(e.fc, f)
         IN CASE v.kind # "Ok" -> Aborted(v.kind, v.error)
              [] e.name \in CustomPrefixed ->
                   ConvertFieldsSelectNullable(cfg, f, i + 1, fields,
                       IF v.val = NoValue THEN custom ELSE Append(custom, <<e.name, v.val[1]>>))
              [] SelectIsNullable(e.fc.select) ->
                   ConvertFieldsSelectNullable(cfg, f, i + 1,
                       Append(fields, AvroField(e.name,
                           IF v.val = NoValue THEN Null ELSE Wrapped(v.val[1]))), custom)
              [] v.val # NoValue ->
                   ConvertFieldsSelectNullable(cfg, f, i + 1,
                       Append(fields, AvroField(e.name, Plain(v.val[1]))), custom)
              [] OTHER -> Aborted("Err", "FieldIsNull")

\* The loop of get_avro_value over the configured fields, from the i-th:
\* an error of avro_value is returned at once (?); a name starting with
\* "custom_primitives." goes into the custom map when it has a value; a
\* nullable field is Union(1, v) or Null; a non-nullable one without a
\* value is FieldIsNull.  The custom map is pushed at the end, always.
RECURSIVE ConvertFields(_, _, _, _, _)
ConvertFields(cfg, f, i, fields, custom) ==
    IF i > Len(cfg) THEN Converted(fields, custom)
    ELSE LET e == cfg[i]
             v == AvroValue(e.fc, f)
         IN CASE v.kind # "Ok" -> Aborted(v.kind, v.error)
              [] e.name \in CustomPrefixed ->
                   ConvertFields(cfg, f, i + 1, fields,
                       IF v.val = NoValue THEN custom ELSE Append(custom, <<e.name, v.val[1]>>))
              [] IsNullable(e.fc) ->
                   ConvertFields(cfg, f, i + 1,
                       Append(fields, AvroField(e.name,
                           IF v.val = NoValue THEN Null ELSE Wrapped(v.val[1]))), custom)
              [] v.val # NoValue ->
                   ConvertFields(cfg, f, i + 1,
                       Append(fields, AvroField(e.name, Plain(v.val[1]))), custom)
              [] OTHER -> Aborted("Err", "FieldIsNull")

GetAvroValue(cfg, f) == ConvertFields(cfg, f, 1, FixedValueFields, << >>)

(***************************************************************************)
(* The publisher: the schema is derived once from the configuration, then *)
(* every flow handed over is converted.                                    *)
(***************************************************************************)
Init == /\ config \in Configs
        /\ schema = GetAvroSchema(config)
        /\ flow = "none"
        /\ result = Aborted("Idle", "None")

Convert(f) == /\ flow' = f
              /\ result' = GetAvroValue(config, f)
              /\ UNCHANGED <<config, schema>>

Next == \E f \in Flows : Convert(f)

Spec == Init /\ [][Next]_vars


(***************************************************************************)
(* Properties.  They relate the schema get_avro_schema wrote once to the   *)
(* record get_avro_value builds for each flow.                            *)
(***************************************************************************)
\* The schema field a record field is checked against, by name.
SchemaFieldsNamed(n) == {schema[j] : j \in {j \in DOMAIN schema : schema[j].name = n}}

\* get_avro_value's FieldIsNull branch is never taken: a field that is not
\* nullable has a default, so avro_value never answers None for it and no
\* flow is dropped for a missing value.
NeverFieldIsNull == result.error # "FieldIsNull"

\* Every record field is wrapped in a union (or is Null) exactly when the
\* schema get_record_schema wrote for that name is a union with null:
\* get_avro_value and get_record_schema decide nullability alike.
NullabilityAgrees ==
    result.kind = "Ok" =>
        \A i \in DOMAIN result.fields : \A sf \in SchemaFieldsNamed(result.fields[i].name) :
            (result.fields[i].val.union \/ result.fields[i].val.kind = "Null") = sf.nullable

\* Octets of the layer2SegmentId below its encapsulation octet that the
\* RFCs give the identifier: the 24-bit VNI (RFC 7348) and TNI (RFC 7637).
\* No width is named for an unassigned encapsulation (the empty set).
SegmentIdOctets(e) == IF e.variant \in {"VxLAN", "NVGRE"} THEN {3} ELSE {}

\* A Layer2SegmentId field of the record carries the flow's identifier only
\* when the identifier's top octet names the configured encapsulation;
\* then it never carries that octet, and for VxLAN and NVGRE it is exactly
\* the 24-bit identifier.  Otherwise it is the default, or null.
Layer2RecordHoldsSegmentId ==
    result.kind = "Ok" =>
        \A i \in DOMAIN config : \A j \in DOMAIN result.fields :
            LET fc == config[i].fc
                s == fc.select
                v == result.fields[j].val
                ids == flow[s.ie]
                matched == s.index < Len(ids) /\ ids[s.index + 1].octets[1] = EncapCode(s.encap)
            IN (s.tag = "Layer2SegmentId" /\ fc.transform = "Identity"
                   /\ result.fields[j].name = config[i].name) =>
                 IF matched
                 THEN /\ v.data.octets[1] = 0
                      /\ \A w \in SegmentIdOctets(s.encap) :
                            v.data.octets = [k \in 1..8 |->
                                IF k > 8 - w THEN ids[s.index + 1].octets[k] ELSE 0]
                 ELSE v.kind = "Null" \/ (fc.default # NoValue /\ v.data = fc.default[1].data)

\* Every value of the record has the type get_record_schema declared for
\* its field (or is Null where the schema admits null).  The note on
\* CoalesceFieldSelect says values of differing types are converted to a
\* string, as its avro_type declares.
RecordValuesHaveSchemaTypes ==
    result.kind = "Ok" =>
        \A i \in DOMAIN result.fields : \A sf \in SchemaFieldsNamed(result.fields[i].name) :
            result.fields[i].val.kind \in {sf.type} \cup (IF sf.nullable THEN {"Null"} ELSE {})

\* The record get_avro_value builds conforms to the schema get_avro_schema
\* wrote for the same configuration, as an Avro writer requires: every
\* schema field has a "type", the record has exactly the schema's fields
\* in order, and each value has its field's type.
RecordConformsToSchema ==
    /\ \A j \in DOMAIN schema : schema[j].type # "Missing"
    /\ result.kind = "Ok" =>
          [i \in DOMAIN result.fields |-> result.fields[i].name]
              = [j \in DOMAIN schema |-> schema[j].name]
    /\ RecordValuesHaveSchemaTypes

\* Converting a flow never panics: malformed input fields are reported as
\* a FunctionError.
NeverPanics == result.kind # "Panic"

================================================================================
