# TLA+ models of NetGauze

This directory holds TLA+ models of the NetGauze sources under `src/`, the
TLC configurations that check them, and `PROJECT.json`. `PROJECT.json` records:

- the components;
- the runs and their expected outcomes;
- the mutants that show each passing property can fail;
- the map from every model definition to the source lines it translates;
- the findings;
- the hazards.

## The system and its parts

`spec.md` describes three subsystems:

1. a codec kernel, made of pure decoders and encoders for BGP, BMP and NetFlow/IPFIX;
2. a NetFlow/IPFIX template cache;
3. the BGP peer state machine with its supervisor and listener. Its code is not in this tree.

The source tree under `src/` contains only part of this:

| Part | Source | Kind of code |
|---|---|---|
| Path attribute values and their flag rules | `crates/bgp-pkt/src/path_attribute/path_attribute.rs` | codec, pure |
| Path attribute wire decoder | `netgauze-bgp-pkt/src/serde/deserializer/path_attribute.rs` | codec, pure |
| BGP message serializer | `crates/bgp-pkt/src/wire/serializer/mod.rs` | codec, writes to a byte sink |
| BMP v4 route-monitoring builders | `crates/bmp-pkt/src/v4.rs` | codec, validating constructors |
| Collector flow output configuration | `crates/collector/src/flow/config.rs` | collaborator: flow records to Avro |
| Example BGP listener | `crates/bgp-speaker/examples/log_listener.rs` | driver of supervisor and listener (not modelled) |
| NetFlow tests, fuzz target, parse test helpers | `flow-pkt/.../tests`, `fuzz/`, `parse-utils` | tests only |

The parts interact as follows:

- The path attribute decoder builds the attribute values of `path_attribute.rs`. `PathAttribute::from` is the validating constructor for the same values.
- The serializer writes whole BGP messages onto a TCP byte stream. A peer's frame reader, described in spec §4.1 and §4.3, reads them back.
- The collector turns decoded flow records into Avro records. It uses a schema derived once from its configuration.

## Modules

### `BgpPathAttribute`: the flag matrix and `PathAttribute::from`

Each attribute kind answers `can_be_optional`, `can_be_transitive` and `can_be_partial`. The answer is `Some(true)`, `Some(false)` or `None`. `Option` is modelled as a sequence of length at most one.

- **Flag matrix.** `FlagMatrix` gathers the trait impls by group, and `CanBeOptional/Transitive/Partial` give the enum's dispatch. The model keeps the source's `UnknownAttribute` arm of `can_be_optional`, which calls `can_be_partial`.
- **`From`.** This is `PathAttribute::from`: optional is checked first, then transitive, then partial, and the first disagreement is returned as the error.
- **Reference definition.** `RfcClass`/`RfcAllows` state the flag rules of RFC 4271 §4.3 and §5 for each attribute class: well-known, optional transitive and optional non-transitive.
- **Harness.** `MCBgpPathAttribute` enumerates every kind with every one of the 16 flag combinations and records the result.

### `BgpPathAttributeWire`: `PathAttribute::from_wire`

The model follows the decoder octet for octet:

- **Header.** `BeU8`/`BeU16`/`BeU32` mirror nom's complete parsers: end of input is an error. The flags octet is tested with the source's masks. The length field is one or two octets, depending on the extended-length bit.
- **Value decoders.** `OriginFromWire`, `AsPathFromWire` (which uses `length_data` and `ParseTillEmpty` over `AsPathSegmentFromWire`), `As4PathFromWire` and `NextHopFromWire` follow the code. This includes each `check_length` and each error variant.
- **Other type codes.** Every type code without an arm falls into the source's `todo!()`, modelled as the outcome `Panic`. The inputs use only the four codes with arms: spec §9 already lists the `todo!()` arms as an open question.
- **Flags.** The optional and transitive bits are computed and never checked; only partial (AS4_PATH) and extended length are kept.

The state is one input buffer, decoded one attribute at a time:

- `AttributeDecoded` appends the attribute and the octets it consumed.
- `DecodeFailed` records the error kind and the located error (`error`).

**Spans and located errors.** The input is a `Span`: a fragment with the absolute offset of its first octet, as nom's `LocatedSpan` carries it. `Take`/`Skip` keep the offset through slicing, so `length_data` hands the AS_PATH segment parser a sub-span whose offsets are still absolute. An error is a record of its outer kind (`OriginError`, `AsPathError`, `NextHopError` or `NomError`), its inner kind and the offset `at` where it was detected:

- `Located` is the `Located*ParsingError::new` of each value's `FromExternalError` impl: the inner error at the span it was raised at;
- `NomFail` is `from_error_kind`: a nom error at the input the combinator failed on; `LengthCount` fails at the first count item that does not fit;
- `IntoAttributeError` is `into_located_attribute_parsing_error`: the inner error keeps its span and gets its outer kind;
- `Needed` is nom's `Incomplete`, which carries no span (offset -1).
- The model stops when the buffer is empty or after an error. That is why the cfgs say `CHECK_DEADLOCK FALSE`.

The encoder used for the round trip (`Encode`, `FlagsByte`, `ValueBytes`) is not in this source tree. It is modelled from spec §4.1 and P2 and is marked spec_modelled in the map. The small conversions it shares with the code (`OriginCode`, `SegmentTypeCode`, `LengthBytes`) are translated from `path_attribute.rs`.

`MCBgpPathAttributeWire` builds its inputs from attribute chunks:

- flags octets: well-known, optional, with partial, extended length, and optional transitive;
- type codes: 1, 2, 3 and 17;
- short bodies;
- declared lengths that are one too short, exact, or one too long;
- truncated headers;
- sequences of two attributes.

### `BgpMpFamily`: the address families of MP_REACH_NLRI and MP_UNREACH_NLRI

`MpReach` and `MpUnreach` each answer `address_type()`, `afi()` and `safi()` through three separate matches per enum. A value is abstracted to its variant and, for `Unknown`, the AFI/SAFI pair it holds (`UnknownPairs`); next hops and NLRI are left out, as none of the six functions reads them. `AddressTypePair` is the IANA registry (`AddressType::address_family` and `subsequent_address_family` are in the IANA crate, outside this tree). Each of the six matches is its own arm table (`MpReachAddressTypeArms`, `MpReachAfiArms`, ... `MpUnreachSafiArms`), as in the source, where the arms are written out six times. `TakeReach`/`TakeUnreach` let a consumer take any value; the module is composed into `MCBgpPathAttribute`.

### `BgpMessageStream`: the BGP message serializer and a frame reader

The model has one writer and one reader on a byte stream:

- **Writer.** `WriteMessage` and `WriteOverflow` are the two outcomes of `BgpMessage::write`. `Write` keeps the source's control exactly:
  - the limit check covers Open and KeepAlive only;
  - the length field is `len as u16`, modelled as `% 65536`;
  - the octets really written are 19 plus the body.
- **Frames.** A message is abstracted to its type and body length. A frame is abstracted to its length field, its type and its real size.
- **Reader.** `ReadFrame` is the reader of spec §4.1 and §4.3, and is spec_modelled. Standing at a frame boundary, it accepts a length field within the bounds for the frame's type once the whole frame has arrived. When the reader stands inside a frame, its marker check fails.
- **Reader errors.** The errors are not actions. `FramesReadAsWritten` states that the states in which the reader would fail are unreachable.

### `FlowOutputConfig`: the collector's flow to Avro conversion

**Configuration.** A configuration is a sequence of `[name, fc]` entries. Each field config has a select, a default and a transform. The selects are Single, Coalesce, Mpls and Layer2SegmentId. The transforms are Identity, the String family, MplsIndex and StringArray.

**Flows.** A flow maps each IE to its fields; a field is its IE and its octets. The conversions from `ie::Field` are generated code outside this tree. They are abstracted as follows:

- Identity yields the kind `ie_avro_type` gives the IE;
- the string conversions succeed exactly for the IEs in `StringConvertible`.

**State machine.** The configuration and its schema (`GetAvroSchema`) are fixed at `Init`. Each `Convert(f)` step is one call of `get_avro_value` on a flow. `ConvertFields` is the loop of `get_avro_value`, including:

- the early return on an error;
- custom-primitive routing;
- union wrapping;
- `FieldIsNull`;
- the unconditional custom map.

Every step is enabled in every state, so deadlock checking stays on.

`MCFlowOutputConfig` fixes the IEs and the flows:

- six IEs: octets, two IPv4 addresses, two MPLS label stack sections and layer2SegmentId;
- 144 flows, each IE carrying no field or one field of a few shapes, including a two-octet MPLS entry and both a VxLAN and an unassigned layer-2 segment id.

The configurations include a `Layer2SegmentId` select, so the encapsulation check, the index bound and `get_mask` all occur.

### `BmpV4RouteMonitoring`: the BMP v4 route-monitoring builders (`v4.rs`)

- **Values.** A TLV is an index and a value. The value is a tagged record: `BgpUpdatePdu` (the wrapped message's type), `VrfTableName` (the name's length in octets), `GroupTlv`, `StatelessParsing`, `PathMarking`, or `Unknown` with a code.
- **`TlvBuild`** is `BmpV4RouteMonitoringTlv::build`: the G-bit test through `leading_ones` (the RECURSIVE `LeadingOnes`), the 255-octet VRF limit, and the Update-only PDU, in the source's order.
- **`MessageBuild`** wraps the BGP message in a TLV of index 0 through `TlvBuild` and keeps the further TLVs as given. `UpdateMessage` returns the `unreachable!` outcome when the first TLV is not a `BgpUpdatePdu`.
- **Harness.** The client calls `build` on any index and value, builds messages from TLVs that `build` accepted, deserializes a message with serde (which fills the private fields without `build`), and calls `update_message` on the message it holds.
- **Reference.** `SpecAllowsTlv` states spec §4.1's rules with a bitwise `&` on the G bit.

## Runs

| Run | Result | What it shows |
|---|---|---|
| `flags_sound` | pass, ~59.6k states | `From` accepts only what the RFCs allow, for all 19 kinds × 16 flag combinations. `MpFamiliesAgree`: the six functions each have their own match; each MP_REACH/MP_UNREACH value's `afi()`/`safi()` is the pair of its `address_type()`, and a withdrawal carries an announcement's pair exactly when both name the same type. |
| `flags_complete` | violation | `From` rejects Only-To-Customer with partial=1, which RFC 9234/4271 allow (`path_attribute.rs:1390`). |
| `decode_wire` | pass, ~168.5k states | Every decoded attribute consumed exactly header + declared length; it re-encodes to its input octets; the decoded value has its type. `ErrorLocatesOffendingOctet`: a failed decode reports the offset of the offending octet inside the failing attribute (the length field for a length error, the value octet for an undefined origin, 3 or 255, or segment type), absolute even inside the AS_PATH sub-span. `IncompleteOnlyWhenValueOverruns`: the one error without an offset, `Incomplete`, arises exactly when an AS_PATH/AS4_PATH declares more value octets than are left. |
| `decode_flags_unchecked` | violation | `DecodeAcceptsOnlyMatrixFlags`: the decoder returns an AS4_PATH whose flags octet 0x40 marks it well-known. Spec §4.1 says a known attribute whose flags violate its matrix is rejected (`path_attribute.rs` deserializer, line 124). |
| `msg_stream` | pass, 15,750 states | With bodies up to and across the 4096 limit (and 65516, the largest that fits 16 bits), frames are read in order, and every written message is eventually read. |
| `msg_write_overflow` | violation | An Update with a 65517-octet body gets length field 0, and the reader loses synchronisation. |
| `flow_output` | pass, 435 states | No record is dropped with `FieldIsNull`, and union wrapping agrees with schema nullability. `Layer2RecordHoldsSegmentId`: a `Layer2SegmentId` field holds the 24-bit VNI/VSID of a matching VxLAN/NVGRE id, and otherwise null or the default. |
| `flow_schema` | violation | The record does not conform to its schema. It always has a `custom_primitives` field (`config.rs:170`), while the schema has one only when a configured name contains `custom_primitives.`. |
| `flow_coalesce_type` | violation | `RecordValuesHaveSchemaTypes`: a Coalesce over two different IEs with the Identity transform is declared `String` (`config.rs:389`), as the doc comment at line 377 promises, but the record carries the selected field unconverted (a `Long`). |
| `flow_mpls_panic` | violation | A 2-octet MPLS label stack section makes `format_mpls` panic. |
| `bmp_build` | pass, 4,451 states | `TlvBuild` accepts exactly what spec §4.1 allows: index 32767 vs 32768 for a group, VRF name 255 vs 256 octets. |
| `bmp_serde_panic` | violation | A message deserialized with serde can hold a `VrfTableName` in the update slot; `update_message` then reaches `unreachable!` (`v4.rs:300`). |

Each property of a passing run has a mutant in `PROJECT.json`. A mutant is a plausible bug in a mapped definition that makes TLC report the property violated under the run's cfg:

- a dropped partial check;
- the header left out of `len`, or counted twice;
- a missing length check;
- segment type not validated;
- the declared width used for NEXT_HOP;
- the default fallback dropped;
- wrapping decided by the select alone;
- `>=` for the VRF limit;
- the `Ipv6Multicast` arm of `MpUnreach::safi` copied from `Ipv6Unicast`;
- the AS_PATH segments parsed from a fresh slice instead of the located sub-span;
- a VxLAN/NVGRE mask wider than 24 bits;
- `length_data` taking a value that ends exactly at the end of the input as incomplete.

## Bounds and why they are enough

- **Flag combinations.** `flags_sound` is exhaustive: every kind with every flag combination.
- **Wire decoder.** Each attribute's behaviour depends on the following, and every value of each occurs:
  - which of the masks are set;
  - its type code;
  - whether the declared length is short, exact or long;
  - whether the buffer ends early.

  Two-attribute sequences cover the hand-over from one attribute to the next.
- **MP families.** Each of the six functions has its own arm table, as the source has its own match, so a copied arm is expressible. Every named variant occurs in both slots; `UnknownPairs` holds a pair of no named variant and one equal to Ipv4Unicast's, so an Unknown that shadows a known family occurs.
- **Wire errors.** The inputs put an undefined origin (3 and 255, alone and after a valid ORIGIN), an undefined segment type, a wrong NEXT_HOP length and a truncated segment at several offsets, including inside the second attribute.
- **Message stream.** The body lengths are 0, 4077, 4078 and 65516. With the 19-octet header they put Open and KeepAlive exactly at and one past 4096, and put the others at the top of the u16 range. Three messages are enough to put a frame behind a refused one and behind a large one.
- **Flows.** One field per IE is enough: selects read index 0, and Coalesce and Mpls combine two IEs. `flow_coalesce_type` uses one configuration, a Coalesce over `octetDeltaCount` and `sourceIPv4Address`.
- **BMP v4.** The indices 0, 1, 32767, 32768 and 65535 sit on both sides of the G bit. The VRF lengths 0, 255 and 256 sit on both sides of the limit. One further TLV per message is enough, since `MessageBuild` treats each one alike.

## Fairness

`msg_stream` assumes weak fairness of `ReadFrame` only. The reader task polls the connection for as long as it is open. No fairness is assumed for the writer, which may stop at any time.

The other runs check state invariants of functions called once per step, and assume no fairness.

## Divergences kept as hazards

The project keeps one run per question. These divergences, found while modelling, are recorded as hazards in `PROJECT.json` rather than as runs:

- The wire decoder's `todo!()` arm (`path_attribute.rs` deserializer, line 216) panics on MULTI_EXIT_DISC and every code without an arm; spec §9 lists it as an open question.
- `WritablePdu::len` for `IpAddr` counts the address octets but `write` also emits a length octet before them (`serializer/mod.rs:129`), against spec P3. The encoders that call it are not in this tree.
- An `MpReach`/`MpUnreach` `Unknown` value may hold the AFI/SAFI pair of a known address type (`path_attribute.rs:1243`).
- `BmpV4RouteMonitoringMessage::build` accepts a further `BgpUpdatePdu` TLV (`v4.rs:281`). No source says a message carries only one.
- `get_record_schema` writes no type for an array field without an item type (`config.rs:204`). The model translates it, but no run exercises it: such a configuration would also show the `custom_primitives` divergence first.
- `BgpMessage::write` leaves out the `?` errors of the writer and of the body writers after the header is written (lines 95–116); the callers that would go on writing after such an error are not in this tree.

## Not modelled, and the plan

The project covers the codec and collector code under `src/` and the BMP v4 builders.

Not yet modelled:

- **BGP peer FSM, supervisor and listener.** Their code is not in this tree. Only the example `log_listener.rs` is, and its `main` is a straight-line sequence: `add_peer`, `start`, `reg_peer`, then `run`. A model of the session would check an FSM written from the spec, not this code, so none is kept. For the same reason the project has no refinement: no component in the tree has an abstract promise apart from its own functions.
- **NetFlow v9 / IPFIX codec and template cache.** Their code is not in this tree: `src/` holds only their tests and a fuzz target that calls `NetFlowV9Packet::write`. A template cache written from spec §4.2 alone would check the spec's sentences against a model built from them, so it is left out.
- The Unassigned layer-2 mask (40 bits) is not judged: no source says what it should be.
- `FieldConfig::json_value`, the same fold with JSON output.
- The Avro string formatting of the schema.
- Logging.
- Tests and the fuzz target.
