------------------------ MODULE BmpV4RouteMonitoring -------------------------
(***************************************************************************)
(* BMP v4 Route Monitoring values, crates/bmp-pkt/src/v4.rs.  A TLV is an  *)
(* index and a value; BmpV4RouteMonitoringTlv::build validates the value   *)
(* against the index (G bit of a GroupTlv, VRF name length, BGP message    *)
(* type of a BgpUpdatePdu).  BmpV4RouteMonitoringMessage::build wraps the  *)
(* BGP message in the TLV of index 0 and keeps the further TLVs as given.  *)
(* update_message relies on build having run: it is unreachable! for any  *)
(* other TLV in that slot.                                                 *)
(*                                                                         *)
(* Both structs also derive serde Deserialize (and arbitrary under the     *)
(* fuzz feature), which fill the private fields without calling build.     *)
(* The model offers the client both ways of getting a message.             *)
(*                                                                         *)
(* A BGP message is its type; a VRF name its length in octets (str.len()); *)
(* group lists, capabilities, path markings and the peer header are left  *)
(* out: build never looks at them.                                         *)
(***************************************************************************)
EXTENDS Naturals, Sequences, SequencesExt, Bitwise

CONSTANTS
    Indices,      \* TLV index values offered to build
    VrfLengths,   \* octet lengths of VRF table names
    BgpTypes,     \* BgpMessageType of the wrapped BGP messages
    Codes,        \* codes of Unknown TLVs
    MaxTlvs       \* how many further TLVs a message is built with

VARIABLES
    msg,   \* the route monitoring message the client holds, if any
    last   \* the outcome of the client's last call

vars == <<msg, last>>

\* BmpV4RouteMonitoringTlvValue.
TlvValues ==
    [tag : {"BgpUpdatePdu"}, bgp : BgpTypes]
    \cup [tag : {"VrfTableName"}, len : VrfLengths]
    \cup [tag : {"GroupTlv", "StatelessParsing", "PathMarking"}]
    \cup [tag : {"Unknown"}, code : Codes]

BMPV4_TLV_GROUP_GBIT == 32768

\* u16::leading_ones: the number of one bits above the first zero bit.
RECURSIVE LeadingOnes(_, _)
LeadingOnes(x, width) ==
    IF width = 0 \/ x < 2^(width - 1) THEN 0
    ELSE 1 + LeadingOnes(x - 2^(width - 1), width - 1)

\* BmpV4RouteMonitoringTlvError, and the build results.
Err(error, arg) == [ok |-> FALSE, error |-> error, arg |-> arg, tlv |-> << >>]
Built(index, value) ==
    [ok |-> TRUE, error |-> "None", arg |-> 0, tlv |-> [index |-> index, value |-> value]]

\* Fault variant of BmpV4RouteMonitoringTlv::build: the VRF limit with >=.
TlvBuildVrfAtLimit(index, value) ==
    CASE value.tag = "GroupTlv" /\ LeadingOnes(index, 16) = 0 ->
            Err("BadGroupTlvIndex", index)
      [] value.tag = "VrfTableName" /\ value.len >= 255 ->
            Err("VrfTableNameStringIsTooLong", value.len)
      [] value.tag = "BgpUpdatePdu" /\ value.bgp # "Update" ->
            Err("BadBgpMessageType", value.bgp)
      [] OTHER -> Built(index, value)

\* BmpV4RouteMonitoringTlv::build.
TlvBuild(index, value) ==
    CASE value.tag = "GroupTlv" /\ LeadingOnes(index, 16) = 0 ->
            Err("BadGroupTlvIndex", index)
      [] value.tag = "VrfTableName" /\ value.len > 255 ->
            Err("VrfTableNameStringIsTooLong", value.len)
      [] value.tag = "BgpUpdatePdu" /\ value.bgp # "Update" ->
            Err("BadBgpMessageType", value.bgp)
      [] OTHER -> Built(index, value)

\* BmpV4RouteMonitoringTlv::get_type: Either::Left of a known type, or
\* Either::Right of the Unknown code.
TlvGetType(tlv) ==
    IF tlv.value.tag = "Unknown" THEN [side |-> "Right", val |-> tlv.value.code]
    ELSE [side |-> "Left", val |-> tlv.value.tag]

\* The TLVs a client can obtain from build, and from serde.
BuiltTlvs == { TlvBuild(p[1], p[2]).tlv :
                 p \in {q \in Indices \X TlvValues : TlvBuild(q[1], q[2]).ok} }
AnyTlvs == [index : Indices, value : TlvValues]

NoMessage == [update_pdu |-> << >>, tlvs |-> << >>, origin |-> "none"]

\* BmpV4RouteMonitoringMessage::build: the update TLV is built at index 0
\* and its error returned as TlvError; the further TLVs are kept as given.
MessageBuild(update_pdu, tlvs) ==
    LET u == TlvBuild(0, [tag |-> "BgpUpdatePdu", bgp |-> update_pdu]) IN
    IF ~u.ok THEN [ok |-> FALSE, error |-> u.error, msg |-> NoMessage]
    ELSE [ok |-> TRUE, error |-> "None",
          msg |-> [update_pdu |-> u.tlv, tlvs |-> tlvs, origin |-> "build"]]

\* BmpV4RouteMonitoringMessage::update_message.
UpdateMessage(m) ==
    IF m.update_pdu.value.tag = "BgpUpdatePdu"
    THEN [ok |-> TRUE, error |-> "None", bgp |-> m.update_pdu.value.bgp]
    ELSE [ok |-> FALSE, error |-> "unreachable", bgp |-> "None"]

Outcome(op, ok, error, input) == [op |-> op, ok |-> ok, error |-> error, input |-> input]

Init == /\ msg = NoMessage
        /\ last = Outcome("None", TRUE, "None", "None")

\* The client calls BmpV4RouteMonitoringTlv::build.
CallTlvBuild(index, value) ==
    /\ last' = Outcome("TlvBuild", TlvBuild(index, value).ok, TlvBuild(index, value).error,
                       [index |-> index, value |-> value])
    /\ UNCHANGED msg

\* The client calls BmpV4RouteMonitoringMessage::build with TLVs it built.
CallMessageBuild(update_pdu, tlvs) ==
    LET r == MessageBuild(update_pdu, tlvs) IN
    /\ msg' = IF r.ok THEN r.msg ELSE msg
    /\ last' = Outcome("MessageBuild", r.ok, r.error, "None")

\* A message is deserialized (serde) from any update TLV.
Deserialize(tlv) ==
    /\ msg' = [update_pdu |-> tlv, tlvs |-> << >>, origin |-> "serde"]
    /\ last' = Outcome("Deserialize", TRUE, "None", "None")

\* The client calls update_message on the message it holds.
CallUpdateMessage ==
    /\ msg # NoMessage
    /\ last' = Outcome("UpdateMessage", UpdateMessage(msg).ok, UpdateMessage(msg).error, "None")
    /\ UNCHANGED msg

Next == \/ \E i \in Indices, v \in TlvValues : CallTlvBuild(i, v)
        \/ \E t \in BgpTypes, ts \in SeqOf(BuiltTlvs, MaxTlvs) : CallMessageBuild(t, ts)
        \/ \E tlv \in AnyTlvs : Deserialize(tlv)
        \/ CallUpdateMessage

Spec == Init /\ [][Next]_vars

(***************************************************************************)
(* Properties.                                                             *)
(***************************************************************************)
\* The rules of spec 4.1 for one TLV: a GroupTlv index has its high bit
\* (BMPV4_TLV_GROUP_GBIT) set, a VRF table name is at most 255 octets, a
\* BgpUpdatePdu wraps an Update.
SpecAllowsTlv(tlv) ==
    /\ tlv.value.tag = "GroupTlv" => (tlv.index & BMPV4_TLV_GROUP_GBIT) # 0
    /\ tlv.value.tag = "VrfTableName" => tlv.value.len <= 255
    /\ tlv.value.tag = "BgpUpdatePdu" => tlv.value.bgp = "Update"

\* BmpV4RouteMonitoringTlv::build accepts a TLV exactly when spec 4.1
\* allows it: leading_ones() == 0 is the G-bit test, and the VRF length
\* limit admits 255 octets but not 256.
BuildAcceptsExactlySpec ==
    last.op = "TlvBuild" => (last.ok <=> SpecAllowsTlv(last.input))

\* update_message never reaches its unreachable! arm, whatever way the
\* message was obtained.
UpdateMessageNeverPanics == last.op = "UpdateMessage" => last.ok
================================================================================
