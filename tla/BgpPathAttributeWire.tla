------------------------- MODULE BgpPathAttributeWire -------------------------
(***************************************************************************)
(* The path attribute decoder of                                           *)
(* netgauze-bgp-pkt/src/serde/deserializer/path_attribute.rs, and the      *)
(* loop of the UPDATE decoder that calls it once per attribute until the   *)
(* attribute bytes are used up.                                            *)
(*                                                                         *)
(* The decoder is a set of nom parsers over a Span (a LocatedSpan: the    *)
(* fragment left and its absolute offset in the UPDATE's attribute        *)
(* bytes).  A parser result is a record: kind is "Ok", "Error"            *)
(* (nom::Err::Error), "Incomplete" (nom::Err::Incomplete) or "Panic" (a   *)
(* todo!() reached); rest is the span left over and val the parsed value, *)
(* or the located error: its variants and the offset of the span it       *)
(* carries (-1 for Incomplete, which carries no span).  The number        *)
(* parsers are nom::number::complete ones: they fail with Error on a      *)
(* short input, while length_data fails with Incomplete when the length   *)
(* it read exceeds what is left.  Bytes are naturals below 256; a 32-bit  *)
(* field (an IPv4 address, a 4-octet AS number) is kept as its octets.    *)
(***************************************************************************)
EXTENDS BgpPathAttribute, SequencesExt, Bitwise, Integers

CONSTANT Inputs   \* the attribute byte strings handed to the decoder

VARIABLES
    asn4,      \* the session's 4-octet AS number capability
    input,     \* the attribute bytes of one UPDATE
    buf,       \* what is left of them
    decoded,   \* the attributes decoded so far
    consumed,  \* for each of them, the bytes it was decoded from
    status,    \* "Decoding", "Done", or the failure that stopped decoding
    error      \* the located error decoding stopped with

vars == <<asn4, input, buf, decoded, consumed, status, error>>

\* Span<'a>: a fragment and its location_offset.
Span(off, frag) == [off |-> off, frag |-> frag]
Take(s, n) == Span(s.off, SubSeq(s.frag, 1, n))
Skip(s, n) == Span(s.off + n, SubSeq(s.frag, n + 1, Len(s.frag)))

\* A located error: the nested error variants, and the span's offset.
NoError == [outer |-> "None", inner |-> "None", at |-> -1]
Located(inner, span) == [outer |-> "None", inner |-> inner, at |-> span.off]

Ok(rest, val) == [kind |-> "Ok", rest |-> rest, val |-> val]
Fail(kind, err) == [kind |-> kind, rest |-> Span(-1, << >>), val |-> err]
\* nom's ParseError::from_error_kind: NomError(kind) at the input given.
NomFail(span) == Fail("Error", Located("NomError", span))
Needed == Fail("Incomplete", NoError)

\* nom::number::complete::be_u8, be_u16, be_u32.
BeU8(b) == IF b.frag = << >> THEN NomFail(b) ELSE Ok(Skip(b, 1), b.frag[1])
BeU16(b) == IF Len(b.frag) < 2 THEN NomFail(b)
                               ELSE Ok(Skip(b, 2), b.frag[1] * 256 + b.frag[2])
BeU32(b) == IF Len(b.frag) < 4 THEN NomFail(b) ELSE Ok(Skip(b, 4), Take(b, 4).frag)

OPTIONAL_PATH_ATTRIBUTE_MASK == 128
TRANSITIVE_PATH_ATTRIBUTE_MASK == 64
PARTIAL_PATH_ATTRIBUTE_MASK == 32
EXTENDED_LENGTH_PATH_ATTRIBUTE_MASK == 16
ORIGIN_LEN == 1
NEXT_HOP_LEN == 4

HasFlag(attributes, mask) == (attributes & mask) = mask

\* PathAttributeType codes the decoder dispatches on.
TypeCode == [Origin |-> 1, AsPath |-> 2, NextHop |-> 3, As4Path |-> 17]

\* check_length: PathAttributeLength::U8(len) or U16(len) against expected.
CheckLength(attr_len, expected) == attr_len.len = expected

\* The attribute length read by Origin and NextHop: be_u16 when the
\* extended length flag is set, be_u8 otherwise.
ReadLength(b, extended_length) ==
    LET r == IF extended_length THEN BeU16(b) ELSE BeU8(b)
    IN IF r.kind # "Ok" THEN r
       ELSE Ok(r.rest, [width |-> IF extended_length THEN 16 ELSE 8, len |-> r.val])

\* Fault variant of length_data: a value that ends exactly at the end of
\* the input taken as incomplete.
LengthDataOffByOne(b, extended_length) ==
    LET l == IF extended_length THEN BeU16(b) ELSE BeU8(b)
    IN CASE l.kind # "Ok" -> l
         [] l.val >= Len(l.rest.frag) -> Needed
         [] OTHER -> Ok(Skip(l.rest, l.val), Take(l.rest, l.val))

\* nom::multi::length_data(be_u16) or length_data(be_u8): the value is the
\* sub-span of the length read.
LengthData(b, extended_length) ==
    LET l == IF extended_length THEN BeU16(b) ELSE BeU8(b)
    IN CASE l.kind # "Ok" -> l
         [] l.val > Len(l.rest.frag) -> Needed
         [] OTHER -> Ok(Skip(l.rest, l.val), Take(l.rest, l.val))

\* Origin::try_from(u8) and AsPathSegmentType::try_from(u8).
OriginTryFrom(v) == CASE v = 0 -> "IGP" [] v = 1 -> "EGP" [] v = 2 -> "Incomplete"
SegmentTypeTryFrom(v) == CASE v = 1 -> "AsSet" [] v = 2 -> "AsSequence"

\* Fault variant of Origin::from_wire: the length check dropped.
OriginFromWireNoLengthCheck(b, extended_length) ==
    LET l == ReadLength(b, extended_length)
        v == BeU8(l.rest)
    IN CASE l.kind # "Ok" -> l
         [] v.kind # "Ok" -> v
         [] v.val \notin 0..2 -> Fail("Error", Located("UndefinedOrigin", l.rest))
         [] OTHER -> Ok(v.rest, OriginTryFrom(v.val))

\* Origin::from_wire.  InvalidOriginLength is located at the input (the
\* length field); map_res locates UndefinedOrigin at the origin octet.
OriginFromWire(b, extended_length) ==
    LET l == ReadLength(b, extended_length)
        v == BeU8(l.rest)
    IN CASE l.kind # "Ok" -> l
         [] ~CheckLength(l.val, ORIGIN_LEN) -> Fail("Error", Located("InvalidOriginLength", b))
         [] v.kind # "Ok" -> v
         [] v.val \notin 0..2 -> Fail("Error", Located("UndefinedOrigin", l.rest))
         [] OTHER -> Ok(v.rest, OriginTryFrom(v.val))

\* length_count(be_u8, be_u16 or be_u32): the count, then that many
\* numbers; the first number that does not fit fails be_u16/be_u32 at its
\* own offset, and append keeps that error.
LengthCount(c, width) ==
    IF Len(c.rest.frag) < c.val * width
    THEN NomFail(Skip(c.rest, (Len(c.rest.frag) \div width) * width))
    ELSE Ok(Skip(c.rest, c.val * width),
            [i \in 1..c.val |-> SubSeq(c.rest.frag, (i - 1) * width + 1, i * width)])

\* Fault variant of the segment parsers: the segment type read without
\* AsPathSegmentType::try_from, anything but AS_SET taken as AS_SEQUENCE.
AsPathSegmentFromWireAnyType(b, width) ==
    LET t == BeU8(b)
        c == BeU8(t.rest)
        n == LengthCount(c, width)
    IN CASE t.kind # "Ok" -> t
         [] c.kind # "Ok" -> c
         [] n.kind # "Ok" -> n
         [] OTHER -> Ok(n.rest, [segment_type |-> IF t.val = 1 THEN "AsSet" ELSE "AsSequence",
                                 as_numbers |-> n.val])

\* As2PathSegment::from_wire (width 2) and As4PathSegment::from_wire
\* (width 4): map_res(be_u8, AsPathSegmentType::try_from), located at the
\* segment type octet, then length_count.
AsPathSegmentFromWire(b, width) ==
    LET t == BeU8(b)
        c == BeU8(t.rest)
        n == LengthCount(c, width)
    IN CASE t.kind # "Ok" -> t
         [] t.val \notin {1, 2} -> Fail("Error", Located("UndefinedAsPathSegmentType", b))
         [] c.kind # "Ok" -> c
         [] n.kind # "Ok" -> n
         [] OTHER -> Ok(n.rest, [segment_type |-> SegmentTypeTryFrom(t.val),
                                 as_numbers |-> n.val])

\* parse_till_empty: segments until the span is empty; the first error
\* ends the loop.
RECURSIVE ParseTillEmpty(_, _, _)
ParseTillEmpty(b, width, acc) ==
    IF b.frag = << >> THEN Ok(b, acc)
    ELSE LET s == AsPathSegmentFromWire(b, width)
         IN IF s.kind # "Ok" THEN s
            ELSE ParseTillEmpty(s.rest, width, Append(acc, s.val))

\* Fault variant of ASPath::from_wire: the segments parsed from a fresh
\* span over the value's octets, which restarts the offsets at 0.
AsPathFromWireFreshSpan(b, extended_length, asn4val) ==
    LET d == LengthData(b, extended_length)
        width == IF asn4val THEN 4 ELSE 2
        s == ParseTillEmpty(Span(0, d.val.frag), width, << >>)
    IN CASE d.kind # "Ok" -> d
         [] s.kind # "Ok" -> s
         [] OTHER -> Ok(d.rest, [width |-> width, segments |-> s.val])

\* ASPath::from_wire: 4-octet segments when asn4 holds, 2-octet otherwise.
\* The segments are parsed inside the length_data sub-span and what
\* follows it is returned.
AsPathFromWire(b, extended_length, asn4val) ==
    LET d == LengthData(b, extended_length)
        width == IF asn4val THEN 4 ELSE 2
        s == ParseTillEmpty(d.val, width, << >>)
    IN CASE d.kind # "Ok" -> d
         [] s.kind # "Ok" -> s
         [] OTHER -> Ok(d.rest, [width |-> width, segments |-> s.val])

\* AS4Path::from_wire: always 4-octet segments.
As4PathFromWire(b, extended_length) ==
    LET d == LengthData(b, extended_length)
        s == ParseTillEmpty(d.val, 4, << >>)
    IN CASE d.kind # "Ok" -> d
         [] s.kind # "Ok" -> s
         [] OTHER -> Ok(d.rest, [width |-> 4, segments |-> s.val])

\* Fault variant of NextHop::from_wire: the address taken as the number of
\* octets the length field declares, without the length check.
NextHopFromWireDeclaredWidth(b, extended_length) ==
    LET l == ReadLength(b, extended_length)
    IN CASE l.kind # "Ok" -> l
         [] Len(l.rest.frag) < l.val.len -> NomFail(l.rest)
         [] OTHER -> Ok(Skip(l.rest, l.val.len), Take(l.rest, l.val.len).frag)

\* NextHop::from_wire: InvalidNextHopLength located at the length field.
NextHopFromWire(b, extended_length) ==
    LET l == ReadLength(b, extended_length)
        a == BeU32(l.rest)
    IN CASE l.kind # "Ok" -> l
         [] ~CheckLength(l.val, NEXT_HOP_LEN) -> Fail("Error", Located("InvalidNextHopLength", b))
         [] OTHER -> a

\* into_located_attribute_parsing_error: the attribute's error variant
\* (OriginError, AsPathError, NextHopError) around the inner error, with
\* the inner span; Incomplete is passed on as it is.
IntoAttributeError(r, outer) ==
    IF r.kind = "Error" THEN Fail("Error", [r.val EXCEPT !.outer = outer]) ELSE r

(***************************************************************************)
(* PathAttribute::from_wire.  It reads the flags and the type code, keeps  *)
(* partial (used by AS4_PATH only) and extended length, and dispatches on  *)
(* the code; every other code reaches todo!().  The optional and           *)
(* transitive bits are computed and never looked at.  Errors of the flags *)
(* and code octets are PathAttributeParsingError::NomError.                *)
(***************************************************************************)
FromWire(b, asn4val) ==
    LET a == BeU8(b)
        c == BeU8(a.rest)
        partial == HasFlag(a.val, PARTIAL_PATH_ATTRIBUTE_MASK)
        extended_length == HasFlag(a.val, EXTENDED_LENGTH_PATH_ATTRIBUTE_MASK)
        Attribute(r, type, outer, p) ==
            IF r.kind # "Ok" THEN IntoAttributeError(r, outer)
            ELSE Ok(r.rest, [type |-> type, partial |-> p,
                             extended_length |-> extended_length, value |-> r.val])
    IN CASE a.kind # "Ok" -> IntoAttributeError(a, "NomError")
         [] c.kind # "Ok" -> IntoAttributeError(c, "NomError")
         [] c.val = TypeCode.Origin ->
              Attribute(OriginFromWire(c.rest, extended_length), "Origin", "OriginError", FALSE)
         [] c.val = TypeCode.AsPath ->
              Attribute(AsPathFromWire(c.rest, extended_length, asn4val), "AsPath",
                        "AsPathError", FALSE)
         [] c.val = TypeCode.As4Path ->
              Attribute(As4PathFromWire(c.rest, extended_length), "As4Path", "AsPathError", partial)
         [] c.val = TypeCode.NextHop ->
              Attribute(NextHopFromWire(c.rest, extended_length), "NextHop", "NextHopError", FALSE)
         [] OTHER -> Fail("Panic", NoError)

(***************************************************************************)
(* The UPDATE decoder's loop over the path attribute bytes: from_wire is   *)
(* called on what is left until nothing is; the first failure ends the     *)
(* loop and is the outcome of the whole decode.                            *)
(***************************************************************************)
\* The span from_wire is called on: what is left, at its offset.
Remaining == Span(Len(input) - Len(buf), buf)

Init == /\ asn4 \in BOOLEAN
        /\ input \in Inputs
        /\ buf = input
        /\ decoded = << >>
        /\ consumed = << >>
        /\ status = "Decoding"
        /\ error = NoError

AttributeDecoded ==
    LET r == FromWire(Remaining, asn4) IN
    /\ status = "Decoding"
    /\ r.kind = "Ok"
    /\ decoded' = Append(decoded, r.val)
    /\ consumed' = Append(consumed, Take(Remaining, Len(buf) - Len(r.rest.frag)).frag)
    /\ buf' = r.rest.frag
    /\ status' = IF r.rest.frag = << >> THEN "Done" ELSE "Decoding"
    /\ UNCHANGED <<asn4, input, error>>

DecodeFailed ==
    LET r == FromWire(Remaining, asn4) IN
    /\ status = "Decoding"
    /\ r.kind # "Ok"
    /\ status' = r.kind
    /\ error' = r.val
    /\ UNCHANGED <<asn4, input, buf, decoded, consumed>>

Next == AttributeDecoded \/ DecodeFailed

Spec == Init /\ [][Next]_vars

(***************************************************************************)
(* The encoding of an attribute (RFC 4271 4.3, spec 4.1): flags, type      *)
(* code, a one or two octet length as extended_length says, then the      *)
(* value.  The optional and transitive bits are the ones the flag matrix   *)
(* requires of the kind.                                                   *)
(***************************************************************************)
Bit(b, mask) == IF b THEN mask ELSE 0

FlagsByte(attr) ==
    Bit(CanBeOptional(attr.type) = Some(TRUE), OPTIONAL_PATH_ATTRIBUTE_MASK)
    + Bit(CanBeTransitive(attr.type) = Some(TRUE), TRANSITIVE_PATH_ATTRIBUTE_MASK)
    + Bit(attr.partial, PARTIAL_PATH_ATTRIBUTE_MASK)
    + Bit(attr.extended_length, EXTENDED_LENGTH_PATH_ATTRIBUTE_MASK)

OriginCode == [IGP |-> 0, EGP |-> 1, Incomplete |-> 2]
SegmentTypeCode == [AsSet |-> 1, AsSequence |-> 2]

SegmentBytes(seg) ==
    << SegmentTypeCode[seg.segment_type], Len(seg.as_numbers) >>
    \o FlattenSeq(seg.as_numbers)

ValueBytes(attr) ==
    CASE attr.type = "Origin" -> << OriginCode[attr.value] >>
      [] attr.type = "NextHop" -> attr.value
      [] OTHER -> FlattenSeq([i \in DOMAIN attr.value.segments |->
                                 SegmentBytes(attr.value.segments[i])])

LengthBytes(extended_length, n) ==
    IF extended_length THEN << n \div 256, n % 256 >> ELSE << n >>

Encode(attr) ==
    << FlagsByte(attr), TypeCode[attr.type] >>
    \o LengthBytes(attr.extended_length, Len(ValueBytes(attr)))
    \o ValueBytes(attr)

(***************************************************************************)
(* Properties.                                                             *)
(***************************************************************************)
Byte == 0..255
Segments(width) ==
    Seq([segment_type : {"AsSet", "AsSequence"}, as_numbers : Seq([1..width -> Byte])])
AttributeValue ==
    [type : {"Origin"}, value : {"IGP", "EGP", "Incomplete"}]
    \cup [type : {"NextHop"}, value : [1..4 -> Byte]]
    \cup [type : {"AsPath"}, value : [width : {2}, segments : Segments(2)]
                                    \cup [width : {4}, segments : Segments(4)]]
    \cup [type : {"As4Path"}, value : [width : {4}, segments : Segments(4)]]

TypeOK ==
    /\ asn4 \in BOOLEAN
    /\ status \in {"Decoding", "Done", "Error", "Incomplete", "Panic"}
    /\ Len(decoded) = Len(consumed)
    /\ error.at \in -1..Len(input)
    /\ \A i \in DOMAIN decoded :
         [type |-> decoded[i].type, value |-> decoded[i].value] \in AttributeValue

\* The length field of the attribute that starts a byte string.
HeaderLength(chunk) ==
    IF HasFlag(chunk[1], EXTENDED_LENGTH_PATH_ATTRIBUTE_MASK) THEN 4 ELSE 3
DeclaredLength(chunk) ==
    IF HasFlag(chunk[1], EXTENDED_LENGTH_PATH_ATTRIBUTE_MASK)
    THEN chunk[3] * 256 + chunk[4] ELSE chunk[3]

\* Framing of the attribute decoders (Origin, ASPath, AS4Path, NextHop
\* from_wire): every attribute decoded consumes exactly its flags, type,
\* length field and the number of value octets the length field declares,
\* so the next attribute is read from where the sender wrote it.
DecodeConsumesDeclaredLength ==
    \A i \in DOMAIN consumed :
        /\ Len(consumed[i]) >= HeaderLength(consumed[i])
        /\ Len(consumed[i]) = HeaderLength(consumed[i]) + DeclaredLength(consumed[i])

\* Spec P2 for path attributes: an attribute the decoder accepts re-encodes
\* to exactly the bytes it was decoded from, provided its flags octet is
\* the one an encoder writes for it (the decoder keeps only partial and
\* extended length, so other flag bits are not preserved).
DecodeEncodeRoundTrip ==
    \A i \in DOMAIN decoded :
        consumed[i][1] = FlagsByte(decoded[i]) => Encode(decoded[i]) = consumed[i]

\* Spec 3 and 7: an error carries the absolute offset at which it was
\* detected, so that the bad bytes can be found.  A decode that stops with
\* an error locates it in the attribute that failed: a missing flags or
\* type octet at the end of the bytes; a length the kind does not admit
\* at the attribute's length field; an undefined ORIGIN or AS_PATH
\* segment type at an octet of the attribute's value that holds it; any
\* other short read after the attribute's type octet.  The offsets of the
\* AS_PATH segments are those of the sub-span length_data cut out.
ErrorLocatesOffendingOctet ==
    status = "Error" =>
        LET start == Len(input) - Len(buf)
            at == error.at
            valueStart == start + HeaderLength(buf)
        IN /\ start <= at /\ at <= Len(input)
           /\ error.outer = "NomError" => at = Len(input)
           /\ error.inner \in {"InvalidOriginLength", "InvalidNextHopLength"} => at = start + 2
           /\ error.inner = "UndefinedOrigin" => at >= valueStart /\ input[at + 1] \notin 0..2
           /\ error.inner = "UndefinedAsPathSegmentType" =>
                 at >= valueStart /\ input[at + 1] \notin {1, 2}
           /\ (error.inner = "NomError" /\ error.outer # "NomError") => at >= start + 2

\* nom::Err::Incomplete carries no offset, and a caller that treats it as
\* "read more bytes" waits for bytes the UPDATE does not have.  A decode
\* ends Incomplete exactly when the attribute it stopped at is an AS_PATH
\* or AS4_PATH whose header is whole and whose declared length runs past
\* the end of the attribute bytes (length_data in ASPath / AS4Path
\* from_wire); ORIGIN and NEXT_HOP check their length first and fail with
\* a located Error instead, and a short header is a located NomError.
IncompleteOnlyWhenValueOverruns ==
    status \in {"Error", "Incomplete"} =>
        ((status = "Incomplete") <=>
            /\ Len(buf) >= 2
            /\ buf[2] \in {TypeCode.AsPath, TypeCode.As4Path}
            /\ Len(buf) >= HeaderLength(buf)
            /\ DeclaredLength(buf) > Len(buf) - HeaderLength(buf))

\* Spec 4.1 (flag-matrix validation): the decoder accepts attributes whose
\* flags violate the kind's matrix only for attributes classified unknown;
\* every ORIGIN, AS_PATH, NEXT_HOP or AS4_PATH it returns has the flags
\* PathAttribute::from would accept.  from_wire computes the optional and
\* transitive bits and never looks at them.
DecodeAcceptsOnlyMatrixFlags ==
    \A i \in DOMAIN decoded :
        LET f == consumed[i][1]
        IN From(HasFlag(f, OPTIONAL_PATH_ATTRIBUTE_MASK),
                HasFlag(f, TRANSITIVE_PATH_ATTRIBUTE_MASK),
                HasFlag(f, PARTIAL_PATH_ATTRIBUTE_MASK),
                HasFlag(f, EXTENDED_LENGTH_PATH_ATTRIBUTE_MASK), decoded[i].type).ok

================================================================================
