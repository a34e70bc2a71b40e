----------------------- MODULE MCBgpPathAttributeWire -----------------------
(***************************************************************************)
(* Attribute byte strings for BgpPathAttributeWire.  A string is one or    *)
(* two attributes built from a flags octet, a type code, a length field    *)
(* that declares one octet less, exactly, or one octet more than the value *)
(* that follows, and a value over the octets 0, 1 and 2 (which cover the   *)
(* defined ORIGIN values, both AS_PATH segment types, an undefined         *)
(* segment type and segment counts 0 to 2).  Strings cut inside the       *)
(* header, and ORIGIN attributes with an undefined value, are added.       *)
(***************************************************************************)
EXTENDS BgpPathAttributeWire

\* Flags octets: well-known (0x40), well-known extended (0x50), optional
\* transitive (0xC0), extended (0xD0) and partial (0xE0).
MCFlags == {64, 80, 192, 208, 224}
MCCodes == {TypeCode.Origin, TypeCode.AsPath, TypeCode.NextHop, TypeCode.As4Path}
MCDelta == {-1, 0, 1}

\* Values long enough for two 2-octet AS numbers or one 4-octet one.
MCLongBodies == {<<2, 2, 0, 1, 0, 2>>, <<1, 1, 0, 0, 0, 2>>, <<2, 1, 0, 0, 0, 1, 0>>}
MCBodies(n) == SeqOf({0, 1, 2}, n)

Chunk(f, c, b, d) ==
    << f, c >> \o LengthBytes(HasFlag(f, EXTENDED_LENGTH_PATH_ATTRIBUTE_MASK), Len(b) + d) \o b

Chunks(flags, codes, bodies, deltas) ==
    { Chunk(fcbd[1], fcbd[2], fcbd[3], fcbd[4]) :
        fcbd \in {t \in flags \X codes \X bodies \X deltas : Len(t[3]) + t[4] >= 0} }

MCTruncated == {<<64>>, <<64, 1>>, <<80, 2, 0>>}

MCSingles(codes) == Chunks(MCFlags, codes, MCBodies(4) \cup MCLongBodies, MCDelta)

MCPairs(codes) ==
    { x \o y : x \in Chunks({64, 224}, codes, MCBodies(2), {0}),
               y \in Chunks({64, 80}, codes, MCBodies(2), MCDelta) }

\* ORIGIN values 3 and 255, which Origin::try_from rejects, alone and after
\* a valid ORIGIN.
MCUndefinedOrigins == Chunks({64, 80}, {TypeCode.Origin}, {<<3>>, <<255>>}, {0})

MCInputs == MCTruncated \cup MCSingles(MCCodes) \cup MCPairs(MCCodes) \cup MCUndefinedOrigins
            \cup { x \o y : x \in Chunks({64}, {TypeCode.Origin}, {<<0>>}, {0}),
                            y \in MCUndefinedOrigins }

=============================================================================
