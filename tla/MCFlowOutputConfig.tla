------------------------- MODULE MCFlowOutputConfig ---------------------------
(***************************************************************************)
(* Instantiates FlowOutputConfig with six IEs, flows in which each IE has *)
(* no field or one field of a few shapes (a short MPLS label stack entry, *)
(* a layer2SegmentId of VxLAN and of an unassigned encapsulation), and a  *)
(* few output configurations exercising each select and transform.       *)
(***************************************************************************)
EXTENDS FlowOutputConfig, TLC

MCIEs == {"octetDeltaCount", "sourceIPv4Address", "destinationIPv4Address",
          "mplsLabelStackSection", "mplsLabelStackSection2", "layer2SegmentId"}

MCIeDataType ==
    [ie \in {"octetDeltaCount", "layer2SegmentId"} |-> "unsigned64"]
    @@ [ie \in {"sourceIPv4Address", "destinationIPv4Address"} |-> "ipv4Address"]
    @@ [ie \in {"mplsLabelStackSection", "mplsLabelStackSection2"} |-> "octetArray"]

MCMplsIEs == {"mplsLabelStackSection", "mplsLabelStackSection2"}
MCStringConvertible == {"sourceIPv4Address", "destinationIPv4Address"}
MCStringArrayConvertible == {}
MCCustomPrefixed == {"custom_primitives.vrf"}
MCCustomEmbedded == {"custom_primitives.vrf", "meta.custom_primitives.vrf"}

Fld(ie, octets) == [ie |-> ie, octets |-> octets]

\* The fields a flow record may carry for each IE.
MCFlows ==
    { ("octetDeltaCount" :> a) @@ ("sourceIPv4Address" :> b)
      @@ ("destinationIPv4Address" :> c) @@ ("mplsLabelStackSection" :> d)
      @@ ("mplsLabelStackSection2" :> e) @@ ("layer2SegmentId" :> g) :
        a \in {<< >>, << Fld("octetDeltaCount", <<9>>) >>},
        b \in {<< >>, << Fld("sourceIPv4Address", <<10>>) >>},
        c \in {<< >>, << Fld("destinationIPv4Address", <<11>>) >>},
        d \in {<< >>, << Fld("mplsLabelStackSection", <<0, 1, 65>>) >>,
               << Fld("mplsLabelStackSection", <<0, 1>>) >>},
        e \in {<< >>, << Fld("mplsLabelStackSection2", <<0, 2, 129>>) >>},
        g \in {<< >>, << Fld("layer2SegmentId", <<1, 9, 9, 9, 9, 7, 7, 7>>) >>,
               << Fld("layer2SegmentId", <<5, 9, 9, 9, 9, 7, 7, 7>>) >>} }

Single(ie) == [tag |-> "Single", ie |-> ie, index |-> 0]
FC(select, default, transform) ==
    [select |-> select, default |-> default, transform |-> transform]
Entry(name, fc) == [name |-> name, fc |-> fc]
LongDefault == Value(Raw("Long", "0"))

\* Fields every test configuration carries.
BaseEntries ==
    << Entry("src", FC(Single("sourceIPv4Address"), NoValue, "Identity")),
       Entry("bytes", FC(Single("octetDeltaCount"), LongDefault, "Identity")),
       Entry("dst", FC([tag |-> "Coalesce",
                        ies |-> <<Single("destinationIPv4Address"), Single("sourceIPv4Address")>>],
                       NoValue, "String")),
       Entry("mpls", FC([tag |-> "Mpls",
                         ies |-> <<Single("mplsLabelStackSection"), Single("mplsLabelStackSection2")>>],
                        NoValue, "MplsIndex")) >>

Vni(encap, default) ==
    Entry("vni", FC([tag |-> "Layer2SegmentId", ie |-> "layer2SegmentId", index |-> 0,
                     encap |-> encap], default, "Identity"))

\* Configurations whose fields are all declared consistently.
MCConfigs ==
    { BaseEntries \o << Vni([variant |-> "VxLAN"], NoValue) >>,
      BaseEntries \o << Vni([variant |-> "Unassigned", value |-> 5], LongDefault) >>,
      BaseEntries \o << Entry("custom_primitives.vrf",
                              FC(Single("sourceIPv4Address"), NoValue, "String")) >> }

\* A Coalesce over IEs of different types, left as Identity.
MCCoalesceConfigs ==
    { << Entry("first", FC([tag |-> "Coalesce",
                           ies |-> <<Single("octetDeltaCount"), Single("sourceIPv4Address")>>],
                          NoValue, "Identity")) >> }

================================================================================
