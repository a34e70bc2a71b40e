---------------------------- MODULE BgpMpFamily ------------------------------
(***************************************************************************)
(* The address families of MP_REACH_NLRI and MP_UNREACH_NLRI values,      *)
(* crates/bgp-pkt/src/path_attribute/path_attribute.rs.  Each enum answers *)
(* address_type(), afi() and safi() through three separate matches; the    *)
(* AFI and SAFI are what the attribute carries on the wire, address_type   *)
(* is what a consumer dispatches on.  A value is abstracted to its variant *)
(* and, for Unknown, the AFI/SAFI pair it holds; next hops and NLRI are    *)
(* left out: none of the three functions looks at them.                    *)
(*                                                                         *)
(* AddressType::address_family and subsequent_address_family belong to    *)
(* the IANA crate, outside this tree; they are the IANA registry values.  *)
(***************************************************************************)
EXTENDS Naturals, Sequences, TLC

CONSTANT UnknownPairs   \* <<afi, safi>> pairs held by Unknown values

VARIABLES
    reach,    \* the MpReach value a consumer holds
    unreach   \* the MpUnreach value a consumer holds

mpVars == <<reach, unreach>>

\* The named variants of MpReach and of MpUnreach (both enums have the same).
Variants == {"Ipv4Unicast", "Ipv4Multicast", "Ipv4NlriMplsLabels", "Ipv4MplsVpnUnicast",
             "Ipv6Unicast", "Ipv6Multicast", "Ipv6NlriMplsLabels", "Ipv6MplsVpnUnicast",
             "L2Evpn", "RouteTargetMembership", "BgpLs", "BgpLsVpn"}

MpValues == [variant : Variants, pair : {<< >>}]
            \cup [variant : {"Unknown"}, pair : UnknownPairs]

\* AddressType::address_family / subsequent_address_family (IANA AFI and
\* SAFI registries): AddressType -> <<afi, safi>>.
AddressTypePair ==
    ("Ipv4Unicast" :> <<1, 1>>) @@ ("Ipv4Multicast" :> <<1, 2>>)
    @@ ("Ipv4NlriMplsLabels" :> <<1, 4>>) @@ ("Ipv4MplsLabeledVpn" :> <<1, 128>>)
    @@ ("Ipv6Unicast" :> <<2, 1>>) @@ ("Ipv6Multicast" :> <<2, 2>>)
    @@ ("Ipv6NlriMplsLabels" :> <<2, 4>>) @@ ("Ipv6MplsLabeledVpn" :> <<2, 128>>)
    @@ ("L2VpnBgpEvpn" :> <<25, 70>>) @@ ("RouteTargetConstrains" :> <<1, 132>>)
    @@ ("BgpLs" :> <<16388, 71>>) @@ ("BgpLsVpn" :> <<16388, 72>>)

(***************************************************************************)
(* The arms of the six matches, one table per function as the source      *)
(* writes one match per function: variant -> the AddressType the arm      *)
(* names.  The Unknown arm of each is written in the function.            *)
(***************************************************************************)
\* MpReach::address_type: the AddressType each named variant answers Ok with.
MpReachAddressTypeArms ==
    [Ipv4Unicast |-> "Ipv4Unicast", Ipv4Multicast |-> "Ipv4Multicast",
     Ipv4NlriMplsLabels |-> "Ipv4NlriMplsLabels", Ipv4MplsVpnUnicast |-> "Ipv4MplsLabeledVpn",
     Ipv6Unicast |-> "Ipv6Unicast", Ipv6Multicast |-> "Ipv6Multicast",
     Ipv6NlriMplsLabels |-> "Ipv6NlriMplsLabels", Ipv6MplsVpnUnicast |-> "Ipv6MplsLabeledVpn",
     L2Evpn |-> "L2VpnBgpEvpn", RouteTargetMembership |-> "RouteTargetConstrains",
     BgpLs |-> "BgpLs", BgpLsVpn |-> "BgpLsVpn"]

\* MpReach::afi: the AddressType whose address_family() each arm returns.
MpReachAfiArms ==
    [Ipv4Unicast |-> "Ipv4Unicast", Ipv4Multicast |-> "Ipv4Multicast",
     Ipv4NlriMplsLabels |-> "Ipv4NlriMplsLabels", Ipv4MplsVpnUnicast |-> "Ipv4MplsLabeledVpn",
     Ipv6Unicast |-> "Ipv6Unicast", Ipv6Multicast |-> "Ipv6Multicast",
     Ipv6NlriMplsLabels |-> "Ipv6NlriMplsLabels", Ipv6MplsVpnUnicast |-> "Ipv6MplsLabeledVpn",
     L2Evpn |-> "L2VpnBgpEvpn", RouteTargetMembership |-> "RouteTargetConstrains",
     BgpLs |-> "BgpLs", BgpLsVpn |-> "BgpLsVpn"]

\* MpReach::safi: the AddressType whose subsequent_address_family() each arm
\* returns.
MpReachSafiArms ==
    [Ipv4Unicast |-> "Ipv4Unicast", Ipv4Multicast |-> "Ipv4Multicast",
     Ipv4NlriMplsLabels |-> "Ipv4NlriMplsLabels", Ipv4MplsVpnUnicast |-> "Ipv4MplsLabeledVpn",
     Ipv6Unicast |-> "Ipv6Unicast", Ipv6Multicast |-> "Ipv6Multicast",
     Ipv6NlriMplsLabels |-> "Ipv6NlriMplsLabels", Ipv6MplsVpnUnicast |-> "Ipv6MplsLabeledVpn",
     L2Evpn |-> "L2VpnBgpEvpn", RouteTargetMembership |-> "RouteTargetConstrains",
     BgpLs |-> "BgpLs", BgpLsVpn |-> "BgpLsVpn"]

\* MpUnreach::address_type.
MpUnreachAddressTypeArms ==
    [Ipv4Unicast |-> "Ipv4Unicast", Ipv4Multicast |-> "Ipv4Multicast",
     Ipv4NlriMplsLabels |-> "Ipv4NlriMplsLabels", Ipv4MplsVpnUnicast |-> "Ipv4MplsLabeledVpn",
     Ipv6Unicast |-> "Ipv6Unicast", Ipv6Multicast |-> "Ipv6Multicast",
     Ipv6NlriMplsLabels |-> "Ipv6NlriMplsLabels", Ipv6MplsVpnUnicast |-> "Ipv6MplsLabeledVpn",
     L2Evpn |-> "L2VpnBgpEvpn", RouteTargetMembership |-> "RouteTargetConstrains",
     BgpLs |-> "BgpLs", BgpLsVpn |-> "BgpLsVpn"]

\* MpUnreach::afi.
MpUnreachAfiArms ==
    [Ipv4Unicast |-> "Ipv4Unicast", Ipv4Multicast |-> "Ipv4Multicast",
     Ipv4NlriMplsLabels |-> "Ipv4NlriMplsLabels", Ipv4MplsVpnUnicast |-> "Ipv4MplsLabeledVpn",
     Ipv6Unicast |-> "Ipv6Unicast", Ipv6Multicast |-> "Ipv6Multicast",
     Ipv6NlriMplsLabels |-> "Ipv6NlriMplsLabels", Ipv6MplsVpnUnicast |-> "Ipv6MplsLabeledVpn",
     L2Evpn |-> "L2VpnBgpEvpn", RouteTargetMembership |-> "RouteTargetConstrains",
     BgpLs |-> "BgpLs", BgpLsVpn |-> "BgpLsVpn"]

\* MpUnreach::safi.
MpUnreachSafiArms ==
    [Ipv4Unicast |-> "Ipv4Unicast", Ipv4Multicast |-> "Ipv4Multicast",
     Ipv4NlriMplsLabels |-> "Ipv4NlriMplsLabels", Ipv4MplsVpnUnicast |-> "Ipv4MplsLabeledVpn",
     Ipv6Unicast |-> "Ipv6Unicast", Ipv6Multicast |-> "Ipv6Multicast",
     Ipv6NlriMplsLabels |-> "Ipv6NlriMplsLabels", Ipv6MplsVpnUnicast |-> "Ipv6MplsLabeledVpn",
     L2Evpn |-> "L2VpnBgpEvpn", RouteTargetMembership |-> "RouteTargetConstrains",
     BgpLs |-> "BgpLs", BgpLsVpn |-> "BgpLsVpn"]

\* MpReach::address_type: Ok(type), or Err((afi, safi)) of an Unknown.
MpReachAddressType(m) ==
    IF m.variant = "Unknown" THEN [ok |-> FALSE, val |-> m.pair]
    ELSE [ok |-> TRUE, val |-> MpReachAddressTypeArms[m.variant]]

\* MpReach::afi and MpReach::safi: the IANA values of the arm's type; an
\* Unknown answers the afi or the safi it holds.
MpReachAfi(m) ==
    IF m.variant = "Unknown" THEN m.pair[1] ELSE AddressTypePair[MpReachAfiArms[m.variant]][1]
MpReachSafi(m) ==
    IF m.variant = "Unknown" THEN m.pair[2] ELSE AddressTypePair[MpReachSafiArms[m.variant]][2]

\* MpUnreach::address_type.
MpUnreachAddressType(m) ==
    IF m.variant = "Unknown" THEN [ok |-> FALSE, val |-> m.pair]
    ELSE [ok |-> TRUE, val |-> MpUnreachAddressTypeArms[m.variant]]

\* Fault variant of MpUnreach::safi: the Ipv6Multicast arm copied from the
\* Ipv6Unicast one.
MpUnreachSafiCopiedArm(m) ==
    IF m.variant = "Unknown" THEN m.pair[2]
    ELSE AddressTypePair[[MpUnreachSafiArms EXCEPT !.Ipv6Multicast = "Ipv6Unicast"][m.variant]][2]

\* MpUnreach::afi and MpUnreach::safi.
MpUnreachAfi(m) ==
    IF m.variant = "Unknown" THEN m.pair[1] ELSE AddressTypePair[MpUnreachAfiArms[m.variant]][1]
MpUnreachSafi(m) ==
    IF m.variant = "Unknown" THEN m.pair[2] ELSE AddressTypePair[MpUnreachSafiArms[m.variant]][2]

MpInit == /\ reach \in MpValues
          /\ unreach \in MpValues

\* A consumer takes another MP_REACH_NLRI or MP_UNREACH_NLRI value.
TakeReach == /\ reach' \in MpValues
             /\ UNCHANGED unreach
TakeUnreach == /\ unreach' \in MpValues
               /\ UNCHANGED reach

MpNext == TakeReach \/ TakeUnreach

(***************************************************************************)
(* Properties.                                                             *)
(***************************************************************************)
ReachPair(m) == <<MpReachAfi(m), MpReachSafi(m)>>
UnreachPair(m) == <<MpUnreachAfi(m), MpUnreachSafi(m)>>
PairOfType(m, t) == IF t.ok THEN AddressTypePair[t.val] ELSE m.pair

\* The AFI/SAFI pair an MP_REACH_NLRI and an MP_UNREACH_NLRI value carry on
\* the wire identifies the family their address_type() names: a withdrawal
\* carries the same pair as the announcement it withdraws exactly when both
\* name the same address type, each value's afi()/safi() is the pair of its
\* own address_type(), and an Unknown reports the pair it holds.
MpFamiliesAgree ==
    /\ ReachPair(reach) = PairOfType(reach, MpReachAddressType(reach))
    /\ UnreachPair(unreach) = PairOfType(unreach, MpUnreachAddressType(unreach))
    /\ (MpReachAddressType(reach).ok /\ MpUnreachAddressType(unreach).ok) =>
          ((MpReachAddressType(reach).val = MpUnreachAddressType(unreach).val)
              <=> (ReachPair(reach) = UnreachPair(unreach)))
================================================================================
