--------------------------- MODULE BgpPathAttribute ---------------------------
(***************************************************************************)
(* Path attribute construction, crates/bgp-pkt/src/path_attribute/        *)
(* path_attribute.rs.                                                      *)
(*                                                                         *)
(* Every attribute value kind states, through the trait                    *)
(* PathAttributeValueProperties, whether its optional, transitive and      *)
(* partial flags must be set (Some(true)), must be clear (Some(false)) or  *)
(* are free (None).  PathAttribute::from checks the requested flags        *)
(* against that matrix, optional first, then transitive, then partial, and *)
(* returns the first disagreement as the error.                            *)
(*                                                                         *)
(* Option<bool> is written as a sequence of length at most one: <<b>> is   *)
(* Some(b) and <<>> is None.  The attribute value itself is abstracted to  *)
(* its kind: the checks never look at the value's contents.  BgpLs and     *)
(* PrefixSegmentIdentifier are left out: their trait impls are not part of *)
(* this source tree.                                                       *)
(***************************************************************************)
EXTENDS Naturals, Sequences, TLC

None == << >>
Some(b) == << b >>

\* One row of the matrix: the three answers of the trait for a kind.
Row(o, t, p) == [optional |-> o, transitive |-> t, partial |-> p]

\* Origin, AsPath, As4Path, NextHop, MultiExitDiscriminator,
\* LocalPreference and AtomicAggregate impls.
BasicAttributeFlags ==
    [ k \in {"Origin", "AsPath", "NextHop", "LocalPreference", "AtomicAggregate"}
        |-> Row(Some(FALSE), Some(TRUE), Some(FALSE)) ]
    @@ ("As4Path" :> Row(Some(TRUE), Some(TRUE), None))
    @@ ("MultiExitDiscriminator" :> Row(Some(TRUE), Some(FALSE), Some(FALSE)))

\* Aggregator and the four community attribute impls.
AggregationCommunityFlags ==
    [ k \in {"Aggregator", "Communities", "ExtendedCommunities",
             "ExtendedCommunitiesIpv6", "LargeCommunities"}
        |-> Row(Some(TRUE), Some(TRUE), None) ]

\* Originator and ClusterList (route reflection) impls.
ReflectionFlags ==
    [ k \in {"Originator", "ClusterList"} |-> Row(Some(TRUE), Some(FALSE), Some(FALSE)) ]

\* MpReach and MpUnreach impls.
MultiprotocolFlags ==
    [ k \in {"MpReach", "MpUnreach"} |-> Row(Some(TRUE), Some(FALSE), Some(FALSE)) ]

\* UnknownAttribute, OnlyToCustomer and Aigp impls.
ExtensionFlags ==
    ("UnknownAttribute" :> Row(None, None, None))
    @@ ("OnlyToCustomer" :> Row(Some(TRUE), Some(TRUE), Some(FALSE)))
    @@ ("Aigp" :> Row(Some(TRUE), Some(FALSE), Some(FALSE)))

FlagMatrix ==
    BasicAttributeFlags @@ AggregationCommunityFlags @@ ReflectionFlags
    @@ MultiprotocolFlags @@ ExtensionFlags

Kinds == DOMAIN FlagMatrix

(***************************************************************************)
(* The dispatch of PathAttributeValue.  The UnknownAttribute arm of        *)
(* can_be_optional calls UnknownAttribute::can_be_partial, as the source   *)
(* does; both answer None.                                                 *)
(***************************************************************************)
CanBeOptional(kind) ==
    IF kind = "UnknownAttribute" THEN FlagMatrix[kind].partial
                                 ELSE FlagMatrix[kind].optional

CanBeTransitive(kind) == FlagMatrix[kind].transitive

CanBePartial(kind) == FlagMatrix[kind].partial

\* value.can_be_x().map(|x| x != flag).unwrap_or(false)
Disagrees(answer, flag) == answer # None /\ answer[1] # flag

(***************************************************************************)
(* PathAttribute::from.  The result is a record: ok, the error variant     *)
(* ("None" on success) and the flag value the error carries.               *)
(***************************************************************************)
Err(error, flag) == [ok |-> FALSE, error |-> error, flag |-> flag]

\* Fault variant of PathAttribute::from: the partial flag check dropped.
FromNoPartialCheck(optional, transitive, partial, extended_length, kind) ==
    CASE Disagrees(CanBeOptional(kind), optional) ->
            Err("InvalidOptionalFlagValue", optional)
      [] Disagrees(CanBeTransitive(kind), transitive) ->
            Err("InvalidTransitiveFlagValue", transitive)
      [] OTHER -> [ok |-> TRUE, error |-> "None", flag |-> extended_length]

From(optional, transitive, partial, extended_length, kind) ==
    CASE Disagrees(CanBeOptional(kind), optional) ->
            Err("InvalidOptionalFlagValue", optional)
      [] Disagrees(CanBeTransitive(kind), transitive) ->
            Err("InvalidTransitiveFlagValue", transitive)
      [] Disagrees(CanBePartial(kind), partial) ->
            Err("InvalidPartialFlagValue", partial)
      [] OTHER -> [ok |-> TRUE, error |-> "None", flag |-> extended_length]

(***************************************************************************)
(* The RFC classification of each kind (RFC 4271 5, RFC 4456, RFC 4760,    *)
(* RFC 6793, RFC 7311, RFC 8092, RFC 9234), and the flag rules RFC 4271    *)
(* 4.3 and 5 attach to each class: a well-known attribute has optional     *)
(* clear, transitive set and partial clear; an optional non-transitive one *)
(* has partial clear; an optional transitive one may carry partial either  *)
(* way, since a speaker that passes it on unrecognised sets the bit.       *)
(***************************************************************************)
RfcClass ==
    [ k \in {"Origin", "AsPath", "NextHop", "LocalPreference", "AtomicAggregate"}
        |-> "WellKnown" ]
    @@ [ k \in {"As4Path", "Aggregator", "Communities", "ExtendedCommunities",
                "ExtendedCommunitiesIpv6", "LargeCommunities", "OnlyToCustomer"}
        |-> "OptionalTransitive" ]
    @@ [ k \in {"MultiExitDiscriminator", "Originator", "ClusterList",
                "MpReach", "MpUnreach", "Aigp"}
        |-> "OptionalNonTransitive" ]
    @@ ("UnknownAttribute" :> "Unrecognised")

RfcAllows(optional, transitive, partial, kind) ==
    CASE RfcClass[kind] = "WellKnown" ->
            ~optional /\ transitive /\ ~partial
      [] RfcClass[kind] = "OptionalTransitive" ->
            optional /\ transitive
      [] RfcClass[kind] = "OptionalNonTransitive" ->
            optional /\ ~transitive /\ ~partial
      [] RfcClass[kind] = "Unrecognised" -> TRUE
================================================================================
