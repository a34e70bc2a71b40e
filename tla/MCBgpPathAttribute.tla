------------------------- MODULE MCBgpPathAttribute -------------------------
(***************************************************************************)
(* Checks PathAttribute::from over every kind and every combination of the *)
(* four flags.  Each step is one call of from with a new request; the      *)
(* state holds the request and the result the code returns for it.         *)
(* Alongside, a consumer holds an MP_REACH_NLRI and an MP_UNREACH_NLRI     *)
(* value (BgpMpFamily) and asks them for their address family.            *)
(***************************************************************************)
EXTENDS BgpPathAttribute, BgpMpFamily

VARIABLES request, result

vars == <<request, result, reach, unreach>>

\* Unknown values holding an unassigned pair and one of a known type, as
\* Deserialize or Arbitrary can build them.
MCUnknownPairs == {<<16388, 73>>, <<1, 1>>}

Requests == [optional : BOOLEAN, transitive : BOOLEAN, partial : BOOLEAN,
             extended_length : BOOLEAN, kind : Kinds]

Call(r) == From(r.optional, r.transitive, r.partial, r.extended_length, r.kind)

Init == /\ request \in Requests
        /\ result = Call(request)
        /\ MpInit

Construct == \E r \in Requests : /\ request' = r
                                 /\ result' = Call(r)
                                 /\ UNCHANGED mpVars

Next == Construct \/ (MpNext /\ UNCHANGED <<request, result>>)

Spec == Init /\ [][Next]_vars

\* Soundness of the flag checks in PathAttribute::from: whenever the
\* constructor accepts a combination of flags for an attribute kind, that
\* combination is one the RFCs allow for the kind's class.
FromSound ==
    result.ok => RfcAllows(request.optional, request.transitive,
                           request.partial, request.kind)

\* Completeness of the flag checks in PathAttribute::from (spec P4: all
\* matching combinations must succeed): every combination the RFCs allow for
\* the kind's class is accepted by the constructor.
FromComplete ==
    RfcAllows(request.optional, request.transitive,
              request.partial, request.kind) => result.ok
=============================================================================
