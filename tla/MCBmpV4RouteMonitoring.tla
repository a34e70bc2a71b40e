----------------------- MODULE MCBmpV4RouteMonitoring -------------------------
(***************************************************************************)
(* Indices at both sides of the G bit and at the u16 ends; VRF name        *)
(* lengths at and around the 255-octet limit; one further TLV per message. *)
(***************************************************************************)
EXTENDS BmpV4RouteMonitoring

MCIndices == {0, 1, 32767, 32768, 65535}
MCVrfLengths == {0, 255, 256}
MCBgpTypes == {"Update", "Open", "KeepAlive"}
MCCodes == {7}
================================================================================
