------------------------- MODULE MCBgpMessageStream -------------------------
(***************************************************************************)
(* Body lengths at the edges of the length checks: empty, the largest Open *)
(* (4096 octets in all), one more, the largest frame a 16-bit length field *)
(* can describe, and one more than that.                                   *)
(***************************************************************************)
EXTENDS BgpMessageStream

\* Bodies whose frames fit the 16-bit length field.
MCBodyLengths == {0, 4077, 4078, 65516}

\* The same with a body one octet past what the length field can describe.
MCBodyLengthsOverflow == {0, 4077, 65517}
=============================================================================
