------------------------------- MODULE MCSvg -------------------------------
(* Small instances of SvgHandover: two users, who may or may not overlap.   *)
EXTENDS SvgHandover

MCUsers == {"u1", "u2"}
=============================================================================
