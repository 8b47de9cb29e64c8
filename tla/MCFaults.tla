------------------------------ MODULE MCFaults ------------------------------
(* Small instances of CncFaults.                                           *)
EXTENDS CncFaults

MCOwner     == [c \in Connections |-> c]
MCLift      == GoTo([a \in {"z"} |-> -4000])
MCPlane     == GoTo([a \in {"x", "y"} |-> IF a = "x" THEN 4000 ELSE 0])
MCJobs      == {<<MCLift, MCPlane>>}
MCAnyJobs   == MCJobs \cup {<<Blank>>}
None        == {}
=============================================================================
