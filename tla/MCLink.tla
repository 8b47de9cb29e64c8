------------------------------- MODULE MCLink -------------------------------
(* Small instances of CncLink.                                             *)
EXTENDS CncLink

At(x, y, z) == [a \in Axes |-> CASE a = "x" -> x [] a = "y" -> y [] OTHER -> z]

\* 4000 nm are two steps and a bit: the firmware reports 3750.
MCOwner     == [c \in Connections |-> c]
MCOrigin    == {Report(Home)}
MCButtons   == Axes \X {4000}
MCZSafe     == {4000}
MCCoords    == {At(4000, 0, -4000)}
MCPlane     == GoTo([a \in {"x", "y"} |-> IF a = "x" THEN 4000 ELSE 0])
MCLift      == GoTo([a \in {"z"} |-> 4000])
MCJobs      == {<<MCLift, MCPlane>>}
MCBlankJobs == {<<Blank>>}
MCAnyJobs   == MCJobs \cup MCBlankJobs
None        == {}
=============================================================================
