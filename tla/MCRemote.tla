------------------------------ MODULE MCRemote ------------------------------
(* Small instances of RemoteLink.                                          *)
EXTENDS RemoteLink

MCOwner     == [c \in Connections |-> c]
\* A toggle; two moves; a move and the way home.
MCQuotas    == {Quota(1, 0, 0, 0, 0, 0), Quota(0, 1, 0, 0, 0, 0), Quota(0, 0, 2, 0, 0, 0),
                Quota(0, 0, 1, 1, 0, 0)}
MCSurplus   == {Rest("two")}
MCButtons   == {<<"x", 4000>>}
MCKinds     == {"phone", "watch"}
None        == {}
=============================================================================
