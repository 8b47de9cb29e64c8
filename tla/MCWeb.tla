------------------------------- MODULE MCWeb -------------------------------
(* Small instances of WebLink: client 1 has a page and two connections,    *)
(* client 2 has one connection and no page.                                *)
EXTENDS WebLink

MCOwner     == [c \in Connections |-> IF c = 2 THEN 2 ELSE 1]
MCPages     == {"tab"}
MCIdOf      == [p \in MCPages |-> 1]
MCHomeJob   == <<GoTo([a \in {"x", "y"} |-> 0])>>
MCHomeJobs  == {MCHomeJob}
MCButtons   == {<<"y", 4000>>}
MCZSafe     == {0}
\* Two toggles; a job with a button of an axis; the home button; two jobs; a job
\* and a stop.
MCQuotas    == {Quota(1, 1, 0, 0, 0, 0), Quota(0, 0, 1, 0, 1, 0), Quota(0, 0, 0, 1, 0, 0),
                Quota(0, 0, 0, 0, 2, 0), Quota(0, 0, 0, 0, 1, 1)}
MCSurplus   == {Rest("one")}
None        == {}
=============================================================================
