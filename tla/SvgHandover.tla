---------------------------- MODULE SvgHandover ----------------------------
(***************************************************************************)
(* The branch getGCodeFromSVGFile of Controller.doPost and the script      *)
(* gcodetools/gcodetools_listener.py, which talk through files of one      *)
(* directory, one step per access to it. A thread of the server runs the   *)
(* branch for each upload; a user waits for the answer before the next.    *)
(***************************************************************************)
EXTENDS Integers

CONSTANTS Users, MaxUploads
ASSUME UploadsAssumption == MaxUploads \in Nat

VARIABLES
  svg,           \* fileName.svg: the upload it came with, 0 if there is no file
  ngc,           \* fileName.ngc: what it was made of, or None
  execCommand,   \* the upload whose command it is, 0 if there is no file
  SVGReceived, gcodeDone,  \* whether the signal files exist
  up,            \* by user: where doPost is, for which upload, and the answer
  lpc,           \* where the listener is; "dead" after an uncaught exception
  command,       \* the command the listener has read
  drawing,       \* the svg gcodetools has read
  uploads,       \* how many there were
  overlapped,    \* history: whether one ever began before another had ended
  lost           \* history: whether the listener, at its removal, took away the
                 \* signal of a waiting upload or found none and ended

files    == <<svg, ngc, execCommand, SVGReceived, gcodeDone>>
listener == <<lpc, command, drawing>>
past     == <<uploads, overlapped, lost>>
svgVars  == <<files, listener, past, up>>

Uploads == 0..MaxUploads
Gcode   == [svg : Uploads, command : Uploads]
None    == [svg |-> 0, command |-> 0]

Places == {"idle", "deleteNgc", "writeSvg", "command", "alert", "spin", "deleteDone",
           "read", "deleteCommand", "deleteAlert"}

TypeOK ==
  /\ svg \in Uploads /\ execCommand \in Uploads /\ ngc \in Gcode
  /\ SVGReceived \in BOOLEAN /\ gcodeDone \in BOOLEAN
  /\ up \in [Users -> [pc : Places, n : Uploads, answer : Gcode]]
  /\ lpc \in {"top", "remove", "wait", "open", "load", "save", "done", "dead"}
  /\ command \in Uploads /\ drawing \in Uploads
  /\ uploads \in Uploads /\ overlapped \in BOOLEAN /\ lost \in BOOLEAN

Init ==
  /\ svg = 0 /\ execCommand = 0 /\ ngc = None
  /\ SVGReceived = FALSE /\ gcodeDone = FALSE
  /\ up = [u \in Users |-> [pc |-> "idle", n |-> 0, answer |-> None]]
  /\ lpc = "top" /\ command = 0 /\ drawing = 0
  /\ uploads = 0 /\ overlapped = FALSE /\ lost = FALSE

Step(u, from, to)   == up[u].pc = from /\ up' = [up EXCEPT ![u].pc = to]
Listen(from, to)    == lpc = from /\ lpc' = to

-----------------------------------------------------------------------------
(* doPost. A file is deleted if it exists; deleting none does nothing.     *)

Upload(u) ==
  /\ up[u].pc = "idle" /\ uploads < MaxUploads
  /\ uploads' = uploads + 1
  /\ overlapped' = (overlapped \/ \E v \in Users : up[v].pc # "idle")
  /\ up' = [up EXCEPT ![u] = [pc |-> "deleteNgc", n |-> uploads + 1, answer |-> None]]
  /\ svg' = 0
  /\ UNCHANGED <<ngc, execCommand, SVGReceived, gcodeDone, listener, lost>>

DeleteNgc(u) ==
  /\ Step(u, "deleteNgc", "writeSvg") /\ ngc' = None
  /\ UNCHANGED <<svg, execCommand, SVGReceived, gcodeDone, listener, past>>

WriteSvg(u) ==
  /\ Step(u, "writeSvg", "command") /\ svg' = up[u].n
  /\ UNCHANGED <<ngc, execCommand, SVGReceived, gcodeDone, listener, past>>

WriteCommand(u) ==
  /\ Step(u, "command", "alert") /\ execCommand' = up[u].n
  /\ UNCHANGED <<svg, ngc, SVGReceived, gcodeDone, listener, past>>

\* Mutant: the signal file is opened only after the wait, so it never is.
CreateNothing(u) ==
  /\ Step(u, "alert", "spin")
  /\ UNCHANGED <<files, listener, past>>

CreateSVGReceived(u) ==
  /\ Step(u, "alert", "spin") /\ SVGReceived' = TRUE
  /\ UNCHANGED <<svg, ngc, execCommand, gcodeDone, listener, past>>

SpinEnds(u) ==
  /\ Step(u, "spin", "deleteDone") /\ gcodeDone
  /\ UNCHANGED <<files, listener, past>>

\* Mutant: the file gcodeDone is left for the next upload to find.
LeaveDone(u) ==
  /\ Step(u, "deleteDone", "read")
  /\ UNCHANGED <<files, listener, past>>

DeleteDone(u) ==
  /\ Step(u, "deleteDone", "read") /\ gcodeDone' = FALSE
  /\ UNCHANGED <<svg, ngc, execCommand, SVGReceived, listener, past>>

\* Without a file the exception is printed and the answer is empty.
ReadNgc(u) ==
  /\ up[u].pc = "read"
  /\ up' = [up EXCEPT ![u].pc = "deleteCommand", ![u].answer = ngc]
  /\ UNCHANGED <<files, listener, past>>

DeleteCommand(u) ==
  /\ Step(u, "deleteCommand", "deleteAlert") /\ execCommand' = 0
  /\ UNCHANGED <<svg, ngc, SVGReceived, gcodeDone, listener, past>>

DeleteSVGReceived(u) ==
  /\ Step(u, "deleteAlert", "idle") /\ SVGReceived' = FALSE
  /\ UNCHANGED <<svg, ngc, execCommand, gcodeDone, listener, past>>

DoPost(u) ==
  \/ DeleteNgc(u) \/ WriteSvg(u) \/ WriteCommand(u) \/ CreateSVGReceived(u) \/ SpinEnds(u)
  \/ DeleteDone(u) \/ ReadNgc(u) \/ DeleteCommand(u) \/ DeleteSVGReceived(u)

-----------------------------------------------------------------------------
(* The listener. os.remove and open raise an exception if there is no file. *)

\* Mutant: the script waits for a signal without removing a leftover one.
TestNothing ==
  /\ Listen("top", "wait")
  /\ UNCHANGED <<command, drawing, files, past, up>>

TestLeftover ==
  /\ Listen("top", IF SVGReceived THEN "remove" ELSE "wait")
  /\ UNCHANGED <<command, drawing, files, past, up>>

\* Uploads that have given the signal and wait for an answer not yet there.
Waiting == {u \in Users : up[u].pc = "spin"}

RemoveLeftover ==
  /\ Listen("remove", IF SVGReceived THEN "wait" ELSE "dead")
  /\ SVGReceived' = FALSE
  /\ lost' = (lost \/ ~SVGReceived \/ (Waiting # {} /\ ~gcodeDone))
  /\ UNCHANGED <<command, drawing, svg, ngc, execCommand, gcodeDone, uploads, overlapped, up>>

SeeSVGReceived ==
  /\ Listen("wait", "open") /\ SVGReceived
  /\ UNCHANGED <<command, drawing, files, past, up>>

\* Mutant: the end of the command is cut off as if it were a line end.
ReadCommandCut ==
  /\ Listen("open", IF execCommand = 0 THEN "dead" ELSE "load")
  /\ command' = execCommand - 1
  /\ UNCHANGED <<drawing, files, past, up>>

ReadCommand ==
  /\ Listen("open", IF execCommand = 0 THEN "dead" ELSE "load")
  /\ command' = execCommand
  /\ UNCHANGED <<drawing, files, past, up>>

\* os.system(): gcodetools reads the drawing; without one it fails, and makes
\* no G-code.
LoadSvg ==
  /\ Listen("load", IF svg = 0 THEN "done" ELSE "save")
  /\ drawing' = svg
  /\ UNCHANGED <<command, files, past, up>>

SaveNgc ==
  /\ Listen("save", "done")
  /\ ngc' = [svg |-> drawing, command |-> command]
  /\ UNCHANGED <<command, drawing, svg, execCommand, SVGReceived, gcodeDone, past, up>>

WriteGcodeDone ==
  /\ Listen("done", "top") /\ gcodeDone' = TRUE
  /\ UNCHANGED <<command, drawing, svg, ngc, execCommand, SVGReceived, past, up>>

Listener ==
  \/ TestLeftover \/ RemoveLeftover \/ SeeSVGReceived \/ ReadCommand
  \/ LoadSvg \/ SaveNgc \/ WriteGcodeDone

Next == Listener \/ \E u \in Users : Upload(u) \/ DoPost(u)

Spec == Init /\ [][Next]_svgVars

\* The script and the threads of the server are scheduled; nobody is made to
\* upload.
FairSpec == Spec /\ WF_svgVars(Listener) /\ \A u \in Users : WF_svgVars(DoPost(u))

-----------------------------------------------------------------------------
\* As long as no two uploads overlap, an answer is the G-code of the drawing it
\* came with and made by its own command: never an older file, never an empty
\* one, whatever the listener was doing when the signal came.
Own(n) == [svg |-> n, command |-> n]
OwnGcode ==
  ~overlapped => \A u \in Users : up[u].pc \in {"deleteCommand", "deleteAlert"} => up[u].answer = Own(up[u].n)

\* An upload that overlaps none is answered, unless the listener was between
\* its first test and the removal: then it takes the new signal for a leftover
\* one and waits for another, or finds none to remove and ends.
AnsweredUnlessLost ==
  \A u \in Users : (up[u].pc = "spin") ~> (up[u].pc # "spin" \/ lost \/ overlapped)

\* The listener is never left with a signal and no command: it ends only at the
\* removal, as long as no two uploads overlap.
ReadsItsCommand ==
  ~overlapped /\ lpc = "open" => \E u \in Users : up[u].pc = "spin" /\ execCommand = up[u].n
=============================================================================
