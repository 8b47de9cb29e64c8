------------------------- MODULE SvgHandoverProofs -------------------------
(***************************************************************************)
(* SvgHandover, for any users and number of uploads: types, and that an    *)
(* upload that overlaps no other is answered with its own G-code.          *)
(***************************************************************************)
EXTENDS SvgHandover, TLAPS

\* What a step of doPost leaves of the table of uploads.
LEMMA StepOf ==
  ASSUME NEW Some, up \in [Users -> [pc : Places, n : Some, answer : Gcode]],
         NEW u \in Users, NEW from, NEW to \in Places, Step(u, from, to)
  PROVE  /\ up[u].pc = from /\ up'[u].pc = to
         /\ up'[u].n = up[u].n /\ up'[u].answer = up[u].answer
         /\ \A v \in Users \ {u} : up'[v] = up[v]
         /\ up' \in [Users -> [pc : Places, n : Some, answer : Gcode]]
  BY DEF Step

-----------------------------------------------------------------------------
(* Types                                                                   *)

LEMMA UploadTypes ==
  ASSUME TypeOK, NEW u \in Users, Upload(u)
  PROVE  TypeOK'
<1>1. uploads + 1 \in Uploads /\ 0 \in Uploads
  BY UploadsAssumption DEF Upload, TypeOK, Uploads
<1>2. None \in Gcode
  BY <1>1 DEF None, Gcode
<1>3. up' \in [Users -> [pc : Places, n : Uploads, answer : Gcode]]
  BY <1>1, <1>2 DEF Upload, TypeOK, Places
<1>4. overlapped' \in BOOLEAN
  BY DEF Upload, TypeOK
<1> QED
  BY <1>1, <1>3, <1>4 DEF Upload, TypeOK, listener

LEMMA DoPostTypes ==
  ASSUME TypeOK, NEW u \in Users, DoPost(u)
  PROVE  TypeOK'
<1>1. 0 \in Uploads /\ None \in Gcode
  BY UploadsAssumption DEF Uploads, None, Gcode
<1>2. up[u].n \in Uploads
  BY DEF TypeOK
<1>3. ASSUME NEW from, NEW to \in Places, Step(u, from, to)
      PROVE  up' \in [Users -> [pc : Places, n : Uploads, answer : Gcode]]
  BY <1>3, StepOf DEF TypeOK
<1>4. CASE ReadNgc(u)
  BY <1>4 DEF ReadNgc, TypeOK, Places, files, listener, past
<1>5. CASE DeleteNgc(u) \/ WriteSvg(u) \/ WriteCommand(u) \/ CreateSVGReceived(u) \/ SpinEnds(u)
  <2>1. up' \in [Users -> [pc : Places, n : Uploads, answer : Gcode]]
    BY <1>3, <1>5 DEF DeleteNgc, WriteSvg, WriteCommand, CreateSVGReceived, SpinEnds, Places
  <2> QED
    BY <1>1, <1>2, <1>5, <2>1 DEF DeleteNgc, WriteSvg, WriteCommand, CreateSVGReceived, SpinEnds,
                                  TypeOK, files, listener, past
<1>6. CASE DeleteDone(u) \/ DeleteCommand(u) \/ DeleteSVGReceived(u)
  <2>1. up' \in [Users -> [pc : Places, n : Uploads, answer : Gcode]]
    BY <1>3, <1>6 DEF DeleteDone, DeleteCommand, DeleteSVGReceived, Places
  <2> QED
    BY <1>1, <1>6, <2>1 DEF DeleteDone, DeleteCommand, DeleteSVGReceived, TypeOK, listener, past
<1> QED
  BY <1>4, <1>5, <1>6 DEF DoPost

LEMMA ListenerTypes ==
  ASSUME TypeOK, Listener
  PROVE  TypeOK'
<1>1. CASE TestLeftover \/ RemoveLeftover \/ SeeSVGReceived
  BY <1>1 DEF TestLeftover, RemoveLeftover, SeeSVGReceived, Listen, TypeOK, files, past
<1>2. CASE ReadCommand \/ LoadSvg \/ WriteGcodeDone
  BY <1>2 DEF ReadCommand, LoadSvg, WriteGcodeDone, Listen, TypeOK, files, past
<1>3. CASE SaveNgc
  BY <1>3 DEF SaveNgc, Listen, TypeOK, Gcode, past
<1> QED
  BY <1>1, <1>2, <1>3 DEF Listener

LEMMA TypesStep == TypeOK /\ [Next]_svgVars => TypeOK'
<1>1. ASSUME TypeOK, UNCHANGED svgVars
      PROVE  TypeOK'
  BY <1>1 DEF svgVars, files, listener, past, TypeOK
<1> QED
  BY <1>1, UploadTypes, DoPostTypes, ListenerTypes DEF Next

LEMMA TypesInit == Init => TypeOK
<1>1. 0 \in Uploads
  BY UploadsAssumption DEF Uploads
<1>2. None \in Gcode
  BY <1>1 DEF None, Gcode
<1>3. [pc |-> "idle", n |-> 0, answer |-> None] \in [pc : Places, n : Uploads, answer : Gcode]
  BY <1>1, <1>2 DEF Places
<1> QED
  BY <1>1, <1>2, <1>3 DEF Init, TypeOK

\* Types of the files and of the two programs, for any users and uploads.
THEOREM TypeCorrect == Spec => []TypeOK
  BY TypesInit, TypesStep, PTL DEF Spec

-----------------------------------------------------------------------------
(* One upload at a time: where the listener and the files are, given where *)
(* doPost is.                                                              *)

Active(u) == up[u].pc # "idle"
Spinning(u) == up[u].pc = "spin" /\ ~gcodeDone

\* At most one upload is under way, and has a number.
Alone ==
  /\ \A u, v \in Users : Active(u) /\ Active(v) => u = v
  /\ \A u \in Users : Active(u) => up[u].n # 0

\* The drawing and the command are there when the signal is given.
Written == \A u \in Users :
  /\ up[u].pc \in {"command", "alert", "spin"} => svg = up[u].n
  /\ up[u].pc \in {"alert", "spin"} => execCommand = up[u].n

\* The listener works only for an upload that waits for it.
Working ==
  lpc \in {"open", "load", "save", "done"} =>
    \E u \in Users :
      /\ Spinning(u)
      /\ lpc \in {"load", "save"} => command = up[u].n
      /\ lpc = "save" => drawing = up[u].n
      /\ lpc = "done" => ngc = Own(up[u].n)

\* gcodeDone tells the upload that waits for it that its G-code is there.
Ready == gcodeDone => \E u \in Users : up[u].pc \in {"spin", "deleteDone"} /\ ngc = Own(up[u].n)

Answered == \A u \in Users :
  /\ up[u].pc \in {"deleteDone", "read"} => ngc = Own(up[u].n)
  /\ up[u].pc \in {"deleteCommand", "deleteAlert"} => up[u].answer = Own(up[u].n)

\* A signal is that of the upload under way, and one the listener may act on
\* has not been acted on.
Signal ==
  SVGReceived => \E u \in Users :
    /\ up[u].pc \in {"spin", "deleteDone", "read", "deleteCommand", "deleteAlert"}
    /\ lpc = "wait" => Spinning(u)

Orderly == Alone /\ Written /\ Working /\ Ready /\ Answered /\ Signal
SvgInv  == TypeOK /\ (~overlapped => Orderly)

\* A new upload meets no other, so no signal, no gcodeDone, and a listener that
\* does not work.
LEMMA UploadKeeps ==
  ASSUME TypeOK, NEW u \in Users, Upload(u), Orderly, ~overlapped'
  PROVE  Orderly'
<1>1. /\ \A v \in Users : up[v].pc = "idle"
      /\ UNCHANGED <<ngc, execCommand, SVGReceived, gcodeDone, lpc, command, drawing>>
  BY DEF Upload, listener
<1>2. /\ up'[u].pc = "deleteNgc" /\ up'[u].n # 0
      /\ \A v \in Users \ {u} : up'[v] = up[v]
  BY DEF Upload, TypeOK, Uploads
<1>3. ~SVGReceived /\ ~gcodeDone /\ lpc \notin {"open", "load", "save", "done"}
  BY <1>1 DEF Orderly, Working, Ready, Signal, Spinning
<1> QED
  BY <1>1, <1>2, <1>3 DEF Orderly, Alone, Active, Written, Working, Ready, Answered, Signal

\* The others are idle while one upload is under way, before and after a step.
LEMMA OthersIdle ==
  ASSUME TypeOK, Alone, NEW u \in Users, Active(u), \A v \in Users \ {u} : up'[v] = up[v]
  PROVE  \A v \in Users \ {u} : up[v].pc = "idle" /\ up'[v].pc = "idle"
  BY DEF Alone, Active

LEMMA DoPostKeeps ==
  ASSUME TypeOK, NEW u \in Users, DoPost(u), Orderly
  PROVE  Orderly'
<1>1. CASE ReadNgc(u)
  <2>1. /\ up[u].pc = "read" /\ up'[u].pc = "deleteCommand"
        /\ up'[u].n = up[u].n /\ up'[u].answer = ngc
        /\ \A v \in Users \ {u} : up'[v] = up[v]
        /\ UNCHANGED <<files, listener, past>>
    BY <1>1 DEF ReadNgc, TypeOK
  <2>2. \A v \in Users \ {u} : up[v].pc = "idle" /\ up'[v].pc = "idle"
    BY <2>1, OthersIdle DEF Orderly, Active
  <2> QED
    BY <2>1, <2>2 DEF Orderly, Alone, Active, Written, Working, Ready, Answered, Signal,
                      Spinning, files, listener
<1>2. ASSUME NEW from \in Places \ {"idle"}, NEW to \in Places, Step(u, from, to)
      PROVE  /\ up[u].pc = from /\ up'[u].pc = to /\ up'[u].n = up[u].n
             /\ up'[u].answer = up[u].answer /\ up[u].n # 0
             /\ \A v \in Users \ {u} : /\ up[v].pc = "idle" /\ up'[v].pc = "idle"
                                       /\ up'[v] = up[v]
  <2>1. /\ up[u].pc = from /\ up'[u].pc = to
        /\ up'[u].n = up[u].n /\ up'[u].answer = up[u].answer
        /\ \A v \in Users \ {u} : up'[v] = up[v]
    <3>1. up \in [Users -> [pc : Places, n : Uploads, answer : Gcode]]
      BY DEF TypeOK
    <3> QED
      BY <3>1, <1>2 DEF Step
  <2>2. Active(u)
    BY <2>1 DEF Active
  <2> QED
    BY <2>1, <2>2, OthersIdle DEF Orderly, Alone
<1>3. CASE DeleteNgc(u)
  <2>1. Step(u, "deleteNgc", "writeSvg")
    BY <1>3 DEF DeleteNgc
  <2> QED
    BY <1>3, <2>1, <1>2 DEF DeleteNgc, Places, listener, Orderly, Alone, Active, Written, Working,
                            Ready, Answered, Signal, Spinning
<1>4. CASE WriteSvg(u)
  <2>1. Step(u, "writeSvg", "command")
    BY <1>4 DEF WriteSvg
  <2> QED
    BY <1>4, <2>1, <1>2 DEF WriteSvg, Places, listener, Orderly, Alone, Active, Written, Working,
                            Ready, Answered, Signal, Spinning
<1>5. CASE WriteCommand(u)
  <2>1. Step(u, "command", "alert")
    BY <1>5 DEF WriteCommand
  <2> QED
    BY <1>5, <2>1, <1>2 DEF WriteCommand, Places, listener, Orderly, Alone, Active, Written,
                            Working, Ready, Answered, Signal, Spinning
<1>6. CASE CreateSVGReceived(u)
  <2>1. Step(u, "alert", "spin")
    BY <1>6 DEF CreateSVGReceived
  <2> QED
    BY <1>6, <2>1, <1>2 DEF CreateSVGReceived, Places, listener, Orderly, Alone, Active, Written,
                            Working, Ready, Answered, Signal, Spinning
<1>7. CASE SpinEnds(u)
  <2>1. Step(u, "spin", "deleteDone")
    BY <1>7 DEF SpinEnds
  <2> QED
    BY <1>7, <2>1, <1>2 DEF SpinEnds, Places, files, listener, Orderly, Alone, Active, Written,
                            Working, Ready, Answered, Signal, Spinning
<1>8. CASE DeleteDone(u)
  <2>1. Step(u, "deleteDone", "read")
    BY <1>8 DEF DeleteDone
  <2> QED
    BY <1>8, <2>1, <1>2 DEF DeleteDone, Places, listener, Orderly, Alone, Active, Written, Working,
                            Ready, Answered, Signal, Spinning
<1>9. CASE DeleteCommand(u)
  <2>1. Step(u, "deleteCommand", "deleteAlert")
    BY <1>9 DEF DeleteCommand
  <2> QED
    BY <1>9, <2>1, <1>2 DEF DeleteCommand, Places, listener, Orderly, Alone, Active, Written,
                            Working, Ready, Answered, Signal, Spinning
<1>10. CASE DeleteSVGReceived(u)
  <2>1. Step(u, "deleteAlert", "idle")
    BY <1>10 DEF DeleteSVGReceived
  <2> QED
    BY <1>10, <2>1, <1>2 DEF DeleteSVGReceived, Places, listener, Orderly, Alone, Active, Written,
                             Working, Ready, Answered, Signal, Spinning
<1> QED
  BY <1>1, <1>3, <1>4, <1>5, <1>6, <1>7, <1>8, <1>9, <1>10 DEF DoPost

\* The listener finds the files of the upload that waits for it, and nothing
\* moves while it works.
LEMMA ListenerKeeps ==
  ASSUME TypeOK, Listener, Orderly
  PROVE  Orderly'
<1>1. CASE TestLeftover
  BY <1>1 DEF TestLeftover, Listen, files, Orderly, Alone, Active, Written, Working, Ready,
              Answered, Signal, Spinning
<1>2. CASE RemoveLeftover
  BY <1>2 DEF RemoveLeftover, Listen, Orderly, Alone, Active, Written, Working, Ready, Answered,
              Signal, Spinning
<1>3. CASE SeeSVGReceived
  BY <1>3 DEF SeeSVGReceived, Listen, files, Orderly, Alone, Active, Written, Working, Ready,
              Answered, Signal, Spinning
<1>4. ASSUME lpc \in {"open", "load", "save", "done"}
      PROVE  \E u \in Users : Spinning(u) /\ execCommand = up[u].n /\ svg = up[u].n /\ up[u].n # 0
  BY <1>4 DEF Orderly, Working, Written, Spinning, Alone, Active
<1>5. CASE ReadCommand
  BY <1>4, <1>5 DEF ReadCommand, Listen, files, Orderly, Alone, Active, Written, Working, Ready,
                    Answered, Signal, Spinning
<1>6. CASE LoadSvg
  BY <1>4, <1>6 DEF LoadSvg, Listen, files, Orderly, Alone, Active, Written, Working, Ready,
                    Answered, Signal, Spinning
<1>7. CASE SaveNgc
  BY <1>4, <1>7 DEF SaveNgc, Listen, Own, Orderly, Alone, Active, Written, Working, Ready,
                    Answered, Signal, Spinning
<1>8. CASE WriteGcodeDone
  BY <1>4, <1>8 DEF WriteGcodeDone, Listen, Orderly, Alone, Active, Written, Working, Ready,
                    Answered, Signal, Spinning
<1> QED
  BY <1>1, <1>2, <1>3, <1>5, <1>6, <1>7, <1>8 DEF Listener

LEMMA OrderlyInit == Init => Orderly
  BY DEF Init, Orderly, Alone, Active, Written, Working, Ready, Answered, Signal

LEMMA OrderlyStep == SvgInv /\ [Next]_svgVars => SvgInv'
<1> SUFFICES ASSUME SvgInv, [Next]_svgVars
             PROVE  SvgInv'
  OBVIOUS
<1>1. TypeOK /\ TypeOK'
  BY TypesStep DEF SvgInv
<1>2. CASE UNCHANGED svgVars
  BY <1>1, <1>2 DEF SvgInv, svgVars, files, listener, past, Orderly, Alone, Active, Written,
                    Working, Ready, Answered, Signal, Spinning
<1>3. CASE Listener
  <2>1. overlapped' = overlapped
    BY <1>3 DEF Listener, TestLeftover, RemoveLeftover, SeeSVGReceived, ReadCommand, LoadSvg,
                SaveNgc, WriteGcodeDone, past
  <2> QED
    BY <1>1, <1>3, <2>1, ListenerKeeps DEF SvgInv
<1>4. ASSUME NEW u \in Users, Upload(u)
      PROVE  SvgInv'
  <2>1. ~overlapped' => ~overlapped
    BY <1>4 DEF Upload
  <2> QED
    BY <1>1, <1>4, <2>1, UploadKeeps DEF SvgInv
<1>5. ASSUME NEW u \in Users, DoPost(u)
      PROVE  SvgInv'
  <2>1. overlapped' = overlapped
    BY <1>5 DEF DoPost, DeleteNgc, WriteSvg, WriteCommand, CreateSVGReceived, SpinEnds, DeleteDone,
                ReadNgc, DeleteCommand, DeleteSVGReceived, past
  <2> QED
    BY <1>1, <1>5, <2>1, DoPostKeeps DEF SvgInv
<1> QED
  BY <1>2, <1>3, <1>4, <1>5 DEF Next

LEMMA SvgInvariant == Spec => []SvgInv
<1>1. Init => SvgInv
  BY TypesInit, OrderlyInit DEF SvgInv
<1> QED
  BY <1>1, OrderlyStep, PTL DEF Spec

\* An upload that overlaps no other is answered with the G-code of its own
\* drawing and its own command, whenever the listener gets to it.
THEOREM AnswersAreOwn == Spec => []OwnGcode
<1>1. SvgInv => OwnGcode
  BY DEF SvgInv, Orderly, Answered, OwnGcode
<1> QED
  BY <1>1, SvgInvariant, PTL

\* The listener opens execCommand only when the command of the upload that
\* waits for it is there.
THEOREM CommandsAreThere == Spec => []ReadsItsCommand
<1>1. SvgInv => ReadsItsCommand
  BY DEF SvgInv, Orderly, Working, Written, Spinning, ReadsItsCommand
<1> QED
  BY <1>1, SvgInvariant, PTL
=============================================================================
