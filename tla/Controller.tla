----------------------------- MODULE Controller -----------------------------
(***************************************************************************)
(* CncInterface/src/com/servlet/Controller.java: the requests that change  *)
(* the shared state. Tomcat runs each request on a thread of its own: the  *)
(* requests on different connections race, whoever sent them, and a client *)
(* may have several connections. A request is one step per access to a     *)
(* shared field.                                                           *)
(***************************************************************************)
EXTENDS SharedState

CONSTANTS
  Connections,  \* the connections; each carries one request at a time
  Owner,        \* by connection: the id its client drew from its clock, never 0
  Jobs,         \* sequences of bodies a client may send as a job
  Toggles,      \* spindle states clients ask for
  Displayed,    \* lines a page may show the coordinates of when a button is pressed
  Buttons,      \* the axis and the increment in nm of the buttons looked at
  ZSafes,       \* safe heights a page may send, in nm
  Coordinates,  \* positions the setCoords request may carry
  Handshakes,   \* whether a client may ask for a handshake
  Stops,        \* whether a client may stop the machine
  MaxCommands   \* bound on the number of commands ever queued

ASSUME ControllerAssumption ==
  /\ Owner \in [Connections -> Nat \ {0}]
  /\ Jobs \subseteq Seq(Body)
  /\ Toggles \subseteq BOOLEAN
  /\ Displayed \subseteq PosLine /\ Coordinates \subseteq Position
  /\ Buttons \subseteq Axes \X Int /\ ZSafes \subseteq Int
  /\ Handshakes \in BOOLEAN /\ Stops \in BOOLEAN
  /\ MaxCommands \in Nat

VARIABLE req    \* by connection, what the running request has still to do

\* What is left of a request after the first access to the shared state.
SetFlag(on) == IF on THEN "setOn" ELSE "setOff"
Pending     == {"nothing", "setOn", "setOff", "addHome", "setSession", "clear"}

CtlTypeOK == req \in [Connections -> Pending]

CtlInit == req = [c \in Connections |-> "nothing"]

Later(c, rest) == req' = [req EXCEPT ![c] = rest]

\* queue.add and queue.addAll, which the queue makes atomic.
Add(bodies, by) ==
  /\ accepted + Len(bodies) <= MaxCommands
  /\ queue' = queue \o [i \in 1..Len(bodies) |-> Stamp(bodies[i], accepted + i, by)]
  /\ accepted' = accepted + Len(bodies)
  /\ UNCHANGED <<queueIsEmpty, linie, sessionId, spindleRunning, line, executed, dropped>>

-----------------------------------------------------------------------------
(* doGet                                                                   *)

\* Mutant: the flag is the state before the toggle.
ToggleShowsOld(c, on) ==
  /\ req[c] = "nothing"
  /\ Add(<<Spindle(on)>>, 0)
  /\ Later(c, SetFlag(~on))

\* toggleSpindle queues the order, then writes the flag the pages show.
ToggleSpindle(c, on) ==
  /\ req[c] = "nothing"
  /\ Add(<<Spindle(on)>>, 0)
  /\ Later(c, SetFlag(on))

SetSpindleRunning(c) ==
  \E on \in BOOLEAN :
    /\ req[c] = SetFlag(on)
    /\ spindleRunning' = on
    /\ Later(c, "nothing")
    /\ UNCHANGED <<queue, queueIsEmpty, linie, sessionId, line, history>>

\* The target of alterPosition is absolute: the coordinates the page showed,
\* one of them shifted. x and y travel together, z alone.
Altered(shown, axis, by) ==
  IF axis = "z" THEN [a \in {"z"} |-> shown[a] + by]
                ELSE [a \in {"x", "y"} |-> IF a = axis THEN shown[a] + by ELSE shown[a]]

\* What comes of the coordinates of the line shown. A rest with one '#' has the
\* spindle's state for z; its first number may be no number, and the job is not
\* made; and it may be empty, and then the firmware takes y for x.
Alterations(shown, axis, by) ==
  LET shift == <<GoTo(Altered(shown.mm, axis, by))>>
  IN  IF shown.kind = "full" THEN {shift}
      ELSE CASE axis = "x" -> {shift, <<>>}
             [] axis = "y" -> {shift, <<GoTo(Altered(shown.mm, "x", by))>>}
             [] axis = "z" -> {IF shown.kind = "one" THEN <<>> ELSE shift}

AlterPosition(c, shown, axis, by) ==
  /\ req[c] = "nothing"
  /\ \E job \in Alterations(shown, axis, by) : Add(job, 0)
  /\ Later(c, "nothing")

\* zeroMachine lifts the tool first and goes home with a second add.
ZeroMachine(c, zSafe) ==
  /\ req[c] = "nothing"
  /\ Add(<<GoTo([a \in {"z"} |-> zSafe])>>, 0)
  /\ Later(c, "addHome")

ZeroMachineHome(c) ==
  /\ req[c] = "addHome"
  /\ Add(<<GoTo([a \in {"x", "y"} |-> 0])>>, 0)
  /\ Later(c, "nothing")

MakeHandshake(c) ==
  /\ Handshakes /\ req[c] = "nothing"
  /\ Add(<<HandShake>>, 0)
  /\ Later(c, "nothing")

SetCoords(c, coords) ==
  /\ req[c] = "nothing"
  /\ Add(<<GoTo(coords)>>, 0)
  /\ Later(c, "nothing")

-----------------------------------------------------------------------------
(* doPost                                                                  *)

\* sendToCnc queues the whole job, then claims the machine for its sender.
SendToCnc(c, job) ==
  /\ req[c] = "nothing"
  /\ Add(job, Owner[c])
  /\ Later(c, "setSession")

SetSession(c) ==
  /\ req[c] = "setSession"
  /\ sessionId' = Owner[c]
  /\ Later(c, "nothing")
  /\ UNCHANGED <<queue, queueIsEmpty, linie, spindleRunning, line, history>>

StopCnc(c) ==
  /\ Stops /\ req[c] = "nothing"
  /\ Later(c, "clear")
  /\ UNCHANGED <<line, statics, history>>

\* queue.clear() polls until it finds the queue empty.
ClearPoll(c) ==
  /\ req[c] = "clear" /\ queue # <<>>
  /\ queue' = Tail(queue)
  /\ dropped' = dropped \cup Ids(<<Head(queue)>>)
  /\ UNCHANGED <<req, queueIsEmpty, linie, sessionId, spindleRunning, line, accepted, executed>>

ClearDone(c) ==
  /\ req[c] = "clear" /\ queue = <<>>
  /\ Later(c, "nothing")
  /\ UNCHANGED <<line, statics, history>>

-----------------------------------------------------------------------------
(* A request as it comes over a connection: doGet and doPost act on its    *)
(* action, and take the parameters that action has.                        *)

Handle(r, c) ==
  \/ r.act \in {"on", "off"} /\ ToggleSpindle(c, r.act = "on")
  \/ r.act = "alter" /\ AlterPosition(c, r.shown, r.axis, r.by)
  \/ r.act = "zero" /\ ZeroMachine(c, r.by)
  \/ r.act = "send" /\ SendToCnc(c, r.job)
  \/ r.act = "stop" /\ StopCnc(c)

(* A new request is the client's choice; a request under way runs on.      *)

CtlRequest(c) ==
  \/ \E on \in Toggles : ToggleSpindle(c, on)
  \/ \E shown \in Displayed, b \in Buttons : AlterPosition(c, shown, b[1], b[2])
  \/ \E zSafe \in ZSafes : ZeroMachine(c, zSafe)
  \/ MakeHandshake(c)
  \/ \E coords \in Coordinates : SetCoords(c, coords)
  \/ \E job \in Jobs : SendToCnc(c, job)
  \/ StopCnc(c)

CtlContinue(c) ==
  \/ SetSpindleRunning(c) \/ ZeroMachineHome(c) \/ SetSession(c)
  \/ ClearPoll(c) \/ ClearDone(c)
=============================================================================
