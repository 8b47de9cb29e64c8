---------------------------- MODULE WebLinkProofs ----------------------------
(***************************************************************************)
(* WebLink, for any pages, ids, jobs and sizes of the sockets: types, that *)
(* a page shows in the end what its thread last sent, and that pin, flag   *)
(* and a page that toggles alone agree on the spindle when nothing is      *)
(* under way.                                                              *)
(***************************************************************************)
EXTENDS WebLink, ServingProofs

-----------------------------------------------------------------------------
(* Data                                                                    *)

LEMMA StatusData ==
  /\ InUse \in Status /\ Nothing \in Status
  /\ InUse.line.kind = "tail" /\ Nothing.line.kind = "tail"
  /\ InUse # Nothing
  /\ \A pc \in {"new", "id", "zero", "linie", "spindle", "queue", "stopped"}, old \in Status :
       /\ ThreadAt(pc, old) \in Thread
       /\ ThreadAt(pc, old).pc = pc /\ ThreadAt(pc, old).old = old
<1>1. InUse \in Status /\ Nothing \in Status
  BY PositionData DEF InUse, Nothing, Status
<1>2. InUse.line.kind = "tail" /\ Nothing.line.kind = "tail"
  BY LineData DEF InUse, Nothing
<1>3. InUse # Nothing
  <2>1. InUse.spindle = TRUE /\ Nothing.spindle = FALSE
    BY DEF InUse, Nothing
  <2> QED
    BY <2>1
<1>4. ASSUME NEW pc \in {"new", "id", "zero", "linie", "spindle", "queue", "stopped"},
             NEW old \in Status
      PROVE  /\ ThreadAt(pc, old) \in Thread
             /\ ThreadAt(pc, old).pc = pc /\ ThreadAt(pc, old).old = old
  BY <1>1 DEF ThreadAt, Thread
<1> QED
  BY <1>1, <1>2, <1>3, <1>4

LEMMA PageData ==
  \A tab \in {"new", "open", "closed"} :
    /\ Loaded(tab) \in PageState
    /\ Loaded(tab).tab = tab /\ Loaded(tab).shown = Nothing /\ Loaded(tab).odd = FALSE
    /\ Loaded(tab).box = BoxOf(Nothing) /\ Loaded(tab).running = RunningOf(Nothing)
<1> SUFFICES ASSUME NEW tab \in {"new", "open", "closed"}
             PROVE  /\ Loaded(tab) \in PageState
                    /\ Loaded(tab).tab = tab /\ Loaded(tab).shown = Nothing /\ Loaded(tab).odd = FALSE
                    /\ Loaded(tab).box = BoxOf(Nothing) /\ Loaded(tab).running = RunningOf(Nothing)
  OBVIOUS
<1>1. Nothing.line.kind # "one" /\ Nothing.spindle = FALSE /\ Nothing.busy = FALSE
  BY StatusData DEF Nothing
<1>2. BoxOf(Nothing) = FALSE /\ RunningOf(Nothing) = "off"
  BY <1>1 DEF BoxOf, RunningOf
<1> QED
  BY <1>2, StatusData DEF Loaded, PageState

\* The fields of a status, and the requests a page can make.
LEMMA FieldData ==
  ASSUME NEW status \in Status
  PROVE  BoxOf(status) \in BOOLEAN /\ RunningOf(status) \in {"off", "on", "undefined"}
<1>1. status.spindle \in BOOLEAN /\ status.busy \in BOOLEAN
  BY DEF Status
<1> QED
  BY <1>1 DEF BoxOf, RunningOf

LEMMA AskData ==
  /\ \A act \in Acts \cup {"none"} : Simple(act) \in Asked /\ Simple(act).act = act
  /\ \A act \in Acts, shown \in PosLine, axis \in Axes, by \in Int, job \in Jobs \cup {<<>>} :
       /\ Ask(act, shown, axis, by, job) \in Asked /\ Ask(act, shown, axis, by, job).act = act
  /\ {"on", "off", "alter", "zero", "send", "stop"} \subseteq Acts
<1>1. NoLine \in PosLine /\ "x" \in Axes
  BY PositionData DEF NoLine, Axes
<1> QED
  BY <1>1 DEF Simple, Ask, Asked, Acts

\* The types of one thread and one page.
LEMMA WebTypes ==
  ASSUME WebTypeOK
  PROVE  /\ ServingTypeOK
         /\ push \in [Pages -> Thread] /\ ws \in [Pages -> Seq(Status)]
         /\ page \in [Pages -> PageState] /\ net \in [Connections -> Asked]
         /\ quota \in [Acts -> Nat] /\ alone \subseteq Pages
         /\ linie \in PosLine /\ spindleRunning \in BOOLEAN /\ queueIsEmpty \in BOOLEAN
         /\ \A p \in Pages : IdOf[p] \in Nat
  BY WSocketAssumption
     DEF WebTypeOK, ServingTypeOK, SharedTypeOK, SocketTypeOK, PageTypeOK, QuotaTypeOK

LEMMA ThreadTypes ==
  ASSUME WebTypeOK, NEW p \in Pages
  PROVE  /\ push[p] \in Thread /\ ws[p] \in Seq(Status) /\ page[p] \in PageState
         /\ push[p].pc \in {"new", "id", "zero", "linie", "spindle", "queue", "stopped"}
         /\ push[p].old \in Status /\ push[p].snap \in Status /\ push[p].sentFlag \in BOOLEAN
<1>1. push[p] \in Thread /\ ws[p] \in Seq(Status) /\ page[p] \in PageState
  BY WebTypes
<1> QED
  BY <1>1 DEF Thread

-----------------------------------------------------------------------------
(* What the steps do to one thread, one socket and one page                *)

\* What a read of the push thread of p can do: nothing to the other pages, a
\* field of its own copy, or a message that becomes oldLine.
PushEffect(p) ==
  /\ push' \in [Pages -> Thread] /\ ws' \in [Pages -> Seq(Status)] /\ links' = links
  /\ \A q \in Pages : q # p => push'[q] = push[q] /\ ws'[q] = ws[q]
  /\ push[p].pc # "new" /\ push'[p].pc # "new"
  /\ push'[p].pc = "spindle" => push'[p].snap.line = linie
  /\ push'[p].pc = "queue" => push[p].pc = "spindle" /\ push'[p].snap.line = push[p].snap.line
  /\ \/ ws'[p] = ws[p] /\ push'[p].old = push[p].old
     \/ ws'[p] = Append(ws[p], InUse) /\ push'[p].old = push[p].old
     \/ \E msg \in Status :
          /\ push[p].pc = "queue" /\ msg.line = push[p].snap.line
          /\ ws'[p] = Append(ws[p], msg) /\ push'[p].old = msg

LEMMA PushSteps ==
  ASSUME WebTypeOK, NEW p \in Pages, PushNext(p)
  PROVE  PushEffect(p)
<1>1. /\ push \in [Pages -> Thread] /\ ws \in [Pages -> Seq(Status)]
      /\ push[p] \in Thread /\ ws[p] \in Seq(Status)
      /\ push[p].pc \in {"new", "id", "zero", "linie", "spindle", "queue", "stopped"}
      /\ push[p].old \in Status /\ push[p].snap \in Status /\ push[p].sentFlag \in BOOLEAN
      /\ linie \in PosLine /\ spindleRunning \in BOOLEAN /\ queueIsEmpty \in BOOLEAN
  BY WebTypes, ThreadTypes
<1>2. ASSUME NEW pc \in {"id", "zero", "linie"}, Step(p, pc)
      PROVE  /\ push' \in [Pages -> Thread]
             /\ \A q \in Pages : q # p => push'[q] = push[q]
             /\ push'[p].pc = pc /\ push'[p].old = push[p].old
  <2>1. push' = [push EXCEPT ![p] = [push[p] EXCEPT !.pc = pc]]
    BY <1>2 DEF Step
  <2>2. [push[p] EXCEPT !.pc = pc] \in Thread
    BY <1>1 DEF Thread
  <2>3. [push[p] EXCEPT !.pc = pc].pc = pc /\ [push[p] EXCEPT !.pc = pc].old = push[p].old
    BY <1>1 DEF Thread
  <2> QED
    BY <1>1, <2>1, <2>2, <2>3
<1>3. CASE ReadId(p)
  <2>1. /\ push[p].pc = "id" /\ ws' = ws /\ links' = links
        /\ \E pc \in {"zero", "linie"} : Step(p, pc)
    BY <1>3 DEF ReadId
  <2> QED
    BY <1>1, <1>2, <2>1 DEF PushEffect
<1>4. CASE ReadZero(p)
  <2>1. CASE sessionId = 0 \/ push[p].sentFlag
    <3>1. /\ push[p].pc = "zero" /\ ws' = ws /\ links' = links
          /\ \E pc \in {"id", "linie"} : Step(p, pc)
      BY <1>4, <2>1 DEF ReadZero
    <3> QED
      BY <1>1, <1>2, <3>1 DEF PushEffect
  <2>2. CASE ~(sessionId = 0 \/ push[p].sentFlag)
    <3> DEFINE t == [push[p] EXCEPT !.pc = "id", !.sentFlag = TRUE]
    <3>1. /\ push[p].pc = "zero" /\ links' = links
          /\ ws' = [ws EXCEPT ![p] = Append(ws[p], InUse)]
          /\ push' = [push EXCEPT ![p] = t]
      BY <1>4, <2>2 DEF ReadZero, Message
    <3>2. t \in Thread /\ t.pc = "id" /\ t.old = push[p].old
      BY <1>1 DEF Thread
    <3> HIDE DEF t
    <3>3. Append(ws[p], InUse) \in Seq(Status)
      BY <1>1, StatusData, AppendProperties
    <3> QED
      BY <1>1, <3>1, <3>2, <3>3 DEF PushEffect
  <2> QED
    BY <2>1, <2>2
<1>5. CASE ReadLinie(p)
  <2> DEFINE t == [push[p] EXCEPT !.pc = "spindle", !.snap = [push[p].snap EXCEPT !.line = linie]]
  <2>1. push[p].pc = "linie" /\ push' = [push EXCEPT ![p] = t] /\ ws' = ws /\ links' = links
    BY <1>5 DEF ReadLinie
  <2>2. [push[p].snap EXCEPT !.line = linie] \in Status
        /\ [push[p].snap EXCEPT !.line = linie].line = linie
    BY <1>1 DEF Status
  <2>3. t \in Thread /\ t.pc = "spindle" /\ t.old = push[p].old /\ t.snap.line = linie
    BY <1>1, <2>2 DEF Thread
  <2> HIDE DEF t
  <2> QED
    BY <1>1, <2>1, <2>3 DEF PushEffect
<1>6. CASE ReadSpindle(p)
  <2> DEFINE s == [push[p].snap EXCEPT !.spindle = spindleRunning]
             t == [push[p] EXCEPT !.pc = "queue", !.snap = s]
  <2>1. push[p].pc = "spindle" /\ push' = [push EXCEPT ![p] = t] /\ ws' = ws /\ links' = links
    BY <1>6 DEF ReadSpindle
  <2>2. s \in Status /\ s.line = push[p].snap.line
    BY <1>1 DEF Status
  <2>3. t \in Thread /\ t.pc = "queue" /\ t.old = push[p].old /\ t.snap.line = push[p].snap.line
    BY <1>1, <2>2 DEF Thread
  <2> HIDE DEF s, t
  <2> QED
    BY <1>1, <2>1, <2>3 DEF PushEffect
<1>7. CASE ReadQueue(p)
  <2> DEFINE msg == [push[p].snap EXCEPT !.busy = ~queueIsEmpty]
  <2>1. /\ push[p].pc = "queue" /\ links' = links
        /\ IF msg = push[p].old THEN ws' = ws ELSE ws' = [ws EXCEPT ![p] = Append(ws[p], msg)]
        /\ push' = [push EXCEPT ![p] = ThreadAt("id", msg)]
    BY <1>7 DEF ReadQueue, Message
  <2>2. msg \in Status /\ msg.line = push[p].snap.line
    BY <1>1 DEF Status
  <2> HIDE DEF msg
  <2>3. /\ ThreadAt("id", msg) \in Thread
        /\ ThreadAt("id", msg).pc = "id" /\ ThreadAt("id", msg).old = msg
    BY <2>2, StatusData
  <2>4. Append(ws[p], msg) \in Seq(Status)
    BY <1>1, <2>2, AppendProperties
  <2> QED
    BY <1>1, <2>1, <2>2, <2>3, <2>4 DEF PushEffect
<1> QED
  BY <1>3, <1>4, <1>5, <1>6, <1>7 DEF PushNext

\* What the buttons of p can do: they put one request on a connection that has
\* none, and count those that toggle the spindle.
PressEffect(p) ==
  /\ page' \in [Pages -> PageState] /\ net' \in [Connections -> Asked] /\ quota' \in [Acts -> Nat]
  /\ \A q \in Pages : q # p => page'[q] = page[q]
  /\ page[p].tab = "open" /\ page'[p].tab = "open" /\ page'[p].shown = page[p].shown
  /\ page'[p].touched \/ page'[p] = page[p]
  /\ \E c \in Connections :
       /\ req[c] = "nothing" /\ net[c].act = "none"
       /\ \A d \in Connections : d # c => net'[d] = net[d]
       /\ \/ page'[p].odd = page[p].odd /\ net'[c].act \notin {"on", "off"}
          \/ /\ page'[p].odd = ~page[p].odd
             /\ net'[c].act = IF page[p].odd THEN "off" ELSE "on"

LEMMA UseTyped ==
  ASSUME quota \in [Acts -> Nat], NEW act \in Acts, Use(act)
  PROVE  quota' \in [Acts -> Nat]
<1>1. quota[act] \in Nat /\ quota[act] > 0 /\ quota' = [quota EXCEPT ![act] = quota[act] - 1]
  BY DEF Use
<1>2. quota[act] - 1 \in Nat
  BY <1>1
<1> QED
  BY <1>1, <1>2

LEMMA AjaxEffect ==
  ASSUME WebTypeOK, NEW p, NEW r \in Asked, r.act \in Acts, Ajax(p, r)
  PROVE  /\ net' \in [Connections -> Asked] /\ quota' \in [Acts -> Nat]
         /\ \E c \in Connections :
              /\ req[c] = "nothing" /\ net[c].act = "none"
              /\ net'[c] = r /\ \A d \in Connections : d # c => net'[d] = net[d]
<1>1. net \in [Connections -> Asked] /\ quota \in [Acts -> Nat]
  BY WebTypes
<1>2. quota' \in [Acts -> Nat]
  BY <1>1, UseTyped DEF Ajax
<1>3. PICK c \in Connections :
         req[c] = "nothing" /\ net[c].act = "none" /\ net' = [net EXCEPT ![c] = r]
  <2> DEFINE c == CHOOSE d \in Free(p) : TRUE
  <2>1. c \in Free(p) /\ net' = [net EXCEPT ![c] = r]
    BY DEF Ajax
  <2>2. c \in Connections /\ req[c] = "nothing" /\ net[c].act = "none"
    BY <2>1 DEF Free
  <2> QED
    BY <2>1, <2>2
<1> QED
  BY <1>1, <1>2, <1>3

LEMMA PressSteps ==
  ASSUME WebTypeOK, NEW p \in Pages, Press(p)
  PROVE  PressEffect(p)
<1>1. page \in [Pages -> PageState] /\ page[p] \in PageState /\ page[p].tab = "open"
  BY WebTypes, ThreadTypes DEF Press
<1>2. page[p].odd \in BOOLEAN /\ page[p].box \in BOOLEAN /\ page[p].shown.line \in PosLine
  <2>1. page[p].odd \in BOOLEAN /\ page[p].box \in BOOLEAN /\ page[p].shown \in Status
    BY <1>1 DEF PageState
  <2>2. \A status \in Status : status.line \in PosLine
    BY DEF Status
  <2> QED
    BY <2>1, <2>2
<1>3. ASSUME NEW r \in Asked, r.act \in Acts \ {"on", "off"}, Ajax(p, r),
             page' \in [Pages -> PageState], \A q \in Pages : q # p => page'[q] = page[q],
             page'[p].tab = "open", page'[p].shown = page[p].shown, page'[p].odd = page[p].odd,
             page'[p].touched \/ page'[p] = page[p]
      PROVE  PressEffect(p)
  BY <1>1, <1>3, AjaxEffect DEF PressEffect
<1>4. ASSUME NEW job \in Jobs, PressSend(p, job) PROVE PressEffect(p)
  <2>1. PICK state \in {"off", "on"}, r \in {Ask("send", NoLine, "x", 0, job), Simple("stop")} :
          Ajax(p, r) /\ page' = [page EXCEPT ![p].running = state, ![p].touched = TRUE]
    BY <1>4, Zenon DEF PressSend
  <2>2. r \in Asked /\ r.act \in Acts \ {"on", "off"}
    <3>1. NoLine \in PosLine /\ "x" \in Axes /\ 0 \in Int /\ job \in Jobs \cup {<<>>}
      BY PositionData DEF NoLine, Axes
    <3>2. /\ Ask("send", NoLine, "x", 0, job) \in Asked /\ Ask("send", NoLine, "x", 0, job).act = "send"
          /\ Simple("stop") \in Asked /\ Simple("stop").act = "stop"
      BY <3>1, AskData
    <3> QED
      BY <2>1, <3>2, AskData
  <2> DEFINE new == [page[p] EXCEPT !.running = state, !.touched = TRUE]
  <2>3. /\ new \in PageState /\ new.tab = page[p].tab /\ new.shown = page[p].shown
        /\ new.odd = page[p].odd /\ new.touched
    BY <1>1 DEF PageState
  <2>4. page' = [page EXCEPT ![p] = new]
    BY <2>1
  <2> HIDE DEF new
  <2> QED
    BY <1>1, <1>3, <2>1, <2>2, <2>3, <2>4
<1>5. CASE PressToggle(p)
  <2> DEFINE new == [page[p] EXCEPT !.odd = ~page[p].odd, !.box = ~page[p].box, !.touched = TRUE]
             r   == Simple(IF page[p].odd THEN "off" ELSE "on")
  <2>1. Ajax(p, r) /\ page' = [page EXCEPT ![p] = new]
    BY <1>5 DEF PressToggle
  <2>2. /\ new \in PageState /\ new.tab = page[p].tab /\ new.shown = page[p].shown
        /\ new.odd = ~page[p].odd /\ new.touched
    BY <1>1, <1>2 DEF PageState
  <2>3. r \in Asked /\ r.act \in Acts /\ r.act = IF page[p].odd THEN "off" ELSE "on"
    BY AskData
  <2> HIDE DEF new, r
  <2>4. /\ page' \in [Pages -> PageState] /\ \A q \in Pages : q # p => page'[q] = page[q]
        /\ page'[p].tab = "open" /\ page'[p].shown = page[p].shown
        /\ page'[p].odd = ~page[p].odd /\ page'[p].touched
    BY <1>1, <2>1, <2>2
  <2> QED
    BY <1>1, <2>1, <2>3, <2>4, AjaxEffect DEF PressEffect
<1>6. ASSUME NEW b \in Buttons, PressAlter(p, b[1], b[2]) PROVE PressEffect(p)
  <2> DEFINE r == Ask("alter", page[p].shown.line, b[1], b[2], <<>>)
  <2>1. b[1] \in Axes /\ b[2] \in Int
    BY ControllerAssumption
  <2>2. Ajax(p, r) /\ page' = page
    BY <1>6 DEF PressAlter
  <2>3. r \in Asked /\ r.act = "alter" /\ "alter" \in Acts
    BY <1>2, <2>1, AskData
  <2> HIDE DEF r
  <2> QED
    BY <1>1, <1>3, <2>2, <2>3
<1>7. ASSUME NEW zSafe \in ZSafes, PressZero(p, zSafe)
      PROVE  PressEffect(p)
  <2> DEFINE r == Ask("zero", NoLine, "x", zSafe, <<>>)
  <2>1. zSafe \in Int /\ NoLine \in PosLine /\ "x" \in Axes
    BY ControllerAssumption, PositionData DEF NoLine, Axes
  <2>2. Ajax(p, r) /\ page' = page
    BY <1>7 DEF PressZero
  <2>3. r \in Asked /\ r.act = "zero" /\ "zero" \in Acts
    BY <2>1, AskData
  <2> HIDE DEF r
  <2> QED
    BY <1>1, <1>3, <2>2, <2>3
<1> QED
  BY <1>4, <1>5, <1>6, <1>7 DEF Press

\* What handling a message does: the page shows the status, and its controls do.
MessageEffect(p) ==
  /\ page[p].tab = "open" /\ ws[p] # <<>>
  /\ ws' = [ws EXCEPT ![p] = Tail(ws[p])] /\ ws' \in [Pages -> Seq(Status)]
  /\ page' \in [Pages -> PageState]
  /\ \A q \in Pages : q # p => page'[q] = page[q]
  /\ page'[p].tab = "open" /\ page'[p].odd = page[p].odd
  /\ LET msg == Head(ws[p])
     IN  \/ /\ msg = InUse \/ msg.line.kind = "none"
            /\ page'[p].shown = page[p].shown /\ page'[p].box = page[p].box
            /\ page'[p].running = page[p].running /\ page'[p].touched = page[p].touched
         \/ /\ msg # InUse /\ page'[p].shown = msg
            /\ page'[p].box = BoxOf(msg) /\ page'[p].running = RunningOf(msg)
  /\ UNCHANGED <<push, links>>

LEMMA MessageSteps ==
  ASSUME WebTypeOK, NEW p \in Pages, OnMessage(p)
  PROVE  MessageEffect(p)
<1> DEFINE msg == Head(ws[p])
<1>1. /\ page \in [Pages -> PageState] /\ page[p] \in PageState
      /\ ws \in [Pages -> Seq(Status)] /\ ws[p] \in Seq(Status)
  BY WebTypes, ThreadTypes
<1>2. /\ page[p].tab = "open" /\ ws[p] # <<>> /\ UNCHANGED <<push, links>>
      /\ ws' = [ws EXCEPT ![p] = Tail(ws[p])]
  BY DEF OnMessage
<1>3. msg \in Status /\ Tail(ws[p]) \in Seq(Status)
  BY <1>1, <1>2, HeadTail
<1>4. ws' \in [Pages -> Seq(Status)]
  BY <1>1, <1>2, <1>3
<1>5. CASE msg = InUse \/ msg.line.kind = "none"
  <2> DEFINE new(b) == [page[p] EXCEPT !.blocked = b]
  <2>1. PICK b \in BOOLEAN : page' = [page EXCEPT ![p] = new(b)]
    BY <1>5 DEF OnMessage
  <2>2. /\ new(b) \in PageState /\ new(b).tab = page[p].tab /\ new(b).shown = page[p].shown
        /\ new(b).odd = page[p].odd /\ new(b).box = page[p].box
        /\ new(b).running = page[p].running /\ new(b).touched = page[p].touched
    BY <1>1 DEF PageState
  <2> HIDE DEF new
  <2>3. /\ page' \in [Pages -> PageState] /\ page'[p] = new(b)
        /\ \A q \in Pages : q # p => page'[q] = page[q]
    BY <1>1, <2>1, <2>2
  <2> QED
    BY <1>2, <1>4, <1>5, <2>2, <2>3 DEF MessageEffect
<1>6. CASE ~(msg = InUse \/ msg.line.kind = "none")
  <2> DEFINE new == [page[p] EXCEPT !.blocked = FALSE, !.shown = msg, !.box = BoxOf(msg),
                       !.running = RunningOf(msg), !.touched = FALSE]
  <2>1. page' = [page EXCEPT ![p] = new]
    BY <1>6 DEF OnMessage
  <2>2. BoxOf(msg) \in BOOLEAN /\ RunningOf(msg) \in {"off", "on", "undefined"}
    BY <1>3, FieldData
  <2>3. /\ new \in PageState /\ new.tab = page[p].tab /\ new.shown = msg /\ new.odd = page[p].odd
        /\ new.box = BoxOf(msg) /\ new.running = RunningOf(msg)
    BY <1>1, <1>3, <2>2 DEF PageState
  <2> HIDE DEF new
  <2>4. /\ page' \in [Pages -> PageState] /\ page'[p] = new
        /\ \A q \in Pages : q # p => page'[q] = page[q]
    BY <1>1, <2>1, <2>3
  <2> HIDE DEF msg
  <2> QED
    BY <1>2, <1>4, <1>6, <2>3, <2>4 DEF MessageEffect, msg
<1> QED
  BY <1>5, <1>6

\* A request that arrives is one its page has made.
LEMMA ArriveAsks ==
  ASSUME WebTypeOK, NEW c \in Connections, Arrive(c)
  PROVE  /\ Asks(c) /\ net' \in [Connections -> Asked] /\ net'[c] = Simple("none")
         /\ \A d \in Connections : d # c => net'[d] = net[d]
<1>1. net \in [Connections -> Asked] /\ net[c] \in Asked
  BY WebTypes
<1>2. /\ net[c].shown \in PosLine /\ net[c].axis \in Axes /\ net[c].by \in Int
      /\ net[c].job \in Seq(Body)
  <2>1. Jobs \cup {<<>>} \subseteq Seq(Body)
    <3>1. <<>> \in Seq(Body)
      OBVIOUS
    <3> QED
      BY <3>1, ControllerAssumption
  <2> QED
    BY <1>1, <2>1 DEF Asked
<1>3. Asks(c)
  BY <1>2, HandleAsks DEF Arrive
<1> QED
  BY <1>1, <1>3, AskData DEF Arrive

\* Whoever a request comes from, it is one of Asks, and then it runs on.
LEMMA ConnectionSteps ==
  ASSUME WebTypeOK, NEW c \in Connections, Others(c) \/ Arrival(c) \/ RequestStep(c)
  PROVE  Asks(c) \/ CtlContinue(c)
<1>1. CASE Others(c)
  BY <1>1, ControllerAssumption, Zenon DEF Others, Asks
<1>2. CASE Arrival(c)
  BY <1>2, ArriveAsks DEF Arrival
<1>3. CASE RequestStep(c)
  BY <1>3 DEF RequestStep
<1> QED
  BY <1>1, <1>2, <1>3

\* A tab comes with its thread; a tab that is closed takes a thread with it.
LEMMA OpenFacts ==
  ASSUME WebTypeOK, NEW p \in Pages, OpenTab(p)
  PROVE  /\ page[p].tab = "new" /\ ws' = ws
         /\ page' = [page EXCEPT ![p] = Loaded("open")] /\ page' \in [Pages -> PageState]
         /\ push' \in [Pages -> Thread]
         /\ push'[p].pc = "linie" /\ push'[p].old = push[p].old
         /\ \A q \in Pages : q # p => push'[q] = push[q]
         /\ \A id \in DOMAIN links' : \/ id = IdOf[p] /\ links'[id] = p
                                      \/ id \in DOMAIN links /\ links'[id] = links[id]
<1>1. /\ push \in [Pages -> Thread] /\ push[p] \in Thread /\ page \in [Pages -> PageState]
  BY WebTypes, ThreadTypes
<1>2. [push[p] EXCEPT !.pc = "linie"] \in Thread
      /\ [push[p] EXCEPT !.pc = "linie"].pc = "linie"
      /\ [push[p] EXCEPT !.pc = "linie"].old = push[p].old
  BY <1>1 DEF Thread
<1>3. push' = [push EXCEPT ![p] = [push[p] EXCEPT !.pc = "linie"]]
  BY DEF OpenTab, OnOpen, Step
<1>4. /\ push' \in [Pages -> Thread]
      /\ push'[p].pc = "linie" /\ push'[p].old = push[p].old
      /\ \A q \in Pages : q # p => push'[q] = push[q]
  BY <1>1, <1>2, <1>3
<1>5. page' \in [Pages -> PageState]
  BY <1>1, PageData DEF OpenTab
<1>6. \A id \in DOMAIN links' : \/ id = IdOf[p] /\ links'[id] = p
                                \/ id \in DOMAIN links /\ links'[id] = links[id]
  BY DEF OpenTab, OnOpen
<1> QED
  BY <1>4, <1>5, <1>6 DEF OpenTab, OnOpen

LEMMA CloseFacts ==
  ASSUME WebTypeOK, NEW p \in Pages, CloseTab(p)
  PROVE  /\ page[p].tab = "open"
         /\ page' = [page EXCEPT ![p] = Loaded("closed")] /\ page' \in [Pages -> PageState]
         /\ ws' = [ws EXCEPT ![p] = <<>>] /\ ws' \in [Pages -> Seq(Status)]
         /\ push' \in [Pages -> Thread]
         /\ \A q \in Pages : /\ (IdOf[p] \in DOMAIN links => q # links[IdOf[p]]) => push'[q] = push[q]
                             /\ push'[q] = push[q] \/ push'[q].pc = "stopped"
         /\ \A id \in DOMAIN links' : id \in DOMAIN links /\ links'[id] = links[id]
<1>1. /\ push \in [Pages -> Thread] /\ page \in [Pages -> PageState] /\ ws \in [Pages -> Seq(Status)]
      /\ \A id \in DOMAIN links : links[id] \in Pages
  BY WebTypes DEF WebTypeOK, SocketTypeOK
<1>2. ThreadAt("stopped", Nothing) \in Thread /\ ThreadAt("stopped", Nothing).pc = "stopped"
  BY StatusData
<1>3. push' = IF IdOf[p] \in DOMAIN links
              THEN [push EXCEPT ![links[IdOf[p]]] = ThreadAt("stopped", Nothing)] ELSE push
  BY DEF CloseTab, OnClose
<1>4. /\ push' \in [Pages -> Thread]
      /\ \A q \in Pages : /\ (IdOf[p] \in DOMAIN links => q # links[IdOf[p]]) => push'[q] = push[q]
                          /\ push'[q] = push[q] \/ push'[q].pc = "stopped"
  BY <1>1, <1>2, <1>3
<1>5. page' \in [Pages -> PageState]
  BY <1>1, PageData DEF CloseTab
<1>6. ws' \in [Pages -> Seq(Status)] /\ ws' = [ws EXCEPT ![p] = <<>>]
  BY <1>1 DEF CloseTab, OnClose
<1>7. \A id \in DOMAIN links' : id \in DOMAIN links /\ links'[id] = links[id]
  BY DEF CloseTab, OnClose
<1> QED
  BY <1>4, <1>5, <1>6, <1>7 DEF CloseTab

-----------------------------------------------------------------------------
(* Types                                                                   *)

LEMMA WebInitTypes == WebInit => WebTypeOK
<1> SUFFICES ASSUME WebInit PROVE WebTypeOK
  OBVIOUS
<1>1. ServingTypeOK
  BY ServingInitTypes DEF WebInit
<1>2. SocketTypeOK
  <2>1. ThreadAt("new", Nothing) \in Thread
    BY StatusData
  <2>2. push \in [Pages -> Thread] /\ ws \in [Pages -> Seq(Status)] /\ DOMAIN links = {}
    BY <2>1 DEF WebInit, SocketInit
  <2> QED
    BY <2>2 DEF SocketTypeOK
<1>3. PageTypeOK
  BY PageData, AskData, QuotasAssumption
     DEF WebInit, PageInit, QuotaInit, QuotaTypeOK, PageTypeOK
<1> QED
  BY <1>1, <1>2, <1>3 DEF WebTypeOK, WebInit

LEMMA OpenAndCloseTypes ==
  ASSUME WebTypeOK, NEW p \in Pages, OpenTab(p) \/ CloseTab(p)
  PROVE  SocketTypeOK' /\ PageTypeOK'
<1>1. /\ push' \in [Pages -> Thread] /\ ws' \in [Pages -> Seq(Status)]
      /\ page' \in [Pages -> PageState]
  BY WebTypes, OpenFacts, CloseFacts
<1>4. net' \in [Connections -> Asked] /\ quota' \in [Acts -> Nat]
  BY WebTypes DEF OpenTab, CloseTab
<1>2. /\ DOMAIN links \subseteq Nat /\ \A id \in DOMAIN links : links[id] \in Pages
      /\ IdOf[p] \in Nat
  BY WebTypes DEF WebTypeOK, SocketTypeOK
<1>3. DOMAIN links' \subseteq Nat /\ \A id \in DOMAIN links' : links'[id] \in Pages
  BY <1>2, OpenFacts, CloseFacts
<1> QED
  BY <1>1, <1>3, <1>4 DEF SocketTypeOK, PageTypeOK, QuotaTypeOK

\* Every variable keeps its type: a page shows and remembers statuses, the links
\* of WSocket lead from ids to pages, and only pages are alone.
THEOREM WebTypeCorrect == WebSpec => []WebTypeOK
<1>1. WebTypeOK /\ [WebNext]_webVars => WebTypeOK'
  <2> SUFFICES ASSUME WebTypeOK, [WebNext]_webVars PROVE WebTypeOK'
    OBVIOUS
  <2>1. ServingTypeOK /\ SocketTypeOK /\ PageTypeOK /\ alone \subseteq Pages
    BY DEF WebTypeOK
  <2>2. ASSUME UNCHANGED sockets PROVE SocketTypeOK'
    BY <2>1, <2>2, Zenon DEF sockets, SocketTypeOK
  <2>3. ASSUME UNCHANGED script PROVE PageTypeOK'
    BY <2>1, <2>3, Zenon DEF script, PageTypeOK, QuotaTypeOK
  <2>4. ASSUME UNCHANGED <<line, statics, history, fwVars, cpc, req>> PROVE ServingTypeOK'
    BY <2>1, <2>4, Zenon DEF ServingTypeOK, SharedTypeOK, FwTypeOK, CommTypeOK, CtlTypeOK,
       line, statics, history, fwVars
  <2>5. CASE UNCHANGED webVars
    BY <2>1, <2>2, <2>3, <2>4, <2>5, Zenon DEF webVars, WebTypeOK
  <2>6. CASE MachineStep
    BY <2>1, <2>2, <2>3, <2>6, MachineTypes DEF MachineStep, WebTypeOK
  <2>7. CASE ThreadStep
    BY <2>1, <2>2, <2>3, <2>7, CommunicatorTypes DEF ThreadStep, WebTypeOK
  <2>8. ASSUME NEW c \in Connections, Asks(c) \/ CtlContinue(c), UNCHANGED <<fwVars, cpc>>
        PROVE  ServingTypeOK'
    BY <2>1, <2>8, AskEffect, EffectTypes
  <2>9. ASSUME NEW c \in Connections, RequestStep(c) PROVE WebTypeOK'
    BY <2>1, <2>2, <2>3, <2>8, <2>9 DEF RequestStep, WebTypeOK
  <2>10. ASSUME NEW c \in Connections, Arrival(c) PROVE WebTypeOK'
    <3>1. PageTypeOK'
      BY <2>1, <2>10, ArriveAsks DEF Arrival, Arrive, PageTypeOK, QuotaTypeOK
    <3> QED
      BY <2>1, <2>2, <2>8, <2>10, <3>1, ArriveAsks DEF Arrival, WebTypeOK
  <2>11. ASSUME NEW c \in Connections, Others(c) PROVE WebTypeOK'
    <3>1. \E act \in Acts : Use(act)
      BY <2>11, AskData, Zenon DEF Others
    <3>2. PageTypeOK'
      BY <2>1, <2>11, <3>1, UseTyped DEF Others, PageTypeOK, QuotaTypeOK
    <3>3. Asks(c)
      BY <2>11, ControllerAssumption, Zenon DEF Others, Asks
    <3>4. alone' \subseteq Pages
      BY <2>1, <2>11 DEF Others
    <3> QED
      BY <2>2, <2>8, <2>11, <3>2, <3>3, <3>4 DEF Others, WebTypeOK
  <2>12. ASSUME NEW p \in Pages, Button(p) PROVE WebTypeOK'
    <3>1. PageTypeOK'
      BY <2>12, PressSteps DEF Button, PressEffect, PageTypeOK, QuotaTypeOK
    <3>2. alone' \subseteq Pages
      BY <2>1, <2>12 DEF Button
    <3> QED
      BY <2>2, <2>4, <2>12, <3>1, <3>2 DEF Button, WebTypeOK
  <2>13. ASSUME NEW p \in Pages, Push(p) PROVE WebTypeOK'
    <3>1. push' \in [Pages -> Thread] /\ ws' \in [Pages -> Seq(Status)] /\ links' = links
      BY <2>13, PushSteps DEF Push, PushEffect
    <3> QED
      BY <2>1, <2>3, <2>4, <2>13, <3>1 DEF Push, WebTypeOK, SocketTypeOK
  <2>14. ASSUME NEW p \in Pages, Browser(p) PROVE WebTypeOK'
    <3>1. /\ ws' \in [Pages -> Seq(Status)] /\ page' \in [Pages -> PageState]
          /\ UNCHANGED <<push, links, net, quota>>
      BY <2>14, MessageSteps DEF Browser, MessageEffect, OnMessage
    <3> QED
      BY <2>1, <2>4, <2>14, <3>1 DEF Browser, WebTypeOK, SocketTypeOK, PageTypeOK, QuotaTypeOK
  <2>15. ASSUME NEW p \in Pages, Tab(p) PROVE WebTypeOK'
    BY <2>1, <2>4, <2>15, OpenAndCloseTypes DEF Tab, WebTypeOK
  <2> QED
    BY <2>5, <2>6, <2>7, <2>9, <2>10, <2>11, <2>12, <2>13, <2>14, <2>15 DEF WebNext
<1> QED
  BY <1>1, WebInitTypes, PTL DEF WebSpec

-----------------------------------------------------------------------------
(* What a page shows in the end                                            *)

\* Once the messages s are handled, a page that shows shown shows status.
EndsAt(s, shown, status) ==
  \/ status = shown /\ \A j \in 1..Len(s) : s[j] = InUse
  \/ \E j \in 1..Len(s) : /\ s[j] # InUse /\ s[j] = status
                          /\ \A k \in 1..Len(s) : s[k] # InUse => k <= j

LEMMA EndsAtIsShown ==
  ASSUME NEW p \in Pages, NEW status,
         EndsAt(ws[p], page[p].shown, status), ControlsShow(p, page[p].shown)
  PROVE  ShowsInTheEnd(p, status)
<1> DEFINE sent == {j \in 1..Len(ws[p]) : ws[p][j] # InUse}
<1>1. ShowsInTheEnd(p, status) <=>
        IF sent = {} THEN page[p].shown = status /\ ControlsShow(p, status)
        ELSE \E j \in sent : ws[p][j] = status /\ \A k \in sent : k <= j
  BY DEF ShowsInTheEnd
<1>2. CASE sent = {}
  <2>1. \A j \in 1..Len(ws[p]) : ws[p][j] = InUse
    BY <1>2
  <2>2. status = page[p].shown
    BY <2>1 DEF EndsAt
  <2> HIDE DEF sent
  <2> QED
    BY <1>1, <1>2, <2>2
<1>3. CASE sent # {}
  <2>1. ~ \A j \in 1..Len(ws[p]) : ws[p][j] = InUse
    BY <1>3
  <2>2. \E j \in sent : ws[p][j] = status /\ \A k \in sent : k <= j
    BY <2>1 DEF EndsAt
  <2> HIDE DEF sent
  <2> QED
    BY <1>1, <1>3, <2>2
<1> QED
  BY <1>2, <1>3

LEMMA EndsAppend ==
  ASSUME NEW s \in Seq(Status), NEW msg \in Status, NEW shown, NEW status
  PROVE  /\ msg # InUse => EndsAt(Append(s, msg), shown, msg)
         /\ msg = InUse /\ EndsAt(s, shown, status) => EndsAt(Append(s, msg), shown, status)
<1> DEFINE t == Append(s, msg)
           n == Len(s)
<1>1. /\ n \in Nat /\ Len(t) = n + 1 /\ t[n + 1] = msg
      /\ \A j \in 1..n : t[j] = s[j]
  BY AppendView, SeqView
<1> HIDE DEF t
<1>2. msg # InUse => EndsAt(t, shown, msg)
  <2>1. n + 1 \in 1..Len(t) /\ \A k \in 1..Len(t) : k <= n + 1
    BY <1>1
  <2> QED
    BY <1>1, <2>1 DEF EndsAt
<1>3. ASSUME msg = InUse, EndsAt(s, shown, status) PROVE EndsAt(t, shown, status)
  <2>1. \A j \in 1..Len(t) : j \in 1..n \/ (j = n + 1 /\ t[j] = InUse)
    BY <1>1, <1>3
  <2>2. \A j \in 1..n : j \in 1..Len(t)
    BY <1>1
  <2> QED
    BY <1>1, <1>3, <2>1, <2>2 DEF EndsAt
<1> QED
  BY <1>2, <1>3 DEF t

\* Handling the first message changes what is shown, not what is in the end.
LEMMA EndsTail ==
  ASSUME NEW s \in Seq(Status), s # <<>>, NEW shown, NEW status, EndsAt(s, shown, status)
  PROVE  EndsAt(Tail(s), IF Head(s) = InUse THEN shown ELSE Head(s), status)
<1> DEFINE t == Tail(s)
           n == Len(s)
           h == Head(s)
           new == IF h = InUse THEN shown ELSE h
<1>1. /\ n \in Nat /\ n >= 1 /\ h = s[1] /\ Len(t) = n - 1
      /\ \A j \in 1..n - 1 : t[j] = s[j + 1]
  BY HeadTail
<1> HIDE DEF t, n, h
<1>2. \A j \in 1..Len(t) : j + 1 \in 1..n /\ t[j] = s[j + 1]
  BY <1>1
<1>3. ASSUME status = shown, \A j \in 1..n : s[j] = InUse
      PROVE  EndsAt(t, new, status)
  <2>1. h = InUse
    BY <1>1, <1>3
  <2> QED
    BY <1>2, <1>3, <2>1 DEF EndsAt
<1>4. ASSUME NEW j \in 1..n, s[j] # InUse, s[j] = status, \A k \in 1..n : s[k] # InUse => k <= j
      PROVE  EndsAt(t, new, status)
  <2>1. CASE j = 1
    <3>1. new = status
      BY <1>1, <1>4, <2>1
    <3>2. ASSUME NEW k \in 1..Len(t) PROVE t[k] = InUse
      <4>1. k + 1 \in 1..n /\ t[k] = s[k + 1] /\ ~(k + 1 <= 1)
        BY <1>1, <1>2
      <4> QED
        BY <1>4, <2>1, <4>1
    <3> QED
      BY <3>1, <3>2 DEF EndsAt
  <2>2. CASE j # 1
    <3>1. j - 1 \in 1..Len(t) /\ t[j - 1] = s[j]
      BY <1>1, <2>2
    <3>2. ASSUME NEW k \in 1..Len(t), t[k] # InUse PROVE k <= j - 1
      <4>1. k + 1 \in 1..n /\ s[k + 1] # InUse
        BY <1>2, <3>2
      <4>2. k + 1 <= j
        BY <1>4, <4>1
      <4> QED
        BY <1>1, <4>2
    <3> QED
      BY <1>4, <3>1, <3>2 DEF EndsAt
  <2> QED
    BY <2>1, <2>2
<1>5. EndsAt(t, new, status)
  BY <1>3, <1>4 DEF EndsAt, n
<1> QED
  BY <1>5 DEF t, h

LEMMA EndsEmpty ==
  ASSUME NEW shown
  PROVE  EndsAt(<<>>, shown, shown)
<1>1. Len(<<>>) = 0
  OBVIOUS
<1> QED
  BY <1>1 DEF EndsAt

\* Every answer the server takes has a '#', so a page shows whatever it is sent.
Shows(msg) == msg = InUse \/ ContainsHash(msg.line)
StatusInv ==
  /\ ContainsHash(linie)
  /\ \A p \in Pages :
       /\ push[p].pc \in {"spindle", "queue"} => ContainsHash(push[p].snap.line)
       /\ \A j \in 1..Len(ws[p]) : Shows(ws[p][j])

LEMMA LinieKeepsHash ==
  ASSUME ContainsHash(linie), Machine \/ CommNext \/ RequestEffect \/ UNCHANGED <<line, statics>>
  PROVE  ContainsHash(linie')
<1>1. \A posLine : MatchesPattern(posLine) => ContainsHash(posLine)
  BY DEF MatchesPattern, ContainsHash
<1>2. CASE HandShakeMatch
  BY <1>1, <1>2 DEF HandShakeMatch
<1>3. CASE Receive
  BY <1>3 DEF Receive
<1>4. CASE HandShakeSkip \/ DrainRead \/ DrainDone \/ CheckQueue \/ Release \/ Take \/ TakeNothing
  <2>1. linie' = linie
    BY <1>4 DEF HandShakeSkip, DrainRead, DrainDone, CheckQueue, Release, Take, TakeNothing, statics
  <2> QED
    BY <2>1
<1>5. CASE Machine \/ RequestEffect \/ UNCHANGED <<line, statics>>
  <2>1. linie' = linie
    BY <1>5 DEF Machine, RequestEffect, statics, line
  <2> QED
    BY <2>1
<1> QED
  BY <1>2, <1>3, <1>4, <1>5 DEF CommNext

LEMMA StatusInvariant == WebSpec => [](WebTypeOK /\ StatusInv)
<1>1. WebInit => StatusInv
  <2> SUFFICES ASSUME WebInit PROVE StatusInv
    OBVIOUS
  <2>1. Len(<<>>) = 0
    OBVIOUS
  <2>2. ContainsHash(linie)
    BY LineData DEF WebInit, ServingInit
  <2>3. \A p \in Pages : ThreadAt("new", Nothing).pc = "new"
    BY StatusData
  <2> QED
    BY <2>1, <2>2, <2>3 DEF WebInit, SocketInit, StatusInv
<1>2. WebTypeOK /\ StatusInv /\ [WebNext]_webVars => StatusInv'
  <2> SUFFICES ASSUME WebTypeOK, StatusInv, [WebNext]_webVars PROVE StatusInv'
    OBVIOUS
  <2>1. ContainsHash(linie) /\ ServingTypeOK
    BY WebTypes DEF StatusInv
  <2>2. ASSUME UNCHANGED sockets, Machine \/ CommNext \/ RequestEffect \/ UNCHANGED <<line, statics>>
        PROVE  StatusInv'
    <3>1. ContainsHash(linie') /\ push' = push /\ ws' = ws
      BY <2>1, <2>2, LinieKeepsHash DEF sockets
    <3> QED
      BY <3>1 DEF StatusInv
  <2>3. CASE UNCHANGED webVars \/ MachineStep \/ ThreadStep
    BY <2>2, <2>3 DEF webVars, MachineStep, ThreadStep
  <2>4. ASSUME NEW c \in Connections, Asks(c) \/ CtlContinue(c), UNCHANGED sockets PROVE StatusInv'
    BY <2>1, <2>2, <2>4, AskEffect
  <2>5. ASSUME NEW c \in Connections, Others(c) \/ Arrival(c) \/ RequestStep(c) PROVE StatusInv'
    <3>1. Asks(c) \/ CtlContinue(c)
      BY <2>5, ConnectionSteps
    <3>2. UNCHANGED sockets
      BY <2>5 DEF Others, Arrival, RequestStep
    <3> QED
      BY <2>4, <3>1, <3>2
  <2>7. ASSUME NEW p \in Pages, Button(p) PROVE StatusInv'
    BY <2>2, <2>7 DEF Button
  <2>8. ASSUME NEW p \in Pages, Push(p) \/ Browser(p) \/ Tab(p),
               \A q \in Pages : /\ push'[q].pc \in {"spindle", "queue"} => ContainsHash(push'[q].snap.line)
                                /\ \A j \in 1..Len(ws'[q]) : Shows(ws'[q][j])
        PROVE  StatusInv'
    <3>1. ContainsHash(linie')
      BY <2>1, <2>8, LinieKeepsHash DEF Push, Browser, Tab
    <3> QED
      BY <2>8, <3>1 DEF StatusInv
  <2>9. ASSUME NEW p \in Pages, Push(p) PROVE StatusInv'
    <3>1. PushEffect(p)
      BY <2>9, PushSteps DEF Push
    <3>2. push'[p].pc \in {"spindle", "queue"} => ContainsHash(push'[p].snap.line)
      BY <3>1 DEF PushEffect, StatusInv
    <3>3. ASSUME NEW j \in 1..Len(ws'[p]) PROVE Shows(ws'[p][j])
      <4>1. ws' [p] = ws[p] \/ \E msg \in Status : Shows(msg) /\ ws'[p] = Append(ws[p], msg)
        BY <3>1, StatusData DEF PushEffect, StatusInv, Shows
      <4>2. ASSUME NEW msg \in Status, Shows(msg), ws'[p] = Append(ws[p], msg)
            PROVE  Shows(ws'[p][j])
        <5>1. /\ Len(ws[p]) \in Nat /\ Len(ws'[p]) = Len(ws[p]) + 1
              /\ ws'[p][Len(ws[p]) + 1] = msg
              /\ \A k \in 1..Len(ws[p]) : ws'[p][k] = ws[p][k]
          BY <4>2, ThreadTypes, SeqView, AppendView
        <5>2. j \in 1..Len(ws[p]) \/ j = Len(ws[p]) + 1
          BY <5>1
        <5> QED
          BY <4>2, <5>1, <5>2 DEF StatusInv
      <4> QED
        BY <4>1, <4>2 DEF StatusInv
    <3> QED
      BY <2>8, <2>9, <3>1, <3>2, <3>3 DEF PushEffect, StatusInv
  <2>10. ASSUME NEW p \in Pages, Browser(p) PROVE StatusInv'
    <3>1. MessageEffect(p)
      BY <2>10, MessageSteps DEF Browser
    <3>2. ws[p] # <<>> /\ ws \in [Pages -> Seq(Status)] /\ ws[p] \in Seq(Status)
          /\ ws' = [ws EXCEPT ![p] = Tail(ws[p])] /\ push' = push
      BY <3>1, WebTypes, ThreadTypes DEF MessageEffect
    <3>3. \A j \in 1..Len(Tail(ws[p])) : j + 1 \in 1..Len(ws[p]) /\ Tail(ws[p])[j] = ws[p][j + 1]
      BY <3>2, HeadTail
    <3>4. \A q \in Pages : \A j \in 1..Len(ws'[q]) : Shows(ws'[q][j])
      BY <3>2, <3>3 DEF StatusInv
    <3> QED
      BY <2>8, <2>10, <3>2, <3>4 DEF StatusInv
  <2>11. ASSUME NEW p \in Pages, Tab(p) PROVE StatusInv'
    <3>1. \A q \in Pages : push'[q] = push[q] \/ push'[q].pc \in {"linie", "stopped"}
      BY <2>11, OpenFacts, CloseFacts DEF Tab
    <3>2. \A q \in Pages : ws'[q] = ws[q] \/ ws'[q] = <<>>
      BY <2>11, WebTypes, OpenFacts, CloseFacts DEF Tab
    <3>3. Len(<<>>) = 0
      OBVIOUS
    <3> QED
      BY <2>8, <2>11, <3>1, <3>2, <3>3 DEF StatusInv
  <2> QED
    BY <2>3, <2>5, <2>7, <2>9, <2>10, <2>11 DEF WebNext
<1> QED
  BY <1>1, <1>2, WebTypeCorrect, PTL DEF WebSpec

\* An id leads to its own page, whose thread onClose then stops.
LinksInv == \A id \in DOMAIN links : IdOf[links[id]] = id

LEMMA LinksInvariant == WebSpec => [](WebTypeOK /\ LinksInv)
<1>1. WebInit => LinksInv
  BY DEF WebInit, SocketInit, LinksInv
<1>2. WebTypeOK /\ LinksInv /\ [WebNext]_webVars => LinksInv'
  <2> SUFFICES ASSUME WebTypeOK, LinksInv, [WebNext]_webVars PROVE LinksInv'
    OBVIOUS
  <2>1. ASSUME links' = links PROVE LinksInv'
    BY <2>1 DEF LinksInv
  <2>2. CASE UNCHANGED webVars \/ MachineStep \/ ThreadStep
             \/ \E c \in Connections : Others(c) \/ Arrival(c) \/ RequestStep(c)
    BY <2>1, <2>2 DEF webVars, sockets, MachineStep, ThreadStep, Others, Arrival, RequestStep
  <2>3. ASSUME NEW p \in Pages, Button(p) \/ Push(p) \/ Browser(p) PROVE LinksInv'
    BY <2>1, <2>3, PushSteps, MessageSteps DEF Button, sockets, Push, PushEffect, Browser, MessageEffect
  <2>4. ASSUME NEW p \in Pages, Tab(p) PROVE LinksInv'
    BY <2>4, OpenFacts, CloseFacts DEF Tab, LinksInv
  <2> QED
    BY <2>2, <2>3, <2>4 DEF WebNext
<1> QED
  BY <1>1, <1>2, WebTypeCorrect, PTL DEF WebSpec

\* With an id of its own, a page that is open keeps up with its thread, and a
\* page that is not open yet has none.
KeepsUp(p) ==
  /\ page[p].tab = "open" => /\ EndsAt(ws[p], page[p].shown, push[p].old)
                             /\ ControlsShow(p, page[p].shown)
  /\ page[p].tab = "new" => push[p].pc = "new" /\ push[p].old = Nothing /\ ws[p] = <<>>
KeepsInv == DistinctIds => \A p \in Pages : KeepsUp(p)

LEMMA PushKeepsUp ==
  ASSUME WebTypeOK, StatusInv, NEW p \in Pages, Push(p), KeepsUp(p)
  PROVE  KeepsUp(p)'
<1>1. PushEffect(p) /\ page' = page
  BY PushSteps DEF Push, script
<1>2. ws[p] \in Seq(Status)
  BY ThreadTypes
<1>3. page[p].tab # "new"
  BY <1>1 DEF PushEffect, KeepsUp
<1>4. ASSUME page[p].tab = "open" PROVE EndsAt(ws'[p], page[p].shown, push'[p].old)
  <2>1. EndsAt(ws[p], page[p].shown, push[p].old)
    BY <1>4 DEF KeepsUp
  <2>2. CASE ws'[p] = ws[p] /\ push'[p].old = push[p].old
    BY <2>1, <2>2
  <2>3. CASE ws'[p] = Append(ws[p], InUse) /\ push'[p].old = push[p].old
    BY <1>2, <2>1, <2>3, StatusData, EndsAppend
  <2>4. ASSUME NEW msg \in Status, push[p].pc = "queue", msg.line = push[p].snap.line,
               ws'[p] = Append(ws[p], msg), push'[p].old = msg
        PROVE  EndsAt(ws'[p], page[p].shown, push'[p].old)
    <3>1. ContainsHash(msg.line)
      BY <2>4 DEF StatusInv
    <3>2. msg # InUse
      BY <3>1, StatusData DEF ContainsHash
    <3> QED
      BY <1>2, <2>4, <3>2, EndsAppend
  <2> QED
    BY <1>1, <2>2, <2>3, <2>4 DEF PushEffect
<1> QED
  BY <1>1, <1>3, <1>4 DEF KeepsUp, ControlsShow

LEMMA MessageKeepsUp ==
  ASSUME WebTypeOK, StatusInv, NEW p \in Pages, Browser(p), KeepsUp(p)
  PROVE  KeepsUp(p)'
<1>1. MessageEffect(p)
  BY MessageSteps DEF Browser
<1>2. /\ page[p].tab = "open" /\ page'[p].tab = "open" /\ push' = push
      /\ ws[p] \in Seq(Status) /\ ws[p] # <<>> /\ ws'[p] = Tail(ws[p])
  <2>1. ws \in [Pages -> Seq(Status)] /\ ws[p] \in Seq(Status)
    BY WebTypes, ThreadTypes
  <2> QED
    BY <1>1, <2>1 DEF MessageEffect
<1>3. Head(ws[p]) = InUse \/ Head(ws[p]).line.kind # "none"
  <2>1. Head(ws[p]) = ws[p][1] /\ 1 \in 1..Len(ws[p])
    BY <1>2, HeadTail
  <2> QED
    BY <2>1 DEF StatusInv, Shows, ContainsHash
<1>4. page'[p].shown = IF Head(ws[p]) = InUse THEN page[p].shown ELSE Head(ws[p])
  BY <1>1, <1>3 DEF MessageEffect
<1>5. EndsAt(ws'[p], page'[p].shown, push[p].old)
  BY <1>2, <1>4, EndsTail DEF KeepsUp
<1>6. ControlsShow(p, page[p].shown)'
  BY <1>1, <1>2, <1>3 DEF MessageEffect, KeepsUp, ControlsShow
<1> QED
  BY <1>2, <1>5, <1>6 DEF KeepsUp

LEMMA TabKeepsUp ==
  ASSUME WebTypeOK, LinksInv, DistinctIds, NEW p \in Pages, Tab(p),
         NEW q \in Pages, KeepsUp(q)
  PROVE  KeepsUp(q)'
<1>1. page \in [Pages -> PageState] /\ ws \in [Pages -> Seq(Status)]
  BY WebTypes
<1>2. CASE OpenTab(p)
  <2>1. CASE q = p
    <3>1. push[p].old = Nothing /\ ws[p] = <<>>
      BY <1>2, <2>1, OpenFacts DEF KeepsUp
    <3>2. /\ page'[p].tab = "open" /\ page'[p].shown = Nothing
          /\ page'[p].box = BoxOf(Nothing) /\ page'[p].running = RunningOf(Nothing)
      BY <1>1, <1>2, OpenFacts, PageData
    <3>3. ws'[p] = <<>> /\ push'[p].old = Nothing
      BY <1>2, <3>1, OpenFacts
    <3> QED
      BY <2>1, <3>2, <3>3, EndsEmpty DEF KeepsUp, ControlsShow
  <2>2. CASE q # p
    <3>1. page'[q] = page[q] /\ ws'[q] = ws[q] /\ push'[q] = push[q]
      BY <1>1, <1>2, <2>2, OpenFacts
    <3> QED
      BY <3>1 DEF KeepsUp, ControlsShow
  <2> QED
    BY <2>1, <2>2
<1>3. CASE CloseTab(p)
  <2>1. CASE q = p
    <3>1. page'[p].tab = "closed"
      BY <1>1, <1>3, CloseFacts, PageData
    <3> QED
      BY <2>1, <3>1 DEF KeepsUp
  <2>2. CASE q # p
    <3>1. page'[q] = page[q] /\ ws'[q] = ws[q]
      BY <1>1, <1>3, <2>2, CloseFacts
    <3>2. IdOf[p] \in DOMAIN links => q # links[IdOf[p]]
      <4>1. IdOf[q] # IdOf[p]
        BY <2>2 DEF DistinctIds
      <4> QED
        BY <4>1 DEF LinksInv
    <3>3. push'[q] = push[q]
      BY <1>3, <3>2, CloseFacts
    <3> QED
      BY <3>1, <3>3 DEF KeepsUp, ControlsShow
  <2> QED
    BY <2>1, <2>2
<1> QED
  BY <1>2, <1>3 DEF Tab

\* What an open page shows once it has handled what is on its way is what its
\* thread last sent, the check box and the button included unless they were
\* pressed since: the comparison with oldLine is a comparison with the page, as
\* long as no two pages were opened in the same millisecond.
THEOREM PageShowsWhatWasSent == WebSpec => []PageKeepsUp
<1>1. WebInit => KeepsInv
  <2> SUFFICES ASSUME WebInit, NEW p \in Pages PROVE KeepsUp(p)
    BY DEF KeepsInv
  <2>1. page[p].tab = "new" /\ push[p].pc = "new" /\ push[p].old = Nothing /\ ws[p] = <<>>
    BY StatusData, PageData DEF WebInit, SocketInit, PageInit
  <2> QED
    BY <2>1 DEF KeepsUp
<1>2. WebTypeOK /\ StatusInv /\ LinksInv /\ KeepsInv /\ [WebNext]_webVars => KeepsInv'
  <2> SUFFICES ASSUME WebTypeOK, StatusInv, LinksInv, KeepsInv, [WebNext]_webVars,
                      DistinctIds, NEW q \in Pages
               PROVE  KeepsUp(q)'
    BY DEF KeepsInv, DistinctIds
  <2>1. KeepsUp(q)
    BY DEF KeepsInv
  <2>2. ASSUME push'[q] = push[q], ws'[q] = ws[q],
               page'[q].tab = page[q].tab, page'[q].shown = page[q].shown,
               page'[q].touched \/ page'[q] = page[q]
        PROVE  KeepsUp(q)'
    BY <2>1, <2>2 DEF KeepsUp, ControlsShow
  <2>3. CASE UNCHANGED webVars \/ MachineStep \/ ThreadStep
             \/ \E c \in Connections : Others(c) \/ Arrival(c) \/ RequestStep(c)
    BY <2>2, <2>3 DEF webVars, sockets, script, MachineStep, ThreadStep, Others, Arrival, Arrive,
       RequestStep
  <2>4. ASSUME NEW p \in Pages, Button(p) PROVE KeepsUp(q)'
    <3>1. PressEffect(p) /\ UNCHANGED sockets
      BY <2>4, PressSteps DEF Button
    <3>2. /\ page'[q].tab = page[q].tab /\ page'[q].shown = page[q].shown
          /\ page'[q].touched \/ page'[q] = page[q]
      BY <3>1 DEF PressEffect
    <3> QED
      BY <2>2, <3>1, <3>2 DEF sockets
  <2>5. ASSUME NEW p \in Pages, Push(p) PROVE KeepsUp(q)'
    <3>1. q # p => push'[q] = push[q] /\ ws'[q] = ws[q] /\ page' = page
      BY <2>5, PushSteps DEF Push, PushEffect, script
    <3> QED
      BY <2>1, <2>2, <2>5, <3>1, PushKeepsUp
  <2>6. ASSUME NEW p \in Pages, Browser(p) PROVE KeepsUp(q)'
    <3>1. q # p => push'[q] = push[q] /\ ws'[q] = ws[q] /\ page'[q] = page[q]
      BY <2>6, WebTypes, MessageSteps DEF Browser, MessageEffect
    <3> QED
      BY <2>1, <2>2, <2>6, <3>1, MessageKeepsUp
  <2>7. ASSUME NEW p \in Pages, Tab(p) PROVE KeepsUp(q)'
    BY <2>1, <2>7, TabKeepsUp
  <2> QED
    BY <2>3, <2>4, <2>5, <2>6, <2>7 DEF WebNext
<1>3. KeepsInv => PageKeepsUp
  BY EndsAtIsShown DEF KeepsInv, KeepsUp, PageKeepsUp, Open
<1> QED
  BY <1>1, <1>2, <1>3, StatusInvariant, LinksInvariant, PTL DEF WebSpec

-----------------------------------------------------------------------------
(* The spindle                                                             *)

Order(on)       == IF on THEN "spindleOn" ELSE "spindleOff"
IsOrder(cmd)    == cmd.op \in {"spindleOn", "spindleOff"}
SetBy(cmd, was) == IF IsOrder(cmd) THEN cmd.op ELSE was

\* The lines s, acted upon by a machine that was given the order was before,
\* leave it with the order will.
Leaves(s, was, will) ==
  \/ was = will /\ \A j \in 1..Len(s) : ~IsOrder(s[j])
  \/ \E j \in 1..Len(s) : /\ IsOrder(s[j]) /\ s[j].op = will
                          /\ \A k \in 1..Len(s) : IsOrder(s[k]) => k <= j

LEMMA OrderData ==
  /\ \A on \in BOOLEAN : IsOrder(Spindle(on)) /\ Spindle(on).op = Order(on)
  /\ \A a \in BOOLEAN, b \in BOOLEAN : Order(a) = Order(b) => a = b
  /\ \A a \in BOOLEAN, b \in BOOLEAN : SetFlag(a) = SetFlag(b) => a = b
  /\ \A a \in BOOLEAN : SetFlag(a) \in {"setOn", "setOff"}
  /\ ~IsOrder(ServerHandShake) /\ \A target : ~IsOrder(GoTo(target))
<1>1. \A on \in BOOLEAN : IsOrder(Spindle(on)) /\ Spindle(on).op = Order(on)
  BY DEF IsOrder, Spindle, Order
<1>2. \A a \in BOOLEAN, b \in BOOLEAN : Order(a) = Order(b) => a = b
  BY DEF Order
<1>3. \A a \in BOOLEAN, b \in BOOLEAN : SetFlag(a) = SetFlag(b) => a = b
  BY DEF SetFlag
<1>4. \A a \in BOOLEAN : SetFlag(a) \in {"setOn", "setOff"}
  BY DEF SetFlag
<1>5. ~IsOrder(ServerHandShake)
  BY LineData DEF IsOrder
<1>6. \A target : ~IsOrder(GoTo(target))
  BY DEF IsOrder, GoTo
<1> QED
  BY <1>1, <1>2, <1>3, <1>4, <1>5, <1>6

LEMMA LeavesAppend ==
  ASSUME NEW s \in Seq(Command), NEW cmd \in Command, NEW was, NEW will, Leaves(s, was, will)
  PROVE  Leaves(Append(s, cmd), was, SetBy(cmd, will))
<1> DEFINE t == Append(s, cmd)
           n == Len(s)
<1>1. /\ n \in Nat /\ Len(t) = n + 1 /\ t[n + 1] = cmd
      /\ \A j \in 1..n : t[j] = s[j]
  BY AppendView, SeqView
<1> HIDE DEF t
<1>2. CASE IsOrder(cmd)
  <2>1. n + 1 \in 1..Len(t) /\ \A k \in 1..Len(t) : k <= n + 1
    BY <1>1
  <2> QED
    BY <1>1, <1>2, <2>1 DEF Leaves, SetBy, t
<1>3. CASE ~IsOrder(cmd)
  <2>1. \A j \in 1..Len(t) : j \in 1..n \/ (j = n + 1 /\ ~IsOrder(t[j]))
    BY <1>1, <1>3
  <2>2. \A j \in 1..n : j \in 1..Len(t)
    BY <1>1
  <2>3. Leaves(t, was, will)
    BY <1>1, <2>1, <2>2 DEF Leaves
  <2> QED
    BY <1>3, <2>3 DEF SetBy, t
<1> QED
  BY <1>2, <1>3

LEMMA LeavesTail ==
  ASSUME NEW s \in Seq(Command), s # <<>>, NEW was, NEW will, Leaves(s, was, will)
  PROVE  Leaves(Tail(s), SetBy(Head(s), was), will)
<1> DEFINE t == Tail(s)
           n == Len(s)
           h == Head(s)
<1>1. /\ n \in Nat /\ n >= 1 /\ h = s[1] /\ Len(t) = n - 1
      /\ \A j \in 1..n - 1 : t[j] = s[j + 1]
  BY HeadTail
<1> HIDE DEF t, n, h
<1>2. \A j \in 1..Len(t) : j + 1 \in 1..n /\ t[j] = s[j + 1]
  BY <1>1
<1>3. ASSUME was = will, \A j \in 1..n : ~IsOrder(s[j])
      PROVE  Leaves(t, SetBy(h, was), will)
  <2>1. ~IsOrder(h)
    BY <1>1, <1>3
  <2> QED
    BY <1>2, <1>3, <2>1 DEF Leaves, SetBy
<1>4. ASSUME NEW j \in 1..n, IsOrder(s[j]), s[j].op = will, \A k \in 1..n : IsOrder(s[k]) => k <= j
      PROVE  Leaves(t, SetBy(h, was), will)
  <2>1. CASE j = 1
    <3>1. SetBy(h, was) = will
      BY <1>1, <1>4, <2>1 DEF SetBy
    <3>2. ASSUME NEW k \in 1..Len(t) PROVE ~IsOrder(t[k])
      <4>1. k + 1 \in 1..n /\ t[k] = s[k + 1] /\ ~(k + 1 <= 1)
        BY <1>1, <1>2
      <4> QED
        BY <1>4, <2>1, <4>1
    <3> QED
      BY <3>1, <3>2 DEF Leaves
  <2>2. CASE j # 1
    <3>1. j - 1 \in 1..Len(t) /\ t[j - 1] = s[j]
      BY <1>1, <2>2
    <3>2. ASSUME NEW k \in 1..Len(t), IsOrder(t[k]) PROVE k <= j - 1
      <4>1. k + 1 \in 1..n /\ IsOrder(s[k + 1])
        BY <1>2, <3>2
      <4>2. k + 1 <= j
        BY <1>4, <4>1
      <4> QED
        BY <1>1, <4>2
    <3> QED
      BY <1>4, <3>1, <3>2 DEF Leaves
  <2> QED
    BY <2>1, <2>2
<1>5. Leaves(t, SetBy(h, was), will)
  BY <1>3, <1>4 DEF Leaves, n
<1> QED
  BY <1>5 DEF t, h

\* What a request adds: the orders to the spindle are those of its bodies.
LEMMA LeavesAdd ==
  ASSUME queue \in Seq(Command), accepted \in Nat,
         NEW bodies \in Seq(Body), NEW by \in Nat, Add(bodies, by),
         NEW was, NEW will, Leaves(queue, was, will)
  PROVE  /\ (\A k \in 1..Len(bodies) : ~IsOrder(bodies[k])) => Leaves(queue', was, will)
         /\ \A on \in BOOLEAN : bodies = <<Spindle(on)>> => Leaves(queue', was, Order(on))
<1> DEFINE n == Len(queue)
<1>1. /\ n \in Nat /\ Len(bodies) \in Nat /\ Len(queue') = n + Len(bodies)
      /\ \A j \in 1..n : queue'[j] = queue[j]
      /\ \A j \in n + 1..Len(queue') : /\ j - n \in 1..Len(bodies)
                                       /\ queue'[j].op = bodies[j - n].op
  BY AddFacts, SeqView
<1> HIDE DEF n
<1>2. ASSUME \A k \in 1..Len(bodies) : ~IsOrder(bodies[k])
      PROVE  Leaves(queue', was, will)
  <2>1. \A j \in 1..n : j \in 1..Len(queue') /\ queue'[j] = queue[j]
    BY <1>1
  <2>2. \A j \in 1..Len(queue') : j \in 1..n \/ j \in n + 1..Len(queue')
    BY <1>1
  <2>3. \A j \in 1..Len(queue') : j \in 1..n \/ ~IsOrder(queue'[j])
    BY <1>1, <1>2, <2>2 DEF IsOrder
  <2> QED
    BY <2>1, <2>3 DEF Leaves, n
<1>3. ASSUME NEW on \in BOOLEAN, bodies = <<Spindle(on)>>
      PROVE  Leaves(queue', was, Order(on))
  <2>1. Len(bodies) = 1 /\ bodies[1] = Spindle(on)
    BY <1>3
  <2>2. Len(queue') = n + 1 /\ n + 1 \in n + 1..Len(queue') /\ n + 1 \in 1..Len(queue') /\ n + 1 - n = 1
    BY <1>1, <2>1
  <2>3. queue'[n + 1].op = bodies[n + 1 - n].op
    BY <1>1, <2>2
  <2>4. queue'[n + 1].op = Order(on) /\ IsOrder(queue'[n + 1])
    BY <2>1, <2>2, <2>3, OrderData DEF IsOrder
  <2>5. \A k \in 1..Len(queue') : k <= n + 1
    BY <1>1, <2>2
  <2> QED
    BY <2>2, <2>4, <2>5 DEF Leaves
<1> QED
  BY <1>2, <1>3

\* What a queue holds has a number: to drop a line is to leave a trace.
NumberedInv == \A j \in 1..Len(queue) : queue[j].id # 0

LEMMA HeadNumbered ==
  ASSUME ServingTypeOK, NumberedInv, queue # <<>>
  PROVE  /\ Head(queue) \in Command /\ Tail(queue) \in Seq(Command)
         /\ Ids(<<Head(queue)>>) # {}
         /\ \A j \in 1..Len(Tail(queue)) : Tail(queue)[j].id # 0
<1>1. /\ queue \in Seq(Command) /\ Head(queue) \in Command /\ Tail(queue) \in Seq(Command)
      /\ Head(queue) = queue[1] /\ 1 \in 1..Len(queue)
      /\ \A j \in 1..Len(Tail(queue)) : j + 1 \in 1..Len(queue) /\ Tail(queue)[j] = queue[j + 1]
  BY HeadTail DEF ServingTypeOK, SharedTypeOK
<1> QED
  BY <1>1, IdsOfOne DEF NumberedInv

\* What the serial thread does to the orders: they only move from the queue to
\* the line.
LEMMA ThreadOrders ==
  ASSUME CommNext
  PROVE  /\ spindleRunning' = spindleRunning /\ dropped \subseteq dropped'
         /\ \/ queue' = queue /\ toFw' = toFw
            \/ queue' = queue /\ toFw' = Append(toFw, ServerHandShake)
            \/ queue # <<>> /\ queue' = Tail(queue) /\ toFw' = Append(toFw, Head(queue))
            \/ queue # <<>> /\ queue' = Tail(queue) /\ dropped' = dropped \cup Ids(<<Head(queue)>>)
<1>1. CASE HandShakeMatch \/ HandShakeSkip \/ DrainRead \/ DrainDone
  BY <1>1 DEF HandShakeMatch, HandShakeSkip, DrainRead, DrainDone, line, statics, history
<1>2. CASE CheckQueue \/ Release \/ TakeNothing \/ Receive
  BY <1>2 DEF CheckQueue, Release, TakeNothing, Receive, line, statics, history
<1>3. CASE Take
  BY <1>3 DEF Take
<1> QED
  BY <1>1, <1>2, <1>3 DEF CommNext

LEMMA NumberedInvariant == WebSpec => [](WebTypeOK /\ NumberedInv)
<1>1. WebInit => NumberedInv
  <2>1. Len(<<>>) = 0
    OBVIOUS
  <2> QED
    BY <2>1 DEF WebInit, ServingInit, NumberedInv
<1>2. WebTypeOK /\ NumberedInv /\ [WebNext]_webVars => NumberedInv'
  <2> SUFFICES ASSUME WebTypeOK, NumberedInv, [WebNext]_webVars PROVE NumberedInv'
    OBVIOUS
  <2>1. ServingTypeOK /\ queue \in Seq(Command) /\ accepted \in Nat
    BY WebTypes DEF ServingTypeOK, SharedTypeOK
  <2>2. ASSUME queue' = queue \/ (queue # <<>> /\ queue' = Tail(queue)) PROVE NumberedInv'
    BY <2>1, <2>2, HeadNumbered DEF NumberedInv
  <2>3. CASE UNCHANGED webVars \/ MachineStep
    BY <2>2, <2>3 DEF webVars, statics, MachineStep, Machine
  <2>4. CASE ThreadStep
    BY <2>2, <2>4, ThreadOrders DEF ThreadStep
  <2>5. ASSUME NEW c \in Connections, Asks(c) \/ CtlContinue(c) PROVE NumberedInv'
    <3>1. ASSUME NEW bodies \in Seq(Body), NEW by \in Nat, Add(bodies, by) PROVE NumberedInv'
      <4>1. /\ Len(queue) \in Nat
            /\ \A j \in 1..Len(queue) : queue'[j] = queue[j]
            /\ \A j \in Len(queue) + 1..Len(queue') : queue'[j].id = accepted + (j - Len(queue))
        BY <2>1, <3>1, AddFacts, SeqView
      <4>2. \A j \in Len(queue) + 1..Len(queue') : accepted + (j - Len(queue)) # 0
        BY <2>1, <4>1
      <4>3. \A j \in 1..Len(queue') : j \in 1..Len(queue) \/ j \in Len(queue) + 1..Len(queue')
        BY <4>1
      <4> QED
        BY <4>1, <4>2, <4>3 DEF NumberedInv
    <3>2. RequestEffect
      BY <2>1, <2>5, AskEffect
    <3> QED
      BY <2>2, <3>1, <3>2 DEF RequestEffect
  <2>6. ASSUME NEW c \in Connections, Others(c) \/ Arrival(c) \/ RequestStep(c) PROVE NumberedInv'
    BY <2>5, <2>6, ConnectionSteps
  <2>8. ASSUME NEW p \in Pages, Button(p) PROVE NumberedInv'
    BY <2>2, <2>8 DEF Button, statics
  <2>9. ASSUME NEW p \in Pages, Push(p) \/ Browser(p) \/ Tab(p) PROVE NumberedInv'
    BY <2>2, <2>9 DEF Push, Browser, Tab, statics
  <2> QED
    BY <2>3, <2>4, <2>6, <2>8, <2>9 DEF WebNext
<1> QED
  BY <1>1, <1>2, WebTypeCorrect, PTL DEF WebSpec

\* A page whose counter is odd, or not, and the server agree: nothing is under
\* way, or one connection carries the last toggle, or its thread has queued the
\* order and is about to write the flag.
FlagPending(c) == req[c] \in {"setOn", "setOff"}
Toggling(c)    == net[c].act \in {"on", "off"} \/ FlagPending(c)
OnTheWay(on)   == \E mid : Leaves(toFw, Order(spindle), mid) /\ Leaves(queue, mid, Order(on))

Settled(odd) ==
  (\A c \in Connections : ~Toggling(c)) /\ spindleRunning = odd /\ OnTheWay(odd)
AskedBy(c, odd) ==
  /\ \A d \in Connections : Toggling(d) => d = c
  /\ net[c].act = (IF odd THEN "on" ELSE "off") /\ ~FlagPending(c) /\ OnTheWay(~odd)
Begun(c, odd) ==
  /\ \A d \in Connections : Toggling(d) => d = c
  /\ net[c].act \notin {"on", "off"} /\ req[c] = SetFlag(odd) /\ OnTheWay(odd)
Agree(odd) == Settled(odd) \/ \E c \in Connections : AskedBy(c, odd) \/ Begun(c, odd)

Follows(p) ==
  /\ \A odd \in BOOLEAN : page[p].tab # "closed" /\ page[p].odd = odd => Agree(odd)
  /\ page[p].tab = "new" => page[p].odd = FALSE
SpindleInv == NoSpindleJobs /\ dropped = {} => \A p \in alone : Follows(p)

\* No toggle comes to be asked for, or is taken back.
NetSame ==
  \A c \in Connections : \/ net'[c].act = net[c].act
                         \/ net'[c].act \notin {"on", "off"} /\ net[c].act \notin {"on", "off"}

\* A step of a request that gives no order to the spindle.
NoOrder(c) ==
  /\ UNCHANGED <<toFw, spindleRunning>> /\ dropped \subseteq dropped'
  /\ ~FlagPending(c)
  /\ \E rest \in Pending : rest \notin {"setOn", "setOff"} /\ Later(c, rest)
  /\ \/ queue' = queue
     \/ queue # <<>> /\ queue' = Tail(queue) /\ dropped' = dropped \cup Ids(<<Head(queue)>>)
     \/ \E bodies \in Seq(Body), by \in Nat :
          Add(bodies, by) /\ \A k \in 1..Len(bodies) : ~IsOrder(bodies[k])

LEMMA AsksNoOrder ==
  ASSUME WebTypeOK, NoSpindleJobs, NEW c \in Connections,
         \/ \E shown \in PosLine, axis \in Axes, by \in Int : AlterPosition(c, shown, axis, by)
         \/ \E zSafe \in Int : ZeroMachine(c, zSafe)
         \/ \E job \in Jobs \cup {<<>>} : SendToCnc(c, job)
         \/ StopCnc(c)
  PROVE  NoOrder(c)
<1>1. /\ {"nothing", "addHome", "setSession", "clear"} \subseteq Pending /\ Owner[c] \in Nat
      /\ {"nothing", "addHome", "setSession", "clear"} \cap {"setOn", "setOff"} = {}
  BY ControllerAssumption DEF Pending
<1>2. ASSUME NEW bodies \in Seq(Body), NEW by \in Nat, Add(bodies, by), req[c] = "nothing",
             \A k \in 1..Len(bodies) : ~IsOrder(bodies[k]),
             NEW rest \in {"nothing", "addHome", "setSession"}, Later(c, rest)
      PROVE  NoOrder(c)
  <2>1. UNCHANGED <<toFw, spindleRunning, dropped>>
    BY <1>2 DEF Add, line
  <2>2. ~FlagPending(c) /\ rest \in Pending /\ rest \notin {"setOn", "setOff"}
    BY <1>1, <1>2 DEF FlagPending
  <2> QED
    BY <1>2, <2>1, <2>2 DEF NoOrder
<1>3. ASSUME NEW target \in Targets
      PROVE  /\ <<GoTo(target)>> \in Seq(Body)
             /\ \A k \in 1..Len(<<GoTo(target)>>) : ~IsOrder(<<GoTo(target)>>[k])
  <2>1. GoTo(target) \in Body /\ ~IsOrder(GoTo(target))
    BY CommandData, OrderData
  <2> QED
    BY <2>1
<1>4. ASSUME NEW shown \in PosLine, NEW axis \in Axes, NEW by \in Int,
             AlterPosition(c, shown, axis, by)
      PROVE  NoOrder(c)
  <2>1. PICK job \in Alterations(shown, axis, by) : Add(job, 0)
    BY <1>4 DEF AlterPosition
  <2>2. \A k \in 1..Len(job) : ~IsOrder(job[k])
    <3>1. Len(<<>>) = 0
      OBVIOUS
    <3>2. \A target : \A k \in 1..Len(<<GoTo(target)>>) : ~IsOrder(<<GoTo(target)>>[k])
      BY OrderData
    <3> QED
      BY <3>1, <3>2, AlterationsData
  <2>3. job \in Seq(Body)
    BY AlterationsData
  <2> QED
    BY <1>2, <1>4, <2>1, <2>2, <2>3 DEF AlterPosition
<1>5. ASSUME NEW zSafe \in Int, ZeroMachine(c, zSafe) PROVE NoOrder(c)
  <2>1. [a \in {"z"} |-> zSafe] \in Targets
    BY DEF Targets
  <2> QED
    BY <1>2, <1>3, <1>5, <2>1 DEF ZeroMachine
<1>6. ASSUME NEW job \in Jobs \cup {<<>>}, SendToCnc(c, job) PROVE NoOrder(c)
  <2>1. job \in Seq(Body) /\ \A k \in 1..Len(job) : ~IsOrder(job[k])
    <3>1. CASE job \in Jobs
      BY <3>1, ControllerAssumption DEF NoSpindleJobs, IsOrder
    <3>2. CASE job = <<>>
      BY <3>2
    <3> QED
      BY <3>1, <3>2
  <2> QED
    BY <1>1, <1>2, <1>6, <2>1 DEF SendToCnc
<1>7. CASE StopCnc(c)
  <2>1. /\ req[c] = "nothing" /\ Later(c, "clear") /\ UNCHANGED <<line, statics, history>>
    BY <1>7 DEF StopCnc
  <2> QED
    BY <1>1, <2>1, Zenon DEF NoOrder, FlagPending, line, statics, history
<1> QED
  BY <1>4, <1>5, <1>6, <1>7

LEMMA ContinuesNoOrder ==
  ASSUME WebTypeOK, NEW c \in Connections, CtlContinue(c)
  PROVE  NoOrder(c) \/ SetSpindleRunning(c)
<1>1. /\ {"nothing", "clear"} \subseteq Pending
      /\ {"nothing", "clear"} \cap {"setOn", "setOff"} = {}
  BY DEF Pending
<1>2. CASE ZeroMachineHome(c)
  <2> DEFINE bodies == <<GoTo([a \in {"x", "y"} |-> 0])>>
  <2>1. [a \in {"x", "y"} |-> 0] \in Targets
    BY DEF Targets
  <2>2. GoTo([a \in {"x", "y"} |-> 0]) \in Body /\ ~IsOrder(GoTo([a \in {"x", "y"} |-> 0]))
    BY <2>1, CommandData, OrderData
  <2>3. bodies \in Seq(Body) /\ \A k \in 1..Len(bodies) : ~IsOrder(bodies[k])
    BY <2>2
  <2>4. req[c] = "addHome" /\ Add(bodies, 0) /\ Later(c, "nothing")
    BY <1>2 DEF ZeroMachineHome
  <2>5. UNCHANGED <<toFw, spindleRunning, dropped>>
    BY <2>4 DEF Add, line
  <2> HIDE DEF bodies
  <2> QED
    BY <1>1, <2>3, <2>4, <2>5 DEF NoOrder, FlagPending
<1>3. CASE SetSession(c) \/ ClearDone(c)
  BY <1>1, <1>3, Zenon DEF SetSession, ClearDone, NoOrder, FlagPending, line, statics, history
<1>4. CASE ClearPoll(c)
  <2>1. /\ req[c] = "clear" /\ queue # <<>> /\ queue' = Tail(queue) /\ req' = req
        /\ dropped' = dropped \cup Ids(<<Head(queue)>>) /\ UNCHANGED <<toFw, spindleRunning>>
    BY <1>4 DEF ClearPoll, line
  <2>2. Later(c, "clear")
    BY <2>1, WebTypes DEF Later, ServingTypeOK, CtlTypeOK
  <2> QED
    BY <1>1, <2>1, <2>2 DEF NoOrder, FlagPending
<1> QED
  BY <1>2, <1>3, <1>4 DEF CtlContinue

LEMMA SameAgrees ==
  ASSUME UNCHANGED <<toFw, queue, spindle, spindleRunning, req>>, NetSame,
         NEW odd \in BOOLEAN, Agree(odd)
  PROVE  Agree(odd)'
<1>1. \A on \in BOOLEAN : OnTheWay(on)' <=> OnTheWay(on)
  BY DEF OnTheWay
<1>2. \A c \in Connections : /\ FlagPending(c)' <=> FlagPending(c)
                             /\ Toggling(c)' <=> Toggling(c)
                             /\ req'[c] = req[c]
  BY DEF FlagPending, Toggling, NetSame
<1>3. ASSUME Settled(odd) PROVE Settled(odd)'
  BY <1>1, <1>2, <1>3 DEF Settled
<1>4. ASSUME NEW c \in Connections, AskedBy(c, odd) PROVE AskedBy(c, odd)'
  <2>1. net'[c].act = net[c].act
    BY <1>4 DEF AskedBy, NetSame
  <2> QED
    BY <1>1, <1>2, <1>4, <2>1 DEF AskedBy
<1>5. ASSUME NEW c \in Connections, Begun(c, odd) PROVE Begun(c, odd)'
  <2>1. net'[c].act \notin {"on", "off"}
    BY <1>5 DEF Begun, NetSame
  <2> QED
    BY <1>1, <1>2, <1>5, <2>1 DEF Begun
<1> QED
  BY <1>3, <1>4, <1>5 DEF Agree

LEMMA NoOrderAgrees ==
  ASSUME WebTypeOK, NumberedInv, dropped' = {}, NEW c \in Connections, NoOrder(c),
         spindle' = spindle, NetSame, NEW odd \in BOOLEAN, Agree(odd)
  PROVE  Agree(odd)'
<1>1. /\ ServingTypeOK /\ queue \in Seq(Command) /\ accepted \in Nat
      /\ req \in [Connections -> Pending]
  BY WebTypes DEF ServingTypeOK, SharedTypeOK, CtlTypeOK
<1>2. ASSUME NEW on \in BOOLEAN, NEW mid, Leaves(queue, mid, Order(on))
      PROVE  Leaves(queue', mid, Order(on))
  <2>1. CASE queue' = queue
    BY <1>2, <2>1
  <2>2. CASE queue # <<>> /\ queue' = Tail(queue) /\ dropped' = dropped \cup Ids(<<Head(queue)>>)
    BY <1>1, <2>2, HeadNumbered
  <2>3. ASSUME NEW bodies \in Seq(Body), NEW by \in Nat, Add(bodies, by),
               \A k \in 1..Len(bodies) : ~IsOrder(bodies[k])
        PROVE  Leaves(queue', mid, Order(on))
    BY <1>1, <1>2, <2>3, LeavesAdd
  <2> QED
    BY <2>1, <2>2, <2>3 DEF NoOrder
<1>3. \A on \in BOOLEAN : OnTheWay(on) => OnTheWay(on)'
  BY <1>2 DEF OnTheWay, NoOrder
<1>4. PICK rest \in Pending : rest \notin {"setOn", "setOff"} /\ req' = [req EXCEPT ![c] = rest]
  BY DEF NoOrder, Later
<1>5. ~FlagPending(c) /\ spindleRunning' = spindleRunning
  BY DEF NoOrder
<1>6. \A d \in Connections : /\ FlagPending(d)' <=> FlagPending(d)
                             /\ Toggling(d)' <=> Toggling(d)
                             /\ FlagPending(d) => req'[d] = req[d]
  BY <1>1, <1>4, <1>5 DEF FlagPending, Toggling, NetSame
<1>7. ASSUME Settled(odd) PROVE Settled(odd)'
  BY <1>3, <1>5, <1>6, <1>7 DEF Settled
<1>8. ASSUME NEW d \in Connections, AskedBy(d, odd) PROVE AskedBy(d, odd)'
  <2>1. net'[d].act = net[d].act
    BY <1>8 DEF AskedBy, NetSame
  <2> QED
    BY <1>3, <1>6, <1>8, <2>1 DEF AskedBy
<1>9. ASSUME NEW d \in Connections, Begun(d, odd) PROVE Begun(d, odd)'
  <2>1. net'[d].act \notin {"on", "off"} /\ FlagPending(d)
    BY <1>9, OrderData DEF Begun, NetSame, FlagPending
  <2> QED
    BY <1>3, <1>6, <1>9, <2>1 DEF Begun
<1> QED
  BY <1>7, <1>8, <1>9 DEF Agree

\* The flag is written with the order that was counted.
LEMMA FlagWritten ==
  ASSUME WebTypeOK, NEW c \in Connections, SetSpindleRunning(c), UNCHANGED <<net, spindle>>,
         NEW odd \in BOOLEAN, Agree(odd)
  PROVE  Agree(odd)'
<1>1. PICK on \in BOOLEAN : /\ req[c] = SetFlag(on) /\ spindleRunning' = on
                            /\ req' = [req EXCEPT ![c] = "nothing"]
                            /\ UNCHANGED <<queue, toFw>>
  BY DEF SetSpindleRunning, Later, line
<1>2. req \in [Connections -> Pending] /\ FlagPending(c) /\ Toggling(c)
  BY <1>1, WebTypes, OrderData DEF ServingTypeOK, CtlTypeOK, FlagPending, Toggling
<1>3. Begun(c, odd)
  BY <1>2 DEF Agree, Settled, AskedBy, Begun
<1>4. on = odd
  BY <1>1, <1>3, OrderData DEF Begun
<1>5. \A d \in Connections : ~Toggling(d)'
  BY <1>1, <1>2, <1>3 DEF Begun, Toggling, FlagPending
<1>6. OnTheWay(odd)'
  BY <1>1, <1>3 DEF Begun, OnTheWay
<1> QED
  BY <1>1, <1>4, <1>5, <1>6 DEF Agree, Settled

\* The thread of a toggle queues the order behind all others.
LEMMA ToggleBegins ==
  ASSUME WebTypeOK, NEW c \in Connections, net[c].act \in {"on", "off"},
         ToggleSpindle(c, net[c].act = "on"), net'[c].act = "none",
         \A d \in Connections : d # c => net'[d] = net[d],
         spindle' = spindle, NEW odd \in BOOLEAN, Agree(odd)
  PROVE  Agree(odd)'
<1>1. /\ queue \in Seq(Command) /\ accepted \in Nat /\ req \in [Connections -> Pending]
  BY WebTypes DEF ServingTypeOK, SharedTypeOK, CtlTypeOK
<1>2. AskedBy(c, odd)
  BY DEF Agree, Settled, AskedBy, Begun, Toggling
<1>3. (net[c].act = "on") = odd
  BY <1>2 DEF AskedBy
<1>4. Add(<<Spindle(odd)>>, 0) /\ req' = [req EXCEPT ![c] = SetFlag(odd)]
  BY <1>3 DEF ToggleSpindle, Later
<1>5. OnTheWay(odd)'
  <2>1. PICK mid : Leaves(toFw, Order(spindle), mid) /\ Leaves(queue, mid, Order(~odd))
    BY <1>2 DEF AskedBy, OnTheWay
  <2>2. <<Spindle(odd)>> \in Seq(Body)
    BY CommandData
  <2>3. Leaves(queue', mid, Order(odd))
    BY <1>1, <1>4, <2>1, <2>2, LeavesAdd
  <2>4. toFw' = toFw
    BY <1>4 DEF Add, line
  <2> QED
    BY <2>1, <2>3, <2>4 DEF OnTheWay
<1>6. Begun(c, odd)'
  <2>1. req'[c] = SetFlag(odd) /\ \A d \in Connections : d # c => req'[d] = req[d]
    BY <1>1, <1>4
  <2>2. \A d \in Connections : Toggling(d)' => d = c
    BY <1>2, <2>1 DEF AskedBy, Toggling, FlagPending
  <2> QED
    BY <1>5, <2>1, <2>2 DEF Begun
<1> QED
  BY <1>6 DEF Agree

\* The click that counts a toggle, with none under way.
LEMMA ToggleAsked ==
  ASSUME UNCHANGED <<toFw, queue, spindle, spindleRunning, req>>, ~ToggleUnderWay,
         NEW odd \in BOOLEAN, Agree(odd), NEW c \in Connections,
         net'[c].act = IF odd THEN "off" ELSE "on",
         \A d \in Connections : d # c => net'[d] = net[d]
  PROVE  Agree(~odd)'
<1>1. \A d \in Connections : ~Toggling(d)
  BY DEF ToggleUnderWay, Toggling, FlagPending
<1>2. OnTheWay(odd)
  BY <1>1, OrderData DEF Agree, Settled, AskedBy, Begun, Toggling, FlagPending
<1>3. OnTheWay(odd)'
  BY <1>2 DEF OnTheWay
<1>4. AskedBy(c, ~odd)'
  <2>1. ~FlagPending(c)' /\ \A d \in Connections : Toggling(d)' => d = c
    BY <1>1 DEF Toggling, FlagPending
  <2>2. net'[c].act = IF ~odd THEN "on" ELSE "off"
    OBVIOUS
  <2>3. OnTheWay(~~odd)'
    BY <1>3 DEF OnTheWay, Order
  <2> QED
    BY <2>1, <2>2, <2>3 DEF AskedBy
<1> QED
  BY <1>4 DEF Agree

\* The orders move on, from the queue to the line and from there to the pin.
LEMMA OrdersMove ==
  ASSUME WebTypeOK, NumberedInv, dropped' = {}, MachineStep \/ ThreadStep,
         NEW odd \in BOOLEAN, Agree(odd)
  PROVE  Agree(odd)'
<1>1. /\ ServingTypeOK /\ queue \in Seq(Command) /\ toFw \in Seq(Command)
      /\ net' = net /\ req' = req
  BY WebTypes DEF ServingTypeOK, SharedTypeOK, MachineStep, ThreadStep, script
<1>2. spindleRunning' = spindleRunning
  BY ThreadOrders DEF MachineStep, Machine, statics, ThreadStep
<1>3. ASSUME NEW on \in BOOLEAN, NEW mid,
             Leaves(toFw, Order(spindle), mid), Leaves(queue, mid, Order(on))
      PROVE  OnTheWay(on)'
  <2>1. CASE MachineStep
    <3>1. /\ toFw # <<>> /\ toFw' = Tail(toFw) /\ queue' = queue
          /\ spindle' = IF Head(toFw).op \in {"spindleOn", "spindleOff"}
                        THEN Head(toFw).op = "spindleOn" ELSE spindle
      BY <2>1 DEF MachineStep, Machine, statics
    <3>2. Order(spindle') = SetBy(Head(toFw), Order(spindle))
      BY <3>1 DEF Order, SetBy, IsOrder
    <3>3. Leaves(toFw', Order(spindle'), mid)
      BY <1>1, <1>3, <3>1, <3>2, LeavesTail
    <3> QED
      BY <1>3, <3>1, <3>3 DEF OnTheWay
  <2>2. CASE ThreadStep
    <3>1. CommNext /\ spindle' = spindle
      BY <2>2 DEF ThreadStep, fwVars
    <3>2. CASE queue' = queue /\ toFw' = toFw
      BY <1>3, <3>1, <3>2 DEF OnTheWay
    <3>3. CASE queue' = queue /\ toFw' = Append(toFw, ServerHandShake)
      <4>1. Leaves(toFw', Order(spindle), SetBy(ServerHandShake, mid))
        BY <1>1, <1>3, <3>3, CommandData, LeavesAppend
      <4>2. SetBy(ServerHandShake, mid) = mid
        BY OrderData DEF SetBy
      <4> QED
        BY <1>3, <3>1, <3>3, <4>1, <4>2 DEF OnTheWay
    <3>4. CASE queue # <<>> /\ queue' = Tail(queue) /\ toFw' = Append(toFw, Head(queue))
      <4>1. Head(queue) \in Command
        BY <1>1, <3>4, HeadTail
      <4>2. Leaves(toFw', Order(spindle), SetBy(Head(queue), mid))
        BY <1>1, <1>3, <3>4, <4>1, LeavesAppend
      <4>3. Leaves(queue', SetBy(Head(queue), mid), Order(on))
        BY <1>1, <1>3, <3>4, LeavesTail
      <4> QED
        BY <3>1, <4>2, <4>3 DEF OnTheWay
    <3>5. CASE /\ queue # <<>> /\ queue' = Tail(queue)
               /\ dropped' = dropped \cup Ids(<<Head(queue)>>)
      BY <1>1, <3>5, HeadNumbered
    <3> QED
      BY <3>1, <3>2, <3>3, <3>4, <3>5, ThreadOrders
  <2> QED
    BY <2>1, <2>2
<1>4. \A on \in BOOLEAN : OnTheWay(on) => OnTheWay(on)'
  BY <1>3 DEF OnTheWay
<1>5. \A c \in Connections : /\ FlagPending(c)' <=> FlagPending(c)
                             /\ Toggling(c)' <=> Toggling(c)
  BY <1>1 DEF FlagPending, Toggling
<1> QED
  BY <1>1, <1>2, <1>4, <1>5 DEF Agree, Settled, AskedBy, Begun

\* What was dropped stays dropped.
LEMMA DropsStay ==
  ASSUME WebTypeOK, [WebNext]_webVars
  PROVE  dropped \subseteq dropped'
<1>1. CASE UNCHANGED webVars \/ MachineStep \/ ThreadStep
  BY <1>1, ThreadOrders DEF webVars, history, MachineStep, Machine, ThreadStep
<1>2. ASSUME NEW c \in Connections, Others(c) \/ Arrival(c) \/ RequestStep(c)
      PROVE  dropped \subseteq dropped'
  BY <1>2, WebTypes, ConnectionSteps, AskEffect DEF RequestEffect, history
<1>3. ASSUME NEW p \in Pages, Button(p) \/ Push(p) \/ Browser(p) \/ Tab(p)
      PROVE  dropped \subseteq dropped'
  BY <1>3 DEF Button, Push, Browser, Tab, history
<1> QED
  BY <1>1, <1>2, <1>3 DEF WebNext

\* Only clicks and toggles of others change who has toggled the spindle alone.
LEMMA AloneShrinks ==
  ASSUME [WebNext]_webVars
  PROVE  alone' \subseteq alone
<1>1. CASE UNCHANGED webVars \/ MachineStep \/ ThreadStep
           \/ \E c \in Connections : Others(c) \/ Arrival(c) \/ RequestStep(c)
  BY <1>1 DEF webVars, MachineStep, ThreadStep, Others, Arrival, RequestStep
<1>2. ASSUME NEW p \in Pages, Button(p) \/ Push(p) \/ Browser(p) \/ Tab(p)
      PROVE  alone' \subseteq alone
  BY <1>2 DEF Button, Push, Browser, Tab
<1> QED
  BY <1>1, <1>2 DEF WebNext

\* What a request does to the agreement of a page that has toggled alone.
LEMMA ConnectionsAgree ==
  ASSUME WebTypeOK, NumberedInv, NoSpindleJobs, dropped' = {}, NEW c \in Connections,
         Others(c) \/ Arrival(c) \/ RequestStep(c), alone' # {}, NEW odd \in BOOLEAN, Agree(odd)
  PROVE  Agree(odd)'
<1>1. net \in [Connections -> Asked] /\ net[c] \in Asked
  BY WebTypes
<1>2. CASE Others(c)
  <2>1. (\E job \in Jobs : SendToCnc(c, job)) /\ UNCHANGED <<net, spindle>>
    BY <1>2 DEF Others, fwVars
  <2>2. NoOrder(c)
    BY <2>1, AsksNoOrder
  <2>3. NetSame
    BY <2>1 DEF NetSame
  <2> QED
    BY <2>1, <2>2, <2>3, NoOrderAgrees
<1>3. CASE Arrival(c)
  <2>1. /\ Arrive(c) /\ Handle(net[c], c) /\ spindle' = spindle
        /\ net'[c].act = "none" /\ \A d \in Connections : d # c => net'[d] = net[d]
    <3>1. Arrive(c) /\ spindle' = spindle
      BY <1>3 DEF Arrival, fwVars
    <3> QED
      BY <3>1, ArriveAsks, AskData DEF Arrive
  <2>2. CASE net[c].act \in {"on", "off"}
    <3>1. ToggleSpindle(c, net[c].act = "on")
      BY <2>1, <2>2 DEF Handle
    <3> QED
      BY <2>1, <2>2, <3>1, ToggleBegins
  <2>3. CASE net[c].act \notin {"on", "off"}
    <3>1. /\ net[c].shown \in PosLine /\ net[c].axis \in Axes /\ net[c].by \in Int
          /\ net[c].job \in Jobs \cup {<<>>}
      BY <1>1 DEF Asked
    <3>2. \/ AlterPosition(c, net[c].shown, net[c].axis, net[c].by)
          \/ ZeroMachine(c, net[c].by)
          \/ SendToCnc(c, net[c].job)
          \/ StopCnc(c)
      BY <2>1, <2>3, Zenon DEF Handle
    <3>3. NoOrder(c)
      BY <3>1, <3>2, AsksNoOrder
    <3>4. NetSame
      BY <2>1, <2>3 DEF NetSame
    <3> QED
      BY <2>1, <3>3, <3>4, NoOrderAgrees
  <2> QED
    BY <2>2, <2>3
<1>4. CASE RequestStep(c)
  <2>1. CtlContinue(c) /\ spindle' = spindle /\ net' = net /\ NetSame
    BY <1>4 DEF RequestStep, fwVars, script, NetSame
  <2>2. CASE NoOrder(c)
    BY <2>1, <2>2, NoOrderAgrees
  <2>3. CASE SetSpindleRunning(c)
    BY <2>1, <2>3, FlagWritten
  <2> QED
    BY <2>1, <2>2, <2>3, ContinuesNoOrder
<1> QED
  BY <1>2, <1>3, <1>4

\* A page that has toggled the spindle alone, its counter, the pin and the flag of
\* the server agree whenever nothing is queued, on the line or under way: with no
\* job that toggles, nothing dropped by a stop, and no click on the box before
\* the last one was done.
THEOREM SpindleCopiesAlwaysAgree == WebSpec => []SpindleCopiesAgree
<1>1. WebInit => SpindleInv
  <2> SUFFICES ASSUME WebInit, NEW p \in Pages PROVE Follows(p)
    BY DEF SpindleInv, WebInit
  <2>1. /\ toFw = <<>> /\ queue = <<>> /\ spindle = FALSE /\ spindleRunning = FALSE
        /\ page[p].odd = FALSE
        /\ \A c \in Connections : req[c] = "nothing" /\ net[c].act = "none"
    BY PageData, AskData DEF WebInit, ServingInit, PageInit, CtlInit
  <2>2. Len(<<>>) = 0
    OBVIOUS
  <2>3. OnTheWay(FALSE)
    <3>1. \A was : Leaves(<<>>, was, was)
      BY <2>2 DEF Leaves
    <3> QED
      BY <2>1, <3>1 DEF OnTheWay
  <2>4. Agree(FALSE)
    BY <2>1, <2>3 DEF Agree, Settled, Toggling, FlagPending
  <2> QED
    BY <2>1, <2>4 DEF Follows
<1>2. WebTypeOK /\ NumberedInv /\ SpindleInv /\ [WebNext]_webVars => SpindleInv'
  <2> SUFFICES ASSUME WebTypeOK, NumberedInv, SpindleInv, [WebNext]_webVars,
                      NoSpindleJobs, dropped' = {}, NEW p \in alone'
               PROVE  Follows(p)'
    BY DEF SpindleInv, NoSpindleJobs
  <2>1. p \in Pages /\ Follows(p)
    BY DropsStay, AloneShrinks, WebTypes DEF SpindleInv
  <2>2. ASSUME page'[p].tab = page[p].tab, page'[p].odd = page[p].odd,
               \A odd \in BOOLEAN : Agree(odd) => Agree(odd)'
        PROVE  Follows(p)'
    BY <2>1, <2>2 DEF Follows
  <2>3. ASSUME page'[p].tab = page[p].tab, page'[p].odd = page[p].odd,
               UNCHANGED <<toFw, queue, spindle, spindleRunning, req>>, NetSame
        PROVE  Follows(p)'
    BY <2>2, <2>3, SameAgrees
  <2>4. CASE UNCHANGED webVars
    BY <2>3, <2>4 DEF webVars, line, statics, fwVars, script, NetSame
  <2>5. CASE MachineStep \/ ThreadStep
    <3>1. page' = page
      BY <2>5 DEF MachineStep, ThreadStep, script
    <3> QED
      BY <2>2, <2>5, <3>1, OrdersMove
  <2>6. ASSUME NEW c \in Connections, Others(c) \/ Arrival(c) \/ RequestStep(c) PROVE Follows(p)'
    <3>1. page' = page
      BY <2>6 DEF Others, Arrival, Arrive, RequestStep, script
    <3> QED
      BY <2>2, <2>6, <3>1, ConnectionsAgree
  <2>7. ASSUME NEW q \in Pages, Button(q) PROVE Follows(p)'
    <3>1. /\ PressEffect(q) /\ UNCHANGED <<toFw, queue, spindle, spindleRunning, req>>
          /\ page[q].odd \in BOOLEAN
      BY <2>7, PressSteps, ThreadTypes DEF Button, line, statics, fwVars, PageState
    <3>2. PICK c \in Connections :
            /\ req[c] = "nothing" /\ net[c].act = "none"
            /\ \A d \in Connections : d # c => net'[d] = net[d]
            /\ \/ page'[q].odd = page[q].odd /\ net'[c].act \notin {"on", "off"}
               \/ /\ page'[q].odd = ~page[q].odd
                  /\ net'[c].act = IF page[q].odd THEN "off" ELSE "on"
      BY <3>1 DEF PressEffect
    <3>3. CASE page'[q].odd = page[q].odd
      <4>1. NetSame
        BY <3>1, <3>2, <3>3 DEF NetSame
      <4>2. page'[p].tab = page[p].tab /\ page'[p].odd = page[p].odd
        BY <2>1, <3>1, <3>3 DEF PressEffect
      <4> QED
        BY <2>3, <3>1, <4>1, <4>2
    <3>4. CASE page'[q].odd # page[q].odd
      <4>1. p = q /\ ~ToggleUnderWay
        BY <2>7, <3>4 DEF Button
      <4>2. /\ page[p].tab = "open" /\ page'[p].tab = "open"
            /\ page'[p].odd = ~page[p].odd /\ net'[c].act = IF page[p].odd THEN "off" ELSE "on"
        BY <3>1, <3>2, <3>4, <4>1 DEF PressEffect
      <4>3. ASSUME NEW odd \in BOOLEAN, page[p].odd = odd PROVE Agree(~odd)'
        <5>1. Agree(odd)
          BY <2>1, <4>2, <4>3 DEF Follows
        <5> QED
          BY <3>1, <3>2, <4>1, <4>2, <4>3, <5>1, ToggleAsked
      <4>4. ASSUME NEW odd \in BOOLEAN, page'[p].odd = odd PROVE Agree(odd)'
        <5>1. CASE odd = TRUE
          BY <3>1, <4>1, <4>2, <4>3, <4>4, <5>1
        <5>2. CASE odd = FALSE
          BY <3>1, <4>1, <4>2, <4>3, <4>4, <5>2
        <5> QED
          BY <5>1, <5>2
      <4> QED
        BY <4>2, <4>4 DEF Follows
    <3> QED
      BY <3>3, <3>4
  <2>8. ASSUME NEW q \in Pages, Push(q) PROVE Follows(p)'
    BY <2>3, <2>8 DEF Push, line, statics, fwVars, script, NetSame
  <2>9. ASSUME NEW q \in Pages, Browser(q) PROVE Follows(p)'
    <3>1. MessageEffect(q) /\ net' = net
      BY <2>9, MessageSteps DEF Browser, OnMessage
    <3>2. page'[p].tab = page[p].tab /\ page'[p].odd = page[p].odd
      BY <2>1, <3>1 DEF MessageEffect
    <3> QED
      BY <2>3, <2>9, <3>1, <3>2 DEF Browser, line, statics, fwVars, NetSame
  <2>10. ASSUME NEW q \in Pages, Tab(q) PROVE Follows(p)'
    <3>1. UNCHANGED <<toFw, queue, spindle, spindleRunning, req>> /\ NetSame
          /\ page \in [Pages -> PageState]
      BY <2>10, WebTypes DEF Tab, OpenTab, CloseTab, line, statics, fwVars, NetSame
    <3>2. CASE q # p
      <4>1. page'[p] = page[p]
        BY <2>1, <2>10, <3>1, <3>2, OpenFacts, CloseFacts DEF Tab
      <4> QED
        BY <2>3, <3>1, <4>1
    <3>3. CASE q = p /\ OpenTab(q)
      <4>1. page[p].tab = "new" /\ page'[p] = Loaded("open")
        BY <3>1, <3>3, OpenFacts
      <4>2. page'[p].tab = "open" /\ page'[p].odd = FALSE /\ page[p].odd = FALSE
        BY <2>1, <4>1, PageData DEF Follows
      <4>3. Agree(FALSE)'
        BY <2>1, <3>1, <4>1, <4>2, SameAgrees DEF Follows
      <4> QED
        BY <4>2, <4>3 DEF Follows
    <3>4. CASE q = p /\ CloseTab(q)
      <4>1. page'[p].tab = "closed"
        BY <3>1, <3>4, CloseFacts, PageData
      <4> QED
        BY <4>1 DEF Follows
    <3> QED
      BY <2>10, <3>2, <3>3, <3>4 DEF Tab
  <2> QED
    BY <2>4, <2>5, <2>6, <2>7, <2>8, <2>9, <2>10 DEF WebNext
<1>3. WebTypeOK /\ SpindleInv => SpindleCopiesAgree
  <2> SUFFICES ASSUME WebTypeOK, SpindleInv, NoSpindleJobs, queue = <<>>, toFw = <<>>,
                      dropped = {}, ~ToggleUnderWay, NEW p \in alone, Open(p)
               PROVE  page[p].odd = spindle /\ spindleRunning = spindle
    BY DEF SpindleCopiesAgree
  <2>1. PICK odd \in BOOLEAN : page[p].odd = odd
    BY WebTypes, ThreadTypes DEF PageState
  <2>2. Agree(odd) /\ spindle \in BOOLEAN
    BY <2>1, WebTypes DEF ServingTypeOK, FwTypeOK, SpindleInv, Follows, Open
  <2>3. \A c \in Connections : ~Toggling(c)
    BY DEF ToggleUnderWay, Toggling, FlagPending
  <2>4. Settled(odd)
    BY <2>2, <2>3, OrderData DEF Agree, AskedBy, Begun, Toggling, FlagPending
  <2>5. Len(<<>>) = 0
    OBVIOUS
  <2>6. Order(spindle) = Order(odd)
    BY <2>4, <2>5 DEF Settled, OnTheWay, Leaves
  <2>7. spindle = odd
    BY <2>2, <2>6, OrderData
  <2> QED
    BY <2>1, <2>4, <2>7 DEF Settled
<1> QED
  BY <1>1, <1>2, <1>3, NumberedInvariant, PTL DEF WebSpec

=============================================================================
