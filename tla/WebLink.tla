------------------------------ MODULE WebLink ------------------------------
(***************************************************************************)
(* The server after its handshake, with the pages its status is pushed to. *)
(* A client with pages sends what their buttons send; the others send jobs *)
(* and toggle the spindle.                                                 *)
(***************************************************************************)
EXTENDS Serving, Page

\* History: the pages that alone have toggled the spindle so far, each time
\* with no toggle under way.
VARIABLE alone

webVars == <<line, statics, history, fwVars, cpc, req, sockets, script, alone>>

WebInit == ServingInit /\ SocketInit /\ PageInit /\ alone = Pages

Paged == {IdOf[p] : p \in Pages}

\* A toggle is under way from the click until its thread has set the flag.
ToggleUnderWay ==
  \E c \in Connections : net[c].act \in {"on", "off"} \/ req[c] \in {"setOn", "setOff"}

MachineStep    == Machine /\ UNCHANGED <<cpc, req, sockets, script, alone>>
ThreadStep     == CommNext /\ UNCHANGED <<fwVars, req, sockets, script, alone>>
RequestStep(c) == CtlContinue(c) /\ UNCHANGED <<fwVars, cpc, sockets, script, alone>>
Arrival(c)     == Arrive(c) /\ UNCHANGED <<fwVars, cpc, sockets, alone>>
Others(c)      ==
  /\ Owner[c] \notin Paged
  /\ \/ (\E job \in Jobs : SendToCnc(c, job)) /\ Use("send") /\ alone' = alone
     \/ \E on \in Toggles :
          ToggleSpindle(c, on) /\ Use(IF on THEN "on" ELSE "off") /\ alone' = {}
  /\ UNCHANGED <<fwVars, cpc, sockets, page, net>>
Button(p)      ==
  /\ Press(p)
  /\ alone' = IF page'[p].odd = page[p].odd THEN alone
              ELSE IF ToggleUnderWay THEN {} ELSE alone \cap {p}
  /\ UNCHANGED <<line, statics, history, fwVars, cpc, req, sockets>>
Push(p)        == PushNext(p)
                  /\ UNCHANGED <<line, statics, history, fwVars, cpc, req, script, alone>>
Browser(p)     == OnMessage(p) /\ UNCHANGED <<line, statics, history, fwVars, cpc, req, alone>>
Tab(p)         == (OpenTab(p) \/ CloseTab(p))
                  /\ UNCHANGED <<line, statics, history, fwVars, cpc, req, alone>>

WebNext ==
  \/ MachineStep \/ ThreadStep
  \/ \E c \in Connections : RequestStep(c) \/ Arrival(c) \/ Others(c)
  \/ \E p \in Pages : Button(p) \/ Push(p) \/ Browser(p) \/ Tab(p)

WebSpec == WebInit /\ [][WebNext]_webVars

\* As in CncLink (it is enough that some thread of a running request runs); the
\* push threads spin and are scheduled, a browser handles the messages that have
\* come. Nobody has to open a page or press a button, and a request need not
\* come to the server.
WebFairSpec ==
  /\ WebSpec
  /\ WF_webVars(MachineStep) /\ WF_webVars(ThreadStep)
  /\ WF_webVars(\E c \in Connections : RequestStep(c))
  /\ \A p \in Pages : WF_webVars(Push(p)) /\ WF_webVars(Browser(p))

-----------------------------------------------------------------------------
WebTypeOK == ServingTypeOK /\ SocketTypeOK /\ PageTypeOK /\ alone \subseteq Pages

Open(p) == page[p].tab = "open"

\* What the check box and the button show is the status, unless they were pressed
\* since it came: the browser flips the box, and the page does not take it back.
ControlsShow(p, status) ==
  page[p].touched \/ (page[p].box = BoxOf(status) /\ page[p].running = RunningOf(status))

\* What the page shows once it has handled what is on its way is what its
\* thread last sent: the comparison with oldLine is a comparison with the page.
\* (It need not be for a box or button that was pressed since.) A page that is
\* left blocked has missed nothing but the unblocking. (Two pages that loaded
\* in the same millisecond have one id: closing one stops the other.)
DistinctIds == \A p, q \in Pages : IdOf[p] = IdOf[q] => p = q
ShowsInTheEnd(p, status) ==
  LET sent == {j \in 1..Len(ws[p]) : ws[p][j] # InUse}
  IN  IF sent = {} THEN page[p].shown = status /\ ControlsShow(p, status)
      ELSE \E j \in sent : ws[p][j] = status /\ \A k \in sent : k <= j
PageKeepsUp ==
  DistinctIds => \A p \in Pages : Open(p) => ShowsInTheEnd(p, push[p].old)

\* If one page alone has toggled the spindle, never before its last toggle was
\* done, and no stop has dropped a command, then the pin, the server's flag and
\* the page's counter agree whenever nothing is under way. (Two quick clicks,
\* even of one page, are carried out in any order.)
NoSpindleJobs == \A job \in Jobs : \A k \in 1..Len(job) : job[k].op \notin {"spindleOn", "spindleOff"}
SpindleCopiesAgree ==
  NoSpindleJobs /\ queue = <<>> /\ toFw = <<>> /\ dropped = {} /\ ~ToggleUnderWay
  => \A p \in alone : Open(p) => page[p].odd = spindle /\ spindleRunning = spindle

\* The status shown in the end is the status there is: whatever was read torn,
\* missed while another client owned the machine, or changed back in between,
\* as long as the serial thread lives. The position is the machine's when the
\* drain has left no line too many.
PagesAgreeInTheEnd ==
  \A p \in Pages : <>[](Open(p) /\ cpc # "dead" =>
    /\ page[p].shown = Current /\ ControlsShow(p, Current)
    /\ toHost = <<>> /\ toFw = <<>> => page[p].shown.line = Report(pos))
=============================================================================
