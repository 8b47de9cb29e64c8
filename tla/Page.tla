-------------------------------- MODULE Page --------------------------------
(***************************************************************************)
(* The script of CncInterface/jsp/gui.jsp: what a page keeps of the status *)
(* it is sent, and the requests its buttons make of that copy. $.ajax does *)
(* not wait: a page may have a request on each of its connections, and the *)
(* server begins them in any order.                                        *)
(***************************************************************************)
EXTENDS Controller, WSocket, Requests

VARIABLES
  page,    \* by page: what it shows and remembers
  net      \* by connection: the request sent that the server has not begun

script == <<page, net, quota>>

\* tab: whether it is open; shown: the status whose coordinates it shows; box:
\* the check box; blocked: the controls are disabled; running: sendToCncStatus;
\* odd: toggleSpindleCounter; touched (history): the box or the button that
\* starts and stops was pressed since the last status.
PageState == [tab : {"new", "open", "closed"}, shown : Status, box : BOOLEAN,
              blocked : BOOLEAN, running : {"off", "on", "undefined"}, odd : BOOLEAN,
              touched : BOOLEAN]
Asked     == [act : Acts \cup {"none"}, shown : PosLine, axis : Axes, by : Int,
              job : Jobs \cup {<<>>}]

PageTypeOK ==
  page \in [Pages -> PageState] /\ net \in [Connections -> Asked] /\ QuotaTypeOK

Loaded(tab) ==
  [tab |-> tab, shown |-> Nothing, box |-> FALSE, blocked |-> FALSE, running |-> "off",
   odd |-> FALSE, touched |-> FALSE]
Ask(act, shown, axis, by, job) ==
  [act |-> act, shown |-> shown, axis |-> axis, by |-> by, job |-> job]
Simple(act) == Ask(act, NoLine, "x", 0, <<>>)

PageInit ==
  /\ page = [p \in Pages |-> Loaded("new")]
  /\ net = [c \in Connections |-> Simple("none")]
  /\ QuotaInit

\* A tab is opened and closed once: loading it again draws a new id. What it
\* has asked for may still come to the server.
OpenTab(p) ==
  /\ page[p].tab = "new" /\ OnOpen(p)
  /\ page' = [page EXCEPT ![p] = Loaded("open")]
  /\ UNCHANGED <<net, quota>>

CloseTab(p) ==
  /\ page[p].tab = "open" /\ OnClose(p)
  /\ page' = [page EXCEPT ![p] = Loaded("closed")]
  /\ UNCHANGED <<net, quota>>

\* The fields of a status, split at '#'. A line that kept one '#' makes four:
\* the box is set by the queue's flag, and there is no fifth.
BoxOf(status)     == IF status.line.kind = "one" THEN status.busy ELSE status.spindle
RunningOf(status) == IF status.line.kind = "one" THEN "undefined"
                     ELSE IF status.busy THEN "on" ELSE "off"

\* Mutant: the script leaves the check box to the user.
OnMessageKeepsBox(p) ==
  /\ page[p].tab = "open" /\ ws[p] # <<>>
  /\ ws' = [ws EXCEPT ![p] = Tail(@)]
  /\ LET msg == Head(ws[p])
     IN  page' = IF msg = InUse THEN [page EXCEPT ![p].blocked = TRUE]
                 ELSE [page EXCEPT ![p].blocked = FALSE, ![p].shown = msg,
                         ![p].running = RunningOf(msg), ![p].touched = FALSE]
  /\ UNCHANGED <<push, links, net, quota>>

\* ws.onmessage. A line with fewer than four fields only unblocks the page.
OnMessage(p) ==
  /\ page[p].tab = "open" /\ ws[p] # <<>>
  /\ ws' = [ws EXCEPT ![p] = Tail(@)]
  /\ LET msg == Head(ws[p])
     IN  page' = IF msg = InUse THEN [page EXCEPT ![p].blocked = TRUE]
                 ELSE IF msg.line.kind = "none" THEN [page EXCEPT ![p].blocked = FALSE]
                 ELSE [page EXCEPT ![p].blocked = FALSE, ![p].shown = msg,
                         ![p].box = BoxOf(msg), ![p].running = RunningOf(msg),
                         ![p].touched = FALSE]
  /\ UNCHANGED <<push, links, net, quota>>

-----------------------------------------------------------------------------
(* The buttons that blockInterface() disables.                             *)

\* The browser takes a connection of the client's that carries no request; it
\* makes no difference which.
Free(p) == {c \in Connections : Owner[c] = IdOf[p] /\ req[c] = "nothing" /\ net[c].act = "none"}
Ajax(p, r) ==
  /\ Use(r.act) /\ Free(p) # {}
  /\ net' = [net EXCEPT ![CHOOSE c \in Free(p) : TRUE] = r]

\* One button starts and stops, by the page's own copy of the status; when that
\* is undefined, it does nothing.
PressSend(p, job) ==
  \/ /\ page[p].running = "off" /\ Ajax(p, Ask("send", NoLine, "x", 0, job))
     /\ page' = [page EXCEPT ![p].running = "on", ![p].touched = TRUE]
  \/ /\ page[p].running = "on" /\ Ajax(p, Simple("stop"))
     /\ page' = [page EXCEPT ![p].running = "off", ![p].touched = TRUE]

\* The browser flips the box; the order alternates, whatever the box shows.
PressToggle(p) ==
  /\ Ajax(p, Simple(IF page[p].odd THEN "off" ELSE "on"))
  /\ page' = [page EXCEPT ![p].odd = ~@, ![p].box = ~@, ![p].touched = TRUE]

\* Without coordinates on the page the server finds no number in the request.
PressAlter(p, axis, by) ==
  /\ ContainsHash(page[p].shown.line)
  /\ Ajax(p, Ask("alter", page[p].shown.line, axis, by, <<>>))
  /\ page' = page

PressZero(p, zSafe) ==
  /\ Ajax(p, Ask("zero", NoLine, "x", zSafe, <<>>))
  /\ page' = page

\* What blockInterface() disables.
Press(p) ==
  /\ page[p].tab = "open" /\ ~page[p].blocked
  /\ \/ \E job \in Jobs : PressSend(p, job)
     \/ PressToggle(p)
     \/ \E b \in Buttons : PressAlter(p, b[1], b[2])
     \/ \E zSafe \in ZSafes : PressZero(p, zSafe)

-----------------------------------------------------------------------------
\* A thread of Tomcat's begins the request of a connection.
Arrive(c) ==
  /\ Handle(net[c], c)
  /\ net' = [net EXCEPT ![c] = Simple("none")]
  /\ UNCHANGED <<page, quota>>
=============================================================================
