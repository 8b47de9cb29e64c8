------------------------------ MODULE CncLink ------------------------------
(***************************************************************************)
(* The server's serial thread, the servlets and the firmware over one      *)
(* serial line, from power on. Every step is a step of one of the three.   *)
(* The line delivers in order and loses nothing; faults are CncFaults.     *)
(***************************************************************************)
EXTENDS Firmware, Communicator, Controller

\* History: a stop has taken the command the serial thread found in the queue,
\* and the thread has not asked the queue since.
VARIABLE robbed

vars == <<line, statics, history, fwVars, cpc, req, robbed>>

Init == SharedInit /\ FwInit /\ CommInit /\ CtlInit /\ robbed = FALSE

\* The drain stops in the middle of a line the firmware is still sending: the
\* characters that come later are read as a line of their own. (The line is
\* handShake()'s, or main()'s if only the server was restarted.)
DrainMidLine ==
  /\ cpc = "drain" /\ toHost = <<>> /\ fpc \in {"hsPuts", "puts"}
  /\ cpc' = "check" /\ fpc' = (IF fpc = "hsPuts" THEN "hsGets" ELSE "gets")
  /\ \E kind \in {"two", "one", "tail"} : toHost' = <<Rest(kind)>>
  /\ UNCHANGED <<buffer, pos, tool, spindle, toFw, statics, history, req, robbed>>

FirmwareStep     == FwNext /\ UNCHANGED <<cpc, req, robbed>>
CommunicatorStep == CommNext /\ robbed' = (robbed /\ cpc # "check") /\ UNCHANGED <<fwVars, req>>
Request          == \E c \in Connections : CtlRequest(c) /\ UNCHANGED <<fwVars, cpc, robbed>>
RequestStep(c)   ==
  /\ CtlContinue(c)
  /\ robbed' = (robbed \/ (cpc = "take" /\ req[c] = "clear" /\ queue # <<>>))
  /\ UNCHANGED <<fwVars, cpc>>

Next ==
  \/ FirmwareStep
  \/ CommunicatorStep
  \/ DrainMidLine
  \/ Request
  \/ \E c \in Connections : RequestStep(c)

Spec == Init /\ [][Next]_vars

\* The firmware is alone on its processor; the serial thread and the threads
\* of running requests are scheduled by the operating system. Nobody is made
\* to send a new request.
Fairness ==
  /\ WF_vars(FirmwareStep)
  /\ WF_vars(CommunicatorStep)
  /\ \A c \in Connections : WF_vars(RequestStep(c))

FairSpec == Spec /\ Fairness

-----------------------------------------------------------------------------
TypeOK == SharedTypeOK /\ FwTypeOK /\ CommTypeOK /\ CtlTypeOK /\ robbed \in BOOLEAN

InHandShake == fpc \in {"hsGets", "hsPuts"}
Serving     == cpc \notin {"handShake", "drain"}

\* The number of position lines the server can still be sent for what it has
\* written, and for the handshake line the firmware is already committed to.
Unanswered ==
  Len(toHost) + Len(toFw)
  + (IF fpc \in {"hsPuts", "exec", "puts"} THEN 1 ELSE 0)
  - (IF toFw # <<>> /\ Head(toFw).id = 0 THEN 1 ELSE 0)

-----------------------------------------------------------------------------
(* Safety                                                                  *)

\* The handshake is agreed on: a firmware that is still in handShake() never
\* meets a command line (it would forget it without a reply), since the next
\* line it reads is the server's HandShake or none.
NothingSwallowed ==
  InHandShake => IF cpc = "handShake" THEN toFw = <<>>
                 ELSE toFw # <<>> /\ Head(toFw) = ServerHandShake

\* The server runs at most one answer ahead: outside waitForResponse() one
\* position line may be on its way (the one the drain missed), inside it two.
\* This is what keeps the firmware's 32-byte ring at two command lines.
AtMostOneAhead == Serving => Unanswered <= IF cpc = "wait" THEN 2 ELSE 1

\* Once the firmware rests, the newest whole line it sent is where it is: a
\* page that reads linie after the line is empty shows the real position.
Newest == IF toHost = <<>> THEN linie ELSE toHost[Len(toHost)]
NewestIsCurrent ==
  Serving /\ fpc \in {"hsGets", "hsPuts", "gets"} /\ Newest.kind = "full"
    => Newest = Report(pos)

\* The serial thread ends of nothing but a stop that took the command it had
\* found in the queue, after it had found it and before its remove(): whatever
\* else clients send, and however they race, it never asks an empty queue for
\* its first element.
EndsOnlyByStop == cpc = "dead" => robbed

\* The commands the server has written and the firmware has not executed.
Committed == Ids(toFw) \cup (IF fpc = "exec" THEN Ids(<<buffer>>) ELSE {})

\* Commands are committed and executed in the order they were queued, each at
\* most once and two at a time; only a queued command can be dropped.
Window == INSTANCE CommandWindow WITH
  Lossy <- FALSE, queued <- Ids(queue), committed <- Committed
RefinesWindow == Window!WSpec

-----------------------------------------------------------------------------
(* Liveness, for clients that neither stop the machine nor send nothing    *)

\* Every accepted command is executed in the end.
EveryCommandRuns == \A n \in 1..MaxCommands : (accepted >= n) ~> (n \in executed)

\* A client that claimed the machine does not keep it: the serial thread gives
\* it back once the queue stays empty.
SessionReleased == (sessionId # 0) ~> (sessionId = 0)

\* From power on, both ends leave their handshakes.
HandShakeCompletes == <>(Serving /\ ~InHandShake)

-----------------------------------------------------------------------------
(* What the repository says and the code does not keep (the "violation"    *)
(* runs of the README)                                                     *)

\* README.md:17 says more than one client may use the server and the machine
\* at a time: whatever they do, the thread that serves them all keeps running.
ServerSurvives == cpc # "dead"

\* README.md:17 again, by the means of WSocket.java:69-87: while the job of a
\* client none of whose requests is running is waiting in the queue, the others
\* are told "device in use", which needs a session id other than 0.
JobOwnsMachine ==
  \A i \in 1..Len(queue) :
    queue[i].by # 0 /\ (\A c \in Connections : Owner[c] = queue[i].by => req[c] = "nothing")
      => sessionId # 0
=============================================================================
