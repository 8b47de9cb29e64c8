----------------------------- MODULE RemoteLink -----------------------------
(***************************************************************************)
(* A phone or a watch, the server that handles its requests on the threads *)
(* of their connections, and the machine.                                  *)
(***************************************************************************)
EXTENDS Serving, Remote

remoteVars == <<line, statics, history, fwVars, cpc, req, remote>>

RInit == ServingInit /\ RemoteInit

\* What the user does, what the device does by itself, what the network does.
User    == \/ Create \/ Resume \/ Pause \/ Destroy \/ ForgetIP \/ SetIP
           \/ PressAlter \/ PressZero \/ PressToggle \/ ControlMode
Refresh == Poll \/ \E answer \in polls : Answer(answer)
Sensors == Tick \/ Post \/ RunPosted

MachineStep == Machine /\ UNCHANGED <<cpc, req, remote>>
ThreadStep  == CommNext /\ UNCHANGED <<fwVars, req, remote>>
HandlerStep == \E c \in Connections : CtlContinue(c) /\ UNCHANGED <<fwVars, cpc, remote>>
Network     == \E call \in calls, c \in Connections :
                 Deliver(call, c) /\ UNCHANGED <<fwVars, cpc>>
Loss        == (\E call \in calls : Lose(call))
               /\ UNCHANGED <<line, statics, history, fwVars, cpc, req>>
Device(A)   == A /\ UNCHANGED <<line, statics, history, fwVars, cpc, req>>

RNext ==
  \/ MachineStep \/ ThreadStep \/ HandlerStep \/ Network \/ Loss
  \/ Device(User) \/ Device(Refresh) \/ Device(Sensors)

RSpec == RInit /\ [][RNext]_remoteVars

\* Timers fire, the UI thread runs what is posted to it, answers come. The
\* user need not do anything, nor the network deliver a request.
RFairSpec ==
  /\ RSpec
  /\ WF_remoteVars(MachineStep) /\ WF_remoteVars(ThreadStep) /\ WF_remoteVars(HandlerStep)
  /\ WF_remoteVars(Device(Poll))
  /\ WF_remoteVars(Device(\E answer \in polls : Answer(answer)))

-----------------------------------------------------------------------------
RTypeOK == ServingTypeOK /\ RemoteTypeOK

\* However requests are repeated, reordered and delayed, the machine stays
\* within one increment per press of where it started: the targets are absolute,
\* so an order that is carried out twice adds nothing.
NoRunaway ==
  \A a \in Axes : GetMM(pos[a]) \in -(presses * MaxIncrement)..presses * MaxIncrement

\* A device that stays on shows in the end the last line the machine sent, if it
\* came whole, and the phone whether the server takes the spindle to run, whatever
\* answers came late and however its own requests ended. What it shows is where
\* the machine is when the drain has left no line too many.
Seeing == life = "resumed" /\ ip /\ asks
ShownInTheEnd ==
  <>[]Seeing => <>[](linie.kind = "full" =>
    /\ shown = {linie} /\ (kind = "phone" => switch = spindleRunning)
    /\ toHost = <<>> /\ toFw = <<>> => shown = {Report(pos)})

\* Going to and from the background does not multiply the polls: one timer is
\* left behind for each activity created, no more.
OneLeftPerCreation ==
  timers + orphans <= creations + (IF kind = "watch" /\ life = "resumed" THEN 1 ELSE 0)

\* In the background a tilted device makes no more requests than its UI thread
\* had runnables posted, or about to be posted, when it left the foreground.
\* (Those requests, and any still on their way, move the machine yet.)
QuietWhenPaused ==
  [][life # "resumed" /\ life' # "resumed"
     => presses' + posted' + firing' <= presses + posted + firing]_remoteVars
=============================================================================
