-------------------------- MODULE RemoteLinkProofs --------------------------
(***************************************************************************)
(* RemoteLink, for any buttons, tries and bounds: types, the poll timers a *)
(* device leaves behind, the quiet of a device in the background, and how  *)
(* far lost, repeated and delayed requests can move the machine.           *)
(***************************************************************************)
EXTENDS RemoteLink, ServingProofs

-----------------------------------------------------------------------------
(* Types                                                                   *)

LEMMA RemoteTypes ==
  ASSUME RemoteTypeOK
  PROVE  /\ kind \in {"phone", "watch"} /\ life \in {"none", "resumed", "paused"}
         /\ timers \in Nat /\ orphans \in Nat /\ firing \in Nat /\ posted \in Nat
         /\ presses \in Nat /\ creations \in Nat /\ quota \in [Acts -> Nat]
         /\ shown \subseteq PosLine /\ polls \subseteq Parsed /\ calls \subseteq Call
  BY RemoteAssumption DEF RemoteTypeOK, QuotaTypeOK

LEMMA RemoteBooleans ==
  ASSUME RemoteTypeOK
  PROVE  /\ ip \in BOOLEAN /\ asks \in BOOLEAN /\ handle \in BOOLEAN
         /\ sensing \in BOOLEAN /\ switch \in BOOLEAN
  BY Zenon DEF RemoteTypeOK

\* The types of the device, one by one.
LEMMA RemoteTypesBack ==
  ASSUME kind \in Kinds, life \in {"none", "resumed", "paused"},
         ip \in BOOLEAN, asks \in BOOLEAN, handle \in BOOLEAN, sensing \in BOOLEAN, switch \in BOOLEAN,
         timers \in Nat, orphans \in Nat, firing \in Nat, posted \in Nat, presses \in Nat,
         creations \in Nat, quota \in [Acts -> Nat],
         shown \subseteq PosLine, polls \subseteq Parsed, calls \subseteq Call
  PROVE  RemoteTypeOK
<1>1. {ip, asks, handle, sensing, switch} \subseteq BOOLEAN
  BY Zenon
<1>2. {timers, orphans, firing, posted, presses, creations} \subseteq Nat
  OBVIOUS
<1> QED
  BY <1>1, <1>2, Zenon DEF RemoteTypeOK, QuotaTypeOK

LEMMA RemoteInitTypes == RemoteInit => RemoteTypeOK
<1> SUFFICES ASSUME RemoteInit PROVE RemoteTypeOK
  OBVIOUS
<1>1. ip \in BOOLEAN /\ asks \in BOOLEAN /\ handle \in BOOLEAN /\ sensing \in BOOLEAN /\ switch \in BOOLEAN
  BY Zenon DEF RemoteInit
<1>2. kind \in Kinds /\ life \in {"none", "resumed", "paused"}
  BY DEF RemoteInit
<1>3. /\ timers \in Nat /\ orphans \in Nat /\ firing \in Nat /\ posted \in Nat /\ presses \in Nat
      /\ creations \in Nat
  BY DEF RemoteInit
<1>4. shown \subseteq PosLine /\ polls \subseteq Parsed /\ calls \subseteq Call
  BY DEF RemoteInit
<1>5. quota \in [Acts -> Nat]
  BY QuotasAssumption DEF RemoteInit, QuotaInit
<1> QED
  BY <1>1, <1>2, <1>3, <1>4, <1>5, RemoteTypesBack

\* A request is a call with all its tries before it.
LEMMA RequestTyped ==
  ASSUME calls \subseteq Call, presses \in Nat, quota \in [Acts -> Nat],
         NEW act \in {"on", "off", "alter", "zero"}, NEW posLine \in PosLine, NEW axis \in Axes,
         NEW by \in -MaxIncrement..MaxIncrement, Request(act, posLine, axis, by)
  PROVE  calls' \subseteq Call /\ presses' \in Nat /\ quota' \in [Acts -> Nat]
<1>1. presses' = presses + 1 /\ presses + 1 \in Nat /\ Tries \in 1..Tries
  BY RemoteAssumption DEF Request
<1>2. [id |-> presses + 1, act |-> act, shown |-> posLine, axis |-> axis, by |-> by, left |-> Tries]
        \in Call
  BY <1>1 DEF Call
<1>3. quota' \in [Acts -> Nat]
  <2>1. act \in Acts /\ quota[act] \in Nat /\ quota[act] > 0
        /\ quota' = [quota EXCEPT ![act] = quota[act] - 1]
    BY DEF Request, Use, Acts
  <2>2. quota[act] - 1 \in Nat
    BY <2>1
  <2> QED
    BY <2>1, <2>2
<1> QED
  BY <1>1, <1>2, <1>3 DEF Request

LEMMA AlterTyped ==
  ASSUME RemoteTypeOK, Alter
  PROVE  calls' \subseteq Call /\ presses' \in Nat /\ quota' \in [Acts -> Nat]
<1>1. PICK posLine \in shown, b \in Buttons : Request("alter", posLine, b[1], b[2])
  BY DEF Alter
<1>2. posLine \in PosLine /\ calls \subseteq Call /\ presses \in Nat /\ quota \in [Acts -> Nat]
  BY RemoteTypes
<1>3. b \in Axes \X (-MaxIncrement..MaxIncrement)
  BY RemoteAssumption
<1>4. b[1] \in Axes /\ b[2] \in -MaxIncrement..MaxIncrement
  BY <1>3
<1> QED
  BY <1>1, <1>2, <1>4, RequestTyped

\* An attempt that has failed, with tries left or none.
LEMMA TimeOutTyped ==
  ASSUME RemoteTypeOK, NEW call \in calls, TimeOut(call)
  PROVE  RemoteTypeOK'
<1>1. calls \subseteq Call
  BY RemoteTypes
<1>2. call \in Call /\ call.left \in 1..Tries /\ Tries \in Nat
  BY <1>1, RemoteAssumption DEF Call
<1>3. call.left > 1 => [call EXCEPT !.left = call.left - 1] \in Call
  <2> SUFFICES ASSUME call.left > 1 PROVE [call EXCEPT !.left = call.left - 1] \in Call
    OBVIOUS
  <2>1. call.left - 1 \in 1..Tries
    BY <1>2
  <2> QED
    BY <1>2, <2>1 DEF Call
<1>4. calls' \subseteq Call
  BY <1>1, <1>3 DEF TimeOut
<1>5. switch' \in BOOLEAN
  BY RemoteBooleans, Zenon DEF TimeOut
<1>6. UNCHANGED <<kind, life, ip, asks, timers, handle, orphans, creations, sensing, firing, posted,
                  shown, polls, presses, quota>>
  BY DEF TimeOut, activity, requests
<1> QED
  BY <1>4, <1>5, <1>6, Zenon DEF RemoteTypeOK, QuotaTypeOK

\* The activity comes and goes.
LEMMA ActivityTypes ==
  ASSUME RemoteTypeOK, handle => timers >= 1,
         Create \/ Resume \/ Pause \/ Destroy \/ ForgetIP \/ SetIP
  PROVE  RemoteTypeOK'
<1>1. timers \in Nat /\ orphans \in Nat /\ creations \in Nat /\ Report(Home) \in PosLine
  BY RemoteTypes, PositionData
<1>2. /\ ip' \in BOOLEAN /\ asks' \in BOOLEAN /\ handle' \in BOOLEAN
      /\ sensing' \in BOOLEAN /\ switch' \in BOOLEAN
  BY RemoteBooleans, Zenon DEF Create, Resume, Pause, Destroy, ForgetIP, SetIP, controls
<1>3. /\ timers' \in Nat /\ orphans' \in Nat /\ creations' \in Nat
      /\ life' \in {"none", "resumed", "paused"}
  BY <1>1 DEF Create, Resume, Pause, Destroy, ForgetIP, SetIP
<1>4. /\ shown' \subseteq PosLine /\ polls' \subseteq Parsed
      /\ UNCHANGED <<kind, firing, posted, calls, presses, quota>>
  BY <1>1, RemoteTypes DEF Create, Resume, Pause, Destroy, ForgetIP, SetIP, controls, requests
<1> QED
  BY <1>2, <1>3, <1>4, Zenon DEF RemoteTypeOK, QuotaTypeOK

\* The user and the sensors ask for something, or change the mode.
LEMMA ControlTypes ==
  ASSUME RemoteTypeOK,
         PressAlter \/ PressZero \/ PressToggle \/ ControlMode \/ Sensors
  PROVE  RemoteTypeOK'
<1>1. calls' \subseteq Call /\ presses' \in Nat /\ quota' \in [Acts -> Nat]
  <2>1. CASE PressAlter
    BY <2>1, AlterTyped DEF PressAlter
  <2>2. CASE PressZero \/ PressToggle
    <3>1. /\ calls \subseteq Call /\ presses \in Nat /\ quota \in [Acts -> Nat]
          /\ NoLine \in PosLine /\ "x" \in Axes /\ 0 \in -MaxIncrement..MaxIncrement
      BY RemoteTypes, PositionData, RemoteAssumption DEF Axes, NoLine
    <3>2. CASE PressZero
      BY <3>1, <3>2, RequestTyped DEF PressZero
    <3>3. CASE PressToggle
      <4>1. \E on \in IF kind = "phone" THEN {~switch} ELSE BOOLEAN :
              Request(IF on THEN "on" ELSE "off", NoLine, "x", 0)
        BY <3>3 DEF PressToggle
      <4>2. \E act \in {"on", "off"} : Request(act, NoLine, "x", 0)
        BY <4>1, Zenon
      <4> QED
        BY <3>1, <4>2, RequestTyped
    <3> QED
      BY <2>2, <3>2, <3>3
  <2>3. CASE ControlMode \/ Tick \/ Post
    BY <2>3, RemoteTypes DEF ControlMode, Tick, Post, requests
  <2>4. CASE RunPosted
    BY <2>4, AlterTyped, RemoteTypes DEF RunPosted, requests
  <2> QED
    BY <2>1, <2>2, <2>3, <2>4 DEF Sensors
<1>2. UNCHANGED <<kind, life, ip, asks, timers, handle, orphans, creations, shown, polls>>
  BY DEF PressAlter, PressZero, PressToggle, ControlMode, Sensors, Tick, Post, RunPosted, activity,
     controls
<1>3. firing' \in Nat /\ posted' \in Nat
  BY RemoteTypes DEF PressAlter, PressZero, PressToggle, ControlMode, Sensors, Tick, Post, RunPosted,
     controls
<1>4. sensing' \in BOOLEAN
  BY RemoteBooleans, Zenon
     DEF PressAlter, PressZero, PressToggle, ControlMode, Sensors, Tick, Post, RunPosted, controls
<1>5. switch' \in BOOLEAN
  <2>1. CASE PressToggle
    <3>1. switch \in BOOLEAN
      BY RemoteBooleans
    <3>2. PICK on \in IF kind = "phone" THEN {~switch} ELSE BOOLEAN :
                 switch' = IF kind = "phone" THEN on ELSE switch
      BY <2>1, Zenon DEF PressToggle
    <3> QED
      BY <3>1, <3>2, Zenon
  <2>2. CASE PressAlter \/ PressZero \/ ControlMode \/ Sensors
    BY <2>2, RemoteBooleans, Zenon
       DEF PressAlter, PressZero, ControlMode, Sensors, Tick, Post, RunPosted, controls
  <2> QED
    BY <2>1, <2>2
<1> QED
  BY <1>1, <1>2, <1>3, <1>4, <1>5, Zenon DEF RemoteTypeOK, QuotaTypeOK

\* Polls go out and come back.
LEMMA RefreshTypes ==
  ASSUME RemoteTypeOK, ServingTypeOK, Refresh
  PROVE  RemoteTypeOK'
<1>1. linie \in PosLine /\ spindleRunning \in BOOLEAN /\ (~queueIsEmpty) \in BOOLEAN
  BY Zenon DEF ServingTypeOK, SharedTypeOK
<1>2. polls \subseteq Parsed /\ shown \subseteq PosLine
  BY RemoteTypes
<1>3. CASE Poll
  <2>1. \A on \in BOOLEAN, fields \in {4, 5} :
          [line |-> linie, on |-> on, fields |-> fields] \in Parsed
    BY <1>1 DEF Parsed
  <2>2. polls' \subseteq Parsed
    BY <1>1, <1>2, <1>3, <2>1 DEF Poll
  <2>3. UNCHANGED <<kind, life, ip, asks, timers, handle, orphans, creations, sensing, firing, posted,
                    shown, switch, calls, presses, quota>>
    BY <1>3 DEF Poll, activity, requests
  <2> QED
    BY <2>2, <2>3, Zenon DEF RemoteTypeOK, QuotaTypeOK
<1>4. ASSUME NEW answer \in polls, Answer(answer)
      PROVE  RemoteTypeOK'
  <2>1. answer.line \in PosLine /\ answer.on \in BOOLEAN
    BY <1>2 DEF Parsed
  <2>2. shown' \subseteq PosLine /\ polls' \subseteq Parsed
    BY <1>2, <1>4, <2>1 DEF Answer
  <2>3. switch' \in BOOLEAN
    BY <1>4, <2>1, RemoteBooleans, Zenon DEF Answer
  <2>4. UNCHANGED <<kind, life, ip, asks, timers, handle, orphans, creations, sensing, firing, posted,
                    calls, presses, quota>>
    BY <1>4 DEF Answer, activity, requests
  <2> QED
    BY <2>2, <2>3, <2>4, Zenon DEF RemoteTypeOK, QuotaTypeOK
<1> QED
  BY <1>3, <1>4 DEF Refresh

\* What a call can make a target of: the line it carries, or its height.
LeadsTo(call, to) ==
  \/ call.act = "alter" /\ \E on \in Axes : to = Altered(call.shown.mm, on, call.by)
  \/ call.act = "zero" /\ to = [a \in {"z"} |-> call.by]

\* The server adds a line to the queue for a call it acts on, or none.
LEMMA HandleFacts ==
  ASSUME ServingTypeOK, NEW c \in Connections, NEW call \in Call, Handle(call, c)
  PROVE  /\ RequestEffect
         /\ \/ Add(<<>>, 0)
            \/ \E body \in Body :
                 Add(<<body>>, 0) /\ (body.to = NoTarget \/ LeadsTo(call, body.to))
<1>1. /\ call.act \in {"on", "off", "alter", "zero"} /\ call.shown \in PosLine /\ call.axis \in Axes
      /\ call.by \in Int
  BY RemoteAssumption DEF Call
<1>2. RequestEffect
  <2>1. Asks(c)
    BY <1>1, HandleAsks
  <2> QED
    BY <2>1, AskEffect
<1>3. CASE call.act \in {"on", "off"} /\ ToggleSpindle(c, call.act = "on")
  <2>1. PICK on \in BOOLEAN : ToggleSpindle(c, on)
    BY <1>3
  <2>2. Spindle(on) \in Body /\ Spindle(on).to = NoTarget
    BY CommandData DEF Spindle
  <2> QED
    BY <1>2, <2>1, <2>2 DEF ToggleSpindle
<1>4. CASE call.act = "alter" /\ AlterPosition(c, call.shown, call.axis, call.by)
  <2>1. PICK job \in Alterations(call.shown, call.axis, call.by) : Add(job, 0)
    BY <1>4 DEF AlterPosition
  <2>2. \/ job = <<>>
        \/ \E on \in Axes : job = <<GoTo(Altered(call.shown.mm, on, call.by))>>
    BY <1>1, AlterationsData
  <2>3. CASE job = <<>>
    BY <1>2, <2>1, <2>3
  <2>4. ASSUME NEW on \in Axes, job = <<GoTo(Altered(call.shown.mm, on, call.by))>>
        PROVE  \E body \in Body :
                 Add(<<body>>, 0) /\ body.to = Altered(call.shown.mm, on, call.by)
    <3> DEFINE to == Altered(call.shown.mm, on, call.by)
    <3>1. call.shown.mm \in Position
      BY <1>1 DEF PosLine
    <3>2. GoTo(to) \in Body /\ GoTo(to).to = to
      BY <1>1, <3>1, AlteredData, CommandData DEF GoTo
    <3> HIDE DEF to
    <3> QED
      BY <2>1, <2>4, <3>2 DEF to
  <2> QED
    BY <1>2, <1>4, <2>2, <2>3, <2>4 DEF LeadsTo
<1>5. CASE call.act = "zero" /\ ZeroMachine(c, call.by)
  <2> DEFINE to == [a \in {"z"} |-> call.by]
  <2>1. to \in Targets
    BY <1>1 DEF Targets
  <2>2. GoTo(to) \in Body /\ GoTo(to).to = to
    BY <2>1, CommandData DEF GoTo
  <2>3. Add(<<GoTo(to)>>, 0)
    BY <1>5 DEF ZeroMachine
  <2>4. LeadsTo(call, to)
    BY <1>5 DEF LeadsTo
  <2> HIDE DEF to
  <2> QED
    BY <1>2, <2>2, <2>3, <2>4
<1> QED
  BY <1>1, <1>3, <1>4, <1>5 DEF Handle

\* The network delivers an attempt, or loses it.
LEMMA NetworkTypes ==
  ASSUME RTypeOK, Network \/ Loss
  PROVE  RTypeOK'
<1>1. ServingTypeOK /\ RemoteTypeOK /\ calls \subseteq Call
  BY RemoteTypes DEF RTypeOK
<1>2. CASE Loss
  <2>1. RemoteTypeOK'
    BY <1>1, <1>2, TimeOutTyped DEF Loss, Lose
  <2>2. ServingTypeOK'
    BY <1>2, Zenon DEF Loss, line, statics, history, fwVars, RTypeOK, ServingTypeOK, SharedTypeOK, FwTypeOK,
       CommTypeOK, CtlTypeOK
  <2> QED
    BY <2>1, <2>2 DEF RTypeOK
<1>3. CASE Network
  <2>1. PICK call \in calls, c \in Connections : Deliver(call, c) /\ UNCHANGED <<fwVars, cpc>>
    BY <1>3 DEF Network
  <2>2. RemoteTypeOK'
    <3>1. CASE TimeOut(call)
      BY <1>1, <3>1, TimeOutTyped
    <3>2. CASE calls' = calls \ {call} /\ UNCHANGED <<activity, controls, requests>>
      <4>1. calls' \subseteq Call
        BY <1>1, <3>2
      <4> QED
        BY <1>1, <3>2, <4>1, Zenon DEF activity, controls, requests, RemoteTypeOK, QuotaTypeOK
    <3> QED
      BY <2>1, <3>1, <3>2 DEF Deliver
  <2>3. ServingTypeOK'
    BY <1>1, <2>1, HandleFacts, EffectTypes DEF Deliver
  <2> QED
    BY <2>2, <2>3 DEF RTypeOK
<1> QED
  BY <1>2, <1>3

-----------------------------------------------------------------------------
(* The poll timers                                                         *)

\* An activity in the foreground of the watch has two timers and keeps one, any
\* other activity has one that it cannot stop; sensors run in the foreground.
TimersInv ==
  /\ handle <=> kind = "watch" /\ life = "resumed"
  /\ timers = (IF life = "none" THEN 0 ELSE 1) + (IF handle THEN 1 ELSE 0)
  /\ orphans + (IF life = "none" THEN 0 ELSE 1) = creations
  /\ sensing => life = "resumed"

\* Steps of the device and of the others, as far as the device knows of them.
LEMMA TimersStep ==
  ASSUME RemoteTypeOK, TimersInv, RNext
  PROVE  TimersInv'
<1>1. /\ kind \in {"phone", "watch"} /\ life \in {"none", "resumed", "paused"}
      /\ timers \in Nat /\ orphans \in Nat /\ creations \in Nat
  BY RemoteTypes
<1>2. CASE UNCHANGED <<kind, life, timers, handle, orphans, creations, sensing>>
  BY <1>2 DEF TimersInv
<1>3. CASE MachineStep \/ ThreadStep \/ HandlerStep
  BY <1>2, <1>3 DEF MachineStep, ThreadStep, HandlerStep, remote, activity, controls
<1>4. CASE Network \/ Loss
  BY <1>2, <1>4 DEF Network, Loss, Deliver, Lose, TimeOut, activity, controls
<1>5. CASE Refresh
  BY <1>2, <1>5 DEF Refresh, Poll, Answer, activity
<1>6. CASE Sensors \/ PressAlter \/ PressZero \/ PressToggle
  BY <1>2, <1>6
     DEF Sensors, Tick, Post, RunPosted, PressAlter, PressZero, PressToggle, activity, controls
<1>7. CASE Create
  <2>1. /\ life = "none" /\ life' = "resumed" /\ creations' = creations + 1
        /\ timers' = (IF kind = "watch" THEN 2 ELSE 1)
        /\ UNCHANGED <<kind, orphans, sensing>>
    BY <1>7 DEF Create
  <2>2. handle' <=> kind = "watch"
    BY <1>7, Zenon DEF Create
  <2>3. kind = "watch" => timers' = 1 + 1
    BY <2>1
  <2>4. kind # "watch" => timers' = 1 + 0
    BY <2>1
  <2>5. orphans + 0 = creations /\ ~sensing
    BY <2>1 DEF TimersInv
  <2>6. orphans' + 1 = creations' /\ ~sensing'
    BY <1>1, <2>1, <2>5
  <2> QED
    BY <2>1, <2>2, <2>3, <2>4, <2>6 DEF TimersInv
<1>8. CASE Resume
  BY <1>1, <1>8 DEF Resume, TimersInv, controls
<1>9. CASE Pause
  BY <1>1, <1>9 DEF Pause, TimersInv
<1>10. CASE Destroy
  BY <1>1, <1>10 DEF Destroy, TimersInv, controls
<1>11. CASE ForgetIP \/ SetIP \/ ControlMode
  BY <1>1, <1>11 DEF ForgetIP, SetIP, ControlMode, TimersInv, activity, controls
<1> QED
  BY <1>3, <1>4, <1>5, <1>6, <1>7, <1>8, <1>9, <1>10, <1>11 DEF RNext, Device, User

LEMMA TypesStep ==
  ASSUME RTypeOK, TimersInv, [RNext]_remoteVars
  PROVE  RTypeOK'
<1>1. ServingTypeOK /\ RemoteTypeOK
  BY DEF RTypeOK
<1>2. ASSUME UNCHANGED remote PROVE RemoteTypeOK'
  BY <1>1, <1>2, Zenon DEF remote, activity, controls, requests, RemoteTypeOK, QuotaTypeOK
<1>3. ASSUME UNCHANGED <<line, statics, history, fwVars, cpc, req>> PROVE ServingTypeOK'
  BY <1>1, <1>3, Zenon DEF line, statics, history, fwVars, ServingTypeOK, SharedTypeOK, FwTypeOK,
     CommTypeOK, CtlTypeOK
<1>4. CASE UNCHANGED remoteVars
  BY <1>2, <1>3, <1>4 DEF remoteVars, RTypeOK
<1>5. CASE MachineStep
  BY <1>1, <1>2, <1>5, MachineTypes DEF MachineStep, RTypeOK
<1>6. CASE ThreadStep
  BY <1>1, <1>2, <1>6, CommunicatorTypes DEF ThreadStep, RTypeOK
<1>7. CASE HandlerStep
  BY <1>1, <1>2, <1>7, RequestTypes DEF HandlerStep, RTypeOK
<1>8. CASE Network \/ Loss
  BY <1>8, NetworkTypes
<1>9. handle => timers >= 1
  BY <1>1, RemoteTypes DEF TimersInv
<1>10. CASE Device(User)
  BY <1>1, <1>3, <1>9, <1>10, ActivityTypes, ControlTypes DEF Device, User, RTypeOK
<1>11. CASE Device(Refresh)
  BY <1>1, <1>3, <1>11, RefreshTypes DEF Device, RTypeOK
<1>12. CASE Device(Sensors)
  BY <1>1, <1>3, <1>12, ControlTypes DEF Device, RTypeOK
<1> QED
  BY <1>4, <1>5, <1>6, <1>7, <1>8, <1>10, <1>11, <1>12 DEF RNext

\* Types and timers together are inductive.
THEOREM TimersInvariant == RSpec => [](RTypeOK /\ TimersInv)
<1>1. RInit => RTypeOK
  BY ServingInitTypes, RemoteInitTypes DEF RInit, RTypeOK
<1>2. RInit => TimersInv
  BY RemoteAssumption DEF RInit, RemoteInit, TimersInv
<1>3. RTypeOK /\ TimersInv /\ [RNext]_remoteVars => TimersInv'
  <2> SUFFICES ASSUME RTypeOK, TimersInv, [RNext]_remoteVars PROVE TimersInv'
    OBVIOUS
  <2>1. CASE UNCHANGED remoteVars
    BY <2>1 DEF remoteVars, remote, activity, controls, TimersInv
  <2> QED
    BY <2>1, TimersStep DEF RTypeOK
<1>4. RTypeOK /\ TimersInv /\ [RNext]_remoteVars => RTypeOK'
  BY TypesStep
<1> QED
  BY <1>1, <1>2, <1>3, <1>4, PTL DEF RSpec

\* Every variable keeps its type, for any buttons, tries and clients.
THEOREM RemoteTypeCorrect == RSpec => []RTypeOK
  BY TimersInvariant, PTL

\* However often the activity is paused, resumed, destroyed and created, each
\* creation leaves at most one poll timer behind.
THEOREM OneTimerPerCreation == RSpec => []OneLeftPerCreation
<1>1. RTypeOK /\ TimersInv => OneLeftPerCreation
  BY RemoteTypes DEF RTypeOK, TimersInv, OneLeftPerCreation
<1> QED
  BY <1>1, TimersInvariant, PTL

\* A run of the sensors' task that has begun, a runnable it has posted and a
\* request are one thing on its way: steps in the background start none, and make
\* one request at most of each.
THEOREM QuietInBackground == RSpec => QuietWhenPaused
<1>1. RTypeOK /\ TimersInv /\ [RNext]_remoteVars
      => [life # "resumed" /\ life' # "resumed"
          => presses' + posted' + firing' <= presses + posted + firing]_remoteVars
  <2> SUFFICES ASSUME RTypeOK, TimersInv, RNext, life # "resumed"
               PROVE  presses' + posted' + firing' <= presses + posted + firing
    OBVIOUS
  <2> USE RemoteTypes DEF RTypeOK
  <2>1. presses \in Nat /\ posted \in Nat /\ firing \in Nat /\ ~sensing
    BY DEF TimersInv
  <2>2. CASE UNCHANGED <<presses, posted, firing>>
    BY <2>1, <2>2
  <2>3. CASE MachineStep \/ ThreadStep \/ HandlerStep
    BY <2>2, <2>3 DEF MachineStep, ThreadStep, HandlerStep, remote, controls, requests
  <2>4. CASE Network \/ Loss
    BY <2>2, <2>4 DEF Network, Loss, Deliver, Lose, TimeOut, controls, requests
  <2>5. CASE Refresh
    BY <2>2, <2>5 DEF Refresh, Poll, Answer, requests
  <2>6. ASSUME Tick \/ PressAlter \/ PressZero \/ PressToggle \/ ControlMode PROVE FALSE
    BY <2>1, <2>6 DEF Tick, PressAlter, PressZero, PressToggle, ControlMode
  <2>7. CASE Post
    BY <2>1, <2>7 DEF Post, requests
  <2>8. CASE RunPosted
    <3>1. posted > 0 /\ posted' = posted - 1 /\ firing' = firing
      BY <2>8 DEF RunPosted
    <3>2. presses' = presses \/ presses' = presses + 1
      BY <2>8 DEF RunPosted, Alter, Request, requests
    <3> QED
      BY <2>1, <3>1, <3>2
  <2>9. CASE Create \/ Resume \/ Pause \/ Destroy \/ ForgetIP \/ SetIP
    BY <2>2, <2>9 DEF Create, Resume, Pause, Destroy, ForgetIP, SetIP, controls, requests
  <2> QED
    BY <2>3, <2>4, <2>5, <2>6, <2>7, <2>8, <2>9 DEF RNext, Device, User, Sensors
<1> QED
  BY <1>1, TimersInvariant, PTL DEF RSpec, QuietWhenPaused

-----------------------------------------------------------------------------
(* How far requests can move the machine                                   *)

\* Everything that will become a position, or has been one, is in reach: on the
\* line, in the queue, in the answers on their way, on the screen, in the
\* requests on theirs.
Within(mm, bound)       == \A a \in DOMAIN mm : -bound <= mm[a] /\ mm[a] <= bound
TargetsWithin(s, bound) == \A j \in 1..Len(s) : Within(s[j].to, bound)
LinesWithin(s, bound)   == \A j \in 1..Len(s) : Within(s[j].mm, bound)

Reach == presses * MaxIncrement

ServerWithin(bound) ==
  /\ Within(Report(pos).mm, bound) /\ Within(linie.mm, bound)
  /\ TargetsWithin(queue, bound) /\ TargetsWithin(toFw, bound) /\ LinesWithin(toHost, bound)

DeviceWithin(bound) ==
  /\ \A answer \in polls : Within(answer.line.mm, bound)
  /\ \A posLine \in shown : Within(posLine.mm, bound)
  /\ \A call \in calls, to \in Targets : LeadsTo(call, to) => Within(to, bound)

LEMMA WithinGrows ==
  ASSUME NEW b \in Int, NEW c \in Int, b <= c, NEW mm, \A a \in DOMAIN mm : mm[a] \in Int,
         Within(mm, b)
  PROVE  Within(mm, c)
  BY DEF Within

LEMMA IntData ==
  /\ \A mm \in Position : \A a \in DOMAIN mm : mm[a] \in Int
  /\ \A to \in Targets : \A a \in DOMAIN to : to[a] \in Int
  BY DEF Position, Targets

LEMMA TargetsShift ==
  ASSUME NEW s \in Seq(Command), NEW b, TargetsWithin(s, b)
  PROVE  /\ s # <<>> => Within(Head(s).to, b) /\ TargetsWithin(Tail(s), b)
         /\ \A cmd \in Command : Within(cmd.to, b) => TargetsWithin(Append(s, cmd), b)
<1>1. ASSUME s # <<>> PROVE Within(Head(s).to, b) /\ TargetsWithin(Tail(s), b)
  BY <1>1, HeadTail DEF TargetsWithin
<1>2. ASSUME NEW cmd \in Command, Within(cmd.to, b) PROVE TargetsWithin(Append(s, cmd), b)
  <2>1. /\ Len(s) \in Nat /\ Len(Append(s, cmd)) = Len(s) + 1
        /\ \A j \in 1..Len(s) : Append(s, cmd)[j] = s[j]
        /\ Append(s, cmd)[Len(s) + 1] = cmd
    BY AppendView, SeqView
  <2> QED
    BY <1>2, <2>1 DEF TargetsWithin
<1> QED
  BY <1>1, <1>2

LEMMA LinesShift ==
  ASSUME NEW s \in Seq(PosLine), NEW b, LinesWithin(s, b)
  PROVE  /\ s # <<>> => Within(Head(s).mm, b) /\ LinesWithin(Tail(s), b)
         /\ \A posLine \in PosLine : Within(posLine.mm, b) => LinesWithin(Append(s, posLine), b)
<1>1. ASSUME s # <<>> PROVE Within(Head(s).mm, b) /\ LinesWithin(Tail(s), b)
  BY <1>1, HeadTail DEF LinesWithin
<1>2. ASSUME NEW posLine \in PosLine, Within(posLine.mm, b)
      PROVE  LinesWithin(Append(s, posLine), b)
  <2>1. /\ Len(s) \in Nat /\ Len(Append(s, posLine)) = Len(s) + 1
        /\ \A j \in 1..Len(s) : Append(s, posLine)[j] = s[j]
        /\ Append(s, posLine)[Len(s) + 1] = posLine
    BY AppendView, SeqView
  <2> QED
    BY <1>2, <2>1 DEF LinesWithin
<1> QED
  BY <1>1, <1>2

\* The firmware rounds towards zero, so what it reaches is within what it was
\* told.
LEMMA StepsWithin ==
  ASSUME NEW b \in Nat, NEW mm \in Int, -b <= mm, mm <= b
  PROVE  /\ GetMM(GetNumberOfSteps(mm)) \in Int
         /\ -b <= GetMM(GetNumberOfSteps(mm)) /\ GetMM(GetNumberOfSteps(mm)) <= b
<1>1. CASE mm >= 0
  BY <1>1, SMT DEF GetMM, GetNumberOfSteps
<1>2. CASE mm < 0
  BY <1>2, SMT DEF GetMM, GetNumberOfSteps
<1> QED
  BY <1>1, <1>2

LEMMA ReachedWithin ==
  ASSUME NEW b \in Nat, NEW to \in Targets, Within(to, b), Within(Report(pos).mm, b)
  PROVE  Within(Report(Reached(to)).mm, b)
<1> DEFINE mm == Report(Reached(to)).mm
<1>1. mm = [a \in Axes |-> GetMM(Reached(to)[a])] /\ Report(pos).mm = [a \in Axes |-> GetMM(pos[a])]
  BY DEF Report
<1>2. ASSUME NEW a \in Axes PROVE -b <= GetMM(Reached(to)[a]) /\ GetMM(Reached(to)[a]) <= b
  <2>1. CASE a \in DOMAIN to
    <3>1. to[a] \in Int /\ -b <= to[a] /\ to[a] <= b
      BY <2>1, IntData DEF Within
    <3>2. Reached(to)[a] = GetNumberOfSteps(to[a])
      BY <2>1 DEF Reached
    <3> QED
      BY <3>1, <3>2, StepsWithin
  <2>2. CASE ~(a \in DOMAIN to)
    <3>1. Reached(to)[a] = pos[a]
      BY <2>2 DEF Reached
    <3>2. -b <= GetMM(pos[a]) /\ GetMM(pos[a]) <= b
      BY <1>1 DEF Within
    <3> QED
      BY <3>1, <3>2
  <2> QED
    BY <2>1, <2>2
<1> QED
  BY <1>1, <1>2 DEF Within

LEMMA HomeWithin ==
  ASSUME NEW b \in Nat
  PROVE  /\ \A to : (\A a \in DOMAIN to : to[a] = 0) => Within(to, b)
         /\ Within(Home, b) /\ Within(NoTarget, b) /\ Within(ServerHandShake.to, b)
         /\ Within(Report(Home).mm, b) /\ \A left \in Surplus : Within(left.mm, b)
<1>1. \A to : (\A a \in DOMAIN to : to[a] = 0) => Within(to, b)
  BY DEF Within
<1>2. \A a \in DOMAIN Home : Home[a] = 0
  BY DEF Home
<1>3. /\ \A a \in DOMAIN NoTarget : NoTarget[a] = 0
      /\ \A a \in DOMAIN ServerHandShake.to : ServerHandShake.to[a] = 0
  BY DEF ServerHandShake, Stamp, HandShake, NoTarget
<1>4. \A a \in DOMAIN Report(Home).mm : Report(Home).mm[a] = 0
  BY DEF Home, Report, GetMM
<1>5. \A left \in Surplus : left.mm = Home \/ left = Report(Home)
  BY SurplusAssumption DEF Rest
<1> QED
  BY <1>1, <1>2, <1>3, <1>4, <1>5

LEMMA AddWithin ==
  ASSUME NEW b, queue \in Seq(Command), accepted \in Nat, TargetsWithin(queue, b),
         NEW body \in Body, Within(body.to, b), Add(<<body>>, 0)
  PROVE  TargetsWithin(queue', b)
<1> DEFINE bodies == <<body>>
<1>1. bodies \in Seq(Body) /\ Len(bodies) = 1 /\ bodies[1] = body /\ Add(bodies, 0)
  OBVIOUS
<1> HIDE DEF bodies
<1>2. /\ Len(queue) \in Nat /\ Len(queue') = Len(queue) + 1
      /\ \A j \in 1..Len(queue) : queue'[j] = queue[j]
      /\ \A j \in Len(queue) + 1..Len(queue') : queue'[j].to = bodies[j - Len(queue)].to
  BY <1>1, AddFacts, SeqView
<1>3. queue'[Len(queue) + 1].to = body.to
  <2>1. Len(queue) + 1 \in Len(queue) + 1..Len(queue') /\ (Len(queue) + 1) - Len(queue) = 1
    BY <1>2
  <2>2. queue'[Len(queue) + 1].to = bodies[(Len(queue) + 1) - Len(queue)].to
    BY <1>2, <2>1
  <2> QED
    BY <1>1, <2>1, <2>2
<1> QED
  BY <1>2, <1>3 DEF TargetsWithin

\* Nothing the server or the machine does by itself takes anything further.
LEMMA MachineWithin ==
  ASSUME NEW b \in Nat, ServingTypeOK, ServerWithin(b), Machine
  PROVE  ServerWithin(b)'
<1>1. /\ toFw \in Seq(Command) /\ toHost \in Seq(PosLine) /\ pos \in Position /\ tool \in Position
  BY DEF ServingTypeOK, SharedTypeOK, FwTypeOK
<1>2. /\ toFw # <<>> /\ toFw' = Tail(toFw) /\ pos' = Reached(Head(toFw).to)
      /\ toHost' = Append(toHost, Report(pos')) /\ UNCHANGED <<queue, linie>>
  BY DEF Machine, statics
<1>3. Head(toFw) \in Command /\ Head(toFw).to \in Targets
  <2>1. Head(toFw) \in Command
    BY <1>1, <1>2, HeadTail
  <2> QED
    BY <2>1 DEF Command
<1>4. Within(Head(toFw).to, b) /\ TargetsWithin(Tail(toFw), b)
  BY <1>1, <1>2, TargetsShift DEF ServerWithin
<1>5. pos' \in Position /\ Within(Report(pos').mm, b)
  BY <1>1, <1>2, <1>3, <1>4, ReachedData, ReachedWithin DEF ServerWithin
<1>6. LinesWithin(toHost', b)
  BY <1>1, <1>2, <1>5, PositionData, LinesShift DEF ServerWithin
<1> QED
  BY <1>2, <1>4, <1>5, <1>6 DEF ServerWithin

LEMMA ThreadWithin ==
  ASSUME NEW b \in Nat, ServingTypeOK, ServerWithin(b), CommNext, UNCHANGED fwVars
  PROVE  ServerWithin(b)'
<1>1. /\ toFw \in Seq(Command) /\ toHost \in Seq(PosLine) /\ queue \in Seq(Command)
      /\ UNCHANGED pos
  BY DEF ServingTypeOK, SharedTypeOK, fwVars
<1>2. toHost # <<>> => Within(Head(toHost).mm, b) /\ LinesWithin(Tail(toHost), b)
  BY <1>1, LinesShift DEF ServerWithin
<1>3. queue # <<>> => /\ Head(queue) \in Command /\ Within(Head(queue).to, b)
                      /\ TargetsWithin(Tail(queue), b)
  BY <1>1, HeadTail, TargetsShift DEF ServerWithin
<1>4. CASE HandShakeMatch
  <2>1. TargetsWithin(Append(toFw, ServerHandShake), b)
    BY <1>1, CommandData, HomeWithin, TargetsShift DEF ServerWithin
  <2> QED
    BY <1>1, <1>2, <1>4, <2>1 DEF HandShakeMatch, ServerWithin
<1>5. CASE HandShakeSkip \/ DrainRead
  BY <1>1, <1>2, <1>5 DEF HandShakeSkip, DrainRead, ServerWithin, statics
<1>6. CASE DrainDone \/ CheckQueue \/ Release \/ TakeNothing
  BY <1>1, <1>6 DEF DrainDone, CheckQueue, Release, TakeNothing, ServerWithin, line, statics
<1>7. CASE Take
  <2>1. TargetsWithin(Append(toFw, Head(queue)), b) \/ queue = <<>>
    BY <1>1, <1>3, TargetsShift DEF ServerWithin
  <2>2. TargetsWithin(toFw', b)
    BY <1>7, <2>1 DEF Take, ServerWithin
  <2> QED
    BY <1>1, <1>3, <1>7, <2>2 DEF Take, ServerWithin
<1>8. CASE Receive
  <2>1. linie' = Head(toHost) \/ linie' = linie
    BY <1>8 DEF Receive
  <2> QED
    BY <1>1, <1>2, <1>8, <2>1 DEF Receive, ServerWithin
<1> QED
  BY <1>4, <1>5, <1>6, <1>7, <1>8 DEF CommNext

LEMMA HandlerWithin ==
  ASSUME NEW b \in Nat, ServingTypeOK, ServerWithin(b), NEW c \in Connections, CtlContinue(c),
         UNCHANGED fwVars
  PROVE  ServerWithin(b)'
<1>1. queue \in Seq(Command) /\ accepted \in Nat /\ UNCHANGED pos
  BY DEF ServingTypeOK, SharedTypeOK, fwVars
<1>2. UNCHANGED <<toFw, toHost, linie>>
  BY RequestFacts DEF RequestEffect, line
<1>3. TargetsWithin(queue', b)
  <2>1. CASE SetSpindleRunning(c) \/ SetSession(c) \/ ClearDone(c)
    <3>1. queue' = queue
      BY <2>1 DEF SetSpindleRunning, SetSession, ClearDone, statics
    <3> QED
      BY <3>1 DEF ServerWithin
  <2>2. CASE ZeroMachineHome(c)
    <3> DEFINE to == [a \in {"x", "y"} |-> 0]
    <3>1. to \in Targets /\ \A a \in DOMAIN to : to[a] = 0
      BY DEF Targets
    <3>2. Add(<<GoTo(to)>>, 0)
      BY <2>2 DEF ZeroMachineHome
    <3> HIDE DEF to
    <3>3. GoTo(to) \in Body /\ GoTo(to).to = to /\ Within(to, b)
      BY <3>1, CommandData, HomeWithin DEF GoTo
    <3> QED
      BY <1>1, <3>2, <3>3, AddWithin DEF ServerWithin
  <2>3. CASE ClearPoll(c)
    BY <1>1, <2>3, TargetsShift DEF ClearPoll, ServerWithin
  <2> QED
    BY <2>1, <2>2, <2>3 DEF CtlContinue
<1> QED
  BY <1>1, <1>2, <1>3 DEF ServerWithin

\* A call on its way asks for a target in reach, and stays the same when it is
\* tried again.
LEMMA CallsKept ==
  ASSUME NEW b, DeviceWithin(b), calls \subseteq Call, NEW call \in calls,
         calls' = calls \ {call} \/ TimeOut(call), UNCHANGED <<polls, shown>>
  PROVE  DeviceWithin(b)'
<1>1. ASSUME NEW other \in calls', NEW to \in Targets, LeadsTo(other, to)
      PROVE  Within(to, b)
  <2>1. CASE other \in calls
    BY <1>1, <2>1 DEF DeviceWithin
  <2>2. CASE other = [call EXCEPT !.left = @ - 1]
    <3>1. call \in Call
      OBVIOUS
    <3>2. /\ other.act = call.act /\ other.shown = call.shown
          /\ other.axis = call.axis /\ other.by = call.by
      BY <2>2, <3>1 DEF Call
    <3>3. LeadsTo(call, to)
      BY <1>1, <3>2 DEF LeadsTo
    <3> QED
      BY <3>3 DEF DeviceWithin
  <2> QED
    BY <1>1, <2>1, <2>2 DEF TimeOut
<1> QED
  BY <1>1 DEF DeviceWithin, LeadsTo

LEMMA DeliverWithin ==
  ASSUME NEW b \in Nat, RTypeOK, ServerWithin(b), DeviceWithin(b), NEW call \in calls,
         NEW c \in Connections, Deliver(call, c), UNCHANGED fwVars
  PROVE  ServerWithin(b)' /\ DeviceWithin(b)'
<1>1. /\ ServingTypeOK /\ queue \in Seq(Command) /\ accepted \in Nat /\ calls \subseteq Call
      /\ UNCHANGED pos
  BY RemoteTypes DEF RTypeOK, ServingTypeOK, SharedTypeOK, fwVars
<1>2. DeviceWithin(b)'
  BY <1>1, CallsKept DEF Deliver, TimeOut, controls
<1>3. call \in Call /\ Handle(call, c)
  BY <1>1 DEF Deliver
<1>4. /\ UNCHANGED <<toFw, toHost, linie>>
      /\ \/ Add(<<>>, 0)
         \/ \E body \in Body :
              Add(<<body>>, 0) /\ (body.to = NoTarget \/ LeadsTo(call, body.to))
  BY <1>1, <1>3, HandleFacts DEF RequestEffect, line
<1>5. TargetsWithin(queue', b)
  <2>1. CASE Add(<<>>, 0)
    <3>1. Len(queue') = Len(queue) /\ \A j \in 1..Len(queue) : queue'[j] = queue[j]
      <4> DEFINE none == <<>>
      <4>1. none \in Seq(Body) /\ Len(none) = 0 /\ 0 \in Nat /\ Len(queue) \in Nat /\ Add(none, 0)
        BY <1>1, <2>1
      <4> HIDE DEF none
      <4>2. Len(queue') = Len(queue) + Len(none) /\ \A j \in 1..Len(queue) : queue'[j] = queue[j]
        BY <1>1, <4>1, AddFacts
      <4> QED
        BY <4>1, <4>2
    <3> QED
      BY <3>1 DEF ServerWithin, TargetsWithin
  <2>2. ASSUME NEW body \in Body, Add(<<body>>, 0), body.to = NoTarget \/ LeadsTo(call, body.to)
        PROVE  TargetsWithin(queue', b)
    <3>1. Within(body.to, b)
      <4>1. body.to \in Targets
        BY DEF Body
      <4> QED
        BY <2>2, <4>1, HomeWithin DEF DeviceWithin
    <3> QED
      BY <1>1, <2>2, <3>1, AddWithin DEF ServerWithin
  <2> QED
    BY <1>4, <2>1, <2>2
<1> QED
  BY <1>1, <1>2, <1>4, <1>5 DEF ServerWithin

\* With each press the reach grows, and what was in reach stays so.
LEMMA ReachGrows ==
  ASSUME presses \in Nat
  PROVE  /\ Reach \in Nat
         /\ presses' = presses => Reach' = Reach
         /\ presses' = presses + 1 => Reach' = Reach + MaxIncrement /\ Reach' \in Nat
<1>1. MaxIncrement \in Nat
  BY RemoteAssumption
<1>2. \A n \in Nat, m \in Nat : n * m \in Nat /\ (n + 1) * m = n * m + m
  OBVIOUS
<1> QED
  BY <1>1, <1>2 DEF Reach

LEMMA ServerGrows ==
  ASSUME ServingTypeOK, NEW b \in Nat, NEW c \in Nat, b <= c, ServerWithin(b)
  PROVE  ServerWithin(c)
<1>1. /\ \A j \in 1..Len(queue) : queue[j].to \in Targets
      /\ \A j \in 1..Len(toFw) : toFw[j].to \in Targets
      /\ \A j \in 1..Len(toHost) : toHost[j].mm \in Position
      /\ linie.mm \in Position /\ Report(pos).mm \in Position
  <2>1. /\ \A j \in 1..Len(queue) : queue[j] \in Command
        /\ \A j \in 1..Len(toFw) : toFw[j] \in Command
        /\ \A j \in 1..Len(toHost) : toHost[j] \in PosLine
        /\ linie \in PosLine /\ Report(pos) \in PosLine
    BY SeqView, PositionData DEF ServingTypeOK, SharedTypeOK, FwTypeOK
  <2>2. (\A cmd \in Command : cmd.to \in Targets) /\ \A posLine \in PosLine : posLine.mm \in Position
    BY DEF Command, PosLine
  <2> QED
    BY <2>1, <2>2
<1>2. \A mm \in Position \cup Targets : Within(mm, b) => Within(mm, c)
  <2> SUFFICES ASSUME NEW mm \in Position \cup Targets, Within(mm, b) PROVE Within(mm, c)
    OBVIOUS
  <2> QED
    BY IntData, WithinGrows
<1> QED
  BY <1>1, <1>2, Zenon DEF ServerWithin, TargetsWithin, LinesWithin

LEMMA DeviceGrows ==
  ASSUME RemoteTypeOK, NEW b \in Nat, NEW c \in Nat, b <= c, DeviceWithin(b)
  PROVE  DeviceWithin(c)
<1>1. /\ \A answer \in polls : answer.line.mm \in Position
      /\ \A posLine \in shown : posLine.mm \in Position
  BY RemoteTypes DEF Parsed, PosLine
<1>2. \A mm \in Position \cup Targets : Within(mm, b) => Within(mm, c)
  <2> SUFFICES ASSUME NEW mm \in Position \cup Targets, Within(mm, b) PROVE Within(mm, c)
    OBVIOUS
  <2> QED
    BY IntData, WithinGrows
<1> QED
  BY <1>1, <1>2, Zenon DEF DeviceWithin

\* An increment on top of what the screen shows is in the new reach.
LEMMA AlteredWithin ==
  ASSUME NEW b \in Nat, NEW mm \in Position, Within(mm, b), NEW axis \in Axes,
         NEW by \in -MaxIncrement..MaxIncrement
  PROVE  Within(Altered(mm, axis, by), b + MaxIncrement)
<1>1. MaxIncrement \in Nat /\ by \in Int /\ -MaxIncrement <= by /\ by <= MaxIncrement
  BY RemoteAssumption
<1>2. \A a \in Axes : mm[a] \in Int /\ -b <= mm[a] /\ mm[a] <= b
  BY DEF Within, Position
<1>3. \A a \in Axes : -(b + MaxIncrement) <= mm[a] + by /\ mm[a] + by <= b + MaxIncrement
  BY <1>1, <1>2
<1>4. \A a \in Axes : -(b + MaxIncrement) <= mm[a] /\ mm[a] <= b + MaxIncrement
  BY <1>1, <1>2
<1>5. CASE axis = "z"
  <2>1. Altered(mm, axis, by) = [a \in {"z"} |-> mm[a] + by] /\ "z" \in Axes
    BY <1>5 DEF Altered, Axes
  <2> QED
    BY <1>3, <2>1 DEF Within
<1>6. CASE axis # "z"
  <2>1. /\ Altered(mm, axis, by) = [a \in {"x", "y"} |-> IF a = axis THEN mm[a] + by ELSE mm[a]]
        /\ {"x", "y"} \subseteq Axes
    BY <1>6 DEF Altered, Axes
  <2> QED
    BY <1>3, <1>4, <2>1 DEF Within
<1> QED
  BY <1>5, <1>6

\* The device makes a request: what it asks for is in the reach it then has.
LEMMA AsksWithin ==
  ASSUME RemoteTypeOK, RemoteTypeOK', DeviceWithin(Reach), UNCHANGED <<polls, shown>>,
         \/ Alter
         \/ \E act \in {"on", "off", "zero"} : Request(act, NoLine, "x", 0)
  PROVE  DeviceWithin(Reach)'
<1>1. presses \in Nat /\ presses' = presses + 1
  BY RemoteTypes DEF Alter, Request
<1>2. Reach \in Nat /\ Reach' = Reach + MaxIncrement /\ Reach' \in Nat /\ MaxIncrement \in Nat
  BY <1>1, ReachGrows, RemoteAssumption
<1>3. DeviceWithin(Reach + MaxIncrement)
  <2>1. Reach + MaxIncrement \in Nat /\ Reach <= Reach + MaxIncrement
    BY <1>2
  <2> QED
    BY <1>2, <2>1, DeviceGrows
<1>4. ASSUME NEW call \in calls', NEW to \in Targets, LeadsTo(call, to)
      PROVE  Within(to, Reach + MaxIncrement)
  <2>1. CASE call \in calls
    BY <1>3, <1>4, <2>1 DEF DeviceWithin
  <2>2. CASE ~(call \in calls) /\ Alter
    <3>1. PICK posLine \in shown, b \in Buttons : Request("alter", posLine, b[1], b[2])
      BY <2>2 DEF Alter
    <3>2. /\ b \in Axes \X (-MaxIncrement..MaxIncrement)
          /\ posLine.mm \in Position /\ Within(posLine.mm, Reach)
      BY RemoteTypes, RemoteAssumption DEF DeviceWithin, PosLine
    <3>3. b[2] \in -MaxIncrement..MaxIncrement
      BY <3>2
    <3>4. call.act = "alter" /\ call.shown = posLine /\ call.by = b[2]
      BY <2>2, <3>1 DEF Request
    <3>5. PICK on \in Axes : to = Altered(posLine.mm, on, b[2])
      BY <1>4, <3>4 DEF LeadsTo
    <3> QED
      BY <1>2, <3>2, <3>3, <3>5, AlteredWithin
  <2>3. CASE /\ ~(call \in calls)
             /\ \E act \in {"on", "off", "zero"} : Request(act, NoLine, "x", 0)
    <3>1. call.act # "alter" /\ call.by = 0
      BY <2>3 DEF Request
    <3>2. to = [a \in {"z"} |-> 0]
      BY <1>4, <3>1 DEF LeadsTo
    <3>3. \A a \in DOMAIN to : to[a] = 0
      BY <3>2
    <3> QED
      BY <1>2, <3>3, HomeWithin
  <2> QED
    BY <2>1, <2>2, <2>3
<1> QED
  BY <1>2, <1>3, <1>4 DEF DeviceWithin, LeadsTo

RunawayInv == ServerWithin(Reach) /\ DeviceWithin(Reach)

\* Steps in which nobody presses anything.
LEMMA IdleWithin ==
  ASSUME RTypeOK, RunawayInv, MachineStep \/ ThreadStep \/ HandlerStep \/ Network \/ Loss
  PROVE  RunawayInv'
<1>1. ServingTypeOK /\ RemoteTypeOK /\ presses \in Nat /\ calls \subseteq Call
  BY RemoteTypes DEF RTypeOK
<1>2. presses' = presses
  BY DEF MachineStep, ThreadStep, HandlerStep, Network, Loss, Deliver, Lose, TimeOut, remote, requests
<1>3. PICK b \in Nat : b = Reach
  BY <1>1, ReachGrows
<1>4. Reach' = b
  BY <1>1, <1>2, <1>3, ReachGrows
<1>5. ServerWithin(b) /\ DeviceWithin(b)
  BY <1>3 DEF RunawayInv
<1>6. ServerWithin(b)' /\ DeviceWithin(b)'
  <2>1. ASSUME UNCHANGED remote PROVE DeviceWithin(b)'
    BY <1>5, <2>1 DEF DeviceWithin, LeadsTo, remote, controls
  <2>2. CASE MachineStep
    BY <1>1, <1>5, <2>1, <2>2, MachineWithin DEF MachineStep
  <2>3. CASE ThreadStep
    BY <1>1, <1>5, <2>1, <2>3, ThreadWithin DEF ThreadStep
  <2>4. CASE HandlerStep
    BY <1>1, <1>5, <2>1, <2>4, HandlerWithin DEF HandlerStep
  <2>5. CASE Network
    BY <1>5, <2>5, DeliverWithin DEF Network
  <2>6. CASE Loss
    <3>1. PICK call \in calls : Lose(call)
      BY <2>6 DEF Loss
    <3>2. DeviceWithin(b)'
      BY <1>1, <1>5, <3>1, CallsKept DEF Lose, TimeOut
    <3>3. UNCHANGED <<toFw, toHost, queue, linie, pos>>
      BY <2>6 DEF Loss, line, statics, fwVars
    <3> QED
      BY <1>5, <3>2, <3>3 DEF ServerWithin
  <2> QED
    BY <2>2, <2>3, <2>4, <2>5, <2>6
<1> QED
  BY <1>4, <1>6 DEF RunawayInv, ServerWithin, DeviceWithin, LeadsTo

\* Steps of the device: what is shown comes from the server.
LEMMA DeviceStepWithin ==
  ASSUME RTypeOK, RTypeOK', RunawayInv, Device(User) \/ Device(Refresh) \/ Device(Sensors)
  PROVE  RunawayInv'
<1>1. /\ ServingTypeOK /\ RemoteTypeOK /\ RemoteTypeOK' /\ presses \in Nat
      /\ ServerWithin(Reach) /\ DeviceWithin(Reach)
  BY RemoteTypes DEF RTypeOK, RunawayInv
<1>2. UNCHANGED <<toFw, toHost, queue, linie, pos>>
  BY DEF Device, line, statics, fwVars
<1>3. presses' = presses \/ presses' = presses + 1
  BY DEF Device, User, Refresh, Sensors, Create, Resume, Pause, Destroy, ForgetIP, SetIP, PressAlter,
     PressZero, PressToggle, ControlMode, Poll, Answer, Tick, Post, RunPosted, Alter, Request, requests
<1>4. Reach \in Nat /\ Reach' \in Nat /\ Reach <= Reach'
      /\ (presses' = presses => Reach' = Reach)
  <2>1. MaxIncrement \in Nat /\ Reach \in Nat
    BY <1>1, ReachGrows, RemoteAssumption
  <2>2. Reach' = Reach \/ Reach' = Reach + MaxIncrement
    BY <1>1, <1>3, ReachGrows
  <2>3. presses' = presses => Reach' = Reach
    BY <1>1, ReachGrows
  <2> QED
    BY <2>1, <2>2, <2>3
<1>5. ServerWithin(Reach)'
  <2>1. PICK c \in Nat : c = Reach'
    BY <1>4
  <2>2. ServerWithin(c)
    BY <1>1, <1>4, <2>1, ServerGrows
  <2> QED
    BY <1>2, <2>1, <2>2 DEF ServerWithin
<1>6. DeviceWithin(Reach)'
  <2>1. CASE Alter /\ UNCHANGED <<polls, shown>>
    BY <1>1, <2>1, AsksWithin
  <2>2. CASE /\ \E act \in {"on", "off", "zero"} : Request(act, NoLine, "x", 0)
             /\ UNCHANGED <<polls, shown>>
    BY <1>1, <2>2, AsksWithin
  <2>3. CASE /\ UNCHANGED <<calls, presses>>
             /\ shown' \subseteq shown \cup {Report(Home)} /\ polls' \subseteq polls
    <3>1. Within(Report(Home).mm, Reach)
      BY <1>4, HomeWithin
    <3> QED
      BY <1>1, <1>4, <2>3, <3>1 DEF DeviceWithin, LeadsTo
  <2>4. CASE Refresh
    <3>1. UNCHANGED <<calls, presses>>
      BY <2>4 DEF Refresh, Poll, Answer, requests
    <3>2. Within(linie.mm, Reach) /\ \A answer \in polls : Within(answer.line.mm, Reach)
      BY <1>1 DEF ServerWithin, DeviceWithin
    <3>3. \A answer \in polls' : Within(answer.line.mm, Reach)
      BY <2>4, <3>2 DEF Refresh, Poll, Answer
    <3>4. \A posLine \in shown' : Within(posLine.mm, Reach)
      <4>1. CASE Poll
        BY <1>1, <4>1 DEF Poll, DeviceWithin
      <4>2. ASSUME NEW answer \in polls, Answer(answer)
            PROVE  \A posLine \in shown' : Within(posLine.mm, Reach)
        <5>1. shown' = {answer.line} \/ shown' = shown
          BY <4>2 DEF Answer
        <5> QED
          BY <1>1, <3>2, <5>1 DEF DeviceWithin
      <4> QED
        BY <2>4, <4>1, <4>2 DEF Refresh
    <3> QED
      BY <1>1, <1>4, <3>1, <3>3, <3>4 DEF DeviceWithin, LeadsTo
  <2>5. CASE Sensors
    <3>1. CASE RunPosted
      <4>1. UNCHANGED <<polls, shown>> /\ (Alter \/ UNCHANGED <<calls, presses>>)
        BY <3>1 DEF RunPosted, requests
      <4> QED
        BY <2>1, <2>3, <4>1
    <3>2. CASE Tick \/ Post
      BY <2>3, <3>2 DEF Tick, Post, requests
    <3> QED
      BY <2>5, <3>1, <3>2 DEF Sensors
  <2>6. CASE User
    <3>1. CASE Create \/ Resume \/ Pause \/ Destroy \/ ForgetIP \/ SetIP \/ ControlMode
      BY <2>3, <3>1 DEF Create, Resume, Pause, Destroy, ForgetIP, SetIP, ControlMode, controls, requests
    <3>2. CASE PressAlter
      BY <2>1, <3>2 DEF PressAlter, controls
    <3>3. CASE PressZero
      BY <2>2, <3>3 DEF PressZero, controls
    <3>4. CASE PressToggle
      <4>1. /\ \E on \in IF kind = "phone" THEN {~switch} ELSE BOOLEAN :
                 Request(IF on THEN "on" ELSE "off", NoLine, "x", 0)
            /\ UNCHANGED <<polls, shown>>
        BY <3>4 DEF PressToggle
      <4>2. \E act \in {"on", "off"} : Request(act, NoLine, "x", 0)
        BY <4>1, Zenon
      <4> QED
        BY <2>2, <4>1, <4>2
    <3> QED
      BY <2>6, <3>1, <3>2, <3>3, <3>4 DEF User
  <2> QED
    BY <2>4, <2>5, <2>6 DEF Device
<1> QED
  BY <1>5, <1>6 DEF RunawayInv

\* Whatever requests are lost, repeated, reordered or late: after n presses the
\* machine is within n increments of where it started, on every axis.
THEOREM NeverRunsAway == RSpec => []NoRunaway
<1>1. RInit /\ RTypeOK => RunawayInv
  <2> SUFFICES ASSUME RInit, RTypeOK PROVE RunawayInv
    OBVIOUS
  <2>1. /\ toFw = <<>> /\ toHost \in {<<>>} \cup {<<left>> : left \in Surplus}
        /\ queue = <<>> /\ linie = Report(Home) /\ pos = Home
        /\ polls = {} /\ shown = {} /\ calls = {}
    BY DEF RInit, ServingInit, RemoteInit
  <2>2. Within(Report(Home).mm, Reach) /\ \A left \in Surplus : Within(left.mm, Reach)
    BY RemoteTypes, ReachGrows, HomeWithin DEF RTypeOK
  <2>3. LinesWithin(toHost, Reach)
    BY <2>1, <2>2 DEF LinesWithin
  <2>4. Len(<<>>) = 0
    OBVIOUS
  <2> QED
    BY <2>1, <2>2, <2>3, <2>4 DEF RunawayInv, ServerWithin, DeviceWithin, TargetsWithin
<1>2. RTypeOK /\ RTypeOK' /\ RunawayInv /\ [RNext]_remoteVars => RunawayInv'
  <2> SUFFICES ASSUME RTypeOK, RTypeOK', RunawayInv, [RNext]_remoteVars PROVE RunawayInv'
    OBVIOUS
  <2>1. CASE UNCHANGED remoteVars
    BY <2>1 DEF remoteVars, line, statics, fwVars, remote, controls, requests, RunawayInv, ServerWithin,
       DeviceWithin, LeadsTo, Reach
  <2> QED
    BY <2>1, IdleWithin, DeviceStepWithin DEF RNext
<1>3. RTypeOK /\ RunawayInv => NoRunaway
  <2> SUFFICES ASSUME RTypeOK, RunawayInv, NEW a \in Axes
               PROVE  GetMM(pos[a]) \in -(presses * MaxIncrement)..presses * MaxIncrement
    BY DEF NoRunaway
  <2>1. Reach \in Nat /\ pos \in Position
    BY RemoteTypes, ReachGrows DEF RTypeOK, ServingTypeOK, FwTypeOK
  <2>2. GetMM(pos[a]) \in Int
    BY <2>1 DEF GetMM, Position
  <2>3. Report(pos).mm = [x \in Axes |-> GetMM(pos[x])]
    BY DEF Report
  <2>4. -Reach <= GetMM(pos[a]) /\ GetMM(pos[a]) <= Reach
    BY <2>3 DEF RunawayInv, ServerWithin, Within
  <2>5. GetMM(pos[a]) \in -Reach..Reach
    BY <2>1, <2>2, <2>4
  <2> QED
    BY <2>5 DEF Reach
<1> QED
  BY <1>1, <1>2, <1>3, TimersInvariant, PTL DEF RSpec
=============================================================================
