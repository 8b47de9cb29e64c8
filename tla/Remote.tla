------------------------------- MODULE Remote -------------------------------
(***************************************************************************)
(* CncRemote/mobile and CncRemote/wear, MainActivity.java: the phone and   *)
(* the watch, which poll the server for its status and send it requests    *)
(* over the network. The HTTP library (external) gives each request Tries  *)
(* attempts, in no order; it repeats one whose answer is late even if the  *)
(* server has acted on it.                                                 *)
(***************************************************************************)
EXTENDS Controller, Requests

CONSTANTS
  Kinds,        \* which of "phone" and "watch" to look at
  Tries,        \* attempts of the library at one request
  MaxIncrement, \* largest of the increments of the buttons, and of the tilts
  MaxPolls, MaxPosted, MaxCreations  \* bounds
ASSUME RemoteAssumption ==
  /\ Kinds \subseteq {"phone", "watch"} /\ Tries \in Nat \ {0}
  /\ MaxIncrement \in Nat /\ Buttons \subseteq Axes \X (-MaxIncrement..MaxIncrement)
  /\ MaxPolls \in Nat /\ MaxPosted \in Nat /\ MaxCreations \in Nat

VARIABLES
  kind,      \* the device
  life,      \* of the activity
  ip, asks,  \* whether IP and getSpindleRequest are set
  timers,    \* poll timers of this activity that run
  handle,    \* whether the field t names one of them
  orphans,   \* poll timers left running by destroyed activities
  sensing,   \* whether timerUpdateSensorCoords runs
  firing,    \* runs of its task that have begun and not posted yet
  posted,    \* runnables it has posted to the UI thread
  shown,     \* the line whose coordinates are on the screen, {} if there are none
  switch,    \* the phone's spindle switch
  polls,     \* answers to polls on their way
  calls,     \* requests on their way
  presses,   \* how many requests were made
  creations  \* how many activities were created

activity == <<kind, life, ip, asks, timers, handle, orphans, creations>>
requests == <<presses, quota>>
controls == <<sensing, firing, posted, shown, switch, polls>>
remote   == <<activity, controls, calls, requests>>

Call == [id : Nat, act : {"on", "off", "alter", "zero"}, shown : PosLine, axis : Axes,
         by : -MaxIncrement..MaxIncrement, left : 1..Tries]
Parsed == [line : PosLine, on : BOOLEAN, fields : {4, 5}]

RemoteTypeOK ==
  /\ kind \in Kinds /\ life \in {"none", "resumed", "paused"}
  /\ {ip, asks, handle, sensing, switch} \subseteq BOOLEAN
  /\ QuotaTypeOK /\ {timers, orphans, firing, posted, presses, creations} \subseteq Nat
  /\ shown \subseteq PosLine
  /\ polls \subseteq Parsed
  /\ calls \subseteq Call

\* The watch knows its server, the phone is told.
RemoteInit ==
  /\ kind \in Kinds /\ life = "none" /\ ip = (kind = "watch") /\ asks = FALSE
  /\ timers = 0 /\ handle = FALSE /\ orphans = 0
  /\ sensing = FALSE /\ firing = 0 /\ posted = 0 /\ shown = {} /\ switch = FALSE
  /\ polls = {} /\ calls = {} /\ presses = 0 /\ creations = 0
  /\ QuotaInit

-----------------------------------------------------------------------------
(* The activity                                                            *)

\* onCreate, with the onResume that follows: the watch starts a timer in each,
\* and keeps the second only; the phone starts one and keeps none. The phone's
\* address is static, its poll request is not. The layout of the watch has the
\* coordinates of the origin, that of the phone has none.
Create ==
  /\ life = "none" /\ creations < MaxCreations
  /\ life' = "resumed" /\ creations' = creations + 1
  /\ timers' = (IF kind = "watch" THEN 2 ELSE 1) /\ handle' = (kind = "watch")
  /\ asks' = (kind = "watch")
  /\ shown' = (IF kind = "watch" THEN {Report(Home)} ELSE {}) /\ switch' = FALSE /\ polls' = {}
  /\ UNCHANGED <<kind, ip, orphans, sensing, firing, posted, calls, requests>>

Resume ==
  /\ life = "paused" /\ life' = "resumed"
  /\ IF kind = "watch" THEN timers' = timers + 1 /\ handle' = TRUE ELSE UNCHANGED <<timers, handle>>
  /\ UNCHANGED <<kind, ip, asks, orphans, creations, controls, calls, requests>>

\* Mutants: onPause leaves the poll timer to run; it leaves the sensors on.
PauseKeepsPolling ==
  /\ life = "resumed" /\ life' = "paused"
  /\ sensing' = FALSE
  /\ handle' = FALSE /\ timers' = timers
  /\ UNCHANGED <<kind, ip, asks, orphans, creations, firing, posted, shown, switch, polls, calls, requests>>

PauseKeepsSensing ==
  /\ life = "resumed" /\ life' = "paused"
  /\ handle' = FALSE /\ timers' = timers - (IF handle THEN 1 ELSE 0)
  /\ UNCHANGED <<kind, ip, asks, orphans, creations, controls, calls, requests>>

\* onPause goes back to the manual mode; the watch stops the timer it has kept.
Pause ==
  /\ life = "resumed" /\ life' = "paused"
  /\ sensing' = FALSE
  /\ handle' = FALSE /\ timers' = timers - (IF handle THEN 1 ELSE 0)
  /\ UNCHANGED <<kind, ip, asks, orphans, creations, firing, posted, shown, switch, polls, calls, requests>>

\* What a destroyed activity has not stopped runs on, without a screen.
Destroy ==
  /\ life = "paused" /\ life' = "none"
  /\ orphans' = orphans + timers /\ timers' = 0
  /\ UNCHANGED <<kind, ip, asks, handle, creations, controls, calls, requests>>

\* The phone's menu: the address is forgotten, then entered.
ForgetIP ==
  /\ kind = "phone" /\ life = "resumed" /\ ip
  /\ ip' = FALSE /\ asks' = FALSE /\ shown' = {}
  /\ UNCHANGED <<kind, life, timers, handle, orphans, creations, sensing, firing, posted, switch,
                 polls, calls, requests>>

SetIP ==
  /\ kind = "phone" /\ life = "resumed" /\ ~ip
  /\ ip' = TRUE /\ asks' = TRUE
  /\ UNCHANGED <<kind, life, timers, handle, orphans, creations, controls, calls, requests>>

-----------------------------------------------------------------------------
(* Polling                                                                 *)

\* getSpindlePosition, as the server answers it and split() takes it apart. The
\* queue's flag is the fourth field if the line has kept one '#' only.
Poll ==
  /\ timers > 0 /\ ip /\ asks /\ Cardinality(polls) < MaxPolls
  /\ polls' = polls \cup
       {IF linie.kind = "one" THEN [line |-> linie, on |-> ~queueIsEmpty, fields |-> 4]
                              ELSE [line |-> linie, on |-> spindleRunning, fields |-> 5]}
  /\ UNCHANGED <<activity, sensing, firing, posted, shown, switch, calls, requests>>

\* Mutant: only the first answer is shown.
AnswerOnce(answer) ==
  /\ answer \in polls /\ polls' = polls \ {answer}
  /\ shown' = IF shown = {} THEN {answer.line} ELSE shown
  /\ switch' = answer.on
  /\ UNCHANGED <<activity, sensing, firing, posted, calls, requests>>

\* onResponse; the watch wants five fields, and has no switch to set.
Answer(answer) ==
  /\ answer \in polls /\ polls' = polls \ {answer}
  /\ IF ip /\ (kind = "phone" \/ answer.fields = 5)
     THEN /\ shown' = {answer.line}
          /\ switch' = IF kind = "phone" THEN answer.on ELSE switch
     ELSE UNCHANGED <<shown, switch>>
  /\ UNCHANGED <<activity, sensing, firing, posted, calls, requests>>

-----------------------------------------------------------------------------
(* Requests                                                                *)

Request(act, posLine, axis, by) ==
  /\ Use(act) /\ presses' = presses + 1
  /\ calls' = calls \cup {[id |-> presses + 1, act |-> act, shown |-> posLine, axis |-> axis,
                            by |-> by, left |-> Tries]}

\* alterPosition sends the coordinates on the screen (without any the server
\* finds no number in them and does nothing).
Alter == \E posLine \in shown, b \in Buttons : Request("alter", posLine, b[1], b[2])

PressAlter ==
  /\ life = "resumed" /\ ~sensing /\ ip /\ Alter
  /\ UNCHANGED <<activity, controls>>

\* Without an address the request fails, and changes nothing.
PressZero ==
  /\ life = "resumed" /\ ~sensing /\ ip /\ Request("zero", NoLine, "x", 0)
  /\ UNCHANGED <<activity, controls>>

\* A click flips the phone's switch before the listener asks it; the watch has
\* a button for each state.
PressToggle ==
  /\ life = "resumed" /\ ip
  /\ \E on \in IF kind = "phone" THEN {~switch} ELSE BOOLEAN :
       /\ Request(IF on THEN "on" ELSE "off", NoLine, "x", 0)
       /\ switch' = IF kind = "phone" THEN on ELSE switch
  /\ UNCHANGED <<activity, sensing, firing, posted, shown, polls>>

\* controlMode; the buttons that move the machine are off while the sensors do.
ControlMode ==
  /\ life = "resumed" /\ sensing' = ~sensing
  /\ UNCHANGED <<activity, firing, posted, shown, switch, polls, calls, requests>>

\* The sensors' timer runs its task: cancel() does not stop a run that has begun,
\* which posts a runnable; the UI thread runs it some time.
Tick ==
  /\ sensing /\ firing + posted < MaxPosted /\ firing' = firing + 1
  /\ UNCHANGED <<activity, sensing, posted, shown, switch, polls, calls, requests>>

Post ==
  /\ firing > 0 /\ firing' = firing - 1 /\ posted' = posted + 1
  /\ UNCHANGED <<activity, sensing, shown, switch, polls, calls, requests>>

RunPosted ==
  /\ posted > 0 /\ posted' = posted - 1
  /\ (ip /\ Alter) \/ UNCHANGED <<calls, requests>>
  /\ UNCHANGED <<activity, sensing, firing, shown, switch, polls>>

\* An attempt without an answer in time: the library repeats the request, or
\* calls onErrorResponse, and the phone takes its switch back.
TimeOut(call) ==
  /\ IF call.left > 1
     THEN calls' = (calls \ {call}) \cup {[call EXCEPT !.left = @ - 1]} /\ switch' = switch
     ELSE /\ calls' = calls \ {call}
          /\ switch' = IF kind = "phone" /\ call.act \in {"on", "off"} THEN FALSE ELSE switch
  /\ UNCHANGED <<activity, sensing, firing, posted, shown, polls, requests>>

\* The server acts on a call, and its answer comes in time or not.
Deliver(call, c) ==
  /\ call \in calls /\ Handle(call, c)
  /\ \/ calls' = calls \ {call} /\ UNCHANGED <<activity, controls, requests>>
     \/ TimeOut(call)

\* A call never comes to the server.
Lose(call) == call \in calls /\ TimeOut(call)
=============================================================================
