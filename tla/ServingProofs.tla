---------------------------- MODULE ServingProofs ----------------------------
(***************************************************************************)
(* What the proofs about the server and the machine share, whoever puts    *)
(* clients in front of them: the data on the line, sequences of commands   *)
(* and their numbers, what a request does to the queue, and the types.     *)
(***************************************************************************)
EXTENDS Serving, SequenceTheorems, TLAPS

-----------------------------------------------------------------------------
(* Data                                                                    *)

\* A sequence that is not empty, by its elements.
LEMMA HeadTail ==
  ASSUME NEW S, NEW s \in Seq(S), s # <<>>
  PROVE  /\ Len(s) \in Nat /\ Len(s) >= 1
         /\ Head(s) = s[1] /\ Head(s) \in S
         /\ Tail(s) \in Seq(S) /\ Len(Tail(s)) = Len(s) - 1
         /\ \A j \in 1..Len(s) - 1 : Tail(s)[j] = s[j + 1]
  BY HeadTailProperties, EmptySeq, LenProperties

LEMMA CommandData ==
  /\ HandShake \in Body /\ Blank \in Body
  /\ \A on \in BOOLEAN : Spindle(on) \in Body
  /\ \A target \in Targets : GoTo(target) \in Body
  /\ \A body \in Body, id \in Nat, by \in Nat : Stamp(body, id, by) \in Command
  /\ ServerHandShake \in Command
<1>1. NoTarget \in Targets
  BY DEF NoTarget, Targets
<1>2. HandShake \in Body /\ Blank \in Body
  BY <1>1 DEF HandShake, Blank, Body, Ops
<1>3. \A on \in BOOLEAN : Spindle(on) \in Body
  BY <1>1 DEF Spindle, Body, Ops
<1>4. \A target \in Targets : GoTo(target) \in Body
  BY DEF GoTo, Body, Ops
<1>5. \A body \in Body, id \in Nat, by \in Nat : Stamp(body, id, by) \in Command
  BY DEF Stamp, Body, Command
<1> QED
  BY <1>2, <1>3, <1>4, <1>5 DEF ServerHandShake

LEMMA PositionData ==
  /\ Home \in Position
  /\ \A q \in Position : Report(q) \in PosLine
  /\ \A kind \in {"match", "two", "one", "tail", "none"} : Rest(kind) \in PosLine
  /\ NoLine \in PosLine
<1>1. Home \in Position
  BY DEF Home, Position
<1>2. \A q \in Position : Report(q) \in PosLine
  <2> SUFFICES ASSUME NEW q \in Position PROVE Report(q) \in PosLine
    OBVIOUS
  <2>1. \A a \in Axes : GetMM(q[a]) \in Int
    BY DEF Position, GetMM
  <2>2. [a \in Axes |-> GetMM(q[a])] \in Position
    BY <2>1 DEF Position
  <2> QED
    BY <2>2 DEF Report, PosLine
<1>3. \A kind \in {"match", "two", "one", "tail", "none"} : Rest(kind) \in PosLine
  BY <1>1 DEF Rest, PosLine
<1> QED
  BY <1>1, <1>2, <1>3 DEF NoLine

\* Where a command leads is a position again.
LEMMA ReachedData ==
  ASSUME pos \in Position, tool \in Position, NEW to \in Targets
  PROVE  Reached(to) \in Position /\ Moved(to) \in Position
<1>1. \A a \in DOMAIN to : to[a] \in Int
  BY DEF Targets
<1>2. \A mm \in Int : GetNumberOfSteps(mm) \in Int
  BY SMT DEF GetNumberOfSteps
<1>3. Reached(to) \in Position
  BY <1>1, <1>2 DEF Reached, Position
<1>4. Moved(to) \in Position
  BY <1>3 DEF Moved, Position
<1> QED
  BY <1>3, <1>4

LEMMA AlteredData ==
  ASSUME NEW shown \in Position, NEW axis \in Axes, NEW by \in Int
  PROVE  Altered(shown, axis, by) \in Targets
<1>1. CASE axis = "z"
  BY <1>1 DEF Altered, Targets, Position, Axes
<1>2. CASE axis # "z"
  BY <1>2 DEF Altered, Targets, Position, Axes
<1> QED
  BY <1>1, <1>2

\* A button makes one line or none of what is shown, and the line leads to the
\* coordinates shown with the increment on one of them.
LEMMA AlterationsData ==
  ASSUME NEW shown \in PosLine, NEW axis \in Axes, NEW by \in Int,
         NEW job \in Alterations(shown, axis, by)
  PROVE  /\ job \in Seq(Body)
         /\ \/ job = <<>>
            \/ \E on \in Axes : job = <<GoTo(Altered(shown.mm, on, by))>>
<1>1. shown.mm \in Position
  BY DEF PosLine
<1>2. job = <<>> \/ \E on \in Axes : job = <<GoTo(Altered(shown.mm, on, by))>>
  BY DEF Alterations, Axes
<1>3. ASSUME NEW on \in Axes
      PROVE  <<GoTo(Altered(shown.mm, on, by))>> \in Seq(Body)
  <2>1. GoTo(Altered(shown.mm, on, by)) \in Body
    BY <1>1, AlteredData, CommandData
  <2> QED
    BY <2>1
<1>4. <<>> \in Seq(Body)
  BY EmptySeq
<1> QED
  BY <1>2, <1>3, <1>4, Zenon

-----------------------------------------------------------------------------

\* Sequences by their elements, as the invariants speak of them.
LEMMA SeqView ==
  ASSUME NEW S, NEW s \in Seq(S)
  PROVE  /\ Len(s) \in Nat
         /\ s = <<>> <=> Len(s) = 0
         /\ Len(s) >= 1 => Head(s) = s[1]
         /\ \A j \in 1..Len(s) : s[j] \in S
  BY HeadTail, EmptySeq, LenProperties, ElementOfSeq

LEMMA AppendView ==
  ASSUME NEW S, NEW s \in Seq(S), NEW e \in S
  PROVE  /\ Append(s, e) \in Seq(S) /\ Len(Append(s, e)) = Len(s) + 1
         /\ \A j \in 1..Len(s) : Append(s, e)[j] = s[j]
         /\ Append(s, e)[Len(s) + 1] = e
  BY AppendProperties, LenProperties

LEMMA LineData ==
  /\ ServerHandShake.id = 0 /\ ServerHandShake.op = "handShake"
  /\ \A q : Report(q).kind = "full" /\ ContainsHash(Report(q))
  /\ Rest("tail").kind = "tail" /\ ~ContainsHash(Rest("tail"))
  /\ \A kind \in {"two", "one"} : Rest(kind).kind = kind /\ ContainsHash(Rest(kind))
  /\ \A kind \in {"two", "one", "tail", "none"} : ~MatchesPattern(Rest(kind))
<1>1. ServerHandShake.id = 0 /\ ServerHandShake.op = "handShake"
  BY DEF ServerHandShake, Stamp, HandShake
<1>2. \A q : Report(q).kind = "full" /\ ContainsHash(Report(q))
  BY DEF Report, ContainsHash
<1>3. /\ Rest("tail").kind = "tail" /\ ~ContainsHash(Rest("tail"))
      /\ \A kind \in {"two", "one"} : Rest(kind).kind = kind /\ ContainsHash(Rest(kind))
      /\ \A kind \in {"two", "one", "tail", "none"} : ~MatchesPattern(Rest(kind))
  BY DEF Rest, ContainsHash, MatchesPattern
<1> QED
  BY <1>1, <1>2, <1>3

(* What a request can do to the queue                                      *)

\* Add puts the numbered bodies behind what is there.
LEMMA AddFacts ==
  ASSUME queue \in Seq(Command), accepted \in Nat,
         NEW bodies \in Seq(Body), NEW by \in Nat, Add(bodies, by)
  PROVE  /\ queue' \in Seq(Command) /\ Len(queue') = Len(queue) + Len(bodies)
         /\ \A j \in 1..Len(queue) : queue'[j] = queue[j]
         /\ \A j \in Len(queue) + 1..Len(queue') :
              /\ queue'[j].id = accepted + (j - Len(queue))
              /\ j - Len(queue) \in 1..Len(bodies)
              /\ queue'[j].op = bodies[j - Len(queue)].op
              /\ queue'[j].to = bodies[j - Len(queue)].to
         /\ accepted' = accepted + Len(bodies) /\ accepted' \in Nat /\ Len(bodies) \in Nat
<1> DEFINE new == [n \in 1..Len(bodies) |-> Stamp(bodies[n], accepted + n, by)]
<1>1. Len(bodies) \in Nat /\ \A n \in 1..Len(bodies) : bodies[n] \in Body
  BY ElementOfSeq, LenProperties
<1>2. \A n \in 1..Len(bodies) : Stamp(bodies[n], accepted + n, by) \in Command
  BY <1>1, CommandData
<1>3. new \in Seq(Command) /\ Len(new) = Len(bodies)
  BY <1>1, <1>2, SMT
<1>4. queue' = queue \o new /\ accepted' = accepted + Len(bodies)
  BY DEF Add
<1>5. Len(queue) \in Nat
  BY LenProperties
<1>6. \A n \in 1..Len(bodies) :
        /\ new[n].id = accepted + n
        /\ new[n].op = bodies[n].op /\ new[n].to = bodies[n].to
  BY DEF Stamp
<1> HIDE DEF new
<1>7. /\ queue' \in Seq(Command) /\ Len(queue') = Len(queue) + Len(bodies)
      /\ \A j \in 1..Len(queue) + Len(bodies) :
           queue'[j] = IF j <= Len(queue) THEN queue[j] ELSE new[j - Len(queue)]
  <2>1. /\ queue \o new \in Seq(Command) /\ Len(queue \o new) = Len(queue) + Len(new)
        /\ \A j \in 1..Len(queue) + Len(new) :
             (queue \o new)[j] = IF j <= Len(queue) THEN queue[j] ELSE new[j - Len(queue)]
    BY <1>3, ConcatProperties
  <2> QED
    BY <1>3, <1>4, <2>1
<1>8. ASSUME NEW j \in Len(queue) + 1..Len(queue')
      PROVE  /\ queue'[j].id = accepted + (j - Len(queue))
             /\ j - Len(queue) \in 1..Len(bodies)
             /\ queue'[j].op = bodies[j - Len(queue)].op
             /\ queue'[j].to = bodies[j - Len(queue)].to
  <2>1. j - Len(queue) \in 1..Len(bodies) /\ queue'[j] = new[j - Len(queue)]
    BY <1>1, <1>5, <1>7
  <2> QED
    BY <2>1, <1>6
<1>9. \A j \in 1..Len(queue) : queue'[j] = queue[j]
  BY <1>1, <1>5, <1>7
<1>10. accepted' \in Nat
  BY <1>1, <1>4
<1>11. \A j \in Len(queue) + 1..Len(queue') :
         /\ queue'[j].id = accepted + (j - Len(queue))
         /\ j - Len(queue) \in 1..Len(bodies)
         /\ queue'[j].op = bodies[j - Len(queue)].op
         /\ queue'[j].to = bodies[j - Len(queue)].to
  BY <1>8
<1> QED
  BY <1>1, <1>4, <1>7, <1>9, <1>10, <1>11

\* Every step of a request adds bodies to the queue, takes the first command
\* out of it (which only a stop does), or leaves queue and history alone.
RequestEffect ==
  /\ req' \in [Connections -> Pending]
  /\ sessionId' \in Nat /\ spindleRunning' \in BOOLEAN
  /\ UNCHANGED <<line, queueIsEmpty, linie>>
  /\ \/ \E bodies \in Seq(Body), by \in Nat :
          Add(bodies, by) /\ UNCHANGED <<executed, dropped>>
     \/ /\ \E c \in Connections : req[c] = "clear"
        /\ queue # <<>> /\ queue' = Tail(queue)
        /\ dropped' = dropped \cup Ids(<<Head(queue)>>)
        /\ UNCHANGED <<accepted, executed>>
     \/ UNCHANGED <<queue, history>>

\* What a client may ask for, whatever its page shows.
Asks(c) ==
  \/ \E on \in BOOLEAN : ToggleSpindle(c, on)
  \/ \E shown \in PosLine, axis \in Axes, by \in Int : AlterPosition(c, shown, axis, by)
  \/ \E zSafe \in Int : ZeroMachine(c, zSafe)
  \/ MakeHandshake(c)
  \/ \E coords \in Position : SetCoords(c, coords)
  \/ \E job \in Seq(Body) : SendToCnc(c, job)
  \/ StopCnc(c)

LEMMA RequestAsks ==
  ASSUME NEW c \in Connections, CtlRequest(c)
  PROVE  Asks(c)
<1>1. /\ Toggles \subseteq BOOLEAN /\ Displayed \subseteq PosLine /\ Coordinates \subseteq Position
      /\ ZSafes \subseteq Int /\ Jobs \subseteq Seq(Body)
  BY ControllerAssumption
<1>2. \A b \in Buttons : b[1] \in Axes /\ b[2] \in Int
  BY ControllerAssumption
<1>3. (\E shown \in Displayed, b \in Buttons : AlterPosition(c, shown, b[1], b[2]))
        => \E shown \in PosLine, axis \in Axes, by \in Int : AlterPosition(c, shown, axis, by)
  BY <1>1, <1>2, Zenon
<1> QED
  BY <1>1, <1>3, Zenon DEF CtlRequest, Asks

\* A request over a connection, with the parameters its action takes.
LEMMA HandleAsks ==
  ASSUME NEW c \in Connections, NEW r, Handle(r, c),
         r.act = "alter" => r.shown \in PosLine /\ r.axis \in Axes /\ r.by \in Int,
         r.act = "zero" => r.by \in Int,
         r.act = "send" => r.job \in Seq(Body)
  PROVE  Asks(c)
  BY Zenon DEF Handle, Asks

\* What is asked for is queued, but a stop, which begins with nothing.
LEMMA AskAdds ==
  ASSUME ServingTypeOK, NEW c \in Connections, Asks(c)
  PROVE  \/ /\ req' \in [Connections -> Pending]
            /\ \E bodies \in Seq(Body), by \in Nat : Add(bodies, by)
         \/ StopCnc(c)
<1>1. /\ req \in [Connections -> Pending] /\ sessionId \in Nat /\ spindleRunning \in BOOLEAN
      /\ Owner[c] \in Nat
  BY ControllerAssumption DEF ServingTypeOK, CtlTypeOK, SharedTypeOK
<1>2. \A rest \in Pending : Later(c, rest) => req' \in [Connections -> Pending]
  BY <1>1 DEF Later
<1>3. {"nothing", "addHome", "setSession", "clear"} \subseteq Pending
      /\ \A on \in BOOLEAN : SetFlag(on) \in Pending
  BY DEF Pending, SetFlag
<1>4. ASSUME NEW body \in Body PROVE <<body>> \in Seq(Body)
  OBVIOUS
<1>5. ASSUME NEW on \in BOOLEAN, ToggleSpindle(c, on)
      PROVE  req' \in [Connections -> Pending] /\ Add(<<Spindle(on)>>, 0)
             /\ <<Spindle(on)>> \in Seq(Body)
  BY <1>2, <1>3, <1>4, <1>5, CommandData DEF ToggleSpindle
<1>6. ASSUME NEW shown \in PosLine, NEW axis \in Axes, NEW by \in Int,
             AlterPosition(c, shown, axis, by)
      PROVE  /\ req' \in [Connections -> Pending]
             /\ \E job \in Seq(Body) : Add(job, 0)
  <2>1. PICK job \in Alterations(shown, axis, by) : Add(job, 0)
    BY <1>6 DEF AlterPosition
  <2>2. job \in Seq(Body)
    BY AlterationsData
  <2> QED
    BY <1>2, <1>3, <1>6, <2>1, <2>2, Zenon DEF AlterPosition
<1>7. ASSUME NEW zSafe \in Int, ZeroMachine(c, zSafe)
      PROVE  /\ req' \in [Connections -> Pending]
             /\ Add(<<GoTo([a \in {"z"} |-> zSafe])>>, 0)
             /\ <<GoTo([a \in {"z"} |-> zSafe])>> \in Seq(Body)
  <2>1. [a \in {"z"} |-> zSafe] \in Targets
    BY DEF Targets
  <2> QED
    BY <1>2, <1>3, <1>4, <1>7, <2>1, CommandData DEF ZeroMachine
<1>8. ASSUME MakeHandshake(c)
      PROVE  req' \in [Connections -> Pending] /\ Add(<<HandShake>>, 0) /\ <<HandShake>> \in Seq(Body)
  BY <1>2, <1>3, <1>4, <1>8, CommandData DEF MakeHandshake
<1>9. ASSUME NEW coords \in Position, SetCoords(c, coords)
       PROVE  req' \in [Connections -> Pending] /\ Add(<<GoTo(coords)>>, 0) /\ <<GoTo(coords)>> \in Seq(Body)
  <2>1. coords \in Targets
    BY DEF Targets, Position
  <2> QED
    BY <1>2, <1>3, <1>4, <1>9, <2>1, CommandData DEF SetCoords
<1>10. ASSUME NEW job \in Seq(Body), SendToCnc(c, job)
       PROVE  req' \in [Connections -> Pending] /\ Add(job, Owner[c]) /\ job \in Seq(Body)
  BY <1>2, <1>3, <1>10 DEF SendToCnc
<1> QED
  BY <1>1, <1>5, <1>6, <1>7, <1>8, <1>9, <1>10 DEF Asks

LEMMA AskEffect ==
  ASSUME ServingTypeOK, NEW c \in Connections, Asks(c) \/ CtlContinue(c)
  PROVE  RequestEffect
<1>1. /\ req \in [Connections -> Pending] /\ sessionId \in Nat /\ spindleRunning \in BOOLEAN
      /\ Owner[c] \in Nat
  BY ControllerAssumption DEF ServingTypeOK, CtlTypeOK, SharedTypeOK
<1>2. \A rest \in Pending : Later(c, rest) => req' \in [Connections -> Pending]
  BY <1>1 DEF Later
<1>3. {"nothing", "addHome", "setSession", "clear"} \subseteq Pending
      /\ \A on \in BOOLEAN : SetFlag(on) \in Pending
  BY DEF Pending, SetFlag
<1>4. ASSUME NEW body \in Body PROVE <<body>> \in Seq(Body)
  OBVIOUS
<1>5. ASSUME ZeroMachineHome(c)
      PROVE  /\ req' \in [Connections -> Pending]
             /\ Add(<<GoTo([a \in {"x", "y"} |-> 0])>>, 0)
             /\ <<GoTo([a \in {"x", "y"} |-> 0])>> \in Seq(Body)
  <2>1. [a \in {"x", "y"} |-> 0] \in Targets
    BY DEF Targets
  <2> QED
    BY <1>2, <1>3, <1>4, <1>5, <2>1, CommandData DEF ZeroMachineHome
<1>6. ASSUME NEW bodies, NEW by, Add(bodies, by)
       PROVE  UNCHANGED <<line, queueIsEmpty, linie, sessionId, spindleRunning, executed, dropped>>
  BY <1>6 DEF Add
<1>7. ASSUME StopCnc(c) \/ ClearDone(c)
       PROVE  req' \in [Connections -> Pending] /\ UNCHANGED <<line, statics, history>>
  BY <1>2, <1>3, <1>7 DEF StopCnc, ClearDone
<1>8. ASSUME SetSpindleRunning(c) \/ SetSession(c)
       PROVE  /\ req' \in [Connections -> Pending]
              /\ sessionId' \in Nat /\ spindleRunning' \in BOOLEAN
              /\ UNCHANGED <<line, queue, queueIsEmpty, linie, history>>
  BY <1>1, <1>2, <1>3, <1>8 DEF SetSpindleRunning, SetSession
<1>9. ASSUME ClearPoll(c)
       PROVE  /\ req' = req /\ req[c] = "clear" /\ queue # <<>> /\ queue' = Tail(queue)
              /\ dropped' = dropped \cup Ids(<<Head(queue)>>)
              /\ UNCHANGED <<line, queueIsEmpty, linie, sessionId, spindleRunning, accepted, executed>>
  BY <1>9 DEF ClearPoll
<1> QED
  BY <1>1, <1>5, <1>6, <1>7, <1>8, <1>9, AskAdds DEF CtlContinue, RequestEffect, statics, history

LEMMA RequestFacts ==
  ASSUME ServingTypeOK, NEW c \in Connections, CtlRequest(c) \/ CtlContinue(c)
  PROVE  RequestEffect
  BY RequestAsks, AskEffect

-----------------------------------------------------------------------------
(* The numbers of a sequence of commands                                   *)

\* The numbers grow, wherever lines without a number (0) are in between.
Before(m, n) == m = 0 \/ n = 0 \/ m < n
InOrder(s)   == \A j, k \in 1..Len(s) : j < k => Before(s[j].id, s[k].id)

LEMMA IdsOfOne ==
  ASSUME NEW cmd \in Command
  PROVE  Ids(<<cmd>>) = {cmd.id} \ {0}
  BY DEF Ids

LEMMA IdsAppend ==
  ASSUME NEW s \in Seq(Command), NEW cmd \in Command
  PROVE  Ids(Append(s, cmd)) = Ids(s) \cup ({cmd.id} \ {0})
<1> DEFINE t == Append(s, cmd)
<1>1. /\ Len(s) \in Nat /\ Len(t) = Len(s) + 1
      /\ \A j \in 1..Len(s) : t[j] = s[j]
      /\ t[Len(s) + 1] = cmd
  BY AppendView, SeqView
<1> HIDE DEF t
<1>2. ASSUME NEW n \in Ids(t) PROVE n \in Ids(s) \cup ({cmd.id} \ {0})
  <2>1. n # 0 /\ \E j \in 1..Len(t) : n = t[j].id
    BY DEF Ids
  <2>2. PICK j \in 1..Len(t) : n = t[j].id
    BY <2>1
  <2>3. CASE j \in 1..Len(s)
    BY <1>1, <2>1, <2>2, <2>3 DEF Ids
  <2>4. CASE j = Len(s) + 1
    BY <1>1, <2>1, <2>2, <2>4
  <2> QED
    BY <1>1, <2>3, <2>4
<1>3. ASSUME NEW n \in Ids(s) PROVE n \in Ids(t)
  <2>1. n # 0 /\ \E j \in 1..Len(s) : n = s[j].id
    BY DEF Ids
  <2>2. PICK j \in 1..Len(s) : n = s[j].id
    BY <2>1
  <2>3. j \in 1..Len(t) /\ n = t[j].id
    BY <1>1, <2>2
  <2> QED
    BY <2>1, <2>3 DEF Ids
<1>4. cmd.id # 0 => cmd.id \in Ids(t)
  <2>1. Len(s) + 1 \in 1..Len(t)
    BY <1>1
  <2> QED
    BY <1>1, <2>1 DEF Ids
<1> QED
  BY <1>2, <1>3, <1>4 DEF t

\* The head of a growing sequence has the least number, and takes it away.
LEMMA IdsTail ==
  ASSUME NEW s \in Seq(Command), s # <<>>, InOrder(s)
  PROVE  /\ Ids(Tail(s)) = Ids(s) \ {Head(s).id}
         /\ Head(s).id # 0 => Head(s).id \in Ids(s)
         /\ \A n \in Ids(s) : Head(s).id <= n
<1> DEFINE t == Tail(s)
           h == Head(s)
<1>1. /\ Len(s) \in Nat /\ Len(s) >= 1 /\ h = s[1] /\ Len(t) = Len(s) - 1
      /\ \A j \in 1..Len(s) - 1 : t[j] = s[j + 1]
  BY HeadTail
<1>2. \A j \in 1..Len(s) : s[j].id \in Nat
  <2>1. \A j \in 1..Len(s) : s[j] \in Command
    BY SeqView
  <2>2. \A cmd \in Command : cmd.id \in Nat
    BY DEF Command
  <2> QED
    BY <2>1, <2>2
<1> HIDE DEF t, h
<1>3. \A j \in 1..Len(s) : j # 1 => Before(h.id, s[j].id)
  BY <1>1 DEF InOrder
<1>4. ASSUME NEW n \in Ids(t) PROVE n \in Ids(s) /\ n # h.id
  <2>1. n # 0 /\ \E j \in 1..Len(t) : n = t[j].id
    BY DEF Ids
  <2>2. PICK j \in 1..Len(t) : n = t[j].id
    BY <2>1
  <2>3. j + 1 \in 1..Len(s) /\ j + 1 # 1 /\ n = s[j + 1].id
    BY <1>1, <2>2
  <2>4. h.id # n
    <3>1. Before(h.id, n) /\ h.id \in Nat /\ n \in Nat
      BY <1>1, <1>2, <1>3, <2>3
    <3> QED
      BY <2>1, <3>1 DEF Before
  <2> QED
    BY <2>1, <2>3, <2>4 DEF Ids
<1>5. ASSUME NEW n \in Ids(s) PROVE h.id <= n /\ (n # h.id => n \in Ids(t))
  <2>1. n # 0 /\ \E j \in 1..Len(s) : n = s[j].id
    BY DEF Ids
  <2>2. PICK j \in 1..Len(s) : n = s[j].id
    BY <2>1
  <2>3. CASE j = 1
    BY <1>1, <1>2, <2>2, <2>3
  <2>4. CASE j # 1
    <3>1. j - 1 \in 1..Len(t) /\ n = t[j - 1].id
      BY <1>1, <2>2, <2>4
    <3>2. h.id <= n
      <4>1. Before(h.id, n) /\ h.id \in Nat /\ n \in Nat
        BY <1>1, <1>2, <1>3, <2>2, <2>4
      <4> QED
        BY <2>1, <4>1 DEF Before
    <3> QED
      BY <2>1, <3>1, <3>2 DEF Ids
  <2> QED
    BY <2>3, <2>4
<1>6. h.id # 0 => h.id \in Ids(s)
  <2>1. 1 \in 1..Len(s)
    BY <1>1
  <2> QED
    BY <1>1, <2>1 DEF Ids
<1> QED
  BY <1>4, <1>5, <1>6 DEF t, h

\* Add gives the new commands the next numbers.
LEMMA AddIds ==
  ASSUME queue \in Seq(Command), accepted \in Nat,
         NEW bodies \in Seq(Body), NEW by \in Nat, Add(bodies, by)
  PROVE  Ids(queue') = Ids(queue) \cup (accepted + 1 .. accepted')
<1>1. queue \in Seq(Command) /\ accepted \in Nat /\ Len(queue) \in Nat
  BY SeqView
<1>2. /\ Len(queue') = Len(queue) + Len(bodies) /\ Len(bodies) \in Nat
      /\ accepted' = accepted + Len(bodies)
      /\ \A j \in 1..Len(queue) : queue'[j] = queue[j]
      /\ \A j \in Len(queue) + 1..Len(queue') : queue'[j].id = accepted + (j - Len(queue))
  BY <1>1, AddFacts
<1>3. ASSUME NEW n \in Ids(queue') PROVE n \in Ids(queue) \cup (accepted + 1 .. accepted')
  <2>1. n # 0 /\ \E j \in 1..Len(queue') : n = queue'[j].id
    BY DEF Ids
  <2>2. PICK j \in 1..Len(queue') : n = queue'[j].id
    BY <2>1
  <2>3. CASE j \in 1..Len(queue)
    BY <1>2, <2>1, <2>2, <2>3 DEF Ids
  <2>4. CASE j \in Len(queue) + 1..Len(queue')
    <3>1. n = accepted + (j - Len(queue))
      BY <1>2, <2>2, <2>4
    <3> QED
      BY <1>1, <1>2, <2>4, <3>1
  <2> QED
    BY <1>1, <1>2, <2>3, <2>4
<1>4. ASSUME NEW n \in Ids(queue) PROVE n \in Ids(queue')
  <2>1. n # 0 /\ \E j \in 1..Len(queue) : n = queue[j].id
    BY DEF Ids
  <2>2. PICK j \in 1..Len(queue) : n = queue[j].id
    BY <2>1
  <2>3. j \in 1..Len(queue') /\ n = queue'[j].id
    BY <1>1, <1>2, <2>2
  <2> QED
    BY <2>1, <2>3 DEF Ids
<1>5. ASSUME NEW n \in accepted + 1 .. accepted' PROVE n \in Ids(queue')
  <2> DEFINE j == Len(queue) + (n - accepted)
  <2>1. n \in Nat /\ n # 0 /\ j \in Len(queue) + 1..Len(queue') /\ j \in 1..Len(queue')
    BY <1>1, <1>2
  <2>2. queue'[j].id = accepted + (j - Len(queue))
    BY <1>2, <2>1
  <2>3. queue'[j].id = n
    BY <1>1, <2>1, <2>2
  <2> HIDE DEF j
  <2> QED
    BY <2>1, <2>3 DEF Ids
<1> QED
  BY <1>3, <1>4, <1>5

-----------------------------------------------------------------------------
(* Types                                                                   *)

\* The types the steps below use.
LEMMA PartTypes ==
  ASSUME ServingTypeOK
  PROVE  /\ toFw \in Seq(Command) /\ toHost \in Seq(PosLine) /\ queue \in Seq(Command)
         /\ buffer \in Command /\ pos \in Position /\ accepted \in Nat
         /\ cpc \in {"handShake", "drain", "check", "release", "take", "wait", "dead"}
         /\ fpc \in {"hsGets", "hsPuts", "gets", "exec", "puts"}
         /\ \A cmd \in Command : cmd.id \in Nat
  BY DEF ServingTypeOK, SharedTypeOK, FwTypeOK, CommTypeOK, Command

LEMMA ServingInitTypes == ServingInit => ServingTypeOK
<1> SUFFICES ASSUME ServingInit PROVE ServingTypeOK
  OBVIOUS
<1>1. SharedTypeOK
  <2>1. toFw \in Seq(Command) /\ toHost \in Seq(PosLine) /\ queue \in Seq(Command)
    <3>1. \A left \in Surplus : left \in PosLine
      BY SurplusAssumption, PositionData
    <3>2. \A left \in PosLine : <<left>> \in Seq(PosLine)
      OBVIOUS
    <3>3. toHost = <<>> \/ \E left \in Surplus : toHost = <<left>>
      BY Zenon DEF ServingInit
    <3>4. toHost \in Seq(PosLine)
      BY <3>1, <3>2, <3>3, EmptySeq
    <3> QED
      BY <3>4, EmptySeq DEF ServingInit
  <2>2. queueIsEmpty \in BOOLEAN /\ spindleRunning \in BOOLEAN
    BY Zenon DEF ServingInit
  <2>3. /\ linie \in PosLine /\ sessionId \in Nat /\ accepted \in Nat
        /\ executed \in SUBSET Nat /\ dropped \in SUBSET Nat
    BY PositionData DEF ServingInit
  <2> QED
    BY <2>1, <2>2, <2>3, Zenon DEF SharedTypeOK
<1>2. FwTypeOK
  BY PositionData, CommandData DEF ServingInit, FwTypeOK
<1>3. CommTypeOK /\ CtlTypeOK
  BY DEF ServingInit, CtlInit, CommTypeOK, CtlTypeOK, Pending
<1> QED
  BY <1>1, <1>2, <1>3 DEF ServingTypeOK


\* The firmware and the drain send position lines.
LEMMA SendType ==
  ASSUME toHost \in Seq(PosLine), NEW posLine \in PosLine, Send(posLine)
  PROVE  toHost' \in Seq(PosLine)
  BY AppendProperties DEF Send

LEMMA FirmwareTypes ==
  ASSUME ServingTypeOK, FwNext, UNCHANGED <<cpc, req>>
  PROVE  ServingTypeOK'
<1>1. /\ toFw \in Seq(Command) /\ toHost \in Seq(PosLine) /\ buffer \in Command
      /\ pos \in Position /\ tool \in Position /\ spindle \in BOOLEAN
      /\ executed \in SUBSET Nat /\ dropped \in SUBSET Nat
      /\ Report(pos) \in PosLine
  BY PositionData DEF ServingTypeOK, SharedTypeOK, FwTypeOK
<1>2. \A cmd \in Command : Ids(<<cmd>>) \in SUBSET Nat
  BY DEF Ids, Command
<1>3. toFw # <<>> => Head(toFw) \in Command /\ Tail(toFw) \in Seq(Command)
  BY <1>1, HeadTail
<1>4. UNCHANGED <<cpc, req>>
  OBVIOUS
<1>5. CASE HandShakeGetsNothing
  BY <1>1, <1>4, <1>5 DEF HandShakeGetsNothing, line, statics, history,
     ServingTypeOK, SharedTypeOK, FwTypeOK, CommTypeOK, CtlTypeOK
<1>6. CASE HandShakePuts
  <2>1. toHost' \in Seq(PosLine)
    BY <1>1, <1>6, SendType DEF HandShakePuts
  <2> QED
    BY <1>1, <1>4, <1>6, <2>1 DEF HandShakePuts, statics, history,
       ServingTypeOK, SharedTypeOK, FwTypeOK, CommTypeOK, CtlTypeOK
<1>7. CASE HandShakeAccept
  BY <1>1, <1>2, <1>3, <1>4, <1>7 DEF HandShakeAccept, statics,
     ServingTypeOK, SharedTypeOK, FwTypeOK, CommTypeOK, CtlTypeOK
<1>8. CASE HandShakeSwallow
  BY <1>1, <1>2, <1>3, <1>4, <1>8 DEF HandShakeSwallow, statics,
     ServingTypeOK, SharedTypeOK, FwTypeOK, CommTypeOK, CtlTypeOK
<1>9. CASE Gets
  BY <1>1, <1>3, <1>4, <1>9 DEF Gets, statics, history,
     ServingTypeOK, SharedTypeOK, FwTypeOK, CommTypeOK, CtlTypeOK
<1>10. CASE Exec
  <2>1. buffer.to \in Targets
    BY <1>1 DEF Command
  <2>2. Reached(buffer.to) \in Position /\ Moved(buffer.to) \in Position
    BY <1>1, <2>1, ReachedData
  <2>3. spindle' \in BOOLEAN
    BY <1>1, <1>10 DEF Exec
  <2>4. executed' \in SUBSET Nat
    BY <1>1, <1>2, <1>10 DEF Exec
  <2> QED
    BY <1>1, <1>4, <1>10, <2>2, <2>3, <2>4 DEF Exec, line, statics,
       ServingTypeOK, SharedTypeOK, FwTypeOK, CommTypeOK, CtlTypeOK
<1>11. CASE Puts
  <2>1. toHost' \in Seq(PosLine)
    BY <1>1, <1>11, SendType DEF Puts
  <2> QED
    BY <1>1, <1>4, <1>11, <2>1 DEF Puts, statics, history,
       ServingTypeOK, SharedTypeOK, FwTypeOK, CommTypeOK, CtlTypeOK
<1> QED
  BY <1>5, <1>6, <1>7, <1>8, <1>9, <1>10, <1>11 DEF FwNext

LEMMA CommunicatorTypes ==
  ASSUME ServingTypeOK, CommNext, UNCHANGED <<fwVars, req>>
  PROVE  ServingTypeOK'
<1>1. /\ toFw \in Seq(Command) /\ toHost \in Seq(PosLine) /\ queue \in Seq(Command)
      /\ dropped \in SUBSET Nat /\ sessionId \in Nat
  BY DEF ServingTypeOK, SharedTypeOK
<1>2. toHost # <<>> => Head(toHost) \in PosLine /\ Tail(toHost) \in Seq(PosLine)
  BY <1>1, HeadTail
<1>3. queue # <<>> => Head(queue) \in Command /\ Tail(queue) \in Seq(Command)
  BY <1>1, HeadTail
<1>4. \A cmd \in Command : Ids(<<cmd>>) \in SUBSET Nat /\ Append(toFw, cmd) \in Seq(Command)
  BY <1>1, AppendProperties DEF Ids, Command
<1>5. UNCHANGED <<fwVars, req>>
  OBVIOUS
<1> USE DEF ServingTypeOK, SharedTypeOK, FwTypeOK, CommTypeOK, CtlTypeOK, fwVars, history, statics, line
<1>6. CASE HandShakeMatch
  BY <1>1, <1>2, <1>4, <1>5, <1>6, CommandData DEF HandShakeMatch
<1>7. CASE HandShakeSkip
  BY <1>1, <1>2, <1>5, <1>7 DEF HandShakeSkip
<1>8. CASE DrainRead
  BY <1>1, <1>2, <1>5, <1>8 DEF DrainRead
<1>9. CASE DrainDone
  BY <1>1, <1>5, <1>9 DEF DrainDone
<1>10. CASE CheckQueue
  <2>1. queueIsEmpty' \in BOOLEAN /\ cpc' \in {"release", "take"}
    BY <1>10 DEF CheckQueue
  <2> QED
    BY <1>1, <1>5, <1>10, <2>1 DEF CheckQueue
<1>11. CASE Release
  BY <1>1, <1>5, <1>11 DEF Release
<1>12. CASE Take
  <2>1. toFw' \in Seq(Command) /\ dropped' \in SUBSET Nat
    BY <1>1, <1>3, <1>4, <1>12 DEF Take
  <2> QED
    BY <1>1, <1>3, <1>5, <1>12, <2>1 DEF Take
<1>13. CASE TakeNothing
  BY <1>1, <1>5, <1>13 DEF TakeNothing
<1>14. CASE Receive
  BY <1>1, <1>2, <1>5, <1>14 DEF Receive
<1> QED
  BY <1>6, <1>7, <1>8, <1>9, <1>10, <1>11, <1>12, <1>13, <1>14 DEF CommNext

\* Reading, acting and answering in one step.
LEMMA MachineTypes ==
  ASSUME ServingTypeOK, Machine, UNCHANGED <<cpc, req>>
  PROVE  ServingTypeOK'
<1>1. /\ toFw \in Seq(Command) /\ toHost \in Seq(PosLine)
      /\ pos \in Position /\ tool \in Position /\ spindle \in BOOLEAN
      /\ executed \in SUBSET Nat
  BY DEF ServingTypeOK, SharedTypeOK, FwTypeOK
<1>2. toFw # <<>> /\ Head(toFw) \in Command /\ toFw' = Tail(toFw) /\ Tail(toFw) \in Seq(Command)
  BY <1>1, HeadTail DEF Machine
<1>3. Head(toFw).to \in Targets /\ Ids(<<Head(toFw)>>) \in SUBSET Nat
  BY <1>2 DEF Command, Ids
<1>4. pos' = Reached(Head(toFw).to) /\ tool' = Moved(Head(toFw).to)
  BY DEF Machine
<1>5. pos' \in Position /\ tool' \in Position
  BY <1>1, <1>3, <1>4, ReachedData
<1>6. spindle' \in BOOLEAN
  BY <1>1 DEF Machine
<1>7. executed' \in SUBSET Nat
  BY <1>1, <1>3 DEF Machine
<1>8. toHost' \in Seq(PosLine)
  <2>1. toHost' = Append(toHost, Report(pos'))
    BY DEF Machine
  <2>2. Report(pos') \in PosLine
    BY <1>5, PositionData
  <2> QED
    BY <1>1, <2>1, <2>2, AppendProperties
<1>9. UNCHANGED <<fpc, buffer, queue, queueIsEmpty, linie, sessionId, spindleRunning, accepted, dropped>>
  BY DEF Machine, statics
<1> QED
  BY <1>2, <1>5, <1>6, <1>7, <1>8, <1>9 DEF ServingTypeOK, SharedTypeOK, FwTypeOK, CommTypeOK, CtlTypeOK

LEMMA EffectTypes ==
  ASSUME ServingTypeOK, RequestEffect, UNCHANGED <<fwVars, cpc>>
  PROVE  ServingTypeOK'
<1>1. queue \in Seq(Command) /\ accepted \in Nat /\ dropped \in SUBSET Nat /\ executed \in SUBSET Nat
  BY DEF ServingTypeOK, SharedTypeOK
<1>2. queue' \in Seq(Command) /\ accepted' \in Nat /\ dropped' \in SUBSET Nat
      /\ executed' \in SUBSET Nat
  <2>1. CASE \E bodies \in Seq(Body), by \in Nat :
                Add(bodies, by) /\ UNCHANGED <<executed, dropped>>
    BY <1>1, <2>1, AddFacts
  <2>2. CASE /\ queue # <<>> /\ queue' = Tail(queue)
             /\ dropped' = dropped \cup Ids(<<Head(queue)>>)
             /\ UNCHANGED <<accepted, executed>>
    <3>1. Head(queue) \in Command /\ Tail(queue) \in Seq(Command)
      BY <1>1, <2>2, HeadTail
    <3>2. Ids(<<Head(queue)>>) \in SUBSET Nat
      BY <3>1 DEF Ids, Command
    <3> QED
      BY <1>1, <2>2, <3>1, <3>2
  <2>3. CASE UNCHANGED <<queue, history>>
    BY <1>1, <2>3 DEF history
  <2> QED
    BY <2>1, <2>2, <2>3 DEF RequestEffect
<1> QED
  BY <1>2 DEF RequestEffect, line, fwVars, ServingTypeOK, SharedTypeOK, FwTypeOK, CommTypeOK, CtlTypeOK

LEMMA RequestTypes ==
  ASSUME ServingTypeOK, NEW c \in Connections, CtlRequest(c) \/ CtlContinue(c), UNCHANGED <<fwVars, cpc>>
  PROVE  ServingTypeOK'
  BY RequestFacts, EffectTypes
=============================================================================
