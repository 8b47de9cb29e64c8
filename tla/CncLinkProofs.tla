--------------------------- MODULE CncLinkProofs ---------------------------
(***************************************************************************)
(* CncLink, for any clients, jobs, positions and number of commands: types,*)
(* the agreement on the handshake, the bound on answers under way, what    *)
(* the newest position line says, and that CncLink implements              *)
(* CommandWindow.                                                          *)
(***************************************************************************)
EXTENDS CncLink, ServingProofs

-----------------------------------------------------------------------------
(* Types                                                                   *)

\* The state of CncLink is that of its parts.
LEMMA Parts == ServingTypeOK /\ robbed \in BOOLEAN <=> TypeOK
  BY DEF TypeOK, ServingTypeOK

LEMMA TypeInit == Init => TypeOK
<1> SUFFICES ASSUME Init PROVE TypeOK
  OBVIOUS
<1>1. SharedTypeOK
  <2>1. toFw \in Seq(Command) /\ toHost \in Seq(PosLine) /\ queue \in Seq(Command)
    BY DEF Init, SharedInit
  <2>2. queueIsEmpty \in BOOLEAN /\ spindleRunning \in BOOLEAN
    BY Zenon DEF Init, SharedInit
  <2>3. /\ linie \in PosLine /\ sessionId \in Nat /\ accepted \in Nat
        /\ executed \in SUBSET Nat /\ dropped \in SUBSET Nat
    BY PositionData DEF Init, SharedInit
  <2> QED
    BY <2>1, <2>2, <2>3, Zenon DEF SharedTypeOK
<1>2. FwTypeOK
  BY PositionData, CommandData DEF Init, FwInit, FwTypeOK
<1>3. CommTypeOK /\ CtlTypeOK
  BY DEF Init, CommInit, CtlInit, CommTypeOK, CtlTypeOK, Pending
<1> QED
  BY <1>1, <1>2, <1>3 DEF Init, TypeOK

LEMMA TypeDrainMidLine ==
  ASSUME TypeOK, DrainMidLine
  PROVE  TypeOK'
<1>1. \A kind \in {"two", "one", "tail"} : <<Rest(kind)>> \in Seq(PosLine)
  BY PositionData
<1>2. toHost' \in Seq(PosLine)
  BY <1>1 DEF DrainMidLine
<1> QED
  BY <1>2 DEF DrainMidLine, history, statics, TypeOK, SharedTypeOK, FwTypeOK, CommTypeOK, CtlTypeOK

LEMMA TypeNext ==
  ASSUME TypeOK, [Next]_vars
  PROVE  TypeOK'
<1>1. CASE UNCHANGED vars
  BY <1>1 DEF vars, line, statics, history, fwVars,
     TypeOK, SharedTypeOK, FwTypeOK, CommTypeOK, CtlTypeOK
<1>2. ServingTypeOK /\ robbed \in BOOLEAN /\ (ServingTypeOK' /\ robbed' \in BOOLEAN => TypeOK')
  BY DEF TypeOK, ServingTypeOK
<1>3. Next => robbed' \in BOOLEAN
  BY <1>2, Zenon DEF Next, FirmwareStep, CommunicatorStep, DrainMidLine, Request, RequestStep
<1> QED
  BY <1>1, <1>2, <1>3, FirmwareTypes, CommunicatorTypes, TypeDrainMidLine, RequestTypes
     DEF Next, FirmwareStep, CommunicatorStep, Request, RequestStep

\* Every variable keeps its type, whatever the clients ask for.
THEOREM TypeCorrect == Spec => []TypeOK
  BY TypeInit, TypeNext, PTL DEF Spec

-----------------------------------------------------------------------------
(* The inductive invariant                                                 *)

\* Number 0 is the HandShake line of the server. It is the head of toFw as long
\* as the firmware is in its handshake and the server is past its own.
HandShakeInv ==
  /\ NothingSwallowed
  /\ cpc = "handShake" => InHandShake
  /\ cpc = "drain" => IF InHandShake THEN Len(toFw) = 1 ELSE fpc = "gets" /\ toFw = <<>>
  /\ \A j \in 1..Len(toFw) : toFw[j].id = 0 => InHandShake /\ j = 1
  /\ \A j \in 1..Len(queue) : queue[j].id # 0

\* Unanswered is one in the drain at most, and stays so: a command is written
\* when the server stops waiting for nothing, and one answer ends the wait.
AheadInv == AtMostOneAhead

\* The last line under way is the position; one that has lost its '#' can only
\* be the first, and then linie is still the position.
Resting == fpc \in {"hsGets", "hsPuts", "gets"}
NewestInv ==
  /\ ~Serving => Resting /\ \A j \in 1..Len(toHost) : toHost[j] = Report(pos)
  /\ cpc = "drain" => linie = Report(pos)
  /\ \A j \in 1..Len(toHost) : ~ContainsHash(toHost[j]) => j = 1
  /\ Serving /\ Resting =>
       IF toHost # <<>> /\ ContainsHash(toHost[Len(toHost)])
       THEN toHost[Len(toHost)].kind = "full" => toHost[Len(toHost)] = Report(pos)
       ELSE linie.kind = "full" => linie = Report(pos)

\* Numbers grow from the command being executed over the line to the queue.
OrderInv ==
  /\ \A j \in 1..Len(queue) : queue[j].id <= accepted
  /\ \A j, k \in 1..Len(queue) : j < k => queue[j].id < queue[k].id
  /\ \A j, k \in 1..Len(toFw) : j < k => toFw[j].id < toFw[k].id
  /\ \A j \in 1..Len(toFw) : /\ toFw[j].id <= accepted
                             /\ \A k \in 1..Len(queue) : toFw[j].id < queue[k].id
  /\ fpc = "exec" => /\ buffer.id # 0 /\ buffer.id <= accepted
                     /\ \A j \in 1..Len(toFw) : buffer.id < toFw[j].id
                     /\ \A j \in 1..Len(queue) : buffer.id < queue[j].id

LinkInv == TypeOK /\ HandShakeInv /\ AheadInv /\ NewestInv /\ OrderInv


\* The types the steps below use.
LEMMA LinkTypes ==
  ASSUME TypeOK
  PROVE  /\ ServingTypeOK
         /\ toFw \in Seq(Command) /\ toHost \in Seq(PosLine) /\ queue \in Seq(Command)
         /\ buffer \in Command /\ pos \in Position /\ accepted \in Nat
         /\ cpc \in {"handShake", "drain", "check", "release", "take", "wait", "dead"}
         /\ fpc \in {"hsGets", "hsPuts", "gets", "exec", "puts"}
         /\ \A cmd \in Command : cmd.id \in Nat
  BY Parts, PartTypes

LEMMA InitLinkInv == Init => LinkInv
<1> SUFFICES ASSUME Init PROVE LinkInv
  OBVIOUS
<1>1. /\ TypeOK /\ toFw = <<>> /\ toHost = <<>> /\ queue = <<>>
      /\ fpc = "hsGets" /\ cpc = "handShake"
  BY TypeInit DEF Init, SharedInit, FwInit, CommInit
<1>2. \A j : ~(j \in 1..Len(<<>>))
  OBVIOUS
<1>3. HandShakeInv
  BY <1>1, <1>2 DEF HandShakeInv, NothingSwallowed, InHandShake
<1>4. AheadInv /\ NewestInv
  BY <1>1, <1>2 DEF AheadInv, AtMostOneAhead, NewestInv, Serving, Resting
<1>5. OrderInv
  BY <1>1, <1>2 DEF OrderInv
<1> QED
  BY <1>1, <1>3, <1>4, <1>5 DEF LinkInv

-----------------------------------------------------------------------------
(* Steps of the firmware                                                   *)

\* A line that the firmware sends finds room once the server serves.
LEMMA RoomToSend ==
  ASSUME LinkInv, Serving, fpc \in {"hsPuts", "puts"}, NEW posLine, Send(posLine)
  PROVE  toHost' = Append(toHost, posLine)
<1>1. /\ Len(toHost) \in Nat /\ Len(toFw) \in Nat
      /\ toFw # <<>> => Len(toFw) >= 1
  BY LinkTypes, SeqView DEF LinkInv
<1>2. Unanswered <= 2
  BY <1>1 DEF LinkInv, AheadInv, AtMostOneAhead, Unanswered
<1>3. Len(toHost) < HostBuf
  BY <1>1, <1>2, HostBufAssumption DEF Unanswered
<1> QED
  BY <1>3 DEF Send

\* The firmware sends its position, in either loop.
LEMMA LinkSends ==
  ASSUME LinkInv, TypeOK', fpc \in {"hsPuts", "puts"}, Send(Report(pos)),
         fpc' = IF fpc = "hsPuts" THEN "hsGets" ELSE "gets",
         UNCHANGED <<cpc, buffer, pos, toFw, queue, linie, accepted>>
  PROVE  LinkInv'
<1>1. /\ toFw \in Seq(Command) /\ toHost \in Seq(PosLine) /\ toHost' \in Seq(PosLine)
      /\ cpc \in {"handShake", "drain", "check", "release", "take", "wait", "dead"}
  BY LinkTypes DEF LinkInv, TypeOK, SharedTypeOK
<1>2. Report(pos) \in PosLine /\ Report(pos).kind = "full" /\ ContainsHash(Report(pos))
  BY LinkTypes, PositionData, LineData DEF LinkInv
<1>3. InHandShake' <=> InHandShake
  BY DEF InHandShake
<1>4. Serving' <=> Serving
  BY DEF Serving
<1>5. HandShakeInv'
  BY <1>3 DEF LinkInv, HandShakeInv, NothingSwallowed, InHandShake
<1>6. \/ toHost' = Append(toHost, Report(pos))
      \/ toHost' = toHost
  BY DEF Send
<1>7. /\ Len(toHost) \in Nat /\ Len(toHost') \in Nat /\ Len(toHost') <= Len(toHost) + 1
      /\ \A j \in 1..Len(toHost') : \/ j \in 1..Len(toHost) /\ toHost'[j] = toHost[j]
                                    \/ toHost'[j] = Report(pos)
  BY <1>1, <1>2, <1>6, AppendView, SeqView
<1>8. Len(toFw) \in Nat
  BY <1>1, SeqView
<1>9. AheadInv'
  BY <1>4, <1>7, <1>8 DEF LinkInv, AheadInv, AtMostOneAhead, Unanswered
<1>10. NewestInv'
  <2>1. ASSUME Serving
        PROVE  toHost' # <<>> /\ toHost'[Len(toHost')] = Report(pos)
    <3>1. toHost' = Append(toHost, Report(pos))
      BY <2>1, RoomToSend
    <3> QED
      BY <1>1, <1>2, <3>1, AppendView, SeqView
  <2>2. ~Serving => fpc' \in {"hsGets", "gets"} /\ \A j \in 1..Len(toHost') : toHost'[j] = Report(pos)
    BY <1>7 DEF LinkInv, NewestInv
  <2>3. \A j \in 1..Len(toHost') : ~ContainsHash(toHost'[j]) => j = 1
    BY <1>2, <1>7 DEF LinkInv, NewestInv
  <2>4. cpc = "drain" => linie = Report(pos)
    BY DEF LinkInv, NewestInv
  <2> QED
    BY <1>2, <1>4, <2>1, <2>2, <2>3, <2>4 DEF NewestInv, Resting, ContainsHash
<1>11. OrderInv'
  BY DEF LinkInv, OrderInv
<1> QED
  BY <1>5, <1>9, <1>10, <1>11 DEF LinkInv


\* The firmware reads the HandShake line and leaves its handshake.
LEMMA LinkAccepts ==
  ASSUME LinkInv, TypeOK', HandShakeAccept, cpc' = cpc
  PROVE  LinkInv'
<1>1. /\ toFw \in Seq(Command) /\ toFw' \in Seq(Command) /\ toHost \in Seq(PosLine)
      /\ toFw # <<>> /\ toFw' = Tail(toFw) /\ fpc = "hsGets" /\ fpc' = "gets"
      /\ UNCHANGED <<buffer, pos, toHost, queue, linie, accepted>>
  BY LinkTypes DEF LinkInv, TypeOK, SharedTypeOK, HandShakeAccept, statics
<1>2. /\ Len(toFw) \in Nat /\ Len(toFw) >= 1 /\ Len(toFw') = Len(toFw) - 1
      /\ Head(toFw) = toFw[1]
      /\ \A j \in 1..Len(toFw') : toFw'[j] = toFw[j + 1]
  BY <1>1, HeadTail
<1>3. toFw' = <<>> <=> Len(toFw') = 0
  BY <1>1, SeqView
<1>4. toFw' # <<>> => Head(toFw') = toFw'[1]
  BY <1>1, HeadTail
<1>5. cpc # "handShake" /\ Head(toFw).id = 0
  BY <1>1, LineData DEF LinkInv, HandShakeInv, NothingSwallowed, InHandShake
<1>6. \A j \in 1..Len(toFw') : toFw'[j].id # 0
  BY <1>2 DEF LinkInv, HandShakeInv
<1>7. HandShakeInv'
  BY <1>1, <1>2, <1>3, <1>5, <1>6 DEF LinkInv, HandShakeInv, NothingSwallowed, InHandShake
<1>8. AheadInv'
  <2>1. toFw' # <<>> => Head(toFw').id # 0
    BY <1>2, <1>3, <1>4, <1>6
  <2>2. Len(toHost) \in Nat
    BY <1>1, SeqView
  <2> QED
    BY <1>1, <1>2, <1>5, <2>1, <2>2 DEF LinkInv, AheadInv, AtMostOneAhead, Unanswered, Serving
<1>9. NewestInv'
  BY <1>1 DEF LinkInv, NewestInv, Serving, Resting
<1>10. OrderInv'
  BY <1>1, <1>2 DEF LinkInv, OrderInv
<1> QED
  BY <1>7, <1>8, <1>9, <1>10 DEF LinkInv

\* The firmware reads a command in its main loop.
LEMMA LinkGets ==
  ASSUME LinkInv, TypeOK', Gets, cpc' = cpc
  PROVE  LinkInv'
<1>1. /\ toFw \in Seq(Command) /\ toFw' \in Seq(Command) /\ toHost \in Seq(PosLine)
      /\ toFw # <<>> /\ toFw' = Tail(toFw) /\ fpc = "gets" /\ fpc' = "exec"
      /\ buffer' = Head(toFw)
      /\ UNCHANGED <<pos, toHost, queue, linie, accepted>>
  BY LinkTypes DEF LinkInv, TypeOK, SharedTypeOK, Gets, statics, history
<1>2. /\ Len(toFw) \in Nat /\ Len(toFw) >= 1 /\ Len(toFw') = Len(toFw) - 1
      /\ Head(toFw) = toFw[1]
      /\ \A j \in 1..Len(toFw') : toFw'[j] = toFw[j + 1]
  BY <1>1, HeadTail
<1>3. toFw' # <<>> => Head(toFw') = toFw'[1] /\ Len(toFw') >= 1
  BY <1>1, HeadTail
<1>4. \A j \in 1..Len(toFw) : toFw[j].id # 0
  BY <1>1 DEF LinkInv, HandShakeInv, InHandShake
<1>5. Serving
  BY <1>1 DEF LinkInv, HandShakeInv, InHandShake, Serving
<1>6. HandShakeInv'
  BY <1>1, <1>2, <1>4, <1>5 DEF LinkInv, HandShakeInv, NothingSwallowed, InHandShake, Serving
<1>7. AheadInv'
  <2>1. toFw' # <<>> => Head(toFw').id # 0
    BY <1>2, <1>3, <1>4
  <2>2. Head(toFw).id # 0
    BY <1>2, <1>4
  <2>3. Len(toHost) \in Nat
    BY <1>1, SeqView
  <2> QED
    BY <1>1, <1>2, <2>1, <2>2, <2>3 DEF LinkInv, AheadInv, AtMostOneAhead, Unanswered, Serving
<1>8. NewestInv'
  BY <1>1, <1>5 DEF LinkInv, NewestInv, Serving, Resting
<1>9. OrderInv'
  BY <1>1, <1>2, <1>4 DEF LinkInv, OrderInv
<1> QED
  BY <1>6, <1>7, <1>8, <1>9 DEF LinkInv

LEMMA LinkFirmware ==
  ASSUME LinkInv, TypeOK', FirmwareStep
  PROVE  LinkInv'
<1>1. cpc' = cpc
  BY DEF FirmwareStep
<1>2. CASE HandShakeGetsNothing
  <2>1. /\ fpc = "hsGets" /\ fpc' = "hsPuts" /\ toFw = <<>>
        /\ UNCHANGED <<buffer, pos, toFw, toHost, queue, linie, accepted>>
    BY <1>2 DEF HandShakeGetsNothing, line, statics, history
  <2>2. cpc = "handShake"
    BY <2>1 DEF LinkInv, HandShakeInv, NothingSwallowed, InHandShake
  <2>3. HandShakeInv'
    BY <1>1, <2>1, <2>2 DEF LinkInv, HandShakeInv, NothingSwallowed, InHandShake
  <2>4. AheadInv' /\ NewestInv'
    BY <1>1, <2>1, <2>2 DEF LinkInv, AheadInv, AtMostOneAhead, NewestInv, Serving, Resting
  <2>5. OrderInv'
    BY <2>1 DEF LinkInv, OrderInv
  <2> QED
    BY <2>3, <2>4, <2>5 DEF LinkInv
<1>3. CASE HandShakePuts
  BY <1>1, <1>3, LinkSends DEF HandShakePuts, statics, history
<1>4. CASE HandShakeAccept
  BY <1>1, <1>4, LinkAccepts
<1>5. ASSUME HandShakeSwallow PROVE FALSE
  BY <1>5, LineData DEF HandShakeSwallow, LinkInv, HandShakeInv, NothingSwallowed, InHandShake
<1>6. CASE Gets
  BY <1>1, <1>6, LinkGets
<1>7. CASE Exec
  <2>1. /\ fpc = "exec" /\ fpc' = "puts"
        /\ UNCHANGED <<buffer, toFw, toHost, queue, linie, accepted>>
    BY <1>7 DEF Exec, line, statics
  <2>2. Serving
    BY <2>1 DEF LinkInv, HandShakeInv, InHandShake, Serving
  <2>3. HandShakeInv'
    BY <1>1, <2>1, <2>2 DEF LinkInv, HandShakeInv, NothingSwallowed, InHandShake, Serving
  <2>4. AheadInv'
    BY <1>1, <2>1 DEF LinkInv, AheadInv, AtMostOneAhead, Unanswered, Serving
  <2>5. NewestInv'
    BY <1>1, <2>1, <2>2 DEF LinkInv, NewestInv, Serving, Resting
  <2>6. OrderInv'
    BY <2>1 DEF LinkInv, OrderInv
  <2> QED
    BY <2>3, <2>4, <2>5, <2>6 DEF LinkInv
<1>8. CASE Puts
  BY <1>1, <1>8, LinkSends DEF Puts, statics, history
<1> QED
  BY <1>2, <1>3, <1>4, <1>5, <1>6, <1>7, <1>8 DEF FirmwareStep, FwNext


-----------------------------------------------------------------------------
(* Steps of the serial thread                                              *)

\* A step that leaves the line, linie and the queue alone, and stays serving
\* without starting to wait.
LEMMA LinkIdles ==
  ASSUME LinkInv, TypeOK', Serving, cpc # "wait", Serving',
         UNCHANGED <<fpc, buffer, pos, toFw, toHost, queue, linie, accepted>>
  PROVE  LinkInv'
<1>1. HandShakeInv'
  BY DEF LinkInv, HandShakeInv, NothingSwallowed, InHandShake, Serving
<1>2. AheadInv'
  <2>1. Unanswered' = Unanswered /\ Unanswered <= 1
    BY DEF LinkInv, AheadInv, AtMostOneAhead, Unanswered
  <2>2. Unanswered \in Int
    BY LinkTypes, SeqView DEF LinkInv, Unanswered
  <2> QED
    BY <2>1, <2>2 DEF AheadInv, AtMostOneAhead
<1>3. NewestInv'
  BY DEF LinkInv, NewestInv, Serving, Resting
<1>4. OrderInv'
  BY DEF LinkInv, OrderInv
<1> QED
  BY <1>1, <1>2, <1>3, <1>4 DEF LinkInv

\* The server reads a position line and answers the handshake.
LEMMA LinkMatches ==
  ASSUME LinkInv, TypeOK', HandShakeMatch, UNCHANGED fwVars
  PROVE  LinkInv'
<1>1. /\ toFw \in Seq(Command) /\ toHost \in Seq(PosLine) /\ queue \in Seq(Command)
      /\ toHost # <<>> /\ toHost' = Tail(toHost) /\ toFw' = Append(toFw, ServerHandShake)
      /\ linie' = Head(toHost) /\ cpc = "handShake" /\ cpc' = "drain"
      /\ UNCHANGED <<fpc, buffer, pos, queue, accepted>>
      /\ accepted \in Nat
  BY LinkTypes DEF LinkInv, HandShakeMatch, history, fwVars
<1>2. toFw = <<>> /\ InHandShake
  BY <1>1 DEF LinkInv, HandShakeInv, NothingSwallowed
<1>3. /\ Len(toFw') = 1 /\ toFw' # <<>> /\ toFw'[1] = ServerHandShake /\ Head(toFw') = ServerHandShake
      /\ Len(toFw) = 0
  <2>1. toFw' \in Seq(Command) /\ Len(toFw') = 1 /\ toFw'[1] = ServerHandShake
    BY <1>1, <1>2, CommandData, AppendView, SeqView
  <2> QED
    BY <1>1, <1>2, <2>1, SeqView
<1>4. /\ Len(toHost) \in Nat /\ Len(toHost) >= 1 /\ Len(toHost') = Len(toHost) - 1
      /\ Head(toHost) = toHost[1]
      /\ \A j \in 1..Len(toHost') : toHost'[j] = toHost[j + 1]
  BY <1>1, HeadTail
<1>5. Len(queue) \in Nat /\ \A j \in 1..Len(queue) : queue[j].id \in Nat
  BY <1>1, SeqView, LinkTypes DEF LinkInv
<1>6. HandShakeInv'
  BY <1>1, <1>2, <1>3 DEF LinkInv, HandShakeInv, NothingSwallowed, InHandShake
<1>7. AheadInv'
  BY <1>1 DEF AheadInv, AtMostOneAhead, Serving
<1>8. NewestInv'
  <2>1. \A j \in 1..Len(toHost) : toHost[j] = Report(pos)
    BY <1>1 DEF LinkInv, NewestInv, Serving
  <2>2. \A j \in 1..Len(toHost') : toHost'[j] = Report(pos)
    BY <1>4, <2>1
  <2>3. linie' = Report(pos)
    BY <1>1, <1>4, <2>1
  <2> QED
    BY <1>1, <2>2, <2>3, LineData DEF LinkInv, NewestInv, Serving, Resting
<1>9. OrderInv'
  <2>1. \A j \in 1..Len(toFw') : toFw'[j].id = 0 /\ j = 1
    BY <1>3, LineData
  <2>2. \A j \in 1..Len(queue) : 0 < queue[j].id
    BY <1>5 DEF LinkInv, HandShakeInv
  <2>3. fpc # "exec"
    BY <1>2 DEF InHandShake
  <2> QED
    BY <1>1, <2>1, <2>2, <2>3 DEF LinkInv, OrderInv
<1> QED
  BY <1>6, <1>7, <1>8, <1>9 DEF LinkInv

\* The server reads a line that it does not use.
LEMMA LinkSkips ==
  ASSUME LinkInv, TypeOK', ~Serving, toHost # <<>>, toHost' = Tail(toHost),
         UNCHANGED <<cpc, fpc, buffer, pos, toFw, queue, linie, accepted>>
  PROVE  LinkInv'
<1>1. /\ Len(toHost) \in Nat /\ Len(toHost) >= 1 /\ Len(toHost') = Len(toHost) - 1
      /\ \A j \in 1..Len(toHost') : toHost'[j] = toHost[j + 1]
  BY LinkTypes, HeadTail DEF LinkInv
<1>2. HandShakeInv'
  BY DEF LinkInv, HandShakeInv, NothingSwallowed, InHandShake
<1>3. AheadInv' /\ ~Serving'
  BY DEF AheadInv, AtMostOneAhead, Serving
<1>4. NewestInv'
  <2>1. \A j \in 1..Len(toHost') : toHost'[j] = Report(pos)
    BY <1>1 DEF LinkInv, NewestInv
  <2> QED
    BY <1>3, <2>1, LineData DEF LinkInv, NewestInv, Serving, Resting
<1>5. OrderInv'
  BY DEF LinkInv, OrderInv
<1> QED
  BY <1>2, <1>3, <1>4, <1>5 DEF LinkInv

\* The drain finds nothing ready.
LEMMA LinkDrained ==
  ASSUME LinkInv, TypeOK', DrainDone, UNCHANGED fwVars
  PROVE  LinkInv'
<1>1. /\ toHost = <<>> /\ cpc = "drain" /\ cpc' = "check"
      /\ UNCHANGED <<fpc, buffer, pos, toFw, toHost, queue, linie, accepted>>
  BY DEF DrainDone, line, statics, history, fwVars
<1>2. HandShakeInv'
  BY <1>1 DEF LinkInv, HandShakeInv, NothingSwallowed, InHandShake
<1>3. AheadInv'
  <2>1. Len(toFw) \in Nat /\ Len(toHost) = 0 /\ (Len(toFw) = 0 <=> toFw = <<>>)
    BY <1>1, LinkTypes, SeqView DEF LinkInv
  <2>2. CASE InHandShake
    <3>1. Len(toFw) = 1 /\ toFw # <<>> /\ Head(toFw).id = 0
      BY <1>1, <2>2, LineData DEF LinkInv, HandShakeInv, NothingSwallowed
    <3> QED
      BY <1>1, <2>1, <3>1 DEF AheadInv, AtMostOneAhead, Unanswered
  <2>3. CASE ~InHandShake
    BY <1>1, <2>1, <2>3 DEF LinkInv, HandShakeInv, AheadInv, AtMostOneAhead, Unanswered
  <2> QED
    BY <2>2, <2>3
<1>4. NewestInv'
  BY <1>1 DEF LinkInv, NewestInv, Serving, Resting
<1>5. OrderInv'
  BY <1>1 DEF LinkInv, OrderInv
<1> QED
  BY <1>2, <1>3, <1>4, <1>5 DEF LinkInv

LEMMA LinkDrainMidLine ==
  ASSUME LinkInv, TypeOK', DrainMidLine
  PROVE  LinkInv'
<1>1. /\ toHost = <<>> /\ cpc = "drain" /\ cpc' = "check" /\ fpc = "hsPuts" /\ fpc' = "hsGets"
      /\ UNCHANGED <<buffer, pos, toFw, queue, linie, accepted>>
      /\ \E kind \in {"two", "one", "tail"} : toHost' = <<Rest(kind)>>
  <2>1. fpc # "puts"
    BY DEF DrainMidLine, LinkInv, HandShakeInv, InHandShake
  <2> QED
    BY <2>1 DEF DrainMidLine, statics, history
<1>2. /\ Len(toHost') = 1 /\ toHost' # <<>>
      /\ \E kind \in {"two", "one", "tail"} : toHost'[1] = Rest(kind)
  BY <1>1
<1>3. HandShakeInv'
  BY <1>1 DEF LinkInv, HandShakeInv, NothingSwallowed, InHandShake
<1>4. AheadInv'
  <2>1. Len(toFw) = 1 /\ toFw # <<>> /\ Head(toFw).id = 0
    BY <1>1, LineData DEF LinkInv, HandShakeInv, NothingSwallowed, InHandShake
  <2> QED
    BY <1>1, <1>2, <2>1 DEF AheadInv, AtMostOneAhead, Unanswered
<1>5. NewestInv'
  <2>1. linie = Report(pos)
    BY <1>1 DEF LinkInv, NewestInv
  <2>2. toHost'[1].kind # "full"
    BY <1>2, LineData
  <2> QED
    BY <1>1, <1>2, <2>1, <2>2 DEF NewestInv, Serving, Resting
<1>6. OrderInv'
  BY <1>1 DEF LinkInv, OrderInv
<1> QED
  BY <1>3, <1>4, <1>5, <1>6 DEF LinkInv


\* The server takes the first command and writes it, unless it is blank.
LEMMA LinkTakes ==
  ASSUME LinkInv, TypeOK', Take, UNCHANGED fwVars
  PROVE  LinkInv'
<1>1. /\ toFw \in Seq(Command) /\ toFw' \in Seq(Command) /\ toHost \in Seq(PosLine)
      /\ queue \in Seq(Command) /\ queue # <<>> /\ queue' = Tail(queue)
      /\ toFw' = toFw \/ toFw' = Append(toFw, Head(queue))
      /\ cpc = "take" /\ cpc' = "wait"
      /\ UNCHANGED <<fpc, buffer, pos, toHost, linie, accepted>>
  BY LinkTypes DEF LinkInv, TypeOK, SharedTypeOK, Take, fwVars
<1>2. /\ Len(queue) \in Nat /\ Len(queue) >= 1 /\ Len(queue') = Len(queue) - 1
      /\ Head(queue) = queue[1] /\ Head(queue) \in Command
      /\ \A j \in 1..Len(queue') : queue'[j] = queue[j + 1]
  BY <1>1, HeadTail
<1>3. /\ Len(toFw) \in Nat /\ Len(toFw') \in Nat /\ Len(toHost) \in Nat
      /\ Len(toFw) <= Len(toFw') /\ Len(toFw') <= Len(toFw) + 1
      /\ \A j \in 1..Len(toFw) : toFw'[j] = toFw[j]
      /\ Len(toFw') = Len(toFw) + 1 => toFw'[Len(toFw) + 1] = queue[1]
  <2>1. Len(toFw) \in Nat /\ Len(toHost) \in Nat
    BY <1>1, SeqView
  <2>2. CASE toFw' = toFw
    BY <2>1, <2>2
  <2>3. CASE toFw' = Append(toFw, Head(queue))
    <3>1. /\ Len(toFw') = Len(toFw) + 1
          /\ \A j \in 1..Len(toFw) : toFw'[j] = toFw[j]
          /\ toFw'[Len(toFw) + 1] = Head(queue)
      BY <1>1, <1>2, <2>3, AppendView
    <3> QED
      BY <1>2, <2>1, <3>1
  <2> QED
    BY <1>1, <2>2, <2>3
<1>4. /\ toFw # <<>> => Head(toFw) = toFw[1] /\ Len(toFw) >= 1
      /\ toFw' # <<>> => Head(toFw') = toFw'[1] /\ Len(toFw') >= 1
      /\ Len(toFw') >= 1 => toFw' # <<>>
  BY <1>1, SeqView
<1>5. \A j \in 1..Len(queue) : queue[j].id # 0 /\ queue[j].id \in Nat
  BY <1>1, SeqView, LinkTypes DEF LinkInv, HandShakeInv
<1>6. HandShakeInv'
  <2>1. NothingSwallowed'
    BY <1>1, <1>3, <1>4 DEF LinkInv, HandShakeInv, NothingSwallowed, InHandShake
  <2>2. ASSUME NEW j \in 1..Len(toFw'), toFw'[j].id = 0
        PROVE  InHandShake /\ j = 1
    <3>1. CASE j \in 1..Len(toFw)
      BY <1>3, <2>2, <3>1 DEF LinkInv, HandShakeInv
    <3>2. CASE j = Len(toFw) + 1
      BY <1>2, <1>3, <1>5, <2>2, <3>2
    <3> QED
      BY <1>3, <3>1, <3>2
  <2>3. \A j \in 1..Len(queue') : queue'[j].id # 0
    BY <1>2, <1>5
  <2> QED
    BY <1>1, <2>1, <2>2, <2>3 DEF HandShakeInv, InHandShake
<1>7. AheadInv'
  <2>1. Unanswered <= 1
    BY <1>1 DEF LinkInv, AheadInv, AtMostOneAhead, Serving
  <2>2. toFw # <<>> /\ Head(toFw).id = 0 => toFw' # <<>> /\ Head(toFw').id = 0
    BY <1>3, <1>4
  <2> QED
    BY <1>1, <1>3, <2>1, <2>2 DEF AheadInv, AtMostOneAhead, Unanswered
<1>8. NewestInv'
  BY <1>1 DEF LinkInv, NewestInv, Serving, Resting
<1>9. OrderInv'
  <2>1. /\ \A j \in 1..Len(queue') : queue'[j].id <= accepted
        /\ \A j, k \in 1..Len(queue') : j < k => queue'[j].id < queue'[k].id
        /\ \A j \in 1..Len(queue') : queue[1].id < queue'[j].id
    <3>1. /\ \A j \in 1..Len(queue) : queue[j].id <= accepted
          /\ \A j, k \in 1..Len(queue) : j < k => queue[j].id < queue[k].id
      BY DEF LinkInv, OrderInv
    <3>2. \A j \in 1..Len(queue') : j + 1 \in 1..Len(queue) /\ 1 < j + 1
      BY <1>2
    <3>3. 1 \in 1..Len(queue) /\ \A j, k \in 1..Len(queue') : j < k => j + 1 < k + 1
      BY <1>2
    <3> QED
      BY <1>2, <3>1, <3>2, <3>3
  <2>2. ASSUME NEW j \in 1..Len(toFw'), NEW k \in 1..Len(toFw'), j < k
        PROVE  toFw'[j].id < toFw'[k].id
    <3>1. j \in 1..Len(toFw) /\ toFw'[j] = toFw[j]
      BY <1>3, <2>2
    <3>2. CASE k \in 1..Len(toFw)
      BY <1>3, <2>2, <3>1, <3>2 DEF LinkInv, OrderInv
    <3>3. CASE k = Len(toFw) + 1
      <4>1. 1 \in 1..Len(queue) /\ toFw'[k] = queue[1]
        BY <1>2, <1>3, <3>3
      <4> QED
        BY <3>1, <4>1 DEF LinkInv, OrderInv
    <3> QED
      BY <1>3, <3>2, <3>3
  <2>3. ASSUME NEW j \in 1..Len(toFw')
        PROVE  toFw'[j].id <= accepted /\ \A k \in 1..Len(queue') : toFw'[j].id < queue'[k].id
    <3>1. CASE j \in 1..Len(toFw)
      BY <1>2, <1>3, <3>1 DEF LinkInv, OrderInv
    <3>2. CASE j = Len(toFw) + 1
      <4>1. 1 \in 1..Len(queue) /\ toFw'[j] = queue[1]
        BY <1>2, <1>3, <3>2
      <4> QED
        BY <2>1, <4>1 DEF LinkInv, OrderInv
    <3> QED
      BY <1>3, <3>1, <3>2
  <2>4. fpc = "exec" => /\ buffer.id # 0 /\ buffer.id <= accepted
                        /\ \A j \in 1..Len(toFw') : buffer.id < toFw'[j].id
                        /\ \A j \in 1..Len(queue') : buffer.id < queue'[j].id
    BY <1>2, <1>3 DEF LinkInv, OrderInv
  <2> QED
    BY <1>1, <2>1, <2>2, <2>3, <2>4 DEF OrderInv
<1> QED
  BY <1>6, <1>7, <1>8, <1>9 DEF LinkInv

\* The server reads a line while it waits for a response.
LEMMA LinkReceives ==
  ASSUME LinkInv, TypeOK', Receive, UNCHANGED fwVars
  PROVE  LinkInv'
<1>1. /\ toFw \in Seq(Command) /\ toHost \in Seq(PosLine) /\ toHost' \in Seq(PosLine)
      /\ toHost # <<>> /\ toHost' = Tail(toHost) /\ cpc = "wait"
      /\ IF ContainsHash(Head(toHost))
         THEN cpc' = "check" /\ linie' = Head(toHost)
         ELSE cpc' = cpc /\ linie' = linie
      /\ UNCHANGED <<fpc, buffer, pos, toFw, queue, accepted>>
  BY LinkTypes DEF LinkInv, TypeOK, SharedTypeOK, Receive, fwVars, history
<1>2. /\ Len(toHost) \in Nat /\ Len(toHost) >= 1 /\ Len(toHost') = Len(toHost) - 1
      /\ Head(toHost) = toHost[1] /\ Len(toFw) \in Nat
      /\ \A j \in 1..Len(toHost') : toHost'[j] = toHost[j + 1]
      /\ toHost' = <<>> <=> Len(toHost') = 0
  BY <1>1, HeadTail, SeqView
<1>3. Serving /\ Serving'
  BY <1>1 DEF Serving
<1>4. HandShakeInv'
  BY <1>1 DEF LinkInv, HandShakeInv, NothingSwallowed, InHandShake
<1>5. AheadInv'
  BY <1>1, <1>2, <1>3 DEF LinkInv, AheadInv, AtMostOneAhead, Unanswered
<1>6. NewestInv'
  <2>1. \A j \in 1..Len(toHost') : ContainsHash(toHost'[j])
    BY <1>2 DEF LinkInv, NewestInv
  <2>2. ASSUME Resting, toHost' # <<>>
        PROVE  toHost'[Len(toHost')].kind = "full" => toHost'[Len(toHost')] = Report(pos)
    <3>1. Len(toHost') \in 1..Len(toHost') /\ toHost'[Len(toHost')] = toHost[Len(toHost)]
      BY <1>2, <2>2
    <3>2. ContainsHash(toHost[Len(toHost)])
      BY <2>1, <3>1
    <3> QED
      BY <1>1, <1>3, <2>2, <3>1, <3>2 DEF LinkInv, NewestInv
  <2>3. ASSUME Resting, toHost' = <<>>
        PROVE  linie'.kind = "full" => linie' = Report(pos)
    <3>1. Len(toHost) = 1
      BY <1>2, <2>3
    <3> QED
      BY <1>1, <1>2, <1>3, <2>3, <3>1 DEF LinkInv, NewestInv
  <2>4. toHost' # <<>> => Len(toHost') \in 1..Len(toHost')
    BY <1>2
  <2>5. Resting' = Resting
    BY <1>1 DEF Resting
  <2> QED
    BY <1>1, <1>3, <2>1, <2>2, <2>3, <2>4, <2>5 DEF NewestInv, Serving
<1>7. OrderInv'
  BY <1>1 DEF LinkInv, OrderInv
<1> QED
  BY <1>4, <1>5, <1>6, <1>7 DEF LinkInv

LEMMA LinkCommunicator ==
  ASSUME LinkInv, TypeOK', CommunicatorStep
  PROVE  LinkInv'
<1>1. UNCHANGED fwVars
  BY DEF CommunicatorStep
<1>2. CASE HandShakeMatch
  BY <1>1, <1>2, LinkMatches
<1>3. CASE HandShakeSkip \/ DrainRead
  BY <1>1, <1>3, LinkSkips DEF HandShakeSkip, DrainRead, statics, history, fwVars, Serving
<1>4. CASE DrainDone
  BY <1>1, <1>4, LinkDrained
<1>5. CASE CheckQueue
  <2>1. cpc = "check" /\ cpc' \in {"release", "take"}
    BY <1>5 DEF CheckQueue
  <2> QED
    BY <1>1, <1>5, <2>1, LinkIdles DEF CheckQueue, line, history, fwVars, Serving
<1>6. CASE Release
  BY <1>1, <1>6, LinkIdles DEF Release, line, history, fwVars, Serving
<1>7. CASE Take
  BY <1>1, <1>7, LinkTakes
<1>8. CASE TakeNothing
  BY <1>1, <1>8, LinkIdles DEF TakeNothing, line, statics, history, fwVars, Serving
<1>9. CASE Receive
  BY <1>1, <1>9, LinkReceives
<1> QED
  BY <1>2, <1>3, <1>4, <1>5, <1>6, <1>7, <1>8, <1>9 DEF CommunicatorStep, CommNext

-----------------------------------------------------------------------------
(* Steps of requests                                                       *)

LEMMA LinkRequest ==
  ASSUME LinkInv, TypeOK', NEW c \in Connections, CtlRequest(c) \/ CtlContinue(c),
         UNCHANGED <<fwVars, cpc>>
  PROVE  LinkInv'
<1>1. /\ queue \in Seq(Command) /\ toFw \in Seq(Command) /\ accepted \in Nat
      /\ UNCHANGED <<fpc, buffer, pos, cpc, toFw, toHost, linie>>
  BY LinkTypes, RequestFacts DEF RequestEffect, LinkInv, line, fwVars
<1>2. /\ Len(queue) \in Nat /\ Len(toFw) \in Nat
      /\ \A j \in 1..Len(queue) : queue[j].id \in Nat
      /\ \A j \in 1..Len(toFw) : toFw[j].id \in Nat
      /\ buffer.id \in Nat
  BY <1>1, SeqView, LinkTypes DEF LinkInv
<1>3. HandShakeInv' /\ OrderInv'
  <2>1. ASSUME NEW bodies \in Seq(Body), NEW by \in Nat, Add(bodies, by)
        PROVE  HandShakeInv' /\ OrderInv'
    <3>1. /\ Len(queue') = Len(queue) + Len(bodies) /\ Len(bodies) \in Nat
          /\ accepted' = accepted + Len(bodies)
          /\ \A j \in 1..Len(queue) : queue'[j] = queue[j]
          /\ \A j \in Len(queue) + 1..Len(queue') : queue'[j].id = accepted + (j - Len(queue))
      BY <1>1, <2>1, AddFacts
    <3>2. ASSUME NEW k \in 1..Len(queue')
          PROVE  /\ k \in Nat /\ queue'[k].id \in Nat
                 /\ \/ k \in 1..Len(queue) /\ queue'[k] = queue[k]
                    \/ /\ k > Len(queue) /\ queue'[k].id = accepted + (k - Len(queue))
                       /\ queue'[k].id > accepted /\ queue'[k].id <= accepted'
      <4>1. k \in Nat /\ k >= 1 /\ k <= Len(queue) + Len(bodies)
        BY <1>2, <3>1
      <4>2. CASE k <= Len(queue)
        BY <1>2, <3>1, <4>1, <4>2
      <4>3. CASE k > Len(queue)
        <5>1. queue'[k].id = accepted + (k - Len(queue))
          BY <1>2, <3>1, <4>1, <4>3
        <5> QED
          BY <1>1, <1>2, <3>1, <4>1, <4>3, <5>1
      <4> QED
        BY <1>2, <4>1, <4>2, <4>3
    <3>3. ASSUME NEW k \in 1..Len(queue')
          PROVE  queue'[k].id # 0 /\ queue'[k].id <= accepted'
      <4>1. CASE k \in 1..Len(queue) /\ queue'[k] = queue[k]
        BY <1>1, <1>2, <3>1, <4>1 DEF LinkInv, HandShakeInv, OrderInv
      <4>2. CASE queue'[k].id > accepted /\ queue'[k].id <= accepted'
        BY <1>1, <4>2
      <4> QED
        BY <3>2, <4>1, <4>2
    <3>4. ASSUME NEW j \in 1..Len(queue'), NEW k \in 1..Len(queue'), j < k
          PROVE  queue'[j].id < queue'[k].id
      <4>1. CASE j \in 1..Len(queue) /\ k \in 1..Len(queue)
        BY <3>1, <3>4, <4>1 DEF LinkInv, OrderInv
      <4>2. CASE j \in 1..Len(queue) /\ k > Len(queue)
        <5>1. queue'[j] = queue[j] /\ queue[j].id <= accepted /\ queue[j].id \in Nat
          BY <1>2, <3>1, <4>2 DEF LinkInv, OrderInv
        <5>2. queue'[k].id > accepted /\ queue'[k].id \in Nat
          <6>1. k \in Nat /\ queue'[k].id \in Nat /\ ~(k \in 1..Len(queue))
            BY <1>2, <3>2, <4>2
          <6> QED
            BY <3>2, <6>1
        <5> QED
          BY <1>1, <5>1, <5>2
      <4>3. CASE j > Len(queue) /\ k > Len(queue)
        <5>1. /\ j \in Nat /\ k \in Nat
              /\ queue'[j].id = accepted + (j - Len(queue))
              /\ queue'[k].id = accepted + (k - Len(queue))
          BY <1>2, <3>2, <4>3
        <5> QED
          BY <1>1, <1>2, <3>4, <5>1
      <4> QED
        BY <1>2, <3>1, <3>4, <4>1, <4>2, <4>3
    <3>5. ASSUME NEW j \in 1..Len(toFw)
          PROVE  toFw[j].id <= accepted' /\ \A k \in 1..Len(queue') : toFw[j].id < queue'[k].id
      <4>1. toFw[j].id \in Nat /\ toFw[j].id <= accepted
            /\ \A k \in 1..Len(queue) : toFw[j].id < queue[k].id
        BY <1>2 DEF LinkInv, OrderInv
      <4>2. ASSUME NEW k \in 1..Len(queue') PROVE toFw[j].id < queue'[k].id
        <5>1. CASE k \in 1..Len(queue) /\ queue'[k] = queue[k]
          BY <4>1, <5>1
        <5>2. CASE queue'[k].id > accepted
          <6>1. queue'[k].id \in Nat /\ toFw[j].id \in Nat
            BY <1>2, <3>2
          <6> QED
            BY <1>1, <4>1, <5>2, <6>1
        <5> QED
          BY <3>2, <5>1, <5>2
      <4> QED
        BY <1>1, <3>1, <4>1, <4>2
    <3>6. ASSUME fpc = "exec"
          PROVE  buffer.id <= accepted' /\ \A k \in 1..Len(queue') : buffer.id < queue'[k].id
      <4>1. buffer.id <= accepted /\ \A k \in 1..Len(queue) : buffer.id < queue[k].id
        BY <3>6 DEF LinkInv, OrderInv
      <4>2. ASSUME NEW k \in 1..Len(queue') PROVE buffer.id < queue'[k].id
        <5>1. CASE k \in 1..Len(queue) /\ queue'[k] = queue[k]
          BY <4>1, <5>1
        <5>2. CASE queue'[k].id > accepted
          <6>1. queue'[k].id \in Nat /\ buffer.id \in Nat
            BY <1>2, <3>2
          <6> QED
            BY <1>1, <4>1, <5>2, <6>1
        <5> QED
          BY <3>2, <5>1, <5>2
      <4>3. buffer.id <= accepted'
        BY <1>1, <1>2, <3>1, <4>1
      <4> QED
        BY <4>2, <4>3
    <3>7. HandShakeInv'
      BY <1>1, <3>3 DEF LinkInv, HandShakeInv, NothingSwallowed, InHandShake
    <3>8. OrderInv'
      BY <1>1, <3>3, <3>4, <3>5, <3>6 DEF LinkInv, OrderInv
    <3> QED
      BY <3>7, <3>8
  <2>2. CASE queue # <<>> /\ queue' = Tail(queue) /\ accepted' = accepted
    <3>1. /\ Len(queue) >= 1 /\ Len(queue') = Len(queue) - 1
          /\ \A j \in 1..Len(queue') : queue'[j] = queue[j + 1]
      BY <1>1, <2>2, HeadTail
    <3>2. HandShakeInv'
      <4>1. \A j \in 1..Len(queue') : queue'[j].id # 0
        BY <1>2, <3>1 DEF LinkInv, HandShakeInv
      <4> QED
        BY <1>1, <4>1 DEF LinkInv, HandShakeInv, NothingSwallowed, InHandShake
    <3>3. OrderInv'
      BY <1>1, <1>2, <2>2, <3>1 DEF LinkInv, OrderInv
    <3> QED
      BY <3>2, <3>3
  <2>3. CASE UNCHANGED <<queue, accepted>>
    BY <1>1, <2>3 DEF LinkInv, HandShakeInv, NothingSwallowed, InHandShake, OrderInv
  <2> QED
    BY <2>1, <2>2, <2>3, LinkTypes, RequestFacts DEF RequestEffect, LinkInv, history
<1>4. AheadInv' /\ NewestInv'
  BY <1>1 DEF LinkInv, AheadInv, AtMostOneAhead, Unanswered, NewestInv, Serving, Resting
<1> QED
  BY <1>3, <1>4 DEF LinkInv

LEMMA LinkNext ==
  ASSUME LinkInv, [Next]_vars
  PROVE  LinkInv'
<1>1. TypeOK /\ TypeOK'
  BY TypeNext DEF LinkInv
<1>2. CASE UNCHANGED vars
  <2>1. UNCHANGED <<fpc, buffer, pos, cpc, toFw, toHost, queue, linie, accepted>>
    BY <1>2 DEF vars, line, statics, history, fwVars
  <2> QED
    BY <1>1, <2>1 DEF LinkInv, HandShakeInv, NothingSwallowed, InHandShake, OrderInv,
       AheadInv, AtMostOneAhead, Unanswered, NewestInv, Serving, Resting
<1> QED
  BY <1>1, <1>2, LinkFirmware, LinkCommunicator, LinkDrainMidLine, LinkRequest
     DEF Next, Request, RequestStep

LEMMA LinkInvariant == Spec => []LinkInv
  BY InitLinkInv, LinkNext, PTL DEF Spec

\* The handshake is agreed on, for any clients and requests: a firmware still
\* in handShake() finds HandShake first on the line, or nothing.
THEOREM HandShakeAgreed == Spec => []NothingSwallowed
<1>1. LinkInv => NothingSwallowed
  BY DEF LinkInv, HandShakeInv
<1> QED
  BY <1>1, LinkInvariant, PTL

\* The server never gets more than one answer ahead of the firmware, however
\* many commands it has sent.
THEOREM BoundedAhead == Spec => []AtMostOneAhead
<1>1. LinkInv => AtMostOneAhead
  BY DEF LinkInv, AheadInv
<1> QED
  BY <1>1, LinkInvariant, PTL

\* The newest position line always says where the resting firmware is, though
\* the answers may be one behind.
THEOREM NewestTells == Spec => []NewestIsCurrent
<1>1. ASSUME LinkInv PROVE NewestIsCurrent
  <2>1. SUFFICES ASSUME Serving, Resting, Newest.kind = "full"
                 PROVE  Newest = Report(pos)
    BY DEF NewestIsCurrent, Resting
  <2>2. CASE toHost = <<>>
    BY <1>1, <2>1, <2>2 DEF LinkInv, NewestInv, Newest
  <2>3. CASE toHost # <<>>
    BY <1>1, <2>1, <2>3 DEF LinkInv, NewestInv, Newest, ContainsHash
  <2> QED
    BY <2>2, <2>3
<1> QED
  BY <1>1, LinkInvariant, PTL


-----------------------------------------------------------------------------
(* CncLink implements CommandWindow                                        *)

Growing(s) == \A j, k \in 1..Len(s) : j < k => s[j].id < s[k].id

\* Queued commands leave the queue from the front, and their numbers with them.
LEMMA QueueTail ==
  ASSUME LinkInv, queue # <<>>
  PROVE  /\ Head(queue) \in Command /\ Head(queue).id # 0
         /\ Window!First(Head(queue).id, Ids(queue))
         /\ Ids(Tail(queue)) = Ids(queue) \ {Head(queue).id}
         /\ Ids(<<Head(queue)>>) = {Head(queue).id}
<1>1. queue \in Seq(Command) /\ InOrder(queue)
  BY LinkTypes DEF LinkInv, OrderInv, InOrder, Before
<1>2. Head(queue) \in Command /\ Head(queue) = queue[1] /\ 1 \in 1..Len(queue)
  BY <1>1, HeadTail
<1>3. Head(queue).id # 0
  BY <1>2 DEF LinkInv, HandShakeInv
<1> QED
  BY <1>1, <1>2, <1>3, IdsTail, IdsOfOne DEF Window!First


\* When the server may take a command, at most one is committed.
LEMMA OneCommitted ==
  ASSUME LinkInv, cpc = "take"
  PROVE  \A m, n \in Committed : m = n
<1>1. /\ toFw \in Seq(Command) /\ Len(toFw) \in Nat /\ Len(toHost) \in Nat
      /\ buffer \in Command
  BY LinkTypes, SeqView DEF LinkInv
<1>2. Unanswered <= 1
  BY DEF LinkInv, AheadInv, AtMostOneAhead, Serving
<1>3. toFw # <<>> => Head(toFw) = toFw[1] /\ Len(toFw) >= 1
  BY <1>1, HeadTail
<1>4. ASSUME NEW n \in Ids(toFw)
      PROVE  \E j \in 1..Len(toFw) : n = toFw[j].id /\ n # 0
  BY DEF Ids
<1>5. CASE fpc = "exec"
  <2>1. toFw # <<>> => Head(toFw).id # 0
    BY <1>3, <1>5 DEF LinkInv, HandShakeInv, InHandShake
  <2>2. Len(toFw) = 0
    BY <1>1, <1>2, <1>5, <2>1 DEF Unanswered
  <2>3. Ids(toFw) = {}
    BY <1>4, <2>2
  <2> QED
    BY <1>1, <1>5, <2>3, IdsOfOne DEF Committed
<1>6. CASE fpc # "exec"
  <2>1. Committed = Ids(toFw)
    BY <1>6 DEF Committed
  <2>2. CASE toFw # <<>> /\ Head(toFw).id = 0
    <3>1. Len(toFw) <= 2
      BY <1>1, <1>2, <2>2 DEF Unanswered
    <3>2. \A n \in Ids(toFw) : n = toFw[2].id
      BY <1>1, <1>3, <1>4, <2>2, <3>1
    <3> QED
      BY <2>1, <3>2
  <2>3. CASE ~(toFw # <<>> /\ Head(toFw).id = 0)
    <3>1. Len(toFw) <= 1
      BY <1>1, <1>2, <2>3 DEF Unanswered
    <3>2. \A n \in Ids(toFw) : n = toFw[1].id
      BY <1>1, <1>4, <3>1
    <3> QED
      BY <2>1, <3>2
  <2> QED
    BY <2>2, <2>3
<1> QED
  BY <1>5, <1>6

LEMMA WindowFirmware ==
  ASSUME LinkInv, FirmwareStep
  PROVE  Window!WNext \/ UNCHANGED Window!wvars
<1>1. toFw \in Seq(Command) /\ buffer \in Command /\ InOrder(toFw)
  BY LinkTypes DEF LinkInv, OrderInv, InOrder, Before
<1>2. ASSUME fpc # "exec", fpc' # "exec", UNCHANGED <<toFw, queue, accepted, executed, dropped>>
      PROVE  UNCHANGED Window!wvars
  BY <1>2 DEF Window!wvars, Committed
<1>3. CASE HandShakeGetsNothing \/ HandShakePuts \/ Puts
  BY <1>2, <1>3 DEF HandShakeGetsNothing, HandShakePuts, Puts, line, statics, history
<1>4. CASE HandShakeAccept
  <2>1. /\ toFw # <<>> /\ toFw' = Tail(toFw) /\ fpc # "exec" /\ fpc' # "exec"
        /\ executed' = executed \cup Ids(<<Head(toFw)>>)
        /\ UNCHANGED <<queue, accepted, dropped>>
    BY <1>4 DEF HandShakeAccept, statics
  <2>2. Head(toFw) = ServerHandShake
    BY <1>4 DEF HandShakeAccept, LinkInv, HandShakeInv, NothingSwallowed, InHandShake
  <2>3. Ids(<<Head(toFw)>>) = {}
    BY <2>2, CommandData, LineData, IdsOfOne
  <2>4. Ids(toFw') = Ids(toFw)
    <3>1. Ids(Tail(toFw)) = Ids(toFw) \ {Head(toFw).id}
      BY <1>1, <2>1, IdsTail
    <3>2. ~(0 \in Ids(toFw))
      BY DEF Ids
    <3> QED
      BY <2>1, <2>2, <3>1, <3>2, LineData
  <2> QED
    BY <2>1, <2>3, <2>4 DEF Window!wvars, Committed
<1>5. ASSUME HandShakeSwallow PROVE FALSE
  BY <1>5, LineData DEF HandShakeSwallow, LinkInv, HandShakeInv, NothingSwallowed, InHandShake
<1>6. CASE Gets
  <2>1. /\ toFw # <<>> /\ toFw' = Tail(toFw) /\ fpc = "gets" /\ fpc' = "exec"
        /\ buffer' = Head(toFw)
        /\ UNCHANGED <<queue, accepted, executed, dropped>>
    BY <1>6 DEF Gets, statics, history
  <2>2. Head(toFw) \in Command /\ Head(toFw) = toFw[1] /\ 1 \in 1..Len(toFw)
    BY <1>1, <2>1, HeadTail
  <2>3. Head(toFw).id # 0
    BY <2>1, <2>2 DEF LinkInv, HandShakeInv, InHandShake
  <2>4. Ids(<<buffer'>>) = {Head(toFw).id}
    BY <2>1, <2>2, <2>3, IdsOfOne
  <2>5. Committed' = Committed
    BY <1>1, <2>1, <2>3, <2>4, IdsTail DEF Committed
  <2> QED
    BY <2>1, <2>5 DEF Window!wvars
<1>7. CASE Exec
  <2>1. /\ fpc = "exec" /\ fpc' # "exec" /\ executed' = executed \cup Ids(<<buffer>>)
        /\ UNCHANGED <<toFw, queue, accepted, dropped>>
    BY <1>7 DEF Exec, line, statics
  <2>2. Ids(<<buffer>>) = {buffer.id}
    BY <1>1, <2>1, IdsOfOne DEF LinkInv, OrderInv
  <2>3. \A n \in Ids(toFw) : buffer.id <= n /\ n # buffer.id
    <3> SUFFICES ASSUME NEW n \in Ids(toFw) PROVE buffer.id <= n /\ n # buffer.id
      OBVIOUS
    <3>1. \E j \in 1..Len(toFw) : n = toFw[j].id
      BY DEF Ids
    <3>2. PICK j \in 1..Len(toFw) : n = toFw[j].id
      BY <3>1
    <3>3. buffer.id < n /\ n \in Nat /\ buffer.id \in Nat
      BY <1>1, <2>1, <3>2, SeqView, LinkTypes DEF LinkInv, OrderInv
    <3> QED
      BY <3>3
  <2>4. buffer.id \in Nat
    BY LinkTypes DEF LinkInv
  <2>5. Committed = Ids(toFw) \cup {buffer.id} /\ Committed' = Ids(toFw)
    BY <2>1, <2>2 DEF Committed
  <2>6. Window!First(buffer.id, Committed) /\ Committed' = Committed \ {buffer.id}
    BY <2>3, <2>4, <2>5 DEF Window!First
  <2>7. Window!Execute
    BY <2>1, <2>2, <2>5, <2>6 DEF Window!Execute
  <2> QED
    BY <2>7 DEF Window!WNext
<1> QED
  BY <1>3, <1>4, <1>5, <1>6, <1>7 DEF FirmwareStep, FwNext

LEMMA WindowCommunicator ==
  ASSUME LinkInv, CommunicatorStep
  PROVE  Window!WNext \/ UNCHANGED Window!wvars
<1>1. toFw \in Seq(Command) /\ UNCHANGED <<fpc, buffer>>
  BY LinkTypes DEF LinkInv, CommunicatorStep, fwVars
<1>2. ASSUME UNCHANGED <<toFw, queue, accepted, executed, dropped>>
      PROVE  UNCHANGED Window!wvars
  BY <1>1, <1>2 DEF Window!wvars, Committed
<1>3. CASE HandShakeMatch
  <2>1. toFw' = Append(toFw, ServerHandShake) /\ UNCHANGED <<queue, accepted, executed, dropped>>
    BY <1>3 DEF HandShakeMatch, history
  <2>2. Ids(toFw') = Ids(toFw)
    <3>1. Ids(Append(toFw, ServerHandShake)) = Ids(toFw) \cup ({ServerHandShake.id} \ {0})
      BY <1>1, CommandData, IdsAppend
    <3> QED
      BY <2>1, <3>1, LineData
  <2> QED
    BY <1>1, <2>1, <2>2 DEF Window!wvars, Committed
<1>4. CASE \/ HandShakeSkip \/ DrainRead \/ DrainDone \/ CheckQueue \/ Release
           \/ TakeNothing \/ Receive
  BY <1>2, <1>4 DEF HandShakeSkip, DrainRead, DrainDone, CheckQueue, Release,
     TakeNothing, Receive, line, statics, history
<1>5. CASE Take
  <2> DEFINE n == Head(queue).id
  <2>1. /\ queue # <<>> /\ queue' = Tail(queue) /\ cpc = "take"
        /\ UNCHANGED <<accepted, executed>>
        /\ \/ toFw' = toFw /\ dropped' = dropped \cup Ids(<<Head(queue)>>)
           \/ toFw' = Append(toFw, Head(queue)) /\ dropped' = dropped
    BY <1>5 DEF Take
  <2>2. /\ Head(queue) \in Command /\ n # 0
        /\ Window!First(n, Ids(queue)) /\ Ids(queue') = Ids(queue) \ {n}
        /\ Ids(<<Head(queue)>>) = {n}
    BY <2>1, QueueTail
  <2>3. n \in Ids(queue)
    BY <2>2 DEF Window!First
  <2>4. CASE toFw' = toFw /\ dropped' = dropped \cup Ids(<<Head(queue)>>)
    <3>1. Committed' = Committed
      BY <1>1, <2>4 DEF Committed
    <3>2. Window!Discard
      BY <2>1, <2>2, <2>3, <2>4, <3>1 DEF Window!Discard
    <3> QED
      BY <3>2 DEF Window!WNext
  <2>5. CASE toFw' = Append(toFw, Head(queue)) /\ dropped' = dropped
    <3>1. Ids(toFw') = Ids(toFw) \cup {n}
      BY <1>1, <2>2, <2>5, IdsAppend
    <3>2. Committed' = Committed \cup {n}
      BY <1>1, <3>1 DEF Committed
    <3>3. \A l, m \in Committed : l = m
      BY <2>1, OneCommitted
    <3>4. Window!Commit
      BY <2>1, <2>2, <2>3, <2>5, <3>2, <3>3 DEF Window!Commit
    <3> QED
      BY <3>4 DEF Window!WNext
  <2> QED
    BY <2>1, <2>4, <2>5
<1> QED
  BY <1>3, <1>4, <1>5 DEF CommunicatorStep, CommNext


\* A request that queues commands gives them the next numbers.
LEMMA WindowAdd ==
  ASSUME LinkInv, NEW bodies \in Seq(Body), NEW by \in Nat, Add(bodies, by),
         UNCHANGED <<toFw, fpc, buffer, executed, dropped>>
  PROVE  Window!WNext \/ UNCHANGED Window!wvars
<1>1. queue \in Seq(Command) /\ accepted \in Nat /\ Len(queue) \in Nat
  BY LinkTypes, SeqView DEF LinkInv
<1>2. /\ Len(queue') = Len(queue) + Len(bodies) /\ Len(bodies) \in Nat
      /\ accepted' = accepted + Len(bodies)
      /\ \A j \in 1..Len(queue) : queue'[j] = queue[j]
      /\ \A j \in Len(queue) + 1..Len(queue') : queue'[j].id = accepted + (j - Len(queue))
  BY <1>1, AddFacts
<1>3. Committed' = Committed
  BY DEF Committed
<1>4. Ids(queue') = Ids(queue) \cup (accepted + 1 .. accepted')
  BY <1>1, AddIds
<1>5. CASE Len(bodies) = 0
  <2>1. accepted' = accepted /\ accepted + 1 .. accepted' = {}
    BY <1>1, <1>2, <1>5
  <2>2. Ids(queue') = Ids(queue)
    BY <1>4, <2>1
  <2> QED
    BY <1>3, <2>1, <2>2 DEF Window!wvars
<1>6. CASE Len(bodies) # 0
  <2>1. accepted' \in Nat /\ accepted' > accepted
    BY <1>1, <1>2, <1>6
  <2> QED
    BY <1>3, <1>4, <2>1 DEF Window!WNext, Window!Accept
<1> QED
  BY <1>5, <1>6

LEMMA WindowRequest ==
  ASSUME LinkInv, NEW c \in Connections, CtlRequest(c) \/ CtlContinue(c), UNCHANGED <<fwVars, cpc>>
  PROVE  Window!WNext \/ UNCHANGED Window!wvars
<1>1. UNCHANGED <<toFw, fpc, buffer>>
  BY LinkTypes, RequestFacts DEF RequestEffect, LinkInv, line, fwVars
<1>2. CASE \E bodies \in Seq(Body), by \in Nat :
              Add(bodies, by) /\ UNCHANGED <<executed, dropped>>
  BY <1>1, <1>2, WindowAdd
<1>3. CASE /\ queue # <<>> /\ queue' = Tail(queue)
           /\ dropped' = dropped \cup Ids(<<Head(queue)>>)
           /\ UNCHANGED <<accepted, executed>>
  <2>1. /\ Window!First(Head(queue).id, Ids(queue))
        /\ Ids(queue') = Ids(queue) \ {Head(queue).id}
        /\ dropped' = dropped \cup {Head(queue).id}
    BY <1>3, QueueTail
  <2>2. Committed' = Committed /\ Head(queue).id \in Ids(queue)
    BY <1>1, <2>1 DEF Committed, Window!First
  <2> QED
    BY <1>3, <2>1, <2>2 DEF Window!WNext, Window!Discard
<1>4. CASE UNCHANGED <<queue, history>>
  BY <1>1, <1>4 DEF history, Window!wvars, Committed
<1> QED
  BY <1>2, <1>3, <1>4, LinkTypes, RequestFacts DEF RequestEffect, LinkInv

LEMMA WindowNext ==
  ASSUME LinkInv, [Next]_vars
  PROVE  [Window!WNext]_(Window!wvars)
<1>1. CASE UNCHANGED vars
  BY <1>1 DEF vars, line, statics, history, fwVars, Window!wvars, Committed
<1>2. CASE DrainMidLine
  BY <1>2 DEF DrainMidLine, statics, history, Window!wvars, Committed
<1> QED
  BY <1>1, <1>2, WindowFirmware, WindowCommunicator, WindowRequest DEF Next, Request, RequestStep

LEMMA WindowInit == Init => Window!WInit
<1> SUFFICES ASSUME Init PROVE Window!WInit
  OBVIOUS
<1>1. /\ accepted = 0 /\ queue = <<>> /\ toFw = <<>> /\ executed = {} /\ dropped = {}
      /\ fpc = "hsGets"
  BY DEF Init, SharedInit, FwInit
<1>2. Ids(<<>>) = {}
  BY DEF Ids
<1> QED
  BY <1>1, <1>2 DEF Window!WInit, Committed

\* Server, servlets and firmware keep the promise of CommandWindow: every
\* command is executed at most once, in the order of acceptance, with at most
\* two committed, and only queued commands are dropped.
THEOREM ImplementsWindow == Spec => RefinesWindow
  BY WindowInit, WindowNext, LinkInvariant, PTL DEF Spec, RefinesWindow, Window!WSpec

-----------------------------------------------------------------------------
(* What ends the serial thread                                             *)

\* A thread about to take found something in the queue; if that is gone, a
\* stop has taken it, and the thread has not asked the queue since.
Emptied == cpc = "take" /\ queue = <<>>
EndsInv == cpc = "dead" \/ Emptied => robbed

\* Adding to the queue does not empty it.
LEMMA AddKeeps ==
  ASSUME TypeOK, NEW bodies \in Seq(Body), NEW by \in Nat, Add(bodies, by)
  PROVE  queue' = <<>> => queue = <<>>
<1>1. queue \in Seq(Command) /\ accepted \in Nat
  BY DEF TypeOK, SharedTypeOK
<1>2. /\ queue' \in Seq(Command) /\ Len(queue') = Len(queue) + Len(bodies)
      /\ Len(bodies) \in Nat /\ Len(queue) \in Nat
  BY <1>1, AddFacts, SeqView
<1> QED
  BY <1>1, <1>2, SeqView

LEMMA EndsCommunicator ==
  ASSUME EndsInv, CommunicatorStep
  PROVE  EndsInv'
<1>1. CASE cpc' \notin {"take", "dead"}
  BY <1>1 DEF EndsInv, Emptied
<1>2. CASE CheckQueue
  BY <1>2 DEF CheckQueue, EndsInv, Emptied
<1>3. CASE TakeNothing
  <2>1. Emptied /\ (robbed => robbed')
    BY <1>3 DEF TakeNothing, Emptied, CommunicatorStep
  <2> QED
    BY <2>1 DEF EndsInv
<1> QED
  BY <1>1, <1>2, <1>3 DEF CommunicatorStep, CommNext, HandShakeMatch, HandShakeSkip, DrainRead,
     DrainDone, Release, Take, Receive

\* No new request takes anything out of the queue.
LEMMA EndsRequest ==
  ASSUME TypeOK, EndsInv, NEW c \in Connections, CtlRequest(c), UNCHANGED <<cpc, robbed>>
  PROVE  EndsInv'
<1>1. CASE \E bodies \in Seq(Body), by \in Nat : Add(bodies, by)
  BY <1>1, AddKeeps DEF EndsInv, Emptied
<1>2. CASE StopCnc(c)
  BY <1>2 DEF StopCnc, statics, EndsInv, Emptied
<1> QED
  BY <1>1, <1>2, Parts, RequestAsks, AskAdds

\* Of the requests under way only a stop does.
LEMMA EndsContinue ==
  ASSUME TypeOK, EndsInv, NEW c \in Connections, RequestStep(c)
  PROVE  EndsInv'
<1>1. cpc' = cpc /\ (robbed => robbed')
  BY DEF RequestStep
<1>2. CASE ClearPoll(c)
  <2>1. cpc = "take" => robbed'
    BY <1>2 DEF ClearPoll, RequestStep
  <2> QED
    BY <1>1, <2>1 DEF EndsInv, Emptied
<1>3. CASE ZeroMachineHome(c)
  <2>1. [a \in {"x", "y"} |-> 0] \in Targets
    BY DEF Targets
  <2>2. <<GoTo([a \in {"x", "y"} |-> 0])>> \in Seq(Body)
    BY <2>1, CommandData
  <2>3. queue' = <<>> => queue = <<>>
    BY <1>3, <2>2, AddKeeps DEF ZeroMachineHome
  <2> QED
    BY <1>1, <2>3 DEF EndsInv, Emptied
<1>4. CASE SetSpindleRunning(c) \/ SetSession(c) \/ ClearDone(c)
  BY <1>1, <1>4 DEF SetSpindleRunning, SetSession, ClearDone, statics, EndsInv, Emptied
<1> QED
  BY <1>2, <1>3, <1>4 DEF RequestStep, CtlContinue

\* When the serial thread ends, a stop has taken the command it had found in
\* the queue after it had found it: without stops it lives for ever, whoever
\* races and whatever the jobs are.
THEOREM ThreadEndsOnlyByStop == Spec => []EndsOnlyByStop
<1>1. Init => EndsInv
  BY DEF Init, CommInit, EndsInv, Emptied
<1>2. TypeOK /\ EndsInv /\ [Next]_vars => EndsInv'
  <2> SUFFICES ASSUME TypeOK, EndsInv, [Next]_vars PROVE EndsInv'
    OBVIOUS
  <2>1. ASSUME UNCHANGED <<cpc, queue, robbed>> PROVE EndsInv'
    BY <2>1 DEF EndsInv, Emptied
  <2>2. CASE UNCHANGED vars
    BY <2>1, <2>2 DEF vars, statics
  <2>3. CASE FirmwareStep
    <3>1. UNCHANGED <<cpc, queue, robbed>>
      BY <2>3 DEF FirmwareStep, FwNext, HandShakeGetsNothing, HandShakePuts, HandShakeAccept,
         HandShakeSwallow, Gets, Exec, Puts, statics
    <3> QED
      BY <2>1, <3>1
  <2>4. CASE DrainMidLine
    BY <2>4 DEF DrainMidLine, EndsInv, Emptied
  <2>5. CASE CommunicatorStep
    BY <2>5, EndsCommunicator
  <2>6. CASE Request
    BY <2>6, EndsRequest DEF Request
  <2>7. ASSUME NEW c \in Connections, RequestStep(c) PROVE EndsInv'
    BY <2>7, EndsContinue
  <2> QED
    BY <2>2, <2>3, <2>4, <2>5, <2>6, <2>7 DEF Next
<1>3. EndsInv => EndsOnlyByStop
  BY DEF EndsInv, EndsOnlyByStop
<1> QED
  BY <1>1, <1>2, <1>3, TypeCorrect, PTL DEF Spec
=============================================================================
